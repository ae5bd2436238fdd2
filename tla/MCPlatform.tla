------------------------------ MODULE MCPlatform ------------------------------
(* Instances of six parts for TLC that share nothing here: the management    *)
(* of an open position, the evidence hierarchy of a symbol, the persisted    *)
(* setup of a stock or index, the candles asked of the terminal, the scans   *)
(* of the FTMO symbols, and the notifications of a crypto channel.  A        *)
(* behaviour is a behaviour of one of them: part says which.                 *)
EXTENDS PositionManagement, HierarchyEvidence, SharedSetups, BrokerCandles,
        ScanPublication, TLC

CONSTANTS
  Parts,      \* the parts a run checks
  Troubles    \* bound: what may befall a position together

TwoTargets == <<1, 1>>

VARIABLE part

marketVars == <<evidenceVars, setupVars, candleVars>>
scanAndNoticeVars == <<scanVars, noticeVars>>
mcVars == <<managementVars, marketVars, scanAndNoticeVars, part>>

MCInit ==
  /\ ManagementInit /\ EvidenceInit /\ SetupInit /\ CandleInit /\ ScanInit /\ NoticeInit
  /\ part \in Parts

(* A step of one part leaves the others alone.                               *)
Only(p) == part = p /\ UNCHANGED part
PositionOnly == Only("position") /\ UNCHANGED <<marketVars, scanAndNoticeVars>>
MarketOnly(p) == Only(p) /\ UNCHANGED <<managementVars, scanAndNoticeVars>>
EvidenceOnly == MarketOnly("evidence") /\ UNCHANGED <<setupVars, candleVars>>
SetupOnly == MarketOnly("setup") /\ UNCHANGED <<evidenceVars, candleVars>>
CandlesOnly == MarketOnly("candles") /\ UNCHANGED <<evidenceVars, setupVars>>
ScanOnly == Only("scan") /\ UNCHANGED <<managementVars, marketVars, noticeVars>>
NoticeOnly == Only("notice") /\ UNCHANGED <<managementVars, marketVars, scanVars>>

(* Faults, manual proposals, structure levels and outside closes.  A second  *)
(* heartbeat comes only when none has befallen and the first is to advance.  *)
Busy == {h \in Snapshots : ~Stands(h, "idle")}
Overlap ==
  IF Cardinality(Busy) < 2 THEN 0
  ELSE IF \E h \in Busy : Stands(h, "advance") THEN Troubles ELSE Troubles + 1
Befell ==
  Overlap + (IF outrun THEN Troubles ELSE 0)
    + managementFaults + manual + structure
    + Cardinality({n \in 1..Len(account.deals) : account.deals[n].by = <<>>})

MCNext ==
  \/ PositionOnly /\ ManagementNext /\ Befell' <= Troubles
  \/ EvidenceOnly /\ EvidenceNext
  \/ SetupOnly /\ SetupNext
  \/ CandlesOnly /\ CandleNext
  \/ ScanOnly /\ ScanNext
  \/ NoticeOnly /\ NoticeNext

(* The handlers of heartbeats differ in nothing but their name.              *)
HeartbeatSymmetry == Permutations(Snapshots)

MCSpec == MCInit /\ [][MCNext]_mcVars

(* Every part's state is well formed.                                        *)
PlatformTypeOK ==
  /\ ManagementTypeOK /\ EvidenceTypeOK /\ SetupTypeOK /\ CandleTypeOK
  /\ ScanTypeOK /\ NoticeTypeOK

(* What each part promises of its state, stated in its own module.           *)
PlatformSafe ==
  /\ DealsCountOnce /\ OneOperation /\ ExitsNotRepeated  \* position management
  /\ EvidenceChains /\ OneDirection                      \* evidence hierarchy
  /\ CurrentIsStored                                     \* persisted setup
  /\ FetchHasItsAnswer                                   \* terminal candles
  /\ OneApprovalMessage /\ CooldownEarned /\ HealthyIsTrue \* scans
  /\ NoticesInOrder                                      \* notifications of a channel

(* What no step of a part may do, stated in its own module.                  *)
PlatformSteps ==
  /\ ClosedIsFinal /\ HaltedStays
  /\ SetupNotRestored /\ SignalsFrozen
  /\ AnswerStands
=============================================================================
