---------------------------- MODULE SharedSetups ----------------------------
(* The persisted setup of one stock or index (hierarchy/assets.py and        *)
(* approval.py).  An analysis that confirms a setup stores its evidence and   *)
(* then makes it the symbol's current setup; anything else invalidates the   *)
(* current one; approvals and executions read both records.  One process has *)
(* one analysis of a symbol at a time; the other process does not wait, and  *)
(* callers that reject an analysis invalidate without its lock.              *)
EXTENDS Naturals

CONSTANTS
  Analysts,          \* processes that analyse the symbol
  Bundles,           \* ids a confirmed hierarchy may have
  NoBundle, NoEvidence,
  Evidence,          \* contents of a bundle: its entry candle and observed price
  MaxExpiry,         \* bound: instants a setup may expire
  MaxSetupWrites     \* bound: writes of a record

ASSUME SetupAssumption ==
  /\ NoBundle \notin Bundles /\ NoEvidence \notin Evidence
  /\ MaxExpiry \in Nat \ {0} /\ MaxSetupWrites \in Nat

VARIABLES
  current,    \* the symbol's record in CURRENT, version 0 when there is none
  signals,    \* the records in SIGNALS by bundle
  analyst,    \* each process's point and what it holds
  approval    \* a validation: the bundle and evidence it was given, what it read

setupVars == <<current, signals, analyst, approval>>

NoSignal == [evidence |-> NoEvidence, expiry |-> 0, version |-> 0]
NoAnalysis == [at |-> "idle", read |-> 0, bundle |-> NoBundle, evidence |-> NoEvidence,
               expiry |-> 0, prior |-> 0]
NoApproval == [at |-> "idle", bundle |-> NoBundle, evidence |-> NoEvidence, expiry |-> 0]

SetupTypeOK ==
  /\ current \in [bundle : Bundles \cup {NoBundle}, version : 0..MaxSetupWrites]
  /\ \A b \in Bundles : /\ signals[b].evidence \in Evidence \cup {NoEvidence}
                        /\ signals[b].expiry \in 0..MaxExpiry
                        /\ signals[b].version = 0 <=> signals[b].evidence = NoEvidence
  /\ \A p \in Analysts :
       /\ analyst[p].at \in {"idle", "analysing", "confirmed", "changed", "storing", "stored"}
       /\ analyst[p].read \in 0..current.version
  /\ approval.at \in {"idle", "read", "accepted"}

SetupInit ==
  /\ current = [bundle |-> NoBundle, version |-> 0]
  /\ signals = [b \in Bundles |-> NoSignal]
  /\ analyst = [p \in Analysts |-> NoAnalysis]
  /\ approval = NoApproval

At(p, point) == analyst[p].at = point
AnalysisEnds(p) == analyst' = [analyst EXCEPT ![p] = NoAnalysis]
WriteCurrent(b) ==
  /\ current.version < MaxSetupWrites
  /\ current' = [bundle |-> b, version |-> current.version + 1]

-----------------------------------------------------------------------------
(* analyse: the version of the current setup is read before anything else.   *)
BeginAnalysis(p) ==
  /\ At(p, "idle")
  /\ analyst' = [analyst EXCEPT ![p] = [NoAnalysis EXCEPT !.at = "analysing",
                                                         !.read = current.version]]
  /\ UNCHANGED <<current, signals, approval>>

(* _analyse confirms a setup of some bundle and content.                     *)
Confirms(p) ==
  /\ At(p, "analysing")
  /\ \E b \in Bundles, v \in Evidence, t \in 1..MaxExpiry :
       analyst' = [analyst EXCEPT ![p].at = "confirmed", ![p].bundle = b,
                                  ![p].evidence = v, ![p].expiry = t]
  /\ UNCHANGED <<current, signals, approval>>

(* It waits for the next closed candle: the current setup stands.            *)
AwaitsCandle(p) == At(p, "analysing") /\ AnalysisEnds(p) /\ UNCHANGED <<current, signals, approval>>

(* It finds nothing or fails, is cancelled or times out.                     *)
FindsNothing(p) ==
  /\ At(p, "analysing") /\ WriteCurrent(NoBundle) /\ AnalysisEnds(p)
  /\ UNCHANGED <<signals, approval>>

(* A setup already stored must have the same content, and may not live longer. *)
ExpiryKept(mine, prior) ==
  IF prior.version = 0 \/ mine < prior.expiry THEN mine ELSE prior.expiry

ReadSignal(p) ==
  /\ At(p, "confirmed")
  /\ LET a == analyst[p] prior == signals[analyst[p].bundle] IN
       analyst' = [analyst EXCEPT
         ![p].at = IF prior.version > 0 /\ prior.evidence # a.evidence THEN "changed" ELSE "storing",
         ![p].expiry = ExpiryKept(a.expiry, prior),
         ![p].prior = prior.version]
  /\ UNCHANGED <<current, signals, approval>>

InvalidateChanged(p) ==
  /\ At(p, "changed") /\ WriteCurrent(NoBundle) /\ AnalysisEnds(p)
  /\ UNCHANGED <<signals, approval>>

(* Both writes have a version; the one that loses ends the analysis.         *)
StoreSignal(p) ==
  /\ At(p, "storing")
  /\ LET a == analyst[p] IN
       IF signals[a.bundle].version = a.prior /\ a.prior < MaxSetupWrites
       THEN /\ signals' = [signals EXCEPT ![a.bundle] =
                 [evidence |-> a.evidence, expiry |-> a.expiry, version |-> a.prior + 1]]
            /\ analyst' = [analyst EXCEPT ![p].at = "stored"]
       ELSE AnalysisEnds(p) /\ UNCHANGED signals
  /\ UNCHANGED <<current, approval>>

\* Mutant: the current setup is read again before it is written.
CurrentAnyVersion(p) == TRUE
CurrentUnmoved(p) == current.version = analyst[p].read

MakeCurrent(p) ==
  /\ At(p, "stored")
  /\ IF CurrentUnmoved(p) THEN WriteCurrent(analyst[p].bundle) ELSE UNCHANGED current
  /\ AnalysisEnds(p)
  /\ UNCHANGED <<signals, approval>>

(* The process stops, or the storage fails.                                  *)
AnalysisStops(p) ==
  /\ analyst[p].at \in {"confirmed", "changed", "storing", "stored"} /\ AnalysisEnds(p)
  /\ UNCHANGED <<current, signals, approval>>

(* invalidate, by a caller that rejects the analysis of the symbol.          *)
Invalidate == WriteCurrent(NoBundle) /\ UNCHANGED <<signals, analyst, approval>>

-----------------------------------------------------------------------------
(* validate_shared_evidence for evidence somebody holds: the stored setup is *)
(* read, then the current one.                                               *)
ReadStoredSetup ==
  /\ approval.at = "idle"
  /\ \E b \in Bundles : /\ signals[b].version > 0
                        /\ approval' = [at |-> "read", bundle |-> b,
                                        evidence |-> signals[b].evidence, expiry |-> signals[b].expiry]
  /\ UNCHANGED <<current, signals, analyst>>

(* It does not reach further back than the record it has: within its expiry. *)
AcceptEvidence ==
  /\ approval.at = "read"
  /\ approval' = IF current.bundle = approval.bundle THEN [approval EXCEPT !.at = "accepted"]
                 ELSE NoApproval
  /\ UNCHANGED <<current, signals, analyst>>
ApprovalEnds ==
  /\ approval.at = "accepted" /\ approval' = NoApproval
  /\ UNCHANGED <<current, signals, analyst>>

SetupNext ==
  \/ \E p \in Analysts :
       \/ BeginAnalysis(p) \/ Confirms(p) \/ AwaitsCandle(p) \/ FindsNothing(p) \/ ReadSignal(p)
       \/ InvalidateChanged(p) \/ StoreSignal(p) \/ MakeCurrent(p) \/ AnalysisStops(p)
  \/ Invalidate \/ ReadStoredSetup \/ AcceptEvidence \/ ApprovalEnds

SetupSpec == SetupInit /\ [][SetupNext]_setupVars

-----------------------------------------------------------------------------
\* "A concurrent analysis/invalidation wins. Do not let an older observation
\* restore its previous setup" (assets.py:355): a setup becomes current only
\* from an analysis that began after the current record was last changed,
\* whatever another process or an outside invalidation did meanwhile.
SetupNotRestored ==
  [][(current'.bundle # NoBundle /\ current' # current)
       => \E p \in Analysts : At(p, "stored") /\ analyst[p].read = current.version]_setupVars

\* Two processes may confirm the same bundle from different candles: the stored
\* content is never another one, and re-evaluation never extends its lifetime.
SignalsFrozen ==
  [][\A b \in Bundles : signals[b].version > 0
       => /\ signals'[b].evidence = signals[b].evidence
          /\ signals'[b].expiry <= signals[b].expiry]_setupVars

\* What is current, and what an approval accepted, is the stored evidence: the
\* two records are written and read apart, and the pair is still never torn.
CurrentIsStored ==
  /\ current.bundle # NoBundle => signals[current.bundle].version > 0
  /\ approval.at = "accepted" => /\ signals[approval.bundle].evidence = approval.evidence
                                 /\ signals[approval.bundle].expiry <= approval.expiry
=============================================================================
