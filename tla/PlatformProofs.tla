--------------------------- MODULE PlatformProofs ---------------------------
(***************************************************************************)
(* Proofs about the parts of the platform: the persisted setup of a stock  *)
(* or index, the candles asked of the terminal, the scans and the          *)
(* notifications, the evidence hierarchy and the management of a position. *)
(***************************************************************************)
EXTENDS MCPlatform, PositionProofs, FiniteSetTheorems, TLAPS

-----------------------------------------------------------------------------
(* The persisted setup. *)

Carrying == {"confirmed", "changed", "storing", "stored"}
AnalysisState ==
  [at : {"idle", "analysing"} \cup Carrying, read : 0..MaxSetupWrites,
   bundle : Bundles \cup {NoBundle}, evidence : Evidence \cup {NoEvidence},
   expiry : 0..MaxExpiry, prior : 0..MaxSetupWrites]
StoredSignal ==
  [evidence : Evidence \cup {NoEvidence}, expiry : 0..MaxExpiry, version : 0..MaxSetupWrites]
Validation ==
  [at : {"idle", "read", "accepted"}, bundle : Bundles \cup {NoBundle},
   evidence : Evidence \cup {NoEvidence}, expiry : 0..MaxExpiry]
RecordsTyped ==
  /\ current \in [bundle : Bundles \cup {NoBundle}, version : 0..MaxSetupWrites]
  /\ signals \in [Bundles -> StoredSignal]
  /\ analyst \in [Analysts -> AnalysisState] /\ approval \in Validation

\* What process a carries belongs to a bundle; before it stores that, what it
\* read of the bundle is the stored signal, as long as the version stands.
Carried(a) ==
  /\ a.read <= current.version
  /\ a.at \in Carrying => a.bundle \in Bundles /\ a.evidence \in Evidence
  /\ a.at = "storing" =>
       /\ a.prior <= signals[a.bundle].version
       /\ a.prior = signals[a.bundle].version /\ a.prior > 0 =>
            /\ a.evidence = signals[a.bundle].evidence
            /\ a.expiry <= signals[a.bundle].expiry
  /\ a.at = "stored" => signals[a.bundle].version > 0

AnalystsCarry == \A p \in Analysts : Carried(analyst[p])

\* What a validation has read is what is stored, or lived longer then.
ApprovalRead ==
  approval.at # "idle" =>
    /\ approval.bundle \in Bundles /\ signals[approval.bundle].version > 0
    /\ signals[approval.bundle].evidence = approval.evidence
    /\ signals[approval.bundle].expiry <= approval.expiry

SetupInv == RecordsTyped /\ SetupTypeOK /\ AnalystsCarry /\ ApprovalRead /\ CurrentIsStored

\* The versions of both records only grow; a signal that keeps its version is the
\* same; and what is stored of a bundle keeps its content and never lives longer.
VersionsGrow ==
  /\ current.version <= current'.version
  /\ \A b \in Bundles :
       /\ signals[b].version <= signals'[b].version
       /\ signals'[b].version = signals[b].version => signals'[b] = signals[b]
SignalsKept ==
  \A b \in Bundles : signals[b].version > 0
    => /\ signals'[b].evidence = signals[b].evidence
       /\ signals'[b].expiry <= signals[b].expiry

(* The initial records are typed, and nothing is carried or current.         *)
LEMMA SetupInitially == SetupInit => SetupInv
<1> SUFFICES ASSUME SetupInit PROVE SetupInv OBVIOUS
<1> USE DEF SetupInit, NoSignal, NoAnalysis, NoApproval
<1>1. RecordsTyped
  BY SetupAssumption DEF RecordsTyped, AnalysisState, StoredSignal, Validation, Carrying
<1>2. SetupTypeOK
  <2>1. current \in [bundle : Bundles \cup {NoBundle}, version : 0..MaxSetupWrites]
    BY <1>1 DEF RecordsTyped
  <2>2. \A b \in Bundles : signals[b] = NoSignal OBVIOUS
  <2>3. \A p \in Analysts : analyst[p].at = "idle" /\ analyst[p].read = 0 OBVIOUS
  <2> QED BY <2>1, <2>2, <2>3, SetupAssumption DEF SetupTypeOK
<1>3. AnalystsCarry BY SetupAssumption DEF AnalystsCarry, Carried, Carrying
<1>4. ApprovalRead /\ CurrentIsStored BY DEF ApprovalRead, CurrentIsStored
<1> QED BY <1>1, <1>2, <1>3, <1>4 DEF SetupInv

(* What a process carries stays true of it while the versions only grow.     *)
LEMMA CarriedStays ==
  ASSUME RecordsTyped, RecordsTyped', VersionsGrow, NEW p \in Analysts, Carried(analyst[p]),
         analyst'[p] = analyst[p]
  PROVE  Carried(analyst[p])'
<1> DEFINE a == analyst[p]
<1>1. a \in AnalysisState /\ analyst'[p] = a BY DEF RecordsTyped
<1>2. a.read <= current'.version
  <2>1. a.read \in Nat /\ current.version \in Nat /\ current'.version \in Nat
    BY <1>1, SetupAssumption DEF RecordsTyped, AnalysisState
  <2>2. a.read <= current.version /\ current.version <= current'.version
    BY DEF Carried, VersionsGrow
  <2> QED BY <2>1, <2>2
<1>3. ASSUME a.at \in Carrying
      PROVE  /\ a.bundle \in Bundles /\ a.evidence \in Evidence
             /\ signals[a.bundle] \in StoredSignal /\ signals'[a.bundle] \in StoredSignal
             /\ signals[a.bundle].version <= signals'[a.bundle].version
             /\ signals'[a.bundle].version = signals[a.bundle].version
                  => signals'[a.bundle] = signals[a.bundle]
  <2>1. a.bundle \in Bundles /\ a.evidence \in Evidence BY <1>3 DEF Carried
  <2> QED BY <2>1 DEF VersionsGrow, RecordsTyped
<1>4. ASSUME a.at = "storing"
      PROVE  /\ a.prior <= signals'[a.bundle].version
             /\ a.prior = signals'[a.bundle].version /\ a.prior > 0 =>
                  /\ a.evidence = signals'[a.bundle].evidence
                  /\ a.expiry <= signals'[a.bundle].expiry
  <2> DEFINE old == signals[a.bundle]  new == signals'[a.bundle]
  <2>1. old.version <= new.version /\ (new.version = old.version => new = old)
    BY <1>3, <1>4 DEF Carrying
  <2>2. old.version \in Nat /\ new.version \in Nat /\ a.prior \in Nat
    BY <1>1, <1>3, <1>4, SetupAssumption DEF Carrying, StoredSignal, AnalysisState
  <2>3. /\ a.prior <= old.version
        /\ a.prior = old.version /\ a.prior > 0 =>
             a.evidence = old.evidence /\ a.expiry <= old.expiry
    BY <1>4 DEF Carried
  <2> HIDE DEF old, new, a
  <2>4. a.prior <= new.version /\ (a.prior = new.version => a.prior = old.version /\ new = old)
    BY <2>1, <2>2, <2>3
  <2> QED BY <2>3, <2>4 DEF old, new
<1>5. ASSUME a.at = "stored" PROVE signals'[a.bundle].version > 0
  <2>1. signals[a.bundle].version > 0 BY <1>5 DEF Carried
  <2>2. signals[a.bundle].version \in Nat /\ signals'[a.bundle].version \in Nat
    BY <1>3, <1>5, SetupAssumption DEF Carrying, StoredSignal
  <2> QED BY <1>3, <1>5, <2>1, <2>2 DEF Carrying
<1> HIDE DEF a
<1> QED
  <2>1. Carried(a)' <=>
          /\ a'.read <= current'.version
          /\ a'.at \in Carrying => a'.bundle \in Bundles /\ a'.evidence \in Evidence
          /\ a'.at = "storing" =>
               /\ a'.prior <= signals'[a'.bundle].version
               /\ a'.prior = signals'[a'.bundle].version /\ a'.prior > 0 =>
                    /\ a'.evidence = signals'[a'.bundle].evidence
                    /\ a'.expiry <= signals'[a'.bundle].expiry
          /\ a'.at = "stored" => signals'[a'.bundle].version > 0
    BY DEF Carried
  <2>2. a' = a BY <1>1 DEF a
  <2>3. Carried(a)' BY <2>1, <2>2, <1>2, <1>3, <1>4, <1>5
  <2> QED BY <2>3 DEF a, Carried

(* Writing the current record moves its version by one, within the bound.    *)
LEMMA CurrentWritten ==
  ASSUME RecordsTyped, NEW b \in Bundles \cup {NoBundle}, WriteCurrent(b)
  PROVE  /\ current' \in [bundle : Bundles \cup {NoBundle}, version : 0..MaxSetupWrites]
         /\ current'.bundle = b /\ current.version < current'.version
<1>1. current.version \in 0..MaxSetupWrites BY DEF RecordsTyped
<1>2. /\ current.version < MaxSetupWrites
      /\ current' = [bundle |-> b, version |-> current.version + 1]
  BY DEF WriteCurrent
<1>3. current.version + 1 \in 0..MaxSetupWrites BY <1>1, <1>2, SetupAssumption
<1> QED BY <1>1, <1>2, <1>3

(* A process's record stays one when its analysis ends.                      *)
LEMMA AnalysisEnded ==
  ASSUME RecordsTyped, NEW p \in Analysts, AnalysisEnds(p)
  PROVE  /\ analyst' \in [Analysts -> AnalysisState] /\ analyst'[p] = NoAnalysis
         /\ \A q \in Analysts : q # p => analyst'[q] = analyst[q]
<1>1. NoAnalysis \in AnalysisState
  BY SetupAssumption DEF NoAnalysis, AnalysisState
<1> QED BY <1>1 DEF AnalysisEnds, RecordsTyped

(* The re-evaluated expiry is an instant, never later than either it is of.  *)
LEMMA ExpiryBounded ==
  ASSUME NEW mine \in 0..MaxExpiry, NEW prior \in StoredSignal
  PROVE  /\ ExpiryKept(mine, prior) \in 0..MaxExpiry
         /\ prior.version > 0 => ExpiryKept(mine, prior) <= prior.expiry
<1>1. prior.expiry \in 0..MaxExpiry /\ prior.version \in 0..MaxSetupWrites BY DEF StoredSignal
<1>2. CASE prior.version = 0 \/ mine < prior.expiry
  <2>1. ExpiryKept(mine, prior) = mine BY <1>2 DEF ExpiryKept
  <2> QED BY <2>1, <1>1, <1>2, SetupAssumption
<1>3. CASE ~(prior.version = 0 \/ mine < prior.expiry)
  <2>1. ExpiryKept(mine, prior) = prior.expiry BY <1>3 DEF ExpiryKept
  <2> QED BY <2>1, <1>1, <1>3, SetupAssumption
<1> QED BY <1>2, <1>3

(* The updates of a process's record leave it one.                           *)
LEMMA AnalysisBegun ==
  ASSUME NEW a \in AnalysisState, NEW version \in 0..MaxSetupWrites
  PROVE  [a EXCEPT !.at = "analysing", !.read = version] \in AnalysisState
BY DEF AnalysisState
LEMMA SignalWasRead ==
  ASSUME NEW a \in AnalysisState, NEW point \in Carrying,
         NEW version \in 0..MaxSetupWrites, NEW instant \in 0..MaxExpiry
  PROVE  [a EXCEPT !.at = point, !.expiry = instant, !.prior = version] \in AnalysisState
BY DEF AnalysisState

(* Every step keeps the records typed.                                       *)
LEMMA SetupStepTyped ==
  ASSUME RecordsTyped, AnalystsCarry, [SetupNext]_setupVars PROVE RecordsTyped'
<1> USE DEF RecordsTyped
<1>1. CASE UNCHANGED setupVars BY <1>1 DEF setupVars
<1>2. ASSUME NEW p \in Analysts, BeginAnalysis(p) PROVE RecordsTyped'
  <2>1. NoAnalysis \in AnalysisState BY SetupAssumption DEF NoAnalysis, AnalysisState
  <2>2. current.version \in 0..MaxSetupWrites OBVIOUS
  <2>3. [NoAnalysis EXCEPT !.at = "analysing", !.read = current.version] \in AnalysisState
    BY <2>1, <2>2, AnalysisBegun
  <2> QED BY <1>2, <2>3 DEF BeginAnalysis
<1>3. ASSUME NEW p \in Analysts, Confirms(p) PROVE RecordsTyped'
  <2>1. PICK b \in Bundles, v \in Evidence, t \in 1..MaxExpiry :
          analyst' = [analyst EXCEPT ![p].at = "confirmed", ![p].bundle = b,
                                     ![p].evidence = v, ![p].expiry = t]
    BY <1>3 DEF Confirms
  <2>2. t \in 0..MaxExpiry BY SetupAssumption
  <2>3. analyst' = [analyst EXCEPT ![p] = [analyst[p] EXCEPT !.at = "confirmed", !.bundle = b,
                                                             !.evidence = v, !.expiry = t]]
    BY <2>1
  <2>4. [analyst[p] EXCEPT !.at = "confirmed", !.bundle = b, !.evidence = v, !.expiry = t]
          \in AnalysisState
    BY <2>2 DEF AnalysisState, Carrying
  <2> QED BY <1>3, <2>3, <2>4 DEF Confirms
<1>4. ASSUME NEW p \in Analysts, AwaitsCandle(p) \/ AnalysisStops(p) PROVE RecordsTyped'
  BY <1>4, AnalysisEnded DEF AwaitsCandle, AnalysisStops
<1>5. ASSUME NEW p \in Analysts, FindsNothing(p) \/ InvalidateChanged(p) PROVE RecordsTyped'
  BY <1>5, AnalysisEnded, CurrentWritten DEF FindsNothing, InvalidateChanged
<1>6. ASSUME NEW p \in Analysts, ReadSignal(p) PROVE RecordsTyped'
  <2> DEFINE a == analyst[p]  prior == signals[a.bundle]
             next == IF prior.version > 0 /\ prior.evidence # a.evidence
                     THEN "changed" ELSE "storing"
             lifetime == ExpiryKept(a.expiry, prior)
  <2>1. a \in AnalysisState /\ a.bundle \in Bundles
    BY <1>6 DEF ReadSignal, At, AnalystsCarry, Carried, Carrying
  <2>2. prior \in StoredSignal BY <2>1
  <2>3. lifetime \in 0..MaxExpiry /\ prior.version \in 0..MaxSetupWrites
    BY <2>1, <2>2, ExpiryBounded DEF AnalysisState, StoredSignal
  <2>4. analyst' = [analyst EXCEPT ![p] = [a EXCEPT !.at = next, !.expiry = lifetime,
                                                    !.prior = prior.version]]
    BY <1>6 DEF ReadSignal
  <2>5. next \in Carrying BY DEF Carrying
  <2> DEFINE version == prior.version
  <2> HIDE DEF next, lifetime, version
  <2>6. [a EXCEPT !.at = next, !.expiry = lifetime, !.prior = version] \in AnalysisState
    <3> HIDE DEF a, RecordsTyped
    <3>1. version \in 0..MaxSetupWrites BY <2>3 DEF version
    <3> QED BY <2>1, <2>3, <2>5, <3>1, SignalWasRead
  <2>7. analyst' \in [Analysts -> AnalysisState]
    <3> DEFINE new == [a EXCEPT !.at = next, !.expiry = lifetime, !.prior = version]
    <3>1. analyst' = [analyst EXCEPT ![p] = new] BY <2>4 DEF version
    <3>2. new \in AnalysisState BY <2>6
    <3> HIDE DEF new
    <3> QED BY <3>1, <3>2
  <2> QED BY <1>6, <2>7 DEF ReadSignal
<1>7. ASSUME NEW p \in Analysts, StoreSignal(p) PROVE RecordsTyped'
  <2> DEFINE a == analyst[p]
             new == [evidence |-> a.evidence, expiry |-> a.expiry, version |-> a.prior + 1]
  <2>1. UNCHANGED <<current, approval>> BY <1>7 DEF StoreSignal
  <2>2. CASE signals[a.bundle].version = a.prior /\ a.prior < MaxSetupWrites
    <3>1. /\ signals' = [signals EXCEPT ![a.bundle] = new]
          /\ analyst' = [analyst EXCEPT ![p].at = "stored"]
      BY <1>7, <2>2 DEF StoreSignal
    <3>2. a \in AnalysisState OBVIOUS
    <3>3. a.prior + 1 \in 0..MaxSetupWrites
      <4>1. a.prior \in 0..MaxSetupWrites BY <3>2 DEF AnalysisState
      <4> QED BY <4>1, <2>2, SetupAssumption
    <3>4. new \in StoredSignal BY <3>2, <3>3 DEF StoredSignal, AnalysisState
    <3>5. [a EXCEPT !.at = "stored"] \in AnalysisState BY <3>2 DEF AnalysisState, Carrying
    <3>6. analyst' = [analyst EXCEPT ![p] = [a EXCEPT !.at = "stored"]] BY <3>1
    <3> HIDE DEF new, a
    <3>7. signals' \in [Bundles -> StoredSignal] BY <3>1, <3>4
    <3>8. analyst' \in [Analysts -> AnalysisState] BY <3>5, <3>6
    <3> QED BY <2>1, <3>7, <3>8
  <2>3. CASE ~(signals[a.bundle].version = a.prior /\ a.prior < MaxSetupWrites)
    <3>1. AnalysisEnds(p) /\ UNCHANGED signals BY <1>7, <2>3 DEF StoreSignal
    <3> QED BY <2>1, <3>1, AnalysisEnded
  <2> QED BY <2>2, <2>3
<1>8. ASSUME NEW p \in Analysts, MakeCurrent(p) PROVE RecordsTyped'
  <2>1. analyst' \in [Analysts -> AnalysisState] /\ UNCHANGED <<signals, approval>>
    BY <1>8, AnalysisEnded DEF MakeCurrent
  <2>2. analyst[p].bundle \in Bundles \cup {NoBundle} BY DEF AnalysisState
  <2>3. current' \in [bundle : Bundles \cup {NoBundle}, version : 0..MaxSetupWrites]
    BY <1>8, <2>2, CurrentWritten DEF MakeCurrent
  <2> QED BY <2>1, <2>3
<1>9. CASE Invalidate BY <1>9, CurrentWritten DEF Invalidate
<1>10. CASE ReadStoredSetup
  <2>1. PICK b \in Bundles :
          approval' = [at |-> "read", bundle |-> b, evidence |-> signals[b].evidence,
                       expiry |-> signals[b].expiry]
    BY <1>10 DEF ReadStoredSetup
  <2>2. signals[b] \in StoredSignal OBVIOUS
  <2>3. approval' \in Validation BY <2>1, <2>2 DEF Validation, StoredSignal
  <2> QED BY <1>10, <2>3 DEF ReadStoredSetup
<1>11. CASE AcceptEvidence \/ ApprovalEnds
  <2>1. NoApproval \in Validation BY SetupAssumption DEF NoApproval, Validation
  <2>2. [approval EXCEPT !.at = "accepted"] \in Validation BY DEF Validation
  <2>3. approval' \in Validation BY <1>11, <2>1, <2>2 DEF AcceptEvidence, ApprovalEnds
  <2> QED BY <1>11, <2>3 DEF AcceptEvidence, ApprovalEnds
<1> QED
  BY <1>1, <1>2, <1>3, <1>4, <1>5, <1>6, <1>7, <1>8, <1>9, <1>10, <1>11 DEF SetupNext

(* Every step moves the versions forward, and keeps what is stored.          *)
LEMMA SetupStepGrows ==
  ASSUME SetupInv, [SetupNext]_setupVars PROVE VersionsGrow /\ SignalsKept
<1> USE DEF VersionsGrow, SignalsKept
<1>1. RecordsTyped /\ AnalystsCarry BY DEF SetupInv
<1>2. \A b \in Bundles : signals[b].version \in Nat /\ signals[b].expiry \in Nat
  BY <1>1, SetupAssumption DEF RecordsTyped, StoredSignal
<1>3. current.version \in Nat BY <1>1, SetupAssumption DEF RecordsTyped
<1>4. ASSUME UNCHANGED signals, UNCHANGED current \/ current.version < current'.version
      PROVE  VersionsGrow /\ SignalsKept
  <2>1. current.version <= current'.version
    <3>1. CASE UNCHANGED current BY <3>1, <1>3
    <3>2. CASE current.version < current'.version
      <4>1. current'.version \in Nat
        BY SetupStepTyped, <1>1, SetupAssumption DEF RecordsTyped
      <4> QED BY <3>2, <4>1, <1>3
    <3> QED BY <1>4, <3>1, <3>2
  <2>2. \A b \in Bundles : signals[b].version <= signals[b].version
                           /\ signals[b].expiry <= signals[b].expiry
    BY <1>2
  <2> QED BY <1>4, <2>1, <2>2
<1>5. ASSUME NEW p \in Analysts, StoreSignal(p) PROVE VersionsGrow /\ SignalsKept
  <2> DEFINE a == analyst[p]  b == a.bundle
             new == [evidence |-> a.evidence, expiry |-> a.expiry, version |-> a.prior + 1]
  <2>1. UNCHANGED current BY <1>5 DEF StoreSignal
  <2>2. CASE ~(signals[b].version = a.prior /\ a.prior < MaxSetupWrites)
    BY <1>4, <1>5, <2>1, <2>2 DEF StoreSignal
  <2>3. CASE signals[b].version = a.prior /\ a.prior < MaxSetupWrites
    <3>1. signals' = [signals EXCEPT ![b] = new] BY <1>5, <2>3 DEF StoreSignal
    <3>2. a.at = "storing" BY <1>5 DEF StoreSignal, At
    <3>3. /\ b \in Bundles
          /\ a.prior > 0 => a.evidence = signals[b].evidence /\ a.expiry <= signals[b].expiry
      BY <1>1, <2>3, <3>2 DEF AnalystsCarry, Carried, Carrying
    <3>4. signals'[b] = new /\ \A c \in Bundles : c # b => signals'[c] = signals[c]
      BY <3>1, <3>3, <1>1 DEF RecordsTyped
    <3>5. /\ signals[b].version <= new.version /\ new.version # signals[b].version
          /\ signals[b].version > 0 => /\ new.evidence = signals[b].evidence
                                       /\ new.expiry <= signals[b].expiry
      BY <2>3, <3>3, <1>2
    <3>6. \A c \in Bundles : signals[c].version <= signals[c].version
                             /\ signals[c].expiry <= signals[c].expiry
      BY <1>2
    <3>7. current.version <= current'.version BY <2>1, <1>3
    <3> HIDE DEF new, b, a
    <3>8. VersionsGrow BY <3>4, <3>5, <3>6, <3>7
    <3>9. SignalsKept BY <3>4, <3>5, <3>6
    <3> QED BY <3>8, <3>9
  <2> QED BY <2>2, <2>3
<1>6. ASSUME NEW p \in Analysts, MakeCurrent(p) PROVE VersionsGrow /\ SignalsKept
  <2>1. analyst[p].bundle \in Bundles \cup {NoBundle} BY <1>1 DEF RecordsTyped, AnalysisState
  <2> QED BY <1>1, <1>4, <1>6, <2>1, CurrentWritten DEF MakeCurrent
<1>7. ASSUME NEW p \in Analysts, FindsNothing(p) \/ InvalidateChanged(p)
      PROVE  VersionsGrow /\ SignalsKept
  BY <1>1, <1>4, <1>7, CurrentWritten DEF FindsNothing, InvalidateChanged
<1>8. CASE Invalidate BY <1>1, <1>4, <1>8, CurrentWritten DEF Invalidate
<1>9. ASSUME NEW p \in Analysts, BeginAnalysis(p) \/ Confirms(p) \/ AwaitsCandle(p)
                                  \/ ReadSignal(p) \/ AnalysisStops(p)
      PROVE  VersionsGrow /\ SignalsKept
  BY <1>4, <1>9 DEF BeginAnalysis, Confirms, AwaitsCandle, ReadSignal, AnalysisStops
<1>10. CASE ReadStoredSetup \/ AcceptEvidence \/ ApprovalEnds \/ UNCHANGED setupVars
  BY <1>4, <1>10 DEF ReadStoredSetup, AcceptEvidence, ApprovalEnds, setupVars
<1> HIDE DEF VersionsGrow, SignalsKept
<1> QED BY <1>5, <1>6, <1>7, <1>8, <1>9, <1>10 DEF SetupNext

(* Every step leaves what the processes carry true of them.                  *)
LEMMA SetupStepCarries ==
  ASSUME SetupInv, [SetupNext]_setupVars PROVE AnalystsCarry'
<1>1. RecordsTyped /\ AnalystsCarry /\ RecordsTyped' /\ VersionsGrow
  BY SetupStepTyped, SetupStepGrows DEF SetupInv
<1> DEFINE Idle(a) == a.at \in {"idle", "analysing"} /\ a.read <= current'.version
<1>2. ASSUME NEW p \in Analysts, \A q \in Analysts : q # p => analyst'[q] = analyst[q],
             Carried(analyst[p])'
      PROVE  AnalystsCarry'
  <2>1. \A q \in Analysts : Carried(analyst[q])' BY <1>1, <1>2, CarriedStays DEF AnalystsCarry
  <2> QED BY <2>1 DEF AnalystsCarry
<1>3. ASSUME NEW p \in Analysts, Idle(analyst'[p]) PROVE Carried(analyst[p])'
  BY <1>3 DEF Carried, Carrying
<1>4. current'.version \in Nat /\ current.version \in Nat
  BY <1>1, SetupAssumption DEF RecordsTyped
<1>5. ASSUME NEW p \in Analysts, AnalysisEnds(p) PROVE AnalystsCarry'
  <2>1. analyst'[p] = NoAnalysis /\ \A q \in Analysts : q # p => analyst'[q] = analyst[q]
    BY <1>1, <1>5, AnalysisEnded
  <2>2. Idle(analyst'[p]) BY <2>1, <1>4 DEF NoAnalysis
  <2> QED BY <1>2, <1>3, <2>1, <2>2
<1>6. ASSUME UNCHANGED analyst PROVE AnalystsCarry'
  <2>1. \A q \in Analysts : Carried(analyst[q])' BY <1>1, <1>6, CarriedStays DEF AnalystsCarry
  <2> QED BY <2>1 DEF AnalystsCarry
<1>7. ASSUME NEW p \in Analysts, BeginAnalysis(p) PROVE AnalystsCarry'
  <2> DEFINE begun == [NoAnalysis EXCEPT !.at = "analysing", !.read = current.version]
  <2>1. analyst' = [analyst EXCEPT ![p] = begun] /\ UNCHANGED current
    BY <1>7 DEF BeginAnalysis
  <2>2. begun.at = "analysing" /\ begun.read = current.version BY DEF NoAnalysis
  <2>3. analyst \in [Analysts -> AnalysisState] BY <1>1 DEF RecordsTyped
  <2> HIDE DEF begun
  <2>4. analyst'[p] = begun /\ \A q \in Analysts : q # p => analyst'[q] = analyst[q]
    BY <2>1, <2>3
  <2>5. Idle(analyst'[p]) BY <2>1, <2>2, <2>4, <1>4
  <2> QED BY <1>2, <1>3, <2>4, <2>5
<1>8. ASSUME NEW p \in Analysts, Confirms(p) PROVE AnalystsCarry'
  <2>1. PICK b \in Bundles, v \in Evidence, t \in 1..MaxExpiry :
          analyst' = [analyst EXCEPT ![p].at = "confirmed", ![p].bundle = b,
                                     ![p].evidence = v, ![p].expiry = t]
    BY <1>8 DEF Confirms
  <2> DEFINE new == [analyst[p] EXCEPT !.at = "confirmed", !.bundle = b,
                                       !.evidence = v, !.expiry = t]
  <2>2. analyst' = [analyst EXCEPT ![p] = new] /\ UNCHANGED current BY <1>8, <2>1 DEF Confirms
  <2>3. analyst[p] \in AnalysisState BY <1>1 DEF RecordsTyped
  <2>4. /\ new.at = "confirmed" /\ new.bundle \in Bundles /\ new.evidence \in Evidence
        /\ new.read = analyst[p].read
    BY <2>3 DEF AnalysisState
  <2>6. analyst \in [Analysts -> AnalysisState] BY <1>1 DEF RecordsTyped
  <2> HIDE DEF new
  <2>7. analyst'[p] = new /\ \A q \in Analysts : q # p => analyst'[q] = analyst[q]
    BY <2>2, <2>6
  <2>8. analyst[p].read <= current.version BY <1>1 DEF AnalystsCarry, Carried
  <2>9. Carried(analyst[p])' BY <2>2, <2>4, <2>7, <2>8 DEF Carried, Carrying
  <2> QED BY <1>2, <2>7, <2>9
<1>9. ASSUME NEW p \in Analysts, ReadSignal(p) PROVE AnalystsCarry'
  <2> DEFINE a == analyst[p]  prior == signals[a.bundle]
             next == IF prior.version > 0 /\ prior.evidence # a.evidence
                     THEN "changed" ELSE "storing"
             lifetime == ExpiryKept(a.expiry, prior)
             new == [a EXCEPT !.at = next, !.expiry = lifetime, !.prior = prior.version]
  <2>1. a \in AnalysisState /\ a.at = "confirmed"
    BY <1>1, <1>9 DEF RecordsTyped, ReadSignal, At
  <2>2. a.bundle \in Bundles /\ a.evidence \in Evidence /\ a.read <= current.version
    BY <1>1, <2>1 DEF AnalystsCarry, Carried, Carrying
  <2>3. prior \in StoredSignal BY <1>1, <2>2 DEF RecordsTyped
  <2>4. analyst' = [analyst EXCEPT ![p] = new] /\ UNCHANGED <<current, signals>>
    BY <1>9 DEF ReadSignal
  <2>5. /\ new.at = next /\ new.expiry = lifetime /\ new.prior = prior.version
        /\ new.bundle = a.bundle /\ new.evidence = a.evidence /\ new.read = a.read
    BY <2>1 DEF AnalysisState
  <2>6. prior.version > 0 => lifetime <= prior.expiry
    BY <2>1, <2>3, ExpiryBounded DEF AnalysisState
  <2>7. next \in {"changed", "storing"} /\ (next = "storing" /\ prior.version > 0
                                            => prior.evidence = a.evidence)
    OBVIOUS
  <2>8. prior.version \in Nat /\ prior.version <= prior.version
    BY <2>3, SetupAssumption DEF StoredSignal
  <2>9. analyst \in [Analysts -> AnalysisState] BY <1>1 DEF RecordsTyped
  <2> HIDE DEF new, next, lifetime
  <2>10. analyst'[p] = new /\ \A q \in Analysts : q # p => analyst'[q] = analyst[q]
    BY <2>4, <2>9
  <2>11. new.prior = signals'[new.bundle].version /\ signals'[new.bundle] = prior
    BY <2>4, <2>5
  <2>12. /\ new.read <= current'.version
         /\ new.at \in {"changed", "storing"} /\ new.bundle \in Bundles /\ new.evidence \in Evidence
         /\ new.at = "storing" =>
              /\ new.prior <= prior.version
              /\ new.prior = prior.version /\ new.prior > 0
                   => new.evidence = prior.evidence /\ new.expiry <= prior.expiry
    BY <2>2, <2>4, <2>5, <2>6, <2>7, <2>8
  <2> HIDE DEF prior, a
  <2>13. Carried(analyst[p])' BY <2>10, <2>11, <2>12 DEF Carried, Carrying
  <2> QED BY <1>2, <2>10, <2>13
<1>10. ASSUME NEW p \in Analysts, StoreSignal(p) PROVE AnalystsCarry'
  <2> DEFINE a == analyst[p]
             stored == [evidence |-> a.evidence, expiry |-> a.expiry, version |-> a.prior + 1]
             new == [a EXCEPT !.at = "stored"]
  <2>1. CASE AnalysisEnds(p) BY <1>5, <2>1
  <2>2. CASE signals[a.bundle].version = a.prior /\ a.prior < MaxSetupWrites
    <3>1. /\ signals' = [signals EXCEPT ![a.bundle] = stored]
          /\ analyst' = [analyst EXCEPT ![p] = new] /\ UNCHANGED current
      BY <1>10, <2>2 DEF StoreSignal
    <3>2. a \in AnalysisState /\ a.at = "storing" BY <1>1, <1>10 DEF RecordsTyped, StoreSignal, At
    <3>3. a.bundle \in Bundles /\ a.evidence \in Evidence /\ a.read <= current.version
      BY <1>1, <3>2 DEF AnalystsCarry, Carried, Carrying
    <3>4. stored.version > 0 BY <3>2, SetupAssumption DEF AnalysisState
    <3>5. /\ new.at = "stored" /\ new.bundle = a.bundle /\ new.evidence = a.evidence
          /\ new.read = a.read
      BY <3>2 DEF AnalysisState
    <3>6. analyst \in [Analysts -> AnalysisState] /\ signals \in [Bundles -> StoredSignal]
      BY <1>1 DEF RecordsTyped
    <3> HIDE DEF new, stored, a
    <3>7. analyst'[p] = new /\ \A q \in Analysts : q # p => analyst'[q] = analyst[q]
      BY <3>1, <3>6
    <3>8. signals'[new.bundle] = stored BY <3>1, <3>3, <3>5, <3>6
    <3>9. Carried(analyst[p])'
      BY <3>1, <3>3, <3>4, <3>5, <3>7, <3>8 DEF Carried, Carrying
    <3> QED BY <1>2, <3>7, <3>9
  <2> QED BY <1>10, <2>1, <2>2 DEF StoreSignal
<1>11. ASSUME NEW p \in Analysts, AwaitsCandle(p) \/ FindsNothing(p) \/ InvalidateChanged(p)
                                   \/ MakeCurrent(p) \/ AnalysisStops(p)
       PROVE  AnalystsCarry'
  BY <1>5, <1>11 DEF AwaitsCandle, FindsNothing, InvalidateChanged, MakeCurrent, AnalysisStops
<1>12. CASE Invalidate \/ ReadStoredSetup \/ AcceptEvidence \/ ApprovalEnds
              \/ UNCHANGED setupVars
  BY <1>6, <1>12 DEF Invalidate, ReadStoredSetup, AcceptEvidence, ApprovalEnds, setupVars
<1> QED BY <1>7, <1>8, <1>9, <1>10, <1>11, <1>12 DEF SetupNext

(* A signal has a version exactly when it has contents, before and after.    *)
LEMMA SetupStepTypeOK ==
  ASSUME SetupInv, [SetupNext]_setupVars PROVE SetupTypeOK'
<1>1. /\ RecordsTyped /\ AnalystsCarry /\ SetupTypeOK
      /\ RecordsTyped' /\ AnalystsCarry'
  BY SetupStepTyped, SetupStepCarries DEF SetupInv
<1> DEFINE Matched(s) == s.version = 0 <=> s.evidence = NoEvidence
<1>2. \A b \in Bundles : Matched(signals'[b])
  <2>1. \A b \in Bundles : Matched(signals[b]) BY <1>1 DEF SetupTypeOK
  <2>2. CASE UNCHANGED signals BY <2>1, <2>2
  <2>3. ASSUME NEW p \in Analysts, StoreSignal(p) PROVE \A b \in Bundles : Matched(signals'[b])
    <3> DEFINE a == analyst[p]
               new == [evidence |-> a.evidence, expiry |-> a.expiry, version |-> a.prior + 1]
    <3>1. UNCHANGED signals \/ signals' = [signals EXCEPT ![a.bundle] = new]
      BY <2>3 DEF StoreSignal
    <3>2. a \in AnalysisState /\ a.at = "storing" BY <1>1, <2>3 DEF RecordsTyped, StoreSignal, At
    <3>3. a.evidence \in Evidence BY <1>1, <3>2 DEF AnalystsCarry, Carried, Carrying
    <3>4. a.prior + 1 # 0 BY <3>2, SetupAssumption DEF AnalysisState
    <3>5. Matched(new) BY <3>3, <3>4, SetupAssumption
    <3>6. signals \in [Bundles -> StoredSignal] BY <1>1 DEF RecordsTyped
    <3> HIDE DEF new, a
    <3> QED BY <2>1, <3>1, <3>5, <3>6
  <2>4. UNCHANGED signals \/ \E p \in Analysts : StoreSignal(p)
    BY DEF SetupNext, setupVars, BeginAnalysis, Confirms, AwaitsCandle, FindsNothing, ReadSignal,
           InvalidateChanged, MakeCurrent, AnalysisStops, Invalidate, ReadStoredSetup,
           AcceptEvidence, ApprovalEnds
  <2> QED BY <2>2, <2>3, <2>4
<1>3. \A b \in Bundles : /\ signals'[b].evidence \in Evidence \cup {NoEvidence}
                         /\ signals'[b].expiry \in 0..MaxExpiry
  BY <1>1 DEF RecordsTyped, StoredSignal
<1>4. ASSUME NEW p \in Analysts
      PROVE  /\ analyst'[p].at \in
                  {"idle", "analysing", "confirmed", "changed", "storing", "stored"}
             /\ analyst'[p].read \in 0..current'.version
  <2> DEFINE a == analyst'[p]
  <2>1. a \in AnalysisState /\ a.read <= current'.version
    BY <1>1 DEF RecordsTyped, AnalystsCarry, Carried
  <2>2. a.read \in Nat /\ current'.version \in Nat
    BY <1>1, <2>1, SetupAssumption DEF RecordsTyped, AnalysisState
  <2> QED BY <2>1, <2>2 DEF AnalysisState, Carrying
<1>5. /\ current' \in [bundle : Bundles \cup {NoBundle}, version : 0..MaxSetupWrites]
      /\ approval'.at \in {"idle", "read", "accepted"}
  BY <1>1 DEF RecordsTyped, Validation
<1> QED BY <1>2, <1>3, <1>4, <1>5 DEF SetupTypeOK

(* What a validation read stays what is stored.                              *)
LEMMA SetupStepApproval ==
  ASSUME SetupInv, [SetupNext]_setupVars PROVE ApprovalRead'
<1>1. /\ RecordsTyped /\ RecordsTyped' /\ AnalystsCarry /\ ApprovalRead
      /\ VersionsGrow /\ SignalsKept
  BY SetupStepTyped, SetupStepGrows DEF SetupInv
<1>2. \A b \in Bundles :
        /\ signals[b].version \in Nat /\ signals'[b].version \in Nat
        /\ signals[b].expiry \in Nat /\ signals'[b].expiry \in Nat
  BY <1>1, SetupAssumption DEF RecordsTyped, StoredSignal
<1>3. ASSUME /\ approval'.at # "idle"
             /\ approval'.bundle \in Bundles /\ signals[approval'.bundle].version > 0
             /\ signals[approval'.bundle].evidence = approval'.evidence
             /\ signals[approval'.bundle].expiry <= approval'.expiry
      PROVE  ApprovalRead'
  <2> DEFINE b == approval'.bundle
  <2>1. approval'.expiry \in Nat BY <1>1, SetupAssumption DEF RecordsTyped, Validation
  <2>2. signals[b].version <= signals'[b].version BY <1>1, <1>3 DEF VersionsGrow
  <2>3. /\ signals'[b].evidence = signals[b].evidence
        /\ signals'[b].expiry <= signals[b].expiry
    BY <1>1, <1>3 DEF SignalsKept
  <2>4. signals'[b].version > 0 BY <1>2, <1>3, <2>2
  <2>5. signals'[b].expiry <= approval'.expiry BY <1>2, <1>3, <2>1, <2>3
  <2> QED BY <1>3, <2>3, <2>4, <2>5 DEF ApprovalRead
<1>4. CASE approval'.at = "idle" BY <1>4 DEF ApprovalRead
<1>5. CASE UNCHANGED approval
  <2>1. CASE approval.at = "idle" BY <1>4, <1>5, <2>1
  <2>2. CASE approval.at # "idle" BY <1>1, <1>3, <1>5, <2>2 DEF ApprovalRead
  <2> QED BY <2>1, <2>2
<1>6. CASE ReadStoredSetup
  <2>1. PICK b \in Bundles :
          /\ signals[b].version > 0
          /\ approval' = [at |-> "read", bundle |-> b, evidence |-> signals[b].evidence,
                          expiry |-> signals[b].expiry]
    BY <1>6 DEF ReadStoredSetup
  <2>2. signals[b].expiry <= signals[b].expiry BY <1>2
  <2> QED BY <1>3, <2>1, <2>2
<1>7. CASE AcceptEvidence
  <2>1. CASE approval' = NoApproval BY <1>4, <2>1 DEF NoApproval
  <2>2. CASE approval' = [approval EXCEPT !.at = "accepted"]
    <3>1. approval.at = "read" BY <1>7 DEF AcceptEvidence
    <3>2. /\ approval'.at = "accepted" /\ approval'.bundle = approval.bundle
          /\ approval'.evidence = approval.evidence /\ approval'.expiry = approval.expiry
      BY <1>1, <2>2 DEF RecordsTyped, Validation
    <3> QED BY <1>1, <1>3, <3>1, <3>2 DEF ApprovalRead
  <2> QED BY <1>7, <2>1, <2>2 DEF AcceptEvidence
<1>8. CASE ApprovalEnds BY <1>4, <1>8 DEF ApprovalEnds, NoApproval
<1>9. ReadStoredSetup \/ AcceptEvidence \/ ApprovalEnds \/ UNCHANGED approval
  BY DEF SetupNext, setupVars, BeginAnalysis, Confirms, AwaitsCandle, FindsNothing, ReadSignal,
         InvalidateChanged, StoreSignal, MakeCurrent, AnalysisStops, Invalidate
<1> QED BY <1>5, <1>6, <1>7, <1>8, <1>9

(* What becomes current was stored by the process that makes it so, and what *)
(* is stored stays.                                                          *)
LEMMA SetupStepCurrent ==
  ASSUME SetupInv, [SetupNext]_setupVars PROVE CurrentIsStored'
<1>1. /\ RecordsTyped /\ RecordsTyped' /\ AnalystsCarry /\ CurrentIsStored
      /\ VersionsGrow /\ SignalsKept /\ ApprovalRead'
  BY SetupStepTyped, SetupStepGrows, SetupStepApproval DEF SetupInv
<1>2. \A b \in Bundles : signals[b].version \in Nat /\ signals'[b].version \in Nat
  BY <1>1, SetupAssumption DEF RecordsTyped, StoredSignal
<1>3. ASSUME current'.bundle # NoBundle PROVE signals'[current'.bundle].version > 0
  <2> DEFINE b == current'.bundle
  <2>1. b \in Bundles BY <1>1, <1>3 DEF RecordsTyped
  <2>2. ASSUME signals[b].version > 0 PROVE signals'[b].version > 0
    BY <1>1, <1>2, <2>1, <2>2 DEF VersionsGrow
  <2>3. CASE UNCHANGED current BY <1>1, <1>3, <2>2, <2>3 DEF CurrentIsStored
  <2>4. CASE \E p \in Analysts : MakeCurrent(p)
    <3>1. PICK p \in Analysts : MakeCurrent(p) BY <2>4
    <3>2. analyst[p].at = "stored" BY <3>1 DEF MakeCurrent, At
    <3>3. signals[analyst[p].bundle].version > 0 BY <1>1, <3>2 DEF AnalystsCarry, Carried
    <3>4. analyst[p].bundle \in Bundles
      BY <1>1, <3>2 DEF AnalystsCarry, Carried, Carrying
    <3>5. UNCHANGED current \/ current'.bundle = analyst[p].bundle
      BY <1>1, <3>1, <3>4, CurrentWritten DEF MakeCurrent
    <3> QED BY <2>2, <2>3, <3>3, <3>5
  <2>5. CASE WriteCurrent(NoBundle) BY <1>1, <1>3, <2>5, CurrentWritten
  <2>6. UNCHANGED current \/ WriteCurrent(NoBundle) \/ \E p \in Analysts : MakeCurrent(p)
    BY DEF SetupNext, setupVars, BeginAnalysis, Confirms, AwaitsCandle, FindsNothing, ReadSignal,
           InvalidateChanged, StoreSignal, AnalysisStops, Invalidate, ReadStoredSetup,
           AcceptEvidence, ApprovalEnds
  <2> QED BY <2>3, <2>4, <2>5, <2>6
<1>4. ASSUME approval'.at = "accepted"
      PROVE  /\ signals'[approval'.bundle].evidence = approval'.evidence
             /\ signals'[approval'.bundle].expiry <= approval'.expiry
  BY <1>1, <1>4 DEF ApprovalRead
<1> QED BY <1>3, <1>4 DEF CurrentIsStored

(* A setup becomes current from an analysis that read the current version.   *)
LEMMA SetupStepNotRestored ==
  ASSUME SetupInv, [SetupNext]_setupVars, current'.bundle # NoBundle, current' # current
  PROVE  \E p \in Analysts : At(p, "stored") /\ analyst[p].read = current.version
<1>1. \E p \in Analysts : MakeCurrent(p)
  <2>1. ~WriteCurrent(NoBundle) BY CurrentWritten DEF SetupInv
  <2> QED
    BY <2>1 DEF SetupNext, setupVars, BeginAnalysis, Confirms, AwaitsCandle, FindsNothing,
           ReadSignal, InvalidateChanged, StoreSignal, AnalysisStops, Invalidate, ReadStoredSetup,
           AcceptEvidence, ApprovalEnds
<1> QED BY <1>1 DEF MakeCurrent, CurrentUnmoved

(* The invariant of the persisted setup is inductive.                        *)
LEMMA SetupInductive == SetupInv /\ [SetupNext]_setupVars => SetupInv'
BY SetupStepTyped, SetupStepTypeOK, SetupStepCarries, SetupStepApproval, SetupStepCurrent
DEF SetupInv

\* The setup of a stock or index that is current, and the evidence an approval
\* accepted, are what is stored: for any number of processes, bundles and
\* contents, the two records written and read apart are never torn.
THEOREM CurrentSetupIsStored == SetupSpec => []CurrentIsStored
<1>1. SetupInv => CurrentIsStored BY DEF SetupInv
<1> QED BY <1>1, SetupInitially, SetupInductive, PTL DEF SetupSpec

\* A concurrent analysis or invalidation wins: no analysis restores the setup it
\* observed before the current record last changed.
THEOREM NeverRestored == SetupSpec => SetupNotRestored
<1>1. SetupInv /\ [SetupNext]_setupVars =>
        [(current'.bundle # NoBundle /\ current' # current)
           => \E p \in Analysts : At(p, "stored") /\ analyst[p].read = current.version]_setupVars
  BY SetupStepNotRestored
<1> QED BY <1>1, SetupInitially, SetupInductive, PTL DEF SetupSpec, SetupNotRestored

\* What is stored of a bundle never changes its content or lives longer, however
\* many processes confirm the bundle again.
THEOREM StoredSignalsFrozen == SetupSpec => SignalsFrozen
<1>1. SetupInv /\ [SetupNext]_setupVars =>
        [\A b \in Bundles : signals[b].version > 0
           => /\ signals'[b].evidence = signals[b].evidence
              /\ signals'[b].expiry <= signals[b].expiry]_setupVars
  BY SetupStepGrows DEF SignalsKept
<1> QED BY <1>1, SetupInitially, SetupInductive, PTL DEF SetupSpec, SignalsFrozen

-----------------------------------------------------------------------------
(* The candles asked of the terminal. *)

Requests == [state : {"absent", "pending", "received", "deleted"}, over : BOOLEAN, old : BOOLEAN,
             response : Batches \cup {NoBatch}]
Answers == {NoAnswer} \cup [request : Fetches, batch : Batches, read : BOOLEAN]

\* What an analysis took is the answer its request had, and nobody takes one that
\* was never accepted.
Taken(f) ==
  /\ demand[f].state = "received" => demand[f].response \in Batches
  /\ fetched[f] \in Batches =>
       /\ demand[f].state \in {"received", "deleted"}
       /\ demand[f].state = "received" => demand[f].response = fetched[f]
CandleInv ==
  /\ demand \in [Fetches -> Requests]
  /\ fetched \in [Fetches -> {"no", "waiting", "gave_up"} \cup Batches]
  /\ accepting \in [Accepts -> Answers]
  /\ order \in [Fetches -> 0..Cardinality(Fetches)] /\ answers \in 0..MaxAnswers
  /\ \A f \in Fetches : Taken(f)

(* Nothing is asked or answered at first.                                    *)
LEMMA CandleInitially == CandleInit => CandleInv
<1> SUFFICES ASSUME CandleInit PROVE CandleInv OBVIOUS
<1> DEFINE absent == [state |-> "absent", over |-> FALSE, old |-> FALSE, response |-> NoBatch]
<1>1. absent \in Requests BY DEF Requests
<1>2. Cardinality(Fetches) \in Nat BY CandleAssumption, FS_CardinalityType
<1>3. demand = [f \in Fetches |-> absent] BY DEF CandleInit
<1>4. absent.state = "absent" OBVIOUS
<1> HIDE DEF absent
<1>5. demand \in [Fetches -> Requests] BY <1>1, <1>3
<1>6. \A f \in Fetches : Taken(f)
  <2> TAKE f \in Fetches
  <2>1. demand[f].state = "absent" /\ fetched[f] = "no" BY <1>3, <1>4 DEF CandleInit
  <2>2. fetched[f] \notin Batches BY <2>1, CandleAssumption
  <2> QED BY <2>1, <2>2 DEF Taken
<1>7. answers \in 0..MaxAnswers BY CandleAssumption DEF CandleInit
<1>8. order \in [Fetches -> 0..Cardinality(Fetches)] BY <1>2 DEF CandleInit
<1> QED BY <1>5, <1>6, <1>7, <1>8 DEF CandleInit, CandleInv, Answers

(* An answer under way is for a request and has a batch.                     *)
LEMMA AnswerIs ==
  ASSUME CandleInv, NEW a \in Accepts, accepting[a] # NoAnswer
  PROVE  accepting[a] \in [request : Fetches, batch : Batches, read : BOOLEAN]
BY DEF CandleInv, Answers

(* A step of one request leaves the others alone.                            *)
LEMMA OneRequest ==
  ASSUME CandleInv, NEW f \in Fetches, NEW r \in Requests,
         NEW took \in {"no", "waiting", "gave_up"} \cup Batches,
         demand' = [demand EXCEPT ![f] = r], fetched' = [fetched EXCEPT ![f] = took],
         r.state = "received" => r.response \in Batches,
         took \in Batches => /\ r.state \in {"received", "deleted"}
                             /\ r.state = "received" => r.response = took
  PROVE  /\ demand' \in [Fetches -> Requests]
         /\ fetched' \in [Fetches -> {"no", "waiting", "gave_up"} \cup Batches]
         /\ \A g \in Fetches : Taken(g)'
<1>1. demand \in [Fetches -> Requests] /\ \A g \in Fetches : Taken(g)
      /\ fetched \in [Fetches -> {"no", "waiting", "gave_up"} \cup Batches]
  BY DEF CandleInv
<1>2. demand' \in [Fetches -> Requests]
      /\ fetched' \in [Fetches -> {"no", "waiting", "gave_up"} \cup Batches]
  BY <1>1
<1>3. ASSUME NEW g \in Fetches PROVE Taken(g)'
  <2>1. CASE g = f
    <3>1. demand'[g] = r /\ fetched'[g] = took BY <1>1, <2>1
    <3> QED BY <3>1 DEF Taken
  <2>2. CASE g # f
    <3>1. demand'[g] = demand[g] /\ fetched'[g] = fetched[g] /\ Taken(g) BY <1>1, <2>2
    <3> QED BY <3>1 DEF Taken
  <2> QED BY <2>1, <2>2
<1> QED BY <1>2, <1>3

(* A request gets the next number of those that were stored.                 *)
LEMMA NextNumber ==
  ASSUME CandleInv, NEW f \in Fetches, demand[f].state = "absent"
  PROVE  Cardinality(Asked) + 1 \in 0..Cardinality(Fetches)
<1>1. IsFiniteSet(Fetches) BY CandleAssumption
<1>2. Asked \subseteq Fetches /\ f \notin Asked BY DEF Asked
<1>3. IsFiniteSet(Asked) /\ Cardinality(Asked) \in Nat /\ Cardinality(Fetches) \in Nat
  BY <1>1, <1>2, FS_Subset, FS_CardinalityType
<1>4. Cardinality(Asked \cup {f}) = Cardinality(Asked) + 1 BY <1>2, <1>3, FS_AddElement
<1>5. Asked \cup {f} \subseteq Fetches BY <1>2
<1>6. Cardinality(Asked \cup {f}) <= Cardinality(Fetches) BY <1>1, <1>5, FS_Subset
<1> QED BY <1>3, <1>4, <1>6

(* Only a request that has no answer gets one, and a deleted one stays so.   *)
RequestStands(f) ==
  /\ demand[f].state = "received" => \/ demand'[f].response = demand[f].response
                                     \/ demand'[f].state = "deleted"
  /\ demand[f].state = "deleted" => demand'[f].state = "deleted"

(* The steps of an analysis and of the store's clock, with one request each. *)
LEMMA FetchStep ==
  ASSUME CandleInv, NEW f \in Fetches,
         \/ FetchBegins(f) \/ FetchPolls(f) \/ FetchTimesOut(f)
         \/ NextRequestDeletes(f) \/ DemandExpires(f) \/ DemandAges(f)
  PROVE  CandleInv' /\ \A g \in Fetches : RequestStands(g)
<1>1. /\ demand \in [Fetches -> Requests]
      /\ fetched \in [Fetches -> {"no", "waiting", "gave_up"} \cup Batches]
      /\ Taken(f)
  BY DEF CandleInv
<1>2. PICK old \in Requests : old = demand[f] BY <1>1
<1>3. PICK had \in {"no", "waiting", "gave_up"} \cup Batches : had = fetched[f] BY <1>1
<1>4. /\ old.state = "received" => old.response \in Batches
      /\ had \in Batches => /\ old.state \in {"received", "deleted"}
                            /\ old.state = "received" => old.response = had
  BY <1>1, <1>2, <1>3 DEF Taken
<1> DEFINE Changed(r, took) ==
             /\ demand' = [demand EXCEPT ![f] = r] /\ fetched' = [fetched EXCEPT ![f] = took]
             /\ r.state = "received" => r.response \in Batches
             /\ took \in Batches => /\ r.state \in {"received", "deleted"}
                                    /\ r.state = "received" => r.response = took
             /\ old.state = "received" => r.response = old.response \/ r.state = "deleted"
             /\ old.state = "deleted" => r.state = "deleted"
<1>5. fetched = [fetched EXCEPT ![f] = had] /\ demand = [demand EXCEPT ![f] = old]
  BY <1>1, <1>2, <1>3
<1>6. \E r \in Requests, took \in {"no", "waiting", "gave_up"} \cup Batches : Changed(r, took)
  <2>1. CASE FetchBegins(f)
    <3> DEFINE r == [old EXCEPT !.state = "pending"]
    <3>1. r \in Requests /\ r.state = "pending" BY DEF Requests
    <3>2. demand' = [demand EXCEPT ![f] = r] BY <1>2, <2>1 DEF FetchBegins
    <3>3. fetched' = [fetched EXCEPT ![f] = "waiting"] /\ old.state = "absent"
      BY <1>2, <2>1 DEF FetchBegins
    <3>4. "waiting" \notin Batches BY CandleAssumption
    <3> QED BY <3>1, <3>2, <3>3, <3>4
  <2>2. CASE FetchPolls(f)
    <3>1. old.state = "received" /\ fetched' = [fetched EXCEPT ![f] = old.response]
          /\ demand' = [demand EXCEPT ![f] = old]
      BY <1>2, <1>5, <2>2 DEF FetchPolls
    <3>2. old.response \in Batches BY <1>4, <3>1
    <3> QED BY <3>1, <3>2
  <2>3. CASE FetchTimesOut(f)
    <3>1. fetched' = [fetched EXCEPT ![f] = "gave_up"] /\ demand' = [demand EXCEPT ![f] = old]
      BY <1>5, <2>3 DEF FetchTimesOut
    <3>2. "gave_up" \notin Batches BY CandleAssumption
    <3> QED BY <1>4, <3>1, <3>2
  <2>4. CASE NextRequestDeletes(f)
    <3> DEFINE r == [old EXCEPT !.state = "deleted", !.old = FALSE, !.response = NoBatch]
    <3>1. r \in Requests /\ r.state = "deleted" BY DEF Requests
    <3>2. demand' = [demand EXCEPT ![f] = r] BY <1>2, <2>4 DEF NextRequestDeletes
    <3>3. fetched' = [fetched EXCEPT ![f] = had] BY <1>5, <2>4 DEF NextRequestDeletes
    <3> QED BY <3>1, <3>2, <3>3
  <2>5. CASE DemandExpires(f)
    <3> DEFINE r == [old EXCEPT !.over = TRUE]
    <3>1. r \in Requests /\ r.state = old.state /\ r.response = old.response BY DEF Requests
    <3>2. demand' = [demand EXCEPT ![f] = r] BY <1>2, <2>5 DEF DemandExpires
    <3>3. fetched' = [fetched EXCEPT ![f] = had] BY <1>5, <2>5 DEF DemandExpires
    <3> HIDE DEF r
    <3> QED BY <1>4, <3>1, <3>2, <3>3
  <2>6. CASE DemandAges(f)
    <3> DEFINE r == [old EXCEPT !.old = TRUE]
    <3>1. r \in Requests /\ r.state = old.state /\ r.response = old.response BY DEF Requests
    <3>2. demand' = [demand EXCEPT ![f] = r] BY <1>2, <2>6 DEF DemandAges
    <3>3. fetched' = [fetched EXCEPT ![f] = had] BY <1>5, <2>6 DEF DemandAges
    <3> HIDE DEF r
    <3> QED BY <1>4, <3>1, <3>2, <3>3
  <2> QED BY <2>1, <2>2, <2>3, <2>4, <2>5, <2>6
<1>7. PICK r \in Requests, took \in {"no", "waiting", "gave_up"} \cup Batches : Changed(r, took)
  BY <1>6
<1>8. /\ demand' \in [Fetches -> Requests]
      /\ fetched' \in [Fetches -> {"no", "waiting", "gave_up"} \cup Batches]
      /\ \A g \in Fetches : Taken(g)'
  BY <1>7, OneRequest
<1>9. UNCHANGED <<accepting, answers>>
  BY DEF FetchBegins, FetchPolls, FetchTimesOut, NextRequestDeletes, DemandExpires, DemandAges
<1>10. order' \in [Fetches -> 0..Cardinality(Fetches)]
  <2>1. order \in [Fetches -> 0..Cardinality(Fetches)] BY DEF CandleInv
  <2>2. CASE UNCHANGED order BY <2>1, <2>2
  <2>3. CASE FetchBegins(f)
    <3>1. /\ order' = [order EXCEPT ![f] = Cardinality(Asked) + 1]
          /\ demand[f].state = "absent"
      BY <2>3 DEF FetchBegins
    <3>2. Cardinality(Asked) + 1 \in 0..Cardinality(Fetches) BY <3>1, NextNumber
    <3> QED BY <2>1, <3>1, <3>2
  <2> QED
    BY <2>2, <2>3 DEF FetchPolls, FetchTimesOut, NextRequestDeletes, DemandExpires, DemandAges
<1>11. CandleInv' BY <1>8, <1>9, <1>10 DEF CandleInv
<1>12. ASSUME NEW g \in Fetches PROVE RequestStands(g)
  <2>1. CASE g = f
    <3>1. demand'[g] = r /\ demand[g] = old BY <1>1, <1>2, <1>7, <2>1
    <3> QED BY <1>7, <3>1 DEF RequestStands
  <2>2. CASE g # f
    <3>1. demand'[g] = demand[g] BY <1>1, <1>7, <2>2
    <3> QED BY <3>1 DEF RequestStands
  <2> QED BY <2>1, <2>2
<1> QED BY <1>11, <1>12

(* The steps of an answer.  It is written only over a pending request.       *)
LEMMA AnswerStep ==
  ASSUME CandleInv, NEW a \in Accepts,
         AnswerBegins(a) \/ AcceptReads(a) \/ AcceptWrites(a) \/ AnswerRefused(a)
  PROVE  CandleInv' /\ \A g \in Fetches : RequestStands(g)
<1>1. /\ demand \in [Fetches -> Requests] /\ accepting \in [Accepts -> Answers]
      /\ fetched \in [Fetches -> {"no", "waiting", "gave_up"} \cup Batches]
      /\ \A f \in Fetches : Taken(f)
      /\ UNCHANGED <<fetched, order>>
  BY DEF CandleInv, AnswerBegins, AcceptReads, AcceptWrites, AnswerRefused
<1>2. NoAnswer \in Answers BY DEF Answers
<1>3. accepting' \in [Accepts -> Answers] /\ answers' \in 0..MaxAnswers
  <2>0. answers \in 0..MaxAnswers /\ MaxAnswers \in Nat BY CandleAssumption DEF CandleInv
  <2>1. CASE AnswerBegins(a)
    <3>1. PICK f \in Fetches, b \in Batches :
            accepting' = [accepting EXCEPT ![a] = [request |-> f, batch |-> b, read |-> FALSE]]
      BY <2>1 DEF AnswerBegins, Listed
    <3>2. [request |-> f, batch |-> b, read |-> FALSE] \in Answers BY DEF Answers
    <3>3. answers' \in 0..MaxAnswers BY <2>0, <2>1 DEF AnswerBegins
    <3> QED BY <1>1, <3>1, <3>2, <3>3
  <2>2. CASE AcceptReads(a)
    <3>1. accepting[a] \in [request : Fetches, batch : Batches, read : BOOLEAN]
      BY <2>2, AnswerIs DEF AcceptReads
    <3>2. [accepting[a] EXCEPT !.read = TRUE] \in Answers BY <3>1 DEF Answers
    <3>3. \E new \in Answers : accepting' = [accepting EXCEPT ![a] = new]
      BY <1>2, <2>2, <3>2 DEF AcceptReads
    <3> QED BY <1>1, <2>0, <2>2, <3>3 DEF AcceptReads
  <2>3. CASE AcceptWrites(a) \/ AnswerRefused(a)
    BY <1>1, <1>2, <2>0, <2>3 DEF AcceptWrites, AnswerRefused
  <2> QED BY <2>1, <2>2, <2>3
<1>4. /\ demand' \in [Fetches -> Requests]
      /\ \A g \in Fetches : Taken(g)' /\ RequestStands(g)
  <2>1. CASE UNCHANGED demand BY <1>1, <2>1 DEF Taken, RequestStands
  <2>2. CASE AcceptWrites(a) /\ demand' # demand
    <3>1. accepting[a] \in [request : Fetches, batch : Batches, read : BOOLEAN]
      BY <2>2, AnswerIs DEF AcceptWrites, NoAnswer
    <3>2. PICK f \in Fetches, b \in Batches : f = accepting[a].request /\ b = accepting[a].batch
      BY <3>1
    <3>3. PICK old \in Requests : old = demand[f] BY <1>1
    <3> DEFINE r == [old EXCEPT !.state = "received", !.response = b]
    <3>4. demand' = [demand EXCEPT ![f] = r] /\ old.state = "pending"
      BY <2>2, <3>2, <3>3 DEF AcceptWrites, Unconsumed
    <3>5. r \in Requests /\ r.state = "received" /\ r.response = b BY DEF Requests
    <3> HIDE DEF r
    <3>6. fetched[f] \notin Batches BY <1>1, <3>3, <3>4 DEF Taken
    <3>7. fetched' = [fetched EXCEPT ![f] = fetched[f]]
          /\ fetched[f] \in {"no", "waiting", "gave_up"} \cup Batches
      BY <1>1
    <3>8. demand' \in [Fetches -> Requests] /\ \A g \in Fetches : Taken(g)'
      BY <3>4, <3>5, <3>6, <3>7, OneRequest
    <3>9. ASSUME NEW g \in Fetches PROVE RequestStands(g)
      <4>1. CASE g = f BY <3>3, <3>4, <4>1 DEF RequestStands
      <4>2. CASE g # f BY <1>1, <3>4, <4>2 DEF RequestStands
      <4> QED BY <4>1, <4>2
    <3> QED BY <3>8, <3>9
  <2> QED BY <2>1, <2>2 DEF AnswerBegins, AcceptReads, AnswerRefused
<1> QED BY <1>1, <1>3, <1>4 DEF CandleInv

(* The invariant of the candles is inductive, and answers stand.             *)
LEMMA CandleStep ==
  ASSUME CandleInv, [CandleNext]_candleVars
  PROVE  CandleInv' /\ \A f \in Fetches : RequestStands(f)
<1>1. CASE UNCHANGED candleVars
  <2>1. UNCHANGED <<demand, fetched, accepting, order, answers>> BY <1>1 DEF candleVars
  <2>2. CandleInv' BY <2>1 DEF CandleInv, Taken
  <2> QED BY <2>1, <2>2 DEF RequestStands
<1>2. CASE CandleNext BY <1>2, FetchStep, AnswerStep DEF CandleNext
<1> QED BY <1>1, <1>2

(* Every step of an analysis or of an answer keeps the invariant.            *)
LEMMA CandleInductive == CandleInv /\ [CandleNext]_candleVars => CandleInv'
BY CandleStep

(* What the invariant says of the state is what the runs check.              *)
LEMMA CandlesRight == CandleInv => CandleTypeOK /\ FetchHasItsAnswer
<1> SUFFICES ASSUME CandleInv PROVE CandleTypeOK /\ FetchHasItsAnswer OBVIOUS
<1>1. ASSUME NEW a \in Accepts PROVE accepting[a].batch \in Batches \cup {NoBatch}
  <2>1. CASE accepting[a] = NoAnswer BY <2>1 DEF NoAnswer
  <2>2. CASE accepting[a] # NoAnswer BY <2>2, AnswerIs
  <2> QED BY <2>1, <2>2
<1>2. CandleTypeOK BY <1>1 DEF CandleInv, CandleTypeOK, Requests
<1>3. FetchHasItsAnswer BY DEF CandleInv, Taken, FetchHasItsAnswer
<1> QED BY <1>2, <1>3

\* An analysis of candles holds the answer to its own request and no other,
\* however many answers of the terminal are under way, late or repeated.
THEOREM FetchesHaveTheirAnswers == CandleSpec => []FetchHasItsAnswer
BY CandlesRight, CandleInitially, CandleInductive, PTL DEF CandleSpec

\* The first accepted answer of a request stands until the request is deleted.
THEOREM FirstAnswerStands == CandleSpec => AnswerStands
<1>1. CandleInv /\ [CandleNext]_candleVars =>
        [\A f \in Fetches :
           /\ demand[f].state = "received" => \/ demand'[f].response = demand[f].response
                                              \/ demand'[f].state = "deleted"
           /\ demand[f].state = "deleted" => demand'[f].state = "deleted"]_candleVars
  BY CandleStep DEF RequestStands
<1> QED BY <1>1, CandleInitially, CandleInductive, PTL DEF CandleSpec, AnswerStands

-----------------------------------------------------------------------------
(* The scans. *)

Setups == FoundSetups \cup {NoFound}
SendStates == {"none", "created", "context_only", "sending", "published", "reconciliation_required"}
HoldingPoints == {"announce", "price", "publish", "sent", "send", "attach", "undo"}
ScanPoints == {"idle", "analyse", "look", "key", "closing"} \cup HoldingPoints
ScanState ==
  [pc : ScanPoints, found : Setups, previous : Setups,
   fate : {"none", "rejected", "no_data", "duplicate", "context", "failed", "sent"},
   record : {"none", "running"} \cup Endings]
ScanTyped ==
  /\ alertKey \in Setups /\ published \in [FoundSetups -> SendStates]
  /\ approvals \in [FoundSetups -> {0, 1}] /\ scan \in [ScanRuns -> ScanState]
  /\ cutOn \subseteq FoundSetups /\ overlap \in BOOLEAN

\* A setup whose cooldown stands without a run at work on it.
Earned(s) == published[s] = "published" \/ s \in cutOn

\* A proposal has its message when it is published, and none before it is sent.
SentOnce(s) ==
  /\ published[s] \in {"none", "created", "context_only"} => approvals[s] = 0
  /\ published[s] = "published" => approvals[s] = 1

\* What a run found, sends and put aside; a run alone put aside an alert that was
\* earned.
RunOK(me) ==
  /\ me.pc = "analyse" => me.found = NoFound
  /\ me.pc \notin {"idle", "analyse", "closing"} => me.found \in FoundSetups
  /\ me.pc # "idle" => me.record = "running"
  /\ me.pc = "send" => published[me.found] = "sending" /\ approvals[me.found] = 0
  /\ me.pc = "attach" => published[me.found] = "sending" /\ approvals[me.found] = 1
  /\ me.pc = "sent" => published[me.found] = "published"
  /\ me.pc = "undo" => me.fate \in {"context", "failed"}
  /\ me.pc = "closing" \/ me.record = "healthy" =>
       /\ me.fate = "sent" => me.found \in FoundSetups /\ published[me.found] = "published"
       /\ me.fate = "rejected" => me.found = NoFound
  /\ me.record = "healthy" => me.fate \in {"sent", "duplicate", "rejected"}
  /\ ~overlap /\ me.pc \in HoldingPoints \cup {"key"} /\ me.previous # NoFound =>
       Earned(me.previous)

\* A setup is sent by one run at a time, and without overlap one run is under way.
Sends(r) == scan[r].pc \in {"send", "attach"}
OneSender ==
  \A r, q \in ScanRuns : Sends(r) /\ Sends(q) /\ scan[r].found = scan[q].found => r = q
OneRun == ~overlap => \A r, q \in ScanRuns : ~ScanAt(r, "idle") /\ ~ScanAt(q, "idle") => r = q

ScanInv ==
  /\ ScanTyped /\ OneSender /\ OneRun /\ CooldownEarned
  /\ \A s \in FoundSetups : SentOnce(s)
  /\ \A r \in ScanRuns : RunOK(scan[r])

(* Nothing is found or sent at first.                                        *)
LEMMA ScanInitially == ScanInit => ScanInv
<1> SUFFICES ASSUME ScanInit PROVE ScanInv OBVIOUS
<1>1. IdleScan \in ScanState /\ IdleScan.pc = "idle" /\ IdleScan.record = "none"
  BY DEF IdleScan, ScanState, ScanPoints, Setups
<1>2. \A r \in ScanRuns : scan[r] = IdleScan BY DEF ScanInit
<1>3. ScanTyped BY <1>1 DEF ScanInit, ScanTyped, Setups, SendStates
<1>4. OneSender /\ OneRun BY <1>1, <1>2 DEF OneSender, OneRun, Sends, ScanAt
<1>5. CooldownEarned BY DEF ScanInit, CooldownEarned
<1>6. \A s \in FoundSetups : SentOnce(s) BY DEF ScanInit, SentOnce
<1>7. RunOK(IdleScan) BY <1>1 DEF RunOK, HoldingPoints
<1> QED BY <1>2, <1>3, <1>4, <1>5, <1>6, <1>7 DEF ScanInv

(* What a step does to the shared state, for the runs that do not take it: a *)
(* setup one of them sends is left alone, and nothing is unpublished.        *)
Spared(r) ==
  /\ cutOn \subseteq cutOn' /\ (overlap => overlap')
  /\ \A s \in FoundSetups : published[s] = "published" => published'[s] = "published"
  /\ \A q \in ScanRuns \ {r} : Sends(q) =>
       /\ published'[scan[q].found] = published[scan[q].found]
       /\ approvals'[scan[q].found] = approvals[scan[q].found]
LEMMA OthersStay ==
  ASSUME ScanInv, NEW r, NEW q \in ScanRuns \ {r}, Spared(r), scan'[q] = scan[q]
  PROVE  RunOK(scan[q])'
<1>1. PICK me \in ScanState : me = scan[q] BY DEF ScanInv, ScanTyped
<1>2. RunOK(me) BY <1>1 DEF ScanInv
<1>3. overlap \in BOOLEAN /\ overlap' = overlap' BY DEF ScanInv, ScanTyped
<1>4. ASSUME me.previous # NoFound PROVE me.previous \in FoundSetups
  BY <1>4 DEF ScanState, Setups
<1>5. me.previous # NoFound /\ Earned(me.previous) => Earned(me.previous)'
  BY <1>4 DEF Earned, Spared
<1>6. me.pc \in {"send", "attach"} =>
        /\ published'[me.found] = published[me.found] /\ approvals'[me.found] = approvals[me.found]
  BY <1>1 DEF Spared, Sends
<1>7. \A s \in FoundSetups : published[s] = "published" => published'[s] = "published"
  BY DEF Spared
<1>8. me.pc = "sent" => published'[me.found] = "published" BY <1>2, <1>7 DEF RunOK
<1>9. RunOK(me)'
  BY <1>2, <1>5, <1>6, <1>7, <1>8 DEF RunOK, Spared
<1> QED BY <1>1, <1>9

(* A step of one run.                                                        *)
LEMMA RunStep ==
  ASSUME ScanInv, NEW r \in ScanRuns, NEW new \in ScanState, scan' = [scan EXCEPT ![r] = new],
         alertKey' \in Setups, published' \in [FoundSetups -> SendStates],
         approvals' \in [FoundSetups -> {0, 1}], cutOn' \subseteq FoundSetups,
         overlap' \in BOOLEAN, Spared(r), RunOK(new)',
         \A s \in FoundSetups : SentOnce(s)',
         new.pc \in {"send", "attach"} =>
           \A q \in ScanRuns \ {r} : ~(Sends(q) /\ scan[q].found = new.found),
         ~overlap' /\ new.pc # "idle" => ~ScanAt(r, "idle") \/ Scanning = {},
         ~overlap' /\ alertKey' # NoFound =>
           \/ published'[alertKey'] = "published" \/ alertKey' \in cutOn'
           \/ new.pc \in HoldingPoints /\ new.found = alertKey'
           \/ \E q \in ScanRuns \ {r} : Holding(q) /\ scan[q].found = alertKey'
  PROVE  ScanInv'
<1>1. scan \in [ScanRuns -> ScanState] BY DEF ScanInv, ScanTyped
<1>2. scan'[r] = new /\ scan' \in [ScanRuns -> ScanState]
      /\ \A q \in ScanRuns \ {r} : scan'[q] = scan[q]
  BY <1>1
<1>3. \A q \in ScanRuns : RunOK(scan[q])'
  <2> TAKE q \in ScanRuns
  <2>1. CASE q = r BY <1>2, <2>1
  <2>2. CASE q # r BY <1>2, <2>2, OthersStay
  <2> QED BY <2>1, <2>2
<1>4. OneSender'
  BY <1>2 DEF ScanInv, OneSender, Sends
<1>5. OneRun'
  <2> SUFFICES ASSUME ~overlap', NEW p \in ScanRuns, NEW q \in ScanRuns,
                      scan'[p].pc # "idle", scan'[q].pc # "idle"
               PROVE  p = q
    BY DEF OneRun, ScanAt
  <2>1. ~overlap BY DEF Spared
  <2>2. \A x, y \in ScanRuns : scan[x].pc # "idle" /\ scan[y].pc # "idle" => x = y
    BY <2>1 DEF ScanInv, OneRun, ScanAt
  <2>3. CASE new.pc = "idle" BY <1>2, <2>2, <2>3
  <2>4. CASE scan[r].pc # "idle" BY <1>2, <2>2, <2>4
  <2>5. CASE Scanning = {}
    <3>1. \A x \in ScanRuns : scan[x].pc = "idle" BY <2>5 DEF Scanning, ScanAt
    <3> QED BY <1>2, <3>1
  <2> QED BY <2>3, <2>4, <2>5 DEF ScanAt
<1>6. CooldownEarned'
  <2> SUFFICES ASSUME ~overlap', alertKey' # NoFound
               PROVE  \/ published'[alertKey'] = "published" \/ alertKey' \in cutOn'
                      \/ \E q \in ScanRuns : Holding(q)' /\ scan'[q].found = alertKey'
    BY DEF CooldownEarned
  <2>1. \A q \in ScanRuns : scan'[q].pc \in HoldingPoints => Holding(q)'
    BY DEF Holding, Guarded, HoldingPoints
  <2>2. \A q \in ScanRuns : Holding(q) => scan[q].pc \in HoldingPoints
    BY DEF Holding, Guarded, HoldingPoints
  <2>3. CASE published'[alertKey'] = "published" \/ alertKey' \in cutOn' BY <2>3
  <2>4. CASE new.pc \in HoldingPoints /\ new.found = alertKey' BY <1>2, <2>1, <2>4
  <2>5. CASE \E q \in ScanRuns \ {r} : Holding(q) /\ scan[q].found = alertKey'
    BY <1>2, <2>1, <2>2, <2>5
  <2> QED BY <2>3, <2>4, <2>5
<1>7. ScanTyped' BY <1>2 DEF ScanTyped
<1> QED BY <1>3, <1>4, <1>5, <1>6, <1>7 DEF ScanInv

(* A run that goes on with what is shared unchanged.                         *)
Shared == <<scanner, alertKey, published, approvals, cutOn, overlap>>
LEMMA QuietRunStep ==
  ASSUME ScanInv, NEW r \in ScanRuns, NEW new \in ScanState, scan' = [scan EXCEPT ![r] = new],
         UNCHANGED Shared, RunOK(new), ~ScanAt(r, "idle"),
         new.pc \in {"send", "attach"} => Sends(r) /\ new.found = scan[r].found,
         alertKey # NoFound /\ Holding(r) /\ scan[r].found = alertKey =>
           \/ new.pc \in HoldingPoints /\ new.found = alertKey
           \/ Earned(alertKey)
  PROVE  ScanInv'
<1>1. ScanTyped /\ OneSender /\ CooldownEarned /\ \A s \in FoundSetups : SentOnce(s)
  BY DEF ScanInv
<1>2. UNCHANGED <<alertKey, published, approvals, cutOn, overlap>> BY DEF Shared
<1>3. Spared(r) BY <1>2 DEF Spared
<1>4. RunOK(new)' BY <1>2 DEF RunOK, Earned
<1>5. \A s \in FoundSetups : SentOnce(s)' BY <1>1, <1>2 DEF SentOnce
<1>6. new.pc \in {"send", "attach"} =>
        \A q \in ScanRuns \ {r} : ~(Sends(q) /\ scan[q].found = new.found)
  BY <1>1 DEF OneSender
<1>7. ~overlap' /\ alertKey' # NoFound =>
        \/ published'[alertKey'] = "published" \/ alertKey' \in cutOn'
        \/ new.pc \in HoldingPoints /\ new.found = alertKey'
        \/ \E q \in ScanRuns \ {r} : Holding(q) /\ scan[q].found = alertKey'
  BY <1>1, <1>2 DEF CooldownEarned, Earned
<1> QED
  BY <1>1, <1>2, <1>3, <1>4, <1>5, <1>6, <1>7, RunStep DEF ScanTyped

(* A run's record is one, whatever is set of it.                             *)
LEMMA RunTyped ==
  ASSUME ScanInv, NEW r \in ScanRuns
  PROVE  \E me \in ScanState :
           /\ me = scan[r] /\ RunOK(me)
           /\ Holding(r) <=> me.pc \in HoldingPoints
           /\ \A point \in ScanPoints : [me EXCEPT !.pc = point] \in ScanState
BY DEF ScanInv, ScanTyped, ScanState, Holding, Guarded, HoldingPoints

(* The steps that only move a run.                                           *)
LEMMA StartScanStep == ASSUME ScanInv, NEW r \in ScanRuns, StartScan(r) PROVE ScanInv'
<1> DEFINE new == [IdleScan EXCEPT !.pc = "analyse", !.record = "running"]
<1>1. /\ new \in ScanState /\ new.pc = "analyse" /\ new.record = "running"
      /\ new.found = NoFound
  BY DEF IdleScan, ScanState, ScanPoints, Setups
<1>2. scan' = [scan EXCEPT ![r] = new] /\ overlap' = (overlap \/ Scanning # {})
      /\ UNCHANGED <<alertKey, published, approvals, cutOn>> /\ scan[r].pc = "idle"
  BY DEF StartScan, ScanAt
<1> HIDE DEF new
<1>3. ScanTyped /\ CooldownEarned /\ \A s \in FoundSetups : SentOnce(s) BY DEF ScanInv
<1>4. Spared(r) BY <1>2 DEF Spared
<1>5. RunOK(new)' BY <1>1 DEF RunOK, HoldingPoints
<1>6. \A s \in FoundSetups : SentOnce(s)' BY <1>2, <1>3 DEF SentOnce
<1>7. overlap' \in BOOLEAN BY <1>2
<1>8. ~Holding(r) BY <1>2 DEF Holding, Guarded
<1>9. ~overlap' /\ alertKey' # NoFound =>
        \/ published'[alertKey'] = "published" \/ alertKey' \in cutOn'
        \/ \E q \in ScanRuns \ {r} : Holding(q) /\ scan[q].found = alertKey'
  BY <1>2, <1>3, <1>8 DEF CooldownEarned
<1> QED BY <1>1, <1>2, <1>3, <1>4, <1>5, <1>6, <1>7, <1>9, RunStep DEF ScanTyped

(* An analysis finds a setup, or the run ends without one.                   *)
LEMMA AnalyseSymbolStep == ASSUME ScanInv, NEW r \in ScanRuns, AnalyseSymbol(r) PROVE ScanInv'
<1>1. PICK me \in ScanState : me = scan[r] /\ RunOK(me) /\ (Holding(r) <=> me.pc \in HoldingPoints)
  BY RunTyped
<1>2. me.pc = "analyse" /\ UNCHANGED Shared BY <1>1 DEF AnalyseSymbol, ScanAt, Shared
<1>3. me.found = NoFound /\ me.record = "running" BY <1>1, <1>2 DEF RunOK
<1>4. PICK new \in ScanState :
        /\ scan' = [scan EXCEPT ![r] = new] /\ new.record = "running"
        /\ \/ new.pc = "look" /\ new.found \in FoundSetups
           \/ new.pc = "closing" /\ new.found = NoFound /\ new.fate \in {"rejected", "no_data"}
  <2>1. ASSUME NEW s \in FoundSetups, scan' = [scan EXCEPT ![r].pc = "look", ![r].found = s]
        PROVE  \E new \in ScanState :
                 /\ scan' = [scan EXCEPT ![r] = new] /\ new.record = "running"
                 /\ new.pc = "look" /\ new.found \in FoundSetups
    <3> DEFINE new == [me EXCEPT !.pc = "look", !.found = s]
    <3>1. new \in ScanState /\ new.record = "running" /\ new.pc = "look" /\ new.found = s
      BY <1>3 DEF ScanState, ScanPoints, Setups
    <3>2. scan' = [scan EXCEPT ![r] = new] BY <1>1, <2>1
    <3> QED BY <3>1, <3>2
  <2>2. ASSUME NEW fate \in {"rejected", "no_data"}, ScanEnds(r, fate)
        PROVE  \E new \in ScanState :
                 /\ scan' = [scan EXCEPT ![r] = new] /\ new.record = "running"
                 /\ new.pc = "closing" /\ new.found = NoFound
                 /\ new.fate \in {"rejected", "no_data"}
    <3> DEFINE new == [me EXCEPT !.pc = "closing", !.fate = fate]
    <3>1. /\ new \in ScanState /\ new.record = "running" /\ new.pc = "closing"
          /\ new.found = NoFound /\ new.fate = fate
      BY <1>3 DEF ScanState, ScanPoints
    <3>2. scan' = [scan EXCEPT ![r] = new] BY <1>1, <2>2 DEF ScanEnds
    <3> QED BY <3>1, <3>2
  <2> QED BY <2>1, <2>2 DEF AnalyseSymbol
<1>5. RunOK(new) BY <1>4 DEF RunOK, HoldingPoints
<1>6. ~Holding(r) BY <1>1, <1>2 DEF HoldingPoints
<1>7. new.pc \notin {"send", "attach"} BY <1>4
<1>8. ~ScanAt(r, "idle") BY <1>1, <1>2 DEF ScanAt
<1> QED BY <1>2, <1>4, <1>5, <1>6, <1>7, <1>8, QuietRunStep

(* A setup that was alerted before ends the run; another is gone on with.    *)
LEMMA LookAtAlertStep == ASSUME ScanInv, NEW r \in ScanRuns, LookAtAlert(r) PROVE ScanInv'
<1>1. PICK me \in ScanState : me = scan[r] /\ RunOK(me) /\ (Holding(r) <=> me.pc \in HoldingPoints)
  BY RunTyped
<1>2. me.pc = "look" /\ UNCHANGED Shared BY <1>1 DEF LookAtAlert, ScanAt, Shared
<1>3. me.found \in FoundSetups /\ me.record = "running" BY <1>1, <1>2 DEF RunOK
<1>4. alertKey \in Setups BY DEF ScanInv, ScanTyped
<1>5. ~overlap /\ alertKey # NoFound => Earned(alertKey)
  <2> SUFFICES ASSUME ~overlap, alertKey # NoFound PROVE Earned(alertKey) OBVIOUS
  <2>1. \A q \in ScanRuns : scan[q].pc # "idle" => q = r
    BY <1>1, <1>2 DEF ScanInv, OneRun, ScanAt
  <2>2. \A q \in ScanRuns : Holding(q) => scan[q].pc # "idle" /\ scan[q].pc # "look"
    BY DEF Holding, Guarded
  <2>3. ~\E q \in ScanRuns : Holding(q) BY <1>1, <1>2, <2>1, <2>2
  <2> QED BY <2>3 DEF ScanInv, CooldownEarned, Earned
<1>6. PICK new \in ScanState :
        /\ scan' = [scan EXCEPT ![r] = new] /\ new.record = "running" /\ new.found = me.found
        /\ \/ new.pc = "closing" /\ new.fate = "duplicate"
           \/ new.pc = "key" /\ new.previous = alertKey
  <2>1. CASE ScanEnds(r, "duplicate")
    <3> DEFINE new == [me EXCEPT !.pc = "closing", !.fate = "duplicate"]
    <3>1. /\ new \in ScanState /\ new.record = "running" /\ new.pc = "closing"
          /\ new.found = me.found /\ new.fate = "duplicate"
      BY <1>3 DEF ScanState, ScanPoints
    <3>2. scan' = [scan EXCEPT ![r] = new] BY <1>1, <2>1 DEF ScanEnds
    <3> QED BY <3>1, <3>2
  <2>2. CASE scan' = [scan EXCEPT ![r].pc = "key", ![r].previous = alertKey]
    <3> DEFINE new == [me EXCEPT !.pc = "key", !.previous = alertKey]
    <3>1. /\ new \in ScanState /\ new.record = "running" /\ new.pc = "key"
          /\ new.found = me.found /\ new.previous = alertKey
      BY <1>3, <1>4 DEF ScanState, ScanPoints
    <3>2. scan' = [scan EXCEPT ![r] = new] BY <1>1, <2>2
    <3> QED BY <3>1, <3>2
  <2> QED BY <2>1, <2>2 DEF LookAtAlert
<1>7. RunOK(new) BY <1>3, <1>5, <1>6 DEF RunOK, HoldingPoints
<1>8. ~Holding(r) /\ ~ScanAt(r, "idle") BY <1>1, <1>2 DEF HoldingPoints, ScanAt
<1>9. new.pc \notin {"send", "attach"} BY <1>6
<1> QED BY <1>2, <1>6, <1>7, <1>8, <1>9, QuietRunStep

(* A run at work on its setup stays at work on it.                           *)
SameSetup(new, me) ==
  new.found = me.found /\ new.previous = me.previous /\ new.record = me.record
LEMMA KeepsHolding ==
  ASSUME ScanInv, NEW r \in ScanRuns, NEW me \in ScanState, me = scan[r],
         me.pc \in HoldingPoints, NEW new \in ScanState, scan' = [scan EXCEPT ![r] = new],
         SameSetup(new, me), new.pc \in {"announce", "price", "publish", "sent", "undo"},
         new.pc = "sent" => published[me.found] = "published",
         new.pc = "undo" => new.fate \in {"context", "failed"}, UNCHANGED Shared
  PROVE  ScanInv'
<1>1. RunOK(me) /\ me.found \in FoundSetups /\ me.record = "running"
  BY DEF ScanInv, RunOK, HoldingPoints
<1>2. RunOK(new) BY <1>1 DEF RunOK, SameSetup, HoldingPoints
<1>3. ~ScanAt(r, "idle") BY DEF ScanAt, HoldingPoints
<1>4. new.pc \in HoldingPoints /\ new.pc \notin {"send", "attach"} BY DEF HoldingPoints
<1> QED BY <1>2, <1>3, <1>4, QuietRunStep DEF SameSetup

(* The cooldown is taken for the setup, what was there is remembered.        *)
LEMMA TakeAlertStep == ASSUME ScanInv, NEW r \in ScanRuns, TakeAlert(r) PROVE ScanInv'
<1>1. PICK me \in ScanState : me = scan[r] /\ RunOK(me) BY RunTyped
<1>2. /\ me.pc = "key" /\ alertKey' = me.found
      /\ UNCHANGED <<published, approvals, cutOn, overlap>>
  BY <1>1 DEF TakeAlert, ScanAt
<1>3. me.found \in FoundSetups /\ me.record = "running" BY <1>1, <1>2 DEF RunOK
<1>4. PICK point \in {"announce", "price"} : scan' = [scan EXCEPT ![r].pc = point]
  BY DEF TakeAlert, ScanTo
<1> DEFINE new == [me EXCEPT !.pc = point]
<1>5. new \in ScanState /\ new.pc = point /\ SameSetup(new, me)
  BY <1>4 DEF ScanState, ScanPoints, HoldingPoints, SameSetup
<1>6. scan' = [scan EXCEPT ![r] = new] BY <1>1, <1>4
<1> HIDE DEF new
<1>7. ScanTyped /\ \A s \in FoundSetups : SentOnce(s) BY DEF ScanInv
<1>8. Spared(r) BY <1>2 DEF Spared
<1>9. RunOK(new)'
  BY <1>1, <1>2, <1>3, <1>4, <1>5 DEF RunOK, SameSetup, HoldingPoints, Earned
<1>10. \A s \in FoundSetups : SentOnce(s)' BY <1>2, <1>7 DEF SentOnce
<1>11. new.pc \in HoldingPoints /\ new.found = alertKey' /\ new.pc \notin {"send", "attach"}
  BY <1>2, <1>4, <1>5 DEF SameSetup, HoldingPoints
<1>12. ~ScanAt(r, "idle") BY <1>1, <1>2 DEF ScanAt
<1>13. alertKey' \in Setups BY <1>2, <1>3 DEF Setups
<1> QED
  BY <1>2, <1>5, <1>6, <1>7, <1>8, <1>9, <1>10, <1>11, <1>12, <1>13, RunStep DEF ScanTyped

(* Announcing, missing a price and an exception leave the run at its setup.  *)
LEMMA GoOnStep ==
  ASSUME ScanInv, NEW r \in ScanRuns, Announce(r) \/ NoPrice(r) \/ ScanRaises(r)
  PROVE  ScanInv'
<1>1. PICK me \in ScanState : me = scan[r] /\ RunOK(me) /\ (Holding(r) <=> me.pc \in HoldingPoints)
  BY RunTyped
<1>2. me.pc \in HoldingPoints /\ UNCHANGED Shared
  BY <1>1 DEF Announce, NoPrice, ScanRaises, ScanAt, Guarded, HoldingPoints, Shared
<1>3. \/ \E point \in {"price", "announce"} : scan' = [scan EXCEPT ![r].pc = point]
      \/ \E fate \in {"context", "failed"} :
           scan' = [scan EXCEPT ![r].pc = "undo", ![r].fate = fate]
  BY DEF Announce, NoPrice, ScanRaises, ScanTo
<1>4. ASSUME NEW point \in {"price", "announce"}, scan' = [scan EXCEPT ![r].pc = point]
      PROVE  ScanInv'
  <2> DEFINE new == [me EXCEPT !.pc = point]
  <2>1. new \in ScanState /\ new.pc = point /\ SameSetup(new, me)
    BY DEF ScanState, ScanPoints, HoldingPoints, SameSetup
  <2>2. scan' = [scan EXCEPT ![r] = new] BY <1>1, <1>4
  <2> HIDE DEF new
  <2> QED BY <1>1, <1>2, <2>1, <2>2, KeepsHolding
<1>5. ASSUME NEW fate \in {"context", "failed"},
             scan' = [scan EXCEPT ![r].pc = "undo", ![r].fate = fate]
      PROVE  ScanInv'
  <2> DEFINE new == [me EXCEPT !.pc = "undo", !.fate = fate]
  <2>1. new \in ScanState /\ new.pc = "undo" /\ new.fate = fate /\ SameSetup(new, me)
    BY DEF ScanState, ScanPoints, HoldingPoints, SameSetup
  <2>2. scan' = [scan EXCEPT ![r] = new] BY <1>1, <1>5
  <2> HIDE DEF new
  <2> QED BY <1>1, <1>2, <2>1, <2>2, KeepsHolding
<1> QED BY <1>3, <1>4, <1>5

(* The write of a proposal by the run that is at work on it.                 *)
LEMMA ProposalWritten ==
  ASSUME ScanInv, NEW r \in ScanRuns, NEW me \in ScanState, me = scan[r],
         me.pc \in HoldingPoints, NEW new \in ScanState, scan' = [scan EXCEPT ![r] = new],
         SameSetup(new, me), new.pc \in {"publish", "send", "attach", "sent", "undo"},
         NEW status \in SendStates, NEW sent \in {0, 1},
         published' = [published EXCEPT ![me.found] = status],
         approvals' = [approvals EXCEPT ![me.found] = sent],
         UNCHANGED <<alertKey, cutOn, overlap>>,
         published[me.found] = "published" => status = "published",
         status \in {"none", "created", "context_only"} => sent = 0,
         status = "published" => sent = 1,
         new.pc = "send" => status = "sending" /\ sent = 0,
         new.pc = "attach" => status = "sending" /\ sent = 1,
         new.pc = "sent" => status = "published",
         new.pc = "undo" => new.fate \in {"context", "failed"},
         \A q \in ScanRuns \ {r} : ~(Sends(q) /\ scan[q].found = me.found)
  PROVE  ScanInv'
<1>1. RunOK(me) /\ me.found \in FoundSetups /\ me.record = "running"
  BY DEF ScanInv, RunOK, HoldingPoints
<1>2. ScanTyped /\ CooldownEarned /\ \A s \in FoundSetups : SentOnce(s) BY DEF ScanInv
<1>3. published' \in [FoundSetups -> SendStates] /\ approvals' \in [FoundSetups -> {0, 1}]
      /\ published'[me.found] = status /\ approvals'[me.found] = sent
      /\ \A s \in FoundSetups : s # me.found =>
           published'[s] = published[s] /\ approvals'[s] = approvals[s]
  BY <1>1, <1>2 DEF ScanTyped
<1>4. \A q \in ScanRuns : Sends(q) => scan[q].found \in FoundSetups
  <2> TAKE q \in ScanRuns
  <2>1. RunOK(scan[q]) BY DEF ScanInv
  <2> QED BY <2>1 DEF RunOK, Sends
<1>5. Spared(r) BY <1>3, <1>4 DEF Spared
<1>6. \A s \in FoundSetups : SentOnce(s)'
  <2> TAKE s \in FoundSetups
  <2>1. CASE s = me.found BY <1>3, <2>1 DEF SentOnce
  <2>2. CASE s # me.found BY <1>2, <1>3, <2>2 DEF SentOnce
  <2> QED BY <2>1, <2>2
<1>7. me.previous # NoFound => me.previous \in FoundSetups BY DEF ScanState, Setups
<1>8. Earned(me.previous) /\ me.previous # NoFound => Earned(me.previous)'
  BY <1>5, <1>7 DEF Earned, Spared
<1>9. RunOK(new)'
  BY <1>1, <1>3, <1>8 DEF RunOK, SameSetup, HoldingPoints
<1>10. new.pc \in HoldingPoints /\ ~ScanAt(r, "idle") BY DEF HoldingPoints, ScanAt
<1>11. ~overlap' /\ alertKey' # NoFound =>
        \/ published'[alertKey'] = "published" \/ alertKey' \in cutOn'
        \/ new.pc \in HoldingPoints /\ new.found = alertKey'
        \/ \E q \in ScanRuns \ {r} : Holding(q) /\ scan[q].found = alertKey'
  <2> SUFFICES ASSUME ~overlap, alertKey # NoFound
               PROVE  \/ published'[alertKey] = "published" \/ alertKey \in cutOn
                      \/ new.found = alertKey
                      \/ \E q \in ScanRuns \ {r} : Holding(q) /\ scan[q].found = alertKey
    BY <1>10
  <2>1. alertKey \in FoundSetups BY <1>2 DEF ScanTyped, Setups
  <2>2. published[alertKey] = "published" => published'[alertKey] = "published"
    BY <1>5, <2>1 DEF Spared
  <2> QED BY <1>2, <2>2 DEF CooldownEarned, SameSetup
<1>12. /\ alertKey' \in Setups /\ cutOn' \subseteq FoundSetups /\ overlap' \in BOOLEAN
       /\ published' \in [FoundSetups -> SendStates] /\ approvals' \in [FoundSetups -> {0, 1}]
  BY <1>2, <1>3 DEF ScanTyped
<1>13. \A q \in ScanRuns \ {r} : ~(Sends(q) /\ scan[q].found = new.found) BY DEF SameSetup
<1> QED BY <1>5, <1>6, <1>9, <1>10, <1>11, <1>12, <1>13, RunStep

(* Nobody else sends a setup that a run sends, or that is not being sent.    *)
LEMMA NoOtherSender ==
  ASSUME ScanInv, NEW r \in ScanRuns,
         Sends(r) \/ published[scan[r].found] # "sending"
  PROVE  \A q \in ScanRuns \ {r} : ~(Sends(q) /\ scan[q].found = scan[r].found)
<1> SUFFICES ASSUME NEW q \in ScanRuns \ {r}, Sends(q), scan[q].found = scan[r].found
             PROVE  FALSE
  OBVIOUS
<1>1. published[scan[q].found] = "sending"
  <2>1. RunOK(scan[q]) BY DEF ScanInv
  <2> QED BY <2>1 DEF RunOK, Sends
<1>2. Sends(r) BY <1>1
<1> QED BY <1>2 DEF ScanInv, OneSender

(* A proposal's status as it is, and what it says of its message.            *)
LEMMA ProposalIs ==
  ASSUME ScanInv, NEW s \in FoundSetups
  PROVE  /\ published[s] \in SendStates /\ approvals[s] \in {0, 1} /\ SentOnce(s)
         /\ published = [published EXCEPT ![s] = published[s]]
         /\ approvals = [approvals EXCEPT ![s] = approvals[s]]
BY DEF ScanInv, ScanTyped

(* A proposal is created once; a second run finds it.                        *)
LEMMA PriceSetupStep == ASSUME ScanInv, NEW r \in ScanRuns, PriceSetup(r) PROVE ScanInv'
<1>1. PICK me \in ScanState : me = scan[r] /\ RunOK(me) /\ (Holding(r) <=> me.pc \in HoldingPoints)
  BY RunTyped
<1>2. me.pc = "price" /\ UNCHANGED <<scanner, alertKey, approvals, cutOn, overlap>>
  BY <1>1 DEF PriceSetup, ScanAt
<1>3. PICK s \in FoundSetups : s = me.found BY <1>1, <1>2 DEF RunOK
<1> DEFINE new == [me EXCEPT !.pc = "publish"]
<1>4. new \in ScanState /\ new.pc = "publish" /\ SameSetup(new, me)
  BY DEF ScanState, ScanPoints, HoldingPoints, SameSetup
<1>5. scan' = [scan EXCEPT ![r] = new] BY <1>1 DEF PriceSetup, ScanTo
<1> HIDE DEF new
<1>6. published' = [published EXCEPT ![s] = IF @ = "none" THEN "created" ELSE @]
  BY <1>1, <1>3 DEF PriceSetup
<1>7. me.pc \in HoldingPoints BY <1>2 DEF HoldingPoints
<1>8. CASE published[s] = "none"
  <2>1. published' = [published EXCEPT ![s] = "created"] /\ "created" \in SendStates
    BY <1>6, <1>8 DEF SendStates
  <2>2. approvals[s] = 0 /\ approvals' = [approvals EXCEPT ![s] = 0]
    BY <1>2, <1>8, ProposalIs DEF SentOnce
  <2>3. \A q \in ScanRuns \ {r} : ~(Sends(q) /\ scan[q].found = me.found)
    BY <1>1, <1>3, <1>8, NoOtherSender
  <2> QED BY <1>1, <1>2, <1>3, <1>4, <1>5, <1>7, <1>8, <2>1, <2>2, <2>3, ProposalWritten
<1>9. CASE published[s] # "none"
  <2>1. UNCHANGED Shared BY <1>2, <1>6, <1>9, ProposalIs DEF Shared
  <2> QED BY <1>1, <1>4, <1>5, <1>7, <2>1, KeepsHolding
<1> QED BY <1>8, <1>9

(* A setup is claimed only when nobody has claimed it.                       *)
LEMMA ClaimSendStep == ASSUME ScanInv, NEW r \in ScanRuns, ClaimSend(r) PROVE ScanInv'
<1>1. PICK me \in ScanState : me = scan[r] /\ RunOK(me) /\ (Holding(r) <=> me.pc \in HoldingPoints)
  BY RunTyped
<1>2. me.pc = "publish" /\ UNCHANGED <<scanner, alertKey, approvals, cutOn, overlap>>
  BY <1>1 DEF ClaimSend, ScanAt
<1>3. PICK s \in FoundSetups : s = me.found BY <1>1, <1>2 DEF RunOK
<1>4. me.pc \in HoldingPoints BY <1>2 DEF HoldingPoints
<1>5. ASSUME NEW status \in {"sending", "context_only"}, NEW new \in ScanState,
             published[s] \in {"created", "context_only"},
             published' = [published EXCEPT ![s] = status],
             scan' = [scan EXCEPT ![r] = new], SameSetup(new, me),
             \/ new.pc = "send" /\ status = "sending"
             \/ new.pc = "undo" /\ new.fate = "context"
      PROVE  ScanInv'
  <2>1. approvals[s] = 0 /\ approvals' = [approvals EXCEPT ![s] = 0]
    BY <1>2, <1>5, ProposalIs DEF SentOnce
  <2>2. \A q \in ScanRuns \ {r} : ~(Sends(q) /\ scan[q].found = me.found)
    BY <1>1, <1>3, <1>5, NoOtherSender
  <2>3. PICK known \in SendStates, sent \in {0, 1} : known = status /\ sent = 0
    BY DEF SendStates
  <2>4. /\ published' = [published EXCEPT ![me.found] = known]
        /\ approvals' = [approvals EXCEPT ![me.found] = sent]
        /\ published[me.found] # "published" /\ known # "published"
    BY <1>3, <1>5, <2>1, <2>3
  <2>5. /\ new.pc \in {"publish", "send", "attach", "sent", "undo"}
        /\ new.pc \notin {"attach", "sent"} /\ (new.pc = "send" => known = "sending")
        /\ new.pc = "undo" => new.fate \in {"context", "failed"}
    BY <1>5, <2>3
  <2>6. /\ me = scan[r] /\ scan' = [scan EXCEPT ![r] = new] /\ SameSetup(new, me)
        /\ UNCHANGED <<alertKey, cutOn, overlap>> /\ sent = 0
    BY <1>1, <1>2, <1>5, <2>3
  <2> QED BY <1>4, <2>2, <2>4, <2>5, <2>6, ProposalWritten
<1>6. ASSUME NEW new \in ScanState, UNCHANGED published, scan' = [scan EXCEPT ![r] = new],
             SameSetup(new, me),
             \/ new.pc = "sent" /\ published[s] = "published"
             \/ new.pc = "undo" /\ new.fate = "failed"
      PROVE  ScanInv'
  BY <1>1, <1>2, <1>3, <1>4, <1>6, KeepsHolding DEF Shared
<1>7. ASSUME NEW point \in {"send", "sent"}
      PROVE  \E new \in ScanState :
               /\ new.pc = point /\ SameSetup(new, me)
               /\ [scan EXCEPT ![r].pc = point] = [scan EXCEPT ![r] = new]
  <2> DEFINE new == [me EXCEPT !.pc = point]
  <2>1. new \in ScanState /\ new.pc = point /\ SameSetup(new, me)
    BY DEF ScanState, ScanPoints, HoldingPoints, SameSetup
  <2> QED BY <1>1, <2>1
<1>8. ASSUME NEW fate \in {"context", "failed"}
      PROVE  \E new \in ScanState :
               /\ new.pc = "undo" /\ new.fate = fate /\ SameSetup(new, me)
               /\ [scan EXCEPT ![r].pc = "undo", ![r].fate = fate] = [scan EXCEPT ![r] = new]
  <2> DEFINE new == [me EXCEPT !.pc = "undo", !.fate = fate]
  <2>1. new \in ScanState /\ new.pc = "undo" /\ new.fate = fate /\ SameSetup(new, me)
    BY DEF ScanState, ScanPoints, HoldingPoints, SameSetup
  <2>2. [scan EXCEPT ![r].pc = "undo", ![r].fate = fate] = [scan EXCEPT ![r] = new] BY <1>1
  <2> QED BY <2>1, <2>2
<1>9. \/ /\ published[s] \in {"created", "context_only"}
         /\ published' = [published EXCEPT ![s] = "sending"]
         /\ scan' = [scan EXCEPT ![r].pc = "send"]
      \/ /\ published[s] \in {"created", "context_only"}
         /\ published' = [published EXCEPT ![s] = "context_only"]
         /\ scan' = [scan EXCEPT ![r].pc = "undo", ![r].fate = "context"]
      \/ /\ published[s] = "published" /\ UNCHANGED published
         /\ scan' = [scan EXCEPT ![r].pc = "sent"]
      \/ /\ scan' = [scan EXCEPT ![r].pc = "undo", ![r].fate = "failed"] /\ UNCHANGED published
  BY <1>1, <1>3 DEF ClaimSend, ScanTo
<1>10. PICK send \in ScanState :
         /\ send.pc = "send" /\ SameSetup(send, me)
         /\ [scan EXCEPT ![r].pc = "send"] = [scan EXCEPT ![r] = send]
  BY <1>7
<1>11. PICK done \in ScanState :
         /\ done.pc = "sent" /\ SameSetup(done, me)
         /\ [scan EXCEPT ![r].pc = "sent"] = [scan EXCEPT ![r] = done]
  BY <1>7
<1>12. PICK withheld \in ScanState :
         /\ withheld.pc = "undo" /\ withheld.fate = "context" /\ SameSetup(withheld, me)
         /\ [scan EXCEPT ![r].pc = "undo", ![r].fate = "context"] = [scan EXCEPT ![r] = withheld]
  BY <1>8
<1>13. PICK lost \in ScanState :
         /\ lost.pc = "undo" /\ lost.fate = "failed" /\ SameSetup(lost, me)
         /\ [scan EXCEPT ![r].pc = "undo", ![r].fate = "failed"] = [scan EXCEPT ![r] = lost]
  BY <1>8
<1> QED BY <1>5, <1>6, <1>9, <1>10, <1>11, <1>12, <1>13

(* Sending, and the write after it: the run is the setup's only sender.      *)
LEMMA SendingStep ==
  ASSUME ScanInv, NEW r \in ScanRuns, SendApproval(r) \/ AttachMessage(r) \/ SendFails(r)
  PROVE  ScanInv'
<1>1. PICK me \in ScanState : me = scan[r] /\ RunOK(me) /\ (Holding(r) <=> me.pc \in HoldingPoints)
  BY RunTyped
<1>2. me.pc \in {"send", "attach"} /\ UNCHANGED <<alertKey, cutOn, overlap>>
  BY <1>1 DEF SendApproval, AttachMessage, SendFails, ScanAt
<1>3. PICK s \in FoundSetups : s = me.found BY <1>1, <1>2 DEF RunOK
<1>4. me.pc \in HoldingPoints BY <1>2 DEF HoldingPoints
<1>5. /\ published[s] = "sending"
      /\ me.pc = "send" => approvals[s] = 0
      /\ me.pc = "attach" => approvals[s] = 1
  BY <1>1, <1>2, <1>3 DEF RunOK
<1>6. \A q \in ScanRuns \ {r} : ~(Sends(q) /\ scan[q].found = me.found)
  BY <1>1, <1>2, NoOtherSender DEF Sends
<1>7. ASSUME NEW status \in SendStates, NEW sent \in {0, 1}, NEW new \in ScanState,
             published' = [published EXCEPT ![s] = status],
             approvals' = [approvals EXCEPT ![s] = sent],
             scan' = [scan EXCEPT ![r] = new], SameSetup(new, me),
             \/ new.pc = "attach" /\ status = "sending" /\ sent = 1
             \/ new.pc = "sent" /\ status = "published" /\ sent = 1
             \/ new.pc = "undo" /\ new.fate = "failed" /\ status = "reconciliation_required"
      PROVE  ScanInv'
  BY <1>1, <1>2, <1>3, <1>4, <1>5, <1>6, <1>7, ProposalWritten
<1>8. ASSUME NEW point \in {"attach", "sent"}
      PROVE  \E new \in ScanState :
               /\ new.pc = point /\ SameSetup(new, me)
               /\ [scan EXCEPT ![r].pc = point] = [scan EXCEPT ![r] = new]
  <2> DEFINE new == [me EXCEPT !.pc = point]
  <2>1. new \in ScanState /\ new.pc = point /\ SameSetup(new, me)
    BY DEF ScanState, ScanPoints, HoldingPoints, SameSetup
  <2> QED BY <1>1, <2>1
<1>9. CASE SendApproval(r)
  <2>1. me.pc = "send" /\ published' = [published EXCEPT ![s] = "sending"]
    BY <1>1, <1>5, <1>9, ProposalIs DEF SendApproval, ScanAt
  <2>2. approvals' = [approvals EXCEPT ![s] = 1]
    <3>1. approvals' = [approvals EXCEPT ![s] = @ + 1] BY <1>1, <1>3, <1>9 DEF SendApproval
    <3>2. approvals[s] + 1 = 1 BY <1>5, <2>1
    <3>3. approvals' = [approvals EXCEPT ![s] = approvals[s] + 1] BY <3>1
    <3> QED BY <3>2, <3>3
  <2>3. scan' = [scan EXCEPT ![r].pc = "attach"] BY <1>9 DEF SendApproval, ScanTo
  <2>4. "sending" \in SendStates /\ 1 \in {0, 1} BY DEF SendStates
  <2> QED BY <1>7, <1>8, <2>1, <2>2, <2>3, <2>4
<1>10. CASE AttachMessage(r)
  <2>1. me.pc = "attach" /\ approvals' = [approvals EXCEPT ![s] = 1]
    BY <1>1, <1>5, <1>10, ProposalIs DEF AttachMessage, ScanAt
  <2>2. published' = [published EXCEPT ![s] = "published"] BY <1>1, <1>3, <1>10 DEF AttachMessage
  <2>3. scan' = [scan EXCEPT ![r].pc = "sent"] BY <1>10 DEF AttachMessage, ScanTo
  <2>4. "published" \in SendStates /\ 1 \in {0, 1} BY DEF SendStates
  <2> QED BY <1>7, <1>8, <2>1, <2>2, <2>3, <2>4
<1>11. CASE SendFails(r)
  <2>1. published' = [published EXCEPT ![s] = "reconciliation_required"]
    BY <1>1, <1>3, <1>11 DEF SendFails
  <2>2. PICK sent \in {0, 1} : approvals' = [approvals EXCEPT ![s] = sent]
    <3>1. approvals' = approvals \/ (me.pc = "send" /\ approvals' = [approvals EXCEPT ![s] = @ + 1])
      BY <1>1, <1>3, <1>11 DEF SendFails, ScanAt
    <3>2. approvals' = approvals => approvals' = [approvals EXCEPT ![s] = approvals[s]]
      BY ProposalIs
    <3>3. me.pc = "send" /\ approvals' = [approvals EXCEPT ![s] = @ + 1] =>
            approvals' = [approvals EXCEPT ![s] = 1]
      <4> SUFFICES ASSUME me.pc = "send", approvals' = [approvals EXCEPT ![s] = @ + 1]
                   PROVE  approvals' = [approvals EXCEPT ![s] = 1]
        OBVIOUS
      <4>1. approvals[s] + 1 = 1 BY <1>5
      <4>2. approvals' = [approvals EXCEPT ![s] = approvals[s] + 1] OBVIOUS
      <4> QED BY <4>1, <4>2
    <3>4. approvals[s] \in {0, 1} BY ProposalIs
    <3> QED BY <3>1, <3>2, <3>3, <3>4
  <2> DEFINE new == [me EXCEPT !.pc = "undo", !.fate = "failed"]
  <2>3. new \in ScanState /\ new.pc = "undo" /\ new.fate = "failed" /\ SameSetup(new, me)
    BY DEF ScanState, ScanPoints, HoldingPoints, SameSetup
  <2>4. scan' = [scan EXCEPT ![r] = new] BY <1>1, <1>11 DEF SendFails
  <2>5. "reconciliation_required" \in SendStates BY DEF SendStates
  <2> HIDE DEF new
  <2> QED BY <1>7, <2>1, <2>2, <2>3, <2>4, <2>5
<1> QED BY <1>9, <1>10, <1>11

(* The message is confirmed: the setup is published, and earned.             *)
LEMMA ConfirmSentStep == ASSUME ScanInv, NEW r \in ScanRuns, ConfirmSent(r) PROVE ScanInv'
<1>1. PICK me \in ScanState : me = scan[r] /\ RunOK(me) /\ (Holding(r) <=> me.pc \in HoldingPoints)
  BY RunTyped
<1>2. me.pc = "sent" /\ UNCHANGED Shared BY <1>1 DEF ConfirmSent, ScanAt, Shared
<1>3. me.found \in FoundSetups /\ me.record = "running" /\ published[me.found] = "published"
  BY <1>1, <1>2 DEF RunOK
<1> DEFINE new == [me EXCEPT !.pc = "closing", !.fate = "sent"]
<1>4. new \in ScanState /\ new.pc = "closing" /\ new.fate = "sent" /\ SameSetup(new, me)
  BY DEF ScanState, ScanPoints, SameSetup
<1>5. scan' = [scan EXCEPT ![r] = new] BY <1>1 DEF ConfirmSent, ScanEnds
<1> HIDE DEF new
<1>6. RunOK(new) BY <1>3, <1>4 DEF RunOK, SameSetup, HoldingPoints
<1>7. scan[r].found = alertKey => Earned(alertKey) BY <1>1, <1>3 DEF Earned
<1>8. ~ScanAt(r, "idle") /\ new.pc \notin {"send", "attach"} BY <1>1, <1>2, <1>4 DEF ScanAt
<1> QED BY <1>2, <1>4, <1>5, <1>6, <1>7, <1>8, QuietRunStep

(* What was put back was earned before.                                      *)
LEMMA UndoAlertStep == ASSUME ScanInv, NEW r \in ScanRuns, UndoAlert(r) PROVE ScanInv'
<1>1. PICK me \in ScanState : me = scan[r] /\ RunOK(me) BY RunTyped
<1>2. /\ me.pc = "undo" /\ alertKey' = me.previous
      /\ UNCHANGED <<published, approvals, cutOn, overlap>>
  BY <1>1 DEF UndoAlert, ScanAt
<1>3. me.record = "running" /\ me.fate \in {"context", "failed"} BY <1>1, <1>2 DEF RunOK
<1> DEFINE new == [me EXCEPT !.pc = "closing"]
<1>4. new \in ScanState /\ new.pc = "closing" /\ new.fate = me.fate /\ SameSetup(new, me)
  BY DEF ScanState, ScanPoints, SameSetup
<1>5. scan' = [scan EXCEPT ![r] = new] BY <1>1 DEF UndoAlert, ScanTo
<1> HIDE DEF new
<1>6. ScanTyped /\ \A s \in FoundSetups : SentOnce(s) BY DEF ScanInv
<1>7. Spared(r) BY <1>2 DEF Spared
<1>8. RunOK(new)' BY <1>3, <1>4 DEF RunOK, SameSetup, HoldingPoints
<1>9. \A s \in FoundSetups : SentOnce(s)' BY <1>2, <1>6 DEF SentOnce
<1>10. alertKey' \in Setups BY <1>2 DEF ScanState
<1>11. ~overlap' /\ alertKey' # NoFound =>
         published'[alertKey'] = "published" \/ alertKey' \in cutOn'
  BY <1>1, <1>2 DEF RunOK, HoldingPoints, Earned
<1>12. ~ScanAt(r, "idle") /\ new.pc \notin {"send", "attach"} BY <1>1, <1>2, <1>4 DEF ScanAt
<1> QED
  BY <1>2, <1>4, <1>5, <1>6, <1>7, <1>8, <1>9, <1>10, <1>11, <1>12, RunStep DEF ScanTyped

(* A run that ends is healthy when its setup was published or none was due.  *)
LEMMA CloseScanStep == ASSUME ScanInv, NEW r \in ScanRuns, CloseScan(r) PROVE ScanInv'
<1>1. PICK me \in ScanState : me = scan[r] /\ RunOK(me) /\ (Holding(r) <=> me.pc \in HoldingPoints)
  BY RunTyped
<1>2. me.pc = "closing" /\ UNCHANGED Shared BY <1>1 DEF CloseScan, ScanAt, Shared
<1>3. PICK record \in {"healthy", "degraded"} :
        /\ record = "healthy" => me.fate \in {"sent", "duplicate", "rejected"}
        /\ scan' = [scan EXCEPT ![r].pc = "idle", ![r].record = record]
  <2> DEFINE record == IF scan[r].fate \in {"sent", "duplicate", "rejected"} THEN "healthy"
                       ELSE "degraded"
  <2>1. record \in {"healthy", "degraded"}
        /\ (record = "healthy" => me.fate \in {"sent", "duplicate", "rejected"})
    BY <1>1
  <2>2. scan' = [scan EXCEPT ![r].pc = "idle", ![r].record = record] BY DEF CloseScan
  <2> QED BY <2>1, <2>2
<1> DEFINE new == [me EXCEPT !.pc = "idle", !.record = record]
<1>4. /\ new \in ScanState /\ new.pc = "idle" /\ new.record = record
      /\ new.found = me.found /\ new.fate = me.fate
  BY DEF ScanState, ScanPoints, Endings
<1>5. scan' = [scan EXCEPT ![r] = new] BY <1>1, <1>3
<1> HIDE DEF new
<1>6. RunOK(new) BY <1>1, <1>2, <1>3, <1>4 DEF RunOK, HoldingPoints
<1>7. ~Holding(r) /\ ~ScanAt(r, "idle") BY <1>1, <1>2 DEF HoldingPoints, ScanAt
<1>8. new.pc \notin {"send", "attach"} BY <1>4
<1> QED BY <1>2, <1>4, <1>5, <1>6, <1>7, <1>8, QuietRunStep

(* A run cut off over its setup is remembered.                               *)
LEMMA ScanCutStep == ASSUME ScanInv, NEW r \in ScanRuns, ScanCut(r) PROVE ScanInv'
<1>1. PICK me \in ScanState : me = scan[r] /\ RunOK(me) /\ (Holding(r) <=> me.pc \in HoldingPoints)
  BY RunTyped
<1>2. /\ me.pc # "idle" /\ UNCHANGED <<alertKey, published, approvals, overlap>>
      /\ cutOn' = IF me.pc \in HoldingPoints THEN cutOn \cup {me.found} ELSE cutOn
  BY <1>1 DEF ScanCut, ScanAt
<1>3. PICK record \in {"interrupted", "failed", "running"} :
        scan' = [scan EXCEPT ![r].pc = "idle", ![r].record = record]
  BY DEF ScanCut
<1> DEFINE new == [me EXCEPT !.pc = "idle", !.record = record]
<1>4. new \in ScanState /\ new.pc = "idle" /\ new.record = record
  BY DEF ScanState, ScanPoints, Endings
<1>5. scan' = [scan EXCEPT ![r] = new] BY <1>1, <1>3
<1> HIDE DEF new
<1>6. ScanTyped /\ CooldownEarned /\ \A s \in FoundSetups : SentOnce(s) BY DEF ScanInv
<1>7. me.pc \in HoldingPoints => me.found \in FoundSetups BY <1>1 DEF RunOK, HoldingPoints
<1>8. cutOn \subseteq cutOn' /\ cutOn' \subseteq FoundSetups BY <1>2, <1>6, <1>7 DEF ScanTyped
<1>9. Spared(r) BY <1>2, <1>8 DEF Spared
<1>10. RunOK(new)' BY <1>4 DEF RunOK, HoldingPoints
<1>11. \A s \in FoundSetups : SentOnce(s)' BY <1>2, <1>6 DEF SentOnce
<1>12. ~overlap' /\ alertKey' # NoFound =>
         \/ published'[alertKey'] = "published" \/ alertKey' \in cutOn'
         \/ \E q \in ScanRuns \ {r} : Holding(q) /\ scan[q].found = alertKey'
  BY <1>1, <1>2, <1>6 DEF CooldownEarned
<1> QED
  BY <1>2, <1>4, <1>5, <1>6, <1>8, <1>9, <1>10, <1>11, <1>12, RunStep DEF ScanTyped

(* The invariant of the scans is inductive.                                  *)
LEMMA ScanInductive == ScanInv /\ [ScanNext]_scanVars => ScanInv'
<1> SUFFICES ASSUME ScanInv, [ScanNext]_scanVars PROVE ScanInv' OBVIOUS
<1>1. CASE UNCHANGED <<scan, published, approvals, cutOn, overlap>>
           /\ (alertKey' = alertKey \/ alertKey' = NoFound)
  <2>1. ScanTyped' BY <1>1 DEF ScanInv, ScanTyped, Setups
  <2>2. OneSender' /\ OneRun'
    BY <1>1 DEF ScanInv, OneSender, OneRun, Sends, ScanAt
  <2>3. CooldownEarned' BY <1>1 DEF ScanInv, CooldownEarned, Holding, Guarded
  <2>4. \A s \in FoundSetups : SentOnce(s)' BY <1>1 DEF ScanInv, SentOnce
  <2>5. \A r \in ScanRuns : RunOK(scan[r])' BY <1>1 DEF ScanInv, RunOK, Earned
  <2> QED BY <2>1, <2>2, <2>3, <2>4, <2>5 DEF ScanInv
<1>2. CASE UNCHANGED scanVars \/ CooldownEnds BY <1>1, <1>2 DEF scanVars, CooldownEnds
<1>3. ASSUME NEW r \in ScanRuns,
             \/ StartScan(r) \/ AnalyseSymbol(r) \/ LookAtAlert(r) \/ TakeAlert(r) \/ Announce(r)
             \/ PriceSetup(r) \/ NoPrice(r) \/ ClaimSend(r) \/ SendApproval(r) \/ AttachMessage(r)
             \/ SendFails(r) \/ ConfirmSent(r) \/ UndoAlert(r) \/ CloseScan(r)
             \/ ScanRaises(r) \/ ScanCut(r)
      PROVE  ScanInv'
  BY <1>3, StartScanStep, AnalyseSymbolStep, LookAtAlertStep, TakeAlertStep, GoOnStep,
     PriceSetupStep, ClaimSendStep, SendingStep, ConfirmSentStep, UndoAlertStep, CloseScanStep,
     ScanCutStep
<1> QED BY <1>2, <1>3 DEF ScanNext

(* What the invariant says of the state is what the runs check.              *)
LEMMA ScansRight ==
  ScanInv => ScanTypeOK /\ OneApprovalMessage /\ CooldownEarned /\ HealthyIsTrue
<1> SUFFICES ASSUME ScanInv
             PROVE  ScanTypeOK /\ OneApprovalMessage /\ CooldownEarned /\ HealthyIsTrue
  OBVIOUS
<1>1. ScanTypeOK BY DEF ScanInv, ScanTyped, ScanTypeOK, Setups, SendStates, ScanState
<1>2. OneApprovalMessage BY DEF ScanInv, ScanTyped, OneApprovalMessage
<1>3. HealthyIsTrue
  <2> SUFFICES ASSUME NEW r \in ScanRuns, scan[r].record = "healthy", scan[r].found # NoFound
               PROVE  scan[r].fate = "duplicate"
                        \/ (scan[r].fate = "sent" /\ approvals[scan[r].found] = 1)
    BY DEF HealthyIsTrue
  <2>1. RunOK(scan[r]) BY DEF ScanInv
  <2>2. scan[r].fate \in {"sent", "duplicate"} BY <2>1 DEF RunOK
  <2>3. ASSUME scan[r].fate = "sent" PROVE approvals[scan[r].found] = 1
    <3>1. scan[r].found \in FoundSetups /\ published[scan[r].found] = "published"
      BY <2>1, <2>3 DEF RunOK
    <3> QED BY <3>1 DEF ScanInv, SentOnce
  <2> QED BY <2>2, <2>3
<1> QED BY <1>1, <1>2, <1>3 DEF ScanInv

\* A setup has one approval message, for any number of scans that overlap, are cut
\* off, repeated or fail.
THEOREM ApprovalSentOnce == ScanSpec => []OneApprovalMessage
BY ScansRight, ScanInitially, ScanInductive, PTL DEF ScanSpec

\* While scans do not overlap, a setup holds the cooldown only when its approval
\* message was sent, a scan is at work on it or was cut off over it.
THEOREM CooldownIsEarned == ScanSpec => []CooldownEarned
BY ScansRight, ScanInitially, ScanInductive, PTL DEF ScanSpec

\* A scan recorded healthy that found a setup sent its message or met it under
\* cooldown.
THEOREM HealthyScansAreTrue == ScanSpec => []HealthyIsTrue
BY ScansRight, ScanInitially, ScanInductive, PTL DEF ScanSpec

-----------------------------------------------------------------------------
(* The notifications of a channel. *)

Notices ==
  [version : Nat, kind : {"none", "setup", "expired"}, setup : FoundSetups \cup {NoFound},
   delivery : {"none", "pending", "delivered", "failed"}, number : Nat]
WatchState ==
  [pc : {"idle", "reserve", "deliver", "finish"}, notice : Notices, delivered : BOOLEAN]
Notified == [kind : {"none", "setup", "expired"}, setup : FoundSetups \cup {NoFound},
             seen : BOOLEAN]
NoticeTyped ==
  /\ channel \in Notices /\ mirror \in [Watchers -> Notices]
  /\ watch \in [Watchers -> WatchState] /\ reserved \in Seq(Notified)

\* The channel tells of the last notification reserved, and of a delivery that the
\* chat has seen.
ChannelTells ==
  /\ channel.number = Len(reserved) /\ (Len(reserved) = 0 => channel.kind = "none")
  /\ Len(reserved) > 0 =>
       /\ channel.kind = reserved[Len(reserved)].kind
       /\ channel.setup = reserved[Len(reserved)].setup
       /\ channel.delivery = "delivered" => reserved[Len(reserved)].seen

\* A copy is the channel as it was at its version, which is 0 of the first alone.
CopyOf(n) ==
  /\ n.version <= channel.version /\ (n.version = channel.version => n = channel)
  /\ channel.version = 0 => channel = NoNotice

\* What may follow the channel's notification.
Continues(n) ==
  /\ n.version <= channel.version /\ n.kind \in {"setup", "expired"}
  /\ n.version = channel.version =>
       /\ n.kind = "setup" => ~(channel.kind = "setup" /\ channel.setup = n.setup)
       /\ n.kind = "expired" => /\ channel.kind = "setup" /\ channel.delivery = "delivered"
                                /\ channel.setup = n.setup

\* A notification under delivery is the analysis's own; no expiry follows it before
\* it was delivered.
WatchOK(me) ==
  /\ me.pc = "reserve" => Continues(me.notice)
  /\ me.pc \in {"reserve", "deliver"} => ~me.delivered
  /\ me.pc \in {"deliver", "finish"} =>
       /\ CopyOf(me.notice) /\ me.notice.delivery = "pending"
       /\ me.notice.number \in 1..Len(reserved)
       /\ me.notice.number = Len(reserved) => me.notice = channel
  /\ me.pc = "deliver" /\ me.notice.number < Len(reserved) =>
       reserved[me.notice.number + 1].kind # "expired"
  /\ me.pc = "finish" /\ me.delivered => reserved[me.notice.number].seen
Delivers(w) == watch[w].pc \in {"deliver", "finish"}
OwnNotices ==
  \A w, v \in Watchers :
    Delivers(w) /\ Delivers(v) /\ watch[w].notice.number = watch[v].notice.number => w = v

NoticeInv ==
  /\ NoticeTyped /\ ChannelTells /\ OwnNotices /\ NoticesInOrder
  /\ lapsed \subseteq 1..Len(reserved)
  /\ \A w \in Watchers : CopyOf(mirror[w]) /\ WatchOK(watch[w])

(* A reservation is over the version of the state it was made from.          *)
LEMMA NoticeWritten ==
  ASSUME NEW n \in Notices, NEW number \in Nat
  PROVE  \E last \in Notices :
           /\ last = [n EXCEPT !.version = @ + 1, !.delivery = "pending", !.number = number]
           /\ last.version = n.version + 1 /\ last.delivery = "pending"
           /\ last.number = number /\ last.kind = n.kind /\ last.setup = n.setup
<1>0. PICK version \in Nat : version = n.version + 1 BY DEF Notices
<1> DEFINE last == [n EXCEPT !.version = version, !.delivery = "pending", !.number = number]
<1>1. last = [n EXCEPT !.version = @ + 1, !.delivery = "pending", !.number = number] BY <1>0
<1>2. last \in Notices BY DEF Notices
<1>3. /\ last.version = version /\ last.delivery = "pending" /\ last.number = number
      /\ last.kind = n.kind /\ last.setup = n.setup
  BY DEF Notices
<1> HIDE DEF last
<1> QED BY <1>0, <1>1, <1>2, <1>3

(* Nothing is notified at first.                                             *)
LEMMA NoticeInitially == NoticeInit => NoticeInv
<1> SUFFICES ASSUME NoticeInit PROVE NoticeInv OBVIOUS
<1>1. NoNotice \in Notices /\ NoNotice.version = 0 /\ NoNotice.kind = "none" /\ NoNotice.number = 0
  BY DEF NoNotice, Notices
<1>2. IdleWatch \in WatchState /\ IdleWatch.pc = "idle" BY <1>1 DEF IdleWatch, WatchState
<1> HIDE DEF NoNotice, IdleWatch
<1>3. /\ channel = NoNotice /\ reserved = <<>> /\ Len(reserved) = 0 /\ lapsed = {}
      /\ mirror = [w \in Watchers |-> NoNotice] /\ watch = [w \in Watchers |-> IdleWatch]
  BY DEF NoticeInit
<1>4. NoticeTyped BY <1>1, <1>2, <1>3 DEF NoticeTyped
<1>5. ChannelTells BY <1>1, <1>3 DEF ChannelTells
<1>6. OwnNotices BY <1>2, <1>3 DEF OwnNotices, Delivers
<1>7. NoticesInOrder BY <1>3 DEF NoticesInOrder
<1>8. \A w \in Watchers : CopyOf(mirror[w]) /\ WatchOK(watch[w])
  BY <1>1, <1>2, <1>3 DEF CopyOf, WatchOK
<1> QED BY <1>3, <1>4, <1>5, <1>6, <1>7, <1>8 DEF NoticeInv

(* A step that leaves the channel alone.                                     *)
LEMMA ChannelStays ==
  ASSUME NoticeInv, NEW w \in Watchers, NEW new \in WatchState, watch' = [watch EXCEPT ![w] = new],
         UNCHANGED <<channel, reserved>>, lapsed' \subseteq 1..Len(reserved),
         mirror' \in [Watchers -> Notices], \A v \in Watchers : CopyOf(mirror'[v]),
         WatchOK(new), new.pc \notin {"deliver", "finish"}
  PROVE  NoticeInv'
<1>1. /\ watch \in [Watchers -> WatchState] /\ NoticeTyped /\ ChannelTells /\ OwnNotices
      /\ NoticesInOrder /\ \A v \in Watchers : WatchOK(watch[v])
  BY DEF NoticeInv, NoticeTyped
<1>2. watch'[w] = new /\ watch' \in [Watchers -> WatchState]
      /\ \A v \in Watchers : v # w => watch'[v] = watch[v]
  BY <1>1
<1>3. \A v \in Watchers : WatchOK(watch'[v]) BY <1>1, <1>2
<1>4. NoticeTyped' BY <1>1, <1>2 DEF NoticeTyped
<1>5. ChannelTells' BY <1>1 DEF ChannelTells
<1>6. OwnNotices' BY <1>1, <1>2 DEF OwnNotices, Delivers
<1>7. NoticesInOrder' BY <1>1 DEF NoticesInOrder
<1>8. \A v \in Watchers : CopyOf(mirror[v])' BY DEF CopyOf
<1>9. \A v \in Watchers : WatchOK(watch[v])'
  <2> TAKE v \in Watchers
  <2>1. PICK me : me = watch'[v] OBVIOUS
  <2>2. WatchOK(me) BY <1>3, <2>1
  <2>3. WatchOK(me)' BY <2>2 DEF WatchOK, CopyOf, Continues
  <2> QED BY <2>1, <2>3
<1> QED BY <1>4, <1>5, <1>6, <1>7, <1>8, <1>9 DEF NoticeInv

(* What the last state read calls for continues it.                          *)
LEMMA CandidateContinues ==
  ASSUME NoticeInv, NEW previous \in Notices, CopyOf(previous),
         NEW found \in FoundSetups \cup {NoFound},
         Candidate(previous, found) # NoNotice
  PROVE  Candidate(previous, found) \in Notices /\ Continues(Candidate(previous, found))
<1> DEFINE expired == [previous EXCEPT !.kind = "expired"]
           changed == [previous EXCEPT !.kind = "setup", !.setup = found]
<1>1. /\ expired \in Notices /\ expired.kind = "expired" /\ expired.version = previous.version
      /\ expired.setup = previous.setup
      /\ changed \in Notices /\ changed.kind = "setup" /\ changed.version = previous.version
      /\ changed.setup = found
  BY DEF Notices
<1> HIDE DEF expired, changed
<1>2. CASE /\ previous.kind = "setup" /\ previous.delivery = "delivered"
           /\ Candidate(previous, found) = expired
  BY <1>1, <1>2 DEF Continues, CopyOf
<1>3. CASE ~(previous.kind = "setup" /\ previous.setup = found)
           /\ Candidate(previous, found) = changed
  BY <1>1, <1>3 DEF Continues, CopyOf
<1> QED BY <1>2, <1>3 DEF Candidate, expired, changed

(* An analysis that finds a notification to make read a copy of the channel. *)
LEMMA AnalyseChannelStep ==
  ASSUME NoticeInv, NEW w \in Watchers, NEW found \in FoundSetups \cup {NoFound},
         AnalyseChannel(w, found)
  PROVE  NoticeInv'
<1>1. /\ mirror \in [Watchers -> Notices] /\ channel \in Notices
      /\ lapsed \subseteq 1..Len(reserved)
      /\ \A v \in Watchers : CopyOf(mirror[v])
  BY DEF NoticeInv, NoticeTyped
<1>2. UNCHANGED <<channel, reserved, lapsed>> BY DEF AnalyseChannel
<1>3. PICK next \in [Watchers -> Notices] :
        /\ next = mirror' /\ Selected(w, next[w], found)
        /\ \A v \in Watchers : CopyOf(next[v])
  <2>1. CASE UNCHANGED mirror /\ Selected(w, mirror[w], found) BY <1>1, <2>1
  <2>2. CASE /\ mirror' = [mirror EXCEPT ![w] = IF channel = NoNotice THEN @ ELSE channel]
             /\ Selected(w, mirror'[w], found)
    <3>1. CopyOf(channel) BY <1>1 DEF CopyOf, Notices
    <3>2. mirror' \in [Watchers -> Notices] BY <1>1, <2>2
    <3>3. \A v \in Watchers : mirror'[v] = mirror[v] \/ mirror'[v] = channel BY <1>1, <2>2
    <3>4. \A v \in Watchers : CopyOf(mirror'[v]) BY <1>1, <3>1, <3>3
    <3> QED BY <2>2, <3>2, <3>4
  <2> QED BY <2>1, <2>2 DEF AnalyseChannel
<1>4. next[w] \in Notices /\ CopyOf(next[w]) BY <1>3
<1>5. PICK new \in WatchState :
        /\ watch' = [watch EXCEPT ![w] = new] /\ WatchOK(new) /\ new.pc \in {"idle", "reserve"}
  <2> DEFINE notice == Candidate(next[w], found)
  <2>1. CASE notice = NoNotice
    <3>1. watch' = [watch EXCEPT ![w] = IdleWatch] BY <1>3, <2>1 DEF Selected
    <3>2. IdleWatch \in WatchState /\ IdleWatch.pc = "idle"
      BY DEF IdleWatch, WatchState, NoNotice, Notices
    <3>3. WatchOK(IdleWatch) BY <3>2 DEF WatchOK
    <3> QED BY <3>1, <3>2, <3>3
  <2>2. CASE notice # NoNotice
    <3>1. notice \in Notices /\ Continues(notice) BY <1>4, <2>2, CandidateContinues
    <3> DEFINE new == [IdleWatch EXCEPT !.pc = "reserve", !.notice = notice]
    <3>2. watch' = [watch EXCEPT ![w] = new] BY <1>3, <2>2 DEF Selected
    <3> HIDE DEF notice
    <3>3. new \in WatchState /\ new.pc = "reserve" /\ new.notice = notice /\ ~new.delivered
      BY <3>1 DEF IdleWatch, WatchState
    <3> HIDE DEF new
    <3>4. WatchOK(new) BY <3>1, <3>3 DEF WatchOK
    <3> QED BY <3>2, <3>3, <3>4
  <2> QED BY <2>1, <2>2
<1>6. \A v \in Watchers : CopyOf(mirror'[v]) BY <1>3
<1> QED BY <1>1, <1>2, <1>3, <1>5, <1>6, ChannelStays

(* The analysis stops, with what it reserved or without.                     *)
LEMMA WatchEnds ==
  ASSUME NoticeInv, NEW w \in Watchers, watch' = [watch EXCEPT ![w] = IdleWatch],
         UNCHANGED <<channel, reserved, lapsed>>, mirror' \in [Watchers -> Notices],
         \A v \in Watchers : CopyOf(mirror'[v])
  PROVE  NoticeInv'
<1>1. IdleWatch \in WatchState /\ IdleWatch.pc = "idle"
  BY DEF IdleWatch, WatchState, NoNotice, Notices
<1>2. WatchOK(IdleWatch) BY <1>1 DEF WatchOK
<1>3. lapsed' \subseteq 1..Len(reserved) BY DEF NoticeInv
<1> QED BY <1>1, <1>2, <1>3, ChannelStays

(* The notification reserved, over the version that was read, follows the    *)
(* last one in order; every copy made before is older.                       *)
LEMMA ReservedStep ==
  ASSUME NoticeInv, NEW w \in Watchers, watch[w].pc = "reserve", Reserved(w),
         channel.version = watch[w].notice.version, UNCHANGED lapsed,
         NEW new \in WatchState, watch' = [watch EXCEPT ![w] = new],
         new.pc = "idle" \/ (new.pc = "deliver" /\ new.notice = channel' /\ ~new.delivered),
         UNCHANGED mirror \/ mirror' = [mirror EXCEPT ![w] = channel']
  PROVE  NoticeInv'
<1>1. /\ channel \in Notices /\ mirror \in [Watchers -> Notices] /\ reserved \in Seq(Notified)
      /\ watch \in [Watchers -> WatchState] /\ ChannelTells /\ OwnNotices /\ NoticesInOrder
      /\ lapsed \subseteq 1..Len(reserved)
      /\ \A v \in Watchers : CopyOf(mirror[v]) /\ WatchOK(watch[v])
  BY DEF NoticeInv, NoticeTyped
<1>2. PICK n \in Notices : n = watch[w].notice /\ Continues(n)
  BY <1>1 DEF WatchState, WatchOK
<1>3. PICK L \in Nat : L = Len(reserved) BY <1>1
<1>a. n.version = channel.version /\ n.version \in Nat /\ L + 1 \in Nat BY <1>2, <1>3 DEF Notices
<1>b. PICK number \in Nat : number = L + 1 BY <1>a
<1>c. PICK last \in Notices :
        /\ last = [n EXCEPT !.version = @ + 1, !.delivery = "pending", !.number = number]
        /\ last.version = n.version + 1 /\ last.delivery = "pending"
        /\ last.number = number /\ last.kind = n.kind /\ last.setup = n.setup
  BY NoticeWritten
<1>4. /\ last = [n EXCEPT !.version = @ + 1, !.delivery = "pending", !.number = L + 1]
      /\ last.version = channel.version + 1 /\ last.delivery = "pending"
      /\ last.number = L + 1 /\ last.kind = n.kind /\ last.setup = n.setup
  BY <1>a, <1>b, <1>c
<1> DEFINE entry == [kind |-> n.kind, setup |-> n.setup, seen |-> FALSE]
<1>5. channel' = last /\ reserved' = Append(reserved, entry)
  BY <1>2, <1>3, <1>4 DEF Reserved, Reservation
<1>6. entry \in Notified /\ entry.kind = n.kind /\ entry.setup = n.setup
  BY <1>2 DEF Notified, Notices
<1> HIDE DEF entry
<1>7. /\ reserved' \in Seq(Notified) /\ Len(reserved') = L + 1 /\ reserved'[L + 1] = entry
      /\ \A i \in 1..L : reserved'[i] = reserved[i]
  BY <1>1, <1>3, <1>5, <1>6
<1>8. mirror' \in [Watchers -> Notices] /\ \A v \in Watchers : mirror'[v] \in {mirror[v], last}
  BY <1>1, <1>4, <1>5
<1>9. watch' \in [Watchers -> WatchState] /\ watch'[w] = new
      /\ \A v \in Watchers : v # w => watch'[v] = watch[v]
  BY <1>1
<1>10. NoticeTyped' BY <1>4, <1>5, <1>7, <1>8, <1>9 DEF NoticeTyped
<1>11. ChannelTells' BY <1>4, <1>5, <1>6, <1>7 DEF ChannelTells
<1>12. lapsed' \subseteq 1..Len(reserved') BY <1>1, <1>3, <1>7
<1>13. ASSUME NEW old \in Notices, CopyOf(old) PROVE CopyOf(old)'
  <2>1. old.version <= channel.version /\ channel.version \in Nat /\ old.version \in Nat
    BY <1>1, <1>13 DEF CopyOf, Notices
  <2> QED BY <1>4, <1>5, <2>1 DEF CopyOf
<1>14. CopyOf(last)' BY <1>4, <1>5 DEF CopyOf, Notices
<1>15. \A v \in Watchers : CopyOf(mirror[v])'
  <2> TAKE v \in Watchers
  <2>1. PICK old \in Notices : old = mirror'[v] BY <1>8
  <2>2. old = mirror[v] \/ old = last BY <1>8, <2>1
  <2>3. CopyOf(old)' BY <1>1, <1>4, <1>13, <1>14, <2>2
  <2> QED BY <2>1, <2>3
<1>16. OwnNotices'
  <2>1. \A v \in Watchers : Delivers(v) => watch[v].notice.number \in 1..L
    BY <1>1, <1>3 DEF WatchOK, Delivers
  <2>2. new.pc = "deliver" => new.notice.number = L + 1 BY <1>4, <1>5
  <2> QED BY <1>1, <1>3, <1>9, <2>1, <2>2 DEF OwnNotices, Delivers
<1>17. \A v \in Watchers : WatchOK(watch[v])'
  <2> SUFFICES ASSUME NEW v \in Watchers PROVE WatchOK(watch[v])' OBVIOUS
  <2>1. CASE v = w
    <3>1. CASE new.pc = "idle"
      <4>1. WatchOK(new)' BY <3>1 DEF WatchOK
      <4> QED BY <1>9, <2>1, <4>1
    <3>2. CASE new.pc = "deliver" /\ new.notice = last /\ ~new.delivered
      <4>1. CopyOf(new.notice)' BY <1>14, <3>2
      <4>2. WatchOK(new)' BY <1>3, <1>4, <1>5, <1>7, <3>2, <4>1 DEF WatchOK
      <4> QED BY <1>9, <2>1, <4>2
    <3> QED BY <1>5, <3>1, <3>2
  <2>2. CASE v # w
    <3>1. PICK me \in WatchState : me = watch[v] /\ me = watch'[v] /\ WatchOK(me)
      BY <1>1, <1>9, <2>2
    <3>2. CASE me.pc = "reserve"
      <4>1. PICK x \in Notices : x = me.notice BY DEF WatchState
      <4>2. Continues(x) BY <3>1, <3>2, <4>1 DEF WatchOK
      <4>3. Continues(x)'
        <5>1. /\ x.version <= channel.version /\ x.kind \in {"setup", "expired"}
              /\ channel.version \in Nat /\ x.version \in Nat
          BY <1>1, <4>2 DEF Continues, Notices
        <5>2. channel'.version = channel.version + 1 BY <1>4, <1>5
        <5>3. x.version <= channel'.version /\ x.version # channel'.version BY <5>1, <5>2
        <5> QED BY <5>1, <5>3 DEF Continues
      <4>4. WatchOK(me)' BY <3>1, <3>2, <4>1, <4>3 DEF WatchOK
      <4> QED BY <3>1, <4>4
    <3>3. CASE me.pc \in {"deliver", "finish"}
      <4>1. PICK x \in Notices : x = me.notice BY DEF WatchState
      <4>2. /\ CopyOf(x) /\ x.delivery = "pending" /\ x.number \in 1..L
            /\ x.number = L => x = channel
            /\ me.pc = "deliver" /\ x.number < L => reserved[x.number + 1].kind # "expired"
            /\ me.pc = "finish" /\ me.delivered => reserved[x.number].seen
        BY <1>3, <3>1, <3>3, <4>1 DEF WatchOK
      <4>3. CopyOf(x)' BY <1>13, <4>2
      <4>4. me.pc = "deliver" => reserved'[x.number + 1].kind # "expired"
        <5>1. CASE x.number = L
          <6>1. n.kind # "expired" BY <1>2, <4>2, <5>1 DEF Continues
          <6> QED BY <1>6, <1>7, <5>1, <6>1
        <5>2. CASE x.number # L BY <1>7, <4>2, <5>2
        <5> QED BY <5>1, <5>2
      <4>5. WatchOK(me)' BY <1>3, <1>7, <3>1, <3>3, <4>1, <4>2, <4>3, <4>4 DEF WatchOK
      <4> QED BY <3>1, <4>5
    <3>4. CASE me.pc = "idle"
      <4>1. WatchOK(me)' BY <3>4 DEF WatchOK
      <4> QED BY <3>1, <4>1
    <3> QED BY <3>2, <3>3, <3>4 DEF WatchState
  <2> QED BY <2>1, <2>2
<1>18. NoticesInOrder'
  <2> SUFFICES ASSUME NEW i \in 1..(L + 1)
               PROVE  /\ i > 1 => \/ reserved'[i].kind # reserved'[i - 1].kind
                                  \/ reserved'[i].setup # reserved'[i - 1].setup
                      /\ reserved'[i].kind = "expired" =>
                           /\ i > 1 /\ reserved'[i - 1].seen
                           /\ reserved'[i - 1].setup = reserved'[i].setup
    BY <1>7 DEF NoticesInOrder
  <2>1. CASE i \in 1..L
    <3>1. i \in DOMAIN reserved /\ (i > 1 => i - 1 \in 1..L) BY <1>1, <1>3, <2>1
    <3> QED BY <1>1, <1>7, <2>1, <3>1 DEF NoticesInOrder
  <2>2. CASE i = L + 1
    <3>1. /\ n.kind \in {"setup", "expired"}
          /\ n.kind = "setup" => ~(channel.kind = "setup" /\ channel.setup = n.setup)
          /\ n.kind = "expired" => /\ channel.kind = "setup" /\ channel.delivery = "delivered"
                                   /\ channel.setup = n.setup
      BY <1>2 DEF Continues
    <3>2. L = 0 => channel.kind = "none" BY <1>1, <1>3 DEF ChannelTells
    <3>3. L > 0 => /\ channel.kind = reserved[L].kind /\ channel.setup = reserved[L].setup
                   /\ channel.delivery = "delivered" => reserved[L].seen
      BY <1>1, <1>3 DEF ChannelTells
    <3>4. L > 0 => reserved'[L] = reserved[L] BY <1>7
    <3>5. reserved'[i].kind = n.kind /\ reserved'[i].setup = n.setup /\ i - 1 = L
      BY <1>6, <1>7, <2>2
    <3>6. CASE L = 0 BY <2>2, <3>1, <3>2, <3>5, <3>6
    <3>7. CASE L > 0
      <4>1. /\ reserved'[i - 1] = reserved[L] /\ i > 1 BY <2>2, <3>4, <3>5, <3>7
      <4> QED BY <3>1, <3>3, <3>5, <3>7, <4>1
    <3> QED BY <3>6, <3>7
  <2> QED BY <2>1, <2>2
<1> QED BY <1>10, <1>11, <1>12, <1>15, <1>16, <1>17, <1>18 DEF NoticeInv

(* A reservation is stored over the version it was made from, or not at all. *)
LEMMA ReserveNoticeStep ==
  ASSUME NoticeInv, NEW w \in Watchers, ReserveNotice(w) \/ ReserveFails(w) PROVE NoticeInv'
<1>1. /\ watch \in [Watchers -> WatchState] /\ mirror \in [Watchers -> Notices]
      /\ \A v \in Watchers : CopyOf(mirror[v]) /\ WatchOK(watch[v])
  BY DEF NoticeInv, NoticeTyped
<1>2. watch[w].pc = "reserve" /\ UNCHANGED lapsed BY DEF ReserveNotice, ReserveFails
<1>3. CASE watch' = [watch EXCEPT ![w] = IdleWatch] /\ UNCHANGED <<channel, mirror, reserved>>
  BY <1>1, <1>2, <1>3, WatchEnds
<1>4. CASE /\ channel.version = watch[w].notice.version /\ Reserved(w)
           /\ mirror' = [mirror EXCEPT ![w] = channel']
           /\ watch' = [watch EXCEPT ![w].pc = "deliver", ![w].notice = channel']
  <2>1. channel' \in Notices
    <3>1. PICK n \in Notices : n = watch[w].notice BY <1>1 DEF WatchState
    <3>2. PICK number \in Nat : number = Len(reserved) + 1 BY DEF NoticeInv, NoticeTyped
    <3>4. [n EXCEPT !.version = @ + 1, !.delivery = "pending", !.number = number] \in Notices
      BY NoticeWritten
    <3> QED BY <1>4, <3>1, <3>2, <3>4 DEF Reserved, Reservation
  <2>2. PICK next \in Notices : next = channel' BY <2>1
  <2>3. PICK me \in WatchState : me = watch[w] /\ ~me.delivered BY <1>1, <1>2 DEF WatchOK
  <2> DEFINE new == [me EXCEPT !.pc = "deliver", !.notice = next]
  <2>4. new \in WatchState /\ new.pc = "deliver" /\ new.notice = next /\ ~new.delivered
    BY <2>3 DEF WatchState
  <2>5. watch' = [watch EXCEPT ![w] = new] BY <1>4, <2>2, <2>3
  <2> HIDE DEF new
  <2> QED BY <1>2, <1>4, <2>2, <2>4, <2>5, ReservedStep
<1>5. CASE /\ channel.version = watch[w].notice.version /\ Reserved(w)
           /\ watch' = [watch EXCEPT ![w] = IdleWatch] /\ UNCHANGED mirror
  <2>1. IdleWatch \in WatchState /\ IdleWatch.pc = "idle"
    BY DEF IdleWatch, WatchState, NoNotice, Notices
  <2> QED BY <1>2, <1>5, <2>1, ReservedStep
<1> QED BY <1>3, <1>4, <1>5 DEF ReserveNotice, ReserveFails

(* A delivery marks its own notification, which nothing has relied on yet.   *)
LEMMA DeliverNoticeStep == ASSUME NoticeInv, NEW w \in Watchers, Deliver(w) PROVE NoticeInv'
<1>1. /\ channel \in Notices /\ mirror \in [Watchers -> Notices] /\ reserved \in Seq(Notified)
      /\ watch \in [Watchers -> WatchState] /\ ChannelTells /\ OwnNotices /\ NoticesInOrder
      /\ lapsed \subseteq 1..Len(reserved)
      /\ \A v \in Watchers : CopyOf(mirror[v]) /\ WatchOK(watch[v])
  BY DEF NoticeInv, NoticeTyped
<1>2. UNCHANGED <<channel, mirror, lapsed>> /\ watch[w].pc = "deliver" BY DEF Deliver
<1>3. PICK me \in WatchState : me = watch[w] /\ WatchOK(me) /\ me.pc = "deliver" BY <1>1, <1>2
<1>4. PICK L \in Nat : L = Len(reserved) BY <1>1
<1>5. PICK n \in 1..L : n = me.notice.number BY <1>3, <1>4 DEF WatchOK
<1>6. /\ n = L => channel.delivery = "pending"
      /\ n < L => reserved[n + 1].kind # "expired"
  BY <1>3, <1>4, <1>5 DEF WatchOK
<1>7. PICK seen \in BOOLEAN, new \in WatchState :
        /\ reserved' = [reserved EXCEPT ![n].seen = seen] /\ watch' = [watch EXCEPT ![w] = new]
        /\ new.pc = "finish" /\ new.notice = me.notice /\ (new.delivered => seen)
  <2>1. CASE /\ reserved' = [reserved EXCEPT ![n].seen = TRUE]
             /\ watch' = [watch EXCEPT ![w].pc = "finish", ![w].delivered = TRUE]
    <3> DEFINE new == [me EXCEPT !.pc = "finish", !.delivered = TRUE]
    <3>1. new \in WatchState /\ new.pc = "finish" /\ new.notice = me.notice BY DEF WatchState
    <3>2. watch' = [watch EXCEPT ![w] = new] BY <1>3, <2>1
    <3> HIDE DEF new
    <3> QED BY <2>1, <3>1, <3>2
  <2>2. ASSUME NEW shown \in BOOLEAN, reserved' = [reserved EXCEPT ![n].seen = shown],
               watch' = [watch EXCEPT ![w].pc = "finish"]
        PROVE  \E seen \in BOOLEAN, new \in WatchState :
                 /\ reserved' = [reserved EXCEPT ![n].seen = seen]
                 /\ watch' = [watch EXCEPT ![w] = new]
                 /\ new.pc = "finish" /\ new.notice = me.notice /\ (new.delivered => seen)
    <3> DEFINE new == [me EXCEPT !.pc = "finish"]
    <3>1. new \in WatchState /\ new.pc = "finish" /\ new.notice = me.notice /\ ~new.delivered
      BY <1>3 DEF WatchState, WatchOK
    <3>2. watch' = [watch EXCEPT ![w] = new] BY <1>3, <2>2
    <3> HIDE DEF new
    <3> QED BY <2>2, <3>1, <3>2
  <2> QED BY <1>3, <1>5, <2>1, <2>2 DEF Deliver
<1>8. PICK told \in Seq(Notified) : told = reserved' /\ Len(told) = L
        /\ told[n].seen = seen /\ (\A i \in 1..L : i # n => told[i] = reserved[i])
        /\ \A i \in 1..L : told[i].kind = reserved[i].kind /\ told[i].setup = reserved[i].setup
  <2>1. \A i \in 1..L : reserved[i] \in Notified BY <1>1, <1>4
  <2>2. PICK old \in Notified : old = reserved[n] BY <2>1
  <2> DEFINE marked == [old EXCEPT !.seen = seen]
  <2>3. /\ marked \in Notified /\ marked.seen = seen
        /\ marked.kind = old.kind /\ marked.setup = old.setup
    BY DEF Notified
  <2>4. reserved' = [reserved EXCEPT ![n] = marked] BY <1>7, <2>2
  <2> HIDE DEF marked
  <2>5. /\ reserved' \in Seq(Notified) /\ Len(reserved') = L /\ reserved'[n] = marked
        /\ \A i \in 1..L : i # n => reserved'[i] = reserved[i]
    BY <1>1, <1>4, <2>3, <2>4
  <2> QED BY <2>2, <2>3, <2>5
<1>9. watch' \in [Watchers -> WatchState] /\ watch'[w] = new
      /\ \A v \in Watchers : v # w => watch'[v] = watch[v]
  BY <1>1, <1>7
<1>10. NoticeTyped' BY <1>1, <1>2, <1>8, <1>9 DEF NoticeTyped
<1>11. ChannelTells' BY <1>1, <1>2, <1>4, <1>6, <1>8 DEF ChannelTells
<1>12. OwnNotices' BY <1>1, <1>3, <1>7, <1>9 DEF OwnNotices, Delivers
<1>13. lapsed' \subseteq 1..Len(reserved') BY <1>1, <1>2, <1>4, <1>8
<1>14. NoticesInOrder'
  <2> SUFFICES ASSUME NEW i \in 1..L
               PROVE  /\ i > 1 => \/ told[i].kind # told[i - 1].kind
                                  \/ told[i].setup # told[i - 1].setup
                      /\ told[i].kind = "expired" =>
                           i > 1 /\ told[i - 1].seen /\ told[i - 1].setup = told[i].setup
    BY <1>8 DEF NoticesInOrder
  <2>1. /\ i > 1 => \/ reserved[i].kind # reserved[i - 1].kind
                    \/ reserved[i].setup # reserved[i - 1].setup
        /\ reserved[i].kind = "expired" =>
             i > 1 /\ reserved[i - 1].seen /\ reserved[i - 1].setup = reserved[i].setup
    <3>1. i \in DOMAIN reserved BY <1>1, <1>4
    <3> QED BY <1>1, <3>1 DEF NoticesInOrder
  <2>2. i > 1 => i - 1 \in 1..L OBVIOUS
  <2>3. CASE i - 1 = n
    <3>1. reserved[i].kind # "expired" BY <1>6, <2>3
    <3> QED BY <1>8, <2>1, <2>2, <3>1
  <2>4. CASE i - 1 # n BY <1>8, <2>1, <2>2, <2>4
  <2> QED BY <2>3, <2>4
<1>15. \A v \in Watchers : CopyOf(mirror[v])' BY <1>1, <1>2 DEF CopyOf
<1>16. \A v \in Watchers : WatchOK(watch[v])'
  <2> SUFFICES ASSUME NEW v \in Watchers PROVE WatchOK(watch[v])' OBVIOUS
  <2>1. CASE v = w
    <3>1. WatchOK(new)' BY <1>2, <1>3, <1>4, <1>5, <1>7, <1>8 DEF WatchOK, CopyOf
    <3> QED BY <1>9, <2>1, <3>1
  <2>2. CASE v # w
    <3>1. PICK my \in WatchState : my = watch[v] /\ my = watch'[v] /\ WatchOK(my)
      BY <1>1, <1>9, <2>2
    <3>2. my.pc \in {"deliver", "finish"} => my.notice.number # n /\ my.notice.number \in 1..L
      BY <1>1, <1>3, <1>4, <1>5, <2>2, <3>1 DEF OwnNotices, Delivers, WatchOK
    <3>3. my.pc = "reserve" => Continues(my.notice)' BY <1>2, <3>1 DEF WatchOK, Continues
    <3>4. my.pc \in {"deliver", "finish"} => CopyOf(my.notice)' BY <1>2, <3>1 DEF WatchOK, CopyOf
    <3>5. my.pc = "deliver" /\ my.notice.number < L =>
            told[my.notice.number + 1].kind = reserved[my.notice.number + 1].kind
      BY <1>8, <3>2
    <3>6. my.pc = "finish" => told[my.notice.number] = reserved[my.notice.number]
      BY <1>8, <3>2
    <3>7. WatchOK(my)' BY <1>2, <1>4, <1>8, <3>1, <3>3, <3>4, <3>5, <3>6 DEF WatchOK
    <3> QED BY <3>1, <3>7
  <2> QED BY <2>1, <2>2
<1> QED BY <1>10, <1>11, <1>12, <1>13, <1>14, <1>15, <1>16 DEF NoticeInv

(* Only the channel's own notification is finished in it.                    *)
LEMMA FinishNoticeStep == ASSUME NoticeInv, NEW w \in Watchers, FinishNotice(w) PROVE NoticeInv'
<1>1. /\ channel \in Notices /\ mirror \in [Watchers -> Notices] /\ reserved \in Seq(Notified)
      /\ watch \in [Watchers -> WatchState] /\ ChannelTells /\ OwnNotices /\ NoticesInOrder
      /\ lapsed \subseteq 1..Len(reserved)
      /\ \A v \in Watchers : CopyOf(mirror[v]) /\ WatchOK(watch[v])
  BY DEF NoticeInv, NoticeTyped
<1>2. PICK me \in WatchState : me = watch[w] /\ WatchOK(me) /\ me.pc = "finish"
  BY <1>1 DEF FinishNotice
<1>3. watch' = [watch EXCEPT ![w] = IdleWatch] /\ UNCHANGED <<reserved, lapsed>>
  BY DEF FinishNotice
<1>4. CASE UNCHANGED <<channel, mirror>> BY <1>1, <1>3, <1>4, WatchEnds
<1>5. CASE channel.version = watch[w].notice.version
  <2>1. me.notice = channel BY <1>2, <1>5 DEF WatchOK, CopyOf
  <2>3. PICK done \in Notices :
          /\ channel' = done /\ mirror' = [mirror EXCEPT ![w] = done]
          /\ done.version = channel.version + 1 /\ done.kind = channel.kind
          /\ done.setup = channel.setup /\ done.number = channel.number
          /\ done.delivery = "delivered" => me.delivered
    <3>1. PICK version \in Nat : version = channel.version + 1 BY <1>1 DEF Notices
    <3>2. PICK ending \in {"delivered", "failed"} :
            ending = IF me.delivered THEN "delivered" ELSE "failed"
      OBVIOUS
    <3> DEFINE done == [channel EXCEPT !.version = version, !.delivery = ending]
    <3>3. done = [channel EXCEPT !.version = @ + 1, !.delivery = ending] BY <3>1
    <3>4. channel' = done /\ mirror' = [mirror EXCEPT ![w] = done]
      BY <1>2, <1>5, <2>1, <3>2, <3>3 DEF FinishNotice
    <3>5. done \in Notices BY <1>1, <3>2 DEF Notices
    <3>6. /\ done.version = version /\ done.delivery = ending /\ done.kind = channel.kind
          /\ done.setup = channel.setup /\ done.number = channel.number
      BY <1>1 DEF Notices
    <3> HIDE DEF done
    <3>7. done.delivery = "delivered" => me.delivered BY <3>2, <3>6
    <3> QED BY <3>1, <3>4, <3>5, <3>6, <3>7
  <2>2. channel' = done BY <2>3
  <2>4. channel.number = Len(reserved) /\ Len(reserved) > 0
        /\ (me.delivered => reserved[Len(reserved)].seen)
    BY <1>1, <1>2, <2>1 DEF ChannelTells, WatchOK
  <2>5. ChannelTells' BY <1>1, <1>3, <2>2, <2>3, <2>4 DEF ChannelTells
  <2>6. ASSUME NEW old \in Notices, CopyOf(old) PROVE CopyOf(old)'
    <3>1. old.version <= channel.version /\ channel.version \in Nat /\ old.version \in Nat
      BY <1>1, <2>6 DEF CopyOf, Notices
    <3>2. channel'.version = channel.version + 1 BY <2>3
    <3>3. /\ old.version <= channel'.version /\ old.version # channel'.version
          /\ channel'.version # 0
      BY <3>1, <3>2
    <3> QED BY <3>3 DEF CopyOf
  <2>7. CopyOf(done)'
    <3>1. done.version \in Nat /\ done.version # 0 BY <1>1, <2>3 DEF Notices
    <3> QED BY <2>2, <3>1 DEF CopyOf
  <2>8. mirror' \in [Watchers -> Notices] /\ \A v \in Watchers : mirror'[v] \in {mirror[v], done}
    BY <1>1, <2>2, <2>3
  <2>9. \A v \in Watchers : CopyOf(mirror[v])'
    <3> TAKE v \in Watchers
    <3>1. PICK old \in Notices : old = mirror'[v] BY <2>8
    <3>2. old = mirror[v] \/ old = done BY <2>8, <3>1
    <3>3. CASE old = done BY <2>7, <3>1, <3>3
    <3>4. CASE old = mirror[v]
      <4>1. CopyOf(old) BY <1>1, <3>4
      <4> QED BY <2>6, <3>1, <4>1
    <3> QED BY <3>1, <3>2, <3>3, <3>4
  <2>10. IdleWatch \in WatchState /\ IdleWatch.pc = "idle"
    BY DEF IdleWatch, WatchState, NoNotice, Notices
  <2>11. watch' \in [Watchers -> WatchState] /\ watch'[w] = IdleWatch
         /\ \A v \in Watchers : v # w => watch'[v] = watch[v]
    BY <1>1, <1>3, <2>10
  <2>12. OwnNotices' BY <1>1, <2>10, <2>11 DEF OwnNotices, Delivers
  <2>13. NoticeTyped' BY <1>1, <1>3, <2>2, <2>3, <2>8, <2>11 DEF NoticeTyped
  <2>14. NoticesInOrder' /\ lapsed' \subseteq 1..Len(reserved') BY <1>1, <1>3 DEF NoticesInOrder
  <2>15. \A v \in Watchers : WatchOK(watch[v])'
    <3> SUFFICES ASSUME NEW v \in Watchers PROVE WatchOK(watch[v])' OBVIOUS
    <3>1. CASE v = w
      <4>1. WatchOK(IdleWatch)' BY <2>10 DEF WatchOK
      <4> QED BY <2>11, <3>1, <4>1
    <3>2. CASE v # w
      <4>1. PICK my \in WatchState : my = watch[v] /\ my = watch'[v] /\ WatchOK(my)
        BY <1>1, <2>11, <3>2
      <4>2. PICK x \in Notices : x = my.notice BY DEF WatchState
      <4>3. my.pc = "reserve" => Continues(x)'
        <5> SUFFICES ASSUME my.pc = "reserve" PROVE Continues(x)' OBVIOUS
        <5>1. Continues(x) BY <4>1, <4>2 DEF WatchOK
        <5> QED BY <1>1, <2>2, <2>3, <5>1 DEF Continues, Notices
      <4>4. my.pc \in {"deliver", "finish"} => CopyOf(x)' BY <2>6, <4>1, <4>2 DEF WatchOK
      <4>5. my.pc \in {"deliver", "finish"} => x.number # Len(reserved)
        BY <1>1, <1>2, <2>1, <2>4, <3>2, <4>1, <4>2 DEF OwnNotices, Delivers
      <4>6. WatchOK(my)' BY <1>3, <4>1, <4>2, <4>3, <4>4, <4>5 DEF WatchOK
      <4> QED BY <4>1, <4>6
    <3> QED BY <3>1, <3>2
  <2> QED BY <2>5, <2>9, <2>12, <2>13, <2>14, <2>15 DEF NoticeInv
<1> QED BY <1>4, <1>5 DEF FinishNotice

(* The first notification is a copy of the channel at any time.              *)
LEMMA NoneIsACopy == ASSUME NoticeInv, NEW w \in Watchers PROVE CopyOf(NoNotice)
<1>1. channel.version \in Nat /\ (channel.version = 0 => channel = NoNotice)
  BY DEF NoticeInv, NoticeTyped, Notices, CopyOf
<1> QED BY <1>1 DEF CopyOf, NoNotice

(* An analysis stops anywhere, and its process may lose its copy.            *)
LEMMA WatchStopsStep == ASSUME NoticeInv, NEW w \in Watchers, WatchStops(w) PROVE NoticeInv'
<1>1. /\ mirror \in [Watchers -> Notices] /\ \A v \in Watchers : CopyOf(mirror[v])
  BY DEF NoticeInv, NoticeTyped
<1>2. NoNotice \in Notices BY DEF NoNotice, Notices
<1>3. /\ mirror' \in [Watchers -> Notices]
      /\ \A v \in Watchers : mirror'[v] \in {mirror[v], NoNotice}
  BY <1>1, <1>2 DEF WatchStops
<1>4. \A v \in Watchers : CopyOf(mirror'[v]) BY <1>1, <1>3, NoneIsACopy
<1>5. watch' = [watch EXCEPT ![w] = IdleWatch] /\ UNCHANGED <<channel, reserved, lapsed>>
  BY DEF WatchStops
<1> QED BY <1>3, <1>4, <1>5, WatchEnds

(* Nothing the invariant speaks of changes but the lapses.                   *)
LEMMA NoticesStay ==
  ASSUME NoticeInv, UNCHANGED <<channel, mirror, watch, reserved>>,
         lapsed' \subseteq 1..Len(reserved)
  PROVE  NoticeInv'
<1>1. NoticeTyped' BY DEF NoticeInv, NoticeTyped
<1>2. ChannelTells' /\ OwnNotices' /\ NoticesInOrder'
  BY DEF NoticeInv, ChannelTells, OwnNotices, Delivers, NoticesInOrder
<1>3. \A w \in Watchers : CopyOf(mirror[w])' BY DEF NoticeInv, CopyOf
<1>4. \A w \in Watchers : WatchOK(watch[w])'
  <2> TAKE w \in Watchers
  <2>1. PICK me : me = watch[w] OBVIOUS
  <2>2. WatchOK(me) BY <2>1 DEF NoticeInv
  <2>3. WatchOK(me)' BY <2>2 DEF WatchOK, CopyOf, Continues
  <2> QED BY <2>1, <2>3
<1>5. lapsed' \subseteq 1..Len(reserved') OBVIOUS
<1> QED BY <1>1, <1>2, <1>3, <1>4, <1>5 DEF NoticeInv

(* A setup lapses only when its notification was reserved.                   *)
LEMMA NoticeInductive == ASSUME NoticeInv, [NoticeNext]_noticeVars PROVE NoticeInv'
<1>1. CASE SetupLapses
  <2>1. PICK number \in Nat : number = channel.number /\ number = Len(reserved)
    BY DEF NoticeInv, NoticeTyped, ChannelTells, Notices
  <2>2. number # 0 /\ lapsed' = lapsed \cup {number} BY <1>1, <2>1 DEF SetupLapses
  <2>3. number \in 1..Len(reserved) BY <2>1, <2>2
  <2>4. lapsed' \subseteq 1..Len(reserved) BY <2>2, <2>3 DEF NoticeInv
  <2>5. UNCHANGED <<channel, mirror, watch, reserved>> BY <1>1 DEF SetupLapses
  <2> QED BY <2>4, <2>5, NoticesStay
<1>2. ASSUME NEW w \in Watchers, NEW found \in FoundSetups \cup {NoFound},
             AnalyseChannel(w, found)
      PROVE  NoticeInv'
  BY <1>2, AnalyseChannelStep
<1>3. ASSUME NEW w \in Watchers, ReserveNotice(w) \/ ReserveFails(w) PROVE NoticeInv'
  BY <1>3, ReserveNoticeStep
<1>4. ASSUME NEW w \in Watchers, Deliver(w) PROVE NoticeInv' BY <1>4, DeliverNoticeStep
<1>5. ASSUME NEW w \in Watchers, FinishNotice(w) PROVE NoticeInv' BY <1>5, FinishNoticeStep
<1>6. ASSUME NEW w \in Watchers, WatchStops(w) PROVE NoticeInv' BY <1>6, WatchStopsStep
<1>7. CASE UNCHANGED noticeVars
  <2>1. UNCHANGED <<channel, mirror, watch, reserved, lapsed>> BY <1>7 DEF noticeVars
  <2>2. lapsed' \subseteq 1..Len(reserved) BY <2>1 DEF NoticeInv
  <2> QED BY <2>1, <2>2, NoticesStay
<1> QED BY <1>1, <1>2, <1>3, <1>4, <1>5, <1>6, <1>7 DEF NoticeNext

(* The invariant implies what the run checks.                                *)
LEMMA NoticesRight == NoticeInv => NoticeTypeOK /\ NoticesInOrder
<1> SUFFICES ASSUME NoticeInv PROVE NoticeTypeOK /\ NoticesInOrder OBVIOUS
<1>1. /\ channel \in Notices /\ channel.number = Len(reserved) /\ Len(reserved) \in Nat
      /\ lapsed \subseteq 1..Len(reserved)
  BY DEF NoticeInv, NoticeTyped, ChannelTells
<1>2. NoticeTypeOK BY <1>1 DEF NoticeTypeOK, Notices
<1> QED BY <1>2 DEF NoticeInv

(* Overlapping analyses, Redis errors and stale copies never notify the same *)
(* setup twice running, and an expiry follows a setup that the chat was      *)
(* shown (the compare-and-set of the channel's state).                       *)
THEOREM NotificationsInOrder == NoticeSpec => []NoticesInOrder
<1>1. NoticeInit => NoticeInv BY NoticeInitially
<1>2. NoticeInv /\ [NoticeNext]_noticeVars => NoticeInv' BY NoticeInductive
<1>3. NoticeInv => NoticesInOrder BY NoticesRight
<1> QED BY <1>1, <1>2, <1>3, PTL DEF NoticeSpec

-----------------------------------------------------------------------------
(* The evidence hierarchy. *)

Directions == {"long", "short", "neutral"}
Stages == {"none", "watching", "confirmed"}
Contexts == [id : Seq(Nat), direction : Directions, stage : Stages]
EvidenceTyped ==
  /\ bucket \in 1..MaxBucket /\ macro \in 0..MaxBucket /\ kept \in [Layers -> 0..MaxCandle]
  /\ bundle \in BOOLEAN /\ blind \in BOOLEAN

\* The id of a context is the path of candles down to it.
Chained(c) ==
  /\ c \in [Layers -> Contexts] /\ \A l \in Layers : c[l] # NoContext => Len(c[l].id) = l + 1
  /\ \A l \in Strategy..Trigger : c[l] # NoContext => c[l - 1] # NoContext /\ Rests(c[l], c[l - 1])

\* A setup that is watched points somewhere, and where its strategy points.
Pointed(c) == c[Setup].stage # "none" => c[Setup].direction # "neutral"
Aligned(c) == c[Setup] # NoContext => c[Setup].direction = c[Strategy].direction

\* A layer held was found in a final candle.
Seen(c, candles) == \A l \in {Strategy, Setup} : c[l] # NoContext => candles[l] > 0

Bundled ==
  bundle => /\ context[Strategy].direction # "neutral"
            /\ \A l \in {Setup, Trigger} : context[l].direction = context[Strategy].direction
EvidenceInv ==
  /\ EvidenceTyped /\ Chained(context) /\ Pointed(context)
  /\ ~blind => Aligned(context) /\ Seen(context, kept) /\ Bundled

(* An empty context has the empty id, and no layer's.                        *)
LEMMA NoContextTyped ==
  /\ NoContext \in Contexts /\ NoContext.id = <<>> /\ NoContext.stage = "none"
  /\ NoContext.direction = "neutral"
BY DEF NoContext, Contexts, Directions, Stages

(* The layers are the numbers 1 to 4.                                        *)
LEMMA LayersAre ==
  /\ Layers = {1, 2, 3, 4} /\ Strategy..Trigger = {2, 3, 4} /\ Parents = {1, 2, 3}
  /\ Regime = 1 /\ Strategy = 2 /\ Setup = 3 /\ Trigger = 4
BY DEF Layers, Parents, Regime, Strategy, Setup, Trigger

(* A new context of a layer whose parent it rests on leaves a chain: the     *)
(* layers below went, or its id is the one they rest on.                     *)
LEMMA PlacedChained ==
  ASSUME NEW c, Chained(c), NEW l \in Layers, NEW new \in Contexts, Len(new.id) = l + 1,
         l # Regime => c[l - 1] # NoContext /\ Rests(new, c[l - 1])
  PROVE  /\ Chained(Placed(c, l, new)) /\ Placed(c, l, new)[l] = new
         /\ \A k \in Layers : k < l => Placed(c, l, new)[k] = c[k]
         /\ \A k \in Layers : k > l =>
              /\ Placed(c, l, new)[k] # NoContext => Placed(c, l, new)[k] = c[k] /\ new.id = c[l].id
              /\ Placed(c, l, new)[k] \in {c[k], NoContext}
<1> DEFINE p == Placed(c, l, new)
<1>1. /\ p = [k \in Layers |-> p[k]] /\ p[l] = new /\ \A k \in Layers : k < l => p[k] = c[k]
      /\ \A k \in Layers : k > l => p[k] = IF c[l].id # new.id THEN NoContext ELSE c[k]
  BY LayersAre DEF Placed
<1> HIDE DEF p
<1>2. /\ c \in [Layers -> Contexts] /\ \A k \in Layers : c[k] # NoContext => Len(c[k].id) = k + 1
      /\ \A k \in {2, 3, 4} : c[k] # NoContext => c[k - 1] # NoContext /\ Rests(c[k], c[k - 1])
  BY LayersAre DEF Chained
<1>3. \A k \in Layers : p[k] \in Contexts /\ (p[k] # NoContext => Len(p[k].id) = k + 1)
  <2> SUFFICES ASSUME NEW k \in Layers
               PROVE  p[k] \in Contexts /\ (p[k] # NoContext => Len(p[k].id) = k + 1)
    OBVIOUS
  <2>1. CASE k = l BY <1>1, <2>1
  <2>2. ASSUME p[k] = c[k]
        PROVE  p[k] \in Contexts /\ (p[k] # NoContext => Len(p[k].id) = k + 1)
    BY <1>2, <2>2
  <2>3. ASSUME p[k] = NoContext
        PROVE  p[k] \in Contexts /\ (p[k] # NoContext => Len(p[k].id) = k + 1)
    BY <2>3, NoContextTyped
  <2>4. k # l => p[k] \in {c[k], NoContext} BY <1>1, LayersAre
  <2> QED BY <2>1, <2>2, <2>3, <2>4
<1>4. p \in [Layers -> Contexts] BY <1>1, <1>3
<1>5. new # NoContext BY NoContextTyped, LayersAre
<1>6. ASSUME NEW k \in {2, 3, 4}, p[k] # NoContext
      PROVE  p[k - 1] # NoContext /\ Rests(p[k], p[k - 1])
  <2>1. k \in Layers /\ k - 1 \in Layers BY LayersAre
  <2>2. CASE k < l
    <3>1. p[k] = c[k] /\ p[k - 1] = c[k - 1] BY <1>1, <2>1, <2>2, LayersAre
    <3> QED BY <1>2, <1>6, <3>1
  <2>3. CASE k = l
    <3>1. p[k] = new /\ p[k - 1] = c[k - 1] /\ l # Regime BY <1>1, <2>1, <2>3, LayersAre
    <3> QED BY <2>3, <3>1
  <2>4. CASE k > l
    <3>1. p[k] = c[k] /\ c[l].id = new.id BY <1>1, <1>6, <2>1, <2>4
    <3>2. c[k - 1] # NoContext /\ Rests(c[k], c[k - 1]) BY <1>2, <1>6, <3>1
    <3>3. CASE k - 1 = l
      <4>1. p[k - 1] = new BY <1>1, <3>3
      <4> QED BY <1>5, <3>1, <3>2, <3>3, <4>1 DEF Rests
    <3>4. CASE k - 1 # l
      <4>1. k - 1 > l BY <2>1, <2>4, <3>4, LayersAre
      <4>2. p[k - 1] = c[k - 1] BY <1>1, <2>1, <3>1, <4>1
      <4> QED BY <3>1, <3>2, <4>2
    <3> QED BY <3>3, <3>4
  <2> QED BY <2>1, <2>2, <2>3, <2>4, LayersAre
<1>7. Chained(p) BY <1>3, <1>4, <1>6, LayersAre DEF Chained
<1>8. \A k \in Layers : k > l =>
        (p[k] # NoContext => p[k] = c[k] /\ new.id = c[l].id) /\ p[k] \in {c[k], NoContext}
  BY <1>1
<1> QED BY <1>1, <1>7, <1>8 DEF p

(* The same of a context placed under its parent.                            *)
LEMMA UnderChained ==
  ASSUME NEW c, Chained(c), NEW l \in {2, 3, 4}, c[l - 1] # NoContext, NEW candle \in 1..MaxCandle,
         NEW direction \in Directions, NEW stage \in Stages
  PROVE  \E next :
           /\ next = Under(c, l, candle, direction, stage) /\ Chained(next)
           /\ next[l].direction = direction /\ next[l].stage = stage
           /\ \A k \in Layers : k < l => next[k] = c[k]
           /\ \A k \in Layers : k > l => /\ next[k] # NoContext => next[l].id = c[l].id
                                         /\ next[k] \in {c[k], NoContext}
<1>1. l - 1 \in Layers /\ candle \in Nat BY LayersAre, EvidenceAssumption
<1>2. PICK id \in Seq(Nat) : id = c[l - 1].id /\ Len(id) = l BY <1>1 DEF Chained, Contexts
<1> DEFINE new == [id |-> Append(id, candle), direction |-> direction, stage |-> stage]
<1>3. Append(id, candle) \in Seq(Nat) /\ Len(Append(id, candle)) = l + 1 BY <1>1, <1>2
<1>4. new \in Contexts BY <1>3 DEF Contexts
<1>5. Under(c, l, candle, direction, stage) = Placed(c, l, new) BY <1>2 DEF Under
<1>6. new.id = Append(id, candle) /\ new.direction = direction /\ new.stage = stage OBVIOUS
<1> HIDE DEF new
<1>7. Rests(new, c[l - 1]) BY <1>2, <1>6 DEF Rests
<1>8. l \in Layers /\ Len(new.id) = l + 1 BY <1>3, <1>6, LayersAre
<1>9. l # Regime => c[l - 1] # NoContext /\ Rests(new, c[l - 1]) BY <1>7
<1>10. PICK next : next = Placed(c, l, new) OBVIOUS
<1>11. /\ Chained(next) /\ next[l] = new /\ \A k \in Layers : k < l => next[k] = c[k]
       /\ \A k \in Layers : k > l => /\ next[k] # NoContext => new.id = c[l].id
                                     /\ next[k] \in {c[k], NoContext}
  BY <1>4, <1>8, <1>9, <1>10, PlacedChained
<1> QED BY <1>5, <1>6, <1>10, <1>11

(* What expires takes the layers below with it.                              *)
LEMMA ExpiredChained ==
  ASSUME NEW c, Chained(c), Pointed(c), NEW cut \in 1..5
  PROVE  /\ Chained(Expired(c, cut)) /\ Pointed(Expired(c, cut))
         /\ \A k \in Layers : Expired(c, cut)[k] \in {c[k], NoContext}
<1> DEFINE p == Expired(c, cut)
<1>1. /\ p = [k \in Layers |-> p[k]]
      /\ \A k \in Layers : p[k] = IF k >= cut THEN NoContext ELSE c[k]
  BY DEF Expired
<1> HIDE DEF p
<1>2. /\ c \in [Layers -> Contexts] /\ \A k \in Layers : c[k] # NoContext => Len(c[k].id) = k + 1
      /\ \A k \in {2, 3, 4} : c[k] # NoContext => c[k - 1] # NoContext /\ Rests(c[k], c[k - 1])
  BY LayersAre DEF Chained
<1>3. \A k \in Layers : /\ p[k] \in Contexts /\ p[k] \in {c[k], NoContext}
                        /\ p[k] # NoContext => Len(p[k].id) = k + 1
  BY <1>1, <1>2, NoContextTyped
<1>4. p \in [Layers -> Contexts] BY <1>1, <1>3
<1>5. \A k \in {2, 3, 4} : p[k] # NoContext => p[k - 1] # NoContext /\ Rests(p[k], p[k - 1])
  <2> SUFFICES ASSUME NEW k \in {2, 3, 4}, p[k] # NoContext
               PROVE  p[k - 1] # NoContext /\ Rests(p[k], p[k - 1])
    OBVIOUS
  <2>1. k \in Layers /\ k - 1 \in Layers BY LayersAre
  <2>2. ~(k >= cut) /\ p[k] = c[k] BY <1>1, <2>1
  <2>3. p[k - 1] = c[k - 1] BY <1>1, <2>1, <2>2
  <2> QED BY <1>2, <2>2, <2>3
<1>6. Chained(p) BY <1>3, <1>4, <1>5, LayersAre DEF Chained
<1>7. Pointed(p) BY <1>3, NoContextTyped, LayersAre DEF Pointed
<1> QED BY <1>3, <1>6, <1>7 DEF p

(* The candles of a tick: 0 for a timeframe without a final one.             *)
Candles == [Layers -> 0..MaxCandle]

(* The advisory regime, or the chain as it was.                              *)
LEMMA RegimeStep ==
  ASSUME NEW c, Chained(c), Pointed(c), NEW m \in 1..MaxBucket, NEW took, NEW snaps \in Candles,
         NEW next, next = WithRegime(c, m, took, snaps)
  PROVE  /\ Chained(next) /\ Pointed(next)
         /\ \A k \in {2, 3, 4} : /\ next[k] \in {c[k], NoContext}
                                 /\ next[k] # NoContext => next[1].id = c[1].id
<1>1. CASE next = c BY <1>1
<1>2. CASE snaps[1] > 0 /\ next = Placed(c, 1, [NoContext EXCEPT !.id = <<m, snaps[1]>>])
  <2>1. PICK candle \in Nat : candle = snaps[1] BY LayersAre DEF Candles
  <2>2. PICK bucketed \in Nat : bucketed = m BY EvidenceAssumption
  <2>3. <<bucketed, candle>> \in Seq(Nat) /\ Len(<<bucketed, candle>>) = 2 OBVIOUS
  <2> DEFINE new == [NoContext EXCEPT !.id = <<bucketed, candle>>]
  <2>4. new \in Contexts /\ new.id = <<bucketed, candle>>
    BY <2>3 DEF NoContext, Contexts, Directions, Stages
  <2>5. next = Placed(c, 1, new) BY <1>2, <2>1, <2>2
  <2> HIDE DEF new
  <2>6. PICK l \in Layers : l = 1 /\ l = Regime BY LayersAre
  <2>a. Len(new.id) = l + 1 /\ next = Placed(c, l, new) BY <2>3, <2>4, <2>5, <2>6
  <2>b. /\ Chained(next) /\ next[l] = new
        /\ \A k \in Layers : k > l => /\ next[k] # NoContext => new.id = c[l].id
                                      /\ next[k] \in {c[k], NoContext}
    <3>1. l # Regime => c[l - 1] # NoContext /\ Rests(new, c[l - 1]) BY <2>6
    <3>2. Len(new.id) = l + 1 /\ new \in Contexts BY <2>4, <2>a
    <3>3. /\ Chained(Placed(c, l, new)) /\ Placed(c, l, new)[l] = new
          /\ \A k \in Layers : k > l =>
               /\ Placed(c, l, new)[k] # NoContext => new.id = c[l].id
               /\ Placed(c, l, new)[k] \in {c[k], NoContext}
      BY <3>1, <3>2, PlacedChained
    <3> QED BY <2>a, <3>3
  <2>7. /\ Chained(next) /\ next[1] = new
        /\ \A k \in Layers : k > 1 => /\ next[k] # NoContext => new.id = c[1].id
                                      /\ next[k] \in {c[k], NoContext}
    BY <2>6, <2>b
  <2>8. \A k \in {2, 3, 4} : k \in Layers /\ k > 1 BY LayersAre
  <2>9. Pointed(next) BY <2>7, <2>8, NoContextTyped, LayersAre DEF Pointed
  <2> QED BY <2>7, <2>8, <2>9
<1> QED BY <1>1, <1>2, LayersAre DEF WithRegime

(* The strategy looked at, or the chain as it was.                           *)
LEMMA StrategyStep ==
  ASSUME NEW before, NEW c, Chained(c), Pointed(c), NEW took, NEW snaps \in Candles,
         NEW next \in WithStrategy(before, c, took, snaps)
  PROVE  /\ Chained(next) /\ Pointed(next)
         /\ next = c \/ (Looks(2, took, before, c, snaps) /\ snaps[2] > 0)
         /\ \A k \in {3, 4} : next[k] \in {c[k], NoContext}
         /\ next[3] # NoContext => next[2].id = c[2].id
<1>1. CASE next = c BY <1>1
<1>2. ASSUME Looks(2, took, before, c, snaps), NEW direction \in Directions,
             next = Under(c, 2, snaps[2], direction, "none")
      PROVE  /\ Chained(next) /\ Pointed(next) /\ snaps[2] > 0
             /\ \A k \in {3, 4} : next[k] \in {c[k], NoContext}
             /\ next[3] # NoContext => next[2].id = c[2].id
  <2>1. c[2 - 1] # NoContext /\ snaps[2] > 0 BY <1>2 DEF Looks
  <2>2. PICK candle \in 1..MaxCandle : candle = snaps[2]
    BY <2>1, LayersAre, EvidenceAssumption DEF Candles
  <2>3. "none" \in Stages BY DEF Stages
  <2>5. 2 \in Layers /\ 3 \in Layers /\ 4 \in Layers BY LayersAre
  <2>6. /\ Chained(next)
        /\ \A k \in Layers : k > 2 => /\ next[k] # NoContext => next[2].id = c[2].id
                                      /\ next[k] \in {c[k], NoContext}
    BY <1>2, <2>1, <2>2, <2>3, UnderChained
  <2>7. \A k \in {3, 4} : next[k] \in {c[k], NoContext} BY <2>5, <2>6
  <2>8. Pointed(next) BY <2>7, NoContextTyped, LayersAre DEF Pointed
  <2> QED BY <2>1, <2>5, <2>6, <2>7, <2>8
<1> QED BY <1>1, <1>2, LayersAre DEF WithStrategy, Directions

(* The setup looked at points where the strategy does.                       *)
LEMMA SetupStep ==
  ASSUME NEW before, NEW c, Chained(c), Pointed(c), NEW took, NEW snaps \in Candles,
         NEW next \in WithSetup(before, c, took, snaps)
  PROVE  /\ Chained(next) /\ Pointed(next) /\ next[2] = c[2]
         /\ \/ next = c /\ ~Looks(3, took, before, c, snaps)
            \/ next[3].direction = c[2].direction /\ snaps[3] > 0
<1>1. CASE next = c /\ ~Looks(3, took, before, c, snaps) BY <1>1
<1>2. ASSUME Looks(3, took, before, c, snaps), NEW stage \in Stages,
             c[2].direction = "neutral" => stage = "none",
             next = Under(c, 3, snaps[3], c[2].direction, stage)
      PROVE  /\ Chained(next) /\ Pointed(next) /\ next[2] = c[2]
             /\ next[3].direction = c[2].direction /\ snaps[3] > 0
  <2>1. c[3 - 1] # NoContext /\ snaps[3] > 0 BY <1>2 DEF Looks
  <2>2. PICK candle \in 1..MaxCandle : candle = snaps[3]
    BY <2>1, LayersAre, EvidenceAssumption DEF Candles
  <2>3. PICK direction \in Directions : direction = c[2].direction
    BY LayersAre DEF Chained, Contexts
  <2>5. 2 \in Layers /\ 3 \in Layers /\ 2 < 3 BY LayersAre
  <2>6. /\ Chained(next) /\ next[3].direction = direction /\ next[3].stage = stage
        /\ \A k \in Layers : k < 3 => next[k] = c[k]
    BY <1>2, <2>1, <2>2, <2>3, UnderChained
  <2>7. next[2] = c[2] BY <2>5, <2>6
  <2>8. Pointed(next) BY <1>2, <2>3, <2>6, LayersAre DEF Pointed
  <2> QED BY <2>1, <2>3, <2>6, <2>7, <2>8
<1> QED BY <1>1, <1>2, LayersAre DEF WithSetup, Stages

(* The trigger judged points where its setup does.                           *)
LEMMA TriggerStep ==
  ASSUME NEW c, Chained(c), Pointed(c), NEW took, NEW snaps \in Candles,
         NEW next, next = WithTrigger(c, took, snaps)
  PROVE  /\ Chained(next) /\ next[2] = c[2] /\ next[3] = c[3]
         /\ Judges(c, took, snaps) => next[4].direction = c[3].direction
<1>1. CASE next = c /\ ~Judges(c, took, snaps) BY <1>1
<1>2. CASE Judges(c, took, snaps) /\ next = Under(c, 4, snaps[4], c[3].direction, "none")
  <2>1. c[3].stage = "confirmed" /\ snaps[4] > 0 BY <1>2, LayersAre DEF Judges
  <2>2. PICK candle \in 1..MaxCandle : candle = snaps[4]
    BY <2>1, LayersAre, EvidenceAssumption DEF Candles
  <2>3. PICK direction \in Directions : direction = c[3].direction
    BY LayersAre DEF Chained, Contexts
  <2>4. c[4 - 1] # NoContext BY <2>1, NoContextTyped
  <2>5. "none" \in Stages BY DEF Stages
  <2>7. 2 \in Layers /\ 3 \in Layers /\ 4 \in Layers BY LayersAre
  <2>8. /\ Chained(next) /\ next[4].direction = direction
        /\ \A k \in Layers : k < 4 => next[k] = c[k]
    BY <1>2, <2>2, <2>3, <2>4, <2>5, UnderChained
  <2> QED BY <2>3, <2>7, <2>8
<1> QED BY <1>1, <1>2, LayersAre DEF WithTrigger

(* What the layers of a tick made of those before them.                      *)
Cut(new, old) == \A k \in Layers : new[k] \in {old[k], NoContext}
OfRegime(new, old) ==
  \A k \in {2, 3, 4} : /\ new[k] \in {old[k], NoContext}
                       /\ new[k] # NoContext => new[1].id = old[1].id
OfStrategy(new, before, old, took, snaps) ==
  /\ new = old \/ (Looks(2, took, before, old, snaps) /\ snaps[2] > 0)
  /\ \A k \in {3, 4} : new[k] \in {old[k], NoContext}
OfSetup(new, before, old, took, snaps) ==
  /\ new[2] = old[2]
  /\ \/ new = old /\ ~Looks(3, took, before, old, snaps)
     \/ new[3].direction = old[2].direction /\ snaps[3] > 0

\* What a tick saw: 15m with 1h, and no known timeframe without a final candle.
Complete(took, snaps) ==
  /\ snaps \in Candles /\ (2 \in took /\ kept[2] > 0 => 3 \in took)
  /\ \A l \in Layers : /\ l \in took => kept[l] = 0 \/ snaps[l] > 0
                       /\ l \notin took => snaps[l] = kept[l]

(* When no known timeframe came without a final candle, a setup that is kept *)
(* was looked at with its strategy, or neither was.                          *)
LEMMA EvaluatedInOrder ==
  ASSUME Aligned(context), Seen(context, kept), kept \in Candles,
         NEW snaps, NEW took, Complete(took, snaps),
         NEW base, Chained(base), Cut(base, context),
         NEW regime, OfRegime(regime, base),
         NEW strategy, Chained(strategy), OfStrategy(strategy, base, regime, took, snaps),
         NEW next, OfSetup(next, regime, strategy, took, snaps)
  PROVE  Aligned(next) /\ Seen(next, snaps)
<1>1. 1 \in Layers /\ 2 \in Layers /\ 3 \in Layers /\ 4 \in Layers BY LayersAre
<1>2. ASSUME NEW l \in {2, 3}, context[l] # NoContext PROVE kept[l] > 0 /\ snaps[l] > 0
  <2>1. kept[l] > 0 BY <1>2, LayersAre DEF Seen
  <2>2. l \in Layers /\ kept[l] # 0 BY <1>1, <2>1
  <2> QED BY <2>1, <2>2 DEF Complete
<1>3. next[2] # NoContext => snaps[2] > 0
  <2>1. CASE strategy = regime
    <3>1. regime[2] # NoContext => base[2] # NoContext BY DEF OfRegime
    <3>2. base[2] # NoContext => context[2] # NoContext BY <1>1 DEF Cut
    <3>3. next[2] = strategy[2] BY DEF OfSetup
    <3> QED BY <1>2, <2>1, <3>1, <3>2, <3>3
  <2>2. CASE snaps[2] > 0 BY <2>2
  <2> QED BY <2>1, <2>2 DEF OfStrategy
<1>4. strategy[3] # NoContext =>
        regime[3] # NoContext /\ base[3] # NoContext /\ strategy[3] = context[3]
  <2>1. strategy[3] \in {regime[3], NoContext} BY DEF OfStrategy
  <2>2. regime[3] \in {base[3], NoContext} BY DEF OfRegime
  <2>3. base[3] \in {context[3], NoContext} BY <1>1 DEF Cut
  <2> QED BY <2>1, <2>2, <2>3
<1>5. next[3] # NoContext => snaps[3] > 0
  <2>1. CASE next = strategy BY <1>2, <1>4, <2>1
  <2>2. CASE snaps[3] > 0 BY <2>2
  <2> QED BY <2>1, <2>2 DEF OfSetup
<1>6. ASSUME strategy[3] # NoContext, ~Looks(3, took, regime, strategy, snaps)
      PROVE  strategy[3].direction = strategy[2].direction
  <2>1. context[3] # NoContext /\ strategy[3] = context[3] /\ snaps[3] > 0 BY <1>2, <1>4, <1>6
  <2>2. strategy[2] # NoContext
    <3>1. strategy[3 - 1] # NoContext BY <1>6, LayersAre DEF Chained
    <3> QED BY <3>1
  <2>3. 3 \notin took
    <3>1. strategy[3 - 1] # NoContext BY <2>2
    <3> QED BY <1>6, <2>1, <3>1 DEF Looks
  <2>4. regime[3] # NoContext /\ base[3] # NoContext BY <1>4, <1>6
  <2>5. base[2] # NoContext
    <3>1. base[3 - 1] # NoContext BY <2>4, LayersAre DEF Chained
    <3> QED BY <3>1
  <2>6. base[2] = context[2] /\ context[2] # NoContext BY <1>1, <2>5 DEF Cut
  <2>7. 2 \notin took
    <3>1. kept[2] > 0 BY <1>2, <2>6
    <3> QED BY <2>3, <3>1 DEF Complete
  <2>8. regime[1].id = base[1].id BY <2>4 DEF OfRegime
  <2>9. ~Looks(2, took, base, regime, snaps)
    <3>1. regime[2 - 1].id = base[2 - 1].id BY <2>8
    <3> QED BY <2>7, <3>1 DEF Looks
  <2>10. strategy = regime BY <2>9 DEF OfStrategy
  <2>11. regime[2] = base[2] BY <2>2, <2>10 DEF OfRegime
  <2>12. context[3].direction = context[2].direction BY <2>1, LayersAre DEF Aligned
  <2> QED BY <2>1, <2>6, <2>10, <2>11, <2>12
<1>7. next[3] # NoContext => next[3].direction = next[2].direction
  <2>1. next[2] = strategy[2] BY DEF OfSetup
  <2>2. CASE next = strategy /\ ~Looks(3, took, regime, strategy, snaps)
    BY <1>6, <2>2
  <2>3. CASE next[3].direction = strategy[2].direction BY <2>1, <2>3
  <2> QED BY <2>2, <2>3 DEF OfSetup
<1> QED BY <1>3, <1>5, <1>7, LayersAre DEF Aligned, Seen

(* A tick evaluated, alone or late.                                          *)
LEMMA EvaluateStep ==
  ASSUME EvidenceInv, NEW m \in 1..MaxBucket, NEW took \in SUBSET Layers, NEW late \in BOOLEAN,
         late \/ (2 \in took /\ kept[2] > 0 => 3 \in took), Evaluate(m, took, late)
  PROVE  EvidenceInv'
<1>1. /\ EvidenceTyped /\ Chained(context) /\ Pointed(context) /\ kept \in Candles
      /\ ~blind => Aligned(context) /\ Seen(context, kept)
  BY DEF EvidenceInv, EvidenceTyped, Candles
<1>2. PICK snaps \in FetchedCandles(took), cut \in {l \in Layers : Held(l)} \cup {Trigger + 1} :
        LET base == Expired(context, cut)
            regime == WithRegime(base, m, took, snaps) IN
          \E strategy \in WithStrategy(base, regime, took, snaps) :
          \E setup \in WithSetup(regime, strategy, took, snaps) :
            LET all == WithTrigger(setup, took, snaps) IN
              /\ macro' = m /\ context' = all /\ kept' = snaps
              /\ bundle' \in {FALSE, (Judges(setup, took, snaps) /\ Linked(m, all))}
              /\ blind' = (blind \/ late \/ \E l \in took : snaps[l] = 0 /\ kept[l] > 0)
              /\ UNCHANGED bucket
  BY DEF Evaluate
<1>3. /\ snaps \in Candles /\ \A l \in Layers \ took : snaps[l] = kept[l]
  BY DEF FetchedCandles, Candles
<1>4. cut \in 1..5 BY LayersAre
<1>5. PICK base : base = Expired(context, cut) OBVIOUS
<1>6. Chained(base) /\ Pointed(base) /\ Cut(base, context)
  BY <1>1, <1>4, <1>5, ExpiredChained DEF Cut
<1>7. PICK regime : regime = WithRegime(base, m, took, snaps) OBVIOUS
<1>8. Chained(regime) /\ Pointed(regime) /\ OfRegime(regime, base)
  BY <1>3, <1>6, <1>7, RegimeStep DEF OfRegime
<1>9. PICK strategy \in WithStrategy(base, regime, took, snaps) :
      \E setup \in WithSetup(regime, strategy, took, snaps) :
        /\ macro' = m /\ context' = WithTrigger(setup, took, snaps) /\ kept' = snaps
        /\ bundle' \in BOOLEAN /\ (bundle' => Judges(setup, took, snaps))
        /\ blind' = (blind \/ late \/ \E l \in took : snaps[l] = 0 /\ kept[l] > 0)
        /\ UNCHANGED bucket
  BY <1>2, <1>5, <1>7
<1>a. PICK setup \in WithSetup(regime, strategy, took, snaps) :
        /\ macro' = m /\ context' = WithTrigger(setup, took, snaps) /\ kept' = snaps
        /\ bundle' \in BOOLEAN /\ (bundle' => Judges(setup, took, snaps))
        /\ blind' = (blind \/ late \/ \E l \in took : snaps[l] = 0 /\ kept[l] > 0)
        /\ UNCHANGED bucket
  BY <1>9
<1>10. Chained(strategy) /\ Pointed(strategy) /\ OfStrategy(strategy, base, regime, took, snaps)
  BY <1>3, <1>8, StrategyStep DEF OfStrategy
<1>11. Chained(setup) /\ Pointed(setup) /\ OfSetup(setup, regime, strategy, took, snaps)
  BY <1>3, <1>10, SetupStep DEF OfSetup
<1>12. PICK all : all = WithTrigger(setup, took, snaps) OBVIOUS
<1>13. /\ Chained(all) /\ all[2] = setup[2] /\ all[3] = setup[3]
       /\ Judges(setup, took, snaps) => all[4].direction = setup[3].direction
  BY <1>3, <1>11, <1>12, TriggerStep
<1>14. context' = all BY <1>a, <1>12
<1>15. EvidenceTyped'
  <2>1. blind' \in BOOLEAN BY <1>1, <1>a DEF EvidenceTyped
  <2> QED BY <1>1, <1>3, <1>a, <2>1, EvidenceAssumption DEF EvidenceTyped, Candles
<1>16. Pointed(all) BY <1>11, <1>13, LayersAre DEF Pointed
<1>17. ASSUME ~blind' PROVE Aligned(all) /\ Seen(all, snaps) /\ Bundled'
  <2>1. ~blind /\ ~late /\ \A l \in took : ~(snaps[l] = 0 /\ kept[l] > 0) BY <1>a, <1>17
  <2>2. Complete(took, snaps)
    <3>1. 2 \in took /\ kept[2] > 0 => 3 \in took BY <2>1
    <3>2. ASSUME NEW l \in Layers, l \in took PROVE kept[l] = 0 \/ snaps[l] > 0
      <4>1. kept[l] \in 0..MaxCandle /\ snaps[l] \in 0..MaxCandle BY <1>1, <1>3 DEF Candles
      <4>2. ~(snaps[l] = 0 /\ kept[l] > 0) BY <2>1, <3>2
      <4> QED BY <4>1, <4>2, EvidenceAssumption
    <3> QED BY <1>3, <3>1, <3>2 DEF Complete
  <2>3. Aligned(setup) /\ Seen(setup, snaps)
    BY <1>1, <1>6, <1>8, <1>10, <1>11, <2>1, <2>2, EvaluatedInOrder
  <2>4. Aligned(all) /\ Seen(all, snaps) BY <1>13, <2>3, LayersAre DEF Aligned, Seen
  <2>5. Bundled'
    <3> SUFFICES ASSUME bundle' PROVE /\ all[2].direction # "neutral"
                                      /\ \A l \in {3, 4} : all[l].direction = all[2].direction
      BY <1>14, LayersAre DEF Bundled
    <3>1. Judges(setup, took, snaps) BY <1>a
    <3>2. setup[3].stage = "confirmed" BY <3>1, LayersAre DEF Judges
    <3>3. setup[3].direction # "neutral" BY <1>11, <3>2, LayersAre DEF Pointed
    <3>4. setup[3] # NoContext BY <3>2, NoContextTyped
    <3>5. all[3].direction = all[2].direction BY <1>13, <2>4, <3>4, LayersAre DEF Aligned
    <3> QED BY <1>13, <3>1, <3>3, <3>5
  <2> QED BY <2>4, <2>5
<1> QED BY <1>a, <1>13, <1>14, <1>15, <1>16, <1>17 DEF EvidenceInv

(* No evidence at first; a boundary of 1h is one of 15m.                     *)
LEMMA EvidenceInitially == EvidenceInit => EvidenceInv
<1> SUFFICES ASSUME EvidenceInit PROVE EvidenceInv OBVIOUS
<1>1. /\ context \in [Layers -> {NoContext}] /\ \A l \in Layers : context[l] = NoContext
      /\ bundle = FALSE
  BY DEF EvidenceInit
<1>2. EvidenceTyped
  <2>1. 0 \in 0..MaxCandle /\ 1 \in 1..MaxBucket /\ 0 \in 0..MaxBucket BY EvidenceAssumption
  <2>2. kept \in [Layers -> 0..MaxCandle] BY <2>1 DEF EvidenceInit
  <2>3. bucket = 1 /\ macro = 0 /\ bundle = FALSE /\ blind = FALSE BY DEF EvidenceInit
  <2> QED BY <2>1, <2>2, <2>3 DEF EvidenceTyped
<1>3. Chained(context)
  <2>1. context \in [Layers -> Contexts] BY <1>1, NoContextTyped
  <2>2. Strategy..Trigger \subseteq Layers BY LayersAre
  <2> QED BY <1>1, <2>1, <2>2 DEF Chained
<1>4. Pointed(context) /\ Aligned(context) /\ Seen(context, kept)
  BY <1>1, NoContextTyped, LayersAre DEF Pointed, Aligned, Seen
<1>5. Bundled BY <1>1 DEF Bundled
<1> QED BY <1>2, <1>3, <1>4, <1>5 DEF EvidenceInv

(* The tick, the late tick and the macro refresh.                            *)
LEMMA EvidenceInductive == ASSUME EvidenceInv, [EvidenceNext]_evidenceVars PROVE EvidenceInv'
<1>1. EvidenceTyped BY DEF EvidenceInv
<1>2. ASSUME NEW l \in Regime..(Trigger + 1), Evaluate(bucket, Due(l, Watching), FALSE)
      PROVE  EvidenceInv'
  <2>1. Due(l, Watching) \in SUBSET Layers BY LayersAre DEF Due
  <2>2. 2 \in Due(l, Watching) /\ kept[2] > 0 => 3 \in Due(l, Watching)
    BY LayersAre DEF Due
  <2>3. bucket \in 1..MaxBucket BY <1>1 DEF EvidenceTyped
  <2> QED BY <1>2, <2>1, <2>2, <2>3, EvaluateStep
<1>3. ASSUME NEW m \in 1..bucket, NEW took \in SUBSET Layers, Evaluate(m, took, TRUE)
      PROVE  EvidenceInv'
  <2>1. m \in 1..MaxBucket BY <1>1, EvidenceAssumption DEF EvidenceTyped
  <2> QED BY <1>3, <2>1, EvaluateStep
<1>4. ASSUME bucket' \in 1..MaxBucket, UNCHANGED <<macro, context, kept, bundle, blind>>
      PROVE  EvidenceInv'
  <2>1. EvidenceTyped' BY <1>1, <1>4 DEF EvidenceTyped
  <2>2. Bundled' <=> Bundled BY <1>4 DEF Bundled
  <2> QED BY <1>4, <2>1, <2>2 DEF EvidenceInv
<1>5. CASE MacroRefresh
  <2>1. bucket' \in 1..MaxBucket BY <1>1, <1>5, EvidenceAssumption DEF EvidenceTyped, MacroRefresh
  <2> QED BY <1>4, <1>5, <2>1 DEF MacroRefresh
<1>6. CASE UNCHANGED evidenceVars
  <2>1. bucket' \in 1..MaxBucket BY <1>1, <1>6 DEF EvidenceTyped, evidenceVars
  <2> QED BY <1>4, <1>6, <2>1 DEF evidenceVars
<1>7. CASE Tick BY <1>2, <1>7 DEF Tick
<1>8. CASE LateTick BY <1>3, <1>8 DEF LateTick
<1> QED BY <1>5, <1>6, <1>7, <1>8 DEF EvidenceNext

(* The invariant implies what the run checks.                                *)
LEMMA EvidenceRight == EvidenceInv => EvidenceTypeOK /\ EvidenceChains /\ OneDirection
<1> SUFFICES ASSUME EvidenceInv PROVE EvidenceTypeOK /\ EvidenceChains /\ OneDirection OBVIOUS
<1>1. EvidenceTypeOK
  <2>1. \A l \in Layers : context[l] \in Contexts BY DEF EvidenceInv, Chained
  <2>2. \A l \in Layers : /\ context[l].direction \in {"long", "short", "neutral"}
                          /\ context[l].stage \in {"none", "watching", "confirmed"}
    BY <2>1 DEF Contexts, Directions, Stages
  <2>3. \A l \in Layers : Held(l) => Len(context[l].id) = l + 1 BY DEF EvidenceInv, Chained, Held
  <2> QED BY <2>2, <2>3 DEF EvidenceInv, EvidenceTyped, EvidenceTypeOK
<1>2. EvidenceChains BY DEF EvidenceInv, Chained, EvidenceChains, Held
<1>3. OneDirection
  <2> SUFFICES ASSUME ~blind PROVE OneDirection BY DEF OneDirection
  <2>1. Aligned(context) /\ Bundled BY DEF EvidenceInv
  <2> QED BY <2>1 DEF Aligned, Bundled, OneDirection, Held
<1> QED BY <1>1, <1>2, <1>3

(* In whatever order timeframes come due, fail or are revised and ticks      *)
(* overlap, each layer held rests on the one above it that is held.          *)
THEOREM EvidenceStaysChained == EvidenceSpec => []EvidenceChains
<1>1. EvidenceInit => EvidenceInv BY EvidenceInitially
<1>2. EvidenceInv /\ [EvidenceNext]_evidenceVars => EvidenceInv' BY EvidenceInductive
<1>3. EvidenceInv => EvidenceChains BY EvidenceRight
<1> QED BY <1>1, <1>2, <1>3, PTL DEF EvidenceSpec

(* The setup points where its strategy does, and a bundle is of one          *)
(* direction, as long as no known timeframe loses its final candle and no    *)
(* ticks overlap.                                                            *)
THEOREM BundlesPointOneWay == EvidenceSpec => []OneDirection
<1>1. EvidenceInit => EvidenceInv BY EvidenceInitially
<1>2. EvidenceInv /\ [EvidenceNext]_evidenceVars => EvidenceInv' BY EvidenceInductive
<1>3. EvidenceInv => OneDirection BY EvidenceRight
<1> QED BY <1>1, <1>2, <1>3, PTL DEF EvidenceSpec

-----------------------------------------------------------------------------
(* The platform: a behaviour of the whole is one of each of its parts. *)

(* Each part starts as it does alone, and takes its own steps or none.       *)
LEMMA PlatformParts ==
  MCSpec => /\ ManagementSpec /\ EvidenceSpec /\ SetupSpec /\ CandleSpec /\ ScanSpec /\ NoticeSpec
<1>1. MCInit => /\ ManagementInit /\ EvidenceInit /\ SetupInit /\ CandleInit
                /\ ScanInit /\ NoticeInit
  BY DEF MCInit
<1>2. [MCNext]_mcVars =>
        /\ [ManagementNext]_managementVars /\ [EvidenceNext]_evidenceVars
        /\ [SetupNext]_setupVars /\ [CandleNext]_candleVars
        /\ [ScanNext]_scanVars /\ [NoticeNext]_noticeVars
  <2> SUFFICES ASSUME [MCNext]_mcVars
               PROVE  /\ [ManagementNext]_managementVars /\ [EvidenceNext]_evidenceVars
                      /\ [SetupNext]_setupVars /\ [CandleNext]_candleVars
                      /\ [ScanNext]_scanVars /\ [NoticeNext]_noticeVars
    OBVIOUS
  <2>1. CASE UNCHANGED mcVars BY <2>1 DEF mcVars, marketVars, scanAndNoticeVars
  <2>2. CASE PositionOnly /\ ManagementNext
    BY <2>2 DEF PositionOnly, marketVars, scanAndNoticeVars
  <2>3. CASE EvidenceOnly /\ EvidenceNext
    BY <2>3 DEF EvidenceOnly, MarketOnly, scanAndNoticeVars
  <2>4. CASE SetupOnly /\ SetupNext BY <2>4 DEF SetupOnly, MarketOnly, scanAndNoticeVars
  <2>5. CASE CandlesOnly /\ CandleNext BY <2>5 DEF CandlesOnly, MarketOnly, scanAndNoticeVars
  <2>6. CASE ScanOnly /\ ScanNext BY <2>6 DEF ScanOnly, marketVars
  <2>7. CASE NoticeOnly /\ NoticeNext BY <2>7 DEF NoticeOnly, marketVars
  <2> QED BY <2>1, <2>2, <2>3, <2>4, <2>5, <2>6, <2>7 DEF MCNext
<1> QED
  BY <1>1, <1>2, PTL DEF MCSpec, ManagementSpec, EvidenceSpec, SetupSpec, CandleSpec,
                         ScanSpec, NoticeSpec

\* The state of every part is well formed, whatever the constants.
THEOREM PlatformTypeCorrect == MCSpec => []PlatformTypeOK
<1>1. /\ SetupInv => SetupTypeOK
      /\ CandleInv => CandleTypeOK
      /\ ScanInv => ScanTypeOK
      /\ NoticeInv => NoticeTypeOK
      /\ EvidenceInv => EvidenceTypeOK
  BY CandlesRight, ScansRight, NoticesRight, EvidenceRight DEF SetupInv
<1>2. SetupSpec => []SetupTypeOK
  BY <1>1, SetupInitially, SetupInductive, PTL DEF SetupSpec
<1>3. CandleSpec => []CandleTypeOK
  BY <1>1, CandleInitially, CandleInductive, PTL DEF CandleSpec
<1>4. ScanSpec => []ScanTypeOK
  BY <1>1, ScanInitially, ScanInductive, PTL DEF ScanSpec
<1>5. NoticeInv /\ [NoticeNext]_noticeVars => NoticeInv' BY NoticeInductive
<1>6. NoticeSpec => []NoticeTypeOK BY <1>1, <1>5, NoticeInitially, PTL DEF NoticeSpec
<1>7. EvidenceInv /\ [EvidenceNext]_evidenceVars => EvidenceInv' BY EvidenceInductive
<1>8. EvidenceSpec => []EvidenceTypeOK BY <1>1, <1>7, EvidenceInitially, PTL DEF EvidenceSpec
<1> QED
  BY <1>2, <1>3, <1>4, <1>6, <1>8, PlatformParts, PositionTypeCorrect, PTL DEF PlatformTypeOK

\* What each part promises of its state, at once: deals count once, one operation
\* at a time, exits are not repeated, evidence is chained and of one direction, the
\* current setup is stored, a fetch has its own answer, one message per setup, a
\* cooldown is earned, a healthy scan is true, notifications are in order.
THEOREM PlatformIsSafe == MCSpec => []PlatformSafe
BY PlatformParts, DealsAreCounted, OneOperationAtOnce, ExitsAreMadeOnce, EvidenceStaysChained,
   BundlesPointOneWay, CurrentSetupIsStored, FetchesHaveTheirAnswers, ApprovalSentOnce,
   CooldownIsEarned, HealthyScansAreTrue, NotificationsInOrder, PTL
DEF PlatformSafe

\* What no step may do: reopen a closed or a halted position unasked, restore an
\* older setup, rewrite a stored signal or an answer.
THEOREM PlatformStepsRight == MCSpec => PlatformSteps
BY PlatformParts, ClosedStaysClosed, HaltedStaysHalted, NeverRestored, StoredSignalsFrozen,
   FirstAnswerStands, PTL
DEF PlatformSteps
=============================================================================
