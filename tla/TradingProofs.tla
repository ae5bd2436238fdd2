---------------------------- MODULE TradingProofs ---------------------------
(***************************************************************************)
(* Proofs about the workflows beside an order: the permission of a pending *)
(* entry, the publication of a trigger, the accounting of a trade and the  *)
(* quote request, each for any number of handlers, ticks and workers; and  *)
(* about what an order costs, for any prices, analyses and candidates.     *)
(* Together they are what the composition promises.                        *)
(***************************************************************************)
EXTENDS MCTrading, FiniteSetTheorems, TLAPS

-----------------------------------------------------------------------------
(* The permission of a pending entry. *)

\* The setup was last eligible now or before, and a lease the server is about
\* to grant was judged at an eligible moment.
LeasesJudged ==
  /\ lastGood <= clock /\ (eligible => lastGood = clock)
  /\ \A h \in Heartbeats :
       beat[h].now <= clock /\ beat[h].lease <= lastGood + LeaseTicks

\* The EA revokes only an order it has, and one that it has revoked is gone
\* unless the broker refused.
RevokedIsGone ==
  /\ order.state = "none" => ~ea.revoked
  /\ Working /\ ~disturbed.refused => ~ea.revoked

PermissionInv == PendingTypeOK /\ LeasesJudged /\ PermissionIsFresh /\ RevokedIsGone

-----------------------------------------------------------------------------
(* The publication of a trigger. *)

Delivering == {"begun", "delivered", "failed"}

\* Unless an operator was hasty, one tick delivers at a time, and the claim
\* says so.
OneDelivers ==
  hasty \/ \A w \in HierarchyTicks :
    tick[w] \in Delivering =>
      /\ claim.status \in {"publishing", "reconciliation_required"}
      /\ \A v \in HierarchyTicks : tick[v] \in Delivering => v = w

\* The ticks that may still send, counted as if they had.
Unsent == {w \in HierarchyTicks : tick[w] = "begun"}
SendsPaid ==
  /\ sent + Cardinality(Unsent) <= 1 + resends
  /\ claim.status \in {"absent", "pending", "failed"} =>
       sent + Cardinality(Unsent) <= resends

HierarchyInv == HierarchyTypeOK /\ OneDelivers /\ SendsPaid

-----------------------------------------------------------------------------
(* The accounting of a trade. *)

BeatPoints == {"idle", "arrives", "life", "account", "look", "notice", "store", "list",
               "claim", "send", "sent", "unsure"}
Report ==
  [pc : BeatPoints, seen : 0..Lots, held : 0..Lots, prior : BOOLEAN,
   historical : BOOLEAN, writes : BOOLEAN, fresh : BOOLEAN,
   listed : SUBSET Events, event : 0..Lots]

Holding == {"send", "sent", "unsure"}

\* The heartbeat that sends a notice is the only one to, and knows how often
\* the notice has been shown.
NoticesHeld ==
  \A b \in Beats : report[b].pc \in Holding =>
    /\ report[b].event \in Events /\ notice[report[b].event] = "sending"
    /\ report[b].pc = "send" => posted[report[b].event] = 0
    /\ report[b].pc = "sent" => posted[report[b].event] = 1
    /\ \A c \in Beats :
         report[c].pc \in Holding /\ report[c].event = report[b].event => c = b

\* The deals, the account and the heartbeats are well formed.
AccountShape ==
  /\ AccountingTypeOK /\ report \in [Beats -> Report]
  /\ accountingFaults \in 0..MaxAccountingFaults

\* What tells how often each notice has been shown.
OutboxFacts == NoticesHeld /\ ResultShownOnce /\ OutboxTellsTheTruth

OutboxInv == AccountShape /\ OutboxFacts

-----------------------------------------------------------------------------
(* The quote request. *)

Intended == {"sending", "published", "reconciliation_required"}

\* A worker may send only over a proposal nobody has meant to send, and after
\* it stored that it would.
IntentFirst ==
  /\ proposal.message => proposal.publish \in {"published", "reconciliation_required"}
  /\ proposal.publish = "published" => proposal.message
  /\ proposal.publish \in Intended => proposal.status # "none"
  /\ sends <= 1 /\ (proposal.publish \notin Intended => sends = 0)
  /\ \A x \in Workers :
       /\ At(x, {"gates"}) /\ worker[x].fresh => proposal.publish \notin Intended
       /\ At(x, {"send", "attach", "reconcile"}) => proposal.publish = "sending"
       /\ At(x, {"send"}) => sends = 0
       /\ \A y \in Workers :
            At(x, {"send", "attach", "reconcile"}) /\ At(y, {"send", "attach", "reconcile"})
              => x = y

\* Whoever marks the request published has seen the proposal shown.
ShownFirst ==
  /\ \A x \in Workers :
       /\ At(x, {"finish", "context"}) => proposal.publish # "none"
       /\ worker[x].bound => proposal.publish # "none"
  /\ PublishedWasShown

\* While no attempt has overrun its lease there is one, and until it has a
\* proposal nobody has.
OneAttempt ==
  overrun \/
    /\ \A x \in Workers : At(x, Attempting) =>
         /\ quote.state # "none" /\ \A y \in Workers : At(y, Attempting) => x = y
         /\ At(x, {"attempt"}) => quote.lease = "held" \/ quote.state \notin Claimed
         /\ ~At(x, {"attempt"}) => quote.state \notin Claimed
         /\ At(x, {"attempt", "received"}) => proposal.status = "none"
    /\ quote.state \in Claimed \cup {"none"} => proposal.status = "none"

\* Nothing has been sent and nothing will be: the signal has expired, or its
\* request ended without a proposal.
NeverSent ==
  /\ proposal.publish \notin Intended
  /\ \/ expired
     \/ /\ proposal.status = "none" /\ quote.state \notin Claimed \cup {"none"}
        /\ \A x \in Workers : ~At(x, Attempting)

RefusedForGood ==
  /\ \A x \in Workers : worker[x].late => expired
  /\ overrun \/
       /\ "no_quote" \in told \/ quote.state \in {"FAILED", "EXPIRED"} => NeverSent
       /\ \A x \in Workers : /\ At(x, {"tell", "unclaimed"}) => NeverSent
                             /\ At(x, {"unclaimed"}) => expired

QuoteInv == QuoteTypeOK /\ IntentFirst /\ ShownFirst /\ OneAttempt /\ RefusedForGood

-----------------------------------------------------------------------------
(* Proofs: the publication of a trigger. *)

Claim ==
  [status : ClaimStatus, attempts : 0..MaxTriggerAttempts,
   lease : {"none", "held", "over"}, due : {"none", "set", "passed"}]

\* What the operations make of a claim is a claim.
LEMMA ClaimUpdates ==
  ASSUME NEW c \in Claim
  PROVE  /\ c.attempts < MaxTriggerAttempts =>
              [c EXCEPT !.status = "pending", !.attempts = @ + 1, !.lease = "held",
                        !.due = "none"] \in Claim
         /\ [c EXCEPT !.status = "publishing", !.lease = "none", !.due = "set"] \in Claim
         /\ \A s \in Resolved : [c EXCEPT !.status = s, !.due = "none"] \in Claim
<1> USE HierarchyAssumption DEF Claim, ClaimStatus, Ambiguous, Resolved
<1>1. ASSUME c.attempts < MaxTriggerAttempts
      PROVE  [c EXCEPT !.status = "pending", !.attempts = @ + 1, !.lease = "held",
                       !.due = "none"] \in Claim
  <2>1. c.attempts + 1 \in 0..MaxTriggerAttempts
    BY <1>1
  <2> QED BY <2>1
<1>2. [c EXCEPT !.status = "publishing", !.lease = "none", !.due = "set"] \in Claim
  OBVIOUS
<1>3. ASSUME NEW s \in Resolved
      PROVE  [c EXCEPT !.status = s, !.due = "none"] \in Claim
  BY <1>3
<1> QED BY <1>1, <1>2, <1>3

\* Every component of a trigger's publication keeps its type.
LEMMA HierarchyTypeStep ==
  ASSUME HierarchyTypeOK, [HierarchyNext]_hierarchyVars
  PROVE  HierarchyTypeOK'
<1> USE HierarchyAssumption DEF HierarchyTypeOK, ClaimStatus, Ambiguous, Resolved
<1>1. ASSUME NEW w \in HierarchyTicks, ClaimTrigger(w) PROVE HierarchyTypeOK'
  <2>1. claim \in Claim
    BY DEF Claim
  <2>2. claim' \in Claim
    BY <1>1, <2>1, ClaimUpdates DEF ClaimTrigger
  <2>3. /\ tick' \in [HierarchyTicks -> {"idle", "claimed", "begun", "delivered", "failed"}]
        /\ hierarchyFaults' \in 0..MaxHierarchyFaults
    BY <1>1 DEF ClaimTrigger, TickGoes
  <2> QED BY <1>1, <2>2, <2>3 DEF ClaimTrigger, Claim
<1>2. ASSUME NEW w \in HierarchyTicks, BeginPublication(w) PROVE HierarchyTypeOK'
  <2>1. claim \in Claim
    BY DEF Claim
  <2>2. claim' \in Claim
    BY <1>2, <2>1, ClaimUpdates DEF BeginPublication, Begun
  <2>3. tick' \in [HierarchyTicks -> {"idle", "claimed", "begun", "delivered", "failed"}]
    BY <1>2 DEF BeginPublication, TickGoes
  <2> QED BY <1>2, <2>2, <2>3 DEF BeginPublication, Claim
<1>3. ASSUME NEW w \in HierarchyTicks, SendNotification(w) PROVE HierarchyTypeOK'
  BY <1>3 DEF SendNotification, TickGoes
<1>4. ASSUME NEW w \in HierarchyTicks, RecordPublication(w) PROVE HierarchyTypeOK'
  BY <1>4 DEF RecordPublication, TickGoes
<1>5. ASSUME NEW w \in HierarchyTicks, TickFails(w) PROVE HierarchyTypeOK'
  BY <1>5 DEF TickFails
<1>6. CASE FlagStale
  BY <1>6 DEF FlagStale
<1>7. CASE ReconcilePublication
  <2>1. claim \in Claim
    BY DEF Claim
  <2>2. PICK s \in Resolved : claim' = [claim EXCEPT !.status = s, !.due = "none"]
    BY <1>7 DEF ReconcilePublication
  <2>4. claim' \in Claim
    <3> HIDE DEF Claim, Resolved
    <3> QED BY <2>1, <2>2, ClaimUpdates
  <2>3. resends' \in 0..MaxResends /\ hasty' \in BOOLEAN
    BY <1>7 DEF ReconcilePublication
  <2> QED BY <1>7, <2>3, <2>4 DEF ReconcilePublication, Claim
<1>8. CASE ClaimLeaseEnds \/ OutcomeOverdue
  BY <1>8 DEF ClaimLeaseEnds, OutcomeOverdue
<1>9. CASE UNCHANGED hierarchyVars
  BY <1>9 DEF hierarchyVars
<1> QED BY <1>1, <1>2, <1>3, <1>4, <1>5, <1>6, <1>7, <1>8, <1>9 DEF HierarchyNext

\* Unless an operator is hasty one tick delivers at a time.
LEMMA OneDeliversStep ==
  ASSUME HierarchyTypeOK, OneDelivers, [HierarchyNext]_hierarchyVars
  PROVE  OneDelivers'
<1> USE HierarchyAssumption
        DEF HierarchyTypeOK, OneDelivers, Delivering, ClaimStatus, Ambiguous, Resolved
<1>1. ASSUME NEW w \in HierarchyTicks, ClaimTrigger(w) PROVE OneDelivers'
  BY <1>1 DEF ClaimTrigger, TickGoes, ClaimableTrigger
<1>2. ASSUME NEW w \in HierarchyTicks, BeginPublication(w) PROVE OneDelivers'
  <2>1. CASE claim.status = "pending"
    <3>1. /\ claim'.status = "publishing"
          /\ \A v \in HierarchyTicks : tick'[v] = IF v = w THEN "begun" ELSE tick[v]
      BY <1>2, <2>1 DEF BeginPublication, TickGoes, Begun
    <3>2. hasty' = hasty
      BY <1>2 DEF BeginPublication
    <3>3. hasty \/ \A v \in HierarchyTicks : tick[v] \notin Delivering
      BY <2>1
    <3> QED BY <3>1, <3>2, <3>3
  <2>2. CASE claim.status # "pending"
    BY <1>2, <2>2 DEF BeginPublication, TickGoes
  <2> QED BY <2>1, <2>2
<1>3. ASSUME NEW w \in HierarchyTicks, SendNotification(w) PROVE OneDelivers'
  BY <1>3 DEF SendNotification, TickGoes
<1>4. ASSUME NEW w \in HierarchyTicks, RecordPublication(w) PROVE OneDelivers'
  BY <1>4 DEF RecordPublication, TickGoes
<1>5. ASSUME NEW w \in HierarchyTicks, TickFails(w) PROVE OneDelivers'
  BY <1>5 DEF TickFails
<1>6. CASE FlagStale
  BY <1>6 DEF FlagStale
<1>7. CASE ReconcilePublication
  BY <1>7 DEF ReconcilePublication
<1>8. CASE ClaimLeaseEnds \/ OutcomeOverdue
  BY <1>8 DEF ClaimLeaseEnds, OutcomeOverdue
<1>9. CASE UNCHANGED hierarchyVars
  BY <1>9 DEF hierarchyVars
<1> QED BY <1>1, <1>2, <1>3, <1>4, <1>5, <1>6, <1>7, <1>8, <1>9 DEF HierarchyNext

\* There are finitely many ticks that may still send.
LEMMA UnsentFinite == IsFiniteSet(Unsent) /\ Cardinality(Unsent) \in Nat
<1>1. IsFiniteSet(Unsent)
  BY HierarchyAssumption, FS_Subset DEF Unsent
<1> QED BY <1>1, FS_CardinalityType

\* The ticks that may still send grow by one only when a publication begins.
LEMMA UnsentStep ==
  ASSUME tick \in [HierarchyTicks -> {"idle", "claimed", "begun", "delivered", "failed"}],
         NEW w \in HierarchyTicks,
         NEW p \in {"idle", "claimed", "begun", "delivered", "failed"},
         tick' = [tick EXCEPT ![w] = p]
  PROVE  /\ Cardinality(Unsent') \in Nat
         /\ tick[w] = "begun" /\ p # "begun" =>
              Cardinality(Unsent') = Cardinality(Unsent) - 1
         /\ tick[w] # "begun" /\ p # "begun" => Unsent' = Unsent
         /\ Cardinality(Unsent') <= Cardinality(Unsent) + 1
<1>1. CASE p = "begun"
  <2>1. Unsent' = Unsent \cup {w}
    BY <1>1 DEF Unsent
  <2> QED BY <1>1, <2>1, UnsentFinite, FS_AddElement, FS_CardinalityType
<1>2. CASE p # "begun"
  <2>1. Unsent' = Unsent \ {w}
    BY <1>2 DEF Unsent
  <2>2. tick[w] = "begun" <=> w \in Unsent
    BY DEF Unsent
  <2>3. /\ Cardinality(Unsent') \in Nat
        /\ Cardinality(Unsent') =
             IF w \in Unsent THEN Cardinality(Unsent) - 1 ELSE Cardinality(Unsent)
    <3>1. IsFiniteSet(Unsent \ {w})
      BY UnsentFinite, FS_RemoveElement
    <3> QED BY <2>1, <3>1, UnsentFinite, FS_RemoveElement, FS_CardinalityType
  <2>4. w \notin Unsent => Unsent' = Unsent
    BY <2>1
  <2> QED BY <1>2, <2>2, <2>3, <2>4, UnsentFinite
<1> QED BY <1>1, <1>2

\* Each message that was or may yet be sent has been paid for.
LEMMA SendsPaidStep ==
  ASSUME HierarchyTypeOK, SendsPaid, [HierarchyNext]_hierarchyVars
  PROVE  SendsPaid'
<1> USE HierarchyAssumption, UnsentFinite
        DEF HierarchyTypeOK, SendsPaid, ClaimStatus, Ambiguous, Resolved
<1>0. ASSUME tick' = tick PROVE Unsent' = Unsent
  BY <1>0 DEF Unsent
<1>1. ASSUME NEW w \in HierarchyTicks, ClaimTrigger(w) PROVE SendsPaid'
  <2>1. Unsent' = Unsent
    BY <1>0, <1>1, UnsentStep DEF ClaimTrigger, TickGoes
  <2> QED BY <1>1, <2>1 DEF ClaimTrigger, ClaimableTrigger
<1>2. ASSUME NEW w \in HierarchyTicks, BeginPublication(w) PROVE SendsPaid'
  <2>1. CASE claim.status = "pending"
    <3>1. Cardinality(Unsent') <= Cardinality(Unsent) + 1 /\ Cardinality(Unsent') \in Nat
      BY <1>2, <2>1, UnsentStep DEF BeginPublication, TickGoes
    <3>2. claim'.status = "publishing" /\ sent' = sent /\ resends' = resends
      BY <1>2, <2>1 DEF BeginPublication, Begun
    <3> QED BY <2>1, <3>1, <3>2
  <2>2. CASE claim.status # "pending"
    <3>1. Unsent' = Unsent
      BY <1>2, <2>2, UnsentStep DEF BeginPublication, TickGoes
    <3> QED BY <1>2, <2>2, <3>1 DEF BeginPublication
  <2> QED BY <2>1, <2>2
<1>3. ASSUME NEW w \in HierarchyTicks, SendNotification(w) PROVE SendsPaid'
  <2>1. Cardinality(Unsent') = Cardinality(Unsent) - 1 /\ Cardinality(Unsent') \in Nat
    BY <1>3, UnsentStep DEF SendNotification, TickGoes
  <2>2. sent' \in Nat /\ sent' <= sent + 1 /\ claim' = claim /\ resends' = resends
    BY <1>3 DEF SendNotification
  <2> QED BY <2>1, <2>2
<1>4. ASSUME NEW w \in HierarchyTicks, RecordPublication(w) PROVE SendsPaid'
  <2>1. Unsent' = Unsent
    BY <1>4, UnsentStep DEF RecordPublication, TickGoes
  <2> QED BY <1>4, <2>1 DEF RecordPublication
<1>5. ASSUME NEW w \in HierarchyTicks, TickFails(w) PROVE SendsPaid'
  <2>1. Cardinality(Unsent') <= Cardinality(Unsent) /\ Cardinality(Unsent') \in Nat
    <3>1. tick' = [tick EXCEPT ![w] = "idle"]
      BY <1>5 DEF TickFails
    <3>2. /\ tick[w] = "begun" => Cardinality(Unsent') = Cardinality(Unsent) - 1
          /\ tick[w] # "begun" => Unsent' = Unsent
          /\ Cardinality(Unsent') \in Nat
      BY <3>1, UnsentStep
    <3>3. CASE tick[w] = "begun"
      BY <3>2, <3>3
    <3>4. CASE tick[w] # "begun"
      BY <3>2, <3>4
    <3> QED BY <3>3, <3>4
  <2> QED BY <1>5, <2>1 DEF TickFails
<1>6. CASE FlagStale
  BY <1>0, <1>6 DEF FlagStale
<1>7. CASE ReconcilePublication
  BY <1>0, <1>7 DEF ReconcilePublication, AwaitsOperator
<1>8. CASE ClaimLeaseEnds \/ OutcomeOverdue
  BY <1>0, <1>8 DEF ClaimLeaseEnds, OutcomeOverdue
<1>9. CASE UNCHANGED hierarchyVars
  BY <1>0, <1>9 DEF hierarchyVars
<1> QED BY <1>1, <1>2, <1>3, <1>4, <1>5, <1>6, <1>7, <1>8, <1>9 DEF HierarchyNext

\* What a trigger's publication starts with.
LEMMA HierarchyStart == HierarchyInit => HierarchyInv
<1> SUFFICES ASSUME HierarchyInit PROVE HierarchyInv
  OBVIOUS
<1>1. HierarchyTypeOK
  <2>1. 0 \in 0..MaxTriggerAttempts /\ 0 \in 0..MaxResends /\ 0 \in 0..MaxHierarchyFaults
    BY HierarchyAssumption
  <2> QED BY <2>1 DEF HierarchyInit, HierarchyTypeOK, ClaimStatus, Ambiguous, Resolved
<1>4. OneDelivers
  BY DEF HierarchyInit, OneDelivers, Delivering
<1>2. Unsent = {}
  BY DEF HierarchyInit, Unsent
<1>3. SendsPaid
  BY <1>2, FS_EmptySet DEF HierarchyInit, SendsPaid
<1> QED BY <1>1, <1>3, <1>4 DEF HierarchyInv

\* The invariant of a trigger's publication.
LEMMA HierarchyAlways == HierarchySpec => []HierarchyInv
<1>1. HierarchyInv /\ [HierarchyNext]_hierarchyVars => HierarchyInv'
  BY HierarchyTypeStep, OneDeliversStep, SendsPaidStep DEF HierarchyInv
<1> QED BY HierarchyStart, <1>1, PTL DEF HierarchySpec

\* Whatever fails, a trigger is announced once, and once more only for each
\* time an operator found that it had not been: begin_publication, the records
\* that may be missing after it, and reconcile_publication.
THEOREM AnnouncedOnce == HierarchySpec => []NoBlindResend
<1>1. HierarchyInv => NoBlindResend
  BY UnsentFinite DEF HierarchyInv, HierarchyTypeOK, SendsPaid, NoBlindResend
<1> QED BY <1>1, HierarchyAlways, PTL

\* No tick reopens what has been published or resolved, unless an operator
\* resolved a delivery still under way (record_publication is unconditional).
THEOREM ResolvedForGood == HierarchySpec => ResolvedStays
<1> DEFINE Step ==
      hasty' \/ (/\ claim.status \in {"published", "abandoned"} => claim'.status = claim.status
                 /\ claim.status = "failed" => claim'.status \in {"failed", "pending"})
<1>1. ASSUME HierarchyInv, HierarchyNext PROVE Step
  <2> USE <1>1 DEF HierarchyInv, HierarchyTypeOK, OneDelivers, Delivering, ClaimStatus,
                   Ambiguous, Resolved
  <2>1. ASSUME NEW w \in HierarchyTicks, ClaimTrigger(w) PROVE Step
    BY <2>1 DEF ClaimTrigger, ClaimableTrigger
  <2>2. ASSUME NEW w \in HierarchyTicks, BeginPublication(w) PROVE Step
    BY <2>2 DEF BeginPublication
  <2>3. ASSUME NEW w \in HierarchyTicks, SendNotification(w) \/ TickFails(w) PROVE Step
    BY <2>3 DEF SendNotification, TickFails
  <2>4. ASSUME NEW w \in HierarchyTicks, RecordPublication(w) PROVE Step
    BY <2>4 DEF RecordPublication, TickGoes
  <2>5. CASE FlagStale \/ ReconcilePublication
    BY <2>5 DEF FlagStale, ReconcilePublication, AwaitsOperator
  <2>6. CASE ClaimLeaseEnds \/ OutcomeOverdue
    BY <2>6 DEF ClaimLeaseEnds, OutcomeOverdue
  <2> QED BY <2>1, <2>2, <2>3, <2>4, <2>5, <2>6 DEF HierarchyNext
<1>2. HierarchyInv /\ [HierarchyNext]_hierarchyVars => [Step]_hierarchyVars
  BY <1>1
<1> QED BY <1>2, HierarchyAlways, PTL DEF HierarchySpec, ResolvedStays

-----------------------------------------------------------------------------
(* Proofs: the permission of a pending entry. *)

EAState ==
  [pc : {"down", "guard", "send", "waiting", "recheck"}, expiry : 0..Deadline,
   lease : Nat, revoked : BOOLEAN, waits : Heartbeats \cup {"none"}]
Order == [state : {"none", "working", "filled", "gone"}, expiry : 0..Deadline]
Beat ==
  [pc : {"idle", "check", "judge", "revoke", "record", "sign", "sent"},
   now : Ticks, lease : Nat, deadline : 0..Deadline, valid : Nat]
Disturbances == [count : 0..MaxPendingFaults, refused : BOOLEAN]

\* The bounds are numbers, and a clock starts at zero.
LEMMA PendingNumbers ==
  /\ LeaseTicks \in Nat /\ Deadline \in Nat /\ Horizon \in Nat /\ MaxPendingFaults \in Nat
  /\ 0 \in Ticks /\ 0 \in 0..Deadline /\ Deadline \in 0..Deadline
  /\ 0 \in 0..MaxPendingFaults
  /\ Less(LeaseTicks, Deadline) \in Nat /\ Less(LeaseTicks, Deadline) <= Deadline
  /\ Less(LeaseTicks, Deadline) <= LeaseTicks
BY PendingAssumption DEF Ticks, Less

\* A fault is counted, and marked when it is a refused deletion.
LEMMA DisturbTypes ==
  ASSUME disturbed \in Disturbances, NEW r \in BOOLEAN, Disturb(r)
  PROVE  /\ disturbed' \in Disturbances
         /\ disturbed'.refused = (disturbed.refused \/ r)
<1>1. disturbed.count + 1 \in 0..MaxPendingFaults
  BY PendingNumbers DEF Disturb, Disturbances
<1>2. (disturbed.refused \/ r) \in BOOLEAN
  BY DEF Disturbances
<1> DEFINE mark == disturbed.refused \/ r
<1>3. disturbed' = [count |-> disturbed.count + 1, refused |-> mark]
  BY DEF Disturb
<1>4. mark \in BOOLEAN
  BY <1>2
<1> HIDE DEF mark
<1>5. disturbed' \in Disturbances /\ disturbed'.refused = mark
  BY <1>1, <1>3, <1>4 DEF Disturbances
<1> QED BY <1>5 DEF mark

\* The part of the invariant that is about the EA's order.
OrderInv ==
  /\ order \in Order /\ ea \in EAState /\ disturbed \in Disturbances
  /\ PermissionIsFresh /\ RevokedIsGone

\* What a step may do to the order and its permission.
Shrinks ==
  /\ ea.revoked => ea'.revoked /\ ea'.lease = ea.lease
  /\ Working => ea'.expiry <= ea.expiry /\ order'.expiry <= order.expiry

\* Revoking keeps the order's invariant, whatever the broker answers.
LEMMA RevokeStep ==
  ASSUME OrderInv, NEW pc \in {"down", "guard", "send", "waiting", "recheck"},
         Working, RevokeAndDelete(pc)
  PROVE  OrderInv' /\ Shrinks
<1> USE PendingNumbers DEF OrderInv, PermissionIsFresh, RevokedIsGone, Working
<1>1. /\ ea' \in EAState /\ ea'.revoked /\ ea'.lease = ea.lease /\ ea'.expiry = ea.expiry
  BY DEF RevokeAndDelete, EAState
<1>2. /\ order' \in Order /\ order'.expiry = order.expiry
      /\ disturbed' \in Disturbances /\ order'.state # "none"
      /\ order'.state = "gone" \/ disturbed'.refused
  <2>1. CASE order' = [order EXCEPT !.state = "gone"] /\ UNCHANGED disturbed
    BY <2>1 DEF Order
  <2>2. CASE Disturb(TRUE) /\ UNCHANGED order
    BY <2>2, DisturbTypes DEF Order
  <2> QED BY <2>1, <2>2 DEF RevokeAndDelete
<1>3. ea.expiry \in Nat /\ order.expiry \in Nat
  BY DEF EAState, Order
<1> QED BY <1>1, <1>2, <1>3 DEF Shrinks

\* The part of the invariant that is about the server's judgement.
ServerInv ==
  /\ clock \in Ticks /\ eligible \in BOOLEAN /\ lastGood \in Ticks
  /\ revoked \in BOOLEAN /\ cancelled \in BOOLEAN
  /\ beat \in [Heartbeats -> Beat]
  /\ LeasesJudged

\* The invariant is about the order and about the server's judgement.
LEMMA PermissionParts == PermissionInv <=> OrderInv /\ ServerInv
BY DEF PermissionInv, PendingTypeOK, OrderInv, ServerInv, Order, EAState, Beat, Disturbances

\* A lease in hand was judged at an eligible moment.
Judged(b) == b \in Beat /\ b.now <= clock /\ b.lease <= lastGood + LeaseTicks

\* A heartbeat is taken up with nothing granted.
LEMMA IdleIsJudged ==
  ASSUME ServerInv
  PROVE  Judged(Idle) /\ Judged([Idle EXCEPT !.pc = "check", !.now = clock])
<1>1. clock \in Ticks /\ clock \in Nat /\ 0 <= clock /\ clock <= clock /\ 0 <= lastGood + LeaseTicks
  BY PendingNumbers DEF ServerInv, Ticks
<1>2. Idle \in Beat /\ Idle.now = 0 /\ Idle.lease = 0
  BY PendingNumbers DEF Idle, Beat
<1>3. /\ [Idle EXCEPT !.pc = "check", !.now = clock] \in Beat
      /\ [Idle EXCEPT !.pc = "check", !.now = clock].now = clock
      /\ [Idle EXCEPT !.pc = "check", !.now = clock].lease = 0
  BY <1>1, PendingNumbers DEF Idle, Beat
<1> QED BY <1>1, <1>2, <1>3 DEF Judged

\* One handler's step keeps the server's part.
LEMMA BeatStep ==
  ASSUME ServerInv, NEW h \in Heartbeats, NEW b, Judged(b),
         beat' = [beat EXCEPT ![h] = b],
         UNCHANGED <<clock, eligible, lastGood>>,
         revoked' \in BOOLEAN, cancelled' \in BOOLEAN
  PROVE  ServerInv'
BY DEF ServerInv, LeasesJudged, Judged

\* The server's part of the invariant is kept: a lease is only granted while
\* the setup is eligible.
LEMMA ServerStep ==
  ASSUME ServerInv, [PendingNext]_pendingVars
  PROVE  ServerInv'
<1> USE PendingNumbers
<1>0. ASSUME UNCHANGED <<clock, eligible, revoked, cancelled, beat, lastGood>>
      PROVE  ServerInv'
  BY <1>0 DEF ServerInv, LeasesJudged
<1>1. ASSUME GuardOrders \/ EAStarts \/ PlacePending \/ HeartbeatLost \/ EAStops
             \/ BrokerFills \/ BrokerExpires \/ UNCHANGED pendingVars
      PROVE  ServerInv'
  BY <1>0, <1>1 DEF GuardOrders, EAStarts, PlacePending, HeartbeatLost, EAStops, BrokerFills,
                    BrokerExpires, pendingVars
<1>2. ASSUME NEW h \in Heartbeats, SendHeartbeat(h) PROVE ServerInv'
  BY <1>2, IdleIsJudged, BeatStep DEF SendHeartbeat, ServerInv
<1>3. ASSUME NEW h \in Heartbeats, ApplyManifest(h) \/ AnswerDropped(h) PROVE ServerInv'
  BY <1>3, IdleIsJudged, BeatStep DEF ApplyManifest, AnswerDropped, ServerInv
<1>4. ASSUME NEW h \in Heartbeats, Handles(h) PROVE ServerInv'
  <2>1. /\ beat[h] \in Beat /\ beat[h].now <= clock
        /\ beat[h].lease <= lastGood + LeaseTicks
        /\ clock \in Nat /\ lastGood \in Nat /\ revoked \in BOOLEAN /\ cancelled \in BOOLEAN
    BY DEF ServerInv, LeasesJudged, Ticks
  <2>2. ASSUME NEW pc \in {"judge", "revoke", "record", "sign"}, HandlerGoes(h, pc)
        PROVE  /\ Judged([beat[h] EXCEPT !.pc = pc])
               /\ beat' = [beat EXCEPT ![h] = [beat[h] EXCEPT !.pc = pc]]
    BY <2>1, <2>2 DEF HandlerGoes, Judged, Beat
  <2>3. CASE CheckRevocation(h) \/ JudgeRefused(h)
    BY <2>1, <2>2, <2>3, BeatStep DEF CheckRevocation, JudgeRefused
  <2>4. CASE RecordRevocation(h) \/ RecordReason(h)
    BY <2>1, <2>2, <2>4, BeatStep DEF RecordRevocation, RecordReason
  <2>5. CASE SignManifest(h)
    <3> DEFINE b == [beat[h] EXCEPT !.pc = "sent", !.valid = clock + LeaseTicks]
    <3>1. beat' = [beat EXCEPT ![h] = b]
      BY <2>5 DEF SignManifest
    <3>3. clock + LeaseTicks \in Nat
      BY <2>1
    <3>4. b \in Beat /\ b.now = beat[h].now /\ b.lease = beat[h].lease
      BY <2>1, <3>3 DEF Beat
    <3>2. Judged(b)
      BY <2>1, <3>4 DEF Judged
    <3> HIDE DEF b
    <3> QED BY <2>1, <2>5, <3>1, <3>2, BeatStep DEF SignManifest
  <2>6. CASE JudgeEligible(h)
    <3>1. PICK source \in SourceEnds :
            /\ beat[h].now < Less(Deadline, source)
            /\ beat' = [beat EXCEPT ![h].pc = "sign", ![h].deadline = Less(Deadline, source),
                          ![h].lease = Less(Less(Deadline, source), beat[h].now + LeaseTicks)]
      BY <2>6 DEF JudgeEligible
    <3> DEFINE e == Less(Deadline, source)
               l == Less(e, beat[h].now + LeaseTicks)
               b == [beat[h] EXCEPT !.pc = "sign", !.deadline = e, !.lease = l]
    <3>2. beat' = [beat EXCEPT ![h] = b]
      BY <2>1, <3>1
    <3>3. e \in 0..Deadline
      BY PendingAssumption DEF Less
    <3>4. beat[h].now \in Nat
      BY <2>1 DEF Beat, Ticks
    <3>5. l \in Nat /\ l <= beat[h].now + LeaseTicks
      <4> HIDE DEF e
      <4> QED BY <3>3, <3>4 DEF Less
    <3>6. lastGood = clock
      BY <2>6 DEF JudgeEligible, ServerInv, LeasesJudged
    <3> HIDE DEF e, l
    <3>7. b \in Beat /\ b.now = beat[h].now /\ b.lease = l
      BY <2>1, <3>3, <3>5 DEF Beat
    <3> HIDE DEF b
    <3>8. Judged(b)
      BY <2>1, <3>4, <3>5, <3>6, <3>7 DEF Judged
    <3> QED BY <2>1, <2>6, <3>2, <3>8, BeatStep DEF JudgeEligible
  <2> QED BY <1>4, <2>3, <2>4, <2>5, <2>6 DEF Handles
<1>5. CASE PendingTick
  <2>1. /\ clock' = clock + 1 /\ clock' \in Ticks /\ lastGood' \in Ticks /\ beat' = beat
        /\ lastGood' <= clock' /\ (eligible' => lastGood' = clock') /\ lastGood <= lastGood'
    BY <1>5 DEF PendingTick, ServerInv, LeasesJudged, Ticks
  <2>2. \A h \in Heartbeats : beat'[h].now <= clock' /\ beat'[h].lease <= lastGood' + LeaseTicks
    <3> SUFFICES ASSUME NEW h \in Heartbeats
                 PROVE  beat'[h].now <= clock' /\ beat'[h].lease <= lastGood' + LeaseTicks
      OBVIOUS
    <3>1. /\ beat[h].now \in Nat /\ beat[h].lease \in Nat /\ lastGood \in Nat /\ clock \in Nat
          /\ lastGood' \in Nat
          /\ beat[h].now <= clock /\ beat[h].lease <= lastGood + LeaseTicks
      BY <2>1 DEF ServerInv, LeasesJudged, Beat, Ticks
    <3> QED BY <2>1, <3>1
  <2> QED BY <1>5, <2>1, <2>2 DEF PendingTick, ServerInv, LeasesJudged
<1>6. CASE EligibilityTurns
  <2>1. /\ clock' = clock /\ lastGood' = clock /\ beat' = beat /\ lastGood <= lastGood'
        /\ clock \in Nat
    BY <1>6 DEF EligibilityTurns, ServerInv, LeasesJudged, Ticks
  <2>2. \A h \in Heartbeats : beat'[h].now <= clock' /\ beat'[h].lease <= lastGood' + LeaseTicks
    <3> SUFFICES ASSUME NEW h \in Heartbeats
                 PROVE  beat'[h].now <= clock' /\ beat'[h].lease <= lastGood' + LeaseTicks
      OBVIOUS
    <3>1. /\ beat[h].lease \in Nat /\ lastGood \in Nat
          /\ beat[h].now <= clock /\ beat[h].lease <= lastGood + LeaseTicks
      BY DEF ServerInv, LeasesJudged, Beat, Ticks
    <3> QED BY <2>1, <3>1
  <2> QED BY <1>6, <2>1, <2>2 DEF EligibilityTurns, ServerInv, LeasesJudged
<1> QED BY <1>1, <1>2, <1>3, <1>4, <1>5, <1>6 DEF PendingNext, EATimer

\* The order's part is kept, and its permission only shrinks.
LEMMA OrderStep ==
  ASSUME OrderInv, ServerInv, [PendingNext]_pendingVars
  PROVE  OrderInv' /\ Shrinks
<1> USE PendingNumbers
<1>0. /\ ea.expiry \in Nat /\ ea.lease \in Nat /\ order.expiry \in Nat
      /\ clock \in Nat /\ lastGood \in Nat
  BY DEF OrderInv, ServerInv, EAState, Order, Ticks
<1>1. ASSUME UNCHANGED <<order, ea, disturbed>>, lastGood' \in Nat, lastGood <= lastGood'
      PROVE  OrderInv' /\ Shrinks
  BY <1>0, <1>1 DEF OrderInv, PermissionIsFresh, RevokedIsGone, Working, Shrinks
\* Only the EA's point changes, and perhaps the number of faults.
<1>2. ASSUME NEW pc \in {"down", "guard", "send", "waiting", "recheck"},
             NEW w \in Heartbeats \cup {"none"},
             ea' = [ea EXCEPT !.pc = pc, !.waits = w], UNCHANGED <<order, lastGood>>,
             UNCHANGED disturbed \/ Disturb(FALSE)
      PROVE  OrderInv' /\ Shrinks
  <2>1. /\ ea' \in EAState /\ ea'.revoked = ea.revoked /\ ea'.lease = ea.lease
        /\ ea'.expiry = ea.expiry
    BY <1>2 DEF OrderInv, EAState
  <2>2. disturbed' \in Disturbances /\ (disturbed.refused => disturbed'.refused)
    BY <1>2, DisturbTypes DEF OrderInv, Disturb
  <2> QED BY <1>0, <1>2, <2>1, <2>2
          DEF OrderInv, PermissionIsFresh, RevokedIsGone, Working, Shrinks
\* The order leaves the book.
<1>3. ASSUME NEW s \in {"filled", "gone"}, Working,
             order' = [order EXCEPT !.state = s], UNCHANGED <<ea, disturbed, lastGood>>
      PROVE  OrderInv' /\ Shrinks
  BY <1>0, <1>3 DEF OrderInv, PermissionIsFresh, RevokedIsGone, Working, Shrinks, Order
<1>4. CASE PlacePending
  <2>1. order' = [state |-> "working", expiry |-> Deadline]
    BY <1>4 DEF PlacePending
  <2>2. /\ ea' \in EAState /\ ea'.expiry = Deadline /\ ea'.lease = Less(LeaseTicks, Deadline)
        /\ ea'.revoked = ea.revoked /\ ~ea.revoked
    BY <1>4 DEF PlacePending, OrderInv, EAState, RevokedIsGone
  <2>3. order' \in Order /\ disturbed' = disturbed /\ lastGood' = lastGood /\ ~Working
    BY <1>4, <2>1 DEF PlacePending, Order, Working
  <2>4. Less(LeaseTicks, Deadline) <= lastGood + LeaseTicks
    BY <1>0
  <2> QED BY <2>1, <2>2, <2>3, <2>4
          DEF OrderInv, PermissionIsFresh, RevokedIsGone, Working, Shrinks
<1>5. CASE GuardOrders
  <2> DEFINE next == IF ea.pc = "guard" THEN "send" ELSE "guard"
  <2>1. next \in {"guard", "send"} /\ ea \in EAState
    BY DEF OrderInv
  <2>2. CASE Working /\ Lapsed
    BY <1>5, <2>1, <2>2, RevokeStep DEF GuardOrders
  <2>3. CASE ~(Working /\ Lapsed)
    <3>1. /\ ea' = [ea EXCEPT !.pc = next] /\ UNCHANGED <<order, disturbed, lastGood>>
      BY <1>5, <2>3 DEF GuardOrders
    <3> HIDE DEF next
    <3>2. ea' = [ea EXCEPT !.pc = next, !.waits = ea.waits] /\ ea.waits \in Heartbeats \cup {"none"}
      BY <2>1, <3>1 DEF EAState
    <3> QED BY <1>2, <2>1, <3>1, <3>2
  <2> QED BY <2>2, <2>3
<1>6. ASSUME NEW h \in Heartbeats, SendHeartbeat(h) PROVE OrderInv' /\ Shrinks
  BY <1>2, <1>6 DEF SendHeartbeat
<1>7. ASSUME NEW h \in Heartbeats, ApplyManifest(h) PROVE OrderInv' /\ Shrinks
  <2> DEFINE m == beat[h]
             valid == m.valid > clock /\ m.valid <= clock + LeaseTicks
             good == [ea EXCEPT !.pc = "recheck", !.waits = "none", !.lease = m.lease,
                                !.expiry = m.deadline]
  <2>1. CASE ~valid \/ ~Working
    <3>1. /\ ea' = [ea EXCEPT !.pc = "recheck", !.waits = "none"]
          /\ UNCHANGED <<order, disturbed, lastGood>>
      BY <1>7, <2>1 DEF ApplyManifest
    <3> QED BY <1>2, <3>1
  <2>2. CASE valid /\ Working /\ (~GoodRow(m) \/ order.expiry <= clock)
    <3>1. RevokeAndDelete("recheck")
      BY <1>7, <2>2 DEF ApplyManifest
    <3> QED BY <2>2, <3>1, RevokeStep
  <2>3. CASE valid /\ Working /\ GoodRow(m) /\ ~(order.expiry <= clock)
    <3>1. /\ m.lease \in Nat /\ m.deadline \in 0..Deadline /\ m.deadline <= ea.expiry
          /\ m.lease <= m.deadline /\ m.lease <= lastGood + LeaseTicks /\ ~ea.revoked
      BY <2>3 DEF GoodRow, ServerInv, LeasesJudged, Beat
    <3>2. /\ good \in EAState /\ good.lease = m.lease /\ good.expiry = m.deadline
          /\ ~good.revoked
          /\ [good EXCEPT !.revoked = TRUE] \in EAState
          /\ [good EXCEPT !.revoked = TRUE].revoked
          /\ [good EXCEPT !.revoked = TRUE].expiry = m.deadline
      BY <3>1 DEF OrderInv, EAState
    <3>3. \/ /\ ea' = good /\ order' = [order EXCEPT !.expiry = Less(order.expiry, m.deadline)]
             /\ UNCHANGED disturbed
          \/ /\ Disturb(TRUE) /\ ea' = [good EXCEPT !.revoked = TRUE]
             /\ order' \in {order, [order EXCEPT !.state = "gone"]}
      BY <1>7, <2>3 DEF ApplyManifest
    <3>4. lastGood' = lastGood
      BY <1>7 DEF ApplyManifest
    <3> HIDE DEF good, m, valid
    <3>5. CASE /\ ea' = good /\ order' = [order EXCEPT !.expiry = Less(order.expiry, m.deadline)]
               /\ UNCHANGED disturbed
      <4>1. /\ Less(order.expiry, m.deadline) \in 0..Deadline
            /\ Less(order.expiry, m.deadline) <= order.expiry
        BY <1>0, <3>1 DEF Less, OrderInv, Order
      <4>2. /\ order' \in Order /\ order'.expiry <= order.expiry /\ order'.state = order.state
        BY <3>5, <4>1 DEF OrderInv, Order
      <4> QED BY <1>0, <2>3, <3>1, <3>2, <3>4, <3>5, <4>2
              DEF OrderInv, PermissionIsFresh, RevokedIsGone, Working, Shrinks
    <3>6. CASE /\ Disturb(TRUE) /\ ea' = [good EXCEPT !.revoked = TRUE]
               /\ order' \in {order, [order EXCEPT !.state = "gone"]}
      <4>1. disturbed' \in Disturbances /\ disturbed'.refused
        BY <3>6, DisturbTypes DEF OrderInv
      <4>2. order' \in Order /\ order'.expiry = order.expiry /\ order'.state # "none"
        BY <2>3, <3>6 DEF OrderInv, Order, Working
      <4> QED BY <1>0, <2>3, <3>1, <3>2, <3>4, <3>6, <4>1, <4>2
              DEF OrderInv, PermissionIsFresh, RevokedIsGone, Working, Shrinks
    <3> QED BY <3>3, <3>5, <3>6
  <2> QED BY <2>1, <2>2, <2>3
<1>8. CASE HeartbeatLost \/ EAStops
  BY <1>2, <1>8 DEF HeartbeatLost, EAStops
<1>9. CASE EAStarts
  <2>1. CASE Working
    BY <1>9, <2>1, RevokeStep DEF EAStarts
  <2>2. CASE ~Working
    <3>1. /\ ea' = [ea EXCEPT !.pc = "guard"] /\ UNCHANGED <<order, disturbed, lastGood>>
      BY <1>9, <2>2 DEF EAStarts
    <3>2. /\ ea' = [ea EXCEPT !.pc = "guard", !.waits = ea.waits]
          /\ ea.waits \in Heartbeats \cup {"none"}
      BY <3>1 DEF OrderInv, EAState
    <3> QED BY <1>2, <3>1, <3>2
  <2> QED BY <2>1, <2>2
<1>10. ASSUME NEW h \in Heartbeats, Handles(h) \/ AnswerDropped(h) PROVE OrderInv' /\ Shrinks
  <2>1. UNCHANGED <<order, ea, disturbed, lastGood>>
    BY <1>10
       DEF Handles, AnswerDropped, CheckRevocation, JudgeEligible, JudgeRefused,
           RecordRevocation, RecordReason, SignManifest
  <2> QED BY <1>0, <1>1, <2>1
<1>11. CASE PendingTick \/ EligibilityTurns
  <2>1. lastGood' \in Nat /\ lastGood <= lastGood'
    BY <1>0, <1>11 DEF PendingTick, EligibilityTurns, ServerInv, LeasesJudged
  <2> QED BY <1>1, <1>11, <2>1 DEF PendingTick, EligibilityTurns
<1>12. CASE BrokerFills \/ BrokerExpires
  BY <1>3, <1>12 DEF BrokerFills, BrokerExpires
<1>13. CASE UNCHANGED pendingVars
  BY <1>0, <1>1, <1>13 DEF pendingVars
<1> QED BY <1>4, <1>5, <1>6, <1>7, <1>8, <1>9, <1>10, <1>11, <1>12, <1>13
        DEF PendingNext, EATimer

\* The invariant of a pending entry's permission.
LEMMA PermissionAlways == PendingSpec => []PermissionInv
<1>1. ASSUME PendingInit PROVE PermissionInv
  <2> USE <1>1 DEF PendingInit
  <2>1. PendingTypeOK
    BY PendingNumbers DEF PendingTypeOK, Idle
  <2>2. 0 <= 0 + LeaseTicks
    BY PendingNumbers
  <2>3. LeasesJudged
    BY <2>2 DEF LeasesJudged, Idle
  <2>4. PermissionIsFresh /\ RevokedIsGone
    BY DEF PermissionIsFresh, RevokedIsGone, Working
  <2> QED BY <2>1, <2>3, <2>4 DEF PermissionInv
<1>2. PermissionInv /\ [PendingNext]_pendingVars => PermissionInv'
  <2> SUFFICES ASSUME PermissionInv, [PendingNext]_pendingVars PROVE PermissionInv'
    OBVIOUS
  <2>1. OrderInv /\ ServerInv
    BY PermissionParts
  <2>2. OrderInv' /\ ServerInv'
    BY <2>1, OrderStep, ServerStep
  <2> QED BY <2>2
     DEF PermissionInv, PendingTypeOK, OrderInv, ServerInv, Order, EAState, Beat, Disturbances
<1> QED BY <1>1, <1>2, PTL DEF PendingSpec

\* The EA's permission ends within a lease of the last moment at which the
\* setup was eligible (pending_entry_leases, ApplyPendingManifest), and an
\* order is not left working once it is revoked unless the broker refused.
THEOREM PermissionFresh == PendingSpec => [](PermissionIsFresh /\ NoLapsedOrderLeft)
<1>1. PermissionInv => PermissionIsFresh /\ NoLapsedOrderLeft
  BY DEF PermissionInv, RevokedIsGone, NoLapsedOrderLeft
<1> QED BY <1>1, PermissionAlways, PTL

\* A permission that has been revoked is never restored and its deadlines are
\* never prolonged, whatever answers come late (GoodRow in ApplyManifest).
THEOREM PermissionShrinks == PendingSpec => PermissionOnlyShrinks
<1> DEFINE Step ==
      /\ ea.revoked => ea'.revoked /\ ea'.lease = ea.lease
      /\ Working => ea'.expiry <= ea.expiry /\ order'.expiry <= order.expiry
<1>1. PermissionInv /\ [PendingNext]_pendingVars => [Step]_pendingVars
  BY PermissionParts, OrderStep DEF Shrinks
<1> QED BY <1>1, PermissionAlways, PTL DEF PendingSpec, PermissionOnlyShrinks

-----------------------------------------------------------------------------
(* Proofs: the accounting of a trade. *)

NoticeStates == {Unnoticed, "pending", "sending"} \cup Fates

\* The numbers of exits, and a heartbeat with nothing to say.
LEMMA AccountingNumbers ==
  /\ Lots \in Nat /\ MaxAccountingFaults \in Nat /\ 0 \in 0..Lots /\ Events \subseteq 0..Lots
  /\ 0 \in 0..MaxAccountingFaults /\ NoBeat \in Report
BY AccountingAssumption DEF Events, NoBeat, Report, BeatPoints

\* A heartbeat's handler moves on.
LEMMA ReportMoves ==
  ASSUME report \in [Beats -> Report], NEW b \in Beats, NEW pc \in BeatPoints, Moves(b, pc)
  PROVE  /\ report' \in [Beats -> Report]
         /\ report'[b].pc = pc /\ report'[b].event = report[b].event
         /\ \A c \in Beats : c # b => report'[c] = report[c]
BY DEF Moves, Report

\* A heartbeat that goes on with a well-formed report leaves them all so.
LEMMA ReportUpdate ==
  ASSUME report \in [Beats -> Report], NEW b \in Beats, NEW r \in Report,
         report' = [report EXCEPT ![b] = r]
  PROVE  report' \in [Beats -> Report]
OBVIOUS

\* The deals, the account and the heartbeats stay well formed.
LEMMA AccountShapeStep ==
  ASSUME AccountShape, [AccountingNext]_accountingVars
  PROVE  AccountShape'
<1> USE AccountingNumbers DEF AccountShape, AccountingTypeOK
<1>0. ASSUME report' \in [Beats -> Report]
      PROVE  \A b \in Beats : report'[b].seen \in 0..Lots /\ report'[b].listed \subseteq Events
  BY <1>0 DEF Report
<1>f. ASSUME AccountingFault PROVE accountingFaults' \in 0..MaxAccountingFaults
  BY <1>f DEF AccountingFault
<1>r. /\ report \in [Beats -> Report]
      /\ \A b \in Beats : report[b] \in Report
  OBVIOUS
<1>1. CASE BrokerExits
  <2>1. exits' \in 0..Lots
    BY <1>1 DEF BrokerExits
  <2> QED BY <1>1, <2>1 DEF BrokerExits
<1>2. ASSUME NEW b \in Beats, NEW read \in 0..exits, BuildHeartbeat(b, read)
      PROVE  AccountShape'
  <2>1. Lots - exits \in 0..Lots /\ read \in 0..Lots
    OBVIOUS
  <2>2. [NoBeat EXCEPT !.pc = "arrives", !.seen = read, !.held = Lots - exits] \in Report
    BY <2>1 DEF NoBeat, Report, BeatPoints
  <2>3. report' \in [Beats -> Report]
    BY <1>2, <2>2 DEF BuildHeartbeat
  <2> QED BY <1>0, <1>2, <2>3 DEF BuildHeartbeat
<1>3. ASSUME NEW b \in Beats, ReadClosed(b) PROVE AccountShape'
  <2> DEFINE prior == lifecycle = "closed"
  <2>1. report' = [report EXCEPT ![b].pc = "life", ![b].prior = prior] /\ prior \in BOOLEAN
    BY <1>3 DEF ReadClosed
  <2> HIDE DEF prior
  <2>2. report' \in [Beats -> Report]
    <3>1. [report[b] EXCEPT !.pc = "life", !.prior = prior] \in Report
      BY <1>r, <2>1 DEF Report, BeatPoints
    <3>2. report' = [report EXCEPT ![b] = [report[b] EXCEPT !.pc = "life", !.prior = prior]]
      BY <2>1
    <3>3. QED BY ONLY <1>r, <3>1, <3>2, ReportUpdate
  <2> QED BY <1>0, <1>3, <2>2 DEF ReadClosed
<1>4. ASSUME NEW b \in Beats, RecordLifecycle(b) PROVE AccountShape'
  <2>1. report' \in [Beats -> Report]
    BY <1>4, ReportMoves DEF RecordLifecycle, BeatPoints
  <2> QED BY <1>0, <1>4, <2>1 DEF RecordLifecycle
<1>5. ASSUME NEW b \in Beats, ReadAccount(b) PROVE AccountShape'
  <2> DEFINE historical == IF account.status = "none" THEN report[b].prior
                           ELSE account.historical
             wanted == IF Reconstructs(b) THEN "reconciled" ELSE Awaits(b)
             result == IF Reconstructs(b) THEN report[b].seen ELSE -1
             reports == Reconstructs(b) /\ report[b].seen > 0 /\ ~historical
                          /\ account.result # result
             writes == account.status # wanted \/ account.result # result
             pc == IF reports THEN "look" ELSE "store"
  <2>1. report' = [report EXCEPT ![b] = [@ EXCEPT
          !.pc = pc, !.prior = FALSE, !.historical = historical, !.fresh = TRUE,
          !.writes = writes]]
    BY <1>5 DEF ReadAccount
  <2>2. writes \in BOOLEAN /\ pc \in BeatPoints
    BY DEF BeatPoints
  <2>3. historical \in BOOLEAN
    BY DEF Report
  <2> HIDE DEF historical, writes, pc
  <2>4. report' \in [Beats -> Report]
    BY <2>1, <2>2, <2>3 DEF Report
  <2> QED BY <1>0, <1>5, <2>4 DEF ReadAccount
<1>6. ASSUME NEW b \in Beats, LookNotice(b) PROVE AccountShape'
  <2>1. report' \in [Beats -> Report]
    BY <1>6, ReportMoves DEF LookNotice, BeatPoints
  <2> QED BY <1>0, <1>6, <2>1 DEF LookNotice
<1>7. ASSUME NEW b \in Beats, PutNotice(b) PROVE AccountShape'
  <2>1. report' \in [Beats -> Report]
    BY <1>7, ReportMoves DEF PutNotice, BeatPoints
  <2> QED BY <1>0, <1>7, <2>1 DEF PutNotice
<1>8. ASSUME NEW b \in Beats, StoreAccount(b) PROVE AccountShape'
  <2>1. CASE report[b].writes /\ report[b].fresh
    <3>1. report' = [c \in Beats |-> IF c = b THEN [report[b] EXCEPT !.pc = "list"]
                                     ELSE [report[c] EXCEPT !.fresh = FALSE]]
      BY <1>8, <2>1 DEF StoreAccount
    <3>2. report' \in [Beats -> Report]
      <4>1. [report[b] EXCEPT !.pc = "list"] \in Report
        BY <1>r DEF Report, BeatPoints
      <4>2. ASSUME NEW c \in Beats PROVE [report[c] EXCEPT !.fresh = FALSE] \in Report
        BY <1>r DEF Report
      <4>3. QED BY <3>1, <4>1, <4>2
    <3>3. /\ account'.status \in {"none", "reconciled", "awaits_closing", "awaits_history"}
          /\ account'.result \in -1..Lots /\ account'.historical \in BOOLEAN
      <4>1. /\ report[b].seen \in -1..Lots /\ -1 \in -1..Lots
            /\ report[b].historical \in BOOLEAN
            /\ Awaits(b) \in {"awaits_closing", "awaits_history"}
        BY DEF Report, Awaits
      <4> QED BY <1>8, <2>1, <4>1 DEF StoreAccount
    <3> QED BY <1>0, <1>8, <3>2, <3>3 DEF StoreAccount
  <2>2. CASE ~(report[b].writes /\ report[b].fresh)
    <3>1. report' \in [Beats -> Report]
      BY <1>8, <2>2, ReportMoves DEF StoreAccount, BeatPoints
    <3> QED BY <1>0, <1>8, <2>2, <3>1 DEF StoreAccount
  <2> QED BY <2>1, <2>2
<1>9. ASSUME NEW b \in Beats, ListNotices(b) PROVE AccountShape'
  <2> DEFINE listed == {k \in Events : notice[k] = "pending"}
  <2>1. listed \subseteq Events
    OBVIOUS
  <2>2. report' = [report EXCEPT ![b] = [NoBeat EXCEPT !.pc = "claim", !.listed = listed]]
    BY <1>9 DEF ListNotices
  <2> HIDE DEF listed
  <2>3. report' \in [Beats -> Report]
    BY <2>1, <2>2 DEF NoBeat, Report, BeatPoints
  <2> QED BY <1>0, <1>9, <2>3 DEF ListNotices
<1>10. ASSUME NEW b \in Beats, ClaimNotice(b) PROVE AccountShape'
  <2>1. PICK k \in report[b].listed :
          IF notice[k] = "pending"
          THEN /\ notice' = [notice EXCEPT ![k] = "sending"]
               /\ report' = [report EXCEPT ![b].pc = "send", ![b].listed = @ \ {k},
                                           ![b].event = k]
          ELSE report' = [report EXCEPT ![b].listed = @ \ {k}] /\ UNCHANGED notice
    BY <1>10 DEF ClaimNotice
  <2>2. k \in Events /\ k \in 0..Lots /\ report[b].listed \ {k} \subseteq Events
    BY DEF Report
  <2>3. report' \in [Beats -> Report]
    BY <2>1, <2>2 DEF Report, BeatPoints
  <2>4. notice' \in [Events -> NoticeStates]
    BY <2>1 DEF NoticeStates
  <2> QED BY <1>0, <1>10, <2>3, <2>4 DEF ClaimNotice, NoticeStates
<1>11. ASSUME NEW b \in Beats, SendNotice(b) \/ SendRaises(b) PROVE AccountShape'
  <2>1. report' \in [Beats -> Report]
    BY <1>11, ReportMoves DEF SendNotice, SendRaises, BeatPoints
  <2>2. posted' \in [Events -> Nat] /\ accountingFaults' \in 0..MaxAccountingFaults
    BY <1>f, <1>11 DEF SendNotice, SendRaises
  <2> QED BY <1>0, <1>11, <2>1, <2>2 DEF SendNotice, SendRaises
<1>12. ASSUME NEW b \in Beats, NoteOutcome(b) PROVE AccountShape'
  <2>1. report' \in [Beats -> Report]
    <3>1. report' = [report EXCEPT ![b].pc = "claim", ![b].event = 0]
      BY <1>12 DEF NoteOutcome
    <3>2. [report[b] EXCEPT !.pc = "claim", !.event = 0] \in Report
      BY <1>r, AccountingNumbers DEF Report, BeatPoints
    <3>3. report' = [report EXCEPT ![b] = [report[b] EXCEPT !.pc = "claim", !.event = 0]]
      BY <3>1
    <3>4. QED BY ONLY <1>r, <3>2, <3>3, ReportUpdate
  <2>2. notice' \in [Events -> NoticeStates]
    BY <1>12 DEF NoteOutcome, NoticeStates, Fates
  <2> QED BY <1>0, <1>12, <2>1, <2>2 DEF NoteOutcome, NoticeStates
<1>13. ASSUME NEW b \in Beats, BeatAnswered(b) \/ BeatStops(b) PROVE AccountShape'
  <2>1. report' \in [Beats -> Report] /\ accountingFaults' \in 0..MaxAccountingFaults
    BY <1>f, <1>13 DEF BeatAnswered, BeatStops
  <2> QED BY <1>0, <1>13, <2>1 DEF BeatAnswered, BeatStops
<1>14. ASSUME NEW b \in Beats, AccountingFails(b) PROVE AccountShape'
  <2>1. report' \in [Beats -> Report] /\ accountingFaults' \in 0..MaxAccountingFaults
    BY <1>f, <1>14, ReportMoves DEF AccountingFails, BeatPoints
  <2> QED BY <1>0, <1>14, <2>1 DEF AccountingFails
<1>15. CASE UNCHANGED accountingVars
  BY <1>15 DEF accountingVars
<1> QED BY <1>1, <1>2, <1>3, <1>4, <1>5, <1>6, <1>7, <1>8, <1>9, <1>10, <1>11, <1>12,
           <1>13, <1>14, <1>15 DEF AccountingNext, Reconciles

\* A step after which no heartbeat holds a notice it did not hold, and which
\* neither shows nor settles one, keeps the outbox's facts.
LEMMA OutboxFrame ==
  ASSUME AccountShape, OutboxFacts, UNCHANGED <<notice, posted>>,
         \A c \in Beats : report'[c].pc \in Holding =>
           report'[c].pc = report[c].pc /\ report'[c].event = report[c].event
  PROVE  OutboxFacts'
BY DEF OutboxFacts, NoticesHeld, ResultShownOnce, OutboxTellsTheTruth

\* The outbox's facts are kept.
LEMMA OutboxStep ==
  ASSUME AccountShape, OutboxFacts, [AccountingNext]_accountingVars
  PROVE  OutboxFacts'
<1> USE DEF AccountShape, AccountingTypeOK
<1>1. CASE BrokerExits \/ UNCHANGED accountingVars
  BY <1>1, OutboxFrame DEF BrokerExits, accountingVars
<1>2. ASSUME NEW b \in Beats, NEW read \in 0..exits, BuildHeartbeat(b, read)
      PROVE  OutboxFacts'
  BY <1>2, OutboxFrame DEF BuildHeartbeat, NoBeat, Holding
<1>3. ASSUME NEW b \in Beats, NEW pc \in BeatPoints \ Holding, Moves(b, pc),
             UNCHANGED <<notice, posted>>
      PROVE  OutboxFacts'
  BY <1>3, ReportMoves, OutboxFrame
<1>4. ASSUME NEW b \in Beats,
             RecordLifecycle(b) \/ LookNotice(b) \/ AccountingFails(b)
      PROVE  OutboxFacts'
  BY <1>3, <1>4
     DEF RecordLifecycle, LookNotice, AccountingFails, BeatPoints, Holding
<1>5. ASSUME NEW b \in Beats, ReadClosed(b) PROVE OutboxFacts'
  BY <1>5, OutboxFrame DEF ReadClosed, Holding, Report
<1>6. ASSUME NEW b \in Beats, ReadAccount(b) PROVE OutboxFacts'
  <2>1. /\ report'[b].pc \in {"look", "store"} /\ UNCHANGED <<notice, posted>>
        /\ \A c \in Beats : c # b => report'[c] = report[c]
    BY <1>6 DEF ReadAccount, Report
  <2> QED BY <2>1, OutboxFrame DEF Holding
<1>7. ASSUME NEW b \in Beats, PutNotice(b) PROVE OutboxFacts'
  <2>1. CASE notice[report[b].seen] = Unnoticed
    <3> DEFINE n == report[b].seen
    <3>1. /\ notice' = [notice EXCEPT ![n] = "pending"] /\ posted' = posted
          /\ Moves(b, "store")
      BY <1>7, <2>1 DEF PutNotice
    <3>2. /\ report'[b].pc = "store"
          /\ \A c \in Beats : c # b => report'[c] = report[c]
      BY <3>1, ReportMoves DEF BeatPoints
    <3>3. \A k \in Events : k # n => notice'[k] = notice[k]
      BY <3>1
    <3>4. n \in Events => notice'[n] = "pending" /\ posted[n] = 0 /\ notice[n] # "sending"
      BY <2>1, <3>1 DEF OutboxFacts, OutboxTellsTheTruth, Unnoticed
    <3> HIDE DEF n
    <3>5. NoticesHeld'
      BY <3>1, <3>2, <3>3, <3>4 DEF OutboxFacts, NoticesHeld, Holding
    <3>6. ResultShownOnce' /\ OutboxTellsTheTruth'
      BY <3>1, <3>3, <3>4 DEF OutboxFacts, ResultShownOnce, OutboxTellsTheTruth, Unnoticed
    <3> QED BY <3>5, <3>6 DEF OutboxFacts
  <2>2. CASE notice[report[b].seen] # Unnoticed
    BY <1>3, <1>7, <2>2 DEF PutNotice, BeatPoints, Holding
  <2> QED BY <2>1, <2>2
<1>8. ASSUME NEW b \in Beats, StoreAccount(b) PROVE OutboxFacts'
  <2>1. CASE report[b].writes /\ report[b].fresh
    <3>1. report' = [c \in Beats |-> IF c = b THEN [report[b] EXCEPT !.pc = "list"]
                                     ELSE [report[c] EXCEPT !.fresh = FALSE]]
      BY <1>8, <2>1 DEF StoreAccount
    <3>2. \A c \in Beats : report'[c].pc \in Holding =>
            report'[c].pc = report[c].pc /\ report'[c].event = report[c].event
      BY <3>1 DEF Report, Holding
    <3> QED BY <1>8, <3>2, OutboxFrame DEF StoreAccount
  <2>2. CASE ~(report[b].writes /\ report[b].fresh)
    BY <1>3, <1>8, <2>2 DEF StoreAccount, BeatPoints, Holding
  <2> QED BY <2>1, <2>2
<1>9. ASSUME NEW b \in Beats, ListNotices(b) PROVE OutboxFacts'
  BY <1>9, OutboxFrame DEF ListNotices, NoBeat, Holding
<1>10. ASSUME NEW b \in Beats, ClaimNotice(b) PROVE OutboxFacts'
  <2>1. PICK k \in report[b].listed :
          IF notice[k] = "pending"
          THEN /\ notice' = [notice EXCEPT ![k] = "sending"]
               /\ report' = [report EXCEPT ![b].pc = "send", ![b].listed = @ \ {k},
                                           ![b].event = k]
          ELSE report' = [report EXCEPT ![b].listed = @ \ {k}] /\ UNCHANGED notice
    BY <1>10 DEF ClaimNotice
  <2>2. k \in Events /\ posted' = posted /\ report[b].pc = "claim"
    BY <1>10 DEF ClaimNotice, BeatAt, Report
  <2>3. CASE notice[k] = "pending"
    <3>1. /\ report'[b].pc = "send" /\ report'[b].event = k
          /\ \A c \in Beats : c # b => report'[c] = report[c]
      BY <2>1, <2>3 DEF Report
    <3>2. /\ notice'[k] = "sending" /\ posted[k] = 0
          /\ \A j \in Events : j # k => notice'[j] = notice[j]
      BY <2>1, <2>2, <2>3 DEF OutboxFacts, OutboxTellsTheTruth
    <3>3. \A c \in Beats : c # b /\ report[c].pc \in Holding => report[c].event # k
      BY <2>2, <2>3 DEF OutboxFacts, NoticesHeld
    <3>4. NoticesHeld'
      BY <2>2, <3>1, <3>2, <3>3 DEF OutboxFacts, NoticesHeld, Holding
    <3>5. ResultShownOnce' /\ OutboxTellsTheTruth'
      BY <2>2, <3>2 DEF OutboxFacts, ResultShownOnce, OutboxTellsTheTruth, Unnoticed
    <3> QED BY <3>4, <3>5 DEF OutboxFacts
  <2>4. CASE notice[k] # "pending"
    <3>1. /\ notice' = notice /\ report'[b].pc = "claim"
          /\ \A c \in Beats : c # b => report'[c] = report[c]
      BY <2>1, <2>2, <2>4 DEF Report
    <3> QED BY <2>2, <3>1, OutboxFrame DEF Holding
  <2> QED BY <2>3, <2>4
<1>11. ASSUME NEW b \in Beats, SendNotice(b) \/ SendRaises(b) PROVE OutboxFacts'
  <2> DEFINE k == report[b].event
  <2>1. report[b].pc = "send" /\ k \in Events /\ notice[k] = "sending" /\ posted[k] = 0
    BY <1>11 DEF SendNotice, SendRaises, BeatAt, OutboxFacts, NoticesHeld, Holding
  <2>2. PICK pc \in {"sent", "unsure"} :
          Moves(b, pc) /\ (pc = "sent" => posted' = [posted EXCEPT ![k] = @ + 1])
    BY <1>11 DEF SendNotice, SendRaises
  <2>3. /\ report'[b].pc = pc /\ report'[b].event = k
        /\ \A c \in Beats : c # b => report'[c] = report[c]
    BY <2>2, ReportMoves DEF BeatPoints
  <2>4. /\ notice' = notice /\ posted'[k] \in {0, 1} /\ (pc = "sent" => posted'[k] = 1)
        /\ \A j \in Events : j # k => posted'[j] = posted[j]
    BY <1>11, <2>1, <2>2 DEF SendNotice, SendRaises
  <2> HIDE DEF k
  <2>5. NoticesHeld'
    <3> SUFFICES ASSUME NEW c \in Beats, report'[c].pc \in Holding
                 PROVE  /\ report'[c].event \in Events
                        /\ notice[report'[c].event] = "sending"
                        /\ report'[c].pc = "send" => posted'[report'[c].event] = 0
                        /\ report'[c].pc = "sent" => posted'[report'[c].event] = 1
                        /\ \A d \in Beats :
                             report'[d].pc \in Holding /\ report'[d].event = report'[c].event
                               => d = c
      BY <2>4 DEF NoticesHeld
    <3>1. \A d \in Beats : report'[d].pc \in Holding =>
            report[d].pc \in Holding /\ report'[d].event = report[d].event
      BY <2>1, <2>3 DEF Holding, k
    <3>2. c # b => report[c].event # k
      BY <2>1, <3>1 DEF OutboxFacts, NoticesHeld, Holding, k
    <3> QED BY <2>1, <2>2, <2>3, <2>4, <3>1, <3>2 DEF OutboxFacts, NoticesHeld, Holding
  <2>6. ResultShownOnce' /\ OutboxTellsTheTruth'
    BY <2>1, <2>4 DEF OutboxFacts, ResultShownOnce, OutboxTellsTheTruth, Unnoticed
  <2> QED BY <2>5, <2>6 DEF OutboxFacts
<1>12. ASSUME NEW b \in Beats, NoteOutcome(b) PROVE OutboxFacts'
  <2> DEFINE k == report[b].event
  <2>1. report[b].pc \in {"sent", "unsure"} /\ k \in Events
        /\ (report[b].pc = "sent" => posted[k] = 1)
    BY <1>12 DEF NoteOutcome, BeatAt, OutboxFacts, NoticesHeld, Holding
  <2>2. /\ report'[b].pc = "claim" /\ posted' = posted
        /\ \A c \in Beats : c # b => report'[c] = report[c]
    BY <1>12 DEF NoteOutcome, Report
  <2>3. /\ notice'[k] \in Fates /\ (notice'[k] = "published" => report[b].pc = "sent")
        /\ \A j \in Events : j # k => notice'[j] = notice[j]
    BY <1>12, <2>1 DEF NoteOutcome, BeatAt, Fates
  <2>4. \A c \in Beats : c # b /\ report[c].pc \in Holding => report[c].event # k
    BY <2>1 DEF OutboxFacts, NoticesHeld, Holding
  <2> HIDE DEF k
  <2>5. NoticesHeld'
    BY <2>2, <2>3, <2>4 DEF OutboxFacts, NoticesHeld, Holding
  <2>6. ResultShownOnce' /\ OutboxTellsTheTruth'
    BY <2>1, <2>2, <2>3 DEF OutboxFacts, ResultShownOnce, OutboxTellsTheTruth, Unnoticed, Fates
  <2> QED BY <2>5, <2>6 DEF OutboxFacts
<1>13. ASSUME NEW b \in Beats, BeatAnswered(b) \/ BeatStops(b) PROVE OutboxFacts'
  BY <1>13, OutboxFrame DEF BeatAnswered, BeatStops, NoBeat, Holding
<1> QED BY <1>1, <1>2, <1>4, <1>5, <1>6, <1>7, <1>8, <1>9, <1>10, <1>11, <1>12, <1>13
        DEF AccountingNext, Reconciles

\* The outbox is what it promises from the start.
LEMMA OutboxAlways == AccountingSpec => []OutboxInv
<1>1. AccountingInit => OutboxInv
  <2> SUFFICES ASSUME AccountingInit PROVE OutboxInv
    OBVIOUS
  <2>1. -1 \in -1..Lots
    BY AccountingNumbers
  <2>2. AccountShape
    BY <2>1, AccountingNumbers
       DEF AccountingInit, AccountShape, AccountingTypeOK, Unnoticed, NoBeat
  <2>3. OutboxFacts
    BY DEF AccountingInit, OutboxFacts, NoticesHeld, ResultShownOnce, OutboxTellsTheTruth,
           Unnoticed, NoBeat, Holding
  <2> QED BY <2>2, <2>3 DEF OutboxInv
<1>2. OutboxInv /\ [AccountingNext]_accountingVars => OutboxInv'
  BY AccountShapeStep, OutboxStep DEF OutboxInv
<1> QED BY <1>1, <1>2, PTL DEF AccountingSpec

\* The result of a set of exits is shown once at most, and the outbox tells
\* what has been shown, however heartbeats overlap, stop or fail: PutNotice
\* creates a notice once and ClaimNotice gives it to one of them.
THEOREM ResultsShownOnce == AccountingSpec => [](ResultShownOnce /\ OutboxTellsTheTruth)
<1>1. OutboxInv => ResultShownOnce /\ OutboxTellsTheTruth
  BY DEF OutboxInv, OutboxFacts
<1> QED BY <1>1, OutboxAlways, PTL

-----------------------------------------------------------------------------
(* Proofs: the quote request. *)

WorkerState ==
  [pc : Points, late : BOOLEAN, fresh : BOOLEAN, bound : BOOLEAN,
   tries : 0..MaxAttempts, reply : BOOLEAN, over : BOOLEAN]
QuoteRequest ==
  [state : QuoteStates, tries : 0..MaxAttempts, lease : {"none", "held", "over"},
   due : BOOLEAN, aged : BOOLEAN, message : BOOLEAN, told : BOOLEAN]
Signal ==
  [status : {"none", "pending_confirmation", "decided"},
   publish : {"none", "sending", "published", "context_only", "reconciliation_required"},
   message : BOOLEAN]
Chat ==
  [status : {"none", "processing", "waiting_for_quote", "completed"}, proposal : BOOLEAN]

WorkersTyped == worker \in [Workers -> WorkerState]

\* The numbers of attempts and faults.
LEMMA QuoteNumbers ==
  /\ MaxAttempts \in Nat /\ MaxQuoteFaults \in Nat
  /\ 0 \in 0..MaxAttempts /\ 0 \in 0..MaxQuoteFaults
BY QuoteAssumption

\* A step of worker x to one of these points: what it has read may be dropped,
\* found late once the signal has expired, bound to a message that is there,
\* or fresh at its gates; what others have read may become stale.
MovesTo(x, points) ==
  /\ worker' \in [Workers -> WorkerState]
  /\ worker'[x].pc \in points
  /\ worker'[x].late => worker[x].late \/ expired
  /\ worker'[x].bound => worker[x].bound \/ proposal.message
  /\ worker'[x].fresh => worker[x].fresh \/ worker'[x].pc = "gates"
  /\ \A y \in Workers : y # x =>
       /\ worker'[y].pc = worker[y].pc /\ worker'[y].late = worker[y].late
       /\ worker'[y].bound = worker[y].bound
       /\ worker'[y].fresh => worker[y].fresh

\* A worker whose record is replaced moves.
LEMMA RecordMoves ==
  ASSUME WorkersTyped, NEW x \in Workers, NEW w \in WorkerState,
         worker' = [worker EXCEPT ![x] = w],
         w.late => worker[x].late \/ expired,
         w.bound => worker[x].bound \/ proposal.message,
         w.fresh => worker[x].fresh \/ w.pc = "gates"
  PROVE  MovesTo(x, {w.pc})
BY DEF WorkersTyped, MovesTo

\* A worker that goes to a point, enters one after its attempt, or returns.
LEMMA SimpleMoves ==
  ASSUME WorkersTyped, NEW x \in Workers
  PROVE  /\ \A pc \in Points : Go(x, pc) => MovesTo(x, {pc})
         /\ \A pc \in Points : Enter(x, pc) => MovesTo(x, {pc})
         /\ Leave(x) => MovesTo(x, {"idle"})
         /\ \A pc \in Points : Conclude(x, pc) => MovesTo(x, {"idle", pc})
<1> USE QuoteNumbers DEF WorkersTyped
<1>1. ASSUME NEW pc \in Points, Go(x, pc) PROVE MovesTo(x, {pc})
  BY <1>1 DEF Go, MovesTo, WorkerState
<1>2. ASSUME NEW pc \in Points, Enter(x, pc) PROVE MovesTo(x, {pc})
  <2> DEFINE w == [worker[x] EXCEPT !.pc = pc, !.late = FALSE, !.tries = 0, !.bound = FALSE]
  <2>1. worker' = [worker EXCEPT ![x] = w]
    BY <1>2 DEF Enter
  <2>2. /\ w \in WorkerState /\ w.pc = pc /\ ~w.late /\ ~w.bound
        /\ w.fresh = worker[x].fresh
    BY DEF WorkerState
  <2> HIDE DEF w
  <2> QED BY <2>1, <2>2, RecordMoves
<1>3. Rest(x) \in WorkerState /\ "idle" \in Points
  BY DEF Rest, WorkerState, Points
<1>4. ASSUME Leave(x) PROVE MovesTo(x, {"idle"})
  BY <1>3, <1>4 DEF Leave, MovesTo, Rest
<1>5. ASSUME NEW pc \in Points, Conclude(x, pc) PROVE MovesTo(x, {"idle", pc})
  <2>1. CASE worker[x].reply
    <3>1. worker' = [worker EXCEPT ![x] = Rest(x)]
      BY <1>5, <2>1 DEF Conclude, Concluded
    <3> QED BY <1>3, <3>1 DEF MovesTo, Rest
  <2>2. CASE ~worker[x].reply
    <3>1. worker' = [worker EXCEPT ![x] = [worker[x] EXCEPT !.pc = pc]]
      BY <1>5, <2>2 DEF Conclude, Concluded
    <3> QED BY <3>1 DEF MovesTo, WorkerState
  <2> QED BY <2>1, <2>2
<1> QED BY <1>1, <1>2, <1>4, <1>5

\* A write of the proposal, after which the worker concludes or goes on.
LEMMA WriteMoves ==
  ASSUME WorkersTyped, NEW x \in Workers, NEW pc \in Points, NEW w \in WorkerState,
         w.pc \in {"idle", pc}, w.late => worker[x].late, w.bound => worker[x].bound,
         w.fresh => worker[x].fresh,
         worker' = [y \in Workers |-> IF y = x THEN w
                                      ELSE [worker[y] EXCEPT !.fresh = FALSE]]
  PROVE  MovesTo(x, {"idle", pc})
BY DEF WorkersTyped, MovesTo, WorkerState

\* What a worker that concludes is left with.
LEMMA ConcludedState ==
  ASSUME WorkersTyped, NEW x \in Workers, NEW pc \in Points
  PROVE  /\ Concluded(x, pc) \in WorkerState /\ Concluded(x, pc).pc \in {"idle", pc}
         /\ Concluded(x, pc).late => worker[x].late
         /\ Concluded(x, pc).bound => worker[x].bound
         /\ Concluded(x, pc).fresh => worker[x].fresh
<1>1. CASE worker[x].reply
  BY <1>1, QuoteNumbers DEF WorkersTyped, Concluded, Rest, WorkerState, Points
<1>2. CASE ~worker[x].reply
  BY <1>2 DEF WorkersTyped, Concluded, WorkerState
<1> QED BY <1>1, <1>2

\* Where the handler of the command goes.
LEMMA HandlerMoves ==
  ASSUME WorkersTyped, NEW x \in Workers
  PROVE  /\ (Look(x) \/ LookAtOwn(x)) /\ expired \in BOOLEAN =>
              /\ MovesTo(x, {"idle", "finish", "publish", "claim"})
              /\ worker'[x].pc = "finish" => proposal.message
         /\ Deliver(x) => MovesTo(x, {"idle", "analyse", "read", "close", "resume"})
         /\ Analyse(x) => MovesTo(x, {"idle", "request"})
         /\ AnalysisFails(x) => MovesTo(x, {"idle"})
         /\ RequestQuote(x) => MovesTo(x, {"await"})
         /\ ResumeRequest(x) => MovesTo(x, {"idle", "rejoin", "read"})
         /\ AwaitQuote(x) => MovesTo(x, {"close"})
<1> USE SimpleMoves, QuoteNumbers DEF Points
<1>1. ASSUME NEW pc \in Points, worker' = [worker EXCEPT ![x].pc = pc, ![x].reply = TRUE]
      PROVE  MovesTo(x, {pc})
  <2> DEFINE w == [worker[x] EXCEPT !.pc = pc, !.reply = TRUE]
  <2>1. worker' = [worker EXCEPT ![x] = w]
    BY <1>1
  <2>2. /\ w \in WorkerState /\ w.pc = pc /\ w.late = worker[x].late
        /\ w.bound = worker[x].bound /\ w.fresh = worker[x].fresh
    BY DEF WorkersTyped, WorkerState
  <2> HIDE DEF w
  <2> QED BY <2>1, <2>2, RecordMoves
<1>2. ASSUME LookStep(x), expired \in BOOLEAN
      PROVE  /\ MovesTo(x, {"finish", "publish", "claim"})
             /\ worker'[x].pc = "finish" => proposal.message
  <2>1. CASE quote.state \in Publishing
    BY <1>2, <2>1 DEF LookStep, MovesTo
  <2>2. CASE quote.state \notin Publishing
    <3> DEFINE w == [worker[x] EXCEPT !.pc = "claim", !.late = expired]
    <3>1. worker' = [worker EXCEPT ![x] = w]
      BY <1>2, <2>2 DEF LookStep
    <3>2. /\ w \in WorkerState /\ w.pc = "claim" /\ w.late = expired
          /\ w.bound = worker[x].bound /\ w.fresh = worker[x].fresh
      BY <1>2 DEF WorkersTyped, WorkerState
    <3> HIDE DEF w
    <3>3. MovesTo(x, {"claim"})
      BY <3>1, <3>2, RecordMoves
    <3> QED BY <3>3 DEF MovesTo
  <2> QED BY <2>1, <2>2
<1>3. ASSUME Look(x) \/ LookAtOwn(x), expired \in BOOLEAN
      PROVE  /\ MovesTo(x, {"idle", "finish", "publish", "claim"})
             /\ worker'[x].pc = "finish" => proposal.message
  <2>1. Leave(x) \/ LookStep(x)
    BY <1>3 DEF Look, LookAtOwn
  <2> QED BY <1>2, <1>3, <2>1 DEF MovesTo
<1>4. ASSUME Deliver(x) PROVE MovesTo(x, {"idle", "analyse", "read", "close", "resume"})
  <2>1. \/ \E pc \in {"analyse", "close", "resume"} : Go(x, pc)
        \/ worker' = [worker EXCEPT ![x].pc = "read", ![x].reply = TRUE]
        \/ Leave(x)
    BY <1>4 DEF Deliver
  <2> QED BY <1>1, <2>1 DEF MovesTo
<1>5. ASSUME Analyse(x) PROVE MovesTo(x, {"idle", "request"})
  BY <1>5 DEF Analyse, MovesTo
<1>6. ASSUME ResumeRequest(x) PROVE MovesTo(x, {"idle", "rejoin", "read"})
  <2>1. \/ Go(x, "rejoin") \/ Leave(x)
        \/ worker' = [worker EXCEPT ![x].pc = "read", ![x].reply = TRUE]
    BY <1>6 DEF ResumeRequest, CreateQuoteRequest
  <2> QED BY <1>1, <2>1 DEF MovesTo
<1>7. /\ AnalysisFails(x) => MovesTo(x, {"idle"})
      /\ RequestQuote(x) => MovesTo(x, {"await"})
      /\ AwaitQuote(x) => MovesTo(x, {"close"})
  BY DEF AnalysisFails, RequestQuote, CreateQuoteRequest, AwaitQuote
<1> QED BY <1>3, <1>4, <1>5, <1>6, <1>7

\* Where an attempt goes.
LEMMA AttemptMoves ==
  ASSUME WorkersTyped, NEW x \in Workers
  PROVE  /\ ClaimAttempt(x) /\ quote.tries \in Nat => MovesTo(x, {"attempt"})
         /\ NotClaimed(x) => MovesTo(x, {"idle", "unclaimed", "tell"})
         /\ ExpireRequest(x) => MovesTo(x, {"tell"})
         /\ ReceiveQuote(x) => MovesTo(x, {"received"})
         /\ Propose(x) /\ proposal.message \in BOOLEAN => MovesTo(x, {"proposed"})
         /\ ValidateQuote(x) => MovesTo(x, {"validated"})
         /\ ProposalCreated(x) =>
              /\ MovesTo(x, {"finish", "publish"})
              /\ worker'[x].pc = "finish" => worker[x].bound
         /\ RefuseAttempt(x) => MovesTo(x, {"idle", "tell"})
         /\ TellFailure(x) => MovesTo(x, {"idle"})
<1> USE SimpleMoves, QuoteNumbers DEF Points, Attempting
<1>1. ASSUME ClaimAttempt(x), quote.tries \in Nat PROVE MovesTo(x, {"attempt"})
  <2>1. quote.tries + 1 \in 0..MaxAttempts
    BY <1>1 DEF ClaimAttempt, Claimable
  <2> DEFINE n == quote.tries + 1
             w == [worker[x] EXCEPT !.pc = "attempt", !.late = FALSE, !.tries = n]
  <2>2. worker' = [worker EXCEPT ![x] = w]
    BY <1>1 DEF ClaimAttempt
  <2>3. n \in 0..MaxAttempts
    BY <2>1
  <2> HIDE DEF n
  <2>4. /\ w \in WorkerState /\ w.pc = "attempt" /\ ~w.late
        /\ w.bound = worker[x].bound /\ w.fresh = worker[x].fresh
    BY <2>3 DEF WorkersTyped, WorkerState
  <2> HIDE DEF w
  <2> QED BY <2>2, <2>4, RecordMoves
<1>2. ASSUME NotClaimed(x) PROVE MovesTo(x, {"idle", "unclaimed", "tell"})
  <2>1. Go(x, "unclaimed") \/ Enter(x, "tell") \/ Leave(x)
    BY <1>2 DEF NotClaimed
  <2> QED BY <2>1 DEF MovesTo
<1>3. ASSUME Propose(x), proposal.message \in BOOLEAN PROVE MovesTo(x, {"proposed"})
  <2> DEFINE w == [worker[x] EXCEPT !.pc = "proposed", !.bound = proposal.message]
  <2>1. worker' = [worker EXCEPT ![x] = w]
    BY <1>3 DEF Propose
  <2>2. /\ w \in WorkerState /\ w.pc = "proposed" /\ w.bound = proposal.message
        /\ w.late = worker[x].late /\ w.fresh = worker[x].fresh
    BY <1>3 DEF WorkersTyped, WorkerState
  <2> HIDE DEF w
  <2> QED BY <2>1, <2>2, RecordMoves
<1>4. ASSUME ProposalCreated(x)
      PROVE  /\ MovesTo(x, {"finish", "publish"})
             /\ worker'[x].pc = "finish" => worker[x].bound
  <2>1. (Enter(x, "finish") /\ worker[x].bound) \/ Enter(x, "publish")
    BY <1>4 DEF ProposalCreated
  <2> QED BY <2>1 DEF MovesTo
<1>5. ASSUME RefuseAttempt(x) PROVE MovesTo(x, {"idle", "tell"})
  <2>1. Enter(x, "tell") \/ Leave(x)
    BY <1>5 DEF RefuseAttempt
  <2> QED BY <2>1 DEF MovesTo
<1>6. /\ ExpireRequest(x) => MovesTo(x, {"tell"})
      /\ ReceiveQuote(x) => MovesTo(x, {"received"})
      /\ ValidateQuote(x) => MovesTo(x, {"validated"})
      /\ TellFailure(x) => MovesTo(x, {"idle"})
  BY DEF ExpireRequest, ReceiveQuote, ValidateQuote, TellFailure
<1> QED BY <1>1, <1>2, <1>3, <1>4, <1>5, <1>6

\* Where a publication goes.
LEMMA PublicationMoves ==
  ASSUME WorkersTyped, NEW x \in Workers
  PROVE  /\ ClaimPublication(x) => MovesTo(x, {"idle", "read"})
         /\ ReadProposal(x) =>
              /\ MovesTo(x, {"idle", "finish", "reset", "gates"})
              /\ worker'[x].pc = "finish" => proposal.message
              /\ worker'[x].pc = "gates" =>
                   ~proposal.message
                   /\ proposal.publish \notin {"sending", "reconciliation_required"}
         /\ IntendSend(x) => MovesTo(x, {"idle", "send"})
         /\ Withhold(x) => MovesTo(x, {"idle", "context"})
         /\ StaleProposal(x) => MovesTo(x, {"idle", "reset"})
         /\ SendProposal(x) => MovesTo(x, {"attach"})
         /\ Attach(x) => MovesTo(x, {"idle", "finish", "reconcile"})
         /\ Reconcile(x) => MovesTo(x, {"idle", "reset"})
         /\ SendContext(x) => MovesTo(x, {"idle", "finish"})
         /\ ResetRequest(x) => MovesTo(x, {"idle"})
         /\ FinishRequest(x) => MovesTo(x, {"close"})
         /\ CloseRequest(x) => MovesTo(x, {"idle"})
         /\ SendFails(x) => MovesTo(x, {"reconcile"})
         /\ PublicationRaises(x) => MovesTo(x, {"idle", "reset"})
         /\ AttachRaises(x) => MovesTo(x, {"reconcile"})
         /\ QuoteCrash(x) => MovesTo(x, {"idle"})
<1> USE SimpleMoves, QuoteNumbers DEF Points
<1>1. ASSUME ClaimPublication(x) PROVE MovesTo(x, {"idle", "read"})
  <2>1. Go(x, "read") \/ Leave(x)
    BY <1>1 DEF ClaimPublication
  <2> QED BY <2>1 DEF MovesTo
<1>2. ASSUME ReadProposal(x)
      PROVE  /\ MovesTo(x, {"idle", "finish", "reset", "gates"})
             /\ worker'[x].pc = "finish" => proposal.message
             /\ worker'[x].pc = "gates" =>
                  ~proposal.message
                  /\ proposal.publish \notin {"sending", "reconciliation_required"}
  <2>1. CASE proposal.message
    BY <1>2, <2>1 DEF ReadProposal, MovesTo
  <2>2. CASE ~proposal.message /\ proposal.publish \in {"sending", "reconciliation_required"}
    BY <1>2, <2>2 DEF ReadProposal, MovesTo
  <2>3. CASE ~proposal.message /\ proposal.publish \notin {"sending", "reconciliation_required"}
    <3> DEFINE w == [worker[x] EXCEPT !.pc = "gates", !.fresh = TRUE]
    <3>1. worker' = [worker EXCEPT ![x] = w]
      BY <1>2, <2>3 DEF ReadProposal
    <3>2. /\ w \in WorkerState /\ w.pc = "gates" /\ w.late = worker[x].late
          /\ w.bound = worker[x].bound
      BY DEF WorkersTyped, WorkerState
    <3> HIDE DEF w
    <3>3. MovesTo(x, {"gates"})
      BY <3>1, <3>2, RecordMoves
    <3> QED BY <2>3, <3>3 DEF MovesTo
  <2> QED BY <2>1, <2>2, <2>3
<1>3. ASSUME NEW value, NEW pc \in Points, WriteProposal(x, value, pc)
      PROVE  MovesTo(x, {"idle", pc})
  <2>1. /\ [worker[x] EXCEPT !.pc = pc, !.fresh = FALSE] \in WorkerState
        /\ [worker[x] EXCEPT !.pc = pc, !.fresh = FALSE].pc = pc
        /\ [worker[x] EXCEPT !.pc = pc, !.fresh = FALSE].late = worker[x].late
        /\ [worker[x] EXCEPT !.pc = pc, !.fresh = FALSE].bound = worker[x].bound
        /\ [worker[x] EXCEPT !.pc = pc, !.fresh = FALSE].fresh = FALSE
    BY DEF WorkersTyped, WorkerState
  <2> DEFINE w == [worker[x] EXCEPT !.pc = pc, !.fresh = FALSE]
  <2>2. worker' = [y \in Workers |-> IF y = x THEN w ELSE [worker[y] EXCEPT !.fresh = FALSE]]
    BY <1>3 DEF WriteProposal
  <2>3. w \in WorkerState /\ w.pc = pc /\ (w.late => worker[x].late)
        /\ (w.bound => worker[x].bound) /\ (w.fresh => worker[x].fresh)
    BY <2>1
  <2> HIDE DEF w
  <2> QED BY <2>2, <2>3, WriteMoves
<1>4. (IntendSend(x) => MovesTo(x, {"idle", "send"}))
      /\ (Withhold(x) => MovesTo(x, {"idle", "context"}))
  BY <1>3 DEF IntendSend, Withhold
<1>5. ASSUME NEW pc \in Points,
             worker' = [y \in Workers |-> IF y # x THEN [worker[y] EXCEPT !.fresh = FALSE]
                                          ELSE Concluded(x, pc)]
      PROVE  MovesTo(x, {"idle", pc})
  <2> DEFINE w == Concluded(x, pc)
  <2>1. worker' = [y \in Workers |-> IF y = x THEN w ELSE [worker[y] EXCEPT !.fresh = FALSE]]
    BY <1>5
  <2>2. w \in WorkerState /\ w.pc \in {"idle", pc} /\ (w.late => worker[x].late)
        /\ (w.bound => worker[x].bound) /\ (w.fresh => worker[x].fresh)
    BY ConcludedState
  <2> HIDE DEF w
  <2> QED BY <2>1, <2>2, WriteMoves
<1>6. ASSUME Attach(x) PROVE MovesTo(x, {"idle", "finish", "reconcile"})
  <2>1. CASE proposal.status = "pending_confirmation"
    <3>1. MovesTo(x, {"idle", "finish"})
      BY <1>5, <1>6, <2>1 DEF Attach
    <3> QED BY <3>1 DEF MovesTo
  <2>2. CASE proposal.status # "pending_confirmation"
    BY <1>6, <2>2 DEF Attach, MovesTo
  <2> QED BY <2>1, <2>2
<1>7. Reconcile(x) => MovesTo(x, {"idle", "reset"})
  BY <1>5 DEF Reconcile
<1>8. ASSUME FinishRequest(x) PROVE MovesTo(x, {"close"})
  <2> DEFINE w == [worker[x] EXCEPT !.pc = "close", !.reply = TRUE]
  <2>1. worker' = [worker EXCEPT ![x] = w]
    BY <1>8 DEF FinishRequest
  <2>2. /\ w \in WorkerState /\ w.pc = "close" /\ w.late = worker[x].late
        /\ w.bound = worker[x].bound /\ w.fresh = worker[x].fresh
    BY DEF WorkersTyped, WorkerState
  <2> HIDE DEF w
  <2> QED BY <2>1, <2>2, RecordMoves
<1>9. /\ StaleProposal(x) => MovesTo(x, {"idle", "reset"})
      /\ SendProposal(x) => MovesTo(x, {"attach"})
      /\ SendContext(x) => MovesTo(x, {"idle", "finish"})
      /\ ResetRequest(x) => MovesTo(x, {"idle"})
      /\ CloseRequest(x) => MovesTo(x, {"idle"})
      /\ SendFails(x) => MovesTo(x, {"reconcile"})
      /\ PublicationRaises(x) => MovesTo(x, {"idle", "reset"})
      /\ AttachRaises(x) => MovesTo(x, {"reconcile"})
      /\ QuoteCrash(x) => MovesTo(x, {"idle"})
  BY DEF StaleProposal, SendProposal, SendContext, ResetRequest, CloseRequest, SendFails,
         PublicationRaises, AttachRaises, QuoteCrash
<1> QED BY <1>1, <1>2, <1>4, <1>6, <1>7, <1>8, <1>9

\* What is stored about the command, the quote request and the proposal.
StoredTypes ==
  /\ chat \in Chat /\ kept \in {"none", "context", "eligible"}
  /\ expired \in BOOLEAN /\ overrun \in BOOLEAN
  /\ quote \in QuoteRequest /\ proposal \in Signal
  /\ sends \in Nat /\ told \subseteq {"no_quote", "no_analysis"}
  /\ quoteFaults \in 0..MaxQuoteFaults

\* The type invariant is about what is stored and about the workers.
LEMMA QuoteTypeParts == QuoteTypeOK <=> StoredTypes /\ WorkersTyped
BY DEF QuoteTypeOK, StoredTypes, WorkersTyped, Chat, QuoteRequest, Signal, WorkerState

\* What the operations make of a quote request is a quote request.
LEMMA RequestUpdates ==
  ASSUME NEW q \in QuoteRequest, NEW s \in QuoteStates
  PROVE  /\ [q EXCEPT !.state = s] \in QuoteRequest
         /\ [q EXCEPT !.state = s, !.lease = "none"] \in QuoteRequest
         /\ [q EXCEPT !.state = s, !.lease = "none", !.due = FALSE] \in QuoteRequest
         /\ [q EXCEPT !.state = s, !.aged = FALSE] \in QuoteRequest
         /\ [q EXCEPT !.state = s, !.message = TRUE] \in QuoteRequest
         /\ [q EXCEPT !.told = TRUE] \in QuoteRequest
         /\ [q EXCEPT !.lease = "over"] \in QuoteRequest
         /\ [q EXCEPT !.due = TRUE] \in QuoteRequest
         /\ [q EXCEPT !.aged = TRUE] \in QuoteRequest
<1> USE DEF QuoteRequest
<1>1. /\ [q EXCEPT !.state = s] \in QuoteRequest
      /\ [q EXCEPT !.state = s, !.lease = "none"] \in QuoteRequest
      /\ [q EXCEPT !.state = s, !.lease = "none", !.due = FALSE] \in QuoteRequest
  OBVIOUS
<1>2. /\ [q EXCEPT !.state = s, !.aged = FALSE] \in QuoteRequest
      /\ [q EXCEPT !.state = s, !.message = TRUE] \in QuoteRequest
      /\ [q EXCEPT !.told = TRUE] \in QuoteRequest
  OBVIOUS
<1>3. /\ [q EXCEPT !.lease = "over"] \in QuoteRequest
      /\ [q EXCEPT !.due = TRUE] \in QuoteRequest
      /\ [q EXCEPT !.aged = TRUE] \in QuoteRequest
  OBVIOUS
<1> QED BY <1>1, <1>2, <1>3

\* What the operations make of a proposal is a proposal.
LEMMA SignalUpdates ==
  ASSUME NEW p \in Signal
  PROVE  /\ [p EXCEPT !.status = "pending_confirmation"] \in Signal
         /\ [p EXCEPT !.status = "decided"] \in Signal
         /\ [p EXCEPT !.publish = "sending"] \in Signal
         /\ [p EXCEPT !.publish = "context_only"] \in Signal
         /\ [p EXCEPT !.publish = "reconciliation_required"] \in Signal
         /\ [p EXCEPT !.publish = "published", !.message = TRUE] \in Signal
BY DEF Signal

\* The states a request can be given.
LEMMA StatesListed ==
  {"QUOTE_REQUESTED", "QUOTE_RECEIVED", "QUOTE_VALIDATED", "PROPOSAL_CREATED", "EXPIRED",
   "FAILED", "WAITING_FOR_QUOTE", "PROPOSAL_PUBLISHING", "PROPOSAL_PUBLISHED"}
    \subseteq QuoteStates
BY DEF QuoteStates, Claimed, Midway, Publishing, Final

\* What is stored keeps its type at each step.
LEMMA StoredStep ==
  ASSUME StoredTypes, [QuoteNext]_quoteVars
  PROVE  StoredTypes'
<1> USE QuoteNumbers DEF StoredTypes
<1>f. ASSUME Fault PROVE quoteFaults' \in 0..MaxQuoteFaults
  BY <1>f DEF Fault
<1>q. quote \in QuoteRequest
  OBVIOUS
<1>1. ASSUME NEW x \in Workers, Look(x) \/ LookAtOwn(x) PROVE StoredTypes'
  BY <1>1 DEF Look, LookAtOwn
<1>2. ASSUME NEW x \in Workers, Deliver(x) PROVE StoredTypes'
  <2>1. chat' \in Chat /\ told' \subseteq {"no_quote", "no_analysis"}
    BY <1>2 DEF Deliver, Chat
  <2> QED BY <1>2, <2>1 DEF Deliver
<1>3. ASSUME NEW x \in Workers, Analyse(x) \/ AwaitQuote(x) PROVE StoredTypes'
  BY <1>3 DEF Analyse, AwaitQuote, Chat
<1>4. ASSUME NEW x \in Workers, AnalysisFails(x) PROVE StoredTypes'
  <2>1. chat' \in Chat /\ told' \subseteq {"no_quote", "no_analysis"}
    BY <1>4 DEF AnalysisFails, Chat
  <2>2. quoteFaults' \in 0..MaxQuoteFaults
    BY <1>4 DEF AnalysisFails
  <2> QED BY <1>4, <2>1, <2>2 DEF AnalysisFails
<1>5. ASSUME NEW x \in Workers, NEW pc, CreateQuoteRequest(x, pc) PROVE quote' \in QuoteRequest
  BY <1>5, RequestUpdates, StatesListed DEF CreateQuoteRequest
<1>6. ASSUME NEW x \in Workers, RequestQuote(x) PROVE StoredTypes'
  BY <1>5, <1>6 DEF RequestQuote
<1>7. ASSUME NEW x \in Workers, ResumeRequest(x) PROVE StoredTypes'
  <2>1. quote' \in QuoteRequest
    BY <1>5, <1>7 DEF ResumeRequest
  <2>2. chat' \in Chat
    <3> DEFINE named == chat.proposal \/ proposal.status # "none"
    <3>1. chat' = chat \/ chat' = [status |-> "completed", proposal |-> named]
      BY <1>7 DEF ResumeRequest
    <3>2. named \in BOOLEAN
      BY DEF Chat
    <3> HIDE DEF named
    <3> QED BY <3>1, <3>2 DEF Chat
  <2> QED BY <1>7, <2>1, <2>2 DEF ResumeRequest
<1>8. ASSUME NEW x \in Workers, ClaimAttempt(x) PROVE StoredTypes'
  <2>1. quote.tries + 1 \in 0..MaxAttempts
    BY <1>8 DEF ClaimAttempt, Claimable, QuoteRequest
  <2>2. quote' \in QuoteRequest
    BY <1>8, <2>1, StatesListed DEF ClaimAttempt, QuoteRequest
  <2> QED BY <1>8, <2>2 DEF ClaimAttempt
<1>9. ASSUME NEW x \in Workers, NotClaimed(x) \/ ExpireRequest(x) \/ ReceiveQuote(x)
                                 \/ ValidateQuote(x) \/ ProposalCreated(x)
      PROVE  StoredTypes'
  <2>1. \/ quote' = quote
        \/ \E s \in QuoteStates : quote' = [quote EXCEPT !.state = s, !.lease = "none"]
    BY <1>9, StatesListed
       DEF NotClaimed, ExpireRequest, ReceiveQuote, ValidateQuote, ProposalCreated
  <2>2. quote' \in QuoteRequest
    <3>1. ASSUME NEW s \in QuoteStates
          PROVE  [quote EXCEPT !.state = s, !.lease = "none"] \in QuoteRequest
      BY <1>q DEF QuoteRequest
    <3>2. QED BY ONLY <1>q, <2>1, <3>1
  <2> QED BY <1>9, <2>2
          DEF NotClaimed, ExpireRequest, ReceiveQuote, ValidateQuote, ProposalCreated
<1>10. ASSUME NEW x \in Workers, Propose(x) PROVE StoredTypes'
  BY <1>10, SignalUpdates DEF Propose
<1>11. ASSUME NEW x \in Workers, RefuseAttempt(x) PROVE StoredTypes'
  <2>1. \E s \in QuoteStates :
          quote' = [quote EXCEPT !.state = s, !.lease = "none", !.due = FALSE]
    BY <1>11, StatesListed DEF RefuseAttempt
  <2>2. quote' \in QuoteRequest
    <3>1. ASSUME NEW s \in QuoteStates
          PROVE  [quote EXCEPT !.state = s, !.lease = "none", !.due = FALSE] \in QuoteRequest
      BY <1>q DEF QuoteRequest
    <3>2. QED BY ONLY <2>1, <3>1
  <2> QED BY <1>11, <2>2 DEF RefuseAttempt
<1>12. ASSUME NEW x \in Workers, TellFailure(x) \/ ResetRequest(x) \/ FinishRequest(x)
                                  \/ ClaimPublication(x)
       PROVE  StoredTypes'
  <2>1. quote' \in QuoteRequest
    <3>1. CASE TellFailure(x) \/ ClaimPublication(x)
      BY <1>q, <3>1, StatesListed DEF TellFailure, ClaimPublication, QuoteRequest
    <3>2. CASE ResetRequest(x) \/ FinishRequest(x)
      BY <1>q, <3>2, StatesListed DEF ResetRequest, FinishRequest, QuoteRequest
    <3>3. QED BY <1>12, <3>1, <3>2
  <2> QED BY <1>12, <2>1 DEF TellFailure, ResetRequest, FinishRequest, ClaimPublication
<1>13. ASSUME NEW x \in Workers, ReadProposal(x) \/ StaleProposal(x) \/ SendProposal(x)
                                  \/ SendContext(x)
       PROVE  StoredTypes'
  BY <1>13 DEF ReadProposal, StaleProposal, SendProposal, SendContext
<1>14. ASSUME NEW x \in Workers, IntendSend(x) \/ Withhold(x) \/ Attach(x) \/ Reconcile(x)
       PROVE  StoredTypes'
  <2>1. proposal' \in Signal
    BY <1>14, SignalUpdates DEF IntendSend, Withhold, Attach, Reconcile, WriteProposal
  <2> QED BY <1>14, <2>1 DEF IntendSend, Withhold, Attach, Reconcile
<1>15. ASSUME NEW x \in Workers, CloseRequest(x) PROVE StoredTypes'
  BY <1>15 DEF CloseRequest, Chat
<1>16. ASSUME NEW x \in Workers, SendFails(x) \/ PublicationRaises(x) \/ AttachRaises(x)
                                  \/ QuoteCrash(x)
       PROVE  StoredTypes'
  <2>1. sends' \in Nat /\ quoteFaults' \in 0..MaxQuoteFaults
    BY <1>f, <1>16 DEF SendFails, PublicationRaises, AttachRaises, QuoteCrash
  <2> QED BY <1>16, <2>1 DEF SendFails, PublicationRaises, AttachRaises, QuoteCrash
<1>17. CASE QuoteClock
  <2>1. quote' \in QuoteRequest
    BY <1>17, RequestUpdates, StatesListed
       DEF QuoteClock, LeaseRunsOut, RetryDue, ClaimAges, DeadlinePasses
  <2>2. overrun' \in BOOLEAN /\ expired' \in BOOLEAN
    BY <1>17 DEF QuoteClock, LeaseRunsOut, RetryDue, ClaimAges, DeadlinePasses
  <2> QED BY <1>17, <2>1, <2>2
          DEF QuoteClock, LeaseRunsOut, RetryDue, ClaimAges, DeadlinePasses
<1>18. CASE ProposalDecided
  BY <1>18, SignalUpdates DEF ProposalDecided
<1>19. CASE UNCHANGED quoteVars
  BY <1>19 DEF quoteVars
<1>20. ASSUME NEW x \in Workers, WorkerProceeds(x) PROVE StoredTypes'
  BY <1>1, <1>3, <1>4, <1>6, <1>7, <1>8, <1>9, <1>10, <1>11, <1>12, <1>13, <1>14, <1>15,
     <1>20 DEF WorkerProceeds
<1> QED BY <1>2, <1>4, <1>16, <1>17, <1>18, <1>19, <1>20 DEF QuoteNext

\* A step that only makes stale what workers have read.
OnlyStales ==
  /\ worker' \in [Workers -> WorkerState]
  /\ \A y \in Workers :
       /\ worker'[y].pc = worker[y].pc /\ worker'[y].late = worker[y].late
       /\ worker'[y].bound = worker[y].bound
       /\ worker'[y].fresh => worker[y].fresh

\* Time passing and a decision only make it stale.
LEMMA OthersMove ==
  ASSUME WorkersTyped, QuoteClock \/ ProposalDecided \/ UNCHANGED quoteVars
  PROVE  OnlyStales
<1>1. CASE QuoteClock \/ UNCHANGED quoteVars
  <2>1. worker' = worker
    BY <1>1 DEF QuoteClock, LeaseRunsOut, RetryDue, ClaimAges, DeadlinePasses, quoteVars
  <2> QED BY <2>1 DEF OnlyStales, WorkersTyped
<1>2. CASE ProposalDecided
  <2>1. worker' = [y \in Workers |-> [worker[y] EXCEPT !.fresh = FALSE]]
    BY <1>2 DEF ProposalDecided
  <2> QED BY <2>1 DEF OnlyStales, WorkersTyped, WorkerState
<1> QED BY <1>1, <1>2

\* The workers keep their type.
LEMMA WorkersStep ==
  ASSUME StoredTypes, WorkersTyped, [QuoteNext]_quoteVars
  PROVE  WorkersTyped'
<1>1. expired \in BOOLEAN /\ quote.tries \in Nat /\ proposal.message \in BOOLEAN
  BY QuoteNumbers DEF StoredTypes, QuoteRequest, Signal
<1>2. ASSUME NEW x \in Workers, WorkerProceeds(x) PROVE WorkersTyped'
  BY <1>1, <1>2, HandlerMoves, AttemptMoves, PublicationMoves
     DEF WorkerProceeds, MovesTo, WorkersTyped
<1>3. ASSUME NEW x \in Workers,
             Deliver(x) \/ AnalysisFails(x) \/ SendFails(x) \/ PublicationRaises(x)
               \/ AttachRaises(x) \/ QuoteCrash(x)
      PROVE  WorkersTyped'
  BY <1>3, HandlerMoves, PublicationMoves DEF MovesTo, WorkersTyped
<1>4. CASE QuoteClock \/ ProposalDecided \/ UNCHANGED quoteVars
  BY <1>4, OthersMove DEF OnlyStales, WorkersTyped
<1> QED BY <1>2, <1>3, <1>4 DEF QuoteNext

\* The points of a worker that has stored that it will send.
Sending == {"send", "attach", "reconcile"}

\* A step of a worker that has no part in the sending, and that leaves the
\* proposal's publication alone, keeps IntentFirst.
LEMMA IntentFrame ==
  ASSUME IntentFirst, UNCHANGED sends,
         proposal'.publish = proposal.publish, proposal'.message = proposal.message,
         proposal.status # "none" => proposal'.status # "none",
         OnlyStales \/ \E x \in Workers, points \in SUBSET (Points \ ({"gates"} \cup Sending)) :
           MovesTo(x, points)
  PROVE  IntentFirst'
<1>1. \A y \in Workers :
        /\ worker'[y].pc = "gates" /\ worker'[y].fresh =>
             worker[y].pc = "gates" /\ worker[y].fresh
        /\ worker'[y].pc \in Sending => worker[y].pc = worker'[y].pc
  BY DEF OnlyStales, MovesTo, Sending
<1> QED BY <1>1 DEF IntentFirst, At, Sending

\* The intent to send is stored before the message is sent, once.
LEMMA IntentStep ==
  ASSUME StoredTypes, WorkersTyped, IntentFirst, [QuoteNext]_quoteVars
  PROVE  IntentFirst'
<1>1. expired \in BOOLEAN /\ quote.tries \in Nat /\ proposal.message \in BOOLEAN
      /\ sends \in Nat
  BY QuoteNumbers DEF StoredTypes, QuoteRequest, Signal
<1> DEFINE Quiet == Points \ ({"gates"} \cup Sending)
<1>2. ASSUME NEW x \in Workers, NEW points \in SUBSET Quiet, MovesTo(x, points),
             UNCHANGED <<proposal, sends>>
      PROVE  IntentFirst'
  BY <1>2, IntentFrame
<1>3. ASSUME NEW x \in Workers,
             Look(x) \/ LookAtOwn(x) \/ Deliver(x) \/ Analyse(x) \/ AnalysisFails(x)
               \/ RequestQuote(x) \/ ResumeRequest(x) \/ AwaitQuote(x)
      PROVE  IntentFirst'
  <2>1. /\ {"idle", "finish", "publish", "claim"} \subseteq Quiet
        /\ {"idle", "analyse", "read", "close", "resume"} \subseteq Quiet
        /\ {"idle", "request"} \subseteq Quiet /\ {"idle"} \subseteq Quiet
        /\ {"await"} \subseteq Quiet /\ {"idle", "rejoin", "read"} \subseteq Quiet
        /\ {"close"} \subseteq Quiet
    BY DEF Points, Sending
  <2>2. UNCHANGED <<proposal, sends>>
    BY <1>3 DEF Look, LookAtOwn, Deliver, Analyse, AnalysisFails, RequestQuote, ResumeRequest,
                AwaitQuote
  <2> HIDE DEF Quiet
  <2>3. \E points \in SUBSET Quiet : MovesTo(x, points)
    BY <1>1, <1>3, <2>1, HandlerMoves
  <2> QED BY <1>2, <2>2, <2>3
<1>4. ASSUME NEW x \in Workers,
             ClaimAttempt(x) \/ NotClaimed(x) \/ ExpireRequest(x) \/ ReceiveQuote(x)
               \/ ValidateQuote(x) \/ ProposalCreated(x) \/ RefuseAttempt(x) \/ TellFailure(x)
      PROVE  IntentFirst'
  <2>1. /\ {"attempt"} \subseteq Quiet /\ {"idle", "unclaimed", "tell"} \subseteq Quiet
        /\ {"tell"} \subseteq Quiet /\ {"received"} \subseteq Quiet
        /\ {"validated"} \subseteq Quiet /\ {"finish", "publish"} \subseteq Quiet
        /\ {"idle", "tell"} \subseteq Quiet /\ {"idle"} \subseteq Quiet
    BY DEF Points, Attempting, Sending
  <2>2. UNCHANGED <<proposal, sends>>
    BY <1>4 DEF ClaimAttempt, NotClaimed, ExpireRequest, ReceiveQuote, ValidateQuote,
                ProposalCreated, RefuseAttempt, TellFailure
  <2> HIDE DEF Quiet
  <2>3. \E points \in SUBSET Quiet : MovesTo(x, points)
    BY <1>1, <1>4, <2>1, AttemptMoves
  <2> QED BY <1>2, <2>2, <2>3
<1>5. ASSUME NEW x \in Workers, Propose(x) PROVE IntentFirst'
  <2>1. MovesTo(x, {"proposed"}) /\ {"proposed"} \in SUBSET Quiet
    BY <1>1, <1>5, AttemptMoves DEF Points, Attempting, Sending
  <2>2. /\ proposal'.publish = proposal.publish /\ proposal'.message = proposal.message
        /\ proposal.status # "none" => proposal'.status # "none"
        /\ sends' = sends
    BY <1>5 DEF Propose, StoredTypes, Signal
  <2> QED BY <2>1, <2>2, IntentFrame
<1>6. ASSUME NEW x \in Workers,
             ClaimPublication(x) \/ StaleProposal(x) \/ SendContext(x) \/ ResetRequest(x)
               \/ FinishRequest(x) \/ CloseRequest(x) \/ PublicationRaises(x)
      PROVE  IntentFirst'
  <2>1. /\ {"idle", "read"} \subseteq Quiet /\ {"idle", "reset"} \subseteq Quiet
        /\ {"idle", "finish"} \subseteq Quiet /\ {"idle"} \subseteq Quiet
        /\ {"close"} \subseteq Quiet
    BY DEF Points, Sending
  <2>2. UNCHANGED <<proposal, sends>>
    BY <1>6 DEF ClaimPublication, StaleProposal, SendContext, ResetRequest, FinishRequest,
                CloseRequest, PublicationRaises
  <2> HIDE DEF Quiet
  <2>3. \E points \in SUBSET Quiet : MovesTo(x, points)
    BY <1>6, <2>1, PublicationMoves
  <2> QED BY <1>2, <2>2, <2>3
<1>7. ASSUME NEW x \in Workers, ReadProposal(x) PROVE IntentFirst'
  <2>1. /\ MovesTo(x, {"idle", "finish", "reset", "gates"})
        /\ worker'[x].pc = "gates" =>
             ~proposal.message /\ proposal.publish \notin {"sending", "reconciliation_required"}
    BY <1>7, PublicationMoves
  <2>2. UNCHANGED <<proposal, sends>>
    BY <1>7 DEF ReadProposal
  <2> QED BY <2>1, <2>2 DEF IntentFirst, MovesTo, At, Intended
<1>8. ASSUME NEW x \in Workers, IntendSend(x) PROVE IntentFirst'
  <2>1. /\ worker[x].pc = "gates" /\ worker[x].fresh /\ sends' = sends
        /\ proposal' = [proposal EXCEPT !.publish = "sending"]
        /\ proposal.status = "pending_confirmation"
    BY <1>8 DEF IntendSend, At, WriteProposal
  <2>2. /\ proposal'.publish = "sending" /\ proposal'.message = proposal.message
        /\ proposal'.status = "pending_confirmation"
    BY <2>1 DEF StoredTypes, Signal
  <2>3. \A y \in Workers : ~worker'[y].fresh
    BY <1>8 DEF IntendSend, WriteProposal, WorkersTyped, WorkerState
  <2>4. MovesTo(x, {"idle", "send"})
    BY <1>8, PublicationMoves
  <2>5. /\ proposal.publish \notin Intended /\ ~proposal.message /\ sends = 0
        /\ \A y \in Workers : worker[y].pc \notin Sending
    BY <2>1 DEF IntentFirst, At, Intended, Sending
  <2> QED BY <2>1, <2>2, <2>3, <2>4, <2>5 DEF IntentFirst, MovesTo, At, Intended, Sending
<1>9. ASSUME NEW x \in Workers, Withhold(x) PROVE IntentFirst'
  <2>1. /\ worker[x].pc = "gates" /\ worker[x].fresh /\ sends' = sends
        /\ proposal' = [proposal EXCEPT !.publish = "context_only"]
    BY <1>9 DEF Withhold, At, WriteProposal
  <2>2. proposal'.publish = "context_only" /\ proposal'.message = proposal.message
    BY <2>1 DEF StoredTypes, Signal
  <2>4. MovesTo(x, {"idle", "context"})
    BY <1>9, PublicationMoves
  <2>5. /\ proposal.publish \notin Intended /\ ~proposal.message /\ sends = 0
        /\ \A y \in Workers : worker[y].pc \notin Sending
    BY <2>1 DEF IntentFirst, At, Intended, Sending
  <2> QED BY <2>1, <2>2, <2>4, <2>5 DEF IntentFirst, MovesTo, At, Intended, Sending
\* A worker that sends, or settles what it sent, is the only one to.
<1>10. ASSUME NEW x \in Workers, worker[x].pc \in Sending
       PROVE  /\ proposal.publish = "sending" /\ ~proposal.message
              /\ proposal.status # "none"
              /\ \A y \in Workers : worker[y].pc = "gates" => ~worker[y].fresh
              /\ \A y \in Workers : y # x => worker[y].pc \notin Sending
  BY <1>10 DEF IntentFirst, At, Intended, Sending
<1>11. ASSUME NEW x \in Workers, SendProposal(x) \/ SendFails(x) PROVE IntentFirst'
  <2>1. worker[x].pc = "send" /\ proposal' = proposal /\ sends' \in Nat
    BY <1>1, <1>11 DEF SendProposal, SendFails, At
  <2>2. MovesTo(x, {"attach"}) \/ MovesTo(x, {"reconcile"})
    BY <1>11, PublicationMoves
  <2>3. sends = 0
    BY <2>1 DEF IntentFirst, At
  <2>4. sends' <= 1
    BY <1>11, <2>3 DEF SendProposal, SendFails
  <2> QED BY <1>10, <2>1, <2>2, <2>4 DEF IntentFirst, MovesTo, At, Intended, Sending
<1>12. ASSUME NEW x \in Workers, Attach(x) \/ AttachRaises(x) PROVE IntentFirst'
  <2>1. worker[x].pc = "attach" /\ sends' = sends
    BY <1>12 DEF Attach, AttachRaises, At
  <2>2. MovesTo(x, {"idle", "finish", "reconcile"})
    BY <1>12, PublicationMoves DEF MovesTo
  <2>3. CASE proposal' = proposal
    BY <1>10, <2>1, <2>2, <2>3 DEF IntentFirst, MovesTo, At, Intended, Sending
  <2>4. CASE proposal' # proposal
    <3>1. /\ proposal' = [proposal EXCEPT !.publish = "published", !.message = TRUE]
          /\ worker'[x].pc # "reconcile"
      <4>1. /\ Attach(x) /\ proposal.status = "pending_confirmation"
        BY <1>12, <2>4 DEF Attach, AttachRaises
      <4>2. worker'[x] = Concluded(x, "finish")
        BY <4>1 DEF Attach
      <4> QED BY <4>1, <4>2, ConcludedState DEF Attach, Points
    <3>2. /\ proposal'.publish = "published" /\ proposal'.message
          /\ proposal'.status = proposal.status
      BY <3>1 DEF StoredTypes, Signal
    <3> QED BY <1>10, <2>1, <2>2, <3>1, <3>2 DEF IntentFirst, MovesTo, At, Intended, Sending
  <2> QED BY <2>3, <2>4
<1>13. ASSUME NEW x \in Workers, Reconcile(x) PROVE IntentFirst'
  <2>1. /\ worker[x].pc = "reconcile" /\ sends' = sends
        /\ proposal' = [proposal EXCEPT !.publish = "reconciliation_required"]
    BY <1>13 DEF Reconcile, At
  <2>2. MovesTo(x, {"idle", "reset"})
    BY <1>13, PublicationMoves
  <2>3. /\ proposal'.publish = "reconciliation_required"
        /\ proposal'.message = proposal.message /\ proposal'.status = proposal.status
    BY <2>1 DEF StoredTypes, Signal
  <2> QED BY <1>10, <2>1, <2>2, <2>3 DEF IntentFirst, MovesTo, At, Intended, Sending
<1>14. ASSUME NEW x \in Workers, QuoteCrash(x) PROVE IntentFirst'
  <2>1. proposal' = proposal /\ MovesTo(x, {"idle"})
    BY <1>14, PublicationMoves DEF QuoteCrash
  <2>2. CASE worker[x].pc = "send"
    <3>1. sends = 0
      BY <2>2 DEF IntentFirst, At
    <3>2. sends' <= 1
      BY <1>14, <3>1 DEF QuoteCrash
    <3> QED BY <1>10, <2>1, <2>2, <3>2 DEF IntentFirst, MovesTo, At, Intended, Sending
  <2>3. CASE worker[x].pc # "send"
    <3>1. sends' = sends /\ {"idle"} \in SUBSET Quiet
      BY <1>14, <2>3 DEF QuoteCrash, At, Points, Sending
    <3> QED BY <1>2, <2>1, <3>1
  <2> QED BY <2>2, <2>3
<1>15. CASE QuoteClock \/ ProposalDecided \/ UNCHANGED quoteVars
  <2>1. /\ proposal'.publish = proposal.publish /\ proposal'.message = proposal.message
        /\ proposal.status # "none" => proposal'.status # "none"
        /\ sends' = sends
    BY <1>15 DEF QuoteClock, LeaseRunsOut, RetryDue, ClaimAges, DeadlinePasses, ProposalDecided,
                 quoteVars, StoredTypes, Signal
  <2> QED BY <1>15, <2>1, OthersMove, IntentFrame
<1> QED BY <1>3, <1>4, <1>5, <1>6, <1>7, <1>8, <1>9, <1>11, <1>12, <1>13, <1>14, <1>15
        DEF QuoteNext, WorkerProceeds

\* A step keeps ShownFirst unless a worker marks the request published, or is
\* about to, before anything has been shown.
LEMMA ShownFrame ==
  ASSUME IntentFirst, ShownFirst, proposal.publish # "none" => proposal'.publish # "none",
         quote'.state = "PROPOSAL_PUBLISHED" =>
           quote.state = "PROPOSAL_PUBLISHED" \/ proposal'.publish # "none",
         OnlyStales \/ \E x \in Workers, points \in SUBSET Points :
           /\ MovesTo(x, points)
           /\ worker'[x].pc \in {"finish", "context"} => proposal'.publish # "none"
  PROVE  ShownFirst'
<1>1. proposal.message => proposal.publish # "none"
  BY DEF IntentFirst
<1> QED BY <1>1 DEF ShownFirst, PublishedWasShown, OnlyStales, MovesTo, At

\* A request counts as published only once its proposal was shown.
LEMMA ShownStep ==
  ASSUME StoredTypes, WorkersTyped, IntentFirst, ShownFirst, [QuoteNext]_quoteVars
  PROVE  ShownFirst'
<1>1. /\ expired \in BOOLEAN /\ quote.tries \in Nat /\ proposal.message \in BOOLEAN
      /\ proposal.message => proposal.publish # "none"
  BY QuoteNumbers DEF StoredTypes, QuoteRequest, Signal, IntentFirst
<1>2. ASSUME NEW x \in Workers, NEW points \in SUBSET (Points \ {"finish", "context"}),
             MovesTo(x, points), proposal' = proposal,
             quote'.state \in {quote.state} \cup (QuoteStates \ {"PROPOSAL_PUBLISHED"})
      PROVE  ShownFirst'
  BY <1>2, ShownFrame DEF MovesTo
<1>3. ASSUME NEW x \in Workers, Look(x) \/ LookAtOwn(x) PROVE ShownFirst'
  <2>1. /\ MovesTo(x, {"idle", "finish", "publish", "claim"})
        /\ worker'[x].pc = "finish" => proposal.message
    BY <1>1, <1>3, HandlerMoves
  <2>2. proposal' = proposal /\ quote' = quote
    BY <1>3 DEF Look, LookAtOwn
  <2>3. {"idle", "finish", "publish", "claim"} \in SUBSET Points
    BY DEF Points
  <2> QED BY <1>1, <2>1, <2>2, <2>3, ShownFrame DEF MovesTo
<1>4. ASSUME NEW x \in Workers, Deliver(x) \/ Analyse(x) \/ AnalysisFails(x)
                                  \/ RequestQuote(x) \/ ResumeRequest(x) \/ AwaitQuote(x)
      PROVE  ShownFirst'
  <2> DEFINE Plain == Points \ {"finish", "context"}
  <2>1. /\ {"idle", "analyse", "read", "close", "resume"} \subseteq Plain
        /\ {"idle", "request"} \subseteq Plain /\ {"idle"} \subseteq Plain
        /\ {"await"} \subseteq Plain /\ {"idle", "rejoin", "read"} \subseteq Plain
        /\ {"close"} \subseteq Plain
    BY DEF Points
  <2>2. proposal' = proposal
    BY <1>4 DEF Deliver, Analyse, AnalysisFails, RequestQuote, ResumeRequest, AwaitQuote
  <2>3. quote'.state \in {quote.state, "QUOTE_REQUESTED"}
    BY <1>4 DEF Deliver, Analyse, AnalysisFails, RequestQuote, ResumeRequest, AwaitQuote,
                CreateQuoteRequest, StoredTypes, QuoteRequest
  <2> HIDE DEF Plain
  <2>4. \E points \in SUBSET Plain : MovesTo(x, points)
    BY <1>4, <2>1, HandlerMoves
  <2> QED BY <1>2, <2>2, <2>3, <2>4, StatesListed DEF Plain
<1>5. ASSUME NEW x \in Workers,
             ClaimAttempt(x) \/ NotClaimed(x) \/ ExpireRequest(x) \/ ReceiveQuote(x)
               \/ ValidateQuote(x) \/ RefuseAttempt(x) \/ TellFailure(x)
      PROVE  ShownFirst'
  <2> DEFINE Plain == Points \ {"finish", "context"}
  <2>1. /\ {"attempt"} \subseteq Plain /\ {"idle", "unclaimed", "tell"} \subseteq Plain
        /\ {"tell"} \subseteq Plain /\ {"received"} \subseteq Plain
        /\ {"validated"} \subseteq Plain /\ {"idle", "tell"} \subseteq Plain
        /\ {"idle"} \subseteq Plain
    BY DEF Points, Attempting
  <2>2. proposal' = proposal
    BY <1>5 DEF ClaimAttempt, NotClaimed, ExpireRequest, ReceiveQuote, ValidateQuote,
                RefuseAttempt, TellFailure
  <2>3. quote'.state \in {quote.state, "QUOTE_REQUESTED", "EXPIRED", "QUOTE_RECEIVED",
                          "QUOTE_VALIDATED", "FAILED", "WAITING_FOR_QUOTE"}
    BY <1>5 DEF ClaimAttempt, NotClaimed, ExpireRequest, ReceiveQuote, ValidateQuote,
                RefuseAttempt, TellFailure, StoredTypes, QuoteRequest
  <2> HIDE DEF Plain
  <2>4. \E points \in SUBSET Plain : MovesTo(x, points)
    BY <1>1, <1>5, <2>1, AttemptMoves
  <2> QED BY <1>2, <2>2, <2>3, <2>4, StatesListed DEF Plain
<1>6. ASSUME NEW x \in Workers, Propose(x) PROVE ShownFirst'
  <2>1. MovesTo(x, {"proposed"}) /\ {"proposed"} \in SUBSET Points
    BY <1>1, <1>6, AttemptMoves DEF Points, Attempting
  <2>2. proposal'.publish = proposal.publish /\ quote' = quote
    BY <1>6 DEF Propose, StoredTypes, Signal
  <2> QED BY <2>1, <2>2, ShownFrame DEF MovesTo
<1>7. ASSUME NEW x \in Workers, ProposalCreated(x) PROVE ShownFirst'
  <2>1. /\ MovesTo(x, {"finish", "publish"}) /\ {"finish", "publish"} \in SUBSET Points
        /\ worker'[x].pc = "finish" => worker[x].bound
    BY <1>7, AttemptMoves DEF Points
  <2>2. proposal' = proposal /\ quote'.state = "PROPOSAL_CREATED"
    BY <1>7 DEF ProposalCreated, StoredTypes, QuoteRequest
  <2>3. worker[x].bound => proposal.publish # "none"
    BY DEF ShownFirst
  <2> QED BY <2>1, <2>2, <2>3, ShownFrame DEF MovesTo
<1>8. ASSUME NEW x \in Workers,
             ClaimPublication(x) \/ StaleProposal(x) \/ SendProposal(x) \/ ResetRequest(x)
               \/ CloseRequest(x) \/ SendFails(x) \/ PublicationRaises(x) \/ AttachRaises(x)
               \/ QuoteCrash(x)
      PROVE  ShownFirst'
  <2> DEFINE Plain == Points \ {"finish", "context"}
  <2>1. /\ {"idle", "read"} \subseteq Plain /\ {"idle", "reset"} \subseteq Plain
        /\ {"attach"} \subseteq Plain /\ {"idle"} \subseteq Plain
        /\ {"reconcile"} \subseteq Plain
    BY DEF Points
  <2>2. proposal' = proposal
    BY <1>8 DEF ClaimPublication, StaleProposal, SendProposal, ResetRequest, CloseRequest,
                SendFails, PublicationRaises, AttachRaises, QuoteCrash
  <2>3. quote'.state \in {quote.state, "PROPOSAL_PUBLISHING", "PROPOSAL_CREATED"}
    BY <1>8 DEF ClaimPublication, StaleProposal, SendProposal, ResetRequest, CloseRequest,
                SendFails, PublicationRaises, AttachRaises, QuoteCrash, StoredTypes,
                QuoteRequest
  <2> HIDE DEF Plain
  <2>4. \E points \in SUBSET Plain : MovesTo(x, points)
    BY <1>8, <2>1, PublicationMoves
  <2> QED BY <1>2, <2>2, <2>3, <2>4, StatesListed DEF Plain
<1>9. ASSUME NEW x \in Workers, ReadProposal(x) PROVE ShownFirst'
  <2>1. /\ MovesTo(x, {"idle", "finish", "reset", "gates"})
        /\ {"idle", "finish", "reset", "gates"} \in SUBSET Points
        /\ worker'[x].pc = "finish" => proposal.message
    BY <1>9, PublicationMoves DEF Points
  <2>2. proposal' = proposal /\ quote' = quote
    BY <1>9 DEF ReadProposal
  <2> QED BY <1>1, <2>1, <2>2, ShownFrame DEF MovesTo
<1>10. ASSUME NEW x \in Workers, IntendSend(x) \/ Withhold(x) PROVE ShownFirst'
  <2>1. MovesTo(x, {"idle", "send"}) \/ MovesTo(x, {"idle", "context"})
    BY <1>10, PublicationMoves
  <2>2. quote' = quote /\ proposal'.publish \in {"sending", "context_only"}
    BY <1>10 DEF IntendSend, Withhold, WriteProposal, StoredTypes, Signal
  <2>3. {"idle", "send"} \in SUBSET Points /\ {"idle", "context"} \in SUBSET Points
    BY DEF Points
  <2> QED BY <2>1, <2>2, <2>3, ShownFrame DEF MovesTo
<1>11. ASSUME NEW x \in Workers, Attach(x) PROVE ShownFirst'
  <2>1. /\ MovesTo(x, {"idle", "finish", "reconcile"})
        /\ {"idle", "finish", "reconcile"} \in SUBSET Points
    BY <1>11, PublicationMoves DEF Points
  <2>2. worker[x].pc = "attach" /\ proposal.publish = "sending"
    BY <1>11 DEF Attach, At, IntentFirst
  <2>3. quote' = quote /\ proposal'.publish \in {"sending", "published"}
    BY <1>11, <2>2 DEF Attach, StoredTypes, Signal
  <2> QED BY <2>1, <2>3, ShownFrame DEF MovesTo
<1>12. ASSUME NEW x \in Workers, Reconcile(x) PROVE ShownFirst'
  <2>1. MovesTo(x, {"idle", "reset"}) /\ {"idle", "reset"} \in SUBSET Points
    BY <1>12, PublicationMoves DEF Points
  <2>2. quote' = quote /\ proposal'.publish = "reconciliation_required"
    BY <1>12 DEF Reconcile, StoredTypes, Signal
  <2> QED BY <2>1, <2>2, ShownFrame DEF MovesTo
<1>13. ASSUME NEW x \in Workers, SendContext(x) \/ FinishRequest(x) PROVE ShownFirst'
  <2>1. /\ MovesTo(x, {"idle", "finish"}) \/ MovesTo(x, {"close"})
        /\ {"idle", "finish"} \in SUBSET Points /\ {"close"} \in SUBSET Points
    BY <1>13, PublicationMoves DEF Points
  <2>2. worker[x].pc \in {"context", "finish"} /\ proposal' = proposal
    BY <1>13 DEF SendContext, FinishRequest, At
  <2>3. proposal.publish # "none"
    BY <2>2 DEF ShownFirst, At
  <2> QED BY <2>1, <2>2, <2>3, ShownFrame DEF MovesTo
<1>14. CASE QuoteClock \/ ProposalDecided \/ UNCHANGED quoteVars
  <2>1. proposal'.publish = proposal.publish /\ quote'.state = quote.state
    BY <1>14 DEF QuoteClock, LeaseRunsOut, RetryDue, ClaimAges, DeadlinePasses, ProposalDecided,
                 quoteVars, StoredTypes, Signal, QuoteRequest
  <2> QED BY <1>14, <2>1, OthersMove, ShownFrame
<1> QED BY <1>3, <1>4, <1>5, <1>6, <1>7, <1>8, <1>9, <1>10, <1>11, <1>12, <1>13, <1>14
        DEF QuoteNext, WorkerProceeds

\* A step after which no new worker attempts the request keeps OneAttempt, if
\* it leaves the lease and the state alone or gives the request a state in
\* which it is not claimed.
LEMMA AttemptFrame ==
  ASSUME OneAttempt, overrun => overrun',
         \/ quote'.state = quote.state /\ quote'.lease = quote.lease
         \/ quote'.state \notin Claimed \cup {"none"},
         proposal'.status = proposal.status
           \/ (proposal.status # "none" /\ proposal'.status # "none"),
         OnlyStales \/ \E x \in Workers, points \in SUBSET (Points \ Attempting) :
           MovesTo(x, points)
  PROVE  OneAttempt'
<1>1. \A y \in Workers : worker'[y].pc \in Attempting => worker[y].pc = worker'[y].pc
  BY DEF OnlyStales, MovesTo
<1> QED BY <1>1 DEF OneAttempt, At

\* While no lease has run out on it, a worker attempts the request alone.
LEMMA AttemptStep ==
  ASSUME StoredTypes, WorkersTyped, OneAttempt, [QuoteNext]_quoteVars
  PROVE  OneAttempt'
<1>1. expired \in BOOLEAN /\ quote.tries \in Nat /\ proposal.message \in BOOLEAN
  BY QuoteNumbers DEF StoredTypes, QuoteRequest, Signal
<1> DEFINE Other == Points \ Attempting
           Closed == QuoteStates \ (Claimed \cup {"none"})
<1>s. /\ Closed \cap (Claimed \cup {"none"}) = {}
      /\ {"QUOTE_RECEIVED", "QUOTE_VALIDATED", "PROPOSAL_CREATED", "EXPIRED", "FAILED",
          "PROPOSAL_PUBLISHING", "PROPOSAL_PUBLISHED"} \subseteq Closed
  BY DEF QuoteStates, Claimed, Midway, Publishing, Final
<1>p. /\ {"idle", "finish", "publish", "claim"} \subseteq Other
      /\ {"idle", "analyse", "read", "close", "resume"} \subseteq Other
      /\ {"idle", "request"} \subseteq Other /\ {"idle"} \subseteq Other
      /\ {"await"} \subseteq Other /\ {"idle", "rejoin", "read"} \subseteq Other
      /\ {"close"} \subseteq Other /\ {"idle", "unclaimed", "tell"} \subseteq Other
      /\ {"tell"} \subseteq Other /\ {"finish", "publish"} \subseteq Other
      /\ {"idle", "tell"} \subseteq Other /\ {"idle", "read"} \subseteq Other
      /\ {"idle", "finish", "reset", "gates"} \subseteq Other
      /\ {"idle", "send"} \subseteq Other /\ {"idle", "context"} \subseteq Other
      /\ {"idle", "reset"} \subseteq Other /\ {"attach"} \subseteq Other
      /\ {"idle", "finish", "reconcile"} \subseteq Other
      /\ {"idle", "finish"} \subseteq Other /\ {"reconcile"} \subseteq Other
  BY DEF Points, Attempting
<1>2. ASSUME NEW x \in Workers, NEW points \in SUBSET Other, MovesTo(x, points),
             \/ quote'.state = quote.state /\ quote'.lease = quote.lease
             \/ quote'.state \in Closed,
             proposal'.status = proposal.status, overrun' = overrun
      PROVE  OneAttempt'
  BY <1>2, <1>s, AttemptFrame
<1> HIDE DEF Other, Closed
<1>3. ASSUME NEW x \in Workers,
             Look(x) \/ LookAtOwn(x) \/ Deliver(x) \/ Analyse(x) \/ AnalysisFails(x)
               \/ AwaitQuote(x)
      PROVE  OneAttempt'
  <2>1. UNCHANGED <<quote, proposal, overrun>>
    BY <1>3 DEF Look, LookAtOwn, Deliver, Analyse, AnalysisFails, AwaitQuote
  <2>2. \E points \in SUBSET Other : MovesTo(x, points)
    BY <1>1, <1>3, <1>p, HandlerMoves
  <2> QED BY <1>2, <2>1, <2>2
<1>4. ASSUME NEW x \in Workers, RequestQuote(x) \/ ResumeRequest(x) PROVE OneAttempt'
  <2>1. \E points \in SUBSET Other : MovesTo(x, points)
    BY <1>4, <1>p, HandlerMoves
  <2>2. UNCHANGED <<proposal, overrun>>
    BY <1>4 DEF RequestQuote, ResumeRequest
  <2>3. \/ quote' = quote
        \/ quote.state = "none" /\ quote' = [quote EXCEPT !.state = "QUOTE_REQUESTED"]
    BY <1>4 DEF RequestQuote, ResumeRequest, CreateQuoteRequest
  <2>4. CASE quote' = quote
    BY <1>2, <2>1, <2>2, <2>4
  <2>5. CASE quote.state = "none"
    <3>1. overrun \/ \A y \in Workers : worker[y].pc \notin Attempting
      BY <2>5 DEF OneAttempt, At
    <3>2. overrun' \/ \A y \in Workers : worker'[y].pc \notin Attempting
      BY <2>1, <2>2, <3>1 DEF MovesTo, Other
    <3>3. overrun \/ proposal.status = "none"
      BY <2>5 DEF OneAttempt
    <3> QED BY <2>2, <3>2, <3>3 DEF OneAttempt, At
  <2> QED BY <2>3, <2>4, <2>5
<1>5. ASSUME NEW x \in Workers, ClaimAttempt(x) PROVE OneAttempt'
  <2>1. MovesTo(x, {"attempt"})
    BY <1>1, <1>5, AttemptMoves
  <2>2. /\ quote.state \in Claimed /\ quote.lease # "held"
        /\ UNCHANGED <<proposal, overrun>>
    BY <1>5 DEF ClaimAttempt, Claimable
  <2>3. /\ quote'.state = "QUOTE_REQUESTED" /\ quote'.lease = "held"
    BY <1>5 DEF ClaimAttempt, StoredTypes, QuoteRequest
  <2>4. \/ overrun
        \/ (\A y \in Workers : worker[y].pc \notin Attempting) /\ proposal.status = "none"
    BY <2>2 DEF OneAttempt, At, Attempting
  <2>5. overrun \/ \A y \in Workers : worker'[y].pc \in Attempting => y = x
    BY <2>1, <2>4 DEF MovesTo
  <2> QED BY <2>1, <2>2, <2>3, <2>4, <2>5 DEF OneAttempt, At, MovesTo, Attempting
<1>6. ASSUME NEW x \in Workers,
             NotClaimed(x) \/ ExpireRequest(x) \/ ProposalCreated(x) \/ TellFailure(x)
      PROVE  OneAttempt'
  <2>1. \/ quote'.state = quote.state /\ quote'.lease = quote.lease
        \/ quote'.state \in {"EXPIRED", "PROPOSAL_CREATED"}
    BY <1>6 DEF NotClaimed, ExpireRequest, ProposalCreated, TellFailure, StoredTypes,
                QuoteRequest
  <2>2. UNCHANGED <<proposal, overrun>>
    BY <1>6 DEF NotClaimed, ExpireRequest, ProposalCreated, TellFailure
  <2>3. \E points \in SUBSET Other : MovesTo(x, points)
    BY <1>6, <1>p, AttemptMoves
  <2> QED BY <1>2, <1>s, <2>1, <2>2, <2>3
\* A worker that attempts is alone, and nobody else has a proposal for it.
<1>7. ASSUME NEW x \in Workers, worker[x].pc \in Attempting, ~overrun
      PROVE  /\ \A y \in Workers : worker[y].pc \in Attempting => y = x
             /\ worker[x].pc # "attempt" => quote.state \notin Claimed
             /\ worker[x].pc \in {"attempt", "received"} => proposal.status = "none"
             /\ quote.state # "none"
  BY <1>7 DEF OneAttempt, At
<1>8. ASSUME NEW x \in Workers, ReceiveQuote(x) \/ ValidateQuote(x) PROVE OneAttempt'
  <2>1. /\ worker[x].pc \in Attempting /\ UNCHANGED <<proposal, overrun>>
        /\ (worker[x].pc = "attempt" /\ MovesTo(x, {"received"}))
              \/ MovesTo(x, {"validated"})
    BY <1>8, AttemptMoves DEF ReceiveQuote, ValidateQuote, At, Attempting
  <2>2. quote'.state \in {"QUOTE_RECEIVED", "QUOTE_VALIDATED"}
    BY <1>8 DEF ReceiveQuote, ValidateQuote, StoredTypes, QuoteRequest
  <2>3. quote'.state \notin Claimed \cup {"none"}
    BY <1>s, <2>2
  <2> QED BY <1>7, <2>1, <2>3 DEF OneAttempt, At, MovesTo, Attempting
<1>9. ASSUME NEW x \in Workers, Propose(x) PROVE OneAttempt'
  <2>1. /\ worker[x].pc = "received" /\ UNCHANGED <<quote, overrun>>
        /\ MovesTo(x, {"proposed"})
    BY <1>1, <1>9, AttemptMoves DEF Propose, At
  <2> QED BY <1>7, <2>1 DEF OneAttempt, At, MovesTo, Attempting
<1>10. ASSUME NEW x \in Workers, RefuseAttempt(x) PROVE OneAttempt'
  <2>1. /\ worker[x].pc \in {"attempt", "received"} /\ UNCHANGED <<proposal, overrun>>
        /\ MovesTo(x, {"idle", "tell"})
    BY <1>10, AttemptMoves DEF RefuseAttempt, At
  <2> QED BY <1>7, <2>1 DEF OneAttempt, At, MovesTo, Attempting
<1>11. ASSUME NEW x \in Workers,
              ClaimPublication(x) \/ ReadProposal(x) \/ StaleProposal(x) \/ SendProposal(x)
                \/ SendContext(x) \/ ResetRequest(x) \/ FinishRequest(x) \/ CloseRequest(x)
       PROVE  OneAttempt'
  <2>1. \/ quote'.state = quote.state /\ quote'.lease = quote.lease
        \/ quote'.state \in {"PROPOSAL_PUBLISHING", "PROPOSAL_CREATED", "PROPOSAL_PUBLISHED"}
    BY <1>11 DEF ClaimPublication, ReadProposal, StaleProposal, SendProposal, SendContext,
                 ResetRequest, FinishRequest, CloseRequest, StoredTypes, QuoteRequest
  <2>2. UNCHANGED <<proposal, overrun>>
    BY <1>11 DEF ClaimPublication, ReadProposal, StaleProposal, SendProposal, SendContext,
                 ResetRequest, FinishRequest, CloseRequest
  <2>3. \E points \in SUBSET Other : MovesTo(x, points)
    BY <1>11, <1>p, PublicationMoves
  <2> QED BY <1>2, <1>s, <2>1, <2>2, <2>3
<1>12. ASSUME NEW x \in Workers,
              IntendSend(x) \/ Withhold(x) \/ Attach(x) \/ Reconcile(x)
                \/ SendFails(x) \/ PublicationRaises(x) \/ AttachRaises(x) \/ QuoteCrash(x)
       PROVE  OneAttempt'
  <2>1. UNCHANGED <<quote, overrun>>
    BY <1>12 DEF IntendSend, Withhold, Attach, Reconcile, SendFails, PublicationRaises,
                 AttachRaises, QuoteCrash
  <2>2. proposal'.status = proposal.status
    BY <1>12 DEF IntendSend, Withhold, Attach, Reconcile, SendFails, PublicationRaises,
                 AttachRaises, QuoteCrash, WriteProposal, StoredTypes, Signal
  <2>3. \E points \in SUBSET Other : MovesTo(x, points)
    BY <1>12, <1>p, PublicationMoves
  <2> QED BY <1>2, <2>1, <2>2, <2>3
<1>13. CASE LeaseRunsOut
  <2>1. /\ worker' = worker /\ proposal' = proposal
        /\ overrun' = (overrun \/ \E x \in Workers : At(x, Attempting))
    BY <1>13 DEF LeaseRunsOut
  <2>2. quote'.state = quote.state
    BY <1>13 DEF LeaseRunsOut, StoredTypes, QuoteRequest
  <2> QED BY <2>1, <2>2 DEF OneAttempt, At
<1>14. CASE RetryDue \/ ClaimAges \/ DeadlinePasses \/ ProposalDecided \/ UNCHANGED quoteVars
  <2>1. /\ quote'.state = quote.state /\ quote'.lease = quote.lease /\ overrun' = overrun
        /\ proposal'.status = proposal.status
             \/ (proposal.status # "none" /\ proposal'.status # "none")
    BY <1>14 DEF RetryDue, ClaimAges, DeadlinePasses, ProposalDecided, quoteVars, StoredTypes,
                 QuoteRequest, Signal
  <2>2. OnlyStales
    BY <1>14, OthersMove DEF QuoteClock
  <2> QED BY <2>1, <2>2, AttemptFrame
<1> QED BY <1>3, <1>4, <1>5, <1>6, <1>8, <1>9, <1>10, <1>11, <1>12, <1>13, <1>14
        DEF QuoteNext, WorkerProceeds, QuoteClock

\* What has expired stays so, and an overrun is not forgotten.
LEMMA HistoryStays ==
  ASSUME [QuoteNext]_quoteVars
  PROVE  (expired => expired') /\ (overrun => overrun')
<1>1. ASSUME NEW x \in Workers, WorkerProceeds(x) PROVE UNCHANGED <<expired, overrun>>
  BY <1>1
     DEF WorkerProceeds, AnalysisFails, Look, LookAtOwn, Analyse, RequestQuote, ResumeRequest,
         AwaitQuote, ClaimAttempt, NotClaimed, ExpireRequest, ReceiveQuote, Propose,
         ValidateQuote, ProposalCreated, RefuseAttempt, TellFailure, ClaimPublication,
         ReadProposal, IntendSend, Withhold, StaleProposal, SendProposal, Attach, Reconcile,
         SendContext, ResetRequest, FinishRequest, CloseRequest
<1>2. ASSUME NEW x \in Workers,
             Deliver(x) \/ AnalysisFails(x) \/ SendFails(x) \/ PublicationRaises(x)
               \/ AttachRaises(x) \/ QuoteCrash(x)
      PROVE  UNCHANGED <<expired, overrun>>
  BY <1>2 DEF Deliver, AnalysisFails, SendFails, PublicationRaises, AttachRaises, QuoteCrash
<1>3. CASE LeaseRunsOut
  BY <1>3 DEF LeaseRunsOut
<1>4. CASE RetryDue \/ ClaimAges \/ DeadlinePasses \/ ProposalDecided \/ UNCHANGED quoteVars
  BY <1>4 DEF RetryDue, ClaimAges, DeadlinePasses, ProposalDecided, quoteVars
<1> QED BY <1>1, <1>2, <1>3, <1>4 DEF QuoteNext, QuoteClock

\* A signal that was never sent, and cannot be any more, never is.
LEMMA NeverSentStep ==
  ASSUME StoredTypes, WorkersTyped, IntentFirst, OneAttempt, [QuoteNext]_quoteVars,
         ~overrun, NeverSent
  PROVE  NeverSent'
<1>1. expired \in BOOLEAN /\ quote.tries \in Nat /\ proposal.message \in BOOLEAN
  BY QuoteNumbers DEF StoredTypes, QuoteRequest, Signal
<1>2. expired => expired'
  BY HistoryStays
\* Nobody is about to send.
<1>3. \A x \in Workers : worker[x].pc \notin Sending
  BY DEF NeverSent, IntentFirst, At, Sending, Intended
<1>4. \A x \in Workers : ~IntendSend(x) /\ ~Attach(x) /\ ~Reconcile(x)
  <2> SUFFICES ASSUME NEW x \in Workers PROVE ~IntendSend(x) /\ ~Attach(x) /\ ~Reconcile(x)
    OBVIOUS
  <2>1. ~Attach(x) /\ ~Reconcile(x)
    BY <1>3 DEF Attach, Reconcile, At, Sending
  <2>2. ~IntendSend(x)
    BY DEF IntendSend, NeverSent
  <2> QED BY <2>1, <2>2
<1>5. proposal'.publish \notin Intended
  <2>1. proposal.publish \notin Intended
    BY DEF NeverSent
  <2>2. ASSUME NEW x \in Workers, WorkerProceeds(x)
        PROVE  proposal'.publish \in {proposal.publish, "context_only"}
    BY <1>4, <2>2
       DEF WorkerProceeds, AnalysisFails, Look, LookAtOwn, Analyse, RequestQuote, ResumeRequest,
           AwaitQuote, ClaimAttempt, NotClaimed, ExpireRequest, ReceiveQuote, Propose,
           ValidateQuote, ProposalCreated, RefuseAttempt, TellFailure, ClaimPublication,
           ReadProposal, Withhold, StaleProposal, SendProposal, SendContext, ResetRequest,
           FinishRequest, CloseRequest, WriteProposal, StoredTypes, Signal
  <2>3. ASSUME NEW x \in Workers,
               Deliver(x) \/ AnalysisFails(x) \/ SendFails(x) \/ PublicationRaises(x)
                 \/ AttachRaises(x) \/ QuoteCrash(x)
        PROVE  proposal' = proposal
    BY <2>3 DEF Deliver, AnalysisFails, SendFails, PublicationRaises, AttachRaises, QuoteCrash
  <2>4. CASE QuoteClock \/ ProposalDecided \/ UNCHANGED quoteVars
    BY <2>1, <2>4
       DEF QuoteClock, LeaseRunsOut, RetryDue, ClaimAges, DeadlinePasses, ProposalDecided,
           quoteVars, StoredTypes, Signal
  <2> QED BY <2>1, <2>2, <2>3, <2>4 DEF QuoteNext, Intended
<1> DEFINE Over == /\ proposal.status = "none" /\ quote.state \notin Claimed \cup {"none"}
                   /\ \A x \in Workers : worker[x].pc \notin Attempting
<1>6. ASSUME Over PROVE Over'
  <2>s. {"QUOTE_RECEIVED", "QUOTE_VALIDATED", "PROPOSAL_CREATED", "EXPIRED",
         "PROPOSAL_PUBLISHING", "PROPOSAL_PUBLISHED"} \cap (Claimed \cup {"none"}) = {}
    BY DEF Claimed
  <2>0. \A x \in Workers : ~ClaimAttempt(x) /\ ~RefuseAttempt(x) /\ ~ReceiveQuote(x)
                             /\ ~Propose(x) /\ ~ValidateQuote(x) /\ ~ProposalCreated(x)
    BY <1>6 DEF ClaimAttempt, Claimable, RefuseAttempt, ReceiveQuote, Propose, ValidateQuote,
                ProposalCreated, At, Attempting
  <2>1. ASSUME NEW x \in Workers, NEW points \in SUBSET (Points \ Attempting),
               MovesTo(x, points)
        PROVE  \A y \in Workers : worker'[y].pc \notin Attempting
    BY <1>6, <2>1 DEF MovesTo
  <2>2. ASSUME NEW x \in Workers,
               Look(x) \/ LookAtOwn(x) \/ Deliver(x) \/ Analyse(x) \/ AnalysisFails(x)
                 \/ RequestQuote(x) \/ ResumeRequest(x) \/ AwaitQuote(x)
        PROVE  Over'
    <3>1. quote' = quote /\ proposal' = proposal
      BY <1>6, <2>2
         DEF Look, LookAtOwn, Deliver, Analyse, AnalysisFails, RequestQuote, ResumeRequest,
             AwaitQuote, CreateQuoteRequest
    <3>2. worker'[x].pc \notin Attempting
      BY <1>1, <2>2, HandlerMoves DEF MovesTo, Attempting
    <3>3. \A y \in Workers : y # x => worker'[y].pc = worker[y].pc
      BY <1>1, <2>2, HandlerMoves DEF MovesTo
    <3> QED BY <1>6, <3>1, <3>2, <3>3
  <2>3. ASSUME NEW x \in Workers, NotClaimed(x) \/ ExpireRequest(x) \/ TellFailure(x)
        PROVE  Over'
    <3>1. quote'.state \in {quote.state, "EXPIRED"} /\ proposal' = proposal
      BY <2>3 DEF NotClaimed, ExpireRequest, TellFailure, StoredTypes, QuoteRequest
    <3>2. /\ worker'[x].pc \notin Attempting
          /\ \A y \in Workers : y # x => worker'[y].pc = worker[y].pc
      BY <2>3, AttemptMoves DEF MovesTo, Attempting
    <3> QED BY <1>6, <2>s, <3>1, <3>2
  <2>4. ASSUME NEW x \in Workers,
               ClaimPublication(x) \/ ReadProposal(x) \/ Withhold(x) \/ StaleProposal(x)
                 \/ SendProposal(x) \/ SendContext(x) \/ ResetRequest(x) \/ FinishRequest(x)
                 \/ CloseRequest(x) \/ SendFails(x) \/ PublicationRaises(x)
                 \/ AttachRaises(x) \/ QuoteCrash(x)
        PROVE  Over'
    <3>1. quote'.state \in {quote.state, "PROPOSAL_PUBLISHING", "PROPOSAL_CREATED",
                            "PROPOSAL_PUBLISHED"}
      BY <2>4 DEF ClaimPublication, ReadProposal, Withhold, StaleProposal, SendProposal,
                  SendContext, ResetRequest, FinishRequest, CloseRequest, SendFails,
                  PublicationRaises, AttachRaises, QuoteCrash, StoredTypes, QuoteRequest
    <3>2. proposal'.status = proposal.status
      BY <2>4 DEF ClaimPublication, ReadProposal, Withhold, StaleProposal, SendProposal,
                  SendContext, ResetRequest, FinishRequest, CloseRequest, SendFails,
                  PublicationRaises, AttachRaises, QuoteCrash, WriteProposal, StoredTypes, Signal
    <3>3. /\ worker'[x].pc \notin Attempting
          /\ \A y \in Workers : y # x => worker'[y].pc = worker[y].pc
      BY <2>4, PublicationMoves DEF MovesTo, Attempting
    <3> QED BY <1>6, <2>s, <3>1, <3>2, <3>3
  <2>5. CASE QuoteClock \/ ProposalDecided \/ UNCHANGED quoteVars
    <3>1. quote'.state = quote.state /\ proposal'.status = proposal.status
      BY <1>6, <2>5
         DEF QuoteClock, LeaseRunsOut, RetryDue, ClaimAges, DeadlinePasses, ProposalDecided,
             quoteVars, StoredTypes, Signal, QuoteRequest
    <3>2. \A y \in Workers : worker'[y].pc = worker[y].pc
      BY <2>5, OthersMove DEF OnlyStales
    <3> QED BY <1>6, <3>1, <3>2
  <2> HIDE DEF Over
  <2> QED BY <1>4, <2>0, <2>2, <2>3, <2>4, <2>5 DEF QuoteNext, WorkerProceeds
<1>7. expired \/ Over
  BY DEF NeverSent, At
<1> QED BY <1>2, <1>5, <1>6, <1>7 DEF NeverSent, At

\* A step that refuses nothing keeps RefusedForGood.
LEMMA RefusedFrame ==
  ASSUME RefusedForGood, overrun => overrun', expired => expired',
         overrun \/ (NeverSent => NeverSent'),
         \/ overrun' \/ NeverSent'
         \/ /\ "no_quote" \in told' => "no_quote" \in told
            /\ quote'.state \in {"FAILED", "EXPIRED"} => quote.state \in {"FAILED", "EXPIRED"},
         OnlyStales \/ \E x \in Workers, points \in SUBSET Points :
           /\ MovesTo(x, points)
           /\ worker'[x].pc \in {"tell", "unclaimed"} => overrun' \/ NeverSent'
           /\ worker'[x].pc = "unclaimed" => overrun' \/ expired'
  PROVE  RefusedForGood'
<1>1. \A y \in Workers : worker'[y].late => expired'
  BY DEF RefusedForGood, OnlyStales, MovesTo
<1>2. CASE overrun'
  BY <1>1, <1>2 DEF RefusedForGood
<1>3. CASE ~overrun'
  <2>1. ~overrun /\ (NeverSent => NeverSent')
    BY <1>3
  <2>2. "no_quote" \in told' \/ quote'.state \in {"FAILED", "EXPIRED"} => NeverSent'
    BY <1>3, <2>1 DEF RefusedForGood
  <2>3. \A y \in Workers : /\ worker'[y].pc \in {"tell", "unclaimed"} => NeverSent'
                           /\ worker'[y].pc = "unclaimed" => expired'
    <3> HIDE DEF NeverSent
    <3>1. \A y \in Workers : /\ worker[y].pc \in {"tell", "unclaimed"} => NeverSent
                             /\ worker[y].pc = "unclaimed" => expired
      BY <2>1 DEF RefusedForGood, At
    <3> QED BY <1>3, <2>1, <3>1 DEF OnlyStales, MovesTo
  <2> QED BY <1>1, <2>2, <2>3 DEF RefusedForGood, At
<1> QED BY <1>2, <1>3

\* A user is told that there is no proposal only of a signal that was never
\* sent and cannot be.
LEMMA RefusedStep ==
  ASSUME StoredTypes, WorkersTyped, IntentFirst, OneAttempt, RefusedForGood,
         [QuoteNext]_quoteVars
  PROVE  RefusedForGood'
<1>1. expired \in BOOLEAN /\ quote.tries \in Nat /\ proposal.message \in BOOLEAN
  BY QuoteNumbers DEF StoredTypes, QuoteRequest, Signal
<1>2. (overrun => overrun') /\ (expired => expired')
  BY HistoryStays
<1>3. overrun \/ (NeverSent => NeverSent')
  BY NeverSentStep
<1> DEFINE Plain == Points \ {"tell", "unclaimed"}
<1>p. /\ {"idle", "finish", "publish", "claim"} \subseteq Plain
      /\ {"idle", "analyse", "read", "close", "resume"} \subseteq Plain
      /\ {"idle", "request"} \subseteq Plain /\ {"idle"} \subseteq Plain
      /\ {"await"} \subseteq Plain /\ {"idle", "rejoin", "read"} \subseteq Plain
      /\ {"close"} \subseteq Plain /\ {"attempt"} \subseteq Plain
      /\ {"received"} \subseteq Plain /\ {"proposed"} \subseteq Plain
      /\ {"validated"} \subseteq Plain /\ {"finish", "publish"} \subseteq Plain
      /\ {"idle", "read"} \subseteq Plain
      /\ {"idle", "finish", "reset", "gates"} \subseteq Plain
      /\ {"idle", "send"} \subseteq Plain /\ {"idle", "context"} \subseteq Plain
      /\ {"idle", "reset"} \subseteq Plain /\ {"attach"} \subseteq Plain
      /\ {"idle", "finish", "reconcile"} \subseteq Plain
      /\ {"idle", "finish"} \subseteq Plain /\ {"reconcile"} \subseteq Plain
  BY DEF Points, Attempting
<1>4. ASSUME NEW x \in Workers, NEW points \in SUBSET Plain, MovesTo(x, points),
             "no_quote" \in told' => "no_quote" \in told,
             quote'.state \in {"FAILED", "EXPIRED"} => quote.state \in {"FAILED", "EXPIRED"}
      PROVE  RefusedForGood'
  BY <1>2, <1>3, <1>4, RefusedFrame DEF MovesTo
<1> HIDE DEF Plain
<1>5. ASSUME NEW x \in Workers,
             Look(x) \/ LookAtOwn(x) \/ Deliver(x) \/ Analyse(x) \/ AnalysisFails(x)
               \/ RequestQuote(x) \/ ResumeRequest(x) \/ AwaitQuote(x)
      PROVE  RefusedForGood'
  <2>1. "no_quote" \in told' => "no_quote" \in told
    BY <1>5 DEF Look, LookAtOwn, Deliver, Analyse, AnalysisFails, RequestQuote, ResumeRequest,
                AwaitQuote
  <2>2. quote'.state \in {quote.state, "QUOTE_REQUESTED"}
    BY <1>5 DEF Look, LookAtOwn, Deliver, Analyse, AnalysisFails, RequestQuote, ResumeRequest,
                AwaitQuote, CreateQuoteRequest, StoredTypes, QuoteRequest
  <2>3. \E points \in SUBSET Plain : MovesTo(x, points)
    BY <1>1, <1>5, <1>p, HandlerMoves
  <2> QED BY <1>4, <2>1, <2>2, <2>3
<1>6. ASSUME NEW x \in Workers,
             ClaimAttempt(x) \/ ReceiveQuote(x) \/ Propose(x) \/ ValidateQuote(x)
               \/ ProposalCreated(x)
      PROVE  RefusedForGood'
  <2>1. told' = told
    BY <1>6 DEF ClaimAttempt, ReceiveQuote, Propose, ValidateQuote, ProposalCreated
  <2>2. quote'.state \in {quote.state, "QUOTE_REQUESTED", "QUOTE_RECEIVED",
                          "QUOTE_VALIDATED", "PROPOSAL_CREATED"}
    BY <1>6 DEF ClaimAttempt, ReceiveQuote, Propose, ValidateQuote, ProposalCreated,
                StoredTypes, QuoteRequest
  <2>3. \E points \in SUBSET Plain : MovesTo(x, points)
    BY <1>1, <1>6, <1>p, AttemptMoves
  <2> QED BY <1>4, <2>1, <2>2, <2>3
<1>7. ASSUME NEW x \in Workers,
             ClaimPublication(x) \/ ReadProposal(x) \/ IntendSend(x) \/ Withhold(x)
               \/ StaleProposal(x) \/ SendProposal(x) \/ Attach(x) \/ Reconcile(x)
      PROVE  RefusedForGood'
  <2>1. told' = told
    BY <1>7 DEF ClaimPublication, ReadProposal, IntendSend, Withhold, StaleProposal,
                SendProposal, Attach, Reconcile
  <2>2. quote'.state \in {quote.state, "PROPOSAL_PUBLISHING"}
    BY <1>7 DEF ClaimPublication, ReadProposal, IntendSend, Withhold, StaleProposal,
                SendProposal, Attach, Reconcile, StoredTypes, QuoteRequest
  <2>3. \E points \in SUBSET Plain : MovesTo(x, points)
    BY <1>7, <1>p, PublicationMoves
  <2> QED BY <1>4, <2>1, <2>2, <2>3
<1>8. ASSUME NEW x \in Workers,
             SendContext(x) \/ ResetRequest(x) \/ FinishRequest(x) \/ CloseRequest(x)
               \/ SendFails(x) \/ PublicationRaises(x) \/ AttachRaises(x) \/ QuoteCrash(x)
      PROVE  RefusedForGood'
  <2>1. told' = told
    BY <1>8 DEF SendContext, ResetRequest, FinishRequest, CloseRequest, SendFails,
                PublicationRaises, AttachRaises, QuoteCrash
  <2>2. quote'.state \in {quote.state, "PROPOSAL_CREATED", "PROPOSAL_PUBLISHED"}
    BY <1>8 DEF SendContext, ResetRequest, FinishRequest, CloseRequest, SendFails,
                PublicationRaises, AttachRaises, QuoteCrash, StoredTypes, QuoteRequest
  <2>3. \E points \in SUBSET Plain : MovesTo(x, points)
    BY <1>8, <1>p, PublicationMoves
  <2> QED BY <1>4, <2>1, <2>2, <2>3
<1>t. {"idle", "unclaimed", "tell"} \subseteq Points
  BY DEF Points
<1>9. ASSUME NEW x \in Workers, NotClaimed(x) PROVE RefusedForGood'
  <2>1. /\ MovesTo(x, {"idle", "unclaimed", "tell"})
        /\ worker'[x].pc = "unclaimed" => quote.state \in Claimed /\ worker[x].late
        /\ worker'[x].pc = "tell" => quote.state \in {"FAILED", "EXPIRED"}
    <3>1. \/ Go(x, "unclaimed") /\ quote.state \in Claimed /\ worker[x].late
          \/ Enter(x, "tell") /\ quote.state \in {"FAILED", "EXPIRED"}
          \/ Leave(x)
      BY <1>9 DEF NotClaimed
    <3> QED BY <1>t, <3>1, SimpleMoves DEF MovesTo
  <2>2. told' = told /\ quote' = quote
    BY <1>9 DEF NotClaimed
  <2>3. ASSUME quote.state \in Claimed, worker[x].late
        PROVE  expired /\ (overrun \/ NeverSent)
    BY <2>3 DEF RefusedForGood, OneAttempt, IntentFirst, NeverSent
  <2>4. ASSUME quote.state \in {"FAILED", "EXPIRED"} PROVE overrun \/ NeverSent
    BY <2>4 DEF RefusedForGood
  <2>5. /\ worker'[x].pc \in {"tell", "unclaimed"} => overrun' \/ NeverSent'
        /\ worker'[x].pc = "unclaimed" => overrun' \/ expired'
    <3> HIDE DEF NeverSent
    <3> QED BY <1>2, <1>3, <2>1, <2>3, <2>4
  <2> QED BY <1>2, <1>3, <1>t, <2>1, <2>2, <2>5, RefusedFrame
<1>10. ASSUME NEW x \in Workers, ExpireRequest(x) \/ TellFailure(x) PROVE RefusedForGood'
  <2>1. worker[x].pc \in {"unclaimed", "tell"}
    BY <1>10 DEF ExpireRequest, TellFailure, At
  <2>2. overrun \/ NeverSent
    BY <2>1 DEF RefusedForGood, At
  <2>3. overrun' \/ NeverSent'
    BY <1>2, <1>3, <2>2
  <2>4. MovesTo(x, {"idle", "unclaimed", "tell"}) /\ worker'[x].pc # "unclaimed"
    BY <1>10, AttemptMoves DEF MovesTo
  <2> QED BY <1>2, <1>3, <1>t, <2>3, <2>4, RefusedFrame
<1>11. ASSUME NEW x \in Workers, RefuseAttempt(x) PROVE RefusedForGood'
  <2>1. /\ worker[x].pc \in {"attempt", "received"} /\ told' = told /\ proposal' = proposal
        /\ overrun' = overrun
    BY <1>11 DEF RefuseAttempt, At
  <2>2. \/ quote'.state = "FAILED" /\ MovesTo(x, {"tell"})
        \/ quote'.state = "WAITING_FOR_QUOTE" /\ MovesTo(x, {"idle"})
    BY <1>11, <1>t, SimpleMoves DEF RefuseAttempt, StoredTypes, QuoteRequest
  <2>3. CASE quote'.state = "WAITING_FOR_QUOTE" /\ MovesTo(x, {"idle"})
    BY <1>4, <1>p, <2>1, <2>3
  <2>4. CASE quote'.state = "FAILED" /\ MovesTo(x, {"tell"})
    <3>1. overrun \/ /\ proposal.status = "none"
                     /\ \A y \in Workers : worker[y].pc \in Attempting => y = x
      BY <2>1 DEF OneAttempt, At, Attempting
    <3>2. overrun \/ \A y \in Workers : worker'[y].pc \notin Attempting
      BY <2>4, <3>1 DEF MovesTo, Attempting
    <3>3. overrun' \/ NeverSent'
      BY <2>1, <2>4, <3>1, <3>2 DEF NeverSent, IntentFirst, At, Claimed
    <3> QED BY <1>2, <1>3, <1>t, <2>1, <2>4, <3>3, RefusedFrame DEF MovesTo
  <2> QED BY <2>2, <2>3, <2>4
<1>12. CASE QuoteClock \/ ProposalDecided \/ UNCHANGED quoteVars
  <2>1. told' = told /\ quote'.state = quote.state
    BY <1>12 DEF QuoteClock, LeaseRunsOut, RetryDue, ClaimAges, DeadlinePasses,
                 ProposalDecided, quoteVars, StoredTypes, QuoteRequest
  <2> QED BY <1>2, <1>3, <1>12, <2>1, OthersMove, RefusedFrame
<1> QED BY <1>5, <1>6, <1>7, <1>8, <1>9, <1>10, <1>11, <1>12 DEF QuoteNext, WorkerProceeds

\* What a quote request starts with.
LEMMA QuoteStart == QuoteInit => QuoteInv
<1> SUFFICES ASSUME QuoteInit PROVE QuoteInv
  OBVIOUS
<1>1. StoredTypes
  BY QuoteNumbers
     DEF QuoteInit, StoredTypes, Chat, QuoteRequest, Signal, QuoteStates
<1>2. WorkersTyped
  BY QuoteNumbers DEF QuoteInit, WorkersTyped, WorkerState, Points
<1>3. IntentFirst /\ ShownFirst
  BY DEF QuoteInit, IntentFirst, ShownFirst, PublishedWasShown, At, Intended
<1>4. OneAttempt /\ RefusedForGood
  BY DEF QuoteInit, OneAttempt, RefusedForGood, At, Attempting
<1> QED BY <1>1, <1>2, <1>3, <1>4, QuoteTypeParts DEF QuoteInv

\* The invariant of a quote request.
LEMMA QuoteAlways == QuoteSpec => []QuoteInv
<1>1. QuoteInv /\ [QuoteNext]_quoteVars => QuoteInv'
  <2> SUFFICES ASSUME QuoteInv, [QuoteNext]_quoteVars PROVE QuoteInv'
    OBVIOUS
  <2>1. StoredTypes /\ WorkersTyped
    BY QuoteTypeParts DEF QuoteInv
  <2>2. StoredTypes' /\ WorkersTyped'
    BY <2>1, StoredStep, WorkersStep
  <2>3. QuoteTypeOK'
    BY <2>2 DEF QuoteTypeOK, StoredTypes, WorkersTyped, Chat, QuoteRequest, Signal, WorkerState
  <2>4. IntentFirst' /\ ShownFirst' /\ OneAttempt' /\ RefusedForGood'
    BY <2>1, IntentStep, ShownStep, AttemptStep, RefusedStep DEF QuoteInv
  <2> QED BY <2>3, <2>4 DEF QuoteInv
<1> QED BY <1>1, QuoteStart, PTL DEF QuoteSpec

\* Telegram shows one approval message of a proposal at most, and a request
\* counts as published only once its proposal was shown, whatever overlaps,
\* ages, fails or crashes: publish_proposal stores that it will send over the
\* version it has read.
THEOREM OneMessage == QuoteSpec => [](OneApprovalMessage /\ PublishedWasShown)
<1>1. QuoteInv => OneApprovalMessage /\ PublishedWasShown
  BY DEF QuoteInv, IntentFirst, ShownFirst, OneApprovalMessage
<1> QED BY <1>1, QuoteAlways, PTL

\* The user who was told that there is no proposal gets none, and two workers
\* attempt a request together only after a lease ran out on one at work
\* (claim_quote_attempt and the expiry in process_quote_request).
THEOREM RefusalsStand == QuoteSpec => [](RefusalIsFinal /\ AttemptsAreLeased)
<1>1. QuoteInv => RefusalIsFinal
  BY DEF QuoteInv, RefusedForGood, NeverSent, IntentFirst, RefusalIsFinal, QuoteTypeOK
<1>2. QuoteInv => AttemptsAreLeased
  <2> SUFFICES ASSUME QuoteInv, ~overrun
               PROVE  ~(Cardinality({x \in Workers : At(x, Attempting)}) > 1)
    BY DEF AttemptsAreLeased
  <2> DEFINE Busy == {x \in Workers : At(x, Attempting)}
  <2>1. \A x, y \in Busy : x = y
    BY DEF QuoteInv, OneAttempt
  <2>2. CASE Busy = {}
    BY <2>2, FS_EmptySet
  <2>3. CASE Busy # {}
    <3>1. PICK x \in Busy : TRUE
      BY <2>3
    <3>2. Busy = {x}
      BY <2>1, <3>1
    <3> HIDE DEF Busy
    <3>3. Cardinality(Busy) = 1
      BY <3>2, FS_Singleton
    <3> QED BY <3>3 DEF Busy
  <2> QED BY <2>2, <2>3
<1> QED BY <1>1, <1>2, QuoteAlways, PTL

-----------------------------------------------------------------------------
(* The order of candidates. *)

(* A relation that puts the elements of a set in a row.                      *)
Orders(S, before) ==
  /\ \A a \in S : <<a, a>> \notin before
  /\ \A a, b, c \in S : <<a, b>> \in before /\ <<b, c>> \in before => <<a, c>> \in before
  /\ \A a, b \in S : a # b => <<a, b>> \in before \/ <<b, a>> \in before

(* Sorted puts the elements of a finite set in that row.                     *)
LEMMA SortedRight ==
  ASSUME NEW S, IsFiniteSet(S), NEW before, Orders(S, before)
  PROVE  /\ Cardinality(S) \in Nat
         /\ Sorted(S, before) \in [1..Cardinality(S) -> S]
         /\ \A c \in S : \E i \in 1..Cardinality(S) : Sorted(S, before)[i] = c
         /\ \A i, j \in 1..Cardinality(S) :
              i < j => <<Sorted(S, before)[i], Sorted(S, before)[j]>> \in before
<1> DEFINE n == Cardinality(S)
           below(c) == {d \in S : <<d, c>> \in before}
           rank == [c \in S |-> Cardinality(below(c))]
           q == Sorted(S, before)
<1>1. n \in Nat BY FS_CardinalityType
<1>2. ASSUME NEW c \in S PROVE IsFiniteSet(below(c)) /\ rank[c] \in Nat /\ rank[c] <= n - 1
  <2>1. IsFiniteSet(S \ {c}) /\ Cardinality(S \ {c}) = n - 1 BY FS_RemoveElement
  <2>2. below(c) \in SUBSET (S \ {c}) BY DEF Orders
  <2>3. IsFiniteSet(below(c)) /\ Cardinality(below(c)) <= n - 1
    <3> DEFINE A == below(c)
               B == S \ {c}
    <3>1. IsFiniteSet(B) /\ A \in SUBSET B BY <2>1, <2>2
    <3>2. Cardinality(B) = n - 1 BY <2>1
    <3> HIDE DEF A, B
    <3>3. IsFiniteSet(A) /\ Cardinality(A) <= Cardinality(B) BY <3>1, FS_Subset
    <3> QED BY <3>2, <3>3 DEF A
  <2>4. Cardinality(below(c)) \in Nat BY <2>3, FS_CardinalityType
  <2> QED BY <2>3, <2>4
<1>3. ASSUME NEW a \in S, NEW b \in S, <<a, b>> \in before PROVE rank[a] < rank[b]
  <2>1. IsFiniteSet(below(b)) /\ a \in below(b) BY <1>2, <1>3
  <2>2. IsFiniteSet(below(b) \ {a}) /\ Cardinality(below(b) \ {a}) = Cardinality(below(b)) - 1
    BY <2>1, FS_RemoveElement
  <2>3. below(a) \in SUBSET (below(b) \ {a}) BY <1>3 DEF Orders
  <2>4. Cardinality(below(a)) <= Cardinality(below(b)) - 1
    <3> DEFINE A == below(a)
               B == below(b) \ {a}
    <3> HIDE DEF A, B
    <3>1. IsFiniteSet(B) /\ A \in SUBSET B BY <2>2, <2>3 DEF A, B
    <3>2. Cardinality(A) <= Cardinality(B) BY <3>1, FS_Subset
    <3> QED BY <2>2, <3>2 DEF A, B
  <2>5. rank[a] \in Nat /\ rank[b] \in Nat BY <1>2
  <2> QED BY <2>4, <2>5
<1> DEFINE ranks == 0..(n - 1)
<1>4. rank \in Injection(S, ranks)
  <2>1. rank \in [S -> ranks]
    <3>1. \A c \in S : rank[c] \in ranks BY <1>1, <1>2
    <3> QED BY <3>1
  <2>2. ASSUME NEW a \in S, NEW b \in S, rank[a] = rank[b] PROVE a = b
    <3>1. rank[a] \in Nat /\ rank[b] \in Nat BY <1>2
    <3>2. CASE a # b
      <4>1. <<a, b>> \in before \/ <<b, a>> \in before BY <3>2 DEF Orders
      <4>2. rank[a] < rank[b] \/ rank[b] < rank[a] BY <1>3, <4>1
      <4> HIDE DEF rank
      <4> QED BY <2>2, <3>1, <4>2
    <3> QED BY <3>2
  <2> HIDE DEF rank
  <2> QED BY <2>1, <2>2 DEF Injection, IsInjective
<1>5. IsFiniteSet(ranks) /\ Cardinality(ranks) = n
  <2>1. 0 \in Int /\ n - 1 \in Int BY <1>1
  <2>2. IsFiniteSet(ranks) /\ Cardinality(ranks) = IF 0 > n - 1 THEN 0 ELSE (n - 1) - 0 + 1
    BY <2>1, FS_Interval
  <2> QED BY <1>1, <2>2
<1>6. \A r \in ranks : \E c \in S : rank[c] = r
  <2> HIDE DEF rank, ranks
  <2>1. rank \in Surjection(S, ranks) BY <1>4, <1>5, FS_Injection
  <2> QED BY <2>1 DEF Surjection
<1>7. \A i \in 1..n : q[i] \in S /\ rank[q[i]] = i - 1
  <2> SUFFICES ASSUME NEW i \in 1..n PROVE q[i] \in S /\ rank[q[i]] = i - 1 OBVIOUS
  <2>1. i - 1 \in ranks BY <1>1
  <2>2. PICK c \in S : rank[c] = i - 1 BY <1>6, <2>1
  <2>3. q[i] = CHOOSE e \in S : Cardinality(below(e)) = i - 1 BY DEF Sorted
  <2>4. Cardinality(below(c)) = i - 1 BY <2>2
  <2>5. q[i] \in S /\ Cardinality(below(q[i])) = i - 1 BY <2>3, <2>4
  <2> QED BY <2>5
<1>8. q \in [1..n -> S]
  <2>1. q = [i \in 1..n |-> CHOOSE e \in S : Cardinality(below(e)) = i - 1] BY DEF Sorted
  <2> QED BY <1>7, <2>1
<1>9. ASSUME NEW c \in S PROVE \E i \in 1..n : q[i] = c
  <2>1. rank[c] \in Nat /\ rank[c] <= n - 1 BY <1>2
  <2> DEFINE i == rank[c] + 1
  <2>2. i \in 1..n /\ i - 1 = rank[c] BY <1>1, <2>1
  <2>3. q[i] \in S /\ rank[q[i]] = rank[c] BY <1>7, <2>2
  <2> HIDE DEF i, rank, q, ranks
  <2>4. q[i] = c BY <1>4, <2>3 DEF Injection, IsInjective
  <2> QED BY <2>2, <2>4
<1>10. ASSUME NEW i \in 1..n, NEW j \in 1..n, i < j PROVE <<q[i], q[j]>> \in before
  <2>1. q[i] \in S /\ q[j] \in S /\ rank[q[i]] = i - 1 /\ rank[q[j]] = j - 1 BY <1>7
  <2> HIDE DEF rank, q
  <2>2. i \in Int /\ j \in Int BY <1>1
  <2>3. q[i] # q[j] BY <1>10, <2>1, <2>2
  <2>4. <<q[i], q[j]>> \in before \/ <<q[j], q[i]>> \in before BY <2>1, <2>3 DEF Orders
  <2>5. ~(<<q[j], q[i]>> \in before)
    <3>1. ASSUME <<q[j], q[i]>> \in before PROVE FALSE
      <4>1. rank[q[j]] < rank[q[i]] BY <1>3, <2>1, <3>1
      <4> QED BY <1>10, <2>1, <2>2, <4>1
    <3> QED BY <3>1
  <2> QED BY <2>4, <2>5
<1> QED BY <1>1, <1>8, <1>9, <1>10

(* How far ahead a price is.                                                 *)
LEMMA AheadIs ==
  ASSUME NEW s \in Setup, NEW price \in Int
  PROVE  /\ s.entry \in Nat
         /\ Ahead(s, price) = IF s.side = "buy" THEN price - s.entry ELSE s.entry - price
         /\ Ahead(s, price) \in Int
BY DEF Ahead, Sign, Setup

(* Candidates of different prices are in the order of their distance.        *)
LEMMA NearerOrders ==
  ASSUME NEW s \in Setup, NEW S, S \subseteq Candidate,
         \A c, d \in S : c.price = d.price => c = d
  PROVE  Orders(S, Nearer(s))
<1>1. \A c \in S : c.price \in Int BY DEF Candidate
<1>2. \A a, b \in S : <<a, b>> \in Nearer(s) <=> Ahead(s, a.price) < Ahead(s, b.price)
  BY DEF Nearer
<1>3. \A c \in S : Ahead(s, c.price) \in Int BY <1>1, AheadIs
<1>4. ASSUME NEW a \in S, NEW b \in S, a # b
      PROVE  Ahead(s, a.price) < Ahead(s, b.price) \/ Ahead(s, b.price) < Ahead(s, a.price)
  <2>1. a.price # b.price /\ a.price \in Int /\ b.price \in Int BY <1>1, <1>4
  <2>2. Ahead(s, a.price) # Ahead(s, b.price) BY <2>1, AheadIs
  <2> QED BY <1>3, <2>2
<1>5. \A a \in S : <<a, a>> \notin Nearer(s) BY <1>2, <1>3
<1>6. ASSUME NEW a \in S, NEW b \in S, NEW c \in S, <<a, b>> \in Nearer(s), <<b, c>> \in Nearer(s)
      PROVE  <<a, c>> \in Nearer(s)
  <2>1. Ahead(s, a.price) < Ahead(s, b.price) /\ Ahead(s, b.price) < Ahead(s, c.price)
    BY <1>2, <1>6
  <2>2. Ahead(s, a.price) < Ahead(s, c.price) BY <1>3, <2>1
  <2> QED BY <1>2, <2>2
<1> QED BY <1>2, <1>4, <1>5, <1>6 DEF Orders

-----------------------------------------------------------------------------
(* Near candidates are merged. *)

(* Candidates that are no nearer to each other than a tenth of the risk.     *)
Rungs(s, M) ==
  \A i, j \in 1..Len(M) :
    i < j => 10 * (Ahead(s, M[j].price) - Ahead(s, M[i].price)) >= SetupRisk(s)

(* A candidate with another score.                                           *)
LEMMA Scored ==
  ASSUME NEW c \in Candidate, NEW v \in Int
  PROVE  [c EXCEPT !.score = v] \in Candidate /\ [c EXCEPT !.score = v].price = c.price
BY DEF Candidate

(* A candidate of a sequence, and the distance of two of them.               *)
LEMMA CandidateAt ==
  ASSUME NEW s \in Setup, NEW q \in Seq(Candidate), NEW i \in 1..Len(q)
  PROVE  q[i] \in Candidate /\ q[i].price \in Int /\ Ahead(s, q[i].price) \in Int
<1>1. q[i] \in Candidate OBVIOUS
<1>2. q[i].price \in Int BY <1>1 DEF Candidate
<1> QED BY <1>1, <1>2, AheadIs

(* The distance of two prices is by how much one is farther ahead.           *)
LEMMA GapAhead ==
  ASSUME NEW s \in Setup, NEW a \in Int, NEW b \in Int, Ahead(s, b) < Ahead(s, a)
  PROVE  Gap(a, b) = Ahead(s, a) - Ahead(s, b)
<1>1. /\ s.entry \in Int
      /\ Ahead(s, a) = IF s.side = "buy" THEN a - s.entry ELSE s.entry - a
      /\ Ahead(s, b) = IF s.side = "buy" THEN b - s.entry ELSE s.entry - b
  BY AheadIs
<1> QED BY <1>1 DEF Gap

(* A candidate is merged into the last one, whose price stays, or added.     *)
LEMMA MergeRight ==
  ASSUME NEW s \in Setup, NEW soFar \in Seq(Candidate), NEW c \in Candidate
  PROVE  LET r == Merge(s, soFar, c) IN
           /\ r \in Seq(Candidate)
           /\ \/ /\ soFar # <<>> /\ Len(r) = Len(soFar)
                 /\ \A i \in 1..Len(soFar) : r[i].price = soFar[i].price
              \/ /\ soFar = <<>> \/ 10 * Gap(c.price, soFar[Len(soFar)].price) >= SetupRisk(s)
                 /\ Len(r) = Len(soFar) + 1 /\ r[Len(soFar) + 1] = c
                 /\ \A i \in 1..Len(soFar) : r[i] = soFar[i]
<1> DEFINE n == Len(soFar)
           near == 10 * Gap(c.price, soFar[n].price) < SetupRisk(s)
           r == Merge(s, soFar, c)
<1>1. n \in Nat /\ \A i \in 1..n : soFar[i] \in Candidate OBVIOUS
<1>2. SetupRisk(s) \in Int BY DEF SetupRisk, Gap, Setup
<1>3. CASE soFar # <<>> /\ near
  <2>1. n \in 1..n BY <1>1, <1>3
  <2> DEFINE last == [soFar[n] EXCEPT !.score = Most(soFar[n].score, c.score)]
  <2>2. r = [soFar EXCEPT ![n] = last] BY <1>3 DEF Merge
  <2>3. soFar[n] \in Candidate BY <1>1, <2>1
  <2>4. last \in Candidate /\ last.price = soFar[n].price
    <3> DEFINE most == Most(soFar[n].score, c.score)
    <3>1. most \in Int BY <2>3 DEF Most, Candidate
    <3> HIDE DEF most
    <3>2. last = [soFar[n] EXCEPT !.score = most] BY DEF most
    <3> DEFINE k == soFar[n]
    <3>3. k \in Candidate /\ last = [k EXCEPT !.score = most] BY <2>3, <3>2
    <3> HIDE DEF last, k
    <3>4. last \in Candidate /\ last.price = k.price BY <3>1, <3>3, Scored
    <3> QED BY <3>4 DEF k
  <2> HIDE DEF last, n, r
  <2>5. r \in Seq(Candidate) /\ Len(r) = n /\ \A i \in 1..n : i # n => r[i] = soFar[i]
    BY <2>1, <2>2, <2>4 DEF n
  <2>6. r[n] = last BY <2>1, <2>2 DEF n
  <2>7. \A i \in 1..n : r[i].price = soFar[i].price BY <2>4, <2>5, <2>6
  <2> QED BY <1>3, <2>5, <2>7 DEF n, r
<1>4. CASE ~(soFar # <<>> /\ near)
  <2>1. r = Append(soFar, c) BY <1>4 DEF Merge
  <2>2. r \in Seq(Candidate) /\ Len(r) = n + 1 /\ r[n + 1] = c BY <2>1
  <2>3. \A i \in 1..n : r[i] = soFar[i] BY <2>1
  <2>4. soFar = <<>> \/ 10 * Gap(c.price, soFar[n].price) >= SetupRisk(s)
    <3>1. ASSUME soFar # <<>> PROVE 10 * Gap(c.price, soFar[n].price) >= SetupRisk(s)
      <4>1. n \in 1..n BY <1>1, <3>1
      <4>2. c.price \in Int /\ soFar[n].price \in Int BY <1>1, <4>1 DEF Candidate
      <4>3. Gap(c.price, soFar[n].price) \in Int BY <4>2 DEF Gap
      <4> QED BY <1>2, <1>4, <3>1, <4>3
    <3> QED BY <3>1
  <2> HIDE DEF r
  <2> QED BY <2>2, <2>3, <2>4 DEF r
<1> QED BY <1>3, <1>4

(* What is merged of the candidates so far.                                  *)
Merged(s, S) ==
  CHOOSE g : g = [n \in 0..Cardinality(S) |->
                    IF n = 0 THEN <<>> ELSE Merge(s, g[n - 1], ByDistance(s, S)[n])]

MergesInOrder(s, f, N, row) ==
  /\ f \in [0..N -> Seq(Candidate)] /\ f[0] = <<>>
  /\ \A n \in 1..N : f[n] = Merge(s, f[n - 1], row[n])

(* The merged candidates are those of a run over the row.                    *)
LEMMA MergedIs ==
  ASSUME NEW s \in Setup, NEW S \in SUBSET Candidate, Cardinality(S) \in Nat,
         ByDistance(s, S) \in [1..Cardinality(S) -> S]
  PROVE  /\ MergesInOrder(s, Merged(s, S), Cardinality(S), ByDistance(s, S))
         /\ MergeNear(s, S) = Merged(s, S)[Cardinality(S)]
<1> DEFINE N == Cardinality(S)
           row == ByDistance(s, S)
<1>0. N \in Nat /\ N = Cardinality(S) /\ row \in [1..N -> S] /\ row = ByDistance(s, S) OBVIOUS
<1> HIDE DEF N, row
<1> DEFINE D == Seq(Candidate)
           step == [n \in 1..N |-> [soFar \in D |-> Merge(s, soFar, row[n])]]
           Is(g) == g = [n \in 0..N |-> IF n = 0 THEN <<>> ELSE Merge(s, g[n - 1], row[n])]
<1>1. \A n \in 1..N : row[n] \in Candidate BY <1>0
<1>2. \A n \in 1..N, soFar \in D : Merge(s, soFar, row[n]) \in D BY <1>1, MergeRight
<1>3. step \in Steps(N, D) BY <1>2 DEF Steps
<1>4. \A n \in 1..N, soFar \in D : step[n][soFar] = Merge(s, soFar, row[n]) OBVIOUS
<1> HIDE DEF step
<1>5. <<>> \in D OBVIOUS
<1> HIDE DEF D
<1>6. Solutions(N, D, <<>>, step) # {} BY <1>0, <1>3, <1>5, RecursionHasSolution
<1>7. PICK g \in [0..N -> D] : g[0] = <<>> /\ \A n \in 1..N : g[n] = step[n][g[n - 1]]
  BY <1>6 DEF Solutions
<1>8. Is(g)
  <2>1. \A n \in 1..N : n - 1 \in 0..N /\ g[n - 1] \in D BY <1>0, <1>7
  <2>2. \A n \in 1..N : g[n] = Merge(s, g[n - 1], row[n]) BY <1>4, <1>7, <2>1
  <2>3. \A n \in 0..N : g[n] = IF n = 0 THEN <<>> ELSE Merge(s, g[n - 1], row[n])
    BY <1>7, <2>2
  <2> QED BY <1>7, <2>3
<1>9. Is(Merged(s, S)) BY <1>0, <1>8 DEF Merged
<1>10. MergeNear(s, S) = Merged(s, S)[N] BY <1>0 DEF MergeNear, Merged
<1> DEFINE f == Merged(s, S)
<1>11. f = [n \in 0..N |-> IF n = 0 THEN <<>> ELSE Merge(s, f[n - 1], row[n])] BY <1>9
<1> HIDE DEF f
<1>12. f[0] = <<>> /\ \A n \in 1..N : f[n] = Merge(s, f[n - 1], row[n]) BY <1>0, <1>11
<1>13. \A n \in 0..N : f[n] \in D
  <2> DEFINE T == {n \in 0..N : f[n] \in D}
  <2>1. 0 \in T BY <1>0, <1>5, <1>12
  <2>2. \A n \in 1..N : n - 1 \in T => n \in T BY <1>0, <1>2, <1>12
  <2> HIDE DEF T
  <2>3. 0..N \subseteq T BY <1>0, <2>1, <2>2, UpTo
  <2> QED BY <2>3 DEF T
<1>14. f \in [0..N -> D] BY <1>11, <1>13
<1> QED BY <1>10, <1>12, <1>14 DEF MergesInOrder, f, D, N, row

(* A candidate that is farther than those so far leaves them in a row.       *)
LEMMA MergeKeeps ==
  ASSUME NEW s \in Setup, NEW soFar \in Seq(Candidate), NEW c \in Candidate, Rungs(s, soFar),
         soFar # <<>> => Ahead(s, soFar[Len(soFar)].price) < Ahead(s, c.price)
  PROVE  LET r == Merge(s, soFar, c) IN
           /\ r \in Seq(Candidate) /\ r # <<>> /\ Rungs(s, r)
           /\ r[1].price = IF soFar = <<>> THEN c.price ELSE soFar[1].price
           /\ Ahead(s, r[Len(r)].price) <= Ahead(s, c.price)
           /\ \A i \in 1..Len(r) :
                r[i].price = c.price \/ \E j \in 1..Len(soFar) : r[i].price = soFar[j].price
<1> DEFINE n == Len(soFar)
           r == Merge(s, soFar, c)
           ahead(q, i) == Ahead(s, q[i].price)
<1>1. n \in Nat /\ \A i \in 1..n : soFar[i].price \in Int BY CandidateAt
<1>2. c.price \in Int /\ Ahead(s, c.price) \in Int BY AheadIs DEF Candidate
<1>3. \A i \in 1..n : ahead(soFar, i) \in Int BY <1>1, AheadIs
<1>4. SetupRisk(s) \in Int /\ SetupRisk(s) >= 0 BY DEF SetupRisk, Gap, Setup
<1>5. soFar # <<>> <=> n >= 1 BY <1>1
<1>6. r \in Seq(Candidate) BY MergeRight
<1>7. CASE /\ soFar # <<>> /\ Len(r) = n /\ \A i \in 1..n : r[i].price = soFar[i].price
  <2> HIDE DEF r
  <2>1. Rungs(s, r) BY <1>7 DEF Rungs
  <2>2. n \in 1..n /\ 1 \in 1..n BY <1>1, <1>5, <1>7
  <2>3. r # <<>> BY <1>5, <1>6, <1>7
  <2>4. r[1].price = soFar[1].price /\ r[n].price = soFar[n].price BY <1>7, <2>2
  <2>5. Ahead(s, r[n].price) <= Ahead(s, c.price) BY <1>2, <1>3, <1>7, <2>2, <2>4
  <2> QED BY <1>6, <1>7, <2>1, <2>3, <2>4, <2>5 DEF r
<1>8. CASE /\ soFar = <<>> \/ 10 * Gap(c.price, soFar[n].price) >= SetupRisk(s)
           /\ Len(r) = n + 1 /\ r[n + 1] = c /\ \A i \in 1..n : r[i] = soFar[i]
  <2> HIDE DEF r
  <2>1. r # <<>> /\ r[Len(r)] = c BY <1>1, <1>6, <1>8
  <2>2. r[1].price = IF soFar = <<>> THEN c.price ELSE soFar[1].price
    BY <1>1, <1>5, <1>8
  <2>3. ASSUME soFar # <<>> PROVE 10 * (Ahead(s, c.price) - ahead(soFar, n)) >= SetupRisk(s)
    <3>1. n \in 1..n BY <1>1, <1>5, <2>3
    <3>2. Gap(c.price, soFar[n].price) = Ahead(s, c.price) - ahead(soFar, n)
      BY <1>1, <1>2, <2>3, <3>1, GapAhead
    <3> QED BY <1>8, <2>3, <3>2
  <2>4. ASSUME NEW i \in 1..n PROVE 10 * (Ahead(s, c.price) - ahead(soFar, i)) >= SetupRisk(s)
    <3>1. soFar # <<>> /\ n \in 1..n BY <1>1, <1>5, <2>4
    <3>2. CASE i = n BY <2>3, <3>1, <3>2
    <3>3. CASE i # n
      <4>1. i < n BY <1>1, <3>3
      <4>2. 10 * (ahead(soFar, n) - ahead(soFar, i)) >= SetupRisk(s)
        BY <3>1, <4>1 DEF Rungs
      <4>3. 10 * (Ahead(s, c.price) - ahead(soFar, n)) >= SetupRisk(s) BY <2>3, <3>1
      <4>4. ahead(soFar, n) \in Int /\ ahead(soFar, i) \in Int BY <1>3, <3>1
      <4> HIDE DEF ahead
      <4> QED BY <1>2, <1>4, <4>2, <4>3, <4>4
    <3> QED BY <3>2, <3>3
  <2>5. Rungs(s, r)
    <3> SUFFICES ASSUME NEW i \in 1..(n + 1), NEW j \in 1..(n + 1), i < j
                 PROVE  10 * (ahead(r, j) - ahead(r, i)) >= SetupRisk(s)
      BY <1>8 DEF Rungs
    <3>1. i \in 1..n /\ r[i] = soFar[i] BY <1>1, <1>8
    <3>2. CASE j = n + 1 BY <1>8, <2>4, <3>1, <3>2
    <3>3. CASE j # n + 1
      <4>1. j \in 1..n /\ r[j] = soFar[j] BY <1>1, <1>8, <3>3
      <4> QED BY <3>1, <4>1 DEF Rungs
    <3> QED BY <3>2, <3>3
  <2>6. ASSUME NEW i \in 1..Len(r)
        PROVE  r[i].price = c.price \/ \E j \in 1..n : r[i].price = soFar[j].price
    <3>1. i = n + 1 \/ i \in 1..n BY <1>1, <1>8
    <3> QED BY <1>8, <3>1
  <2>7. Ahead(s, r[Len(r)].price) <= Ahead(s, c.price) BY <1>2, <2>1
  <2> QED BY <1>6, <2>1, <2>2, <2>5, <2>6, <2>7 DEF r
<1>9. \/ /\ soFar # <<>> /\ Len(r) = n /\ \A i \in 1..n : r[i].price = soFar[i].price
      \/ /\ soFar = <<>> \/ 10 * Gap(c.price, soFar[n].price) >= SetupRisk(s)
         /\ Len(r) = n + 1 /\ r[n + 1] = c /\ \A i \in 1..n : r[i] = soFar[i]
  BY MergeRight
<1> HIDE DEF r, n
<1> QED BY <1>7, <1>8, <1>9 DEF r, n

(* What is merged is in a row, and starts with the nearest candidate.        *)
LEMMA MergedRight ==
  ASSUME NEW s \in Setup, NEW S, S \subseteq Candidate, IsFiniteSet(S),
         \A c, d \in S : c.price = d.price => c = d
  PROVE  LET M == MergeNear(s, S) IN
           /\ M \in Seq(Candidate) /\ Rungs(s, M) /\ (S # {} => M # <<>>)
           /\ \A i \in 1..Len(M) : \E c \in S : M[i].price = c.price
           /\ \A c \in S : Ahead(s, M[1].price) <= Ahead(s, c.price)
<1> DEFINE N == Cardinality(S)
           row == ByDistance(s, S)
           f == Merged(s, S)
           M == MergeNear(s, S)
           Good(n) ==
             /\ f[n] \in Seq(Candidate) /\ Rungs(s, f[n])
             /\ \A i \in 1..Len(f[n]) : \E c \in S : f[n][i].price = c.price
             /\ n >= 1 => /\ f[n] # <<>> /\ f[n][1].price = row[1].price
                          /\ Ahead(s, f[n][Len(f[n])].price) <= Ahead(s, row[n].price)
<1>1. Orders(S, Nearer(s)) BY NearerOrders
<1>2. /\ N \in Nat /\ row \in [1..N -> S] /\ \A c \in S : \E i \in 1..N : row[i] = c
      /\ \A i, j \in 1..N : i < j => <<row[i], row[j]>> \in Nearer(s)
  BY <1>1, SortedRight DEF ByDistance
<1>3. \A i, j \in 1..N : i < j => Ahead(s, row[i].price) < Ahead(s, row[j].price)
  BY <1>2 DEF Nearer
<1>4. \A i \in 1..N : row[i] \in Candidate /\ Ahead(s, row[i].price) \in Int
  <2> HIDE DEF row
  <2>1. \A i \in 1..N : row[i] \in Candidate /\ row[i].price \in Int BY <1>2 DEF Candidate
  <2> QED BY <2>1, AheadIs
<1>5. /\ f \in [0..N -> Seq(Candidate)] /\ f[0] = <<>> /\ M = f[N]
      /\ \A n \in 1..N : f[n] = Merge(s, f[n - 1], row[n])
  <2>1. S \in SUBSET Candidate /\ N \in Nat /\ row \in [1..N -> S] BY <1>2
  <2>2. MergesInOrder(s, f, N, row) /\ M = f[N] BY <2>1, MergedIs
  <2> QED BY <2>2 DEF MergesInOrder
<1> HIDE DEF f, row, M, N
<1>6. Good(0) BY <1>5 DEF Rungs
<1>7. ASSUME NEW n \in 1..N, Good(n - 1) PROVE Good(n)
  <2> DEFINE soFar == f[n - 1]
             c == row[n]
  <2>1. n \in Nat /\ n - 1 \in 0..N /\ n >= 1 /\ c \in Candidate /\ c \in S BY <1>2, <1>4
  <2>2. soFar \in Seq(Candidate) /\ Rungs(s, soFar) BY <1>7
  <2>3. ASSUME soFar # <<>> PROVE Ahead(s, soFar[Len(soFar)].price) < Ahead(s, c.price)
    <3>1. n - 1 # 0 BY <1>5, <2>3
    <3>2. n - 1 \in 1..N /\ n - 1 < n BY <1>2, <2>1, <3>1
    <3>3. Ahead(s, soFar[Len(soFar)].price) <= Ahead(s, row[n - 1].price) BY <1>7, <3>2
    <3>4. Ahead(s, row[n - 1].price) < Ahead(s, c.price) BY <1>3, <3>2
    <3>5. Len(soFar) \in 1..Len(soFar) BY <2>2, <2>3
    <3>6. Ahead(s, soFar[Len(soFar)].price) \in Int
      <4> HIDE DEF soFar
      <4> QED BY <2>2, <3>5, CandidateAt
    <3>7. Ahead(s, row[n - 1].price) \in Int /\ Ahead(s, c.price) \in Int BY <1>4, <3>2
    <3> QED BY <3>3, <3>4, <3>6, <3>7
  <2> DEFINE r == Merge(s, soFar, c)
  <2>4. f[n] = r BY <1>5
  <2> HIDE DEF soFar, c
  <2>5. /\ r \in Seq(Candidate) /\ r # <<>> /\ Rungs(s, r)
        /\ r[1].price = IF soFar = <<>> THEN c.price ELSE soFar[1].price
        /\ Ahead(s, r[Len(r)].price) <= Ahead(s, c.price)
        /\ \A i \in 1..Len(r) :
             r[i].price = c.price \/ \E j \in 1..Len(soFar) : r[i].price = soFar[j].price
    BY <2>1, <2>2, <2>3, MergeKeeps
  <2> HIDE DEF r
  <2>6. \A j \in 1..Len(soFar) : \E d \in S : soFar[j].price = d.price BY <1>7 DEF soFar
  <2>7. \A i \in 1..Len(r) : \E d \in S : r[i].price = d.price BY <2>1, <2>5, <2>6
  <2>8. r[1].price = row[1].price
    <3>1. CASE soFar = <<>>
      <4>1. n = 1 BY <1>7, <2>1, <3>1 DEF soFar
      <4> QED BY <2>5, <3>1, <4>1 DEF c
    <3>2. CASE soFar # <<>>
      <4>1. n - 1 # 0 BY <1>5, <3>2 DEF soFar
      <4>2. n - 1 >= 1 BY <2>1, <4>1
      <4> QED BY <1>7, <2>5, <3>2, <4>2 DEF soFar
    <3> QED BY <3>1, <3>2
  <2> QED BY <2>4, <2>5, <2>7, <2>8 DEF c
<1> HIDE DEF Good
<1>8. \A n \in 0..N : Good(n)
  <2> DEFINE T == {n \in 0..N : Good(n)}
  <2>1. 0 \in T BY <1>2, <1>6
  <2>2. \A n \in 1..N : n - 1 \in T => n \in T BY <1>2, <1>7
  <2> HIDE DEF T
  <2>3. 0..N \subseteq T BY <1>2, <2>1, <2>2, UpTo
  <2> QED BY <2>3 DEF T
<1>9. Good(N) BY <1>2, <1>8
<1>10. ASSUME S # {} PROVE N >= 1
  <2>1. PICK i \in 1..N : TRUE BY <1>2, <1>10
  <2> QED BY <1>2, <2>1
<1>11. ASSUME NEW c \in S PROVE Ahead(s, M[1].price) <= Ahead(s, c.price)
  <2>1. N >= 1 BY <1>10
  <2>2. M[1].price = row[1].price BY <1>5, <1>9, <2>1 DEF Good
  <2>3. PICK i \in 1..N : row[i] = c BY <1>2
  <2>4. 1 \in 1..N /\ (i = 1 \/ 1 < i) BY <1>2, <2>1
  <2> QED BY <1>3, <1>4, <2>2, <2>3, <2>4
<1> QED BY <1>5, <1>9, <1>10, <1>11 DEF Good, M

-----------------------------------------------------------------------------
(* The targets of a ladder. *)

(* Merged candidates are a tenth of the risk from each other.                *)
LEMMA RungsApart ==
  ASSUME NEW s \in Setup, s.entry # s.stop, NEW M \in Seq(Candidate), Rungs(s, M)
  PROVE  /\ SetupRisk(s) \in Int /\ SetupRisk(s) > 0 /\ Elements(M) \subseteq Candidate
         /\ \A c, d \in Elements(M) : Ahead(s, c.price) < Ahead(s, d.price) =>
              10 * (Ahead(s, d.price) - Ahead(s, c.price)) >= SetupRisk(s)
         /\ \A c, d \in Elements(M) : c.price = d.price => c = d
<1>1. SetupRisk(s) \in Int /\ SetupRisk(s) > 0 BY DEF SetupRisk, Gap, Setup
<1>2. Elements(M) \subseteq Candidate BY DEF Elements
<1> DEFINE ahead(i) == Ahead(s, M[i].price)
<1>3. \A i \in 1..Len(M) : ahead(i) \in Int BY CandidateAt
<1>4. \A i, j \in 1..Len(M) : i < j => 10 * (ahead(j) - ahead(i)) >= SetupRisk(s) BY DEF Rungs
<1>5. \A i, j \in 1..Len(M) : i < j => ahead(i) < ahead(j)
  <2> HIDE DEF ahead
  <2> QED BY <1>1, <1>3, <1>4
<1>6. ASSUME NEW c \in Elements(M), NEW d \in Elements(M)
      PROVE  /\ Ahead(s, c.price) < Ahead(s, d.price) =>
                  10 * (Ahead(s, d.price) - Ahead(s, c.price)) >= SetupRisk(s)
             /\ c.price = d.price => c = d
  <2>1. PICK i \in 1..Len(M) : c = M[i] BY <1>6 DEF Elements
  <2>2. PICK j \in 1..Len(M) : d = M[j] BY <1>6 DEF Elements
  <2>3. i = j \/ i < j \/ j < i OBVIOUS
  <2>4. ahead(i) \in Int /\ ahead(j) \in Int BY <1>3
  <2>5. ASSUME c.price = d.price PROVE c = d
    <3>1. ahead(i) = ahead(j) BY <2>1, <2>2, <2>5
    <3> HIDE DEF ahead
    <3>2. i = j BY <1>5, <2>3, <2>4, <3>1
    <3> QED BY <2>1, <2>2, <3>2
  <2>6. ASSUME ahead(i) < ahead(j) PROVE 10 * (ahead(j) - ahead(i)) >= SetupRisk(s)
    <3> HIDE DEF ahead
    <3>1. i < j BY <1>5, <2>3, <2>4, <2>6
    <3> QED BY <1>4, <3>1
  <2> QED BY <2>1, <2>2, <2>5, <2>6
<1> QED BY <1>1, <1>2, <1>6

(* The best candidates are in the order of their quality and distance.       *)
LEMMA BetterOrders ==
  ASSUME NEW s \in Setup, s.entry # s.stop, NEW M \in Seq(Candidate), Rungs(s, M),
         NEW T \in SUBSET Elements(M)
  PROVE  Orders(T, Better(s, M))
<1> DEFINE q(c) == Quality(s, M, c)
<1>1. /\ SetupRisk(s) \in Int /\ SetupRisk(s) > 0 /\ T \subseteq Candidate
      /\ \A c, d \in T : c.price = d.price => c = d
  BY RungsApart
<1>2. Orders(T, Nearer(s)) BY <1>1, NearerOrders
<1>3. ASSUME NEW c \in T PROVE q(c) \in Int
  <2> DEFINE a == Ahead(s, c.price)
             p == (10 * a) \div SetupRisk(s)
             x == IF \E d \in Elements(M) : d.opposing /\ Ahead(s, d.price) < a THEN 50 ELSE 0
  <2>1. c.score \in Int /\ c.price \in Int BY <1>1 DEF Candidate
  <2>2. a \in Int BY <2>1, AheadIs
  <2>3. p \in Int
    <3> HIDE DEF a
    <3>1. 10 * a \in Int BY <2>2
    <3> QED BY <1>1, <3>1
  <2>4. x \in Int OBVIOUS
  <2>5. q(c) = c.score + Least(40, p) - x BY DEF Quality
  <2> HIDE DEF p, x, q
  <2> QED BY <2>1, <2>3, <2>4, <2>5 DEF Least
<1>4. \A a, b \in T : <<a, b>> \in Better(s, M) <=>
        q(a) > q(b) \/ (q(a) = q(b) /\ <<a, b>> \in Nearer(s))
  BY DEF Better
<1> HIDE DEF q
<1>5. ASSUME NEW a \in T PROVE <<a, a>> \notin Better(s, M)
  <2>1. <<a, a>> \notin Nearer(s) BY <1>2 DEF Orders
  <2>2. q(a) \in Int BY <1>3
  <2>3. ~(q(a) > q(a)) BY <2>2
  <2> QED BY <1>4, <2>1, <2>3
<1>6. ASSUME NEW a \in T, NEW b \in T, NEW c \in T,
             <<a, b>> \in Better(s, M), <<b, c>> \in Better(s, M)
      PROVE  <<a, c>> \in Better(s, M)
  <2>1. q(a) \in Int /\ q(b) \in Int /\ q(c) \in Int BY <1>3
  <2>2. q(a) > q(b) \/ (q(a) = q(b) /\ <<a, b>> \in Nearer(s)) BY <1>4, <1>6
  <2>3. q(b) > q(c) \/ (q(b) = q(c) /\ <<b, c>> \in Nearer(s)) BY <1>4, <1>6
  <2>4. CASE q(a) > q(c) BY <1>4, <2>4
  <2>5. CASE ~(q(a) > q(c))
    <3>1. q(a) = q(c) /\ <<a, b>> \in Nearer(s) /\ <<b, c>> \in Nearer(s)
      BY <2>1, <2>2, <2>3, <2>5
    <3>2. <<a, c>> \in Nearer(s) BY <1>2, <3>1 DEF Orders
    <3> QED BY <1>4, <3>1, <3>2
  <2> QED BY <2>4, <2>5
<1>7. ASSUME NEW a \in T, NEW b \in T, a # b
      PROVE  <<a, b>> \in Better(s, M) \/ <<b, a>> \in Better(s, M)
  <2>1. q(a) \in Int /\ q(b) \in Int BY <1>3
  <2>2. <<a, b>> \in Nearer(s) \/ <<b, a>> \in Nearer(s) BY <1>2, <1>7 DEF Orders
  <2>3. q(a) > q(b) \/ q(b) > q(a) \/ q(a) = q(b) BY <2>1
  <2> QED BY <1>4, <2>2, <2>3
<1> QED BY <1>5, <1>6, <1>7 DEF Orders

(* The first elements of a sequence are finitely many.                       *)
LEMMA FirstsFinite ==
  ASSUME NEW k \in Nat, NEW q
  PROVE  LET firsts == {q[i] : i \in 1..k} IN
           IsFiniteSet(firsts) /\ Cardinality(firsts) \in Nat /\ Cardinality(firsts) <= k
<1> DEFINE firsts == {q[i] : i \in 1..k}
           f == [i \in 1..k |-> q[i]]
<1>1. f \in Surjection(1..k, firsts) BY DEF Surjection
<1>2. IsFiniteSet(1..k) /\ Cardinality(1..k) = k BY FS_Interval
<1> HIDE DEF f, firsts
<1>3. IsFiniteSet(firsts) /\ Cardinality(firsts) <= Cardinality(1..k)
  BY <1>1, <1>2, FS_Surjection
<1>4. Cardinality(firsts) \in Nat BY <1>3, FS_CardinalityType
<1> QED BY <1>2, <1>3, <1>4 DEF firsts

(* At most three others are taken.                                           *)
FirstThree(q) == {q[i] : i \in 1..Least(3, Len(q))}

(* The first three of a row are at most three of its elements.               *)
LEMMA FewTaken ==
  ASSUME NEW S, IsFiniteSet(S), NEW q \in [1..Cardinality(S) -> S]
  PROVE  /\ FirstThree(q) \subseteq S /\ IsFiniteSet(FirstThree(q))
         /\ Cardinality(FirstThree(q)) <= 3
<1> DEFINE n == Cardinality(S)
           k == Least(3, Len(q))
           best == {q[i] : i \in 1..k}
<1>1. n \in Nat /\ q \in [1..n -> S] BY FS_CardinalityType
<1> HIDE DEF n
<1>2. Len(q) = n BY <1>1
<1>3. k \in Nat /\ k <= 3 /\ k <= n BY <1>1, <1>2 DEF Least
<1> HIDE DEF k
<1>4. \A i \in 1..k : q[i] \in S
  <2>1. \A i \in 1..k : i \in 1..n BY <1>1, <1>3
  <2> QED BY <1>1, <2>1
<1>5. IsFiniteSet(best) /\ Cardinality(best) \in Nat /\ Cardinality(best) <= k
  BY <1>3, FirstsFinite
<1>6. best \subseteq S BY <1>4
<1> HIDE DEF best
<1>7. Cardinality(best) <= 3 BY <1>3, <1>5
<1> QED BY <1>5, <1>6, <1>7 DEF FirstThree, best, k

-----------------------------------------------------------------------------
(* Pricing: what an order costs. *)

Guards ==
  {NoGuard} \cup [reference : Int, allowance : {GoldAllowance} \ {0}, budget : Nat \ {0},
                  maximum : 1..MaxLots]
Stages == {"none", "pending", "approved", "delivered", "invalid", "failed"}
Types == {"market", "limit", "stop"}
Volumes == 0..MaxLots
Tickets ==
  [stage : Stages, child : BOOLEAN, refreshed : BOOLEAN, type : Types,
   entry : Int, stop : Int, target : Int, low : Int, high : Int, planned : Int,
   invalidation : Int, pendingOnly : BOOLEAN, volume : Volumes, risk : Int,
   guard : Guards, targets : Seq(Int), lots : Seq(Int), size : Volumes, eligible : BOOLEAN]

(* Of the first check that fails, there is a reason.                         *)
LEMMA NoneFails ==
  ASSUME NEW n \in Nat, NEW checks, DOMAIN checks = 1..n, First(checks) = "none",
         \A i \in 1..n : checks[i][2] # "none"
  PROVE  \A i \in 1..n : ~checks[i][1]
<1> DEFINE failing == {i \in DOMAIN checks : checks[i][1]}
<1>1. ASSUME failing # {} PROVE FALSE
  <2>1. failing \subseteq Nat BY SMT
  <2>2. PICK x \in failing : \A y \in failing : ~(y < x) BY <1>1, <2>1, LeastOne
  <2>3. \A j \in failing : x <= j BY <2>1, <2>2
  <2> DEFINE i == CHOOSE i \in failing : \A j \in failing : i <= j
  <2>4. i \in failing BY <2>3
  <2>5. First(checks) = checks[i][2] BY <1>1 DEF First
  <2> QED BY <2>4, <2>5
<1> QED BY <1>1

(* A budget that is not spent lies within what the account may lose.         *)
LEMMA BudgetBounded ==
  ASSUME NEW s \in Setup, NEW m \in Market, NEW guard, guard.budget \in Nat
  PROVE  /\ Budget(s, m, guard) \in Int /\ LossCapacity(m) \in Int
         /\ Budget(s, m, guard) > 0 => Budget(s, m, guard) <= LossCapacity(m)
         /\ guard.budget > 0 => Budget(s, m, guard) <= guard.budget
<1>1. m.equity \in Int /\ m.open \in Nat /\ s.percent \in Nat /\ s.half \in BOOLEAN
  BY DEF Market, Setup
<1>2. guard.budget \in Nat OBVIOUS
<1> DEFINE lesser == Least(3 * m.equity, s.percent * m.equity)
           lower == lesser \div 100
           fraction == Least(lower, LossCapacity(m))
           halved == IF s.half THEN fraction \div 2 ELSE fraction
<1>3. LossCapacity(m) \in Int
  BY <1>1 DEF LossCapacity, Least, Most, DailyLimit, TotalLimit, DayStart
<1>4. lesser \in Int
  <2>1. 3 * m.equity \in Int /\ s.percent * m.equity \in Int BY <1>1
  <2> HIDE DEF lesser
  <2> QED BY <2>1 DEF Least, lesser
<1> HIDE DEF lesser
<1>5. lower \in Int BY <1>4
<1> HIDE DEF lower
<1>6. fraction \in Int /\ fraction <= LossCapacity(m) BY <1>3, <1>5 DEF Least
<1>7. Budget(s, m, guard) = IF guard.budget > 0 THEN Least(guard.budget, halved) ELSE halved
  BY DEF Budget, lesser, lower
<1> HIDE DEF fraction
<1>8. halved \in Int /\ (halved > 0 => halved <= fraction) BY <1>1, <1>6
<1> HIDE DEF halved
<1>9. Budget(s, m, guard) \in Int /\ Budget(s, m, guard) <= halved BY <1>2, <1>7, <1>8 DEF Least
<1>10. Budget(s, m, guard) > 0 => Budget(s, m, guard) <= LossCapacity(m) BY <1>3, <1>6, <1>8, <1>9
<1>11. guard.budget > 0 => Budget(s, m, guard) <= guard.budget BY <1>2, <1>7, <1>8 DEF Least
<1> QED BY <1>3, <1>9, <1>10, <1>11

(* Lots that a budget pays for at the worst price.                           *)
LEMMA LotsPaid ==
  ASSUME NEW budget \in Int, NEW worst \in Nat \ {0}, NEW most \in Int,
         NEW volume, volume = Least(budget \div worst, most)
  PROVE  volume \in Int /\ volume <= most /\ worst * volume <= budget
<1>1. budget \div worst \in Int /\ worst * (budget \div worst) <= budget OBVIOUS
<1>2. volume \in Int /\ volume <= most /\ volume <= budget \div worst BY <1>1 DEF Least
<1> DEFINE q == budget \div worst
<1> HIDE DEF q
<1>3. worst * volume <= worst * q
  <2>1. q \in Int /\ volume <= q BY <1>1, <1>2 DEF q
  <2> QED BY <1>2, <2>1
<1> QED BY <1>1, <1>2, <1>3 DEF q

(* A guard with some of its fields changed.                                  *)
LEMMA GuardStarted ==
  ASSUME NEW A, NEW B, NEW entry \in Int, NEW allowance \in A, MaxLots \in B,
         NEW guard, guard = [NoGuard EXCEPT !.reference = entry, !.allowance = allowance]
  PROVE  guard \in [reference : Int, allowance : A, budget : Nat, maximum : B]
BY DEF NoGuard

(* A guard's budget and lots are filled in with what was priced.             *)
LEMMA GuardFilled ==
  ASSUME NEW A, NEW B, NEW C, NEW D, NEW E,
         NEW guard \in [reference : Int, allowance : A, budget : C, maximum : B],
         guard.allowance \in D, NEW budget \in E, NEW maximum \in B,
         NEW filled, filled = [guard EXCEPT !.budget = budget, !.maximum = maximum]
  PROVE  /\ filled \in [reference : Int, allowance : D, budget : E, maximum : B]
         /\ filled.reference = guard.reference /\ filled.allowance = guard.allowance
         /\ filled.budget = budget /\ filled.maximum = maximum
OBVIOUS

(* What an accepted price says of the order.                                 *)
Prices == [refusal : {"none"}, entry : Int, volume : Int, risk : Int, guard : Guards]
Loss(s, o, p) == Worst(s, p.guard, p.entry, o.stop) * p.volume
Afforded(s, m, o, p) ==
  /\ p \in Prices
  /\ p.entry = (IF o.type = "market" THEN Executable(s, m) ELSE o.entry) /\ p.entry \in Int
  /\ p.volume \in 1..MaxLots /\ p.guard \in Guards
  /\ p.risk = Gap(p.entry, o.stop) * p.volume /\ Gap(p.entry, o.stop) \in Nat \ {0}
  /\ Worst(s, p.guard, p.entry, o.stop) \in Nat
  /\ Loss(s, o, p) \in Int /\ Loss(s, o, p) <= LossCapacity(m)
  /\ m.open + Loss(s, o, p) <= RiskCeiling(m)
  /\ p.guard # NoGuard =>
       /\ o.type = "market" /\ p.guard.maximum = p.volume /\ Loss(s, o, p) <= p.guard.budget
Kept(o, p) ==
  /\ o.guard = NoGuard => p.guard = NoGuard
  /\ o.guard # NoGuard => /\ p.guard.budget <= o.guard.budget /\ p.volume <= o.guard.maximum

(* What _validated_open_fields lets through can be afforded, and stays       *)
(* within the guard that the order had.                                      *)
LEMMA PriceAffords ==
  ASSUME NEW s \in Setup, NEW m \in Market, NEW o \in Tickets, NEW reference \in Int,
         NEW avoid \in BOOLEAN, NEW defer \in BOOLEAN, NEW initialize \in BOOLEAN,
         Price(s, m, o, reference, avoid, defer, initialize).refusal = "none"
  PROVE  LET p == Price(s, m, o, reference, avoid, defer, initialize) IN
           /\ Afforded(s, m, o, p)
           /\ ~(initialize /\ o.type = "market") => Kept(o, p)
<1> DEFINE
      side == Sign(s)  live == Executable(s, m)
      atMarket == o.type = "market"
      entry == IF atMarket THEN live ELSE o.entry
      guard == IF initialize /\ s.gold /\ atMarket /\ GoldAllowance > 0
               THEN [NoGuard EXCEPT !.reference = entry, !.allowance = GoldAllowance]
               ELSE o.guard
      guarded == guard.allowance > 0
      distance == Gap(entry, o.stop)
      worst == Worst(s, guard, entry, o.stop)
      budget == Budget(s, m, guard)
      most == Least(MaxLots, guard.maximum)
      volume == IF worst = 0 \/ budget <= 0 THEN 0 ELSE Least(budget \div worst, most)
      checks == <<
        <<~m.tradable, "unavailable">>,
        <<guarded /\ ~atMarket, "unavailable">>,
        <<guarded /\ side * (entry - guard.reference) > guard.allowance, "tolerance">>,
        <<~guarded /\ reference # 0 /\ 200 * Gap(entry, reference) > reference, "tolerance">>,
        <<o.low # 0 /\ (entry < o.low \/ entry > o.high), "price moved">>,
        <<avoid /\ side * (live - o.target) >= 0, "target reached">>,
        <<side * (entry - o.stop) <= 0 \/ side * (o.target - entry) <= 0, "levels">>,
        <<~defer /\ o.type = "limit" /\ side * (entry - live) >= 0, "wrong side">>,
        <<~defer /\ o.type = "stop" /\ side * (entry - live) <= 0, "wrong side">>,
        <<distance < m.minimum, "stop too near">>,
        <<~defer /\ ~atMarket /\ Gap(entry, live) < m.minimum, "entry too near">>,
        <<Gap(o.target, entry) < distance, "reward/risk">>,
        <<m.full, "exposure">>,
        <<budget <= 0 \/ volume < 1, "capacity">>,
        <<m.open + worst * volume > RiskCeiling(m), "capacity">> >>
      filled == IF guarded THEN [guard EXCEPT !.budget = budget, !.maximum = volume] ELSE guard
      p == Price(s, m, o, reference, avoid, defer, initialize)
<1>0. p = [refusal |-> First(checks), entry |-> entry, volume |-> volume,
           risk |-> distance * volume, guard |-> filled]
  BY DEF Price
<1>1. /\ p.refusal = First(checks) /\ p.entry = entry /\ p.volume = volume
      /\ p.risk = distance * volume /\ p.guard = filled
  <2> HIDE DEF p, checks, entry, volume, distance, filled
  <2> QED BY <1>0
<1>a. p.refusal = "none" OBVIOUS
<1> HIDE DEF p
<1>2. /\ m.open \in Nat /\ m.bid \in Int /\ m.ask \in Int
      /\ s.side \in {"buy", "sell"}
      /\ o.stop \in Int /\ o.target \in Int /\ o.guard \in Guards /\ o.entry \in Int
  BY DEF Market, Setup, Tickets
<1>3. /\ MaxLots \in Nat \ {0} /\ GoldAllowance \in Nat BY PricingAssumption
<1>4. live \in Int /\ side \in {-1, 1} BY <1>2 DEF Executable, Sign
<1> HIDE DEF live, side
<1>5. entry \in Int BY <1>2, <1>4
<1> HIDE DEF entry
<1>22. guard \in [reference : Int, allowance : {0, GoldAllowance}, budget : Nat,
                   maximum : 1..MaxLots]
  <2>1. CASE initialize /\ s.gold /\ atMarket /\ GoldAllowance > 0
    <3>1. guard = [NoGuard EXCEPT !.reference = entry, !.allowance = GoldAllowance] BY <2>1
    <3>2. GoldAllowance \in {0, GoldAllowance} /\ MaxLots \in 1..MaxLots BY <1>3
    <3> HIDE DEF guard
    <3> QED BY <3>1, <3>2, <1>5, GuardStarted
  <2>2. CASE ~(initialize /\ s.gold /\ atMarket /\ GoldAllowance > 0)
    <3>1. guard = o.guard BY <2>2
    <3> QED BY <3>1, <1>2, <1>3 DEF Guards, NoGuard
  <2> QED BY <2>1, <2>2
<1>6. /\ guard.reference \in Int /\ guard.allowance \in {0, GoldAllowance}
      /\ guard.budget \in Nat /\ guard.maximum \in 1..MaxLots
      /\ guard.allowance = 0 => guard = NoGuard
  <2>1. guard \in [reference : Int, allowance : {0, GoldAllowance}, budget : Nat,
                   maximum : 1..MaxLots]
    BY <1>22
  <2>2. guard.allowance = 0 => guard = NoGuard
    <3>1. CASE initialize /\ s.gold /\ atMarket /\ GoldAllowance > 0
      <4>1. guard = [NoGuard EXCEPT !.reference = entry, !.allowance = GoldAllowance] BY <3>1
      <4> HIDE DEF guard
      <4> QED BY <4>1, <3>1, <1>3 DEF NoGuard
    <3>2. CASE ~(initialize /\ s.gold /\ atMarket /\ GoldAllowance > 0)
      <4>1. guard = o.guard BY <3>2
      <4> QED BY <4>1, <1>2 DEF Guards, NoGuard
    <3> QED BY <3>1, <3>2
  <2> QED BY <2>1, <2>2
<1>7. ~(initialize /\ atMarket) => guard = o.guard OBVIOUS
<1> HIDE DEF guard
<1>8. distance \in Nat BY <1>2, <1>5 DEF Gap
<1>9. worst \in Nat /\ worst >= distance
  BY <1>2, <1>3, <1>4, <1>5, <1>6 DEF Gap, Worst, Most, side
<1> HIDE DEF distance, worst
<1>10. most \in Int /\ most <= MaxLots /\ most <= guard.maximum BY <1>3, <1>6 DEF Least
<1> HIDE DEF most
<1>11. \A i \in 1..15 : ~checks[i][1]
  <2>2. DOMAIN checks = 1..15 OBVIOUS
  <2>3. /\ checks[1][2] # "none" /\ checks[2][2] # "none" /\ checks[3][2] # "none"
        /\ checks[4][2] # "none" /\ checks[5][2] # "none" /\ checks[6][2] # "none"
        /\ checks[7][2] # "none" /\ checks[8][2] # "none" /\ checks[9][2] # "none"
        /\ checks[10][2] # "none" /\ checks[11][2] # "none" /\ checks[12][2] # "none"
        /\ checks[13][2] # "none" /\ checks[14][2] # "none" /\ checks[15][2] # "none"
    OBVIOUS
  <2> HIDE DEF checks
  <2>1. First(checks) = "none" BY <1>1, <1>a
  <2>4. \A i \in 1..15 : checks[i][2] # "none" BY <2>3
  <2> QED BY <2>1, <2>2, <2>4, NoneFails
<1>12. /\ ~(guarded /\ ~atMarket)
       /\ ~(side * (entry - o.stop) <= 0 \/ side * (o.target - entry) <= 0)
       /\ ~(budget <= 0 \/ volume < 1) /\ ~(m.open + worst * volume > RiskCeiling(m))
  <2>1. ~checks[2][1] /\ ~checks[7][1] /\ ~checks[14][1] /\ ~checks[15][1] BY <1>11
  <2>2. checks[2][1] <=> guarded /\ ~atMarket OBVIOUS
  <2>3. checks[7][1] <=> side * (entry - o.stop) <= 0 \/ side * (o.target - entry) <= 0 OBVIOUS
  <2>4. checks[14][1] <=> budget <= 0 \/ volume < 1 OBVIOUS
  <2>5. checks[15][1] <=> m.open + worst * volume > RiskCeiling(m) OBVIOUS
  <2> HIDE DEF checks
  <2> QED BY <2>1, <2>2, <2>3, <2>4, <2>5
<1> HIDE DEF checks
<1>13. guarded => atMarket BY <1>12
<1>14. distance > 0 BY <1>2, <1>4, <1>5, <1>12 DEF distance, Gap
<1>15. worst > 0 /\ worst # 0 BY <1>8, <1>9, <1>14
<1>16. /\ budget \in Int /\ budget > 0
       /\ budget <= LossCapacity(m) /\ LossCapacity(m) \in Int
       /\ (guard.budget > 0 => budget <= guard.budget)
  <2>1. /\ budget \in Int /\ LossCapacity(m) \in Int
        /\ budget > 0 => budget <= LossCapacity(m)
        /\ guard.budget > 0 => budget <= guard.budget
    BY <1>6, BudgetBounded
  <2> QED BY <2>1, <1>12
<1> HIDE DEF budget
<1>17. volume \in Int /\ volume <= most /\ worst * volume <= budget /\ volume >= 1
  <2>1. volume = Least(budget \div worst, most) BY <1>15, <1>16
  <2>2. worst \in Nat \ {0} BY <1>9, <1>15
  <2> HIDE DEF volume
  <2>3. volume \in Int /\ volume <= most /\ worst * volume <= budget
    BY <2>1, <2>2, <1>10, <1>16, LotsPaid
  <2> QED BY <2>3, <1>12
<1> HIDE DEF volume
<1>18. volume \in 1..MaxLots /\ volume <= guard.maximum BY <1>3, <1>6, <1>10, <1>17
<1>19. RiskCeiling(m) \in Int BY DEF RiskCeiling, Market
<1>20. worst * volume \in Int /\ m.open + worst * volume <= RiskCeiling(m)
  <2>1. worst * volume \in Int BY <1>9, <1>17
  <2> QED BY <2>1, <1>2, <1>12, <1>19
<1> DEFINE paid == worst * volume
<1>21. /\ filled.reference = guard.reference /\ filled.allowance = guard.allowance
       /\ filled \in Guards
       /\ filled # NoGuard => guarded /\ filled.budget = budget /\ filled.maximum = volume
       /\ guard = NoGuard => filled = NoGuard
  <2>1. CASE guarded
    <3>1. filled = [guard EXCEPT !.budget = budget, !.maximum = volume] BY <2>1
    <3>2. guard.allowance \in {GoldAllowance} \ {0} /\ budget \in Nat \ {0}
      BY <2>1, <1>6, <1>16
    <3> HIDE DEF filled
    <3>3. filled \in [reference : Int, allowance : {GoldAllowance} \ {0}, budget : Nat \ {0},
                     maximum : 1..MaxLots]
      BY <3>1, <3>2, <1>18, <1>22, GuardFilled
    <3>4. /\ filled.reference = guard.reference /\ filled.allowance = guard.allowance
          /\ filled.budget = budget /\ filled.maximum = volume
      BY <3>1, <3>2, <1>18, <1>22, GuardFilled
    <3>5. filled \in Guards BY <3>3 DEF Guards
    <3> QED BY <2>1, <3>4, <3>5 DEF NoGuard
  <2>2. CASE ~guarded
    <3>1. guard = NoGuard BY <2>2, <1>3, <1>6
    <3> QED BY <2>2, <3>1 DEF Guards, NoGuard
  <2> QED BY <2>1, <2>2
<1> HIDE DEF filled
<1>23. p.guard = filled /\ p.volume = volume /\ p.entry = entry /\ p.risk = distance * volume
  BY <1>1
<1>24. Worst(s, p.guard, p.entry, o.stop) = worst
  <2>1. Worst(s, p.guard, p.entry, o.stop) = Worst(s, guard, entry, o.stop)
    BY <1>21, <1>23 DEF Worst
  <2> QED BY <2>1 DEF worst
<1>25. Loss(s, o, p) = worst * volume BY <1>23, <1>24 DEF Loss
<1>26. worst * volume <= LossCapacity(m) BY <1>16, <1>17, <1>20
<1>27. entry = (IF o.type = "market" THEN Executable(s, m) ELSE o.entry) BY DEF entry, live
<1>28. distance = Gap(p.entry, o.stop) BY <1>23 DEF distance
<1>29. p.guard # NoGuard =>
         /\ o.type = "market" /\ p.guard.maximum = p.volume /\ Loss(s, o, p) <= p.guard.budget
  BY <1>13, <1>17, <1>21, <1>23, <1>25
<1>32. p \in Prices
  <2>1. p = [refusal |-> "none", entry |-> entry, volume |-> volume, risk |-> distance * volume,
             guard |-> filled]
    BY <1>0, <1>1, <1>a
  <2>2. distance * volume \in Int BY <1>8, <1>17
  <2> QED BY <2>1, <2>2, <1>5, <1>17, <1>21 DEF Prices
<1>30. Afforded(s, m, o, p)
  BY <1>32, <1>5, <1>8, <1>9, <1>14, <1>18, <1>20, <1>21, <1>23, <1>24, <1>25, <1>26, <1>27,
     <1>28, <1>29
  DEF Afforded
<1>31. ASSUME ~(initialize /\ o.type = "market") PROVE Kept(o, p)
  <2>1. guard = o.guard BY <1>7, <1>31
  <2>2. o.guard # NoGuard => guarded /\ guard.budget > 0
    BY <2>1, <1>2, <1>3, <1>6 DEF Guards, NoGuard
  <2>3. o.guard # NoGuard => p.guard.budget <= o.guard.budget
    <3> SUFFICES ASSUME o.guard # NoGuard PROVE p.guard.budget <= o.guard.budget OBVIOUS
    <3>1. guarded /\ budget <= guard.budget BY <1>16, <2>2
    <3>2. filled # NoGuard
      <4>1. filled.allowance # 0 BY <1>6, <1>21, <3>1
      <4> QED BY <4>1 DEF NoGuard
    <3> QED BY <1>21, <1>23, <2>1, <3>1, <3>2
  <2> QED BY <1>18, <1>21, <1>23, <2>1, <2>3 DEF Kept
<1> QED BY <1>30, <1>31 DEF p

-----------------------------------------------------------------------------
(* What a step makes of an order. *)

(* What a plan's lots promise.                                               *)
LotsRight(o) ==
  /\ Len(o.lots) = Len(o.targets) /\ Sum(o.lots) = o.volume
  /\ \A i \in DOMAIN o.lots : o.lots[i] >= 1

(* The targets of an order, each beyond the one before it.                   *)
Spread(s, o) ==
  /\ o.targets # <<>> => Len(o.targets) \in 1..4
  /\ \A i \in DOMAIN o.targets : i > 1 => Sign(s) * (o.targets[i] - o.targets[i - 1]) > 0

(* What an order is at every stage, but for its lots; and with them.         *)
OrderRight(s, o) ==
  /\ o \in Tickets /\ Spread(s, o)
  /\ o.refreshed => o.child
  /\ o.guard # NoGuard => o.type = "market"
  /\ o.child => o.type # "market"
  /\ Managed(s) /\ o.type # "market" => o.pendingOnly
  /\ o.pendingOnly => Managed(s) /\ o.type # "market" /\ o.entry = o.planned
TicketRight(s, o) ==
  /\ OrderRight(s, o)
  /\ Len(o.lots) \in {0, Len(o.targets)}
  /\ o.targets # <<>> /\ (o.refreshed => o.stage \in {"approved", "delivered"}) => LotsRight(o)

(* What a step leaves of an order.                                           *)
SameOrder(e, o) ==
  /\ e.child = o.child /\ e.refreshed = o.refreshed /\ e.planned = o.planned
  /\ e.targets = o.targets
SameStage(e, o) == e.stage = o.stage
SameLevels(e, o) == e.stop = o.stop /\ e.target = o.target
SameSize(e, o) == e.volume = o.volume /\ e.risk = o.risk /\ e.size = o.size /\ e.lots = o.lots

(* What is pending was shown as it is, but for its type and price.           *)
AsShown(o, h) ==
  /\ o.volume = h.volume /\ o.risk = h.risk /\ o.size = h.size
  /\ o.stop = h.stop /\ o.target = h.target /\ o.targets = h.targets
  /\ o.guard \in {NoGuard, h.guard}

-----------------------------------------------------------------------------
(* The lots of a plan. *)

(* The shares of the first targets, together, are some.                      *)
LEMMA SharesAreSome ==
  ASSUME NEW n \in 1..4
  PROVE  Sum(SubSeq(Shares, 1, n)) \in Nat \ {0} /\ \A i \in 1..4 : Shares[i] \in Nat
<1> DEFINE first == SubSeq(Shares, 1, n)
<1>1. Shares \in Seq(Nat \ {0}) /\ Len(Shares) = 4 BY PricingAssumption
<1>2. Shares \in [1..4 -> Nat \ {0}] BY <1>1
<1>3. first \in [1..n -> Nat] /\ first[1] = Shares[1]
  <2>1. first = [i \in 1..n |-> Shares[i]] BY <1>1, <1>2
  <2> HIDE DEF first
  <2> QED BY <2>1, <1>2
<1> HIDE DEF first
<1>4. Sum(first) \in Nat /\ first[1] <= Sum(first) BY <1>3, TermWithinSum
<1>5. Shares[1] \in Nat \ {0} BY <1>2
<1>6. Sum(first) # 0 BY <1>3, <1>4, <1>5
<1> QED BY <1>2, <1>4, <1>6 DEF first

(* Every lot is in one of them.                                              *)
LEMMA LotsAddUp ==
  ASSUME NEW targets \in Seq(Int), Len(targets) \in 1..4, NEW volume \in Nat
  PROVE  /\ AllocateVolume(targets, volume) \in [1..Len(targets) -> Int]
         /\ Sum(AllocateVolume(targets, volume)) = volume
<1> DEFINE n == Len(targets)
           whole == Sum(SubSeq(Shares, 1, n))
           floors == [i \in 1..n - 1 |-> (volume * Shares[i]) \div whole]
           rest == volume - Sum(floors)
           lots == Append(floors, rest)
<1>1. AllocateVolume(targets, volume) = lots BY DEF AllocateVolume
<1>2. n \in 1..4 OBVIOUS
<1>3. whole \in Nat \ {0} /\ \A i \in 1..4 : Shares[i] \in Nat BY <1>2, SharesAreSome
<1> HIDE DEF n, whole
<1>4. floors \in [1..n - 1 -> Int]
  <2>1. ASSUME NEW i \in 1..n - 1 PROVE (volume * Shares[i]) \div whole \in Int
    <3>1. Shares[i] \in Nat BY <1>2, <1>3
    <3>2. volume * Shares[i] \in Int BY <3>1
    <3> QED BY <3>2, <1>3
  <2> QED BY <2>1
<1>5. n - 1 \in Nat /\ (n - 1) + 1 = n BY <1>2
<1> HIDE DEF floors
<1>6. Sum(floors) \in Int
  <2>1. \A i \in 1..n - 1 : floors[i] <= floors[i] BY <1>4
  <2> QED BY <1>4, <1>5, <2>1, SumOrder
<1>7. rest \in Int BY <1>6
<1> HIDE DEF rest
<1>8. /\ lots \in [1..n -> Int] /\ lots[n] = rest
      /\ \A i \in 1..n - 1 : lots[i] = floors[i]
  <2>1. floors \in Seq(Int) /\ Len(floors) = n - 1 BY <1>4, <1>5
  <2>2. lots \in Seq(Int) /\ Len(lots) = n BY <1>5, <1>7, <2>1
  <2>3. \A i \in 1..n - 1 : lots[i] = floors[i] BY <2>1
  <2>4. lots[n] = rest BY <1>5, <2>1
  <2> HIDE DEF lots
  <2>5. lots \in [1..n -> Int] BY <2>2
  <2> QED BY <2>3, <2>4, <2>5
<1> HIDE DEF lots
<1>9. Sum(lots) = Sum(floors) + rest
  <2>1. Sum(lots) = Sum(floors) + lots[(n - 1) + 1]
    <3>1. lots \in [1..((n - 1) + 1) -> Int] BY <1>5, <1>8
    <3> QED BY <1>4, <1>5, <1>8, <3>1, SumGrows
  <2> QED BY <1>5, <1>8, <2>1
<1>10. Sum(lots) = volume BY <1>6, <1>9 DEF rest
<1> QED BY <1>1, <1>8, <1>10 DEF n

(* A division that is accepted has a lot for every target.                   *)
LEMMA DividedRight ==
  ASSUME NEW o \in Tickets, o.targets # <<>> => Len(o.targets) \in 1..4, MayDivide(o)
  PROVE  /\ Divided(o) \in Tickets
         /\ o.targets = <<>> => Divided(o) = o
         /\ o.targets # <<>> => LotsRight(Divided(o)) /\ Divided(o).size = o.volume
         /\ SameOrder(Divided(o), o) /\ SameLevels(Divided(o), o)
         /\ Divided(o).stage = o.stage /\ Divided(o).type = o.type
         /\ Divided(o).entry = o.entry /\ Divided(o).pendingOnly = o.pendingOnly
         /\ Divided(o).volume = o.volume /\ Divided(o).risk = o.risk
         /\ Divided(o).guard = o.guard
<1> DEFINE lots == AllocateVolume(o.targets, o.volume)
<1>1. CASE o.targets = <<>> BY <1>1 DEF Divided, SameOrder, SameLevels
<1>2. CASE o.targets # <<>>
  <2>1. Divided(o) = [o EXCEPT !.lots = lots, !.size = o.volume] BY <1>2 DEF Divided
  <2>2. /\ o.targets \in Seq(Int) /\ o.volume \in Volumes /\ Len(o.targets) \in 1..4
    BY <1>2 DEF Tickets
  <2>3. o.volume \in Nat BY <2>2 DEF Volumes
  <2>4. lots \in [1..Len(o.targets) -> Int] /\ Sum(lots) = o.volume BY <2>2, <2>3, LotsAddUp
  <2>5. \A i \in DOMAIN o.targets : lots[i] >= 1 BY <1>2 DEF MayDivide, Divisible
  <2> HIDE DEF lots
  <2>6. /\ lots \in Seq(Int) /\ Len(lots) = Len(o.targets)
        /\ DOMAIN lots = DOMAIN o.targets
    BY <2>2, <2>4
  <2>7. Divided(o) \in Tickets BY <2>1, <2>2, <2>6 DEF Tickets
  <2>8. /\ Divided(o).lots = lots /\ Divided(o).size = o.volume
        /\ Divided(o).targets = o.targets /\ Divided(o).volume = o.volume
    BY <2>1 DEF Tickets
  <2>9. LotsRight(Divided(o)) BY <2>4, <2>5, <2>6, <2>8 DEF LotsRight
  <2>10. /\ SameOrder(Divided(o), o) /\ SameLevels(Divided(o), o)
         /\ Divided(o).stage = o.stage /\ Divided(o).type = o.type
         /\ Divided(o).entry = o.entry /\ Divided(o).pendingOnly = o.pendingOnly
         /\ Divided(o).volume = o.volume /\ Divided(o).risk = o.risk
         /\ Divided(o).guard = o.guard
    BY <2>1 DEF Tickets, SameOrder, SameLevels
  <2> QED BY <1>2, <2>7, <2>8, <2>9, <2>10
<1> QED BY <1>1, <1>2

(* A priced order.                                                           *)
LEMMA FilledRight ==
  ASSUME NEW o \in Tickets, NEW p, p.entry \in Int, p.volume \in Volumes, p.risk \in Int,
         p.guard \in Guards
  PROVE  /\ Filled(o, p) \in Tickets
         /\ Filled(o, p).entry = p.entry /\ Filled(o, p).volume = p.volume
         /\ Filled(o, p).risk = p.risk /\ Filled(o, p).guard = p.guard
         /\ SameOrder(Filled(o, p), o) /\ SameLevels(Filled(o, p), o)
         /\ Filled(o, p).stage = o.stage /\ Filled(o, p).type = o.type
         /\ Filled(o, p).pendingOnly = o.pendingOnly
         /\ Filled(o, p).lots = o.lots /\ Filled(o, p).size = o.size
<1> DEFINE f == Filled(o, p)
<1>1. f = [o EXCEPT !.entry = p.entry, !.volume = p.volume, !.risk = p.risk, !.guard = p.guard]
  BY DEF Filled
<1> HIDE DEF f
<1>2. f \in Tickets BY <1>1 DEF Tickets
<1>3. /\ f.entry = p.entry /\ f.volume = p.volume /\ f.risk = p.risk /\ f.guard = p.guard
  BY <1>1 DEF Tickets
<1>4. SameOrder(f, o) /\ SameLevels(f, o) BY <1>1 DEF Tickets, SameOrder, SameLevels
<1>5. /\ f.stage = o.stage /\ f.type = o.type /\ f.pendingOnly = o.pendingOnly
      /\ f.lots = o.lots /\ f.size = o.size
  BY <1>1 DEF Tickets
<1> QED BY <1>2, <1>3, <1>4, <1>5 DEF f

(* A managed order whose entry is tried again.                               *)
LEMMA AttemptRight ==
  ASSUME NEW s \in Setup, Managed(s), NEW m \in Market, NEW o,
         TicketRight(s, o), NEW e, e = EntryAttempt(s, m, o, FALSE).order
  PROVE  /\ TicketRight(s, e) /\ e.guard \in {NoGuard, o.guard}
         /\ o.pendingOnly => e.type # "market"
         /\ SameOrder(e, o) /\ SameLevels(e, o) /\ SameSize(e, o) /\ SameStage(e, o)
<1> DEFINE
      found == EntryType(s, o.planned, Executable(s, m), o.low, o.high, o.pendingOnly)
      type == IF found # "none" THEN found ELSE IF o.type # "market" THEN o.type ELSE "limit"
<1>1. e = IF type = "market" THEN [o EXCEPT !.type = type]
          ELSE [o EXCEPT !.type = type, !.guard = NoGuard, !.entry = o.planned,
                         !.pendingOnly = TRUE]
  BY DEF EntryAttempt
<1>2. o \in Tickets BY DEF TicketRight, OrderRight
<1>3. found \in {"market", "limit", "stop", "none"} /\ (o.pendingOnly => found # "market")
  BY DEF EntryType
<1>4. type \in Types /\ (o.pendingOnly => type # "market") /\ (type = "market" => ~o.pendingOnly)
  <2>1. o.type \in Types BY <1>2 DEF Tickets
  <2> HIDE DEF found
  <2> QED BY <2>1, <1>3 DEF Types
<1> HIDE DEF type
<1>5. NoGuard \in Guards BY DEF Guards
<1>6. CASE type = "market"
  <2>1. e = [o EXCEPT !.type = type] BY <1>1, <1>6
  <2>2. e \in Tickets BY <2>1, <1>2, <1>4 DEF Tickets
  <2>3. e.type = "market" /\ e.guard = o.guard /\ e.pendingOnly = o.pendingOnly
    BY <2>1, <1>2, <1>6 DEF Tickets
  <2>4. SameOrder(e, o) /\ SameLevels(e, o) /\ SameSize(e, o) /\ e.stage = o.stage
    BY <2>1, <1>2 DEF Tickets, SameOrder, SameLevels, SameSize
  <2>5. ~e.child /\ ~o.pendingOnly
    <3>1. ~o.pendingOnly BY <1>4, <1>6
    <3>2. o.child => o.pendingOnly BY DEF TicketRight, OrderRight
    <3> QED BY <3>1, <3>2, <2>4 DEF SameOrder
  <2>6. TicketRight(s, e)
    BY <2>2, <2>3, <2>4, <2>5 DEF TicketRight, OrderRight, SameOrder, SameSize, Spread, LotsRight
  <2> QED BY <2>3, <2>4, <2>5, <2>6 DEF SameStage
<1>7. CASE type # "market"
  <2>1. e = [o EXCEPT !.type = type, !.guard = NoGuard, !.entry = o.planned,
                      !.pendingOnly = TRUE]
    BY <1>1, <1>7
  <2>2. e \in Tickets BY <2>1, <1>2, <1>4, <1>5 DEF Tickets
  <2>3. e.type # "market" /\ e.guard = NoGuard /\ e.pendingOnly /\ e.entry = e.planned
    <3>1. e.type = type /\ e.guard = NoGuard /\ e.pendingOnly = TRUE BY <2>1, <1>2 DEF Tickets
    <3>2. e.entry = o.planned /\ e.planned = o.planned BY <2>1, <1>2 DEF Tickets
    <3> QED BY <1>7, <3>1, <3>2
  <2>4. SameOrder(e, o) /\ SameLevels(e, o) /\ SameSize(e, o) /\ e.stage = o.stage
    BY <2>1, <1>2 DEF Tickets, SameOrder, SameLevels, SameSize
  <2>5. TicketRight(s, e)
    BY <2>2, <2>3, <2>4 DEF TicketRight, OrderRight, SameOrder, SameSize, Spread, LotsRight
  <2> QED BY <2>3, <2>4, <2>5 DEF SameStage
<1> QED BY <1>6, <1>7

-----------------------------------------------------------------------------
(* What an order may lose. *)

(* A loss on top of what is open is within the limits of a market.           *)
Bears(m, loss) ==
  /\ m.open + loss <= RiskCeiling(m)
  /\ \A limit \in {DailyLimit, TotalLimit} :
       Most(0, DayStart - m.equity) + m.open + loss <= limit

(* The fills of an order: at its price, and at the end of its allowance.     *)
Fills(s, entry, guard) ==
  {entry} \cup (IF guard # NoGuard THEN {guard.reference + Sign(s) * guard.allowance} ELSE {})

(* A product grows with its factors.                                         *)
LEMMA Grows ==
  ASSUME NEW a \in Nat, NEW b \in Nat, a <= b, NEW v \in Nat, NEW w \in Nat, v <= w
  PROVE  a * v \in Nat /\ a * v <= b * w
<1>1. a * v <= b * v OBVIOUS
<1>2. b * v <= b * w OBVIOUS
<1> QED BY <1>1, <1>2

(* No fill of what was afforded, of as many lots or fewer, loses too much.   *)
LEMMA AffordedBears ==
  ASSUME NEW s \in Setup, NEW m \in Market, NEW o \in Tickets, NEW p, Afforded(s, m, o, p),
         NEW v \in 0..p.volume, NEW fill \in Fills(s, p.entry, p.guard)
  PROVE  Bears(m, Gap(fill, o.stop) * v)
<1> DEFINE gap == Gap(fill, o.stop)
           worst == Worst(s, p.guard, p.entry, o.stop)
           loss == gap * v
<1>1. /\ p.entry \in Int /\ p.guard \in Guards /\ p.volume \in Nat /\ worst \in Nat
      /\ worst * p.volume <= LossCapacity(m)
      /\ m.open + worst * p.volume <= RiskCeiling(m)
  BY PricingAssumption DEF Afforded, Loss
<1>2. /\ o.stop \in Int /\ s.side \in {"buy", "sell"}
      /\ m.open \in Nat /\ m.equity \in Int
  BY DEF Tickets, Setup, Market
<1>3. GoldAllowance \in Nat BY PricingAssumption
<1>4. Sign(s) \in {1, -1} BY <1>2 DEF Sign
<1>5. p.guard # NoGuard =>
        /\ p.guard.reference \in Int /\ p.guard.allowance = GoldAllowance /\ GoldAllowance # 0
  BY <1>1 DEF Guards
<1>6. p.guard # NoGuard => Sign(s) * p.guard.allowance \in Int BY <1>3, <1>4, <1>5
<1>7. gap \in Nat /\ gap <= worst
  <2>1. CASE fill = p.entry
    <3>1. gap \in Nat BY <1>1, <1>2, <2>1 DEF Gap
    <3>2. CASE p.guard.allowance = 0 BY <2>1, <3>1, <3>2 DEF Worst
    <3>3. CASE p.guard.allowance # 0
      <4>1. p.guard # NoGuard BY <3>3 DEF NoGuard
      <4>2. worst = Most(gap, Gap(p.guard.reference + Sign(s) * p.guard.allowance, o.stop))
        BY <2>1, <3>3 DEF Worst
      <4>3. Gap(p.guard.reference + Sign(s) * p.guard.allowance, o.stop) \in Nat
        BY <1>2, <1>5, <1>6, <4>1 DEF Gap
      <4> HIDE DEF gap, worst
      <4> QED BY <3>1, <4>2, <4>3 DEF Most
    <3> QED BY <3>2, <3>3
  <2>2. CASE p.guard # NoGuard /\ fill = p.guard.reference + Sign(s) * p.guard.allowance
    <3>1. gap \in Nat BY <1>2, <1>5, <1>6, <2>2 DEF Gap
    <3>2. Gap(p.entry, o.stop) \in Nat BY <1>1, <1>2 DEF Gap
    <3>3. worst = Most(Gap(p.entry, o.stop), gap) BY <1>5, <2>2 DEF Worst
    <3> HIDE DEF gap, worst
    <3> QED BY <3>1, <3>2, <3>3 DEF Most
  <2> QED BY <2>1, <2>2 DEF Fills
<1> HIDE DEF gap, worst
<1>8. v \in Nat /\ v <= p.volume BY <1>1
<1>9. loss \in Nat /\ loss <= worst * p.volume BY <1>1, <1>7, <1>8, Grows
<1>10. worst * p.volume \in Nat BY <1>1
<1> DEFINE paid == worst * p.volume
<1> HIDE DEF loss
<1>11. RiskCeiling(m) \in Int BY <1>2 DEF RiskCeiling
<1>12. m.open + loss <= RiskCeiling(m) BY <1>1, <1>2, <1>9, <1>10, <1>11
<1>13. loss <= LossCapacity(m) /\ LossCapacity(m) \in Int
  <2>1. LossCapacity(m) \in Int
    BY <1>2 DEF LossCapacity, Least, Most, DailyLimit, TotalLimit, DayStart
  <2> QED BY <2>1, <1>1, <1>9, <1>10
<1>14. \A limit \in {DailyLimit, TotalLimit} :
         Most(0, DayStart - m.equity) + m.open + loss <= limit
  BY <1>2, <1>9, <1>13 DEF LossCapacity, Least, Most, DailyLimit, TotalLimit, DayStart
<1> QED BY <1>12, <1>14 DEF Bears, loss, gap

(* Neither the lots nor the loss exceeds what was reviewed.                  *)
LEMMA CappedRight ==
  ASSUME NEW p \in Prices, NEW gap \in Nat \ {0}, p.volume \in 1..MaxLots,
         p.risk = gap * p.volume, NEW volume \in Nat, NEW risk \in Int
  PROVE  LET c == Capped(p, volume, risk) IN
           /\ c \in Prices /\ c.entry = p.entry /\ c.guard = p.guard
           /\ c.volume <= p.volume /\ c.volume <= volume
           /\ c.risk = gap * c.volume /\ c.risk <= risk
<1> DEFINE perLot == p.risk \div p.volume
           most == Least(volume, risk \div perLot)
           lots == Least(p.volume, most)
           c == Capped(p, volume, risk)
<1>1. p.volume \in Nat \ {0} BY PricingAssumption
<1>2. perLot = gap
  <2>1. p.risk = p.volume * gap BY <1>1
  <2> DEFINE v == p.volume
  <2>2. v \in Nat \ {0} BY <1>1
  <2>3. perLot = (v * gap) \div v BY <2>1
  <2> HIDE DEF v, perLot
  <2> QED BY <2>2, <2>3
<1> HIDE DEF perLot
<1>3. risk \div gap \in Int /\ gap * (risk \div gap) <= risk OBVIOUS
<1>4. most \in Int /\ most <= volume /\ most <= risk \div gap BY <1>2, <1>3 DEF Least
<1> HIDE DEF most
<1>5. lots \in Int /\ lots <= p.volume /\ lots <= most BY <1>1, <1>4 DEF Least
<1>6. c = [p EXCEPT !.volume = lots, !.risk = perLot * lots] BY DEF Capped, perLot, most
<1> HIDE DEF lots, c
<1>7. gap * lots \in Int /\ gap * lots <= risk
  <2> DEFINE q == risk \div gap
  <2>1. q \in Int /\ lots \in Int /\ lots <= q BY <1>3, <1>4, <1>5
  <2>2. gap * q <= risk BY <1>3
  <2> HIDE DEF q
  <2>3. gap * lots <= gap * q BY <2>1
  <2>4. gap * lots \in Int /\ gap * q \in Int BY <2>1
  <2> QED BY <2>2, <2>3, <2>4
<1>8. c.volume = lots /\ c.risk = gap * lots /\ c.entry = p.entry /\ c.guard = p.guard
  BY <1>2, <1>6 DEF Prices
<1>9. c \in Prices
  <2>1. perLot * lots \in Int BY <1>2, <1>7
  <2> QED BY <1>5, <1>6, <2>1 DEF Prices
<1>10. c.volume <= volume BY <1>4, <1>5, <1>8
<1> QED BY <1>5, <1>7, <1>8, <1>9, <1>10 DEF c

-----------------------------------------------------------------------------
(* What an approval lays down. *)

(* Converted levels are whole points.                                        *)
LEMMA LevelsAreNumbers ==
  ASSUME NEW s \in Setups, NEW m \in Market
  PROVE  /\ Executable(s, m) \in Int
         /\ \A price \in Int : OnTick(price) \in Int
         /\ \A live \in Int, level \in Int : Relative(live, s.entry, level) \in Int
         /\ Managed(s) => \A live \in Int, price \in Int : Scaled(s, live, price) \in Int
<1>1. /\ s \in Setup /\ Tick \in Nat \ {0} /\ s.entry \in Nat \ {0} /\ s.observed \in Nat
      /\ s.kind = "managed" /\ ~s.native => s.observed > 0
  BY PricingAssumption DEF Setup
<1>2. Executable(s, m) \in Int BY DEF Market, Executable
<1>3. ASSUME NEW price \in Int PROVE OnTick(price) \in Int
  <2>1. price \div Tick \in Int BY <1>1
  <2> DEFINE q == price \div Tick
  <2>2. OnTick(price) = q * Tick BY DEF OnTick
  <2> HIDE DEF q
  <2>3. q \in Int BY <2>1 DEF q
  <2> QED BY <1>1, <2>2, <2>3
<1>4. ASSUME NEW live \in Int, NEW level \in Int PROVE Relative(live, s.entry, level) \in Int
  <2> DEFINE price == (live * (s.entry + (level - s.entry))) \div s.entry
  <2>1. live * (s.entry + (level - s.entry)) \in Int BY <1>1
  <2>2. price \in Int BY <1>1, <2>1
  <2>3. Relative(live, s.entry, level) = OnTick(price) BY DEF Relative
  <2> HIDE DEF price
  <2> QED BY <1>3, <2>2, <2>3
<1>5. ASSUME Managed(s), NEW live \in Int, NEW price \in Int PROVE Scaled(s, live, price) \in Int
  <2>1. CASE s.native BY <2>1 DEF Scaled
  <2>2. CASE ~s.native
    <3>1. s.observed \in Nat \ {0} BY <1>1, <1>5, <2>2 DEF Managed
    <3>2. price * live \in Int OBVIOUS
    <3>3. (price * live) \div s.observed \in Int BY <3>1, <3>2
    <3> QED BY <2>2, <3>3 DEF Scaled
  <2> QED BY <2>1, <2>2
<1> QED BY <1>2, <1>3, <1>4, <1>5

(* Levels that follow the market, or stay.                                   *)
LEMMA FollowedRight ==
  ASSUME NEW s \in Setups, NEW m \in Market, NEW o, TicketRight(s, o)
  PROVE  LET f == Followed(s, m, o) IN
           /\ TicketRight(s, f) /\ SameOrder(f, o) /\ SameSize(f, o)
           /\ f.stage = o.stage /\ f.type = o.type /\ f.entry = o.entry
           /\ f.guard = o.guard /\ f.pendingOnly = o.pendingOnly
           /\ ~Follows(s, o) => f = o
<1> DEFINE stop == Relative(Executable(s, m), s.entry, s.stop)
           target == Relative(Executable(s, m), s.entry, s.target)
           f == Followed(s, m, o)
<1>1. CASE ~Follows(s, o) BY <1>1 DEF Followed, SameOrder, SameSize
<1>2. CASE Follows(s, o)
  <2>1. f = [o EXCEPT !.stop = stop, !.target = target] BY <1>2 DEF Followed
  <2>2. stop \in Int /\ target \in Int
    <3>1. s.stop \in Int /\ s.target \in Int BY PricingAssumption DEF Setup
    <3> QED BY <3>1, LevelsAreNumbers
  <2> HIDE DEF stop, target, f
  <2>3. o \in Tickets BY DEF TicketRight, OrderRight
  <2>4. f \in Tickets BY <2>1, <2>2, <2>3 DEF Tickets
  <2>5. SameOrder(f, o) /\ SameSize(f, o) BY <2>1, <2>3 DEF Tickets, SameOrder, SameSize
  <2>6. /\ f.stage = o.stage /\ f.type = o.type /\ f.entry = o.entry
        /\ f.guard = o.guard /\ f.pendingOnly = o.pendingOnly
    BY <2>1, <2>3 DEF Tickets
  <2>7. TicketRight(s, f)
    BY <2>4, <2>5, <2>6 DEF TicketRight, OrderRight, SameOrder, SameSize, Spread, LotsRight
  <2> QED BY <1>2, <2>5, <2>6, <2>7 DEF f
<1> QED BY <1>1, <1>2

(* An order with its plan divided for what it is priced at.                  *)
LEMMA LaidRight ==
  ASSUME NEW s \in Setup, NEW m \in Market, NEW o, TicketRight(s, o),
         NEW p \in Prices, NEW gap \in Nat \ {0}, p.volume \in 1..MaxLots,
         p.risk = gap * p.volume, Ladder(s, m, o, p).valid
  PROVE  LET f == Ladder(s, m, o, p).order IN
           /\ f \in Tickets /\ SameOrder(f, o) /\ SameLevels(f, o)
           /\ f.stage = o.stage /\ f.type = o.type /\ f.pendingOnly = o.pendingOnly
           /\ f.entry = p.entry /\ f.guard = p.guard
           /\ f.volume \in 0..p.volume /\ f.risk = gap * f.volume
           /\ o.targets = <<>> => f.lots = o.lots
           /\ o.targets # <<>> => LotsRight(f) /\ f.volume <= o.size
<1> DEFINE f == Ladder(s, m, o, p).order
<1>1. o \in Tickets /\ Spread(s, o) BY DEF TicketRight, OrderRight
<1>2. /\ p.entry \in Int /\ p.risk \in Int /\ p.guard \in Guards /\ p.volume \in Nat \ {0}
      /\ p.volume <= MaxLots /\ MaxLots \in Nat
  BY PricingAssumption DEF Prices
<1>3. CASE o.targets = <<>>
  <2>1. f = Filled(o, p) BY <1>3 DEF Ladder
  <2>2. p.volume \in Volumes BY <1>2 DEF Volumes
  <2>3. f \in Tickets /\ f.entry = p.entry /\ f.volume = p.volume /\ f.risk = p.risk
        /\ f.guard = p.guard /\ SameOrder(f, o) /\ SameLevels(f, o) /\ f.stage = o.stage
        /\ f.type = o.type /\ f.pendingOnly = o.pendingOnly /\ f.lots = o.lots
    BY <1>1, <1>2, <2>1, <2>2, FilledRight
  <2>4. f.volume \in 0..p.volume BY <1>2, <2>3
  <2> HIDE DEF f
  <2> QED BY <1>3, <2>3, <2>4 DEF f
<1>4. CASE o.targets # <<>>
  <2> DEFINE lots == Least(p.volume, o.size)
             fitted == [p EXCEPT !.volume = lots, !.risk = (@ \div p.volume) * lots]
             filled == Filled(o, fitted)
  <2>1. f = Divided(filled) /\ MayDivide(filled) BY <1>4 DEF Ladder
  <2>2. lots \in 0..p.volume /\ lots <= o.size
    <3>1. o.size \in Nat BY <1>1, <1>2 DEF Tickets, Volumes
    <3> QED BY <1>2, <3>1 DEF Least
  <2> HIDE DEF lots
  <2>3. p.risk \div p.volume = gap
    <3> DEFINE v == p.volume
    <3>1. v \in Nat \ {0} /\ p.risk = v * gap BY <1>2
    <3>2. p.risk \div p.volume = (v * gap) \div v BY <3>1
    <3> HIDE DEF v
    <3> QED BY <3>1, <3>2
  <2>4. fitted = [p EXCEPT !.volume = lots, !.risk = gap * lots] BY <2>3 DEF Prices
  <2>5. gap * lots \in Int BY <1>2, <2>2
  <2> HIDE DEF fitted
  <2>6. /\ fitted.entry = p.entry /\ fitted.guard = p.guard
        /\ fitted.volume = lots /\ fitted.risk = gap * lots
    BY <2>4 DEF Prices
  <2>7. lots \in Volumes BY <1>2, <2>2 DEF Volumes
  <2>8. /\ filled \in Tickets /\ filled.entry = p.entry /\ filled.volume = lots
        /\ filled.risk = gap * lots /\ filled.guard = p.guard
        /\ SameOrder(filled, o) /\ SameLevels(filled, o) /\ filled.stage = o.stage
        /\ filled.type = o.type /\ filled.pendingOnly = o.pendingOnly
    BY <1>1, <1>2, <2>5, <2>6, <2>7, FilledRight
  <2> HIDE DEF filled
  <2>9. filled.targets = o.targets /\ Len(o.targets) \in 1..4
    BY <1>1, <1>4, <2>8 DEF SameOrder, Spread
  <2>10. /\ f \in Tickets /\ LotsRight(f)
         /\ SameOrder(f, filled) /\ SameLevels(f, filled) /\ f.stage = filled.stage
         /\ f.type = filled.type /\ f.entry = filled.entry /\ f.pendingOnly = filled.pendingOnly
         /\ f.volume = filled.volume /\ f.risk = filled.risk /\ f.guard = filled.guard
    BY <1>4, <2>1, <2>8, <2>9, DividedRight
  <2> HIDE DEF f
  <2>11. SameOrder(f, o) /\ SameLevels(f, o) BY <2>8, <2>10 DEF SameOrder, SameLevels
  <2> QED BY <1>4, <2>2, <2>8, <2>10, <2>11 DEF f
<1> QED BY <1>3, <1>4

-----------------------------------------------------------------------------
(* What a draft is. *)

(* An order is drafted without a plan, a guard or a size.                    *)
LEMMA DraftRight ==
  ASSUME NEW s \in Setups, NEW m \in Market, DraftSound(s, m, Draft(s, m))
  PROVE  LET d == Draft(s, m) IN
           /\ OrderRight(s, d) /\ d.stage = "pending" /\ ~d.child /\ ~d.refreshed
           /\ d.guard = NoGuard /\ d.targets = <<>> /\ d.lots = <<>>
<1> DEFINE
      live == Executable(s, m)
      level(price) == CASE s.kind = "operator" -> price
                        [] s.kind = "relative" -> Relative(live, s.entry, price)
                        [] s.kind = "managed" -> OnTick(Scaled(s, live, price))
      planned == OnTick(Scaled(s, live, s.entry))
      low == Scaled(s, live, s.low)
      high == Scaled(s, live, s.high)
      invalidation == Scaled(s, live, s.invalidation)
      type == IF Managed(s) THEN EntryType(s, planned, live, low, high, s.type # "market")
              ELSE s.type
      stop == level(s.stop)
      target == level(s.target)
      plain == [NoOrder EXCEPT !.stage = "pending", !.type = type, !.stop = stop,
                  !.target = target, !.entry = s.entry]
      pendingOnly == type # "market"
      d == Draft(s, m)
<1>1. d = IF ~Managed(s) THEN plain
          ELSE [plain EXCEPT !.entry = planned, !.planned = planned, !.low = low,
                             !.high = high, !.invalidation = invalidation,
                             !.pendingOnly = pendingOnly]
  BY DEF Draft
<1>2. /\ s \in Setup /\ s.stop \in Int /\ s.target \in Int /\ s.entry \in Int
      /\ s.low \in Int /\ s.high \in Int /\ s.invalidation \in Int
      /\ s.kind \in {"operator", "relative", "managed"} /\ s.type \in Types
  BY PricingAssumption DEF Setup, Types
<1>3. /\ live \in Int
      /\ \A price \in Int : OnTick(price) \in Int
      /\ \A at \in Int, price \in Int : Relative(at, s.entry, price) \in Int
      /\ Managed(s) => \A at \in Int, price \in Int : Scaled(s, at, price) \in Int
  BY LevelsAreNumbers
<1> HIDE DEF live
<1>4. \A price \in Int : level(price) \in Int BY <1>2, <1>3 DEF Managed
<1>5. stop \in Int /\ target \in Int BY <1>2, <1>4
<1> HIDE DEF stop, target
<1>6. NoOrder \in Tickets /\ NoOrder.guard = NoGuard
  <2>1. NoGuard \in Guards /\ 0 \in Volumes
    BY PricingAssumption DEF Guards, Volumes
  <2>2. <<>> \in Seq(Int) OBVIOUS
  <2> QED BY <2>1, <2>2 DEF NoOrder, Tickets, Stages, Types
<1>7. CASE ~Managed(s)
  <2>1. d = [NoOrder EXCEPT !.stage = "pending", !.type = s.type, !.stop = stop,
                            !.target = target, !.entry = s.entry]
    BY <1>1, <1>7
  <2> HIDE DEF d
  <2>2. d \in Tickets
    BY <1>2, <1>5, <1>6, <2>1 DEF Tickets, Stages
  <2>3. /\ d.stage = "pending" /\ ~d.child /\ ~d.refreshed /\ ~d.pendingOnly
        /\ d.guard = NoGuard /\ d.targets = <<>> /\ d.lots = <<>>
    BY <2>1 DEF NoOrder
  <2> QED BY <1>7, <2>2, <2>3 DEF OrderRight, Spread, d
<1>8. CASE Managed(s)
  <2>1. /\ planned \in Int /\ low \in Int /\ high \in Int /\ invalidation \in Int
    BY <1>2, <1>3, <1>8
  <2> HIDE DEF planned, low, high, invalidation
  <2>2. type \in Types \cup {"none"} BY <1>8 DEF EntryType, Types
  <2> HIDE DEF type
  <2>3. d = [plain EXCEPT !.entry = planned, !.planned = planned, !.low = low,
                          !.high = high, !.invalidation = invalidation,
                          !.pendingOnly = pendingOnly]
    BY <1>1, <1>8
  <2>4. /\ plain.type = type /\ plain.stage = "pending" /\ ~plain.child /\ ~plain.refreshed
        /\ plain.guard = NoGuard /\ plain.targets = <<>> /\ plain.lots = <<>>
    BY <1>6 DEF NoOrder
  <2>5. type # "none"
    <3>1. d.type # "none" BY <1>8 DEF DraftSound
    <3>2. d.type = plain.type BY <2>3
    <3> QED BY <2>4, <3>1, <3>2
  <2>6. plain \in Tickets
    <3>1. type \in Types BY <2>2, <2>5
    <3> QED BY <1>2, <1>5, <1>6, <3>1 DEF Tickets, Stages
  <2> HIDE DEF plain
  <2>7. pendingOnly \in BOOLEAN OBVIOUS
  <2>a. pendingOnly => type # "market" OBVIOUS
  <2>b. ~pendingOnly => type = "market" OBVIOUS
  <2> HIDE DEF pendingOnly, d
  <2>8. d \in Tickets BY <2>1, <2>3, <2>6, <2>7 DEF Tickets
  <2>9. /\ d.stage = "pending" /\ ~d.child /\ ~d.refreshed
        /\ d.guard = NoGuard /\ d.targets = <<>> /\ d.lots = <<>>
    BY <2>3, <2>4, <2>6 DEF Tickets
  <2>10. /\ d.type = type /\ d.pendingOnly = pendingOnly /\ d.entry = d.planned
    BY <2>3, <2>4, <2>6 DEF Tickets
  <2> QED BY <1>8, <2>8, <2>9, <2>10, <2>a, <2>b DEF OrderRight, Spread, d
<1> QED BY <1>7, <1>8

(* A priced order whose plan is divided.                                     *)
LEMMA MadeRight ==
  ASSUME NEW s \in Setup, NEW o, OrderRight(s, o), NEW p, p.entry \in Int, p.volume \in Volumes,
         p.risk \in Int, p.guard \in Guards, p.guard # NoGuard => o.type = "market",
         o.type # "market" => p.entry = o.entry, MayDivide(Filled(o, p)),
         o.targets = <<>> => o.lots = <<>>
  PROVE  LET f == Divided(Filled(o, p)) IN
           /\ TicketRight(s, f) /\ f.stage = o.stage
           /\ f.guard = p.guard /\ f.volume = p.volume
<1> DEFINE e == Filled(o, p)
           f == Divided(e)
<1>1. /\ o \in Tickets /\ Spread(s, o) BY DEF OrderRight
<1>2. /\ e \in Tickets /\ e.entry = p.entry /\ e.volume = p.volume /\ e.guard = p.guard
      /\ SameOrder(e, o) /\ e.stage = o.stage /\ e.type = o.type
      /\ e.pendingOnly = o.pendingOnly /\ e.lots = o.lots
  BY <1>1, FilledRight
<1>a. MayDivide(e) OBVIOUS
<1> HIDE DEF e
<1>3. e.targets = o.targets /\ (e.targets # <<>> => Len(e.targets) \in 1..4)
  BY <1>1, <1>2 DEF SameOrder, Spread
<1>4. /\ f \in Tickets
      /\ e.targets = <<>> => f = e
      /\ e.targets # <<>> => LotsRight(f)
      /\ SameOrder(f, e) /\ f.stage = e.stage /\ f.type = e.type
      /\ f.entry = e.entry /\ f.pendingOnly = e.pendingOnly
      /\ f.volume = e.volume /\ f.guard = e.guard
  BY <1>2, <1>3, <1>a, DividedRight
<1> HIDE DEF f
<1>5. SameOrder(f, o) BY <1>2, <1>4 DEF SameOrder
<1>6. Spread(s, f) BY <1>1, <1>5 DEF Spread, SameOrder
<1>7. OrderRight(s, f) BY <1>2, <1>4, <1>5, <1>6 DEF OrderRight, SameOrder
<1>8. Len(f.lots) \in {0, Len(f.targets)}
  <2>1. CASE o.targets = <<>>
    <3>1. f.lots = <<>> BY <1>2, <1>3, <1>4, <2>1
    <3> QED BY <3>1
  <2>2. CASE o.targets # <<>> BY <1>3, <1>4, <2>2 DEF LotsRight
  <2> QED BY <2>1, <2>2
<1>9. f.targets # <<>> => LotsRight(f) BY <1>3, <1>4, <1>5 DEF SameOrder
<1> QED BY <1>2, <1>4, <1>7, <1>8, <1>9 DEF TicketRight, e, f

-----------------------------------------------------------------------------
(* The invariant of pricing. *)

(* The targets that an analysis chose.                                       *)
Choice(s, l) ==
  /\ s.ladder /\ l.chosen \in Seq(Nat) /\ Len(l.chosen) \in 1..4
  /\ \A c \in Usable(s, l.offered) : Ahead(s, l.chosen[1]) <= Ahead(s, c.price)
  /\ Spaced(Sign(s), l.chosen, s.entry, s.stop, 1, 0)

(* What is pending is what was shown, and its guard allows its lots.         *)
Reviewed(o, h) ==
  /\ o.guard # NoGuard => o.guard.maximum = o.volume
  /\ h # NoOrder => AsShown(o, h)

PricingInv ==
  /\ market \in Market /\ seen \in Market /\ setup \in Setups /\ shown \in Tickets
  /\ ladder = NoLadder \/ Choice(setup, ladder)
  /\ TicketRight(setup, ticket)
  /\ ticket.stage = "none" => shown = NoOrder
  /\ ticket.stage = "pending" => Reviewed(ticket, shown)
  /\ LossWithinLimits /\ ReviewedIsCeiling /\ PendingStays

(* An order with the targets of its setup.                                   *)
LEMMA TargetedRight ==
  ASSUME PricingInv, PlanStands, NEW o, OrderRight(setup, o), o.targets = <<>>,
         TargetsSound(setup, market, WithTargets(setup, market, o))
  PROVE  LET w == WithTargets(setup, market, o) IN
           /\ OrderRight(setup, w) /\ w.stage = o.stage /\ w.type = o.type /\ w.lots = o.lots
           /\ w.targets = <<>> \/ setup.ladder
<1> DEFINE entry == IF Managed(setup) THEN o.planned ELSE Executable(setup, market)
           targets == ConvertPlan(setup, ladder.chosen, entry)
           last == targets[Len(targets)]
           w == WithTargets(setup, market, o)
<1>1. /\ setup \in Setups /\ setup \in Setup /\ market \in Market /\ o \in Tickets
      /\ Tick \in Nat \ {0}
  BY PricingAssumption DEF PricingInv, OrderRight
<1>2. CASE ~setup.ladder BY <1>2 DEF WithTargets
<1>3. CASE setup.ladder
  <2>1. w = [o EXCEPT !.targets = targets, !.target = last] BY <1>3 DEF WithTargets
  <2>2. ladder.chosen \in Seq(Nat) /\ Len(ladder.chosen) \in 1..4
    BY <1>3 DEF PricingInv, PlanStands, Choice
  <2>3. entry \in Int BY <1>1, LevelsAreNumbers DEF Tickets
  <2>4. ValidPlan(Sign(setup), w.targets, entry, w.stop, Tick, market.minimum)
    BY <1>3 DEF TargetsSound, WithTargets
  <2> DEFINE price(i) == OnTick((ladder.chosen[i] * entry) \div setup.entry)
  <2>5. targets = [i \in 1..Len(ladder.chosen) |-> price(i)] BY <2>2 DEF ConvertPlan
  <2>6. \A i \in 1..Len(ladder.chosen) : price(i) \in Int
    <3> SUFFICES ASSUME NEW i \in 1..Len(ladder.chosen) PROVE price(i) \in Int OBVIOUS
    <3>1. ladder.chosen[i] \in Nat BY <2>2
    <3>2. setup.entry \in Nat \ {0} BY <1>1 DEF Setup
    <3> HIDE DEF entry
    <3>3. ladder.chosen[i] * entry \in Int BY <2>3, <3>1
    <3>4. (ladder.chosen[i] * entry) \div setup.entry \in Int BY <3>2, <3>3
    <3> QED BY <1>1, <3>4, LevelsAreNumbers
  <2> HIDE DEF entry, targets, price, w
  <2>7. targets \in Seq(Int) /\ Len(targets) = Len(ladder.chosen) BY <2>2, <2>5, <2>6
  <2>8. Len(targets) \in 1..4 /\ last \in Int
    <3>1. Len(targets) \in 1..4 BY <2>2, <2>7
    <3> DEFINE n == Len(targets)
    <3>2. n \in 1..n /\ targets \in [1..n -> Int] BY <2>7, <3>1
    <3> HIDE DEF n
    <3>3. targets[n] \in Int BY <3>2
    <3> QED BY <3>1, <3>3 DEF n
  <2> HIDE DEF last
  <2>9. w \in Tickets BY <1>1, <2>1, <2>7, <2>8 DEF Tickets
  <2>10. /\ w.targets = targets /\ w.stage = o.stage /\ w.type = o.type /\ w.lots = o.lots
         /\ w.refreshed = o.refreshed /\ w.child = o.child /\ w.guard = o.guard
         /\ w.pendingOnly = o.pendingOnly /\ w.entry = o.entry /\ w.planned = o.planned
    BY <1>1, <2>1 DEF Tickets
  <2>11. Spread(setup, w)
    <3>1. Sign(setup) \in {1, -1} BY DEF Sign
    <3>2. ASSUME NEW i \in DOMAIN targets, i > 1
          PROVE  Sign(setup) * (targets[i] - targets[i - 1]) > 0
      <4>1. i \in 1..Len(targets) /\ i - 1 \in 1..Len(targets) BY <2>7, <2>8, <3>2
      <4>2. targets[i] \in Int /\ targets[i - 1] \in Int BY <2>7, <4>1
      <4>3. Sign(setup) * (targets[i] - targets[i - 1]) >= Tick
        BY <2>4, <2>10, <3>2, <4>1 DEF ValidPlan, Spaced
      <4>4. Sign(setup) * (targets[i] - targets[i - 1]) \in Int BY <3>1, <4>2
      <4> QED BY <1>1, <4>3, <4>4
    <3> QED BY <2>8, <2>10, <3>2 DEF Spread
  <2> QED BY <1>3, <2>9, <2>10, <2>11 DEF OrderRight, w
<1> QED BY <1>2, <1>3

-----------------------------------------------------------------------------
(* Every step keeps the invariant of pricing. *)

(* While nothing is placed, nothing may be lost.                             *)
LEMMA UnplacedSafe ==
  ASSUME ticket'.stage \notin {"approved", "delivered"}, TicketRight(setup', ticket')
  PROVE  LossWithinLimits' /\ ReviewedIsCeiling' /\ PendingStays'
<1>1. ~Placed' BY DEF Placed
<1> QED BY <1>1 DEF LossWithinLimits, ReviewedIsCeiling, PendingStays, TicketRight, OrderRight

(* Nothing is priced or shown at first.                                      *)
LEMMA PricingStarts == PricingInit => PricingInv
<1> SUFFICES ASSUME PricingInit PROVE PricingInv OBVIOUS
<1>1. /\ market \in Market /\ seen \in Market /\ setup \in Setups /\ ladder = NoLadder
      /\ ticket = NoOrder /\ shown = NoOrder
  BY PricingAssumption DEF PricingInit
<1>2. NoOrder \in Tickets
  <2>1. NoGuard \in Guards /\ 0 \in Volumes BY PricingAssumption DEF Guards, Volumes
  <2>2. <<>> \in Seq(Int) OBVIOUS
  <2> QED BY <2>1, <2>2 DEF NoOrder, Tickets, Stages, Types
<1>3. /\ NoOrder.stage = "none" /\ ~NoOrder.child /\ ~NoOrder.refreshed /\ ~NoOrder.pendingOnly
      /\ NoOrder.guard = NoGuard /\ NoOrder.targets = <<>> /\ NoOrder.lots = <<>>
      /\ NoOrder.type = "market"
  BY DEF NoOrder
<1>4. TicketRight(setup, ticket) BY <1>1, <1>2, <1>3 DEF TicketRight, OrderRight, Spread
<1>5. ~Placed BY <1>1, <1>3 DEF Placed
<1>6. LossWithinLimits /\ ReviewedIsCeiling /\ PendingStays
  BY <1>4, <1>5
  DEF LossWithinLimits, ReviewedIsCeiling, PendingStays, TicketRight, OrderRight
<1> QED BY <1>1, <1>2, <1>3, <1>4, <1>6 DEF PricingInv

(* A change of the market leaves the order as it was priced.                 *)
LEMMA ChangeMarketKeeps == PricingInv /\ ChangeMarket => PricingInv'
<1> SUFFICES ASSUME PricingInv, ChangeMarket PROVE PricingInv' OBVIOUS
<1>1. market' \in Market BY PricingAssumption DEF ChangeMarket
<1>2. UNCHANGED <<setup, ladder, ticket, shown, seen>> BY DEF ChangeMarket
<1> QED
  BY <1>1, <1>2
  DEF PricingInv, LossWithinLimits, ReviewedIsCeiling, PendingStays, Placed

(* A publication shows the order as it was made.                             *)
LEMMA PublishKeeps == PricingInv /\ Publish => PricingInv'
<1> SUFFICES ASSUME PricingInv, Publish PROVE PricingInv' OBVIOUS
<1>1. /\ UNCHANGED <<market, setup, ladder, ticket, seen>> /\ shown' = ticket
      /\ ticket.stage = "pending"
  BY DEF Publish
<1>2. TicketRight(setup', ticket') /\ ticket' \in Tickets
  BY <1>1 DEF PricingInv, TicketRight, OrderRight
<1>3. LossWithinLimits' /\ ReviewedIsCeiling' /\ PendingStays' BY <1>1, <1>2, UnplacedSafe
<1>4. Reviewed(ticket', shown') BY <1>1 DEF PricingInv, Reviewed, AsShown
<1> QED BY <1>1, <1>2, <1>3, <1>4 DEF PricingInv

(* A proposal is made of the analysis, its targets and the price of an       *)
(* order.                                                                    *)
LEMMA DraftKeeps == PricingInv /\ DraftProposal => PricingInv'
<1> SUFFICES ASSUME PricingInv, DraftProposal PROVE PricingInv' OBVIOUS
<1> DEFINE draft == Draft(setup, market)
           planned == WithTargets(setup, market, draft)
           priced == Price(setup, market, planned, 0, Managed(setup), Managed(setup), TRUE)
           made == Divided(Filled(planned, priced))
<1>1. /\ ticket = NoOrder /\ PlanStands
      /\ DraftSound(setup, market, draft) /\ TargetsSound(setup, market, planned)
      /\ priced.refusal = "none" /\ MayDivide(Filled(planned, priced))
      /\ ticket' = made
      /\ seen' = market /\ UNCHANGED <<market, setup, ladder, shown>>
  BY DEF DraftProposal
<1>2. setup \in Setups /\ setup \in Setup /\ market \in Market /\ MaxLots \in Nat
  BY PricingAssumption DEF PricingInv
<1>3. /\ OrderRight(setup, draft) /\ draft.stage = "pending" /\ ~draft.child
      /\ ~draft.refreshed /\ draft.guard = NoGuard /\ draft.targets = <<>> /\ draft.lots = <<>>
  BY <1>1, <1>2, DraftRight
<1> HIDE DEF draft
<1>4. OrderRight(setup, planned) /\ planned.stage = "pending" /\ planned.lots = <<>>
  BY <1>1, <1>3, TargetedRight
<1> HIDE DEF planned
<1>5. Afforded(setup, market, planned, priced)
  <2>1. planned \in Tickets BY <1>4 DEF OrderRight
  <2>2. 0 \in Int /\ Managed(setup) \in BOOLEAN /\ TRUE \in BOOLEAN BY DEF Managed
  <2> QED BY <1>1, <1>2, <2>1, <2>2, PriceAffords
<1> HIDE DEF priced
<1>6. /\ priced.entry \in Int /\ priced.volume \in Volumes /\ priced.risk \in Int
      /\ priced.guard \in Guards
      /\ priced.guard # NoGuard => planned.type = "market" /\ priced.guard.maximum = priced.volume
      /\ planned.type # "market" => priced.entry = planned.entry
  BY <1>2, <1>5 DEF Afforded, Prices, Volumes
<1>7. /\ TicketRight(setup, made) /\ made.stage = "pending"
      /\ made.guard = priced.guard /\ made.volume = priced.volume
  BY <1>1, <1>2, <1>4, <1>6, MadeRight
<1> HIDE DEF made
<1>8. LossWithinLimits' /\ ReviewedIsCeiling' /\ PendingStays' BY <1>1, <1>7, UnplacedSafe
<1>9. shown' = NoOrder BY <1>1 DEF PricingInv, NoOrder
<1>10. Reviewed(ticket', shown') BY <1>1, <1>6, <1>7, <1>9 DEF Reviewed
<1> QED BY <1>1, <1>2, <1>7, <1>8, <1>9, <1>10 DEF PricingInv

(* A replacement that is priced again may change its size: it was not        *)
(* shown yet.                                                                *)
LEMMA RefreshKeeps == PricingInv /\ RefreshReplacement => PricingInv'
<1> SUFFICES ASSUME PricingInv, RefreshReplacement PROVE PricingInv' OBVIOUS
<1> DEFINE priced == Price(setup, market, ticket, 0, FALSE, FALSE, FALSE)
           filled == Filled(ticket, priced)
<1>1. /\ ticket.stage = "pending" /\ ticket.child /\ shown = NoOrder
      /\ priced.refusal = "none"
      /\ ticket' = [filled EXCEPT !.refreshed = TRUE]
      /\ seen' = market /\ UNCHANGED <<market, setup, ladder, shown>>
  BY DEF RefreshReplacement
<1>2. /\ setup \in Setup /\ market \in Market /\ MaxLots \in Nat
      /\ TicketRight(setup, ticket) /\ ticket \in Tickets
  BY PricingAssumption DEF PricingInv, TicketRight, OrderRight
<1>3. Afforded(setup, market, ticket, priced)
  <2>1. 0 \in Int /\ FALSE \in BOOLEAN OBVIOUS
  <2> QED BY <1>1, <1>2, <2>1, PriceAffords
<1> HIDE DEF priced
<1>4. ticket.type # "market" BY <1>1, <1>2 DEF TicketRight, OrderRight
<1>5. /\ priced.entry \in Int /\ priced.volume \in Volumes /\ priced.risk \in Int
      /\ priced.guard \in Guards /\ priced.guard = NoGuard /\ priced.entry = ticket.entry
  BY <1>2, <1>3, <1>4 DEF Afforded, Prices, Volumes
<1>6. /\ filled \in Tickets /\ filled.entry = ticket.entry /\ filled.guard = NoGuard
      /\ SameOrder(filled, ticket) /\ filled.stage = "pending" /\ filled.type = ticket.type
      /\ filled.pendingOnly = ticket.pendingOnly /\ filled.lots = ticket.lots
  BY <1>1, <1>2, <1>5, FilledRight
<1> HIDE DEF filled
<1>7. /\ ticket' \in Tickets /\ ticket'.entry = ticket.entry /\ ticket'.guard = NoGuard
      /\ ticket'.child /\ ticket'.refreshed /\ ticket'.planned = ticket.planned
      /\ ticket'.targets = ticket.targets /\ ticket'.stage = "pending"
      /\ ticket'.type = ticket.type /\ ticket'.pendingOnly = ticket.pendingOnly
      /\ ticket'.lots = ticket.lots
  BY <1>1, <1>6 DEF Tickets, SameOrder
<1>8. TicketRight(setup', ticket') BY <1>1, <1>2, <1>7 DEF TicketRight, OrderRight, Spread
<1>9. LossWithinLimits' /\ ReviewedIsCeiling' /\ PendingStays' BY <1>7, <1>8, UnplacedSafe
<1>10. Reviewed(ticket', shown') BY <1>1, <1>7 DEF Reviewed
<1> QED BY <1>1, <1>7, <1>8, <1>9, <1>10 DEF PricingInv

(* What replaces an order waits, at a price of its own.                      *)
LEMMA ChildRight ==
  ASSUME PricingInv, Replaceable
  PROVE  /\ OrderRight(setup, ChildDraft) /\ ChildDraft.stage = "pending"
         /\ ChildDraft.type # "market"
         /\ ChildDraft.targets = <<>> => ChildDraft.lots = <<>>
<1> DEFINE
      entry == IF Managed(setup) THEN ticket.planned
               ELSE IF ticket.guard # NoGuard THEN ticket.guard.reference ELSE ticket.entry
      pending == [ticket EXCEPT !.pendingOnly = TRUE]
      type == IF Managed(setup) THEN EntryAttempt(setup, market, pending, TRUE).order.type
              ELSE "limit"
      managed == Managed(setup)
      draft == ChildDraft
<1>1. draft = [ticket EXCEPT !.stage = "pending", !.child = TRUE, !.type = type, !.entry = entry,
                             !.guard = NoGuard, !.pendingOnly = managed, !.eligible = FALSE]
  BY DEF ChildDraft
<1>2. /\ TicketRight(setup, ticket) /\ ticket \in Tickets /\ ~ticket.child
  BY DEF PricingInv, TicketRight, OrderRight, Replaceable
<1>3. type \in {"limit", "stop"}
  <2>1. CASE ~Managed(setup) BY <2>1
  <2>2. CASE Managed(setup)
    <3> DEFINE found == EntryType(setup, pending.planned, Executable(setup, market), pending.low,
                                  pending.high, pending.pendingOnly)
               chosen == IF found # "none" THEN found
                         ELSE IF pending.type # "market" THEN pending.type ELSE "limit"
    <3>1. pending \in Tickets /\ pending.pendingOnly /\ pending.type \in Types
      BY <1>2 DEF Tickets
    <3> HIDE DEF pending
    <3>2. found \in {"limit", "stop", "none"} BY <3>1 DEF EntryType
    <3> HIDE DEF found
    <3>3. chosen \in {"limit", "stop"} BY <3>1, <3>2 DEF Types
    <3>4. EntryAttempt(setup, market, pending, TRUE).order
            = [pending EXCEPT !.type = chosen, !.guard = NoGuard, !.entry = pending.planned,
                              !.pendingOnly = TRUE]
      <4>1. chosen # "market" BY <3>3
      <4> QED BY <4>1 DEF EntryAttempt, found
    <3> HIDE DEF chosen
    <3>5. EntryAttempt(setup, market, pending, TRUE).order.type = chosen
      BY <3>1, <3>4 DEF Tickets
    <3> QED BY <2>2, <3>3, <3>5
  <2> QED BY <2>1, <2>2
<1> HIDE DEF type
<1>4. entry \in Int /\ (Managed(setup) => entry = ticket.planned)
  <2>1. ticket.guard # NoGuard => ticket.guard.reference \in Int BY <1>2 DEF Tickets, Guards
  <2> QED BY <1>2, <2>1 DEF Tickets
<1>5. managed \in BOOLEAN BY DEF Managed
<1> HIDE DEF entry, managed, draft
<1>6. NoGuard \in Guards BY DEF Guards
<1>7. draft \in Tickets
  <2>1. type \in Types /\ "pending" \in Stages BY <1>3 DEF Types, Stages
  <2> QED BY <1>1, <1>2, <1>4, <1>5, <1>6, <2>1 DEF Tickets
<1>8. /\ draft.stage = "pending" /\ draft.child /\ draft.type = type /\ draft.entry = entry
      /\ draft.guard = NoGuard /\ draft.pendingOnly = managed
      /\ draft.planned = ticket.planned /\ draft.targets = ticket.targets
      /\ draft.lots = ticket.lots
  BY <1>1, <1>2 DEF Tickets
<1>9. OrderRight(setup, draft)
  BY <1>2, <1>3, <1>4, <1>7, <1>8 DEF TicketRight, OrderRight, Spread, managed
<1>10. draft.targets = <<>> => draft.lots = <<>>
  <2>1. ASSUME ticket.targets = <<>> PROVE ticket.lots = <<>>
    <3>1. Len(ticket.lots) = 0 BY <1>2, <2>1 DEF TicketRight
    <3>2. ticket.lots \in Seq(Int) BY <1>2 DEF Tickets
    <3> QED BY <3>1, <3>2
  <2> QED BY <1>8, <2>1
<1> QED BY <1>3, <1>8, <1>9, <1>10 DEF draft

(* A replacement waits at its price; a managed one within what was           *)
(* reviewed.                                                                 *)
LEMMA ReplaceKeeps == PricingInv /\ Replace => PricingInv'
<1> SUFFICES ASSUME PricingInv, Replace PROVE PricingInv' OBVIOUS
<1> DEFINE draft == ChildDraft
           priced == Price(setup, market, draft, 0, Managed(setup), Managed(setup), TRUE)
           capped == IF Managed(setup) /\ priced.refusal = "none"
                     THEN Capped(priced, ticket.volume, ticket.risk) ELSE priced
           made == Filled(draft, capped)
<1>1. /\ Replaceable
      /\ priced.refusal = "none" /\ capped.volume >= 1 /\ MayDivide(made)
      /\ ticket' = Divided(made)
      /\ seen' = market /\ shown' = NoOrder /\ UNCHANGED <<market, setup, ladder>>
  BY DEF Replace
<1>2. /\ setup \in Setup /\ market \in Market /\ MaxLots \in Nat \ {0}
      /\ ticket \in Tickets
  BY PricingAssumption DEF PricingInv, TicketRight, OrderRight
<1>3. /\ OrderRight(setup, draft) /\ draft.stage = "pending" /\ draft.type # "market"
      /\ draft.targets = <<>> => draft.lots = <<>>
  BY <1>1, ChildRight
<1> HIDE DEF draft
<1>4. Afforded(setup, market, draft, priced)
  <2>1. draft \in Tickets BY <1>3 DEF OrderRight
  <2>2. 0 \in Int /\ Managed(setup) \in BOOLEAN /\ TRUE \in BOOLEAN BY DEF Managed
  <2> QED BY <1>1, <1>2, <2>1, <2>2, PriceAffords
<1> HIDE DEF priced
<1> DEFINE gap == Gap(priced.entry, draft.stop)
<1>5. /\ priced \in Prices /\ gap \in Nat \ {0} /\ priced.volume \in 1..MaxLots
      /\ priced.risk = gap * priced.volume /\ priced.guard = NoGuard
      /\ priced.entry = draft.entry
  BY <1>3, <1>4 DEF Afforded
<1> HIDE DEF gap
<1>6. /\ capped \in Prices /\ capped.entry = draft.entry /\ capped.guard = NoGuard
      /\ capped.volume <= priced.volume
  <2>1. CASE Managed(setup)
    <3>1. ticket.volume \in Nat /\ ticket.risk \in Int BY <1>2 DEF Tickets, Volumes
    <3>2. capped = Capped(priced, ticket.volume, ticket.risk) BY <1>1, <2>1
    <3> HIDE DEF capped
    <3> QED BY <1>5, <3>1, <3>2, CappedRight
  <2>2. CASE ~Managed(setup) BY <1>2, <1>5, <2>2
  <2> QED BY <2>1, <2>2
<1> HIDE DEF capped
<1>7. /\ capped.entry \in Int /\ capped.volume \in Volumes /\ capped.risk \in Int
      /\ capped.guard \in Guards
  BY <1>1, <1>2, <1>5, <1>6 DEF Prices, Volumes
<1>8. /\ TicketRight(setup, Divided(made)) /\ Divided(made).stage = "pending"
      /\ Divided(made).guard = NoGuard
  BY <1>1, <1>2, <1>3, <1>6, <1>7, MadeRight
<1> HIDE DEF made
<1>9. LossWithinLimits' /\ ReviewedIsCeiling' /\ PendingStays' BY <1>1, <1>8, UnplacedSafe
<1>10. Reviewed(ticket', shown') BY <1>1, <1>8 DEF Reviewed
<1>11. NoOrder \in Tickets
  <2>1. NoGuard \in Guards /\ 0 \in Volumes BY PricingAssumption DEF Guards, Volumes
  <2>2. <<>> \in Seq(Int) OBVIOUS
  <2> QED BY <2>1, <2>2 DEF NoOrder, Tickets, Stages, Types
<1> QED BY <1>1, <1>2, <1>8, <1>9, <1>10, <1>11 DEF PricingInv

(* The order that an approval prices, and what it makes of it.               *)
Attempted ==
  IF Managed(setup) THEN EntryAttempt(setup, market, ticket, FALSE).order ELSE ticket
ApprovalPrice ==
  LET o == Attempted
      reference == IF o.type = "market" /\ ~Managed(setup) THEN o.entry ELSE 0
  IN Price(setup, market, Followed(setup, market, o), reference,
           ticket.child \/ Managed(setup), FALSE, FALSE)
ApprovalReviewed ==
  IF PricedAgain(setup) THEN Capped(ApprovalPrice, Attempted.volume, Attempted.risk)
  ELSE ApprovalPrice
Approval == Ladder(setup, market, Followed(setup, market, Attempted), ApprovalReviewed)

(* What is attempted is what was shown, but for its type and price.          *)
LEMMA AttemptedRight ==
  ASSUME PricingInv, ticket.stage = "pending", shown # NoOrder
  PROVE  /\ TicketRight(setup, Attempted) /\ Attempted.stage = "pending"
         /\ AsShown(Attempted, shown)
         /\ Attempted.guard # NoGuard => Attempted.guard.maximum = Attempted.volume
<1>1. /\ TicketRight(setup, ticket) /\ AsShown(ticket, shown) /\ setup \in Setup
      /\ ticket.guard # NoGuard => ticket.guard.maximum = ticket.volume
  BY PricingAssumption DEF PricingInv, Reviewed
<1>2. CASE ~Managed(setup) BY <1>1, <1>2 DEF Attempted
<1>3. CASE Managed(setup)
  <2>a. TicketRight(setup, ticket) /\ setup \in Setup /\ Managed(setup) /\ market \in Market
    BY <1>1, <1>3 DEF PricingInv
  <2> DEFINE o == Attempted
  <2>1. o = EntryAttempt(setup, market, ticket, FALSE).order BY <1>3 DEF Attempted
  <2> HIDE DEF o
  <2>2. /\ TicketRight(setup, o) /\ o.guard \in {NoGuard, ticket.guard}
        /\ SameOrder(o, ticket) /\ SameLevels(o, ticket) /\ SameSize(o, ticket)
        /\ SameStage(o, ticket)
    BY <2>a, <2>1, AttemptRight
  <2>b. o.stage = "pending" BY <2>2 DEF SameStage
  <2>3. AsShown(o, shown) BY <1>1, <2>2 DEF AsShown, SameOrder, SameLevels, SameSize
  <2>4. o.guard # NoGuard => o.guard.maximum = o.volume BY <1>1, <2>2 DEF SameSize
  <2> QED BY <1>1, <2>2, <2>b, <2>3, <2>4 DEF o
<1> QED BY <1>2, <1>3

(* An approval that is refused leaves the order pending, or invalid.         *)
LEMMA RefusalKeeps ==
  ASSUME PricingInv, Approve,
         \/ ticket' = [ticket EXCEPT !.stage = "invalid"]
         \/ ticket' = Attempted
         \/ \E reason : ticket' = Refused(Attempted, reason)
  PROVE  TicketRight(setup, ticket') /\ ticket'.stage \in {"pending", "invalid"}
         /\ (ticket'.stage = "pending" => Reviewed(ticket', shown))
<1>1. ticket.stage = "pending" /\ shown # NoOrder BY DEF Approve
<1>2. /\ TicketRight(setup, Attempted) /\ Attempted.stage = "pending"
      /\ Reviewed(Attempted, shown)
  BY <1>1, AttemptedRight DEF Reviewed
<1>3. ASSUME NEW o, TicketRight(setup, o), o.stage = "pending",
             NEW stage \in {"invalid"}, NEW again \in BOOLEAN,
             NEW e, e = [o EXCEPT !.stage = stage, !.eligible = again]
      PROVE  TicketRight(setup, e) /\ e.stage = "invalid"
  <2>1. o \in Tickets BY <1>3 DEF TicketRight, OrderRight
  <2>2. e \in Tickets BY <1>3, <2>1 DEF Tickets, Stages
  <2>3. /\ e.stage = "invalid" /\ e.child = o.child /\ e.refreshed = o.refreshed
        /\ e.type = o.type /\ e.entry = o.entry /\ e.planned = o.planned
        /\ e.pendingOnly = o.pendingOnly /\ e.guard = o.guard /\ e.volume = o.volume
        /\ e.targets = o.targets /\ e.lots = o.lots
    BY <1>3, <2>1 DEF Tickets
  <2> QED BY <1>3, <2>2, <2>3 DEF TicketRight, OrderRight, Spread, LotsRight
<1>4. CASE ticket' = [ticket EXCEPT !.stage = "invalid"]
  <2>1. TicketRight(setup, ticket) /\ ticket \in Tickets
    BY DEF PricingInv, TicketRight, OrderRight
  <2>2. /\ ticket.eligible \in BOOLEAN
        /\ ticket' = [ticket EXCEPT !.stage = "invalid", !.eligible = ticket.eligible]
    BY <1>4, <2>1 DEF Tickets
  <2> QED BY <1>1, <1>3, <2>1, <2>2
<1>5. CASE ticket' = Attempted BY <1>2, <1>5
<1>6. ASSUME NEW reason, ticket' = Refused(Attempted, reason)
      PROVE  TicketRight(setup, ticket') /\ ticket'.stage \in {"pending", "invalid"}
             /\ (ticket'.stage = "pending" => Reviewed(ticket', shown))
  <2> DEFINE again == reason = "tolerance" /\ Attempted.type = "market"
  <2>1. CASE reason \notin Invalidating BY <1>2, <1>6, <2>1 DEF Refused
  <2>2. CASE reason \in Invalidating
    <3>1. ticket' = [Attempted EXCEPT !.stage = "invalid", !.eligible = again]
      BY <1>6, <2>2 DEF Refused
    <3>2. again \in BOOLEAN OBVIOUS
    <3> HIDE DEF again
    <3> QED BY <1>2, <1>3, <3>1, <3>2
  <2> QED BY <2>1, <2>2
<1> QED BY <1>4, <1>5, <1>6

(* An approval that is granted costs what was reviewed, at most.             *)
LEMMA ApprovalGranted ==
  ASSUME PricingInv, Approve, ApprovalPrice.refusal = "none", ~(ApprovalReviewed.volume < 1),
         Approval.valid, ticket' = [Approval.order EXCEPT !.stage = "approved"],
         seen' = market
  PROVE  PricingInv'
<1> DEFINE o == Attempted
           levels == Followed(setup, market, o)
           priced == ApprovalPrice
           reviewed == ApprovalReviewed
           taken == Approval.order
           reference == IF o.type = "market" /\ ~Managed(setup) THEN o.entry ELSE 0
           avoid == ticket.child \/ Managed(setup)
<1>1. /\ ticket.stage = "pending" /\ shown # NoOrder
      /\ UNCHANGED <<market, setup, ladder, shown>>
  BY DEF Approve
<1>2. /\ setup \in Setups /\ setup \in Setup /\ market \in Market /\ MaxLots \in Nat \ {0}
      /\ shown \in Tickets
  BY PricingAssumption DEF PricingInv
<1>3. /\ TicketRight(setup, o) /\ o.stage = "pending" /\ AsShown(o, shown)
      /\ o.guard # NoGuard => o.guard.maximum = o.volume
  BY <1>1, AttemptedRight
<1>a. priced = Price(setup, market, levels, reference, avoid, FALSE, FALSE)
  BY DEF ApprovalPrice
<1>b. reviewed = IF PricedAgain(setup) THEN Capped(priced, o.volume, o.risk) ELSE priced
  BY DEF ApprovalReviewed
<1>c. taken = Ladder(setup, market, levels, reviewed).order
      /\ Ladder(setup, market, levels, reviewed).valid
  BY DEF Approval
<1>d. priced.refusal = "none" /\ ~(reviewed.volume < 1) OBVIOUS
<1>e. ticket' = [taken EXCEPT !.stage = "approved"] OBVIOUS
<1> HIDE DEF o, taken
<1>4. /\ TicketRight(setup, levels) /\ SameOrder(levels, o) /\ SameSize(levels, o)
      /\ levels.stage = o.stage /\ levels.type = o.type /\ levels.entry = o.entry
      /\ levels.guard = o.guard /\ levels.pendingOnly = o.pendingOnly
      /\ ~Follows(setup, o) => levels = o
  BY <1>2, <1>3, FollowedRight
<1> HIDE DEF levels, priced, reviewed
<1>5. levels \in Tickets /\ o \in Tickets BY <1>3, <1>4 DEF TicketRight, OrderRight
<1>6. Afforded(setup, market, levels, priced) /\ Kept(levels, priced)
  <2>1. ticket.child \in BOOLEAN BY DEF PricingInv, TicketRight, OrderRight, Tickets
  <2>2. reference \in Int /\ avoid \in BOOLEAN /\ FALSE \in BOOLEAN
    BY <1>5, <2>1 DEF Tickets, Managed
  <2> HIDE DEF reference, avoid
  <2> QED BY <1>2, <1>5, <1>a, <1>d, <2>2, PriceAffords
<1> DEFINE gap == Gap(priced.entry, levels.stop)
<1>7. /\ priced \in Prices /\ gap \in Nat \ {0} /\ priced.volume \in 1..MaxLots
      /\ priced.risk = gap * priced.volume
      /\ priced.guard # NoGuard => levels.type = "market"
      /\ levels.type # "market" => priced.entry = levels.entry
      /\ levels.type = "market" => priced.entry = Executable(setup, market)
  BY <1>6 DEF Afforded
<1> HIDE DEF gap
<1>8. /\ reviewed \in Prices /\ reviewed.volume \in 1..MaxLots
      /\ reviewed.volume <= priced.volume /\ reviewed.entry = priced.entry
      /\ reviewed.guard = priced.guard /\ reviewed.risk = gap * reviewed.volume
      /\ PricedAgain(setup) => reviewed.volume <= o.volume /\ reviewed.risk <= o.risk
  <2>1. CASE PricedAgain(setup)
    <3>1. o.volume \in Nat /\ o.risk \in Int BY <1>2, <1>5 DEF Tickets, Volumes
    <3>2. reviewed = Capped(priced, o.volume, o.risk) BY <1>b, <2>1
    <3>3. /\ reviewed \in Prices /\ reviewed.entry = priced.entry
          /\ reviewed.guard = priced.guard
          /\ reviewed.volume <= priced.volume /\ reviewed.volume <= o.volume
          /\ reviewed.risk = gap * reviewed.volume /\ reviewed.risk <= o.risk
      BY <1>7, <3>1, <3>2, CappedRight
    <3>4. reviewed.volume \in 1..MaxLots BY <1>2, <1>7, <1>d, <3>3 DEF Prices
    <3> QED BY <3>3, <3>4
  <2>2. CASE ~PricedAgain(setup)
    <3>1. reviewed = priced BY <1>b, <2>2
    <3> QED BY <1>2, <1>7, <2>2, <3>1
  <2> QED BY <2>1, <2>2
<1>9. /\ taken \in Tickets /\ SameOrder(taken, levels) /\ SameLevels(taken, levels)
      /\ taken.stage = levels.stage /\ taken.type = levels.type
      /\ taken.pendingOnly = levels.pendingOnly
      /\ taken.entry = priced.entry /\ taken.guard = priced.guard
      /\ taken.volume \in 0..reviewed.volume /\ taken.risk = gap * taken.volume
      /\ levels.targets = <<>> => taken.lots = levels.lots
      /\ levels.targets # <<>> => LotsRight(taken) /\ taken.volume <= levels.size
  BY <1>2, <1>4, <1>7, <1>8, <1>c, LaidRight
<1>10. /\ ticket' \in Tickets /\ ticket'.stage = "approved" /\ ticket'.type = taken.type
       /\ ticket'.child = taken.child /\ ticket'.refreshed = taken.refreshed
       /\ ticket'.entry = taken.entry /\ ticket'.planned = taken.planned
       /\ ticket'.pendingOnly = taken.pendingOnly /\ ticket'.guard = taken.guard
       /\ ticket'.stop = taken.stop /\ ticket'.target = taken.target
       /\ ticket'.targets = taken.targets /\ ticket'.lots = taken.lots
       /\ ticket'.volume = taken.volume /\ ticket'.risk = taken.risk
  BY <1>9, <1>e DEF Tickets, Stages
<1>11. /\ ticket'.type = levels.type /\ ticket'.child = levels.child
       /\ ticket'.refreshed = levels.refreshed /\ ticket'.planned = levels.planned
       /\ ticket'.pendingOnly = levels.pendingOnly /\ ticket'.targets = levels.targets
       /\ ticket'.stop = levels.stop /\ ticket'.target = levels.target
       /\ ticket'.entry = priced.entry /\ ticket'.guard = priced.guard
  BY <1>9, <1>10 DEF SameOrder, SameLevels
<1>12. TicketRight(setup, ticket')
  <2>1. OrderRight(setup, ticket')
    BY <1>4, <1>7, <1>10, <1>11 DEF TicketRight, OrderRight, Spread
  <2>2. levels.targets # <<>> => LotsRight(ticket') BY <1>9, <1>10 DEF LotsRight
  <2>3. levels.targets = <<>> => Len(ticket'.lots) \in {0, Len(ticket'.targets)}
    BY <1>4, <1>9, <1>10, <1>11 DEF TicketRight
  <2>4. Len(ticket'.lots) \in {0, Len(ticket'.targets)}
    <3>1. CASE levels.targets = <<>> BY <2>3, <3>1
    <3>2. CASE levels.targets # <<>> BY <2>2, <3>2 DEF LotsRight
    <3> QED BY <3>1, <3>2
  <2> QED BY <1>11, <2>1, <2>2, <2>4 DEF TicketRight
<1>13. LossWithinLimits'
  <2> DEFINE entry == IF ticket'.type = "market" THEN Executable(setup', seen')
                      ELSE ticket'.entry
             farthest == ticket'.guard.reference + Sign(setup') * ticket'.guard.allowance
             allowed == ticket'.guard # NoGuard /\ ~(ticket'.stage = "delivered"
                                                      /\ PricedAgain(setup'))
  <2>1. entry = priced.entry BY <1>1, <1>7, <1>11
  <2>2. {entry} \cup (IF allowed THEN {farthest} ELSE {})
          = Fills(setup, priced.entry, priced.guard)
    <3>1. allowed <=> priced.guard # NoGuard BY <1>10, <1>11
    <3>2. farthest = priced.guard.reference + Sign(setup) * priced.guard.allowance
      BY <1>1, <1>11
    <3> HIDE DEF entry, farthest, allowed
    <3> QED BY <2>1, <3>1, <3>2 DEF Fills
  <2>3. taken.volume \in 0..priced.volume BY <1>7, <1>8, <1>9 DEF Prices
  <2>4. ASSUME NEW fill \in Fills(setup, priced.entry, priced.guard)
        PROVE  LET loss == Gap(fill, ticket'.stop) * ticket'.volume IN
                 /\ seen'.open + loss <= RiskCeiling(seen')
                 /\ \A limit \in {DailyLimit, TotalLimit} :
                      Most(0, DayStart - seen'.equity) + seen'.open + loss <= limit
    <3>1. Bears(market, Gap(fill, levels.stop) * taken.volume)
      BY <1>2, <1>5, <1>6, <2>3, <2>4, AffordedBears
    <3>2. seen' = market /\ ticket'.stop = levels.stop /\ ticket'.volume = taken.volume
      BY <1>10, <1>11
    <3> QED BY <3>1, <3>2 DEF Bears
  <2>5. \A fill \in {entry} \cup (IF allowed THEN {farthest} ELSE {}) :
          LET loss == Gap(fill, ticket'.stop) * ticket'.volume IN
            /\ seen'.open + loss <= RiskCeiling(seen')
            /\ \A limit \in {DailyLimit, TotalLimit} :
                 Most(0, DayStart - seen'.equity) + seen'.open + loss <= limit
    <3> HIDE DEF entry, farthest, allowed
    <3> QED BY <2>2, <2>4
  <2> QED BY <2>5 DEF LossWithinLimits
<1>14. ReviewedIsCeiling'
  <2>1. o.volume = shown.volume /\ o.risk = shown.risk /\ o.size = shown.size
        /\ o.guard \in {NoGuard, shown.guard}
    BY <1>3 DEF AsShown
  <2>2. taken.volume \in Nat /\ reviewed.volume \in Nat /\ priced.volume \in Nat
        /\ taken.volume <= reviewed.volume /\ taken.volume <= priced.volume
    BY <1>2, <1>7, <1>8, <1>9
  <2>3. ASSUME PricedAgain(setup)
        PROVE  ticket'.volume <= shown.volume /\ ticket'.risk <= shown.risk
    <3>1. taken.volume <= o.volume
      <4>1. o.volume \in Nat BY <1>5, <1>2 DEF Tickets, Volumes
      <4> QED BY <1>8, <2>2, <2>3, <4>1
    <3>2. taken.risk <= o.risk
      <4>1. gap \in Nat BY <1>7
      <4>2. gap * taken.volume \in Nat /\ gap * taken.volume <= gap * reviewed.volume
        BY <2>2, <4>1, Grows
      <4>3. o.risk \in Int /\ reviewed.risk \in Int BY <1>5, <1>8 DEF Tickets, Prices
      <4> QED BY <1>8, <1>9, <2>3, <4>2, <4>3
    <3> QED BY <1>10, <2>1, <3>1, <3>2
  <2>4. ASSUME priced.guard # NoGuard
        PROVE  /\ ticket'.volume <= shown.volume
               /\ Worst(setup, ticket'.guard, ticket'.entry, ticket'.stop) * ticket'.volume
                    <= shown.guard.budget
    <3>1. levels.guard # NoGuard /\ o.guard = shown.guard /\ o.guard # NoGuard
      BY <1>4, <1>6, <2>1, <2>4 DEF Kept
    <3>2. priced.guard.budget <= shown.guard.budget /\ priced.volume <= o.volume
      BY <1>3, <1>4, <1>6, <3>1 DEF Kept
    <3> DEFINE worst == Worst(setup, priced.guard, priced.entry, levels.stop)
    <3>3. /\ worst \in Nat /\ worst * priced.volume <= priced.guard.budget
      BY <1>6, <2>4 DEF Afforded, Loss
    <3>4. worst = Worst(setup, ticket'.guard, ticket'.entry, ticket'.stop) BY <1>11
    <3> HIDE DEF worst
    <3>5. worst * taken.volume \in Nat /\ worst * taken.volume <= worst * priced.volume
      BY <2>2, <3>3, Grows
    <3>6. priced.guard.budget \in Int /\ shown.guard.budget \in Int /\ o.volume \in Int
      <4>1. \A guard \in Guards : guard.budget \in Int BY DEF Guards, NoGuard
      <4>2. priced.guard \in Guards /\ shown.guard \in Guards
        BY <1>2, <1>7 DEF Prices, Tickets
      <4>3. o.volume \in Int BY <1>2, <1>5 DEF Tickets, Volumes
      <4> QED BY <4>1, <4>2, <4>3
    <3>7. worst * priced.volume \in Int BY <2>2, <3>3
    <3>8. worst * taken.volume <= shown.guard.budget BY <3>2, <3>3, <3>5, <3>6, <3>7
    <3>9. taken.volume <= shown.volume BY <2>1, <2>2, <3>2, <3>6
    <3> QED BY <1>10, <3>4, <3>8, <3>9
  <2>5. levels.targets # <<>> => ticket'.volume <= shown.size
    BY <1>4, <1>9, <1>10, <2>1 DEF SameSize
  <2> QED BY <1>1, <1>11, <2>3, <2>4, <2>5 DEF ReviewedIsCeiling
<1>15. PendingStays'
  <2>1. ticket'.pendingOnly => ticket'.type # "market" /\ ticket'.entry = ticket'.planned
    BY <1>12 DEF TicketRight, OrderRight
  <2>2. ~Follows(setup, ticket') => ~Follows(setup, o)
    BY <1>4, <1>6, <1>11 DEF Follows, Kept, SameOrder
  <2>3. ~Follows(setup, ticket') =>
          /\ ticket'.stop = shown.stop /\ ticket'.target = shown.target
          /\ ticket'.targets = shown.targets
    BY <1>3, <1>4, <1>11, <2>2 DEF AsShown
  <2> QED BY <1>1, <2>1, <2>3 DEF PendingStays
<1> QED BY <1>1, <1>2, <1>10, <1>12, <1>13, <1>14, <1>15 DEF PricingInv

(* An approval takes what was shown, refuses it or withdraws it.             *)
LEMMA ApproveKeeps == PricingInv /\ Approve => PricingInv'
<1> SUFFICES ASSUME PricingInv, Approve PROVE PricingInv' OBVIOUS
<1>1. /\ UNCHANGED <<market, setup, ladder, shown>> /\ seen' \in {seen, market}
      /\ shown # NoOrder
  BY DEF Approve
<1>2. \/ /\ \/ ticket' = [ticket EXCEPT !.stage = "invalid"]
            \/ ticket' = Attempted
            \/ \E reason : ticket' = Refused(Attempted, reason)
         /\ UNCHANGED seen
      \/ /\ ApprovalPrice.refusal = "none" /\ ~(ApprovalReviewed.volume < 1) /\ Approval.valid
         /\ ticket' = [Approval.order EXCEPT !.stage = "approved"] /\ seen' = market
  <2> DEFINE
        attempt == EntryAttempt(setup, market, ticket, FALSE)
        o == IF Managed(setup) THEN attempt.order ELSE ticket
        reference == IF o.type = "market" /\ ~Managed(setup) THEN o.entry ELSE 0
        levels == Followed(setup, market, o)
        priced == Price(setup, market, levels, reference, ticket.child \/ Managed(setup),
                        FALSE, FALSE)
        reviewed == IF Managed(setup) \/ setup.half THEN Capped(priced, o.volume, o.risk)
                    ELSE priced
        laid == Ladder(setup, market, levels, reviewed)
  <2>1. o = Attempted BY DEF Attempted
  <2>2. priced = ApprovalPrice BY DEF ApprovalPrice, Attempted
  <2>3. reviewed = ApprovalReviewed BY <2>1, <2>2 DEF ApprovalReviewed, PricedAgain
  <2>4. laid = Approval BY <2>1, <2>3 DEF Approval
  <2>5. IF Managed(setup) /\ ~attempt.possible
        THEN /\ ~ThesisHolds(setup, market, ticket.invalidation, ticket.target)
             /\ ticket' = [ticket EXCEPT !.stage = "invalid"] /\ UNCHANGED seen
        ELSE IF priced.refusal # "none"
        THEN ticket' = Refused(o, priced.refusal) /\ UNCHANGED seen
        ELSE IF reviewed.volume < 1 \/ ~laid.valid THEN ticket' = o /\ UNCHANGED seen
        ELSE ticket' = [laid.order EXCEPT !.stage = "approved"] /\ seen' = market
    BY DEF Approve
  <2> HIDE DEF attempt, o, priced, reviewed, laid
  <2> QED BY <2>1, <2>2, <2>3, <2>4, <2>5
<1>3. CASE /\ \/ ticket' = [ticket EXCEPT !.stage = "invalid"]
              \/ ticket' = Attempted
              \/ \E reason : ticket' = Refused(Attempted, reason)
           /\ UNCHANGED seen
  <2>1. /\ TicketRight(setup, ticket') /\ ticket'.stage \in {"pending", "invalid"}
        /\ ticket'.stage = "pending" => Reviewed(ticket', shown)
    BY <1>3, RefusalKeeps
  <2>2. LossWithinLimits' /\ ReviewedIsCeiling' /\ PendingStays' BY <1>1, <2>1, UnplacedSafe
  <2> QED BY <1>1, <1>3, <2>1, <2>2 DEF PricingInv
<1>4. CASE /\ ApprovalPrice.refusal = "none" /\ ~(ApprovalReviewed.volume < 1) /\ Approval.valid
           /\ ticket' = [Approval.order EXCEPT !.stage = "approved"] /\ seen' = market
  BY <1>4, ApprovalGranted
<1> QED BY <1>2, <1>3, <1>4

(* A delivery takes the order as approved, or fails it.                      *)
LEMMA DeliverKeeps == PricingInv /\ DeliverOrder => PricingInv'
<1> SUFFICES ASSUME PricingInv, DeliverOrder PROVE PricingInv' OBVIOUS
<1> DEFINE plain == [ticket EXCEPT !.guard = NoGuard]
           priced == Price(setup, market, plain, 0, FALSE, FALSE, FALSE)
           again == /\ Managed(setup)
                       /\ ThesisHolds(setup, market, ticket.invalidation, ticket.target)
                       /\ priced.refusal \in Reoffered
<1>1. /\ ticket.stage = "approved" /\ UNCHANGED <<market, setup, ladder, shown>>
      /\ \/ /\ ~PricedAgain(setup)
            /\ ticket' = [ticket EXCEPT !.stage = "delivered"] /\ UNCHANGED seen
         \/ /\ PricedAgain(setup) /\ priced.refusal = "none" /\ ticket.volume <= priced.volume
            /\ ticket' = [ticket EXCEPT !.stage = "delivered"] /\ seen' = market
         \/ /\ ticket' = [[ticket EXCEPT !.stage = "failed"] EXCEPT !.eligible = again]
            /\ UNCHANGED seen
  BY DEF DeliverOrder
<1> HIDE DEF priced
<1>2. /\ setup \in Setup /\ market \in Market /\ TicketRight(setup, ticket)
      /\ ticket \in Tickets /\ MaxLots \in Nat
  BY PricingAssumption DEF PricingInv, TicketRight, OrderRight
<1>3. ASSUME NEW stage \in {"delivered", "failed"}, NEW can \in BOOLEAN,
             NEW e, e = [ticket EXCEPT !.stage = stage, !.eligible = can]
      PROVE  /\ TicketRight(setup, e) /\ e.stage = stage
             /\ e.type = ticket.type /\ e.entry = ticket.entry /\ e.planned = ticket.planned
             /\ e.pendingOnly = ticket.pendingOnly /\ e.guard = ticket.guard
             /\ e.volume = ticket.volume /\ e.risk = ticket.risk /\ e.stop = ticket.stop
             /\ e.target = ticket.target /\ e.targets = ticket.targets
  <2>1. e \in Tickets BY <1>2, <1>3 DEF Tickets, Stages
  <2>2. /\ e.stage = stage /\ e.child = ticket.child /\ e.refreshed = ticket.refreshed
        /\ e.type = ticket.type /\ e.entry = ticket.entry /\ e.planned = ticket.planned
        /\ e.pendingOnly = ticket.pendingOnly /\ e.guard = ticket.guard
        /\ e.volume = ticket.volume /\ e.risk = ticket.risk /\ e.stop = ticket.stop
        /\ e.target = ticket.target /\ e.targets = ticket.targets /\ e.lots = ticket.lots
    BY <1>2, <1>3 DEF Tickets
  <2> QED
    BY <1>1, <1>2, <2>1, <2>2 DEF TicketRight, OrderRight, Spread, LotsRight
<1>4. CASE ticket' = [[ticket EXCEPT !.stage = "failed"] EXCEPT !.eligible = again]
           /\ UNCHANGED seen
  <2>1. ticket' = [ticket EXCEPT !.stage = "failed", !.eligible = again] BY <1>4
  <2>2. again \in BOOLEAN BY DEF Managed
  <2> HIDE DEF again
  <2>3. TicketRight(setup, ticket') /\ ticket'.stage = "failed" BY <1>3, <2>1, <2>2
  <2>4. LossWithinLimits' /\ ReviewedIsCeiling' /\ PendingStays' BY <1>1, <2>3, UnplacedSafe
  <2> QED BY <1>1, <1>4, <2>3, <2>4 DEF PricingInv
<1>5. ASSUME ticket' = [ticket EXCEPT !.stage = "delivered"],
             LossWithinLimits', seen' \in {seen, market}
      PROVE  PricingInv'
  <2>1. /\ ticket.eligible \in BOOLEAN
        /\ ticket' = [ticket EXCEPT !.stage = "delivered", !.eligible = ticket.eligible]
    BY <1>2, <1>5 DEF Tickets
  <2>2. /\ TicketRight(setup, ticket') /\ ticket'.stage = "delivered"
        /\ ticket'.type = ticket.type /\ ticket'.entry = ticket.entry
        /\ ticket'.planned = ticket.planned /\ ticket'.pendingOnly = ticket.pendingOnly
        /\ ticket'.guard = ticket.guard /\ ticket'.volume = ticket.volume
        /\ ticket'.risk = ticket.risk /\ ticket'.stop = ticket.stop
        /\ ticket'.target = ticket.target /\ ticket'.targets = ticket.targets
    <3> DEFINE can == ticket.eligible
    <3>1. "delivered" \in {"delivered", "failed"} /\ can \in BOOLEAN BY <2>1
    <3>2. ticket' = [ticket EXCEPT !.stage = "delivered", !.eligible = can] BY <2>1
    <3> HIDE DEF can
    <3> QED BY <1>3, <3>1, <3>2
  <2>3. Placed BY <1>1 DEF Placed
  <2>4. ReviewedIsCeiling'
    BY <1>1, <2>2, <2>3 DEF PricingInv, ReviewedIsCeiling
  <2>5. PendingStays' BY <1>1, <2>2, <2>3 DEF PricingInv, PendingStays, Follows
  <2> QED BY <1>1, <1>2, <1>5, <2>2, <2>4, <2>5 DEF PricingInv
<1>6. CASE /\ ~PricedAgain(setup)
           /\ ticket' = [ticket EXCEPT !.stage = "delivered"] /\ UNCHANGED seen
  <2>1. /\ ticket'.stage = "delivered" /\ ticket'.type = ticket.type
        /\ ticket'.entry = ticket.entry /\ ticket'.guard = ticket.guard
        /\ ticket'.volume = ticket.volume /\ ticket'.stop = ticket.stop
    BY <1>2, <1>6 DEF Tickets
  <2>2. Placed /\ Placed' BY <1>1, <2>1 DEF Placed
  <2>3. LossWithinLimits BY DEF PricingInv
  <2>4. LossWithinLimits' BY <1>1, <1>6, <2>1, <2>2, <2>3 DEF LossWithinLimits
  <2> QED BY <1>5, <1>6, <2>4
<1>7. CASE /\ PricedAgain(setup) /\ priced.refusal = "none" /\ ticket.volume <= priced.volume
           /\ ticket' = [ticket EXCEPT !.stage = "delivered"] /\ seen' = market
  <2>1. /\ ticket'.stage = "delivered" /\ ticket'.type = ticket.type
        /\ ticket'.entry = ticket.entry /\ ticket'.guard = ticket.guard
        /\ ticket'.volume = ticket.volume /\ ticket'.stop = ticket.stop
    BY <1>2, <1>7 DEF Tickets
  <2>2. /\ plain \in Tickets /\ plain.guard = NoGuard /\ plain.type = ticket.type
        /\ plain.entry = ticket.entry /\ plain.stop = ticket.stop
    <3>1. NoGuard \in Guards BY DEF Guards
    <3> QED BY <1>2, <3>1 DEF Tickets
  <2> HIDE DEF plain
  <2>3. Afforded(setup, market, plain, priced) /\ Kept(plain, priced)
    <3>1. 0 \in Int /\ FALSE \in BOOLEAN OBVIOUS
    <3> QED BY <1>2, <1>7, <2>2, <3>1, PriceAffords DEF priced
  <2> DEFINE entry == IF ticket'.type = "market" THEN Executable(setup', seen')
                      ELSE ticket'.entry
  <2>4. entry = priced.entry BY <1>1, <1>7, <2>1, <2>2, <2>3 DEF Afforded
  <2>5. entry \in Fills(setup, priced.entry, priced.guard) BY <2>4 DEF Fills
  <2>6. ticket.volume \in 0..priced.volume
    <3>1. ticket.volume \in Nat /\ priced.volume \in Nat
      BY <1>2, <2>3 DEF Tickets, Volumes, Afforded
    <3> QED BY <1>7, <3>1
  <2> HIDE DEF entry
  <2>7. Bears(market, Gap(entry, plain.stop) * ticket.volume)
    BY <1>2, <2>2, <2>3, <2>5, <2>6, AffordedBears
  <2>8. \A fill \in {entry} :
          LET loss == Gap(fill, ticket'.stop) * ticket'.volume IN
            /\ seen'.open + loss <= RiskCeiling(seen')
            /\ \A limit \in {DailyLimit, TotalLimit} :
                 Most(0, DayStart - seen'.equity) + seen'.open + loss <= limit
    BY <1>7, <2>1, <2>2, <2>7 DEF Bears
  <2>9. ticket'.stage = "delivered" /\ PricedAgain(setup') BY <1>1, <1>7, <2>1
  <2>10. LossWithinLimits' BY <2>8, <2>9 DEF LossWithinLimits, entry
  <2> QED BY <1>5, <1>7, <2>10
<1> QED BY <1>1, <1>4, <1>6, <1>7

-----------------------------------------------------------------------------
(* The choice of the targets keeps the invariant. *)

(* Targets in a row, the first of them ahead of the entry, are spaced.       *)
LEMMA RowSpaced ==
  ASSUME NEW s \in Setup, s.entry # s.stop, NEW t \in Seq(Nat),
         \A i \in 1..Len(t) : Ahead(s, t[i]) > 0,
         \A i, j \in 1..Len(t) : i < j => 10 * (Ahead(s, t[j]) - Ahead(s, t[i])) >= SetupRisk(s)
  PROVE  Spaced(Sign(s), t, s.entry, s.stop, 1, 0)
<1> DEFINE ahead(i) == Ahead(s, t[i])
           risk == SetupRisk(s)
           previous(i) == IF i = 1 THEN s.entry ELSE t[i - 1]
           step(i) == Sign(s) * (t[i] - previous(i))
<1>1. risk \in Int /\ risk > 0 /\ risk = Gap(s.entry, s.stop) BY DEF SetupRisk, Gap, Setup
<1>2. \A i \in 1..Len(t) : t[i] \in Int /\ ahead(i) \in Int
  <2>1. \A i \in 1..Len(t) : t[i] \in Int OBVIOUS
  <2> QED BY <2>1, AheadIs
<1>3. \A i \in 1..Len(t) : Sign(s) * (t[i] - s.entry) = ahead(i) BY DEF Ahead
<1>4. ASSUME NEW i \in 1..Len(t), i # 1
      PROVE  step(i) = ahead(i) - ahead(i - 1) /\ 10 * step(i) >= risk /\ step(i) >= 1
  <2>1. i - 1 \in 1..Len(t) /\ i - 1 < i BY <1>4
  <2>2. s.entry \in Int /\ t[i] \in Int /\ t[i - 1] \in Int BY <1>2, <2>1 DEF Setup
  <2>3. /\ ahead(i) = IF s.side = "buy" THEN t[i] - s.entry ELSE s.entry - t[i]
        /\ ahead(i - 1) = IF s.side = "buy" THEN t[i - 1] - s.entry ELSE s.entry - t[i - 1]
        /\ ahead(i) \in Int /\ ahead(i - 1) \in Int
    BY <2>2, AheadIs
  <2>4. step(i) = IF s.side = "buy" THEN t[i] - t[i - 1] ELSE t[i - 1] - t[i]
    BY <1>4, <2>2 DEF Sign
  <2>5. 10 * (ahead(i) - ahead(i - 1)) >= risk BY <2>1
  <2> HIDE DEF ahead, step, risk
  <2>6. step(i) = ahead(i) - ahead(i - 1)
    <3>1. CASE s.side = "buy"
      <4>1. step(i) = t[i] - t[i - 1] BY <2>4, <3>1
      <4>2. ahead(i) = t[i] - s.entry /\ ahead(i - 1) = t[i - 1] - s.entry BY <2>3, <3>1
      <4> QED BY <2>2, <4>1, <4>2
    <3>2. CASE s.side # "buy"
      <4>1. step(i) = t[i - 1] - t[i] BY <2>4, <3>2
      <4>2. ahead(i) = s.entry - t[i] /\ ahead(i - 1) = s.entry - t[i - 1] BY <2>3, <3>2
      <4> QED BY <2>2, <4>1, <4>2
    <3> QED BY <3>1, <3>2
  <2>7. 10 * step(i) >= risk /\ step(i) \in Int BY <2>3, <2>5, <2>6
  <2> QED BY <1>1, <2>6, <2>7
<1>5. ASSUME NEW i \in 1..Len(t), i = 1 PROVE step(i) = ahead(i) BY <1>3, <1>5
<1>7. (\A i \in 1..Len(t) :
         /\ step(i) >= 1 /\ ahead(i) >= 0
         /\ IF i = 1 THEN step(i) >= 0 ELSE 10 * step(i) >= risk)
      => Spaced(Sign(s), t, s.entry, s.stop, 1, 0)
  <2> SUFFICES ASSUME \A i \in 1..Len(t) :
                        /\ step(i) >= 1 /\ ahead(i) >= 0
                        /\ IF i = 1 THEN step(i) >= 0 ELSE 10 * step(i) >= risk,
                      NEW i \in DOMAIN t
               PROVE  /\ step(i) >= 1 /\ Sign(s) * (t[i] - s.entry) >= 0
                      /\ IF i = 1 THEN step(i) >= 0
                         ELSE 10 * step(i) >= Gap(s.entry, s.stop)
    BY DEF Spaced
  <2>1. i \in 1..Len(t) OBVIOUS
  <2>2. Sign(s) * (t[i] - s.entry) = ahead(i) BY <1>3, <2>1
  <2> HIDE DEF step, ahead, risk
  <2> QED BY <1>1, <2>1, <2>2
<1> SUFFICES ASSUME NEW i \in 1..Len(t)
             PROVE  /\ step(i) >= 1 /\ ahead(i) >= 0
                    /\ IF i = 1 THEN step(i) >= 0 ELSE 10 * step(i) >= risk
  BY <1>7
<1>6. ahead(i) \in Int /\ ahead(i) > 0 BY <1>2
<1> HIDE DEF ahead, step, risk
<1> QED BY <1>4, <1>5, <1>6

(* What is chosen of the candidates: at most four targets in a row, the      *)
(* nearest usable candidate's price first.                                   *)
LEMMA ChosenRight ==
  ASSUME NEW s \in Setups, s.ladder, NEW offered \in SUBSET Candidates,
         ChooseTargets(s, offered) # <<>>
  PROVE  Choice(s, [offered |-> offered, chosen |-> ChooseTargets(s, offered)])
<1> DEFINE U == Usable(s, offered)
           M == MergeNear(s, U)
           E == Elements(Tail(M))
           others == Sorted(E, Better(s, M))
           best == {others[i] : i \in 1..Least(3, Len(others))}
           B == {M[1]} \cup best
           row == ByDistance(s, B)
           t == ChooseTargets(s, offered)
<1>1. s \in Setup /\ s.entry # s.stop BY PricingAssumption
<1>2. /\ U \subseteq offered /\ U \subseteq Candidate /\ IsFiniteSet(U)
      /\ \A c, d \in U : c.price = d.price => c = d
  <2>1. U \in SUBSET Candidates /\ U \subseteq offered BY DEF Usable
  <2>2. IsFiniteSet(U) BY <2>1, PricingAssumption, FS_Subset
  <2> QED BY <2>1, <2>2, PricingAssumption
<1>3. \A c \in U : Ahead(s, c.price) > 0 BY DEF Usable
<1>4. t = IF M = <<>> THEN <<>> ELSE [i \in DOMAIN row |-> row[i].price] BY DEF ChooseTargets
<1>5. M # <<>> BY <1>4
<1>6. t = [i \in DOMAIN row |-> row[i].price] BY <1>4, <1>5
<1> HIDE DEF U, t
<1>7. /\ M \in Seq(Candidate) /\ Rungs(s, M)
      /\ \A i \in 1..Len(M) : \E c \in U : M[i].price = c.price
      /\ \A c \in U : Ahead(s, M[1].price) <= Ahead(s, c.price)
  BY <1>1, <1>2, MergedRight
<1> HIDE DEF M
<1>8. /\ SetupRisk(s) \in Int /\ SetupRisk(s) > 0 /\ Elements(M) \subseteq Candidate
      /\ \A c, d \in Elements(M) : Ahead(s, c.price) < Ahead(s, d.price) =>
           10 * (Ahead(s, d.price) - Ahead(s, c.price)) >= SetupRisk(s)
      /\ \A c, d \in Elements(M) : c.price = d.price => c = d
  BY <1>1, <1>7, RungsApart
<1>9. M[1] \in Elements(M) /\ E \subseteq Elements(M) /\ IsFiniteSet(E)
  <2>1. Len(M) \in Nat /\ Len(M) >= 1 BY <1>5, <1>7
  <2>2. Tail(M) \in Seq(Candidate) /\ Len(Tail(M)) = Len(M) - 1
        /\ \A i \in 1..Len(Tail(M)) : Tail(M)[i] = M[i + 1]
    BY <1>5, <1>7
  <2> DEFINE q == Tail(M)
             k == Len(M) - 1
  <2>3. k \in Nat /\ Len(q) = k /\ \A i \in 1..k : q[i] = M[i + 1] /\ i + 1 \in 1..Len(M)
    BY <2>1, <2>2
  <2>4. q \in Seq(Candidate) BY <2>2
  <2>5. M[1] \in Elements(M) BY <1>7, <2>1 DEF Elements
  <2>6. E = {q[i] : i \in 1..k}
    <3>1. E = {q[i] : i \in DOMAIN q} BY DEF Elements
    <3> HIDE DEF q, k, E
    <3>2. DOMAIN q = 1..k BY <2>3, <2>4
    <3> QED BY <3>1, <3>2
  <2> HIDE DEF q, k, E
  <2>7. IsFiniteSet(E) BY <2>3, <2>6, FirstsFinite
  <2>8. \A i \in 1..Len(M) : M[i] \in Elements(M) BY <1>7 DEF Elements
  <2>9. E \subseteq Elements(M) BY <2>3, <2>6, <2>8
  <2> QED BY <2>5, <2>7, <2>9 DEF E
<1> HIDE DEF E
<1>10. best \subseteq E /\ IsFiniteSet(best) /\ Cardinality(best) <= 3
  <2>1. Orders(E, Better(s, M)) BY <1>1, <1>7, <1>9, BetterOrders
  <2>2. others \in [1..Cardinality(E) -> E] BY <1>9, <2>1, SortedRight
  <2>3. best = FirstThree(others) BY DEF FirstThree
  <2> HIDE DEF others, best
  <2> QED BY <1>9, <2>2, <2>3, FewTaken
<1> HIDE DEF best
<1>11. /\ IsFiniteSet(B) /\ B \subseteq Elements(M) /\ Cardinality(B) \in 1..4
  <2>1. IsFiniteSet(B) /\ Cardinality(B) <= Cardinality(best) + 1
    <3>1. Cardinality(best) \in Nat BY <1>10, FS_CardinalityType
    <3>2. IsFiniteSet(best \cup {M[1]})
          /\ Cardinality(best \cup {M[1]}) =
               IF M[1] \in best THEN Cardinality(best) ELSE Cardinality(best) + 1
      BY <1>10, FS_AddElement
    <3>3. B = best \cup {M[1]} OBVIOUS
    <3> HIDE DEF B
    <3> QED BY <3>1, <3>2, <3>3
  <2>2. B \subseteq Elements(M) /\ B # {} BY <1>9, <1>10
  <2> HIDE DEF B
  <2>3. Cardinality(B) \in Nat /\ Cardinality(B) # 0
    BY <2>1, <2>2, FS_CardinalityType, FS_EmptySet
  <2>4. Cardinality(best) \in Nat BY <1>10, FS_CardinalityType
  <2> QED BY <1>10, <2>1, <2>2, <2>3, <2>4
<1>12. M[1] \in B OBVIOUS
<1> DEFINE n == Cardinality(B)
<1> HIDE DEF B
<1>13. /\ row \in [1..n -> B] /\ \A c \in B : \E i \in 1..n : row[i] = c
       /\ \A i, j \in 1..n : i < j => <<row[i], row[j]>> \in Nearer(s)
  <2>1. B \subseteq Candidate /\ \A c, d \in B : c.price = d.price => c = d BY <1>8, <1>11
  <2>2. Orders(B, Nearer(s)) BY <1>1, <2>1, NearerOrders
  <2> QED BY <1>11, <2>2, SortedRight DEF ByDistance
<1> HIDE DEF row
<1>14. n \in 1..4 BY <1>11
<1> HIDE DEF n
<1>15. \A i \in 1..n : row[i] \in Elements(M) /\ row[i] \in Candidate BY <1>8, <1>11, <1>13
<1>16. /\ t = [i \in 1..n |-> row[i].price] /\ t \in Seq(Nat) /\ Len(t) = n
       /\ \A i \in 1..n : t[i] = row[i].price /\ Ahead(s, t[i]) \in Int
  <2>1. t = [i \in 1..n |-> row[i].price] BY <1>6, <1>13
  <2>2. \A i \in 1..n : row[i].price \in Nat BY <1>15 DEF Candidate
  <2>3. \A i \in 1..n : t[i] = row[i].price /\ t[i] \in Nat BY <2>1, <2>2
  <2>4. t \in [1..n -> Nat] BY <2>1, <2>3
  <2>5. t \in Seq(Nat) /\ Len(t) = n BY <1>14, <2>4
  <2>6. \A i \in 1..n : Ahead(s, t[i]) \in Int BY <1>1, <2>3, AheadIs
  <2> QED BY <2>1, <2>3, <2>5, <2>6
<1>17. \A i, j \in 1..n : i < j => Ahead(s, t[i]) < Ahead(s, t[j])
  BY <1>13, <1>16 DEF Nearer
<1>18. \A i, j \in 1..n : i < j => 10 * (Ahead(s, t[j]) - Ahead(s, t[i])) >= SetupRisk(s)
  BY <1>8, <1>15, <1>16, <1>17
<1>19. \A i \in 1..n : Ahead(s, t[i]) > 0
  <2> SUFFICES ASSUME NEW i \in 1..n PROVE Ahead(s, t[i]) > 0 OBVIOUS
  <2>1. PICK k \in 1..Len(M) : row[i] = M[k] BY <1>7, <1>15 DEF Elements
  <2>2. PICK c \in U : M[k].price = c.price BY <1>7
  <2> QED BY <1>3, <1>16, <2>1, <2>2
<1>20. Spaced(Sign(s), t, s.entry, s.stop, 1, 0)
  BY <1>1, <1>16, <1>18, <1>19, RowSpaced
<1>21. ASSUME NEW c \in U PROVE Ahead(s, t[1]) <= Ahead(s, c.price)
  <2>1. PICK i \in 1..n : row[i] = M[1] BY <1>12, <1>13
  <2>2. 1 \in 1..n /\ (i = 1 \/ 1 < i) BY <1>14
  <2>3. Ahead(s, t[1]) <= Ahead(s, t[i]) BY <1>16, <1>17, <2>2
  <2>4. Ahead(s, t[i]) <= Ahead(s, c.price) BY <1>7, <1>16, <2>1
  <2>5. c.price \in Int BY <1>2 DEF Candidate
  <2>6. Ahead(s, c.price) \in Int BY <1>1, <2>5, AheadIs
  <2> QED BY <1>16, <2>2, <2>3, <2>4, <2>6
<1> DEFINE l == [offered |-> offered, chosen |-> t]
<1>22. l.offered = offered /\ l.chosen = t OBVIOUS
<1> HIDE DEF l
<1>23. Choice(s, l) BY <1>14, <1>16, <1>20, <1>21, <1>22 DEF Choice, U
<1> QED BY <1>23 DEF l, t

(* The choice of the targets.                                                *)
LEMMA ChooseLadderKeeps == PricingInv /\ ChooseLadder => PricingInv'
<1> SUFFICES ASSUME PricingInv, ChooseLadder PROVE PricingInv' OBVIOUS
<1>1. /\ setup.ladder /\ setup \in Setups /\ ticket = NoOrder
      /\ UNCHANGED <<market, setup, ticket, shown, seen>>
  BY DEF ChooseLadder, PricingInv
<1>2. PICK offered \in SUBSET Candidates :
        /\ ChooseTargets(setup, offered) # <<>>
        /\ ladder' = [offered |-> offered, chosen |-> ChooseTargets(setup, offered)]
  BY DEF ChooseLadder
<1>3. Choice(setup, ladder') BY <1>1, <1>2, ChosenRight
<1>4. TicketRight(setup', ticket') BY <1>1 DEF PricingInv
<1>5. ticket'.stage \notin {"approved", "delivered"} BY <1>1 DEF NoOrder
<1>6. LossWithinLimits' /\ ReviewedIsCeiling' /\ PendingStays' BY <1>4, <1>5, UnplacedSafe
<1> QED BY <1>1, <1>3, <1>4, <1>6 DEF PricingInv

-----------------------------------------------------------------------------
(* The orders that the pricing lets through. *)

(* Every step keeps the invariant.                                           *)
LEMMA PricingStep == PricingInv /\ [PricingNext]_pricingVars => PricingInv'
<1> SUFFICES ASSUME PricingInv, [PricingNext]_pricingVars PROVE PricingInv' OBVIOUS
<1>1. CASE UNCHANGED pricingVars
  <2>1. UNCHANGED <<market, setup, ladder, ticket, shown, seen>> BY <1>1 DEF pricingVars
  <2>2. LossWithinLimits' /\ ReviewedIsCeiling' /\ PendingStays'
    BY <2>1 DEF PricingInv, LossWithinLimits, ReviewedIsCeiling, PendingStays, Placed
  <2> QED BY <2>1, <2>2 DEF PricingInv
<1>2. CASE PricingNext
  BY <1>2, ChangeMarketKeeps, ChooseLadderKeeps, DraftKeeps, PublishKeeps, ApproveKeeps,
     DeliverKeeps, ReplaceKeeps, RefreshKeeps
  DEF PricingNext
<1> QED BY <1>1, <1>2

(* What the invariant says of the ladder and of the types.                   *)
LEMMA PricingShows == PricingInv => PricingTypeOK /\ PricingSound
<1> SUFFICES ASSUME PricingInv PROVE PricingTypeOK /\ PricingSound OBVIOUS
<1>1. TicketRight(setup, ticket) /\ ticket \in Tickets
  BY DEF PricingInv, TicketRight, OrderRight
<1>2. PricingTypeOK
  <2>1. ticket.guard.allowance \in {0, GoldAllowance}
    <3>1. ticket.guard \in Guards BY <1>1 DEF Tickets
    <3> QED BY <3>1 DEF Guards, NoGuard
  <2>2. ticket.volume \in 0..MaxLots BY <1>1 DEF Tickets, Volumes
  <2>3. Len(ticket.lots) \in {0, Len(ticket.targets)} BY <1>1 DEF TicketRight
  <2>4. ticket.stage \in Stages /\ ticket.type \in Types BY <1>1 DEF Tickets
  <2> QED BY <2>1, <2>2, <2>3, <2>4 DEF PricingTypeOK, Stages, Types
<1>3. LadderFits
  <2> SUFFICES ASSUME ticket.targets # <<>>, ticket.refreshed => Placed PROVE LadderFits
    BY DEF LadderFits
  <2>1. LotsRight(ticket) BY <1>1 DEF TicketRight, Placed
  <2>2. ticket.lots \in Seq(Int) /\ ticket.targets \in Seq(Int) BY <1>1 DEF Tickets
  <2>3. DOMAIN ticket.lots = DOMAIN ticket.targets BY <2>1, <2>2 DEF LotsRight
  <2>4. Spread(setup, ticket) BY <1>1 DEF TicketRight, OrderRight
  <2> QED BY <2>1, <2>3, <2>4 DEF LadderFits, LotsRight, Spread
<1>4. LadderIsSpaced BY DEF PricingInv, Choice, LadderIsSpaced
<1> QED BY <1>2, <1>3, <1>4 DEF PricingInv, PricingSound

(* An order loses no more, at the worst price at which it may be filled, than*)
(* the account's limits leave, takes no more than was reviewed, keeps the    *)
(* levels that were shown, and its targets are spaced and divided into its   *)
(* lots: _validated_open_fields, approve, commands_for_bridge and the        *)
(* allocation of a plan, for every tick, limit of lots, market and analysis. *)
THEOREM PricingIsSound == PricingSpec => []PricingSound
<1>1. PricingInv /\ [PricingNext]_pricingVars => PricingInv' BY PricingStep
<1>2. PricingInv => PricingSound BY PricingShows
<1> QED BY <1>1, <1>2, PricingStarts, PTL DEF PricingSpec

-----------------------------------------------------------------------------
(* The composition. *)

(* A behaviour of the composition is one of every workflow.                  *)
LEMMA TradingParts ==
  MCSpec => QuoteSpec /\ PendingSpec /\ HierarchySpec /\ AccountingSpec /\ PricingSpec
<1>1. MCInit => QuoteInit /\ PendingInit /\ HierarchyInit /\ AccountingInit /\ PricingInit
  BY DEF MCInit
<1>2. [MCNext]_mcVars =>
        /\ [QuoteNext]_quoteVars /\ [PendingNext]_pendingVars /\ [HierarchyNext]_hierarchyVars
        /\ [AccountingNext]_accountingVars /\ [PricingNext]_pricingVars
  <2> SUFFICES ASSUME [MCNext]_mcVars
               PROVE  /\ [QuoteNext]_quoteVars /\ [PendingNext]_pendingVars
                      /\ [HierarchyNext]_hierarchyVars /\ [AccountingNext]_accountingVars
                      /\ [PricingNext]_pricingVars
    OBVIOUS
  <2>1. CASE UNCHANGED mcVars BY <2>1 DEF mcVars
  <2>2. CASE QuoteOnly /\ QuoteNext BY <2>2 DEF QuoteOnly
  <2>3. CASE PendingOnly /\ PendingNext BY <2>3 DEF PendingOnly
  <2>4. CASE HierarchyOnly /\ HierarchyNext BY <2>4 DEF HierarchyOnly
  <2>5. CASE AccountingOnly /\ AccountingNext BY <2>5 DEF AccountingOnly
  <2>6. CASE PricingOnly /\ PricingNext BY <2>6 DEF PricingOnly
  <2> QED BY <2>1, <2>2, <2>3, <2>4, <2>5, <2>6 DEF MCNext
<1> QED
  BY <1>1, <1>2, PTL
  DEF MCSpec, QuoteSpec, PendingSpec, HierarchySpec, AccountingSpec, PricingSpec

\* The state of every workflow and of an order is well formed, whatever the
\* constants.
THEOREM TradingTypeCorrect == MCSpec => []TradingTypeOK
<1>1. QuoteInv => QuoteTypeOK BY DEF QuoteInv
<1>2. PermissionInv => PendingTypeOK BY DEF PermissionInv
<1>3. HierarchyInv => HierarchyTypeOK BY DEF HierarchyInv
<1>4. OutboxInv => AccountingTypeOK BY DEF OutboxInv, AccountShape
<1>5. PricingInv => PricingTypeOK BY PricingShows
<1>6. PricingInv /\ [PricingNext]_pricingVars => PricingInv' BY PricingStep
<1>7. PricingSpec => []PricingTypeOK BY <1>5, <1>6, PricingStarts, PTL DEF PricingSpec
<1> QED
  BY <1>1, <1>2, <1>3, <1>4, <1>7, TradingParts, QuoteAlways, PermissionAlways,
     HierarchyAlways, OutboxAlways, PTL
  DEF TradingTypeOK

\* What each workflow promises of its state, at once: one approval message of a
\* proposal and none after a refusal, no lapsed order left working, no blind
\* announcement, a result shown once, an order within its limits.
THEOREM TradingIsSafe == MCSpec => []TradingSafe
BY TradingParts, OneMessage, RefusalsStand, PermissionFresh, AnnouncedOnce, ResultsShownOnce,
   PricingIsSound, PTL
DEF TradingSafe
=============================================================================
