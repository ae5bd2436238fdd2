------------------------ MODULE HierarchyPublication ------------------------
(* The publication of one confirmed trigger of the evidence hierarchy        *)
(* (hierarchy/lifecycle.py and the end of ShadowHierarchyService.tick).      *)
(* A tick claims the trigger, closes automatic retries, sends one Telegram   *)
(* message and records the outcome; a job flags deliveries nobody recorded;  *)
(* an operator resolves them.  HierarchyTicks of several jobs and processes overlap.  *)
(* A repository operation reads and writes under a version, so it is one     *)
(* step; one that loses the race fails like a storage error.                 *)
EXTENDS Naturals, FiniteSets

CONSTANTS
  HierarchyTicks,              \* ticks that may be under way for the symbol at once
  MaxTriggerAttempts, \* bound: claims of the trigger
  MaxResends,         \* bound: operator decisions that nothing was delivered
  MaxHierarchyFaults  \* bound: storage errors, timeouts and crashes of a tick

ASSUME HierarchyAssumption ==
  /\ IsFiniteSet(HierarchyTicks)
  /\ MaxTriggerAttempts \in Nat /\ MaxResends \in Nat /\ MaxHierarchyFaults \in Nat

VARIABLES
  claim,      \* the record in hierarchy_trigger_claims
  tick,       \* each tick's point
  sent,       \* messages Telegram accepted for the trigger
  resends,    \* history: times the operator confirmed that nothing was delivered
  hasty,      \* history: the operator resolved a delivery still under way
  hierarchyFaults

hierarchyVars == <<claim, tick, sent, resends, hasty, hierarchyFaults>>

Ambiguous == {"publishing", "delivery_uncertain"}
Resolved == {"published", "failed", "abandoned"}
ClaimStatus == Ambiguous \cup Resolved \cup {"absent", "pending", "reconciliation_required"}

HierarchyTypeOK ==
  /\ claim \in [status : ClaimStatus, attempts : 0..MaxTriggerAttempts,
                lease : {"none", "held", "over"}, due : {"none", "set", "passed"}]
  /\ tick \in [HierarchyTicks -> {"idle", "claimed", "begun", "delivered", "failed"}]
  /\ sent \in Nat /\ resends \in 0..MaxResends /\ hasty \in BOOLEAN
  /\ hierarchyFaults \in 0..MaxHierarchyFaults

HierarchyInit ==
  /\ claim = [status |-> "absent", attempts |-> 0, lease |-> "none", due |-> "none"]
  /\ tick = [w \in HierarchyTicks |-> "idle"]
  /\ sent = 0 /\ resends = 0 /\ hasty = FALSE /\ hierarchyFaults = 0

TickGoes(w, from, to) == tick[w] = from /\ tick' = [tick EXCEPT ![w] = to]

-----------------------------------------------------------------------------
(* claim_trigger: a new trigger, one the operator found undelivered, or a    *)
(* claim whose two minutes ended before its publication began.               *)
\* Mutant: a resolved trigger is not told from an undelivered one.
ClaimableResolved ==
  \/ claim.status \in {"absent"} \cup Resolved
  \/ claim.status = "pending" /\ claim.lease # "held"

ClaimableTrigger ==
  \/ claim.status \in {"absent", "failed"}
  \/ claim.status = "pending" /\ claim.lease # "held"

(* The event that follows a first claim may fail to be appended: the tick    *)
(* ends and the claim waits for its lease.                                   *)
ClaimTrigger(w) ==
  /\ ClaimableTrigger /\ claim.attempts < MaxTriggerAttempts
  /\ claim' = [claim EXCEPT !.status = "pending", !.attempts = @ + 1, !.lease = "held",
                            !.due = "none"]
  /\ \/ TickGoes(w, "idle", "claimed") /\ UNCHANGED hierarchyFaults
     \/ /\ claim.status = "absent" /\ tick[w] = "idle" /\ hierarchyFaults < MaxHierarchyFaults
        /\ hierarchyFaults' = hierarchyFaults + 1 /\ UNCHANGED tick
  /\ UNCHANGED <<sent, resends, hasty>>

(* begin_publication: whoever's claim it is, only one tick passes.           *)
\* Mutant: the deadline for the outcome is not set.
BegunWithoutDeadline == [claim EXCEPT !.status = "publishing", !.lease = "none"]

Begun == [claim EXCEPT !.status = "publishing", !.lease = "none", !.due = "set"]

BeginPublication(w) ==
  /\ IF claim.status = "pending" THEN claim' = Begun /\ TickGoes(w, "claimed", "begun")
     ELSE TickGoes(w, "claimed", "idle") /\ UNCHANGED claim
  /\ UNCHANGED <<sent, resends, hasty, hierarchyFaults>>

(* The publisher, and the FTMO proposals that follow it, may raise before or *)
(* after Telegram accepted the message.                                      *)
SendNotification(w) ==
  /\ \/ TickGoes(w, "begun", "delivered") /\ sent' = sent + 1
     \/ TickGoes(w, "begun", "failed") /\ sent' \in {sent, sent + 1}
  /\ UNCHANGED <<claim, resends, hasty, hierarchyFaults>>

(* record_publication overwrites whatever the status has become.             *)
RecordPublication(w) ==
  /\ \/ /\ TickGoes(w, "delivered", "idle")
        /\ claim' = [claim EXCEPT !.status = "published", !.lease = "none", !.due = "none"]
     \/ /\ TickGoes(w, "failed", "idle")
        /\ claim' = [claim EXCEPT !.status = "delivery_uncertain", !.lease = "none"]
  /\ UNCHANGED <<sent, resends, hasty, hierarchyFaults>>

(* A storage error, the job's timeout or a crash: nothing is recorded.       *)
TickFails(w) ==
  /\ tick[w] # "idle" /\ hierarchyFaults < MaxHierarchyFaults
  /\ hierarchyFaults' = hierarchyFaults + 1
  /\ tick' = [tick EXCEPT ![w] = "idle"]
  /\ UNCHANGED <<claim, sent, resends, hasty>>

-----------------------------------------------------------------------------
(* flag_stale_publications, the job of every minute.                         *)
FlagStale ==
  /\ claim.status \in Ambiguous /\ claim.due = "passed"
  /\ claim' = [claim EXCEPT !.status = "reconciliation_required"]
  /\ UNCHANGED <<tick, sent, resends, hasty, hierarchyFaults>>

(* reconcile_publication: the operator's decision.                           *)
AwaitsOperator == claim.status \in Ambiguous \cup {"reconciliation_required"}

ReconcilePublication ==
  /\ AwaitsOperator
  /\ \E status \in Resolved :
       /\ status = "failed" => resends < MaxResends
       /\ claim' = [claim EXCEPT !.status = status, !.due = "none"]
       /\ resends' = IF status = "failed" THEN resends + 1 ELSE resends
  /\ hasty' = (hasty \/ \E w \in HierarchyTicks : tick[w] \in {"begun", "delivered", "failed"})
  /\ UNCHANGED <<tick, sent, hierarchyFaults>>

(* Two minutes: of the claim's lease, and of the deadline for its outcome.   *)
ClaimLeaseEnds ==
  /\ claim.lease = "held" /\ claim' = [claim EXCEPT !.lease = "over"]
  /\ UNCHANGED <<tick, sent, resends, hasty, hierarchyFaults>>
OutcomeOverdue ==
  /\ claim.due = "set" /\ claim' = [claim EXCEPT !.due = "passed"]
  /\ UNCHANGED <<tick, sent, resends, hasty, hierarchyFaults>>

HierarchyNext ==
  \/ \E w \in HierarchyTicks : \/ ClaimTrigger(w) \/ BeginPublication(w) \/ SendNotification(w)
                      \/ RecordPublication(w) \/ TickFails(w)
  \/ FlagStale \/ ReconcilePublication \/ ClaimLeaseEnds \/ OutcomeOverdue

(* The clock runs and the flag job keeps being scheduled; ticks may stop     *)
(* anywhere, and no operator is bound to answer.                             *)
HierarchyFairness == WF_hierarchyVars(OutcomeOverdue) /\ WF_hierarchyVars(FlagStale)
HierarchySpec == HierarchyInit /\ [][HierarchyNext]_hierarchyVars /\ HierarchyFairness

-----------------------------------------------------------------------------
\* A trigger is announced at most once, and once more only for each time the
\* operator confirmed that nothing had been delivered: whatever timeouts,
\* storage errors, late records and overlapping ticks, a claim that a tick may
\* take is a trigger whose messages are all accounted for.
NoBlindResend ==
  /\ sent <= 1 + resends
  /\ claim.status \in {"absent", "pending", "failed"} => sent <= resends

\* What was published, or resolved by the operator, is not reopened by a tick
\* that comes late, and only the operator's "not delivered" lets a trigger be
\* claimed again; unless the operator resolved a delivery still under way,
\* which an unconditional record may then overwrite.
ResolvedStays ==
  [][hasty' \/ (/\ claim.status \in {"published", "abandoned"} => claim'.status = claim.status
                /\ claim.status = "failed" => claim'.status \in {"failed", "pending"})]_hierarchyVars

\* "Surface ambiguous deliveries after their deadline without retrying them"
\* (lifecycle.py:190): a delivery that began is recorded, resolved or flagged
\* for the operator, wherever its tick stopped; unless the operator resolved it
\* under way, since a record that comes after that has no deadline left.
Surfaced == claim.status \in Resolved \cup {"reconciliation_required"} \/ hasty
AmbiguitySurfaces == claim.status \in Ambiguous ~> Surfaced
=============================================================================
