---------------------------- MODULE PendingEntry ----------------------------
(* The permission of one working pending order (pending_entry.py and the     *)
(* signed manifest in production.py; MonatisePendingEntry.mqh and the EA's   *)
(* timer).  The server judges the order at every heartbeat and either grants *)
(* a lease of a few seconds or revokes it for good; the EA deletes an order  *)
(* whose lease has run out.  Requests that time out go on being handled.     *)
(* Prices, volumes and evidence are one Boolean: the setup is eligible.      *)
EXTENDS Naturals, FiniteSets

CONSTANTS
  Heartbeats,    \* handlers of heartbeats that may overlap
  LeaseTicks,    \* PENDING_LEASE_SECONDS, and the manifest's validity
  Deadline,      \* the native expiry approved with the order
  SourceEnds,    \* when evidence, session or source may end
  Horizon,       \* bound: the last tick
  MaxPendingFaults  \* bound: lost answers, refused deletions and EA restarts

ASSUME PendingAssumption ==
  /\ LeaseTicks \in Nat \ {0} /\ Deadline \in Nat \ {0} /\ Deadline < Horizon
  /\ Horizon \in Nat /\ SourceEnds \subseteq Nat /\ MaxPendingFaults \in Nat

VARIABLES
  clock,
  eligible,   \* gates, session, evidence and prices permit the setup now
  order,      \* the broker's pending order and its native expiry
  ea,         \* the EA's point, global variables and the heartbeat it waits for
  revoked,    \* the server's immutable revocation record
  cancelled,  \* pending_cancellation_reason of the proposal
  beat,       \* each heartbeat handler
  lastGood,   \* history: the last tick at which the setup was eligible
  disturbed   \* faults used so far, and whether a deletion was refused

pendingVars == <<clock, eligible, order, ea, revoked, cancelled, beat, lastGood, disturbed>>

Ticks == 0..Horizon
Idle == [pc |-> "idle", now |-> 0, lease |-> 0, deadline |-> 0, valid |-> 0]

PendingTypeOK ==
  /\ clock \in Ticks /\ eligible \in BOOLEAN /\ lastGood \in Ticks
  /\ order \in [state : {"none", "working", "filled", "gone"}, expiry : 0..Deadline]
  /\ ea \in [pc : {"down", "guard", "send", "waiting", "recheck"}, expiry : 0..Deadline,
             lease : Nat, revoked : BOOLEAN, waits : Heartbeats \cup {"none"}]
  /\ revoked \in BOOLEAN /\ cancelled \in BOOLEAN
  /\ beat \in [Heartbeats -> [pc : {"idle", "check", "judge", "revoke", "record", "sign", "sent"},
                              now : Ticks, lease : Nat, deadline : 0..Deadline, valid : Nat]]
  /\ disturbed \in [count : 0..MaxPendingFaults, refused : BOOLEAN]

PendingInit ==
  /\ clock = 0 /\ eligible = TRUE /\ lastGood = 0
  /\ order = [state |-> "none", expiry |-> 0]
  /\ ea = [pc |-> "recheck", expiry |-> 0, lease |-> 0, revoked |-> FALSE, waits |-> "none"]
  /\ revoked = FALSE /\ cancelled = FALSE
  /\ beat = [h \in Heartbeats |-> Idle]
  /\ disturbed = [count |-> 0, refused |-> FALSE]

Less(a, b) == IF a < b THEN a ELSE b
Working == order.state = "working"
Disturb(refusal) ==
  /\ disturbed.count < MaxPendingFaults
  /\ disturbed' = [count |-> disturbed.count + 1, refused |-> disturbed.refused \/ refusal]

-----------------------------------------------------------------------------
(* The EA. *)

(* PreparePendingEntry, then the order: the command was approved at tick 0   *)
(* and carries its lease and deadline; it is prepared once.                  *)
PlacePending ==
  /\ ea.pc = "recheck" /\ order.state = "none" /\ ea.expiry = 0
  /\ clock < LeaseTicks /\ clock < Deadline /\ eligible
  /\ order' = [state |-> "working", expiry |-> Deadline]
  /\ ea' = [ea EXCEPT !.expiry = Deadline, !.lease = Less(LeaseTicks, Deadline)]
  /\ UNCHANGED <<clock, eligible, revoked, cancelled, beat, lastGood, disturbed>>

(* RevokePendingEntry: the mark is kept for good, and the order is deleted   *)
(* unless the broker refuses.                                                *)
RevokeAndDelete(pc) ==
  /\ ea' = [ea EXCEPT !.pc = pc, !.revoked = TRUE, !.waits = "none"]
  /\ \/ order' = [order EXCEPT !.state = "gone"] /\ UNCHANGED disturbed
     \/ Disturb(TRUE) /\ UNCHANGED order

(* GuardPendingEntries, before and after each request of the timer.          *)
Lapsed == ea.expiry <= clock \/ ea.lease <= clock \/ order.expiry > ea.expiry
          \/ ea.revoked \/ order.expiry <= clock

GuardOrders ==
  /\ ea.pc \in {"guard", "recheck"}
  /\ LET next == IF ea.pc = "guard" THEN "send" ELSE "guard" IN
       IF Working /\ Lapsed THEN RevokeAndDelete(next)
       ELSE ea' = [ea EXCEPT !.pc = next] /\ UNCHANGED <<order, disturbed>>
  /\ UNCHANGED <<clock, eligible, revoked, cancelled, beat, lastGood>>

(* A heartbeat whose snapshot holds the order; others change nothing here.   *)
SendHeartbeat(h) ==
  /\ ea.pc = "send" /\ Working /\ beat[h].pc = "idle"
  /\ ea' = [ea EXCEPT !.pc = "waiting", !.waits = h]
  /\ beat' = [beat EXCEPT ![h] = [Idle EXCEPT !.pc = "check", !.now = clock]]
  /\ UNCHANGED <<clock, eligible, order, revoked, cancelled, lastGood, disturbed>>

(* ApplyPendingManifest: a signed answer to this very request, still valid.  *)
(* The lease is refreshed and both deadlines may shrink; an order without a  *)
(* good row is revoked.                                                      *)
\* Mutant: a good row takes a revoked order up again.
GoodRowForgives(m) ==
  /\ m.lease > clock
  /\ m.lease <= m.valid /\ m.lease <= m.deadline /\ m.deadline <= ea.expiry

GoodRow(m) ==
  /\ ~ea.revoked /\ m.lease > clock
  /\ m.lease <= m.valid /\ m.lease <= m.deadline /\ m.deadline <= ea.expiry

ApplyManifest(h) ==
  /\ ea.pc = "waiting" /\ ea.waits = h /\ beat[h].pc = "sent"
  /\ beat' = [beat EXCEPT ![h] = Idle]
  /\ LET m == beat[h]
         valid == m.valid > clock /\ m.valid <= clock + LeaseTicks
         good == [ea EXCEPT !.pc = "recheck", !.waits = "none", !.lease = m.lease, !.expiry = m.deadline] IN
       IF ~valid \/ ~Working
       THEN ea' = [ea EXCEPT !.pc = "recheck", !.waits = "none"] /\ UNCHANGED <<order, disturbed>>
       ELSE IF ~GoodRow(m) \/ order.expiry <= clock THEN RevokeAndDelete("recheck")
       ELSE \/ /\ ea' = good                       \* native expiry kept or shortened
               /\ order' = [order EXCEPT !.expiry = Less(order.expiry, m.deadline)]
               /\ UNCHANGED disturbed
            \/ /\ order.expiry > m.deadline        \* modification refused
               /\ Disturb(TRUE)
               /\ ea' = [good EXCEPT !.revoked = TRUE]
               /\ order' \in {order, [order EXCEPT !.state = "gone"]}
  /\ UNCHANGED <<clock, eligible, revoked, cancelled, lastGood>>

(* The request times out or its answer is lost; the server may go on.        *)
HeartbeatLost ==
  /\ ea.pc = "waiting" /\ Disturb(FALSE)
  /\ ea' = [ea EXCEPT !.pc = "recheck", !.waits = "none"]
  /\ UNCHANGED <<clock, eligible, order, revoked, cancelled, beat, lastGood>>

(* An answer nobody waits for is dropped.                                    *)
AnswerDropped(h) ==
  /\ beat[h].pc = "sent" /\ ea.waits # h
  /\ beat' = [beat EXCEPT ![h] = Idle]
  /\ UNCHANGED <<clock, eligible, order, ea, revoked, cancelled, lastGood, disturbed>>

(* OnDeinit may revoke everything, a crash cannot; OnInit always does.       *)
EAStops ==
  /\ ea.pc # "down" /\ Disturb(FALSE)
  /\ ea' = [ea EXCEPT !.pc = "down", !.waits = "none"]
  /\ UNCHANGED <<clock, eligible, order, revoked, cancelled, beat, lastGood>>
EAStarts ==
  /\ ea.pc = "down"
  /\ IF Working THEN RevokeAndDelete("guard")
     ELSE ea' = [ea EXCEPT !.pc = "guard"] /\ UNCHANGED <<order, disturbed>>
  /\ UNCHANGED <<clock, eligible, revoked, cancelled, beat, lastGood>>

-----------------------------------------------------------------------------
(* The server's handling of a heartbeat: pending_entry_leases. *)

HandlerGoes(h, pc) == beat' = [beat EXCEPT ![h].pc = pc]

(* The revocation record and the proposal are read first.                    *)
CheckRevocation(h) ==
  /\ beat[h].pc = "check"
  /\ HandlerGoes(h, IF revoked \/ cancelled THEN "revoke" ELSE "judge")
  /\ UNCHANGED <<clock, eligible, order, ea, revoked, cancelled, lastGood, disturbed>>

(* Every other check, with the time the heartbeat was received.  Evidence,   *)
(* session or source may expire before the approved deadline.                *)
JudgeEligible(h) ==
  /\ beat[h].pc = "judge" /\ eligible
  /\ \E source \in SourceEnds :
       LET expires == Less(Deadline, source) IN
         /\ beat[h].now < expires
         /\ beat' = [beat EXCEPT ![h].pc = "sign", ![h].deadline = expires,
                                 ![h].lease = Less(expires, beat[h].now + LeaseTicks)]
  /\ UNCHANGED <<clock, eligible, order, ea, revoked, cancelled, lastGood, disturbed>>
JudgeRefused(h) ==
  /\ beat[h].pc = "judge"
  /\ ~eligible \/ \E source \in SourceEnds : beat[h].now >= Less(Deadline, source)
  /\ HandlerGoes(h, "revoke")
  /\ UNCHANGED <<clock, eligible, order, ea, revoked, cancelled, lastGood, disturbed>>

(* The revocation is inserted once and never changed.                        *)
RecordRevocation(h) ==
  /\ beat[h].pc = "revoke"
  /\ revoked' = TRUE /\ HandlerGoes(h, "record")
  /\ UNCHANGED <<clock, eligible, order, ea, cancelled, lastGood, disturbed>>

(* The reason is written to the proposal; a conflicting write is passed over. *)
RecordReason(h) ==
  /\ beat[h].pc = "record"
  /\ cancelled' \in {TRUE, cancelled} /\ HandlerGoes(h, "sign")
  /\ UNCHANGED <<clock, eligible, order, ea, revoked, lastGood, disturbed>>

(* The manifest is signed with the request's nonce and a short validity.     *)
SignManifest(h) ==
  /\ beat[h].pc = "sign"
  /\ beat' = [beat EXCEPT ![h].pc = "sent", ![h].valid = clock + LeaseTicks]
  /\ UNCHANGED <<clock, eligible, order, ea, revoked, cancelled, lastGood, disturbed>>

-----------------------------------------------------------------------------
(* The world. *)

PendingTick ==
  /\ clock < Horizon /\ clock' = clock + 1
  /\ lastGood' = IF eligible THEN clock + 1 ELSE lastGood
  /\ UNCHANGED <<eligible, order, ea, revoked, cancelled, beat, disturbed>>
EligibilityTurns ==
  /\ order.state \in {"none", "working"} /\ eligible' = ~eligible
  /\ lastGood' = clock
  /\ UNCHANGED <<clock, order, ea, revoked, cancelled, beat, disturbed>>
BrokerFills ==
  /\ Working /\ order' = [order EXCEPT !.state = "filled"]
  /\ UNCHANGED <<clock, eligible, ea, revoked, cancelled, beat, lastGood, disturbed>>
BrokerExpires ==
  /\ Working /\ order.expiry <= clock /\ order' = [order EXCEPT !.state = "gone"]
  /\ UNCHANGED <<clock, eligible, ea, revoked, cancelled, beat, lastGood, disturbed>>

EATimer == GuardOrders \/ (\E h \in Heartbeats : SendHeartbeat(h) \/ ApplyManifest(h)) \/ EAStarts
Handles(h) ==
  \/ CheckRevocation(h) \/ JudgeEligible(h) \/ JudgeRefused(h)
  \/ RecordRevocation(h) \/ RecordReason(h) \/ SignManifest(h)

PendingNext ==
  \/ EATimer \/ PlacePending \/ HeartbeatLost \/ EAStops
  \/ \E h \in Heartbeats : Handles(h) \/ AnswerDropped(h)
  \/ PendingTick \/ EligibilityTurns \/ BrokerFills \/ BrokerExpires

(* While the order works the EA's timer goes on and time passes, and the     *)
(* server handles what it got; the broker is not relied on to expire it.     *)
PendingFairness ==
  /\ WF_pendingVars(Working /\ EATimer) /\ WF_pendingVars(Working /\ PendingTick)
  /\ \A h \in Heartbeats : WF_pendingVars(Handles(h)) /\ WF_pendingVars(AnswerDropped(h))
PendingSpec == PendingInit /\ [][PendingNext]_pendingVars /\ PendingFairness

-----------------------------------------------------------------------------
\* The EA's permission is never older than a lease: it ends within LeaseTicks
\* of the last moment at which the setup was eligible, however requests
\* overlap, answers are lost or eligibility turns while a heartbeat is judged.
PermissionIsFresh ==
  Working /\ ~ea.revoked => ea.lease <= lastGood + LeaseTicks /\ ea.lease <= ea.expiry

\* An order that is still working past its permission is so only because the
\* EA is down, has not reached its next check, or the broker refused.
NoLapsedOrderLeft ==
  Working /\ ea.pc = "send" /\ ~disturbed.refused => ~ea.revoked

\* Revocation at the EA is for good, and deadlines only shrink: no later
\* manifest prolongs what was approved (MonatisePendingEntry.mqh: "Rejected/
\* frozen deletes remain revoked and are retried").
PermissionOnlyShrinks ==
  [][/\ ea.revoked => ea'.revoked /\ ea'.lease = ea.lease
     /\ Working => ea'.expiry <= ea.expiry /\ order'.expiry <= order.expiry]_pendingVars

\* Once the server has revoked an order it stops working, although an older
\* heartbeat may still grant a lease, answers get lost, the EA restarts and
\* the broker refuses deletions; its native expiry is not needed.
RevocationCancels == revoked ~> ~Working
=============================================================================
