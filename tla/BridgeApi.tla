----------------------------- MODULE BridgeApi ------------------------------
(***************************************************************************)
(* The bridge endpoints of the control plane, one handler per request of   *)
(* the MT5 EA: commands_for_bridge, acknowledge and the part of            *)
(* accept_bridge_heartbeat that reconciles commands and proposals.  A      *)
(* request is handled in a slot; a nonce is claimed once, so no request is *)
(* handled twice.  One action is what runs between two awaits.             *)
(***************************************************************************)
EXTENDS FTMOStore

CONSTANT Slots  \* requests the server may be handling at the same time

ASSUME SlotAssumption == "none" \notin Slots

VARIABLES
  req,      \* per slot: the request, its handler's point and local state
  waiting   \* the slot whose answer the EA is waiting for, or "none"

bridgeVars == <<req, waiting>>

ListedCommand == [p : Proposals, status : {"ready", "delivered"}]
\* What the handler has decided to write about the command it is at.
PollDecision == {"reject", "refuse", "reoffer", "deliver"}
BeatDecision == {"pending", "fill"}

\* An acknowledgement; text is what acknowledge tests of the message.
Ack == [p : Proposals, status : {"rejected", "broker_uncertain", "reconciled"},
        ticket : BOOLEAN, retcode : Retcodes, attempted : {"yes", "no"},
        text : {"price", "replay", "other"}]

Free == [kind |-> "free", pc |-> "free"]
PollRequest ==
  [kind : {"poll"}, pc : {"start", "list", "next", "write", "reoffer", "reply", "dead"},
   late : SUBSET Proposals, todo : SUBSET ListedCommand, at : Proposals \cup {"none"},
   do : PollDecision \cup {"none"}, out : SUBSET Proposals]
AckRequest ==
  [kind : {"ack"}, pc : {"start", "update", "proposal", "reply", "dead"},
   msg : Ack, prev : CommandDoc]
\* seen is the listed lifecycle of each proposal, orders and positions the
\* snapshot the EA took when it sent the heartbeat.
BeatRequest ==
  [kind : {"beat"}, pc : {"start", "list", "next", "write", "fill", "life", "reply", "dead"},
   orders : SUBSET Proposals, positions : SUBSET Proposals,
   seen : [Proposals -> Lifecycle], todo : SUBSET Proposals,
   at : Proposals \cup {"none"}, do : BeatDecision \cup {"none"}]

BridgeTypeOK ==
  /\ req \in [Slots -> {Free} \cup PollRequest \cup AckRequest \cup BeatRequest]
  /\ waiting \in Slots \cup {"none"}

BridgeInit ==
  /\ req = [s \in Slots |-> Free]
  /\ waiting = "none"

At(s, kind, pc) == req[s].kind = kind /\ req[s].pc = pc
Goto(s, pc) == req' = [req EXCEPT ![s].pc = pc] /\ UNCHANGED waiting

\* The handler is through: its answer is kept only for an EA that waits.
Answer(s, r) ==
  /\ req' = [req EXCEPT ![s] = IF waiting = s THEN r ELSE Free]
  /\ UNCHANGED waiting

-----------------------------------------------------------------------------
(* commands_for_bridge *)

NewPoll == [kind |-> "poll", pc |-> "start", late |-> {}, todo |-> {},
            at |-> "none", do |-> "none", out |-> {}]

\* The readiness is read once, with the clock the whole handler uses.
PollReadiness(s) ==
  /\ At(s, "poll", "start")
  /\ IF ExecutionReady
       THEN /\ req' = [req EXCEPT ![s].pc = "list",
                                  ![s].late = {p \in Proposals : CommandLate(p)}]
            /\ UNCHANGED waiting
       ELSE Answer(s, [req[s] EXCEPT !.pc = "reply"])
  /\ UNCHANGED storeVars

\* Mutant: reconciled commands are listed for delivery too.
PollListReconciled(s) ==
  /\ At(s, "poll", "list")
  /\ req' = [req EXCEPT
       ![s].pc = "next",
       ![s].todo = {c \in ListedCommand : cmd[c.p].status \in {c.status, "reconciled"}}]
  /\ UNCHANGED waiting
  /\ UNCHANGED storeVars

PollList(s) ==
  /\ At(s, "poll", "list")
  /\ req' = [req EXCEPT
       ![s].pc = "next",
       ![s].todo = {c \in ListedCommand : cmd[c.p].status = c.status}]
  /\ UNCHANGED waiting
  /\ UNCHANGED storeVars

Deliverable(p) ==
  /\ prop[p].status = "command_created"
  /\ prop[p].approved

\* Mutant: a price that moved re-offers a delivered command too.
PollOutcomesReofferDelivered(r, c) ==
  IF c.p \in r.late THEN {"reject"}
  ELSE IF ~Deliverable(c.p) THEN {"skip"}
  ELSE IF ~LimitReplacementOrigin(c.p) THEN {"skip", "reject"}
  ELSE {"deliver", "reject"}
       \cup (IF EntryPolicy(c.p) THEN {"refuse", "reoffer"} ELSE {})

\* Mutant: an expired command is passed over.
PollOutcomesExpiredSkipped(r, c) ==
  IF c.p \in r.late \/ ~Deliverable(c.p) THEN {"skip"}
  ELSE IF ~LimitReplacementOrigin(c.p) THEN {"skip", "reject"}
  ELSE {"deliver", "reject"}

\* What the checks of one listed command may lead to: "skip" leaves it for a
\* later poll, "reject" is the deadline, the identity or the evidence, "refuse"
\* and "reoffer" the last checks of an entry policy.  A price that moved
\* re-offers the command if it was LISTED as ready.
PollOutcomes(r, c) ==
  IF c.p \in r.late THEN {"reject"}
  ELSE IF ~Deliverable(c.p) THEN {"skip"}
  ELSE IF ~LimitReplacementOrigin(c.p) THEN {"skip", "reject"}
  ELSE {"deliver", "reject"}
       \cup (IF EntryPolicy(c.p) THEN {"refuse"} ELSE {})
       \cup (IF EntryPolicy(c.p) /\ c.status = "ready" THEN {"reoffer"} ELSE {})

PollCheck(s) ==
  /\ At(s, "poll", "next")
  /\ \E c \in req[s].todo : \E do \in PollOutcomes(req[s], c) :
       req' = [req EXCEPT
         ![s].todo = @ \ {c},
         ![s].pc = IF do = "skip" THEN "next" ELSE "write",
         ![s].at = IF do = "skip" THEN "none" ELSE c.p,
         ![s].do = IF do = "skip" THEN "none" ELSE do]
  /\ UNCHANGED waiting
  /\ UNCHANGED storeVars

\* Mutant: a refused delivery writes a status that is the proposal's.
PollChangeProposalStatus(do, p) ==
  [cmd[p] EXCEPT !.status = IF do = "deliver" THEN "delivered" ELSE "execution_failed"]

\* update_command: the changes are merged into the record as it is now.
PollChange(do, p) ==
  CASE do = "deliver" -> [cmd[p] EXCEPT !.status = "delivered"]
    [] do = "reoffer" -> [cmd[p] EXCEPT !.status = "rejected", !.elig = TRUE,
                                        !.attempted = "no"]
    [] do = "refuse"  -> [cmd[p] EXCEPT !.status = "rejected", !.elig = FALSE,
                                        !.attempted = "unset"]
    [] OTHER -> [cmd[p] EXCEPT !.status = "rejected"]

PollWrite(s) ==
  /\ At(s, "poll", "write")
  /\ LET p == req[s].at IN
       /\ cmd' = [cmd EXCEPT ![p] = PollChange(req[s].do, p)]
       /\ IF req[s].do = "reoffer"
            THEN Goto(s, "reoffer")
            ELSE /\ req' = [req EXCEPT
                      ![s].pc = "next", ![s].at = "none", ![s].do = "none",
                      ![s].out = IF req[s].do = "deliver" THEN @ \cup {p} ELSE @]
                 /\ UNCHANGED waiting
  /\ UNCHANGED <<prop, killed, fresh, expired, lapsed>>

PollReoffer(s) ==
  /\ At(s, "poll", "reoffer")
  /\ LET p == req[s].at IN
       UpdateProposal(p, [prop[p] EXCEPT !.status = "execution_failed", !.elig = TRUE])
  /\ req' = [req EXCEPT ![s].pc = "next", ![s].at = "none", ![s].do = "none"]
  /\ UNCHANGED waiting
  /\ UNCHANGED <<cmd, killed, fresh, expired, lapsed>>

PollReply(s) ==
  /\ At(s, "poll", "next")
  /\ req[s].todo = {}
  /\ Answer(s, [req[s] EXCEPT !.pc = "reply"])
  /\ UNCHANGED storeVars

-----------------------------------------------------------------------------
(* acknowledge *)

NewAck(msg) == [kind |-> "ack", pc |-> "start", msg |-> msg, prev |-> NoCommand]

HeartbeatReconciled(c) == c.status = "reconciled" /\ c.source # "none"

\* An older receipt cannot erase a fill the heartbeat has observed.
AckRead(s) ==
  /\ At(s, "ack", "start")
  /\ LET c == cmd[req[s].msg.p] IN
       IF HeartbeatReconciled(c)
         THEN Answer(s, [req[s] EXCEPT !.pc = "reply"])
         ELSE /\ req' = [req EXCEPT ![s].pc = "update", ![s].prev = c]
              /\ UNCHANGED waiting
  /\ UNCHANGED storeVars

\* A replay carries status and ticket only; the evidence of the first
\* acknowledgement is kept when it says the same.
AckEvidence(msg, prev) ==
  IF msg.status = prev.status /\ msg.retcode = "none" /\ prev.retcode # "none"
    THEN [msg EXCEPT !.retcode = prev.retcode, !.attempted = prev.attempted]
    ELSE msg

\* broker_result_status: without DONE and its evidence nothing is reconciled.
AckStatus(ev) ==
  IF ev.status = "reconciled" /\ ~(ev.retcode = "done" /\ ev.ticket)
    THEN "broker_uncertain" ELSE ev.status

Submitted == {"reconciled", "broker_uncertain"}
AckMaybe(ev, prev) ==
  \/ prev.maybe \/ prev.attempted = "yes" \/ ev.attempted = "yes"
  \/ prev.status \in Submitted \/ AckStatus(ev) \in Submitted

AckEligible(p, ev, prev) ==
  /\ ev.text = "price" \/ (prev.elig /\ ev.text = "replay")
  /\ AckStatus(ev) = "rejected"
  /\ ~AckMaybe(ev, prev)
  /\ ev.attempted = "no"
  /\ prev.status \in {"ready", "delivered", "rejected"}
  /\ ~ev.ticket /\ ~prev.ticket /\ ev.retcode = "none" /\ prev.retcode = "none"
  /\ prop[p].otype = "market" \/ EntryPolicy(p)

AckChange(p, msg, prev) ==
  LET ev == AckEvidence(msg, prev) IN
    [cmd[p] EXCEPT !.status = AckStatus(ev), !.elig = AckEligible(p, ev, prev),
                   !.maybe = AckMaybe(ev, prev), !.ticket = ev.ticket,
                   !.retcode = ev.retcode, !.attempted = ev.attempted]

\* The status and eligibility are computed from the record read first, and
\* merged into the record as it is now.
AckUpdate(s) ==
  /\ At(s, "ack", "update")
  /\ LET p == req[s].msg.p IN
       cmd' = [cmd EXCEPT ![p] = AckChange(p, req[s].msg, req[s].prev)]
  /\ Goto(s, "proposal")
  /\ UNCHANGED <<prop, killed, fresh, expired, lapsed>>

AckProposalStatus(status) ==
  CASE status = "rejected" -> "execution_failed"
    [] status = "broker_uncertain" -> "reconciliation_required"
    [] status = "reconciled" -> "reconciled"

AckProposal(s) ==
  /\ At(s, "ack", "proposal")
  /\ LET p == req[s].msg.p
         ev == AckEvidence(req[s].msg, req[s].prev)
         status == AckStatus(ev) IN
       UpdateProposal(p,
         [prop[p] EXCEPT !.status = AckProposalStatus(status),
                         !.life = IF status = "reconciled" THEN "BROKER_ACCEPTED"
                                                           ELSE "EXECUTION_FAILED",
                         !.ticket = ev.ticket,
                         !.elig = @ \/ (EntryPolicy(p) /\ AckEligible(p, ev, req[s].prev))])
  /\ Answer(s, [req[s] EXCEPT !.pc = "reply"])
  /\ UNCHANGED <<cmd, killed, fresh, expired, lapsed>>

-----------------------------------------------------------------------------
(* accept_bridge_heartbeat *)

NewBeat(orders, positions) ==
  [kind |-> "beat", pc |-> "start", orders |-> orders, positions |-> positions,
   seen |-> [p \in Proposals |-> "AWAITING_APPROVAL"], todo |-> {},
   at |-> "none", do |-> "none"]

BeatSave(s) ==
  /\ At(s, "beat", "start")
  /\ fresh' = TRUE
  /\ Goto(s, "list")
  /\ UNCHANGED <<prop, cmd, killed, expired, lapsed>>

BeatList(s) ==
  /\ At(s, "beat", "list")
  /\ req' = [req EXCEPT
       ![s].pc = "next",
       ![s].seen = [p \in Proposals |-> prop[p].life],
       ![s].todo = {p \in Proposals : prop[p].approved}]
  /\ UNCHANGED waiting
  /\ UNCHANGED storeVars

\* An order with the managed comment, for a command that may have reached
\* the broker.
BeatSeesPending(r, p) ==
  /\ p \in r.orders
  /\ EntryPolicy(p) /\ prop[p].otype = "pending"
  /\ cmd[p].status \in {"delivered", "broker_uncertain"}

\* A market position for a DONE receipt that lacked its fill price.
BeatSeesFill(r, p) ==
  /\ p \in r.positions
  /\ prop[p].otype = "market"
  /\ cmd[p].status = "broker_uncertain"
  /\ cmd[p].retcode = "nofill" /\ cmd[p].attempted = "yes" /\ cmd[p].ticket

BeatCheck(s) ==
  /\ At(s, "beat", "next")
  /\ \E p \in req[s].todo :
       LET do == IF BeatSeesPending(req[s], p) THEN "pending"
                 ELSE IF BeatSeesFill(req[s], p) THEN "fill" ELSE "none" IN
         req' = [req EXCEPT ![s].todo = @ \ {p}, ![s].at = p, ![s].do = do,
                            ![s].pc = IF do = "none" THEN "life" ELSE "write"]
  /\ UNCHANGED waiting
  /\ UNCHANGED storeVars

\* The fill goes through acknowledge, which leaves a heartbeat's own result.
BeatWrite(s) ==
  /\ At(s, "beat", "write")
  /\ LET p == req[s].at IN
       IF req[s].do = "pending"
         THEN /\ cmd' = [cmd EXCEPT ![p].status = "reconciled",
                ![p].source = "pending", ![p].ticket = TRUE, ![p].maybe = TRUE]
              /\ Goto(s, "life")
         ELSE IF HeartbeatReconciled(cmd[p])
           THEN UNCHANGED cmd /\ Goto(s, "life")
           ELSE /\ cmd' = [cmd EXCEPT ![p].status = "reconciled",
                  ![p].elig = FALSE, ![p].maybe = TRUE, ![p].ticket = TRUE,
                  ![p].retcode = "done", ![p].attempted = "yes",
                  ![p].source = "position"]
                /\ Goto(s, "fill")
  /\ UNCHANGED <<prop, killed, fresh, expired, lapsed>>

BeatFill(s) ==
  /\ At(s, "beat", "fill")
  /\ LET p == req[s].at IN
       UpdateProposal(p, [prop[p] EXCEPT !.status = "reconciled",
                                         !.life = "BROKER_ACCEPTED", !.ticket = TRUE])
  /\ Goto(s, "life")
  /\ UNCHANGED <<cmd, killed, fresh, expired, lapsed>>

\* The lifecycle the snapshot shows, given the one that was listed.
NextLife(r, p) ==
  IF p \in r.positions THEN "POSITION_OPEN"
  ELSE IF p \in r.orders THEN "BROKER_ACCEPTED"
  ELSE IF r.seen[p] = "BROKER_ACCEPTED" /\ EntryPolicy(p)
    THEN "PENDING_ORDER_NO_LONGER_OPEN"
  ELSE IF r.seen[p] = "POSITION_OPEN" THEN "POSITION_CLOSED"
  ELSE r.seen[p]

BeatLife(s) ==
  /\ At(s, "beat", "life")
  /\ LET p == req[s].at
         life == NextLife(req[s], p) IN
       IF life = req[s].seen[p] /\ req[s].do = "none"
         THEN UNCHANGED prop
         ELSE UpdateProposal(p,
                [prop[p] EXCEPT !.life = life,
                   !.status = IF life = "POSITION_CLOSED" THEN "reconciled" ELSE @])
  /\ req' = [req EXCEPT ![s].pc = "next", ![s].at = "none", ![s].do = "none"]
  /\ UNCHANGED waiting
  /\ UNCHANGED <<cmd, killed, fresh, expired, lapsed>>

BeatReply(s) ==
  /\ At(s, "beat", "next")
  /\ req[s].todo = {}
  /\ Answer(s, [req[s] EXCEPT !.pc = "reply"])
  /\ UNCHANGED storeVars

-----------------------------------------------------------------------------

HandlerProceeds(s) ==
  \/ PollReadiness(s) \/ PollList(s) \/ PollCheck(s) \/ PollWrite(s)
  \/ PollReoffer(s) \/ PollReply(s)
  \/ AckRead(s) \/ AckUpdate(s) \/ AckProposal(s)
  \/ BeatSave(s) \/ BeatList(s) \/ BeatCheck(s) \/ BeatWrite(s)
  \/ BeatFill(s) \/ BeatLife(s) \/ BeatReply(s)

\* The handler raises (a conflicting write) or the server stops.
HandlerDies(s) ==
  /\ req[s].pc \notin {"free", "reply", "dead"}
  /\ Answer(s, [req[s] EXCEPT !.pc = "dead"])
  /\ UNCHANGED storeVars
=============================================================================
