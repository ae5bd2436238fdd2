--------------------------- MODULE OperatorConsole ---------------------------
(* What surrounds an order: the control record that arms and kills the       *)
(* execution (ftmo_master.py), the bridge's signed requests and their nonces *)
(* (production.py), the sweep that deletes old records (ftmo_master.py), and *)
(* the message that shows a proposal to its operator (production.py).  Parts *)
(* that share no state.                                                      *)
EXTENDS Integers, FiniteSets

CONSTANTS
  Clerks,       \* commands of operators, and polls, carried out at the same time
  MaxOrders,    \* bound: commands and polls
  MaxResets,    \* bound: runs of scripts/ftmo_control_admin.py
  ArmLimit,     \* arm_max_seconds, in ticks
  ConsoleEnd,   \* bound: last tick of the console's clock
  BridgeHandlers,  \* requests of the bridge handled at the same time
  SignedAt,     \* for each signed request the tick it was signed at
  ClockSkew,    \* maximum_skew_seconds
  HandlerDelay, \* bound: ticks between a request's verification and its claim
  NonceLife,    \* ticks a nonce is kept
  Sweepers,     \* runs of the retention job that may overlap
  BridgeEnd,    \* bound: last tick of the bridge's clock
  MaxRewrites,  \* bound: writes of the old record
  Chatters,     \* operators' commands and bridge answers that edit the message
  MaxPresses    \* bound: approvals, rejections and offers begun

(* An hour against half a minute either way in the code.                     *)
ASSUME NoncesOutliveRequests == NonceLife >= 2 * ClockSkew + HandlerDelay

VARIABLES
  control,   \* the control record: its version, kill switch and end of arming
  desk,      \* each command or poll: its point and what it has read
  panel,     \* the clock and the bounds; history: a kill stands, late hand-outs
  wire,      \* the bridge's clock, its handlers and the sweeps; history: accepted
  claims,    \* the nonces kept, with the tick they were claimed at
  oldRecord, \* a record past its retention, and its writers; history: lost writes
  ticket,    \* a proposal's status, and that of the replacement offered for it
  bubble,    \* its message: the state shown and whether it has buttons
  chat       \* those that edit it, and the bound

consoleVars == <<control, desk, panel>>
requestVars == <<wire, claims>>
chatVars == <<ticket, bubble, chat>>
operatorVars == <<consoleVars, requestVars, oldRecord, chatVars>>

-----------------------------------------------------------------------------
(* The control record.  Without a row the kill switch is on.                 *)
Free == [pc |-> "free"]

ControlInit ==
  /\ control = [version |-> 0, kill |-> TRUE, until |-> 0]
  /\ desk = [c \in Clerks |-> Free]
  /\ panel = [now |-> 1, orders |-> 0, resets |-> 0, killed |-> FALSE, armedIn |-> 0,
              late |-> FALSE]

DeskIs(c, pc) == desk[c].pc = pc
Turns(c, next) == desk' = [desk EXCEPT ![c] = next]
Takes(c) == DeskIs(c, "free") /\ panel.orders < MaxOrders
Taken == panel' = [panel EXCEPT !.orders = @ + 1]

(* kill and disarm go straight to update_control.                            *)
GiveOrder(c) ==
  /\ Takes(c) /\ Taken
  /\ \/ \E op \in {"kill", "disarm"} : Turns(c, [pc |-> "read", op |-> op, until |-> 0])
     \/ Turns(c, [pc |-> "check", op |-> "arm"])
  /\ UNCHANGED control

(* arm reads the status first; its end counts from now.                      *)
CheckArm(c) ==
  /\ DeskIs(c, "check")
  /\ IF control.kill THEN Turns(c, Free)
     ELSE \E d \in 1 .. ArmLimit :
            Turns(c, [pc |-> "read", op |-> "arm", until |-> panel.now + d])
  /\ UNCHANGED <<control, panel>>

ReadControl(c) ==
  /\ DeskIs(c, "read")
  /\ Turns(c, [pc |-> "write", op |-> desk[c].op, until |-> desk[c].until, seen |-> control])
  /\ UNCHANGED <<control, panel>>

\* Mutant: update_control writes without an expected version.
AnyVersion(seen) == TRUE

SameVersion(seen) == control.version = seen.version

(* update_control writes the whole record it has read.  A conflict answers   *)
(* BLOCKED and changes nothing.                                              *)
WriteControl(c) ==
  LET d == desk[c] IN
    /\ DeskIs(c, "write") /\ Turns(c, Free)
    /\ IF SameVersion(d.seen)
       THEN /\ control' = [version |-> control.version + 1, until |-> d.until,
                           kill |-> d.seen.kill \/ d.op = "kill"]
            /\ panel' = [panel EXCEPT !.killed = @ \/ d.op = "kill", !.armedIn = panel.resets]
       ELSE UNCHANGED <<control, panel>>

\* Mutant: the reset leaves the arming in place.
ArmKept == control.until

Disarmed == 0

(* reset-kill locks the row for its transaction.                             *)
ResetKill ==
  /\ panel.resets < MaxResets
  /\ control' = [version |-> control.version + 1, kill |-> FALSE, until |-> Disarmed]
  /\ panel' = [panel EXCEPT !.resets = @ + 1, !.killed = FALSE]
  /\ UNCHANGED desk

(* commands_for_bridge: the status once per poll, then every command listed. *)
BeginPoll(c) ==
  /\ Takes(c) /\ Taken
  /\ Turns(c, [pc |-> "status", began |-> panel.now,
                standing |-> IF panel.killed THEN panel.resets ELSE -1])
  /\ UNCHANGED control

\* Mutant: readiness leaves the kill switch out.
ReadyWhenArmed(began) == control.until > began

ReadyAt(began) == ~control.kill /\ control.until > began

PollStatus(c) ==
  /\ DeskIs(c, "status")
  (* The bridge's health may refuse as well.                                 *)
  /\ \/ Turns(c, Free)
     \/ /\ ReadyAt(desk[c].began)
        /\ Turns(c, [desk[c] EXCEPT !.pc = "hand"])
  /\ UNCHANGED <<control, panel>>

HandOut(c) ==
  /\ DeskIs(c, "hand") /\ Turns(c, Free)
  /\ panel' = [panel EXCEPT !.late = @ \/ desk[c].standing = panel.resets]
  /\ UNCHANGED control

ConsoleRestarts ==
  /\ \E c \in Clerks : ~DeskIs(c, "free")
  /\ desk' = [c \in Clerks |-> Free] /\ UNCHANGED <<control, panel>>

ConsoleTick ==
  /\ panel.now < ConsoleEnd /\ panel' = [panel EXCEPT !.now = @ + 1]
  /\ UNCHANGED <<control, desk>>

ConsoleNext ==
  /\ \/ \E c \in Clerks :
          \/ GiveOrder(c) \/ CheckArm(c) \/ ReadControl(c) \/ WriteControl(c)
          \/ BeginPoll(c) \/ PollStatus(c) \/ HandOut(c)
     \/ ResetKill \/ ConsoleRestarts \/ ConsoleTick
  /\ UNCHANGED <<requestVars, oldRecord, chatVars>>

-----------------------------------------------------------------------------
(* Signed requests.  The network may deliver one at any tick and often.      *)
Signed == DOMAIN SignedAt

RequestsInit ==
  /\ wire = [now |-> 0, at |-> [h \in BridgeHandlers |-> Free],
             sweep |-> [s \in Sweepers |-> Free], accepted |-> {}, twice |-> FALSE]
  /\ claims = {}

RetentionInit ==
  /\ oldRecord = [version |-> 1, value |-> 0, writer |-> [h \in BridgeHandlers |-> Free],
                 writes |-> 0, swept |-> FALSE, lost |-> FALSE]

\* Mutant: only requests from the past are held against the clock.
FreshPast(r) == wire.now - SignedAt[r] <= ClockSkew

Fresh(r) == wire.now - SignedAt[r] <= ClockSkew /\ SignedAt[r] - wire.now <= ClockSkew

VerifyRequest(h, r) ==
  /\ wire.at[h] = Free /\ Fresh(r)
  /\ wire' = [wire EXCEPT !.at[h] = [pc |-> "look", request |-> r, since |-> wire.now]]
  /\ UNCHANGED claims

Claimed(r) == \E n \in claims : n.request = r

(* claim_nonce: a get, then a put for which there must be no row.            *)
LookNonce(h) ==
  /\ wire.at[h].pc = "look"
  /\ wire' = [wire EXCEPT !.at[h] = IF Claimed(@.request) THEN Free ELSE [@ EXCEPT !.pc = "claim"]]
  /\ UNCHANGED claims

ClaimNonce(h) ==
  LET r == wire.at[h].request IN
    /\ wire.at[h].pc = "claim"
    /\ IF Claimed(r) THEN wire' = [wire EXCEPT !.at[h] = Free] /\ UNCHANGED claims
       ELSE /\ claims' = claims \cup {[request |-> r, seen |-> wire.now]}
            /\ wire' = [wire EXCEPT !.at[h] = Free, !.accepted = @ \cup {r},
                                    !.twice = @ \/ r \in wire.accepted]

(* retention_sweep: what is past its time when the sweep began is listed,    *)
(* then deleted by its key, one row after the other.                         *)
BeginSweep(s) ==
  /\ wire.sweep[s] = Free
  /\ wire' = [wire EXCEPT !.sweep[s] = [pc |-> "list", began |-> wire.now]]
  /\ UNCHANGED claims

\* Mutant: a nonce is kept for as long as its request may be late.
PastSkew(n, began) == began - n.seen > ClockSkew

PastLife(n, began) == began - n.seen > NonceLife

ListNonces(s) ==
  /\ wire.sweep[s].pc = "list"
  /\ wire' = [wire EXCEPT !.sweep[s] =
       [pc |-> "delete",
        keys |-> {n.request : n \in {m \in claims : PastLife(m, wire.sweep[s].began)}}]]
  /\ UNCHANGED claims

DeleteNonce(s) ==
  /\ wire.sweep[s].pc = "delete"
  /\ IF wire.sweep[s].keys = {} THEN wire' = [wire EXCEPT !.sweep[s] = Free] /\ UNCHANGED claims
     ELSE \E k \in wire.sweep[s].keys :
            /\ claims' = {n \in claims : n.request # k}
            /\ wire' = [wire EXCEPT !.sweep[s].keys = @ \ {k}]

BridgeTick ==
  /\ wire.now < BridgeEnd
  /\ \A h \in BridgeHandlers : wire.at[h] # Free => wire.now - wire.at[h].since < HandlerDelay
  /\ wire' = [wire EXCEPT !.now = @ + 1] /\ UNCHANGED claims

(* A proposal or a command of 90 days, whatever its status: one handler may  *)
(* have read it and be about to write.  Version 0: there is no row.          *)
SweepRecord ==
  /\ oldRecord.version # 0
  /\ oldRecord' = [oldRecord EXCEPT !.version = 0, !.swept = TRUE]

ReadRecord(h) ==
  /\ oldRecord.writer[h] = Free /\ oldRecord.version # 0
  /\ oldRecord' = [oldRecord EXCEPT !.writer[h] =
       [pc |-> "write", version |-> oldRecord.version, value |-> oldRecord.value]]

\* Mutant: the expected version is left out of the UPDATE.
AnyRow(expected) == TRUE

(* PostgresDocumentStore.put: without a row it inserts, whatever is expected.*)
RowMatches(expected) == oldRecord.version \in {0, expected}

WriteRecord(h) ==
  LET w == oldRecord.writer[h] IN
    /\ w.pc = "write" /\ oldRecord.writes < MaxRewrites
    /\ IF RowMatches(w.version)
       THEN oldRecord' = [oldRecord EXCEPT
              !.version = @ + 1, !.value = oldRecord.writes + 1, !.writes = @ + 1,
              !.writer[h] = Free, !.lost = @ \/ oldRecord.value # w.value]
       ELSE oldRecord' = [oldRecord EXCEPT !.writer[h] = Free]

RequestsNext ==
  /\ \/ \E h \in BridgeHandlers :
          (\E r \in Signed : VerifyRequest(h, r)) \/ LookNonce(h) \/ ClaimNonce(h)
     \/ \E s \in Sweepers : BeginSweep(s) \/ ListNonces(s) \/ DeleteNonce(s)
     \/ BridgeTick
  /\ UNCHANGED <<consoleVars, oldRecord, chatVars>>

RewritesNext ==
  /\ SweepRecord \/ \E h \in BridgeHandlers : ReadRecord(h) \/ WriteRecord(h)
  /\ UNCHANGED <<consoleVars, requestVars, chatVars>>

-----------------------------------------------------------------------------
(* The message of a proposal.  The control plane decides what becomes of the *)
(* proposal; here each decision is one step, and what is shown follows it.   *)
Decided == {"command", "executed", "failed", "uncertain"}

ChatInit ==
  /\ ticket = [status |-> "pending", offer |-> "none"]
  /\ bubble = [state |-> "offered", buttons |-> TRUE]
  /\ chat = [at |-> [c \in Chatters |-> Free], presses |-> 0]

ChatIs(c, pc) == chat.at[c].pc = pc
Says(c, next) == chat' = [chat EXCEPT !.at[c] = next]
Presses(c, next) ==
  /\ ChatIs(c, "free") /\ chat.presses < MaxPresses
  /\ chat' = [chat EXCEPT !.at[c] = next, !.presses = @ + 1]
(* _update_trade_proposal_state, and what the handler does after it.         *)
EditTo(state, next) == [pc |-> "edit", state |-> state, next |-> next]
Offer == [pc |-> "offer"]

(* An approval makes a command, is refused and leaves the proposal, or finds *)
(* it expired or invalid; a rejection may lose the race for its version.     *)
Approve(c) ==
  \/ /\ ticket.status = "pending" /\ ticket' = [ticket EXCEPT !.status = "command"]
     /\ Presses(c, EditTo("submitting", Free))
  \/ /\ ticket.status = "pending" /\ Presses(c, [pc |-> "explain", next |-> Offer])
     /\ \E s \in {"pending", "expired", "invalidated"} : ticket' = [ticket EXCEPT !.status = s]
  \/ /\ ticket.status # "pending" /\ UNCHANGED ticket
     /\ Presses(c, [pc |-> "explain", next |-> Offer])

Reject(c) ==
  \/ /\ ticket.status = "pending" /\ ticket' = [ticket EXCEPT !.status = "rejected"]
     /\ Presses(c, EditTo("rejected", Free))
  \/ Presses(c, [pc |-> "explain", next |-> Free]) /\ UNCHANGED ticket

\* Mutant: any other status than pending is shown as rejected.
ShownAsRejected(status) == IF status = "pending" THEN "blocked" ELSE "rejected"

(* The state shown for a command that was refused, from the status read back.*)
ShownFor(status) ==
  CASE status \in {"expired", "invalidated", "rejected"} -> status
    [] status = "command" -> "submitting"
    [] OTHER -> "blocked"

Explain(c) ==
  /\ ChatIs(c, "explain") /\ Says(c, EditTo(ShownFor(ticket.status), chat.at[c].next))
  /\ UNCHANGED <<ticket, bubble>>

(* Whether the buttons stay is read before the edit is sent; an edit that    *)
(* fails is logged.                                                          *)
BeginEdit(c) ==
  /\ ChatIs(c, "edit")
  /\ \E b \in {FALSE, ticket.status = "pending"} :
       Says(c, [pc |-> "send", state |-> chat.at[c].state, buttons |-> b,
                next |-> chat.at[c].next])
  /\ UNCHANGED <<ticket, bubble>>

SendEdit(c) ==
  /\ ChatIs(c, "send") /\ Says(c, chat.at[c].next) /\ UNCHANGED ticket
  /\ \/ bubble' = [state |-> chat.at[c].state, buttons |-> chat.at[c].buttons]
     \/ UNCHANGED bubble

(* _notify_ftmo_command_result, of an acknowledgement with or without a      *)
(* result, and _notify_ftmo_lifecycle of a fill found in a heartbeat.        *)
Acknowledge(c) ==
  \/ /\ ticket.status = "command" /\ UNCHANGED ticket /\ Presses(c, EditTo("submitting", Free))
  \/ /\ ticket.status \in {"command", "uncertain"}
     /\ \/ /\ ticket' = [ticket EXCEPT !.status = "executed"]
           /\ Presses(c, EditTo("executed", Free))
        \/ /\ ticket' = [ticket EXCEPT !.status = "failed"]
           /\ Presses(c, EditTo("failed", Offer))
  \/ /\ ticket.status = "command" /\ ticket' = [ticket EXCEPT !.status = "uncertain"]
     /\ Presses(c, EditTo("awaiting", Free))
  \/ /\ ticket.status = "uncertain" /\ ticket' = [ticket EXCEPT !.status = "executed"]
     /\ Presses(c, EditTo("open", Free))

(* Another signal or the clock ends a proposal and edits nothing.            *)
Lapse ==
  /\ ticket.status = "pending" /\ ticket' = [ticket EXCEPT !.status = "expired"]
  /\ UNCHANGED <<bubble, chat>>

(* _offer_limit_replacement: the replacement is created, published, read     *)
(* back with its buttons, and only then shown on the original.               *)
Eligible == ticket.status \in {"invalidated", "failed"}

BeginOffer(c) == Eligible /\ Presses(c, Offer) /\ UNCHANGED <<ticket, bubble>>

MakeOffer(c) ==
  /\ ChatIs(c, "offer") /\ UNCHANGED bubble
  /\ \/ /\ Eligible /\ ticket.offer # "published" /\ Says(c, [pc |-> "publish"])
        /\ ticket' = [ticket EXCEPT !.offer = "created"]
     \/ Says(c, Free) /\ UNCHANGED ticket

\* Mutant: the original is edited though the publication failed.
OfferAnyway(c) ==
  /\ ChatIs(c, "publish") /\ UNCHANGED bubble /\ Says(c, EditTo("replaced", Free))
  /\ ticket' \in {ticket, [ticket EXCEPT !.offer = "published"]}

PublishOffer(c) ==
  /\ ChatIs(c, "publish") /\ UNCHANGED bubble
  /\ \/ /\ ticket' = [ticket EXCEPT !.offer = "published"] /\ Says(c, EditTo("replaced", Free))
     \/ Says(c, Free) /\ UNCHANGED ticket

ChatNext ==
  /\ \/ \E c \in Chatters :
          \/ (Approve(c) \/ Reject(c) \/ Acknowledge(c)) /\ UNCHANGED bubble
          \/ Explain(c) \/ BeginEdit(c) \/ SendEdit(c)
          \/ BeginOffer(c) \/ MakeOffer(c) \/ PublishOffer(c)
     \/ Lapse
  /\ UNCHANGED <<consoleVars, requestVars, oldRecord>>

ConsoleInit == ControlInit /\ RequestsInit /\ RetentionInit /\ ChatInit

ConsoleTypeOK ==
  /\ control.version \in Nat /\ control.kill \in BOOLEAN
  /\ control.until \in 0 .. ConsoleEnd + ArmLimit
  /\ \A n \in claims : n.request \in Signed /\ n.seen \in 0 .. BridgeEnd
  /\ ticket.offer \in {"none", "created", "published"} /\ bubble.buttons \in BOOLEAN

-----------------------------------------------------------------------------
\* A kill that took effect holds until the out-of-band reset, whatever arming
\* and disarming had read the record before it; a poll begun under it hands
\* nothing out; and no arming outlives a later reset.
KillHolds ==
  /\ panel.killed => control.kill
  /\ ~panel.late
  /\ control.until # 0 => panel.armedIn = panel.resets

\* A signed request is accepted once, however often it is delivered and however
\* sweeps of the nonces overlap its handling.
RequestsOnce == ~wire.twice

\* A write replaces what its writer has read, unless the retention deleted the
\* record meanwhile: the next write inserts it at version 1 again.
RewritesKept == oldRecord.lost => oldRecord.swept

\* The message tells the truth about what is final, and offers a replacement
\* only when one was published.
ChatTruth ==
  /\ bubble.state \in {"rejected", "expired", "invalidated"} => ticket.status = bubble.state
  /\ bubble.state = "submitting" => ticket.status \in Decided
  /\ bubble.state \in {"executed", "open"} => ticket.status = "executed"
  /\ bubble.state = "replaced" => ticket.offer = "published"

ConsoleSound == KillHolds /\ RequestsOnce /\ RewritesKept /\ ChatTruth
=============================================================================
