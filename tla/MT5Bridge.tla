----------------------------- MODULE MT5Bridge ------------------------------
(***************************************************************************)
(* The MT5 expert advisor (MonatiseFTMOBridge.mq5) and the broker.  The EA *)
(* is single-threaded: each timer tick sends a heartbeat, polls for        *)
(* commands and executes what it received, one blocking request at a time. *)
(* Its journal and the pending-entry marks survive a restart, the rest     *)
(* does not.                                                               *)
(***************************************************************************)
EXTENDS BridgeApi

CONSTANTS
  MaxExposure,   \* InpMaximumOpenExposures: open positions and orders allowed
  Overlap,       \* may a request time out while the server still handles it?
  JournalFaults, \* may JournalAppend fail to open the journal file?
  MaxFaults      \* bound: lost requests, crashes and journal failures

ASSUME EAAssumption ==
  /\ MaxExposure \in Nat \ {0}
  /\ Overlap \in BOOLEAN
  /\ JournalFaults \in BOOLEAN
  /\ MaxFaults \in Nat

VARIABLES
  ea,       \* the EA's point in its timer tick and the commands it received
  journal,  \* the last journal record of each command
  marked,   \* commands PreparePendingEntry has marked in a global variable
  live,     \* what the broker holds for each command
  placed,   \* how many orders the broker has taken for each command
  faults    \* faults that have happened

eaVars == <<ea, journal, marked, live, placed, faults>>

Outcomes == {"none", "done", "nofill", "refused", "unknown"}
EAState ==
  [pc : {"idle", "beating", "poll", "polling", "run", "submit", "record", "acking"},
   queue : SUBSET Proposals, at : Proposals \cup {"none"}, result : Outcomes,
   ticket : BOOLEAN]
JournalRecord ==
  [status : {"none", "rejected", "broker_uncertain", "reconciled"}, ticket : BOOLEAN]
LiveStates == {"none", "order", "position", "gone"}

EATypeOK ==
  /\ ea \in EAState
  /\ journal \in [Proposals -> JournalRecord]
  /\ marked \subseteq Proposals
  /\ live \in [Proposals -> LiveStates]
  /\ placed \in [Proposals -> Nat]
  /\ faults \in 0..MaxFaults

EAIdle ==
  [pc |-> "idle", queue |-> {}, at |-> "none", result |-> "none", ticket |-> FALSE]
NoRecord == [status |-> "none", ticket |-> FALSE]

EAInit ==
  /\ ea = EAIdle
  /\ journal = [p \in Proposals |-> NoRecord]
  /\ marked = {}
  /\ live = [p \in Proposals |-> "none"]
  /\ placed = [p \in Proposals |-> 0]
  /\ faults = 0

Fault == faults < MaxFaults /\ faults' = faults + 1

\* SignedRequest blocks: a request occupies a slot and the EA waits for it.
Send(s, r) ==
  /\ req[s] = Free
  /\ req' = [req EXCEPT ![s] = r]
  /\ waiting' = s

Answered(s) == req[s].pc \in {"reply", "dead"}

\* The answer has arrived; the slot is free again.
Take ==
  /\ waiting \in Slots
  /\ Answered(waiting)
  /\ req' = [req EXCEPT ![waiting] = Free]
  /\ waiting' = "none"

\* The rest of the commands of this poll, or the end of the timer tick.
Resume(queue) ==
  [EAIdle EXCEPT !.pc = IF queue = {} THEN "idle" ELSE "run", !.queue = queue]

\* Mutant: only the result is journalled, not the attempt before the call.
JournalAppendResultOnly(p, status, ticket) ==
  /\ journal' = IF status = "broker_uncertain" /\ ea.pc # "record" THEN journal
       ELSE [journal EXCEPT ![p] = [status |-> status, ticket |-> ticket]]
  /\ UNCHANGED faults

\* JournalAppend: the caller goes on whether or not the file could be opened.
JournalAppend(p, status, ticket) ==
  \/ /\ journal' = [journal EXCEPT ![p] = [status |-> status, ticket |-> ticket]]
     /\ UNCHANGED faults
  \/ /\ JournalFaults
     /\ Fault
     /\ UNCHANGED journal

-----------------------------------------------------------------------------
(* OnTimer *)

SendHeartbeat(s) ==
  /\ ea.pc = "idle"
  /\ Send(s, NewBeat({p \in Proposals : live[p] = "order"},
                     {p \in Proposals : live[p] = "position"}))
  /\ ea' = [ea EXCEPT !.pc = "beating"]
  /\ UNCHANGED storeVars
  /\ UNCHANGED <<journal, marked, live, placed, faults>>

\* A rejected or failed heartbeat does not stop the poll.
HeartbeatAnswered ==
  /\ ea.pc = "beating"
  /\ Take
  /\ ea' = [ea EXCEPT !.pc = "poll"]
  /\ UNCHANGED storeVars
  /\ UNCHANGED <<journal, marked, live, placed, faults>>

PollCommands(s) ==
  /\ ea.pc = "poll"
  /\ Send(s, NewPoll)
  /\ ea' = [ea EXCEPT !.pc = "polling"]
  /\ UNCHANGED storeVars
  /\ UNCHANGED <<journal, marked, live, placed, faults>>

PollAnswered ==
  /\ ea.pc = "polling"
  /\ Take
  /\ ea' = Resume(IF req[waiting].pc = "reply" THEN req[waiting].out ELSE {})
  /\ UNCHANGED storeVars
  /\ UNCHANGED <<journal, marked, live, placed, faults>>

\* AcknowledgeEvidence posts once and ignores what becomes of it.
AckAnswered ==
  /\ ea.pc = "acking"
  /\ Take
  /\ ea' = Resume(ea.queue)
  /\ UNCHANGED storeVars
  /\ UNCHANGED <<journal, marked, live, placed, faults>>

-----------------------------------------------------------------------------
(* ExecuteCommand *)

SendAck(s, p, status, ticket, retcode, attempted, text) ==
  Send(s, NewAck([p |-> p, status |-> status, ticket |-> ticket,
                  retcode |-> retcode, attempted |-> attempted, text |-> text]))

Acking(p) == ea' = [ea EXCEPT !.pc = "acking", !.queue = @ \ {p}, !.at = "none",
                              !.result = "none", !.ticket = FALSE]

\* The journal knows the command: its last record is acknowledged again.
ExecuteReplay(s, p) ==
  /\ ea.pc = "run" /\ p \in ea.queue
  /\ journal[p].status # "none"
  /\ SendAck(s, p, journal[p].status, journal[p].ticket, "none", "no", "replay")
  /\ Acking(p)
  /\ UNCHANGED storeVars
  /\ UNCHANGED <<journal, marked, live, placed, faults>>

Exposures == Cardinality({p \in Proposals : live[p] \in {"order", "position"}})

\* The checks the model represents; the price is looked at after them.
FinalOrderValidation(p) ==
  /\ ~CommandLate(p)
  /\ Exposures < MaxExposure

\* FinalOrderValidation fails on these or on anything the model leaves out.
ExecuteRefuse(s, p) ==
  /\ ea.pc = "run" /\ p \in ea.queue
  /\ journal[p].status = "none"
  /\ JournalAppend(p, "rejected", FALSE)
  /\ \E text \in {"price", "other"} :
       /\ text = "price" => FinalOrderValidation(p)
       /\ SendAck(s, p, "rejected", FALSE, "none", "no", text)
  /\ Acking(p)
  /\ UNCHANGED storeVars
  /\ UNCHANGED <<marked, live, placed>>

ManagedPending(p) == EntryPolicy(p) /\ prop[p].otype = "pending"

\* PreparePendingEntry finds its mark, or cannot set its deadline: the command
\* is refused without a journal record.
ExecuteUnprepared(s, p) ==
  /\ ea.pc = "run" /\ p \in ea.queue
  /\ journal[p].status = "none"
  /\ FinalOrderValidation(p)
  /\ ManagedPending(p)
  /\ marked' \in {marked, marked \cup {p}}
  /\ SendAck(s, p, "rejected", FALSE, "none", "no", "other")
  /\ Acking(p)
  /\ UNCHANGED storeVars
  /\ UNCHANGED <<journal, live, placed, faults>>

\* The journal is to say "broker_uncertain" before the broker is called.
ExecuteBegin(p) ==
  /\ ea.pc = "run" /\ p \in ea.queue
  /\ journal[p].status = "none"
  /\ FinalOrderValidation(p)
  /\ IF ManagedPending(p)
       THEN p \notin marked /\ marked' = marked \cup {p}
       ELSE UNCHANGED marked
  /\ JournalAppend(p, "broker_uncertain", FALSE)
  /\ ea' = [ea EXCEPT !.pc = "submit", !.at = p]
  /\ UNCHANGED storeVars
  /\ UNCHANGED bridgeVars
  /\ UNCHANGED <<live, placed>>

\* The broker call.  "unknown" is a timeout or a connection error: the order
\* may or may not have been taken.
Submit ==
  /\ ea.pc = "submit"
  /\ LET p == ea.at IN
       \E result \in Outcomes \ {"none"}, taken \in BOOLEAN :
         /\ result \in {"done", "nofill"} => taken
         /\ result = "refused" => ~taken
         /\ result = "nofill" => prop[p].otype = "market"
         /\ ea' = [ea EXCEPT !.pc = "record", !.result = result,
                             !.ticket = result \in {"done", "nofill"}]
         /\ IF taken
              THEN /\ placed' = [placed EXCEPT ![p] = @ + 1]
                   /\ live' = [live EXCEPT ![p] =
                        IF prop[p].otype = "market" THEN "position" ELSE "order"]
              ELSE UNCHANGED <<placed, live>>
  /\ UNCHANGED storeVars
  /\ UNCHANGED bridgeVars
  /\ UNCHANGED <<journal, marked, faults>>

\* BrokerResultStatus
ResultStatus(result) ==
  CASE result = "done"    -> "reconciled"
    [] result = "refused" -> "rejected"
    [] OTHER -> "broker_uncertain"

Record(s) ==
  /\ ea.pc = "record"
  /\ JournalAppend(ea.at, ResultStatus(ea.result), ea.ticket)
  /\ SendAck(s, ea.at, ResultStatus(ea.result), ea.ticket, ea.result, "yes", "other")
  /\ Acking(ea.at)
  /\ UNCHANGED storeVars
  /\ UNCHANGED <<marked, live, placed>>

-----------------------------------------------------------------------------
(* failures and the broker *)

\* WebRequest times out: the answer is lost, or the handler is left running.
RequestTimesOut ==
  /\ waiting \in Slots
  /\ Fault
  /\ Overlap \/ Answered(waiting)
  /\ req' = [req EXCEPT ![waiting] = IF Answered(waiting) THEN Free ELSE @]
  /\ waiting' = "none"
  /\ ea' = IF ea.pc = "beating" THEN [ea EXCEPT !.pc = "poll"]
           ELSE IF ea.pc = "polling" THEN EAIdle ELSE Resume(ea.queue)
  /\ UNCHANGED storeVars
  /\ UNCHANGED <<journal, marked, live, placed>>

RequestFails(s) ==
  /\ Fault
  /\ HandlerDies(s)
  /\ UNCHANGED <<ea, journal, marked, live, placed>>

\* The terminal or the EA restarts between any two of its steps.
EARestarts ==
  /\ ea # EAIdle
  /\ Fault
  /\ ea' = EAIdle
  /\ waiting' = "none"
  /\ IF waiting \in Slots /\ Answered(waiting)
       THEN req' = [req EXCEPT ![waiting] = Free]
       ELSE req' = req /\ (Overlap \/ waiting = "none")
  /\ UNCHANGED storeVars
  /\ UNCHANGED <<journal, marked, live, placed>>

\* The stored heartbeat grows older than heartbeat_max_age.
HeartbeatAges ==
  /\ fresh
  /\ Fault
  /\ fresh' = FALSE
  /\ UNCHANGED <<prop, cmd, killed, expired, lapsed>>
  /\ UNCHANGED bridgeVars
  /\ UNCHANGED <<ea, journal, marked, live, placed>>

\* A pending order is filled; an order is cancelled or expires, a position is
\* closed by its stop, its target or the operator.
BrokerMoves(p) ==
  /\ \/ live[p] = "order" /\ live' = [live EXCEPT ![p] = "position"]
     \/ live[p] \in {"order", "position"} /\ live' = [live EXCEPT ![p] = "gone"]
  /\ UNCHANGED storeVars
  /\ UNCHANGED bridgeVars
  /\ UNCHANGED <<ea, journal, marked, placed, faults>>

EASteps ==
  \/ \E s \in Slots : SendHeartbeat(s) \/ PollCommands(s) \/ Record(s)
  \/ HeartbeatAnswered \/ PollAnswered \/ AckAnswered
  \/ \E p \in Proposals :
       \/ ExecuteBegin(p)
       \/ \E s \in Slots :
            ExecuteReplay(s, p) \/ ExecuteRefuse(s, p) \/ ExecuteUnprepared(s, p)
  \/ Submit

EAFaults ==
  \/ RequestTimesOut \/ EARestarts \/ HeartbeatAges
  \/ \E s \in Slots : RequestFails(s)
=============================================================================
