------------------------- MODULE PositionManagement -------------------------
(* The management of one open position with several targets                  *)
(* (position_management.py; approve, commands_for_bridge and acknowledge of  *)
(* ftmo_master.py for management commands; ExecutePartialProfit in the EA).  *)
(* A heartbeat applies the broker's deals to the position's document and may *)
(* reserve one exit or stop; its proposal is saved after the reservation and *)
(* approved automatically or by the operator.  Several heartbeats may be     *)
(* handled at once, from snapshots of different age.  Prices are abstract: a *)
(* target is reached or not at each look, stops are levels, higher is safer. *)
EXTENDS Naturals, Sequences, FiniteSets, Sums

CONSTANTS
  Alloc,      \* allocated_volume of each target, in volume steps; the last is the broker's
  Snapshots,  \* handlers of heartbeats
  Desks,      \* handlers of the operator's callbacks
  ManualOps,  \* operations the operator may ask for, of "sl", "close", "modify_targets"
  Automatic,  \* management_mode is APPROVED_PLAN and the automatic gates are on
  MaxStop,    \* bound: the highest stop level
  MaxOutside, \* bound: partial closes by the broker's target or a user
  MaxManual,  \* bound: manual proposals
  MaxManagementFaults  \* bound: lost receipts and crashes of a handler

ASSUME ManagementAssumption ==
  /\ Alloc \in Seq(Nat \ {0}) /\ Len(Alloc) > 0 /\ Automatic \in BOOLEAN
  /\ ManualOps \subseteq {"sl", "close", "modify_targets"}
  /\ Snapshots \cap Desks = {}
  /\ MaxStop \in Nat /\ MaxOutside \in Nat /\ MaxManual \in Nat /\ MaxManagementFaults \in Nat

VARIABLES
  managed,   \* the position's document
  intents,   \* saved management proposals with their commands, by id
  account,   \* the broker's position and its closing deals
  bridge,    \* the snapshot stored last
  handler,   \* each handler's point, snapshot and copies
  structure, \* confirmed structure: the stop level it protects, 0 for none
  manual,    \* manual proposals so far
  writtenOff,\* history: a command expired at the server after the EA had taken it
  outrun,    \* history: a heartbeat went on with a position halted since it had stored it
  managementFaults

managementVars == <<managed, intents, account, bridge, handler, structure, manual,
                    writtenOff, outrun, managementFaults>>

Targets == 1..Len(Alloc)
FinalTarget == Len(Alloc)
Volume == Sum(Alloc)
Handlers == Snapshots \cup Desks
Halted == {"POSITION_CLOSED", "RECONCILIATION_REQUIRED", "MANAGEMENT_FAILED", "MANAGEMENT_PAUSED"}
NoIntent == [op |-> "none", target |-> 0, volume |-> 0, expected |-> 0, plan |-> <<>>, level |-> 0,
             auto |-> FALSE]

(* The document before the first heartbeat has created it.                   *)
Unmanaged == [state |-> "none", closed |-> [t \in Targets |-> 0], remaining |-> Volume, sl |-> 0,
              seen |-> {}, pending |-> <<>>, intent |-> NoIntent, done |-> {}, edition |-> 0]

Proposals == {"pending", "queued", "settled", "rejected", "expired"}
Commands == {"none", "ready", "delivered", "reconciled", "rejected", "uncertain"}
ManagementTypeOK ==
  /\ managed.state \in Halted \cup {"none", "OPEN", "TARGET_PENDING", "TARGET_HIT"}
  /\ managed.closed \in [Targets -> 0..Volume] /\ managed.remaining \in 0..Volume
  /\ managed.sl \in 0..MaxStop /\ managed.seen \subseteq 1..Volume /\ managed.done \subseteq 1..MaxStop
  /\ \A i \in DOMAIN intents : intents[i].status \in Proposals /\ intents[i].cmd \in Commands
  /\ account.volume \in 0..Volume /\ account.sl \in 0..MaxStop /\ Len(account.deals) \in 0..Volume
  /\ \A h \in Handlers : handler[h].pc \in
       {"idle", "read", "command", "judge", "confirm", "store", "advance", "propose", "approve",
        "queue", "pause", "reserve"}
  /\ structure \in 0..MaxStop /\ manual \in 0..MaxManual /\ writtenOff \in BOOLEAN /\ outrun \in BOOLEAN
  /\ managementFaults \in 0..MaxManagementFaults

NobodyHandles == [pc |-> "idle", snap |-> <<>>, doc |-> Unmanaged, fresh |-> FALSE, cmd |-> "none",
                  id |-> <<>>]
ManagementInit ==
  /\ managed = Unmanaged /\ intents = <<>>
  /\ account = [volume |-> Volume, sl |-> 0, edition |-> 0, deals |-> <<>>]
  /\ bridge = account
  /\ handler = [h \in Handlers |-> NobodyHandles]
  /\ structure = 0 /\ manual = 0 /\ writtenOff = FALSE /\ outrun = FALSE /\ managementFaults = 0

Stands(h, pc) == handler[h].pc = pc
Goes(h, pc) == handler' = [handler EXCEPT ![h].pc = pc]
Ends(h) == handler' = [handler EXCEPT ![h] = NobodyHandles]
Known(i) == i \in DOMAIN intents

(* save is versioned: a copy is fresh until anyone saves.  An intent is kept  *)
(* only with its reservation.                                                *)
Saved(h, doc, next) ==
  /\ managed' = IF doc.pending = <<>> THEN [doc EXCEPT !.intent = NoIntent] ELSE doc
  /\ handler' = [x \in Handlers |->
       IF x = h THEN next ELSE [handler[x] EXCEPT !.fresh = FALSE]]

-----------------------------------------------------------------------------
(* Applying the broker's deals. *)

Hit(doc, t) == doc.closed[t] >= Alloc[t]
Untouched(doc, t) == doc.closed[t] = 0
Digest(doc) == <<doc.remaining, doc.edition>> \o doc.closed

(* The target a deal fills: a TP deal the last one, another deal the target  *)
(* of the pending operation if that operation's command placed it.           *)
Fills(doc, deal, id) ==
  IF deal.reason = "TP" THEN FinalTarget
  ELSE IF doc.intent.op = "partial_close" /\ id # <<>> /\ deal.by = id THEN doc.intent.target ELSE 0

(* apply_deal: each deal once; one that does not fit raises.                 *)
\* Mutant: only the final target's fills are told from what was seen.
ApplyDealAgain(doc, n, deal, id) ==
  LET t == Fills(doc, deal, id)
      rest == doc.remaining - deal.volume
      closed == IF t = 0 THEN doc.closed ELSE [doc.closed EXCEPT ![t] = @ + deal.volume] IN
    IF (n \in doc.seen /\ deal.reason = "TP") \/ doc.state = "raised" THEN doc
    ELSE IF deal.volume > doc.remaining \/ (t > 0 /\ deal.reason # "TP" /\ closed[t] > Alloc[t])
    THEN [doc EXCEPT !.state = "raised"]
    ELSE [doc EXCEPT !.closed = closed, !.remaining = rest, !.seen = @ \cup {n}]

ApplyDeal(doc, n, deal, id) ==
  LET t == Fills(doc, deal, id)
      rest == doc.remaining - deal.volume
      closed == IF t = 0 THEN doc.closed ELSE [doc.closed EXCEPT ![t] = @ + deal.volume] IN
    IF n \in doc.seen \/ doc.state = "raised" THEN doc
    ELSE IF deal.volume > doc.remaining \/ (t > 0 /\ deal.reason # "TP" /\ closed[t] > Alloc[t])
    THEN [doc EXCEPT !.state = "raised"]
    ELSE [doc EXCEPT !.closed = closed, !.remaining = rest, !.seen = @ \cup {n},
                     !.state = IF rest = 0 THEN "POSITION_CLOSED" ELSE IF t = 0 THEN @
                               ELSE IF closed[t] >= Alloc[t] THEN "TARGET_HIT" ELSE "TARGET_PENDING",
                     !.pending = IF rest = 0 THEN <<>> ELSE @]

(* The deals of the snapshot, oldest first.                                  *)
Applied(doc, snap, command) ==
  LET id == IF command = "none" THEN <<>> ELSE doc.pending
      after[n \in 0..Len(snap.deals)] ==
        IF n = 0 THEN doc ELSE ApplyDeal(after[n - 1], n, snap.deals[n], id)
  IN after[Len(snap.deals)]

(* The rest of reconcile, once the deals are applied: the position must agree *)
(* with them, and the pending operation is released, refused or kept.        *)
Raised(doc) == [doc EXCEPT !.state = "RECONCILIATION_REQUIRED"]
Released(doc) == [doc EXCEPT !.pending = <<>>]
Judged(doc, snap, command) ==
  LET op == doc.intent.op
      seen == IF snap.volume > 0 THEN [doc EXCEPT !.sl = snap.sl] ELSE doc IN
    IF doc.state = "raised" THEN Raised(doc)
    ELSE IF snap.volume # doc.remaining THEN Raised(seen)
    ELSE IF doc.state = "POSITION_CLOSED" \/ doc.pending = <<>> THEN seen
    ELSE IF command = "rejected" /\ doc.state # "MANAGEMENT_FAILED"
    THEN Released([seen EXCEPT !.state = "MANAGEMENT_FAILED"])
    ELSE IF command # "reconciled" \/ op = "close" THEN seen
    ELSE IF op = "partial_close"
    THEN IF Hit(doc, doc.intent.target) THEN Released(seen) ELSE Raised(seen)
    ELSE IF op = "modify_targets"
    THEN IF snap.edition = doc.intent.level
         THEN Released([seen EXCEPT !.edition = doc.intent.level, !.state = "OPEN"]) ELSE Raised(seen)
    ELSE IF snap.sl = doc.intent.level
    THEN Released([seen EXCEPT !.state = "OPEN",
           !.done = IF doc.pending[1] = "stop" THEN @ \cup {doc.intent.level} ELSE @])
    ELSE Raised(seen)

-----------------------------------------------------------------------------
(* reconcile: one heartbeat. *)

(* The snapshot is stored, and the position's document read or created.      *)
Heartbeat(h) ==
  /\ h \in Snapshots /\ Stands(h, "idle")
  /\ bridge' = account
  /\ handler' = [handler EXCEPT ![h].pc = "read", ![h].snap = account]
  /\ UNCHANGED <<managed, intents, account, structure, manual, writtenOff, outrun, managementFaults>>

ReadManaged(h) ==
  /\ Stands(h, "read")
  /\ IF managed.state = "POSITION_CLOSED" THEN Ends(h)
     ELSE handler' = [handler EXCEPT ![h].pc = "command", ![h].fresh = TRUE,
            ![h].doc = IF managed.state = "none" THEN [managed EXCEPT !.state = "OPEN"] ELSE managed]
  /\ UNCHANGED <<managed, intents, account, bridge, structure, manual, writtenOff, outrun, managementFaults>>

(* The pending operation's proposal and command.                             *)
ReadCommand(h) ==
  /\ Stands(h, "command")
  /\ handler' = [handler EXCEPT ![h].pc = "judge",
       ![h].cmd = IF Known(handler[h].doc.pending) THEN intents[handler[h].doc.pending].cmd
                  ELSE "none"]
  /\ UNCHANGED <<managed, intents, account, bridge, structure, manual, writtenOff, outrun, managementFaults>>

(* A partial exit whose deals fill its target is reconciled, whatever the    *)
(* receipt said or did not say.                                              *)
Judge(h) ==
  /\ Stands(h, "judge")
  /\ LET me == handler[h]
         doc == Applied(me.doc, me.snap, me.cmd)
         confirmed == /\ doc.state # "raised" /\ me.snap.volume = doc.remaining /\ doc.pending # <<>>
                      /\ doc.intent.op = "partial_close" /\ me.cmd \notin {"none", "reconciled"}
                      /\ Hit(doc, doc.intent.target) IN
       handler' = [handler EXCEPT
         ![h].pc = IF confirmed THEN "confirm" ELSE "store",
         ![h].snap = <<>>, ![h].cmd = "none",
         ![h].doc = Judged(doc, me.snap, IF confirmed THEN "reconciled" ELSE me.cmd),
         ![h].id = IF confirmed THEN doc.pending ELSE <<>>]
  /\ UNCHANGED <<managed, intents, account, bridge, structure, manual, writtenOff, outrun, managementFaults>>

Confirm(h) ==
  /\ Stands(h, "confirm")
  /\ intents' = [intents EXCEPT ![handler[h].id].cmd = "reconciled"]
  /\ Goes(h, "store")
  /\ UNCHANGED <<managed, account, bridge, structure, manual, writtenOff, outrun, managementFaults>>

(* The versioned save; a conflict leaves the rest to the other heartbeat.    *)
Store(h) ==
  /\ Stands(h, "store")
  /\ IF ~handler[h].fresh THEN Ends(h) /\ UNCHANGED managed
     ELSE Saved(h, handler[h].doc, [NobodyHandles EXCEPT !.pc =
            IF handler[h].doc.state \in Halted THEN "idle" ELSE "advance"])
  /\ UNCHANGED <<intents, account, bridge, structure, manual, writtenOff, outrun, managementFaults>>

-----------------------------------------------------------------------------
(* advance: after a save that leaves the position executable. *)

(* What may be reserved: the next untouched target but the last, which the   *)
(* broker closes; or, once a target was hit, a stop from confirmed structure. *)
(* The close cancels what is untouched.  (The document is not asked whether  *)
(* it was halted since it was saved.)                                        *)
NextTarget(doc) ==
  {t \in Targets : /\ doc.state # "POSITION_CLOSED" /\ Untouched(doc, t)
                   /\ \A u \in 1..(t - 1) : ~Untouched(doc, u)}
Partial(doc, t) ==
  [op |-> "partial_close", target |-> t, volume |-> Alloc[t], expected |-> doc.remaining,
   plan |-> Digest(doc), level |-> 0, auto |-> Automatic]
Protect(doc, level) ==
  [op |-> "sl", target |-> 0, volume |-> 0, expected |-> doc.remaining, plan |-> Digest(doc),
   level |-> level, auto |-> Automatic]
MayProtect(doc) ==
  /\ \E t \in Targets : Hit(doc, t)
  /\ structure > doc.sl /\ structure \notin doc.done

(* The copy read again decides, halted or not.  Gates, a stale quote or an   *)
(* unreached target may end the round at once.                               *)
Hold(h, doc, id, pc) ==
  handler' = [handler EXCEPT ![h].pc = pc, ![h].doc = doc, ![h].id = id, ![h].fresh = TRUE]
Reserve(h, id, intent, state) ==
  Hold(h, [managed EXCEPT !.pending = id, !.intent = intent, !.state = state], id, "reserve")

Advance(h) ==
  /\ Stands(h, "advance")
  /\ LET id == managed.pending
         status == IF Known(id) THEN intents[id].status ELSE "none" IN
       \/ Ends(h) /\ UNCHANGED outrun
       \/ /\ outrun' = (outrun \/ managed.state \in Halted)
          /\ \/ id # <<>> /\ ~Known(id) /\ Hold(h, managed, id, "propose")
             \/ /\ id # <<>> /\ status = "pending" /\ managed.intent.auto
                /\ Hold(h, Unmanaged, id, "approve")
             \/ /\ id # <<>> /\ status \in {"rejected", "expired"}
                /\ Hold(h, [managed EXCEPT !.pending = <<>>, !.state = "MANAGEMENT_PAUSED"], id, "pause")
             \/ /\ id = <<>> /\ MayProtect(managed)
                /\ Reserve(h, <<"stop", structure, <<structure>>>>, Protect(managed, structure),
                           managed.state)
             \/ /\ id = <<>>
                /\ \E t \in NextTarget(managed) \ {FinalTarget} :
                     Reserve(h, <<"tp", t, Digest(managed)>>, Partial(managed, t), "TARGET_PENDING")
  /\ UNCHANGED <<managed, intents, account, bridge, structure, manual, writtenOff, managementFaults>>

(* The reservation holds the whole proposal, so that a crash between the two *)
(* writes can be made good under the same id.                                *)
SaveReservation(h) ==
  /\ Stands(h, "reserve")
  /\ IF ~handler[h].fresh THEN Ends(h) /\ UNCHANGED managed
     ELSE Saved(h, handler[h].doc, [handler[h] EXCEPT !.pc = "propose"])
  /\ UNCHANGED <<intents, account, bridge, structure, manual, writtenOff, outrun, managementFaults>>
SavePause(h) ==
  /\ Stands(h, "pause")
  /\ IF ~handler[h].fresh THEN Ends(h) /\ UNCHANGED managed
     ELSE Saved(h, handler[h].doc, NobodyHandles)
  /\ UNCHANGED <<intents, account, bridge, structure, manual, writtenOff, outrun, managementFaults>>

(* save_proposal inserts; one that is there stays.                           *)
SaveProposal(h) ==
  /\ Stands(h, "propose")
  /\ LET id == handler[h].id  intent == handler[h].doc.intent IN
       /\ intents' = IF Known(id) THEN intents
                     ELSE [i \in DOMAIN intents \cup {id} |-> IF i = id
                             THEN [intent |-> intent, status |-> "pending", cmd |-> "none",
                                   ea |-> "none", receipt |-> "none"]
                             ELSE intents[i]]
       /\ IF intent.auto THEN Hold(h, Unmanaged, id, "approve") ELSE Ends(h)
  /\ UNCHANGED <<managed, account, bridge, structure, manual, writtenOff, outrun, managementFaults>>

-----------------------------------------------------------------------------
(* Approval, delivery and execution of a management command. *)

(* validate_intent: the document and the stored snapshot are as proposed.    *)
Valid(id) ==
  LET intent == intents[id].intent IN
    /\ managed.state \notin Halted
    /\ Digest(managed) = intent.plan /\ managed.remaining = intent.expected
    /\ managed.pending \in {<<>>, id}
    /\ bridge.volume = managed.remaining
    /\ intent.op = "partial_close" => Untouched(managed, intent.target)
    /\ intent.op = "sl" => intent.level >= bridge.sl
    /\ intent.auto /\ intent.op = "sl" => intent.level = structure

(* approve: the proposal is read and validated, and claimed with a versioned *)
(* write; an overdue one expires.  (Claim, command and queue are separate    *)
(* writes in the code; ControlPlane has them one by one.)                    *)
Approve(h) ==
  /\ Stands(h, "approve")
  /\ LET id == handler[h].id IN
       \/ intents[id].status = "pending" /\ Valid(id) /\ Goes(h, "queue") /\ UNCHANGED intents
       \/ /\ intents[id].status = "pending" /\ Ends(h)
          /\ intents' = [intents EXCEPT ![id].status = "expired"]
       \/ Ends(h) /\ UNCHANGED intents
  /\ UNCHANGED <<managed, account, bridge, structure, manual, writtenOff, outrun, managementFaults>>
Queue(h) ==
  /\ Stands(h, "queue")
  /\ LET id == handler[h].id IN
       intents' = IF intents[id].status # "pending" THEN intents
                  ELSE [intents EXCEPT ![id].status = "queued", ![id].cmd = "ready"]
  /\ Ends(h)
  /\ UNCHANGED <<managed, account, bridge, structure, manual, writtenOff, outrun, managementFaults>>

(* commands_for_bridge: an overdue command is written off, a valid one       *)
(* delivered; the answer may be lost.  The EA polls again only when it has    *)
(* executed what it took; a command in its journal it answers from there.    *)
Waiting(id) == Known(id) /\ intents[id].status = "queued" /\ intents[id].cmd \in {"ready", "delivered"}
WriteOff(id) ==
  /\ Waiting(id)
  /\ intents' = [intents EXCEPT ![id].cmd = "rejected"]
  /\ writtenOff' = (writtenOff \/ intents[id].ea # "none")
  /\ UNCHANGED <<managed, account, bridge, handler, structure, manual, outrun, managementFaults>>
DeliverCommand(id) ==
  /\ Waiting(id) /\ intents[id].ea # "taken" /\ Valid(id)
  /\ \E lost \in BOOLEAN :
       /\ lost => managementFaults < MaxManagementFaults
       /\ managementFaults' = managementFaults + IF lost THEN 1 ELSE 0
       /\ intents' = [intents EXCEPT ![id].cmd = "delivered",
            ![id].ea = IF lost THEN @ ELSE IF @ = "none" THEN "taken" ELSE "answered"]
  /\ UNCHANGED <<managed, account, bridge, handler, structure, manual, writtenOff, outrun>>

(* ExecuteCommand: refused, done, done in part or done without a certain     *)
(* answer; the receipt is journalled and sent.                               *)
Fits(intent) ==
  /\ account.volume = intent.expected /\ account.volume > 0
  /\ intent.op = "partial_close" => intent.volume < account.volume
  /\ intent.op = "sl" => intent.level >= account.sl
Receipt(id, result) == intents' = [intents EXCEPT ![id].ea = "answered", ![id].receipt = result]
Sell(id, volume, reason) ==
  account' = [account EXCEPT !.volume = @ - volume,
    !.deals = Append(@, [by |-> id, volume |-> volume, reason |-> reason])]

Execute(id) ==
  /\ Known(id) /\ intents[id].ea = "taken"
  /\ LET intent == intents[id].intent IN
       \/ Receipt(id, "rejected") /\ UNCHANGED account
       \/ /\ Fits(intent)
          /\ \/ intent.op = "partial_close" /\ Receipt(id, "reconciled") /\ Sell(id, intent.volume, "EXPERT")
             \/ /\ intent.op = "partial_close" /\ Receipt(id, "uncertain")
                /\ \/ UNCHANGED account
                   \/ \E volume \in 1..intent.volume : Sell(id, volume, "EXPERT")
             \/ /\ intent.op = "close" /\ \E result \in {"reconciled", "uncertain"} : Receipt(id, result)
                /\ Sell(id, account.volume, "EXPERT")
             \/ /\ intent.op = "sl" /\ \E result \in {"reconciled", "uncertain"} : Receipt(id, result)
                /\ account' = [account EXCEPT !.sl = intent.level]
             \/ /\ intent.op = "modify_targets"
                /\ \E result \in {"reconciled", "uncertain"} : Receipt(id, result)
                /\ account' = [account EXCEPT !.edition = intent.level]
  /\ UNCHANGED <<managed, bridge, handler, structure, manual, writtenOff, outrun, managementFaults>>

(* acknowledge, also of a replay from the journal.  A lost receipt is a fault. *)
Acknowledge(id) ==
  /\ Known(id) /\ intents[id].ea = "answered"
  /\ intents' = [intents EXCEPT ![id].cmd = intents[id].receipt, ![id].status = "settled",
                                ![id].ea = "done"]
  /\ UNCHANGED <<managed, account, bridge, handler, structure, manual, writtenOff, outrun, managementFaults>>
ReceiptLost(id) ==
  /\ Known(id) /\ intents[id].ea = "answered" /\ managementFaults < MaxManagementFaults
  /\ managementFaults' = managementFaults + 1
  /\ intents' = [intents EXCEPT ![id].ea = "done"]
  /\ UNCHANGED <<managed, account, bridge, handler, structure, manual, writtenOff, outrun>>

-----------------------------------------------------------------------------
(* The operator. *)

(* manual_proposal: refused while an operation is reserved, unless its       *)
(* proposal was rejected or expired; it resumes a halted management.         *)
Free(doc) ==
  doc.pending = <<>> \/ (Known(doc.pending) /\ intents[doc.pending].status \in {"rejected", "expired"})
ManualProposal(h) ==
  /\ h \in Desks /\ Stands(h, "idle") /\ manual < MaxManual
  /\ managed.state \notin {"none", "POSITION_CLOSED"} /\ Free(managed)
  /\ manual' = manual + 1
  /\ LET doc == [managed EXCEPT !.state =
                   IF @ \in {"MANAGEMENT_FAILED", "MANAGEMENT_PAUSED"} THEN "OPEN" ELSE @]
         id == <<"manual", manual, <<>>>> IN
       \E op \in ManualOps : \E level \in 0..MaxStop :
         /\ op = "close" => level = 0
         /\ op = "modify_targets" => level = managed.edition + 1 /\ NextTarget(managed) # {}
         /\ Reserve(h, id, [op |-> op, target |-> 0, volume |-> 0, expected |-> doc.remaining,
                            plan |-> Digest(doc), level |-> level, auto |-> FALSE], doc.state)
  /\ UNCHANGED <<managed, intents, account, bridge, structure, writtenOff, outrun, managementFaults>>

(* The operator's decision on a proposal in the chat.                        *)
Decide(h, id) ==
  /\ h \in Desks /\ Stands(h, "idle") /\ Known(id) /\ intents[id].status = "pending"
  /\ \/ handler' = [handler EXCEPT ![h].pc = "approve", ![h].id = id] /\ UNCHANGED intents
     \/ intents' = [intents EXCEPT ![id].status = "rejected"] /\ UNCHANGED handler
  /\ UNCHANGED <<managed, account, bridge, structure, manual, writtenOff, outrun, managementFaults>>

-----------------------------------------------------------------------------
(* The rest of the world. *)

(* record_structure: new confirmed evidence protects a higher level.         *)
RecordStructure ==
  /\ structure < MaxStop /\ structure' = structure + 1
  /\ UNCHANGED <<managed, intents, account, bridge, handler, manual, writtenOff, outrun, managementFaults>>

(* The broker's stop or target, and a user who closes some at the terminal.  *)
BrokerCloses ==
  /\ account.volume > 0
  /\ \/ Sell(<<>>, account.volume, "SL")
     \/ Sell(<<>>, account.volume, "TP")
     \/ \E reason \in {"TP", "CLIENT"} :
          /\ Cardinality({n \in 1..Len(account.deals) : account.deals[n].by = <<>>}) < MaxOutside
          /\ Sell(<<>>, 1, reason)
  /\ UNCHANGED <<managed, intents, bridge, handler, structure, manual, writtenOff, outrun, managementFaults>>

HandlerCrashes(h) ==
  /\ ~Stands(h, "idle") /\ managementFaults < MaxManagementFaults
  /\ managementFaults' = managementFaults + 1 /\ Ends(h)
  /\ UNCHANGED <<managed, intents, account, bridge, structure, manual, writtenOff, outrun>>

HandlerSteps(h) ==
  \/ ReadManaged(h) \/ ReadCommand(h) \/ Judge(h) \/ Confirm(h) \/ Store(h)
  \/ Advance(h) \/ SaveReservation(h) \/ SavePause(h) \/ SaveProposal(h) \/ Approve(h) \/ Queue(h)
CommandStep(id) == WriteOff(id) \/ DeliverCommand(id) \/ Execute(id) \/ Acknowledge(id) \/ ReceiptLost(id)

ManagementNext ==
  \/ \E h \in Handlers : Heartbeat(h) \/ HandlerSteps(h) \/ ManualProposal(h) \/ HandlerCrashes(h)
                         \/ \E id \in DOMAIN intents : Decide(h, id)
  \/ \E id \in DOMAIN intents : CommandStep(id)
  \/ RecordStructure \/ BrokerCloses

ManagementSpec == ManagementInit /\ [][ManagementNext]_managementVars

-----------------------------------------------------------------------------
\* The document's remainder is what the applied deals leave, each counted
\* once, however many heartbeats report them, conflict or raise half-way; and
\* no target is charged with more than its deals.
DealsCountOnce ==
  /\ managed.remaining + Sum([n \in 1..Len(account.deals) |->
       IF n \in managed.seen THEN account.deals[n].volume ELSE 0]) = Volume
  /\ Sum(managed.closed) + managed.remaining <= Volume
  /\ \A t \in Targets \ {FinalTarget} : managed.closed[t] <= Alloc[t]

\* A command the EA may still get or execute is the reserved operation of the
\* open position, so two operations are never under way at once; only the
\* position's own end may outrun it.
OneOperation ==
  \A id \in DOMAIN intents :
    Waiting(id) => managed.pending = id \/ managed.remaining = 0

\* What the plan's commands sold for a target does not exceed its allocation:
\* an uncertain, lost or partial exit is never tried again as a new order
\* (multi-target-take-profit.md:80).  A command that the server wrote off after
\* the EA had taken it is left aside: here the EA may still execute it later
\* than its next poll, which the one thread of the real one does not do.
SoldFor(t) == Sum([n \in 1..Len(account.deals) |->
  IF Known(account.deals[n].by) /\ intents[account.deals[n].by].intent.target = t
  THEN account.deals[n].volume ELSE 0])
AllocationKept == \A t \in Targets : SoldFor(t) <= Alloc[t]
ExitsNotRepeated == writtenOff \/ AllocationKept

\* A closed position keeps its books, whatever older heartbeats still carry, and
\* stays as it was, unless a heartbeat that had stored it open goes on with it
\* now: it reads the document again and does not ask whether it was closed
\* meanwhile (position_management.py:647), so it may reserve a stop or pause it.
ClosedIsFinal ==
  [][managed.state = "POSITION_CLOSED" =>
       /\ [managed' EXCEPT !.pending = <<>>, !.intent = NoIntent, !.state = "POSITION_CLOSED"]
            = [managed EXCEPT !.pending = <<>>, !.intent = NoIntent]
       /\ managed'.state \in {"POSITION_CLOSED", "MANAGEMENT_PAUSED"}
       /\ ~outrun => managed' = managed]_managementVars

\* Management that failed or was paused goes on only by an operator's proposal
\* ("an explicit approved manual action can resume", multi-target-take-profit.md:80),
\* or because the broker's own target was filled, with the same exception.
HaltedStays ==
  [][(managed.state \in {"MANAGEMENT_FAILED", "MANAGEMENT_PAUSED"}
        /\ managed'.state \in {"OPEN", "TARGET_PENDING"})
       => \/ managed'.pending # <<>> /\ managed'.pending[1] = "manual"
          \/ managed'.closed[FinalTarget] > managed.closed[FinalTarget]
          \/ outrun]_managementVars
=============================================================================
