---------------------------- MODULE ControlPlane ----------------------------
(***************************************************************************)
(* The execution path of the FTMO control plane: operator callbacks, the   *)
(* bridge endpoints, the expert advisor and the broker, interleaved at     *)
(* every await and request, with requests that fail or time out and an EA  *)
(* that restarts.                                                          *)
(***************************************************************************)
EXTENDS OperatorApproval, MT5Bridge

vars == <<storeVars, cb, bridgeVars, eaVars>>

Init == StoreInit /\ OperatorInit /\ BridgeInit /\ EAInit

Environment ==
  \/ Kill \/ ResetKill
  \/ \E o \in Originals : ProposalExpires(o)
  \/ \E p \in Proposals : CommandLapses(p)

Next ==
  \/ \E s \in Slots : HandlerProceeds(s) /\ UNCHANGED <<cb, eaVars>>
  \/ EASteps /\ UNCHANGED cb
  \/ OperatorNext /\ UNCHANGED <<bridgeVars, eaVars>>
  \/ Environment /\ UNCHANGED <<cb, bridgeVars, eaVars>>
  \/ EAFaults /\ UNCHANGED cb
  \/ \E p \in Proposals : BrokerMoves(p) /\ UNCHANGED cb

Spec == Init /\ [][Next]_vars

TypeOK == StoreTypeOK /\ OperatorTypeOK /\ BridgeTypeOK /\ EATypeOK

-----------------------------------------------------------------------------

\* The broker never takes two orders for one proposal, although commands are
\* delivered again, acknowledgements get lost and the EA restarts at any point
\* (the EA journal consulted by ExecuteCommand).
AtMostOneOrder == \A p \in Proposals : placed[p] <= 1

\* Every order the broker has taken was approved by an operator and never
\* rejected by one, however approve, reject and supersession race.
OrderHasApproval ==
  \A p \in Proposals :
    placed[p] > 0 => prop[p].approved /\ ~prop[p].rejected

\* A command the store calls replaceable never reached the broker: neither a
\* late delivery nor a lost acknowledgement can hide a submission
\* (commands_for_bridge, acknowledge, _limit_replacement_parent).
ReplaceableNeverSubmitted ==
  \A o \in Originals : LimitReplacementParent(o) => placed[o] = 0

\* An original and its limit replacement never both become broker orders: from
\* the moment approve stores the replacement's command, the original has never
\* been submitted, whatever acknowledgements were lost on the way.
OneOrderPerSetup ==
  \A r \in Replacements : cmd[r].status # "absent" => placed[OriginOf[r]] = 0

\* A reconciled command stays reconciled: no older receipt, replay or late
\* refusal of another request takes the result back.
ReconciledStays ==
  [][\A p \in Proposals :
       cmd[p].status = "reconciled" => cmd'[p].status = "reconciled"]_vars

\* A decision of the operator is never undone or overwritten by the other
\* handlers' writes of the same document.
DecisionsAreFinal ==
  [][\A p \in Proposals :
       /\ prop[p].approved => prop'[p].approved /\ ~prop'[p].rejected
       /\ prop[p].rejected => prop'[p].rejected /\ ~prop'[p].approved]_vars

\* What acknowledge says of itself: an older receipt cannot erase a fill or an
\* order that a heartbeat has observed.
ReceiptsKeepFills ==
  [][\A s \in Slots :
       LET p == req[s].msg.p IN
         At(s, "ack", "update") /\ HeartbeatReconciled(cmd[p])
           => HeartbeatReconciled(cmd'[p])]_vars

\* The runbook's promise for a request that times out after the broker call:
\* the command is never called rejected while its order was taken.  It does
\* not hold of commands_for_bridge, which writes expired commands off (README).
TakenOrderNotRejected ==
  \A p \in Proposals : placed[p] > 0 => cmd[p].status # "rejected"

-----------------------------------------------------------------------------
(* The promise this system implements. *)

decision == [p \in Proposals |->
  IF prop[p].approved THEN "approved"
  ELSE IF prop[p].status \in {"rejected", "expired", "invalidated"} THEN "refused"
  ELSE "open"]

Promise == INSTANCE OrderAuthorization WITH decision <- decision, orders <- placed

KeepsPromise == Promise!Spec

-----------------------------------------------------------------------------
(* Liveness.  Handlers and the EA's timer run on; time passes. *)

Fairness ==
  /\ \A s \in Slots : WF_vars(HandlerProceeds(s) /\ UNCHANGED <<cb, eaVars>>)
  /\ WF_vars(EASteps /\ UNCHANGED cb)
  /\ \A c \in Callbacks :
       WF_vars(CallbackProceeds(c) /\ UNCHANGED <<bridgeVars, eaVars>>)
  /\ \A p \in Proposals :
       WF_vars(CommandLapses(p) /\ UNCHANGED <<cb, bridgeVars, eaVars>>)
FairSpec == Spec /\ Fairness

\* A queued or delivered command does not stay so: it is acknowledged,
\* reconciled or refused by its deadline, unless the kill switch is on.
CommandsSettle ==
  \A p \in Proposals :
    (cmd[p].status \in {"ready", "delivered"})
      ~> (cmd[p].status \notin {"ready", "delivered"} \/ killed)

\* The documented lifecycle: a queued proposal ends in an execution result,
\* a refusal or a reconciliation.  It does not hold of commands_for_bridge,
\* which refuses a command and leaves its proposal as it is (README).
QueuedProposalsResolve ==
  \A p \in Proposals :
    prop[p].status = "command_created"
      ~> (prop[p].status # "command_created" \/ killed)
=============================================================================
