----------------------------- MODULE FTMOStore -----------------------------
(***************************************************************************)
(* The durable documents that the FTMO control plane shares between its    *)
(* handlers: proposals, bridge commands, the kill switch and the bridge    *)
(* heartbeat, with the optimistic versioned write of                       *)
(* PostgresDocumentStore.  Prices, volumes, texts and identities are       *)
(* abstracted; every field a guard or an assignment of the handlers reads  *)
(* is kept.                                                                *)
(***************************************************************************)
EXTENDS Naturals, FiniteSets

CONSTANTS
  Originals,     \* proposals created from a signal or by the operator
  Replacements,  \* proposals create_limit_replacement derives from one of them
  OriginOf,      \* the proposal a replacement is derived from
  Managed        \* originals with an entry policy (fixed zone, pending entry)

ASSUME StoreAssumption ==
  /\ Originals \cap Replacements = {}
  /\ OriginOf \in [Replacements -> Originals]
  /\ \A r, s \in Replacements : OriginOf[r] = OriginOf[s] => r = s
  /\ Managed \subseteq Originals
  /\ "none" \notin Originals \cup Replacements

Proposals == Originals \cup Replacements
Root(p) == IF p \in Replacements THEN OriginOf[p] ELSE p
EntryPolicy(p) == Root(p) \in Managed

VARIABLES
  prop,     \* ftmo_master_proposals: one versioned document per proposal
  cmd,      \* ftmo_master_commands: the command id is a hash of the proposal
  killed,   \* ftmo_master_control kill_switch
  fresh,    \* the stored heartbeat is recent, connected and trade-enabled
  expired,  \* originals whose expires_at has passed (replacements share it)
  lapsed    \* proposals whose command's own 30 second deadline has passed

storeVars == <<prop, cmd, killed, fresh, expired, lapsed>>

ProposalStatus ==
  {"absent", "pending_confirmation", "approved", "rejected", "expired",
   "command_created", "reconciliation_required", "reconciled",
   "invalidated", "execution_failed"}

CommandStatus ==
  {"absent", "ready", "delivered", "rejected", "broker_uncertain", "reconciled"}

Lifecycle ==
  {"AWAITING_APPROVAL", "APPROVAL_BLOCKED", "APPROVAL_CLAIMED",
   "EXECUTION_QUEUED", "REJECTED", "EXPIRED", "INVALIDATED",
   "EXECUTION_FAILED", "BROKER_ACCEPTED", "POSITION_OPEN",
   "POSITION_CLOSED", "PENDING_ORDER_NO_LONGER_OPEN"}

OrderTypes == {"market", "pending"}

\* approved stands for approved_by, approval_id and command_id, which approve
\* sets together; rejected for rejected_by; link for replacement_proposal_id.
ProposalDoc ==
  [status : ProposalStatus, life : Lifecycle, otype : OrderTypes,
   approved : BOOLEAN, rejected : BOOLEAN, superseded : BOOLEAN,
   elig : BOOLEAN, link : BOOLEAN, ticket : BOOLEAN, ver : Nat]

\* attempted is submission_attempted (True, False or None), maybe is
\* submission_may_have_occurred, retcode the class of the broker's code:
\* "done" with a fill or ticket, "nofill" DONE without its fill price.
Retcodes == {"none", "done", "nofill", "refused", "unknown"}
CommandDoc ==
  [status : CommandStatus, elig : BOOLEAN, attempted : {"yes", "no", "unset"},
   maybe : BOOLEAN, ticket : BOOLEAN, retcode : Retcodes,
   source : {"none", "position", "pending"}]

NewProposal(otype) ==
  [status |-> "pending_confirmation", life |-> "AWAITING_APPROVAL",
   otype |-> otype, approved |-> FALSE, rejected |-> FALSE,
   superseded |-> FALSE, elig |-> FALSE, link |-> FALSE, ticket |-> FALSE,
   ver |-> 1]
NoProposal == [NewProposal("pending") EXCEPT !.status = "absent", !.ver = 0]

NewCommand ==
  [status |-> "ready", elig |-> FALSE, attempted |-> "unset", maybe |-> FALSE,
   ticket |-> FALSE, retcode |-> "none", source |-> "none"]
NoCommand == [NewCommand EXCEPT !.status = "absent"]

(***************************************************************************)
(* A versioned write.  Put holds when the caller's expected version is the *)
(* stored one; a conflict raises in the code, which the handler models as  *)
(* its own end.  update_command reads the record again immediately before  *)
(* its write, so what it writes is the current record with the changes.    *)
(***************************************************************************)
\* Mutant: the last writer wins, no version is compared.
PutLastWriterWins(p, expected, doc) ==
  prop' = [prop EXCEPT ![p] = [doc EXCEPT !.ver = prop[p].ver + 1]]

Put(p, expected, doc) ==
  /\ prop[p].ver = expected
  /\ prop' = [prop EXCEPT ![p] = [doc EXCEPT !.ver = expected + 1]]

UpdateProposal(p, doc) == Put(p, prop[p].ver, doc)

\* The heartbeat is recent and healthy and the kill switch is off.
ExecutionReady == fresh /\ ~killed

\* The deadline a command carries: at most the proposal's own.
CommandLate(p) == p \in lapsed \/ Root(p) \in expired

\* Mutant: an original is replaced whatever became of its command.
LimitReplacementParentAnyResult(o) ==
  /\ o \in Originals
  /\ prop[o].otype = "market" \/ EntryPolicy(o)
  /\ ~prop[o].superseded
  /\ o \notin expired
  /\ prop[o].approved

\* Which original may be replaced by a limit proposal.
LimitReplacementParent(o) ==
  /\ o \in Originals
  /\ prop[o].otype = "market" \/ EntryPolicy(o)
  /\ ~prop[o].superseded
  /\ o \notin expired
  /\ \/ /\ prop[o].status = "invalidated"
        /\ prop[o].elig
        /\ ~prop[o].approved
     \/ /\ prop[o].status = "execution_failed"
        /\ prop[o].approved
        /\ cmd[o].status = "rejected"
        /\ cmd[o].elig
        /\ cmd[o].attempted = "no"
        /\ ~cmd[o].ticket

LimitReplacementOrigin(p) ==
  p \in Replacements =>
    /\ LimitReplacementParent(OriginOf[p])
    /\ prop[OriginOf[p]].link

StoreTypeOK ==
  /\ prop \in [Proposals -> ProposalDoc]
  /\ cmd \in [Proposals -> CommandDoc]
  /\ killed \in BOOLEAN
  /\ fresh \in BOOLEAN
  /\ expired \subseteq Originals
  /\ lapsed \subseteq Proposals

\* The kill switch defaults to on; no heartbeat has arrived yet.
StoreInit ==
  /\ prop \in [Proposals -> {NewProposal("market"), NewProposal("pending"), NoProposal}]
  /\ \A p \in Proposals : (prop[p] = NoProposal) <=> (p \in Replacements)
  /\ cmd = [p \in Proposals |-> NoCommand]
  /\ killed = TRUE
  /\ fresh = FALSE
  /\ expired = {}
  /\ lapsed = {}

Kill ==
  /\ ~killed
  /\ killed' = TRUE
  /\ UNCHANGED <<prop, cmd, fresh, expired, lapsed>>

\* scripts/ftmo_control_admin.py reset-kill, the only way back.
ResetKill ==
  /\ killed
  /\ killed' = FALSE
  /\ UNCHANGED <<prop, cmd, fresh, expired, lapsed>>

\* Time passes an original's expires_at, or a command's own deadline.
ProposalExpires(o) ==
  /\ o \in Originals \ expired
  /\ expired' = expired \cup {o}
  /\ UNCHANGED <<prop, cmd, killed, fresh, lapsed>>

CommandLapses(p) ==
  /\ cmd[p].status # "absent"
  /\ ~CommandLate(p)
  /\ lapsed' = lapsed \cup {p}
  /\ UNCHANGED <<prop, cmd, killed, fresh, expired>>
=============================================================================
