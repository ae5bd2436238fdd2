-------------------------- MODULE OperatorApproval --------------------------
(***************************************************************************)
(* The operator's side of FTMOMasterService: approve, reject,              *)
(* create_limit_replacement and the supersession of an older signal.       *)
(* Every callback is an asyncio task; one action is what runs between two  *)
(* awaits that another task's write can separate.  A callback that raises, *)
(* whose versioned write conflicts or whose process stops ends in          *)
(* CallbackEnds; the documents keep what it wrote before.                  *)
(***************************************************************************)
EXTENDS FTMOStore

CONSTANT Callbacks  \* the callback invocations of a behaviour, each used once

VARIABLE cb  \* per callback: its point, its proposal and the document it read

CallbackPoints ==
  {"idle", "gate", "quote", "validate", "claim", "save", "queue",
   "offer", "link", "linkWrite", "supersede", "done"}

\* p is "none" while a callback is idle or done.
Callback ==
  [pc : CallbackPoints, p : Proposals \cup {"none"}, view : ProposalDoc]

OperatorTypeOK == cb \in [Callbacks -> Callback]

Idle == [pc |-> "idle", p |-> "none", view |-> NoProposal]
Done == [Idle EXCEPT !.pc = "done"]

OperatorInit == cb = [c \in Callbacks |-> Idle]

Begin(c, pc, p, view) ==
  /\ cb[c].pc = "idle"
  /\ cb' = [cb EXCEPT ![c] = [pc |-> pc, p |-> p, view |-> view]]
Continue(c, pc) == cb' = [cb EXCEPT ![c].pc = pc]
Return(c) == cb' = [cb EXCEPT ![c] = Done]

\* A versioned write of the document this callback read, as it changed it.
PutView(c, doc) == Put(cb[c].p, cb[c].view.ver, doc)
ContinueWith(c, pc, doc) ==
  cb' = [cb EXCEPT ![c].pc = pc,
                   ![c].view = [doc EXCEPT !.ver = cb[c].view.ver + 1]]

restOfStore == <<cmd, killed, fresh, expired, lapsed>>

-----------------------------------------------------------------------------
(* approve *)

ApproveRead(c, p) ==
  /\ prop[p].status = "pending_confirmation"
  /\ ~prop[p].superseded
  /\ LimitReplacementOrigin(p)
  /\ Begin(c, "gate", p, prop[p])
  /\ UNCHANGED storeVars

ApproveExpired(c) ==
  /\ cb[c].pc = "gate"
  /\ Root(cb[c].p) \in expired
  /\ PutView(c, [cb[c].view EXCEPT !.status = "expired", !.life = "EXPIRED"])
  /\ Return(c)
  /\ UNCHANGED restOfStore

ApproveGate(c) ==
  /\ cb[c].pc = "gate"
  /\ Root(cb[c].p) \notin expired
  /\ ExecutionReady
  /\ Continue(c, "quote")
  /\ UNCHANGED storeVars

ApproveBlocked(c) ==
  /\ cb[c].pc = "gate"
  /\ Root(cb[c].p) \notin expired
  /\ ~ExecutionReady
  /\ PutView(c, [cb[c].view EXCEPT !.life = "APPROVAL_BLOCKED"])
  /\ Return(c)
  /\ UNCHANGED restOfStore

\* A fresh quote has arrived: the gates are read again, and an entry policy
\* first saves the order type the live price selects.  A proposal that once
\* waited for a pending entry never becomes a market order.
ApproveQuote(c) ==
  /\ cb[c].pc = "quote"
  /\ Root(cb[c].p) \notin expired
  /\ ExecutionReady
  /\ IF EntryPolicy(cb[c].p)
       THEN \E otype \in {cb[c].view.otype, "pending"} :
              LET doc == [cb[c].view EXCEPT !.otype = otype] IN
                /\ PutView(c, doc)
                /\ ContinueWith(c, "validate", doc)
       ELSE /\ Continue(c, "validate")
            /\ UNCHANGED prop
  /\ UNCHANGED restOfStore

\* The setup is broken, or the order no longer validates at the live price;
\* only a market order's price tolerance makes the original replaceable.
ApproveInvalidates(c) ==
  /\ \/ cb[c].pc = "quote" /\ EntryPolicy(cb[c].p)
     \/ cb[c].pc = "validate"
  /\ \E tolerance \in BOOLEAN :
       /\ tolerance => cb[c].pc = "validate" /\ cb[c].view.otype = "market"
       /\ PutView(c, [cb[c].view EXCEPT !.status = "invalidated",
                                        !.life = "INVALIDATED",
                                        !.elig = tolerance])
  /\ Return(c)
  /\ UNCHANGED restOfStore

ApproveRecheck(c) ==
  /\ cb[c].pc = "validate"
  /\ Root(cb[c].p) \notin expired
  /\ LimitReplacementOrigin(cb[c].p)
  /\ Continue(c, "claim")
  /\ UNCHANGED storeVars

ApproveClaim(c) ==
  /\ cb[c].pc = "claim"
  /\ LET doc == [cb[c].view EXCEPT !.status = "approved",
                                   !.life = "APPROVAL_CLAIMED",
                                   !.approved = TRUE] IN
       /\ PutView(c, doc)
       /\ ContinueWith(c, "save", doc)
  /\ UNCHANGED restOfStore

\* save_command expects version 0: a second command with this id is refused.
ApproveSaveCommand(c) ==
  /\ cb[c].pc = "save"
  /\ cmd[cb[c].p].status = "absent"
  /\ cmd' = [cmd EXCEPT ![cb[c].p] = NewCommand]
  /\ Continue(c, "queue")
  /\ UNCHANGED <<prop, killed, fresh, expired, lapsed>>

ApproveQueue(c) ==
  /\ cb[c].pc = "queue"
  /\ PutView(c, [cb[c].view EXCEPT !.status = "command_created",
                                   !.life = "EXECUTION_QUEUED"])
  /\ Return(c)
  /\ UNCHANGED restOfStore

-----------------------------------------------------------------------------
(* reject: the document is read and written back to back *)

\* Mutant: the status of the proposal is not tested.
RejectAnyStatus(c, p) ==
  /\ cb[c].pc = "idle"
  /\ UpdateProposal(p, [prop[p] EXCEPT !.status = "rejected",
                                       !.life = "REJECTED", !.rejected = TRUE])
  /\ Return(c)
  /\ UNCHANGED restOfStore

Reject(c, p) ==
  /\ cb[c].pc = "idle"
  /\ prop[p].status = "pending_confirmation"
  /\ UpdateProposal(p, [prop[p] EXCEPT !.status = "rejected",
                                       !.life = "REJECTED", !.rejected = TRUE])
  /\ Return(c)
  /\ UNCHANGED restOfStore

-----------------------------------------------------------------------------
(* create_limit_replacement, whose view is the replacement's document until *)
(* it links the original                                                    *)

OfferRead(c, r) ==
  /\ r \in Replacements
  /\ LimitReplacementParent(OriginOf[r])
  /\ prop[r].status \in {"absent", "pending_confirmation"}
  /\ ExecutionReady
  /\ Begin(c, "offer", r, prop[r])
  /\ UNCHANGED storeVars

\* A child another callback has created meanwhile is used as it is; one that
\* was there from the start is revalidated and written again.
OfferCreate(c) ==
  /\ cb[c].pc = "offer"
  /\ LET r == cb[c].p IN
       IF cb[c].view.status # "absent"
         THEN PutView(c, cb[c].view)
         ELSE IF prop[r].status = "absent"
                THEN prop' = [prop EXCEPT ![r] = NewProposal("pending")]
                ELSE UNCHANGED prop
  /\ Continue(c, "link")
  /\ UNCHANGED restOfStore

OfferLinkRead(c) ==
  /\ cb[c].pc = "link"
  /\ LET o == OriginOf[cb[c].p] IN
       /\ LimitReplacementParent(o)
       /\ IF prop[o].link
            THEN Return(c)
            ELSE cb' = [cb EXCEPT ![c].pc = "linkWrite", ![c].view = prop[o]]
  /\ UNCHANGED storeVars

\* A conflict is retried from the read.
OfferLinkWrite(c) ==
  /\ cb[c].pc = "linkWrite"
  /\ LET o == OriginOf[cb[c].p] IN
       IF prop[o].ver = cb[c].view.ver
         THEN /\ Put(o, cb[c].view.ver, [cb[c].view EXCEPT !.link = TRUE])
              /\ Return(c)
         ELSE /\ Continue(c, "link")
              /\ UNCHANGED prop
  /\ UNCHANGED restOfStore

-----------------------------------------------------------------------------
(* create_signal_proposal superseding an older signal: the status is tested *)
(* on the listed document, the write replaces whatever is stored by then    *)

SupersedeList(c, o) ==
  /\ o \in Originals
  /\ prop[o].status = "pending_confirmation" \/ EntryPolicy(o)
  /\ Begin(c, "supersede", o, NoProposal)
  /\ UNCHANGED storeVars

SupersedeWrite(c) ==
  /\ cb[c].pc = "supersede"
  /\ UpdateProposal(cb[c].p,
       [prop[cb[c].p] EXCEPT !.status = "invalidated", !.life = "INVALIDATED",
                             !.superseded = TRUE])
  /\ Return(c)
  /\ UNCHANGED restOfStore

-----------------------------------------------------------------------------

\* The callback raises (a refusal, a conflicting write) or its process stops.
CallbackEnds(c) ==
  /\ cb[c].pc \notin {"idle", "done"}
  /\ Return(c)
  /\ UNCHANGED storeVars

CallbackProceeds(c) ==
  \/ ApproveExpired(c) \/ ApproveGate(c) \/ ApproveBlocked(c)
  \/ ApproveQuote(c) \/ ApproveInvalidates(c) \/ ApproveRecheck(c)
  \/ ApproveClaim(c) \/ ApproveSaveCommand(c) \/ ApproveQueue(c)
  \/ OfferCreate(c) \/ OfferLinkRead(c) \/ OfferLinkWrite(c)
  \/ SupersedeWrite(c)

CallbackStarts(c) ==
  \E p \in Proposals :
    \/ ApproveRead(c, p)
    \/ Reject(c, p)
    \/ OfferRead(c, p)
    \/ SupersedeList(c, p)

OperatorNext ==
  \E c \in Callbacks :
    CallbackStarts(c) \/ CallbackProceeds(c) \/ CallbackEnds(c)
=============================================================================
