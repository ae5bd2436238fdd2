------------------------- MODULE ControlPlaneProofs -------------------------
(***************************************************************************)
(* Type correctness of ControlPlane, and the finality of the operator's    *)
(* decision.  The inductive invariant adds to the types what a handler, a  *)
(* callback and the EA hold at each of their points.  Every write of a     *)
(* proposal is sound (it advances the version, decides at most an open     *)
(* proposal and takes no decision back); from that follow the invariants   *)
(* on views and requests: what the bridge and the EA act on is approved.   *)
(*                                                                         *)
(* The broker takes at most one order for a proposal, given a journal that *)
(* is written before each broker call, and each order is authorized.  Nor  *)
(* do an original and its limit replacement both become orders, given also *)
(* requests that end before the EA stops waiting for them.                 *)
(***************************************************************************)
EXTENDS ControlPlane, TLAPS

-----------------------------------------------------------------------------
(* Types *)

Requests == {Free} \cup PollRequest \cup AckRequest \cup BeatRequest

\* A callback under way has its proposal, an offer one that can replace.
CallbackShape ==
  \A c \in Callbacks :
    /\ cb[c].pc \notin {"idle", "done"} => cb[c].p \in Proposals
    /\ cb[c].pc \in {"offer", "link", "linkWrite"} => cb[c].p \in Replacements

\* A handler about to write is at a proposal.
HandlerShape ==
  \A s \in Slots :
    /\ req[s].kind = "poll" /\ req[s].pc \in {"write", "reoffer"} =>
         req[s].at \in Proposals
    /\ req[s].kind = "beat" /\ req[s].pc \in {"write", "fill", "life"} =>
         req[s].at \in Proposals

\* The EA submits a command, and waits for the request its point says.
EAShape ==
  /\ ea.pc \in {"submit", "record"} => ea.at \in Proposals
  /\ waiting \in Slots =>
       \/ ea.pc = "beating" /\ req[waiting].kind = "beat"
       \/ ea.pc = "polling" /\ req[waiting].kind = "poll"
       \/ ea.pc = "acking" /\ req[waiting].kind = "ack"

TypeInv == TypeOK /\ CallbackShape /\ HandlerShape /\ EAShape

-----------------------------------------------------------------------------
(* One order for a command *)

\* What the broker has taken is in the journal, and a command about to be
\* submitted is there too but was never taken.
JournalFirst ==
  /\ \A p \in Proposals :
       placed[p] <= 1 /\ (placed[p] > 0 => journal[p].status # "none")
  /\ ea.pc = "submit" => placed[ea.at] = 0 /\ journal[ea.at].status # "none"

-----------------------------------------------------------------------------
(* Decisions *)

\* An undecided document says so, and no document says both.
DocShape ==
  \A p \in Proposals :
    /\ prop[p].status \in {"absent", "pending_confirmation"} =>
         ~prop[p].approved /\ ~prop[p].rejected
    /\ prop[p].approved => ~prop[p].rejected
    /\ prop[p].status = "absent" => p \in Replacements /\ prop[p].ver = 0

\* The document a callback's view is a copy of.
Viewed(c) == IF cb[c].pc = "linkWrite" THEN OriginOf[cb[c].p] ELSE cb[c].p

\* A view is the stored document, or its version is an older one.
CurrentOrOlder(view, doc) ==
  view.ver <= doc.ver /\ (view.ver = doc.ver => view = doc)

\* approve has a pending document in hand until it claims it, an approved one
\* from then on; a supersession is of an original.
ViewInv(c) ==
  /\ cb[c].pc \notin {"idle", "done", "link", "supersede"} =>
       CurrentOrOlder(cb[c].view, prop[Viewed(c)])
  /\ cb[c].pc \in {"gate", "quote", "validate", "claim"} =>
       /\ cb[c].view.status = "pending_confirmation"
       /\ ~cb[c].view.approved /\ ~cb[c].view.rejected
  /\ cb[c].pc \in {"save", "queue"} =>
       cb[c].view.approved /\ ~cb[c].view.rejected /\ prop[cb[c].p].approved
  /\ cb[c].pc = "supersede" => cb[c].p \in Originals

ViewShape == \A c \in Callbacks : ViewInv(c)

\* Commands, and whatever the bridge endpoints and the EA act on, are of
\* proposals that are approved by now.
CommandsApproved == \A p \in Proposals : cmd[p].status # "absent" => prop[p].approved

HandlerInv(s) ==
  /\ req[s].kind = "poll" =>
       /\ \A c \in req[s].todo : prop[c.p].approved
       /\ \A p \in req[s].out : prop[p].approved
       /\ req[s].pc \in {"write", "reoffer"} => prop[req[s].at].approved
  /\ req[s].kind = "ack" => prop[req[s].msg.p].approved
  /\ req[s].kind = "beat" =>
       /\ \A p \in req[s].todo : prop[p].approved
       /\ req[s].pc \in {"write", "fill", "life"} => prop[req[s].at].approved

HandlersApproved == \A s \in Slots : HandlerInv(s)

EAApproved ==
  /\ \A p \in ea.queue : prop[p].approved
  /\ ea.pc \in {"submit", "record"} => prop[ea.at].approved
  /\ \A p \in Proposals : placed[p] > 0 => prop[p].approved

DecisionInv ==
  DocShape /\ ViewShape /\ CommandsApproved /\ HandlersApproved /\ EAApproved

-----------------------------------------------------------------------------
(* Writes *)

Verdict(doc) ==
  IF doc.approved THEN "approved"
  ELSE IF doc.status \in {"rejected", "expired", "invalidated"} THEN "refused"
  ELSE "open"

\* What every write of a proposal does to the decision about it.
SoundWrite(old, new) ==
  /\ new.ver = old.ver + 1
  /\ new.status # "absent"
  /\ new.status = "pending_confirmation" => ~new.approved /\ ~new.rejected
  /\ new.approved => ~new.rejected
  /\ old.approved => new.approved
  /\ old.rejected => new.rejected
  /\ Verdict(new) = Verdict(old) \/ Verdict(old) = "open"

WritesSoundly ==
  \/ UNCHANGED prop
  \/ \E p \in Proposals, d \in ProposalDoc :
       prop' = [prop EXCEPT ![p] = d] /\ SoundWrite(prop[p], d)

-----------------------------------------------------------------------------
(* One order for a setup, when no request outlives the EA's wait for it *)

\* The server handles at most the request the EA is waiting for.
OneRequest == \A s \in Slots : req[s] # Free => waiting = s

\* The command has left the server and nobody may replace its proposal.
Offered(p) == cmd[p].status \notin {"absent", "ready"} /\ ~cmd[p].elig

\* An eligible command was refused before the broker call, and one that was not
\* delivered has no order.
CommandsUnplaced ==
  \A p \in Proposals :
    /\ cmd[p].elig => cmd[p].status = "rejected" /\ placed[p] = 0
    /\ cmd[p].status \in {"absent", "ready"} => placed[p] = 0

EAOffered ==
  /\ \A p \in ea.queue : Offered(p)
  /\ ea.pc \in {"submit", "record"} => Offered(ea.at)

\* The journal never says "rejected" of an order the broker may have taken.
JournalHonest ==
  /\ \A p \in Proposals : placed[p] > 0 => journal[p].status \in Submitted
  /\ ea.pc = "submit" => journal[ea.at].status \in Submitted
  /\ ea.pc = "record" /\ ea.result = "refused" => placed[ea.at] = 0

\* Nobody else has written the commands a handler has listed or is about to
\* write since it read them.
PollCurrent(s) ==
  req[s].kind = "poll" =>
    /\ \A c \in req[s].todo : cmd[c.p].status = c.status
    /\ \A p \in req[s].out : Offered(p)
    /\ req[s].pc = "write" =>
         /\ cmd[req[s].at].status \in {"ready", "delivered"}
         /\ req[s].do = "reoffer" => cmd[req[s].at].status = "ready"
         /\ \A c \in req[s].todo : c.p # req[s].at

AckCurrent(s) ==
  req[s].kind = "ack" =>
    LET msg == req[s].msg IN
      /\ msg.p \notin ea.queue
      /\ msg.status = "rejected" /\ msg.attempted = "no" => placed[msg.p] = 0
      /\ req[s].pc \in {"start", "update"} => Offered(msg.p)

BeatCurrent(s) ==
  req[s].kind = "beat" /\ req[s].pc = "write" =>
    cmd[req[s].at].status \in {"delivered", "broker_uncertain"}

RequestsCurrent == \A s \in Slots : PollCurrent(s) /\ AckCurrent(s) /\ BeatCurrent(s)

\* The original can no longer become an order: nobody approved it, or its
\* command was refused before the broker call.
Closed(o) == Verdict(prop[o]) = "refused" \/ cmd[o].elig

ReplacementsClosed ==
  /\ \A c \in Callbacks :
       cb[c].pc \in {"claim", "save"} /\ cb[c].p \in Replacements =>
         Closed(OriginOf[cb[c].p])
  /\ \A r \in Replacements : cmd[r].status # "absent" => Closed(OriginOf[r])

CommandInv ==
  OneRequest /\ CommandsUnplaced /\ EAOffered /\ JournalHonest /\ RequestsCurrent

SetupInv == CommandInv /\ ReplacementsClosed

-----------------------------------------------------------------------------
(* A result that came by an acknowledgement *)

\* A result the EA acknowledged carries its evidence and is in the journal.
ResultsJournalled ==
  \A p \in Proposals :
    cmd[p].status = "reconciled" /\ cmd[p].source = "none" =>
      cmd[p].retcode = "done" /\ journal[p].status = "reconciled"

\* A result is journalled with its ticket, over the record of the attempt.
ResultsTicketed ==
  /\ \A p \in Proposals : journal[p].status = "reconciled" => journal[p].ticket
  /\ ea.pc \in {"submit", "record"} => journal[ea.at].status = "broker_uncertain"
  /\ ea.pc = "record" /\ ea.result = "done" => ea.ticket

\* An acknowledgement says what the journal says, with evidence that suffices
\* where it says "reconciled", and its handler read the command as it still is.
AckTruthful(s) ==
  req[s].kind = "ack" =>
    LET msg == req[s].msg IN
      /\ msg.status = "reconciled" <=> journal[msg.p].status = "reconciled"
      /\ msg.status = "reconciled" => msg.ticket /\ msg.retcode \in {"none", "done"}
      /\ req[s].pc = "update" =>
           req[s].prev = cmd[msg.p] /\ ~HeartbeatReconciled(req[s].prev)

ResultInv == ResultsJournalled /\ ResultsTicketed /\ \A s \in Slots : AckTruthful(s)

-----------------------------------------------------------------------------
(* Type correctness *)

\* The documents the code creates are documents.
LEMMA DocumentTypes ==
  /\ NewProposal("market") \in ProposalDoc
  /\ NewProposal("pending") \in ProposalDoc
  /\ NoProposal \in ProposalDoc
  /\ NewCommand \in CommandDoc
  /\ NoCommand \in CommandDoc
BY DEF NewProposal, NoProposal, NewCommand, NoCommand, ProposalDoc, CommandDoc,
       ProposalStatus, CommandStatus, Lifecycle, OrderTypes, Retcodes

\* A versioned write keeps the proposals documents.
LEMMA PutTypes ==
  ASSUME prop \in [Proposals -> ProposalDoc], NEW p \in Proposals,
         NEW v \in Nat, NEW doc \in ProposalDoc, Put(p, v, doc)
  PROVE  prop' \in [Proposals -> ProposalDoc]
BY DEF Put, ProposalDoc

\* The kind of a request says which record it is.
LEMMA RequestKinds ==
  ASSUME NEW r \in Requests
  PROVE  /\ r.kind = "poll" => r \in PollRequest
         /\ r.kind = "ack" => r \in AckRequest
         /\ r.kind = "beat" => r \in BeatRequest
<1>1. r.kind = "poll" => r \in PollRequest
  BY DEF Requests, Free, AckRequest, BeatRequest
<1>2. r.kind = "ack" => r \in AckRequest
  BY DEF Requests, Free, PollRequest, BeatRequest
<1>3. r.kind = "beat" => r \in BeatRequest
  BY DEF Requests, Free, PollRequest, AckRequest
<1>. QED  BY <1>1, <1>2, <1>3

\* What update_command merges into a command keeps it a command.
LEMMA PollChangeType ==
  ASSUME NEW c \in CommandDoc, NEW st \in CommandStatus,
         NEW e \in BOOLEAN, NEW a \in {"yes", "no", "unset"}
  PROVE  /\ [c EXCEPT !.status = st] \in CommandDoc
         /\ [c EXCEPT !.status = st, !.elig = e, !.attempted = a] \in CommandDoc
BY DEF CommandDoc

\* A document with the next version is a document.
LEMMA DocVer ==
  ASSUME NEW d \in ProposalDoc, NEW v \in Nat
  PROVE  [d EXCEPT !.ver = v + 1] \in ProposalDoc /\ d.ver \in Nat
BY DEF ProposalDoc


\* A step that leaves the store alone keeps its type.
LEMMA StoreStutter ==
  ASSUME StoreTypeOK, UNCHANGED storeVars
  PROVE  StoreTypeOK'
BY DEF StoreTypeOK, storeVars

\* A write of one proposal at an expected version keeps the type of the store.
LEMMA StorePut ==
  ASSUME StoreTypeOK, NEW p \in Proposals, NEW v \in Nat, NEW doc \in ProposalDoc,
         Put(p, v, doc), UNCHANGED <<cmd, killed, fresh, expired, lapsed>>
  PROVE  StoreTypeOK'
<1>1. prop' \in [Proposals -> ProposalDoc]
  BY PutTypes DEF StoreTypeOK
<1>. QED  BY <1>1 DEF StoreTypeOK

\* So does a write that read the document immediately before.
LEMMA StoreUpdate ==
  ASSUME StoreTypeOK, NEW p \in Proposals, NEW doc \in ProposalDoc,
         UpdateProposal(p, doc), UNCHANGED <<cmd, killed, fresh, expired, lapsed>>
  PROVE  StoreTypeOK'
<1>1. prop[p].ver \in Nat
  BY DocVer DEF StoreTypeOK
<1>2. Put(p, prop[p].ver, doc)
  BY DEF UpdateProposal
<1>. QED  BY <1>1, <1>2, StorePut

\* A write of one command keeps the type of the store.
LEMMA StoreCommand ==
  ASSUME StoreTypeOK, NEW p \in Proposals, NEW c \in CommandDoc,
         cmd' = [cmd EXCEPT ![p] = c], UNCHANGED <<prop, killed, fresh, expired, lapsed>>
  PROVE  StoreTypeOK'
BY DEF StoreTypeOK

\* A step of a handler leaves the EA as it is.
LEMMA EAStutter ==
  ASSUME TypeInv, UNCHANGED eaVars
  PROVE  EATypeOK' /\ UNCHANGED ea
BY DEF TypeInv, TypeOK, EATypeOK, eaVars

\* A handler that moves to a well-formed point of the same kind of request keeps
\* the invariant.
LEMMA HandlerStep ==
  ASSUME TypeInv, NEW s \in Slots, UNCHANGED <<cb, waiting, ea>>, StoreTypeOK',
         EATypeOK',
         NEW r \in Requests,
         req' = [req EXCEPT ![s] = r],
         waiting = s => r.kind = req[s].kind,
         r.kind = "poll" /\ r.pc \in {"write", "reoffer"} => r.at \in Proposals,
         r.kind = "beat" /\ r.pc \in {"write", "fill", "life"} => r.at \in Proposals
  PROVE  TypeInv'
<1>. USE DEF TypeInv, TypeOK, OperatorTypeOK, BridgeTypeOK, EATypeOK,
             CallbackShape, HandlerShape, EAShape, Requests
<1>1. BridgeTypeOK'
  OBVIOUS
<1>2. HandlerShape'
  OBVIOUS
<1>3. EAShape' /\ CallbackShape' /\ OperatorTypeOK' /\ EATypeOK'
  OBVIOUS
<1>. QED  BY <1>1, <1>2, <1>3

\* The handler answers with the request at its "reply" or "dead" point.
LEMMA AnswerStep ==
  ASSUME TypeInv, NEW s \in Slots, UNCHANGED <<cb, ea>>, StoreTypeOK', EATypeOK',
         NEW r \in Requests, r.pc \in {"reply", "dead"}, r.kind = req[s].kind,
         Answer(s, r)
  PROVE  TypeInv'
<1>. DEFINE q == IF waiting = s THEN r ELSE Free
<1>1. q \in Requests
  BY DEF Requests
<1>2. /\ waiting = s => q.kind = req[s].kind
      /\ q.pc \in {"reply", "dead", "free"}
  BY DEF Free
<1>3. req' = [req EXCEPT ![s] = q] /\ UNCHANGED waiting
  BY DEF Answer
<1>. HIDE DEF q
<1>. QED  BY <1>1, <1>2, <1>3, HandlerStep

\* What acknowledge computes from a message and the record read first is a status
\* of the acknowledgement and a well-formed command.
LEMMA AckRecords ==
  ASSUME NEW msg \in Ack, NEW prev \in CommandDoc, NEW c \in CommandDoc,
         NEW e \in BOOLEAN, NEW m \in BOOLEAN
  PROVE  LET ev == AckEvidence(msg, prev) IN
         /\ AckStatus(ev) \in {"rejected", "broker_uncertain", "reconciled"}
         /\ ev.ticket \in BOOLEAN
         /\ [c EXCEPT !.status = AckStatus(ev), !.elig = e, !.maybe = m,
                      !.ticket = ev.ticket, !.retcode = ev.retcode,
                      !.attempted = ev.attempted] \in CommandDoc
<1>. DEFINE ev == AckEvidence(msg, prev)
<1>1. /\ ev.status \in {"rejected", "broker_uncertain", "reconciled"}
      /\ ev.ticket \in BOOLEAN /\ ev.retcode \in Retcodes
      /\ ev.attempted \in {"yes", "no", "unset"}
  BY DEF AckEvidence, Ack, CommandDoc
<1>2. AckStatus(ev) \in {"rejected", "broker_uncertain", "reconciled"}
  BY <1>1 DEF AckStatus
<1>. HIDE DEF ev
<1>3. [c EXCEPT !.status = AckStatus(ev), !.elig = e, !.maybe = m,
                !.ticket = ev.ticket, !.retcode = ev.retcode,
                !.attempted = ev.attempted] \in CommandDoc
  BY <1>1, <1>2 DEF CommandDoc, CommandStatus
<1>. QED  BY <1>1, <1>2, <1>3 DEF ev


\* The steps of commands_for_bridge preserve the type invariant.
LEMMA PollTypes ==
  ASSUME TypeInv, NEW s \in Slots, UNCHANGED <<cb, eaVars>>,
         PollReadiness(s) \/ PollList(s) \/ PollCheck(s) \/ PollWrite(s)
         \/ PollReoffer(s) \/ PollReply(s)
  PROVE  TypeInv'
<1>t. StoreTypeOK /\ req[s] \in Requests
  BY DEF TypeInv, TypeOK, BridgeTypeOK, Requests
<1>u. UNCHANGED waiting
  BY DEF PollReadiness, PollList, PollCheck, PollWrite, PollReoffer, PollReply, Goto, Answer
<1>k. req[s].kind = "poll"
  BY DEF PollReadiness, PollList, PollCheck, PollWrite, PollReoffer, PollReply, At
<1>r. req[s] \in PollRequest
  BY <1>t, <1>k, RequestKinds
<1>s. ASSUME UNCHANGED storeVars PROVE StoreTypeOK'
  BY <1>t, <1>s, StoreStutter
<1>h. ASSUME NEW r \in PollRequest, req' = [req EXCEPT ![s] = r], StoreTypeOK',
             r.pc \in {"write", "reoffer"} => r.at \in Proposals
      PROVE  TypeInv'
  <2>1. r.kind = "poll"
    BY DEF PollRequest
  <2>2. r \in Requests
    BY DEF Requests
  <2>. QED  BY <2>1, <2>2, <1>h, <1>k, <1>u, EAStutter, HandlerStep
<1>a. ASSUME Answer(s, [req[s] EXCEPT !.pc = "reply"]), StoreTypeOK'
      PROVE  TypeInv'
  <2>. DEFINE r == [req[s] EXCEPT !.pc = "reply"]
  <2>1. r \in PollRequest /\ r.kind = "poll" /\ r.pc = "reply"
    BY <1>r DEF PollRequest
  <2>2. r \in Requests
    BY <2>1 DEF Requests
  <2>. HIDE DEF r
  <2>3. Answer(s, r)
    BY <1>a DEF r
  <2>. QED  BY <2>1, <2>2, <2>3, <1>a, <1>k, EAStutter, AnswerStep
<1>1. CASE PollReadiness(s)
  <2>0. StoreTypeOK'
    BY <1>1, <1>s DEF PollReadiness
  <2>1. CASE ExecutionReady
    <3>. DEFINE r == [req[s] EXCEPT !.pc = "list", !.late = {p \in Proposals : CommandLate(p)}]
    <3>1. r \in PollRequest /\ r.pc = "list"
      BY <1>r DEF PollRequest
    <3>2. req' = [req EXCEPT ![s] = r]
      BY <1>1, <2>1 DEF PollReadiness
    <3>. QED  BY <3>1, <3>2, <2>0, <1>h
  <2>2. CASE ~ExecutionReady
    BY <1>1, <2>0, <2>2, <1>a DEF PollReadiness
  <2>. QED  BY <2>1, <2>2
<1>2. CASE PollList(s)
  <2>. DEFINE r == [req[s] EXCEPT !.pc = "next",
                     !.todo = {c \in ListedCommand : cmd[c.p].status = c.status}]
  <2>1. r \in PollRequest /\ r.pc = "next"
    BY <1>r DEF PollRequest
  <2>2. req' = [req EXCEPT ![s] = r] /\ UNCHANGED storeVars
    BY <1>2 DEF PollList
  <2>. QED  BY <2>1, <2>2, <1>h, <1>s
<1>3. CASE PollCheck(s)
  <2>1. PICK c \in req[s].todo : \E do \in PollOutcomes(req[s], c) :
          req' = [req EXCEPT ![s].todo = @ \ {c},
             ![s].pc = IF do = "skip" THEN "next" ELSE "write",
             ![s].at = IF do = "skip" THEN "none" ELSE c.p,
             ![s].do = IF do = "skip" THEN "none" ELSE do]
    BY <1>3 DEF PollCheck
  <2>2. PICK do \in PollOutcomes(req[s], c) :
          req' = [req EXCEPT ![s].todo = @ \ {c},
             ![s].pc = IF do = "skip" THEN "next" ELSE "write",
             ![s].at = IF do = "skip" THEN "none" ELSE c.p,
             ![s].do = IF do = "skip" THEN "none" ELSE do]
    BY <2>1
  <2>3. c.p \in Proposals
    BY <1>r DEF PollRequest, ListedCommand
  <2>4. do \in PollDecision \cup {"skip"}
    BY DEF PollOutcomes, PollDecision
  <2>. DEFINE r == [req[s] EXCEPT !.todo = @ \ {c},
             !.pc = IF do = "skip" THEN "next" ELSE "write",
             !.at = IF do = "skip" THEN "none" ELSE c.p,
             !.do = IF do = "skip" THEN "none" ELSE do]
  <2>5. r \in PollRequest /\ (r.pc = "write" => r.at \in Proposals)
        /\ r.pc \in {"next", "write"}
    BY <1>r, <2>3, <2>4 DEF PollRequest
  <2>6. req' = [req EXCEPT ![s] = r]
    BY ONLY <2>2
  <2>7. UNCHANGED storeVars
    BY <1>3 DEF PollCheck
  <2>. QED  BY <2>5, <2>6, <2>7, <1>h, <1>s
<1>4. CASE PollWrite(s)
  <2>. DEFINE p == req[s].at
              c == PollChange(req[s].do, p)
  <2>1. p \in Proposals
    BY <1>4 DEF TypeInv, HandlerShape, PollWrite, At
  <2>2. c \in CommandDoc
    <3>1. cmd[p] \in CommandDoc
      BY <1>t, <2>1 DEF StoreTypeOK
    <3>2. {"delivered", "rejected"} \subseteq CommandStatus
      BY DEF CommandStatus
    <3>. QED  BY <3>1, <3>2, PollChangeType DEF PollChange
  <2>3. StoreTypeOK'
    <3>1. cmd' = [cmd EXCEPT ![p] = c] /\ UNCHANGED <<prop, killed, fresh, expired, lapsed>>
      BY <1>4 DEF PollWrite
    <3>. HIDE DEF c, p
    <3>. QED  BY <3>1, <1>t, <2>1, <2>2, StoreCommand
  <2>4. CASE req[s].do = "reoffer"
    <3>. DEFINE r == [req[s] EXCEPT !.pc = "reoffer"]
    <3>1. r \in PollRequest /\ r.pc = "reoffer" /\ r.at \in Proposals
      BY <1>r, <2>1 DEF PollRequest
    <3>2. req' = [req EXCEPT ![s] = r]
      BY <1>4, <2>4 DEF PollWrite, Goto
    <3>. QED  BY <3>1, <3>2, <2>3, <1>h
  <2>5. CASE req[s].do # "reoffer"
    <3>. DEFINE r == [req[s] EXCEPT !.pc = "next", !.at = "none", !.do = "none",
                       !.out = IF req[s].do = "deliver" THEN @ \cup {p} ELSE @]
    <3>1. r \in PollRequest /\ r.pc = "next"
      BY <1>r, <2>1 DEF PollRequest
    <3>2. req' = [req EXCEPT ![s] = r]
      BY <1>4, <2>5 DEF PollWrite
    <3>. QED  BY <3>1, <3>2, <2>3, <1>h
  <2>. QED  BY <2>4, <2>5
<1>5. CASE PollReoffer(s)
  <2>. DEFINE p == req[s].at
              doc == [prop[p] EXCEPT !.status = "execution_failed", !.elig = TRUE]
              r == [req[s] EXCEPT !.pc = "next", !.at = "none", !.do = "none"]
  <2>1. p \in Proposals
    BY <1>5 DEF TypeInv, HandlerShape, PollReoffer, At
  <2>2. doc \in ProposalDoc
    <3>1. prop[p] \in ProposalDoc
      BY <1>t, <2>1 DEF StoreTypeOK
    <3>2. "execution_failed" \in ProposalStatus
      BY DEF ProposalStatus
    <3>. QED  BY <3>1, <3>2 DEF ProposalDoc
  <2>3. UpdateProposal(p, doc) /\ UNCHANGED <<cmd, killed, fresh, expired, lapsed>>
    BY <1>5 DEF PollReoffer
  <2>4. StoreTypeOK'
    <3>. HIDE DEF p, doc
    <3>. QED  BY <1>t, <2>1, <2>2, <2>3, StoreUpdate
  <2>5. r \in PollRequest /\ r.pc = "next"
    BY <1>r DEF PollRequest
  <2>6. req' = [req EXCEPT ![s] = r]
    BY <1>5 DEF PollReoffer
  <2>. QED  BY <2>4, <2>5, <2>6, <1>h
<1>6. CASE PollReply(s)
  BY <1>6, <1>a, <1>s DEF PollReply
<1>. QED  BY <1>1, <1>2, <1>3, <1>4, <1>5, <1>6

\* The steps of acknowledge preserve the type invariant.
LEMMA AckTypes ==
  ASSUME TypeInv, NEW s \in Slots, UNCHANGED <<cb, eaVars>>,
         AckRead(s) \/ AckUpdate(s) \/ AckProposal(s)
  PROVE  TypeInv'
<1>t. StoreTypeOK /\ req[s] \in Requests
  BY DEF TypeInv, TypeOK, BridgeTypeOK, Requests
<1>u. UNCHANGED waiting
  BY DEF AckRead, AckUpdate, AckProposal, Goto, Answer
<1>k. req[s].kind = "ack"
  BY DEF AckRead, AckUpdate, AckProposal, At
<1>r. req[s] \in AckRequest
  BY <1>t, <1>k, RequestKinds
<1>h. ASSUME NEW r \in AckRequest, req' = [req EXCEPT ![s] = r], StoreTypeOK'
      PROVE  TypeInv'
  <2>1. r.kind = "ack"
    BY DEF AckRequest
  <2>2. r \in Requests
    BY DEF Requests
  <2>. QED  BY <2>1, <2>2, <1>h, <1>k, <1>u, EAStutter, HandlerStep
<1>a. ASSUME Answer(s, [req[s] EXCEPT !.pc = "reply"]), StoreTypeOK'
      PROVE  TypeInv'
  <2>. DEFINE r == [req[s] EXCEPT !.pc = "reply"]
  <2>1. r \in AckRequest /\ r.kind = "ack" /\ r.pc = "reply"
    BY <1>r DEF AckRequest
  <2>2. r \in Requests
    BY <2>1 DEF Requests
  <2>. HIDE DEF r
  <2>3. Answer(s, r)
    BY <1>a DEF r
  <2>. QED  BY <2>1, <2>2, <2>3, <1>a, <1>k, EAStutter, AnswerStep
<1>. DEFINE msg == req[s].msg
            prev == req[s].prev
            p == msg.p
            ev == AckEvidence(msg, prev)
<1>m. msg \in Ack /\ prev \in CommandDoc /\ p \in Proposals
  BY <1>r DEF AckRequest, Ack
<1>d. cmd[p] \in CommandDoc /\ prop[p] \in ProposalDoc
  BY <1>t, <1>m DEF StoreTypeOK
<1>1. CASE AckRead(s)
  <2>1. StoreTypeOK'
    BY <1>1, <1>t, StoreStutter DEF AckRead
  <2>2. CASE HeartbeatReconciled(cmd[p])
    BY <1>1, <2>1, <2>2, <1>a DEF AckRead
  <2>3. CASE ~HeartbeatReconciled(cmd[p])
    <3>. DEFINE r == [req[s] EXCEPT !.pc = "update", !.prev = cmd[p]]
    <3>1. r \in AckRequest
      BY <1>r, <1>d DEF AckRequest
    <3>2. req' = [req EXCEPT ![s] = r]
      BY <1>1, <2>3 DEF AckRead
    <3>. QED  BY <3>1, <3>2, <2>1, <1>h
  <2>. QED  BY <2>2, <2>3
<1>2. CASE AckUpdate(s)
  <2>. DEFINE c == AckChange(p, msg, prev)
              r == [req[s] EXCEPT !.pc = "proposal"]
  <2>1. c \in CommandDoc
    <3>1. AckEligible(p, ev, prev) \in BOOLEAN
      BY DEF AckEligible
    <3>2. AckMaybe(ev, prev) \in BOOLEAN
      BY DEF AckMaybe
    <3>. QED  BY <3>1, <3>2, <1>m, <1>d, AckRecords DEF AckChange
  <2>2. cmd' = [cmd EXCEPT ![p] = c] /\ UNCHANGED <<prop, killed, fresh, expired, lapsed>>
    BY <1>2 DEF AckUpdate
  <2>3. StoreTypeOK'
    <3>. HIDE DEF c, p
    <3>. QED  BY <2>1, <2>2, <1>m, <1>t, StoreCommand
  <2>4. r \in AckRequest
    BY <1>r DEF AckRequest
  <2>5. req' = [req EXCEPT ![s] = r]
    BY <1>2 DEF AckUpdate, Goto
  <2>. QED  BY <2>3, <2>4, <2>5, <1>h
<1>3. CASE AckProposal(s)
  <2>. DEFINE st == AckProposalStatus(AckStatus(ev))
              life == IF AckStatus(ev) = "reconciled" THEN "BROKER_ACCEPTED"
                                                      ELSE "EXECUTION_FAILED"
              e == prop[p].elig \/ (EntryPolicy(p) /\ AckEligible(p, ev, prev))
              doc == [prop[p] EXCEPT !.status = st, !.life = life,
                                     !.ticket = ev.ticket, !.elig = e]
  <2>1. AckStatus(ev) \in {"rejected", "broker_uncertain", "reconciled"}
        /\ ev.ticket \in BOOLEAN
    BY <1>m, <1>d, AckRecords
  <2>2. st \in ProposalStatus
    BY <2>1 DEF AckProposalStatus, ProposalStatus
  <2>3. life \in Lifecycle /\ e \in BOOLEAN
    BY DEF Lifecycle
  <2>4. doc \in ProposalDoc
    <3>. HIDE DEF st, life, e, ev, p
    <3>. QED  BY <2>1, <2>2, <2>3, <1>d DEF ProposalDoc
  <2>5. UpdateProposal(p, doc) /\ UNCHANGED <<cmd, killed, fresh, expired, lapsed>>
    BY <1>3 DEF AckProposal
  <2>6. StoreTypeOK'
    <3>. HIDE DEF doc, p
    <3>. QED  BY <2>4, <2>5, <1>m, <1>t, StoreUpdate
  <2>. QED  BY <2>6, <1>3, <1>a DEF AckProposal
<1>. QED  BY <1>1, <1>2, <1>3


\* The steps of accept_bridge_heartbeat preserve the type invariant.
LEMMA BeatTypes ==
  ASSUME TypeInv, NEW s \in Slots, UNCHANGED <<cb, eaVars>>,
         BeatSave(s) \/ BeatList(s) \/ BeatCheck(s) \/ BeatWrite(s)
         \/ BeatFill(s) \/ BeatLife(s) \/ BeatReply(s)
  PROVE  TypeInv'
<1>t. StoreTypeOK /\ req[s] \in Requests
  BY DEF TypeInv, TypeOK, BridgeTypeOK, Requests
<1>u. UNCHANGED waiting
  BY DEF BeatSave, BeatList, BeatCheck, BeatWrite, BeatFill, BeatLife, BeatReply,
         Goto, Answer
<1>k. req[s].kind = "beat"
  BY DEF BeatSave, BeatList, BeatCheck, BeatWrite, BeatFill, BeatLife, BeatReply, At
<1>r. req[s] \in BeatRequest
  BY <1>t, <1>k, RequestKinds
<1>h. ASSUME NEW r \in BeatRequest, req' = [req EXCEPT ![s] = r], StoreTypeOK',
             r.pc \in {"write", "fill", "life"} => r.at \in Proposals
      PROVE  TypeInv'
  <2>1. r.kind = "beat"
    BY DEF BeatRequest
  <2>2. r \in Requests
    BY DEF Requests
  <2>. QED  BY <2>1, <2>2, <1>h, <1>k, <1>u, EAStutter, HandlerStep
<1>g. ASSUME NEW pc \in {"list", "fill", "life"}, Goto(s, pc), StoreTypeOK',
             pc # "list" => req[s].at \in Proposals
      PROVE  TypeInv'
  <2>. DEFINE r == [req[s] EXCEPT !.pc = pc]
  <2>1. r \in BeatRequest /\ r.pc = pc /\ r.at = req[s].at
    BY <1>r DEF BeatRequest
  <2>2. req' = [req EXCEPT ![s] = r]
    BY <1>g DEF Goto
  <2>. HIDE DEF r
  <2>. QED  BY <2>1, <2>2, <1>g, <1>h
<1>p. At(s, "beat", "write") \/ At(s, "beat", "fill") \/ At(s, "beat", "life")
        => req[s].at \in Proposals
  BY DEF TypeInv, HandlerShape, At
<1>. DEFINE p == req[s].at
<1>1. CASE BeatSave(s)
  <2>1. StoreTypeOK'
    BY <1>1, <1>t DEF BeatSave, StoreTypeOK
  <2>. QED  BY <2>1, <1>1, <1>g DEF BeatSave
<1>2. CASE BeatList(s)
  <2>. DEFINE seen == [q \in Proposals |-> prop[q].life]
              todo == {q \in Proposals : prop[q].approved}
              r == [req[s] EXCEPT !.pc = "next", !.seen = seen, !.todo = todo]
  <2>1. seen \in [Proposals -> Lifecycle]
    BY <1>t DEF StoreTypeOK, ProposalDoc
  <2>2. r \in BeatRequest /\ r.pc = "next"
    <3>. HIDE DEF seen
    <3>. QED  BY <1>r, <2>1 DEF BeatRequest
  <2>3. req' = [req EXCEPT ![s] = r] /\ UNCHANGED storeVars
    BY <1>2 DEF BeatList
  <2>4. StoreTypeOK'
    BY <2>3, <1>t, StoreStutter
  <2>. HIDE DEF r
  <2>. QED  BY <2>2, <2>3, <2>4, <1>h
<1>3. CASE BeatCheck(s)
  <2>1. PICK q \in req[s].todo :
       LET do == IF BeatSeesPending(req[s], q) THEN "pending"
                 ELSE IF BeatSeesFill(req[s], q) THEN "fill" ELSE "none" IN
         req' = [req EXCEPT ![s].todo = @ \ {q}, ![s].at = q, ![s].do = do,
                            ![s].pc = IF do = "none" THEN "life" ELSE "write"]
    BY <1>3 DEF BeatCheck
  <2>. DEFINE do == IF BeatSeesPending(req[s], q) THEN "pending"
                    ELSE IF BeatSeesFill(req[s], q) THEN "fill" ELSE "none"
              r == [req[s] EXCEPT !.todo = @ \ {q}, !.at = q, !.do = do,
                                  !.pc = IF do = "none" THEN "life" ELSE "write"]
  <2>2. q \in Proposals
    BY <1>r DEF BeatRequest
  <2>3. do \in {"pending", "fill", "none"}
    OBVIOUS
  <2>4. req' = [req EXCEPT ![s] = r]
    BY <2>1
  <2>5. r \in BeatRequest /\ r.at \in Proposals
    <3>. HIDE DEF do
    <3>. QED  BY <1>r, <2>2, <2>3 DEF BeatRequest, BeatDecision
  <2>6. StoreTypeOK'
    BY <1>3, <1>t, StoreStutter DEF BeatCheck
  <2>. HIDE DEF r
  <2>. QED  BY <2>4, <2>5, <2>6, <1>h
<1>4. CASE BeatWrite(s)
  <2>1. p \in Proposals /\ cmd[p] \in CommandDoc
    BY <1>4, <1>p, <1>t DEF BeatWrite, StoreTypeOK
  <2>2. CASE req[s].do = "pending"
    <3>. DEFINE c == [cmd[p] EXCEPT !.status = "reconciled", !.source = "pending",
                                    !.ticket = TRUE, !.maybe = TRUE]
    <3>1. c \in CommandDoc
      BY <2>1 DEF CommandDoc, CommandStatus
    <3>2. cmd' = [cmd EXCEPT ![p] = c] /\ UNCHANGED <<prop, killed, fresh, expired, lapsed>>
      BY <1>4, <2>2 DEF BeatWrite
    <3>3. StoreTypeOK'
      <4>. HIDE DEF c, p
      <4>. QED  BY <3>1, <3>2, <2>1, <1>t, StoreCommand
    <3>. QED  BY <3>3, <1>4, <2>1, <2>2, <1>g DEF BeatWrite
  <2>3. CASE req[s].do # "pending" /\ HeartbeatReconciled(cmd[p])
    <3>1. StoreTypeOK'
      BY <1>4, <2>3, <1>t DEF BeatWrite, StoreTypeOK
    <3>. QED  BY <3>1, <1>4, <2>1, <2>3, <1>g DEF BeatWrite
  <2>4. CASE req[s].do # "pending" /\ ~HeartbeatReconciled(cmd[p])
    <3>. DEFINE c == [cmd[p] EXCEPT !.status = "reconciled",
                  !.elig = FALSE, !.maybe = TRUE, !.ticket = TRUE,
                  !.retcode = "done", !.attempted = "yes",
                  !.source = "position"]
    <3>1. c \in CommandDoc
      BY <2>1 DEF CommandDoc, CommandStatus, Retcodes
    <3>2. cmd' = [cmd EXCEPT ![p] = c] /\ UNCHANGED <<prop, killed, fresh, expired, lapsed>>
      BY <1>4, <2>4 DEF BeatWrite
    <3>3. StoreTypeOK'
      <4>. HIDE DEF c, p
      <4>. QED  BY <3>1, <3>2, <2>1, <1>t, StoreCommand
    <3>. QED  BY <3>3, <1>4, <2>1, <2>4, <1>g DEF BeatWrite
  <2>. QED  BY <2>2, <2>3, <2>4
<1>5. CASE BeatFill(s)
  <2>1. p \in Proposals /\ prop[p] \in ProposalDoc
    BY <1>5, <1>p, <1>t DEF BeatFill, StoreTypeOK
  <2>. DEFINE doc == [prop[p] EXCEPT !.status = "reconciled",
                                     !.life = "BROKER_ACCEPTED", !.ticket = TRUE]
  <2>2. doc \in ProposalDoc
    BY <2>1 DEF ProposalDoc, ProposalStatus, Lifecycle
  <2>3. UpdateProposal(p, doc) /\ UNCHANGED <<cmd, killed, fresh, expired, lapsed>>
    BY <1>5 DEF BeatFill
  <2>4. StoreTypeOK'
    <3>. HIDE DEF doc, p
    <3>. QED  BY <2>1, <2>2, <2>3, <1>t, StoreUpdate
  <2>. QED  BY <2>1, <2>4, <1>5, <1>g DEF BeatFill
<1>6. CASE BeatLife(s)
  <2>1. p \in Proposals /\ prop[p] \in ProposalDoc
    BY <1>6, <1>p, <1>t DEF BeatLife, StoreTypeOK
  <2>. DEFINE life == NextLife(req[s], p)
              st == IF life = "POSITION_CLOSED" THEN "reconciled" ELSE prop[p].status
              doc == [prop[p] EXCEPT !.life = life, !.status = st]
              r == [req[s] EXCEPT !.pc = "next", !.at = "none", !.do = "none"]
  <2>2. life \in Lifecycle
    <3>1. req[s].seen[p] \in Lifecycle
      BY <1>r, <2>1 DEF BeatRequest
    <3>. QED  BY <3>1 DEF NextLife, Lifecycle
  <2>3. doc \in ProposalDoc
    <3>1. st \in ProposalStatus
      BY <2>1 DEF ProposalDoc, ProposalStatus
    <3>. HIDE DEF life, st
    <3>. QED  BY <2>1, <2>2, <3>1 DEF ProposalDoc
  <2>4. \/ UNCHANGED prop
        \/ UpdateProposal(p, doc)
    BY <1>6 DEF BeatLife
  <2>5. UNCHANGED <<cmd, killed, fresh, expired, lapsed>> /\ req' = [req EXCEPT ![s] = r]
    BY <1>6 DEF BeatLife
  <2>6. StoreTypeOK'
    <3>1. CASE UNCHANGED prop
      BY <3>1, <2>5, <1>t DEF StoreTypeOK
    <3>2. CASE UpdateProposal(p, doc)
      <4>. HIDE DEF doc, p
      <4>. QED  BY <3>2, <2>1, <2>3, <2>5, <1>t, StoreUpdate
    <3>. QED  BY <3>1, <3>2, <2>4
  <2>7. r \in BeatRequest /\ r.pc = "next"
    BY <1>r DEF BeatRequest
  <2>. HIDE DEF r
  <2>. QED  BY <2>5, <2>6, <2>7, <1>h
<1>7. CASE BeatReply(s)
  <2>. DEFINE r == [req[s] EXCEPT !.pc = "reply"]
  <2>1. r \in BeatRequest /\ r.kind = "beat" /\ r.pc = "reply"
    BY <1>r DEF BeatRequest
  <2>2. r \in Requests
    BY <2>1 DEF Requests
  <2>3. Answer(s, r) /\ StoreTypeOK'
    BY <1>7, <1>t, StoreStutter DEF BeatReply
  <2>. HIDE DEF r
  <2>. QED  BY <2>1, <2>2, <2>3, <1>k, EAStutter, AnswerStep
<1>. QED  BY <1>1, <1>2, <1>3, <1>4, <1>5, <1>6, <1>7

\* A request whose handler raised is a request.
LEMMA DeadRequest ==
  ASSUME NEW r \in Requests, r.pc \notin {"free", "reply", "dead"}
  PROVE  [r EXCEPT !.pc = "dead"] \in Requests
<1>1. CASE r \in PollRequest
  <2>1. [r EXCEPT !.pc = "dead"] \in PollRequest
    BY <1>1 DEF PollRequest
  <2>. QED  BY <2>1 DEF Requests
<1>2. CASE r \in AckRequest
  <2>1. [r EXCEPT !.pc = "dead"] \in AckRequest
    BY <1>2 DEF AckRequest
  <2>. QED  BY <2>1 DEF Requests
<1>3. CASE r \in BeatRequest
  <2>1. [r EXCEPT !.pc = "dead"] \in BeatRequest
    BY <1>3 DEF BeatRequest
  <2>. QED  BY <2>1 DEF Requests
<1>. QED  BY <1>1, <1>2, <1>3 DEF Requests, Free

\* A handler that raises preserves the type invariant.
LEMMA DeathTypes ==
  ASSUME TypeInv, NEW s \in Slots, UNCHANGED <<cb, ea>>, EATypeOK', HandlerDies(s)
  PROVE  TypeInv'
<1>. DEFINE r == [req[s] EXCEPT !.pc = "dead"]
<1>1. StoreTypeOK /\ req[s] \in Requests
  BY DEF TypeInv, TypeOK, BridgeTypeOK, Requests
<1>2. r \in Requests
  BY <1>1, DeadRequest DEF HandlerDies
<1>3. r.pc = "dead" /\ r.kind = req[s].kind
  BY <1>1 DEF HandlerDies, Requests, Free, PollRequest, AckRequest, BeatRequest
<1>4. Answer(s, r) /\ StoreTypeOK'
  BY <1>1, StoreStutter DEF HandlerDies
<1>. HIDE DEF r
<1>. QED  BY <1>2, <1>3, <1>4, AnswerStep


\* A callback that moves to a well-formed point preserves the type invariant.
LEMMA CallbackStep ==
  ASSUME TypeInv, NEW c \in Callbacks, UNCHANGED <<bridgeVars, eaVars>>, StoreTypeOK',
         NEW k \in Callback, cb' = [cb EXCEPT ![c] = k],
         k.pc \notin {"idle", "done"} => k.p \in Proposals,
         k.pc \in {"offer", "link", "linkWrite"} => k.p \in Replacements
  PROVE  TypeInv'
<1>. USE DEF TypeInv, TypeOK, OperatorTypeOK, BridgeTypeOK, EATypeOK,
             CallbackShape, HandlerShape, EAShape, eaVars, bridgeVars
<1>1. OperatorTypeOK'
  OBVIOUS
<1>2. CallbackShape'
  OBVIOUS
<1>3. EAShape' /\ HandlerShape' /\ BridgeTypeOK' /\ EATypeOK'
  OBVIOUS
<1>. QED  BY <1>1, <1>2, <1>3

\* A callback that returns preserves it.
LEMMA ReturnStep ==
  ASSUME TypeInv, NEW c \in Callbacks, UNCHANGED <<bridgeVars, eaVars>>, StoreTypeOK',
         Return(c)
  PROVE  TypeInv'
<1>1. Done \in Callback /\ Done.pc = "done"
  BY DocumentTypes DEF Done, Idle, Callback, CallbackPoints
<1>2. cb' = [cb EXCEPT ![c] = Done]
  BY DEF Return
<1>. QED  BY <1>1, <1>2, CallbackStep

\* A callback that begins on a proposal preserves it.
LEMMA BeginStep ==
  ASSUME TypeInv, NEW c \in Callbacks, UNCHANGED <<bridgeVars, eaVars>>, StoreTypeOK',
         NEW pc \in {"gate", "offer", "supersede"}, NEW p \in Proposals,
         NEW view \in ProposalDoc, Begin(c, pc, p, view),
         pc = "offer" => p \in Replacements
  PROVE  TypeInv'
<1>. DEFINE k == [pc |-> pc, p |-> p, view |-> view]
<1>1. k \in Callback
  BY DEF Callback, CallbackPoints
<1>2. cb' = [cb EXCEPT ![c] = k]
  BY DEF Begin
<1>. QED  BY <1>1, <1>2, CallbackStep

\* A callback that goes on with another view preserves it.
LEMMA MoveStep ==
  ASSUME TypeInv, NEW c \in Callbacks, UNCHANGED <<bridgeVars, eaVars>>, StoreTypeOK',
         cb[c].p \in Proposals, NEW pc \in CallbackPoints, NEW view \in ProposalDoc,
         cb' = [cb EXCEPT ![c].pc = pc, ![c].view = view],
         pc \in {"offer", "link", "linkWrite"} => cb[c].p \in Replacements
  PROVE  TypeInv'
<1>. DEFINE k == [cb[c] EXCEPT !.pc = pc, !.view = view]
<1>1. k \in Callback /\ k.p = cb[c].p /\ k.pc = pc
  BY DEF TypeInv, TypeOK, OperatorTypeOK, Callback
<1>2. cb' = [cb EXCEPT ![c] = k]
  OBVIOUS
<1>. HIDE DEF k
<1>. QED  BY <1>1, <1>2, CallbackStep

\* A callback that goes on with the view it has preserves it.
LEMMA ContinueStep ==
  ASSUME TypeInv, NEW c \in Callbacks, UNCHANGED <<bridgeVars, eaVars>>, StoreTypeOK',
         cb[c].p \in Proposals, NEW pc \in CallbackPoints, Continue(c, pc),
         pc \in {"offer", "link", "linkWrite"} => cb[c].p \in Replacements
  PROVE  TypeInv'
<1>. DEFINE k == [cb[c] EXCEPT !.pc = pc]
<1>1. k \in Callback /\ k.p = cb[c].p /\ k.pc = pc
  BY DEF TypeInv, TypeOK, OperatorTypeOK, Callback
<1>2. cb' = [cb EXCEPT ![c] = k]
  BY DEF Continue
<1>. HIDE DEF k
<1>. QED  BY <1>1, <1>2, CallbackStep

\* A callback under way has a proposal and a document in hand.
LEMMA ViewTypes ==
  ASSUME TypeInv, NEW c \in Callbacks, cb[c].pc \notin {"idle", "done"}
  PROVE  /\ StoreTypeOK
         /\ cb[c].p \in Proposals
         /\ cb[c].view \in ProposalDoc
         /\ cb[c].view.ver \in Nat
         /\ prop[cb[c].p] \in ProposalDoc
         /\ cmd[cb[c].p] \in CommandDoc
BY DEF TypeInv, TypeOK, OperatorTypeOK, CallbackShape, Callback, ProposalDoc, StoreTypeOK

\* A write of the document in hand keeps the type of the store.
LEMMA PutViewTypes ==
  ASSUME TypeInv, NEW c \in Callbacks, cb[c].pc \notin {"idle", "done"},
         NEW doc \in ProposalDoc, PutView(c, doc), UNCHANGED restOfStore
  PROVE  StoreTypeOK'
<1>. DEFINE p == cb[c].p
            v == cb[c].view.ver
<1>1. p \in Proposals /\ v \in Nat /\ StoreTypeOK
  BY ViewTypes
<1>2. Put(p, v, doc) /\ UNCHANGED <<cmd, killed, fresh, expired, lapsed>>
  BY DEF PutView, restOfStore
<1>. HIDE DEF p, v
<1>. QED  BY <1>1, <1>2, StorePut

\* A callback that goes on with the document it wrote preserves the invariant.
LEMMA ContinueWithStep ==
  ASSUME TypeInv, NEW c \in Callbacks, UNCHANGED <<bridgeVars, eaVars>>, StoreTypeOK',
         cb[c].pc \notin {"idle", "done"}, NEW pc \in CallbackPoints,
         NEW doc \in ProposalDoc, ContinueWith(c, pc, doc),
         pc \notin {"offer", "link", "linkWrite"}
  PROVE  TypeInv'
<1>. DEFINE view == [doc EXCEPT !.ver = cb[c].view.ver + 1]
<1>1. view \in ProposalDoc
  BY ViewTypes, DocVer
<1>2. cb' = [cb EXCEPT ![c].pc = pc, ![c].view = view]
  BY DEF ContinueWith
<1>. HIDE DEF view
<1>. QED  BY <1>1, <1>2, ViewTypes, MoveStep

\* The steps of approve preserve the type invariant.
LEMMA ApproveTypes ==
  ASSUME TypeInv, NEW c \in Callbacks, UNCHANGED <<bridgeVars, eaVars>>,
         \/ ApproveExpired(c) \/ ApproveGate(c) \/ ApproveBlocked(c)
         \/ ApproveQuote(c) \/ ApproveInvalidates(c) \/ ApproveRecheck(c)
         \/ ApproveClaim(c) \/ ApproveSaveCommand(c) \/ ApproveQueue(c)
  PROVE  TypeInv'
<1>. DEFINE v == cb[c].view
<1>a. cb[c].pc \notin {"idle", "done"}
  BY DEF ApproveExpired, ApproveGate, ApproveBlocked, ApproveQuote, ApproveInvalidates,
         ApproveRecheck, ApproveClaim, ApproveSaveCommand, ApproveQueue
<1>v. /\ StoreTypeOK /\ v \in ProposalDoc /\ cb[c].p \in Proposals
  BY <1>a, ViewTypes
<1>s. ASSUME UNCHANGED storeVars PROVE StoreTypeOK'
  BY <1>s, <1>v, StoreStutter
<1>1. CASE ApproveExpired(c)
  <2>1. [v EXCEPT !.status = "expired", !.life = "EXPIRED"] \in ProposalDoc
    BY <1>v DEF ProposalDoc, ProposalStatus, Lifecycle
  <2>. QED  BY <2>1, <1>1, <1>a, PutViewTypes, ReturnStep DEF ApproveExpired
<1>2. CASE ApproveGate(c)
  <2>1. StoreTypeOK' /\ Continue(c, "quote") /\ "quote" \in CallbackPoints
    BY <1>2, <1>s DEF ApproveGate, CallbackPoints
  <2>. QED  BY <2>1, <1>v, ContinueStep
<1>3. CASE ApproveBlocked(c)
  <2>1. [v EXCEPT !.life = "APPROVAL_BLOCKED"] \in ProposalDoc
    BY <1>v DEF ProposalDoc, ProposalStatus, Lifecycle
  <2>. QED  BY <2>1, <1>3, <1>a, PutViewTypes, ReturnStep DEF ApproveBlocked
<1>4. CASE ApproveQuote(c)
  <2>0. "validate" \in CallbackPoints
    BY DEF CallbackPoints
  <2>1. CASE EntryPolicy(cb[c].p)
    <3>1. PICK otype \in {v.otype, "pending"} :
            /\ PutView(c, [v EXCEPT !.otype = otype])
            /\ ContinueWith(c, "validate", [v EXCEPT !.otype = otype])
      BY <1>4, <2>1 DEF ApproveQuote
    <3>. DEFINE doc == [v EXCEPT !.otype = otype]
    <3>2. doc \in ProposalDoc
      BY <1>v DEF ProposalDoc, OrderTypes
    <3>3. PutView(c, doc) /\ ContinueWith(c, "validate", doc)
      BY <3>1
    <3>4. UNCHANGED restOfStore
      BY <1>4 DEF ApproveQuote
    <3>. HIDE DEF doc
    <3>5. StoreTypeOK'
      BY <3>2, <3>3, <3>4, <1>a, PutViewTypes
    <3>. QED  BY <3>2, <3>3, <3>5, <2>0, <1>a, ContinueWithStep
  <2>2. CASE ~EntryPolicy(cb[c].p)
    <3>1. Continue(c, "validate") /\ UNCHANGED storeVars
      BY <1>4, <2>2 DEF ApproveQuote, restOfStore, storeVars
    <3>. QED  BY <3>1, <2>0, <1>s, <1>v, ContinueStep
  <2>. QED  BY <2>1, <2>2
<1>5. CASE ApproveInvalidates(c)
  <2>1. PICK tolerance \in BOOLEAN :
          PutView(c, [v EXCEPT !.status = "invalidated", !.life = "INVALIDATED",
                               !.elig = tolerance])
    BY <1>5 DEF ApproveInvalidates
  <2>2. [v EXCEPT !.status = "invalidated", !.life = "INVALIDATED", !.elig = tolerance]
          \in ProposalDoc
    BY <1>v DEF ProposalDoc, ProposalStatus, Lifecycle
  <2>. QED  BY <2>1, <2>2, <1>5, <1>a, PutViewTypes, ReturnStep DEF ApproveInvalidates
<1>6. CASE ApproveRecheck(c)
  <2>1. StoreTypeOK' /\ Continue(c, "claim") /\ "claim" \in CallbackPoints
    BY <1>6, <1>s DEF ApproveRecheck, CallbackPoints
  <2>. QED  BY <2>1, <1>v, ContinueStep
<1>7. CASE ApproveClaim(c)
  <2>. DEFINE doc == [v EXCEPT !.status = "approved", !.life = "APPROVAL_CLAIMED",
                               !.approved = TRUE]
  <2>1. doc \in ProposalDoc
    BY <1>v DEF ProposalDoc, ProposalStatus, Lifecycle
  <2>2. PutView(c, doc) /\ ContinueWith(c, "save", doc) /\ UNCHANGED restOfStore
    BY <1>7 DEF ApproveClaim
  <2>3. "save" \in CallbackPoints
    BY DEF CallbackPoints
  <2>. HIDE DEF doc
  <2>4. StoreTypeOK'
    BY <2>1, <2>2, <1>a, PutViewTypes
  <2>. QED  BY <2>1, <2>2, <2>3, <2>4, <1>a, ContinueWithStep
<1>8. CASE ApproveSaveCommand(c)
  <2>. DEFINE p == cb[c].p
  <2>1. cmd' = [cmd EXCEPT ![p] = NewCommand] /\ UNCHANGED <<prop, killed, fresh, expired, lapsed>>
        /\ Continue(c, "queue")
    BY <1>8 DEF ApproveSaveCommand
  <2>2. StoreTypeOK'
    <3>1. p \in Proposals
      BY <1>v
    <3>. HIDE DEF p
    <3>. QED  BY <2>1, <3>1, <1>v, DocumentTypes, StoreCommand
  <2>3. "queue" \in CallbackPoints
    BY DEF CallbackPoints
  <2>. QED  BY <2>1, <2>2, <2>3, <1>v, ContinueStep
<1>9. CASE ApproveQueue(c)
  <2>1. [v EXCEPT !.status = "command_created", !.life = "EXECUTION_QUEUED"] \in ProposalDoc
    BY <1>v DEF ProposalDoc, ProposalStatus, Lifecycle
  <2>. QED  BY <2>1, <1>9, <1>a, PutViewTypes, ReturnStep DEF ApproveQueue
<1>. QED  BY <1>1, <1>2, <1>3, <1>4, <1>5, <1>6, <1>7, <1>8, <1>9

\* The steps of create_limit_replacement and of a supersession preserve it.
LEMMA OfferTypes ==
  ASSUME TypeInv, NEW c \in Callbacks, UNCHANGED <<bridgeVars, eaVars>>,
         \/ OfferCreate(c) \/ OfferLinkRead(c) \/ OfferLinkWrite(c)
         \/ SupersedeWrite(c) \/ CallbackEnds(c)
  PROVE  TypeInv'
<1>. DEFINE v == cb[c].view
            r == cb[c].p
            o == OriginOf[r]
<1>a. cb[c].pc \notin {"idle", "done"}
  BY DEF OfferCreate, OfferLinkRead, OfferLinkWrite, SupersedeWrite, CallbackEnds
<1>v. StoreTypeOK /\ v \in ProposalDoc /\ r \in Proposals /\ v.ver \in Nat
  BY <1>a, ViewTypes
<1>o. cb[c].pc \in {"offer", "link", "linkWrite"} =>
        r \in Replacements /\ o \in Proposals /\ prop[o] \in ProposalDoc
  BY <1>v, StoreAssumption DEF TypeInv, CallbackShape, Proposals, StoreTypeOK
<1>p. {"link", "linkWrite"} \subseteq CallbackPoints
  BY DEF CallbackPoints
<1>1. CASE OfferCreate(c)
  <2>1. StoreTypeOK'
    <3>1. CASE v.status # "absent"
      BY <3>1, <1>1, <1>a, <1>v, PutViewTypes DEF OfferCreate
    <3>2. CASE v.status = "absent" /\ prop[r].status = "absent"
      BY <3>2, <1>1, <1>v, DocumentTypes DEF OfferCreate, StoreTypeOK, restOfStore
    <3>3. CASE v.status = "absent" /\ prop[r].status # "absent"
      BY <3>3, <1>1, <1>v DEF OfferCreate, StoreTypeOK, restOfStore
    <3>. QED  BY <3>1, <3>2, <3>3
  <2>. QED  BY <2>1, <1>1, <1>v, <1>o, <1>p, ContinueStep DEF OfferCreate
<1>2. CASE OfferLinkRead(c)
  <2>1. StoreTypeOK'
    BY <1>2, <1>v, StoreStutter DEF OfferLinkRead
  <2>2. CASE prop[o].link
    BY <2>1, <2>2, <1>2, ReturnStep DEF OfferLinkRead
  <2>3. CASE ~prop[o].link
    <3>. DEFINE d == prop[o]
    <3>1. cb' = [cb EXCEPT ![c].pc = "linkWrite", ![c].view = d]
      BY <1>2, <2>3 DEF OfferLinkRead
    <3>2. d \in ProposalDoc /\ r \in Replacements
      BY <1>2, <1>o DEF OfferLinkRead
    <3>. HIDE DEF d
    <3>. QED  BY <3>1, <3>2, <2>1, <1>v, <1>p, MoveStep
  <2>. QED  BY <2>2, <2>3
<1>3. CASE OfferLinkWrite(c)
  <2>0. r \in Replacements /\ o \in Proposals
    BY <1>3, <1>o DEF OfferLinkWrite
  <2>1. CASE prop[o].ver = v.ver
    <3>. DEFINE doc == [v EXCEPT !.link = TRUE]
                n == v.ver
    <3>1. doc \in ProposalDoc
      BY <1>v DEF ProposalDoc
    <3>2. Put(o, n, doc) /\ Return(c) /\ UNCHANGED <<cmd, killed, fresh, expired, lapsed>>
      BY <1>3, <2>1 DEF OfferLinkWrite, restOfStore
    <3>3. StoreTypeOK'
      <4>1. n \in Nat
        BY <1>v
      <4>. HIDE DEF doc, o, n
      <4>. QED  BY <4>1, <3>1, <3>2, <2>0, <1>v, StorePut
    <3>. QED  BY <3>2, <3>3, ReturnStep
  <2>2. CASE prop[o].ver # v.ver
    <3>1. Continue(c, "link") /\ StoreTypeOK'
      BY <1>3, <2>2, <1>v DEF OfferLinkWrite, StoreTypeOK, restOfStore
    <3>. QED  BY <3>1, <2>0, <1>v, <1>p, ContinueStep
  <2>. QED  BY <2>1, <2>2
<1>4. CASE SupersedeWrite(c)
  <2>. DEFINE doc == [prop[r] EXCEPT !.status = "invalidated", !.life = "INVALIDATED",
                                     !.superseded = TRUE]
  <2>1. doc \in ProposalDoc
    <3>1. prop[r] \in ProposalDoc
      BY <1>v DEF StoreTypeOK
    <3>. QED  BY <3>1 DEF ProposalDoc, ProposalStatus, Lifecycle
  <2>2. UpdateProposal(r, doc) /\ Return(c) /\ UNCHANGED <<cmd, killed, fresh, expired, lapsed>>
    BY <1>4 DEF SupersedeWrite, restOfStore
  <2>3. StoreTypeOK'
    <3>1. r \in Proposals
      BY <1>v
    <3>. HIDE DEF doc, r
    <3>. QED  BY <3>1, <2>1, <2>2, <1>v, StoreUpdate
  <2>. QED  BY <2>2, <2>3, ReturnStep
<1>5. CASE CallbackEnds(c)
  BY <1>5, <1>v, StoreStutter, ReturnStep DEF CallbackEnds
<1>. QED  BY <1>1, <1>2, <1>3, <1>4, <1>5

\* The first step of a callback, and reject, preserve the type invariant.
LEMMA StartTypes ==
  ASSUME TypeInv, NEW c \in Callbacks, UNCHANGED <<bridgeVars, eaVars>>, CallbackStarts(c)
  PROVE  TypeInv'
<1>1. PICK p \in Proposals :
        ApproveRead(c, p) \/ Reject(c, p) \/ OfferRead(c, p) \/ SupersedeList(c, p)
  BY DEF CallbackStarts
<1>v. StoreTypeOK /\ prop[p] \in ProposalDoc
  BY DEF TypeInv, TypeOK, StoreTypeOK
<1>s. ASSUME UNCHANGED storeVars PROVE StoreTypeOK'
  BY <1>s, <1>v, StoreStutter
<1>2. CASE ApproveRead(c, p)
  BY <1>2, <1>v, <1>s, BeginStep DEF ApproveRead
<1>3. CASE Reject(c, p)
  <2>. DEFINE doc == [prop[p] EXCEPT !.status = "rejected", !.life = "REJECTED",
                                     !.rejected = TRUE]
  <2>1. doc \in ProposalDoc
    BY <1>v DEF ProposalDoc, ProposalStatus, Lifecycle
  <2>2. UpdateProposal(p, doc) /\ Return(c) /\ UNCHANGED <<cmd, killed, fresh, expired, lapsed>>
    BY <1>3 DEF Reject, restOfStore
  <2>3. StoreTypeOK'
    <3>. HIDE DEF doc
    <3>. QED  BY <2>1, <2>2, <1>v, StoreUpdate
  <2>. QED  BY <2>2, <2>3, ReturnStep
<1>4. CASE OfferRead(c, p)
  BY <1>4, <1>v, <1>s, BeginStep DEF OfferRead
<1>5. CASE SupersedeList(c, p)
  BY <1>5, <1>v, <1>s, BeginStep, DocumentTypes DEF SupersedeList
<1>. QED  BY <1>1, <1>2, <1>3, <1>4, <1>5

\* So does every step of the operator's side.
LEMMA OperatorTypes ==
  ASSUME TypeInv, OperatorNext, UNCHANGED <<bridgeVars, eaVars>>
  PROVE  TypeInv'
BY ApproveTypes, OfferTypes, StartTypes DEF OperatorNext, CallbackProceeds


\* The requests the EA sends are requests at the start of their handlers.
LEMMA NewRequests ==
  /\ \A orders, positions \in SUBSET Proposals :
       LET r == NewBeat(orders, positions) IN
         r \in Requests /\ r.kind = "beat" /\ r.pc = "start"
  /\ NewPoll \in Requests /\ NewPoll.kind = "poll" /\ NewPoll.pc = "start"
  /\ \A msg \in Ack :
       LET r == NewAck(msg) IN
         r \in Requests /\ r.kind = "ack" /\ r.pc = "start"
<1>1. ASSUME NEW orders \in SUBSET Proposals, NEW positions \in SUBSET Proposals
      PROVE  NewBeat(orders, positions) \in BeatRequest
  BY DEF NewBeat, BeatRequest, Lifecycle
<1>2. NewPoll \in PollRequest
  BY DEF NewPoll, PollRequest
<1>3. ASSUME NEW msg \in Ack PROVE NewAck(msg) \in AckRequest
  BY DocumentTypes DEF NewAck, AckRequest
<1>. QED  BY <1>1, <1>2, <1>3 DEF Requests, NewBeat, NewPoll, NewAck

\* What the EA sends waits at the start of its handler.
LEMMA SendStep ==
  ASSUME TypeInv, NEW s \in Slots, NEW r \in Requests, r.pc = "start", Send(s, r),
         UNCHANGED <<storeVars, cb>>, EATypeOK',
         ea'.pc \notin {"submit", "record"},
         \/ ea'.pc = "beating" /\ r.kind = "beat"
         \/ ea'.pc = "polling" /\ r.kind = "poll"
         \/ ea'.pc = "acking" /\ r.kind = "ack"
  PROVE  TypeInv'
<1>1. StoreTypeOK'
  BY StoreStutter DEF TypeInv, TypeOK
<1>2. BridgeTypeOK'
  BY DEF TypeInv, TypeOK, BridgeTypeOK, Send, Requests
<1>3. HandlerShape'
  BY DEF TypeInv, TypeOK, HandlerShape, BridgeTypeOK, Send
<1>4. EAShape'
  <2>1. waiting' = s /\ req'[s] = r
    BY DEF Send, TypeInv, TypeOK, BridgeTypeOK
  <2>. QED  BY <2>1 DEF EAShape
<1>5. OperatorTypeOK' /\ CallbackShape'
  BY DEF TypeInv, TypeOK, OperatorTypeOK, CallbackShape
<1>. QED  BY <1>1, <1>2, <1>3, <1>4, <1>5 DEF TypeInv, TypeOK

\* Requests at most freed, the EA waiting for none.
LEMMA FreeStep ==
  ASSUME TypeInv, UNCHANGED <<storeVars, cb>>, EATypeOK',
         NEW s \in Slots,
         req' = [req EXCEPT ![s] = Free] \/ req' = req,
         waiting' = "none", ea'.pc \notin {"submit", "record"}
  PROVE  TypeInv'
<1>1. StoreTypeOK'
  BY StoreStutter DEF TypeInv, TypeOK
<1>2. BridgeTypeOK'
  BY DEF TypeInv, TypeOK, BridgeTypeOK
<1>3. HandlerShape'
  BY DEF TypeInv, TypeOK, HandlerShape, BridgeTypeOK, Free
<1>4. EAShape'
  BY SlotAssumption DEF EAShape
<1>5. OperatorTypeOK' /\ CallbackShape'
  BY DEF TypeInv, TypeOK, OperatorTypeOK, CallbackShape
<1>. QED  BY <1>1, <1>2, <1>3, <1>4, <1>5 DEF TypeInv, TypeOK

\* The idle EA and one with commands left to run are states of the EA.
LEMMA EAFields ==
  /\ EAIdle \in EAState /\ EAIdle.pc = "idle"
  /\ \A q \in SUBSET Proposals :
       Resume(q) \in EAState /\ Resume(q).pc \in {"idle", "run"}
BY DEF EAIdle, EAState, Resume, Outcomes

\* So are the EA about to submit, and one that acknowledges.
LEMMA EARecord ==
  ASSUME ea \in EAState, NEW p \in Proposals
  PROVE  /\ [ea EXCEPT !.pc = "submit", !.at = p] \in EAState
         /\ [ea EXCEPT !.pc = "acking", !.queue = @ \ {p}, !.at = "none",
                       !.result = "none", !.ticket = FALSE] \in EAState
BY DEF EAState, Outcomes

\* JournalAppend keeps the journal a journal.
LEMMA JournalTypes ==
  ASSUME EATypeOK, NEW p \in Proposals, NEW t \in BOOLEAN,
         NEW status \in {"rejected", "broker_uncertain", "reconciled"},
         JournalAppend(p, status, t)
  PROVE  journal' \in [Proposals -> JournalRecord] /\ faults' \in 0..MaxFaults
<1>1. faults' \in 0..MaxFaults
  BY EAAssumption DEF EATypeOK, JournalAppend, Fault
<1>2. [status |-> status, ticket |-> t] \in JournalRecord
  BY DEF JournalRecord
<1>3. journal' \in [Proposals -> JournalRecord]
  BY <1>2 DEF EATypeOK, JournalAppend
<1>. QED  BY <1>1, <1>3

\* The request loop of OnTimer.
LEMMA TimerTypes ==
  ASSUME TypeInv, UNCHANGED cb,
         \/ \E s \in Slots : SendHeartbeat(s) \/ PollCommands(s)
         \/ HeartbeatAnswered \/ PollAnswered \/ AckAnswered
  PROVE  TypeInv'
<1>t. EATypeOK /\ ea \in EAState
  BY DEF TypeInv, TypeOK, EATypeOK
<1>e. ASSUME ea' \in EAState, UNCHANGED <<journal, marked, live, placed, faults>>
      PROVE  EATypeOK'
  BY <1>t, <1>e DEF EATypeOK
<1>f. ASSUME Take, UNCHANGED storeVars, EATypeOK', ea'.pc \notin {"submit", "record"}
      PROVE  TypeInv'
  BY <1>f, FreeStep DEF Take
<1>1. ASSUME NEW s \in Slots, SendHeartbeat(s) PROVE TypeInv'
  <2>. DEFINE r == NewBeat({p \in Proposals : live[p] = "order"},
                           {p \in Proposals : live[p] = "position"})
  <2>1. r \in Requests /\ r.kind = "beat" /\ r.pc = "start"
    BY NewRequests
  <2>2. ea' = [ea EXCEPT !.pc = "beating"] /\ Send(s, r) /\ UNCHANGED storeVars
    BY <1>1 DEF SendHeartbeat
  <2>3. ea' \in EAState /\ ea'.pc = "beating"
    BY <2>2, <1>t DEF EAState
  <2>4. EATypeOK'
    BY <1>1, <2>3, <1>e DEF SendHeartbeat
  <2>. HIDE DEF r
  <2>. QED  BY <2>1, <2>2, <2>3, <2>4, SendStep
<1>2. ASSUME NEW s \in Slots, PollCommands(s) PROVE TypeInv'
  <2>1. ea' = [ea EXCEPT !.pc = "polling"] /\ Send(s, NewPoll) /\ UNCHANGED storeVars
    BY <1>2 DEF PollCommands
  <2>2. ea' \in EAState /\ ea'.pc = "polling"
    BY <2>1, <1>t DEF EAState
  <2>3. EATypeOK'
    BY <1>2, <2>2, <1>e DEF PollCommands
  <2>. QED  BY <2>1, <2>2, <2>3, NewRequests, SendStep
<1>3. CASE HeartbeatAnswered
  <2>1. ea' \in EAState /\ ea'.pc = "poll"
    BY <1>3, <1>t DEF HeartbeatAnswered, EAState
  <2>2. EATypeOK'
    BY <1>3, <2>1, <1>e DEF HeartbeatAnswered
  <2>. QED  BY <2>1, <2>2, <1>3, <1>f DEF HeartbeatAnswered
<1>4. CASE PollAnswered
  <2>. DEFINE q == IF req[waiting].pc = "reply" THEN req[waiting].out ELSE {}
  <2>1. req[waiting] \in Requests /\ req[waiting].kind = "poll"
    <3>1. waiting \in Slots /\ ea.pc = "polling"
      BY <1>4 DEF PollAnswered, Take
    <3>. QED  BY <3>1 DEF TypeInv, TypeOK, BridgeTypeOK, EAShape, Requests
  <2>2. req[waiting] \in PollRequest
    BY <2>1, RequestKinds
  <2>3. q \in SUBSET Proposals
    BY <2>2 DEF PollRequest
  <2>4. ea' = Resume(q)
    BY <1>4 DEF PollAnswered
  <2>. HIDE DEF q
  <2>5. EATypeOK' /\ ea'.pc \in {"idle", "run"}
    BY <2>3, <2>4, <1>4, <1>e, EAFields DEF PollAnswered
  <2>. QED  BY <2>5, <1>4, <1>f DEF PollAnswered
<1>5. CASE AckAnswered
  <2>. DEFINE q == ea.queue
  <2>1. q \in SUBSET Proposals
    BY <1>t DEF EAState
  <2>2. ea' = Resume(q)
    BY <1>5 DEF AckAnswered
  <2>. HIDE DEF q
  <2>3. EATypeOK' /\ ea'.pc \in {"idle", "run"}
    BY <2>1, <2>2, <1>5, <1>e, EAFields DEF AckAnswered
  <2>. QED  BY <2>3, <1>5, <1>f DEF AckAnswered
<1>. QED  BY <1>1, <1>2, <1>3, <1>4, <1>5

\* ExecuteCommand ends by acknowledging what it did.
LEMMA AckStep ==
  ASSUME TypeInv, UNCHANGED <<storeVars, cb, live, placed>>, NEW s \in Slots, NEW p \in Proposals,
         NEW status \in {"rejected", "broker_uncertain", "reconciled"}, NEW ticket \in BOOLEAN,
         NEW retcode \in Retcodes, NEW attempted \in {"yes", "no"},
         NEW text \in {"price", "replay", "other"},
         SendAck(s, p, status, ticket, retcode, attempted, text), Acking(p),
         journal' \in [Proposals -> JournalRecord], faults' \in 0..MaxFaults,
         marked' \subseteq Proposals
  PROVE  TypeInv'
<1>. DEFINE msg == [p |-> p, status |-> status, ticket |-> ticket, retcode |-> retcode,
                    attempted |-> attempted, text |-> text]
            r == NewAck(msg)
<1>1. msg \in Ack
  BY DEF Ack
<1>2. r \in Requests /\ r.kind = "ack" /\ r.pc = "start"
  <2>. HIDE DEF msg
  <2>. QED  BY <1>1, NewRequests
<1>3. Send(s, r)
  BY DEF SendAck
<1>4. ea \in EAState /\ EATypeOK
  BY DEF TypeInv, TypeOK, EATypeOK
<1>5. ea' \in EAState
  BY <1>4, EARecord DEF Acking
<1>6. ea'.pc = "acking"
  BY <1>4 DEF Acking, EAState
<1>7. EATypeOK'
  BY <1>4, <1>5 DEF EATypeOK
<1>. HIDE DEF r
<1>. QED  BY <1>2, <1>3, <1>6, <1>7, SendStep

\* The steps of ExecuteCommand that acknowledge preserve the type invariant.
LEMMA ExecuteTypes ==
  ASSUME TypeInv, UNCHANGED cb, NEW s \in Slots,
         \/ \E p \in Proposals :
              ExecuteReplay(s, p) \/ ExecuteRefuse(s, p) \/ ExecuteUnprepared(s, p)
         \/ Record(s)
  PROVE  TypeInv'
<1>t. EATypeOK /\ ea \in EAState
  BY DEF TypeInv, TypeOK, EATypeOK
<1>1. ASSUME NEW p \in Proposals, ExecuteReplay(s, p) PROVE TypeInv'
  <2>. DEFINE st == journal[p].status
              t == journal[p].ticket
  <2>1. st \in {"rejected", "broker_uncertain", "reconciled"} /\ t \in BOOLEAN
    BY <1>1, <1>t DEF ExecuteReplay, EATypeOK, JournalRecord
  <2>2. SendAck(s, p, st, t, "none", "no", "replay") /\ Acking(p)
        /\ UNCHANGED <<storeVars, journal, marked, live, placed, faults>>
    BY <1>1 DEF ExecuteReplay
  <2>3. "none" \in Retcodes
    BY DEF Retcodes
  <2>4. journal' \in [Proposals -> JournalRecord] /\ faults' \in 0..MaxFaults
        /\ marked' \subseteq Proposals
    BY <2>2, <1>t DEF EATypeOK
  <2>. HIDE DEF st, t
  <2>. QED  BY <2>1, <2>2, <2>3, <2>4, AckStep
<1>2. ASSUME NEW p \in Proposals, ExecuteRefuse(s, p) PROVE TypeInv'
  <2>1. PICK text \in {"price", "other"} :
          SendAck(s, p, "rejected", FALSE, "none", "no", text)
    BY <1>2 DEF ExecuteRefuse
  <2>2. JournalAppend(p, "rejected", FALSE) /\ Acking(p)
        /\ UNCHANGED <<storeVars, marked, live, placed>>
    BY <1>2 DEF ExecuteRefuse
  <2>3. "none" \in Retcodes
    BY DEF Retcodes
  <2>4. journal' \in [Proposals -> JournalRecord] /\ faults' \in 0..MaxFaults
        /\ marked' \subseteq Proposals
    BY <2>2, <1>t, JournalTypes DEF EATypeOK
  <2>. QED  BY <2>1, <2>2, <2>3, <2>4, AckStep
<1>3. ASSUME NEW p \in Proposals, ExecuteUnprepared(s, p) PROVE TypeInv'
  <2>2. SendAck(s, p, "rejected", FALSE, "none", "no", "other") /\ Acking(p)
        /\ UNCHANGED <<storeVars, journal, live, placed, faults>>
        /\ marked' \in {marked, marked \cup {p}}
    BY <1>3 DEF ExecuteUnprepared
  <2>3. "none" \in Retcodes
    BY DEF Retcodes
  <2>4. journal' \in [Proposals -> JournalRecord] /\ faults' \in 0..MaxFaults
        /\ marked' \subseteq Proposals
    BY <2>2, <1>t DEF EATypeOK
  <2>. QED  BY <2>2, <2>3, <2>4, AckStep
<1>4. CASE Record(s)
  <2>. DEFINE p == ea.at
              st == ResultStatus(ea.result)
              t == ea.ticket
              rc == ea.result
  <2>1. p \in Proposals
    BY <1>4 DEF Record, TypeInv, EAShape
  <2>2. rc \in Retcodes /\ t \in BOOLEAN
    BY <1>t DEF EAState, Outcomes, Retcodes
  <2>3. st \in {"rejected", "broker_uncertain", "reconciled"}
    BY DEF ResultStatus
  <2>4. JournalAppend(p, st, t) /\ SendAck(s, p, st, t, rc, "yes", "other") /\ Acking(p)
        /\ UNCHANGED <<storeVars, marked, live, placed>>
    BY <1>4 DEF Record
  <2>. HIDE DEF p, st, t, rc
  <2>5. journal' \in [Proposals -> JournalRecord] /\ faults' \in 0..MaxFaults
        /\ marked' \subseteq Proposals
    BY <2>1, <2>2, <2>3, <2>4, <1>t, JournalTypes DEF EATypeOK
  <2>. QED  BY <2>1, <2>2, <2>3, <2>4, <2>5, AckStep
<1>. QED  BY <1>1, <1>2, <1>3, <1>4

\* The steps at which the EA neither sends nor receives.
LEMMA EAInternal ==
  ASSUME TypeInv, UNCHANGED <<storeVars, cb, bridgeVars>>, EATypeOK',
         ea.pc \notin {"beating", "polling", "acking"} \/ ea' = ea,
         ea'.pc \in {"submit", "record"} => ea'.at \in Proposals
  PROVE  TypeInv'
<1>1. StoreTypeOK'
  BY StoreStutter DEF TypeInv, TypeOK
<1>2. BridgeTypeOK' /\ HandlerShape'
  BY DEF TypeInv, TypeOK, BridgeTypeOK, bridgeVars, HandlerShape
<1>3. EAShape'
  BY DEF TypeInv, EAShape, bridgeVars
<1>5. OperatorTypeOK' /\ CallbackShape'
  BY DEF TypeInv, TypeOK, OperatorTypeOK, CallbackShape
<1>. QED  BY <1>1, <1>2, <1>3, <1>5 DEF TypeInv, TypeOK

\* The other steps of ExecuteCommand and the broker's own preserve it.
LEMMA BrokerTypes ==
  ASSUME TypeInv, UNCHANGED cb,
         \/ \E p \in Proposals : ExecuteBegin(p) \/ BrokerMoves(p)
         \/ Submit
  PROVE  TypeInv'
<1>t. EATypeOK /\ ea \in EAState
  BY DEF TypeInv, TypeOK, EATypeOK
<1>1. ASSUME NEW p \in Proposals, ExecuteBegin(p) PROVE TypeInv'
  <2>1. JournalAppend(p, "broker_uncertain", FALSE) /\ UNCHANGED <<live, placed>>
        /\ ea' = [ea EXCEPT !.pc = "submit", !.at = p]
    BY <1>1 DEF ExecuteBegin
  <2>2. marked' \subseteq Proposals
    BY <1>1, <1>t DEF ExecuteBegin, EATypeOK
  <2>3. ea' \in EAState
    BY <2>1, <1>t, EARecord
  <2>4. ea'.at = p
    BY <2>1, <1>t DEF EAState
  <2>5. journal' \in [Proposals -> JournalRecord] /\ faults' \in 0..MaxFaults
    BY <2>1, <1>t, JournalTypes
  <2>6. EATypeOK'
    BY <2>1, <2>2, <2>3, <2>5, <1>t DEF EATypeOK
  <2>7. ea.pc = "run" /\ UNCHANGED <<storeVars, bridgeVars>>
    BY <1>1 DEF ExecuteBegin
  <2>. QED  BY <2>4, <2>6, <2>7, EAInternal
<1>2. ASSUME NEW p \in Proposals, BrokerMoves(p) PROVE TypeInv'
  <2>1. live' \in [Proposals -> LiveStates]
    BY <1>2, <1>t DEF BrokerMoves, EATypeOK, LiveStates
  <2>2. EATypeOK'
    BY <2>1, <1>2, <1>t DEF BrokerMoves, EATypeOK
  <2>3. ea' = ea /\ UNCHANGED <<storeVars, bridgeVars>>
    BY <1>2 DEF BrokerMoves
  <2>. QED  BY <2>2, <2>3, EAInternal DEF TypeInv, EAShape
<1>3. CASE Submit
  <2>. DEFINE p == ea.at
  <2>1. p \in Proposals
    BY <1>3 DEF Submit, TypeInv, EAShape
  <2>2. PICK result \in Outcomes \ {"none"}, taken \in BOOLEAN :
         /\ ea' = [ea EXCEPT !.pc = "record", !.result = result,
                             !.ticket = result \in {"done", "nofill"}]
         /\ IF taken
              THEN /\ placed' = [placed EXCEPT ![p] = @ + 1]
                   /\ live' = [live EXCEPT ![p] =
                        IF prop[p].otype = "market" THEN "position" ELSE "order"]
              ELSE UNCHANGED <<placed, live>>
    BY <1>3 DEF Submit
  <2>3. ea' \in EAState /\ ea'.at \in Proposals
    <3>. DEFINE t == result \in {"done", "nofill"}
    <3>1. t \in BOOLEAN
      OBVIOUS
    <3>2. ea' = [ea EXCEPT !.pc = "record", !.result = result, !.ticket = t]
      BY <2>2
    <3>. HIDE DEF t, p
    <3>3. ea' \in EAState /\ ea'.at = ea.at
      BY <3>1, <3>2, <1>t DEF EAState
    <3>. QED  BY <3>3, <2>1 DEF p
  <2>4. placed' \in [Proposals -> Nat] /\ live' \in [Proposals -> LiveStates]
    BY <2>1, <2>2, <1>t DEF EATypeOK, LiveStates
  <2>5. EATypeOK'
    BY <2>3, <2>4, <1>3, <1>t DEF Submit, EATypeOK
  <2>6. ea.pc = "submit" /\ UNCHANGED <<storeVars, bridgeVars>>
    BY <1>3 DEF Submit
  <2>. QED  BY <2>3, <2>5, <2>6, EAInternal
<1>. QED  BY <1>1, <1>2, <1>3

\* Time-outs, restarts and failing handlers preserve the type invariant.
LEMMA FaultTypes ==
  ASSUME TypeInv, UNCHANGED cb, EAFaults
  PROVE  TypeInv'
<1>t. EATypeOK /\ ea \in EAState /\ StoreTypeOK
  BY DEF TypeInv, TypeOK, EATypeOK
<1>f. ASSUME Fault PROVE faults' \in 0..MaxFaults
  BY <1>f, <1>t, EAAssumption DEF Fault, EATypeOK
<1>1. CASE RequestTimesOut
  <2>1. waiting \in Slots /\ ea.pc \in {"beating", "polling", "acking"}
    BY <1>1 DEF RequestTimesOut, TypeInv, EAShape
  <2>2. ea' \in EAState /\ ea'.pc \in {"poll", "idle", "run"}
    <3>1. ea.queue \in SUBSET Proposals
      BY <1>t DEF EAState
    <3>2. Resume(ea.queue) \in EAState /\ Resume(ea.queue).pc \in {"idle", "run"}
      BY <3>1, EAFields
    <3>3. [ea EXCEPT !.pc = "poll"] \in EAState /\ [ea EXCEPT !.pc = "poll"].pc = "poll"
      BY <1>t DEF EAState
    <3>4. ea' \in {[ea EXCEPT !.pc = "poll"], EAIdle, Resume(ea.queue)}
      BY <1>1 DEF RequestTimesOut
    <3>. QED  BY <3>2, <3>3, <3>4, EAFields
  <2>3. EATypeOK'
    BY <1>1, <2>2, <1>f, <1>t DEF RequestTimesOut, EATypeOK
  <2>4. req' = [req EXCEPT ![waiting] = Free] \/ req' = req
    BY <1>1, <2>1 DEF RequestTimesOut, TypeInv, TypeOK, BridgeTypeOK
  <2>5. waiting' = "none" /\ UNCHANGED storeVars
    BY <1>1 DEF RequestTimesOut
  <2>. QED  BY <2>1, <2>2, <2>3, <2>4, <2>5, FreeStep
<1>2. CASE EARestarts
  <2>1. ea' = EAIdle /\ waiting' = "none" /\ UNCHANGED storeVars
    BY <1>2 DEF EARestarts
  <2>2. EATypeOK'
    BY <1>2, <1>f, <1>t, EAFields DEF EARestarts, EATypeOK
  <2>3. CASE waiting \in Slots
    <3>1. req' = [req EXCEPT ![waiting] = Free] \/ req' = req
      BY <1>2 DEF EARestarts
    <3>. QED  BY <3>1, <2>1, <2>2, <2>3, EAFields, FreeStep
  <2>4. CASE waiting \notin Slots
    <3>1. bridgeVars' = bridgeVars
      BY <1>2, <2>1, <2>4 DEF EARestarts, bridgeVars, TypeInv, TypeOK, BridgeTypeOK
    <3>2. StoreTypeOK'
      BY <2>1, <1>t, StoreStutter
    <3>3. EAShape'
      BY <2>1, EAFields, SlotAssumption DEF EAShape
    <3>4. BridgeTypeOK' /\ HandlerShape' /\ OperatorTypeOK' /\ CallbackShape'
      BY <3>1 DEF TypeInv, TypeOK, BridgeTypeOK, bridgeVars, HandlerShape, OperatorTypeOK,
                  CallbackShape
    <3>. QED  BY <2>2, <3>2, <3>3, <3>4 DEF TypeInv, TypeOK
  <2>. QED  BY <2>3, <2>4
<1>3. CASE HeartbeatAges
  <2>1. EATypeOK' /\ StoreTypeOK'
    BY <1>3, <1>f, <1>t DEF HeartbeatAges, EATypeOK, StoreTypeOK
  <2>2. UNCHANGED <<cb, bridgeVars, ea>>
    BY <1>3 DEF HeartbeatAges
  <2>. QED  BY <2>1, <2>2 DEF TypeInv, TypeOK, BridgeTypeOK, bridgeVars, HandlerShape, EAShape,
                              OperatorTypeOK, CallbackShape
<1>4. ASSUME NEW s \in Slots, RequestFails(s) PROVE TypeInv'
  <2>1. EATypeOK' /\ UNCHANGED ea
    BY <1>4, <1>f, <1>t DEF RequestFails, EATypeOK
  <2>. QED  BY <2>1, <1>4, DeathTypes DEF RequestFails
<1>. QED  BY <1>1, <1>2, <1>3, <1>4 DEF EAFaults

\* The kill switch and the passing of deadlines preserve it.
LEMMA EnvironmentTypes ==
  ASSUME TypeInv, UNCHANGED <<cb, bridgeVars, eaVars>>, Environment
  PROVE  TypeInv'
<1>1. StoreTypeOK'
  <2>1. StoreTypeOK /\ Originals \subseteq Proposals
    BY DEF TypeInv, TypeOK, Proposals
  <2>2. CASE Kill \/ ResetKill
    BY <2>1, <2>2 DEF Kill, ResetKill, StoreTypeOK
  <2>3. ASSUME NEW o \in Originals, ProposalExpires(o) PROVE StoreTypeOK'
    BY <2>1, <2>3 DEF ProposalExpires, StoreTypeOK
  <2>4. ASSUME NEW p \in Proposals, CommandLapses(p) PROVE StoreTypeOK'
    BY <2>1, <2>4 DEF CommandLapses, StoreTypeOK
  <2>. QED  BY <2>2, <2>3, <2>4 DEF Environment
<1>. QED  BY <1>1 DEF TypeInv, TypeOK, BridgeTypeOK, bridgeVars, eaVars, EATypeOK, HandlerShape,
                      EAShape, OperatorTypeOK, CallbackShape

\* The initial states satisfy the type invariant.
LEMMA InitTypes == Init => TypeInv
<1>. SUFFICES ASSUME Init PROVE TypeInv
  OBVIOUS
<1>1. StoreTypeOK
  <2>1. prop \in [Proposals -> ProposalDoc]
    BY DocumentTypes DEF Init, StoreInit
  <2>2. cmd \in [Proposals -> CommandDoc]
    BY DocumentTypes DEF Init, StoreInit
  <2>. QED  BY <2>1, <2>2 DEF Init, StoreInit, StoreTypeOK
<1>2. OperatorTypeOK /\ CallbackShape
  <2>1. Idle \in Callback /\ Idle.pc = "idle"
    BY DocumentTypes DEF Idle, Callback, CallbackPoints
  <2>. QED  BY <2>1 DEF Init, OperatorInit, OperatorTypeOK, CallbackShape
<1>3. BridgeTypeOK /\ HandlerShape
  BY DEF Init, BridgeInit, BridgeTypeOK, HandlerShape, Free
<1>4. EATypeOK /\ EAShape
  <2>1. EATypeOK
    BY EAFields, EAAssumption DEF Init, EAInit, EATypeOK, NoRecord, JournalRecord, LiveStates
  <2>2. EAShape
    BY EAFields, SlotAssumption DEF Init, EAInit, BridgeInit, EAShape
  <2>. QED  BY <2>1, <2>2
<1>. QED  BY <1>1, <1>2, <1>3, <1>4 DEF TypeInv, TypeOK

\* Every step preserves the type invariant.
LEMMA NextTypes == TypeInv /\ [Next]_vars => TypeInv'
<1>. SUFFICES ASSUME TypeInv, [Next]_vars PROVE TypeInv'
  OBVIOUS
<1>1. ASSUME NEW s \in Slots, HandlerProceeds(s), UNCHANGED <<cb, eaVars>> PROVE TypeInv'
  BY <1>1, PollTypes, AckTypes, BeatTypes DEF HandlerProceeds
<1>2. CASE EASteps /\ UNCHANGED cb
  <2>1. CASE \/ \E s \in Slots : SendHeartbeat(s) \/ PollCommands(s)
             \/ HeartbeatAnswered \/ PollAnswered \/ AckAnswered
    BY <1>2, <2>1, TimerTypes
  <2>2. CASE \E s \in Slots :
               \/ \E p \in Proposals :
                    ExecuteReplay(s, p) \/ ExecuteRefuse(s, p) \/ ExecuteUnprepared(s, p)
               \/ Record(s)
    BY <1>2, <2>2, ExecuteTypes
  <2>3. CASE (\E p \in Proposals : ExecuteBegin(p)) \/ Submit
    BY <1>2, <2>3, BrokerTypes
  <2>. QED  BY <1>2, <2>1, <2>2, <2>3 DEF EASteps
<1>3. CASE OperatorNext /\ UNCHANGED <<bridgeVars, eaVars>>
  BY <1>3, OperatorTypes
<1>4. CASE Environment /\ UNCHANGED <<cb, bridgeVars, eaVars>>
  BY <1>4, EnvironmentTypes
<1>5. CASE EAFaults /\ UNCHANGED cb
  BY <1>5, FaultTypes
<1>6. CASE \E p \in Proposals : BrokerMoves(p) /\ UNCHANGED cb
  BY <1>6, BrokerTypes
<1>7. CASE UNCHANGED vars
  BY <1>7 DEF vars, storeVars, bridgeVars, eaVars, TypeInv, TypeOK, StoreTypeOK, OperatorTypeOK,
              BridgeTypeOK, EATypeOK, CallbackShape, HandlerShape, EAShape
<1>. QED  BY <1>1, <1>2, <1>3, <1>4, <1>5, <1>6, <1>7 DEF Next

\* The typing and the shapes of callbacks, handlers and EA hold in every state.
THEOREM TypeInvariant == Spec => []TypeInv
BY InitTypes, NextTypes, PTL DEF Spec

\* Every variable keeps its type in every reachable state, for any sets of
\* proposals, callbacks and request slots: no handler leaves a document without a
\* known status or an EA waiting for a request it did not send.
THEOREM TypeCorrect == Spec => []TypeOK
<1>1. TypeInv => TypeOK
  BY DEF TypeInv
<1>. QED  BY <1>1, TypeInvariant, PTL

-----------------------------------------------------------------------------
(* Decisions *)

\* A write of the current version of p.
LEMMA SoundPut ==
  ASSUME NEW p \in Proposals, NEW v, NEW d \in ProposalDoc,
         prop \in [Proposals -> ProposalDoc], Put(p, v, d),
         SoundWrite(prop[p], [d EXCEPT !.ver = prop[p].ver + 1])
  PROVE  WritesSoundly
<1>. DEFINE e == [d EXCEPT !.ver = prop[p].ver + 1]
<1>1. e \in ProposalDoc
  BY DocVer
<1>2. prop' = [prop EXCEPT ![p] = e]
  BY DEF Put
<1>. HIDE DEF e
<1>. QED  BY <1>1, <1>2 DEF WritesSoundly, e

\* A write of an approved document that stays approved is sound.
LEMMA ReadyWrites ==
  ASSUME NEW old \in ProposalDoc, NEW new \in ProposalDoc, old.approved, ~old.rejected,
         new.approved, ~new.rejected, new.status \notin {"absent", "pending_confirmation"}
  PROVE  SoundWrite(old, [new EXCEPT !.ver = old.ver + 1])
BY DEF SoundWrite, Verdict, ProposalDoc

\* A write about an approved proposal that says nothing about the decision.
LEMMA UpdateApproved ==
  ASSUME StoreTypeOK, DocShape, NEW p \in Proposals, prop[p].approved,
         NEW d \in ProposalDoc, UpdateProposal(p, d),
         d.approved = prop[p].approved, d.rejected = prop[p].rejected,
         d.status \notin {"absent", "pending_confirmation"}
  PROVE  WritesSoundly
<1>1. prop \in [Proposals -> ProposalDoc] /\ prop[p] \in ProposalDoc
  BY DEF StoreTypeOK
<1>2. ~prop[p].rejected
  BY DEF DocShape
<1>3. SoundWrite(prop[p], [d EXCEPT !.ver = prop[p].ver + 1])
  BY <1>1, <1>2, ReadyWrites
<1>4. Put(p, prop[p].ver, d)
  BY DEF UpdateProposal
<1>. QED  BY <1>1, <1>3, <1>4, SoundPut

\* The bridge endpoints write proposals soundly: only approved ones, and never
\* their decision.
LEMMA HandlerWrites ==
  ASSUME TypeInv, DecisionInv, NEW s \in Slots, HandlerProceeds(s)
  PROVE  WritesSoundly
<1>t. StoreTypeOK /\ DocShape /\ HandlersApproved /\ req[s] \in Requests
  BY DEF TypeInv, TypeOK, BridgeTypeOK, Requests, DecisionInv
<1>d. ASSUME NEW p \in Proposals PROVE prop[p] \in ProposalDoc
  BY <1>t DEF StoreTypeOK
<1>a. ASSUME NEW p \in Proposals, prop[p].approved
      PROVE  prop[p].status \notin {"absent", "pending_confirmation"}
  BY <1>a, <1>t DEF DocShape
<1>1. CASE PollReoffer(s)
  <2>. DEFINE p == req[s].at
              d == [prop[p] EXCEPT !.status = "execution_failed", !.elig = TRUE]
  <2>1. p \in Proposals /\ prop[p].approved
    BY <1>1, <1>t DEF TypeInv, HandlerShape, HandlersApproved, HandlerInv, PollReoffer, At
  <2>2. d \in ProposalDoc /\ d.approved = prop[p].approved /\ d.rejected = prop[p].rejected
        /\ d.status = "execution_failed"
    BY <2>1, <1>d DEF ProposalDoc, ProposalStatus
  <2>3. UpdateProposal(p, d)
    BY <1>1 DEF PollReoffer
  <2>. HIDE DEF p, d
  <2>. QED  BY <2>1, <2>2, <2>3, <1>t, UpdateApproved
<1>2. CASE AckProposal(s)
  <2>. DEFINE p == req[s].msg.p
              ev == AckEvidence(req[s].msg, req[s].prev)
              st == AckProposalStatus(AckStatus(ev))
              life == IF AckStatus(ev) = "reconciled" THEN "BROKER_ACCEPTED"
                                                      ELSE "EXECUTION_FAILED"
              e == prop[p].elig \/ (EntryPolicy(p) /\ AckEligible(p, ev, req[s].prev))
              d == [prop[p] EXCEPT !.status = st, !.life = life,
                                   !.ticket = ev.ticket, !.elig = e]
  <2>0. req[s].kind = "ack" /\ req[s] \in AckRequest
    BY <1>2, <1>t, RequestKinds DEF AckProposal, At
  <2>m. req[s].msg \in Ack /\ req[s].prev \in CommandDoc
    BY <2>0 DEF AckRequest
  <2>1. p \in Proposals /\ prop[p].approved
    BY <2>0, <2>m, <1>t DEF Ack, HandlersApproved, HandlerInv
  <2>2. AckStatus(ev) \in {"rejected", "broker_uncertain", "reconciled"} /\ ev.ticket \in BOOLEAN
    <3>1. cmd[p] \in CommandDoc
      BY <2>1, <1>t DEF StoreTypeOK
    <3>. QED  BY <2>m, <3>1, AckRecords
  <2>3. st \in ProposalStatus /\ st \notin {"absent", "pending_confirmation"}
    BY <2>2 DEF AckProposalStatus, ProposalStatus
  <2>4. life \in Lifecycle /\ e \in BOOLEAN
    BY DEF Lifecycle
  <2>5. d \in ProposalDoc /\ d.approved = prop[p].approved /\ d.rejected = prop[p].rejected
        /\ d.status = st
    <3>1. prop[p] \in ProposalDoc
      BY <2>1, <1>d
    <3>. HIDE DEF st, life, e, ev, p
    <3>. QED  BY <2>2, <2>3, <2>4, <3>1 DEF ProposalDoc
  <2>6. UpdateProposal(p, d)
    BY <1>2 DEF AckProposal
  <2>. HIDE DEF p, d
  <2>. QED  BY <2>1, <2>3, <2>5, <2>6, <1>t, UpdateApproved
<1>3. CASE BeatFill(s)
  <2>. DEFINE p == req[s].at
              d == [prop[p] EXCEPT !.status = "reconciled",
                                   !.life = "BROKER_ACCEPTED", !.ticket = TRUE]
  <2>1. p \in Proposals /\ prop[p].approved
    BY <1>3, <1>t DEF TypeInv, HandlerShape, HandlersApproved, HandlerInv, BeatFill, At
  <2>2. d \in ProposalDoc /\ d.approved = prop[p].approved /\ d.rejected = prop[p].rejected
        /\ d.status = "reconciled"
    <3>1. prop[p] \in ProposalDoc
      BY <2>1, <1>d
    <3>. HIDE DEF p
    <3>. QED  BY <3>1 DEF ProposalDoc, ProposalStatus, Lifecycle
  <2>3. UpdateProposal(p, d)
    BY <1>3 DEF BeatFill
  <2>. HIDE DEF p, d
  <2>. QED  BY <2>1, <2>2, <2>3, <1>t, UpdateApproved
<1>4. CASE BeatLife(s)
  <2>. DEFINE p == req[s].at
              life == NextLife(req[s], p)
              st == IF life = "POSITION_CLOSED" THEN "reconciled" ELSE prop[p].status
              d == [prop[p] EXCEPT !.life = life, !.status = st]
  <2>0. req[s].kind = "beat" /\ req[s] \in BeatRequest
    BY <1>4, <1>t, RequestKinds DEF BeatLife, At
  <2>1. p \in Proposals /\ prop[p].approved
    BY <1>4, <1>t DEF TypeInv, HandlerShape, HandlersApproved, HandlerInv, BeatLife, At
  <2>2. life \in Lifecycle
    <3>1. req[s].seen[p] \in Lifecycle
      BY <2>0, <2>1 DEF BeatRequest
    <3>. QED  BY <3>1 DEF NextLife, Lifecycle
  <2>3. st \in ProposalStatus /\ st \notin {"absent", "pending_confirmation"}
    BY <2>1, <1>a, <1>d DEF ProposalDoc, ProposalStatus
  <2>4. d \in ProposalDoc /\ d.approved = prop[p].approved /\ d.rejected = prop[p].rejected
        /\ d.status = st
    <3>1. prop[p] \in ProposalDoc
      BY <2>1, <1>d
    <3>. HIDE DEF st, life, p
    <3>. QED  BY <2>2, <2>3, <3>1 DEF ProposalDoc
  <2>5. UNCHANGED prop \/ UpdateProposal(p, d)
    BY <1>4 DEF BeatLife
  <2>. HIDE DEF p, d
  <2>. QED  BY <2>1, <2>3, <2>4, <2>5, <1>t, UpdateApproved DEF WritesSoundly
<1>5. CASE ~(PollReoffer(s) \/ AckProposal(s) \/ BeatFill(s) \/ BeatLife(s))
  <2>1. UNCHANGED prop
    BY <1>5 DEF HandlerProceeds, PollReadiness, PollList, PollCheck, PollWrite, PollReply,
                AckRead, AckUpdate, BeatSave, BeatList, BeatCheck, BeatWrite, BeatReply, storeVars
  <2>. QED  BY <2>1 DEF WritesSoundly
<1>. QED  BY <1>1, <1>2, <1>3, <1>4, <1>5

\* The write of a view: versions equal, so the view is the stored document.
LEMMA ViewIsCurrent ==
  ASSUME TypeInv, DecisionInv, NEW c \in Callbacks,
         cb[c].pc \notin {"idle", "done", "link", "supersede"},
         NEW d, Put(Viewed(c), cb[c].view.ver, d)
  PROVE  /\ Viewed(c) \in Proposals
         /\ cb[c].view = prop[Viewed(c)]
         /\ cb[c].view \in ProposalDoc
<1>1. Viewed(c) \in Proposals
  BY ViewTypes, StoreAssumption DEF Viewed, TypeInv, CallbackShape, Proposals
<1>2. cb[c].view.ver = prop[Viewed(c)].ver
  BY DEF Put
<1>3. cb[c].view = prop[Viewed(c)]
  BY <1>2 DEF DecisionInv, ViewShape, ViewInv, CurrentOrOlder
<1>. QED  BY <1>1, <1>3, ViewTypes

\* An undecided document may become anything but absent.
LEMMA UndecidedWrites ==
  ASSUME NEW old \in ProposalDoc, NEW new \in ProposalDoc, ~old.approved, ~old.rejected,
         Verdict(old) = "open", new.status # "absent", new.approved => ~new.rejected,
         new.status = "pending_confirmation" => ~new.approved /\ ~new.rejected
  PROVE  SoundWrite(old, [new EXCEPT !.ver = old.ver + 1])
BY DEF SoundWrite, Verdict, ProposalDoc

\* approve writes soundly: the document it decides about is the stored one and
\* undecided, whatever happened while it awaited the gates and the quote.
LEMMA ApproveWrites ==
  ASSUME TypeInv, DecisionInv, NEW c \in Callbacks,
         \/ ApproveExpired(c) \/ ApproveGate(c) \/ ApproveBlocked(c)
         \/ ApproveQuote(c) \/ ApproveInvalidates(c) \/ ApproveRecheck(c)
         \/ ApproveClaim(c) \/ ApproveSaveCommand(c) \/ ApproveQueue(c)
  PROVE  WritesSoundly
<1>. DEFINE v == cb[c].view
            p == cb[c].p
<1>t. prop \in [Proposals -> ProposalDoc] /\ ViewShape
  BY DEF TypeInv, TypeOK, StoreTypeOK, DecisionInv
\* A write of a document in hand before the claim.
<1>u. ASSUME cb[c].pc \in {"gate", "quote", "validate", "claim"},
             NEW d \in ProposalDoc, PutView(c, d), d.status # "absent",
             d.approved => ~d.rejected,
             d.status = "pending_confirmation" => ~d.approved /\ ~d.rejected
      PROVE  WritesSoundly
  <2>0. Viewed(c) = p /\ cb[c].pc \notin {"idle", "done", "link", "supersede"}
    BY <1>u DEF Viewed
  <2>1. Put(p, v.ver, d)
    BY <1>u DEF PutView
  <2>2. p \in Proposals /\ v = prop[p] /\ v \in ProposalDoc
    BY <2>0, <2>1, ViewIsCurrent
  <2>3. v.status = "pending_confirmation" /\ ~v.approved /\ ~v.rejected
    BY <1>u, <1>t DEF ViewShape, ViewInv
  <2>4. Verdict(v) = "open"
    BY <2>3 DEF Verdict
  <2>5. SoundWrite(prop[p], [d EXCEPT !.ver = prop[p].ver + 1])
    BY <1>u, <2>2, <2>3, <2>4, UndecidedWrites
  <2>. HIDE DEF p, v
  <2>. QED  BY <1>u, <1>t, <2>1, <2>2, <2>5, SoundPut
<1>v. ASSUME cb[c].pc \in {"gate", "quote", "validate", "claim"}
      PROVE  v \in ProposalDoc /\ v.status = "pending_confirmation"
             /\ ~v.approved /\ ~v.rejected
  BY <1>v, <1>t, ViewTypes DEF ViewShape, ViewInv
<1>1. CASE ApproveExpired(c)
  <2>. DEFINE d == [v EXCEPT !.status = "expired", !.life = "EXPIRED"]
  <2>1. cb[c].pc = "gate" /\ PutView(c, d)
    BY <1>1 DEF ApproveExpired
  <2>2. d \in ProposalDoc /\ d.status = "expired" /\ ~d.approved
    BY <2>1, <1>v DEF ProposalDoc, ProposalStatus, Lifecycle
  <2>. HIDE DEF d
  <2>. QED  BY <2>1, <2>2, <1>u
<1>2. CASE ApproveBlocked(c)
  <2>. DEFINE d == [v EXCEPT !.life = "APPROVAL_BLOCKED"]
  <2>1. cb[c].pc = "gate" /\ PutView(c, d)
    BY <1>2 DEF ApproveBlocked
  <2>2. d \in ProposalDoc /\ d.status = "pending_confirmation" /\ ~d.approved /\ ~d.rejected
    BY <2>1, <1>v DEF ProposalDoc, ProposalStatus, Lifecycle
  <2>. HIDE DEF d
  <2>. QED  BY <2>1, <2>2, <1>u
<1>3. CASE ApproveQuote(c)
  <2>0. cb[c].pc = "quote"
    BY <1>3 DEF ApproveQuote
  <2>1. CASE EntryPolicy(p)
    <3>1. PICK otype \in {v.otype, "pending"} : PutView(c, [v EXCEPT !.otype = otype])
      BY <1>3, <2>1 DEF ApproveQuote
    <3>. DEFINE d == [v EXCEPT !.otype = otype]
    <3>2. d \in ProposalDoc /\ d.status = "pending_confirmation" /\ ~d.approved /\ ~d.rejected
      BY <2>0, <1>v DEF ProposalDoc, OrderTypes
    <3>. HIDE DEF d
    <3>. QED  BY <3>1, <3>2, <2>0, <1>u DEF d
  <2>2. CASE ~EntryPolicy(p)
    BY <1>3, <2>2 DEF ApproveQuote, WritesSoundly
  <2>. QED  BY <2>1, <2>2
<1>4. CASE ApproveInvalidates(c)
  <2>0. cb[c].pc \in {"quote", "validate"}
    BY <1>4 DEF ApproveInvalidates
  <2>1. PICK tolerance \in BOOLEAN :
          PutView(c, [v EXCEPT !.status = "invalidated", !.life = "INVALIDATED",
                               !.elig = tolerance])
    BY <1>4 DEF ApproveInvalidates
  <2>. DEFINE d == [v EXCEPT !.status = "invalidated", !.life = "INVALIDATED",
                             !.elig = tolerance]
  <2>2. d \in ProposalDoc /\ d.status = "invalidated" /\ ~d.approved
    BY <2>0, <1>v DEF ProposalDoc, ProposalStatus, Lifecycle
  <2>3. PutView(c, d)
    BY <2>1
  <2>. HIDE DEF d
  <2>. QED  BY <2>0, <2>2, <2>3, <1>u
<1>5. CASE ApproveClaim(c)
  <2>. DEFINE d == [v EXCEPT !.status = "approved", !.life = "APPROVAL_CLAIMED",
                             !.approved = TRUE]
  <2>1. cb[c].pc = "claim" /\ PutView(c, d)
    BY <1>5 DEF ApproveClaim
  <2>2. d \in ProposalDoc /\ d.status = "approved" /\ ~d.rejected
    BY <2>1, <1>v DEF ProposalDoc, ProposalStatus, Lifecycle
  <2>. HIDE DEF d
  <2>. QED  BY <2>1, <2>2, <1>u
<1>6. CASE ApproveQueue(c)
  <2>. DEFINE d == [v EXCEPT !.status = "command_created", !.life = "EXECUTION_QUEUED"]
  <2>1. cb[c].pc = "queue" /\ Put(p, v.ver, d) /\ Viewed(c) = p
    BY <1>6 DEF ApproveQueue, PutView, Viewed
  <2>2. p \in Proposals /\ v = prop[p] /\ v \in ProposalDoc
    BY <2>1, ViewIsCurrent
  <2>3. v.approved /\ ~v.rejected
    BY <2>1, <1>t DEF ViewShape, ViewInv
  <2>4. d \in ProposalDoc /\ d.status = "command_created" /\ d.approved /\ ~d.rejected
    BY <2>2, <2>3 DEF ProposalDoc, ProposalStatus, Lifecycle
  <2>5. SoundWrite(prop[p], [d EXCEPT !.ver = prop[p].ver + 1])
    <3>. HIDE DEF d
    <3>. QED  BY <2>2, <2>3, <2>4, ReadyWrites
  <2>. HIDE DEF p, v, d
  <2>. QED  BY <2>1, <2>2, <2>4, <2>5, <1>t, SoundPut
<1>7. CASE ApproveGate(c) \/ ApproveRecheck(c) \/ ApproveSaveCommand(c)
  BY <1>7 DEF ApproveGate, ApproveRecheck, ApproveSaveCommand, storeVars, WritesSoundly
<1>. QED  BY <1>1, <1>2, <1>3, <1>4, <1>5, <1>6, <1>7

-----------------------------------------------------------------------------

\* A write that touches neither status nor decision.
LEMMA NeutralWrites ==
  ASSUME NEW old \in ProposalDoc, NEW new \in ProposalDoc, old.status # "absent",
         old.status = "pending_confirmation" => ~old.approved /\ ~old.rejected,
         old.approved => ~old.rejected,
         new.status = old.status, new.approved = old.approved, new.rejected = old.rejected
  PROVE  SoundWrite(old, [new EXCEPT !.ver = old.ver + 1])
BY DEF SoundWrite, Verdict, ProposalDoc

\* create_limit_replacement and a supersession write soundly.
LEMMA OfferWrites ==
  ASSUME TypeInv, DecisionInv, NEW c \in Callbacks,
         \/ OfferCreate(c) \/ OfferLinkRead(c) \/ OfferLinkWrite(c)
         \/ SupersedeWrite(c) \/ CallbackEnds(c)
  PROVE  WritesSoundly
<1>. DEFINE v == cb[c].view
            p == cb[c].p
            o == OriginOf[p]
<1>t. prop \in [Proposals -> ProposalDoc] /\ ViewShape /\ DocShape
  BY DEF TypeInv, TypeOK, StoreTypeOK, DecisionInv
<1>1. CASE OfferCreate(c)
  <2>0. p \in Proposals /\ cb[c].pc = "offer" /\ Viewed(c) = p
    BY <1>1 DEF OfferCreate, TypeInv, CallbackShape, Viewed
  <2>1. CASE v.status # "absent"
    <3>1. Put(p, v.ver, v)
      BY <1>1, <2>1 DEF OfferCreate, PutView
    <3>2. v = prop[p] /\ v \in ProposalDoc
      BY <2>0, <3>1, ViewIsCurrent
    <3>3. SoundWrite(prop[p], [v EXCEPT !.ver = prop[p].ver + 1])
      BY <2>0, <2>1, <3>2, <1>t, NeutralWrites DEF DocShape
    <3>. HIDE DEF v, p
    <3>. QED  BY <2>0, <3>1, <3>2, <3>3, <1>t, SoundPut
  <2>2. CASE v.status = "absent" /\ prop[p].status = "absent"
    <3>. DEFINE d == NewProposal("pending")
    <3>1. prop' = [prop EXCEPT ![p] = d]
      BY <1>1, <2>2 DEF OfferCreate
    <3>2. SoundWrite(prop[p], d)
      <4>1. ~prop[p].approved /\ ~prop[p].rejected /\ prop[p].ver = 0
        BY <2>0, <2>2, <1>t DEF DocShape
      <4>. QED  BY <4>1, <2>2 DEF SoundWrite, NewProposal, Verdict
    <3>. HIDE DEF p, d
    <3>3. d \in ProposalDoc
      BY DocumentTypes DEF d
    <3>. QED  BY <2>0, <3>1, <3>2, <3>3 DEF WritesSoundly
  <2>3. CASE v.status = "absent" /\ prop[p].status # "absent"
    BY <1>1, <2>3 DEF OfferCreate, WritesSoundly
  <2>. QED  BY <2>1, <2>2, <2>3
<1>2. CASE OfferLinkWrite(c)
  <2>0. p \in Replacements /\ o \in Originals /\ cb[c].pc = "linkWrite" /\ Viewed(c) = o
    BY <1>2, StoreAssumption DEF OfferLinkWrite, TypeInv, CallbackShape, Viewed
  <2>1. CASE prop[o].ver = v.ver
    <3>. DEFINE d == [v EXCEPT !.link = TRUE]
    <3>1. Put(o, v.ver, d)
      BY <1>2, <2>1 DEF OfferLinkWrite
    <3>2. o \in Proposals /\ v = prop[o] /\ v \in ProposalDoc
      BY <2>0, <3>1, ViewIsCurrent
    <3>3. prop[o].status # "absent"
      BY <2>0, <3>2, <1>t, StoreAssumption DEF DocShape
    <3>4. d \in ProposalDoc /\ d.status = v.status /\ d.approved = v.approved
          /\ d.rejected = v.rejected
      BY <3>2 DEF ProposalDoc
    <3>5. SoundWrite(prop[o], [d EXCEPT !.ver = prop[o].ver + 1])
      <4>1. /\ prop[o].status = "pending_confirmation" => ~prop[o].approved /\ ~prop[o].rejected
            /\ prop[o].approved => ~prop[o].rejected
        BY <3>2, <1>t DEF DocShape
      <4>. HIDE DEF d, o
      <4>. QED  BY <3>2, <3>3, <3>4, <4>1, NeutralWrites
    <3>. HIDE DEF d, o, v
    <3>. QED  BY <3>1, <3>2, <3>4, <3>5, <1>t, SoundPut
  <2>2. CASE prop[o].ver # v.ver
    BY <1>2, <2>2 DEF OfferLinkWrite, WritesSoundly
  <2>. QED  BY <2>1, <2>2
<1>3. CASE SupersedeWrite(c)
  <2>. DEFINE d == [prop[p] EXCEPT !.status = "invalidated", !.life = "INVALIDATED",
                                   !.superseded = TRUE]
  <2>1. p \in Proposals /\ prop[p] \in ProposalDoc /\ (prop[p].approved => ~prop[p].rejected)
    BY <1>3, <1>t DEF SupersedeWrite, TypeInv, CallbackShape, DocShape
  <2>2. d \in ProposalDoc /\ d.status = "invalidated" /\ d.approved = prop[p].approved
        /\ d.rejected = prop[p].rejected
    BY <2>1 DEF ProposalDoc, ProposalStatus, Lifecycle
  <2>3. Put(p, prop[p].ver, d)
    BY <1>3 DEF SupersedeWrite, UpdateProposal
  <2>4. SoundWrite(prop[p], [d EXCEPT !.ver = prop[p].ver + 1])
    <3>. HIDE DEF d
    <3>. QED  BY <2>1, <2>2 DEF SoundWrite, Verdict, ProposalDoc
  <2>. HIDE DEF p, d
  <2>. QED  BY <2>1, <2>2, <2>3, <2>4, <1>t, SoundPut
<1>4. CASE OfferLinkRead(c) \/ CallbackEnds(c)
  BY <1>4 DEF OfferLinkRead, CallbackEnds, storeVars, WritesSoundly
<1>. QED  BY <1>1, <1>2, <1>3, <1>4

\* reject writes soundly: it decides only about a pending proposal.
LEMMA StartWrites ==
  ASSUME TypeInv, DecisionInv, NEW c \in Callbacks, CallbackStarts(c)
  PROVE  WritesSoundly
<1>1. PICK p \in Proposals :
        ApproveRead(c, p) \/ Reject(c, p) \/ OfferRead(c, p) \/ SupersedeList(c, p)
  BY DEF CallbackStarts
<1>t. prop \in [Proposals -> ProposalDoc] /\ prop[p] \in ProposalDoc /\ DocShape
  BY DEF TypeInv, TypeOK, StoreTypeOK, DecisionInv
<1>2. CASE Reject(c, p)
  <2>. DEFINE d == [prop[p] EXCEPT !.status = "rejected", !.life = "REJECTED",
                                   !.rejected = TRUE]
  <2>1. prop[p].status = "pending_confirmation" /\ ~prop[p].approved /\ ~prop[p].rejected
    BY <1>2, <1>t DEF Reject, DocShape
  <2>2. d \in ProposalDoc /\ d.status = "rejected" /\ ~d.approved
    BY <2>1, <1>t DEF ProposalDoc, ProposalStatus, Lifecycle
  <2>3. Put(p, prop[p].ver, d)
    BY <1>2 DEF Reject, UpdateProposal
  <2>4. Verdict(prop[p]) = "open"
    BY <2>1 DEF Verdict
  <2>. HIDE DEF d
  <2>5. SoundWrite(prop[p], [d EXCEPT !.ver = prop[p].ver + 1])
    BY <2>1, <2>2, <2>4, <1>t, UndecidedWrites
  <2>. QED  BY <2>2, <2>3, <2>5, <1>t, SoundPut
<1>3. CASE ApproveRead(c, p) \/ OfferRead(c, p) \/ SupersedeList(c, p)
  BY <1>3 DEF ApproveRead, OfferRead, SupersedeList, storeVars, WritesSoundly
<1>. QED  BY <1>1, <1>2, <1>3

\* Every step writes proposals soundly.
LEMMA Writes ==
  ASSUME TypeInv, DecisionInv, [Next]_vars
  PROVE  WritesSoundly
<1>1. ASSUME NEW s \in Slots, HandlerProceeds(s) PROVE WritesSoundly
  BY <1>1, HandlerWrites
<1>2. ASSUME OperatorNext PROVE WritesSoundly
  BY <1>2, ApproveWrites, OfferWrites, StartWrites DEF OperatorNext, CallbackProceeds
<1>3. ASSUME EASteps \/ EAFaults \/ Environment \/ (\E p \in Proposals : BrokerMoves(p))
      PROVE  UNCHANGED prop
  <2>1. CASE EASteps
    BY <2>1 DEF EASteps, SendHeartbeat, PollCommands, Record, HeartbeatAnswered, PollAnswered,
      AckAnswered, ExecuteBegin, ExecuteReplay, ExecuteRefuse, ExecuteUnprepared, Submit, storeVars
  <2>2. CASE EAFaults
    BY <2>2 DEF EAFaults, RequestTimesOut, EARestarts, HeartbeatAges, RequestFails, HandlerDies,
      storeVars
  <2>3. CASE Environment \/ \E p \in Proposals : BrokerMoves(p)
    BY <2>3 DEF Environment, Kill, ResetKill, ProposalExpires, CommandLapses, BrokerMoves, storeVars
  <2>. QED  BY <1>3, <2>1, <2>2, <2>3
<1>. QED  BY <1>1, <1>2, <1>3 DEF Next, vars, storeVars, WritesSoundly

\* What sound writes do to every document.
LEMMA DocStep ==
  ASSUME TypeInv, DecisionInv, WritesSoundly
  PROVE  /\ DocShape'
         /\ \A p \in Proposals :
              /\ prop[p].approved => prop'[p].approved
              /\ prop[p].rejected => prop'[p].rejected
              /\ prop'[p] = prop[p] \/ prop'[p].ver = prop[p].ver + 1
              /\ Verdict(prop'[p]) = Verdict(prop[p]) \/ Verdict(prop[p]) = "open"
<1>t. prop \in [Proposals -> ProposalDoc] /\ DocShape
  BY DEF TypeInv, TypeOK, StoreTypeOK, DecisionInv
<1>1. CASE UNCHANGED prop
  BY <1>1, <1>t DEF DocShape
<1>2. ASSUME NEW p \in Proposals, NEW d \in ProposalDoc,
             prop' = [prop EXCEPT ![p] = d], SoundWrite(prop[p], d)
      PROVE  /\ DocShape'
             /\ \A q \in Proposals :
                  /\ prop[q].approved => prop'[q].approved
                  /\ prop[q].rejected => prop'[q].rejected
                  /\ prop'[q] = prop[q] \/ prop'[q].ver = prop[q].ver + 1
                  /\ Verdict(prop'[q]) = Verdict(prop[q]) \/ Verdict(prop[q]) = "open"
  <2>1. prop'[p] = d /\ \A q \in Proposals \ {p} : prop'[q] = prop[q]
    BY <1>2, <1>t
  <2>2. DocShape'
    BY <1>2, <2>1, <1>t DEF DocShape, SoundWrite
  <2>3. \A q \in Proposals :
          /\ prop[q].approved => prop'[q].approved
          /\ prop[q].rejected => prop'[q].rejected
          /\ prop'[q] = prop[q] \/ prop'[q].ver = prop[q].ver + 1
          /\ Verdict(prop'[q]) = Verdict(prop[q]) \/ Verdict(prop[q]) = "open"
    BY <1>2, <2>1 DEF SoundWrite
  <2>. QED  BY <2>2, <2>3
<1>. QED  BY <1>1, <1>2 DEF WritesSoundly

-----------------------------------------------------------------------------

\* A callback that does not move keeps what it knows.
LEMMA ViewKept ==
  ASSUME TypeInv, DecisionInv, WritesSoundly, NEW c \in Callbacks, cb'[c] = cb[c]
  PROVE  ViewInv(c)'
<1>1. ViewInv(c)
  BY DEF DecisionInv, ViewShape
<1>2. CASE cb[c].pc \in {"idle", "done"}
  BY <1>2 DEF ViewInv
<1>3. CASE cb[c].pc \notin {"idle", "done"}
  <2>1. cb[c].p \in Proposals /\ Viewed(c) \in Proposals /\ Viewed(c)' = Viewed(c)
    BY <1>3, StoreAssumption DEF Viewed, TypeInv, CallbackShape, Proposals
  <2>2. \A p \in Proposals :
          /\ prop[p].approved => prop'[p].approved
          /\ prop'[p] = prop[p] \/ prop'[p].ver = prop[p].ver + 1
    BY DocStep
  <2>3. prop[Viewed(c)].ver \in Nat /\ cb[c].view.ver \in Nat
    BY <2>1, <1>3, ViewTypes DEF TypeInv, TypeOK, StoreTypeOK, ProposalDoc
  <2>4. CurrentOrOlder(cb[c].view, prop[Viewed(c)])
          => CurrentOrOlder(cb[c].view, prop'[Viewed(c)])
    BY <2>1, <2>2, <2>3 DEF CurrentOrOlder
  <2>. QED  BY <1>1, <2>1, <2>2, <2>4 DEF ViewInv
<1>. QED  BY <1>2, <1>3

\* A write of a view that stays in hand: what is in hand is what is stored.
LEMMA WrittenView ==
  ASSUME TypeInv, NEW c \in Callbacks, cb[c].p \in Proposals,
         NEW d \in ProposalDoc, NEW pc \in CallbackPoints, PutView(c, d), ContinueWith(c, pc, d)
  PROVE  /\ cb'[c].pc = pc /\ cb'[c].p = cb[c].p
         /\ cb'[c].view = prop'[cb[c].p]
         /\ prop'[cb[c].p].status = d.status /\ prop'[cb[c].p].approved = d.approved
         /\ prop'[cb[c].p].rejected = d.rejected
<1>. DEFINE p == cb[c].p
            e == [d EXCEPT !.ver = cb[c].view.ver + 1]
<1>1. cb \in [Callbacks -> Callback] /\ prop \in [Proposals -> ProposalDoc]
  BY DEF TypeInv, TypeOK, OperatorTypeOK, StoreTypeOK
<1>2. prop'[p] = e
  BY <1>1 DEF PutView, Put
<1>3. cb'[c].pc = pc /\ cb'[c].p = p /\ cb'[c].view = e
  BY <1>1 DEF ContinueWith, Callback
<1>4. e.status = d.status /\ e.approved = d.approved /\ e.rejected = d.rejected
  BY DEF ProposalDoc
<1>. HIDE DEF e, p
<1>. QED  BY <1>2, <1>3, <1>4 DEF p

\* The versions of written documents are numbers.
LEMMA NextDocs ==
  ASSUME TypeInv, NEW p \in Proposals, NEW v, NEW d \in ProposalDoc, Put(p, v, d)
  PROVE  prop'[p].ver \in Nat
<1>1. prop \in [Proposals -> ProposalDoc] /\ prop[p].ver \in Nat
  BY DEF TypeInv, TypeOK, StoreTypeOK, ProposalDoc
<1>. QED  BY <1>1 DEF Put, ProposalDoc

\* The operator's steps keep what every callback knows of its document.
LEMMA ViewsStep ==
  ASSUME TypeInv, DecisionInv, WritesSoundly, OperatorNext
  PROVE  ViewShape'
<1>1. PICK c \in Callbacks : CallbackStarts(c) \/ CallbackProceeds(c) \/ CallbackEnds(c)
  BY DEF OperatorNext
<1>t. cb \in [Callbacks -> Callback] /\ prop \in [Proposals -> ProposalDoc]
      /\ ViewInv(c) /\ cb[c] \in Callback
  BY DEF TypeInv, TypeOK, OperatorTypeOK, StoreTypeOK, DecisionInv, ViewShape
<1>p. cb[c].pc \notin {"idle", "done"} => cb[c].p \in Proposals
  BY DEF TypeInv, CallbackShape
<1>2. \A k \in Callbacks \ {c} : cb'[k] = cb[k]
  BY <1>1, <1>t DEF CallbackStarts, CallbackProceeds, CallbackEnds, ApproveRead, Reject, OfferRead,
    SupersedeList, ApproveExpired, ApproveGate, ApproveBlocked, ApproveQuote, ApproveInvalidates,
    ApproveRecheck, ApproveClaim, ApproveSaveCommand, ApproveQueue, OfferCreate, OfferLinkRead,
    OfferLinkWrite, SupersedeWrite, Begin, Continue, ContinueWith, Return
<1>r. ASSUME Return(c) PROVE ViewInv(c)'
  <2>1. cb'[c].pc = "done"
    BY <1>r, <1>t DEF Return, Done, Idle
  <2>. QED  BY <2>1 DEF ViewInv
<1>c. ASSUME NEW pc \in CallbackPoints, Continue(c, pc)
      PROVE  cb'[c].pc = pc /\ cb'[c].p = cb[c].p /\ cb'[c].view = cb[c].view
  BY <1>c, <1>t DEF Continue, Callback
<1>b. ASSUME NEW pc, NEW p, NEW view, Begin(c, pc, p, view)
      PROVE  cb'[c].pc = pc /\ cb'[c].p = p /\ cb'[c].view = view
  BY <1>b, <1>t DEF Begin
<1>k. {"quote", "validate", "claim", "save", "queue", "link", "linkWrite"} \subseteq CallbackPoints
  BY DEF CallbackPoints
\* A callback goes on without a write, within or up to the claim.
<1>g. ASSUME NEW pc \in {"quote", "validate", "claim"}, Continue(c, pc), UNCHANGED prop,
             cb[c].pc \in {"gate", "quote", "validate"}
      PROVE  ViewInv(c)'
  <2>1. cb'[c].pc = pc /\ cb'[c].p = cb[c].p /\ cb'[c].view = cb[c].view
    BY <1>g, <1>c, <1>k
  <2>2. Viewed(c)' = cb[c].p /\ Viewed(c) = cb[c].p
    BY <1>g, <2>1 DEF Viewed
  <2>. QED  BY <1>g, <1>t, <2>1, <2>2 DEF ViewInv
<1>w. ASSUME NEW d \in ProposalDoc, NEW pc \in {"validate", "save"},
             PutView(c, d), ContinueWith(c, pc, d), cb[c].pc \notin {"idle", "done"},
             pc = "validate" =>
               d.status = "pending_confirmation" /\ ~d.approved /\ ~d.rejected,
             pc = "save" => d.approved /\ ~d.rejected
      PROVE  ViewInv(c)'
  <2>1. /\ cb'[c].pc = pc /\ cb'[c].p = cb[c].p
        /\ cb'[c].view = prop'[cb[c].p]
        /\ prop'[cb[c].p].status = d.status /\ prop'[cb[c].p].approved = d.approved
        /\ prop'[cb[c].p].rejected = d.rejected
    BY <1>w, <1>p, <1>k, WrittenView
  <2>2. Viewed(c)' = cb[c].p
    BY <2>1 DEF Viewed
  <2>3. prop'[cb[c].p].ver \in Nat
    BY <1>w, <1>p, NextDocs DEF PutView
  <2>. QED  BY <1>w, <2>1, <2>2, <2>3 DEF ViewInv, CurrentOrOlder
<1>3. ViewInv(c)'
  <2>1. ASSUME NEW p \in Proposals, ApproveRead(c, p) PROVE ViewInv(c)'
    <3>1. cb'[c].pc = "gate" /\ cb'[c].p = p /\ cb'[c].view = prop[p]
          /\ prop[p].status = "pending_confirmation" /\ UNCHANGED prop
      BY <2>1, <1>b DEF ApproveRead, storeVars
    <3>2. Viewed(c)' = p /\ prop[p].ver \in Nat
      BY <3>1, <1>t DEF Viewed, ProposalDoc
    <3>3. ~prop[p].approved /\ ~prop[p].rejected
      BY <3>1 DEF DecisionInv, DocShape
    <3>. QED  BY <3>1, <3>2, <3>3 DEF ViewInv, CurrentOrOlder
  <2>2. ASSUME NEW p \in Proposals, OfferRead(c, p) PROVE ViewInv(c)'
    <3>1. cb'[c].pc = "offer" /\ cb'[c].p = p /\ cb'[c].view = prop[p] /\ UNCHANGED prop
      BY <2>2, <1>b DEF OfferRead, storeVars
    <3>2. Viewed(c)' = p /\ prop[p].ver \in Nat
      BY <3>1, <1>t DEF Viewed, ProposalDoc
    <3>. QED  BY <3>1, <3>2 DEF ViewInv, CurrentOrOlder
  <2>3. ASSUME NEW p \in Proposals, SupersedeList(c, p) PROVE ViewInv(c)'
    <3>1. cb'[c].pc = "supersede" /\ cb'[c].p = p /\ p \in Originals
      BY <2>3, <1>b DEF SupersedeList
    <3>. QED  BY <3>1 DEF ViewInv
  <2>4. CASE \/ \E p \in Proposals : Reject(c, p)
             \/ ApproveExpired(c) \/ ApproveBlocked(c) \/ ApproveInvalidates(c)
             \/ ApproveQueue(c) \/ SupersedeWrite(c) \/ CallbackEnds(c)
    BY <2>4, <1>r DEF Reject, ApproveExpired, ApproveBlocked, ApproveInvalidates, ApproveQueue,
                      SupersedeWrite, CallbackEnds
  <2>5. CASE ApproveGate(c)
    BY <2>5, <1>g DEF ApproveGate, storeVars
  <2>6. CASE ApproveRecheck(c)
    BY <2>6, <1>g DEF ApproveRecheck, storeVars
  <2>7. CASE ApproveQuote(c)
    <3>1. CASE EntryPolicy(cb[c].p)
      <4>1. PICK otype \in {cb[c].view.otype, "pending"} :
              LET doc == [cb[c].view EXCEPT !.otype = otype] IN
                PutView(c, doc) /\ ContinueWith(c, "validate", doc)
        BY <2>7, <3>1 DEF ApproveQuote
      <4>. DEFINE d == [cb[c].view EXCEPT !.otype = otype]
      <4>2. PutView(c, d) /\ ContinueWith(c, "validate", d)
        BY <4>1
      <4>3. cb[c].pc = "quote" /\ cb[c].view \in ProposalDoc
        BY <2>7, ViewTypes DEF ApproveQuote
      <4>4. d \in ProposalDoc /\ d.status = cb[c].view.status
            /\ d.approved = cb[c].view.approved /\ d.rejected = cb[c].view.rejected
        BY <4>3 DEF ProposalDoc, OrderTypes
      <4>. HIDE DEF d
      <4>. QED  BY <4>2, <4>3, <4>4, <1>t, <1>w DEF ViewInv
    <3>2. CASE ~EntryPolicy(cb[c].p)
      BY <2>7, <3>2, <1>g DEF ApproveQuote
    <3>. QED  BY <3>1, <3>2
  <2>8. CASE ApproveClaim(c)
    <3>. DEFINE d == [cb[c].view EXCEPT !.status = "approved", !.life = "APPROVAL_CLAIMED",
                                        !.approved = TRUE]
    <3>1. PutView(c, d) /\ ContinueWith(c, "save", d)
      BY <2>8 DEF ApproveClaim
    <3>2. cb[c].pc = "claim" /\ cb[c].view \in ProposalDoc
      BY <2>8, ViewTypes DEF ApproveClaim
    <3>3. d \in ProposalDoc /\ d.approved /\ d.rejected = cb[c].view.rejected
      BY <3>2 DEF ProposalDoc, ProposalStatus, Lifecycle
    <3>. HIDE DEF d
    <3>. QED  BY <3>1, <3>2, <3>3, <1>t, <1>w DEF ViewInv
  <2>9. CASE ApproveSaveCommand(c)
    <3>1. cb'[c].pc = "queue" /\ cb'[c].p = cb[c].p /\ cb'[c].view = cb[c].view
          /\ UNCHANGED prop /\ cb[c].pc = "save"
      BY <2>9, <1>c, <1>k DEF ApproveSaveCommand
    <3>2. Viewed(c)' = cb[c].p /\ Viewed(c) = cb[c].p
      BY <3>1 DEF Viewed
    <3>. QED  BY <3>1, <3>2, <1>t DEF ViewInv
  <2>10. CASE OfferCreate(c)
    <3>1. cb'[c].pc = "link"
      BY <2>10, <1>c, <1>k DEF OfferCreate
    <3>. QED  BY <3>1 DEF ViewInv
  <2>11. CASE OfferLinkRead(c)
    <3>. DEFINE o == OriginOf[cb[c].p]
    <3>1. CASE prop[o].link
      BY <2>11, <3>1, <1>r DEF OfferLinkRead
    <3>2. CASE ~prop[o].link
      <4>1. cb' = [cb EXCEPT ![c].pc = "linkWrite", ![c].view = prop[o]] /\ UNCHANGED prop
        BY <2>11, <3>2 DEF OfferLinkRead, storeVars
      <4>2. cb'[c].pc = "linkWrite" /\ cb'[c].p = cb[c].p /\ cb'[c].view = prop[o]
        BY <4>1, <1>t DEF Callback
      <4>3. Viewed(c)' = o
        BY <4>2 DEF Viewed
      <4>4. prop[o].ver \in Nat
        <5>1. o \in Proposals
          BY <2>11, StoreAssumption DEF OfferLinkRead, TypeInv, CallbackShape, Proposals
        <5>. QED  BY <5>1, <1>t DEF ProposalDoc
      <4>. QED  BY <4>1, <4>2, <4>3, <4>4 DEF ViewInv, CurrentOrOlder
    <3>. QED  BY <3>1, <3>2
  <2>12. CASE OfferLinkWrite(c)
    <3>1. CASE Return(c)
      BY <3>1, <1>r
    <3>2. CASE Continue(c, "link")
      <4>1. cb'[c].pc = "link"
        BY <3>2, <1>c, <1>k
      <4>. QED  BY <4>1 DEF ViewInv
    <3>. QED  BY <2>12, <3>1, <3>2 DEF OfferLinkWrite
  <2>. QED  BY <1>1, <2>1, <2>2, <2>3, <2>4, <2>5, <2>6, <2>7, <2>8, <2>9, <2>10, <2>11, <2>12
            DEF CallbackStarts, CallbackProceeds
<1>. QED  BY <1>2, <1>3, ViewKept DEF ViewShape

-----------------------------------------------------------------------------

\* A handler that does not move keeps what it knows.
LEMMA HandlerKept ==
  ASSUME TypeInv, DecisionInv, WritesSoundly, NEW s \in Slots, req'[s] = req[s]
  PROVE  HandlerInv(s)'
<1>1. HandlerInv(s) /\ req[s] \in Requests
  BY DEF DecisionInv, HandlersApproved, TypeInv, TypeOK, BridgeTypeOK, Requests
<1>2. \A p \in Proposals : prop[p].approved => prop'[p].approved
  BY DocStep
<1>3. CASE req[s].kind = "poll"
  <2>1. /\ \A c \in req[s].todo : c.p \in Proposals
        /\ req[s].out \subseteq Proposals
        /\ req[s].pc \in {"write", "reoffer"} => req[s].at \in Proposals
    BY <1>1, <1>3, RequestKinds DEF PollRequest, ListedCommand, TypeInv, HandlerShape
  <2>. QED  BY <1>1, <1>2, <1>3, <2>1 DEF HandlerInv
<1>4. CASE req[s].kind = "ack"
  <2>1. req[s].msg.p \in Proposals
    BY <1>1, <1>4, RequestKinds DEF AckRequest, Ack
  <2>. QED  BY <1>1, <1>2, <1>4, <2>1 DEF HandlerInv
<1>5. CASE req[s].kind = "beat"
  <2>1. /\ req[s].todo \subseteq Proposals
        /\ req[s].pc \in {"write", "fill", "life"} => req[s].at \in Proposals
    BY <1>1, <1>5, RequestKinds DEF BeatRequest, TypeInv, HandlerShape
  <2>. QED  BY <1>1, <1>2, <1>5, <2>1 DEF HandlerInv
<1>6. CASE req[s].kind \notin {"poll", "ack", "beat"}
  BY <1>6 DEF HandlerInv
<1>. QED  BY <1>3, <1>4, <1>5, <1>6

\* The answer holds what the handler knew.
LEMMA AnswerKnows ==
  ASSUME TypeInv, DecisionInv, UNCHANGED prop, NEW s \in Slots,
         NEW pc \in {"reply", "dead"}, Answer(s, [req[s] EXCEPT !.pc = pc])
  PROVE  HandlerInv(s)'
<1>1. HandlerInv(s) /\ req \in [Slots -> Requests]
  BY DEF DecisionInv, HandlersApproved, TypeInv, TypeOK, BridgeTypeOK, Requests
<1>2. CASE req'[s] = Free
  BY <1>2 DEF HandlerInv, Free
<1>3. CASE req'[s] = [req[s] EXCEPT !.pc = pc]
  <2>1. CASE req[s] \in PollRequest
    <3>1. req'[s].kind = "poll" /\ req'[s].pc = pc /\ req'[s].todo = req[s].todo
          /\ req'[s].out = req[s].out /\ req[s].kind = "poll"
      BY <1>3, <2>1 DEF PollRequest
    <3>. QED  BY <3>1, <1>1 DEF HandlerInv
  <2>2. CASE req[s] \in AckRequest
    <3>1. req'[s].kind = "ack" /\ req'[s].msg = req[s].msg /\ req[s].kind = "ack"
      BY <1>3, <2>2 DEF AckRequest
    <3>. QED  BY <3>1, <1>1 DEF HandlerInv
  <2>3. CASE req[s] \in BeatRequest
    <3>1. req'[s].kind = "beat" /\ req'[s].pc = pc /\ req'[s].todo = req[s].todo
          /\ req[s].kind = "beat"
      BY <1>3, <2>3 DEF BeatRequest
    <3>. QED  BY <3>1, <1>1 DEF HandlerInv
  <2>4. CASE req[s] = Free
    <3>1. req'[s].kind = "free"
      BY <1>3, <2>4 DEF Free
    <3>. QED  BY <3>1 DEF HandlerInv
  <2>. QED  BY <1>1, <2>1, <2>2, <2>3, <2>4 DEF Requests
<1>. QED  BY <1>1, <1>2, <1>3 DEF Answer

\* The steps of commands_for_bridge act on approved proposals.
LEMMA PollKnows ==
  ASSUME TypeInv, DecisionInv, WritesSoundly, NEW s \in Slots,
         PollReadiness(s) \/ PollList(s) \/ PollCheck(s) \/ PollWrite(s)
         \/ PollReoffer(s) \/ PollReply(s)
  PROVE  HandlerInv(s)'
<1>t. req \in [Slots -> Requests] /\ HandlerInv(s) /\ CommandsApproved
  BY DEF DecisionInv, HandlersApproved, TypeInv, TypeOK, BridgeTypeOK, Requests
<1>k. req[s].kind = "poll"
  BY DEF PollReadiness, PollList, PollCheck, PollWrite, PollReoffer, PollReply, At
<1>r. req[s] \in PollRequest
  BY <1>t, <1>k, RequestKinds
<1>m. \A p \in Proposals : prop[p].approved => prop'[p].approved
  BY DocStep
<1>n. /\ \A c \in req[s].todo : c.p \in Proposals /\ prop[c.p].approved
      /\ \A p \in req[s].out : p \in Proposals /\ prop[p].approved
  BY <1>t, <1>k, <1>r DEF HandlerInv, PollRequest, ListedCommand
<1>1. CASE PollReadiness(s)
  <2>1. UNCHANGED prop
    BY <1>1 DEF PollReadiness, storeVars
  <2>2. CASE ExecutionReady
    <3>1. req'[s].kind = "poll" /\ req'[s].pc = "list" /\ req'[s].todo = req[s].todo
          /\ req'[s].out = req[s].out
      BY <1>1, <2>2, <1>r, <1>t DEF PollReadiness, PollRequest
    <3>. QED  BY <3>1, <1>n, <2>1 DEF HandlerInv
  <2>3. CASE ~ExecutionReady
    BY <1>1, <2>1, <2>3, AnswerKnows DEF PollReadiness
  <2>. QED  BY <2>2, <2>3
<1>2. CASE PollList(s)
  <2>1. req'[s].kind = "poll" /\ req'[s].pc = "next" /\ req'[s].out = req[s].out
        /\ req'[s].todo = {c \in ListedCommand : cmd[c.p].status = c.status}
    BY <1>2, <1>r, <1>t DEF PollList, PollRequest
  <2>2. \A c \in req'[s].todo : prop'[c.p].approved
    BY <2>1, <1>t, <1>m DEF CommandsApproved, ListedCommand
  <2>. QED  BY <2>1, <2>2, <1>n, <1>m DEF HandlerInv
<1>3. CASE PollCheck(s)
  <2>1. PICK c \in req[s].todo : \E do \in PollOutcomes(req[s], c) :
          req' = [req EXCEPT ![s].todo = @ \ {c},
             ![s].pc = IF do = "skip" THEN "next" ELSE "write",
             ![s].at = IF do = "skip" THEN "none" ELSE c.p,
             ![s].do = IF do = "skip" THEN "none" ELSE do]
    BY <1>3 DEF PollCheck
  <2>2. req'[s].kind = "poll" /\ req'[s].todo \subseteq req[s].todo /\ req'[s].out = req[s].out
        /\ req'[s].pc \in {"next", "write"} /\ (req'[s].pc = "write" => req'[s].at = c.p)
    BY <2>1, <1>r, <1>t DEF PollRequest
  <2>. QED  BY <2>2, <1>n, <1>m DEF HandlerInv
<1>4. CASE PollWrite(s)
  <2>0. prop[req[s].at].approved /\ req[s].at \in Proposals /\ UNCHANGED prop
    BY <1>4, <1>t DEF PollWrite, At, HandlerInv, TypeInv, HandlerShape
  <2>1. CASE req[s].do = "reoffer"
    <3>1. req'[s].kind = "poll" /\ req'[s].todo = req[s].todo /\ req'[s].out = req[s].out
          /\ req'[s].at = req[s].at
      BY <1>4, <2>1, <1>r, <1>t DEF PollWrite, Goto, PollRequest
    <3>. QED  BY <3>1, <2>0, <1>n DEF HandlerInv
  <2>2. CASE req[s].do # "reoffer"
    <3>1. req'[s].kind = "poll" /\ req'[s].pc = "next" /\ req'[s].todo = req[s].todo
          /\ req'[s].out \subseteq req[s].out \cup {req[s].at}
      BY <1>4, <2>2, <1>r, <1>t DEF PollWrite, PollRequest
    <3>. QED  BY <3>1, <2>0, <1>n DEF HandlerInv
  <2>. QED  BY <2>1, <2>2
<1>5. CASE PollReoffer(s)
  <2>1. req'[s].kind = "poll" /\ req'[s].pc = "next" /\ req'[s].todo = req[s].todo
        /\ req'[s].out = req[s].out
    BY <1>5, <1>r, <1>t DEF PollReoffer, PollRequest
  <2>. QED  BY <2>1, <1>n, <1>m DEF HandlerInv
<1>6. CASE PollReply(s)
  BY <1>6, AnswerKnows DEF PollReply, storeVars
<1>. QED  BY <1>1, <1>2, <1>3, <1>4, <1>5, <1>6

\* The steps of acknowledge act on an approved proposal.
LEMMA AckKnows ==
  ASSUME TypeInv, DecisionInv, WritesSoundly, NEW s \in Slots,
         AckRead(s) \/ AckUpdate(s) \/ AckProposal(s)
  PROVE  HandlerInv(s)'
<1>t. req \in [Slots -> Requests] /\ HandlerInv(s)
  BY DEF DecisionInv, HandlersApproved, TypeInv, TypeOK, BridgeTypeOK, Requests
<1>k. req[s].kind = "ack"
  BY DEF AckRead, AckUpdate, AckProposal, At
<1>r. req[s] \in AckRequest
  BY <1>t, <1>k, RequestKinds
<1>m. prop'[req[s].msg.p].approved
  BY <1>t, <1>k, <1>r, DocStep DEF HandlerInv, AckRequest, Ack
<1>1. \/ req'[s].kind = "ack" /\ req'[s].msg = req[s].msg
      \/ req'[s].kind = "free"
  BY <1>t, <1>r DEF AckRead, AckUpdate, AckProposal, Answer, Goto, AckRequest, Free
<1>. QED  BY <1>1, <1>m DEF HandlerInv

\* The steps of accept_bridge_heartbeat act on approved proposals.
LEMMA BeatKnows ==
  ASSUME TypeInv, DecisionInv, WritesSoundly, NEW s \in Slots,
         BeatSave(s) \/ BeatList(s) \/ BeatCheck(s) \/ BeatWrite(s)
         \/ BeatFill(s) \/ BeatLife(s) \/ BeatReply(s)
  PROVE  HandlerInv(s)'
<1>t. req \in [Slots -> Requests] /\ HandlerInv(s)
  BY DEF DecisionInv, HandlersApproved, TypeInv, TypeOK, BridgeTypeOK, Requests
<1>k. req[s].kind = "beat"
  BY DEF BeatSave, BeatList, BeatCheck, BeatWrite, BeatFill, BeatLife, BeatReply, At
<1>r. req[s] \in BeatRequest
  BY <1>t, <1>k, RequestKinds
<1>m. \A p \in Proposals : prop[p].approved => prop'[p].approved
  BY DocStep
<1>n. /\ \A p \in req[s].todo : p \in Proposals /\ prop[p].approved
      /\ req[s].pc \in {"write", "fill", "life"} =>
           req[s].at \in Proposals /\ prop[req[s].at].approved
  BY <1>t, <1>k, <1>r DEF HandlerInv, BeatRequest, TypeInv, HandlerShape
<1>1. CASE BeatSave(s) \/ BeatWrite(s) \/ BeatFill(s)
  <2>1. PICK pc \in {"list", "fill", "life"} :
          Goto(s, pc) /\ (pc = "list" \/ req[s].pc \in {"write", "fill", "life"})
    BY <1>1 DEF BeatSave, BeatWrite, BeatFill, At
  <2>2. req'[s].kind = "beat" /\ req'[s].pc = pc /\ req'[s].todo = req[s].todo
        /\ req'[s].at = req[s].at
    BY <2>1, <1>r, <1>t DEF Goto, BeatRequest
  <2>. QED  BY <2>1, <2>2, <1>n, <1>m DEF HandlerInv
<1>2. CASE BeatList(s)
  <2>1. req'[s].kind = "beat" /\ req'[s].pc = "next"
        /\ req'[s].todo = {p \in Proposals : prop[p].approved}
    BY <1>2, <1>r, <1>t DEF BeatList, BeatRequest
  <2>. QED  BY <2>1, <1>m DEF HandlerInv
<1>3. CASE BeatCheck(s)
  <2>1. PICK q \in req[s].todo :
       LET do == IF BeatSeesPending(req[s], q) THEN "pending"
                 ELSE IF BeatSeesFill(req[s], q) THEN "fill" ELSE "none" IN
         req' = [req EXCEPT ![s].todo = @ \ {q}, ![s].at = q, ![s].do = do,
                            ![s].pc = IF do = "none" THEN "life" ELSE "write"]
    BY <1>3 DEF BeatCheck
  <2>2. req'[s].kind = "beat" /\ req'[s].todo \subseteq req[s].todo /\ req'[s].at = q
    BY <2>1, <1>r, <1>t DEF BeatRequest
  <2>. QED  BY <2>2, <1>n, <1>m DEF HandlerInv
<1>4. CASE BeatLife(s)
  <2>1. req'[s].kind = "beat" /\ req'[s].pc = "next" /\ req'[s].todo = req[s].todo
    BY <1>4, <1>r, <1>t DEF BeatLife, BeatRequest
  <2>. QED  BY <2>1, <1>n, <1>m DEF HandlerInv
<1>5. CASE BeatReply(s)
  BY <1>5, AnswerKnows DEF BeatReply, storeVars
<1>. QED  BY <1>1, <1>2, <1>3, <1>4, <1>5

\* Whoever writes a command knows that its proposal is approved.
LEMMA CommandsStep ==
  ASSUME TypeInv, DecisionInv, WritesSoundly,
         (\E s \in Slots : HandlerProceeds(s)) \/ OperatorNext \/ UNCHANGED cmd
  PROVE  CommandsApproved'
<1>t. cmd \in [Proposals -> CommandDoc] /\ CommandsApproved
  BY DEF TypeInv, TypeOK, StoreTypeOK, DecisionInv
<1>m. \A p \in Proposals : prop[p].approved => prop'[p].approved
  BY DocStep
<1>w. ASSUME NEW p \in Proposals, prop[p].approved,
             \A q \in Proposals \ {p} : cmd'[q] = cmd[q]
      PROVE  CommandsApproved'
  BY <1>w, <1>t, <1>m DEF CommandsApproved
<1>u. ASSUME UNCHANGED cmd PROVE CommandsApproved'
  BY <1>u, <1>t, <1>m DEF CommandsApproved
<1>1. ASSUME NEW s \in Slots, HandlerProceeds(s) PROVE CommandsApproved'
  <2>h. HandlerInv(s) /\ req[s] \in Requests
    BY DEF DecisionInv, HandlersApproved, TypeInv, TypeOK, BridgeTypeOK, Requests
  <2>1. CASE PollWrite(s)
    <3>1. req[s].at \in Proposals /\ prop[req[s].at].approved
      BY <2>1, <2>h DEF PollWrite, At, HandlerInv, TypeInv, HandlerShape
    <3>. QED  BY <2>1, <3>1, <1>t, <1>w DEF PollWrite
  <2>2. CASE AckUpdate(s)
    <3>0. req[s] \in AckRequest /\ req[s].kind = "ack"
      BY <2>2, <2>h, RequestKinds DEF AckUpdate, At
    <3>1. req[s].msg.p \in Proposals /\ prop[req[s].msg.p].approved
      BY <3>0, <2>h DEF HandlerInv, AckRequest, Ack
    <3>. QED  BY <2>2, <3>1, <1>t, <1>w DEF AckUpdate
  <2>3. CASE BeatWrite(s)
    <3>1. req[s].at \in Proposals /\ prop[req[s].at].approved
      BY <2>3, <2>h DEF BeatWrite, At, HandlerInv, TypeInv, HandlerShape
    <3>2. \A q \in Proposals \ {req[s].at} : cmd'[q] = cmd[q]
      BY <2>3, <1>t DEF BeatWrite
    <3>. QED  BY <3>1, <3>2, <1>w
  <2>4. CASE ~(PollWrite(s) \/ AckUpdate(s) \/ BeatWrite(s))
    <3>1. UNCHANGED cmd
      BY <1>1, <2>4 DEF HandlerProceeds, PollReadiness, PollList, PollCheck, PollReoffer, PollReply,
        AckRead, AckProposal, BeatSave, BeatList, BeatCheck, BeatFill, BeatLife, BeatReply, storeVars
    <3>. QED  BY <3>1, <1>u
  <2>. QED  BY <2>1, <2>2, <2>3, <2>4
<1>2. ASSUME NEW c \in Callbacks, CallbackStarts(c) \/ CallbackProceeds(c) \/ CallbackEnds(c)
      PROVE  CommandsApproved'
  <2>1. CASE ApproveSaveCommand(c)
    <3>1. cb[c].p \in Proposals /\ prop[cb[c].p].approved
      BY <2>1 DEF ApproveSaveCommand, DecisionInv, ViewShape, ViewInv, TypeInv, CallbackShape
    <3>. QED  BY <2>1, <3>1, <1>t, <1>w DEF ApproveSaveCommand
  <2>2. CASE ~ApproveSaveCommand(c)
    <3>1. UNCHANGED cmd
      BY <1>2, <2>2 DEF CallbackStarts, CallbackProceeds, CallbackEnds, ApproveRead, Reject,
        OfferRead, SupersedeList, ApproveExpired, ApproveGate, ApproveBlocked, ApproveQuote,
        ApproveInvalidates, ApproveRecheck, ApproveClaim, ApproveQueue, OfferCreate,
        OfferLinkRead, OfferLinkWrite, SupersedeWrite, storeVars, restOfStore
    <3>. QED  BY <3>1, <1>u
  <2>. QED  BY <2>1, <2>2
<1>. QED  BY <1>1, <1>2, <1>u DEF OperatorNext

-----------------------------------------------------------------------------

\* A request the EA sends is about approved proposals, or knows none yet.
LEMMA SentKnows ==
  ASSUME TypeInv, DecisionInv, UNCHANGED prop, NEW s \in Slots, NEW r, Send(s, r),
         \/ \E orders, positions : r = NewBeat(orders, positions)
         \/ r = NewPoll
         \/ \E msg : r = NewAck(msg) /\ prop[msg.p].approved
  PROVE  HandlersApproved'
<1>1. req'[s] = r /\ \A q \in Slots \ {s} : req'[q] = req[q]
  BY DEF Send, TypeInv, TypeOK, BridgeTypeOK
<1>2. HandlerInv(s)'
  BY <1>1 DEF HandlerInv, NewBeat, NewPoll, NewAck
<1>. QED  BY <1>1, <1>2, HandlerKept DEF HandlersApproved, WritesSoundly

\* Requests at most freed or answered.
LEMMA FreedKnows ==
  ASSUME TypeInv, DecisionInv, UNCHANGED prop,
         \A s \in Slots : req'[s] = req[s] \/ req'[s] = Free
  PROVE  HandlersApproved'
<1>1. ASSUME NEW s \in Slots PROVE HandlerInv(s)'
  <2>1. CASE req'[s] = Free
    BY <2>1 DEF HandlerInv, Free
  <2>2. CASE req'[s] = req[s]
    BY <2>2, HandlerKept DEF WritesSoundly
  <2>. QED  BY <2>1, <2>2
<1>. QED  BY <1>1 DEF HandlersApproved

\* A step of one handler keeps what all of them know.
LEMMA HandlersStep ==
  ASSUME TypeInv, DecisionInv, WritesSoundly, NEW s \in Slots, HandlerProceeds(s)
  PROVE  HandlersApproved'
<1>1. \A q \in Slots \ {s} : req'[q] = req[q]
  BY DEF HandlerProceeds, PollReadiness, PollList, PollCheck, PollWrite, PollReoffer, PollReply,
    AckRead, AckUpdate, AckProposal, BeatSave, BeatList, BeatCheck, BeatWrite, BeatFill, BeatLife,
    BeatReply, Goto, Answer, TypeInv, TypeOK, BridgeTypeOK
<1>2. HandlerInv(s)'
  BY PollKnows, AckKnows, BeatKnows DEF HandlerProceeds
<1>. QED  BY <1>1, <1>2, HandlerKept DEF HandlersApproved

\* The EA sends, runs and submits what is approved.
LEMMA EAStep ==
  ASSUME TypeInv, DecisionInv, EASteps, UNCHANGED prop
  PROVE  HandlersApproved' /\ EAApproved'
<1>t. EAApproved /\ ea \in EAState /\ placed \in [Proposals -> Nat]
      /\ req \in [Slots -> Requests]
  BY DEF DecisionInv, TypeInv, TypeOK, EATypeOK, BridgeTypeOK, Requests
<1>h. ASSUME UNCHANGED req PROVE HandlersApproved'
  BY <1>h, FreedKnows
<1>f. ASSUME Take PROVE HandlersApproved'
  <2>1. \A s \in Slots : req'[s] = req[s] \/ req'[s] = Free
    BY <1>f, <1>t DEF Take
  <2>. QED  BY <2>1, FreedKnows
<1>q. ASSUME ea'.pc \notin {"submit", "record"}, ea'.queue \subseteq ea.queue, UNCHANGED placed
      PROVE  EAApproved'
  BY <1>q, <1>t DEF EAApproved
<1>a. ASSUME NEW p \in Proposals, Acking(p), UNCHANGED placed PROVE EAApproved'
  <2>1. ea'.pc = "acking" /\ ea'.queue \subseteq ea.queue
    BY <1>a, <1>t DEF Acking, EAState
  <2>. QED  BY <1>a, <2>1, <1>q
<1>s. ASSUME NEW s \in Slots, NEW p \in Proposals, NEW status, NEW ticket, NEW retcode,
             NEW attempted, NEW text, SendAck(s, p, status, ticket, retcode, attempted, text),
             prop[p].approved
      PROVE  HandlersApproved'
  BY <1>s, SentKnows DEF SendAck
<1>1. ASSUME NEW s \in Slots, SendHeartbeat(s) PROVE HandlersApproved' /\ EAApproved'
  <2>1. HandlersApproved'
    BY <1>1, SentKnows DEF SendHeartbeat
  <2>2. ea'.pc = "beating" /\ ea'.queue = ea.queue
    BY <1>1, <1>t DEF SendHeartbeat, EAState
  <2>. QED  BY <1>1, <2>1, <2>2, <1>q DEF SendHeartbeat
<1>2. ASSUME NEW s \in Slots, PollCommands(s) PROVE HandlersApproved' /\ EAApproved'
  <2>1. HandlersApproved'
    BY <1>2, SentKnows DEF PollCommands
  <2>2. ea'.pc = "polling" /\ ea'.queue = ea.queue
    BY <1>2, <1>t DEF PollCommands, EAState
  <2>. QED  BY <1>2, <2>1, <2>2, <1>q DEF PollCommands
<1>3. ASSUME NEW s \in Slots, Record(s) PROVE HandlersApproved' /\ EAApproved'
  <2>. DEFINE p == ea.at
  <2>1. p \in Proposals /\ prop[p].approved
    BY <1>3, <1>t DEF Record, EAApproved, TypeInv, EAShape
  <2>2. SendAck(s, p, ResultStatus(ea.result), ea.ticket, ea.result, "yes", "other")
        /\ Acking(p) /\ UNCHANGED placed
    BY <1>3 DEF Record
  <2>. HIDE DEF p
  <2>. QED  BY <2>1, <2>2, <1>a, <1>s
<1>4. CASE HeartbeatAnswered
  <2>1. ea'.pc = "poll" /\ ea'.queue = ea.queue
    BY <1>4, <1>t DEF HeartbeatAnswered, EAState
  <2>. QED  BY <1>4, <2>1, <1>f, <1>q DEF HeartbeatAnswered
<1>5. CASE PollAnswered
  <2>. DEFINE q == IF req[waiting].pc = "reply" THEN req[waiting].out ELSE {}
  <2>1. waiting \in Slots /\ req[waiting].kind = "poll"
    BY <1>5 DEF PollAnswered, Take, TypeInv, EAShape
  <2>2. \A p \in q : prop[p].approved
    BY <2>1 DEF DecisionInv, HandlersApproved, HandlerInv
  <2>3. ea' = Resume(q)
    BY <1>5 DEF PollAnswered
  <2>. HIDE DEF q
  <2>4. ea'.pc \in {"idle", "run"} /\ ea'.queue = q
    BY <2>3 DEF Resume, EAIdle
  <2>5. EAApproved'
    BY <1>5, <2>2, <2>4, <1>t DEF PollAnswered, EAApproved
  <2>. QED  BY <1>5, <2>5, <1>f DEF PollAnswered
<1>6. CASE AckAnswered
  <2>1. ea'.pc \in {"idle", "run"} /\ ea'.queue = ea.queue
    BY <1>6 DEF AckAnswered, Resume, EAIdle
  <2>. QED  BY <1>6, <2>1, <1>f, <1>q DEF AckAnswered
<1>7. ASSUME NEW p \in Proposals, ExecuteBegin(p) PROVE HandlersApproved' /\ EAApproved'
  <2>1. ea'.at = p /\ ea'.queue = ea.queue /\ p \in ea.queue
    BY <1>7, <1>t DEF ExecuteBegin, EAState
  <2>. QED  BY <1>7, <2>1, <1>h, <1>t DEF ExecuteBegin, bridgeVars, EAApproved
<1>8. ASSUME NEW p \in Proposals, NEW s \in Slots,
             ExecuteReplay(s, p) \/ ExecuteRefuse(s, p) \/ ExecuteUnprepared(s, p)
      PROVE  HandlersApproved' /\ EAApproved'
  <2>1. prop[p].approved /\ Acking(p) /\ UNCHANGED placed
    BY <1>8, <1>t DEF ExecuteReplay, ExecuteRefuse, ExecuteUnprepared, EAApproved
  <2>2. HandlersApproved'
    BY <1>8, <2>1, <1>s DEF ExecuteReplay, ExecuteRefuse, ExecuteUnprepared
  <2>. QED  BY <2>1, <2>2, <1>a
<1>9. CASE Submit
  <2>. DEFINE p == ea.at
  <2>1. p \in Proposals /\ prop[p].approved /\ ea.pc = "submit"
    BY <1>9, <1>t DEF Submit, EAApproved, TypeInv, EAShape
  <2>2. ea'.at = ea.at /\ ea'.queue = ea.queue
    BY <1>9, <1>t DEF Submit, EAState
  <2>3. \A q \in Proposals \ {p} : placed'[q] = placed[q]
    BY <1>9, <1>t DEF Submit
  <2>4. EAApproved'
    BY <2>1, <2>2, <2>3, <1>t DEF EAApproved
  <2>. QED  BY <1>9, <2>4, <1>h DEF Submit, bridgeVars
<1>. QED  BY <1>1, <1>2, <1>3, <1>4, <1>5, <1>6, <1>7, <1>8, <1>9 DEF EASteps

\* After a time-out, a restart or a failing handler it still does.
LEMMA FaultStep ==
  ASSUME TypeInv, DecisionInv, EAFaults, UNCHANGED prop
  PROVE  HandlersApproved' /\ EAApproved'
<1>t. EAApproved /\ ea \in EAState /\ req \in [Slots -> Requests]
  BY DEF DecisionInv, TypeInv, TypeOK, EATypeOK, BridgeTypeOK, Requests
<1>1. CASE RequestTimesOut
  <2>1. \A s \in Slots : req'[s] = req[s] \/ req'[s] = Free
    BY <1>1, <1>t DEF RequestTimesOut
  <2>2. ea.pc \in {"beating", "polling", "acking"}
    BY <1>1 DEF RequestTimesOut, TypeInv, EAShape
  <2>3. ea'.pc \notin {"submit", "record"} /\ ea'.queue \subseteq ea.queue
    BY <1>1, <2>2, <1>t DEF RequestTimesOut, Resume, EAIdle, EAState
  <2>. QED  BY <1>1, <2>1, <2>3, <1>t, FreedKnows DEF RequestTimesOut, EAApproved
<1>2. CASE EARestarts
  <2>1. \A s \in Slots : req'[s] = req[s] \/ req'[s] = Free
    BY <1>2, <1>t DEF EARestarts
  <2>. QED  BY <1>2, <2>1, <1>t, FreedKnows DEF EARestarts, EAIdle, EAApproved
<1>3. CASE HeartbeatAges
  <2>1. HandlersApproved'
    BY <1>3, FreedKnows DEF HeartbeatAges, bridgeVars
  <2>. QED  BY <1>3, <2>1, <1>t DEF HeartbeatAges, EAApproved
<1>4. ASSUME NEW s \in Slots, RequestFails(s) PROVE HandlersApproved' /\ EAApproved'
  <2>1. HandlerInv(s)'
    BY <1>4, AnswerKnows DEF RequestFails, HandlerDies
  <2>2. \A q \in Slots \ {s} : req'[q] = req[q]
    BY <1>4, <1>t DEF RequestFails, HandlerDies, Answer
  <2>. QED  BY <1>4, <2>1, <2>2, <1>t, HandlerKept
            DEF RequestFails, HandlersApproved, EAApproved, WritesSoundly
<1>. QED  BY <1>1, <1>2, <1>3, <1>4 DEF EAFaults

\* Every step preserves the decision invariant.
LEMMA DecisionStep ==
  ASSUME TypeInv, DecisionInv, [Next]_vars
  PROVE  DecisionInv'
<1>w. WritesSoundly
  BY Writes
<1>m. DocShape' /\ \A p \in Proposals : prop[p].approved => prop'[p].approved
  BY <1>w, DocStep
<1>v. ASSUME UNCHANGED cb PROVE ViewShape'
  BY <1>v, <1>w, ViewKept DEF ViewShape
<1>h. ASSUME UNCHANGED req PROVE HandlersApproved'
  BY <1>h, <1>w, HandlerKept DEF HandlersApproved
<1>e. ASSUME UNCHANGED <<ea, placed>> PROVE EAApproved'
  <2>1. EAApproved /\ ea.queue \subseteq Proposals
        /\ (ea.pc \in {"submit", "record"} => ea.at \in Proposals)
    BY DEF DecisionInv, TypeInv, TypeOK, EATypeOK, EAState, EAShape
  <2>. QED  BY <1>e, <1>m, <2>1 DEF EAApproved
<1>1. ASSUME NEW s \in Slots, HandlerProceeds(s), UNCHANGED <<cb, eaVars>> PROVE DecisionInv'
  <2>1. HandlersApproved' /\ CommandsApproved'
    BY <1>1, <1>w, HandlersStep, CommandsStep
  <2>. QED  BY <1>1, <2>1, <1>m, <1>v, <1>e DEF eaVars, DecisionInv
<1>2. CASE EASteps /\ UNCHANGED cb
  <2>1. UNCHANGED <<prop, cmd>>
    BY <1>2 DEF EASteps, SendHeartbeat, PollCommands, Record, HeartbeatAnswered, PollAnswered,
      AckAnswered, ExecuteBegin, ExecuteReplay, ExecuteRefuse, ExecuteUnprepared, Submit, storeVars
  <2>. QED  BY <1>2, <2>1, <1>w, <1>m, <1>v, EAStep, CommandsStep DEF DecisionInv
<1>3. CASE OperatorNext /\ UNCHANGED <<bridgeVars, eaVars>>
  <2>1. ViewShape' /\ CommandsApproved'
    BY <1>3, <1>w, ViewsStep, CommandsStep
  <2>. QED  BY <1>3, <2>1, <1>m, <1>h, <1>e DEF eaVars, bridgeVars, DecisionInv
<1>4. CASE Environment /\ UNCHANGED <<cb, bridgeVars, eaVars>>
  <2>1. UNCHANGED cmd
    BY <1>4 DEF Environment, Kill, ResetKill, ProposalExpires, CommandLapses
  <2>. QED  BY <1>4, <2>1, <1>w, <1>m, <1>v, <1>h, <1>e, CommandsStep
            DEF eaVars, bridgeVars, DecisionInv
<1>5. CASE EAFaults /\ UNCHANGED cb
  <2>1. UNCHANGED <<prop, cmd>>
    BY <1>5 DEF EAFaults, RequestTimesOut, EARestarts, HeartbeatAges, RequestFails, HandlerDies,
      storeVars
  <2>. QED  BY <1>5, <2>1, <1>w, <1>m, <1>v, FaultStep, CommandsStep DEF DecisionInv
<1>6. CASE \E p \in Proposals : BrokerMoves(p) /\ UNCHANGED cb
  <2>1. UNCHANGED <<cb, cmd, req, ea, placed>>
    BY <1>6 DEF BrokerMoves, storeVars, bridgeVars
  <2>. QED  BY <2>1, <1>w, <1>m, <1>v, <1>h, <1>e, CommandsStep DEF DecisionInv
<1>7. CASE UNCHANGED vars
  <2>1. UNCHANGED <<cb, cmd, req, ea, placed>>
    BY <1>7 DEF vars, storeVars, bridgeVars, eaVars
  <2>. QED  BY <2>1, <1>w, <1>m, <1>v, <1>h, <1>e, CommandsStep DEF DecisionInv
<1>. QED  BY <1>1, <1>2, <1>3, <1>4, <1>5, <1>6, <1>7 DEF Next

\* The initial states satisfy the decision invariant.
LEMMA DecisionInit == Init => DecisionInv
<1>. SUFFICES ASSUME Init PROVE DecisionInv
  OBVIOUS
<1>1. DocShape
  <2>1. \A p \in Proposals :
          /\ prop[p] \in {NewProposal("market"), NewProposal("pending"), NoProposal}
          /\ prop[p] = NoProposal => p \in Replacements
    BY DEF Init, StoreInit
  <2>2. /\ \A otype \in OrderTypes :
             LET d == NewProposal(otype) IN
               ~d.approved /\ ~d.rejected /\ d.status # "absent"
        /\ ~NoProposal.approved /\ ~NoProposal.rejected /\ NoProposal.ver = 0
    BY DEF NewProposal, NoProposal
  <2>. QED  BY <2>1, <2>2 DEF DocShape, OrderTypes
<1>2. ViewShape
  BY DEF Init, OperatorInit, Idle, ViewShape, ViewInv
<1>3. CommandsApproved
  BY DEF Init, StoreInit, CommandsApproved, NoCommand, NewCommand
<1>4. HandlersApproved
  BY DEF Init, BridgeInit, HandlersApproved, HandlerInv, Free
<1>5. EAApproved
  BY DEF Init, EAInit, EAApproved, EAIdle
<1>. QED  BY <1>1, <1>2, <1>3, <1>4, <1>5 DEF DecisionInv

\* The decision invariant holds throughout.
LEMMA DecisionInvariant == Spec => []DecisionInv
<1>1. TypeInv /\ DecisionInv /\ [Next]_vars => DecisionInv'
  BY DecisionStep
<1>. QED  BY <1>1, DecisionInit, TypeInvariant, PTL DEF Spec

\* Every order the broker has taken is of a proposal an operator approved and none
\* rejected, for any number of racing callbacks and requests.
THEOREM OrdersApproved == Spec => []OrderHasApproval
<1>1. DecisionInv => OrderHasApproval
  BY DEF DecisionInv, DocShape, EAApproved, OrderHasApproval
<1>. QED  BY <1>1, DecisionInvariant, PTL

\* No write of any handler undoes or overwrites an operator's decision: the
\* versioned write refuses a callback whose document has changed.
THEOREM DecisionsFinal == Spec => DecisionsAreFinal
<1>1. TypeInv /\ DecisionInv /\ [Next]_vars =>
        [\A p \in Proposals :
           /\ prop[p].approved => prop'[p].approved /\ ~prop'[p].rejected
           /\ prop[p].rejected => prop'[p].rejected /\ ~prop'[p].approved]_vars
  <2>1. ASSUME TypeInv, DecisionInv, [Next]_vars, NEW p \in Proposals
        PROVE  /\ prop[p].approved => prop'[p].approved /\ ~prop'[p].rejected
               /\ prop[p].rejected => prop'[p].rejected /\ ~prop'[p].approved
    <3>1. /\ prop[p].approved => prop'[p].approved
          /\ prop[p].rejected => prop'[p].rejected
          /\ prop'[p].approved => ~prop'[p].rejected
      BY <2>1, Writes, DocStep DEF DocShape
    <3>. QED  BY <3>1
  <2>. QED  BY <2>1
<1>. QED  BY <1>1, TypeInvariant, DecisionInvariant, PTL DEF Spec, DecisionsAreFinal

-----------------------------------------------------------------------------
(* Orders. *)

\* A working journal holds the record after the call.
LEMMA WorkingJournal ==
  ASSUME ~JournalFaults, EATypeOK, NEW p \in Proposals, NEW status, NEW ticket,
         JournalAppend(p, status, ticket)
  PROVE  /\ journal'[p].status = status
         /\ \A q \in Proposals \ {p} : journal'[q] = journal[q]
BY DEF JournalAppend, EATypeOK

\* Without journal failures every step keeps the journal ahead of the broker.
LEMMA JournalStep ==
  ASSUME ~JournalFaults, TypeInv, JournalFirst, [Next]_vars
  PROVE  JournalFirst'
<1>t. EATypeOK /\ placed \in [Proposals -> Nat] /\ ea \in EAState
  BY DEF TypeInv, TypeOK, EATypeOK
<1>j. ASSUME UNCHANGED placed,
             \A p \in Proposals : journal[p].status # "none" => journal'[p].status # "none",
             ea'.pc = "submit" => ea' = ea
      PROVE  JournalFirst'
  <2>1. ea.pc = "submit" => ea.at \in Proposals
    BY DEF TypeInv, EAShape
  <2>. QED  BY <1>j, <2>1 DEF JournalFirst
<1>k. ASSUME NEW p \in Proposals, NEW status \in {"rejected", "broker_uncertain", "reconciled"},
             NEW ticket, JournalAppend(p, status, ticket)
      PROVE  \A q \in Proposals : journal[q].status # "none" => journal'[q].status # "none"
  BY <1>k, <1>t, WorkingJournal
<1>1. ASSUME UNCHANGED eaVars PROVE JournalFirst'
  BY <1>1, <1>j DEF eaVars
<1>2. CASE EASteps
  <2>a. ASSUME NEW p \in Proposals, Acking(p) PROVE ea'.pc # "submit"
    BY <2>a, <1>t DEF Acking, EAState
  <2>1. ASSUME NEW s \in Slots, SendHeartbeat(s) \/ PollCommands(s) PROVE JournalFirst'
    BY <2>1, <1>j, <1>t DEF SendHeartbeat, PollCommands, EAState
  <2>2. ASSUME NEW s \in Slots, Record(s) PROVE JournalFirst'
    <3>. DEFINE p == ea.at
                st == ResultStatus(ea.result)
    <3>1. p \in Proposals
      BY <2>2 DEF Record, TypeInv, EAShape
    <3>2. st \in {"rejected", "broker_uncertain", "reconciled"}
      BY DEF ResultStatus
    <3>3. JournalAppend(p, st, ea.ticket) /\ Acking(p) /\ UNCHANGED placed
      BY <2>2 DEF Record
    <3>. HIDE DEF p, st
    <3>. QED  BY <3>1, <3>2, <3>3, <2>a, <1>j, <1>k
  <2>3. CASE HeartbeatAnswered \/ PollAnswered \/ AckAnswered
    <3>1. ea'.pc # "submit"
      BY <2>3, <1>t DEF HeartbeatAnswered, PollAnswered, AckAnswered, Resume, EAIdle, EAState
    <3>. QED  BY <3>1, <2>3, <1>j DEF HeartbeatAnswered, PollAnswered, AckAnswered
  <2>4. ASSUME NEW p \in Proposals, ExecuteBegin(p) PROVE JournalFirst'
    <3>1. /\ journal[p].status = "none" /\ JournalAppend(p, "broker_uncertain", FALSE)
          /\ ea' = [ea EXCEPT !.pc = "submit", !.at = p] /\ UNCHANGED placed
      BY <2>4 DEF ExecuteBegin
    <3>2. ea'.at = p
      BY <3>1, <1>t DEF EAState
    <3>3. placed[p] = 0
      BY <3>1, <1>t DEF JournalFirst
    <3>4. journal'[p].status = "broker_uncertain"
          /\ \A q \in Proposals \ {p} : journal'[q] = journal[q]
      BY <3>1, <1>t, WorkingJournal
    <3>. QED  BY <3>1, <3>2, <3>3, <3>4 DEF JournalFirst
  <2>5. ASSUME NEW p \in Proposals, NEW s \in Slots,
               ExecuteReplay(s, p) \/ ExecuteRefuse(s, p) \/ ExecuteUnprepared(s, p)
        PROVE  JournalFirst'
    <3>1. Acking(p) /\ UNCHANGED placed
      BY <2>5 DEF ExecuteReplay, ExecuteRefuse, ExecuteUnprepared
    <3>2. UNCHANGED journal \/ JournalAppend(p, "rejected", FALSE)
      BY <2>5 DEF ExecuteReplay, ExecuteRefuse, ExecuteUnprepared
    <3>. QED  BY <3>1, <3>2, <2>a, <1>j, <1>k
  <2>6. CASE Submit
    <3>. DEFINE p == ea.at
    <3>1. p \in Proposals /\ placed[p] = 0 /\ journal[p].status # "none"
      BY <2>6 DEF Submit, JournalFirst, TypeInv, EAShape
    <3>2. UNCHANGED journal /\ (placed' = placed \/ placed' = [placed EXCEPT ![p] = @ + 1])
      BY <2>6 DEF Submit
    <3>3. ea'.pc = "record"
      BY <2>6, <1>t DEF Submit, EAState
    <3>. HIDE DEF p
    <3>. QED  BY <3>1, <3>2, <3>3, <1>t DEF JournalFirst
  <2>. QED  BY <1>2, <2>1, <2>2, <2>3, <2>4, <2>5, <2>6 DEF EASteps
<1>3. CASE EAFaults
  <2>1. CASE RequestTimesOut
    <3>1. ea.pc # "submit"
      BY <2>1 DEF RequestTimesOut, TypeInv, EAShape
    <3>2. ea'.pc # "submit"
      BY <2>1, <3>1, <1>t DEF RequestTimesOut, Resume, EAIdle, EAState
    <3>. QED  BY <3>2, <2>1, <1>j DEF RequestTimesOut
  <2>2. CASE EARestarts
    BY <2>2, <1>j DEF EARestarts, EAIdle
  <2>3. CASE HeartbeatAges \/ \E s \in Slots : RequestFails(s)
    BY <2>3, <1>j DEF HeartbeatAges, RequestFails
  <2>. QED  BY <1>3, <2>1, <2>2, <2>3 DEF EAFaults
<1>4. ASSUME NEW p \in Proposals, BrokerMoves(p) PROVE JournalFirst'
  BY <1>4, <1>j DEF BrokerMoves
<1>. QED  BY <1>1, <1>2, <1>3, <1>4 DEF Next, vars, eaVars

\* So it is ahead of the broker throughout.
LEMMA JournalFirstInvariant ==
  ASSUME ~JournalFaults
  PROVE  Spec => []JournalFirst
<1>1. Init => JournalFirst
  BY DEF Init, EAInit, JournalFirst, EAIdle
<1>2. TypeInv /\ JournalFirst /\ [Next]_vars => JournalFirst'
  BY JournalStep
<1>. QED  BY <1>1, <1>2, TypeInvariant, PTL DEF Spec

\* If JournalAppend always writes its record, the broker takes at most one order
\* for a proposal, whatever is lost, repeated or restarted and however many
\* requests overlap: ExecuteCommand journals the attempt before the broker call.
THEOREM OneOrder ==
  ASSUME ~JournalFaults
  PROVE  Spec => []AtMostOneOrder
<1>1. JournalFirst => AtMostOneOrder
  BY DEF JournalFirst, AtMostOneOrder
<1>. QED  BY <1>1, JournalFirstInvariant, PTL

-----------------------------------------------------------------------------
(* ControlPlane implements OrderAuthorization *)

\* The refinement mapping is the verdict on each document.
LEMMA DecisionIsVerdict == decision = [p \in Proposals |-> Verdict(prop[p])]
BY DEF decision, Verdict

\* A verdict is one of the decisions of the promise.
LEMMA VerdictValues ==
  ASSUME NEW d
  PROVE  Verdict(d) \in {"open", "approved", "refused"}
BY DEF Verdict

\* A sound write is a decision, or no step of the promise.
LEMMA WriteRefines ==
  ASSUME TypeInv, DecisionInv, WritesSoundly, UNCHANGED placed
  PROVE  [Promise!Next]_Promise!vars
<1>1. CASE UNCHANGED prop
  BY <1>1 DEF Promise!vars, decision
<1>2. ASSUME NEW p \in Proposals, NEW d \in ProposalDoc,
             prop' = [prop EXCEPT ![p] = d], SoundWrite(prop[p], d)
      PROVE  [Promise!Next]_Promise!vars
  <2>t. prop \in [Proposals -> ProposalDoc]
    BY DEF TypeInv, TypeOK, StoreTypeOK
  <2>1. decision' = [q \in Proposals |-> Verdict(prop'[q])]
    BY DEF decision, Verdict
  <2>2. \A q \in Proposals : Verdict(prop'[q]) = IF q = p THEN Verdict(d) ELSE Verdict(prop[q])
    BY <1>2, <2>t
  <2>3. decision' = [decision EXCEPT ![p] = Verdict(d)]
    BY <2>1, <2>2, DecisionIsVerdict
  <2>4. decision[p] = Verdict(prop[p])
    BY DecisionIsVerdict
  <2>5. CASE Verdict(d) = Verdict(prop[p])
    <3>1. decision' = decision
      BY <2>1, <2>2, <2>5, DecisionIsVerdict
    <3>. QED  BY <3>1 DEF Promise!vars
  <2>6. CASE Verdict(prop[p]) = "open" /\ Verdict(d) = "approved"
    <3>1. Promise!Approve(p)
      BY <2>3, <2>4, <2>6 DEF Promise!Approve
    <3>. QED  BY <3>1 DEF Promise!Next
  <2>7. CASE Verdict(prop[p]) = "open" /\ Verdict(d) = "refused"
    <3>1. Promise!Refuse(p)
      BY <2>3, <2>4, <2>7 DEF Promise!Refuse
    <3>. QED  BY <3>1 DEF Promise!Next
  <2>. QED  BY <1>2, <2>5, <2>6, <2>7, VerdictValues DEF SoundWrite
<1>. QED  BY <1>1, <1>2 DEF WritesSoundly

\* The broker call is a placement of the promise, or no step of it.
LEMMA SubmitRefines ==
  ASSUME TypeInv, DecisionInv, JournalFirst, Submit
  PROVE  [Promise!Next]_Promise!vars
<1>. DEFINE p == ea.at
<1>1. /\ p \in Proposals /\ prop[p].approved /\ placed[p] = 0
      /\ UNCHANGED prop /\ (placed' = placed \/ placed' = [placed EXCEPT ![p] = @ + 1])
  BY DEF Submit, storeVars, TypeInv, EAShape, DecisionInv, EAApproved, JournalFirst
<1>2. decision[p] = "approved" /\ UNCHANGED decision
  BY <1>1 DEF decision
<1>3. CASE placed' = placed
  BY <1>2, <1>3 DEF Promise!vars
<1>4. CASE placed' = [placed EXCEPT ![p] = @ + 1]
  <2>1. placed' = [placed EXCEPT ![p] = 1]
    BY <1>1, <1>4
  <2>2. Promise!PlaceOrder(p)
    BY <1>1, <1>2, <2>1 DEF Promise!PlaceOrder
  <2>. QED  BY <1>1, <2>2 DEF Promise!Next
<1>. QED  BY <1>1, <1>3, <1>4

\* With a working journal the control plane, the EA and the broker implement the
\* promise: one final decision per proposal and at most one order, for an
\* approved one.
THEOREM Refinement ==
  ASSUME ~JournalFaults
  PROVE  Spec => KeepsPromise
<1>1. Init => Promise!Init
  <2>. SUFFICES ASSUME Init PROVE Promise!Init
    OBVIOUS
  <2>1. \A p \in Proposals :
          prop[p] \in {NewProposal("market"), NewProposal("pending"), NoProposal}
    BY DEF Init, StoreInit
  <2>2. /\ Verdict(NewProposal("market")) = "open" /\ Verdict(NewProposal("pending")) = "open"
        /\ Verdict(NoProposal) = "open"
    BY DEF Verdict, NewProposal, NoProposal
  <2>3. \A p \in Proposals : Verdict(prop[p]) = "open"
    BY <2>1, <2>2
  <2>. QED  BY <2>3, DecisionIsVerdict DEF Promise!Init, Init, EAInit
<1>2. TypeInv /\ DecisionInv /\ JournalFirst /\ [Next]_vars => [Promise!Next]_Promise!vars
  <2>. SUFFICES ASSUME TypeInv, DecisionInv, JournalFirst, [Next]_vars
                PROVE  [Promise!Next]_Promise!vars
    OBVIOUS
  <2>1. CASE UNCHANGED placed
    BY <2>1, Writes, WriteRefines
  <2>2. CASE Submit
    BY <2>2, SubmitRefines
  <2>3. UNCHANGED placed \/ Submit
    BY DEF Next, vars, eaVars, EASteps, EAFaults, SendHeartbeat, PollCommands, Record,
      HeartbeatAnswered, PollAnswered, AckAnswered, ExecuteBegin, ExecuteReplay, ExecuteRefuse,
      ExecuteUnprepared, RequestTimesOut, EARestarts, HeartbeatAges, RequestFails, BrokerMoves
  <2>. QED  BY <2>1, <2>2, <2>3
<1>3. Init => JournalFirst
  BY DEF Init, EAInit, JournalFirst, EAIdle
<1>4. TypeInv /\ JournalFirst /\ [Next]_vars => JournalFirst'
  BY JournalStep
<1>. QED  BY <1>1, <1>2, <1>3, <1>4, TypeInvariant, DecisionInvariant, PTL
          DEF Spec, KeepsPromise, Promise!Spec

----------------------------------------------------------------------------
(* One order for an original and its replacement. *)

\* A command that must not be submitted stays so, and who is not approve
\* creates none.
EligibilityKept == \A p \in Proposals : cmd[p].elig => cmd'[p].elig
NoNewCommand ==
  \A p \in Proposals : cmd'[p].status # "absent" => cmd[p].status # "absent"

\* A free slot knows nothing that could be out of date.
LEMMA FreeCurrent ==
  ASSUME NEW s \in Slots, req'[s] = Free
  PROVE  PollCurrent(s)' /\ AckCurrent(s)' /\ BeatCurrent(s)'
BY DEF PollCurrent, AckCurrent, BeatCurrent, Free

\* While the EA is not waiting the server handles nothing.
LEMMA EAAlone ==
  ASSUME TypeInv, OneRequest, ea.pc \notin {"beating", "polling", "acking"}
  PROVE  waiting = "none" /\ \A s \in Slots : req[s] = Free
<1>1. waiting = "none"
  BY DEF TypeInv, TypeOK, BridgeTypeOK, EAShape
<1>. QED  BY <1>1, SlotAssumption DEF OneRequest

\* The EA waits for the one request a handler acts on.
LEMMA HandlerAlone ==
  ASSUME TypeInv, OneRequest, NEW s \in Slots, req[s].kind \in {"poll", "ack", "beat"}
  PROVE  /\ waiting = s
         /\ \A q \in Slots \ {s} : req[q] = Free
         /\ ea.pc \notin {"submit", "record"}
<1>1. waiting = s /\ \A q \in Slots \ {s} : req[q] = Free
  BY DEF OneRequest, Free
<1>. QED  BY <1>1 DEF TypeInv, EAShape

\* A write of a command that may be written: it is not eligible, and becomes so
\* only if it was never placed and the EA has it no more.
LEMMA CommandWrite ==
  ASSUME TypeInv, CommandInv, UNCHANGED <<ea, placed>>, ea.pc \notin {"submit", "record"},
         NEW p \in Proposals, NEW new \in CommandDoc, cmd' = [cmd EXCEPT ![p] = new],
         Offered(p) \/ cmd[p].status \in {"ready", "delivered", "broker_uncertain"},
         new.status \notin {"absent", "ready"},
         new.elig => new.status = "rejected" /\ placed[p] = 0 /\ p \notin ea.queue
  PROVE  /\ CommandsUnplaced' /\ EAOffered' /\ EligibilityKept /\ NoNewCommand
         /\ cmd'[p] = new /\ \A q \in Proposals \ {p} : cmd'[q] = cmd[q]
<1>t. cmd \in [Proposals -> CommandDoc] /\ ea.queue \subseteq Proposals
  BY DEF TypeInv, TypeOK, StoreTypeOK, EATypeOK, EAState
<1>1. cmd'[p] = new /\ \A q \in Proposals \ {p} : cmd'[q] = cmd[q]
  BY <1>t
<1>2. ~cmd[p].elig /\ cmd[p].status # "absent"
  BY DEF CommandInv, CommandsUnplaced, Offered
<1>3. CommandsUnplaced'
  BY <1>1 DEF CommandInv, CommandsUnplaced
<1>4. EAOffered'
  <2>1. ASSUME NEW q \in ea.queue PROVE Offered(q)'
    <3>1. Offered(q)
      BY DEF CommandInv, EAOffered
    <3>. QED  BY <1>1, <1>t, <2>1, <3>1 DEF Offered
  <2>. QED  BY <2>1 DEF EAOffered
<1>. QED  BY <1>1, <1>2, <1>3, <1>4 DEF EligibilityKept, NoNewCommand

\* Nothing a request or the EA knows changes while commands and orders do not.
LEMMA CommandsKept ==
  ASSUME TypeInv, CommandInv, UNCHANGED <<cmd, placed, ea>>
  PROVE  /\ CommandsUnplaced' /\ EAOffered' /\ EligibilityKept /\ NoNewCommand
         /\ \A s \in Slots : req'[s] = req[s] =>
              PollCurrent(s)' /\ AckCurrent(s)' /\ BeatCurrent(s)'
<1>1. CommandsUnplaced' /\ EAOffered' /\ EligibilityKept /\ NoNewCommand
  BY DEF CommandInv, CommandsUnplaced, EAOffered, Offered, EligibilityKept, NoNewCommand
<1>2. ASSUME NEW s \in Slots, req'[s] = req[s]
      PROVE  PollCurrent(s)' /\ AckCurrent(s)' /\ BeatCurrent(s)'
  <2>1. PollCurrent(s) /\ AckCurrent(s) /\ BeatCurrent(s)
    BY DEF CommandInv, RequestsCurrent
  <2>2. PollCurrent(s)'
    BY <1>2, <2>1 DEF PollCurrent, Offered
  <2>3. AckCurrent(s)'
    BY <1>2, <2>1 DEF AckCurrent, Offered
  <2>4. BeatCurrent(s)'
    BY <1>2, <2>1 DEF BeatCurrent
  <2>. QED  BY <2>2, <2>3, <2>4
<1>. QED  BY <1>1, <1>2

-----------------------------------------------------------------------------
(* The bridge endpoints *)

\* commands_for_bridge writes commands as it listed them: the EA waits for its
\* answer, and nobody else writes a command that exists.
LEMMA PollCommandStep ==
  ASSUME TypeInv, CommandInv, UNCHANGED eaVars, NEW s \in Slots,
         PollReadiness(s) \/ PollList(s) \/ PollCheck(s) \/ PollWrite(s)
         \/ PollReoffer(s) \/ PollReply(s)
  PROVE  /\ CommandsUnplaced' /\ EAOffered' /\ EligibilityKept /\ NoNewCommand
         /\ PollCurrent(s)' /\ AckCurrent(s)' /\ BeatCurrent(s)'
<1>t. req \in [Slots -> Requests] /\ cmd \in [Proposals -> CommandDoc]
      /\ PollCurrent(s) /\ UNCHANGED <<ea, placed>>
  BY DEF TypeInv, TypeOK, BridgeTypeOK, StoreTypeOK, Requests, CommandInv, RequestsCurrent, eaVars
<1>k. req[s].kind = "poll"
  BY DEF PollReadiness, PollList, PollCheck, PollWrite, PollReoffer, PollReply, At
<1>r. req[s] \in PollRequest
  BY <1>t, <1>k, RequestKinds
<1>a. ea.pc \notin {"submit", "record"}
  BY <1>k, HandlerAlone DEF CommandInv
<1>n. /\ \A c \in req[s].todo : c.p \in Proposals /\ cmd[c.p].status = c.status
                                /\ c.status \in {"ready", "delivered"}
      /\ \A p \in req[s].out : p \in Proposals /\ Offered(p)
  BY <1>t, <1>k, <1>r DEF PollCurrent, PollRequest, ListedCommand
\* A request that has at most lost entries, or is free, while nothing is written.
<1>f. ASSUME UNCHANGED cmd,
             \/ req'[s] = Free
             \/ /\ req'[s].kind = "poll" /\ req'[s].pc # "write"
                /\ req'[s].todo \subseteq req[s].todo /\ req'[s].out = req[s].out
      PROVE  /\ CommandsUnplaced' /\ EAOffered' /\ EligibilityKept /\ NoNewCommand
             /\ PollCurrent(s)' /\ AckCurrent(s)' /\ BeatCurrent(s)'
  <2>1. CommandsUnplaced' /\ EAOffered' /\ EligibilityKept /\ NoNewCommand
    BY <1>f, <1>t, CommandsKept
  <2>2. CASE req'[s] = Free
    BY <2>1, <2>2, FreeCurrent
  <2>3. CASE /\ req'[s].kind = "poll" /\ req'[s].pc # "write"
             /\ req'[s].todo \subseteq req[s].todo /\ req'[s].out = req[s].out
    BY <1>f, <2>1, <2>3, <1>n DEF PollCurrent, AckCurrent, BeatCurrent, Offered
  <2>. QED  BY <1>f, <2>2, <2>3
<1>1. CASE PollReadiness(s) \/ PollReply(s) \/ PollReoffer(s)
  <2>1. UNCHANGED cmd
    BY <1>1 DEF PollReadiness, PollReply, PollReoffer, storeVars
  <2>2. \/ req'[s] = Free
        \/ /\ req'[s].kind = "poll" /\ req'[s].pc \in {"list", "reply", "next"}
           /\ req'[s].todo = req[s].todo /\ req'[s].out = req[s].out
    BY <1>1, <1>r, <1>t DEF PollReadiness, PollReply, PollReoffer, Answer, PollRequest
  <2>. QED  BY <2>1, <2>2, <1>f
<1>2. CASE PollList(s)
  <2>1. UNCHANGED cmd
    BY <1>2 DEF PollList, storeVars
  <2>2. req'[s].kind = "poll" /\ req'[s].pc = "next" /\ req'[s].out = req[s].out
        /\ req'[s].todo = {c \in ListedCommand : cmd[c.p].status = c.status}
    BY <1>2, <1>r, <1>t DEF PollList, PollRequest
  <2>3. PollCurrent(s)' /\ AckCurrent(s)' /\ BeatCurrent(s)'
    BY <2>1, <2>2, <1>n DEF PollCurrent, AckCurrent, BeatCurrent, Offered
  <2>. QED  BY <2>1, <2>3, <1>t, CommandsKept
<1>3. CASE PollCheck(s)
  <2>0. PICK c \in req[s].todo : \E do \in PollOutcomes(req[s], c) :
          req' = [req EXCEPT ![s].todo = @ \ {c},
             ![s].pc = IF do = "skip" THEN "next" ELSE "write",
             ![s].at = IF do = "skip" THEN "none" ELSE c.p,
             ![s].do = IF do = "skip" THEN "none" ELSE do]
    BY <1>3 DEF PollCheck
  <2>1. PICK do \in PollOutcomes(req[s], c) :
          req' = [req EXCEPT ![s].todo = @ \ {c},
             ![s].pc = IF do = "skip" THEN "next" ELSE "write",
             ![s].at = IF do = "skip" THEN "none" ELSE c.p,
             ![s].do = IF do = "skip" THEN "none" ELSE do]
    BY <2>0
  <2>2. UNCHANGED cmd
    BY <1>3 DEF PollCheck, storeVars
  <2>3. do = "reoffer" => c.status = "ready"
    BY <2>1 DEF PollOutcomes
  <2>4. req'[s].kind = "poll" /\ req'[s].todo = req[s].todo \ {c} /\ req'[s].out = req[s].out
        /\ (req'[s].pc = "write" => req'[s].at = c.p /\ req'[s].do = do)
    BY <2>1, <1>r, <1>t DEF PollRequest
  <2>5. \A d \in req[s].todo \ {c} : d.p # c.p
    <3>1. \A d \in req[s].todo : d = [p |-> d.p, status |-> d.status]
      BY <1>r DEF PollRequest, ListedCommand
    <3>. QED  BY <3>1, <1>n
  <2>6. PollCurrent(s)' /\ AckCurrent(s)' /\ BeatCurrent(s)'
    BY <2>2, <2>3, <2>4, <2>5, <1>n DEF PollCurrent, AckCurrent, BeatCurrent, Offered
  <2>. QED  BY <2>2, <2>6, <1>t, CommandsKept
<1>4. CASE PollWrite(s)
  <2>. DEFINE p == req[s].at
              do == req[s].do
              new == PollChange(do, p)
  <2>0. p \in Proposals /\ cmd[p] \in CommandDoc /\ req[s].pc = "write"
    BY <1>4, <1>t, <1>k DEF PollWrite, At, TypeInv, HandlerShape
  <2>1. /\ cmd[p].status \in {"ready", "delivered"}
        /\ do = "reoffer" => cmd[p].status = "ready"
        /\ \A c \in req[s].todo : c.p # p
    BY <2>0, <1>t, <1>k DEF PollCurrent
  <2>2. ~cmd[p].elig
    BY <2>0, <2>1 DEF CommandInv, CommandsUnplaced
  <2>3. /\ new \in CommandDoc /\ new.status \in {"delivered", "rejected"}
        /\ do # "reoffer" => ~new.elig
        /\ do = "reoffer" => new.status = "rejected"
        /\ do = "deliver" => new.status = "delivered"
    <3>. HIDE DEF p, do
    <3>. QED  BY <2>0, <2>2 DEF PollChange, CommandDoc, CommandStatus
  <2>4. do = "reoffer" => placed[p] = 0 /\ p \notin ea.queue
    BY <2>0, <2>1 DEF CommandInv, CommandsUnplaced, EAOffered, Offered
  <2>5. cmd' = [cmd EXCEPT ![p] = new]
    BY <1>4 DEF PollWrite
  <2>6. /\ CommandsUnplaced' /\ EAOffered' /\ EligibilityKept /\ NoNewCommand
        /\ cmd'[p] = new /\ \A q \in Proposals \ {p} : cmd'[q] = cmd[q]
    <3>. HIDE DEF p, do, new
    <3>. QED  BY <2>0, <2>1, <2>2, <2>3, <2>4, <2>5, <1>t, <1>a, CommandWrite
  <2>7. CASE do = "reoffer"
    <3>1. req'[s].kind = "poll" /\ req'[s].pc = "reoffer" /\ req'[s].todo = req[s].todo
          /\ req'[s].out = req[s].out
      BY <1>4, <2>7, <1>r, <1>t DEF PollWrite, Goto, PollRequest
    <3>2. p \notin req[s].out
      BY <2>1, <2>7, <1>n DEF Offered
    <3>. HIDE DEF p, do, new
    <3>. QED  BY <3>1, <3>2, <2>1, <2>6, <1>n DEF PollCurrent, AckCurrent, BeatCurrent, Offered
  <2>8. CASE do # "reoffer"
    <3>1. req'[s].kind = "poll" /\ req'[s].pc = "next" /\ req'[s].todo = req[s].todo
          /\ req'[s].out \subseteq req[s].out \cup {p}
      BY <1>4, <2>8, <1>r, <1>t DEF PollWrite, PollRequest
    <3>2. cmd'[p].status \notin {"absent", "ready"} /\ ~cmd'[p].elig
      BY <2>3, <2>6, <2>8
    <3>. HIDE DEF p, do, new
    <3>. QED  BY <3>1, <3>2, <2>1, <2>6, <1>n DEF PollCurrent, AckCurrent, BeatCurrent, Offered
  <2>. QED  BY <2>7, <2>8
<1>. QED  BY <1>1, <1>2, <1>3, <1>4

\* acknowledge makes a command replaceable only for a refusal before the broker
\* call: whatever evidence it keeps of an earlier receipt, and whatever it read
\* before, the command has no order.
LEMMA AckCommandStep ==
  ASSUME TypeInv, CommandInv, UNCHANGED eaVars, NEW s \in Slots,
         AckRead(s) \/ AckUpdate(s) \/ AckProposal(s)
  PROVE  /\ CommandsUnplaced' /\ EAOffered' /\ EligibilityKept /\ NoNewCommand
         /\ PollCurrent(s)' /\ AckCurrent(s)' /\ BeatCurrent(s)'
<1>t. req \in [Slots -> Requests] /\ cmd \in [Proposals -> CommandDoc]
      /\ AckCurrent(s) /\ UNCHANGED <<ea, placed>>
  BY DEF TypeInv, TypeOK, BridgeTypeOK, StoreTypeOK, Requests, CommandInv, RequestsCurrent, eaVars
<1>k. req[s].kind = "ack"
  BY DEF AckRead, AckUpdate, AckProposal, At
<1>r. req[s] \in AckRequest
  BY <1>t, <1>k, RequestKinds
<1>m. req[s].msg \in Ack /\ req[s].msg.p \in Proposals /\ req[s].prev \in CommandDoc
  BY <1>r DEF AckRequest, Ack
<1>a. ea.pc \notin {"submit", "record"}
  BY <1>k, HandlerAlone DEF CommandInv
<1>1. CASE AckRead(s) \/ AckProposal(s)
  <2>1. UNCHANGED cmd
    BY <1>1 DEF AckRead, AckProposal, storeVars
  <2>2. \/ req'[s] = Free
        \/ req'[s].kind = "ack" /\ req'[s].msg = req[s].msg
           /\ (req'[s].pc \in {"start", "update"} => req[s].pc = "start")
    BY <1>1, <1>r, <1>t DEF AckRead, AckProposal, Answer, At, AckRequest
  <2>3. CASE req'[s] = Free
    BY <2>1, <2>3, <1>t, FreeCurrent, CommandsKept
  <2>4. CASE req'[s].kind = "ack" /\ req'[s].msg = req[s].msg
             /\ (req'[s].pc \in {"start", "update"} => req[s].pc = "start")
    <3>1. PollCurrent(s)' /\ AckCurrent(s)' /\ BeatCurrent(s)'
      BY <2>1, <2>4, <1>t, <1>k DEF PollCurrent, AckCurrent, BeatCurrent, Offered
    <3>. QED  BY <2>1, <3>1, <1>t, CommandsKept
  <2>. QED  BY <2>2, <2>3, <2>4
<1>2. CASE AckUpdate(s)
  <2>. DEFINE msg == req[s].msg
              prev == req[s].prev
              p == msg.p
              ev == AckEvidence(msg, prev)
              e == AckEligible(p, ev, prev)
              new == AckChange(p, msg, prev)
  <2>1. Offered(p) /\ p \notin ea.queue
        /\ (msg.status = "rejected" /\ msg.attempted = "no" => placed[p] = 0)
    BY <1>2, <1>t, <1>k DEF AckUpdate, At, AckCurrent
  <2>2. new = [cmd[p] EXCEPT !.status = AckStatus(ev), !.elig = e, !.maybe = AckMaybe(ev, prev),
                  !.ticket = ev.ticket, !.retcode = ev.retcode, !.attempted = ev.attempted]
        /\ cmd[p] \in CommandDoc /\ e \in BOOLEAN /\ AckMaybe(ev, prev) \in BOOLEAN
    BY <1>t, <1>m DEF AckChange, AckEligible, AckMaybe
  <2>3. AckStatus(ev) \in {"rejected", "broker_uncertain", "reconciled"} /\ new \in CommandDoc
    <3>1. e \in BOOLEAN /\ AckMaybe(ev, prev) \in BOOLEAN /\ cmd[p] \in CommandDoc
      BY <2>2
    <3>. QED  BY <3>1, <1>m, AckRecords DEF AckChange
  <2>4. new.status = AckStatus(ev) /\ new.elig = e
    <3>. HIDE DEF new, ev, e
    <3>. QED  BY <2>2 DEF CommandDoc
  <2>5. e => msg.status = "rejected" /\ msg.attempted = "no" /\ AckStatus(ev) = "rejected"
    <3>1. e => ev.retcode = "none" /\ ev.attempted = "no" /\ AckStatus(ev) = "rejected"
      BY DEF AckEligible
    <3>2. ev.retcode = "none" => ev = msg
      <4>1. CASE msg.status = prev.status /\ msg.retcode = "none" /\ prev.retcode # "none"
        <5>1. ev.retcode = prev.retcode
          BY <4>1, <1>m DEF AckEvidence, Ack
        <5>. QED  BY <4>1, <5>1
      <4>2. CASE ~(msg.status = prev.status /\ msg.retcode = "none" /\ prev.retcode # "none")
        BY <4>2 DEF AckEvidence
      <4>. QED  BY <4>1, <4>2
    <3>3. AckStatus(msg) = "rejected" => msg.status = "rejected"
      BY DEF AckStatus
    <3>. HIDE DEF ev, msg, e
    <3>. QED  BY <3>1, <3>2, <3>3
  <2>6. cmd' = [cmd EXCEPT ![p] = new]
    BY <1>2 DEF AckUpdate
  <2>7. /\ CommandsUnplaced' /\ EAOffered' /\ EligibilityKept /\ NoNewCommand
    <3>1. p \in Proposals
      BY <1>m
    <3>. HIDE DEF p, new, e, ev, msg
    <3>. QED  BY <3>1, <2>1, <2>3, <2>4, <2>5, <2>6, <1>t, <1>a, CommandWrite
  <2>8. req'[s].kind = "ack" /\ req'[s].msg = msg /\ req'[s].pc = "proposal"
    BY <1>2, <1>r, <1>t DEF AckUpdate, Goto, AckRequest
  <2>9. PollCurrent(s)' /\ AckCurrent(s)' /\ BeatCurrent(s)'
    <3>1. placed'[msg.p] = placed[msg.p] /\ ea' = ea
      BY <1>t
    <3>. QED  BY <2>1, <2>8, <3>1 DEF PollCurrent, AckCurrent, BeatCurrent
  <2>. QED  BY <2>7, <2>9
<1>. QED  BY <1>1, <1>2

\* accept_bridge_heartbeat reconciles commands that were delivered.
LEMMA BeatCommandStep ==
  ASSUME TypeInv, CommandInv, UNCHANGED eaVars, NEW s \in Slots,
         BeatSave(s) \/ BeatList(s) \/ BeatCheck(s) \/ BeatWrite(s)
         \/ BeatFill(s) \/ BeatLife(s) \/ BeatReply(s)
  PROVE  /\ CommandsUnplaced' /\ EAOffered' /\ EligibilityKept /\ NoNewCommand
         /\ PollCurrent(s)' /\ AckCurrent(s)' /\ BeatCurrent(s)'
<1>t. req \in [Slots -> Requests] /\ cmd \in [Proposals -> CommandDoc]
      /\ BeatCurrent(s) /\ UNCHANGED <<ea, placed>>
  BY DEF TypeInv, TypeOK, BridgeTypeOK, StoreTypeOK, Requests, CommandInv, RequestsCurrent, eaVars
<1>k. req[s].kind = "beat"
  BY DEF BeatSave, BeatList, BeatCheck, BeatWrite, BeatFill, BeatLife, BeatReply, At
<1>r. req[s] \in BeatRequest
  BY <1>t, <1>k, RequestKinds
<1>a. ea.pc \notin {"submit", "record"}
  BY <1>k, HandlerAlone DEF CommandInv
<1>c. ASSUME req'[s] = Free \/ (req'[s].kind = "beat" /\ req'[s].pc # "write")
      PROVE  PollCurrent(s)' /\ AckCurrent(s)' /\ BeatCurrent(s)'
  BY <1>c DEF PollCurrent, AckCurrent, BeatCurrent, Free
<1>1. CASE BeatSave(s) \/ BeatList(s) \/ BeatFill(s) \/ BeatLife(s) \/ BeatReply(s)
  <2>1. UNCHANGED cmd
    BY <1>1 DEF BeatSave, BeatList, BeatFill, BeatLife, BeatReply, storeVars
  <2>2. req'[s] = Free \/ (req'[s].kind = "beat" /\ req'[s].pc # "write")
    <3>1. CASE BeatSave(s) \/ BeatFill(s)
      BY <3>1, <1>r, <1>t DEF BeatSave, BeatFill, Goto, BeatRequest
    <3>2. CASE BeatList(s)
      BY <3>2, <1>r, <1>t DEF BeatList, BeatRequest
    <3>4. CASE BeatLife(s)
      BY <3>4, <1>r, <1>t DEF BeatLife, BeatRequest
    <3>3. CASE BeatReply(s)
      BY <3>3, <1>r, <1>t DEF BeatReply, Answer, BeatRequest
    <3>. QED  BY <1>1, <3>1, <3>2, <3>3, <3>4
  <2>. QED  BY <2>1, <2>2, <1>c, <1>t, CommandsKept
<1>2. CASE BeatCheck(s)
  <2>1. PICK p \in req[s].todo :
       LET do == IF BeatSeesPending(req[s], p) THEN "pending"
                 ELSE IF BeatSeesFill(req[s], p) THEN "fill" ELSE "none" IN
         req' = [req EXCEPT ![s].todo = @ \ {p}, ![s].at = p, ![s].do = do,
                            ![s].pc = IF do = "none" THEN "life" ELSE "write"]
    BY <1>2 DEF BeatCheck
  <2>2. UNCHANGED cmd
    BY <1>2 DEF BeatCheck, storeVars
  <2>3. req'[s].kind = "beat" /\ req'[s].at = p
        /\ (req'[s].pc = "write" => BeatSeesPending(req[s], p) \/ BeatSeesFill(req[s], p))
    BY <2>1, <1>r, <1>t DEF BeatRequest
  <2>4. PollCurrent(s)' /\ AckCurrent(s)' /\ BeatCurrent(s)'
    BY <2>2, <2>3 DEF PollCurrent, AckCurrent, BeatCurrent, BeatSeesPending, BeatSeesFill
  <2>. QED  BY <2>2, <2>4, <1>t, CommandsKept
<1>3. CASE BeatWrite(s)
  <2>. DEFINE p == req[s].at
  <2>0. p \in Proposals /\ cmd[p] \in CommandDoc /\ req[s].pc = "write"
    BY <1>3, <1>t, <1>k DEF BeatWrite, At, TypeInv, HandlerShape
  <2>1. cmd[p].status \in {"delivered", "broker_uncertain"}
    BY <2>0, <1>t, <1>k DEF BeatCurrent
  <2>2. ~cmd[p].elig
    BY <2>0, <2>1 DEF CommandInv, CommandsUnplaced
  <2>3. req'[s].kind = "beat" /\ req'[s].pc # "write"
    <3>1. req' = [req EXCEPT ![s].pc = "life"] \/ req' = [req EXCEPT ![s].pc = "fill"]
      BY <1>3 DEF BeatWrite, Goto
    <3>. QED  BY <3>1, <1>r, <1>t DEF BeatRequest
  <2>a. ASSUME NEW new \in CommandDoc, cmd' = [cmd EXCEPT ![p] = new],
               new.status = "reconciled", ~new.elig
        PROVE  CommandsUnplaced' /\ EAOffered' /\ EligibilityKept /\ NoNewCommand
    <3>. HIDE DEF p
    <3>. QED  BY <2>0, <2>1, <2>a, <1>t, <1>a, CommandWrite
  <2>4. CASE req[s].do = "pending"
    <3>. DEFINE new == [cmd[p] EXCEPT !.status = "reconciled", !.source = "pending",
                                      !.ticket = TRUE, !.maybe = TRUE]
    <3>1. cmd' = [cmd EXCEPT ![p] = new]
      BY <1>3, <2>4, <1>t, <2>0 DEF BeatWrite
    <3>2. new \in CommandDoc /\ new.status = "reconciled" /\ ~new.elig
      BY <2>0, <2>2 DEF CommandDoc, CommandStatus
    <3>. HIDE DEF new
    <3>. QED  BY <3>1, <3>2, <2>a, <2>3, <1>c
  <2>5. CASE req[s].do # "pending"
    <3>. DEFINE new == [cmd[p] EXCEPT !.status = "reconciled", !.elig = FALSE, !.maybe = TRUE,
                          !.ticket = TRUE, !.retcode = "done", !.attempted = "yes",
                          !.source = "position"]
    <3>1. UNCHANGED cmd \/ cmd' = [cmd EXCEPT ![p] = new]
      BY <1>3, <2>5, <1>t, <2>0 DEF BeatWrite
    <3>2. new \in CommandDoc /\ new.status = "reconciled" /\ ~new.elig
      BY <2>0 DEF CommandDoc, CommandStatus, Retcodes
    <3>. HIDE DEF new
    <3>. QED  BY <3>1, <3>2, <2>a, <2>3, <1>c, <1>t, CommandsKept
  <2>. QED  BY <2>4, <2>5
<1>. QED  BY <1>1, <1>2, <1>3

\* A handler's step keeps the invariant: it is the only one at work.
LEMMA HandlerCommandStep ==
  ASSUME TypeInv, CommandInv, UNCHANGED eaVars, NEW s \in Slots, HandlerProceeds(s)
  PROVE  CommandInv' /\ EligibilityKept /\ NoNewCommand
<1>k. req[s].kind \in {"poll", "ack", "beat"}
  BY DEF HandlerProceeds, PollReadiness, PollList, PollCheck, PollWrite, PollReoffer, PollReply,
    AckRead, AckUpdate, AckProposal, BeatSave, BeatList, BeatCheck, BeatWrite, BeatFill, BeatLife,
    BeatReply, At
<1>1. UNCHANGED waiting /\ \A q \in Slots \ {s} : req'[q] = req[q]
  BY DEF HandlerProceeds, PollReadiness, PollList, PollCheck, PollWrite, PollReoffer, PollReply,
    AckRead, AckUpdate, AckProposal, BeatSave, BeatList, BeatCheck, BeatWrite, BeatFill, BeatLife,
    BeatReply, Goto, Answer, TypeInv, TypeOK, BridgeTypeOK
<1>2. waiting = s /\ \A q \in Slots \ {s} : req'[q] = Free
  BY <1>1, <1>k, HandlerAlone DEF CommandInv
<1>3. OneRequest'
  BY <1>1, <1>2 DEF OneRequest
<1>4. JournalHonest'
  BY DEF CommandInv, JournalHonest, eaVars
<1>5. /\ CommandsUnplaced' /\ EAOffered' /\ EligibilityKept /\ NoNewCommand
      /\ PollCurrent(s)' /\ AckCurrent(s)' /\ BeatCurrent(s)'
  BY PollCommandStep, AckCommandStep, BeatCommandStep DEF HandlerProceeds
<1>6. RequestsCurrent'
  BY <1>2, <1>5, FreeCurrent DEF RequestsCurrent
<1>. QED  BY <1>3, <1>4, <1>5, <1>6 DEF CommandInv

-----------------------------------------------------------------------------
(* The expert advisor *)

\* A request that the EA sends about a command it has finished with.
LEMMA SentCurrent ==
  ASSUME TypeInv, CommandInv, waiting = "none", UNCHANGED <<cmd, placed>>,
         NEW s \in Slots, NEW r, Send(s, r),
         \/ \E orders, positions : r = NewBeat(orders, positions)
         \/ r = NewPoll
         \/ \E msg :
              /\ r = NewAck(msg) /\ Offered(msg.p) /\ msg.p \notin ea'.queue
              /\ msg.status = "rejected" /\ msg.attempted = "no" => placed[msg.p] = 0
  PROVE  OneRequest' /\ RequestsCurrent'
<1>1. req'[s] = r /\ waiting' = s /\ \A q \in Slots \ {s} : req'[q] = Free
  BY SlotAssumption DEF Send, TypeInv, TypeOK, BridgeTypeOK, CommandInv, OneRequest
<1>2. OneRequest'
  BY <1>1 DEF OneRequest
<1>3. PollCurrent(s)' /\ AckCurrent(s)' /\ BeatCurrent(s)'
  <2>1. ASSUME NEW orders, NEW positions, r = NewBeat(orders, positions)
        PROVE  PollCurrent(s)' /\ AckCurrent(s)' /\ BeatCurrent(s)'
    BY <1>1, <2>1 DEF PollCurrent, AckCurrent, BeatCurrent, NewBeat
  <2>2. CASE r = NewPoll
    BY <1>1, <2>2 DEF PollCurrent, AckCurrent, BeatCurrent, NewPoll
  <2>3. ASSUME NEW msg, r = NewAck(msg), Offered(msg.p), msg.p \notin ea'.queue,
               msg.status = "rejected" /\ msg.attempted = "no" => placed[msg.p] = 0
        PROVE  PollCurrent(s)' /\ AckCurrent(s)' /\ BeatCurrent(s)'
    <3>1. req'[s].kind = "ack" /\ req'[s].msg = msg
      BY <1>1, <2>3 DEF NewAck
    <3>. QED  BY <2>3, <3>1 DEF PollCurrent, AckCurrent, BeatCurrent, Offered
  <2>. QED  BY <2>1, <2>2, <2>3
<1>. QED  BY <1>1, <1>2, <1>3, FreeCurrent DEF RequestsCurrent

\* A step that writes neither commands, orders nor the journal and leaves the EA
\* with at most the commands it had, with nothing at the broker.
LEMMA EAIdles ==
  ASSUME TypeInv, CommandInv, UNCHANGED <<cmd, placed, journal>>,
         ea'.pc \notin {"submit", "record"}, \A p \in ea'.queue : Offered(p)
  PROVE  CommandsUnplaced' /\ EAOffered' /\ JournalHonest'
BY DEF CommandInv, CommandsUnplaced, EAOffered, Offered, JournalHonest

\* The server handles nothing once the EA has taken its answer.
LEMMA Freed ==
  ASSUME TypeInv, CommandInv, waiting' = "none",
         \A s \in Slots : req'[s] = Free \/ (s # waiting /\ req'[s] = req[s])
  PROVE  OneRequest' /\ RequestsCurrent'
<1>1. \A s \in Slots : req'[s] = Free
  BY DEF CommandInv, OneRequest
<1>. QED  BY <1>1, FreeCurrent DEF OneRequest, RequestsCurrent

\* ExecuteCommand acknowledges a refusal only of a command it has not submitted.
LEMMA ExecuteCommandStep ==
  ASSUME ~JournalFaults, TypeInv, CommandInv, NEW p \in Proposals, NEW s \in Slots,
         ExecuteReplay(s, p) \/ ExecuteRefuse(s, p) \/ ExecuteUnprepared(s, p)
  PROVE  CommandInv'
<1>t. ea \in EAState /\ EATypeOK /\ placed \in [Proposals -> Nat]
  BY DEF TypeInv, TypeOK, EATypeOK
<1>a. p \in ea.queue /\ ea.pc = "run" /\ Acking(p) /\ UNCHANGED <<cmd, placed>>
  BY DEF ExecuteReplay, ExecuteRefuse, ExecuteUnprepared, storeVars
<1>o. Offered(p) /\ waiting = "none"
  BY <1>a, EAAlone DEF CommandInv, EAOffered
<1>q. ea'.pc = "acking" /\ ea'.queue = ea.queue \ {p}
  BY <1>a, <1>t DEF Acking, EAState
<1>n. journal[p].status \in {"none", "rejected"} => placed[p] = 0
  BY <1>t DEF CommandInv, JournalHonest, Submitted
<1>s. ASSUME NEW status, NEW ticket, NEW retcode, NEW text,
             SendAck(s, p, status, ticket, retcode, "no", text),
             status = "rejected" => placed[p] = 0
      PROVE  OneRequest' /\ RequestsCurrent'
  <2>. DEFINE msg == [p |-> p, status |-> status, ticket |-> ticket, retcode |-> retcode,
                      attempted |-> "no", text |-> text]
              r == NewAck(msg)
  <2>1. msg.p = p /\ msg.status = status /\ Send(s, r)
    BY <1>s DEF SendAck
  <2>2. /\ r = NewAck(msg) /\ Offered(msg.p) /\ msg.p \notin ea'.queue
        /\ msg.status = "rejected" /\ msg.attempted = "no" => placed[msg.p] = 0
    BY <1>o, <1>q, <1>s, <2>1
  <2>. HIDE DEF msg, r
  <2>. QED  BY <2>1, <2>2, <1>a, <1>o, SentCurrent
<1>1. OneRequest' /\ RequestsCurrent'
  <2>1. CASE ExecuteReplay(s, p)
    BY <2>1, <1>n, <1>s DEF ExecuteReplay
  <2>2. CASE ExecuteRefuse(s, p)
    BY <2>2, <1>n, <1>s DEF ExecuteRefuse
  <2>3. CASE ExecuteUnprepared(s, p)
    BY <2>3, <1>n, <1>s DEF ExecuteUnprepared
  <2>. QED  BY <2>1, <2>2, <2>3
<1>2. CommandsUnplaced' /\ EAOffered'
  BY <1>a, <1>q DEF CommandInv, CommandsUnplaced, EAOffered, Offered
<1>3. JournalHonest'
  <2>1. CASE UNCHANGED journal
    BY <2>1, <1>a, <1>q DEF CommandInv, JournalHonest
  <2>2. CASE ExecuteRefuse(s, p)
    <3>1. journal[p].status = "none" /\ JournalAppend(p, "rejected", FALSE)
      BY <2>2 DEF ExecuteRefuse
    <3>2. \A q \in Proposals \ {p} : journal'[q] = journal[q]
      BY <3>1, <1>t, WorkingJournal
    <3>. QED  BY <3>1, <3>2, <1>a, <1>n, <1>q, <1>t DEF CommandInv, JournalHonest
  <2>. QED  BY <2>1, <2>2 DEF ExecuteReplay, ExecuteUnprepared
<1>. QED  BY <1>1, <1>2, <1>3 DEF CommandInv

\* The submission of a command: what it journals before and after the broker call,
\* and what it acknowledges.
LEMMA SubmitCommandStep ==
  ASSUME ~JournalFaults, TypeInv, JournalFirst, CommandInv,
         \/ \E p \in Proposals : ExecuteBegin(p)
         \/ Submit
         \/ \E s \in Slots : Record(s)
  PROVE  CommandInv'
<1>t. ea \in EAState /\ EATypeOK /\ placed \in [Proposals -> Nat] /\ ea.queue \subseteq Proposals
  BY DEF TypeInv, TypeOK, EATypeOK, EAState
<1>a. waiting = "none" /\ (\A s \in Slots : req[s] = Free) /\ UNCHANGED cmd
  BY EAAlone DEF ExecuteBegin, Submit, Record, CommandInv, storeVars
<1>f. ASSUME UNCHANGED bridgeVars PROVE OneRequest' /\ RequestsCurrent'
  <2>1. \A s \in Slots : req'[s] = Free
    BY <1>a, <1>f DEF bridgeVars
  <2>. QED  BY <2>1, FreeCurrent DEF OneRequest, RequestsCurrent
<1>1. ASSUME NEW p \in Proposals, ExecuteBegin(p) PROVE CommandInv'
  <2>1. /\ p \in ea.queue /\ journal[p].status = "none" /\ UNCHANGED <<placed, bridgeVars>>
        /\ JournalAppend(p, "broker_uncertain", FALSE)
    BY <1>1 DEF ExecuteBegin
  <2>2. ea'.pc = "submit" /\ ea'.at = p /\ ea'.queue = ea.queue
    BY <1>1, <1>t DEF ExecuteBegin, EAState
  <2>3. journal'[p].status = "broker_uncertain"
        /\ \A q \in Proposals \ {p} : journal'[q] = journal[q]
    BY <2>1, <1>t, WorkingJournal
  <2>4. CommandsUnplaced' /\ EAOffered'
    BY <1>a, <2>1, <2>2 DEF CommandInv, CommandsUnplaced, EAOffered, Offered
  <2>5. JournalHonest'
    BY <2>1, <2>2, <2>3 DEF CommandInv, JournalHonest, Submitted
  <2>. QED  BY <2>1, <2>4, <2>5, <1>f DEF CommandInv
<1>2. CASE Submit
  <2>. DEFINE p == ea.at
  <2>1. p \in Proposals /\ ea.pc = "submit" /\ Offered(p) /\ placed[p] = 0
        /\ journal[p].status \in Submitted
    BY <1>2 DEF Submit, TypeInv, EAShape, CommandInv, EAOffered, JournalHonest, JournalFirst
  <2>2. PICK result \in Outcomes \ {"none"}, taken \in BOOLEAN :
         /\ result = "refused" => ~taken
         /\ ea' = [ea EXCEPT !.pc = "record", !.result = result,
                             !.ticket = result \in {"done", "nofill"}]
         /\ IF taken THEN placed' = [placed EXCEPT ![p] = @ + 1] ELSE UNCHANGED placed
    BY <1>2 DEF Submit
  <2>3. ea'.pc = "record" /\ ea'.at = p /\ ea'.queue = ea.queue /\ ea'.result = result
    BY <2>2, <1>t DEF EAState
  <2>4. UNCHANGED <<journal, bridgeVars>>
    BY <1>2 DEF Submit
  <2>5. \A q \in Proposals \ {p} : placed'[q] = placed[q]
    BY <2>2, <1>t
  <2>6. result = "refused" => placed'[p] = 0
    BY <2>1, <2>2
  <2>. HIDE DEF p
  <2>7. CommandsUnplaced' /\ EAOffered'
    BY <1>a, <2>1, <2>3, <2>5 DEF CommandInv, CommandsUnplaced, EAOffered, Offered
  <2>8. JournalHonest'
    BY <2>1, <2>3, <2>4, <2>5, <2>6 DEF CommandInv, JournalHonest
  <2>. QED  BY <2>4, <2>7, <2>8, <1>f DEF CommandInv
<1>3. ASSUME NEW s \in Slots, Record(s) PROVE CommandInv'
  <2>. DEFINE p == ea.at
              st == ResultStatus(ea.result)
              msg == [p |-> p, status |-> st, ticket |-> ea.ticket, retcode |-> ea.result,
                      attempted |-> "yes", text |-> "other"]
              r == NewAck(msg)
  <2>1. p \in Proposals /\ ea.pc = "record" /\ Offered(p)
        /\ (ea.result = "refused" => placed[p] = 0)
    BY <1>3 DEF Record, TypeInv, EAShape, CommandInv, EAOffered, JournalHonest
  <2>2. JournalAppend(p, st, ea.ticket) /\ Send(s, r) /\ Acking(p) /\ UNCHANGED placed
    BY <1>3 DEF Record, SendAck
  <2>3. st \in {"rejected"} \cup Submitted /\ (st = "rejected" => placed[p] = 0)
    BY <2>1 DEF ResultStatus, Submitted
  <2>4. ea'.pc = "acking" /\ ea'.queue = ea.queue \ {p}
    BY <2>2, <1>t DEF Acking, EAState
  <2>5. /\ r = NewAck(msg) /\ Offered(msg.p) /\ msg.p \notin ea'.queue
        /\ msg.status = "rejected" /\ msg.attempted = "no" => placed[msg.p] = 0
    BY <2>1, <2>4
  <2>. HIDE DEF msg, r, st, p
  <2>6. OneRequest' /\ RequestsCurrent'
    BY <2>2, <2>5, <1>a, SentCurrent
  <2>7. journal'[p].status = st /\ \A q \in Proposals \ {p} : journal'[q] = journal[q]
    BY <2>1, <2>2, <1>t, WorkingJournal
  <2>8. JournalHonest'
    BY <2>1, <2>2, <2>3, <2>4, <2>7, <1>t DEF CommandInv, JournalHonest
  <2>9. CommandsUnplaced' /\ EAOffered'
    BY <1>a, <2>2, <2>4 DEF CommandInv, CommandsUnplaced, EAOffered, Offered
  <2>. QED  BY <2>6, <2>8, <2>9 DEF CommandInv
<1>. QED  BY <1>1, <1>2, <1>3

\* OnTimer's requests and their answers.
LEMMA TimerCommandStep ==
  ASSUME TypeInv, CommandInv,
         \/ \E s \in Slots : SendHeartbeat(s) \/ PollCommands(s)
         \/ HeartbeatAnswered \/ PollAnswered \/ AckAnswered
  PROVE  CommandInv'
<1>t. ea \in EAState /\ req \in [Slots -> Requests]
  BY DEF TypeInv, TypeOK, EATypeOK, BridgeTypeOK, Requests
<1>u. UNCHANGED <<cmd, placed, journal>>
  BY DEF SendHeartbeat, PollCommands, HeartbeatAnswered, PollAnswered, AckAnswered, storeVars
<1>q. \A p \in ea.queue : Offered(p)
  BY DEF CommandInv, EAOffered
<1>f. ASSUME Take PROVE OneRequest' /\ RequestsCurrent'
  <2>1. waiting' = "none" /\ req' = [req EXCEPT ![waiting] = Free]
    BY <1>f DEF Take
  <2>2. \A s \in Slots : req'[s] = Free \/ (s # waiting /\ req'[s] = req[s])
    BY <2>1, <1>t
  <2>. QED  BY <2>1, <2>2, Freed
<1>1. ASSUME NEW s \in Slots, SendHeartbeat(s) PROVE CommandInv'
  <2>1. ea.pc = "idle" /\ waiting = "none"
    BY <1>1, EAAlone DEF SendHeartbeat, CommandInv
  <2>2. OneRequest' /\ RequestsCurrent'
    BY <1>1, <2>1, <1>u, SentCurrent DEF SendHeartbeat
  <2>3. ea'.pc = "beating" /\ ea'.queue = ea.queue
    BY <1>1, <1>t DEF SendHeartbeat, EAState
  <2>. QED  BY <2>2, <2>3, <1>u, <1>q, EAIdles DEF CommandInv
<1>2. ASSUME NEW s \in Slots, PollCommands(s) PROVE CommandInv'
  <2>1. ea.pc = "poll" /\ waiting = "none"
    BY <1>2, EAAlone DEF PollCommands, CommandInv
  <2>2. OneRequest' /\ RequestsCurrent'
    BY <1>2, <2>1, <1>u, SentCurrent DEF PollCommands
  <2>3. ea'.pc = "polling" /\ ea'.queue = ea.queue
    BY <1>2, <1>t DEF PollCommands, EAState
  <2>. QED  BY <2>2, <2>3, <1>u, <1>q, EAIdles DEF CommandInv
<1>3. CASE HeartbeatAnswered
  <2>1. ea'.pc = "poll" /\ ea'.queue = ea.queue
    BY <1>3, <1>t DEF HeartbeatAnswered, EAState
  <2>. QED  BY <1>3, <2>1, <1>f, <1>u, <1>q, EAIdles DEF HeartbeatAnswered, CommandInv
<1>4. CASE PollAnswered
  <2>. DEFINE q == IF req[waiting].pc = "reply" THEN req[waiting].out ELSE {}
  <2>1. waiting \in Slots /\ req[waiting].kind = "poll"
    BY <1>4 DEF PollAnswered, Take, TypeInv, EAShape
  <2>2. \A p \in q : Offered(p)
    BY <2>1 DEF CommandInv, RequestsCurrent, PollCurrent
  <2>3. ea' = Resume(q)
    BY <1>4 DEF PollAnswered
  <2>. HIDE DEF q
  <2>4. ea'.pc \in {"idle", "run"} /\ ea'.queue = q
    BY <2>3 DEF Resume, EAIdle
  <2>. QED  BY <1>4, <2>2, <2>4, <1>f, <1>u, EAIdles DEF PollAnswered, CommandInv
<1>5. CASE AckAnswered
  <2>1. ea'.pc \in {"idle", "run"} /\ ea'.queue = ea.queue
    BY <1>5 DEF AckAnswered, Resume, EAIdle
  <2>. QED  BY <1>5, <2>1, <1>f, <1>u, <1>q, EAIdles DEF AckAnswered, CommandInv
<1>. QED  BY <1>1, <1>2, <1>3, <1>4, <1>5

\* A request that times out or an EA that restarts leaves no handler running.
LEMMA FaultCommandStep ==
  ASSUME ~Overlap, TypeInv, CommandInv, EAFaults
  PROVE  CommandInv'
<1>t. ea \in EAState /\ req \in [Slots -> Requests]
  BY DEF TypeInv, TypeOK, EATypeOK, BridgeTypeOK, Requests
<1>u. UNCHANGED <<cmd, placed, journal>>
  BY DEF EAFaults, RequestTimesOut, EARestarts, HeartbeatAges, RequestFails, HandlerDies, storeVars
<1>q. \A p \in ea.queue : Offered(p)
  BY DEF CommandInv, EAOffered
<1>1. CASE RequestTimesOut
  <2>1. waiting' = "none" /\ req' = [req EXCEPT ![waiting] = Free]
    BY <1>1 DEF RequestTimesOut
  <2>2. \A s \in Slots : req'[s] = Free \/ (s # waiting /\ req'[s] = req[s])
    BY <2>1, <1>t
  <2>3. ea.pc \in {"beating", "polling", "acking"}
    BY <1>1 DEF RequestTimesOut, TypeInv, EAShape
  <2>4. ea'.pc \notin {"submit", "record"} /\ ea'.queue \subseteq ea.queue
    BY <1>1, <2>3, <1>t DEF RequestTimesOut, Resume, EAIdle, EAState
  <2>. QED  BY <2>1, <2>2, <2>4, <1>u, <1>q, Freed, EAIdles DEF CommandInv
<1>2. CASE EARestarts
  <2>1. waiting' = "none" /\ ea'.pc = "idle" /\ ea'.queue = {}
    BY <1>2 DEF EARestarts, EAIdle
  <2>2. \A s \in Slots : req'[s] = Free \/ (s # waiting /\ req'[s] = req[s])
    <3>1. CASE waiting \in Slots
      BY <1>2, <3>1, <1>t, SlotAssumption DEF EARestarts
    <3>2. CASE waiting \notin Slots
      BY <1>2, <3>2 DEF EARestarts
    <3>. QED  BY <3>1, <3>2
  <2>. QED  BY <2>1, <2>2, <1>u, Freed, EAIdles DEF CommandInv
<1>3. CASE HeartbeatAges
  <2>1. UNCHANGED <<req, waiting, ea>>
    BY <1>3 DEF HeartbeatAges, bridgeVars
  <2>. QED  BY <2>1, <1>u, CommandsKept
            DEF CommandInv, OneRequest, RequestsCurrent, JournalHonest
<1>4. ASSUME NEW s \in Slots, RequestFails(s) PROVE CommandInv'
  <2>1. UNCHANGED <<waiting, ea>> /\ \A q \in Slots \ {s} : req'[q] = req[q]
    BY <1>4, <1>t DEF RequestFails, HandlerDies, Answer
  <2>2. OneRequest'
    BY <1>4, <2>1, <1>t DEF CommandInv, OneRequest, RequestFails, HandlerDies, Answer
  <2>3. PollCurrent(s)' /\ AckCurrent(s)' /\ BeatCurrent(s)'
    <3>0. PollCurrent(s) /\ AckCurrent(s) /\ BeatCurrent(s) /\ req[s].pc # "free"
      BY <1>4 DEF CommandInv, RequestsCurrent, RequestFails, HandlerDies
    <3>1. req'[s] \in {Free, [req[s] EXCEPT !.pc = "dead"]}
      BY <1>4, <1>t DEF RequestFails, HandlerDies, Answer
    <3>2. CASE req'[s] = Free
      BY <3>2, FreeCurrent
    <3>3. CASE req'[s] = [req[s] EXCEPT !.pc = "dead"] /\ req[s] \in PollRequest
      <4>1. req[s].kind = "poll" /\ req'[s].kind = "poll" /\ req'[s].pc = "dead"
            /\ req'[s].todo = req[s].todo /\ req'[s].out = req[s].out
        BY <3>3 DEF PollRequest
      <4>. QED  BY <4>1, <3>0, <1>u DEF PollCurrent, AckCurrent, BeatCurrent, Offered
    <3>4. CASE req'[s] = [req[s] EXCEPT !.pc = "dead"] /\ req[s] \in AckRequest
      <4>1. req[s].kind = "ack" /\ req'[s].kind = "ack" /\ req'[s].pc = "dead"
            /\ req'[s].msg = req[s].msg
        BY <3>4 DEF AckRequest
      <4>. QED  BY <4>1, <3>0, <2>1, <1>u DEF PollCurrent, AckCurrent, BeatCurrent
    <3>5. CASE req'[s] = [req[s] EXCEPT !.pc = "dead"] /\ req[s] \in BeatRequest
      <4>1. req'[s].kind = "beat" /\ req'[s].pc = "dead"
        BY <3>5 DEF BeatRequest
      <4>. QED  BY <4>1 DEF PollCurrent, AckCurrent, BeatCurrent
    <3>. QED  BY <3>0, <3>1, <3>2, <3>3, <3>4, <3>5, <1>t DEF Requests, Free
  <2>4. RequestsCurrent'
    BY <2>1, <2>3, <1>u, CommandsKept DEF RequestsCurrent
  <2>. QED  BY <2>1, <2>2, <2>4, <1>u, CommandsKept DEF CommandInv, JournalHonest
<1>. QED  BY <1>1, <1>2, <1>3, <1>4 DEF EAFaults

-----------------------------------------------------------------------------
(* The operator, and every step *)

\* approve saves a command where there was none.
LEMMA SaveCommandStep ==
  ASSUME TypeInv, CommandInv, UNCHANGED <<bridgeVars, eaVars>>, NEW c \in Callbacks,
         ApproveSaveCommand(c)
  PROVE  /\ CommandInv' /\ EligibilityKept
         /\ \A q \in Proposals \ {cb[c].p} : cmd'[q] = cmd[q]
<1>. DEFINE p == cb[c].p
<1>1. p \in Proposals /\ cmd[p].status = "absent" /\ cmd' = [cmd EXCEPT ![p] = NewCommand]
  BY DEF ApproveSaveCommand, TypeInv, CallbackShape
<1>t. cmd \in [Proposals -> CommandDoc] /\ req \in [Slots -> Requests]
      /\ UNCHANGED <<req, waiting, ea, placed, journal>>
  BY DEF TypeInv, TypeOK, StoreTypeOK, BridgeTypeOK, Requests, bridgeVars, eaVars
<1>. HIDE DEF p
<1>2. cmd'[p].status = "ready" /\ ~cmd'[p].elig /\ \A q \in Proposals \ {p} : cmd'[q] = cmd[q]
  BY <1>1, <1>t DEF NewCommand
<1>3. CommandsUnplaced' /\ EligibilityKept
  BY <1>1, <1>2, <1>t DEF CommandInv, CommandsUnplaced, EligibilityKept
<1>4. \A q : Offered(q) => q # p
  BY <1>1 DEF Offered
<1>5. \A q \in Proposals : Offered(q) => Offered(q)'
  BY <1>2, <1>4 DEF Offered
<1>6. EAOffered'
  <2>1. ea.queue \subseteq Proposals /\ (ea.pc \in {"submit", "record"} => ea.at \in Proposals)
    BY DEF TypeInv, TypeOK, EATypeOK, EAState, EAShape
  <2>2. ASSUME NEW q \in ea'.queue PROVE Offered(q)'
    BY <2>1, <2>2, <1>5, <1>t DEF CommandInv, EAOffered
  <2>3. ASSUME ea'.pc \in {"submit", "record"} PROVE Offered(ea.at)'
    <3>. DEFINE a == ea.at
    <3>1. a \in Proposals /\ cmd[a].status \notin {"absent", "ready"} /\ ~cmd[a].elig /\ ea'.at = a
      BY <2>1, <2>3, <1>t DEF CommandInv, EAOffered, Offered
    <3>. QED  BY <3>1, <1>1, <1>2 DEF Offered
  <2>. QED  BY <2>2, <2>3 DEF EAOffered
<1>7. ASSUME NEW s \in Slots PROVE PollCurrent(s)' /\ AckCurrent(s)' /\ BeatCurrent(s)'
  <2>0. PollCurrent(s) /\ AckCurrent(s) /\ BeatCurrent(s) /\ req'[s] = req[s]
    BY <1>t DEF CommandInv, RequestsCurrent
  <2>1. PollCurrent(s)'
    <3>1. CASE req[s].kind = "poll"
      <4>1. req[s] \in PollRequest
        BY <3>1, <1>t, RequestKinds
      <4>2. /\ \A d \in req[s].todo : d.p \in Proposals /\ d.status \in {"ready", "delivered"}
            /\ req[s].out \subseteq Proposals
            /\ req[s].pc = "write" => req[s].at \in Proposals
        BY <3>1, <4>1 DEF PollRequest, ListedCommand, TypeInv, HandlerShape
      <4>3. \A d \in req[s].todo : cmd'[d.p] = cmd[d.p]
        BY <2>0, <3>1, <4>2, <1>1, <1>2 DEF PollCurrent
      <4>4. \A q \in req[s].out : cmd'[q] = cmd[q]
        BY <2>0, <3>1, <4>2, <1>2, <1>4 DEF PollCurrent
      <4>5. req[s].pc = "write" => cmd'[req[s].at] = cmd[req[s].at]
        BY <2>0, <3>1, <4>2, <1>1, <1>2 DEF PollCurrent
      <4>. QED  BY <2>0, <3>1, <4>3, <4>4, <4>5 DEF PollCurrent, Offered
    <3>2. CASE req[s].kind # "poll"
      BY <2>0, <3>2 DEF PollCurrent
    <3>. QED  BY <3>1, <3>2
  <2>2. AckCurrent(s)'
    <3>1. CASE req[s].kind = "ack"
      <4>1. req[s].msg.p \in Proposals
        BY <3>1, <1>t, RequestKinds DEF AckRequest, Ack
      <4>2. req[s].pc \in {"start", "update"} => cmd'[req[s].msg.p] = cmd[req[s].msg.p]
        BY <2>0, <3>1, <4>1, <1>2, <1>4 DEF AckCurrent
      <4>. QED  BY <2>0, <3>1, <4>2, <1>t DEF AckCurrent, Offered
    <3>2. CASE req[s].kind # "ack"
      BY <2>0, <3>2 DEF AckCurrent
    <3>. QED  BY <3>1, <3>2
  <2>3. BeatCurrent(s)'
    <3>1. req[s].kind = "beat" /\ req[s].pc = "write" => req[s].at \in Proposals
      BY DEF TypeInv, HandlerShape
    <3>. QED  BY <2>0, <3>1, <1>1, <1>2 DEF BeatCurrent
  <2>. QED  BY <2>1, <2>2, <2>3
<1>8. OneRequest' /\ JournalHonest'
  BY <1>t DEF CommandInv, OneRequest, JournalHonest
<1>. QED  BY <1>2, <1>3, <1>6, <1>7, <1>8 DEF CommandInv, RequestsCurrent, p

\* Every step keeps the invariant; approve alone creates commands, and no step
\* makes an eligible command submittable again.
LEMMA CommandStep ==
  ASSUME ~Overlap, ~JournalFaults, TypeInv, JournalFirst, CommandInv, [Next]_vars
  PROVE  /\ CommandInv' /\ EligibilityKept
         /\ \/ NoNewCommand
            \/ \E c \in Callbacks :
                 ApproveSaveCommand(c) /\ \A q \in Proposals \ {cb[c].p} : cmd'[q] = cmd[q]
<1>k. ASSUME UNCHANGED <<cmd, req, waiting, ea, journal, placed>>
      PROVE  CommandInv' /\ EligibilityKept /\ NoNewCommand
  BY <1>k, CommandsKept DEF CommandInv, OneRequest, RequestsCurrent, JournalHonest
<1>c. ASSUME UNCHANGED cmd PROVE EligibilityKept /\ NoNewCommand
  BY <1>c DEF EligibilityKept, NoNewCommand
<1>1. ASSUME NEW s \in Slots, HandlerProceeds(s), UNCHANGED <<cb, eaVars>>
      PROVE  CommandInv' /\ EligibilityKept /\ NoNewCommand
  BY <1>1, HandlerCommandStep
<1>2. CASE EASteps /\ UNCHANGED cb
  <2>1. UNCHANGED cmd
    BY <1>2 DEF EASteps, SendHeartbeat, PollCommands, Record, HeartbeatAnswered, PollAnswered,
      AckAnswered, ExecuteBegin, ExecuteReplay, ExecuteRefuse, ExecuteUnprepared, Submit, storeVars
  <2>2. CommandInv'
    BY <1>2, TimerCommandStep, ExecuteCommandStep, SubmitCommandStep DEF EASteps
  <2>. QED  BY <2>1, <2>2, <1>c
<1>3. ASSUME NEW c \in Callbacks, CallbackStarts(c) \/ CallbackProceeds(c) \/ CallbackEnds(c),
             UNCHANGED <<bridgeVars, eaVars>>
      PROVE  /\ CommandInv' /\ EligibilityKept
             /\ \/ NoNewCommand
                \/ ApproveSaveCommand(c) /\ \A q \in Proposals \ {cb[c].p} : cmd'[q] = cmd[q]
  <2>1. CASE ApproveSaveCommand(c)
    BY <1>3, <2>1, SaveCommandStep
  <2>2. CASE ~ApproveSaveCommand(c)
    <3>1. UNCHANGED cmd
      BY <1>3, <2>2 DEF CallbackStarts, CallbackProceeds, CallbackEnds, ApproveRead, Reject,
        OfferRead, SupersedeList, ApproveExpired, ApproveGate, ApproveBlocked, ApproveQuote,
        ApproveInvalidates, ApproveRecheck, ApproveClaim, ApproveQueue, OfferCreate,
        OfferLinkRead, OfferLinkWrite, SupersedeWrite, storeVars, restOfStore
    <3>. QED  BY <1>3, <3>1, <1>k DEF bridgeVars, eaVars
  <2>. QED  BY <2>1, <2>2
<1>4. CASE Environment /\ UNCHANGED <<cb, bridgeVars, eaVars>>
  <2>1. UNCHANGED cmd
    BY <1>4 DEF Environment, Kill, ResetKill, ProposalExpires, CommandLapses
  <2>. QED  BY <1>4, <2>1, <1>k DEF bridgeVars, eaVars
<1>5. CASE EAFaults /\ UNCHANGED cb
  <2>1. UNCHANGED cmd
    BY <1>5 DEF EAFaults, RequestTimesOut, EARestarts, HeartbeatAges, RequestFails, HandlerDies,
      storeVars
  <2>. QED  BY <1>5, <2>1, <1>c, FaultCommandStep
<1>6. CASE \E p \in Proposals : BrokerMoves(p) /\ UNCHANGED cb
  BY <1>6, <1>k DEF BrokerMoves, storeVars, bridgeVars
<1>7. CASE UNCHANGED vars
  BY <1>7, <1>k DEF vars, storeVars, bridgeVars, eaVars
<1>. QED  BY <1>1, <1>2, <1>3, <1>4, <1>5, <1>6, <1>7 DEF Next, OperatorNext

\* What the store calls replaceable is closed: nobody approved it, or its command
\* is eligible.
LEMMA ReplaceableClosed ==
  ASSUME NEW o, LimitReplacementParent(o)
  PROVE  Closed(o)
BY DEF LimitReplacementParent, Closed, Verdict

\* What is closed stays closed.
LEMMA ClosedStays ==
  ASSUME TypeInv, DecisionInv, WritesSoundly, EligibilityKept,
         NEW o \in Proposals, Closed(o)
  PROVE  Closed(o)'
<1>1. Verdict(prop'[o]) = Verdict(prop[o]) \/ Verdict(prop[o]) = "open"
  BY DocStep
<1>2. Verdict(prop[o]) = "refused" => Verdict(prop'[o]) = "refused"
  BY <1>1
<1>. QED  BY <1>2 DEF Closed, EligibilityKept

\* What is closed has no order.
LEMMA ClosedUnplaced ==
  ASSUME TypeInv, DecisionInv, SetupInv, NEW o \in Originals, Closed(o)
  PROVE  placed[o] = 0
<1>1. o \in Proposals /\ placed[o] \in Nat
  BY DEF Proposals, TypeInv, TypeOK, EATypeOK
<1>2. CASE Verdict(prop[o]) = "refused"
  BY <1>1, <1>2 DEF Verdict, DecisionInv, EAApproved
<1>3. CASE cmd[o].elig
  BY <1>1, <1>3 DEF SetupInv, CommandInv, CommandsUnplaced
<1>. QED  BY <1>2, <1>3 DEF Closed

\* The operator's callbacks approve and queue a replacement only after its original
\* is closed.
LEMMA ReplacementStep ==
  ASSUME ~Overlap, ~JournalFaults, TypeInv, DecisionInv, JournalFirst, SetupInv, [Next]_vars
  PROVE  ReplacementsClosed'
<1>w. WritesSoundly
  BY Writes
<1>e. EligibilityKept
      /\ \/ NoNewCommand
         \/ \E c \in Callbacks :
              ApproveSaveCommand(c) /\ \A q \in Proposals \ {cb[c].p} : cmd'[q] = cmd[q]
  BY CommandStep DEF SetupInv
<1>o. \A r \in Replacements : OriginOf[r] \in Proposals /\ r \in Proposals
  BY StoreAssumption DEF Proposals
<1>s. \A r \in Replacements : Closed(OriginOf[r]) => Closed(OriginOf[r])'
  BY <1>w, <1>e, <1>o, ClosedStays
<1>i. ReplacementsClosed
  BY DEF SetupInv
<1>1. ASSUME NEW r \in Replacements, cmd'[r].status # "absent"
      PROVE  Closed(OriginOf[r])'
  <2>1. CASE cmd[r].status # "absent"
    <3>1. Closed(OriginOf[r])
      BY <2>1, <1>i DEF ReplacementsClosed
    <3>. QED  BY <3>1, <1>s
  <2>2. CASE cmd[r].status = "absent"
    <3>1. PICK c \in Callbacks :
            ApproveSaveCommand(c) /\ \A q \in Proposals \ {cb[c].p} : cmd'[q] = cmd[q]
      BY <1>1, <2>2, <1>e, <1>o DEF NoNewCommand
    <3>2. cb[c].p = r /\ cb[c].pc = "save"
      BY <1>1, <2>2, <3>1, <1>o DEF ApproveSaveCommand
    <3>3. Closed(OriginOf[r])
      BY <3>2, <1>i DEF ReplacementsClosed
    <3>. QED  BY <3>3, <1>s
  <2>. QED  BY <2>1, <2>2
<1>t. cb \in [Callbacks -> Callback]
  BY DEF TypeInv, TypeOK, OperatorTypeOK
<1>2. ASSUME NEW c \in Callbacks, NEW r \in Replacements,
             cb'[c].pc \in {"claim", "save"}, cb'[c].p = r
      PROVE  Closed(OriginOf[r])'
  <2>1. CASE cb'[c] = cb[c] \/ (cb[c].pc = "claim" /\ cb'[c].p = cb[c].p)
    <3>1. cb[c].pc \in {"claim", "save"} /\ cb[c].p = r
      BY <1>2, <2>1
    <3>2. Closed(OriginOf[r])
      BY <3>1, <1>i DEF ReplacementsClosed
    <3>. QED  BY <3>2, <1>s
  <2>2. CASE ApproveRecheck(c)
    <3>1. cb[c].p = r
      BY <1>2, <1>t, <2>2 DEF ApproveRecheck, Continue, Return, Done, Callback
    <3>2. Closed(OriginOf[r])
      BY <1>2, <2>2, <3>1, <1>t, ReplaceableClosed
        DEF ApproveRecheck, LimitReplacementOrigin, Continue, Return, Done
    <3>. QED  BY <3>2, <1>s
  <2>3. CASE ApproveClaim(c)
    <3>1. cb[c].pc = "claim" /\ cb'[c].p = cb[c].p
      BY <1>2, <1>t, <2>3 DEF ApproveClaim, ContinueWith, Return, Done, Callback
    <3>. QED  BY <3>1, <2>1
  <2>4. CASE ~ApproveRecheck(c) /\ ~ApproveClaim(c)
    <3>1. ASSUME NEW k \in Callbacks, CallbackStarts(k) \/ CallbackProceeds(k) \/ CallbackEnds(k),
                 k # c
          PROVE  cb'[c] = cb[c]
      <4>1. CASE CallbackStarts(k)
        <5>1. PICK p \in Proposals : ApproveRead(k, p) \/ Reject(k, p) \/ OfferRead(k, p)
                                     \/ SupersedeList(k, p)
          BY <4>1 DEF CallbackStarts
        <5>2. CASE Reject(k, p)
          BY <3>1, <5>2, <1>t DEF Reject, Return
        <5>3. CASE ~Reject(k, p)
          BY <3>1, <5>1, <5>3, <1>t DEF ApproveRead, OfferRead, SupersedeList, Begin
        <5>. QED  BY <5>2, <5>3
      <4>2. CASE ApproveExpired(k) \/ ApproveBlocked(k) \/ ApproveInvalidates(k) \/ ApproveQueue(k)
                 \/ SupersedeWrite(k) \/ CallbackEnds(k)
        <5>1. Return(k)
          BY <4>2 DEF ApproveExpired, ApproveBlocked, ApproveInvalidates, ApproveQueue,
            SupersedeWrite, CallbackEnds
        <5>. QED  BY <3>1, <5>1, <1>t DEF Return
      <4>3. CASE ApproveGate(k) \/ ApproveRecheck(k) \/ ApproveSaveCommand(k) \/ OfferCreate(k)
        BY <3>1, <4>3, <1>t
          DEF ApproveGate, ApproveRecheck, ApproveSaveCommand, OfferCreate, Continue
      <4>4. CASE ApproveQuote(k)
        BY <3>1, <4>4, <1>t DEF ApproveQuote, Continue, ContinueWith
      <4>5. CASE ApproveClaim(k)
        BY <3>1, <4>5, <1>t DEF ApproveClaim, ContinueWith
      <4>6. CASE OfferLinkRead(k)
        BY <3>1, <4>6, <1>t DEF OfferLinkRead, Return
      <4>7. CASE OfferLinkWrite(k)
        BY <3>1, <4>7, <1>t DEF OfferLinkWrite, Return, Continue
      <4>. QED  BY <3>1, <4>1, <4>2, <4>3, <4>4, <4>5, <4>6, <4>7 DEF CallbackProceeds
    <3>2. ASSUME CallbackStarts(c) \/ CallbackProceeds(c) \/ CallbackEnds(c)
          PROVE  FALSE
      <4>1. CASE CallbackStarts(c)
        BY <1>2, <4>1, <1>t DEF CallbackStarts, ApproveRead, Reject, OfferRead, SupersedeList,
          Begin, Return, Done, Idle, Callback
      <4>2. CASE ApproveExpired(c) \/ ApproveBlocked(c) \/ ApproveInvalidates(c) \/ ApproveQueue(c)
                 \/ SupersedeWrite(c) \/ CallbackEnds(c)
        <5>1. Return(c)
          BY <4>2 DEF ApproveExpired, ApproveBlocked, ApproveInvalidates, ApproveQueue,
            SupersedeWrite, CallbackEnds
        <5>. QED  BY <1>2, <5>1, <1>t DEF Return, Done, Idle
      <4>3. CASE ApproveGate(c) \/ ApproveSaveCommand(c) \/ OfferCreate(c)
        BY <1>2, <4>3, <1>t DEF ApproveGate, ApproveSaveCommand, OfferCreate, Continue, Callback
      <4>4. CASE ApproveQuote(c)
        BY <1>2, <4>4, <1>t DEF ApproveQuote, Continue, ContinueWith, Callback
      <4>6. CASE OfferLinkRead(c)
        BY <1>2, <4>6, <1>t DEF OfferLinkRead, Return, Done, Idle, Callback
      <4>7. CASE OfferLinkWrite(c)
        BY <1>2, <4>7, <1>t DEF OfferLinkWrite, Return, Continue, Done, Idle, Callback
      <4>. QED  BY <2>4, <3>2, <4>1, <4>2, <4>3, <4>4, <4>6, <4>7 DEF CallbackProceeds
    <3>3. OperatorNext \/ UNCHANGED cb
      BY DEF Next, vars
    <3>. QED  BY <3>1, <3>2, <3>3, <2>1 DEF OperatorNext
  <2>. QED  BY <2>2, <2>3, <2>4
<1>. QED  BY <1>1, <1>2 DEF ReplacementsClosed

\* The initial states satisfy the invariant: there is no command and no order.
LEMMA SetupInit == Init => SetupInv
<1>. SUFFICES ASSUME Init PROVE SetupInv
  OBVIOUS
<1>1. CommandsUnplaced /\ \A r \in Proposals : cmd[r].status = "absent"
  BY DEF Init, StoreInit, EAInit, NoCommand, NewCommand, CommandsUnplaced
<1>2. EAOffered /\ JournalHonest
  BY DEF Init, EAInit, EAIdle, EAOffered, JournalHonest
<1>3. OneRequest /\ RequestsCurrent
  BY DEF Init, BridgeInit, OneRequest, RequestsCurrent, PollCurrent, AckCurrent, BeatCurrent, Free
<1>4. ReplacementsClosed
  BY <1>1 DEF Init, OperatorInit, Idle, ReplacementsClosed, Proposals
<1>. QED  BY <1>1, <1>2, <1>3, <1>4 DEF SetupInv, CommandInv

\* The invariant holds throughout, given a working journal and requests that end
\* before the EA stops waiting for them.
LEMMA SetupInvariant ==
  ASSUME ~Overlap, ~JournalFaults
  PROVE  Spec => []SetupInv
<1>1. TypeInv /\ DecisionInv /\ JournalFirst /\ SetupInv /\ [Next]_vars => SetupInv'
  BY CommandStep, ReplacementStep DEF SetupInv
<1>. QED  BY <1>1, SetupInit, JournalFirstInvariant, TypeInvariant, DecisionInvariant, PTL DEF Spec

\* A proposal that the store offers for replacement has no order: no lost
\* acknowledgement, restart or race of approvals hides a submission, as long as a
\* request ends before the EA stops waiting for it and the journal can be written
\* (commands_for_bridge, acknowledge, _limit_replacement_parent).
THEOREM ReplaceableIsUnsubmitted ==
  ASSUME ~Overlap, ~JournalFaults
  PROVE  Spec => []ReplaceableNeverSubmitted
<1>1. TypeInv /\ DecisionInv /\ SetupInv => ReplaceableNeverSubmitted
  BY ReplaceableClosed, ClosedUnplaced DEF ReplaceableNeverSubmitted
<1>. QED  BY <1>1, SetupInvariant, TypeInvariant, DecisionInvariant, PTL

\* An original and its limit replacement never both become orders: from the moment
\* approve stores the replacement's command, the original has no order and never
\* will, under the same two conditions.
THEOREM OneOrderForASetup ==
  ASSUME ~Overlap, ~JournalFaults
  PROVE  Spec => []OneOrderPerSetup
<1>1. TypeInv /\ DecisionInv /\ SetupInv => OneOrderPerSetup
  BY ClosedUnplaced, StoreAssumption DEF SetupInv, ReplacementsClosed, OneOrderPerSetup
<1>. QED  BY <1>1, SetupInvariant, TypeInvariant, DecisionInvariant, PTL

-----------------------------------------------------------------------------
(* Results *)

\* No step takes a result back.
ReconciledKept ==
  \A p \in Proposals : cmd[p].status = "reconciled" => cmd'[p].status = "reconciled"

\* A step that writes neither commands nor the journal keeps what is known of
\* results, as long as the acknowledgements under way stay truthful.
LEMMA ResultsKept ==
  ASSUME ResultInv, UNCHANGED <<cmd, journal>>,
         ea'.pc \in {"submit", "record"} => ea' = ea,
         \A s \in Slots : AckTruthful(s)'
  PROVE  ResultInv' /\ ReconciledKept
BY DEF ResultInv, ResultsJournalled, ResultsTicketed, ReconciledKept

\* A request that is not an acknowledgement, or one that is unchanged or has
\* passed its update, stays truthful.
LEMMA TruthfulKept ==
  ASSUME ResultInv, NEW s \in Slots, UNCHANGED <<cmd, journal>>,
         \/ req'[s].kind # "ack"
         \/ req'[s] = req[s]
         \/ req[s].kind = "ack" /\ req'[s].msg = req[s].msg /\ req'[s].pc # "update"
  PROVE  AckTruthful(s)'
<1>1. AckTruthful(s)
  BY DEF ResultInv
<1>. QED  BY <1>1 DEF AckTruthful

\* acknowledge never takes a result back: it read the command as it is, so a
\* result there came by an acknowledgement, is in the journal, and the receipt
\* being handled says it too, with its own evidence or that of the first.
LEMMA AckResultStep ==
  ASSUME TypeInv, CommandInv, ResultInv, NEW s \in Slots, UNCHANGED eaVars,
         AckUpdate(s)
  PROVE  /\ ResultsJournalled' /\ ReconciledKept /\ AckTruthful(s)'
<1>t. req \in [Slots -> Requests] /\ cmd \in [Proposals -> CommandDoc]
      /\ AckTruthful(s) /\ UNCHANGED journal
  BY DEF TypeInv, TypeOK, BridgeTypeOK, StoreTypeOK, Requests, ResultInv, eaVars
<1>k. req[s].kind = "ack" /\ req[s].pc = "update"
  BY DEF AckUpdate, At
<1>r. req[s] \in AckRequest
  BY <1>t, <1>k, RequestKinds
<1>. DEFINE msg == req[s].msg
            prev == req[s].prev
            p == msg.p
            ev == AckEvidence(msg, prev)
            new == AckChange(p, msg, prev)
<1>m. msg \in Ack /\ p \in Proposals /\ prev \in CommandDoc /\ cmd[p] \in CommandDoc
  BY <1>r, <1>t DEF AckRequest, Ack
<1>1. /\ msg.status = "reconciled" <=> journal[p].status = "reconciled"
      /\ msg.status = "reconciled" => msg.ticket /\ msg.retcode \in {"none", "done"}
      /\ prev = cmd[p] /\ ~HeartbeatReconciled(prev)
  BY <1>t, <1>k DEF AckTruthful
<1>2. /\ ev.status = msg.status /\ ev.ticket = msg.ticket
      /\ msg.status = prev.status /\ msg.retcode = "none" /\ prev.retcode # "none" =>
           ev.retcode = prev.retcode
      /\ ~(msg.status = prev.status /\ msg.retcode = "none" /\ prev.retcode # "none") =>
           ev.retcode = msg.retcode
  <2>1. CASE msg.status = prev.status /\ msg.retcode = "none" /\ prev.retcode # "none"
    <3>. HIDE DEF msg, prev
    <3>1. ev = [msg EXCEPT !.retcode = prev.retcode, !.attempted = prev.attempted]
      BY <2>1 DEF AckEvidence
    <3>. HIDE DEF ev
    <3>. QED  BY <2>1, <3>1, <1>m DEF Ack
  <2>2. CASE ~(msg.status = prev.status /\ msg.retcode = "none" /\ prev.retcode # "none")
    BY <2>2 DEF AckEvidence
  <2>. QED  BY <2>1, <2>2
<1>3. /\ new.status = AckStatus(ev) /\ new.retcode = ev.retcode
      /\ new.source = cmd[p].source
  <2>. HIDE DEF msg, prev, ev
  <2>. DEFINE e == AckEligible(p, ev, prev)
              m == AckMaybe(ev, prev)
  <2>1. new = [cmd[p] EXCEPT !.status = AckStatus(ev), !.elig = e, !.maybe = m,
                 !.ticket = ev.ticket, !.retcode = ev.retcode, !.attempted = ev.attempted]
    BY DEF AckChange, ev
  <2>. HIDE DEF e, m, new, p
  <2>. QED  BY <2>1, <1>m DEF CommandDoc
<1>4. cmd' = [cmd EXCEPT ![p] = new]
  BY DEF AckUpdate
<1>5. cmd'[p] = new /\ \A q \in Proposals \ {p} : cmd'[q] = cmd[q]
  <2>. HIDE DEF p, new
  <2>. QED  BY <1>4, <1>m, <1>t
<1>6. cmd[p].status = "reconciled" => cmd[p].retcode = "done" /\ msg.status = "reconciled"
  <2>1. cmd[p].status = "reconciled" => cmd[p].source = "none"
    BY <1>1 DEF HeartbeatReconciled
  <2>. QED  BY <2>1, <1>1, <1>m DEF ResultInv, ResultsJournalled
<1>7. cmd[p].status = "reconciled" => new.status = "reconciled"
  <2>. SUFFICES ASSUME cmd[p].status = "reconciled" PROVE new.status = "reconciled"
    OBVIOUS
  <2>1. msg.status = "reconciled" /\ prev.status = "reconciled" /\ prev.retcode = "done"
        /\ msg.ticket /\ msg.retcode \in {"none", "done"}
    BY <1>1, <1>6
  <2>2. ev.retcode = "done" /\ ev.status = "reconciled" /\ ev.ticket
    <3>. HIDE DEF msg, prev, ev
    <3>. QED  BY <2>1, <1>2
  <2>. QED  BY <2>2, <1>3 DEF AckStatus
<1>8. ReconciledKept
  <2>. HIDE DEF p, new
  <2>. QED  BY <1>5, <1>7, <1>m DEF ReconciledKept
<1>9. new.status = "reconciled" => new.retcode = "done" /\ journal[p].status = "reconciled"
  <2>1. AckStatus(ev) = "reconciled" => ev.status = "reconciled" /\ ev.retcode = "done"
    BY DEF AckStatus
  <2>. QED  BY <2>1, <1>1, <1>2, <1>3
<1>10. ResultsJournalled'
  <2>. HIDE DEF p, new
  <2>. QED  BY <1>5, <1>9, <1>t DEF ResultInv, ResultsJournalled
<1>11. req'[s].msg = msg /\ req'[s].pc = "proposal" /\ req'[s].kind = "ack"
  BY <1>r, <1>t DEF AckUpdate, Goto, AckRequest
<1>12. AckTruthful(s)'
  <2>. HIDE DEF msg
  <2>. QED  BY <1>11, <1>t, <1>1 DEF AckTruthful, msg
<1>. QED  BY <1>8, <1>10, <1>12

\* commands_for_bridge and accept_bridge_heartbeat write no command that is
\* reconciled but as reconciled, and a result of the heartbeat names its source.
LEMMA OtherResultStep ==
  ASSUME TypeInv, CommandInv, ResultInv, NEW s \in Slots, UNCHANGED eaVars,
         PollWrite(s) \/ BeatWrite(s)
  PROVE  /\ ResultsJournalled' /\ ReconciledKept /\ req'[s].kind # "ack"
<1>t. req \in [Slots -> Requests] /\ cmd \in [Proposals -> CommandDoc] /\ UNCHANGED journal
      /\ PollCurrent(s) /\ BeatCurrent(s)
  BY DEF TypeInv, TypeOK, BridgeTypeOK, StoreTypeOK, Requests, CommandInv, RequestsCurrent, eaVars
<1>. DEFINE p == req[s].at
<1>w. ASSUME NEW new \in CommandDoc, p \in Proposals, cmd' = [cmd EXCEPT ![p] = new],
             cmd[p].status = "reconciled" => new.status = "reconciled",
             new.status = "reconciled" => new.source # "none"
      PROVE  ResultsJournalled' /\ ReconciledKept
  <2>. HIDE DEF p
  <2>1. cmd'[p] = new /\ \A q \in Proposals \ {p} : cmd'[q] = cmd[q]
    BY <1>w, <1>t
  <2>. QED  BY <1>w, <1>t, <2>1 DEF ResultInv, ResultsJournalled, ReconciledKept
<1>1. CASE PollWrite(s)
  <2>. DEFINE do == req[s].do
              new == PollChange(do, p)
  <2>1. req[s].kind = "poll" /\ req[s].pc = "write"
    BY <1>1 DEF PollWrite, At
  <2>2. p \in Proposals /\ cmd[p] \in CommandDoc /\ cmd[p].status \in {"ready", "delivered"}
    BY <2>1, <1>t DEF TypeInv, HandlerShape, PollCurrent
  <2>3. new \in CommandDoc /\ new.status \in {"delivered", "rejected"}
    <3>. HIDE DEF p, do
    <3>. QED  BY <2>2 DEF PollChange, CommandDoc, CommandStatus
  <2>4. cmd' = [cmd EXCEPT ![p] = new]
    BY <1>1 DEF PollWrite
  <2>5. req[s] \in PollRequest
    BY <2>1, <1>t, RequestKinds
  <2>6. req'[s].kind = "poll"
    BY <1>1, <2>5, <1>t DEF PollWrite, Goto, PollRequest
  <2>7. ResultsJournalled' /\ ReconciledKept
    <3>. HIDE DEF p, do, new
    <3>1. cmd[p].status # "reconciled" /\ new.status # "reconciled"
      BY <2>2, <2>3
    <3>2. p \in Proposals /\ new \in CommandDoc
      BY <2>2, <2>3
    <3>. QED  BY <3>1, <3>2, <2>4, <1>w
  <2>. QED  BY <2>6, <2>7
<1>2. CASE BeatWrite(s)
  <2>1. req[s].kind = "beat" /\ req[s].pc = "write"
    BY <1>2 DEF BeatWrite, At
  <2>2. p \in Proposals /\ cmd[p] \in CommandDoc
    BY <2>1, <1>t DEF TypeInv, HandlerShape
  <2>3. req[s] \in BeatRequest
    BY <2>1, <1>t, RequestKinds
  <2>4. req'[s].kind = "beat"
    <3>1. req' = [req EXCEPT ![s].pc = "life"] \/ req' = [req EXCEPT ![s].pc = "fill"]
      BY <1>2 DEF BeatWrite, Goto
    <3>. QED  BY <2>3, <3>1, <1>t DEF BeatRequest
  <2>5. CASE UNCHANGED cmd
    BY <2>4, <2>5, <1>t DEF ResultInv, ResultsJournalled, ReconciledKept
  <2>. DEFINE pending == [cmd[p] EXCEPT !.status = "reconciled", !.source = "pending",
                            !.ticket = TRUE, !.maybe = TRUE]
              filled == [cmd[p] EXCEPT !.status = "reconciled", !.elig = FALSE, !.maybe = TRUE,
                           !.ticket = TRUE, !.retcode = "done", !.attempted = "yes",
                           !.source = "position"]
  <2>6. /\ pending \in CommandDoc /\ pending.status = "reconciled" /\ pending.source # "none"
        /\ filled \in CommandDoc /\ filled.status = "reconciled" /\ filled.source # "none"
    <3>. HIDE DEF p
    <3>. QED  BY <2>2 DEF CommandDoc, CommandStatus, Retcodes
  <2>7. UNCHANGED cmd \/ cmd' = [cmd EXCEPT ![p] = pending] \/ cmd' = [cmd EXCEPT ![p] = filled]
    <3>. HIDE DEF p
    <3>. QED  BY <1>2, <2>2, <1>t DEF BeatWrite, p
  <2>8. ResultsJournalled' /\ ReconciledKept
    <3>. HIDE DEF p, pending, filled
    <3>. QED  BY <2>2, <2>4, <2>5, <2>6, <2>7, <1>w
  <2>. QED  BY <2>4, <2>8
<1>. QED  BY <1>1, <1>2

\* The handlers of the bridge keep what is known of results.
LEMMA HandlerResultStep ==
  ASSUME TypeInv, CommandInv, ResultInv, NEW s \in Slots, HandlerProceeds(s), UNCHANGED eaVars
  PROVE  ResultInv' /\ ReconciledKept
<1>t. req \in [Slots -> Requests] /\ cmd \in [Proposals -> CommandDoc]
      /\ AckTruthful(s) /\ UNCHANGED <<ea, journal>>
  BY DEF TypeInv, TypeOK, BridgeTypeOK, StoreTypeOK, Requests, ResultInv, eaVars
<1>k. req[s].kind \in {"poll", "ack", "beat"}
  BY DEF HandlerProceeds, PollReadiness, PollList, PollCheck, PollWrite, PollReoffer, PollReply,
    AckRead, AckUpdate, AckProposal, BeatSave, BeatList, BeatCheck, BeatWrite, BeatFill, BeatLife,
    BeatReply, At
<1>1. UNCHANGED waiting /\ \A q \in Slots \ {s} : req'[q] = req[q]
  BY DEF HandlerProceeds, PollReadiness, PollList, PollCheck, PollWrite, PollReoffer, PollReply,
    AckRead, AckUpdate, AckProposal, BeatSave, BeatList, BeatCheck, BeatWrite, BeatFill, BeatLife,
    BeatReply, Goto, Answer, TypeInv, TypeOK, BridgeTypeOK
<1>2. \A q \in Slots \ {s} : AckTruthful(q)'
  <2>1. \A q \in Slots \ {s} : req'[q] = Free
    BY <1>1, <1>k, HandlerAlone DEF CommandInv
  <2>. QED  BY <2>1 DEF AckTruthful, Free
<1>u. ASSUME UNCHANGED cmd, AckTruthful(s)' PROVE ResultInv' /\ ReconciledKept
  <2>1. \A q \in Slots : AckTruthful(q)'
    BY <1>u, <1>2
  <2>. QED  BY <1>u, <1>t, <2>1, ResultsKept
<1>3. CASE AckUpdate(s)
  BY <1>3, <1>2, <1>t, AckResultStep DEF ResultInv, ResultsTicketed
<1>4. CASE PollWrite(s) \/ BeatWrite(s)
  <2>1. ResultsJournalled' /\ ReconciledKept /\ AckTruthful(s)'
    BY <1>4, OtherResultStep DEF AckTruthful
  <2>. QED  BY <2>1, <1>2, <1>t DEF ResultInv, ResultsTicketed
<1>5. CASE AckRead(s) \/ AckProposal(s)
  <2>1. UNCHANGED cmd
    BY <1>5 DEF AckRead, AckProposal, storeVars
  <2>2. req[s] \in AckRequest
    BY <1>5, <1>t, RequestKinds DEF AckRead, AckProposal, At
  <2>3. \/ req'[s] = Free
        \/ /\ req'[s].kind = "ack" /\ req'[s].msg = req[s].msg
           /\ \/ req'[s].pc # "update"
              \/ req'[s].prev = cmd[req[s].msg.p] /\ ~HeartbeatReconciled(cmd[req[s].msg.p])
    BY <1>5, <2>2, <1>t DEF AckRead, AckProposal, Answer, AckRequest
  <2>4. AckTruthful(s)'
    BY <2>1, <2>2, <2>3, <1>t DEF AckTruthful, AckRequest, Free, HeartbeatReconciled
  <2>. QED  BY <2>1, <2>4, <1>u
<1>6. CASE PollReadiness(s) \/ PollList(s) \/ PollCheck(s) \/ PollReoffer(s) \/ PollReply(s)
  <2>1. UNCHANGED cmd
    BY <1>6 DEF PollReadiness, PollList, PollCheck, PollReoffer, PollReply, storeVars
  <2>k. req[s].kind = "poll"
    BY <1>6 DEF PollReadiness, PollList, PollCheck, PollReoffer, PollReply, At
  <2>2. req[s] \in PollRequest
    BY <2>k, <1>t, RequestKinds
  <2>3. req'[s].kind # "ack"
    <3>1. CASE PollReadiness(s) \/ PollReply(s)
      BY <3>1, <2>2, <1>t DEF PollReadiness, PollReply, Answer, Free, PollRequest
    <3>2. CASE PollList(s)
      BY <3>2, <2>2, <1>t DEF PollList, PollRequest
    <3>3. CASE PollCheck(s)
      BY <3>3, <2>2, <1>t DEF PollCheck, PollRequest
    <3>4. CASE PollReoffer(s)
      BY <3>4, <2>2, <1>t DEF PollReoffer, PollRequest
    <3>. QED  BY <1>6, <3>1, <3>2, <3>3, <3>4
  <2>. QED  BY <2>1, <2>3, <1>u DEF AckTruthful
<1>7. CASE BeatSave(s) \/ BeatList(s) \/ BeatCheck(s) \/ BeatFill(s) \/ BeatLife(s) \/ BeatReply(s)
  <2>1. UNCHANGED cmd
    <3>1. CASE BeatSave(s) \/ BeatFill(s) \/ BeatLife(s)
      BY <3>1 DEF BeatSave, BeatFill, BeatLife
    <3>2. CASE BeatList(s) \/ BeatCheck(s) \/ BeatReply(s)
      BY <3>2 DEF BeatList, BeatCheck, BeatReply, storeVars
    <3>. QED  BY <1>7, <3>1, <3>2
  <2>k. req[s].kind = "beat"
    BY <1>7 DEF BeatSave, BeatList, BeatCheck, BeatFill, BeatLife, BeatReply, At
  <2>2. req[s] \in BeatRequest
    BY <2>k, <1>t, RequestKinds
  <2>3. req'[s].kind # "ack"
    <3>1. CASE BeatSave(s) \/ BeatFill(s)
      BY <3>1, <2>2, <1>t DEF BeatSave, BeatFill, Goto, BeatRequest
    <3>2. CASE BeatList(s)
      BY <3>2, <2>2, <1>t DEF BeatList, BeatRequest
    <3>3. CASE BeatCheck(s)
      BY <3>3, <2>2, <1>t DEF BeatCheck, BeatRequest
    <3>4. CASE BeatLife(s)
      BY <3>4, <2>2, <1>t DEF BeatLife, BeatRequest
    <3>5. CASE BeatReply(s)
      BY <3>5, <2>2, <1>t DEF BeatReply, Answer, Free, BeatRequest
    <3>. QED  BY <1>7, <3>1, <3>2, <3>3, <3>4, <3>5
  <2>. QED  BY <2>1, <2>3, <1>u DEF AckTruthful
<1>. QED  BY <1>3, <1>4, <1>5, <1>6, <1>7 DEF HandlerProceeds

\* ExecuteCommand acknowledges what its journal says: the record it finds, the
\* refusal it has just written, or a refusal without a record.
LEMMA ExecuteResultStep ==
  ASSUME ~JournalFaults, TypeInv, CommandInv, ResultInv, NEW p \in Proposals, NEW s \in Slots,
         ExecuteReplay(s, p) \/ ExecuteRefuse(s, p) \/ ExecuteUnprepared(s, p)
  PROVE  ResultInv' /\ ReconciledKept
<1>t. EATypeOK /\ req \in [Slots -> Requests] /\ ea \in EAState /\ journal[p] \in JournalRecord
  BY DEF TypeInv, TypeOK, EATypeOK, BridgeTypeOK, Requests
<1>a. ea.pc = "run" /\ ea'.pc = "acking" /\ UNCHANGED cmd
  BY <1>t DEF ExecuteReplay, ExecuteRefuse, ExecuteUnprepared, Acking, EAState, storeVars
<1>1. PICK status \in {"rejected", "broker_uncertain", "reconciled"}, ticket \in BOOLEAN,
           text \in {"price", "replay", "other"} :
        /\ SendAck(s, p, status, ticket, "none", "no", text)
        /\ status = "reconciled" <=> journal'[p].status = "reconciled"
        /\ status = "reconciled" => ticket
        /\ \A q \in Proposals : journal'[q] = journal[q]
             \/ (q = p /\ journal[p].status = "none" /\ journal'[p].status = "rejected")
  <2>1. CASE ExecuteReplay(s, p)
    <3>1. journal[p].status \in {"rejected", "broker_uncertain", "reconciled"}
          /\ journal[p].ticket \in BOOLEAN
          /\ (journal[p].status = "reconciled" => journal[p].ticket)
      BY <2>1, <1>t DEF ExecuteReplay, JournalRecord, ResultInv, ResultsTicketed
    <3>. QED  BY <2>1, <3>1 DEF ExecuteReplay
  <2>2. CASE ExecuteRefuse(s, p)
    <3>1. journal'[p].status = "rejected" /\ \A q \in Proposals \ {p} : journal'[q] = journal[q]
      BY <2>2, <1>t, WorkingJournal DEF ExecuteRefuse
    <3>. QED  BY <2>2, <3>1 DEF ExecuteRefuse
  <2>3. CASE ExecuteUnprepared(s, p)
    BY <2>3 DEF ExecuteUnprepared
  <2>. QED  BY <2>1, <2>2, <2>3
<1>2. waiting = "none" /\ \A q \in Slots : req[q] = Free
  BY <1>a, EAAlone DEF CommandInv
<1>. DEFINE msg == [p |-> p, status |-> status, ticket |-> ticket, retcode |-> "none",
                    attempted |-> "no", text |-> text]
<1>3. req' = [req EXCEPT ![s] = NewAck(msg)]
  BY <1>1 DEF SendAck, Send
<1>4. req'[s] = NewAck(msg) /\ \A q \in Slots \ {s} : req'[q] = Free
  BY <1>2, <1>3, <1>t
<1>5. AckTruthful(s)'
  BY <1>1, <1>4 DEF AckTruthful, NewAck
<1>6. \A q \in Slots : AckTruthful(q)'
  BY <1>4, <1>5 DEF AckTruthful, Free
<1>7. ResultsJournalled' /\ ReconciledKept
  BY <1>1, <1>a DEF ResultInv, ResultsJournalled, ReconciledKept
<1>8. \A q \in Proposals : journal'[q].status = "reconciled" => journal'[q].ticket
  BY <1>1 DEF ResultInv, ResultsTicketed
<1>. QED  BY <1>6, <1>7, <1>8, <1>a DEF ResultInv, ResultsTicketed

\* A submission begins over an empty journal record and ends over the record of
\* the attempt; what is acknowledged is what is journalled.
LEMMA SubmitResultStep ==
  ASSUME ~JournalFaults, TypeInv, CommandInv, ResultInv,
         \/ \E p \in Proposals : ExecuteBegin(p)
         \/ Submit
         \/ \E s \in Slots : Record(s)
  PROVE  ResultInv' /\ ReconciledKept
<1>t. EATypeOK /\ req \in [Slots -> Requests] /\ ea \in EAState
  BY DEF TypeInv, TypeOK, EATypeOK, BridgeTypeOK, Requests
<1>a. (\A s \in Slots : req[s] = Free) /\ UNCHANGED cmd
  <2>1. UNCHANGED cmd
    BY DEF ExecuteBegin, Submit, Record, storeVars
  <2>2. ea.pc \in {"run", "submit", "record"}
    BY DEF ExecuteBegin, Submit, Record
  <2>. QED  BY <2>1, <2>2, EAAlone DEF CommandInv
<1>f. ASSUME UNCHANGED req PROVE \A s \in Slots : AckTruthful(s)'
  BY <1>f, <1>a DEF AckTruthful, Free
<1>1. ASSUME NEW p \in Proposals, ExecuteBegin(p)
      PROVE  ResultInv' /\ ReconciledKept
  <2>1. /\ journal'[p].status = "broker_uncertain"
        /\ \A q \in Proposals \ {p} : journal'[q] = journal[q]
    <3>1. JournalAppend(p, "broker_uncertain", FALSE)
      BY <1>1 DEF ExecuteBegin
    <3>. QED  BY <3>1, <1>t, WorkingJournal
  <2>2. ea'.pc = "submit" /\ ea'.at = p /\ journal[p].status = "none" /\ UNCHANGED req
    <3>1. /\ ea' = [ea EXCEPT !.pc = "submit", !.at = p]
          /\ journal[p].status = "none" /\ UNCHANGED req
      BY <1>1 DEF ExecuteBegin, bridgeVars
    <3>. QED  BY <3>1, <1>t DEF EAState
  <2>. QED  BY <2>1, <2>2, <1>a, <1>f
         DEF ResultInv, ResultsJournalled, ResultsTicketed, ReconciledKept
<1>2. CASE Submit
  <2>1. UNCHANGED <<req, journal>> /\ ea'.pc = "record" /\ ea'.at = ea.at /\ ea.pc = "submit"
        /\ (ea'.result = "done" => ea'.ticket)
    <3>1. UNCHANGED <<req, journal>> /\ ea.pc = "submit"
      BY <1>2 DEF Submit, bridgeVars
    <3>2. PICK result \in Outcomes \ {"none"} :
            ea' = [ea EXCEPT !.pc = "record", !.result = result,
                             !.ticket = result \in {"done", "nofill"}]
      BY <1>2 DEF Submit
    <3>3. /\ ea'.pc = "record" /\ ea'.at = ea.at /\ ea'.result = result
          /\ (ea'.ticket <=> result \in {"done", "nofill"})
      BY <3>2, <1>t DEF EAState
    <3>. QED  BY <3>1, <3>3
  <2>. QED  BY <2>1, <1>a, <1>f
         DEF ResultInv, ResultsJournalled, ResultsTicketed, ReconciledKept
<1>3. ASSUME NEW s \in Slots, Record(s)
      PROVE  ResultInv' /\ ReconciledKept
  <2>. DEFINE p == ea.at
              status == ResultStatus(ea.result)
              msg == [p |-> p, status |-> status, ticket |-> ea.ticket, retcode |-> ea.result,
                      attempted |-> "yes", text |-> "other"]
  <2>1. p \in Proposals /\ ea.pc = "record" /\ journal[p].status = "broker_uncertain"
        /\ (status = "reconciled" => ea.result = "done" /\ ea.ticket)
    BY <1>3 DEF Record, TypeInv, EAShape, ResultInv, ResultsTicketed, ResultStatus
  <2>2. journal' = [journal EXCEPT ![p] = [status |-> status, ticket |-> ea.ticket]]
    BY <1>3 DEF Record, JournalAppend
  <2>3. /\ journal'[p] = [status |-> status, ticket |-> ea.ticket]
        /\ \A q \in Proposals \ {p} : journal'[q] = journal[q]
    <3>. HIDE DEF status, p
    <3>. QED  BY <2>1, <2>2, <1>t DEF EATypeOK
  <2>4. req' = [req EXCEPT ![s] = NewAck(msg)] /\ ea'.pc = "acking"
    BY <1>3, <1>t DEF Record, SendAck, Send, Acking, EAState
  <2>5. req'[s] = NewAck(msg) /\ \A q \in Slots \ {s} : req'[q] = Free
    <3>. HIDE DEF msg
    <3>. QED  BY <2>4, <1>a, <1>t
  <2>6. AckTruthful(s)'
    BY <2>1, <2>3, <2>5 DEF AckTruthful, NewAck
  <2>7. \A q \in Slots : AckTruthful(q)'
    BY <2>5, <2>6 DEF AckTruthful, Free
  <2>. HIDE DEF status, p, msg
  <2>8. ResultsJournalled' /\ ReconciledKept
    BY <2>1, <2>3, <1>a DEF ResultInv, ResultsJournalled, ReconciledKept
  <2>9. \A q \in Proposals : journal'[q].status = "reconciled" => journal'[q].ticket
    BY <2>1, <2>3 DEF ResultInv, ResultsTicketed
  <2>. QED  BY <2>4, <2>7, <2>8, <2>9 DEF ResultInv, ResultsTicketed
<1>. QED  BY <1>1, <1>2, <1>3

\* Heartbeats, polls, answers, faults and restarts write nothing about results.
LEMMA QuietResultStep ==
  ASSUME TypeInv, CommandInv, ResultInv,
         \/ \E s \in Slots : SendHeartbeat(s) \/ PollCommands(s)
         \/ HeartbeatAnswered \/ PollAnswered \/ AckAnswered
         \/ EAFaults
  PROVE  ResultInv' /\ ReconciledKept
<1>t. req \in [Slots -> Requests] /\ ea \in EAState
  BY DEF TypeInv, TypeOK, EATypeOK, BridgeTypeOK, Requests
<1>u. UNCHANGED <<cmd, journal>>
  BY DEF SendHeartbeat, PollCommands, HeartbeatAnswered, PollAnswered, AckAnswered, EAFaults,
    RequestTimesOut, EARestarts, HeartbeatAges, RequestFails, HandlerDies, storeVars
<1>e. ea'.pc \in {"submit", "record"} => ea' = ea
  <2>1. CASE \E s \in Slots : SendHeartbeat(s) \/ PollCommands(s)
    BY <2>1, <1>t DEF SendHeartbeat, PollCommands, EAState
  <2>2. CASE HeartbeatAnswered \/ PollAnswered \/ AckAnswered
    BY <2>2, <1>t DEF HeartbeatAnswered, PollAnswered, AckAnswered, Resume, EAIdle, EAState
  <2>3. CASE RequestTimesOut
    BY <2>3, <1>t DEF RequestTimesOut, Resume, EAIdle, EAState
  <2>4. CASE EARestarts
    BY <2>4 DEF EARestarts, EAIdle
  <2>5. CASE HeartbeatAges \/ \E s \in Slots : RequestFails(s)
    BY <2>5 DEF HeartbeatAges, RequestFails
  <2>. QED  BY <2>1, <2>2, <2>3, <2>4, <2>5 DEF EAFaults
<1>r. \A s \in Slots :
        \/ req'[s] = req[s]
        \/ req'[s].kind # "ack"
        \/ req[s].kind = "ack" /\ req'[s].msg = req[s].msg /\ req'[s].pc # "update"
  <2>1. CASE \E s \in Slots : SendHeartbeat(s) \/ PollCommands(s)
    BY <2>1, <1>t DEF SendHeartbeat, PollCommands, Send, NewPoll, NewBeat
  <2>2. CASE HeartbeatAnswered \/ PollAnswered \/ AckAnswered
    BY <2>2, <1>t DEF HeartbeatAnswered, PollAnswered, AckAnswered, Take, Free
  <2>3. CASE RequestTimesOut \/ EARestarts \/ HeartbeatAges
    BY <2>3, <1>t DEF RequestTimesOut, EARestarts, HeartbeatAges, Free, bridgeVars
  <2>4. ASSUME NEW k \in Slots, RequestFails(k), NEW s \in Slots
        PROVE  \/ req'[s] = req[s]
               \/ req'[s].kind # "ack"
               \/ req[s].kind = "ack" /\ req'[s].msg = req[s].msg /\ req'[s].pc # "update"
    <3>1. \/ req' = [req EXCEPT ![k] = [req[k] EXCEPT !.pc = "dead"]]
          \/ req' = [req EXCEPT ![k] = Free]
      BY <2>4 DEF RequestFails, HandlerDies, Answer
    <3>2. CASE s # k
      BY <3>1, <3>2, <1>t
    <3>3. CASE req' = [req EXCEPT ![k] = Free] /\ s = k
      BY <3>3, <1>t DEF Free
    <3>4. CASE req' = [req EXCEPT ![k] = [req[k] EXCEPT !.pc = "dead"]] /\ s = k
      <4>1. req'[s] = [req[s] EXCEPT !.pc = "dead"] /\ req[s].pc # "free" /\ req[s] \in Requests
        BY <2>4, <3>4, <1>t DEF RequestFails, HandlerDies
      <4>2. req[s] \in PollRequest \/ req[s] \in AckRequest \/ req[s] \in BeatRequest
        BY <4>1 DEF Requests, Free
      <4>3. CASE req[s] \in AckRequest
        BY <4>1, <4>3 DEF AckRequest
      <4>4. CASE req[s] \in PollRequest
        BY <4>1, <4>4 DEF PollRequest
      <4>5. CASE req[s] \in BeatRequest
        BY <4>1, <4>5 DEF BeatRequest
      <4>. QED  BY <4>2, <4>3, <4>4, <4>5
    <3>. QED  BY <3>1, <3>2, <3>3, <3>4
  <2>. QED  BY <2>1, <2>2, <2>3, <2>4 DEF EAFaults
<1>1. \A s \in Slots : AckTruthful(s)'
  BY <1>r, <1>u, TruthfulKept
<1>. QED  BY <1>1, <1>u, <1>e, ResultsKept

\* Every step keeps what is known of results and takes none back.
LEMMA ResultStep ==
  ASSUME ~JournalFaults, TypeInv, CommandInv, ResultInv, [Next]_vars
  PROVE  ResultInv' /\ ReconciledKept
<1>k. ASSUME UNCHANGED <<cmd, req, ea, journal>>
      PROVE  ResultInv' /\ ReconciledKept
  <2>1. \A s \in Slots : AckTruthful(s)'
    BY <1>k, TruthfulKept
  <2>. QED  BY <2>1, <1>k, ResultsKept
<1>1. ASSUME NEW s \in Slots, HandlerProceeds(s), UNCHANGED <<cb, eaVars>>
      PROVE  ResultInv' /\ ReconciledKept
  BY <1>1, HandlerResultStep
<1>2. CASE EASteps /\ UNCHANGED cb
  BY <1>2, QuietResultStep, ExecuteResultStep, SubmitResultStep DEF EASteps
<1>3. ASSUME NEW c \in Callbacks, CallbackStarts(c) \/ CallbackProceeds(c) \/ CallbackEnds(c),
             UNCHANGED <<bridgeVars, eaVars>>
      PROVE  ResultInv' /\ ReconciledKept
  <2>1. CASE ApproveSaveCommand(c)
    <3>. DEFINE p == cb[c].p
    <3>t. cmd \in [Proposals -> CommandDoc] /\ req \in [Slots -> Requests]
          /\ UNCHANGED <<req, ea, journal>>
      BY <1>3 DEF TypeInv, TypeOK, StoreTypeOK, BridgeTypeOK, Requests, bridgeVars, eaVars
    <3>1. p \in Proposals /\ cmd[p].status = "absent" /\ cmd' = [cmd EXCEPT ![p] = NewCommand]
      BY <2>1 DEF ApproveSaveCommand, TypeInv, CallbackShape
    <3>. HIDE DEF p
    <3>2. cmd'[p].status = "ready" /\ \A q \in Proposals \ {p} : cmd'[q] = cmd[q]
      BY <3>1, <3>t DEF NewCommand
    <3>3. ASSUME NEW s \in Slots PROVE AckTruthful(s)'
      <4>1. AckTruthful(s) /\ AckCurrent(s)
        BY DEF ResultInv, CommandInv, RequestsCurrent
      <4>2. req[s].kind = "ack" => req[s].msg.p \in Proposals
        BY <3>t, RequestKinds DEF AckRequest, Ack
      <4>3. req[s].kind = "ack" /\ req[s].pc = "update" => cmd'[req[s].msg.p] = cmd[req[s].msg.p]
        BY <4>1, <4>2, <3>1, <3>2 DEF AckCurrent, Offered
      <4>. QED  BY <4>1, <4>3, <3>t DEF AckTruthful
    <3>4. ResultsJournalled' /\ ReconciledKept
      BY <3>1, <3>2, <3>t DEF ResultInv, ResultsJournalled, ReconciledKept
    <3>. QED  BY <3>3, <3>4, <3>t DEF ResultInv, ResultsTicketed
  <2>2. CASE ~ApproveSaveCommand(c)
    <3>1. UNCHANGED cmd
      BY <1>3, <2>2 DEF CallbackStarts, CallbackProceeds, CallbackEnds, ApproveRead, Reject,
        OfferRead, SupersedeList, ApproveExpired, ApproveGate, ApproveBlocked, ApproveQuote,
        ApproveInvalidates, ApproveRecheck, ApproveClaim, ApproveQueue, OfferCreate,
        OfferLinkRead, OfferLinkWrite, SupersedeWrite, storeVars, restOfStore
    <3>. QED  BY <1>3, <3>1, <1>k DEF bridgeVars, eaVars
  <2>. QED  BY <2>1, <2>2
<1>4. CASE Environment /\ UNCHANGED <<cb, bridgeVars, eaVars>>
  <2>1. UNCHANGED cmd
    BY <1>4 DEF Environment, Kill, ResetKill, ProposalExpires, CommandLapses
  <2>. QED  BY <1>4, <2>1, <1>k DEF bridgeVars, eaVars
<1>5. CASE EAFaults /\ UNCHANGED cb
  BY <1>5, QuietResultStep
<1>6. CASE \E p \in Proposals : BrokerMoves(p) /\ UNCHANGED cb
  BY <1>6, <1>k DEF BrokerMoves, storeVars, bridgeVars
<1>7. CASE UNCHANGED vars
  BY <1>7, <1>k DEF vars, storeVars, bridgeVars, eaVars
<1>. QED  BY <1>1, <1>2, <1>3, <1>4, <1>5, <1>6, <1>7 DEF Next, OperatorNext

\* A reconciled command stays reconciled, under the same two conditions: a replay or
\* an older receipt cannot say less than the journal, and acknowledge leaves what the
\* heartbeat has reconciled.
THEOREM ReconciledForGood ==
  ASSUME ~Overlap, ~JournalFaults
  PROVE  Spec => ReconciledStays
<1>1. Init => ResultInv
  BY DEF Init, StoreInit, BridgeInit, EAInit, EAIdle, NoCommand, NewCommand, NoRecord, Free,
    ResultInv, ResultsJournalled, ResultsTicketed, AckTruthful
<1>2. TypeInv /\ CommandInv /\ ResultInv /\ [Next]_vars
      => ResultInv' /\ [\A p \in Proposals :
           cmd[p].status = "reconciled" => cmd'[p].status = "reconciled"]_vars
  BY ResultStep DEF ReconciledKept
<1>3. SetupInv => CommandInv
  BY DEF SetupInv
<1>. QED  BY <1>1, <1>2, <1>3, SetupInvariant, TypeInvariant, PTL DEF Spec, ReconciledStays
=============================================================================
