--------------------------- MODULE PositionProofs ---------------------------
(***************************************************************************)
(* Proofs about the management of one position: for any number of targets, *)
(* heartbeats, operators and deals.                                        *)
(***************************************************************************)
EXTENDS PositionManagement, WellFoundedInduction, TLAPS

-----------------------------------------------------------------------------
(* The inductive invariant, for any number of heartbeats and operators. *)

NoId == <<>>
Ids == {"tp", "stop", "manual"} \X Nat \X Seq(Nat)
Intents == [op : {"none", "partial_close", "sl", "close", "modify_targets"},
            target : 0..Len(Alloc), volume : Nat, expected : Nat, plan : Seq(Nat),
            level : Nat, auto : BOOLEAN]
DocStates == Halted \cup {"none", "OPEN", "TARGET_PENDING", "TARGET_HIT"}
DocsIn(states) ==
  [state : states, closed : [Targets -> Nat], remaining : Nat, sl : 0..MaxStop, seen : SUBSET Nat,
   pending : Ids \cup {NoId}, intent : Intents, done : SUBSET (1..MaxStop), edition : Nat]
Docs == DocsIn(DocStates)
Drafts == DocsIn(DocStates \cup {"raised"})
Deals == [by : Ids \cup {NoId}, volume : Nat \ {0}, reason : {"EXPERT", "TP", "SL", "CLIENT"}]
Accounts == [volume : Nat, sl : 0..MaxStop, edition : Nat, deals : Seq(Deals)]
Receipts == {"none", "reconciled", "rejected", "uncertain"}
Entries == [intent : Intents, status : Proposals, cmd : Commands,
            ea : {"none", "taken", "answered", "done"}, receipt : Receipts]
Looking == {"read", "command", "judge"}
Judging == {"confirm", "store"}
Points == {"idle", "read", "command", "judge", "confirm", "store", "advance", "propose",
           "approve", "queue", "pause", "reserve"}
Hands == [pc : Points, snap : Accounts \cup {<<>>}, doc : Docs, fresh : BOOLEAN, cmd : Commands,
          id : Ids \cup {NoId}]

PositionTypes ==
  /\ managed \in Docs /\ account \in Accounts /\ bridge \in Accounts
  /\ intents \in [DOMAIN intents -> Entries] /\ DOMAIN intents \subseteq Ids
  /\ handler \in [Handlers -> Hands]
  /\ structure \in 0..MaxStop /\ manual \in 0..MaxManual
  /\ writtenOff \in BOOLEAN /\ outrun \in BOOLEAN
  /\ managementFaults \in 0..MaxManagementFaults

(* An operation's intent is of the kind its id says.                         *)
Fitting(id, intent) ==
  /\ id[1] = "tp" => /\ intent.op = "partial_close" /\ intent.target \in Targets \ {FinalTarget}
                     /\ intent.target = id[2] /\ intent.volume = Alloc[intent.target]
  /\ id[1] = "stop" => intent.op = "sl" /\ intent.target = 0 /\ intent.level \in 1..MaxStop
  /\ id[1] = "manual" => intent.op \in ManualOps /\ intent.target = 0
  /\ intent.op = "sl" => intent.level \in 0..MaxStop
IntentFits(doc) == doc.pending # NoId => Fitting(doc.pending, doc.intent)

(* A document's books agree with the broker's history.                       *)
Volumes(deals) == [n \in 1..Len(deals) |-> deals[n].volume]
SeenVolumes(seen, deals) ==
  [n \in 1..Len(deals) |-> IF n \in seen THEN deals[n].volume ELSE 0]
Books(doc, deals) ==
  /\ doc.seen \subseteq 1..Len(deals)
  /\ doc.remaining + Sum(SeenVolumes(doc.seen, deals)) = Volume
  /\ Sum(doc.closed) + doc.remaining <= Volume
  /\ \A t \in Targets \ {FinalTarget} : doc.closed[t] <= Alloc[t]

(* Stopped management has nothing reserved, unless a heartbeat outran it.    *)
Failed == {"MANAGEMENT_FAILED", "MANAGEMENT_PAUSED"}
Stopped(doc) == doc.state \in Failed => doc.pending = NoId \/ outrun

(* A target's fill comes from the operation reserved for it; a deal of a     *)
(* plan's exit is in the books of its target, or will be.                    *)
DealBy(id) == \E n \in 1..Len(account.deals) : account.deals[n].by = id
FilledBy(doc) ==
  doc.pending # NoId /\ doc.pending[1] = "tp" /\ doc.closed[doc.pending[2]] # 0 =>
    DealBy(doc.pending)
Kept(doc) ==
  \A n \in 1..Len(account.deals) :
    account.deals[n].by # NoId /\ account.deals[n].by[1] = "tp" =>
      \/ doc.remaining = 0
      \/ doc.closed[account.deals[n].by[2]] # 0
      \/ doc.pending = account.deals[n].by /\ n \notin doc.seen

(* What holds of every document, the stored one and the copies.              *)
DocOK(doc) == IntentFits(doc) /\ Books(doc, account.deals) /\ Stopped(doc) /\ FilledBy(doc)
ManagedOK == DocOK(managed) /\ (writtenOff \/ Kept(managed))

(* An operation that is not over is the reserved one, and each command places *)
(* one deal at most: none before it is executed, or when it is refused.      *)
HeldBy(id) == managed.pending = id \/ managed.remaining = 0
Refused(id) == Known(id) /\ intents[id].status \in {"rejected", "expired"}
Over(id) == Known(id) /\ intents[id].status # "pending" /\ ~Waiting(id)
EntryOK(id) ==
  LET entry == intents[id] IN
    /\ Fitting(id, entry.intent)
    /\ entry.status \in {"pending", "rejected", "expired"} =>
         entry.cmd = "none" /\ entry.ea = "none"
    /\ entry.status \in {"queued", "settled"} => entry.cmd # "none"
    /\ entry.ea \in {"none", "taken"} => entry.receipt = "none"
    /\ entry.ea \in {"answered", "done"} => entry.receipt # "none"
    /\ entry.status = "pending" \/ Waiting(id) => HeldBy(id)
    /\ DealBy(id) => entry.ea \in {"answered", "done"} /\ entry.receipt # "rejected"
    /\ entry.ea = "taken" /\ ~writtenOff => entry.status = "queued" /\ entry.cmd = "delivered"
    /\ entry.cmd = "rejected" /\ ~writtenOff => ~DealBy(id)

AccountOK ==
  /\ account.volume + Sum(Volumes(account.deals)) = Volume
  /\ account.volume + Len(account.deals) <= Volume
  /\ \A n \in 1..Len(account.deals) : account.deals[n].by # NoId =>
       Known(account.deals[n].by) /\ account.deals[n].reason = "EXPERT"

(* What a handler holds at each point.  Its snapshot is a beginning of the   *)
(* broker's history.                                                         *)
Begins(deals, all) == Len(deals) <= Len(all) /\ \A n \in 1..Len(deals) : deals[n] = all[n]
Standing(me) ==
  /\ me.pc \in Looking => me.snap \in Accounts /\ Begins(me.snap.deals, account.deals)
  /\ me.pc \in {"confirm", "propose", "approve", "queue", "reserve"} => me.id # NoId
  /\ me.pc \in {"approve", "queue"} => Known(me.id)
  /\ me.pc \in {"reserve", "propose"} => me.doc.pending = me.id
  /\ me.pc = "propose" /\ ~Known(me.id) => HeldBy(me.id)
Commanded(me) ==
  /\ me.pc = "judge" /\ me.cmd # "none" =>
       Known(me.doc.pending) /\ intents[me.doc.pending].status # "pending"
  /\ me.pc = "judge" /\ me.cmd \in {"rejected", "reconciled"} => Over(me.doc.pending)
  /\ me.pc = "judge" /\ me.cmd = "none" =>
       \A n \in 1..Len(me.snap.deals) :
         me.doc.pending # NoId => me.snap.deals[n].by # me.doc.pending
  /\ me.pc = "judge" /\ me.cmd = "rejected" /\ ~writtenOff => ~DealBy(me.doc.pending)
  /\ me.pc = "confirm" => Known(me.id) /\ intents[me.id].status # "pending" /\ DealBy(me.id)

(* A copy that is fresh was made from the document as it stands.             *)
Copied(doc) == [doc EXCEPT !.state = IF @ = "none" THEN "OPEN" ELSE @]
SameBooks(doc, other) ==
  doc.closed = other.closed /\ doc.remaining = other.remaining /\ doc.sl = other.sl
    /\ doc.seen = other.seen /\ doc.done = other.done /\ doc.edition = other.edition
Looked(me) == managed.state # "POSITION_CLOSED" /\ me.doc = Copied(managed)
Follows(me) ==
  /\ managed.state # "POSITION_CLOSED"
  /\ me.doc.remaining <= managed.remaining
  /\ (managed.state \in Failed /\ ~outrun /\ me.doc.state \in {"OPEN", "TARGET_PENDING"}) =>
       managed.closed[FinalTarget] < me.doc.closed[FinalTarget]
  /\ \/ me.doc.pending = managed.pending
     \/ /\ me.doc.pending = NoId
        /\ \/ me.doc.remaining = 0 \/ Over(managed.pending)
           \/ me.pc = "confirm" /\ me.id = managed.pending
  /\ writtenOff \/ Kept(me.doc)
Reserving(me) ==
  /\ SameBooks(me.doc, managed)
  /\ managed.state = "POSITION_CLOSED" => outrun /\ me.doc.state = "POSITION_CLOSED"
  /\ managed.state \in Halted => outrun \/ me.id[1] = "manual"
  /\ managed.pending = NoId \/ Refused(managed.pending)
Pausing(me) ==
  /\ me.doc = [managed EXCEPT !.pending = NoId, !.state = "MANAGEMENT_PAUSED"]
  /\ managed.state \in Halted => outrun
  /\ Refused(managed.pending)
Fresh(me) ==
  /\ me.pc \in {"command", "judge"} => Looked(me)
  /\ me.pc \in Judging => Follows(me)
  /\ me.pc = "reserve" => Reserving(me)
  /\ me.pc = "pause" => Pausing(me)

HandOK(me) == Standing(me) /\ Commanded(me) /\ DocOK(me.doc) /\ (me.fresh => Fresh(me))

PositionInv ==
  /\ PositionTypes /\ ManagedOK /\ AccountOK
  /\ \A id \in DOMAIN intents : EntryOK(id)
  /\ \A h \in Handlers : HandOK(handler[h])
  /\ ExitsNotRepeated

-----------------------------------------------------------------------------
(* The data. *)

(* The targets are numbered from 1 and every target has an allocation, which *)
(* is within the position's volume.                                          *)
LEMMA AllocFacts ==
  /\ FinalTarget \in Targets /\ FinalTarget \in Nat \ {0} /\ Targets = 1..FinalTarget
  /\ Alloc \in [1..FinalTarget -> Nat] /\ Volume \in Nat
  /\ \A t \in Targets : Alloc[t] \in Nat \ {0} /\ Alloc[t] <= Volume
<1>1. Alloc \in Seq(Nat \ {0}) /\ Len(Alloc) > 0 BY ManagementAssumption DEF ManagementAssumption
<1>2. FinalTarget \in Nat \ {0} /\ Alloc \in [1..FinalTarget -> Nat \ {0}]
  BY <1>1 DEF FinalTarget
<1>3. FinalTarget \in Targets /\ Targets = 1..FinalTarget BY <1>2 DEF Targets, FinalTarget
<1>4. FinalTarget \in Nat /\ Alloc \in [1..FinalTarget -> Nat] BY <1>2
<1>5. Volume \in Nat BY <1>4, SumOfNumbers DEF Volume
<1>6. \A t \in 1..FinalTarget : Alloc[t] <= Volume BY <1>4, TermWithinSum DEF Volume
<1> QED BY <1>2, <1>3, <1>4, <1>5, <1>6

(* Nothing is an intent, and no id is the empty one.                         *)
LEMMA NothingTyped ==
  /\ NoIntent \in Intents /\ NoIntent.op = "none" /\ NoIntent.target = 0 /\ NoIntent.auto = FALSE
  /\ Unmanaged \in Docs /\ Unmanaged.pending = NoId /\ Unmanaged.state = "none"
  /\ NobodyHandles \in Hands
  /\ NoId \notin Ids
<1>1. 0 \in 0..Len(Alloc) BY AllocFacts DEF FinalTarget
<1>2. NoIntent \in Intents BY <1>1 DEF NoIntent, Intents
<1>3. NoIntent.op = "none" /\ NoIntent.target = 0 /\ NoIntent.auto = FALSE BY DEF NoIntent
<1>4. MaxStop \in Nat BY ManagementAssumption DEF ManagementAssumption
<1>5. [t \in Targets |-> 0] \in [Targets -> Nat] /\ 0 \in 0..MaxStop /\ Volume \in Nat
  BY <1>4, AllocFacts
<1> HIDE DEF NoIntent
<1>6. Unmanaged \in Docs
  <2>1. "none" \in DocStates BY DEF DocStates
  <2>2. <<>> \in Ids \cup {NoId} BY DEF NoId
  <2>3. {} \in SUBSET Nat /\ {} \in SUBSET (1..MaxStop) /\ 0 \in Nat OBVIOUS
  <2> QED BY <1>2, <1>5, <2>1, <2>2, <2>3 DEF Unmanaged, Docs, DocsIn
<1>7. Unmanaged.pending = NoId /\ Unmanaged.state = "none" BY DEF Unmanaged, NoId
<1>8. NobodyHandles \in Hands
  BY <1>6 DEF NobodyHandles, Hands, Points, Commands, NoId
<1>9. NoId \notin Ids
  <2> SUFFICES ASSUME NoId \in Ids PROVE FALSE OBVIOUS
  <2>1. PICK k \in {"tp", "stop", "manual"}, n \in Nat, s \in Seq(Nat) : NoId = <<k, n, s>>
    BY DEF Ids
  <2> QED BY <2>1 DEF NoId
<1> QED BY <1>2, <1>3, <1>6, <1>7, <1>8, <1>9

(* The digest of a document is a sequence of numbers.                        *)
LEMMA DigestTyped == ASSUME NEW doc \in Docs PROVE Digest(doc) \in Seq(Nat)
<1>1. doc.closed \in [1..FinalTarget -> Nat] /\ doc.remaining \in Nat /\ doc.edition \in Nat
  BY AllocFacts DEF Docs, DocsIn
<1>2. FinalTarget \in Nat BY AllocFacts
<1> DEFINE tail == doc.closed
           head == <<doc.remaining, doc.edition>>
<1>3. tail \in Seq(Nat) BY <1>1, <1>2
<1>4. head \in Seq(Nat) BY <1>1
<1> HIDE DEF head, tail
<1>5. head \o tail \in Seq(Nat) BY <1>3, <1>4
<1> QED BY <1>5 DEF Digest, head, tail

(* What an id is made of.                                                    *)
LEMMA IdIs ==
  ASSUME NEW k \in {"tp", "stop", "manual"}, NEW n \in Nat, NEW s \in Seq(Nat)
  PROVE  <<k, n, s>> \in Ids /\ <<k, n, s>>[1] = k /\ <<k, n, s>>[2] = n
BY DEF Ids

-----------------------------------------------------------------------------
(* Applying a snapshot's deals. *)

(* What every deal of a snapshot keeps, the snapshot keeps: the induction    *)
(* over the deals.                                                           *)
PaidBy(doc, command) == IF command = "none" THEN <<>> ELSE doc.pending
LEMMA AppliedStaysIn ==
  ASSUME NEW S, NEW doc \in S, NEW snap \in Accounts, NEW command,
         \A n \in 1..Len(snap.deals), d \in S :
           ApplyDeal(d, n, snap.deals[n], PaidBy(doc, command)) \in S
  PROVE  Applied(doc, snap, command) \in S
<1> DEFINE L == Len(snap.deals)
           id == PaidBy(doc, command)
           step == [n \in 1..L |-> [d \in S |-> ApplyDeal(d, n, snap.deals[n], id)]]
           Is(g) == g = [n \in 0..L |->
                           IF n = 0 THEN doc ELSE ApplyDeal(g[n - 1], n, snap.deals[n], id)]
           after == CHOOSE g : Is(g)
<1>1. L \in Nat BY DEF Accounts
<1>2. \A n \in 1..L, d \in S : ApplyDeal(d, n, snap.deals[n], id) \in S OBVIOUS
<1>3. Applied(doc, snap, command) = after[L] BY DEF Applied, PaidBy
<1> HIDE DEF id
<1> USE <1>1
<1> DEFINE D(n, d) == ApplyDeal(d, n, snap.deals[n], id)
<1>4. \A n \in 1..L, d \in S : D(n, d) \in S BY <1>2
<1>5. step \in [1..L -> [S -> S]] /\ \A n \in 1..L, d \in S : step[n][d] = D(n, d)
  <2> DEFINE stepD == [n \in 1..L |-> [d \in S |-> D(n, d)]]
  <2>1. step = stepD OBVIOUS
  <2> HIDE DEF D
  <2>2. stepD \in [1..L -> [S -> S]] /\ \A n \in 1..L, d \in S : stepD[n][d] = D(n, d) BY <1>4
  <2> QED BY <2>1, <2>2
<1> DEFINE IsD(g) == g = [n \in 0..L |-> IF n = 0 THEN doc ELSE D(n, g[n - 1])]
<1>6. \A g : Is(g) <=> IsD(g) OBVIOUS
<1> HIDE DEF L, D, Is, step
<1>7. step \in Steps(L, S) BY <1>5 DEF Steps
<1>8. Solutions(L, S, doc, step) # {} BY <1>1, <1>7, RecursionHasSolution, Zenon
<1>9. PICK g \in [0..L -> S] : g[0] = doc /\ \A n \in 1..L : g[n] = step[n][g[n - 1]]
  BY <1>8 DEF Solutions
<1>10. IsD(g)
  <2>1. \A n \in 1..L : n - 1 \in 0..L /\ g[n - 1] \in S OBVIOUS
  <2>2. \A n \in 1..L : g[n] = D(n, g[n - 1]) BY <1>5, <1>9, <2>1
  <2>3. \A n \in 0..L : g[n] = IF n = 0 THEN doc ELSE D(n, g[n - 1]) BY <1>9, <2>2
  <2> QED BY <2>3
<1> HIDE DEF IsD
<1>11. Is(after) BY <1>6, <1>10
<1>12. IsD(after) BY <1>6, <1>11
<1> HIDE DEF after
<1>13. after[0] = doc /\ \A n \in 1..L : after[n] = D(n, after[n - 1]) BY <1>12 DEF IsD
<1> DEFINE T == {n \in 0..L : after[n] \in S}
<1>14. 0 \in T BY <1>13
<1>15. \A n \in 1..L : n - 1 \in T => n \in T BY <1>4, <1>13
<1> HIDE DEF T
<1>16. 0..L \subseteq T BY <1>14, <1>15, UpTo
<1>17. after[L] \in S BY <1>16 DEF T
<1> QED BY <1>3, <1>17

(* A deal that counts: which fields it changes, and how.                     *)
Counts(doc, next, n, deal, t) ==
  /\ n \notin doc.seen /\ doc.state # "raised"
  /\ next.seen = doc.seen \cup {n}
  /\ deal.volume <= doc.remaining /\ next.remaining = doc.remaining - deal.volume
  /\ next.sl = doc.sl /\ next.intent = doc.intent /\ next.done = doc.done
  /\ next.edition = doc.edition
  /\ next.pending = IF next.remaining = 0 THEN NoId ELSE doc.pending
  /\ t = 0 => next.closed = doc.closed
  /\ t # 0 => /\ next.closed = [doc.closed EXCEPT ![t] = @ + deal.volume]
              /\ deal.reason = "TP" \/ next.closed[t] <= Alloc[t]
  /\ next.remaining = 0 => next.state = "POSITION_CLOSED"
  /\ next.remaining # 0 => IF t = 0 THEN next.state = doc.state
                           ELSE next.state \in {"TARGET_HIT", "TARGET_PENDING"}

(* A deal is passed over, refused or counted.                                *)
LEMMA DealIs ==
  ASSUME NEW doc \in Drafts, NEW n \in Nat, NEW deal \in Deals, NEW id
  PROVE  LET next == ApplyDeal(doc, n, deal, id)
             t == Fills(doc, deal, id) IN
           /\ next \in Drafts /\ t \in 0..FinalTarget
           /\ \/ next = doc
              \/ next = [doc EXCEPT !.state = "raised"]
              \/ Counts(doc, next, n, deal, t)
<1> DEFINE next == ApplyDeal(doc, n, deal, id)
           t == Fills(doc, deal, id)
           rest == doc.remaining - deal.volume
           closed == IF t = 0 THEN doc.closed ELSE [doc.closed EXCEPT ![t] = @ + deal.volume]
           state == IF rest = 0 THEN "POSITION_CLOSED" ELSE IF t = 0 THEN doc.state
                    ELSE IF closed[t] >= Alloc[t] THEN "TARGET_HIT" ELSE "TARGET_PENDING"
           pending == IF rest = 0 THEN NoId ELSE doc.pending
           counted == [doc EXCEPT !.closed = closed, !.remaining = rest, !.seen = @ \cup {n},
                                  !.state = state, !.pending = pending]
           raised == [doc EXCEPT !.state = "raised"]
           refused == deal.volume > doc.remaining
                        \/ (t > 0 /\ deal.reason # "TP" /\ closed[t] > Alloc[t])
<1>1. next = IF n \in doc.seen \/ doc.state = "raised" THEN doc
             ELSE IF refused THEN raised ELSE counted
  BY DEF ApplyDeal, NoId
<1>2. t \in 0..FinalTarget
  <2>1. doc.intent.target \in 0..FinalTarget BY DEF Drafts, DocsIn, Intents, FinalTarget
  <2>2. t \in {FinalTarget, doc.intent.target, 0} BY DEF Fills
  <2> QED BY <2>1, <2>2, AllocFacts
<1>3. /\ doc.closed \in [1..FinalTarget -> Nat] /\ doc.remaining \in Nat /\ doc.seen \subseteq Nat
      /\ deal.volume \in Nat \ {0} /\ doc.pending \in Ids \cup {NoId}
      /\ doc.state \in DocStates \cup {"raised"}
  BY AllocFacts DEF Drafts, DocsIn, Deals
<1> HIDE DEF next, t, refused
<1>4. closed \in [1..FinalTarget -> Nat]
  <2>1. CASE t = 0 BY <1>3, <2>1
  <2>2. CASE t # 0
    <3>1. t \in 1..FinalTarget BY <1>2, <2>2
    <3>a. doc.closed[t] \in Nat /\ deal.volume \in Nat BY <1>3, <3>1
    <3>2. doc.closed[t] + deal.volume \in Nat BY <3>a
    <3>3. [doc.closed EXCEPT ![t] = doc.closed[t] + deal.volume] \in [1..FinalTarget -> Nat]
      BY <1>3, <3>2
    <3> QED BY <2>2, <3>3
  <2> QED BY <2>1, <2>2
<1>5. raised \in Drafts BY DEF Drafts, DocsIn
<1>6. ASSUME n \notin doc.seen, doc.state # "raised", ~refused
      PROVE  counted \in Drafts /\ Counts(doc, counted, n, deal, t)
  <2>1. deal.volume <= doc.remaining BY <1>3, <1>6 DEF refused
  <2>2. rest \in Nat BY <1>3, <2>1
  <2> HIDE DEF closed
  <2>3. state \in DocStates
    <3> HIDE DEF rest
    <3>1. doc.state \in DocStates BY <1>3, <1>6
    <3>2. {"POSITION_CLOSED", "TARGET_HIT", "TARGET_PENDING"} \subseteq DocStates
      BY DEF DocStates, Halted
    <3> QED BY <3>1, <3>2
  <2>4. pending \in Ids \cup {NoId} BY <1>3
  <2>5. doc.seen \cup {n} \in SUBSET Nat BY <1>3
  <2>6. /\ counted.seen = doc.seen \cup {n} /\ counted.remaining = rest
        /\ counted.closed = closed /\ counted.state = state /\ counted.pending = pending
        /\ counted.sl = doc.sl /\ counted.intent = doc.intent /\ counted.done = doc.done
        /\ counted.edition = doc.edition
    BY DEF Drafts, DocsIn
  <2>7. counted \in Drafts
    <3> HIDE DEF state, rest, pending
    <3> QED BY <1>4, <2>2, <2>3, <2>4, <2>5, AllocFacts DEF Drafts, DocsIn
  <2>8. t = 0 => closed = doc.closed BY DEF closed
  <2>9. t # 0 => closed = [doc.closed EXCEPT ![t] = @ + deal.volume] BY DEF closed
  <2>10. t # 0 => deal.reason = "TP" \/ closed[t] <= Alloc[t]
    <3> SUFFICES ASSUME t # 0, deal.reason # "TP" PROVE closed[t] <= Alloc[t] OBVIOUS
    <3>1. ~(closed[t] > Alloc[t]) /\ t \in 1..FinalTarget BY <1>2, <1>6 DEF refused
    <3>2. closed[t] \in Nat /\ Alloc[t] \in Nat BY <1>4, <3>1, AllocFacts
    <3> QED BY <3>1, <3>2
  <2> HIDE DEF counted
  <2>11. state = "POSITION_CLOSED" \/ rest # 0 OBVIOUS
  <2>12. rest # 0 => IF t = 0 THEN state = doc.state ELSE state \in {"TARGET_HIT", "TARGET_PENDING"}
    OBVIOUS
  <2>13. pending = IF rest = 0 THEN NoId ELSE doc.pending OBVIOUS
  <2> QED BY <1>6, <2>1, <2>6, <2>7, <2>8, <2>9, <2>10, <2>11, <2>12, <2>13 DEF Counts
<1> HIDE DEF counted, raised
<1>7. CASE n \in doc.seen \/ doc.state = "raised" BY <1>1, <1>2, <1>7 DEF next, t
<1>8. CASE ~(n \in doc.seen \/ doc.state = "raised") /\ refused
  BY <1>1, <1>2, <1>5, <1>8 DEF next, t, raised
<1>9. CASE ~(n \in doc.seen \/ doc.state = "raised") /\ ~refused
  <2>1. next = counted BY <1>1, <1>9
  <2>2. counted \in Drafts /\ Counts(doc, counted, n, deal, t) BY <1>6, <1>9
  <2> QED BY <1>2, <2>1, <2>2 DEF next, t
<1> QED BY <1>7, <1>8, <1>9

(* The volumes of deals are numbers, and so is their sum.                    *)
LEMMA VolumesTyped ==
  ASSUME NEW deals \in Seq(Deals), NEW seen \in SUBSET Nat
  PROVE  /\ Len(deals) \in Nat
         /\ \A n \in 1..Len(deals) : deals[n] \in Deals /\ deals[n].volume \in Nat \ {0}
         /\ Volumes(deals) \in [1..Len(deals) -> Nat]
         /\ SeenVolumes(seen, deals) \in [1..Len(deals) -> Nat]
         /\ Sum(Volumes(deals)) \in Nat /\ Sum(SeenVolumes(seen, deals)) \in Nat
         /\ Sum(SeenVolumes(seen, deals)) <= Sum(Volumes(deals))
<1> DEFINE L == Len(deals)
<1>1. L \in Nat OBVIOUS
<1>2. \A n \in 1..L : deals[n] \in Deals OBVIOUS
<1>3. \A n \in 1..L : deals[n].volume \in Nat \ {0} BY <1>2 DEF Deals
<1>4. Volumes(deals) \in [1..L -> Nat] BY <1>3 DEF Volumes
<1>5. SeenVolumes(seen, deals) \in [1..L -> Nat] BY <1>3 DEF SeenVolumes
<1>6. \A n \in 1..L : SeenVolumes(seen, deals)[n] <= Volumes(deals)[n]
  BY <1>3 DEF Volumes, SeenVolumes
<1> HIDE DEF L
<1>7. Sum(Volumes(deals)) \in Nat /\ Sum(SeenVolumes(seen, deals)) \in Nat
  BY <1>1, <1>4, <1>5, SumOfNumbers
<1>8. Volumes(deals) \in [1..L -> Int] /\ SeenVolumes(seen, deals) \in [1..L -> Int]
  BY <1>4, <1>5
<1>9. Sum(SeenVolumes(seen, deals)) <= Sum(Volumes(deals)) BY <1>1, <1>6, <1>8, SumOrder
<1> QED BY <1>1, <1>2, <1>3, <1>4, <1>5, <1>7, <1>9 DEF L

(* One more deal seen adds its volume.                                       *)
LEMMA SeenGrows ==
  ASSUME NEW deals \in Seq(Deals), NEW seen \in SUBSET Nat, NEW k \in 1..Len(deals), k \notin seen
  PROVE  Sum(SeenVolumes(seen \cup {k}, deals)) = Sum(SeenVolumes(seen, deals)) + deals[k].volume
<1> DEFINE L == Len(deals)
           old == SeenVolumes(seen, deals)
           new == SeenVolumes(seen \cup {k}, deals)
<1>1. L \in Nat /\ k \in 1..L BY VolumesTyped
<1>2. seen \cup {k} \in SUBSET Nat OBVIOUS
<1>3. old \in [1..L -> Nat] /\ new \in [1..L -> Nat] /\ Sum(old) \in Nat
  BY <1>2, VolumesTyped
<1>4. old[k] = 0 /\ new[k] = deals[k].volume /\ \A n \in 1..L : n # k => new[n] = old[n]
  BY DEF SeenVolumes
<1> HIDE DEF L, old, new
<1>5. old \in [1..L -> Int] /\ new \in [1..L -> Int] BY <1>3
<1>6. Sum(new) = Sum(old) + new[k] - old[k] BY <1>1, <1>4, <1>5, SumsDiffer
<1>7. new[k] \in Nat BY <1>1, <1>3
<1>8. Sum(new) = Sum(old) + new[k] BY <1>3, <1>4, <1>6, <1>7
<1> QED BY <1>4, <1>8 DEF old, new

(* One more deal in the history adds to the volumes, and nothing to what was *)
(* seen.                                                                     *)
LEMMA HistoryGrows ==
  ASSUME NEW deals \in Seq(Deals), NEW deal \in Deals, NEW seen \in SUBSET (1..Len(deals))
  PROVE  /\ Append(deals, deal) \in Seq(Deals)
         /\ Len(Append(deals, deal)) = Len(deals) + 1
         /\ Append(deals, deal)[Len(deals) + 1] = deal
         /\ \A n \in 1..Len(deals) : Append(deals, deal)[n] = deals[n]
         /\ Sum(Volumes(Append(deals, deal))) = Sum(Volumes(deals)) + deal.volume
         /\ Sum(SeenVolumes(seen, Append(deals, deal))) = Sum(SeenVolumes(seen, deals))
<1> DEFINE L == Len(deals)
           more == Append(deals, deal)
<1>1. L \in Nat /\ more \in Seq(Deals) /\ Len(more) = L + 1 /\ more[L + 1] = deal
      /\ \A n \in 1..L : more[n] = deals[n]
  OBVIOUS
<1>2. seen \in SUBSET Nat /\ L + 1 \notin seen BY <1>1
<1> HIDE DEF more
<1>3. Volumes(deals) \in [1..L -> Int] /\ SeenVolumes(seen, deals) \in [1..L -> Int]
      /\ Sum(SeenVolumes(seen, deals)) \in Nat
  BY <1>2, VolumesTyped
<1>4. Volumes(more) \in [1..(L + 1) -> Int] /\ SeenVolumes(seen, more) \in [1..(L + 1) -> Int]
  BY <1>1, <1>2, VolumesTyped
<1>5. Volumes(more)[L + 1] = deal.volume /\ \A n \in 1..L : Volumes(more)[n] = Volumes(deals)[n]
  BY <1>1 DEF Volumes
<1>6. /\ SeenVolumes(seen, more)[L + 1] = 0
      /\ \A n \in 1..L : SeenVolumes(seen, more)[n] = SeenVolumes(seen, deals)[n]
  BY <1>1, <1>2 DEF SeenVolumes
<1>7. Sum(Volumes(more)) = Sum(Volumes(deals)) + Volumes(more)[L + 1]
  BY <1>1, <1>3, <1>4, <1>5, SumGrows
<1>8. Sum(SeenVolumes(seen, more)) = Sum(SeenVolumes(seen, deals)) + SeenVolumes(seen, more)[L + 1]
  BY <1>1, <1>3, <1>4, <1>6, SumGrows
<1> QED BY <1>1, <1>3, <1>5, <1>6, <1>7, <1>8 DEF more

(* What is added to a target's fills is added to their sum.                  *)
LEMMA ClosedGrows ==
  ASSUME NEW closed \in [Targets -> Nat], NEW t \in Targets, NEW volume \in Nat
  PROVE  /\ [closed EXCEPT ![t] = @ + volume] \in [Targets -> Nat]
         /\ Sum([closed EXCEPT ![t] = @ + volume]) = Sum(closed) + volume
         /\ Sum(closed) \in Nat
<1> DEFINE new == [closed EXCEPT ![t] = closed[t] + volume]
<1>1. FinalTarget \in Nat /\ Targets = 1..FinalTarget BY AllocFacts
<1>2. closed[t] \in Nat OBVIOUS
<1>3. closed[t] + volume \in Nat BY <1>2
<1>4. new \in [Targets -> Nat] /\ new[t] = closed[t] + volume
      /\ \A n \in Targets : n # t => new[n] = closed[n]
  BY <1>3
<1> HIDE DEF new
<1>5. new \in [1..FinalTarget -> Int] /\ closed \in [1..FinalTarget -> Int] BY <1>1, <1>4
<1>6. Sum(new) = Sum(closed) + new[t] - closed[t] BY <1>1, <1>4, <1>5, SumsDiffer
<1>7. Sum(closed) \in Nat BY <1>1, SumOfNumbers
<1> QED BY <1>2, <1>4, <1>6, <1>7 DEF new

(* What applied deals carry over from the document they were applied to.     *)
Frame(doc, d) ==
  /\ d.sl = doc.sl /\ d.intent = doc.intent /\ d.done = doc.done /\ d.edition = doc.edition
  /\ d.pending = doc.pending \/ (d.pending = NoId /\ d.remaining = 0)
Onward(doc, d) ==
  /\ d.remaining <= doc.remaining
  /\ \A t \in Targets : doc.closed[t] <= d.closed[t]
StateAfter(doc, d) ==
  /\ d.state \in Failed => d.state = doc.state
  /\ doc.state \in Failed /\ doc.pending = NoId =>
       \/ d.state \in {doc.state, "raised"}
       \/ d.state = "POSITION_CLOSED" /\ d.remaining = 0
       \/ doc.closed[FinalTarget] < d.closed[FinalTarget]
ExitOf(doc) == doc.pending # NoId /\ doc.pending[1] = "tp"
FilledAfter(doc, d) == ExitOf(doc) /\ d.closed[doc.pending[2]] # 0 => DealBy(doc.pending)
SeenAfter(doc, d, id) ==
  ExitOf(doc) /\ id = doc.pending =>
    \A n \in d.seen : account.deals[n].by = doc.pending =>
      n \in doc.seen \/ d.closed[doc.pending[2]] # 0
Carries(doc, d, id) ==
  /\ Frame(doc, d) /\ Onward(doc, d) /\ Books(d, account.deals)
  /\ StateAfter(doc, d) /\ FilledAfter(doc, d) /\ SeenAfter(doc, d, id)

(* One deal that counts carries them.                                        *)
CommandsOnly ==
  \A n \in 1..Len(account.deals) :
    account.deals[n].by # NoId => account.deals[n].reason = "EXPERT"
LEMMA CountsCarries ==
  ASSUME account \in Accounts, CommandsOnly, NEW doc \in Docs, IntentFits(doc),
         NEW id \in {NoId, doc.pending}, NEW d \in Drafts, NEW next \in Drafts,
         NEW n \in 1..Len(account.deals), Carries(doc, d, id),
         Counts(d, next, n, account.deals[n], Fills(d, account.deals[n], id))
  PROVE  Carries(doc, next, id)
<1> DEFINE deal == account.deals[n]
           t == Fills(d, deal, id)
           v == deal.volume
<1>1. account.deals \in Seq(Deals) BY DEF Accounts
<1>2. deal \in Deals /\ v \in Nat \ {0} /\ Len(account.deals) \in Nat BY <1>1, VolumesTyped
<1>3. /\ d.closed \in [Targets -> Nat] /\ d.remaining \in Nat /\ d.seen \subseteq Nat
      /\ next.closed \in [Targets -> Nat] /\ next.remaining \in Nat
      /\ doc.closed \in [Targets -> Nat] /\ doc.remaining \in Nat
  BY DEF Drafts, Docs, DocsIn
<1>4. Counts(d, next, n, deal, t) OBVIOUS
<1>5. Frame(doc, d) /\ Onward(doc, d) /\ Books(d, account.deals)
      /\ StateAfter(doc, d) /\ FilledAfter(doc, d) /\ SeenAfter(doc, d, id)
  BY DEF Carries
<1>6. t = IF deal.reason = "TP" THEN FinalTarget
          ELSE IF doc.intent.op = "partial_close" /\ id # NoId /\ deal.by = id
               THEN doc.intent.target ELSE 0
  BY <1>5 DEF Fills, Frame, NoId
<1>7. doc.intent.target \in 0..FinalTarget BY DEF Docs, DocsIn, Intents, FinalTarget
<1>8. t = 0 \/ t \in Targets BY <1>6, <1>7, AllocFacts
<1> HIDE DEF deal, t, v
<1>9. Frame(doc, next)
  <2>1. /\ next.sl = d.sl /\ next.intent = d.intent /\ next.done = d.done
        /\ next.edition = d.edition /\ v <= d.remaining
        /\ next.pending = IF next.remaining = 0 THEN NoId ELSE d.pending
    BY <1>4 DEF Counts, v
  <2>2. d.remaining # 0 BY <1>2, <1>3, <2>1
  <2>3. d.pending = doc.pending BY <1>5, <2>2 DEF Frame
  <2>4. /\ d.sl = doc.sl /\ d.intent = doc.intent /\ d.done = doc.done
        /\ d.edition = doc.edition
    BY <1>5 DEF Frame
  <2> QED BY <2>1, <2>3, <2>4 DEF Frame
<1>10. next.remaining = d.remaining - v /\ v <= d.remaining /\ n \notin d.seen
       /\ next.seen = d.seen \cup {n}
  BY <1>4 DEF Counts, v
<1>11. t # 0 => /\ next.closed = [d.closed EXCEPT ![t] = @ + v]
                /\ next.closed[t] = d.closed[t] + v /\ d.closed[t] \in Nat
                /\ \A u \in Targets : u # t => next.closed[u] = d.closed[u]
  BY <1>3, <1>4, <1>8 DEF Counts, v
<1>12. t = 0 => next.closed = d.closed BY <1>4 DEF Counts
<1>13. \A u \in Targets : d.closed[u] <= next.closed[u]
  <2> SUFFICES ASSUME NEW u \in Targets PROVE d.closed[u] <= next.closed[u] OBVIOUS
  <2>1. d.closed[u] \in Nat BY <1>3
  <2> QED BY <1>2, <1>11, <1>12, <2>1
<1>14. Onward(doc, next)
  <2>1. next.remaining <= doc.remaining BY <1>2, <1>3, <1>5, <1>10 DEF Onward
  <2>2. ASSUME NEW u \in Targets PROVE doc.closed[u] <= next.closed[u]
    <3>1. doc.closed[u] <= d.closed[u] /\ d.closed[u] <= next.closed[u]
      BY <1>5, <1>13 DEF Onward
    <3>2. doc.closed[u] \in Nat /\ d.closed[u] \in Nat /\ next.closed[u] \in Nat BY <1>3
    <3> QED BY <3>1, <3>2
  <2> QED BY <2>1, <2>2 DEF Onward
<1>15. Books(next, account.deals)
  <2> DEFINE seen == d.seen
             deals == account.deals
  <2>1. seen \subseteq 1..Len(deals) /\ seen \in SUBSET Nat
        /\ d.remaining + Sum(SeenVolumes(seen, deals)) = Volume
        /\ Sum(d.closed) + d.remaining <= Volume
        /\ \A u \in Targets \ {FinalTarget} : d.closed[u] <= Alloc[u]
    BY <1>3, <1>5 DEF Books
  <2>2. Sum(SeenVolumes(next.seen, deals)) = Sum(SeenVolumes(seen, deals)) + v
    BY <1>1, <1>10, <2>1, SeenGrows DEF v, deal
  <2>3. Sum(SeenVolumes(seen, deals)) \in Nat BY <1>1, <2>1, VolumesTyped
  <2>4. Volume \in Nat BY AllocFacts
  <2>5. Sum(d.closed) \in Nat /\ Sum(next.closed) \in {Sum(d.closed), Sum(d.closed) + v}
    <3>1. v \in Nat BY <1>2
    <3>2. Sum(d.closed) \in Nat BY <1>3, AllocFacts, SumOfNumbers
    <3>3. CASE t = 0 BY <1>12, <3>2, <3>3
    <3>4. CASE t # 0
      <4>1. t \in Targets BY <1>8, <3>4
      <4>2. Sum([d.closed EXCEPT ![t] = @ + v]) = Sum(d.closed) + v
        BY <1>3, <3>1, <4>1, ClosedGrows
      <4> QED BY <1>11, <3>2, <3>4, <4>2
    <3> QED BY <3>3, <3>4
  <2>6. next.seen \subseteq 1..Len(deals) BY <1>10, <2>1
  <2> HIDE DEF seen, deals
  <2>7. next.remaining + Sum(SeenVolumes(next.seen, deals)) = Volume
    BY <1>2, <1>3, <1>10, <2>1, <2>2, <2>3, <2>4
  <2>8. Sum(next.closed) + next.remaining <= Volume
    <3>1. v \in Nat BY <1>2
    <3> QED BY <1>3, <1>10, <2>1, <2>4, <2>5, <3>1
  <2>9. ASSUME NEW u \in Targets \ {FinalTarget} PROVE next.closed[u] <= Alloc[u]
    <3>1. CASE t # 0 /\ u = t
      <4>1. deal.reason # "TP" BY <1>6, <3>1
      <4> QED BY <1>4, <3>1, <4>1 DEF Counts
    <3>2. CASE ~(t # 0 /\ u = t) BY <1>11, <1>12, <2>1, <3>2
    <3> QED BY <3>1, <3>2
  <2> QED BY <2>6, <2>7, <2>8, <2>9 DEF Books, deals
<1>16. StateAfter(doc, next)
  <2>1. next.state \in Failed => next.state = d.state BY <1>4 DEF Counts, Failed
  <2>2. next.state \in Failed => next.state = doc.state BY <1>5, <2>1 DEF StateAfter
  <2>3. ASSUME doc.state \in Failed, doc.pending = NoId
        PROVE  \/ next.state \in {doc.state, "raised"}
               \/ next.state = "POSITION_CLOSED" /\ next.remaining = 0
               \/ doc.closed[FinalTarget] < next.closed[FinalTarget]
    <3>1. id = NoId BY <2>3
    <3>2. t = IF deal.reason = "TP" THEN FinalTarget ELSE 0 BY <1>6, <3>1
    <3>3. FinalTarget \in Targets /\ FinalTarget # 0 BY AllocFacts
    <3>4. doc.closed[FinalTarget] \in Nat /\ d.closed[FinalTarget] \in Nat
          /\ next.closed[FinalTarget] \in Nat
      BY <1>3, <3>3
    <3>5. doc.closed[FinalTarget] <= d.closed[FinalTarget]
          /\ d.closed[FinalTarget] <= next.closed[FinalTarget]
      BY <1>5, <1>13, <3>3 DEF Onward
    <3>6. CASE t # 0
      <4>1. next.closed[FinalTarget] = d.closed[FinalTarget] + v BY <1>11, <3>2, <3>6
      <4> QED BY <1>2, <3>4, <3>5, <4>1
    <3>7. CASE doc.closed[FinalTarget] < d.closed[FinalTarget] BY <3>4, <3>5, <3>7
    <3>8. CASE t = 0 /\ d.state \in {doc.state, "raised"} BY <1>4, <3>8 DEF Counts
    <3>9. CASE d.state = "POSITION_CLOSED" /\ d.remaining = 0 BY <1>2, <1>10, <3>9
    <3> QED BY <1>5, <2>3, <3>6, <3>7, <3>8, <3>9 DEF StateAfter
  <2> QED BY <2>2, <2>3 DEF StateAfter
<1>17. ASSUME ExitOf(doc)
       PROVE  /\ doc.intent.op = "partial_close" /\ doc.intent.target = doc.pending[2]
              /\ doc.pending[2] \in Targets \ {FinalTarget}
  BY <1>17 DEF ExitOf, IntentFits, Fitting
<1>18. FilledAfter(doc, next)
  <2> SUFFICES ASSUME ExitOf(doc), next.closed[doc.pending[2]] # 0 PROVE DealBy(doc.pending)
    BY DEF FilledAfter
  <2>1. CASE d.closed[doc.pending[2]] # 0 BY <1>5, <2>1 DEF FilledAfter
  <2>2. CASE d.closed[doc.pending[2]] = 0
    <3>1. t = doc.pending[2] /\ t # 0 /\ t # FinalTarget
      BY <1>11, <1>12, <1>17, <2>2, AllocFacts
    <3>2. deal.by = id /\ id # NoId BY <1>6, <3>1
    <3> QED BY <3>2 DEF DealBy, deal
  <2> QED BY <2>1, <2>2
<1>19. SeenAfter(doc, next, id)
  <2> SUFFICES ASSUME ExitOf(doc), id = doc.pending, NEW k \in next.seen,
                      account.deals[k].by = doc.pending
               PROVE  k \in doc.seen \/ next.closed[doc.pending[2]] # 0
    BY DEF SeenAfter
  <2>1. doc.pending[2] \in Targets BY <1>17
  <2>2. d.closed[doc.pending[2]] \in Nat /\ next.closed[doc.pending[2]] \in Nat
        /\ d.closed[doc.pending[2]] <= next.closed[doc.pending[2]]
    BY <1>3, <1>13, <2>1
  <2>3. CASE k \in d.seen
    <3>1. k \in doc.seen \/ d.closed[doc.pending[2]] # 0 BY <1>5, <2>3 DEF SeenAfter
    <3> QED BY <2>2, <3>1
  <2>4. CASE k = n
    <3>1. deal.by = id /\ id # NoId BY <2>4 DEF deal, ExitOf
    <3>2. deal.reason = "EXPERT" BY <3>1 DEF CommandsOnly, deal
    <3>3. t = doc.pending[2] /\ t # 0 BY <1>6, <1>17, <3>1, <3>2, AllocFacts
    <3> QED BY <1>2, <1>11, <2>2, <3>3
  <2> QED BY <1>10, <2>3, <2>4
<1> QED BY <1>9, <1>14, <1>15, <1>16, <1>18, <1>19 DEF Carries

(* The snapshot's deals carry them.                                          *)
LEMMA AppliedCarries ==
  ASSUME account \in Accounts, CommandsOnly, NEW doc \in Docs, DocOK(doc),
         NEW snap \in Accounts, Begins(snap.deals, account.deals), NEW command
  PROVE  /\ Applied(doc, snap, command) \in Drafts
         /\ Carries(doc, Applied(doc, snap, command), PaidBy(doc, command))
         /\ Applied(doc, snap, command).seen \subseteq doc.seen \cup 1..Len(snap.deals)
<1> DEFINE id == PaidBy(doc, command)
           Within(d) == d.seen \subseteq doc.seen \cup 1..Len(snap.deals)
           S == {d \in Drafts : Carries(doc, d, id) /\ Within(d)}
<1>1. id \in {NoId, doc.pending} BY DEF PaidBy, NoId
<1>2. IntentFits(doc) /\ Books(doc, account.deals) /\ FilledBy(doc) BY DEF DocOK
<1>3. doc \in Drafts BY DEF Docs, Drafts, DocsIn
<1>4. Carries(doc, doc, id)
  <2>1. doc.remaining \in Nat /\ \A t \in Targets : doc.closed[t] \in Nat BY DEF Docs, DocsIn
  <2>2. Frame(doc, doc) /\ Onward(doc, doc) /\ StateAfter(doc, doc) /\ SeenAfter(doc, doc, id)
    BY <2>1 DEF Frame, Onward, StateAfter, SeenAfter
  <2>3. FilledAfter(doc, doc) BY <1>2 DEF FilledAfter, FilledBy, ExitOf
  <2> QED BY <1>2, <2>2, <2>3 DEF Carries
<1> HIDE DEF id
<1>5. doc \in S BY <1>3, <1>4
<1>6. Len(snap.deals) \in Nat /\ Len(account.deals) \in Nat BY DEF Accounts
<1>7. ASSUME NEW n \in 1..Len(snap.deals), NEW d \in S
      PROVE  ApplyDeal(d, n, snap.deals[n], id) \in S
  <2> DEFINE deal == account.deals[n]
             next == ApplyDeal(d, n, deal, id)
             t == Fills(d, deal, id)
  <2>1. n \in 1..Len(account.deals) /\ snap.deals[n] = deal /\ n \in Nat BY <1>6 DEF Begins
  <2>2. d \in Drafts /\ Carries(doc, d, id) /\ Within(d) BY <1>7
  <2>3. account.deals \in Seq(Deals) BY DEF Accounts
  <2>4. deal \in Deals BY <2>1, <2>3, VolumesTyped
  <2>5. next \in Drafts /\ (next = d \/ next = [d EXCEPT !.state = "raised"]
                              \/ Counts(d, next, n, deal, t))
    BY <2>1, <2>2, <2>4, DealIs
  <2> HIDE DEF next
  <2>6. CASE next = d BY <2>1, <2>2, <2>6 DEF next
  <2>7. CASE next = [d EXCEPT !.state = "raised"]
    <3>1. /\ next.sl = d.sl /\ next.intent = d.intent /\ next.done = d.done
          /\ next.edition = d.edition /\ next.pending = d.pending /\ next.remaining = d.remaining
          /\ next.closed = d.closed /\ next.seen = d.seen /\ next.state = "raised"
      BY <2>2, <2>7 DEF Drafts, DocsIn
    <3>2. Carries(doc, next, id) /\ Within(next)
      BY <2>2, <3>1 DEF Carries, Frame, Onward, Books, StateAfter, FilledAfter, SeenAfter, Failed
    <3> QED BY <2>1, <2>5, <3>2 DEF next
  <2>8. CASE Counts(d, next, n, deal, t)
    <3>1. Carries(doc, next, id) BY <1>1, <1>2, <2>1, <2>2, <2>5, <2>8, CountsCarries
    <3>2. Within(next) BY <2>2, <2>8 DEF Counts
    <3> QED BY <2>1, <2>5, <3>1, <3>2 DEF next
  <2> QED BY <2>5, <2>6, <2>7, <2>8
<1> HIDE DEF S
<1>8. \A n \in 1..Len(snap.deals), d \in S :
        ApplyDeal(d, n, snap.deals[n], PaidBy(doc, command)) \in S
  BY <1>7 DEF id
<1>9. Applied(doc, snap, command) \in S BY <1>5, <1>8, AppliedStaysIn
<1> QED BY <1>9 DEF S, id

-----------------------------------------------------------------------------
(* Judging the pending operation. *)

(* What reconcile makes of the document the deals were applied to.           *)
ReleasedBy(d, command) ==
  /\ d.pending # NoId /\ d.state # "raised"
  /\ \/ command = "rejected"
     \/ /\ command = "reconciled"
        /\ d.intent.op = "partial_close" => Hit(d, d.intent.target)
Verdict(d, r, command) ==
  /\ r \in Docs
  /\ r.closed = d.closed /\ r.remaining = d.remaining /\ r.seen = d.seen /\ r.intent = d.intent
  /\ r.pending = d.pending \/ (r.pending = NoId /\ ReleasedBy(d, command))
  /\ \/ r.state = "RECONCILIATION_REQUIRED"
     \/ r.state = d.state
     \/ r.state \in {"MANAGEMENT_FAILED", "OPEN"} /\ d.pending # NoId /\ r.pending = NoId
LEMMA JudgedIs ==
  ASSUME NEW d \in Drafts, NEW snap \in Accounts, NEW command \in Commands, IntentFits(d)
  PROVE  Verdict(d, Judged(d, snap, command), command)
<1> DEFINE seen == IF snap.volume > 0 THEN [d EXCEPT !.sl = snap.sl] ELSE d
           op == d.intent.op
           failed == [seen EXCEPT !.state = "MANAGEMENT_FAILED"]
           modified == [seen EXCEPT !.edition = d.intent.level, !.state = "OPEN"]
           protected == [seen EXCEPT !.state = "OPEN",
             !.done = IF d.pending[1] = "stop" THEN @ \cup {d.intent.level} ELSE @]
<1>1. /\ d.state \in DocStates \cup {"raised"} /\ d.closed \in [Targets -> Nat]
      /\ d.remaining \in Nat /\ d.sl \in 0..MaxStop /\ d.seen \in SUBSET Nat
      /\ d.pending \in Ids \cup {NoId} /\ d.intent \in Intents /\ d.done \in SUBSET (1..MaxStop)
      /\ d.edition \in Nat /\ snap.sl \in 0..MaxStop /\ d.intent.level \in Nat
  BY DEF Drafts, DocsIn, Accounts, Intents
<1> DEFINE Same(r) == /\ r.closed = d.closed /\ r.remaining = d.remaining /\ r.seen = d.seen
                      /\ r.intent = d.intent
           InDrafts(r) == r \in Drafts /\ Same(r)
<1>2. InDrafts(d) OBVIOUS
<1>3. InDrafts(seen) /\ seen.state = d.state /\ seen.pending = d.pending /\ seen.done = d.done
      /\ seen.edition = d.edition
  <2>1. CASE snap.volume > 0 BY <1>1, <2>1 DEF Drafts, DocsIn
  <2>2. CASE ~(snap.volume > 0) BY <2>2
  <2> QED BY <2>1, <2>2
<1> HIDE DEF seen
<1>4. ASSUME NEW r, InDrafts(r)
      PROVE  /\ InDrafts(Raised(r)) /\ Raised(r).state = "RECONCILIATION_REQUIRED"
             /\ Raised(r).pending = r.pending
             /\ InDrafts(Released(r)) /\ Released(r).state = r.state /\ Released(r).pending = NoId
  BY <1>4 DEF Raised, Released, Drafts, DocsIn, DocStates, Halted, NoId
<1>5. InDrafts(failed) /\ failed.state = "MANAGEMENT_FAILED" /\ failed.pending = d.pending
  BY <1>3 DEF Drafts, DocsIn, DocStates, Halted
<1>6. InDrafts(modified) /\ modified.state = "OPEN" /\ modified.pending = d.pending
  BY <1>1, <1>3 DEF Drafts, DocsIn, DocStates
<1>7. ASSUME d.pending # NoId
      PROVE  InDrafts(protected) /\ protected.state = "OPEN" /\ protected.pending = d.pending
  <2>1. d.pending[1] = "stop" => d.intent.level \in 1..MaxStop BY <1>7 DEF IntentFits, Fitting
  <2> DEFINE done == IF d.pending[1] = "stop" THEN seen.done \cup {d.intent.level} ELSE seen.done
  <2>2. done \in SUBSET (1..MaxStop) BY <1>1, <1>3, <2>1
  <2> HIDE DEF done
  <2>3. protected = [seen EXCEPT !.state = "OPEN", !.done = done] BY DEF done
  <2> HIDE DEF protected
  <2> QED BY <1>3, <2>2, <2>3 DEF Drafts, DocsIn, DocStates
<1> DEFINE r == Judged(d, snap, command)
           Sound(x) == /\ InDrafts(x) /\ x.state # "raised"
                       /\ x.pending = d.pending \/ (x.pending = NoId /\ ReleasedBy(d, command))
                       /\ \/ x.state = "RECONCILIATION_REQUIRED"
                          \/ x.state = d.state
                          \/ /\ x.state \in {"MANAGEMENT_FAILED", "OPEN"}
                             /\ d.pending # NoId /\ x.pending = NoId
<1>8. r = IF d.state = "raised" THEN Raised(d)
          ELSE IF snap.volume # d.remaining THEN Raised(seen)
          ELSE IF d.state = "POSITION_CLOSED" \/ d.pending = NoId THEN seen
          ELSE IF command = "rejected" /\ d.state # "MANAGEMENT_FAILED" THEN Released(failed)
          ELSE IF command # "reconciled" \/ op = "close" THEN seen
          ELSE IF op = "partial_close"
          THEN IF Hit(d, d.intent.target) THEN Released(seen) ELSE Raised(seen)
          ELSE IF op = "modify_targets"
          THEN IF snap.edition = d.intent.level THEN Released(modified) ELSE Raised(seen)
          ELSE IF snap.sl = d.intent.level THEN Released(protected) ELSE Raised(seen)
  BY DEF Judged, NoId, seen
<1> HIDE DEF r, failed, modified, protected
<1>9. /\ InDrafts(Raised(d)) /\ Raised(d).state = "RECONCILIATION_REQUIRED"
      /\ Raised(d).pending = d.pending
      /\ InDrafts(Raised(seen)) /\ Raised(seen).state = "RECONCILIATION_REQUIRED"
      /\ Raised(seen).pending = d.pending
      /\ InDrafts(Released(seen)) /\ Released(seen).state = d.state /\ Released(seen).pending = NoId
  BY <1>2, <1>3, <1>4
<1>10. /\ InDrafts(Released(failed)) /\ Released(failed).state = "MANAGEMENT_FAILED"
       /\ Released(failed).pending = NoId
       /\ InDrafts(Released(modified)) /\ Released(modified).state = "OPEN"
       /\ Released(modified).pending = NoId
       /\ d.pending # NoId =>
            /\ InDrafts(Released(protected)) /\ Released(protected).state = "OPEN"
            /\ Released(protected).pending = NoId
  BY <1>4, <1>5, <1>6, <1>7
<1> HIDE DEF InDrafts
<1>11. ASSUME d.state = "raised" PROVE Sound(r)
  <2>1. r = Raised(d) BY <1>8, <1>11, Zenon
  <2>2. Sound(Raised(d)) BY <1>9 DEF Sound
  <2> QED BY <2>1, <2>2, Zenon
<1>12. ASSUME d.state # "raised" PROVE Sound(r)
  <2> USE <1>12
  <2>1. Sound(Raised(seen)) /\ Sound(seen)
    BY <1>3, <1>9 DEF Sound
  <2>2. ASSUME d.pending # NoId, command = "rejected" PROVE Sound(Released(failed))
    BY <1>10, <2>2 DEF Sound, ReleasedBy
  <2>3. ASSUME d.pending # NoId, command = "reconciled"
        PROVE  /\ Hit(d, d.intent.target) => Sound(Released(seen))
               /\ op = "modify_targets" => Sound(Released(modified))
               /\ op # "partial_close" => Sound(Released(protected))
    BY <1>9, <1>10, <2>3 DEF Sound, ReleasedBy
  <2> HIDE DEF Sound
  <2>4. CASE snap.volume # d.remaining
    <3>1. r = Raised(seen) BY <1>8, <2>4, Zenon
    <3> QED BY <2>1, <3>1, Zenon
  <2>5. CASE snap.volume = d.remaining /\ (d.state = "POSITION_CLOSED" \/ d.pending = NoId)
    <3>1. r = seen BY <1>8, <2>5, Zenon
    <3> QED BY <2>1, <3>1, Zenon
  <2>6. CASE snap.volume = d.remaining /\ ~(d.state = "POSITION_CLOSED" \/ d.pending = NoId)
    <3>1. r = IF command = "rejected" /\ d.state # "MANAGEMENT_FAILED" THEN Released(failed)
              ELSE IF command # "reconciled" \/ op = "close" THEN seen
              ELSE IF op = "partial_close"
              THEN IF Hit(d, d.intent.target) THEN Released(seen) ELSE Raised(seen)
              ELSE IF op = "modify_targets"
              THEN IF snap.edition = d.intent.level THEN Released(modified) ELSE Raised(seen)
              ELSE IF snap.sl = d.intent.level THEN Released(protected) ELSE Raised(seen)
      BY <1>8, <2>6, Zenon
    <3>2. CASE command = "rejected"
      <4>1. r \in {Released(failed), seen} BY <3>1, <3>2
      <4> QED BY <2>1, <2>2, <2>6, <3>2, <4>1
    <3>3. CASE command # "rejected" /\ (command # "reconciled" \/ op = "close")
      <4>1. r = seen BY <3>1, <3>3, Zenon
      <4> QED BY <2>1, <4>1, Zenon
    <3>4. CASE command = "reconciled" /\ op # "close"
      <4>1. d.pending # NoId /\ command # "rejected" BY <2>6, <3>4
      <4>2. r = IF op = "partial_close"
                THEN IF Hit(d, d.intent.target) THEN Released(seen) ELSE Raised(seen)
                ELSE IF op = "modify_targets"
                THEN IF snap.edition = d.intent.level THEN Released(modified) ELSE Raised(seen)
                ELSE IF snap.sl = d.intent.level THEN Released(protected) ELSE Raised(seen)
        BY <3>1, <3>4, <4>1, Zenon
      <4>3. CASE op = "partial_close"
        <5>1. IF Hit(d, d.intent.target) THEN r = Released(seen) ELSE r = Raised(seen)
          BY <4>2, <4>3, Zenon
        <5> QED BY <2>1, <2>3, <3>4, <4>1, <5>1, Zenon
      <4>4. CASE op # "partial_close"
        <5>1. \/ r = Raised(seen) \/ r = Released(protected)
              \/ op = "modify_targets" /\ r = Released(modified)
          BY <4>2, <4>4, Zenon
        <5> QED BY <2>1, <2>3, <3>4, <4>1, <4>4, <5>1, Zenon
      <4> QED BY <4>3, <4>4
    <3> QED BY <3>2, <3>3, <3>4
  <2> QED BY <2>4, <2>5, <2>6
<1>13. Sound(r) BY <1>11, <1>12
<1>14. r \in Docs
  <2>1. r \in Drafts /\ r.state # "raised" BY <1>13 DEF Sound, InDrafts
  <2> QED BY <2>1 DEF Drafts, Docs, DocsIn
<1> QED BY <1>13, <1>14 DEF Verdict, Sound, InDrafts, r

-----------------------------------------------------------------------------
(* Steps that leave the document and the broker's history alone. *)

(* What stays true of an operation once it is.                               *)
Evolves ==
  \A id \in DOMAIN intents :
    /\ Known(id)' /\ intents'[id].intent = intents[id].intent
    /\ Refused(id) => Refused(id)'
    /\ Over(id) => Over(id)'
    /\ intents[id].status # "pending" => intents'[id].status # "pending"
Onwards == (outrun => outrun') /\ (writtenOff => writtenOff')

(* A hand that nothing touches keeps its promises.                           *)
LEMMA HandsAbide ==
  ASSUME NEW me \in Hands, HandOK(me), managed' = managed, account'.deals = account.deals,
         Evolves, Onwards
  PROVE  HandOK(me)'
<1>1. Standing(me) /\ Commanded(me) /\ DocOK(me.doc) /\ (me.fresh => Fresh(me)) BY DEF HandOK
<1>2. \A id : Known(id) => Known(id)' BY DEF Evolves, Known
<1>3. ASSUME NEW id, Refused(id) PROVE Refused(id)'
  <2>1. id \in DOMAIN intents BY <1>3 DEF Refused, Known
  <2> QED BY <1>3, <2>1 DEF Evolves
<1>4. ASSUME NEW id, Over(id) PROVE Over(id)'
  <2>1. id \in DOMAIN intents BY <1>4 DEF Over, Known
  <2> QED BY <1>4, <2>1 DEF Evolves
<1>5. \A id : Known(id) /\ intents[id].status # "pending" =>
        Known(id)' /\ intents'[id].status # "pending"
  BY DEF Evolves, Known
<1>6. \A id : HeldBy(id) <=> HeldBy(id)' BY DEF HeldBy
<1>7. \A id : DealBy(id) <=> DealBy(id)' BY DEF DealBy
<1>8. Standing(me)'
  <2>1. me.pc \in Looking => me.snap \in Accounts /\ Begins(me.snap.deals, account'.deals)
    BY <1>1 DEF Standing
  <2>2. me.pc \in {"approve", "queue"} => Known(me.id)' BY <1>1, <1>2 DEF Standing
  <2>3. me.pc = "propose" /\ ~Known(me.id)' => HeldBy(me.id)' BY <1>1, <1>2, <1>6 DEF Standing
  <2> QED BY <1>1, <2>1, <2>2, <2>3 DEF Standing
<1>9. Commanded(me)'
  <2>1. me.pc = "judge" /\ me.cmd # "none" =>
          Known(me.doc.pending)' /\ intents'[me.doc.pending].status # "pending"
    BY <1>1, <1>5 DEF Commanded
  <2>2. me.pc = "judge" /\ me.cmd \in {"rejected", "reconciled"} => Over(me.doc.pending)'
    BY <1>1, <1>4 DEF Commanded
  <2>3. me.pc = "judge" /\ me.cmd = "rejected" /\ ~writtenOff' => ~DealBy(me.doc.pending)'
    BY <1>1, <1>7 DEF Commanded, Onwards
  <2>4. me.pc = "confirm" =>
          Known(me.id)' /\ intents'[me.id].status # "pending" /\ DealBy(me.id)'
    BY <1>1, <1>5, <1>7 DEF Commanded
  <2> QED BY <1>1, <2>1, <2>2, <2>3, <2>4 DEF Commanded
<1>10. DocOK(me.doc)'
  BY <1>1, <1>7 DEF DocOK, IntentFits, Books, Stopped, FilledBy, Onwards
<1>11. ASSUME Fresh(me) PROVE Fresh(me)'
  <2>1. Looked(me) => Looked(me)' BY DEF Looked
  <2>2. Reserving(me) => Reserving(me)' BY <1>3 DEF Reserving, Onwards
  <2>3. Pausing(me) => Pausing(me)' BY <1>3 DEF Pausing, Onwards
  <2>4. Kept(me.doc) => Kept(me.doc)' BY DEF Kept
  <2>5. Follows(me) => Follows(me)' BY <1>4, <2>4 DEF Follows, Onwards
  <2> QED BY <1>11, <2>1, <2>2, <2>3, <2>5 DEF Fresh
<1> QED BY <1>1, <1>8, <1>9, <1>10, <1>11 DEF HandOK

(* A deal's target is the one of the command that placed it.                 *)
LEMMA SaleStays ==
  ASSUME PositionTypes, AccountOK, Evolves, DOMAIN intents' \subseteq Ids, NEW t,
         NEW n \in 1..Len(account.deals), NEW by, by = account.deals[n].by
  PROVE  (Known(by) /\ intents[by].intent.target = t)
           <=> (Known(by)' /\ intents'[by].intent.target = t)
<1>1. CASE by = NoId BY <1>1, NothingTyped DEF Known, PositionTypes
<1>2. CASE by # NoId BY <1>2 DEF AccountOK, Evolves, Known
<1> QED BY <1>1, <1>2

(* What the commands sold for a target does not change by itself.            *)
LEMMA SalesAbide ==
  ASSUME PositionTypes, AccountOK, ExitsNotRepeated, account'.deals = account.deals, Evolves,
         Onwards, DOMAIN intents' \subseteq Ids
  PROVE  ExitsNotRepeated'
<1> SUFFICES ASSUME AllocationKept, NEW t \in Targets PROVE SoldFor(t)' <= Alloc[t]
  BY DEF ExitsNotRepeated, Onwards, AllocationKept
<1>2. ASSUME NEW n \in 1..Len(account.deals)
      PROVE  (Known(account.deals[n].by) /\ intents[account.deals[n].by].intent.target = t)
        <=> (Known(account.deals[n].by)' /\ intents'[account.deals[n].by].intent.target = t)
  <2>1. PICK by : by = account.deals[n].by /\ by = account'.deals[n].by OBVIOUS
  <2>2. (Known(by) /\ intents[by].intent.target = t)
          <=> (Known(by)' /\ intents'[by].intent.target = t)
    BY <2>1, SaleStays
  <2> QED BY <2>1, <2>2 DEF Known
<1>3. SoldFor(t)' = SoldFor(t)
  <2> DEFINE By(n) == Known(account.deals[n].by)
                        /\ intents[account.deals[n].by].intent.target = t
             By2(n) == Known(account.deals[n].by)'
                        /\ intents'[account.deals[n].by].intent.target = t
  <2>1. \A n \in 1..Len(account.deals) : By(n) <=> By2(n) BY <1>2
  <2>2. SoldFor(t) = Sum([n \in 1..Len(account.deals) |->
                            IF By(n) THEN account.deals[n].volume ELSE 0])
    BY DEF SoldFor
  <2>3. SoldFor(t)' = Sum([n \in 1..Len(account.deals) |->
                             IF By2(n) THEN account.deals[n].volume ELSE 0])
    BY DEF SoldFor
  <2> HIDE DEF By, By2
  <2>4. [n \in 1..Len(account.deals) |-> IF By(n) THEN account.deals[n].volume ELSE 0]
        = [n \in 1..Len(account.deals) |-> IF By2(n) THEN account.deals[n].volume ELSE 0]
    BY <2>1
  <2> QED BY <2>2, <2>3, <2>4
<1> QED BY <1>3 DEF AllocationKept

(* A step that leaves the document and the history alone preserves the       *)
(* invariant if it does what it changes well.                                *)
LEMMA QuietStep ==
  ASSUME PositionInv, managed' = managed, account'.deals = account.deals,
         account'.volume = account.volume, Evolves, Onwards, PositionTypes',
         \A id \in DOMAIN intents' : EntryOK(id)',
         \A x \in Handlers : handler'[x] = handler[x] \/ HandOK(handler[x])'
  PROVE  PositionInv'
<1>1. PositionTypes /\ ManagedOK /\ AccountOK /\ ExitsNotRepeated
      /\ \A h \in Handlers : HandOK(handler[h])
  BY DEF PositionInv
<1>2. ManagedOK'
  <2>1. \A id : DealBy(id) <=> DealBy(id)' BY DEF DealBy
  <2>2. DocOK(managed)'
    BY <1>1, <2>1 DEF ManagedOK, DocOK, IntentFits, Books, Stopped, FilledBy, Onwards
  <2>3. Kept(managed) => Kept(managed)' BY DEF Kept
  <2> QED BY <1>1, <2>2, <2>3 DEF ManagedOK, Onwards
<1>3. AccountOK' BY <1>1 DEF AccountOK, Evolves, Known
<1>4. \A h \in Handlers : HandOK(handler[h])'
  <2> SUFFICES ASSUME NEW h \in Handlers, handler'[h] = handler[h] PROVE HandOK(handler[h])'
    OBVIOUS
  <2>1. PICK me : me = handler[h] /\ me = handler'[h] OBVIOUS
  <2>2. me \in Hands BY <1>1, <2>1 DEF PositionTypes
  <2>3. HandOK(me) BY <1>1, <2>1
  <2>4. HandOK(me)' BY <2>2, <2>3, HandsAbide
  <2> QED BY <2>1, <2>4
<1>5. ExitsNotRepeated' BY <1>1, SalesAbide DEF PositionTypes
<1> QED BY <1>2, <1>3, <1>4, <1>5 DEF PositionInv

(* A step of one handler that changes only what it holds.                    *)
LEMMA HandStep ==
  ASSUME PositionInv, NEW h \in Handlers, NEW next \in Hands,
         handler' = [handler EXCEPT ![h] = next],
         UNCHANGED <<managed, intents, account, writtenOff>>, outrun' \in BOOLEAN,
         outrun => outrun',
         bridge' \in Accounts, structure' \in 0..MaxStop, manual' \in 0..MaxManual,
         managementFaults' \in 0..MaxManagementFaults,
         HandOK(next) \/ HandOK(next)'
  PROVE  PositionInv'
<1>1. PositionTypes BY DEF PositionInv
<1>2. Onwards BY DEF Onwards
<1>3. Evolves BY DEF Evolves, Known, Refused, Over, Waiting
<1>4. handler' \in [Handlers -> Hands] /\ handler'[h] = next
      /\ \A x \in Handlers : x # h => handler'[x] = handler[x]
  BY <1>1 DEF PositionTypes
<1>5. PositionTypes' BY <1>1, <1>4 DEF PositionTypes
<1>6. HandOK(next)' BY <1>2, <1>3, HandsAbide
<1>7. \A x \in Handlers : handler'[x] = handler[x] \/ HandOK(handler[x])' BY <1>4, <1>6
<1>8. ASSUME NEW id \in DOMAIN intents' PROVE EntryOK(id)'
  <2>1. id \in DOMAIN intents /\ EntryOK(id) BY <1>8 DEF PositionInv
  <2> QED BY <2>1 DEF EntryOK, Waiting, Known, HeldBy, DealBy
<1> QED BY <1>2, <1>3, <1>5, <1>7, <1>8, QuietStep

(* Nobody's hand promises nothing.                                           *)
LEMMA NobodyOK == ASSUME account \in Accounts PROVE HandOK(NobodyHandles)
<1> DEFINE me == NobodyHandles
<1>1. me.pc = "idle" /\ me.fresh = FALSE /\ me.doc = Unmanaged BY DEF NobodyHandles
<1>2. Standing(me) /\ Commanded(me) BY <1>1 DEF Standing, Commanded, Looking
<1>3. Unmanaged.pending = NoId /\ Unmanaged.state = "none" BY NothingTyped
<1>4. IntentFits(Unmanaged) /\ Stopped(Unmanaged) /\ FilledBy(Unmanaged)
  BY <1>3 DEF IntentFits, Stopped, FilledBy, Failed
<1>5. Books(Unmanaged, account.deals)
  <2>1. account.deals \in Seq(Deals) BY DEF Accounts
  <2> DEFINE L == Len(account.deals)
             none == SeenVolumes({}, account.deals)
             closed == [t \in Targets |-> 0]
  <2>2. L \in Nat BY <2>1
  <2>3. none = [n \in 1..L |-> 0] BY DEF SeenVolumes
  <2>4. none \in [1..L -> Int] /\ \A n \in 1..L : none[n] = 0 BY <2>3
  <2>5. Sum(none) = 0
    <3> HIDE DEF none, L
    <3> QED BY <2>2, <2>4, SumOfNone
  <2>6. Targets = 1..FinalTarget /\ FinalTarget \in Nat /\ Volume \in Nat
        /\ \A t \in Targets : Alloc[t] \in Nat
    BY AllocFacts
  <2>7. closed \in [1..FinalTarget -> Int] /\ \A t \in 1..FinalTarget : closed[t] = 0 BY <2>6
  <2>8. Sum(closed) = 0
    <3> HIDE DEF closed
    <3> QED BY <2>6, <2>7, SumOfNone
  <2>9. Unmanaged.seen = {} /\ Unmanaged.remaining = Volume /\ Unmanaged.closed = closed
    BY DEF Unmanaged
  <2>10. \A t \in Targets \ {FinalTarget} : closed[t] <= Alloc[t] BY <2>6
  <2> HIDE DEF closed, none
  <2> QED BY <2>5, <2>6, <2>8, <2>9, <2>10 DEF Books, none
<1> HIDE DEF me
<1>6. DocOK(me.doc) BY <1>1, <1>4, <1>5 DEF DocOK
<1>7. HandOK(me) BY <1>1, <1>2, <1>6 DEF HandOK
<1> QED BY <1>7 DEF me

(* A handler that ends, or crashes, leaves nothing behind.                   *)
LEMMA EndStep ==
  ASSUME PositionInv, NEW h \in Handlers, Ends(h),
         UNCHANGED <<managed, intents, account, bridge, structure, manual, writtenOff, outrun>>,
         managementFaults' \in 0..MaxManagementFaults
  PROVE  PositionInv'
<1>1. PositionTypes BY DEF PositionInv
<1>2. account \in Accounts /\ bridge' \in Accounts /\ structure' \in 0..MaxStop
      /\ manual' \in 0..MaxManual /\ outrun' \in BOOLEAN
  BY <1>1 DEF PositionTypes
<1>3. HandOK(NobodyHandles) /\ NobodyHandles \in Hands BY <1>2, NobodyOK, NothingTyped
<1>4. PICK next \in Hands : next = NobodyHandles /\ HandOK(next) BY <1>3
<1>5. handler' = [handler EXCEPT ![h] = next] BY <1>4 DEF Ends
<1> QED BY <1>2, <1>4, <1>5, HandStep

-----------------------------------------------------------------------------
(* One heartbeat: what it reads and how it judges. *)

(* A hand and the data, typed.                                               *)
LEMMA HandTyped ==
  ASSUME PositionInv, NEW h \in Handlers
  PROVE  /\ handler[h] \in Hands /\ HandOK(handler[h])
         /\ handler[h].doc \in Docs /\ handler[h].cmd \in Commands
         /\ handler[h].id \in Ids \cup {NoId}
         /\ handler \in [Handlers -> Hands] /\ account \in Accounts /\ bridge \in Accounts
         /\ managed \in Docs /\ structure \in 0..MaxStop /\ manual \in 0..MaxManual
         /\ outrun \in BOOLEAN /\ managementFaults \in 0..MaxManagementFaults
<1>1. PositionTypes /\ HandOK(handler[h]) BY DEF PositionInv
<1>2. handler[h] \in Hands BY <1>1 DEF PositionTypes
<1> QED BY <1>1, <1>2 DEF PositionTypes, Hands

(* A heartbeat takes a beginning of the broker's history with it.            *)
LEMMA HeartbeatStep == ASSUME PositionInv, NEW h \in Handlers, Heartbeat(h) PROVE PositionInv'
<1>1. PICK me \in Hands : me = handler[h] /\ HandOK(me) BY HandTyped
<1>2. PICK next : next = [me EXCEPT !.pc = "read", !.snap = account] OBVIOUS
<1>3. account \in Accounts /\ handler \in [Handlers -> Hands] BY HandTyped
<1>4. next \in Hands /\ next.pc = "read" /\ next.snap = account /\ next.doc = me.doc
  BY <1>2, <1>3 DEF Hands, Points
<1>5. handler' = [handler EXCEPT ![h] = next] BY <1>1, <1>2, <1>3 DEF Heartbeat
<1>6. HandOK(next)
  <2>1. Begins(account.deals, account.deals) BY <1>3 DEF Begins, Accounts
  <2>2. Standing(next) BY <1>3, <1>4, <2>1 DEF Standing, Looking
  <2>3. Commanded(next) /\ Fresh(next) BY <1>4 DEF Commanded, Fresh, Judging
  <2>4. DocOK(next.doc) BY <1>1, <1>4 DEF HandOK
  <2> QED BY <2>2, <2>3, <2>4 DEF HandOK
<1>7. bridge' = account /\ UNCHANGED <<managed, intents, account, writtenOff, outrun, structure,
                                       manual, managementFaults>>
  BY DEF Heartbeat
<1> QED BY <1>3, <1>4, <1>5, <1>6, <1>7, HandTyped, HandStep

(* The copy read is the document, and fresh.                                 *)
LEMMA ReadManagedStep ==
  ASSUME PositionInv, NEW h \in Handlers, ReadManaged(h) PROVE PositionInv'
<1>1. PICK me \in Hands : me = handler[h] /\ HandOK(me) BY HandTyped
<1>2. me.pc = "read" BY <1>1 DEF ReadManaged, Stands
<1>3. UNCHANGED <<managed, intents, account, bridge, writtenOff, outrun, structure, manual,
                  managementFaults>>
  BY DEF ReadManaged
<1>4. CASE managed.state = "POSITION_CLOSED"
  BY <1>3, <1>4, HandTyped, EndStep DEF ReadManaged
<1>5. CASE managed.state # "POSITION_CLOSED"
  <2>1. managed \in Docs /\ ManagedOK BY HandTyped DEF PositionInv
  <2>2. PICK doc : doc = Copied(managed) OBVIOUS
  <2>3. doc \in Docs /\ doc.state = (IF managed.state = "none" THEN "OPEN" ELSE managed.state)
        /\ doc.closed = managed.closed /\ doc.remaining = managed.remaining
        /\ doc.seen = managed.seen /\ doc.pending = managed.pending /\ doc.intent = managed.intent
    BY <2>1, <2>2 DEF Docs, DocsIn, Copied, DocStates
  <2>4. DocOK(doc)
    BY <2>1, <2>3 DEF ManagedOK, DocOK, IntentFits, Books, Stopped, FilledBy, Failed
  <2>5. PICK next : next = [me EXCEPT !.pc = "command", !.fresh = TRUE, !.doc = doc] OBVIOUS
  <2>6. next \in Hands /\ next.pc = "command" /\ next.fresh = TRUE /\ next.doc = doc
        /\ next.snap = me.snap
    BY <2>3, <2>5 DEF Hands, Points
  <2>7. handler' = [handler EXCEPT ![h] = next]
    <3>1. doc = IF managed.state = "none" THEN [managed EXCEPT !.state = "OPEN"] ELSE managed
      <4>1. CASE managed.state = "none" BY <2>2, <4>1 DEF Copied
      <4>2. CASE managed.state # "none" BY <2>1, <2>2, <4>2 DEF Copied, Docs, DocsIn
      <4> QED BY <4>1, <4>2
    <3>2. handler \in [Handlers -> Hands] BY HandTyped
    <3>3. handler' = [handler EXCEPT ![h].pc = "command", ![h].fresh = TRUE, ![h].doc = doc]
      BY <1>5, <3>1 DEF ReadManaged
    <3> QED BY <1>1, <2>5, <3>2, <3>3
  <2>8. HandOK(next)
    <3>1. me.snap \in Accounts /\ Begins(me.snap.deals, account.deals)
      BY <1>1, <1>2 DEF HandOK, Standing, Looking
    <3>2. Standing(next) BY <2>6, <3>1 DEF Standing, Looking
    <3>3. Commanded(next) BY <2>6 DEF Commanded
    <3>4. Looked(next) BY <1>5, <2>2, <2>6 DEF Looked
    <3>5. Fresh(next) BY <2>6, <3>4 DEF Fresh, Judging
    <3> QED BY <2>4, <2>6, <3>2, <3>3, <3>5 DEF HandOK
  <2> QED BY <1>3, <2>6, <2>7, <2>8, HandTyped, HandStep
<1> QED BY <1>4, <1>5

(* The command read is the pending operation's; without one the snapshot has *)
(* no deal of that operation.                                                *)
LEMMA ReadCommandStep ==
  ASSUME PositionInv, NEW h \in Handlers, ReadCommand(h) PROVE PositionInv'
<1>1. PICK me \in Hands : me = handler[h] /\ HandOK(me) BY HandTyped
<1>2. me.pc = "command" BY <1>1 DEF ReadCommand, Stands
<1>3. UNCHANGED <<managed, intents, account, bridge, writtenOff, outrun, structure, manual,
                  managementFaults>>
  BY DEF ReadCommand
<1>4. PICK cmd : cmd = IF Known(me.doc.pending) THEN intents[me.doc.pending].cmd ELSE "none"
  OBVIOUS
<1>5. ASSUME Known(me.doc.pending)
      PROVE  /\ EntryOK(me.doc.pending) /\ intents[me.doc.pending] \in Entries
             /\ me.doc.pending \in Ids
  BY <1>5 DEF PositionInv, PositionTypes, Known
<1>6. cmd \in Commands
  BY <1>4, <1>5 DEF Entries, Commands
<1>7. PICK next : next = [me EXCEPT !.pc = "judge", !.cmd = cmd] OBVIOUS
<1>8. next \in Hands /\ next.pc = "judge" /\ next.cmd = cmd /\ next.doc = me.doc
      /\ next.snap = me.snap /\ next.fresh = me.fresh
  BY <1>6, <1>7 DEF Hands, Points
<1>9. handler' = [handler EXCEPT ![h] = next]
  BY <1>1, <1>4, <1>7, HandTyped DEF ReadCommand
<1>10. me.snap \in Accounts /\ Begins(me.snap.deals, account.deals)
  BY <1>1, <1>2 DEF HandOK, Standing, Looking
<1>11. Standing(next) BY <1>8, <1>10 DEF Standing, Looking
<1>12. ASSUME Known(me.doc.pending), intents[me.doc.pending].cmd # "none"
       PROVE  intents[me.doc.pending].status \in {"queued", "settled"}
  BY <1>5, <1>12 DEF EntryOK, Entries, Proposals
<1>13. Commanded(next)
  <2> DEFINE id == me.doc.pending
  <2>1. cmd # "none" => Known(id) /\ intents[id].status # "pending" BY <1>4, <1>12
  <2>2. cmd \in {"rejected", "reconciled"} => Over(id)
    BY <1>4, <2>1 DEF Over, Waiting
  <2>3. ASSUME cmd = "none", NEW n \in 1..Len(me.snap.deals), id # NoId
        PROVE  me.snap.deals[n].by # id
    <3> SUFFICES ASSUME me.snap.deals[n].by = id PROVE FALSE OBVIOUS
    <3>1. Len(me.snap.deals) \in Nat /\ Len(account.deals) \in Nat
      BY <1>10, HandTyped DEF Accounts
    <3>2. n \in 1..Len(account.deals) /\ account.deals[n].by = id BY <1>10, <3>1 DEF Begins
    <3>3. Known(id) BY <2>3, <3>2 DEF PositionInv, AccountOK
    <3>4. DealBy(id) BY <3>2 DEF DealBy
    <3>5. intents[id].ea \in {"answered", "done"} BY <1>5, <3>3, <3>4 DEF EntryOK
    <3>6. intents[id].status \in {"queued", "settled"}
      BY <1>5, <3>3, <3>5 DEF EntryOK, Entries, Proposals
    <3>7. intents[id].cmd # "none" BY <1>5, <3>3, <3>6 DEF EntryOK
    <3> QED BY <1>4, <2>3, <3>3, <3>7
  <2>4. cmd = "rejected" /\ ~writtenOff => ~DealBy(id) BY <1>4, <1>5 DEF EntryOK
  <2> QED BY <1>8, <2>1, <2>2, <2>3, <2>4 DEF Commanded
<1>14. me.fresh => Fresh(next)
  BY <1>1, <1>2, <1>8 DEF HandOK, Fresh, Looked, Judging
<1>15. HandOK(next) BY <1>1, <1>8, <1>11, <1>13, <1>14 DEF HandOK
<1> QED BY <1>3, <1>8, <1>9, <1>15, HandTyped, HandStep

(* What the snapshot's deals make of the copy agrees with the broker's history, *)
(* and follows the document when it is fresh.                                *)
LEMMA JudgeStep == ASSUME PositionInv, NEW h \in Handlers, Judge(h) PROVE PositionInv'
<1>1. PICK me \in Hands : me = handler[h] /\ HandOK(me) BY HandTyped
<1>2. me.pc = "judge" BY <1>1 DEF Judge, Stands
<1>3. UNCHANGED <<managed, intents, account, bridge, writtenOff, outrun, structure, manual,
                  managementFaults>>
  BY DEF Judge
<1>4. me.snap \in Accounts /\ Begins(me.snap.deals, account.deals)
  BY <1>1, <1>2 DEF HandOK, Standing, Looking
<1>5. me.doc \in Docs /\ DocOK(me.doc) /\ me.cmd \in Commands /\ account \in Accounts
  BY <1>1, HandTyped DEF HandOK
<1>6. CommandsOnly BY DEF PositionInv, AccountOK, CommandsOnly
<1> DEFINE id == PaidBy(me.doc, me.cmd)
<1>7. PICK d : d = Applied(me.doc, me.snap, me.cmd) OBVIOUS
<1>8. /\ d \in Drafts /\ Carries(me.doc, d, id)
      /\ d.seen \subseteq me.doc.seen \cup 1..Len(me.snap.deals)
  BY <1>4, <1>5, <1>6, <1>7, AppliedCarries
<1>9. /\ Frame(me.doc, d) /\ Onward(me.doc, d) /\ Books(d, account.deals)
      /\ StateAfter(me.doc, d) /\ FilledAfter(me.doc, d) /\ SeenAfter(me.doc, d, id)
  BY <1>8 DEF Carries
<1> DEFINE confirmed == /\ d.state # "raised" /\ me.snap.volume = d.remaining /\ d.pending # <<>>
                        /\ d.intent.op = "partial_close" /\ me.cmd \notin {"none", "reconciled"}
                        /\ Hit(d, d.intent.target)
<1>10. PICK command : command = IF confirmed THEN "reconciled" ELSE me.cmd OBVIOUS
<1>11. command \in Commands BY <1>5, <1>10 DEF Commands
<1>12. PICK r : r = Judged(d, me.snap, command) OBVIOUS
<1>13. IntentFits(d)
  <2>1. IntentFits(me.doc) BY <1>5 DEF DocOK
  <2> QED BY <1>9, <2>1 DEF IntentFits, Frame
<1>14. Verdict(d, r, command) BY <1>4, <1>8, <1>11, <1>12, <1>13, JudgedIs
<1> DEFINE pc == IF confirmed THEN "confirm" ELSE "store"
           newId == IF confirmed THEN d.pending ELSE <<>>
<1>15. PICK next :
         next = [me EXCEPT !.pc = pc, !.snap = <<>>, !.cmd = "none", !.doc = r, !.id = newId]
  OBVIOUS
<1>16. r \in Docs BY <1>14 DEF Verdict
<1>17. /\ next \in Hands /\ next.pc = pc /\ next.doc = r /\ next.id = newId
       /\ next.fresh = me.fresh
  <2>1. newId \in Ids \cup {NoId} BY <1>8 DEF Drafts, DocsIn, NoId
  <2>2. pc \in Points /\ "none" \in Commands BY DEF Points, Commands
  <2> HIDE DEF newId, pc
  <2> QED BY <1>15, <1>16, <2>1, <2>2 DEF Hands
<1>18. handler' = [handler EXCEPT ![h] = next]
  <2>1. handler \in [Handlers -> Hands] BY HandTyped
  <2>2. handler' = [handler EXCEPT ![h].pc = pc, ![h].snap = <<>>, ![h].cmd = "none",
                                   ![h].doc = r, ![h].id = newId]
    BY <1>1, <1>7, <1>10, <1>12 DEF Judge
  <2> HIDE DEF pc, newId
  <2> QED BY <1>1, <1>15, <2>1, <2>2
<1> HIDE DEF id
<1>19. DocOK(r)
  <2>1. r.pending # NoId => r.pending = me.doc.pending
    BY <1>9, <1>14 DEF Verdict, Frame
  <2>2. r.intent = me.doc.intent BY <1>9, <1>14 DEF Verdict, Frame
  <2>3. IntentFits(me.doc) /\ Stopped(me.doc) BY <1>5 DEF DocOK
  <2>4. IntentFits(r) BY <2>1, <2>2, <2>3 DEF IntentFits
  <2>5. Books(r, account.deals) BY <1>9, <1>14 DEF Verdict, Books
  <2>6. Stopped(r)
    <3> SUFFICES ASSUME r.state \in Failed, r.pending # NoId PROVE outrun BY DEF Stopped
    <3>1. r.state = d.state BY <1>14 DEF Verdict, Failed
    <3>2. me.doc.state \in Failed BY <1>9, <3>1 DEF StateAfter
    <3> QED BY <2>1, <2>3, <3>2 DEF Stopped
  <2>7. FilledBy(r)
    <3> SUFFICES ASSUME r.pending # NoId, r.pending[1] = "tp", r.closed[r.pending[2]] # 0
                 PROVE  DealBy(r.pending)
      BY DEF FilledBy
    <3>1. r.closed = d.closed BY <1>14 DEF Verdict
    <3> QED BY <1>9, <2>1, <3>1 DEF FilledAfter, ExitOf
  <2> QED BY <2>4, <2>5, <2>6, <2>7 DEF DocOK
<1>20. ASSUME confirmed
       PROVE  /\ d.pending = me.doc.pending /\ d.pending # NoId
              /\ Known(d.pending) /\ intents[d.pending].status # "pending" /\ DealBy(d.pending)
  <2>1. d.pending = me.doc.pending /\ d.pending # NoId BY <1>9, <1>20 DEF Frame, NoId
  <2>2. Known(d.pending) /\ intents[d.pending].status # "pending"
    BY <1>1, <1>2, <1>20, <2>1 DEF HandOK, Commanded
  <2>3. d.pending \in Ids BY <1>8, <2>1 DEF Drafts, DocsIn
  <2>4. d.pending[1] \in {"tp", "stop", "manual"} BY <2>3, IdIs DEF Ids
  <2>5. Fitting(d.pending, d.intent) BY <1>13, <2>1 DEF IntentFits
  <2>6. "partial_close" \notin ManualOps BY ManagementAssumption DEF ManagementAssumption
  <2>7. d.pending[1] = "tp" BY <1>20, <2>4, <2>5, <2>6 DEF Fitting
  <2>8. d.intent.target = d.pending[2] /\ d.intent.target \in Targets BY <2>5, <2>7 DEF Fitting
  <2>9. d.closed[d.pending[2]] # 0
    <3>1. Alloc[d.pending[2]] \in Nat \ {0} BY <2>8, AllocFacts
    <3>2. d.closed[d.pending[2]] \in Nat BY <1>8, <2>8 DEF Drafts, DocsIn
    <3>3. d.closed[d.pending[2]] >= Alloc[d.pending[2]] BY <1>20, <2>8 DEF Hit
    <3> QED BY <3>1, <3>2, <3>3
  <2>10. DealBy(d.pending) BY <1>9, <2>1, <2>7, <2>9 DEF FilledAfter, ExitOf
  <2> QED BY <2>1, <2>2, <2>10
<1>21. Standing(next) BY <1>17, <1>20 DEF Standing, Looking
<1>22. Commanded(next) BY <1>17, <1>20 DEF Commanded
<1> HIDE DEF confirmed
<1>23. ASSUME me.fresh PROVE Follows(next)
  <2>1. managed.state # "POSITION_CLOSED" /\ me.doc = Copied(managed)
    BY <1>1, <1>2, <1>23 DEF HandOK, Fresh, Looked
  <2>2. managed \in Docs BY HandTyped
  <2>3. /\ me.doc.closed = managed.closed /\ me.doc.remaining = managed.remaining
        /\ me.doc.seen = managed.seen /\ me.doc.pending = managed.pending
        /\ me.doc.intent = managed.intent
        /\ me.doc.state = IF managed.state = "none" THEN "OPEN" ELSE managed.state
    BY <2>1, <2>2 DEF Copied, Docs, DocsIn
  <2>4. /\ r.closed = d.closed /\ r.remaining = d.remaining /\ r.seen = d.seen
        /\ r.pending = d.pending \/ (r.pending = NoId /\ ReleasedBy(d, command))
    BY <1>14 DEF Verdict
  <2>5. /\ r.remaining <= managed.remaining
        /\ \A t \in Targets : managed.closed[t] <= r.closed[t]
    BY <1>9, <2>3, <2>4 DEF Onward
  <2>6. (managed.state \in Failed /\ ~outrun /\ r.state \in {"OPEN", "TARGET_PENDING"}) =>
          managed.closed[FinalTarget] < r.closed[FinalTarget]
    <3> SUFFICES ASSUME managed.state \in Failed, ~outrun, r.state \in {"OPEN", "TARGET_PENDING"}
                 PROVE  managed.closed[FinalTarget] < d.closed[FinalTarget]
      BY <2>4
    <3>1. me.doc.state = managed.state BY <2>3 DEF Failed
    <3>2. me.doc.pending = NoId BY <1>5, <3>1 DEF DocOK, Stopped
    <3>3. d.pending = NoId BY <1>9, <3>2 DEF Frame
    <3>4. r.state = d.state BY <1>14, <3>3 DEF Verdict
    <3> QED BY <1>9, <2>3, <3>1, <3>2, <3>4 DEF StateAfter, Failed
  <2>7. ReleasedBy(d, command) =>
          Over(managed.pending) \/ (next.pc = "confirm" /\ next.id = managed.pending)
    <3> SUFFICES ASSUME ReleasedBy(d, command)
                 PROVE  Over(managed.pending) \/ (next.pc = "confirm" /\ next.id = managed.pending)
      OBVIOUS
    <3>1. d.pending = managed.pending BY <1>9, <2>3 DEF ReleasedBy, Frame
    <3>2. command \in {"rejected", "reconciled"} BY DEF ReleasedBy
    <3>3. CASE confirmed BY <1>17, <3>1, <3>3
    <3>4. CASE ~confirmed
      <4>1. me.cmd \in {"rejected", "reconciled"} BY <1>10, <3>2, <3>4
      <4> QED BY <1>1, <1>2, <2>3, <4>1 DEF HandOK, Commanded
    <3> QED BY <3>3, <3>4
  <2>8. \/ r.pending = managed.pending
        \/ /\ r.pending = NoId
           /\ \/ r.remaining = 0 \/ Over(managed.pending)
              \/ next.pc = "confirm" /\ next.id = managed.pending
    BY <1>9, <2>3, <2>4, <2>7 DEF Frame
  <2>9. writtenOff \/ Kept(r)
    <3> SUFFICES ASSUME ~writtenOff, NEW n \in 1..Len(account.deals),
                        account.deals[n].by # NoId, account.deals[n].by[1] = "tp",
                        r.remaining # 0, r.closed[account.deals[n].by[2]] = 0
                 PROVE  r.pending = account.deals[n].by /\ n \notin r.seen
      BY DEF Kept
    <3> DEFINE by == account.deals[n].by
    <3>1. Kept(managed) BY DEF PositionInv, ManagedOK
    <3>2. Known(by) /\ EntryOK(by) BY DEF PositionInv, AccountOK, Known
    <3>3. by[2] \in Targets BY <3>2 DEF EntryOK, Fitting
    <3>4. d.closed[by[2]] = 0 /\ managed.closed[by[2]] = 0
      <4>1. managed.closed[by[2]] \in Nat BY <2>2, <3>3 DEF Docs, DocsIn
      <4>2. managed.closed[by[2]] <= 0 BY <2>5, <3>3
      <4> QED BY <2>4, <4>1, <4>2
    <3>5. managed.remaining # 0
      <4>1. managed.remaining \in Nat /\ r.remaining \in Nat BY <1>16, <2>2 DEF Docs, DocsIn
      <4> QED BY <2>5, <4>1
    <3>6. managed.pending = by /\ n \notin managed.seen BY <3>1, <3>4, <3>5 DEF Kept
    <3>7. d.pending = by BY <1>9, <2>3, <2>4, <3>6 DEF Frame
    <3>8. n \notin d.seen
      <4>1. CASE me.cmd = "none"
        <5>1. Len(me.snap.deals) \in Nat BY <1>4 DEF Accounts
        <5>2. \A k \in 1..Len(me.snap.deals) : account.deals[k].by # by
          BY <1>1, <1>2, <1>4, <2>3, <3>6, <4>1 DEF HandOK, Commanded, Begins
        <5> QED BY <1>8, <2>3, <3>6, <5>2
      <4>2. CASE me.cmd # "none"
        <5>1. id = by BY <2>3, <3>6, <4>2 DEF id, PaidBy
        <5>2. ExitOf(me.doc) BY <2>3, <3>6 DEF ExitOf
        <5> QED BY <1>9, <2>3, <3>4, <3>6, <5>1, <5>2 DEF SeenAfter
      <4> QED BY <4>1, <4>2
    <3>9. r.pending = d.pending
      <4> SUFFICES ASSUME ReleasedBy(d, command) PROVE FALSE BY <2>4
      <4>1. DealBy(by) BY DEF DealBy
      <4>2. Fitting(by, d.intent) BY <1>13, <3>7 DEF IntentFits
      <4>3. d.intent.op = "partial_close" /\ d.intent.target = by[2] BY <4>2 DEF Fitting
      <4>4. ~Hit(d, d.intent.target)
        <5>1. Alloc[by[2]] \in Nat \ {0} BY <3>3, AllocFacts
        <5> QED BY <3>4, <4>3, <5>1 DEF Hit
      <4>5. command = "rejected" BY <4>3, <4>4 DEF ReleasedBy
      <4>6. me.cmd = "rejected" BY <1>10, <4>5
      <4> QED BY <1>1, <1>2, <2>3, <3>6, <4>1, <4>6 DEF HandOK, Commanded
    <3> QED BY <2>4, <3>7, <3>8, <3>9
  <2> QED BY <1>17, <2>1, <2>5, <2>6, <2>8, <2>9 DEF Follows
<1>24. Fresh(next) <=> Follows(next) BY <1>17 DEF Fresh, Judging
<1>25. HandOK(next) BY <1>17, <1>19, <1>21, <1>22, <1>23, <1>24 DEF HandOK
<1> QED BY <1>3, <1>17, <1>18, <1>25, HandTyped, HandStep

-----------------------------------------------------------------------------
(* Steps of the operations' proposals and commands. *)

(* A step that changes one operation's entry, and what handlers hold.        *)
EntryKept(id, entry) ==
  /\ entry.intent = intents[id].intent
  /\ intents[id].status \in {"rejected", "expired"} => entry.status \in {"rejected", "expired"}
  /\ intents[id].status # "pending" => entry.status # "pending"
  /\ Over(id) => ~(entry.status = "queued" /\ entry.cmd \in {"ready", "delivered"})
LEMMA EntryStep ==
  ASSUME PositionInv, NEW id \in DOMAIN intents, NEW entry \in Entries,
         intents' = [intents EXCEPT ![id] = entry], EntryKept(id, entry),
         UNCHANGED <<managed, bridge, structure, manual, outrun>>, Onwards, account' \in Accounts,
         account'.deals = account.deals, account'.volume = account.volume,
         writtenOff' \in BOOLEAN, managementFaults' \in 0..MaxManagementFaults,
         EntryOK(id)', handler' \in [Handlers -> Hands],
         \A x \in Handlers : handler'[x] = handler[x] \/ HandOK(handler[x])'
  PROVE  PositionInv'
<1>1. PositionTypes BY DEF PositionInv
<1>2. /\ DOMAIN intents' = DOMAIN intents /\ intents'[id] = entry
      /\ intents' \in [DOMAIN intents -> Entries]
      /\ \A x \in DOMAIN intents : x # id => intents'[x] = intents[x]
  BY <1>1 DEF PositionTypes
<1>3. PositionTypes' BY <1>1, <1>2 DEF PositionTypes
<1>4. Evolves
  <2> SUFFICES ASSUME NEW x \in DOMAIN intents
               PROVE  /\ Known(x)' /\ intents'[x].intent = intents[x].intent
                      /\ Refused(x) => Refused(x)'
                      /\ Over(x) => Over(x)'
                      /\ intents[x].status # "pending" => intents'[x].status # "pending"
    BY DEF Evolves
  <2>1. Known(x)' /\ Known(x) BY <1>2 DEF Known
  <2>2. CASE x = id BY <1>2, <2>1, <2>2 DEF EntryKept, Refused, Over, Waiting
  <2>3. CASE x # id BY <1>2, <2>1, <2>3 DEF Refused, Over, Waiting
  <2> QED BY <2>2, <2>3
<1>5. ASSUME NEW x \in DOMAIN intents' PROVE EntryOK(x)'
  <2>1. CASE x = id BY <2>1
  <2>2. CASE x # id
    <3>1. EntryOK(x) /\ intents'[x] = intents[x] /\ x \in DOMAIN intents
      BY <1>2, <1>5, <2>2 DEF PositionInv
    <3>2. (Waiting(x) <=> Waiting(x)') /\ (HeldBy(x) <=> HeldBy(x)') /\ (DealBy(x) <=> DealBy(x)')
      BY <1>2, <3>1 DEF Waiting, Known, HeldBy, DealBy
    <3> QED BY <3>1, <3>2 DEF EntryOK, Onwards
  <2> QED BY <2>1, <2>2
<1> QED BY <1>3, <1>4, <1>5, QuietStep

(* An entry, typed.                                                          *)
LEMMA EntryTyped ==
  ASSUME PositionInv, NEW id, Known(id)
  PROVE  /\ id \in DOMAIN intents /\ intents[id] \in Entries /\ EntryOK(id) /\ id # NoId
         /\ id \in Ids
         /\ intents[id].intent \in Intents /\ intents[id].status \in Proposals
         /\ intents[id].cmd \in Commands /\ intents[id].receipt \in Receipts
         /\ intents[id].ea \in {"none", "taken", "answered", "done"}
<1>1. id \in DOMAIN intents /\ intents[id] \in Entries /\ EntryOK(id) /\ id \in Ids
  BY DEF Known, PositionInv, PositionTypes
<1>2. id # NoId BY <1>1, NothingTyped
<1> QED BY <1>1, <1>2 DEF Entries

(* A partial exit is reconciled only when a deal of its own fills the target. *)
LEMMA ConfirmStep == ASSUME PositionInv, NEW h \in Handlers, Confirm(h) PROVE PositionInv'
<1>1. PICK me \in Hands : me = handler[h] /\ HandOK(me) BY HandTyped
<1>2. me.pc = "confirm" BY <1>1 DEF Confirm, Stands
<1>3. UNCHANGED <<managed, account, bridge, structure, manual, writtenOff, outrun,
                  managementFaults>>
  BY DEF Confirm
<1>4. PICK id : id = me.id OBVIOUS
<1>5. Known(id) /\ intents[id].status # "pending" /\ DealBy(id)
  BY <1>1, <1>2, <1>4 DEF HandOK, Commanded
<1>6. id \in DOMAIN intents /\ intents[id] \in Entries /\ EntryOK(id) BY <1>5, EntryTyped
<1>7. PICK entry : entry = [intents[id] EXCEPT !.cmd = "reconciled"] OBVIOUS
<1>8. /\ entry \in Entries /\ entry.cmd = "reconciled" /\ entry.status = intents[id].status
      /\ entry.ea = intents[id].ea /\ entry.receipt = intents[id].receipt
      /\ entry.intent = intents[id].intent
  BY <1>6, <1>7 DEF Entries, Commands
<1>9. intents' = [intents EXCEPT ![id] = entry]
  BY <1>1, <1>4, <1>6, <1>7 DEF Confirm, PositionInv, PositionTypes
<1>10. EntryKept(id, entry) BY <1>8 DEF EntryKept
<1>11. intents'[id] = entry /\ Known(id)' BY <1>6, <1>9 DEF Known, PositionInv, PositionTypes
<1>12. EntryOK(id)'
  <2>1. entry.ea \in {"answered", "done"} /\ entry.receipt # "rejected"
        /\ entry.status \in {"queued", "settled"}
    BY <1>5, <1>6, <1>8 DEF EntryOK, Entries, Proposals
  <2>2. ~Waiting(id)' BY <1>8, <1>11 DEF Waiting
  <2>3. Fitting(id, entry.intent) /\ entry.receipt # "none"
    BY <1>6, <1>8, <2>1 DEF EntryOK
  <2> QED BY <1>8, <1>11, <2>1, <2>2, <2>3 DEF EntryOK
<1>13. PICK next : next = [me EXCEPT !.pc = "store"] OBVIOUS
<1>14. /\ next \in Hands /\ next.pc = "store" /\ next.doc = me.doc /\ next.fresh = me.fresh
       /\ next.id = me.id
  BY <1>13 DEF Hands, Points
<1>15. handler' = [handler EXCEPT ![h] = next]
  BY <1>1, <1>13, HandTyped DEF Confirm, Goes
<1>16. /\ handler' \in [Handlers -> Hands] /\ handler'[h] = next
       /\ \A x \in Handlers : x # h => handler'[x] = handler[x]
  BY <1>14, <1>15, HandTyped
<1>17. HandOK(next)'
  <2>1. Standing(next)' /\ Commanded(next)' BY <1>14 DEF Standing, Commanded, Looking
  <2>2. DocOK(next.doc)'
    BY <1>1, <1>3, <1>14 DEF HandOK, DocOK, IntentFits, Books, Stopped, FilledBy, DealBy
  <2>3. Over(id)' BY <1>5, <1>8, <1>11 DEF Over, Waiting
  <2>4. ASSUME NEW x, Over(x) PROVE Over(x)'
    <3>1. CASE x = id BY <2>3, <3>1
    <3>2. CASE x # id
      <4>1. intents'[x] = intents[x] /\ Known(x)'
        BY <1>9, <2>4, <3>2 DEF Over, Known, PositionInv, PositionTypes
      <4> QED BY <2>4, <4>1 DEF Over, Waiting
    <3> QED BY <3>1, <3>2
  <2>5. ASSUME next.fresh PROVE Fresh(next)'
    <3>1. Follows(me) BY <1>1, <1>2, <1>14, <2>5 DEF HandOK, Fresh, Judging
    <3>2. Kept(me.doc) => Kept(me.doc)' BY <1>3 DEF Kept
    <3>3. Follows(next)' BY <1>2, <1>3, <1>4, <1>14, <2>3, <2>4, <3>1, <3>2 DEF Follows
    <3> QED BY <1>14, <3>3 DEF Fresh, Judging
  <2> QED BY <2>1, <2>2, <2>5 DEF HandOK
<1>18. \A x \in Handlers : handler'[x] = handler[x] \/ HandOK(handler[x])' BY <1>16, <1>17
<1>19. /\ Onwards /\ writtenOff' \in BOOLEAN /\ managementFaults' \in 0..MaxManagementFaults
       /\ account' \in Accounts
  BY <1>3 DEF Onwards, PositionInv, PositionTypes
<1> QED BY <1>3, <1>6, <1>8, <1>9, <1>10, <1>12, <1>16, <1>18, <1>19, EntryStep

(* The hand that is to approve an operation holds nothing of the document.   *)
LEMMA ApprovingOK ==
  ASSUME account \in Accounts, NEW me \in Hands, me.pc \in {"approve", "queue"}, me.id # NoId,
         DocOK(me.doc), Known(me.id)
  PROVE  HandOK(me)
<1>1. Standing(me) /\ Commanded(me) /\ Fresh(me)
  BY DEF Standing, Commanded, Fresh, Looking, Judging
<1> QED BY <1>1 DEF HandOK

(* A new proposal is the reserved operation's; one that is there stays.      *)
LEMMA SaveProposalStep ==
  ASSUME PositionInv, NEW h \in Handlers, SaveProposal(h) PROVE PositionInv'
<1>1. PICK me \in Hands : me = handler[h] /\ HandOK(me) BY HandTyped
<1>2. me.pc = "propose" BY <1>1 DEF SaveProposal, Stands
<1>3. UNCHANGED <<managed, account, bridge, structure, manual, writtenOff, outrun,
                  managementFaults>>
  BY DEF SaveProposal
<1>4. PICK id : id = me.id OBVIOUS
<1>5. PICK intent : intent = me.doc.intent OBVIOUS
<1>6. /\ id # NoId /\ id \in Ids /\ me.doc.pending = id /\ intent \in Intents
      /\ (~Known(id) => HeldBy(id))
  BY <1>1, <1>2, <1>4, <1>5 DEF HandOK, Standing, Hands, Docs, DocsIn
<1>7. Fitting(id, intent) BY <1>1, <1>5, <1>6 DEF HandOK, DocOK, IntentFits
<1>8. account \in Accounts /\ PositionTypes BY DEF PositionInv, PositionTypes
<1>9. HandOK(NobodyHandles) /\ NobodyHandles \in Hands /\ Unmanaged \in Docs
  BY <1>8, NobodyOK, NothingTyped
<1>10. PICK nobody \in Hands : nobody = NobodyHandles /\ HandOK(nobody) BY <1>9
<1>11. nobody.doc = Unmanaged BY <1>10 DEF NobodyHandles
<1>12. PICK to : to = [me EXCEPT !.pc = "approve", !.doc = Unmanaged, !.id = id, !.fresh = TRUE]
  OBVIOUS
<1>13. to \in Hands /\ to.pc = "approve" /\ to.id = id /\ to.doc = Unmanaged
  BY <1>6, <1>9, <1>12 DEF Hands, Points
<1>14. PICK next \in {nobody, to} : handler' = [handler EXCEPT ![h] = next]
  <2>1. CASE intent.auto
    <3>1. handler' = [handler EXCEPT ![h].pc = "approve", ![h].doc = Unmanaged, ![h].id = id,
                                     ![h].fresh = TRUE]
      BY <1>1, <1>4, <1>5, <2>1 DEF SaveProposal, Hold
    <3> QED BY <1>1, <1>12, <3>1, HandTyped
  <2>2. CASE ~intent.auto BY <1>1, <1>5, <1>10, <2>2 DEF SaveProposal, Ends
  <2> QED BY <2>1, <2>2
<1>15. next \in Hands BY <1>10, <1>13
<1>16. DocOK(to.doc) BY <1>10, <1>11, <1>13 DEF HandOK
<1>17. CASE Known(id)
  <2>1. intents' = intents BY <1>1, <1>4, <1>17 DEF SaveProposal
  <2>2. HandOK(to) BY <1>6, <1>8, <1>13, <1>16, <1>17, ApprovingOK
  <2>3. HandOK(next) BY <1>10, <2>2
  <2> QED BY <1>3, <1>14, <1>15, <2>1, <2>3, HandTyped, HandStep
<1>18. CASE ~Known(id)
  <2>1. PICK entry : entry = [intent |-> intent, status |-> "pending", cmd |-> "none",
                              ea |-> "none", receipt |-> "none"]
    OBVIOUS
  <2>2. entry \in Entries /\ entry.intent = intent /\ entry.status = "pending"
        /\ entry.cmd = "none" /\ entry.ea = "none" /\ entry.receipt = "none"
    BY <1>6, <2>1 DEF Entries, Proposals, Commands, Receipts
  <2>3. intents' = [i \in DOMAIN intents \cup {id} |-> IF i = id THEN entry ELSE intents[i]]
    BY <1>1, <1>4, <1>5, <1>18, <2>1 DEF SaveProposal
  <2>4. id \notin DOMAIN intents BY <1>18 DEF Known
  <2>5. /\ DOMAIN intents' = DOMAIN intents \cup {id} /\ intents'[id] = entry
        /\ \A x \in DOMAIN intents : intents'[x] = intents[x]
        /\ intents' \in [DOMAIN intents' -> Entries]
    BY <1>8, <2>2, <2>3, <2>4 DEF PositionTypes
  <2>6. Evolves
    BY <2>5 DEF Evolves, Known, Refused, Over, Waiting
  <2>7. Onwards BY <1>3 DEF Onwards
  <2>8. handler' \in [Handlers -> Hands] /\ handler'[h] = next
        /\ \A x \in Handlers : x # h => handler'[x] = handler[x]
    BY <1>14, <1>15, HandTyped
  <2>9. PositionTypes' BY <1>3, <1>6, <1>8, <2>5, <2>8 DEF PositionTypes
  <2>10. ASSUME NEW x \in DOMAIN intents' PROVE EntryOK(x)'
    <3>1. CASE x = id
      <4>1. ~DealBy(id) BY <1>6, <1>18 DEF PositionInv, AccountOK, DealBy
      <4>2. ~DealBy(id)' BY <1>3, <4>1 DEF DealBy
      <4>3. HeldBy(id)' BY <1>3, <1>6, <1>18 DEF HeldBy
      <4> QED BY <1>7, <2>2, <2>5, <3>1, <4>2, <4>3 DEF EntryOK
    <3>2. CASE x # id
      <4>1. x \in DOMAIN intents /\ EntryOK(x) /\ intents'[x] = intents[x]
        BY <2>5, <2>10, <3>2 DEF PositionInv
      <4>2. (Waiting(x) <=> Waiting(x)') /\ (HeldBy(x) <=> HeldBy(x)') /\ (DealBy(x) <=> DealBy(x)')
        BY <1>3, <2>5, <4>1 DEF Waiting, Known, HeldBy, DealBy
      <4> QED BY <1>3, <4>1, <4>2 DEF EntryOK
    <3> QED BY <3>1, <3>2
  <2>11. HandOK(next)'
    <3>1. CASE next = nobody
      <4>1. HandOK(nobody)' BY <1>3, <1>10, <2>6, <2>7, HandsAbide
      <4> QED BY <3>1, <4>1
    <3>2. CASE next = to
      <4>1. Known(id)' BY <2>5 DEF Known
      <4>2. DocOK(to.doc)'
        BY <1>3, <1>16 DEF DocOK, IntentFits, Books, Stopped, FilledBy, DealBy
      <4>3. Standing(to)' /\ Commanded(to)' /\ Fresh(to)'
        BY <1>6, <1>13, <4>1 DEF Standing, Commanded, Fresh, Looking, Judging
      <4>4. HandOK(to)' BY <4>2, <4>3 DEF HandOK
      <4> QED BY <3>2, <4>4
    <3> QED BY <3>1, <3>2
  <2>12. \A x \in Handlers : handler'[x] = handler[x] \/ HandOK(handler[x])' BY <2>8, <2>11
  <2> QED BY <1>3, <2>6, <2>7, <2>9, <2>10, <2>12, QuietStep
<1> QED BY <1>17, <1>18

(* The hands when one of them, or none, lets go.                             *)
LEMMA HandsEnd ==
  ASSUME PositionInv, account' = account, handler' = handler \/ \E h \in Handlers : Ends(h)
  PROVE  /\ handler' \in [Handlers -> Hands]
         /\ \A x \in Handlers : handler'[x] = handler[x] \/ HandOK(handler[x])'
<1>1. PositionTypes BY DEF PositionInv
<1>2. account \in Accounts /\ NobodyHandles \in Hands BY <1>1, NothingTyped DEF PositionTypes
<1>3. PICK nobody \in Hands : nobody = NobodyHandles /\ HandOK(nobody) BY <1>2, NobodyOK
<1>4. HandOK(nobody)'
  <2>1. nobody.pc = "idle" /\ nobody.fresh = FALSE /\ nobody.doc = Unmanaged
    BY <1>3 DEF NobodyHandles
  <2>2. Standing(nobody)' /\ Commanded(nobody)' BY <2>1 DEF Standing, Commanded, Looking
  <2>3. Unmanaged.pending = NoId BY NothingTyped
  <2>4. DocOK(nobody.doc)'
    BY <1>3, <2>1, <2>3 DEF HandOK, DocOK, IntentFits, Books, Stopped, FilledBy
  <2> QED BY <2>1, <2>2, <2>4 DEF HandOK
<1>5. /\ handler' \in [Handlers -> Hands]
      /\ \A x \in Handlers : handler'[x] \in {handler[x], nobody}
  <2>1. CASE handler' = handler BY <1>1, <2>1 DEF PositionTypes
  <2>2. CASE \E h \in Handlers : Ends(h) BY <1>1, <1>3, <2>2 DEF PositionTypes, Ends
  <2> QED BY <2>1, <2>2
<1>6. \A x \in Handlers : handler'[x] = handler[x] \/ HandOK(handler[x])' BY <1>4, <1>5
<1> QED BY <1>5, <1>6

(* A refused proposal stays refused: nothing else of it was ever done.       *)
LEMMA RefuseStep ==
  ASSUME PositionInv, NEW id, Known(id), NEW status \in {"rejected", "expired"},
         intents[id].status = "pending", intents' = [intents EXCEPT ![id].status = status],
         UNCHANGED <<managed, account, bridge, structure, manual, writtenOff, outrun,
                     managementFaults>>,
         handler' = handler \/ \E h \in Handlers : Ends(h)
  PROVE  PositionInv'
<1>1. /\ id \in DOMAIN intents /\ intents[id] \in Entries /\ EntryOK(id)
      /\ PositionTypes
  BY EntryTyped DEF PositionInv
<1>2. PICK entry : entry = [intents[id] EXCEPT !.status = status] OBVIOUS
<1>3. /\ entry \in Entries /\ entry.status = status /\ entry.cmd = intents[id].cmd
      /\ entry.ea = intents[id].ea /\ entry.receipt = intents[id].receipt
      /\ entry.intent = intents[id].intent
  BY <1>1, <1>2 DEF Entries, Proposals
<1>4. intents' = [intents EXCEPT ![id] = entry] BY <1>1, <1>2 DEF PositionTypes
<1>5. entry.cmd = "none" /\ entry.ea = "none" BY <1>1, <1>3 DEF EntryOK
<1>6. EntryKept(id, entry) BY <1>3, <1>5 DEF EntryKept
<1>7. intents'[id] = entry BY <1>1, <1>4 DEF PositionTypes
<1>8. EntryOK(id)'
  <2>1. ~DealBy(id)' BY <1>1, <1>3, <1>5 DEF EntryOK, DealBy
  <2>2. ~Waiting(id)' BY <1>5, <1>7 DEF Waiting
  <2>3. Fitting(id, entry.intent) /\ entry.receipt = "none" BY <1>1, <1>3, <1>5 DEF EntryOK
  <2> QED BY <1>3, <1>5, <1>7, <2>1, <2>2, <2>3 DEF EntryOK
<1>9. /\ Onwards /\ writtenOff' \in BOOLEAN /\ managementFaults' \in 0..MaxManagementFaults
      /\ account' \in Accounts
  BY <1>1 DEF Onwards, PositionTypes
<1>10. /\ handler' \in [Handlers -> Hands]
       /\ \A x \in Handlers : handler'[x] = handler[x] \/ HandOK(handler[x])'
  BY HandsEnd
<1> QED BY <1>1, <1>3, <1>4, <1>6, <1>8, <1>9, <1>10, EntryStep

(* Approving goes on with the proposal or lets it expire.                    *)
LEMMA ApproveStep == ASSUME PositionInv, NEW h \in Handlers, Approve(h) PROVE PositionInv'
<1>1. PICK me \in Hands : me = handler[h] /\ HandOK(me) BY HandTyped
<1>2. me.pc = "approve" BY <1>1 DEF Approve, Stands
<1>3. UNCHANGED <<managed, account, bridge, structure, manual, writtenOff, outrun,
                  managementFaults>>
  BY DEF Approve
<1>4. PICK id : id = me.id OBVIOUS
<1>5. Known(id) /\ id # NoId BY <1>1, <1>2, <1>4 DEF HandOK, Standing
<1>6. \/ intents[id].status = "pending" /\ Goes(h, "queue") /\ UNCHANGED intents
      \/ /\ intents[id].status = "pending" /\ Ends(h)
         /\ intents' = [intents EXCEPT ![id].status = "expired"]
      \/ Ends(h) /\ UNCHANGED intents
  BY <1>1, <1>4 DEF Approve
<1>7. CASE Goes(h, "queue") /\ UNCHANGED intents
  <2>1. PICK next : next = [me EXCEPT !.pc = "queue"] OBVIOUS
  <2>2. next \in Hands /\ next.pc = "queue" /\ next.id = id /\ next.doc = me.doc
    BY <1>4, <2>1 DEF Hands, Points
  <2>3. handler' = [handler EXCEPT ![h] = next] BY <1>1, <1>7, <2>1, HandTyped DEF Goes
  <2>4. HandOK(next)
    <3>1. DocOK(next.doc) /\ account \in Accounts BY <1>1, <2>2, HandTyped DEF HandOK
    <3> QED BY <1>5, <2>2, <3>1, ApprovingOK
  <2> QED BY <1>3, <1>7, <2>2, <2>3, <2>4, HandTyped, HandStep
<1>8. CASE intents[id].status = "pending" /\ Ends(h)
           /\ intents' = [intents EXCEPT ![id].status = "expired"]
  BY <1>3, <1>5, <1>8, RefuseStep
<1>9. CASE Ends(h) /\ UNCHANGED intents BY <1>3, <1>9, HandTyped, EndStep
<1> QED BY <1>6, <1>7, <1>8, <1>9

(* The operator's decision, and the claim of an approved operation.          *)
LEMMA QueueStep == ASSUME PositionInv, NEW h \in Handlers, Queue(h) PROVE PositionInv'
<1>1. PICK me \in Hands : me = handler[h] /\ HandOK(me) BY HandTyped
<1>2. me.pc = "queue" BY <1>1 DEF Queue, Stands
<1>3. /\ UNCHANGED <<managed, account, bridge, structure, manual, writtenOff, outrun,
                     managementFaults>>
      /\ Ends(h)
  BY DEF Queue
<1>4. PICK id : id = me.id OBVIOUS
<1>5. Known(id) BY <1>1, <1>2, <1>4 DEF HandOK, Standing
<1>6. CASE intents[id].status # "pending"
  <2>1. intents' = intents BY <1>1, <1>4, <1>6 DEF Queue
  <2> QED BY <1>3, <2>1, HandTyped, EndStep
<1>7. CASE intents[id].status = "pending"
  <2>1. /\ id \in DOMAIN intents /\ intents[id] \in Entries /\ EntryOK(id) /\ PositionTypes
    BY <1>5, EntryTyped DEF PositionInv
  <2>2. PICK entry : entry = [intents[id] EXCEPT !.status = "queued", !.cmd = "ready"] OBVIOUS
  <2>3. /\ entry \in Entries /\ entry.status = "queued" /\ entry.cmd = "ready"
        /\ entry.ea = intents[id].ea /\ entry.receipt = intents[id].receipt
        /\ entry.intent = intents[id].intent
    BY <2>1, <2>2 DEF Entries, Proposals, Commands
  <2>4. intents' = [intents EXCEPT ![id] = entry]
    <3>1. intents' = [intents EXCEPT ![id].status = "queued", ![id].cmd = "ready"]
      BY <1>1, <1>4, <1>7 DEF Queue
    <3> QED BY <2>1, <2>2, <3>1 DEF PositionTypes
  <2>5. EntryKept(id, entry) BY <1>7, <2>3 DEF EntryKept, Over
  <2>6. intents'[id] = entry BY <2>1, <2>4 DEF PositionTypes
  <2>7. EntryOK(id)'
    <3>1. entry.ea = "none" /\ entry.receipt = "none" /\ Fitting(id, entry.intent)
          /\ HeldBy(id) /\ ~DealBy(id)
      BY <1>7, <2>1, <2>3 DEF EntryOK
    <3>2. HeldBy(id)' /\ ~DealBy(id)' BY <1>3, <3>1 DEF HeldBy, DealBy
    <3> QED BY <2>3, <2>6, <3>1, <3>2 DEF EntryOK
  <2>8. /\ Onwards /\ writtenOff' \in BOOLEAN /\ managementFaults' \in 0..MaxManagementFaults
        /\ account' \in Accounts
    BY <1>3, <2>1 DEF Onwards, PositionTypes
  <2>9. /\ handler' \in [Handlers -> Hands]
        /\ \A x \in Handlers : handler'[x] = handler[x] \/ HandOK(handler[x])'
    BY <1>3, HandsEnd
  <2> QED BY <1>3, <2>1, <2>3, <2>4, <2>5, <2>7, <2>8, <2>9, EntryStep
<1> QED BY <1>6, <1>7

(* The operator begins an approval or rejects the proposal.                  *)
LEMMA DecideStep ==
  ASSUME PositionInv, NEW h \in Handlers, NEW id \in DOMAIN intents, Decide(h, id)
  PROVE  PositionInv'
<1>1. PICK me \in Hands : me = handler[h] /\ HandOK(me) BY HandTyped
<1>2. UNCHANGED <<managed, account, bridge, structure, manual, writtenOff, outrun,
                  managementFaults>>
  BY DEF Decide
<1>3. Known(id) /\ intents[id].status = "pending" BY DEF Decide
<1>4. id # NoId /\ id \in Ids BY <1>3, EntryTyped
<1>5. CASE intents' = [intents EXCEPT ![id].status = "rejected"] /\ UNCHANGED handler
  BY <1>2, <1>3, <1>5, RefuseStep
<1>6. CASE handler' = [handler EXCEPT ![h].pc = "approve", ![h].id = id] /\ UNCHANGED intents
  <2>1. PICK next : next = [me EXCEPT !.pc = "approve", !.id = id] OBVIOUS
  <2>2. next \in Hands /\ next.pc = "approve" /\ next.id = id /\ next.doc = me.doc
    BY <1>4, <2>1 DEF Hands, Points
  <2>3. handler' = [handler EXCEPT ![h] = next] BY <1>1, <1>6, <2>1, HandTyped
  <2>4. DocOK(next.doc) /\ account \in Accounts BY <1>1, <2>2, HandTyped DEF HandOK
  <2>5. HandOK(next) BY <1>3, <1>4, <2>2, <2>4, ApprovingOK
  <2> QED BY <1>2, <1>6, <2>2, <2>3, <2>5, HandTyped, HandStep
<1> QED BY <1>5, <1>6 DEF Decide

(* A step of one command that no handler takes part in.                      *)
LEMMA CommandOnly ==
  ASSUME PositionInv, NEW id, Known(id), NEW entry \in Entries,
         intents' = [intents EXCEPT ![id] = entry], EntryKept(id, entry),
         UNCHANGED <<managed, bridge, handler, structure, manual, outrun>>, Onwards,
         account' \in Accounts, account'.deals = account.deals, account'.volume = account.volume,
         writtenOff' \in BOOLEAN, managementFaults' \in 0..MaxManagementFaults,
         intents'[id] = entry => EntryOK(id)'
  PROVE  PositionInv'
<1>1. id \in DOMAIN intents /\ PositionTypes BY EntryTyped DEF PositionInv
<1>2. intents'[id] = entry BY <1>1 DEF PositionTypes
<1>3. handler' \in [Handlers -> Hands] /\ \A x \in Handlers : handler'[x] = handler[x]
  BY <1>1 DEF PositionTypes
<1> QED BY <1>1, <1>2, <1>3, EntryStep

(* A command written off after the EA has taken it is remembered as such.    *)
LEMMA WriteOffStep == ASSUME PositionInv, NEW id, WriteOff(id) PROVE PositionInv'
<1>1. Waiting(id) /\ Known(id) BY DEF WriteOff, Waiting
<1>2. /\ id \in DOMAIN intents /\ intents[id] \in Entries /\ EntryOK(id) /\ PositionTypes
  BY <1>1, EntryTyped DEF PositionInv
<1>3. PICK entry : entry = [intents[id] EXCEPT !.cmd = "rejected"] OBVIOUS
<1>4. /\ entry \in Entries /\ entry.status = intents[id].status /\ entry.cmd = "rejected"
      /\ entry.ea = intents[id].ea /\ entry.receipt = intents[id].receipt
      /\ entry.intent = intents[id].intent
  BY <1>2, <1>3 DEF Entries, Commands
<1>5. intents' = [intents EXCEPT ![id] = entry] BY <1>2, <1>3 DEF WriteOff, PositionTypes
<1>6. EntryKept(id, entry) BY <1>4 DEF EntryKept
<1>7. /\ UNCHANGED <<managed, account, bridge, handler, structure, manual, outrun,
                       managementFaults>>
      /\ writtenOff' = (writtenOff \/ intents[id].ea # "none")
  BY DEF WriteOff
<1>8. ASSUME intents'[id] = entry PROVE EntryOK(id)'
  <2>1. entry.status = "queued" BY <1>1, <1>4 DEF Waiting
  <2>2. ~Waiting(id)' BY <1>4, <1>8 DEF Waiting
  <2>3. DealBy(id)' <=> DealBy(id) BY <1>7 DEF DealBy
  <2>4. intents[id].ea = "none" => ~DealBy(id) BY <1>2 DEF EntryOK
  <2> QED BY <1>2, <1>4, <1>7, <1>8, <2>1, <2>2, <2>3, <2>4 DEF EntryOK
<1>9. /\ Onwards /\ writtenOff' \in BOOLEAN /\ managementFaults' \in 0..MaxManagementFaults
      /\ account' \in Accounts
  BY <1>2, <1>7 DEF Onwards, PositionTypes
<1> QED BY <1>1, <1>4, <1>5, <1>6, <1>7, <1>8, <1>9, CommandOnly

(* A delivered command is valid, so it is the reserved operation's.          *)
LEMMA DeliverStep == ASSUME PositionInv, NEW id, DeliverCommand(id) PROVE PositionInv'
<1>1. Waiting(id) /\ Known(id) /\ intents[id].ea # "taken" BY DEF DeliverCommand, Waiting
<1>2. /\ id \in DOMAIN intents /\ intents[id] \in Entries /\ EntryOK(id) /\ PositionTypes
  BY <1>1, EntryTyped DEF PositionInv
<1>3. PICK lost \in BOOLEAN :
        /\ lost => managementFaults < MaxManagementFaults
        /\ managementFaults' = managementFaults + IF lost THEN 1 ELSE 0
        /\ intents' = [intents EXCEPT ![id].cmd = "delivered",
             ![id].ea = IF lost THEN @ ELSE IF @ = "none" THEN "taken" ELSE "answered"]
  BY DEF DeliverCommand
<1> DEFINE ea == IF lost THEN intents[id].ea
                 ELSE IF intents[id].ea = "none" THEN "taken" ELSE "answered"
<1>4. PICK entry : entry = [intents[id] EXCEPT !.cmd = "delivered", !.ea = ea] OBVIOUS
<1>5. ea \in {"none", "taken", "answered", "done"} BY <1>2 DEF Entries
<1>6. intents' = [intents EXCEPT ![id] = entry] BY <1>2, <1>3, <1>4 DEF PositionTypes
<1>7. \/ ea = intents[id].ea
      \/ ea = "taken" /\ intents[id].ea = "none"
      \/ ea = "answered" /\ intents[id].ea \in {"answered", "done"}
  BY <1>1, <1>2 DEF Entries
<1> HIDE DEF ea
<1>8. /\ entry \in Entries /\ entry.status = intents[id].status /\ entry.cmd = "delivered"
      /\ entry.ea = ea /\ entry.receipt = intents[id].receipt
      /\ entry.intent = intents[id].intent
  BY <1>2, <1>4, <1>5 DEF Entries, Commands
<1>9. EntryKept(id, entry) BY <1>1, <1>8 DEF EntryKept, Over
<1>10. /\ UNCHANGED <<managed, account, bridge, handler, structure, manual, writtenOff, outrun>>
  BY DEF DeliverCommand
<1>11. ASSUME intents'[id] = entry PROVE EntryOK(id)'
  <2>1. entry.status = "queued" BY <1>1, <1>8 DEF Waiting
  <2>2. HeldBy(id) BY <1>1, <1>2 DEF EntryOK
  <2>3. (DealBy(id)' <=> DealBy(id)) /\ HeldBy(id)' BY <1>10, <2>2 DEF DealBy, HeldBy
  <2>4. /\ Fitting(id, entry.intent)
        /\ ea \in {"none", "taken"} => entry.receipt = "none"
        /\ ea \in {"answered", "done"} => entry.receipt # "none"
        /\ DealBy(id) => ea \in {"answered", "done"} /\ entry.receipt # "rejected"
    BY <1>2, <1>7, <1>8, <1>1 DEF EntryOK
  <2> QED BY <1>8, <1>11, <2>1, <2>3, <2>4 DEF EntryOK
<1>12. /\ Onwards /\ writtenOff' \in BOOLEAN /\ managementFaults' \in 0..MaxManagementFaults
       /\ account' \in Accounts
  <2>1. managementFaults \in 0..MaxManagementFaults /\ MaxManagementFaults \in Nat
    BY <1>2, ManagementAssumption DEF PositionTypes, ManagementAssumption
  <2>2. managementFaults' \in 0..MaxManagementFaults BY <1>3, <2>1
  <2> QED BY <1>2, <1>10, <2>2 DEF Onwards, PositionTypes
<1> QED BY <1>1, <1>6, <1>8, <1>9, <1>10, <1>11, <1>12, CommandOnly

(* A receipt settles an operation the EA has answered.                       *)
LEMMA AcknowledgeStep == ASSUME PositionInv, NEW id, Acknowledge(id) PROVE PositionInv'
<1>1. Known(id) /\ intents[id].ea = "answered" BY DEF Acknowledge
<1>2. /\ id \in DOMAIN intents /\ intents[id] \in Entries /\ EntryOK(id) /\ PositionTypes
  BY <1>1, EntryTyped DEF PositionInv
<1>3. PICK entry : entry = [intents[id] EXCEPT !.cmd = intents[id].receipt, !.status = "settled",
                                               !.ea = "done"]
  OBVIOUS
<1>4. /\ entry \in Entries /\ entry.status = "settled" /\ entry.cmd = intents[id].receipt
      /\ entry.ea = "done" /\ entry.receipt = intents[id].receipt
      /\ entry.intent = intents[id].intent
  BY <1>2, <1>3 DEF Entries, Commands, Receipts, Proposals
<1>5. intents' = [intents EXCEPT ![id] = entry] BY <1>2, <1>3 DEF Acknowledge, PositionTypes
<1>6. EntryKept(id, entry) BY <1>1, <1>2, <1>4 DEF EntryKept, EntryOK
<1>7. UNCHANGED <<managed, account, bridge, handler, structure, manual, writtenOff, outrun,
                  managementFaults>>
  BY DEF Acknowledge
<1>8. ASSUME intents'[id] = entry PROVE EntryOK(id)'
  <2>1. ~Waiting(id)' BY <1>4, <1>8 DEF Waiting
  <2>2. DealBy(id)' <=> DealBy(id) BY <1>7 DEF DealBy
  <2> QED BY <1>1, <1>2, <1>4, <1>8, <2>1, <2>2 DEF EntryOK
<1>9. /\ Onwards /\ writtenOff' \in BOOLEAN /\ managementFaults' \in 0..MaxManagementFaults
      /\ account' \in Accounts
  BY <1>2, <1>7 DEF Onwards, PositionTypes
<1> QED BY <1>1, <1>4, <1>5, <1>6, <1>7, <1>8, <1>9, CommandOnly

(* A lost receipt leaves the operation as it stands.                         *)
LEMMA ReceiptLostStep == ASSUME PositionInv, NEW id, ReceiptLost(id) PROVE PositionInv'
<1>1. Known(id) /\ intents[id].ea = "answered" BY DEF ReceiptLost
<1>2. /\ id \in DOMAIN intents /\ intents[id] \in Entries /\ EntryOK(id) /\ PositionTypes
  BY <1>1, EntryTyped DEF PositionInv
<1>3. PICK entry : entry = [intents[id] EXCEPT !.ea = "done"] OBVIOUS
<1>4. /\ entry \in Entries /\ entry.status = intents[id].status /\ entry.cmd = intents[id].cmd
      /\ entry.ea = "done" /\ entry.receipt = intents[id].receipt
      /\ entry.intent = intents[id].intent
  BY <1>2, <1>3 DEF Entries
<1>5. intents' = [intents EXCEPT ![id] = entry] BY <1>2, <1>3 DEF ReceiptLost, PositionTypes
<1>6. EntryKept(id, entry) BY <1>1, <1>2, <1>4 DEF EntryKept, Over, Waiting
<1>7. /\ UNCHANGED <<managed, account, bridge, handler, structure, manual, writtenOff, outrun>>
      /\ managementFaults < MaxManagementFaults /\ managementFaults' = managementFaults + 1
  BY DEF ReceiptLost
<1>8. ASSUME intents'[id] = entry PROVE EntryOK(id)'
  <2>1. Waiting(id)' => Waiting(id) BY <1>1, <1>4, <1>8 DEF Waiting
  <2>2. (DealBy(id)' <=> DealBy(id)) /\ (HeldBy(id)' <=> HeldBy(id)) BY <1>7 DEF DealBy, HeldBy
  <2> QED BY <1>1, <1>2, <1>4, <1>7, <1>8, <2>1, <2>2 DEF EntryOK
<1>9. /\ Onwards /\ writtenOff' \in BOOLEAN /\ managementFaults' \in 0..MaxManagementFaults
      /\ account' \in Accounts
  <2>1. managementFaults \in 0..MaxManagementFaults /\ MaxManagementFaults \in Nat
    BY <1>2, ManagementAssumption DEF PositionTypes, ManagementAssumption
  <2>2. managementFaults' \in 0..MaxManagementFaults BY <1>7, <2>1
  <2> QED BY <1>2, <1>7, <2>2 DEF Onwards, PositionTypes
<1> QED BY <1>1, <1>4, <1>5, <1>6, <1>7, <1>8, <1>9, CommandOnly

-----------------------------------------------------------------------------
(* Saves of the document. *)

(* A versioned save: the document becomes a copy that still follows from it, *)
(* and every other copy is out of date.                                      *)
LEMMA SaveStep ==
  ASSUME PositionInv, NEW h \in Handlers, NEW doc \in Docs, NEW next \in Hands,
         Saved(h, doc, next),
         UNCHANGED <<intents, account, bridge, structure, manual, writtenOff, outrun,
                     managementFaults>>,
         DocOK(doc), writtenOff \/ Kept(doc), doc.remaining <= managed.remaining,
         \/ doc.pending = managed.pending \/ managed.pending = NoId
         \/ Over(managed.pending) \/ doc.remaining = 0,
         doc.pending = managed'.pending => HandOK(next)'
  PROVE  PositionInv'
<1>1. PositionTypes /\ AccountOK /\ ExitsNotRepeated BY DEF PositionInv
<1>2. PICK new : new = [doc EXCEPT !.intent = NoIntent] OBVIOUS
<1>3. managed' = IF doc.pending = NoId THEN new ELSE doc BY <1>2 DEF Saved, NoId
<1>4. /\ new \in Docs /\ new.pending = doc.pending /\ new.closed = doc.closed
      /\ new.remaining = doc.remaining /\ new.seen = doc.seen /\ new.state = doc.state
  <2>1. NoIntent \in Intents BY NothingTyped
  <2> QED BY <1>2, <2>1 DEF Docs, DocsIn
<1>5. /\ managed' \in Docs /\ managed'.pending = doc.pending /\ managed'.closed = doc.closed
      /\ managed'.remaining = doc.remaining /\ managed'.seen = doc.seen
      /\ managed'.state = doc.state
      /\ doc.pending # NoId => managed' = doc
  BY <1>3, <1>4
<1>6. ManagedOK'
  <2>1. DocOK(managed)'
    <3>1. IntentFits(doc) /\ Books(doc, account.deals) /\ Stopped(doc) /\ FilledBy(doc)
      BY DEF DocOK
    <3>2. IntentFits(managed)' BY <1>5, <3>1 DEF IntentFits
    <3>3. Books(managed, account.deals)' BY <1>5, <3>1 DEF Books
    <3>4. Stopped(managed)' BY <1>5, <3>1 DEF Stopped
    <3>5. FilledBy(managed)' BY <1>5, <3>1 DEF FilledBy, DealBy
    <3> QED BY <3>2, <3>3, <3>4, <3>5 DEF DocOK
  <2>2. writtenOff' \/ Kept(managed)' BY <1>5 DEF Kept
  <2> QED BY <2>1, <2>2 DEF ManagedOK
<1>7. AccountOK' BY <1>1 DEF AccountOK, Known
<1>8. Onwards /\ Evolves BY DEF Onwards, Evolves, Known, Refused, Over, Waiting
<1>9. ASSUME NEW id, id # NoId, HeldBy(id), ~Over(id) PROVE HeldBy(id)'
  <2>1. managed.remaining \in Nat /\ doc.remaining \in Nat BY <1>1 DEF PositionTypes, Docs, DocsIn
  <2>2. CASE managed.remaining = 0
    <3>1. doc.remaining = 0 BY <2>1, <2>2
    <3> QED BY <1>5, <3>1 DEF HeldBy
  <2>3. CASE managed.pending = id BY <1>5, <1>9, <2>3 DEF HeldBy
  <2> QED BY <1>9, <2>2, <2>3 DEF HeldBy
<1>10. ASSUME NEW id \in DOMAIN intents' PROVE EntryOK(id)'
  <2>1. id \in DOMAIN intents /\ EntryOK(id) /\ id # NoId
    BY <1>1, <1>10, NothingTyped DEF PositionInv, PositionTypes
  <2>2. intents[id].status = "pending" \/ Waiting(id) => ~Over(id) BY DEF Over
  <2>3. intents[id].status = "pending" \/ Waiting(id) => HeldBy(id)'
    BY <1>9, <2>1, <2>2 DEF EntryOK
  <2>4. (Waiting(id)' <=> Waiting(id)) /\ (DealBy(id)' <=> DealBy(id))
    BY DEF Waiting, Known, DealBy
  <2> QED BY <2>1, <2>3, <2>4 DEF EntryOK
<1>11. ASSUME NEW me \in Hands, HandOK(me), NEW you \in Hands, you = [me EXCEPT !.fresh = FALSE]
       PROVE  HandOK(you)'
  <2>1. /\ you.pc = me.pc /\ you.snap = me.snap /\ you.doc = me.doc /\ you.id = me.id
        /\ you.cmd = me.cmd /\ you.fresh = FALSE
    BY <1>11 DEF Hands
  <2>2. Standing(me) /\ Commanded(me) /\ DocOK(me.doc) BY <1>11 DEF HandOK
  <2>3. Standing(you)'
    <3>1. me.pc = "propose" /\ ~Known(me.id) => HeldBy(me.id)'
      <4> SUFFICES ASSUME me.pc = "propose", ~Known(me.id) PROVE HeldBy(me.id)' OBVIOUS
      <4>1. me.id # NoId /\ HeldBy(me.id) /\ ~Over(me.id) BY <2>2 DEF Standing, Over
      <4> QED BY <1>9, <4>1
    <3> QED BY <2>1, <2>2, <3>1 DEF Standing, Known
  <2>4. Commanded(you)' BY <2>1, <2>2 DEF Commanded, Known, Over, Waiting, DealBy
  <2>5. DocOK(you.doc)'
    BY <2>1, <2>2 DEF DocOK, IntentFits, Books, Stopped, FilledBy, DealBy
  <2> QED BY <2>1, <2>3, <2>4, <2>5 DEF HandOK
<1>12. ASSUME NEW x \in Handlers PROVE handler'[x] \in Hands /\ HandOK(handler[x])'
  <2>1. handler'[x] = IF x = h THEN next ELSE [handler[x] EXCEPT !.fresh = FALSE] BY DEF Saved
  <2>2. CASE x = h BY <1>5, <2>1, <2>2
  <2>3. CASE x # h
    <3>1. PICK me \in Hands : me = handler[x] /\ HandOK(me) BY HandTyped
    <3>2. PICK you : you = [me EXCEPT !.fresh = FALSE] OBVIOUS
    <3>3. you \in Hands BY <3>2 DEF Hands
    <3>4. HandOK(you)' /\ handler'[x] = you BY <1>11, <2>1, <2>3, <3>1, <3>2, <3>3
    <3> QED BY <3>3, <3>4
  <2> QED BY <2>2, <2>3
<1>13. handler' \in [Handlers -> Hands] BY <1>12 DEF Saved
<1>14. PositionTypes' BY <1>1, <1>5, <1>13 DEF PositionTypes
<1>15. ExitsNotRepeated' BY <1>1, <1>8, SalesAbide DEF PositionTypes
<1> QED BY <1>6, <1>7, <1>10, <1>12, <1>14, <1>15 DEF PositionInv

(* What the plan's exits left in the books stays there while no exit is      *)
(* under way.                                                                *)
LEMMA KeptUnreserved ==
  ASSUME PositionInv, ~writtenOff, managed.pending = NoId \/ Refused(managed.pending),
         NEW doc, doc.closed = managed.closed, doc.remaining = managed.remaining
  PROVE  Kept(doc)
<1> SUFFICES ASSUME NEW n \in 1..Len(account.deals), account.deals[n].by # NoId,
                    account.deals[n].by[1] = "tp", doc.remaining # 0,
                    doc.closed[account.deals[n].by[2]] = 0
             PROVE  FALSE
  BY DEF Kept
<1> DEFINE by == account.deals[n].by
<1>1. Kept(managed) BY DEF PositionInv, ManagedOK
<1>2. managed.pending = by BY <1>1 DEF Kept
<1>3. Refused(by) BY <1>2
<1>4. EntryOK(by) BY <1>3, EntryTyped DEF Refused
<1>5. DealBy(by) BY DEF DealBy
<1> QED BY <1>3, <1>4, <1>5 DEF Refused, EntryOK

(* A save of a fresh judged copy keeps the deals counted; a stale one is dropped. *)
LEMMA StoreStep == ASSUME PositionInv, NEW h \in Handlers, Store(h) PROVE PositionInv'
<1>1. PICK me \in Hands : me = handler[h] /\ HandOK(me) BY HandTyped
<1>2. me.pc = "store" BY <1>1 DEF Store, Stands
<1>3. UNCHANGED <<intents, account, bridge, structure, manual, writtenOff, outrun,
                  managementFaults>>
  BY DEF Store
<1>4. CASE ~me.fresh
  <2>1. Ends(h) /\ UNCHANGED managed BY <1>1, <1>4 DEF Store
  <2> QED BY <1>3, <2>1, HandTyped, EndStep
<1>5. CASE me.fresh
  <2>1. PICK next : next = [NobodyHandles EXCEPT !.pc =
                              IF me.doc.state \in Halted THEN "idle" ELSE "advance"]
    OBVIOUS
  <2>2. Saved(h, me.doc, next) BY <1>1, <1>5, <2>1 DEF Store
  <2>3. /\ next \in Hands /\ next.pc \in {"idle", "advance"} /\ next.fresh = FALSE
        /\ next.doc = Unmanaged
    <3>1. NobodyHandles \in Hands BY NothingTyped
    <3>2. NobodyHandles.fresh = FALSE /\ NobodyHandles.doc = Unmanaged BY DEF NobodyHandles
    <3> QED BY <2>1, <3>1, <3>2 DEF Hands, Points
  <2>4. HandOK(next)'
    <3>1. HandOK(NobodyHandles) BY HandTyped, NobodyOK
    <3>2. DocOK(Unmanaged) BY <3>1 DEF HandOK, NobodyHandles
    <3>3. Unmanaged.pending = NoId BY NothingTyped
    <3>4. DocOK(next.doc)'
      BY <1>3, <2>3, <3>2, <3>3 DEF DocOK, IntentFits, Books, Stopped, FilledBy
    <3>5. Standing(next)' /\ Commanded(next)' BY <2>3 DEF Standing, Commanded, Looking
    <3> QED BY <2>3, <3>4, <3>5 DEF HandOK
  <2>5. Follows(me) /\ DocOK(me.doc)
    BY <1>1, <1>2, <1>5 DEF HandOK, Fresh, Judging
  <2>6. \/ me.doc.pending = managed.pending \/ managed.pending = NoId
        \/ Over(managed.pending) \/ me.doc.remaining = 0
    BY <1>2, <2>5 DEF Follows
  <2>7. me.doc.remaining <= managed.remaining /\ (writtenOff \/ Kept(me.doc))
    BY <2>5 DEF Follows
  <2>8. me.doc \in Docs BY DEF Hands
  <2> QED BY <1>3, <2>2, <2>3, <2>4, <2>5, <2>6, <2>7, <2>8, SaveStep
<1> QED BY <1>4, <1>5

(* A reservation is saved only over a document with nothing under way.       *)
LEMMA SaveReservationStep ==
  ASSUME PositionInv, NEW h \in Handlers, SaveReservation(h) PROVE PositionInv'
<1>1. PICK me \in Hands : me = handler[h] /\ HandOK(me) BY HandTyped
<1>2. me.pc = "reserve" BY <1>1 DEF SaveReservation, Stands
<1>3. UNCHANGED <<intents, account, bridge, structure, manual, writtenOff, outrun,
                  managementFaults>>
  BY DEF SaveReservation
<1>4. CASE ~me.fresh
  <2>1. Ends(h) /\ UNCHANGED managed BY <1>1, <1>4 DEF SaveReservation
  <2> QED BY <1>3, <2>1, HandTyped, EndStep
<1>5. CASE me.fresh
  <2>1. PICK next : next = [me EXCEPT !.pc = "propose"] OBVIOUS
  <2>2. Saved(h, me.doc, next) BY <1>1, <1>5, <2>1 DEF SaveReservation
  <2>3. next \in Hands /\ next.pc = "propose" /\ next.id = me.id /\ next.doc = me.doc
    BY <2>1 DEF Hands, Points
  <2>4. Reserving(me) /\ DocOK(me.doc) /\ me.id # NoId /\ me.doc.pending = me.id
    BY <1>1, <1>2, <1>5 DEF HandOK, Fresh, Standing
  <2>5. ASSUME me.doc.pending = managed'.pending PROVE HandOK(next)'
    <3>1. HeldBy(me.id)' BY <2>4, <2>5 DEF HeldBy
    <3>2. Standing(next)' /\ Commanded(next)' /\ Fresh(next)'
      BY <2>3, <2>4, <3>1 DEF Standing, Commanded, Fresh, Looking, Judging
    <3>3. DocOK(next.doc)'
      BY <1>3, <2>3, <2>4 DEF DocOK, IntentFits, Books, Stopped, FilledBy, DealBy
    <3> QED BY <3>2, <3>3 DEF HandOK
  <2>6. me.doc \in Docs /\ managed \in Docs BY HandTyped DEF Hands
  <2>7. me.doc.closed = managed.closed /\ me.doc.remaining = managed.remaining
    BY <2>4 DEF Reserving, SameBooks
  <2>8. me.doc.remaining <= managed.remaining BY <2>6, <2>7 DEF Docs, DocsIn
  <2>9. managed.pending = NoId \/ Refused(managed.pending) BY <2>4 DEF Reserving
  <2>10. writtenOff \/ Kept(me.doc) BY <2>7, <2>9, KeptUnreserved
  <2>11. managed.pending = NoId \/ Over(managed.pending) BY <2>9 DEF Refused, Over, Waiting
  <2> QED BY <1>3, <2>2, <2>3, <2>4, <2>5, <2>6, <2>8, <2>10, <2>11, SaveStep
<1> QED BY <1>4, <1>5

(* A pause gives up only an operation that was rejected or has expired.      *)
LEMMA SavePauseStep ==
  ASSUME PositionInv, NEW h \in Handlers, SavePause(h) PROVE PositionInv'
<1>1. PICK me \in Hands : me = handler[h] /\ HandOK(me) BY HandTyped
<1>2. me.pc = "pause" BY <1>1 DEF SavePause, Stands
<1>3. UNCHANGED <<intents, account, bridge, structure, manual, writtenOff, outrun,
                  managementFaults>>
  BY DEF SavePause
<1>4. CASE ~me.fresh
  <2>1. Ends(h) /\ UNCHANGED managed BY <1>1, <1>4 DEF SavePause
  <2> QED BY <1>3, <2>1, HandTyped, EndStep
<1>5. CASE me.fresh
  <2>1. PICK next \in Hands : next = NobodyHandles /\ HandOK(next)
    BY HandTyped, NobodyOK, NothingTyped
  <2>2. Saved(h, me.doc, next) BY <1>1, <1>5, <2>1 DEF SavePause
  <2>3. Pausing(me) /\ DocOK(me.doc) BY <1>1, <1>2, <1>5 DEF HandOK, Fresh
  <2>4. HandOK(next)'
    <3>1. next.pc = "idle" /\ next.fresh = FALSE /\ next.doc = Unmanaged
      BY <2>1 DEF NobodyHandles
    <3>2. Standing(next)' /\ Commanded(next)' BY <3>1 DEF Standing, Commanded, Looking
    <3>3. Unmanaged.pending = NoId BY NothingTyped
    <3>4. DocOK(next.doc)'
      BY <1>3, <2>1, <3>1, <3>3 DEF HandOK, DocOK, IntentFits, Books, Stopped, FilledBy
    <3> QED BY <3>1, <3>2, <3>4 DEF HandOK
  <2>5. me.doc \in Docs /\ managed \in Docs BY HandTyped DEF Hands
  <2>6. me.doc.closed = managed.closed /\ me.doc.remaining = managed.remaining
    BY <2>3, <2>5 DEF Pausing, Docs, DocsIn
  <2>7. me.doc.remaining <= managed.remaining BY <2>5, <2>6 DEF Docs, DocsIn
  <2>8. Refused(managed.pending) BY <2>3 DEF Pausing
  <2>9. writtenOff \/ Kept(me.doc) BY <2>6, <2>8, KeptUnreserved
  <2>10. Over(managed.pending) BY <2>8 DEF Refused, Over, Waiting
  <2> QED BY <1>3, <2>2, <2>3, <2>4, <2>5, <2>7, <2>9, <2>10, SaveStep
<1> QED BY <1>4, <1>5

-----------------------------------------------------------------------------
(* What a handler decides to do next with the document as it stands. *)

(* A handler takes the document up, or lets go of it: what it then holds has *)
(* to be justified only with what the step makes of the rest.                *)
LEMMA HoldStep ==
  ASSUME PositionInv, NEW h \in Handlers, NEW me \in Hands, me = handler[h],
         NEW doc \in Docs, NEW id \in Ids, NEW pc \in Points, Hold(h, doc, id, pc),
         UNCHANGED <<managed, intents, account, bridge, structure, writtenOff, managementFaults>>,
         outrun' \in BOOLEAN, outrun => outrun', manual' \in 0..MaxManual, DocOK(doc)',
         \A next \in Hands :
           /\ next.pc = pc /\ next.doc = doc /\ next.id = id /\ next.fresh
           => Standing(next)' /\ Commanded(next)' /\ Fresh(next)'
  PROVE  PositionInv'
<1>1. PICK next : next = [me EXCEPT !.pc = pc, !.doc = doc, !.id = id, !.fresh = TRUE] OBVIOUS
<1>2. next \in Hands /\ next.pc = pc /\ next.doc = doc /\ next.id = id /\ next.fresh = TRUE
  BY <1>1 DEF Hands
<1>3. handler' = [handler EXCEPT ![h] = next]
  <2>1. handler' = [handler EXCEPT ![h].pc = pc, ![h].doc = doc, ![h].id = id, ![h].fresh = TRUE]
    BY DEF Hold
  <2> QED BY <1>1, <2>1, HandTyped
<1>4. HandOK(next)'
  <2>1. Standing(next)' /\ Commanded(next)' /\ Fresh(next)' BY <1>2
  <2>2. DocOK(next.doc)' BY <1>2
  <2> QED BY <2>1, <2>2 DEF HandOK
<1>5. bridge' \in Accounts /\ structure' \in 0..MaxStop
      /\ managementFaults' \in 0..MaxManagementFaults
  BY HandTyped
<1> QED BY <1>2, <1>3, <1>4, <1>5, HandStep

(* What may be reserved is typed, and a reservation made from the document   *)
(* as it stands carries its books.                                           *)
ReservedFor(id, intent, state) ==
  [managed EXCEPT !.pending = id, !.intent = intent, !.state = state]
LEMMA ReservationOK ==
  ASSUME PositionInv, NEW h \in Handlers, NEW me \in Hands, me = handler[h],
         NEW id \in Ids, NEW intent \in Intents, NEW state \in DocStates,
         Reserve(h, id, intent, state), Fitting(id, intent),
         UNCHANGED <<managed, intents, account, bridge, structure, writtenOff, managementFaults>>,
         outrun' \in BOOLEAN, outrun => outrun', manual' \in 0..MaxManual,
         state \in Failed => outrun',
         id[1] = "tp" => managed.closed[id[2]] = 0,
         managed.state = "POSITION_CLOSED" => outrun' /\ state = "POSITION_CLOSED",
         managed.state \in Halted => outrun' \/ id[1] = "manual",
         managed.pending = NoId \/ Refused(managed.pending)
  PROVE  PositionInv'
<1>1. managed \in Docs /\ account \in Accounts /\ DocOK(managed)
  BY HandTyped DEF PositionInv, ManagedOK
<1>2. PICK doc : doc = ReservedFor(id, intent, state) OBVIOUS
<1>3. /\ doc \in Docs /\ doc.pending = id /\ doc.intent = intent /\ doc.state = state
      /\ doc.closed = managed.closed /\ doc.remaining = managed.remaining /\ doc.sl = managed.sl
      /\ doc.seen = managed.seen /\ doc.done = managed.done /\ doc.edition = managed.edition
  BY <1>1, <1>2 DEF ReservedFor, Docs, DocsIn
<1>4. id # NoId BY NothingTyped
<1>5. DocOK(doc)'
  <2>1. IntentFits(doc)' BY <1>3 DEF IntentFits
  <2>2. Books(doc, account.deals)' BY <1>1, <1>3 DEF DocOK, Books
  <2>3. Stopped(doc)' BY <1>3 DEF Stopped
  <2>4. FilledBy(doc)' BY <1>3 DEF FilledBy
  <2> QED BY <2>1, <2>2, <2>3, <2>4 DEF DocOK
<1>6. Refused(managed.pending) => Refused(managed.pending)' BY DEF Refused, Known
<1>7. ASSUME NEW next \in Hands, next.pc = "reserve", next.doc = doc, next.id = id, next.fresh
      PROVE  Standing(next)' /\ Commanded(next)' /\ Fresh(next)'
  <2>1. Standing(next)' /\ Commanded(next)'
    BY <1>3, <1>4, <1>7 DEF Standing, Commanded, Looking
  <2>2. SameBooks(next.doc, managed)' BY <1>3, <1>7 DEF SameBooks
  <2>3. Reserving(next)' BY <1>3, <1>6, <1>7, <2>2 DEF Reserving
  <2> QED BY <1>7, <2>1, <2>3 DEF Fresh, Judging
<1>8. Hold(h, doc, id, "reserve") /\ "reserve" \in Points
  BY <1>2 DEF Reserve, ReservedFor, Points
<1> QED BY <1>3, <1>5, <1>7, <1>8, HoldStep

(* A heartbeat goes on from the document it reads again, halted or not.      *)
LEMMA AdvanceStep == ASSUME PositionInv, NEW h \in Handlers, Advance(h) PROVE PositionInv'
<1>1. PICK me \in Hands : me = handler[h] /\ HandOK(me) BY HandTyped
<1>2. UNCHANGED <<managed, intents, account, bridge, structure, manual, writtenOff,
                  managementFaults>>
  BY DEF Advance
<1>3. /\ managed \in Docs /\ account \in Accounts /\ structure \in 0..MaxStop
      /\ manual' \in 0..MaxManual /\ outrun \in BOOLEAN /\ MaxStop \in Nat
      /\ DocOK(managed)
  BY <1>2, HandTyped, ManagementAssumption DEF PositionInv, ManagedOK, ManagementAssumption
<1>4. PICK id : id = managed.pending OBVIOUS
<1>5. id \in Ids \cup {NoId} /\ managed.state \in DocStates BY <1>3, <1>4 DEF Docs, DocsIn
<1>6. CASE Ends(h) /\ UNCHANGED outrun BY <1>2, <1>6, HandTyped, EndStep
<1>7. ASSUME outrun' = (outrun \/ managed.state \in Halted)
      PROVE  outrun' \in BOOLEAN /\ (outrun => outrun') /\ (managed.state \in Halted => outrun')
  BY <1>3, <1>7
<1>8. CASE /\ outrun' = (outrun \/ managed.state \in Halted)
           /\ id # NoId /\ ~Known(id) /\ Hold(h, managed, id, "propose")
  <2>1. DocOK(managed)'
    BY <1>2, <1>3, <1>7, <1>8 DEF DocOK, IntentFits, Books, Stopped, FilledBy, DealBy
  <2>2. ASSUME NEW next \in Hands, next.pc = "propose", next.doc = managed, next.id = id, next.fresh
        PROVE  Standing(next)' /\ Commanded(next)' /\ Fresh(next)'
    BY <1>2, <1>4, <1>8, <2>2
       DEF Standing, Commanded, Fresh, Looking, Judging, HeldBy
  <2>3. "propose" \in Points /\ id \in Ids BY <1>5, <1>8 DEF Points
  <2>4. PICK doc : doc = managed OBVIOUS
  <2>5. doc \in Docs /\ Hold(h, doc, id, "propose") /\ DocOK(doc)' BY <1>2, <1>3, <1>8, <2>1, <2>4
  <2> QED BY <1>1, <1>2, <1>3, <1>7, <1>8, <2>2, <2>3, <2>4, <2>5, HoldStep
<1>9. CASE /\ outrun' = (outrun \/ managed.state \in Halted)
           /\ id # NoId /\ Known(id) /\ Hold(h, Unmanaged, id, "approve")
  <2>1. HandOK(NobodyHandles) /\ Unmanaged \in Docs BY <1>3, NobodyOK, NothingTyped
  <2>2. Unmanaged.pending = NoId /\ DocOK(Unmanaged)
    BY <2>1, NothingTyped DEF HandOK, NobodyHandles
  <2>3. DocOK(Unmanaged)'
    BY <1>2, <2>2 DEF DocOK, IntentFits, Books, Stopped, FilledBy
  <2>4. ASSUME NEW next \in Hands, next.pc = "approve", next.doc = Unmanaged, next.id = id,
               next.fresh
        PROVE  Standing(next)' /\ Commanded(next)' /\ Fresh(next)'
    BY <1>2, <1>9, <2>4 DEF Standing, Commanded, Fresh, Looking, Judging, Known
  <2>5. "approve" \in Points /\ id \in Ids BY <1>5, <1>9 DEF Points
  <2>6. PICK doc : doc = Unmanaged OBVIOUS
  <2>7. doc \in Docs /\ Hold(h, doc, id, "approve") /\ DocOK(doc)' BY <1>9, <2>1, <2>3, <2>6
  <2> QED BY <1>1, <1>2, <1>3, <1>7, <1>9, <2>4, <2>5, <2>6, <2>7, HoldStep
<1>10. CASE /\ outrun' = (outrun \/ managed.state \in Halted)
            /\ id # NoId /\ Refused(id)
            /\ Hold(h, [managed EXCEPT !.pending = NoId, !.state = "MANAGEMENT_PAUSED"], id,
                     "pause")
  <2>1. PICK doc : doc = [managed EXCEPT !.pending = NoId, !.state = "MANAGEMENT_PAUSED"] OBVIOUS
  <2>2. /\ doc \in Docs /\ doc.pending = NoId /\ doc.closed = managed.closed
        /\ doc.remaining = managed.remaining /\ doc.seen = managed.seen
    BY <1>3, <2>1 DEF Docs, DocsIn, DocStates, Halted
  <2>3. DocOK(doc)' BY <1>2, <1>3, <2>2 DEF DocOK, IntentFits, Books, Stopped, FilledBy
  <2>4. Refused(managed.pending)' BY <1>2, <1>4, <1>10 DEF Refused, Known
  <2>5. ASSUME NEW next \in Hands, next.pc = "pause", next.doc = doc, next.id = id, next.fresh
        PROVE  Standing(next)' /\ Commanded(next)' /\ Fresh(next)'
    <3>1. Standing(next)' /\ Commanded(next)' BY <2>5 DEF Standing, Commanded, Looking
    <3>2. Pausing(next)' BY <1>2, <1>7, <1>10, <2>1, <2>4, <2>5 DEF Pausing
    <3> QED BY <2>5, <3>1, <3>2 DEF Fresh, Judging
  <2>6. "pause" \in Points /\ id \in Ids /\ Hold(h, doc, id, "pause")
    BY <1>5, <1>10, <2>1 DEF Points
  <2> QED BY <1>1, <1>2, <1>3, <1>7, <1>10, <2>2, <2>3, <2>5, <2>6, HoldStep
<1>11. ASSUME NEW target \in 0..FinalTarget, NEW volume \in Nat, NEW level \in Nat,
              NEW op \in {"partial_close", "sl"}
       PROVE  [op |-> op, target |-> target, volume |-> volume, expected |-> managed.remaining,
               plan |-> Digest(managed), level |-> level, auto |-> Automatic] \in Intents
  <2>1. Digest(managed) \in Seq(Nat) BY <1>3, DigestTyped
  <2>2. managed.remaining \in Nat /\ Automatic \in BOOLEAN /\ target \in 0..Len(Alloc)
    BY <1>3, ManagementAssumption DEF Docs, DocsIn, ManagementAssumption, FinalTarget
  <2> HIDE DEF Digest
  <2> QED BY <2>1, <2>2 DEF Intents
<1>12. CASE /\ outrun' = (outrun \/ managed.state \in Halted)
            /\ id = NoId /\ MayProtect(managed)
            /\ Reserve(h, <<"stop", structure, <<structure>>>>, Protect(managed, structure),
                       managed.state)
  <2>1. PICK new : new = <<"stop", structure, <<structure>>>> OBVIOUS
  <2>2. structure \in Nat /\ <<structure>> \in Seq(Nat) /\ "stop" \in {"tp", "stop", "manual"}
    BY <1>3
  <2>3. new \in Ids /\ new[1] = "stop" BY <2>1, <2>2, IdIs
  <2>4. PICK intent : intent = Protect(managed, structure) OBVIOUS
  <2>5. structure \in 1..MaxStop
    <3>1. structure > managed.sl /\ managed.sl \in Nat BY <1>3, <1>12 DEF MayProtect, Docs, DocsIn
    <3> QED BY <1>3, <3>1
  <2>6. intent.op = "sl" /\ intent.target = 0 /\ intent.level = structure
    BY <2>4 DEF Protect
  <2>7. intent \in Intents
    <3>1. 0 \in 0..FinalTarget /\ 0 \in Nat BY AllocFacts
    <3>2. intent = [op |-> "sl", target |-> 0, volume |-> 0, expected |-> managed.remaining,
                    plan |-> Digest(managed), level |-> structure, auto |-> Automatic]
      BY <2>4 DEF Protect
    <3> HIDE DEF Digest, FinalTarget
    <3> QED BY <1>11, <2>2, <3>1, <3>2
  <2>8. Fitting(new, intent) BY <1>3, <2>3, <2>5, <2>6 DEF Fitting
  <2>9. PICK state : state = managed.state OBVIOUS
  <2>10. Reserve(h, new, intent, state) /\ state \in DocStates
    BY <1>5, <1>12, <2>1, <2>4, <2>9
  <2>11. Failed \subseteq Halted /\ "POSITION_CLOSED" \in Halted BY DEF Failed, Halted
  <2> QED BY <1>1, <1>2, <1>3, <1>4, <1>7, <1>12, <2>3, <2>7, <2>8, <2>9, <2>10, <2>11,
             ReservationOK
<1>13. CASE /\ outrun' = (outrun \/ managed.state \in Halted)
            /\ id = NoId
            /\ \E t \in NextTarget(managed) \ {FinalTarget} :
                 Reserve(h, <<"tp", t, Digest(managed)>>, Partial(managed, t),
                               "TARGET_PENDING")
  <2>1. PICK t \in NextTarget(managed) \ {FinalTarget} :
          Reserve(h, <<"tp", t, Digest(managed)>>, Partial(managed, t),
                               "TARGET_PENDING")
    BY <1>13
  <2>2. t \in Targets \ {FinalTarget} /\ managed.closed[t] = 0 /\ managed.state # "POSITION_CLOSED"
    BY <2>1 DEF NextTarget, Untouched
  <2>3. t \in Nat /\ t \in 0..FinalTarget /\ Alloc[t] \in Nat BY <2>2, AllocFacts
  <2>4. PICK new : new = <<"tp", t, Digest(managed)>> OBVIOUS
  <2>5. Digest(managed) \in Seq(Nat) BY <1>3, DigestTyped
  <2>6. new \in Ids /\ new[1] = "tp" /\ new[2] = t
    <3> HIDE DEF Digest
    <3> QED BY <2>3, <2>4, <2>5, IdIs
  <2>7. PICK intent : intent = Partial(managed, t) OBVIOUS
  <2>8. intent.op = "partial_close" /\ intent.target = t /\ intent.volume = Alloc[t]
    BY <2>7 DEF Partial
  <2>9. intent \in Intents BY <1>11, <2>3, <2>7 DEF Partial
  <2>10. Fitting(new, intent) BY <2>2, <2>6, <2>8 DEF Fitting
  <2>11. Reserve(h, new, intent, "TARGET_PENDING") /\ "TARGET_PENDING" \in DocStates
         /\ "TARGET_PENDING" \notin Failed
    BY <2>1, <2>4, <2>7 DEF DocStates, Failed
  <2> QED BY <1>1, <1>2, <1>3, <1>4, <1>7, <1>13, <2>2, <2>6, <2>9, <2>10, <2>11, ReservationOK
<1> QED
  <2>1. \/ Ends(h) /\ UNCHANGED outrun
        \/ /\ outrun' = (outrun \/ managed.state \in Halted)
           /\ \/ id # NoId /\ ~Known(id) /\ Hold(h, managed, id, "propose")
              \/ id # NoId /\ Known(id) /\ Hold(h, Unmanaged, id, "approve")
              \/ /\ id # NoId /\ Refused(id)
                 /\ Hold(h, [managed EXCEPT !.pending = NoId, !.state = "MANAGEMENT_PAUSED"], id,
                         "pause")
              \/ /\ id = NoId /\ MayProtect(managed)
                 /\ Reserve(h, <<"stop", structure, <<structure>>>>, Protect(managed, structure),
                            managed.state)
              \/ /\ id = NoId
                 /\ \E t \in NextTarget(managed) \ {FinalTarget} :
                      Reserve(h, <<"tp", t, Digest(managed)>>, Partial(managed, t),
                               "TARGET_PENDING")
    BY <1>4 DEF Advance, NoId, Refused
  <2> QED BY <1>6, <1>8, <1>9, <1>10, <1>12, <1>13, <2>1

(* The operator's own operation is reserved from the document as it stands.  *)
LEMMA ManualProposalStep ==
  ASSUME PositionInv, NEW h \in Handlers, ManualProposal(h) PROVE PositionInv'
<1>1. PICK me \in Hands : me = handler[h] /\ HandOK(me) BY HandTyped
<1>2. UNCHANGED <<managed, intents, account, bridge, structure, writtenOff, outrun,
                  managementFaults>>
  BY DEF ManualProposal
<1>3. /\ managed \in Docs /\ manual \in 0..MaxManual /\ outrun' \in BOOLEAN /\ MaxManual \in Nat
      /\ MaxStop \in Nat /\ ManualOps \subseteq {"sl", "close", "modify_targets"}
  BY <1>2, HandTyped, ManagementAssumption DEF ManagementAssumption
<1>4. manual < MaxManual /\ manual' = manual + 1 /\ managed.state \notin {"none", "POSITION_CLOSED"}
      /\ Free(managed)
  BY DEF ManualProposal
<1>5. manual' \in 0..MaxManual BY <1>3, <1>4
<1>6. PICK doc : doc = [managed EXCEPT !.state =
                          IF @ \in {"MANAGEMENT_FAILED", "MANAGEMENT_PAUSED"} THEN "OPEN" ELSE @]
  OBVIOUS
<1>7. doc \in Docs /\ doc.state \in DocStates \ Failed /\ doc.remaining \in Nat
  BY <1>3, <1>6 DEF Docs, DocsIn, DocStates, Failed
<1>8. PICK op \in ManualOps, level \in 0..MaxStop :
        Reserve(h, <<"manual", manual, <<>>>>,
                [op |-> op, target |-> 0, volume |-> 0, expected |-> doc.remaining,
                 plan |-> Digest(doc), level |-> level, auto |-> FALSE], doc.state)
  BY <1>6 DEF ManualProposal
<1>9. PICK plan : plan = Digest(doc) OBVIOUS
<1>10. plan \in Seq(Nat) BY <1>7, <1>9, DigestTyped
<1>11. PICK id : id = <<"manual", manual, <<>>>> OBVIOUS
<1>12. id \in Ids /\ id[1] = "manual"
  <2>1. manual \in Nat /\ <<>> \in Seq(Nat) BY <1>3
  <2> QED BY <1>11, <2>1, IdIs
<1>13. PICK intent : intent = [op |-> op, target |-> 0, volume |-> 0, expected |-> doc.remaining,
                               plan |-> plan, level |-> level, auto |-> FALSE]
  OBVIOUS
<1>14. 0 \in 0..Len(Alloc) BY AllocFacts DEF FinalTarget
<1>15. intent \in Intents /\ intent.op = op /\ intent.target = 0 /\ intent.level = level
  BY <1>3, <1>7, <1>10, <1>13, <1>14 DEF Intents
<1>16. Fitting(id, intent) BY <1>12, <1>15 DEF Fitting
<1>17. PICK state : state = doc.state OBVIOUS
<1>18. Reserve(h, id, intent, state) BY <1>8, <1>9, <1>11, <1>13, <1>17
<1>19. managed.pending = NoId \/ Refused(managed.pending)
  BY <1>4 DEF Free, Refused, NoId
<1> QED BY <1>1, <1>2, <1>3, <1>4, <1>5, <1>7, <1>12, <1>15, <1>16, <1>17, <1>18, <1>19,
           ReservationOK

-----------------------------------------------------------------------------
(* The broker's deals. *)

(* What one more deal adds to what the commands sold for a target.           *)
LEMMA SoldGrows ==
  ASSUME PositionTypes, AccountOK, Evolves, DOMAIN intents' \subseteq Ids, NEW t,
         NEW deal \in Deals, account'.deals = Append(account.deals, deal)
  PROVE  /\ SoldFor(t) \in Nat
         /\ SoldFor(t)' = SoldFor(t) +
              IF Known(deal.by)' /\ intents'[deal.by].intent.target = t THEN deal.volume ELSE 0
<1> DEFINE L == Len(account.deals)
           By(by) == Known(by) /\ intents[by].intent.target = t
           By2(by) == by \in DOMAIN intents' /\ intents'[by].intent.target = t
<1>a. PICK less : less = account.deals OBVIOUS
<1>b. PICK more : more = account'.deals OBVIOUS
<1> DEFINE old == [n \in 1..L |-> IF By(less[n].by) THEN less[n].volume ELSE 0]
           new == [n \in 1..(L + 1) |-> IF By2(more[n].by) THEN more[n].volume ELSE 0]
<1>1. less \in Seq(Deals) /\ L = Len(less) BY <1>a DEF PositionTypes, Accounts
<1>2. /\ L \in Nat /\ Len(more) = L + 1 /\ more[L + 1] = deal
      /\ \A n \in 1..L : more[n] = less[n]
      /\ more \in Seq(Deals)
  <2>1. more = Append(less, deal) BY <1>a, <1>b
  <2> QED BY <1>1, <2>1
<1>3. \A n \in 1..L : less[n].volume \in Nat
  <2>1. {} \in SUBSET Nat OBVIOUS
  <2>2. \A n \in 1..Len(less) : less[n].volume \in Nat \ {0} BY <1>1, <2>1, VolumesTyped
  <2> QED BY <1>1, <2>2
<1>4. \A n \in 1..(L + 1) : more[n].volume \in Nat
  <2>1. {} \in SUBSET Nat OBVIOUS
  <2>2. \A n \in 1..Len(more) : more[n].volume \in Nat \ {0} BY <1>2, <2>1, VolumesTyped
  <2> QED BY <1>2, <2>2
<1>5. ASSUME NEW n \in 1..L PROVE By(less[n].by) <=> By2(more[n].by)
  <2>1. PICK by : by = less[n].by /\ by = more[n].by BY <1>2
  <2>2. (Known(by) /\ intents[by].intent.target = t)
          <=> (Known(by)' /\ intents'[by].intent.target = t)
    BY <1>a, <1>1, <2>1, SaleStays
  <2> QED BY <2>1, <2>2 DEF Known
<1>6. By2(more[L + 1].by) <=> Known(deal.by)' /\ intents'[deal.by].intent.target = t
  BY <1>2 DEF Known
<1>7. SoldFor(t) = Sum(old) BY <1>a DEF SoldFor
<1>8. SoldFor(t)' = Sum(new)
  <2>1. SoldFor(t)' = Sum([n \in 1..Len(account'.deals) |->
            IF By2(account'.deals[n].by) THEN account'.deals[n].volume ELSE 0])
    BY DEF SoldFor, Known
  <2> QED BY <1>b, <1>2, <2>1
<1> HIDE DEF By, By2, L
<1>9. old \in [1..L -> Nat] BY <1>3
<1>10. new \in [1..(L + 1) -> Nat] BY <1>4
<1>11. \A n \in 1..L : new[n] = old[n]
  <2> SUFFICES ASSUME NEW n \in 1..L PROVE new[n] = old[n] OBVIOUS
  <2>1. n \in 1..(L + 1) BY <1>2
  <2> QED BY <1>2, <1>5, <2>1
<1>12. new[L + 1] = IF By2(more[L + 1].by) THEN deal.volume ELSE 0
  <2>1. L + 1 \in 1..(L + 1) BY <1>2
  <2> QED BY <1>2, <2>1
<1> HIDE DEF old, new
<1>13. Sum(old) \in Nat BY <1>2, <1>9, SumOfNumbers
<1>14. old \in [1..L -> Int] /\ new \in [1..(L + 1) -> Int] BY <1>9, <1>10
<1>15. Sum(new) = Sum(old) + new[L + 1] BY <1>2, <1>11, <1>14, SumGrows
<1> QED BY <1>6, <1>7, <1>8, <1>12, <1>13, <1>15

(* One more deal leaves the documents' books as they are.                    *)
LEMMA BooksStay ==
  ASSUME account \in Accounts, NEW deal \in Deals, account'.deals = Append(account.deals, deal),
         outrun' = outrun, NEW doc \in Docs, DocOK(doc)
  PROVE  DocOK(doc)'
<1>1. account.deals \in Seq(Deals) BY DEF Accounts
<1>2. IntentFits(doc) /\ Books(doc, account.deals) /\ Stopped(doc) /\ FilledBy(doc) BY DEF DocOK
<1>3. doc.seen \in SUBSET (1..Len(account.deals)) BY <1>2 DEF Books
<1>4. /\ Len(account'.deals) = Len(account.deals) + 1 /\ Len(account.deals) \in Nat
      /\ \A n \in 1..Len(account.deals) : account'.deals[n] = account.deals[n]
      /\ Sum(SeenVolumes(doc.seen, account'.deals)) = Sum(SeenVolumes(doc.seen, account.deals))
  BY <1>1, <1>3, HistoryGrows
<1>5. doc.seen \subseteq 1..Len(account'.deals) BY <1>3, <1>4
<1>6. Books(doc, account.deals)' BY <1>2, <1>4, <1>5 DEF Books
<1>7. \A n \in 1..Len(account.deals) : n \in 1..Len(account'.deals) BY <1>4
<1>8. FilledBy(doc)' BY <1>2, <1>4, <1>7 DEF FilledBy, DealBy
<1> QED BY <1>2, <1>6, <1>8 DEF DocOK, IntentFits, Stopped

(* The broker's position is sold in part or whole, at its own stop or        *)
(* target, by a user, or by a command that is then the one reserved.         *)
LEMMA DealStep ==
  ASSUME PositionInv, NEW by \in Ids \cup {NoId}, NEW volume \in 1..account.volume,
         NEW reason \in {"EXPERT", "TP", "SL", "CLIENT"}, Sell(by, volume, reason),
         UNCHANGED <<managed, bridge, handler, structure, manual, writtenOff, outrun,
                     managementFaults>>,
         intents' \in [DOMAIN intents -> Entries], Evolves,
         \A x \in DOMAIN intents : x # by => intents'[x] = intents[x],
         by # NoId => Known(by) /\ reason = "EXPERT" /\ EntryOK(by)',
         by # NoId /\ ~writtenOff => HeldBy(by) /\ Waiting(by) /\ ~DealBy(by),
         by # NoId /\ ~writtenOff =>
           \A t \in Targets : intents[by].intent.target = t => SoldFor(t) + volume <= Alloc[t]
  PROVE  PositionInv'
<1>1. PositionTypes /\ AccountOK /\ ManagedOK /\ ExitsNotRepeated BY DEF PositionInv
<1>2. account \in Accounts /\ account.deals \in Seq(Deals) /\ account.volume \in Nat
      /\ managed \in Docs
  BY <1>1 DEF PositionTypes, Accounts
<1>3. volume \in Nat \ {0} /\ volume <= account.volume /\ account.volume - volume \in Nat BY <1>2
<1>4. PICK deal : deal = [by |-> by, volume |-> volume, reason |-> reason] OBVIOUS
<1>5. deal \in Deals /\ deal.by = by /\ deal.volume = volume /\ deal.reason = reason
  BY <1>3, <1>4 DEF Deals
<1>6. account' = [account EXCEPT !.volume = @ - volume, !.deals = Append(@, deal)]
  BY <1>4 DEF Sell
<1>7. /\ account' \in Accounts /\ account'.volume = account.volume - volume
      /\ account'.deals = Append(account.deals, deal)
  <2>1. Append(account.deals, deal) \in Seq(Deals) BY <1>2, <1>5
  <2> HIDE DEF Sell
  <2> QED BY <1>2, <1>3, <1>6, <2>1 DEF Accounts
<1>8. {} \in SUBSET (1..Len(account.deals)) OBVIOUS
<1>9. /\ Len(account'.deals) = Len(account.deals) + 1 /\ Len(account.deals) \in Nat
      /\ account'.deals[Len(account.deals) + 1] = deal
      /\ \A n \in 1..Len(account.deals) : account'.deals[n] = account.deals[n]
      /\ Sum(Volumes(account'.deals)) = Sum(Volumes(account.deals)) + volume
  <2>1. PICK more : more = Append(account.deals, deal) OBVIOUS
  <2>2. /\ Len(more) = Len(account.deals) + 1 /\ more[Len(account.deals) + 1] = deal
        /\ \A n \in 1..Len(account.deals) : more[n] = account.deals[n]
        /\ Sum(Volumes(more)) = Sum(Volumes(account.deals)) + deal.volume
    BY <1>2, <1>5, <1>8, <2>1, HistoryGrows
  <2>3. more = account'.deals BY <1>7, <2>1
  <2>4. Len(account.deals) \in Nat BY <1>2
  <2> QED BY <1>5, <2>2, <2>3, <2>4
<1> DEFINE L == Len(account.deals)
<1>10. ASSUME NEW n \in 1..Len(account'.deals) PROVE n \in 1..L \/ n = L + 1 BY <1>9
<1>11. \A n \in 1..L : n \in 1..Len(account'.deals) BY <1>9
<1> HIDE DEF L
<1>12. \A x : DealBy(x) => DealBy(x)' BY <1>9, <1>11 DEF DealBy, L
<1>13. \A x : DealBy(x)' => DealBy(x) \/ x = by BY <1>5, <1>9, <1>10 DEF DealBy, L
<1>14. Onwards /\ PositionTypes'
  BY <1>1, <1>7 DEF Onwards, PositionTypes
<1>15. ASSUME NEW doc \in Docs, DocOK(doc) PROVE DocOK(doc)'
  BY <1>2, <1>5, <1>7, <1>15, BooksStay
<1>16. ASSUME NEW doc, doc.seen \subseteq 1..L, Kept(doc),
              by # NoId => doc.remaining = 0 \/ doc.pending = by
       PROVE  Kept(doc)'
  <2> SUFFICES ASSUME NEW n \in 1..Len(account'.deals), account'.deals[n].by # NoId,
                      account'.deals[n].by[1] = "tp"
               PROVE  \/ doc.remaining = 0
                      \/ doc.closed[account'.deals[n].by[2]] # 0
                      \/ doc.pending = account'.deals[n].by /\ n \notin doc.seen
    BY DEF Kept
  <2>1. CASE n \in 1..L BY <1>9, <1>16, <2>1 DEF Kept, L
  <2>2. CASE n = L + 1
    <3>1. n \notin doc.seen BY <1>9, <1>16, <2>2 DEF L
    <3> QED BY <1>5, <1>9, <1>16, <2>2, <3>1 DEF L
  <2> QED BY <1>10, <2>1, <2>2
<1>17. ManagedOK'
  <2>1. DocOK(managed)'
    BY <1>1, <1>2, <1>15 DEF ManagedOK, DocOK, IntentFits, Books, Stopped, FilledBy
  <2>2. PICK doc : doc = managed /\ doc = managed' OBVIOUS
  <2>3. ASSUME ~writtenOff PROVE Kept(doc)'
    <3>1. doc.seen \subseteq 1..L BY <1>1, <2>2 DEF ManagedOK, DocOK, Books, L
    <3>2. Kept(doc) BY <1>1, <2>2, <2>3 DEF ManagedOK
    <3>3. by # NoId => doc.remaining = 0 \/ doc.pending = by BY <2>2, <2>3 DEF HeldBy
    <3> QED BY <1>16, <3>1, <3>2, <3>3
  <2>4. writtenOff' \/ Kept(managed)' BY <2>2, <2>3 DEF Kept
  <2> QED BY <2>1, <2>4 DEF ManagedOK
<1>18. AccountOK'
  <2>1. Volume \in Nat /\ Sum(Volumes(account.deals)) \in Nat BY <1>2, AllocFacts, VolumesTyped
  <2>2. account.volume + Sum(Volumes(account.deals)) = Volume /\ account.volume + L <= Volume
    BY <1>1 DEF AccountOK, L
  <2>3. account'.volume + Sum(Volumes(account'.deals)) = Volume
    BY <1>2, <1>3, <1>7, <1>9, <2>1, <2>2
  <2>4. account'.volume + Len(account'.deals) <= Volume
    BY <1>2, <1>3, <1>7, <1>9, <2>1, <2>2 DEF L
  <2>a. DOMAIN intents' = DOMAIN intents OBVIOUS
  <2>5. ASSUME NEW n \in 1..Len(account'.deals), account'.deals[n].by # NoId
        PROVE  account'.deals[n].by \in DOMAIN intents' /\ account'.deals[n].reason = "EXPERT"
    <3>1. CASE n \in 1..L
      <4>1. account'.deals[n] = account.deals[n] /\ n \in 1..Len(account.deals)
        BY <1>9, <3>1 DEF L
      <4>2. Known(account.deals[n].by) /\ account.deals[n].reason = "EXPERT"
        BY <1>1, <2>5, <4>1 DEF AccountOK
      <4> QED BY <2>a, <4>1, <4>2 DEF Known
    <3>2. CASE n = L + 1
      <4>1. account'.deals[n] = deal BY <1>9, <3>2 DEF L
      <4>2. Known(by) BY <1>5, <2>5, <4>1
      <4> QED BY <1>5, <2>a, <2>5, <4>1, <4>2 DEF Known
    <3> QED BY <1>10, <2>5, <3>1, <3>2
  <2> QED BY <2>3, <2>4, <2>5 DEF AccountOK, Known
<1>19. ASSUME NEW id \in DOMAIN intents' PROVE EntryOK(id)'
  <2>1. id \in DOMAIN intents /\ id # NoId /\ EntryOK(id)
    BY <1>1, <1>19, NothingTyped DEF PositionInv, PositionTypes
  <2>2. CASE id = by BY <2>1, <2>2
  <2>3. CASE id # by
    <3>1. intents'[id] = intents[id] BY <2>1, <2>3
    <3>2. (Waiting(id)' <=> Waiting(id)) /\ (HeldBy(id)' <=> HeldBy(id))
      BY <2>1, <3>1 DEF Waiting, Known, HeldBy
    <3>3. DealBy(id)' => DealBy(id) BY <1>13, <2>3
    <3> QED BY <2>1, <3>1, <3>2, <3>3 DEF EntryOK
  <2> QED BY <2>2, <2>3
<1>20. ExitsNotRepeated'
  <2> SUFFICES ASSUME ~writtenOff, NEW t \in Targets PROVE SoldFor(t)' <= Alloc[t]
    BY DEF ExitsNotRepeated, AllocationKept
  <2>1. SoldFor(t) <= Alloc[t] BY <1>1 DEF ExitsNotRepeated, AllocationKept
  <2>2. DOMAIN intents' \subseteq Ids BY <1>1 DEF PositionTypes
  <2>3. SoldFor(t)' = SoldFor(t) +
          IF Known(by)' /\ intents'[by].intent.target = t THEN volume ELSE 0
    BY <1>1, <1>5, <1>7, <2>2, SoldGrows
  <2>4. CASE Known(by)' /\ intents'[by].intent.target = t
    <3>1. Known(by) /\ by # NoId BY <1>1, <2>4, NothingTyped DEF Known, PositionTypes
    <3>2. intents[by].intent.target = t BY <2>4, <3>1 DEF Evolves, Known
    <3> QED BY <2>3, <2>4, <3>1, <3>2
  <2>5. CASE ~(Known(by)' /\ intents'[by].intent.target = t)
    <3>1. SoldFor(t) \in Nat BY <1>1, <1>5, <1>7, <2>2, SoldGrows
    <3> QED BY <2>1, <2>3, <2>5, <3>1
  <2> QED BY <2>4, <2>5
<1>21. ASSUME NEW me \in Hands, HandOK(me) PROVE HandOK(me)'
  <2>1. Standing(me) /\ Commanded(me) /\ DocOK(me.doc) /\ (me.fresh => Fresh(me)) /\ me.doc \in Docs
    BY <1>21 DEF HandOK, Hands
  <2>2. \A x : Known(x) => Known(x)' BY DEF Evolves, Known
  <2>3. \A x : Over(x) => Over(x)' BY DEF Evolves, Over, Known
  <2>4. \A x : Refused(x) => Refused(x)' BY DEF Evolves, Refused, Known
  <2>5. \A x : Known(x) /\ intents[x].status # "pending" => intents'[x].status # "pending"
    BY DEF Evolves, Known
  <2>6. Standing(me)'
    <3>1. me.pc \in Looking => me.snap \in Accounts /\ Begins(me.snap.deals, account'.deals)
      <4> SUFFICES ASSUME me.pc \in Looking
                   PROVE  me.snap \in Accounts /\ Begins(me.snap.deals, account'.deals)
        OBVIOUS
      <4>1. me.snap \in Accounts /\ Begins(me.snap.deals, account.deals) BY <2>1 DEF Standing
      <4>2. Len(me.snap.deals) \in Nat BY <4>1 DEF Accounts
      <4> QED BY <1>9, <4>1, <4>2 DEF Begins
    <3> QED BY <2>1, <2>2, <3>1 DEF Standing, HeldBy
  <2>7. Commanded(me)'
    <3>1. me.pc = "judge" /\ me.cmd = "rejected" /\ ~writtenOff => ~DealBy(me.doc.pending)'
      <4> SUFFICES ASSUME me.pc = "judge", me.cmd = "rejected", ~writtenOff,
                          DealBy(me.doc.pending)'
                   PROVE  FALSE
        OBVIOUS
      <4>1. ~DealBy(me.doc.pending) /\ Over(me.doc.pending) BY <2>1 DEF Commanded
      <4>2. me.doc.pending = by BY <1>13, <4>1
      <4>3. by # NoId BY <1>1, <4>1, <4>2, NothingTyped DEF Over, Known, PositionTypes
      <4> QED BY <4>1, <4>2, <4>3 DEF Over
    <3> QED BY <1>12, <2>1, <2>2, <2>3, <2>5, <3>1 DEF Commanded
  <2>8. DocOK(me.doc)' BY <1>15, <2>1
  <2>9. ASSUME me.fresh PROVE Fresh(me)'
    <3>1. Looked(me) => Looked(me)' BY DEF Looked
    <3>2. Reserving(me) => Reserving(me)' BY <2>4 DEF Reserving, SameBooks
    <3>3. Pausing(me) => Pausing(me)' BY <2>4 DEF Pausing
    <3>4. ASSUME me.pc \in Judging, Follows(me) PROVE Follows(me)'
      <4>1. ASSUME ~writtenOff PROVE Kept(me.doc)'
        <5>1. Kept(me.doc) /\ me.doc.seen \subseteq 1..L
          BY <2>1, <3>4, <4>1 DEF Follows, DocOK, Books, L
        <5>2. ASSUME by # NoId PROVE me.doc.remaining = 0 \/ me.doc.pending = by
          <6>1. managed.pending = by \/ managed.remaining = 0 BY <4>1, <5>2 DEF HeldBy
          <6>2. ~Over(by) BY <4>1, <5>2 DEF Over
          <6>3. CASE managed.remaining = 0
            <7>1. me.doc.remaining <= managed.remaining BY <3>4 DEF Follows
            <7>2. me.doc.remaining \in Nat BY <2>1 DEF Docs, DocsIn
            <7> QED BY <6>3, <7>1, <7>2
          <6>4. CASE managed.pending = by
            <7>1. ~(me.pc = "confirm" /\ me.id = by)
              BY <2>1, <4>1, <5>2 DEF Commanded
            <7> QED BY <3>4, <6>2, <6>4, <7>1 DEF Follows
          <6> QED BY <6>1, <6>3, <6>4
        <5> QED BY <1>16, <5>1, <5>2
      <4> QED BY <2>3, <3>4, <4>1 DEF Follows
    <3> QED BY <2>1, <2>9, <3>1, <3>2, <3>3, <3>4 DEF Fresh
  <2> QED BY <2>6, <2>7, <2>8, <2>9 DEF HandOK
<1>22. \A x \in Handlers : HandOK(handler[x])'
  <2> SUFFICES ASSUME NEW x \in Handlers PROVE HandOK(handler[x])' OBVIOUS
  <2>1. PICK me \in Hands : me = handler[x] /\ HandOK(me) BY HandTyped
  <2>2. HandOK(me)' /\ me = handler'[x] BY <1>21, <2>1
  <2> QED BY <2>2
<1> QED BY <1>14, <1>17, <1>18, <1>19, <1>20, <1>22 DEF PositionInv

(* A command the EA has taken, and that was not written off, is the one      *)
(* reserved, and placed no deal yet.                                         *)
LEMMA TakenIs ==
  ASSUME PositionInv, NEW id, Known(id), intents[id].ea = "taken"
  PROVE  /\ ~DealBy(id) /\ intents[id].receipt = "none"
         /\ intents[id].status \in {"queued", "settled"} /\ intents[id].cmd # "none"
         /\ ~writtenOff => Waiting(id) /\ HeldBy(id) /\ intents[id].cmd = "delivered"
<1>1. EntryOK(id) /\ intents[id] \in Entries BY EntryTyped
<1>2. intents[id].status \in {"queued", "settled"}
  BY <1>1 DEF EntryOK, Entries, Proposals
<1> QED BY <1>1, <1>2 DEF EntryOK, Waiting

(* A partial exit is the first of its target.                                *)
LEMMA ExitIsFirst ==
  ASSUME PositionInv, NEW id, Known(id), intents[id].ea = "taken", ~writtenOff,
         intents[id].intent.op = "partial_close", account.volume > 0
  PROVE  /\ intents[id].intent.target \in Targets
         /\ intents[id].intent.volume = Alloc[intents[id].intent.target]
         /\ SoldFor(intents[id].intent.target) = 0
<1> DEFINE t == intents[id].intent.target
<1>1. EntryOK(id) /\ id \in Ids /\ PositionTypes /\ AccountOK /\ ManagedOK
  BY EntryTyped DEF PositionInv
<1>2. Fitting(id, intents[id].intent) BY <1>1 DEF EntryOK
<1>3. id[1] \in {"tp", "stop", "manual"} BY <1>1 DEF Ids
<1>4. "partial_close" \notin ManualOps BY ManagementAssumption DEF ManagementAssumption
<1>5. id[1] = "tp" /\ t \in Targets \ {FinalTarget} /\ t = id[2]
      /\ intents[id].intent.volume = Alloc[t]
  BY <1>2, <1>3, <1>4 DEF Fitting
<1>6. ~DealBy(id) /\ HeldBy(id) BY TakenIs
<1>7. managed.remaining # 0
  <2>1. /\ managed.remaining + Sum(SeenVolumes(managed.seen, account.deals)) = Volume
        /\ account.volume + Sum(Volumes(account.deals)) = Volume
        /\ managed.seen \subseteq 1..Len(account.deals)
    BY <1>1 DEF ManagedOK, DocOK, Books, AccountOK
  <2>2. account.deals \in Seq(Deals) /\ account.volume \in Nat /\ managed.remaining \in Nat
        /\ managed.seen \in SUBSET Nat
    BY <1>1 DEF PositionTypes, Accounts, Docs, DocsIn
  <2>3. /\ Sum(Volumes(account.deals)) \in Nat
        /\ Sum(SeenVolumes(managed.seen, account.deals)) \in Nat
        /\ Sum(SeenVolumes(managed.seen, account.deals)) <= Sum(Volumes(account.deals))
    BY <2>2, VolumesTyped
  <2>4. Volume \in Nat BY AllocFacts
  <2> QED BY <2>1, <2>2, <2>3, <2>4
<1>8. managed.pending = id BY <1>6, <1>7 DEF HeldBy
<1>9. managed.closed[t] = 0
  <2>1. FilledBy(managed) /\ id # NoId BY <1>1, NothingTyped DEF ManagedOK, DocOK
  <2> QED BY <1>5, <1>6, <1>8, <2>1 DEF FilledBy
<1>10. ASSUME NEW n \in 1..Len(account.deals), NEW by, by = account.deals[n].by, Known(by)
       PROVE  intents[by].intent.target # t
  <2> SUFFICES ASSUME intents[by].intent.target = t PROVE FALSE OBVIOUS
  <2>1. EntryOK(by) /\ by \in Ids /\ by # NoId BY <1>10, EntryTyped
  <2>2. t # 0 BY <1>5, AllocFacts
  <2>3. by[1] \in {"tp", "stop", "manual"} BY <2>1 DEF Ids
  <2>4. by[1] = "tp" /\ by[2] = t BY <2>1, <2>2, <2>3 DEF EntryOK, Fitting
  <2>5. Kept(managed) BY <1>1 DEF ManagedOK
  <2>6. managed.pending = by BY <1>7, <1>9, <1>10, <2>1, <2>4, <2>5 DEF Kept
  <2>7. DealBy(by) BY <1>10 DEF DealBy
  <2> QED BY <1>6, <1>8, <2>6, <2>7
<1>11. SoldFor(t) = 0
  <2> DEFINE L == Len(account.deals)
             By(by) == Known(by) /\ intents[by].intent.target = t
             none == [n \in 1..L |-> IF By(account.deals[n].by) THEN account.deals[n].volume ELSE 0]
  <2>1. L \in Nat BY <1>1 DEF PositionTypes, Accounts
  <2>2. \A n \in 1..L : ~By(account.deals[n].by) BY <1>10
  <2>3. SoldFor(t) = Sum(none) BY DEF SoldFor
  <2> HIDE DEF By, L
  <2>4. none \in [1..L -> Int] /\ \A n \in 1..L : none[n] = 0 BY <2>2
  <2> HIDE DEF none
  <2> QED BY <2>1, <2>3, <2>4, SumOfNone
<1> QED BY <1>5, <1>11

(* The EA's deal is the first of its operation and within its target's allocation. *)
LEMMA ExecuteStep == ASSUME PositionInv, NEW id, Execute(id) PROVE PositionInv'
<1>1. Known(id) /\ intents[id].ea = "taken" BY DEF Execute
<1>2. /\ id \in DOMAIN intents /\ intents[id] \in Entries /\ EntryOK(id) /\ PositionTypes
      /\ id # NoId /\ id \in Ids
  BY <1>1, EntryTyped DEF PositionInv
<1>3. PICK intent : intent = intents[id].intent OBVIOUS
<1>4. UNCHANGED <<managed, bridge, handler, structure, manual, writtenOff, outrun,
                  managementFaults>>
  BY DEF Execute
<1>5. intent \in Intents /\ Fitting(id, intent) BY <1>2, <1>3 DEF Entries, EntryOK
<1>6. /\ ~DealBy(id) /\ intents[id].receipt = "none"
      /\ intents[id].status \in {"queued", "settled"} /\ intents[id].cmd # "none"
      /\ ~writtenOff => Waiting(id) /\ HeldBy(id) /\ intents[id].cmd = "delivered"
  BY <1>1, TakenIs
<1>7. /\ account \in Accounts /\ account.volume \in Nat /\ account.deals \in Seq(Deals)
      /\ account.sl \in 0..MaxStop /\ account.edition \in Nat /\ MaxStop \in Nat
  BY <1>2, ManagementAssumption DEF PositionTypes, Accounts, ManagementAssumption
<1>8. ASSUME NEW result \in {"reconciled", "rejected", "uncertain"}, NEW entry \in Entries,
             entry = [intents[id] EXCEPT !.ea = "answered", !.receipt = result],
             Receipt(id, result)
      PROVE  /\ intents' = [intents EXCEPT ![id] = entry]
             /\ intents'[id] = entry /\ entry.receipt = result /\ entry.ea = "answered"
             /\ entry.status = intents[id].status /\ entry.cmd = intents[id].cmd
             /\ entry.intent = intent
             /\ EntryKept(id, entry)
             /\ intents' \in [DOMAIN intents -> Entries]
             /\ \A x \in DOMAIN intents : x # id => intents'[x] = intents[x]
  <2>1. intents' = [intents EXCEPT ![id] = entry] BY <1>2, <1>8 DEF Receipt, PositionTypes
  <2>2. /\ entry.receipt = result /\ entry.ea = "answered" /\ entry.status = intents[id].status
        /\ entry.cmd = intents[id].cmd /\ entry.intent = intent
    BY <1>2, <1>3, <1>8 DEF Entries
  <2>3. EntryKept(id, entry) BY <1>1, <1>3, <2>2 DEF EntryKept, Over, Waiting
  <2> QED BY <1>2, <2>1, <2>2, <2>3 DEF PositionTypes
<1>9. ASSUME NEW result \in {"reconciled", "rejected", "uncertain"}
      PROVE  [intents[id] EXCEPT !.ea = "answered", !.receipt = result] \in Entries
  BY <1>2 DEF Entries, Receipts
<1>10. ASSUME NEW result \in {"reconciled", "rejected", "uncertain"}, Receipt(id, result),
              account' \in Accounts, account'.deals = account.deals,
              account'.volume = account.volume
       PROVE  PositionInv'
  <2>1. PICK entry \in Entries : entry = [intents[id] EXCEPT !.ea = "answered", !.receipt = result]
    BY <1>9
  <2>2. /\ intents' = [intents EXCEPT ![id] = entry]
        /\ intents'[id] = entry /\ entry.receipt = result /\ entry.ea = "answered"
        /\ entry.status = intents[id].status /\ entry.cmd = intents[id].cmd
        /\ entry.intent = intent /\ EntryKept(id, entry)
    BY <1>8, <1>10, <2>1
  <2>3. EntryOK(id)'
    <3>1. ~DealBy(id)' BY <1>6, <1>10 DEF DealBy
    <3>2. Waiting(id)' => Waiting(id) BY <1>1, <2>2 DEF Waiting
    <3>3. HeldBy(id)' <=> HeldBy(id) BY <1>4 DEF HeldBy
    <3> QED BY <1>2, <1>5, <1>6, <2>2, <3>1, <3>2, <3>3 DEF EntryOK
  <2>4. /\ Onwards /\ writtenOff' \in BOOLEAN /\ managementFaults' \in 0..MaxManagementFaults
    BY <1>2, <1>4 DEF Onwards, PositionTypes
  <2> QED BY <1>1, <1>4, <1>10, <2>2, <2>3, <2>4, CommandOnly
<1>11. ASSUME NEW result \in {"reconciled", "uncertain"}, Receipt(id, result),
              NEW volume \in 1..account.volume, Sell(id, volume, "EXPERT"),
              ~writtenOff => \A t \in Targets : intent.target = t => SoldFor(t) + volume <= Alloc[t]
       PROVE  PositionInv'
  <2>1. PICK entry \in Entries : entry = [intents[id] EXCEPT !.ea = "answered", !.receipt = result]
    BY <1>9
  <2>2. /\ intents' = [intents EXCEPT ![id] = entry]
        /\ intents'[id] = entry /\ entry.receipt = result /\ entry.ea = "answered"
        /\ entry.status = intents[id].status /\ entry.cmd = intents[id].cmd
        /\ entry.intent = intent /\ EntryKept(id, entry)
        /\ intents' \in [DOMAIN intents -> Entries]
        /\ \A x \in DOMAIN intents : x # id => intents'[x] = intents[x]
    BY <1>8, <1>11, <2>1
  <2>3. EntryOK(id)'
    <3>1. Waiting(id)' => Waiting(id) BY <1>1, <2>2 DEF Waiting
    <3>2. HeldBy(id)' <=> HeldBy(id) BY <1>4 DEF HeldBy
    <3> QED BY <1>2, <1>4, <1>5, <1>6, <2>2, <3>1, <3>2 DEF EntryOK
  <2>4. Evolves
    <3> SUFFICES ASSUME NEW x \in DOMAIN intents
                 PROVE  /\ Known(x)' /\ intents'[x].intent = intents[x].intent
                        /\ Refused(x) => Refused(x)'
                        /\ Over(x) => Over(x)'
                        /\ intents[x].status # "pending" => intents'[x].status # "pending"
      BY DEF Evolves
    <3>1. Known(x)' /\ Known(x) BY <2>2 DEF Known
    <3>2. CASE x = id
      BY <1>3, <2>2, <3>1, <3>2 DEF EntryKept, Refused, Over, Waiting
    <3>3. CASE x # id BY <2>2, <3>1, <3>3 DEF Refused, Over, Waiting
    <3> QED BY <3>2, <3>3
  <2> QED BY <1>1, <1>2, <1>3, <1>4, <1>6, <1>11, <2>2, <2>3, <2>4, DealStep
<1>12. ASSUME Fits(intent) PROVE account.volume > 0 BY <1>12 DEF Fits
<1>13. ASSUME intent.op = "partial_close", Fits(intent), NEW volume \in 1..intent.volume,
              NEW result \in {"reconciled", "uncertain"}, Receipt(id, result),
              Sell(id, volume, "EXPERT")
       PROVE  PositionInv'
  <2>1. intent.volume < account.volume /\ intent.volume \in Nat
    BY <1>5, <1>13 DEF Fits, Intents
  <2>2. volume \in 1..account.volume BY <1>7, <2>1
  <2>3. ASSUME ~writtenOff, NEW t \in Targets, intent.target = t
        PROVE  SoldFor(t) + volume <= Alloc[t]
    <3>1. intent.volume = Alloc[t] /\ SoldFor(t) = 0
      BY <1>1, <1>3, <1>12, <1>13, <2>3, ExitIsFirst
    <3> QED BY <2>1, <3>1
  <2> QED BY <1>11, <1>13, <2>2, <2>3
<1>14. CASE Receipt(id, "rejected") /\ UNCHANGED account BY <1>7, <1>10, <1>14
<1>15. CASE intent.op = "partial_close" /\ Fits(intent) /\ Receipt(id, "reconciled")
            /\ Sell(id, intent.volume, "EXPERT")
  <2>1. id[1] \in {"tp", "stop", "manual"} BY <1>2 DEF Ids
  <2>2. "partial_close" \notin ManualOps BY ManagementAssumption DEF ManagementAssumption
  <2>3. intent.volume = Alloc[intent.target] /\ intent.target \in Targets
    BY <1>5, <1>15, <2>1, <2>2 DEF Fitting
  <2>4. intent.volume \in 1..intent.volume BY <2>3, AllocFacts
  <2> QED BY <1>13, <1>15, <2>4
<1>16. CASE intent.op = "partial_close" /\ Fits(intent) /\ Receipt(id, "uncertain")
            /\ (UNCHANGED account \/ \E volume \in 1..intent.volume : Sell(id, volume, "EXPERT"))
  BY <1>7, <1>10, <1>13, <1>16
<1>17. CASE /\ intent.op = "close" /\ Fits(intent)
            /\ \E result \in {"reconciled", "uncertain"} : Receipt(id, result)
            /\ Sell(id, account.volume, "EXPERT")
  <2>1. id[1] \in {"tp", "stop", "manual"} BY <1>2 DEF Ids
  <2>2. intent.target = 0 BY <1>5, <1>17, <2>1 DEF Fitting
  <2>3. 0 \notin Targets BY AllocFacts
  <2>4. account.volume \in 1..account.volume BY <1>7, <1>12, <1>17
  <2> QED BY <1>11, <1>17, <2>2, <2>3, <2>4
<1>18. CASE /\ intent.op = "sl" /\ \E result \in {"reconciled", "uncertain"} : Receipt(id, result)
            /\ account' = [account EXCEPT !.sl = intent.level]
  <2>1. intent.level \in 0..MaxStop BY <1>5, <1>18 DEF Fitting
  <2>2. account' \in Accounts /\ account'.deals = account.deals /\ account'.volume = account.volume
    BY <1>7, <1>18, <2>1 DEF Accounts
  <2> QED BY <1>10, <1>18, <2>2
<1>19. CASE /\ intent.op = "modify_targets"
            /\ \E result \in {"reconciled", "uncertain"} : Receipt(id, result)
            /\ account' = [account EXCEPT !.edition = intent.level]
  <2>1. intent.level \in Nat BY <1>5 DEF Intents
  <2>2. account' \in Accounts /\ account'.deals = account.deals /\ account'.volume = account.volume
    BY <1>7, <1>19, <2>1 DEF Accounts
  <2> QED BY <1>10, <1>19, <2>2
<1> QED BY <1>3, <1>14, <1>15, <1>16, <1>17, <1>18, <1>19 DEF Execute

(* A close by the broker or a user belongs to no operation.                  *)
LEMMA BrokerClosesStep == ASSUME PositionInv, BrokerCloses PROVE PositionInv'
<1>1. UNCHANGED <<managed, intents, bridge, handler, structure, manual, writtenOff, outrun,
                  managementFaults>>
  BY DEF BrokerCloses
<1>2. PositionTypes /\ account.volume \in Nat BY DEF PositionInv, PositionTypes, Accounts
<1>3. account.volume > 0 BY DEF BrokerCloses
<1>4. account.volume \in 1..account.volume /\ 1 \in 1..account.volume BY <1>2, <1>3
<1>5. PICK volume \in 1..account.volume, reason \in {"EXPERT", "TP", "SL", "CLIENT"} :
        Sell(<<>>, volume, reason)
  BY <1>4 DEF BrokerCloses
<1>6. Evolves BY <1>1 DEF Evolves, Known, Refused, Over, Waiting
<1>7. PICK by \in Ids \cup {NoId} : by = NoId OBVIOUS
<1>8. Sell(by, volume, reason) BY <1>5, <1>7 DEF NoId
<1>9. intents' \in [DOMAIN intents -> Entries] BY <1>1, <1>2 DEF PositionTypes
<1> QED BY <1>1, <1>6, <1>7, <1>8, <1>9, DealStep

-----------------------------------------------------------------------------
(* The invariant, and what follows from it. *)

(* New structure disturbs nothing.                                           *)
LEMMA RecordStructureStep == ASSUME PositionInv, RecordStructure PROVE PositionInv'
<1>1. UNCHANGED <<managed, intents, account, bridge, handler, manual, writtenOff, outrun,
                  managementFaults>>
  BY DEF RecordStructure
<1>2. PositionTypes /\ MaxStop \in Nat
  BY ManagementAssumption DEF PositionInv, ManagementAssumption
<1>3. structure' \in 0..MaxStop BY <1>2 DEF RecordStructure, PositionTypes
<1>4. PositionTypes' BY <1>1, <1>2, <1>3 DEF PositionTypes
<1>5. Evolves /\ Onwards BY <1>1 DEF Evolves, Onwards, Known, Refused, Over, Waiting
<1>6. ASSUME NEW id \in DOMAIN intents' PROVE EntryOK(id)'
  <2>1. id \in DOMAIN intents /\ EntryOK(id) BY <1>1, <1>6 DEF PositionInv
  <2> QED BY <1>1, <2>1 DEF EntryOK, Waiting, Known, HeldBy, DealBy
<1> QED BY <1>1, <1>4, <1>5, <1>6, QuietStep

(* It holds at first.                                                        *)
LEMMA PositionInitially == ManagementInit => PositionInv
<1> SUFFICES ASSUME ManagementInit PROVE PositionInv OBVIOUS
<1>1. /\ managed = Unmanaged /\ intents = <<>> /\ bridge = account
      /\ account = [volume |-> Volume, sl |-> 0, edition |-> 0, deals |-> <<>>]
      /\ handler = [h \in Handlers |-> NobodyHandles]
      /\ structure = 0 /\ manual = 0 /\ writtenOff = FALSE /\ outrun = FALSE
      /\ managementFaults = 0
  BY DEF ManagementInit
<1>2. Volume \in Nat /\ 0 \in 0..MaxStop /\ 0 \in 0..MaxManual /\ 0 \in 0..MaxManagementFaults
  BY AllocFacts, ManagementAssumption DEF ManagementAssumption
<1>3. /\ account \in Accounts /\ account.volume = Volume /\ account.deals = <<>>
      /\ Len(account.deals) = 0
  <2>1. <<>> \in Seq(Deals) OBVIOUS
  <2>2. account \in Accounts BY <1>1, <1>2, <2>1 DEF Accounts
  <2> QED BY <1>1, <2>2
<1>4. DOMAIN intents = {}
  <2>1. DOMAIN <<>> = {} OBVIOUS
  <2> QED BY <1>1, <2>1
<1>5. \A id : ~Known(id) BY <1>4 DEF Known
<1>6. intents \in [DOMAIN intents -> Entries]
  <2>1. intents = [i \in {} |-> intents[i]] BY <1>1, <1>4
  <2> QED BY <1>4, <2>1
<1>7. HandOK(NobodyHandles) /\ NobodyHandles \in Hands /\ Unmanaged \in Docs
  BY <1>3, NobodyOK, NothingTyped
<1>8. PositionTypes BY <1>1, <1>2, <1>3, <1>4, <1>6, <1>7 DEF PositionTypes
<1>9. ManagedOK
  <2>1. DocOK(Unmanaged) BY <1>7 DEF HandOK, NobodyHandles
  <2>2. Kept(Unmanaged) BY <1>3 DEF Kept
  <2> QED BY <1>1, <2>1, <2>2 DEF ManagedOK
<1>10. AccountOK
  <2>1. Sum(Volumes(account.deals)) = 0
    <3> DEFINE none == Volumes(account.deals)
    <3>1. none = [n \in 1..0 |-> account.deals[n].volume] BY <1>3 DEF Volumes
    <3>2. none \in [1..0 -> Int] /\ \A n \in 1..0 : none[n] = 0 BY <3>1
    <3> HIDE DEF none
    <3>3. Sum(none) = 0 BY <3>2, SumOfNone
    <3> QED BY <3>3 DEF none
  <2> QED BY <1>2, <1>3, <2>1 DEF AccountOK
<1>11. ExitsNotRepeated
  <2> SUFFICES ASSUME NEW t \in Targets PROVE SoldFor(t) <= Alloc[t]
    BY DEF ExitsNotRepeated, AllocationKept
  <2> DEFINE none == [n \in 1..Len(account.deals) |->
                        IF /\ Known(account.deals[n].by)
                            /\ intents[account.deals[n].by].intent.target = t
                        THEN account.deals[n].volume ELSE 0]
  <2>1. none \in [1..0 -> Int] /\ \A n \in 1..0 : none[n] = 0 BY <1>3
  <2>2. SoldFor(t) = Sum(none) BY DEF SoldFor
  <2> HIDE DEF none
  <2>3. SoldFor(t) = 0 BY <2>1, <2>2, SumOfNone
  <2> QED BY <2>3, AllocFacts
<1>12. \A h \in Handlers : HandOK(handler[h]) BY <1>1, <1>7
<1> QED BY <1>4, <1>8, <1>9, <1>10, <1>11, <1>12 DEF PositionInv

(* And every step keeps it.                                                  *)
LEMMA PositionInductive == PositionInv /\ [ManagementNext]_managementVars => PositionInv'
<1> SUFFICES ASSUME PositionInv, [ManagementNext]_managementVars PROVE PositionInv' OBVIOUS
<1>1. ASSUME UNCHANGED managementVars PROVE PositionInv'
  <2>1. /\ managed' = managed /\ account' = account /\ handler' = handler /\ intents' = intents
        /\ bridge' = bridge /\ structure' = structure /\ manual' = manual /\ outrun' = outrun
        /\ writtenOff' = writtenOff /\ managementFaults' = managementFaults
    BY <1>1 DEF managementVars
  <2>2. Evolves /\ Onwards BY <2>1 DEF Evolves, Onwards, Known, Refused, Over, Waiting
  <2>3. PositionTypes' BY <2>1 DEF PositionInv, PositionTypes
  <2>4. ASSUME NEW id \in DOMAIN intents' PROVE EntryOK(id)'
    <3>1. id \in DOMAIN intents /\ EntryOK(id) BY <2>1, <2>4 DEF PositionInv
    <3> QED BY <2>1, <3>1 DEF EntryOK, Waiting, Known, HeldBy, DealBy
  <2> QED BY <2>1, <2>2, <2>3, <2>4, QuietStep
<1>2. ASSUME NEW h \in Handlers,
             Heartbeat(h) \/ HandlerSteps(h) \/ ManualProposal(h) \/ HandlerCrashes(h)
               \/ \E id \in DOMAIN intents : Decide(h, id)
      PROVE  PositionInv'
  <2>1. ASSUME HandlerCrashes(h) PROVE PositionInv'
    <3>1. managementFaults \in 0..MaxManagementFaults /\ MaxManagementFaults \in Nat
      BY HandTyped, ManagementAssumption DEF ManagementAssumption
    <3>2. managementFaults' \in 0..MaxManagementFaults BY <2>1, <3>1 DEF HandlerCrashes
    <3> QED BY <2>1, <3>2, EndStep DEF HandlerCrashes
  <2>2. ASSUME HandlerSteps(h) PROVE PositionInv'
    BY <2>2, ReadManagedStep, ReadCommandStep, JudgeStep, ConfirmStep, StoreStep, AdvanceStep,
       SaveReservationStep, SavePauseStep, SaveProposalStep, ApproveStep, QueueStep
    DEF HandlerSteps
  <2> QED BY <1>2, <2>1, <2>2, HeartbeatStep, ManualProposalStep, DecideStep
<1>3. ASSUME NEW id \in DOMAIN intents, CommandStep(id) PROVE PositionInv'
  BY <1>3, WriteOffStep, DeliverStep, ExecuteStep, AcknowledgeStep, ReceiptLostStep
  DEF CommandStep
<1> QED BY <1>1, <1>2, <1>3, RecordStructureStep, BrokerClosesStep DEF ManagementNext

(* Each volume is within the position's.                                     *)
LEMMA PositionBounded == PositionInv => ManagementTypeOK
<1> SUFFICES ASSUME PositionInv PROVE ManagementTypeOK OBVIOUS
<1>1. PositionTypes /\ AccountOK /\ Books(managed, account.deals)
  BY DEF PositionInv, ManagedOK, DocOK
<1>2. /\ managed \in Docs /\ account \in Accounts /\ account.deals \in Seq(Deals)
      /\ account.volume \in Nat /\ managed.remaining \in Nat /\ Volume \in Nat
      /\ managed.closed \in [Targets -> Nat] /\ managed.seen \in SUBSET Nat
  BY <1>1, AllocFacts DEF PositionTypes, Docs, DocsIn, Accounts
<1>3. Len(account.deals) \in Nat /\ account.volume + Len(account.deals) <= Volume
  BY <1>1, <1>2 DEF AccountOK
<1>4. account.volume \in 0..Volume /\ Len(account.deals) \in 0..Volume BY <1>2, <1>3
<1>5. FinalTarget \in Nat /\ Targets = 1..FinalTarget BY AllocFacts
<1>6. Sum(managed.closed) \in Nat /\ Sum(managed.closed) + managed.remaining <= Volume
  BY <1>1, <1>2, <1>5, SumOfNumbers DEF Books
<1>7. managed.remaining \in 0..Volume BY <1>2, <1>6
<1>8. \A t \in Targets : managed.closed[t] \in 0..Volume
  <2> SUFFICES ASSUME NEW t \in Targets PROVE managed.closed[t] \in 0..Volume OBVIOUS
  <2>1. managed.closed[t] <= Sum(managed.closed) BY <1>2, <1>5, TermWithinSum
  <2>2. managed.closed[t] \in Nat BY <1>2
  <2> QED BY <1>2, <1>6, <2>1, <2>2
<1>9. managed.closed \in [Targets -> 0..Volume] BY <1>2, <1>8
<1>10. managed.seen \subseteq 1..Volume
  <2>1. managed.seen \subseteq 1..Len(account.deals) BY <1>1 DEF Books
  <2> QED BY <1>2, <1>4, <2>1
<1>11. managed.state \in Halted \cup {"none", "OPEN", "TARGET_PENDING", "TARGET_HIT"}
       /\ managed.sl \in 0..MaxStop /\ managed.done \subseteq 1..MaxStop
       /\ account.sl \in 0..MaxStop
  BY <1>2 DEF Docs, DocsIn, DocStates, Accounts
<1>12. \A i \in DOMAIN intents : intents[i].status \in Proposals /\ intents[i].cmd \in Commands
  BY <1>1 DEF PositionTypes, Entries
<1>13. \A h \in Handlers : handler[h].pc \in Points BY <1>1 DEF PositionTypes, Hands
<1> QED
  BY <1>1, <1>4, <1>7, <1>9, <1>10, <1>11, <1>12, <1>13
  DEF ManagementTypeOK, PositionTypes, Points

(* Only a save writes the document.                                          *)
LEMMA DocumentSaved ==
  ASSUME PositionInv, [ManagementNext]_managementVars
  PROVE  \/ managed' = managed
         \/ \E h \in Handlers, me \in Hands :
              /\ me = handler[h] /\ HandOK(me) /\ me.fresh /\ outrun' = outrun
              /\ managed' = IF me.doc.pending = NoId THEN [me.doc EXCEPT !.intent = NoIntent]
                            ELSE me.doc
              /\ \/ me.pc = "store" /\ Follows(me)
                 \/ me.pc = "reserve" /\ Reserving(me)
                 \/ me.pc = "pause" /\ Pausing(me)
<1> SUFFICES ASSUME managed' # managed
             PROVE  \E h \in Handlers, me \in Hands :
                      /\ me = handler[h] /\ HandOK(me) /\ me.fresh /\ outrun' = outrun
                      /\ managed' =
                           IF me.doc.pending = NoId THEN [me.doc EXCEPT !.intent = NoIntent]
                           ELSE me.doc
                      /\ \/ me.pc = "store" /\ Follows(me)
                         \/ me.pc = "reserve" /\ Reserving(me)
                         \/ me.pc = "pause" /\ Pausing(me)
  OBVIOUS
<1>1. PICK h \in Handlers : Store(h) \/ SaveReservation(h) \/ SavePause(h)
  <2>1. ManagementNext BY DEF managementVars
  <2>2. ~(\E id \in DOMAIN intents : CommandStep(id))
    BY DEF CommandStep, WriteOff, DeliverCommand, Execute, Acknowledge, ReceiptLost
  <2>3. ~RecordStructure /\ ~BrokerCloses BY DEF RecordStructure, BrokerCloses
  <2>4. PICK h \in Handlers :
          Heartbeat(h) \/ HandlerSteps(h) \/ ManualProposal(h) \/ HandlerCrashes(h)
            \/ \E id \in DOMAIN intents : Decide(h, id)
    BY <2>1, <2>2, <2>3 DEF ManagementNext
  <2>5. HandlerSteps(h) BY <2>4 DEF Heartbeat, ManualProposal, HandlerCrashes, Decide
  <2>6. Store(h) \/ SaveReservation(h) \/ SavePause(h)
    BY <2>5 DEF HandlerSteps, ReadManaged, ReadCommand, Judge, Confirm, Advance, SaveProposal,
                Approve, Queue
  <2> QED BY <2>6
<1>2. PICK me \in Hands : me = handler[h] /\ HandOK(me) BY HandTyped
<1>3. me.fresh /\ outrun' = outrun /\ me.pc \in {"store", "reserve", "pause"}
      /\ \E next : Saved(h, me.doc, next)
  BY <1>1, <1>2 DEF Store, SaveReservation, SavePause, Stands
<1>4. managed' = IF me.doc.pending = NoId THEN [me.doc EXCEPT !.intent = NoIntent] ELSE me.doc
  BY <1>3 DEF Saved, NoId
<1>5. Fresh(me) BY <1>2, <1>3 DEF HandOK
<1> QED BY <1>2, <1>3, <1>4, <1>5 DEF Fresh, Judging

(* A step from a closed position keeps its books.                            *)
LEMMA ClosedStep ==
  ASSUME PositionInv, [ManagementNext]_managementVars, managed.state = "POSITION_CLOSED"
  PROVE  /\ [managed' EXCEPT !.pending = <<>>, !.intent = NoIntent, !.state = "POSITION_CLOSED"]
              = [managed EXCEPT !.pending = <<>>, !.intent = NoIntent]
         /\ managed'.state \in {"POSITION_CLOSED", "MANAGEMENT_PAUSED"}
         /\ ~outrun => managed' = managed
<1>1. managed \in Docs /\ managed' \in Docs
  BY PositionInductive DEF PositionInv, PositionTypes
<1>2. CASE managed' = managed
  <2>1. PICK doc \in Docs : doc = managed /\ doc = managed' BY <1>1, <1>2
  <2>2. [doc EXCEPT !.pending = <<>>, !.intent = NoIntent, !.state = "POSITION_CLOSED"]
          = [doc EXCEPT !.pending = <<>>, !.intent = NoIntent]
    BY <2>1 DEF Docs, DocsIn
  <2> QED BY <2>1, <2>2
<1>3. ASSUME NEW h \in Handlers, NEW me \in Hands, me = handler[h], HandOK(me),
             managed' = IF me.doc.pending = NoId THEN [me.doc EXCEPT !.intent = NoIntent]
                        ELSE me.doc,
             \/ me.pc = "store" /\ Follows(me)
             \/ me.pc = "reserve" /\ Reserving(me)
             \/ me.pc = "pause" /\ Pausing(me)
      PROVE  /\ SameBooks(managed', managed) /\ outrun
             /\ managed'.state \in {"POSITION_CLOSED", "MANAGEMENT_PAUSED"}
  <2>1. ~Follows(me) BY DEF Follows
  <2>2. me.doc \in Docs BY DEF Hands
  <2>3. SameBooks(managed', me.doc) /\ managed'.state = me.doc.state
    <3>1. CASE me.doc.pending = NoId BY <1>3, <2>2, <3>1 DEF SameBooks, Docs, DocsIn
    <3>2. CASE me.doc.pending # NoId BY <1>3, <3>2 DEF SameBooks
    <3> QED BY <3>1, <3>2
  <2>4. CASE Reserving(me) BY <2>3, <2>4 DEF Reserving, SameBooks
  <2>5. CASE Pausing(me)
    <3>1. SameBooks(me.doc, managed) /\ me.doc.state = "MANAGEMENT_PAUSED" /\ outrun
      BY <1>1, <2>5 DEF Pausing, SameBooks, Docs, DocsIn, Halted
    <3> QED BY <2>3, <3>1 DEF SameBooks
  <2> QED BY <1>3, <2>1, <2>4, <2>5
<1>4. CASE managed' # managed
  <2>1. /\ SameBooks(managed', managed) /\ outrun
        /\ managed'.state \in {"POSITION_CLOSED", "MANAGEMENT_PAUSED"}
    BY <1>3, <1>4, DocumentSaved
  <2>2. PICK new \in Docs : new = managed' BY <1>1
  <2>3. PICK old \in Docs : old = managed BY <1>1
  <2>4. SameBooks(new, old) /\ old.state = "POSITION_CLOSED" BY <2>1, <2>2, <2>3
  <2>5. [new EXCEPT !.pending = <<>>, !.intent = NoIntent, !.state = "POSITION_CLOSED"]
          = [old EXCEPT !.pending = <<>>, !.intent = NoIntent]
    BY <2>4 DEF SameBooks, Docs, DocsIn
  <2> QED BY <2>1, <2>2, <2>3, <2>5
<1> QED BY <1>2, <1>4

(* A step from failed or paused management resumes it for a reason.          *)
LEMMA HaltedStep ==
  ASSUME PositionInv, [ManagementNext]_managementVars, managed.state \in Failed,
         managed'.state \in {"OPEN", "TARGET_PENDING"}
  PROVE  \/ managed'.pending # NoId /\ managed'.pending[1] = "manual"
         \/ managed'.closed[FinalTarget] > managed.closed[FinalTarget]
         \/ outrun
<1>1. managed' # managed BY DEF Failed
<1>2. Failed \subseteq Halted /\ "MANAGEMENT_PAUSED" \notin {"OPEN", "TARGET_PENDING"}
  BY DEF Failed, Halted
<1>3. PICK h \in Handlers, me \in Hands :
        /\ me = handler[h] /\ HandOK(me)
        /\ managed' = IF me.doc.pending = NoId THEN [me.doc EXCEPT !.intent = NoIntent]
                      ELSE me.doc
        /\ \/ me.pc = "store" /\ Follows(me)
           \/ me.pc = "reserve" /\ Reserving(me)
           \/ me.pc = "pause" /\ Pausing(me)
  BY <1>1, DocumentSaved
<1>4. /\ me.doc \in Docs /\ managed \in Docs
      /\ me.doc.closed[FinalTarget] \in Nat /\ managed.closed[FinalTarget] \in Nat
  BY HandTyped, AllocFacts DEF Hands, Docs, DocsIn
<1>5. /\ managed'.state = me.doc.state /\ managed'.closed = me.doc.closed
      /\ managed'.pending = me.doc.pending
  <2>1. CASE me.doc.pending = NoId BY <1>3, <1>4, <2>1 DEF Docs, DocsIn
  <2>2. CASE me.doc.pending # NoId BY <1>3, <2>2
  <2> QED BY <2>1, <2>2
<1>6. CASE Follows(me) BY <1>4, <1>5, <1>6 DEF Follows
<1>7. CASE me.pc = "reserve" /\ Reserving(me)
  <2>1. me.id # NoId /\ me.doc.pending = me.id BY <1>3, <1>7 DEF HandOK, Standing
  <2> QED BY <1>2, <1>5, <1>7, <2>1 DEF Reserving
<1>8. CASE Pausing(me) BY <1>2, <1>4, <1>5, <1>8 DEF Pausing, Docs, DocsIn
<1> QED BY <1>3, <1>6, <1>7, <1>8

-----------------------------------------------------------------------------
(* The theorems. *)

\* The broker's deals are counted once each, and no target is charged with more
\* than its allocation: for any number of targets, deals and heartbeats that
\* report them again, conflict or raise half-way.
THEOREM DealsAreCounted == ManagementSpec => []DealsCountOnce
<1>1. PositionInv => DealsCountOnce
  BY DEF PositionInv, ManagedOK, DocOK, Books, SeenVolumes, DealsCountOnce
<1> QED BY <1>1, PositionInitially, PositionInductive, PTL DEF ManagementSpec

\* A command the EA may still get is the reserved operation of the position or
\* the position is over, whatever heartbeats, operator and faults do meanwhile.
THEOREM OneOperationAtOnce == ManagementSpec => []OneOperation
<1>1. PositionInv => OneOperation BY DEF PositionInv, EntryOK, HeldBy, OneOperation
<1> QED BY <1>1, PositionInitially, PositionInductive, PTL DEF ManagementSpec

\* The plan's exits never sell more for a target than its allocation: no exit that
\* was uncertain, lost or filled in part is made again as a new order.
THEOREM ExitsAreMadeOnce == ManagementSpec => []ExitsNotRepeated
<1>1. PositionInv => ExitsNotRepeated BY DEF PositionInv
<1> QED BY <1>1, PositionInitially, PositionInductive, PTL DEF ManagementSpec

\* The position's document, proposals, commands and deals stay well formed, within
\* the position's volume.
THEOREM PositionTypeCorrect == ManagementSpec => []ManagementTypeOK
BY PositionBounded, PositionInitially, PositionInductive, PTL DEF ManagementSpec

\* A closed position keeps its books and, but for a heartbeat that outran the
\* closing, its document.
THEOREM ClosedStaysClosed == ManagementSpec => ClosedIsFinal
<1>1. PositionInv /\ [ManagementNext]_managementVars =>
        [managed.state = "POSITION_CLOSED" =>
           /\ [managed' EXCEPT !.pending = <<>>, !.intent = NoIntent, !.state = "POSITION_CLOSED"]
                = [managed EXCEPT !.pending = <<>>, !.intent = NoIntent]
           /\ managed'.state \in {"POSITION_CLOSED", "MANAGEMENT_PAUSED"}
           /\ ~outrun => managed' = managed]_managementVars
  BY ClosedStep
<1> QED
  BY <1>1, PositionInitially, PositionInductive, PTL DEF ManagementSpec, ClosedIsFinal

\* Failed or paused management goes on only by the operator's proposal or the
\* broker's own target, but for a heartbeat that outran the failure.
THEOREM HaltedStaysHalted == ManagementSpec => HaltedStays
<1>1. PositionInv /\ [ManagementNext]_managementVars =>
        [(managed.state \in {"MANAGEMENT_FAILED", "MANAGEMENT_PAUSED"}
            /\ managed'.state \in {"OPEN", "TARGET_PENDING"})
           => \/ managed'.pending # <<>> /\ managed'.pending[1] = "manual"
              \/ managed'.closed[FinalTarget] > managed.closed[FinalTarget]
              \/ outrun]_managementVars
  BY HaltedStep DEF Failed, NoId
<1> QED
  BY <1>1, PositionInitially, PositionInductive, PTL DEF ManagementSpec, HaltedStays
=============================================================================
