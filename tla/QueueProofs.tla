----------------------------- MODULE QueueProofs ----------------------------
(***************************************************************************)
(* Proofs about TelegramQueue, for any updates, workers and limits, with   *)
(* any number of lost calls, shutdowns and crashes.  An update is in one   *)
(* place of the queue at most, and the process that replies to it holds    *)
(* its lease.                                                              *)
(***************************************************************************)
EXTENDS TelegramQueue, FiniteSetTheorems, SequenceTheorems, TLAPS

WorkerState ==
  [pc : {"down", "recovering", "idle"} \cup Serving,
   command : Commands \cup {NoCommand}, token : Tokens \cup {0},
   replies : 0..MaxReplies, beat : BOOLEAN]

\* The types of Redis.
StoreTypes ==
  /\ pending \in Seq(Commands)
  /\ DOMAIN leased \subseteq Tokens
  /\ \A t \in DOMAIN leased : leased[t] \in Commands
  /\ expired \subseteq DOMAIN leased
  /\ dead \in Seq(Commands)
  /\ overflow \in Nat
  /\ accepted \subseteq Updates

\* Every queued update has been accepted and is in one place.
Placed ==
  /\ \A i \in DOMAIN pending : pending[i].update \in accepted
  /\ \A t \in DOMAIN leased : leased[t].update \in accepted
  /\ \A i, j \in DOMAIN pending : pending[i].update = pending[j].update => i = j
  /\ \A s, t \in DOMAIN leased : leased[s].update = leased[t].update => s = t
  /\ \A i \in DOMAIN pending, t \in DOMAIN leased :
       pending[i].update # leased[t].update

StoreInv == StoreTypes /\ Placed /\ AttemptsCounted

\* A step that changes at most the leases and their expiry times.
OnlyLeases == UNCHANGED <<pending, dead, overflow, accepted>>

\* enqueue keeps the queue.
LEMMA EnqueueStore ==
  ASSUME StoreInv, NEW u \in Updates, Enqueue(u)
  PROVE  StoreInv' /\ accepted \subseteq accepted' /\ leased' = leased
<1> USE QueueAssumption DEF StoreInv, StoreTypes, Placed, AttemptsCounted, Enqueue
<1>1. CASE u \in accepted
  BY <1>1
<1>2. CASE u \notin accepted
  <2> DEFINE c == [update |-> u, attempts |-> 0]
  <2>1. c \in Commands /\ c.update = u /\ c.attempts = 0
    BY DEF Commands
  <2>2. pending' = Append(pending, c)
    BY <1>2
  <2> HIDE DEF c
  <2>3. /\ pending' \in Seq(Commands)
        /\ DOMAIN pending' = 1..(Len(pending) + 1)
        /\ DOMAIN pending = 1..Len(pending)
        /\ Len(pending) \in Nat
        /\ pending'[Len(pending) + 1] = c
        /\ \A i \in DOMAIN pending : pending'[i] = pending[i]
    BY <2>1, <2>2
  <2>4. \A i \in DOMAIN pending' : i = Len(pending) + 1 \/ i \in DOMAIN pending
    BY <2>3
  <2>. QED  BY <1>2, <2>1, <2>3, <2>4
<1>. QED  BY <1>1, <1>2

\* A command that goes back to the queue keeps its place its own.
LEMMA Requeue ==
  ASSUME StoreInv, NEW t \in DOMAIN leased, NEW c \in Commands,
         c.update = leased[t].update, c.attempts < MaxAttempts,
         Unlease({t}), pending' = Append(pending, c),
         UNCHANGED <<dead, overflow, accepted>>
  PROVE  StoreInv'
<1> USE QueueAssumption DEF StoreInv, StoreTypes, Placed, AttemptsCounted, Unlease
<1>1. /\ pending' \in Seq(Commands)
      /\ DOMAIN pending' = 1..(Len(pending) + 1)
      /\ DOMAIN pending = 1..Len(pending)
      /\ Len(pending) \in Nat
      /\ pending'[Len(pending) + 1] = c
      /\ \A i \in DOMAIN pending : pending'[i] = pending[i]
  OBVIOUS
<1>2. \A i \in DOMAIN pending' : i = Len(pending) + 1 \/ i \in DOMAIN pending
  BY <1>1
<1>3. /\ DOMAIN leased' = DOMAIN leased \ {t}
      /\ \A s \in DOMAIN leased' : leased'[s] = leased[s]
  OBVIOUS
<1>4. \A s \in DOMAIN leased' : leased'[s].update # c.update
  BY <1>3
<1>. QED  BY <1>1, <1>2, <1>3, <1>4

\* A lease that ends, with the command finished.
LEMMA Unleased ==
  ASSUME StoreInv, NEW t \in DOMAIN leased, Unlease({t}), OnlyLeases
  PROVE  StoreInv'
<1>3. /\ DOMAIN leased' = DOMAIN leased \ {t}
      /\ \A s \in DOMAIN leased' : leased'[s] = leased[s]
  BY DEF Unlease
<1>. QED
  BY <1>3 DEF StoreInv, StoreTypes, Placed, AttemptsCounted, Unlease, OnlyLeases

\* The dead-letter list keeps its entries' form, trimmed or not.
LEMMA BuryDead ==
  ASSUME dead \in Seq(Commands), overflow \in Nat, NEW c \in Commands,
         \A i \in DOMAIN dead : dead[i].attempts = MaxAttempts,
         c.attempts = MaxAttempts, Bury(c)
  PROVE  /\ dead' \in Seq(Commands) /\ overflow' \in Nat
         /\ \A i \in DOMAIN dead' : dead'[i].attempts = MaxAttempts
<1> DEFINE longer == <<c>> \o dead
<1>1. /\ longer \in Seq(Commands)
      /\ Len(longer) = Len(dead) + 1
      /\ Len(dead) \in Nat
      /\ DOMAIN longer = 1..(Len(dead) + 1)
      /\ \A i \in DOMAIN longer : longer[i] = IF i = 1 THEN c ELSE dead[i - 1]
  OBVIOUS
<1>2. \A i \in DOMAIN longer : longer[i].attempts = MaxAttempts
  BY <1>1
<1> HIDE DEF longer
<1>3. CASE Len(longer) > DlqLength
  <2>1. dead' = SubSeq(longer, 1, DlqLength) /\ overflow' = overflow + Len(longer) - DlqLength
    BY <1>3 DEF Bury, longer
  <2>2. /\ dead' \in Seq(Commands)
        /\ DOMAIN dead' = 1..DlqLength
        /\ \A i \in DOMAIN dead' : dead'[i] = longer[i] /\ i \in DOMAIN longer
    BY <1>1, <1>3, <2>1, QueueAssumption
  <2>. QED  BY <1>1, <1>2, <1>3, <2>1, <2>2, QueueAssumption
<1>4. CASE ~(Len(longer) > DlqLength)
  BY <1>1, <1>2, <1>4 DEF Bury, longer
<1>. QED  BY <1>3, <1>4

\* retry keeps the queue: the command returns to it or is buried.
LEMMA RetryStore ==
  ASSUME StoreInv, NEW t \in DOMAIN leased, Retry(t, leased[t])
  PROVE  StoreInv' /\ Unlease({t}) /\ accepted' = accepted
<1> DEFINE again == [leased[t] EXCEPT !.attempts = @ + 1]
<1>1. /\ again \in Commands /\ again.update = leased[t].update
      /\ again.attempts = leased[t].attempts + 1
      /\ leased[t].attempts \in Nat /\ leased[t].attempts < MaxAttempts
  BY DEF StoreInv, StoreTypes, AttemptsCounted, Commands
<1>2. /\ Unlease({t}) /\ accepted' = accepted
      /\ \/ /\ again.attempts < MaxAttempts
            /\ pending' = Append(pending, again)
            /\ UNCHANGED <<dead, overflow>>
         \/ /\ again.attempts >= MaxAttempts
            /\ Bury(again)
            /\ UNCHANGED pending
  BY DEF Retry, Owned
<1> HIDE DEF again
<1>3. CASE again.attempts < MaxAttempts
  BY <1>1, <1>2, <1>3, Requeue, QueueAssumption
<1>4. CASE again.attempts >= MaxAttempts
  <2>1. again.attempts = MaxAttempts /\ Bury(again) /\ UNCHANGED pending
    BY <1>1, <1>2, <1>4, QueueAssumption
  <2>2. /\ dead' \in Seq(Commands) /\ overflow' \in Nat
        /\ \A i \in DOMAIN dead' : dead'[i].attempts = MaxAttempts
    BY <1>1, <2>1, BuryDead DEF StoreInv, StoreTypes, AttemptsCounted
  <2>3. /\ DOMAIN leased' = DOMAIN leased \ {t}
        /\ \A s \in DOMAIN leased' : leased'[s] = leased[s]
    BY <1>2 DEF Unlease
  <2>. QED
    BY <1>2, <2>1, <2>2, <2>3
       DEF StoreInv, StoreTypes, Placed, AttemptsCounted, Unlease
<1>. QED  BY <1>1, <1>2, <1>3, <1>4, QueueAssumption

\* dequeue keeps the queue, and its command is under the new token.
LEMMA DequeueStore ==
  ASSUME StoreInv, tokens \in Nat, DOMAIN leased \subseteq 1..tokens, Dequeue
  PROVE  /\ StoreInv'
         /\ accepted' = accepted
         /\ DOMAIN leased' = DOMAIN leased \cup {tokens + 1}
         /\ leased'[tokens + 1] = Head(pending)
         /\ \A s \in DOMAIN leased : leased'[s] = leased[s]
         /\ tokens' = tokens + 1 /\ tokens + 1 \in Tokens
         /\ Head(pending) \in Commands
         /\ tokens + 1 \notin DOMAIN leased
         /\ expired' = expired
<1> USE QueueAssumption DEF StoreInv, StoreTypes, Placed, AttemptsCounted
<1>1. /\ DOMAIN leased' = DOMAIN leased \cup {tokens + 1}
      /\ leased'[tokens + 1] = Head(pending)
      /\ tokens + 1 \notin DOMAIN leased
      /\ tokens' = tokens + 1 /\ tokens + 1 \in Tokens
      /\ UNCHANGED <<expired, dead, overflow, accepted>>
    BY DEF Dequeue, Lease, Tokens
<1>2. \A s \in DOMAIN leased : leased'[s] = leased[s]
    BY <1>1 DEF Dequeue, Lease
<1>3. /\ pending # <<>> /\ pending' = Tail(pending)
    BY DEF Dequeue
<1>4. /\ Len(pending) \in Nat /\ Len(pending) >= 1 /\ DOMAIN pending = 1..Len(pending)
      /\ Head(pending) = pending[1] /\ Head(pending) \in Commands
      /\ pending' \in Seq(Commands)
      /\ DOMAIN pending' = 1..(Len(pending) - 1)
      /\ \A i \in DOMAIN pending' : pending'[i] = pending[i + 1]
    BY <1>3
<1>5. \A i \in DOMAIN pending' : i + 1 \in DOMAIN pending /\ i \in Nat /\ i + 1 # 1
    BY <1>4
<1>6. 1 \in DOMAIN pending
    BY <1>4
<1>7. StoreTypes' /\ AttemptsCounted'
    BY <1>1, <1>2, <1>4, <1>5, <1>6
<1>8. Placed'
  <2>1. \A i, j \in DOMAIN pending' : pending'[i].update = pending'[j].update => i = j
    BY <1>4, <1>5
  <2>2. \A s, t \in DOMAIN leased' : leased'[s].update = leased'[t].update => s = t
    <3>1. leased'[tokens + 1] = pending[1]
      BY <1>1, <1>4
    <3>2. \A t \in DOMAIN leased : leased'[t].update # leased'[tokens + 1].update
      BY <1>2, <1>6, <3>1
    <3>3. \A t \in DOMAIN leased' : t \in DOMAIN leased \/ t = tokens + 1
      BY <1>1
    <3>. QED  BY <1>2, <3>2, <3>3
  <2>3. \A i \in DOMAIN pending', t \in DOMAIN leased' :
          pending'[i].update # leased'[t].update
    BY <1>1, <1>2, <1>4, <1>5, <1>6
  <2>. QED  BY <1>1, <1>2, <1>4, <1>5, <1>6, <2>1, <2>2, <2>3
<1>. QED  BY <1>1, <1>2, <1>4, <1>7, <1>8

\* Two lists of commands, one after the other.
LEMMA Joined ==
  ASSUME NEW a \in Seq(Commands), NEW b \in Seq(Commands)
  PROVE  /\ a \o b \in Seq(Commands)
         /\ Len(a \o b) = Len(a) + Len(b)
         /\ \A i \in 1..(Len(a) + Len(b)) :
              (a \o b)[i] = IF i <= Len(a) THEN a[i] ELSE b[i - Len(a)]
BY ConcatProperties

\* recovery keeps the queue: the commands of distinct tokens are distinct.
LEMMA RecoverStore ==
  ASSUME StoreInv, NEW ts \in Batch, Recover(ts)
  PROVE  StoreInv' /\ Unlease(ts) /\ ts \subseteq expired /\ accepted' = accepted
<1> USE QueueAssumption DEF StoreInv, StoreTypes, Placed, AttemptsCounted
<1>1. ts \subseteq expired /\ ts \subseteq DOMAIN leased /\ ts \subseteq Tokens
  BY DEF Batch
<1>2. Cardinality(ts) \in Nat
  <2>1. 1 \in Int /\ MaxTokens \in Int
    OBVIOUS
  <2>2. IsFiniteSet(Tokens)
    BY <2>1, FS_Interval DEF Tokens
  <2>3. IsFiniteSet(ts)
    BY <1>1, <2>2, FS_Subset
  <2>. QED  BY <2>3, FS_CardinalityType
<1> DEFINE n == Cardinality(ts)
<1>3. PICK order \in Orders(ts) :
        pending' = pending \o [i \in 1..n |-> leased[order[i]]]
  BY DEF Recover
<1>4. /\ \A i \in 1..n : order[i] \in ts
      /\ \A i, j \in 1..n : order[i] = order[j] => i = j
  BY <1>3 DEF Orders
<1> HIDE DEF n
<1> DEFINE back == [i \in 1..n |-> leased[order[i]]]
<1>5. /\ back \in Seq(Commands) /\ Len(back) = n /\ n \in Nat
      /\ \A i \in 1..n : back[i] = leased[order[i]]
  BY <1>1, <1>2, <1>4 DEF n
<1>6. pending' = pending \o back
  BY <1>3
<1> HIDE DEF back
<1>7. /\ pending' \in Seq(Commands)
      /\ Len(pending) \in Nat
      /\ DOMAIN pending = 1..Len(pending)
      /\ DOMAIN pending' = 1..(Len(pending) + n)
      /\ \A i \in DOMAIN pending' :
           pending'[i] = IF i <= Len(pending) THEN pending[i] ELSE back[i - Len(pending)]
  <2>1. pending \in Seq(Commands) /\ back \in Seq(Commands)
    BY <1>5
  <2>2. /\ pending \o back \in Seq(Commands)
        /\ Len(pending \o back) = Len(pending) + Len(back)
        /\ \A i \in 1..(Len(pending) + Len(back)) :
             (pending \o back)[i] = IF i <= Len(pending) THEN pending[i] ELSE back[i - Len(pending)]
    BY <2>1, Joined
  <2>3. Len(pending) \in Nat /\ DOMAIN pending = 1..Len(pending)
    BY <2>1
  <2>. QED  BY <1>5, <1>6, <2>2, <2>3
<1>8. \A i \in DOMAIN pending' :
        \/ i \in DOMAIN pending /\ pending'[i] = pending[i]
        \/ /\ i - Len(pending) \in 1..n
           /\ i \notin DOMAIN pending
           /\ pending'[i] = leased[order[i - Len(pending)]]
           /\ order[i - Len(pending)] \in ts
  BY <1>4, <1>5, <1>7
<1>9. /\ DOMAIN leased' = DOMAIN leased \ ts
      /\ \A s \in DOMAIN leased' : leased'[s] = leased[s]
      /\ expired' = expired \ ts
      /\ UNCHANGED <<dead, overflow, accepted>>
      /\ Unlease(ts)
  BY DEF Recover, Unlease
<1>10. StoreTypes' /\ AttemptsCounted'
  <2>1. StoreTypes'
    BY <1>1, <1>7, <1>9
  <2>2. \A i \in DOMAIN pending' : pending'[i].attempts < MaxAttempts
    BY <1>1, <1>8
  <2>. QED  BY <1>9, <2>1, <2>2
<1>11. Placed'
  <2>1. ASSUME NEW i \in DOMAIN pending', NEW j \in DOMAIN pending',
               pending'[i].update = pending'[j].update
        PROVE  i = j
    <3>1. CASE i \in DOMAIN pending /\ j \in DOMAIN pending
      BY <1>8, <2>1, <3>1
    <3>2. CASE i \notin DOMAIN pending /\ j \notin DOMAIN pending
      <4>1. order[i - Len(pending)] = order[j - Len(pending)]
        BY <1>1, <1>8, <2>1, <3>2
      <4>2. i - Len(pending) = j - Len(pending)
        BY <1>4, <1>8, <3>2, <4>1
      <4>. QED  BY <1>7, <4>2
    <3>3. CASE i \in DOMAIN pending /\ j \notin DOMAIN pending
      BY <1>1, <1>8, <2>1, <3>3
    <3>4. CASE i \notin DOMAIN pending /\ j \in DOMAIN pending
      BY <1>1, <1>8, <2>1, <3>4
    <3>. QED  BY <3>1, <3>2, <3>3, <3>4
  <2>2. ASSUME NEW i \in DOMAIN pending', NEW t \in DOMAIN leased'
        PROVE  pending'[i].update # leased'[t].update /\ pending'[i].update \in accepted
    BY <1>1, <1>8, <1>9
  <2>3. \A i \in DOMAIN pending' : pending'[i].update \in accepted
    BY <1>1, <1>8
  <2>. QED  BY <1>9, <2>1, <2>2, <2>3
<1>. QED  BY <1>1, <1>9, <1>10, <1>11

----------------------------------------------------------------------------
\* A process that serves a command has a token of its own; while the token
\* owns a lease, the lease is of that command, and one that is about to reply
\* owns a lease that has not expired.
Holds(w) ==
  /\ worker[w].pc \in Serving <=> worker[w].token # 0
  /\ worker[w].token \in 0..tokens
  /\ worker[w].token = 0 => ~worker[w].beat
  /\ worker[w].token # 0 => worker[w].command.update \in accepted
  /\ Owned(worker[w].token) => leased[worker[w].token] = worker[w].command
  /\ worker[w].pc = "sending" =>
       Owned(worker[w].token) /\ worker[w].token \notin expired /\ worker[w].replies > 0

TokensDiffer ==
  \A v, w \in Workers : worker[v].token = worker[w].token /\ worker[v].token # 0 => v = w

WorkersTyped == worker \in [Workers -> WorkerState]

Counted ==
  /\ tokens \in 0..MaxTokens
  /\ stops \in 0..MaxStops
  /\ faults \in 0..MaxFaults
  /\ answered \subseteq accepted
  /\ finished \subseteq accepted
  /\ DOMAIN leased \subseteq 1..tokens

QueueInv ==
  /\ StoreInv
  /\ WorkersTyped
  /\ Counted
  /\ TokensDiffer
  /\ \A w \in Workers : Holds(w)

\* A process between commands is well formed.
LEMMA Resting ==
  ASSUME NEW pc \in {"down", "recovering", "idle"}
  PROVE  /\ At(pc) \in WorkerState
         /\ At(pc).pc = pc /\ At(pc).token = 0 /\ At(pc).beat = FALSE
BY QueueAssumption DEF At, WorkerState, Commands, Serving

\* A process that comes to rest gives up its token; the other processes keep
\* theirs, as long as no lease but this process's changes hands.
LEMMA Rests ==
  ASSUME QueueInv, NEW w \in Workers, NEW pc \in {"down", "recovering", "idle"},
         Becomes(w, At(pc)),
         accepted' = accepted, tokens' = tokens,
         \A t \in DOMAIN leased' : t \in DOMAIN leased /\ leased'[t] = leased[t],
         \A v \in Workers : v # w /\ worker[v].pc = "sending" =>
             worker[v].token \in DOMAIN leased' /\ worker[v].token \notin expired'
  PROVE  WorkersTyped' /\ TokensDiffer' /\ \A v \in Workers : Holds(v)'
<1>1. /\ At(pc) \in WorkerState
      /\ At(pc).pc = pc /\ At(pc).token = 0 /\ At(pc).beat = FALSE
  BY Resting
<1>2. /\ worker'[w] = At(pc)
      /\ \A v \in Workers : v # w => worker'[v] = worker[v]
      /\ WorkersTyped'
  BY <1>1 DEF Becomes, QueueInv, WorkersTyped
<1>3. 0 \notin DOMAIN leased' /\ pc \notin Serving /\ pc # "sending" /\ tokens \in Nat
  BY QueueAssumption DEF QueueInv, Counted, Serving, StoreInv, StoreTypes, Tokens
<1>4. Holds(w)'
  BY <1>1, <1>2, <1>3 DEF Holds, Owned
<1>5. ASSUME NEW v \in Workers, v # w  PROVE  Holds(v)'
  BY <1>2, <1>5 DEF Holds, Owned, QueueInv
<1>6. TokensDiffer'
  BY <1>1, <1>2 DEF TokensDiffer, QueueInv
<1>. QED  BY <1>2, <1>4, <1>5, <1>6

\* A step that leaves Redis alone but for new expiry times, and every process
\* its command and its token.
LEMMA GoesOn ==
  ASSUME QueueInv, NEW w \in Workers, NEW s \in WorkerState,
         worker' = [worker EXCEPT ![w] = s],
         s.token = worker[w].token, s.command = worker[w].command,
         s.pc \in Serving <=> worker[w].pc \in Serving,
         s.beat => worker[w].beat,
         leased' = leased, accepted' = accepted, tokens' = tokens,
         expired' \subseteq expired,
         s.pc = "sending" => Owned(s.token) /\ s.token \notin expired' /\ s.replies > 0
  PROVE  WorkersTyped' /\ TokensDiffer' /\ \A v \in Workers : Holds(v)'
<1>1. /\ worker'[w] = s
      /\ \A v \in Workers : v # w => worker'[v] = worker[v]
      /\ WorkersTyped'
  BY DEF QueueInv, WorkersTyped
<1>2. Holds(w)'
  BY <1>1 DEF Holds, Owned, QueueInv
<1>3. ASSUME NEW v \in Workers, v # w  PROVE  Holds(v)'
  BY <1>1, <1>3 DEF Holds, Owned, QueueInv
<1>4. TokensDiffer'
  BY <1>1 DEF TokensDiffer, QueueInv
<1>. QED  BY <1>1, <1>2, <1>3, <1>4

\* Renewal changes expiry times only.
LEMMA RenewStore ==
  ASSUME StoreInv, NEW t, Renew(t)
  PROVE  /\ StoreInv' /\ leased' = leased /\ accepted' = accepted
         /\ expired' = expired \ {t} /\ Owned(t)
BY DEF Renew, StoreInv, StoreTypes, Placed, AttemptsCounted

\* A step that leaves Redis alone.
LEMMA StoreStutter ==
  ASSUME StoreInv, UNCHANGED redis
  PROVE  StoreInv' /\ leased' = leased /\ expired' = expired /\ accepted' = accepted
BY DEF redis, StoreInv, StoreTypes, Placed, AttemptsCounted

\* The counters and histories stay within their bounds.
LEMMA CountersStep ==
  ASSUME QueueInv,
         accepted \subseteq accepted',
         UNCHANGED finished \/
           \E t \in DOMAIN leased : finished' = finished \cup {leased[t].update},
         UNCHANGED answered \/
           \E u \in accepted' : answered' = answered \cup {u},
         UNCHANGED stops \/ Stopping,
         UNCHANGED faults \/ Fault,
         tokens' \in 0..MaxTokens,
         DOMAIN leased' \subseteq 1..tokens'
  PROVE  Counted'
BY QueueAssumption DEF QueueInv, Counted, Stopping, Fault, StoreInv, Placed

\* The end of a lease by the process that holds its token: nothing of the
\* other processes changes.
LEMMA OthersKeep ==
  ASSUME QueueInv, NEW w \in Workers, worker[w].token # 0, Unlease({worker[w].token})
  PROVE  /\ \A t \in DOMAIN leased' : t \in DOMAIN leased /\ leased'[t] = leased[t]
         /\ \A v \in Workers : v # w /\ worker[v].pc = "sending" =>
              worker[v].token \in DOMAIN leased' /\ worker[v].token \notin expired'
<1>1. /\ DOMAIN leased' = DOMAIN leased \ {worker[w].token}
      /\ \A t \in DOMAIN leased' : leased'[t] = leased[t]
      /\ expired' = expired \ {worker[w].token}
  BY DEF Unlease
<1>2. \A v \in Workers : v # w /\ worker[v].pc = "sending" =>
        /\ worker[v].token \in DOMAIN leased /\ worker[v].token \notin expired
        /\ worker[v].token # worker[w].token
  BY DEF QueueInv, Holds, Owned, TokensDiffer
<1>. QED  BY <1>1, <1>2

\* A process that comes to rest without touching Redis, or touching only what
\* belongs to no process that replies, keeps the invariant.
LEMMA RestKeeps ==
  ASSUME QueueInv, NEW w \in Workers, NEW pc \in {"down", "recovering", "idle"},
         Becomes(w, At(pc)), StoreInv', accepted' = accepted, UNCHANGED <<answered, tokens>>,
         UNCHANGED finished \/
           \E t \in DOMAIN leased : finished' = finished \cup {leased[t].update},
         UNCHANGED stops \/ Stopping, UNCHANGED faults \/ Fault,
         \/ leased' = leased /\ expired' \subseteq expired
         \/ worker[w].token # 0 /\ Unlease({worker[w].token})
         \/ \E ts \in SUBSET expired : Unlease(ts)
  PROVE  QueueInv'
<1>1. /\ \A t \in DOMAIN leased' : t \in DOMAIN leased /\ leased'[t] = leased[t]
      /\ \A v \in Workers : v # w /\ worker[v].pc = "sending" =>
              worker[v].token \in DOMAIN leased' /\ worker[v].token \notin expired'
  <2>1. CASE leased' = leased /\ expired' \subseteq expired
    BY <2>1 DEF QueueInv, Holds, Owned
  <2>2. CASE worker[w].token # 0 /\ Unlease({worker[w].token})
    BY <2>2, OthersKeep
  <2>3. CASE \E ts \in SUBSET expired : Unlease(ts)
    BY <2>3 DEF QueueInv, Holds, Owned, Unlease
  <2>. QED  BY <2>1, <2>2, <2>3
<1>2. WorkersTyped' /\ TokensDiffer' /\ \A v \in Workers : Holds(v)'
  BY <1>1, Rests
<1>3. Counted'
  BY <1>1, CountersStep DEF QueueInv, Counted
<1>. QED  BY <1>2, <1>3 DEF QueueInv

\* A process that goes on with its command keeps the invariant.
LEMMA GoesOnKeeps ==
  ASSUME QueueInv, NEW w \in Workers, NEW s \in WorkerState,
         worker' = [worker EXCEPT ![w] = s],
         s.token = worker[w].token, s.command = worker[w].command,
         s.pc \in Serving <=> worker[w].pc \in Serving,
         s.beat => worker[w].beat,
         StoreInv', leased' = leased, accepted' = accepted,
         expired' \subseteq expired,
         s.pc = "sending" => Owned(s.token) /\ s.token \notin expired' /\ s.replies > 0,
         UNCHANGED <<answered, finished, tokens, stops>>, UNCHANGED faults \/ Fault
  PROVE  QueueInv'
<1>1. WorkersTyped' /\ TokensDiffer' /\ \A v \in Workers : Holds(v)'
  BY GoesOn
<1>2. Counted'
  BY CountersStep DEF QueueInv, Counted
<1>. QED  BY <1>1, <1>2 DEF QueueInv

\* Every step keeps the invariant.
LEMMA QueueStep == QueueInv /\ [Next]_vars => QueueInv'
<1> SUFFICES ASSUME QueueInv, [Next]_vars PROVE QueueInv'
  OBVIOUS
<1>s. StoreInv /\ WorkersTyped /\ Counted /\ tokens \in Nat
  BY QueueAssumption DEF QueueInv, Counted
<1>1. ASSUME NEW u \in Updates, Webhook(u)  PROVE QueueInv'
  <2>1. StoreInv' /\ accepted \subseteq accepted' /\ leased' = leased
    BY <1>1, <1>s, EnqueueStore DEF Webhook
  <2>2. /\ expired' = expired /\ worker' = worker /\ u \in accepted'
        /\ UNCHANGED <<finished, tokens, stops>>
        /\ UNCHANGED faults \/ Fault
        /\ UNCHANGED answered \/ answered' = answered \cup {u}
    BY <1>1 DEF Webhook, Enqueue
  <2>3. Counted'
    BY <1>s, <2>1, <2>2, CountersStep DEF Counted
  <2>4. WorkersTyped' /\ TokensDiffer' /\ \A w \in Workers : Holds(w)'
    BY <2>1, <2>2 DEF QueueInv, WorkersTyped, TokensDiffer, Holds, Owned
  <2>. QED  BY <2>1, <2>3, <2>4 DEF QueueInv
<1>2. ASSUME NEW t \in Tokens, Expire(t)  PROVE QueueInv'
  <2>1. /\ expired' = expired \cup {t} /\ t \in DOMAIN leased /\ ~Kept(t)
        /\ UNCHANGED <<pending, leased, dead, overflow, accepted, answered,
                      worker, finished, bounds>>
    BY <1>2 DEF Expire, Owned
  <2>2. StoreInv'
    BY <1>s, <2>1 DEF StoreInv, StoreTypes, Placed, AttemptsCounted
  <2>3. Counted'
    BY <1>s, <2>1 DEF Counted, bounds
  <2>4. ASSUME NEW w \in Workers  PROVE Holds(w)'
    <3>1. worker[w].pc = "sending" => worker[w].token # t
      BY <2>1 DEF Kept
    <3>. QED  BY <2>1, <3>1 DEF QueueInv, Holds, Owned, bounds
  <2>5. WorkersTyped' /\ TokensDiffer'
    BY <2>1 DEF QueueInv, WorkersTyped, TokensDiffer
  <2>. QED  BY <2>2, <2>3, <2>4, <2>5 DEF QueueInv
<1>3. ASSUME NEW w \in Workers,
             Serve(w) \/ TakeLost(w) \/ Heartbeat(w) \/ Fails(w) \/ Shutdown(w) \/ Crash(w)
      PROVE  QueueInv'
  <2>w. /\ worker[w] \in WorkerState
        /\ Holds(w)
        /\ worker[w].pc \in Serving => worker[w].token # 0
    BY <1>s DEF QueueInv, WorkersTyped, Holds
  <2>1. CASE Start(w) \/ Crash(w)
    <3>1. /\ UNCHANGED <<redis, answered, finished, tokens, faults>>
          /\ UNCHANGED stops \/ Stopping
          /\ \E pc \in {"down", "recovering", "idle"} : Becomes(w, At(pc))
      BY <2>1 DEF Start, Crash, bounds
    <3>. QED  BY <1>s, <3>1, StoreStutter, RestKeeps
  <2>2. CASE RecoverStep(w)
    <3>1. PICK ts \in Batch : Recover(ts) /\ (\E pc \in {"down", "recovering", "idle"} : Becomes(w, At(pc)))
                                /\ (UNCHANGED faults \/ Fault)
      BY <2>2 DEF RecoverStep
    <3>2. StoreInv' /\ Unlease(ts) /\ ts \in SUBSET expired /\ accepted' = accepted
      BY <1>s, <3>1, RecoverStore
    <3>3. UNCHANGED <<answered, finished, tokens, stops>>
      BY <2>2 DEF RecoverStep
    <3>. QED  BY <3>1, <3>2, <3>3, RestKeeps
  <2>3. CASE Take(w)
    <3>d. /\ StoreInv' /\ accepted' = accepted
          /\ DOMAIN leased' = DOMAIN leased \cup {tokens + 1}
          /\ leased'[tokens + 1] = Head(pending)
          /\ \A s \in DOMAIN leased : leased'[s] = leased[s]
          /\ tokens' = tokens + 1 /\ tokens + 1 \in Tokens
          /\ Head(pending) \in Commands
          /\ tokens + 1 \notin DOMAIN leased
          /\ expired' = expired
      BY <1>s, <2>3, DequeueStore DEF Take, Counted
    <3>1. PICK n \in 0..MaxReplies :
            worker' = [worker EXCEPT ![w] =
              [pc |-> "handling", command |-> Head(pending), token |-> tokens + 1,
               replies |-> n, beat |-> TRUE]]
      BY <2>3 DEF Take, Becomes
    <3> DEFINE s == [pc |-> "handling", command |-> Head(pending), token |-> tokens + 1,
                     replies |-> n, beat |-> TRUE]
    <3>2. s \in WorkerState /\ s.pc = "handling" /\ s.token = tokens + 1 /\ s.command = Head(pending)
      BY <3>d DEF WorkerState, Serving
    <3> HIDE DEF s
    <3>3. /\ worker'[w] = s /\ WorkersTyped'
          /\ \A v \in Workers : v # w => worker'[v] = worker[v]
      BY <1>s, <3>1, <3>2 DEF WorkersTyped, s
    <3>4. \A v \in Workers : worker[v].token \in 0..tokens /\ worker[v].token # tokens + 1
      BY <1>s DEF QueueInv, Holds
    <3>5. Head(pending).update \in accepted'
      BY <3>d DEF StoreInv, Placed
    <3>6. Holds(w)'
      BY <1>s, <3>d, <3>2, <3>3, <3>5 DEF Holds, Owned, Serving
    <3>7. ASSUME NEW v \in Workers, v # w  PROVE Holds(v)'
      BY <1>s, <3>d, <3>3, <3>4, <3>7 DEF Holds, Owned, QueueInv
    <3>8. TokensDiffer'
      BY <3>2, <3>3, <3>4 DEF TokensDiffer, QueueInv
    <3>9. Counted'
      <4>1. UNCHANGED <<answered, finished, stops, faults>>
        BY <2>3 DEF Take
      <4>. QED  BY <1>s, <3>d, <4>1, QueueAssumption DEF Counted, Tokens
    <3>. QED  BY <3>d, <3>3, <3>6, <3>7, <3>8, <3>9 DEF QueueInv
  <2>4. CASE TakeLost(w)
    <3>d. /\ StoreInv' /\ accepted' = accepted
          /\ DOMAIN leased' = DOMAIN leased \cup {tokens + 1}
          /\ \A s \in DOMAIN leased : leased'[s] = leased[s]
          /\ tokens' = tokens + 1 /\ tokens + 1 \in Tokens
          /\ expired' = expired
      BY <1>s, <2>4, DequeueStore DEF TakeLost, Counted
    <3>1. UNCHANGED <<answered, worker, finished, stops>> /\ Fault
      BY <2>4 DEF TakeLost
    <3>2. Counted'
      BY <1>s, <3>d, <3>1, QueueAssumption DEF Counted, Tokens, Fault
    <3>3. WorkersTyped' /\ TokensDiffer'
      BY <3>1 DEF QueueInv, WorkersTyped, TokensDiffer
    <3>4. ASSUME NEW v \in Workers PROVE Holds(v)'
      <4>1. worker[v].token \in 0..tokens /\ worker[v].token # tokens + 1
        BY <1>s DEF QueueInv, Holds
      <4>. QED  BY <1>s, <3>d, <3>1, <4>1 DEF Holds, Owned, QueueInv
    <3>. QED  BY <3>d, <3>2, <3>3, <3>4 DEF QueueInv
  <2>5. CASE Check(w) \/ Send(w) \/ Fails(w) \/ Returns(w) \/ Heartbeat(w)
    <3>n. UNCHANGED <<answered, finished, tokens, stops>> /\ (UNCHANGED faults \/ Fault)
      BY <2>5 DEF Check, Send, Fails, Returns, Heartbeat, bounds, Fault
    <3>r. UNCHANGED redis \/ Renew(worker[w].token) =>
            /\ StoreInv' /\ leased' = leased /\ accepted' = accepted /\ expired' \subseteq expired
      BY <1>s, RenewStore, StoreStutter
    <3>1. CASE /\ worker[w].pc = "handling" /\ worker[w].replies > 0
               /\ Renew(worker[w].token) /\ Goes(w, "sending")
      <4> DEFINE s == [worker[w] EXCEPT !.pc = "sending"]
      <4>1. /\ s \in WorkerState /\ s.pc = "sending" /\ s.token = worker[w].token
            /\ s.command = worker[w].command /\ s.beat = worker[w].beat
            /\ s.replies = worker[w].replies
        BY <2>w DEF WorkerState, Serving
      <4>2. worker' = [worker EXCEPT ![w] = s]
        BY <3>1 DEF Goes
      <4> HIDE DEF s
      <4>. QED  BY <1>s, <3>n, <3>1, <4>1, <4>2, RenewStore, GoesOnKeeps DEF Serving
    <3>2. CASE /\ worker[w].pc \in Serving
               /\ UNCHANGED redis \/ Renew(worker[w].token)
               /\ Goes(w, "failed") \/ Goes(w, "finishing")
      <4>1. PICK pc \in {"failed", "finishing"} : worker' = [worker EXCEPT ![w].pc = pc]
        BY <3>2 DEF Goes
      <4> DEFINE s == [worker[w] EXCEPT !.pc = pc]
      <4>2. /\ s \in WorkerState /\ s.pc = pc /\ s.token = worker[w].token
            /\ s.command = worker[w].command /\ s.beat = worker[w].beat
        BY <2>w DEF WorkerState, Serving
      <4>3. worker' = [worker EXCEPT ![w] = s]
        BY <4>1
      <4> HIDE DEF s
      <4>. QED  BY <3>n, <3>r, <3>2, <4>2, <4>3, GoesOnKeeps DEF Serving
    <3>3. CASE Send(w)
      <4> DEFINE s == [worker[w] EXCEPT !.pc = "handling", !.replies = @ - 1]
      <4>1. worker[w].replies - 1 \in 0..MaxReplies
        BY <2>w, <3>3, QueueAssumption DEF Send, Holds, WorkerState
      <4>2. /\ s \in WorkerState /\ s.pc = "handling" /\ s.token = worker[w].token
            /\ s.command = worker[w].command /\ s.beat = worker[w].beat
        BY <2>w, <4>1 DEF WorkerState, Serving
      <4>3. worker' = [worker EXCEPT ![w] = s] /\ UNCHANGED redis /\ worker[w].pc \in Serving
        BY <3>3 DEF Send, Serving
      <4> HIDE DEF s
      <4>. QED  BY <3>n, <3>r, <4>2, <4>3, GoesOnKeeps DEF Serving
    <3>4. CASE Heartbeat(w)
      <4>1. PICK b \in BOOLEAN : worker' = [worker EXCEPT ![w].beat = b] /\ (b => worker[w].beat)
        <5>1. worker' = worker => worker' = [worker EXCEPT ![w].beat = worker[w].beat]
          BY <1>s, <2>w DEF WorkersTyped, WorkerState
        <5>2. worker[w].beat \in BOOLEAN
          BY <2>w DEF WorkerState
        <5>. QED  BY <3>4, <5>1, <5>2 DEF Heartbeat
      <4>2. UNCHANGED redis \/ Renew(worker[w].token)
        BY <3>4 DEF Heartbeat
      <4> DEFINE s == [worker[w] EXCEPT !.beat = b]
      <4>3. /\ s \in WorkerState /\ s.pc = worker[w].pc /\ s.token = worker[w].token
            /\ s.command = worker[w].command /\ s.beat = b /\ s.replies = worker[w].replies
        BY <2>w DEF WorkerState
      <4>4. worker' = [worker EXCEPT ![w] = s]
        BY <4>1
      <4> HIDE DEF s
      <4>. QED  BY <2>w, <3>n, <3>r, <4>1, <4>2, <4>3, <4>4, GoesOnKeeps DEF Holds
    <3>5. CASE Becomes(w, At("idle")) /\ UNCHANGED redis
      BY <1>s, <3>n, <3>5, StoreStutter, RestKeeps
    <3>. QED
      BY <2>5, <3>1, <3>2, <3>3, <3>4, <3>5
         DEF Check, Fails, Returns, Serving, bounds, redis
  <2>6. CASE FinishStep(w)
    <3>1. /\ Becomes(w, At("idle")) /\ UNCHANGED <<answered, tokens, stops>>
          /\ worker[w].token # 0
          /\ UNCHANGED faults \/ Fault
      BY <2>6, <2>w DEF FinishStep, Serving
    <3>2. CASE Owned(worker[w].token) /\ Finish(worker[w].token)
      <4>1. /\ worker[w].token \in DOMAIN leased /\ Unlease({worker[w].token})
            /\ OnlyLeases
            /\ finished' = finished \cup {leased[worker[w].token].update}
        BY <3>2 DEF Finish, Owned, OnlyLeases
      <4>2. StoreInv' /\ accepted' = accepted
        BY <1>s, <4>1, Unleased DEF OnlyLeases
      <4>. QED  BY <3>1, <4>1, <4>2, RestKeeps
    <3>3. CASE UNCHANGED <<redis, finished>>
      BY <1>s, <3>1, <3>3, StoreStutter, RestKeeps
    <3>. QED  BY <2>6, <3>2, <3>3 DEF FinishStep, Finish
  <2>7. CASE RetryStep(w)
    <3>1. /\ Becomes(w, At("idle")) /\ UNCHANGED <<answered, finished, tokens, stops>>
          /\ worker[w].token # 0
          /\ UNCHANGED faults \/ Fault
      BY <2>7, <2>w DEF RetryStep, Serving
    <3>2. CASE Owned(worker[w].token) /\ Retry(worker[w].token, worker[w].command)
      <4>1. worker[w].token \in DOMAIN leased /\ worker[w].command = leased[worker[w].token]
        BY <2>w, <3>2 DEF Holds, Owned
      <4>2. StoreInv' /\ Unlease({worker[w].token}) /\ accepted' = accepted
        BY <1>s, <3>2, <4>1, RetryStore
      <4>. QED  BY <3>1, <4>2, RestKeeps
    <3>3. CASE UNCHANGED redis
      BY <1>s, <3>1, <3>3, StoreStutter, RestKeeps
    <3>. QED  BY <2>7, <3>2, <3>3 DEF RetryStep, Retry
  <2>8. CASE Shutdown(w)
    <3>1. /\ Becomes(w, At("down")) /\ UNCHANGED <<answered, finished>> /\ Stopping
          /\ UNCHANGED faults \/ Fault
      BY <2>8 DEF Shutdown
    <3>2. CASE /\ worker[w].pc \in {"handling", "sending"} /\ UNCHANGED tokens
               /\ Owned(worker[w].token) /\ Release(worker[w].token, worker[w].command)
      <4>1. /\ worker[w].token \in DOMAIN leased /\ worker[w].command = leased[worker[w].token]
            /\ worker[w].token # 0
        BY <2>w, <3>2 DEF Holds, Owned, Serving
      <4>2. /\ Unlease({worker[w].token}) /\ UNCHANGED <<dead, overflow, accepted>>
            /\ pending' = Append(pending, leased[worker[w].token])
        BY <3>2, <4>1 DEF Release, Owned
      <4>3. /\ leased[worker[w].token] \in Commands
            /\ leased[worker[w].token].attempts < MaxAttempts
        BY <1>s, <4>1 DEF StoreInv, StoreTypes, AttemptsCounted
      <4>4. StoreInv'
        BY <1>s, <4>1, <4>2, <4>3, Requeue
      <4>. QED  BY <3>1, <3>2, <4>1, <4>2, <4>4, RestKeeps
    <3>3. CASE UNCHANGED redis /\ UNCHANGED tokens
      BY <1>s, <3>1, <3>3, StoreStutter, RestKeeps
    <3>4. CASE Dequeue
      <4>1. /\ StoreInv' /\ accepted' = accepted
            /\ DOMAIN leased' = DOMAIN leased \cup {tokens + 1}
            /\ \A s \in DOMAIN leased : leased'[s] = leased[s]
            /\ tokens' = tokens + 1 /\ tokens + 1 \in Tokens
            /\ expired' = expired
        BY <1>s, <3>4, DequeueStore DEF Counted
      <4>2. /\ At("down") \in WorkerState
            /\ At("down").pc = "down" /\ At("down").token = 0 /\ At("down").beat = FALSE
        BY Resting
      <4>3. /\ worker'[w] = At("down") /\ WorkersTyped'
            /\ \A v \in Workers : v # w => worker'[v] = worker[v]
        BY <1>s, <3>1, <4>2 DEF Becomes, WorkersTyped
      <4>4. Counted'
        BY <1>s, <3>1, <4>1, QueueAssumption DEF Counted, Tokens, Fault, Stopping
      <4>5. TokensDiffer'
        BY <4>2, <4>3 DEF TokensDiffer, QueueInv
      <4>6. ASSUME NEW v \in Workers PROVE Holds(v)'
        <5>1. worker[v].token \in 0..tokens /\ worker[v].token # tokens + 1 /\ 0 \notin DOMAIN leased'
          BY <1>s, <4>1 DEF QueueInv, Holds, StoreInv, StoreTypes, Tokens
        <5>2. CASE v = w
          BY <1>s, <4>1, <4>2, <4>3, <5>1, <5>2 DEF Holds, Owned, Serving
        <5>3. CASE v # w
          BY <1>s, <4>1, <4>3, <5>1, <5>3 DEF Holds, Owned, QueueInv
        <5>. QED  BY <5>2, <5>3
      <4>. QED  BY <4>1, <4>3, <4>4, <4>5, <4>6 DEF QueueInv
    <3>. QED  BY <2>8, <3>2, <3>3, <3>4 DEF Shutdown, Release, redis
  <2>. QED
    BY <1>3, <2>1, <2>2, <2>3, <2>4, <2>5, <2>6, <2>7, <2>8 DEF Serve
<1>4. CASE UNCHANGED vars
  BY <1>4, <1>s, StoreStutter
     DEF vars, QueueInv, WorkersTyped, Counted, TokensDiffer, Holds, Owned, bounds, redis
<1>. QED  BY <1>1, <1>2, <1>3, <1>4 DEF Next

\* At first the queue is empty and every process is down.
LEMMA QueueInit == Init => QueueInv
<1> SUFFICES ASSUME Init PROVE QueueInv
  OBVIOUS
<1>1. /\ At("down") \in WorkerState
      /\ At("down").pc = "down" /\ At("down").token = 0 /\ At("down").beat = FALSE
  BY Resting
<1>2. \A w \in Workers : worker[w] = At("down")
  BY DEF Init
<1>3. DOMAIN leased = {} /\ DOMAIN pending = {} /\ DOMAIN dead = {}
  BY DEF Init
<1>4. StoreInv
  BY <1>3 DEF Init, StoreInv, StoreTypes, Placed, AttemptsCounted
<1>5. WorkersTyped
  BY <1>1 DEF Init, WorkersTyped
<1>6. Counted
  BY <1>3, QueueAssumption DEF Init, Counted
<1>7. TokensDiffer /\ \A w \in Workers : Holds(w)
  BY <1>1, <1>2, <1>3 DEF Init, TokensDiffer, Holds, Owned, Serving
<1>. QED  BY <1>4, <1>5, <1>6, <1>7 DEF QueueInv

\* The invariant holds of every behaviour.
LEMMA QueueAlways == Spec => []QueueInv
BY QueueInit, QueueStep, PTL DEF Spec

\* The queue, its leases, the dead letters and the workers stay well formed.
THEOREM QueueTypes == Spec => []TypeOK
<1>1. QueueInv => TypeOK
  BY DEF QueueInv, StoreInv, StoreTypes, WorkersTyped, WorkerState, Counted, TypeOK
<1>. QED  BY <1>1, QueueAlways, PTL

\* Commands are tried MaxAttempts times before they are buried, whatever is
\* lost, released or recovered in between.
THEOREM AttemptsAreCounted == Spec => []AttemptsCounted
<1>1. QueueInv => AttemptsCounted
  BY DEF QueueInv, StoreInv
<1>. QED  BY <1>1, QueueAlways, PTL

\* Two processes never reply to one command at the same time.
THEOREM SingleSender == Spec => []OneSender
<1>1. QueueInv => OneSender
  <2> SUFFICES ASSUME QueueInv, NEW v \in Workers, NEW w \in Workers,
                      worker[v].pc = "sending", worker[w].pc = "sending",
                      worker[v].command.update = worker[w].command.update
               PROVE  v = w
    BY DEF OneSender
  <2>1. /\ worker[v].token \in DOMAIN leased /\ worker[w].token \in DOMAIN leased
        /\ leased[worker[v].token] = worker[v].command
        /\ leased[worker[w].token] = worker[w].command
        /\ worker[v].token # 0
    BY DEF QueueInv, Holds, Owned, Serving
  <2>2. worker[v].token = worker[w].token
    BY <2>1 DEF QueueInv, StoreInv, Placed
  <2>. QED  BY <2>1, <2>2 DEF QueueInv, TokensDiffer
<1>. QED  BY <1>1, QueueAlways, PTL

----------------------------------------------------------------------------
(* Nothing is lost.  The places of an update as sets, and what each step moves. *)

Waiting == {pending[i].update : i \in DOMAIN pending}
Held == {leased[t].update : t \in DOMAIN leased}
Buried == {dead[i].update : i \in DOMAIN dead}

\* Still to be handled, and to be found somewhere.
Live == Waiting \cup Held
Somewhere == Live \cup Buried \cup finished

\* The dead letters are distinct, as many as the list may hold, and nowhere
\* else; nothing is finished and still to be handled.  What has been accepted
\* and is nowhere was dropped from the dead letters, and counted.
KeptInv ==
  /\ Buried \subseteq accepted
  /\ \A i, j \in DOMAIN dead : dead[i].update = dead[j].update => i = j
  /\ Len(dead) <= DlqLength
  /\ Buried \cap Live = {}
  /\ finished \cap (Live \cup Buried) = {}
  /\ IsFiniteSet(accepted)
  /\ Cardinality(accepted \ Somewhere) = overflow

\* What a step does with the commands: they move between the queue and the
\* leases, one is accepted, one is finished, or one is buried.
Moves == Live' = Live /\ UNCHANGED <<dead, overflow, accepted, finished>>
Accepts ==
  \E u \in Updates \ accepted :
    /\ Live' = Live \cup {u}
    /\ accepted' = accepted \cup {u}
    /\ UNCHANGED <<dead, overflow, finished>>
Completes ==
  \E u \in Live :
    /\ Live' = Live \ {u}
    /\ finished' = finished \cup {u}
    /\ UNCHANGED <<dead, overflow, accepted>>
Buries ==
  \E c \in Commands :
    /\ c.update \in Live
    /\ Live' = Live \ {c.update}
    /\ Bury(c)
    /\ UNCHANGED <<accepted, finished>>

\* One more command at the end of the queue.
LEMMA AppendWaiting ==
  ASSUME pending \in Seq(Commands), NEW c \in Commands, pending' = Append(pending, c)
  PROVE  Waiting' = Waiting \cup {c.update}
<1>1. /\ DOMAIN pending' = 1..(Len(pending) + 1)
      /\ DOMAIN pending = 1..Len(pending)
      /\ Len(pending) \in Nat
      /\ pending'[Len(pending) + 1] = c
      /\ \A i \in DOMAIN pending : pending'[i] = pending[i]
  OBVIOUS
<1>2. Len(pending) + 1 \in DOMAIN pending'
  BY <1>1
<1>3. \A i \in DOMAIN pending' : i = Len(pending) + 1 \/ i \in DOMAIN pending
  BY <1>1
<1>4. DOMAIN pending \subseteq DOMAIN pending'
  BY <1>1
<1>. QED  BY <1>1, <1>2, <1>3, <1>4 DEF Waiting

\* The leases that end take their commands along, and no others.
LEMMA UnleaseHeld ==
  ASSUME StoreInv, NEW ts \in SUBSET DOMAIN leased, Unlease(ts)
  PROVE  /\ Held' = Held \ {leased[t].update : t \in ts}
         /\ {leased[t].update : t \in ts} \subseteq Held
<1>1. /\ DOMAIN leased' = DOMAIN leased \ ts
      /\ \A t \in DOMAIN leased' : leased'[t] = leased[t]
  BY DEF Unlease
<1>2. \A s, t \in DOMAIN leased : leased[s].update = leased[t].update => s = t
  BY DEF StoreInv, Placed
<1>. QED  BY <1>1, <1>2 DEF Held

\* dequeue moves the oldest command from the queue to the leases.
LEMMA DequeueMoves ==
  ASSUME StoreInv, Counted, Dequeue, UNCHANGED finished
  PROVE  Moves
<1>1. /\ DOMAIN leased' = DOMAIN leased \cup {tokens + 1}
      /\ leased'[tokens + 1] = Head(pending)
      /\ \A s \in DOMAIN leased : leased'[s] = leased[s]
  BY DequeueStore, QueueAssumption DEF Counted
<1>2. Held' = Held \cup {Head(pending).update}
  BY <1>1 DEF Held
<1>3. /\ pending # <<>> /\ pending' = Tail(pending) /\ pending \in Seq(Commands)
      /\ UNCHANGED <<dead, overflow, accepted>>
  BY DEF Dequeue, StoreInv, StoreTypes
<1>4. /\ Len(pending) \in Nat /\ DOMAIN pending = 1..Len(pending)
      /\ Head(pending) = pending[1] /\ 1 \in DOMAIN pending
      /\ DOMAIN pending' = 1..(Len(pending) - 1)
      /\ \A i \in DOMAIN pending' : pending'[i] = pending[i + 1]
  BY <1>3
<1>5. /\ \A i \in DOMAIN pending' : i + 1 \in DOMAIN pending
      /\ \A i \in DOMAIN pending : i = 1 \/ (i - 1 \in DOMAIN pending' /\ i = (i - 1) + 1)
  BY <1>4
<1>6. Waiting = Waiting' \cup {Head(pending).update}
  <2>1. \A i \in DOMAIN pending :
          pending[i].update \in Waiting' \cup {Head(pending).update}
    <3> SUFFICES ASSUME NEW i \in DOMAIN pending, i # 1
        PROVE  pending[i].update \in Waiting'
      BY <1>4
    <3>1. i - 1 \in DOMAIN pending' /\ pending'[i - 1] = pending[i]
      BY <1>4, <1>5
    <3>. QED  BY <3>1 DEF Waiting
  <2>2. \A i \in DOMAIN pending' : pending'[i].update \in Waiting
    BY <1>4, <1>5 DEF Waiting
  <2>3. Head(pending).update \in Waiting
    BY <1>4 DEF Waiting
  <2>. QED  BY <2>1, <2>2, <2>3 DEF Waiting
<1>. QED  BY <1>2, <1>3, <1>6 DEF Moves, Live

\* A command whose lease ends and that goes to the end of the queue moves.
LEMMA RequeueMoves ==
  ASSUME StoreInv, NEW t \in DOMAIN leased, NEW c \in Commands,
         c.update = leased[t].update, Unlease({t}), pending' = Append(pending, c),
         UNCHANGED <<dead, overflow, accepted, finished>>
  PROVE  Moves
<1>1. Waiting' = Waiting \cup {c.update}
  BY AppendWaiting DEF StoreInv, StoreTypes
<1>2. Held' = Held \ {c.update} /\ c.update \in Held
  <2>1. {t} \in SUBSET DOMAIN leased /\ {leased[s].update : s \in {t}} = {c.update}
    OBVIOUS
  <2>. QED  BY <2>1, UnleaseHeld
<1>. QED  BY <1>1, <1>2 DEF Moves, Live

\* A lease that ends while its command goes nowhere.
LEMMA UnleaseTakes ==
  ASSUME StoreInv, NEW t \in DOMAIN leased, Unlease({t}), UNCHANGED pending
  PROVE  leased[t].update \in Live /\ Live' = Live \ {leased[t].update}
<1>1. Held' = Held \ {leased[t].update} /\ leased[t].update \in Held
  BY UnleaseHeld DEF Held
<1>2. leased[t].update \notin Waiting /\ Waiting' = Waiting
  BY DEF StoreInv, Placed, Waiting
<1>. QED  BY <1>1, <1>2 DEF Live

\* retry moves its command back to the queue, or buries it.
LEMMA RetryMoves ==
  ASSUME StoreInv, NEW t \in DOMAIN leased, Retry(t, leased[t]), UNCHANGED finished
  PROVE  Moves \/ Buries
<1> DEFINE again == [leased[t] EXCEPT !.attempts = @ + 1]
<1>1. again \in Commands /\ again.update = leased[t].update
  BY DEF StoreInv, StoreTypes, Commands
<1>2. /\ Unlease({t}) /\ accepted' = accepted
      /\ \/ pending' = Append(pending, again) /\ UNCHANGED <<dead, overflow>>
         \/ Bury(again) /\ UNCHANGED pending
  BY DEF Retry, Owned
<1> HIDE DEF again
<1>3. CASE pending' = Append(pending, again) /\ UNCHANGED <<dead, overflow>>
  BY <1>1, <1>2, <1>3, RequeueMoves
<1>4. CASE Bury(again) /\ UNCHANGED pending
  BY <1>1, <1>2, <1>4, UnleaseTakes DEF Buries
<1>. QED  BY <1>2, <1>3, <1>4

\* recovery moves the commands of the expired leases back to the queue: every
\* one of them, as the order it reads them in names each of its tokens.
LEMMA RecoverMoves ==
  ASSUME StoreInv, NEW ts \in Batch, Recover(ts), UNCHANGED finished
  PROVE  Moves
<1>1. ts \subseteq expired /\ ts \subseteq DOMAIN leased /\ ts \subseteq Tokens
  BY DEF Batch, StoreInv, StoreTypes
<1>2. IsFiniteSet(ts) /\ Cardinality(ts) \in Nat
  <2>1. 1 \in Int /\ MaxTokens \in Int
    BY QueueAssumption
  <2>2. IsFiniteSet(Tokens)
    BY <2>1, FS_Interval DEF Tokens
  <2>. QED  BY <1>1, <2>2, FS_Subset, FS_CardinalityType
<1> DEFINE n == Cardinality(ts)
<1>3. PICK order \in Orders(ts) :
        pending' = pending \o [i \in 1..n |-> leased[order[i]]]
  BY DEF Recover
<1>4. /\ order \in [1..n -> ts]
      /\ \A i, j \in 1..n : order[i] = order[j] => i = j
  BY <1>3 DEF Orders
<1>5. {order[i] : i \in 1..n} = ts
  <2> DEFINE image == {order[i] : i \in 1..n}
  <2>1. image \subseteq ts
    BY <1>4
  <2>2. order \in Bijection(1..n, image)
    BY <1>4 DEF Bijection, Injection, Surjection, IsInjective
  <2>3. IsFiniteSet(1..n) /\ Cardinality(1..n) = n
    <3>1. 1 \in Int /\ n \in Int
      BY <1>2
    <3>2. IsFiniteSet(1..n) /\ Cardinality(1..n) = IF 1 > n THEN 0 ELSE n - 1 + 1
      BY <3>1, FS_Interval
    <3>. QED  BY <1>2, <3>2
  <2>4. IsFiniteSet(image) /\ Cardinality(image) = n
    BY <2>2, <2>3, FS_Bijection DEF ExistsBijection
  <2>. QED  BY <1>2, <2>1, <2>4, FS_Subset
<1> HIDE DEF n
<1> DEFINE back == [i \in 1..n |-> leased[order[i]]]
<1>6. /\ back \in Seq(Commands) /\ Len(back) = n /\ n \in Nat
      /\ \A i \in 1..n : back[i] = leased[order[i]]
  BY <1>1, <1>2, <1>4 DEF n, StoreInv, StoreTypes
<1>7. pending' = pending \o back /\ pending \in Seq(Commands)
  BY <1>3 DEF StoreInv, StoreTypes
<1> HIDE DEF back
<1>8. /\ Len(pending) \in Nat
      /\ DOMAIN pending = 1..Len(pending)
      /\ DOMAIN pending' = 1..(Len(pending) + n)
      /\ \A i \in DOMAIN pending' :
           pending'[i] = IF i <= Len(pending) THEN pending[i] ELSE back[i - Len(pending)]
  <2>1. /\ pending \o back \in Seq(Commands)
        /\ Len(pending \o back) = Len(pending) + Len(back)
        /\ \A i \in 1..(Len(pending) + Len(back)) :
             (pending \o back)[i] =
               IF i <= Len(pending) THEN pending[i] ELSE back[i - Len(pending)]
    BY <1>6, <1>7, Joined
  <2>2. Len(pending) \in Nat /\ DOMAIN pending = 1..Len(pending)
    BY <1>7
  <2>. QED  BY <1>6, <1>7, <2>1, <2>2
<1> DEFINE moved == {leased[t].update : t \in ts}
<1>9. Waiting' = Waiting \cup moved
  <2>1. \A i \in DOMAIN pending' : pending'[i].update \in Waiting \cup moved
    <3> SUFFICES ASSUME NEW i \in DOMAIN pending'
        PROVE  pending'[i].update \in Waiting \cup moved
      OBVIOUS
    <3>1. CASE i <= Len(pending)
      BY <1>8, <3>1 DEF Waiting
    <3>2. CASE ~(i <= Len(pending))
      <4>1. i - Len(pending) \in 1..n /\ pending'[i] = back[i - Len(pending)]
        BY <1>6, <1>8, <3>2
      <4>. QED  BY <1>4, <1>6, <4>1
    <3>. QED  BY <3>1, <3>2
  <2>2. \A i \in DOMAIN pending : i \in DOMAIN pending' /\ pending'[i] = pending[i]
    BY <1>6, <1>8
  <2>3. \A t \in ts : \E i \in DOMAIN pending' : pending'[i] = leased[t]
    <3> SUFFICES ASSUME NEW t \in ts
        PROVE  \E i \in DOMAIN pending' : pending'[i] = leased[t]
      OBVIOUS
    <3>1. PICK k \in 1..n : order[k] = t
      BY <1>5
    <3>2. /\ Len(pending) + k \in DOMAIN pending'
          /\ ~(Len(pending) + k <= Len(pending))
          /\ (Len(pending) + k) - Len(pending) = k
      BY <1>6, <1>8
    <3>3. pending'[Len(pending) + k] = back[k]
      BY <1>8, <3>2
    <3>. QED  BY <1>6, <3>1, <3>2, <3>3
  <2>. QED  BY <2>1, <2>2, <2>3 DEF Waiting
<1>10. Unlease(ts) /\ UNCHANGED <<dead, overflow, accepted>>
  BY DEF Recover
<1>11. Held' = Held \ moved /\ moved \subseteq Held
  BY <1>1, <1>10, UnleaseHeld
<1>. QED  BY <1>9, <1>10, <1>11 DEF Moves, Live

\* A step that changes at most the expiry times moves nothing.
LEMMA StillMoves ==
  ASSUME UNCHANGED <<pending, leased, dead, overflow, accepted, finished>>
  PROVE  Moves
BY DEF Moves, Live, Waiting, Held

\* Every step of the queue is one of the four.
LEMMA StepsMove ==
  ASSUME QueueInv, [Next]_vars
  PROVE  Moves \/ Accepts \/ Completes \/ Buries
<1>s. StoreInv /\ Counted
  BY DEF QueueInv
<1>1. ASSUME NEW u \in Updates, Webhook(u)  PROVE Moves \/ Accepts
  <2>1. Enqueue(u) /\ UNCHANGED finished
    BY <1>1 DEF Webhook
  <2>2. CASE u \in accepted
    BY <2>1, <2>2, StillMoves DEF Enqueue
  <2>3. CASE u \notin accepted
    <3> DEFINE c == [update |-> u, attempts |-> 0]
    <3>1. c \in Commands /\ c.update = u
      BY DEF Commands
    <3>2. pending' = Append(pending, c)
      BY <2>1, <2>3 DEF Enqueue
    <3> HIDE DEF c
    <3>3. Waiting' = Waiting \cup {u}
      BY <1>s, <3>1, <3>2, AppendWaiting DEF StoreInv, StoreTypes
    <3>4. Held' = Held
      BY <2>1 DEF Enqueue, Held
    <3>. QED  BY <2>1, <2>3, <3>3, <3>4 DEF Enqueue, Accepts, Live
  <2>. QED  BY <2>2, <2>3
<1>2. ASSUME NEW t \in Tokens, Expire(t)  PROVE Moves
  BY <1>2, StillMoves DEF Expire
<1>3. ASSUME NEW w \in Workers,
             Serve(w) \/ TakeLost(w) \/ Heartbeat(w) \/ Fails(w) \/ Shutdown(w) \/ Crash(w)
      PROVE  Moves \/ Completes \/ Buries
  <2>w. Owned(worker[w].token) => leased[worker[w].token] = worker[w].command
    BY DEF QueueInv, Holds
  <2>0. CASE UNCHANGED <<pending, leased, dead, overflow, accepted, finished>>
    BY <2>0, StillMoves
  <2>1. CASE Take(w) \/ TakeLost(w) \/ (Shutdown(w) /\ Dequeue)
    BY <1>s, <2>1, DequeueMoves DEF Take, TakeLost, Shutdown
  <2>2. CASE RecoverStep(w)
    BY <1>s, <2>2, RecoverMoves DEF RecoverStep
  <2>3. CASE FinishStep(w)
    <3>1. CASE Owned(worker[w].token) /\ Finish(worker[w].token)
      <4>1. /\ worker[w].token \in DOMAIN leased
            /\ Unlease({worker[w].token})
            /\ finished' = finished \cup {leased[worker[w].token].update}
            /\ UNCHANGED <<pending, dead, overflow, accepted>>
        BY <3>1 DEF Finish, Owned
      <4>. QED  BY <1>s, <4>1, UnleaseTakes DEF Completes
    <3>. QED  BY <2>0, <2>3, <3>1 DEF FinishStep, Finish, redis
  <2>4. CASE RetryStep(w)
    <3>1. CASE Owned(worker[w].token) /\ Retry(worker[w].token, worker[w].command)
      <4>1. /\ worker[w].token \in DOMAIN leased
            /\ Retry(worker[w].token, leased[worker[w].token])
            /\ UNCHANGED finished
        BY <2>4, <2>w, <3>1 DEF Owned, RetryStep
      <4>. QED  BY <1>s, <4>1, RetryMoves
    <3>. QED  BY <2>0, <2>4, <3>1 DEF RetryStep, Retry, redis
  <2>5. CASE Shutdown(w) /\ ~Dequeue
    <3>1. CASE Owned(worker[w].token) /\ Release(worker[w].token, worker[w].command)
      <4> DEFINE t == worker[w].token
      <4>1. /\ t \in DOMAIN leased /\ Unlease({t})
            /\ pending' = Append(pending, leased[t])
            /\ UNCHANGED <<dead, overflow, accepted, finished>>
        BY <2>5, <2>w, <3>1 DEF Release, Owned, Shutdown
      <4>2. leased[t] \in Commands
        BY <1>s, <4>1 DEF StoreInv, StoreTypes
      <4> HIDE DEF t
      <4>. QED  BY <1>s, <4>1, <4>2, RequeueMoves
    <3>. QED  BY <2>0, <2>5, <3>1 DEF Shutdown, Release, redis
  <2>6. CASE Start(w) \/ Check(w) \/ Send(w) \/ Returns(w) \/ Heartbeat(w) \/ Fails(w) \/ Crash(w)
    <3>1. UNCHANGED finished /\ (UNCHANGED redis \/ Renew(worker[w].token))
      BY <2>6 DEF Start, Check, Send, Returns, Heartbeat, Fails, Crash
    <3>. QED  BY <2>0, <3>1 DEF redis, Renew
  <2>. QED
    BY <1>3, <2>1, <2>2, <2>3, <2>4, <2>5, <2>6 DEF Serve
<1>4. CASE UNCHANGED vars
  BY <1>4, StillMoves DEF vars, redis
<1>. QED  BY <1>1, <1>2, <1>3, <1>4 DEF Next

\* What is waiting, leased or finished has been accepted.
LEMMA LiveAccepted ==
  ASSUME QueueInv
  PROVE  Live \subseteq accepted /\ finished \subseteq accepted
BY DEF QueueInv, StoreInv, Placed, Counted, Live, Waiting, Held

\* A burial that finds room puts one more update among the dead letters; one at
\* the limit drops the oldest letter, and counts it.
LEMMA BuryMoves ==
  ASSUME dead \in Seq(Commands), overflow \in Nat, Len(dead) <= DlqLength,
         \A i, j \in DOMAIN dead : dead[i].update = dead[j].update => i = j,
         NEW c \in Commands, c.update \notin Buried, Bury(c)
  PROVE  /\ Len(dead') <= DlqLength
         /\ \A i, j \in DOMAIN dead' : dead'[i].update = dead'[j].update => i = j
         /\ \/ Buried' = Buried \cup {c.update} /\ overflow' = overflow
            \/ \E u \in Buried :
                 /\ Buried' = (Buried \ {u}) \cup {c.update}
                 /\ overflow' = overflow + 1
<1> DEFINE longer == <<c>> \o dead
<1>1. /\ longer \in Seq(Commands)
      /\ Len(longer) = Len(dead) + 1
      /\ Len(dead) \in Nat
      /\ DOMAIN longer = 1..(Len(dead) + 1)
      /\ DOMAIN dead = 1..Len(dead)
      /\ \A i \in DOMAIN longer : longer[i] = IF i = 1 THEN c ELSE dead[i - 1]
  OBVIOUS
<1>2. \A i \in DOMAIN dead : dead[i].update # c.update
  BY DEF Buried
<1>3. /\ \A i \in DOMAIN longer : i = 1 \/ i - 1 \in DOMAIN dead
      /\ \A i \in DOMAIN dead : i + 1 \in DOMAIN longer /\ longer[i + 1] = dead[i]
      /\ 1 \in DOMAIN longer /\ longer[1] = c
  BY <1>1
<1>4. \A i, j \in DOMAIN longer : longer[i].update = longer[j].update => i = j
  <2> SUFFICES ASSUME NEW i \in DOMAIN longer, NEW j \in DOMAIN longer,
                      longer[i].update = longer[j].update
      PROVE  i = j
    OBVIOUS
  <2>1. CASE i = 1 \/ j = 1
    BY <1>1, <1>2, <1>3, <2>1
  <2>2. CASE i # 1 /\ j # 1
    <3>1. i - 1 = j - 1
      BY <1>1, <1>3, <2>2
    <3>. QED  BY <1>1, <3>1
  <2>. QED  BY <2>1, <2>2
<1> HIDE DEF longer
<1>5. CASE Len(longer) > DlqLength
  <2>0. Len(dead) = DlqLength
    <3>1. Len(longer) = Len(dead) + 1 /\ Len(dead) \in Nat
      BY <1>1
    <3>2. DlqLength \in Nat
      BY QueueAssumption
    <3>. QED  BY <1>5, <3>1, <3>2
  <2>1. /\ dead' = SubSeq(longer, 1, DlqLength)
        /\ overflow' = overflow + Len(longer) - DlqLength
        /\ Len(dead) = DlqLength
    BY <1>5, <2>0 DEF Bury, longer
  <2>2. /\ Len(dead') = DlqLength
        /\ DOMAIN dead' = 1..DlqLength
        /\ \A i \in DOMAIN dead' : dead'[i] = longer[i] /\ i \in DOMAIN longer
    BY <1>1, <2>1, QueueAssumption
  <2>3. overflow' = overflow + 1
    BY <1>1, <2>1, QueueAssumption
  <2> DEFINE u == dead[DlqLength].update
  <2>4. DlqLength \in DOMAIN dead /\ u \in Buried
    BY <1>1, <2>1, QueueAssumption DEF Buried
  <2>5. Buried' = (Buried \ {u}) \cup {c.update}
    <3>1. ASSUME NEW i \in DOMAIN dead'
          PROVE  dead'[i].update \in (Buried \ {u}) \cup {c.update}
      <4>1. CASE i = 1
        BY <1>3, <2>2, <4>1
      <4>2. CASE i # 1
        <5>1. i - 1 \in DOMAIN dead /\ dead'[i] = dead[i - 1] /\ i - 1 # DlqLength
          BY <1>1, <1>3, <2>2, <4>2, QueueAssumption
        <5>. QED  BY <2>4, <5>1 DEF Buried
      <4>. QED  BY <4>1, <4>2
    <3>2. 1 \in DOMAIN dead' /\ dead'[1] = c
      BY <1>3, <2>2, QueueAssumption
    <3>3. \A i \in DOMAIN dead : i # DlqLength =>
            i + 1 \in DOMAIN dead' /\ dead'[i + 1] = dead[i]
      BY <1>1, <1>3, <2>1, <2>2, QueueAssumption
    <3>. QED  BY <3>1, <3>2, <3>3 DEF Buried
  <2>. QED  BY <1>4, <2>2, <2>3, <2>4, <2>5, QueueAssumption
<1>6. CASE ~(Len(longer) > DlqLength)
  <2>1. dead' = longer /\ overflow' = overflow /\ Len(longer) <= DlqLength
    BY <1>1, <1>6, QueueAssumption DEF Bury, longer
  <2>2. Buried' = Buried \cup {c.update}
    BY <1>1, <1>3, <2>1 DEF Buried
  <2>. QED  BY <1>4, <2>1, <2>2
<1>. QED  BY <1>5, <1>6

\* Each of the four keeps the count of what is nowhere.
LEMMA KeptStep ==
  ASSUME QueueInv, QueueInv', KeptInv, Moves \/ Accepts \/ Completes \/ Buries
  PROVE  KeptInv'
<1>a. Live \subseteq accepted /\ finished \subseteq accepted
  BY LiveAccepted
<1>b. dead \in Seq(Commands) /\ overflow \in Nat
  BY DEF QueueInv, StoreInv, StoreTypes
<1> DEFINE gone == accepted \ Somewhere
<1>g. IsFiniteSet(gone) /\ Cardinality(gone) = overflow
  BY FS_Subset DEF KeptInv
<1>1. CASE Moves
  BY <1>1 DEF Moves, KeptInv, Somewhere, Buried
<1>2. CASE Accepts
  <2>1. PICK u \in Updates \ accepted :
          /\ Live' = Live \cup {u}
          /\ accepted' = accepted \cup {u}
          /\ UNCHANGED <<dead, overflow, finished>>
    BY <1>2 DEF Accepts
  <2>2. Buried' = Buried
    BY <2>1 DEF Buried
  <2>3. accepted' \ Somewhere' = gone
    BY <1>a, <2>1, <2>2 DEF Somewhere
  <2>4. IsFiniteSet(accepted')
    BY <2>1, FS_AddElement DEF KeptInv
  <2>. QED  BY <1>a, <1>g, <2>1, <2>2, <2>3, <2>4 DEF KeptInv
<1>3. CASE Completes
  <2>1. PICK u \in Live :
          /\ Live' = Live \ {u}
          /\ finished' = finished \cup {u}
          /\ UNCHANGED <<dead, overflow, accepted>>
    BY <1>3 DEF Completes
  <2>2. Buried' = Buried
    BY <2>1 DEF Buried
  <2>3. accepted' \ Somewhere' = gone
    BY <2>1, <2>2 DEF Somewhere
  <2>. QED  BY <1>g, <2>1, <2>2, <2>3 DEF KeptInv
<1>4. CASE Buries
  <2>1. PICK c \in Commands :
          /\ c.update \in Live
          /\ Live' = Live \ {c.update}
          /\ Bury(c)
          /\ UNCHANGED <<accepted, finished>>
    BY <1>4 DEF Buries
  <2>2. /\ Len(dead') <= DlqLength
        /\ \A i, j \in DOMAIN dead' : dead'[i].update = dead'[j].update => i = j
        /\ \/ Buried' = Buried \cup {c.update} /\ overflow' = overflow
           \/ \E u \in Buried :
                Buried' = (Buried \ {u}) \cup {c.update} /\ overflow' = overflow + 1
    BY <1>b, <2>1, BuryMoves DEF KeptInv
  <2>3. /\ Buried' \subseteq accepted'
        /\ Buried' \cap Live' = {}
        /\ finished' \cap (Live' \cup Buried') = {}
        /\ IsFiniteSet(accepted')
    BY <1>a, <2>1, <2>2 DEF KeptInv
  <2>4. Cardinality(accepted' \ Somewhere') = overflow'
    <3>1. CASE Buried' = Buried \cup {c.update} /\ overflow' = overflow
      <4>1. accepted' \ Somewhere' = gone
        BY <2>1, <3>1 DEF Somewhere
      <4>. QED  BY <1>g, <3>1, <4>1
    <3>2. CASE \E u \in Buried :
                 Buried' = (Buried \ {u}) \cup {c.update} /\ overflow' = overflow + 1
      <4>1. PICK u \in Buried :
              Buried' = (Buried \ {u}) \cup {c.update} /\ overflow' = overflow + 1
        BY <3>2
      <4>2. u \in accepted /\ u \notin Live /\ u \notin finished /\ u # c.update
        BY <2>1 DEF KeptInv
      <4>3. accepted' \ Somewhere' = gone \cup {u} /\ u \notin gone
        BY <2>1, <4>1, <4>2 DEF Somewhere
      <4>4. Cardinality(gone \cup {u}) = Cardinality(gone) + 1
        BY <1>g, <4>3, FS_AddElement
      <4>. QED  BY <1>g, <4>1, <4>3, <4>4
    <3>. QED  BY <2>2, <3>1, <3>2
  <2>. QED  BY <2>2, <2>3, <2>4 DEF KeptInv
<1>. QED  BY <1>1, <1>2, <1>3, <1>4

\* Of things that are told apart by what is counted there is one or none.
LEMMA OneOrNone ==
  ASSUME NEW S, \A x, y \in S : x = y
  PROVE  Cardinality(S) = IF S = {} THEN 0 ELSE 1
<1>1. CASE S = {}
  BY <1>1, FS_EmptySet
<1>2. CASE S # {}
  <2>1. PICK x \in S : TRUE
    BY <1>2
  <2>2. S = {x}
    BY <2>1
  <2>. QED  BY <1>2, <2>2, FS_Singleton
<1>. QED  BY <1>1, <1>2

\* The copies of an update are the places that it is in.
LEMMA CopiesCounted ==
  ASSUME QueueInv, KeptInv, NEW u
  PROVE  Copies(u) = IF u \in Somewhere THEN 1 ELSE 0
<1>1. Occurrences(u, pending) = IF u \in Waiting THEN 1 ELSE 0
  <2> DEFINE S == {i \in DOMAIN pending : pending[i].update = u}
  <2>1. \A x, y \in S : x = y
    BY DEF QueueInv, StoreInv, Placed
  <2>2. S = {} <=> u \notin Waiting
    BY DEF Waiting
  <2> HIDE DEF S
  <2>3. Cardinality(S) = IF S = {} THEN 0 ELSE 1
    BY <2>1, OneOrNone
  <2>. QED  BY <2>2, <2>3 DEF Occurrences, S
<1>2. Leases(u) = IF u \in Held THEN 1 ELSE 0
  <2> DEFINE S == {t \in DOMAIN leased : leased[t].update = u}
  <2>1. \A x, y \in S : x = y
    BY DEF QueueInv, StoreInv, Placed
  <2>2. S = {} <=> u \notin Held
    BY DEF Held
  <2> HIDE DEF S
  <2>3. Cardinality(S) = IF S = {} THEN 0 ELSE 1
    BY <2>1, OneOrNone
  <2>. QED  BY <2>2, <2>3 DEF Leases, S
<1>3. Occurrences(u, dead) = IF u \in Buried THEN 1 ELSE 0
  <2> DEFINE S == {i \in DOMAIN dead : dead[i].update = u}
  <2>1. \A x, y \in S : x = y
    BY DEF KeptInv
  <2>2. S = {} <=> u \notin Buried
    BY DEF Buried
  <2> HIDE DEF S
  <2>3. Cardinality(S) = IF S = {} THEN 0 ELSE 1
    BY <2>1, OneOrNone
  <2>. QED  BY <2>2, <2>3 DEF Occurrences, S
<1>4. /\ u \in Waiting => u \notin Held
      /\ u \in Live => u \notin Buried
      /\ u \in finished => u \notin Live /\ u \notin Buried
  BY DEF QueueInv, StoreInv, Placed, KeptInv, Live, Waiting, Held
<1>. QED  BY <1>1, <1>2, <1>3, <1>4 DEF Copies, Somewhere, Live

\* An accepted command is waiting, leased, dead or finished, in one place only;
\* the others have been dropped at the limit of the dead letters, and counted
\* (the scripts of RedisCoordinationStore, whatever is lost or stops between
\* two of them).
THEOREM NoneLost == Spec => []NothingLost
<1>1. Init => KeptInv
  <2> SUFFICES ASSUME Init PROVE KeptInv
    OBVIOUS
  <2>1. /\ DOMAIN pending = {} /\ DOMAIN leased = {} /\ DOMAIN dead = {}
        /\ Len(dead) = 0 /\ accepted = {} /\ finished = {} /\ overflow = 0
    BY DEF Init
  <2>2. Live = {} /\ Buried = {}
    BY <2>1 DEF Live, Waiting, Held, Buried
  <2>. QED  BY <2>1, <2>2, FS_EmptySet, QueueAssumption DEF KeptInv, Somewhere
<1>2. QueueInv /\ KeptInv /\ [Next]_vars => (QueueInv /\ KeptInv)'
  BY QueueStep, StepsMove, KeptStep
<1>3. QueueInv /\ KeptInv => NothingLost
  <2> SUFFICES ASSUME QueueInv, KeptInv PROVE NothingLost
    OBVIOUS
  <2>1. \A u : Copies(u) = IF u \in Somewhere THEN 1 ELSE 0
    BY CopiesCounted
  <2>2. Somewhere \subseteq accepted
    BY LiveAccepted DEF KeptInv, Somewhere
  <2>3. {u \in accepted : Copies(u) = 0} = accepted \ Somewhere
    BY <2>1
  <2>4. \A u \in Updates : Copies(u) <= IF u \in accepted THEN 1 ELSE 0
    BY <2>1, <2>2
  <2>5. Cardinality({u \in accepted : Copies(u) = 0}) = overflow
    BY <2>3 DEF KeptInv
  <2>. QED  BY <2>4, <2>5 DEF NothingLost
<1>4. Init => QueueInv
  BY QueueInit
<1>. QED  BY <1>1, <1>2, <1>3, <1>4, PTL DEF Spec

\* A lease ends only after its time or by the process that holds its token: a
\* process that lost its lease leaves the command to its new owner
\* (recover_telegram_commands, finish, retry and release by token).
THEOREM LeasesFenced == Spec => LeasesAreFenced
<1> DEFINE Fenced ==
      \A t \in DOMAIN leased \ DOMAIN leased' :
        \/ t \in expired
        \/ \E w \in Workers : worker[w].token = t /\ worker'[w].token = 0
<1>1. QueueInv /\ [Next]_vars => [Fenced]_vars
  <2> SUFFICES ASSUME QueueInv, Next, NEW t \in DOMAIN leased \ DOMAIN leased',
                      t \notin expired
      PROVE  \E w \in Workers : worker[w].token = t /\ worker'[w].token = 0
    OBVIOUS
  <2>0. leased' # leased
    OBVIOUS
  <2>1. PICK w \in Workers :
          Serve(w) \/ TakeLost(w) \/ Heartbeat(w) \/ Fails(w) \/ Shutdown(w) \/ Crash(w)
    BY <2>0 DEF Next, Webhook, Enqueue, Expire
  <2>2. worker \in [Workers -> WorkerState]
    BY DEF QueueInv, WorkersTyped
  <2>3. \A pc : At(pc).token = 0
    BY DEF At
  <2>4. ~Dequeue
    <3>1. ASSUME Dequeue PROVE FALSE
      BY <3>1 DEF Dequeue, Lease
    <3>. QED  BY <3>1
  <2>5. ~RecoverStep(w)
    BY DEF RecoverStep, Recover, Batch, Unlease
  <2>6. \A s : Unlease({s}) => t = s
    BY DEF Unlease
  <2>7. worker[w].token = t /\ \E pc : Becomes(w, At(pc))
    BY <2>0, <2>1, <2>4, <2>5, <2>6
       DEF Serve, TakeLost, Heartbeat, Fails, Shutdown, Crash, Start, Take, Check, Send,
           Returns, FinishStep, RetryStep, Finish, Retry, Release, Renew, redis
  <2>. QED  BY <2>2, <2>3, <2>7 DEF Becomes
<1>. QED  BY <1>1, QueueAlways, PTL DEF Spec, LeasesAreFenced
=============================================================================
