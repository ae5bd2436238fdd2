--------------------------- MODULE TelegramQueue ---------------------------
(***************************************************************************)
(* The queue of Telegram commands in Redis (RedisCoordinationStore) and    *)
(* the processes that serve it (TelegramApplication in production.py).     *)
(* The webhook enqueues an update once; a worker leases the oldest command *)
(* under a fresh token, renews the lease while it handles the command and  *)
(* before every reply, and finishes, retries or releases it by its token.  *)
(* Leases that have expired are recovered when a process starts.           *)
(* Every Redis call is one Lua script, so it is one step; the answer to it *)
(* may be lost, whether or not the script has run.                         *)
(***************************************************************************)
EXTENDS Integers, Sequences, FiniteSets

CONSTANTS
  Updates,       \* update_id's the provider sends to the webhook
  Workers,       \* processes, each with one command worker
  MaxAttempts,   \* max_attempts of retry_telegram_command
  DlqLength,     \* telegram_dlq_max_length
  RecoverBatch,  \* batch_size of recover_telegram_commands
  MaxReplies,    \* bound: replies the handling of one command sends
  MaxTokens,     \* bound: leases taken
  MaxStops,      \* bound: shutdowns of a process, orderly or not
  MaxFaults      \* bound: lost Redis calls

ASSUME QueueAssumption ==
  /\ MaxAttempts \in Nat \ {0}
  /\ DlqLength \in Nat \ {0}
  /\ RecoverBatch \in Nat \ {0}
  /\ {MaxReplies, MaxTokens, MaxStops, MaxFaults} \subseteq Nat

VARIABLES
  pending,   \* the list telegram-command:pending, oldest command first
  leased,    \* the hash processing-v2: token -> command
  expired,   \* tokens whose score in leases-v2 is in the past
  dead,      \* the list dead-letter, newest command first
  overflow,  \* commands the dead-letter list has dropped at its limit
  accepted,  \* updates with a telegram-update key
  answered,  \* updates the provider knows to be accepted
  worker,    \* what each process is doing, and with which command
  finished,  \* history: updates that finish_telegram_command has completed
  tokens,    \* leases taken so far
  stops,     \* shutdowns so far
  faults     \* lost calls so far

redis == <<pending, leased, expired, dead, overflow, accepted>>
bounds == <<tokens, stops, faults>>
vars == <<redis, answered, worker, finished, bounds>>

Commands == [update : Updates, attempts : Nat]
NoCommand == [update |-> "none", attempts |-> 0]
Tokens == 1..MaxTokens
Serving == {"handling", "sending", "failed", "finishing"}

TypeOK ==
  /\ pending \in Seq(Commands)
  /\ DOMAIN leased \subseteq Tokens
  /\ \A t \in DOMAIN leased : leased[t] \in Commands
  /\ expired \subseteq DOMAIN leased
  /\ dead \in Seq(Commands)
  /\ overflow \in Nat
  /\ accepted \subseteq Updates
  /\ answered \subseteq accepted
  /\ worker \in [Workers ->
       [pc : {"down", "recovering", "idle"} \cup Serving,
        command : Commands \cup {NoCommand}, token : Tokens \cup {0},
        replies : 0..MaxReplies, beat : BOOLEAN]]
  /\ finished \subseteq accepted
  /\ tokens \in 0..MaxTokens
  /\ stops \in 0..MaxStops
  /\ faults \in 0..MaxFaults

At(pc) == [pc |-> pc, command |-> NoCommand, token |-> 0, replies |-> 0, beat |-> FALSE]

Init ==
  /\ pending = <<>>
  /\ leased = <<>>
  /\ expired = {}
  /\ dead = <<>>
  /\ overflow = 0
  /\ accepted = {}
  /\ answered = {}
  /\ worker = [w \in Workers |-> At("down")]
  /\ finished = {}
  /\ tokens = 0
  /\ stops = 0
  /\ faults = 0

Fault == faults < MaxFaults /\ faults' = faults + 1

Stopping == stops < MaxStops /\ stops' = stops + 1

Becomes(w, state) == worker' = [worker EXCEPT ![w] = state]
Goes(w, pc) == worker' = [worker EXCEPT ![w].pc = pc]

----------------------------------------------------------------------------
(* The scripts.  Each says what it does to the keys of Redis. *)

\* enqueue_telegram_command: a second delivery of an update changes nothing.
Enqueue(u) ==
  /\ accepted' = accepted \cup {u}
  /\ pending' = IF u \in accepted THEN pending
                ELSE Append(pending, [update |-> u, attempts |-> 0])
  /\ UNCHANGED <<leased, expired, dead, overflow>>

Lease(t, command) ==
  leased' = [s \in DOMAIN leased \cup {t} |-> IF s = t THEN command ELSE leased[s]]

\* dequeue_telegram_command: the oldest command moves under a new token.
Dequeue ==
  /\ pending # <<>>
  /\ tokens < MaxTokens
  /\ tokens' = tokens + 1
  /\ Lease(tokens + 1, Head(pending))
  /\ pending' = Tail(pending)
  /\ UNCHANGED <<expired, dead, overflow, accepted>>

Owned(t) == t \in DOMAIN leased

\* Mutant: the hash is not asked whether the token still owns a command.
RenewAnyToken(t) ==
  /\ expired' = expired \ {t}
  /\ UNCHANGED <<pending, leased, dead, overflow, accepted>>

\* renew_telegram_command: the lease of an owned command starts afresh.
Renew(t) ==
  /\ Owned(t)
  /\ expired' = expired \ {t}
  /\ UNCHANGED <<pending, leased, dead, overflow, accepted>>

\* Mutant: ZREM is forgotten.
UnleaseHashOnly(ts) ==
  /\ leased' = [s \in DOMAIN leased \ ts |-> leased[s]]
  /\ UNCHANGED expired

\* HDEL and ZREM.
Unlease(ts) ==
  /\ leased' = [s \in DOMAIN leased \ ts |-> leased[s]]
  /\ expired' = expired \ ts

\* finish_telegram_command; history keeps which update it was.
Finish(t) ==
  \/ /\ Owned(t)
     /\ Unlease({t})
     /\ finished' = finished \cup {leased[t].update}
     /\ UNCHANGED <<pending, dead, overflow, accepted>>
  \/ ~Owned(t) /\ UNCHANGED <<redis, finished>>

\* LPUSH and LTRIM: the list keeps its newest entries.
Bury(command) ==
  LET longer == <<command>> \o dead IN
  IF Len(longer) > DlqLength
  THEN /\ dead' = SubSeq(longer, 1, DlqLength)
       /\ overflow' = overflow + Len(longer) - DlqLength
  ELSE dead' = longer /\ UNCHANGED overflow

\* Mutant: one attempt too many.
RetryOnceMore(t, command) ==
  LET again == [command EXCEPT !.attempts = @ + 1] IN
  \/ /\ Owned(t)
     /\ Unlease({t})
     /\ \/ /\ again.attempts <= MaxAttempts
           /\ pending' = Append(pending, again)
           /\ UNCHANGED <<dead, overflow>>
        \/ /\ again.attempts > MaxAttempts
           /\ Bury(again)
           /\ UNCHANGED pending
     /\ UNCHANGED accepted
  \/ ~Owned(t) /\ UNCHANGED redis

\* Mutant: the last attempt is not buried.
RetryDrops(t, command) ==
  LET again == [command EXCEPT !.attempts = @ + 1] IN
  \/ /\ Owned(t)
     /\ Unlease({t})
     /\ pending' = IF again.attempts < MaxAttempts THEN Append(pending, again) ELSE pending
     /\ UNCHANGED <<dead, overflow, accepted>>
  \/ ~Owned(t) /\ UNCHANGED redis

\* retry_telegram_command: an attempt is used up; the last one buries.
Retry(t, command) ==
  LET again == [command EXCEPT !.attempts = @ + 1] IN
  \/ /\ Owned(t)
     /\ Unlease({t})
     /\ \/ /\ again.attempts < MaxAttempts
           /\ pending' = Append(pending, again)
           /\ UNCHANGED <<dead, overflow>>
        \/ /\ again.attempts >= MaxAttempts
           /\ Bury(again)
           /\ UNCHANGED pending
     /\ UNCHANGED accepted
  \/ ~Owned(t) /\ UNCHANGED redis

\* Mutant: the command is put back whether or not the token owns it.
ReleaseUnowned(t, command) ==
  /\ Unlease({t})
  /\ pending' = Append(pending, command)
  /\ UNCHANGED <<dead, overflow, accepted>>

\* release_telegram_command: back to the queue, no attempt is used up.
Release(t, command) ==
  \/ /\ Owned(t)
     /\ Unlease({t})
     /\ pending' = Append(pending, command)
     /\ UNCHANGED <<dead, overflow, accepted>>
  \/ ~Owned(t) /\ UNCHANGED redis

\* Mutant: live leases are recovered as well.
BatchOfAll ==
  {ts \in SUBSET DOMAIN leased :
     Cardinality(ts) = IF Cardinality(DOMAIN leased) < RecoverBatch
                       THEN Cardinality(DOMAIN leased) ELSE RecoverBatch}

\* Tokens one script of recover_telegram_commands examines, in some order.
Batch ==
  {ts \in SUBSET expired :
     Cardinality(ts) = IF Cardinality(expired) < RecoverBatch
                       THEN Cardinality(expired) ELSE RecoverBatch}
Orders(ts) ==
  {order \in [1..Cardinality(ts) -> ts] :
     \A i, j \in 1..Cardinality(ts) : order[i] = order[j] => i = j}

\* recover_telegram_commands, one script: expired leases return to the queue.
Recover(ts) ==
  /\ \E order \in Orders(ts) :
       pending' = pending \o [i \in 1..Cardinality(ts) |-> leased[order[i]]]
  /\ Unlease(ts)
  /\ UNCHANGED <<dead, overflow, accepted>>

----------------------------------------------------------------------------
(* The webhook, the clock and the processes. *)

\* The webhook; the provider repeats an update until it has an answer.
Webhook(u) ==
  /\ u \notin answered
  /\ Enqueue(u)
  /\ \/ answered' = answered \cup {u} /\ UNCHANGED faults
     \/ Fault /\ UNCHANGED answered
  /\ UNCHANGED <<worker, finished, tokens, stops>>

\* A lease is 120 s.  It cannot run out between a renewal and the reply it
\* was for, nor while the heartbeat renews it every 30 s.
Kept(t) ==
  \E w \in Workers :
    /\ worker[w].token = t
    /\ worker[w].beat \/ worker[w].pc = "sending"

Expire(t) ==
  /\ Owned(t)
  /\ t \notin expired
  /\ ~Kept(t)
  /\ expired' = expired \cup {t}
  /\ UNCHANGED <<pending, leased, dead, overflow, accepted,
                 answered, worker, finished, bounds>>

Start(w) ==
  /\ worker[w].pc = "down"
  /\ Becomes(w, At("recovering"))
  /\ UNCHANGED <<redis, answered, finished, bounds>>

\* The recovery loop of the startup; a short batch is the last one.
RecoverStep(w) ==
  /\ worker[w].pc = "recovering"
  /\ \E ts \in Batch :
       /\ Recover(ts)
       /\ \/ /\ Becomes(w, At(IF Cardinality(ts) < RecoverBatch THEN "idle"
                              ELSE "recovering"))
             /\ UNCHANGED faults
          \/ Fault /\ Becomes(w, At("down"))
  /\ UNCHANGED <<answered, finished, tokens, stops>>

\* dequeue, answered: the worker handles the command and starts a heartbeat.
Take(w) ==
  /\ worker[w].pc = "idle"
  /\ Dequeue
  /\ \E n \in 0..MaxReplies :
       Becomes(w, [pc |-> "handling", command |-> Head(pending),
                   token |-> tokens + 1, replies |-> n, beat |-> TRUE])
  /\ UNCHANGED <<answered, finished, stops, faults>>

\* dequeue, its answer lost: the worker tries again and the lease has no owner.
TakeLost(w) ==
  /\ worker[w].pc = "idle"
  /\ Dequeue
  /\ Fault
  /\ UNCHANGED <<answered, worker, finished, stops>>

\* _telegram_lease_heartbeat: it ends when it cannot renew.
Heartbeat(w) ==
  /\ worker[w].beat
  /\ \/ /\ Renew(worker[w].token)
        /\ \/ UNCHANGED <<worker, faults>>
           \/ Fault /\ worker' = [worker EXCEPT ![w].beat = FALSE]
     \/ /\ ~Owned(worker[w].token) \/ faults < MaxFaults
        /\ faults' = IF Owned(worker[w].token) THEN faults + 1 ELSE faults
        /\ worker' = [worker EXCEPT ![w].beat = FALSE]
        /\ UNCHANGED redis
  /\ UNCHANGED <<answered, finished, tokens, stops>>

\* The ownership check before a reply.  Without it the result is discarded.
Check(w) ==
  /\ worker[w].pc = "handling"
  /\ worker[w].replies > 0
  /\ \/ /\ Renew(worker[w].token)
        /\ \/ Goes(w, "sending") /\ UNCHANGED faults
           \/ Fault /\ Goes(w, "failed")
     \/ /\ ~Owned(worker[w].token)
        /\ Becomes(w, At("idle"))
        /\ UNCHANGED <<redis, faults>>
  /\ UNCHANGED <<answered, finished, tokens, stops>>

\* The reply itself.
Send(w) ==
  /\ worker[w].pc = "sending"
  /\ worker' = [worker EXCEPT ![w].pc = "handling", ![w].replies = @ - 1]
  /\ UNCHANGED <<redis, answered, finished, bounds>>

\* The handler raises, while it works or while it sends.
Fails(w) ==
  /\ worker[w].pc \in {"handling", "sending"}
  /\ Goes(w, "failed")
  /\ UNCHANGED <<redis, answered, finished, bounds>>

Returns(w) ==
  /\ worker[w].pc = "handling"
  /\ worker[w].replies = 0
  /\ Goes(w, "finishing")
  /\ UNCHANGED <<redis, answered, finished, bounds>>

\* finish, with or without an answer; either way the next command is next.
FinishStep(w) ==
  /\ worker[w].pc = "finishing"
  /\ \/ Finish(worker[w].token) /\ UNCHANGED faults
     \/ Fault /\ UNCHANGED <<redis, finished>>
  /\ Becomes(w, At("idle"))
  /\ UNCHANGED <<answered, tokens, stops>>

RetryStep(w) ==
  /\ worker[w].pc = "failed"
  /\ \/ Retry(worker[w].token, worker[w].command) /\ UNCHANGED faults
     \/ Fault /\ UNCHANGED redis
  /\ Becomes(w, At("idle"))
  /\ UNCHANGED <<answered, finished, tokens, stops>>

\* An orderly shutdown cancels the worker where it waits: a command being
\* handled is released, one being retried or finished is left as it is.
Shutdown(w) ==
  /\ Stopping
  /\ \/ /\ worker[w].pc \in {"handling", "sending"}
        /\ \/ /\ Release(worker[w].token, worker[w].command)
              /\ UNCHANGED faults
           \/ Fault /\ UNCHANGED redis
        /\ UNCHANGED tokens
     \/ /\ worker[w].pc \in {"failed", "finishing", "idle"}
        /\ UNCHANGED <<redis, tokens, faults>>
     \/ /\ worker[w].pc = "idle"      \* cancelled while the script runs
        /\ Dequeue
        /\ UNCHANGED faults
  /\ Becomes(w, At("down"))
  /\ UNCHANGED <<answered, finished>>

Crash(w) ==
  /\ worker[w].pc # "down"
  /\ Stopping
  /\ Becomes(w, At("down"))
  /\ UNCHANGED <<redis, answered, finished, tokens, faults>>

Serve(w) ==
  \/ Start(w) \/ RecoverStep(w) \/ Take(w) \/ Check(w) \/ Send(w)
  \/ Returns(w) \/ FinishStep(w) \/ RetryStep(w)

Next ==
  \/ \E u \in Updates : Webhook(u)
  \/ \E t \in Tokens : Expire(t)
  \/ \E w \in Workers :
       \/ Serve(w) \/ TakeLost(w) \/ Heartbeat(w) \/ Fails(w)
       \/ Shutdown(w) \/ Crash(w)

Spec == Init /\ [][Next]_vars

----------------------------------------------------------------------------
(* Properties. *)

Occurrences(u, list) == Cardinality({i \in DOMAIN list : list[i].update = u})
Leases(u) == Cardinality({t \in DOMAIN leased : leased[t].update = u})
Copies(u) ==
  Occurrences(u, pending) + Leases(u) + Occurrences(u, dead)
    + (IF u \in finished THEN 1 ELSE 0)

\* An accepted command is in exactly one place: waiting, leased, finished or
\* dead; only the dead-letter list's limit makes any disappear, and those are
\* counted.  Whatever stops or is lost between two scripts, no command is
\* forgotten and none is in the queue twice.
NothingLost ==
  /\ \A u \in Updates : Copies(u) <= IF u \in accepted THEN 1 ELSE 0
  /\ Cardinality({u \in accepted : Copies(u) = 0}) = overflow

\* A command whose handling fails is tried MaxAttempts times, not more and
\* not fewer: recovery and release use up no attempt.
AttemptsCounted ==
  /\ \A i \in DOMAIN pending : pending[i].attempts < MaxAttempts
  /\ \A t \in DOMAIN leased : leased[t].attempts < MaxAttempts
  /\ \A i \in DOMAIN dead : dead[i].attempts = MaxAttempts

\* Two processes never reply to the same command at the same time: the check
\* before a reply fails for the one whose lease was recovered.
OneSender ==
  \A v, w \in Workers :
    /\ worker[v].pc = "sending"
    /\ worker[w].pc = "sending"
    /\ worker[v].command.update = worker[w].command.update
    => v = w

\* A worker that lost its lease leaves the command to its new owner: a lease
\* goes only when it has expired or by the process it belongs to.
LeasesAreFenced ==
  [][\A t \in DOMAIN leased \ DOMAIN leased' :
       \/ t \in expired
       \/ \E w \in Workers : worker[w].token = t /\ worker'[w].token = 0]_vars

\* asyncio runs what is ready; a process that is down is started again.
\* Nothing is assumed of the provider, of faults or of failing handlers.
Fairness ==
  /\ \A w \in Workers : WF_vars(Serve(w))
  /\ \A t \in Tokens : WF_vars(Expire(t))

FairSpec == Spec /\ Fairness

\* Finished, dead-lettered, or dropped from the dead letters.
Settled(u) ==
  u \in finished \/ Occurrences(u, dead) > 0 \/ (Copies(u) = 0 /\ overflow > 0)

\* While nothing stops and Redis answers, every accepted command is finished
\* or dead-lettered in the end, however often its handler fails.
Undisturbed == stops = 0 /\ faults = 0
AcceptedSettles ==
  \A u \in Updates : (u \in accepted /\ Undisturbed) ~> (Settled(u) \/ ~Undisturbed)

\* Comment in _process_telegram_command_once: "The lease remains recoverable
\* by Redis expiry".  An expired lease that nobody serves is recovered.
Orphaned(t) ==
  t \in expired /\ \A w \in Workers : worker[w].token # t
OrphansRecovered == \A t \in Tokens : Orphaned(t) ~> ~Owned(t)
=============================================================================
