--------------------------- MODULE ProcessLifecycle ---------------------------
(* How a process of the service starts, cleans up and stops (production.py,  *)
(* OrchestrationRuntime.start and shutdown, MigrationRunner in deployment.py)*)
(* and three small jobs of its runtime: TradingView's alerts, the monitor of *)
(* X posts, and the share of a provider's daily requests a scan may use.     *)
(* Four parts that share no state.                                           *)
EXTENDS Integers, Sequences, FiniteSets

LOCAL INSTANCE FiniteSetsExt

CONSTANTS
  Hosts,          \* processes: the one that serves and its successor
  Migrations,     \* number of migration files
  MaxHostStarts,  \* bound: starts
  MaxHostFaults,  \* bound: steps that raise, and crashes
  FreshFor,       \* TRADINGVIEW_FRESH_SECONDS, in ticks
  AlertTexts,     \* alerts that TradingView may send again
  AlertEnd,       \* bound: last tick of the alerts' clock
  Posts,          \* posts on X
  Monitors,       \* runs of the monitor that may overlap
  MaxReads,       \* bound: runs
  ScanShare,      \* for each scanner its share of the day, in tenths
  ScanCost,       \* for each scanner its requests per analysis
  ScanCycles,     \* for each scanner its runs per day
  DailyLimit,     \* the provider's requests per day
  MaxExtraRuns    \* bound: runs beyond a day's, after restarts

VARIABLES
  host,     \* each process: its life, step, what it holds and runs; history
  cluster,  \* the scheduler's lock and the schema: its lock and what is recorded
  board,    \* TradingView's alerts stored, and the clock
  feed,     \* posts marked and each run's list; history: posts sent
  quota     \* the requests left, and each scan; history: the reserve was used

hostVars == <<host, cluster>>
lifecycleVars == <<hostVars, board, feed, quota>>

-----------------------------------------------------------------------------
(* A process.  Its steps are those of start, of its subclass, and of the     *)
(* lifespan handler; "cleanup" counts those of shutdown.                     *)
Steps == <<"configuration", "pool", "migrations", "redis", "composition", "registration",
           "leadership", "plugins", "scheduler", "health", "audit", "webhook", "recovery">>
StepAt(h) == Steps[host[h].step]
(* Those that start wraps in its try; the first raises before it.            *)
Guarded == {Steps[i] : i \in 2 .. 11}
Connections == {"pool", "redis"}
HostDown ==
  [life |-> "down", step |-> 1, holds |-> {}, app |-> FALSE, leads |-> FALSE, led |-> FALSE,
   contends |-> FALSE, plugins |-> FALSE, scheduler |-> FALSE, workers |-> FALSE, known |-> {},
   cleanup |-> 0, botched |-> FALSE, raced |-> FALSE, inside |-> TRUE]

HostInit ==
  /\ host = [h \in Hosts |-> HostDown]
  /\ cluster = [lock |-> "free", schema |-> "free", recorded |-> 0,
                ran |-> [m \in 1 .. Migrations |-> 0], torn |-> [m \in 1 .. Migrations |-> 0],
                doing |-> [h \in Hosts |-> 0], starts |-> 0, faults |-> 0]

HostIn(h, lives) == host[h].life \in lives
On(h, step) == HostIn(h, {"starting"}) /\ StepAt(h) = step
Goes(h, next) == host' = [host EXCEPT ![h] = next]
(* The step is done: what it says of the dependencies is known.              *)
Past(h, more) == [host[h] EXCEPT !.step = @ + 1, !.known = @ \cup more]

Boot(h) ==
  /\ HostIn(h, {"down"}) /\ cluster.starts < MaxHostStarts
  /\ Goes(h, [HostDown EXCEPT !.life = "starting"])
  /\ cluster' = [cluster EXCEPT !.starts = @ + 1]

(* Steps with no effect outside the process.                                 *)
PlainStep(h) ==
  /\ \/ On(h, "configuration") /\ Goes(h, Past(h, {"configuration"}))
     \/ On(h, "pool") /\ Goes(h, [Past(h, {"postgresql"}) EXCEPT !.holds = @ \cup {"pool"}])
     \/ On(h, "redis") /\ Goes(h, [Past(h, {"redis"}) EXCEPT !.holds = @ \cup {"redis"}])
     \/ On(h, "composition") /\ Goes(h, [Past(h, {}) EXCEPT !.app = TRUE])
     \/ On(h, "registration") /\ Goes(h, Past(h, {"hierarchy_shadow"}))
     \/ On(h, "plugins") /\ Goes(h, [Past(h, {}) EXCEPT !.plugins = TRUE])
     \/ On(h, "scheduler") /\ Goes(h, [Past(h, {}) EXCEPT !.scheduler = @ \/ host[h].led])
     \/ On(h, "health") /\ Goes(h, Past(h, {"services"}))
     \/ On(h, "webhook") /\ Goes(h, Past(h, {}))
  /\ UNCHANGED cluster

(* The newest records of the audit log are sound, or they are not.           *)
VerifyAudit(h) ==
  /\ On(h, "audit") /\ UNCHANGED cluster
  /\ \E found \in {{}, {"audit_integrity"}} : Goes(h, Past(h, found))

(* With Telegram's webhook there are three workers.                          *)
Serve(h) ==
  /\ On(h, "recovery") /\ UNCHANGED cluster
  /\ \E w \in BOOLEAN : Goes(h, [host[h] EXCEPT !.life = "running", !.workers = w])

\* Mutant: migrations run without the advisory lock.
SchemaUnlocked(h) == TRUE

SchemaFree(h) == cluster.schema \in {"free", h}

(* The session's advisory lock, then each file: its SQL, then its record.    *)
LockSchema(h) ==
  /\ On(h, "migrations") /\ cluster.doing[h] = 0 /\ cluster.schema # h /\ SchemaFree(h)
  /\ cluster' = [cluster EXCEPT !.schema = h] /\ UNCHANGED host

Migrate(h) ==
  LET m == cluster.recorded + 1 IN
    /\ On(h, "migrations") /\ cluster.schema = h /\ cluster.doing[h] = 0 /\ m <= Migrations
    /\ cluster' = [cluster EXCEPT !.ran[m] = @ + 1, !.doing[h] = m] /\ UNCHANGED host

RecordMigration(h) ==
  /\ cluster.doing[h] # 0 /\ HostIn(h, {"starting"})
  /\ cluster' = [cluster EXCEPT !.recorded = cluster.doing[h], !.doing[h] = 0]
  /\ UNCHANGED host

Migrated(h) ==
  /\ On(h, "migrations") /\ cluster.schema = h /\ cluster.recorded = Migrations
  /\ cluster.doing[h] = 0
  /\ cluster' = [cluster EXCEPT !.schema = "free"] /\ Goes(h, Past(h, {"migrations"}))

(* A session that ends, or the finally, gives the schema up.  The lock of a  *)
(* process that is gone stays for its lifetime.                              *)
Left(h) == [cluster EXCEPT !.lock = IF @ = h THEN "gone" ELSE @]
LeftSchema(h) ==
  [Left(h) EXCEPT !.schema = IF @ = h THEN "free" ELSE @,
     !.doing[h] = 0, !.faults = @ + 1,
     !.torn = IF cluster.doing[h] = 0 THEN @ ELSE [@ EXCEPT ![cluster.doing[h]] = @ + 1]]

(* acquire_or_wait.                                                          *)
TakeLock(h) ==
  /\ On(h, "leadership")
  /\ IF cluster.lock = "free"
     THEN /\ cluster' = [cluster EXCEPT !.lock = h]
          /\ Goes(h, [Past(h, {}) EXCEPT !.leads = TRUE, !.led = TRUE])
     ELSE UNCHANGED cluster /\ Goes(h, [Past(h, {}) EXCEPT !.contends = TRUE])

(* The contender starts the scheduler as soon as it wins, whatever else the  *)
(* process is doing.                                                         *)
WinLock(h) ==
  /\ host[h].contends /\ cluster.lock = "free"
  /\ cluster' = [cluster EXCEPT !.lock = h]
  /\ Goes(h, [host[h] EXCEPT !.contends = FALSE, !.leads = TRUE, !.scheduler = TRUE,
                             !.raced = host[h].cleanup > 0])

(* A lock that nobody renews expires.                                        *)
LockExpires ==
  /\ cluster.lock = "gone" /\ cluster' = [cluster EXCEPT !.lock = "free"] /\ UNCHANGED host

HostFault == cluster.faults < MaxHostFaults

(* A step of start raises: what it may have begun is held, and shutdown      *)
(* follows.  Before the try, and after it in the subclass, nothing follows.  *)
StepRaises(h) ==
  /\ HostIn(h, {"starting"}) /\ HostFault
  (* The answer of Redis may be lost after it has set the key.               *)
  /\ \E l \in {cluster.lock, IF On(h, "leadership") /\ cluster.lock = "free"
                              THEN "gone" ELSE cluster.lock} :
       cluster' = [LeftSchema(h) EXCEPT !.lock = l]
  /\ IF StepAt(h) \in Guarded
     THEN Goes(h, [host[h] EXCEPT !.life = "failing", !.cleanup = 1,
            !.holds = IF StepAt(h) \in Connections THEN @ \cup {StepAt(h)} ELSE @,
            !.plugins = @ \/ StepAt(h) = "plugins"])
     ELSE Goes(h, [host[h] EXCEPT !.life = "failed", !.inside = StepAt(h) = "configuration"])

(* Lifespan shutdown: the workers are cancelled and awaited, then shutdown.  *)
StopHost(h) ==
  /\ HostIn(h, {"running"}) /\ UNCHANGED cluster
  /\ Goes(h, [host[h] EXCEPT !.life = "closing", !.workers = FALSE, !.cleanup = 1])

Cleaning(h) == host[h].cleanup > 0 /\ HostIn(h, {"failing", "closing"})
Cleaned(h) == [host[h] EXCEPT !.cleanup = @ + 1]

\* Mutant: the plugins are stopped only by a leader.
StopAsLeader(h) == [Cleaned(h) EXCEPT !.plugins = @ /\ ~host[h].leads]

StopPlugins(h) == [Cleaned(h) EXCEPT !.plugins = FALSE]

CleanupStep(h) ==
  /\ Cleaning(h)
  /\ \/ /\ host[h].cleanup = 1 /\ UNCHANGED cluster
        /\ Goes(h, [Cleaned(h) EXCEPT !.scheduler = @ /\ ~(host[h].app /\ host[h].leads)])
     \/ /\ host[h].cleanup = 2 /\ UNCHANGED cluster
        /\ Goes(h, IF host[h].app THEN StopPlugins(h) ELSE Cleaned(h))
     \/ /\ host[h].cleanup = 3
        /\ cluster' = IF host[h].leads THEN [cluster EXCEPT !.lock = "free"] ELSE cluster
        /\ Goes(h, [Cleaned(h) EXCEPT !.leads = FALSE, !.contends = FALSE])
     \/ /\ host[h].cleanup = 4 /\ UNCHANGED cluster
        /\ Goes(h, [Cleaned(h) EXCEPT !.holds = @ \ {"redis"}])
     \/ /\ host[h].cleanup = 5 /\ UNCHANGED cluster
        /\ Goes(h, [host[h] EXCEPT !.holds = @ \ {"pool"}, !.cleanup = 0,
                      !.life = IF @ = "failing" THEN "failed" ELSE "stopped"])

(* One step of shutdown raises: the rest is not done.                        *)
CleanupRaises(h) ==
  /\ Cleaning(h) /\ HostFault /\ cluster' = [cluster EXCEPT !.faults = @ + 1]
  /\ Goes(h, [host[h] EXCEPT !.cleanup = 0, !.botched = TRUE,
                !.life = IF @ = "failing" THEN "failed" ELSE "stopped"])

(* A process that has failed or stopped exits, and any may crash.            *)
HostExits(h) ==
  /\ HostIn(h, {"failed", "stopped"}) /\ Goes(h, HostDown) /\ cluster' = Left(h)

HostCrashes(h) ==
  /\ ~HostIn(h, {"down"}) /\ HostFault /\ Goes(h, HostDown) /\ cluster' = LeftSchema(h)

HostNext ==
  /\ \/ LockExpires
     \/ \E h \in Hosts :
          \/ Boot(h) \/ PlainStep(h) \/ VerifyAudit(h) \/ Serve(h)
          \/ LockSchema(h) \/ Migrate(h) \/ RecordMigration(h) \/ Migrated(h)
          \/ TakeLock(h) \/ WinLock(h) \/ StepRaises(h) \/ StopHost(h)
          \/ CleanupStep(h) \/ CleanupRaises(h) \/ HostExits(h) \/ HostCrashes(h)
  /\ UNCHANGED <<board, feed, quota>>

(* readiness.                                                                *)
Mandatory == {"configuration", "postgresql", "migrations", "redis", "hierarchy_shadow",
              "services", "audit_integrity"}
Ready(h) == host[h].app /\ Mandatory \subseteq host[h].known

-----------------------------------------------------------------------------
(* TradingView's alerts: the text and the window of the clock make the       *)
(* fingerprint, and a second row of the same one is refused.                 *)
BoardInit == board = [now |-> 0, rows |-> {}]

\* Mutant: windows of half the time an alert is fresh.
HalfWindow(t) == (2 * t) \div FreshFor

WindowOf(t) == t \div FreshFor

ReceiveSignal ==
  \E a \in AlertTexts :
    /\ ~ \E r \in board.rows : r.text = a /\ r.window = WindowOf(board.now)
    /\ board' = [board EXCEPT !.rows =
         @ \cup {[text |-> a, window |-> WindowOf(board.now), at |-> board.now]}]

BoardTick == board.now < AlertEnd /\ board' = [board EXCEPT !.now = @ + 1]

BoardNext == (ReceiveSignal \/ BoardTick) /\ UNCHANGED <<hostVars, feed, quota>>

(* recent_tradingview_alerts.                                                *)
Recent(a) == {r \in board.rows : r.text = a /\ r.at > board.now - FreshFor}

-----------------------------------------------------------------------------
(* The monitor of X posts marks a post before it sends it.                   *)
FeedInit ==
  feed = [marked |-> {}, run |-> [m \in Monitors |-> {}], sending |-> [m \in Monitors |-> {}],
          sent |-> [p \in Posts |-> 0], reads |-> 0]

FetchPosts(m) ==
  /\ feed.run[m] = {} /\ feed.sending[m] = {} /\ feed.reads < MaxReads
  /\ \E found \in SUBSET Posts \ {{}} :
       feed' = [feed EXCEPT !.run[m] = found, !.reads = @ + 1]

\* Mutant: the key is set without NX.
AnyPost(p) == TRUE

Unmarked(p) == p \notin feed.marked

MarkPost(m) ==
  /\ feed.sending[m] = {}
  /\ \E p \in feed.run[m] :
       feed' = [feed EXCEPT !.run[m] = @ \ {p}, !.marked = @ \cup {p},
                            !.sending[m] = IF Unmarked(p) THEN {p} ELSE {}]

(* The message is sent; or it raises and the run ends, to be tried again.    *)
SendPost(m) ==
  \E p \in feed.sending[m] :
    \/ feed' = [feed EXCEPT !.sending[m] = {}, !.sent[p] = @ + 1]
    \/ feed' = [feed EXCEPT !.sending[m] = {}, !.run[m] = {}]

FeedNext ==
  /\ \E m \in Monitors : FetchPosts(m) \/ MarkPost(m) \/ SendPost(m)
  /\ UNCHANGED <<hostVars, board, quota>>

-----------------------------------------------------------------------------
(* FlashAlpha's requests of a day.  A scan plans its analyses from what was  *)
(* left when it began; operators ask at any time.                            *)
Scanners == DOMAIN ScanShare
Reserve == Max({2, Min({50, DailyLimit \div 10})})

QuotaInit ==
  quota = [left |-> DailyLimit, scan |-> [s \in Scanners |-> 0], runs |-> [s \in Scanners |-> 0],
           extra |-> 0, asked |-> 0, spent |-> 0, mixed |-> FALSE]

\* Mutant: the reserve is not held back from what is left.
WithoutReserve(s) == quota.left \div ScanCost[s]

RemainingCapacity(s) == Max({0, quota.left - Reserve}) \div ScanCost[s]

(* _flashalpha_scheduled_capacity.                                           *)
PlannedCapacity(s) ==
  ((DailyLimit - Reserve) * ScanShare[s]) \div (10 * ScanCycles[s] * ScanCost[s])
ScanCapacity(s) == Min({RemainingCapacity(s), PlannedCapacity(s)})

BeginScan(s) ==
  LET late == quota.runs[s] >= ScanCycles[s] IN
    /\ quota.scan[s] = 0 /\ ScanCapacity(s) > 0 /\ (late => quota.extra < MaxExtraRuns)
    /\ quota' = [quota EXCEPT !.scan[s] = ScanCapacity(s), !.runs[s] = @ + 1,
                   !.extra = IF late THEN @ + 1 ELSE @,
                   !.mixed = @ \/ ((late \/ quota.extra > 0)
                                  /\ \E o \in Scanners : quota.scan[o] > 0)]

(* An analysis takes at most its cost.                                       *)
ScanOne(s) ==
  /\ quota.scan[s] > 0
  /\ \E n \in {0, ScanCost[s]} :
       /\ n <= quota.left
       /\ quota' = [quota EXCEPT !.scan[s] = @ - 1, !.left = @ - n, !.spent = @ + n]

AskQuota ==
  /\ quota.left >= 2 /\ quota' = [quota EXCEPT !.left = @ - 2, !.asked = @ + 2]

QuotaNext ==
  /\ AskQuota \/ \E s \in Scanners : BeginScan(s) \/ ScanOne(s)
  /\ UNCHANGED <<hostVars, board, feed>>

LifecycleInit == HostInit /\ BoardInit /\ FeedInit /\ QuotaInit

LifecycleTypeOK ==
  /\ cluster.lock \in Hosts \cup {"free", "gone"} /\ cluster.schema \in Hosts \cup {"free"}
  /\ \A h \in Hosts : host[h].step \in 1 .. Len(Steps) /\ host[h].holds \subseteq Connections
  /\ feed.marked \subseteq Posts /\ quota.left \in 0 .. DailyLimit

-----------------------------------------------------------------------------
\* A start that fails within its try leaves nothing behind, unless the cleanup
\* raised: no connection, no plugin, no lock, and no scheduler but one that won
\* the lock while the cleanup was stopping the plugins.
FailedStartHoldsNothing ==
  \A h \in Hosts : HostIn(h, {"failed"}) /\ host[h].inside /\ ~host[h].botched =>
    /\ host[h].holds = {} /\ ~host[h].plugins /\ ~host[h].workers /\ cluster.lock # h
    /\ host[h].scheduler => host[h].raced

\* Jobs and workers run only while the stores they use are open.
StoresOutliveWork ==
  \A h \in Hosts : host[h].workers \/ (host[h].scheduler /\ ~host[h].raced) =>
    host[h].holds = Connections

\* Processes that start together apply a migration once; its SQL runs again only
\* when a process stopped between it and its record.
MigrateOnce == \A m \in 1 .. Migrations : cluster.ran[m] <= 1 + cluster.torn[m]

\* A process that reports itself ready while it starts or serves has migrated,
\* holds its stores, has started its plugins, and found its audit log sound.
ReadyIsWhole ==
  \A h \in Hosts : Ready(h) /\ HostIn(h, {"starting", "running"}) =>
    /\ host[h].holds = Connections /\ host[h].plugins /\ host[h].step > 11
    /\ cluster.recorded = Migrations

\* Of an alert sent again and again at most two copies count as recent.  (The
\* second one is the first of the next window: only within a window is a replay
\* refused, production.py:2452.)
RecentAtMostTwice == \A a \in AlertTexts : Cardinality(Recent(a)) <= 2

\* A post is sent once at most, however runs of the monitor overlap and fail.
PostsSentOnce == \A p \in Posts : feed.sent[p] <= 1

\* Scheduled scans leave the reserve to operators, even when they overlap; with
\* runs beyond the day's plan, if those do not overlap another scan.
ReserveIsKept == quota.mixed \/ quota.spent <= DailyLimit - Reserve

LifecycleSound ==
  /\ FailedStartHoldsNothing /\ StoresOutliveWork /\ MigrateOnce /\ ReadyIsWhole
  /\ RecentAtMostTwice /\ PostsSentOnce /\ ReserveIsKept
=============================================================================
