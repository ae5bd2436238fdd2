------------------------------ MODULE LiveServer ------------------------------
(* The dashboard server: live/server.py with its store of one profile        *)
(* (live/users.py), the services it keeps for profiles (TenantServices), its *)
(* rate limiter, its ledger of signals (live/performance.py) and its file of *)
(* TradingView alerts.  A thread serves each request, every call of the      *)
(* store is a transaction of its own, and a call may raise between two.      *)
(*                                                                           *)
(* Passwords, codes, credentials and sessions are counted, not spelled: a    *)
(* number that was never given out is a wrong one, and changes nothing.      *)
EXTENDS Integers, Sequences, FiniteSets

LOCAL INSTANCE SequencesExt

CONSTANTS
  LiveThreads,    \* requests served at the same time
  MaxLiveRequests, \* bound: requests served
  MaxLiveFaults,  \* bound: calls that raise, and restarts
  RateLimit, RateWindow, PruneEvery, \* _rate_limited, for one client and path
  RateEnd,        \* bound: the last tick of the limiter's clock
  LedgerIds, LedgerOwners, LedgerLevels,
  AlertLimit,     \* TRADINGVIEW_ALERT_LIMIT
  MaxAlerts       \* bound: alerts received

VARIABLES
  profile,   \* password, credentials and settings of the user, and sessions
  codes,     \* for each purpose the codes issued, and whether the last one stands
  tenant,    \* the service kept for the user, and who holds the lock
  request,   \* each thread's point and what it has read
  journal,   \* history: settings saved, codes redeemed, races, requests, faults
  limiter,   \* the clock, the stamps kept, the last pruning; history: those passed
  ledger,    \* signal_records
  alerts     \* the list in memory, the file, who writes; history: those received

accountVars == <<profile, codes, tenant, request, journal>>
liveVars == <<accountVars, limiter, ledger, alerts>>

Purposes == {"login", "reset"}
Fields == {"name", "symbol", "rules"}
Default == [f \in Fields |-> 0]
NoService == [id |-> 0]
NoRequest == [pc |-> "idle"]

AccountsInit ==
  /\ profile = [password |-> 0, keys |-> 0, row |-> <<>>, sessions |-> {}]
  /\ codes = [k \in Purposes |-> [issued |-> 0, stands |-> FALSE]]

TenantInit == tenant = [service |-> NoService, lock |-> "free", built |-> 0]

LedgerInit == ledger = [i \in LedgerIds |-> <<>>]

LiveInit ==
  /\ AccountsInit /\ TenantInit /\ LedgerInit
  /\ request = [t \in LiveThreads |-> NoRequest]
  /\ journal = [saved |-> Default, opened |-> [k \in Purposes |-> {}], twice |-> FALSE,
                raced |-> FALSE, slipped |-> FALSE, requests |-> 0, faults |-> 0]
  /\ limiter = [now |-> 0, stamps |-> <<>>, pruned |-> 0, passed |-> <<>>]
  /\ alerts = [memory |-> <<>>, file |-> <<>>, writing |-> FALSE, received |-> <<>>,
               cut |-> FALSE]

LiveAt(t, pc) == request[t].pc = pc
LiveGoes(t, next) == request' = [request EXCEPT ![t] = next]
Begins(t) == LiveAt(t, "idle") /\ journal.requests < MaxLiveRequests
Counted == [journal EXCEPT !.requests = @ + 1]
(* settings_for_user: the defaults when there is no row.                     *)
SettingsOf(row) == IF row = <<>> THEN Default ELSE row
SignedIn == profile.sessions # {}

-----------------------------------------------------------------------------
(* Sessions.  One that has expired is found by nobody: it is as good as      *)
(* deleted.  by is the password it was opened under.                         *)
Session(by) == [pc |-> "session", by |-> by]

Register(t) ==
  /\ Begins(t) /\ profile.password = 0
  /\ profile' = [profile EXCEPT !.password = 1] /\ journal' = Counted
  /\ \/ LiveGoes(t, Session(1))
     \/ LiveGoes(t, [pc |-> "read", field |-> "name", value |-> 1, next |-> Session(1)])
  /\ UNCHANGED <<codes, tenant>>

LogIn(t) ==
  /\ Begins(t) /\ profile.password # 0
  /\ LiveGoes(t, Session(profile.password)) /\ journal' = Counted
  /\ UNCHANGED <<profile, codes, tenant>>

OpenSession(t) ==
  /\ LiveAt(t, "session")
  /\ profile' = [profile EXCEPT !.sessions = @ \cup
       {[by |-> request[t].by, late |-> request[t].by # profile.password]}]
  /\ LiveGoes(t, NoRequest) /\ UNCHANGED <<codes, tenant, journal>>

LogOut(t) ==
  /\ Begins(t) /\ journal' = Counted
  /\ \E s \in profile.sessions : profile' = [profile EXCEPT !.sessions = @ \ {s}]
  /\ UNCHANGED <<codes, tenant, request>>

SessionExpires ==
  /\ \E s \in profile.sessions : profile' = [profile EXCEPT !.sessions = @ \ {s}]
  /\ UNCHANGED <<codes, tenant, request, journal>>

-----------------------------------------------------------------------------
(* create_login_code and create_password_reset_code: the last one stands.    *)
AskCode(t, k) ==
  /\ Begins(t) /\ profile.password # 0
  /\ codes' = [codes EXCEPT ![k] = [issued |-> @.issued + 1, stands |-> TRUE]]
  /\ journal' = Counted /\ UNCHANGED <<profile, tenant, request>>

CodeExpires(k) ==
  /\ codes[k].stands /\ codes' = [codes EXCEPT ![k].stands = FALSE]
  /\ UNCHANGED <<profile, tenant, request, journal>>

(* The row is selected before the first write takes the database's lock.     *)
ReadCode(t, k) ==
  LET n == codes[k].issued IN
    /\ Begins(t) /\ codes[k].stands
    /\ LiveGoes(t, [pc |-> "redeem", purpose |-> k, code |-> n])
    /\ journal' = [Counted EXCEPT !.raced =
         \/ journal.raced
         \/ \E u \in LiveThreads :
              LiveAt(u, "redeem") /\ request[u].purpose = k /\ request[u].code = n]
    /\ UNCHANGED <<profile, codes, tenant>>

Redeemed(t) ==
  LET k == request[t].purpose  n == request[t].code IN
    [journal EXCEPT !.opened[k] = @ \cup {n}, !.twice = @ \/ n \in journal.opened[k]]
\* Mutant: the code is not deleted when it is used.
CodeKept(k) == codes

(* The user's row is deleted, even if it is another code's by now.           *)
CodeSpent(k) == [codes EXCEPT ![k].stands = FALSE]

RedeemLogin(t) ==
  /\ LiveAt(t, "redeem") /\ request[t].purpose = "login"
  /\ codes' = CodeSpent("login") /\ journal' = Redeemed(t)
  /\ LiveGoes(t, Session(profile.password)) /\ UNCHANGED <<profile, tenant>>

RedeemReset(t) ==
  /\ LiveAt(t, "redeem") /\ request[t].purpose = "reset"
  /\ codes' = CodeSpent("reset") /\ journal' = Redeemed(t)
  /\ profile' = [profile EXCEPT !.password = @ + 1, !.sessions = {}]
  /\ LiveGoes(t, [pc |-> "reset", next |-> Session(profile.password + 1)])
  /\ UNCHANGED tenant

-----------------------------------------------------------------------------
(* Settings.  What was read fills the other columns of a first row; an       *)
(* existing row changes in the saved columns only.                           *)
BeginSave(t, f) ==
  /\ Begins(t) /\ SignedIn /\ journal' = Counted
  /\ \E v \in {1, 2} :
       LiveGoes(t, [pc |-> "read", field |-> f, value |-> v,
                    next |-> IF f = "name" THEN NoRequest ELSE [pc |-> "reset", next |-> NoRequest]])
  /\ UNCHANGED <<profile, codes, tenant>>

ReadSettings(t) ==
  /\ LiveAt(t, "read")
  /\ LiveGoes(t, [pc |-> "save", field |-> request[t].field, value |-> request[t].value,
                  next |-> request[t].next, seen |-> SettingsOf(profile.row)])
  /\ UNCHANGED <<profile, codes, tenant, journal>>

\* Mutant: an existing row takes every column that was read.
SavedWhole(row, seen, f, v) == [seen EXCEPT ![f] = v]

SavedRow(row, seen, f, v) ==
  [(IF row = <<>> THEN [Default EXCEPT !.symbol = seen.symbol] ELSE row) EXCEPT ![f] = v]

SaveRow(t) ==
  LET r == request[t] IN
    /\ LiveAt(t, "save")
    /\ profile' = [profile EXCEPT !.row = SavedRow(@, r.seen, r.field, r.value)]
    /\ journal' = [journal EXCEPT !.saved[r.field] = r.value]
    /\ LiveGoes(t, r.next) /\ UNCHANGED <<codes, tenant>>

SaveCredentials(t) ==
  /\ Begins(t) /\ SignedIn /\ journal' = Counted
  /\ profile' = [profile EXCEPT !.keys = @ + 1]
  /\ LiveGoes(t, [pc |-> "reset", next |-> NoRequest]) /\ UNCHANGED <<codes, tenant>>

-----------------------------------------------------------------------------
(* TenantServices.  A popped service is stopped outside the lock; whoever    *)
(* still holds it acts on an object that nobody else finds.                  *)
ResetUser(t) ==
  /\ LiveAt(t, "reset") /\ tenant.lock = "free"
  /\ tenant' = [tenant EXCEPT !.service = NoService]
  /\ journal' = [journal EXCEPT !.slipped = FALSE]
  /\ LiveGoes(t, request[t].next) /\ UNCHANGED <<profile, codes>>

AskService(t) ==
  /\ Begins(t) /\ SignedIn /\ journal' = Counted
  /\ \E op \in {"start", "stop", "status"} : LiveGoes(t, [pc |-> "tenant", op |-> op])
  /\ UNCHANGED <<profile, codes, tenant>>

(* service_for_user: the one kept, or one built under the lock.              *)
FindService(t) ==
  /\ LiveAt(t, "tenant") /\ tenant.lock = "free"
  /\ IF tenant.service # NoService
     THEN /\ LiveGoes(t, [pc |-> "use", op |-> request[t].op, id |-> tenant.service.id])
          /\ UNCHANGED tenant
     ELSE IF profile.keys = 0 THEN LiveGoes(t, NoRequest) /\ UNCHANGED tenant
     ELSE /\ LiveGoes(t, [pc |-> "build", op |-> request[t].op, keys |-> profile.keys])
          /\ tenant' = [tenant EXCEPT !.lock = t]
  /\ UNCHANGED <<profile, codes, journal>>

BuildService(t) ==
  LET id == tenant.built + 1  settings == SettingsOf(profile.row) IN
    /\ LiveAt(t, "build")
    /\ tenant' = [lock |-> "free", built |-> id,
                  service |-> [id |-> id, keys |-> request[t].keys, symbol |-> settings.symbol,
                               rules |-> settings.rules, halted |-> FALSE]]
    /\ LiveGoes(t, [pc |-> "use", op |-> request[t].op, id |-> id])
    /\ UNCHANGED <<profile, codes, journal>>

(* stop sets the kill switch; start only says that execution is disabled.    *)
UseService(t) ==
  /\ LiveAt(t, "use")
  /\ tenant' = IF request[t].op = "stop" /\ tenant.service.id = request[t].id
               THEN [tenant EXCEPT !.service.halted = TRUE] ELSE tenant
  /\ LiveGoes(t, NoRequest) /\ UNCHANGED <<profile, codes, journal>>

(* A call raises: the request ends, and a lock it holds is released.         *)
LiveFails(t) ==
  /\ ~LiveAt(t, "idle") /\ journal.faults < MaxLiveFaults
  /\ journal' = [journal EXCEPT !.faults = @ + 1, !.slipped = @ \/ LiveAt(t, "reset")]
  /\ tenant' = IF tenant.lock = t THEN [tenant EXCEPT !.lock = "free"] ELSE tenant
  /\ LiveGoes(t, NoRequest) /\ UNCHANGED <<profile, codes>>

ServerRestarts ==
  /\ journal.faults < MaxLiveFaults
  /\ journal' = [journal EXCEPT !.faults = @ + 1, !.slipped = FALSE]
  /\ tenant' = [tenant EXCEPT !.service = NoService, !.lock = "free"]
  /\ request' = [t \in LiveThreads |-> NoRequest] /\ UNCHANGED <<profile, codes>>

AccountsNext ==
  /\ \/ \E t \in LiveThreads :
          \/ Register(t) \/ LogIn(t) \/ OpenSession(t) \/ LogOut(t)
          \/ \E k \in Purposes : AskCode(t, k) \/ ReadCode(t, k)
          \/ RedeemLogin(t) \/ RedeemReset(t)
          \/ \E f \in Fields : BeginSave(t, f)
          \/ ReadSettings(t) \/ SaveRow(t) \/ SaveCredentials(t)
          \/ ResetUser(t) \/ AskService(t) \/ FindService(t) \/ BuildService(t)
          \/ UseService(t) \/ LiveFails(t)
     \/ SessionExpires \/ \E k \in Purposes : CodeExpires(k)
     \/ ServerRestarts
  /\ UNCHANGED <<limiter, ledger, alerts>>

-----------------------------------------------------------------------------
(* _rate_limited: stamps of passed requests; all paths are pruned together.  *)
RateTick ==
  /\ limiter.now < RateEnd /\ limiter' = [limiter EXCEPT !.now = @ + 1]
  /\ UNCHANGED <<accountVars, ledger, alerts>>

Pruned ==
  IF limiter.now - limiter.pruned < PruneEvery THEN limiter
  ELSE [limiter EXCEPT !.pruned = limiter.now,
          !.stamps = SelectSeq(@, LAMBDA x : x >= limiter.now - PruneEvery)]

RateCheck ==
  LET kept == SelectSeq(Pruned.stamps, LAMBDA x : limiter.now - x < RateWindow) IN
    /\ limiter' = IF Len(kept) >= RateLimit THEN [Pruned EXCEPT !.stamps = kept]
                  ELSE [Pruned EXCEPT !.stamps = Append(kept, limiter.now),
                                      !.passed = Append(@, limiter.now)]
    /\ UNCHANGED <<accountVars, ledger, alerts>>

-----------------------------------------------------------------------------
(* SignalPerformanceStore.save: an unknown status counts as pending; a       *)
(* record that another user owns is refused.                                 *)
SignalStatus == {"PENDING", "ACTIVE", "WIN", "LOSS"}

SavedSignal(kept, signal) ==
  IF kept = <<>> THEN <<signal>>
  ELSE IF kept[1].owner = signal.owner THEN <<[kept[1] EXCEPT !.status = signal.status]>>
  ELSE kept

RecordsNext ==
  /\ \E i \in LedgerIds, owner \in LedgerOwners, levels \in LedgerLevels, s \in SignalStatus :
       ledger' = [ledger EXCEPT ![i] =
                    SavedSignal(@, [owner |-> owner, levels |-> levels, status |-> s])]
  /\ UNCHANGED <<accountVars, limiter, alerts>>

-----------------------------------------------------------------------------
(* The webhook: the newest alerts are kept, and the file written over, under *)
(* tradingview_lock.  A file that is cut is read as no alerts.               *)
Newest(list) == SubSeq(list, 1, IF Len(list) < AlertLimit THEN Len(list) ELSE AlertLimit)

ReceiveAlert ==
  LET n == Len(alerts.received) + 1 IN
    /\ ~alerts.writing /\ n <= MaxAlerts
    /\ alerts' = [alerts EXCEPT !.memory = Newest(<<n>> \o @), !.file = <<>>, !.writing = TRUE,
                                !.received = <<n>> \o @]
    /\ UNCHANGED <<accountVars, limiter, ledger>>

WriteAlerts ==
  /\ alerts.writing
  /\ alerts' = [alerts EXCEPT !.file = alerts.memory, !.writing = FALSE]
  /\ UNCHANGED <<accountVars, limiter, ledger>>

AlertWriteFails ==
  /\ alerts.writing /\ alerts' = [alerts EXCEPT !.writing = FALSE, !.cut = TRUE]
  /\ UNCHANGED <<accountVars, limiter, ledger>>

AlertsReload ==
  /\ alerts' = [alerts EXCEPT !.memory = alerts.file, !.writing = FALSE,
                              !.cut = @ \/ alerts.writing]
  /\ UNCHANGED <<accountVars, limiter, ledger>>

(* The four share a process and nothing else.                                *)
RatesNext == RateTick \/ RateCheck
AlertsNext == ReceiveAlert \/ WriteAlerts \/ AlertWriteFails \/ AlertsReload

LiveTypeOK ==
  /\ profile.password \in Nat /\ profile.keys \in Nat
  /\ profile.row \in {<<>>} \cup [Fields -> 0 .. 2] /\ tenant.lock \in LiveThreads \cup {"free"}
  /\ \A k \in Purposes : journal.opened[k] \subseteq 1 .. codes[k].issued
  /\ Len(limiter.stamps) <= RateLimit /\ Len(alerts.memory) <= AlertLimit

-----------------------------------------------------------------------------
\* The service that requests are served from has the credentials and the rules
\* that were saved last, unless a save is still to reset it: whatever requests
\* overlap while it is built.  (A save that raises before its reset leaves the
\* old service in place until the next save or restart.)
ServiceIsCurrent ==
  tenant.service # NoService /\ ~journal.slipped /\ (\A t \in LiveThreads : ~LiveAt(t, "reset")) =>
    /\ tenant.service.keys = profile.keys
    /\ \A f \in {"symbol", "rules"} : tenant.service[f] = SettingsOf(profile.row)[f]

\* After a password reset only sessions opened under the new password are found,
\* and those of a login that was already under way (tests/test_live_users.py:131).
ResetEndsSessions == \A s \in profile.sessions : s.by = profile.password \/ s.late

\* A code is redeemed once, unless two requests read it at the same time
\* (tests/test_live_users.py:166).
CodesWorkOnce == journal.twice => journal.raced

\* Concurrent saves of different settings do not undo each other.
SavesSurvive == profile.row # <<>> => profile.row = journal.saved

\* No window of the limiter passes more requests than its limit, wherever it
\* begins and whenever the stamps of all clients are pruned.
WithinRate ==
  \A i \in 1 .. Len(limiter.passed) - RateLimit :
    limiter.passed[i + RateLimit] - limiter.passed[i] >= RateWindow

\* The newest alerts outlive a restart, unless a write of the file was cut.
AlertsOutlive == alerts.cut \/ alerts.memory = Newest(alerts.received)

LiveSound ==
  /\ ServiceIsCurrent /\ ResetEndsSessions /\ CodesWorkOnce /\ SavesSurvive
  /\ WithinRate /\ AlertsOutlive

\* A signal's record keeps its owner and the levels it was recorded with,
\* whoever saves it again.
LedgerKeeps ==
  [][\A i \in LedgerIds : ledger[i] # <<>> =>
       /\ ledger'[i][1].owner = ledger[i][1].owner
       /\ ledger'[i][1].levels = ledger[i][1].levels]_liveVars
=============================================================================
