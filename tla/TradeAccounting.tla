--------------------------- MODULE TradeAccounting ---------------------------
(* Broker-deal accounting and its notification outbox                        *)
(* (src/monatise/application/trade_accounting.py).  Every heartbeat brings   *)
(* the deals and the position of an approved trade; reconcile keeps one      *)
(* account of it and creates one notice per set of exits, publish_pending    *)
(* sends the notices to Telegram.  Handlers of heartbeats overlap, stop and  *)
(* fail between any two awaits; two heartbeats never share a version of the  *)
(* account.                                                                  *)
(*                                                                           *)
(* A position of Lots lots is closed one lot at a time; the k-th exit gives  *)
(* the event "k exits" (event_id is a hash of the state and the exit deals). *)
EXTENDS Integers

CONSTANTS
  Lots,                 \* the volume of the position, one exit deal per lot
  Beats,                \* heartbeats under way at the same time
  MaxAccountingFaults   \* handlers that stop, storage and Telegram errors

ASSUME AccountingAssumption == Lots \in Nat /\ MaxAccountingFaults \in Nat

VARIABLES
  exits,       \* the exit deals the broker has made
  lifecycle,   \* the proposal's lifecycle_state, as heartbeats record it
  account,     \* the record of ACCOUNTS
  notice,      \* the records of NOTIFICATIONS, by number of exits
  posted,      \* how many Telegram messages each notice has had
  report,      \* the heartbeats: what they report and where their handler is
  accountingFaults

accountingVars == <<exits, lifecycle, account, notice, posted, report, accountingFaults>>

Events == 1 .. Lots
Unnoticed == "none"
Fates == {"published", "outcome_unknown"}

NoBeat == [pc |-> "idle", seen |-> 0, held |-> 0, prior |-> FALSE, historical |-> FALSE,
           writes |-> FALSE, fresh |-> FALSE, listed |-> {}, event |-> 0]

AccountingInit ==
  /\ exits = 0 /\ lifecycle = "none"
  /\ account = [status |-> "none", result |-> -1, historical |-> FALSE]
  /\ notice = [k \in Events |-> Unnoticed] /\ posted = [k \in Events |-> 0]
  /\ report = [b \in Beats |-> NoBeat] /\ accountingFaults = 0

BeatAt(b, point) == report[b].pc = point
Moves(b, pc) == report' = [report EXCEPT ![b].pc = pc]

-----------------------------------------------------------------------------
(* The broker closes a lot.                                                  *)
BrokerExits ==
  /\ exits < Lots /\ exits' = exits + 1
  /\ UNCHANGED <<lifecycle, account, notice, posted, report, accountingFaults>>

(* BuildHeartbeat reads the deals, which the history may still lack, and     *)
(* then the positions: it reports no more exits than the position shows.     *)
BuildHeartbeat(b, seen) ==
  /\ BeatAt(b, "idle")
  /\ report' = [report EXCEPT ![b] = [NoBeat EXCEPT !.pc = "arrives", !.seen = seen,
                                               !.held = Lots - exits]]
  /\ UNCHANGED <<exits, lifecycle, account, notice, posted, accountingFaults>>

(* accept_bridge_heartbeat: previously_closed is read before the heartbeat's *)
(* own reconciliation moves the lifecycle.                                   *)
ReadClosed(b) ==
  /\ BeatAt(b, "arrives")
  /\ report' = [report EXCEPT ![b].pc = "life", ![b].prior = (lifecycle = "closed")]
  /\ UNCHANGED <<exits, lifecycle, account, notice, posted, accountingFaults>>

RecordLifecycle(b) ==
  /\ BeatAt(b, "life")
  /\ lifecycle' = IF report[b].held > 0 THEN "open"
                  ELSE IF lifecycle = "open" THEN "closed" ELSE lifecycle
  /\ Moves(b, "account")
  /\ UNCHANGED <<exits, account, notice, posted, accountingFaults>>

-----------------------------------------------------------------------------
(* reconcile. *)

(* reconstruct: the deals and the live position must agree on what is left.  *)
Reconstructs(b) == Lots - report[b].seen = report[b].held
Awaits(b) == IF report[b].held = 0 THEN "awaits_closing" ELSE "awaits_history"

ReadAccount(b) ==
  LET historical == IF account.status = "none" THEN report[b].prior ELSE account.historical
      wanted == IF Reconstructs(b) THEN "reconciled" ELSE Awaits(b)
      result == IF Reconstructs(b) THEN report[b].seen ELSE -1
      reports == Reconstructs(b) /\ report[b].seen > 0 /\ ~historical /\ account.result # result
  IN /\ BeatAt(b, "account")
     /\ report' = [report EXCEPT ![b] = [@ EXCEPT
          !.pc = IF reports THEN "look" ELSE "store",
          !.prior = FALSE, !.historical = historical, !.fresh = TRUE,
          !.writes = (account.status # wanted \/ account.result # result)]]
     /\ UNCHANGED <<exits, lifecycle, account, notice, posted, accountingFaults>>

(* A notice is created once, whoever asks for it again.                      *)
LookNotice(b) ==
  /\ BeatAt(b, "look")
  /\ Moves(b, IF notice[report[b].seen] = Unnoticed THEN "notice" ELSE "store")
  /\ UNCHANGED <<exits, lifecycle, account, notice, posted, accountingFaults>>

\* Mutant: the notice is put over whatever is stored.
PutNoticeAgain(b) ==
  /\ BeatAt(b, "notice")
  /\ notice' = [notice EXCEPT ![report[b].seen] = "pending"] /\ Moves(b, "store")
  /\ UNCHANGED <<exits, lifecycle, account, posted, accountingFaults>>

PutNotice(b) ==
  /\ BeatAt(b, "notice")
  /\ IF notice[report[b].seen] = Unnoticed
     THEN notice' = [notice EXCEPT ![report[b].seen] = "pending"] /\ Moves(b, "store")
     ELSE Moves(b, "list") /\ UNCHANGED notice   \* conflict: the other heartbeat goes on
  /\ UNCHANGED <<exits, lifecycle, account, posted, accountingFaults>>

(* The account, over the version that was read.                              *)
StoreAccount(b) ==
  /\ BeatAt(b, "store")
  /\ IF report[b].writes /\ report[b].fresh
     THEN /\ account' = IF Reconstructs(b)
                        THEN [status |-> "reconciled", result |-> report[b].seen,
                              historical |-> report[b].historical]
                        ELSE [status |-> Awaits(b), result |-> -1,
                              historical |-> report[b].historical]
          /\ report' = [c \in Beats |-> IF c = b THEN [report[b] EXCEPT !.pc = "list"]
                                      ELSE [report[c] EXCEPT !.fresh = FALSE]]
     ELSE Moves(b, "list") /\ UNCHANGED account
  /\ UNCHANGED <<exits, lifecycle, notice, posted, accountingFaults>>

-----------------------------------------------------------------------------
(* publish_pending. *)

ListNotices(b) ==
  /\ BeatAt(b, "list")
  /\ report' = [report EXCEPT ![b] = [NoBeat EXCEPT !.pc = "claim",
                !.listed = {k \in Events : notice[k] = "pending"}]]
  /\ UNCHANGED <<exits, lifecycle, account, notice, posted, accountingFaults>>

(* Claimed over the version that was listed: a notice claimed meanwhile is   *)
(* somebody else's.                                                          *)
ClaimNotice(b) ==
  /\ BeatAt(b, "claim")
  /\ \E k \in report[b].listed :
       IF notice[k] = "pending"
       THEN /\ notice' = [notice EXCEPT ![k] = "sending"]
            /\ report' = [report EXCEPT ![b].pc = "send", ![b].listed = @ \ {k}, ![b].event = k]
       ELSE report' = [report EXCEPT ![b].listed = @ \ {k}] /\ UNCHANGED notice
  /\ UNCHANGED <<exits, lifecycle, account, posted, accountingFaults>>

SendNotice(b) ==
  /\ BeatAt(b, "send")
  /\ posted' = [posted EXCEPT ![report[b].event] = @ + 1] /\ Moves(b, "sent")
  /\ UNCHANGED <<exits, lifecycle, account, notice, accountingFaults>>

(* The outcome is kept: an uncertain send is not repeated.                   *)
NoteOutcome(b) ==
  /\ \/ BeatAt(b, "sent") /\ notice' = [notice EXCEPT ![report[b].event] = "published"]
     \/ BeatAt(b, "unsure") /\ notice' = [notice EXCEPT ![report[b].event] = "outcome_unknown"]
  /\ report' = [report EXCEPT ![b].pc = "claim", ![b].event = 0]
  /\ UNCHANGED <<exits, lifecycle, account, posted, accountingFaults>>

BeatAnswered(b) ==
  /\ BeatAt(b, "claim") /\ report[b].listed = {}
  /\ report' = [report EXCEPT ![b] = NoBeat]
  /\ UNCHANGED <<exits, lifecycle, account, notice, posted, accountingFaults>>

-----------------------------------------------------------------------------
(* Errors. *)
AccountingFault ==
  accountingFaults < MaxAccountingFaults /\ accountingFaults' = accountingFaults + 1

(* A storage error in reconcile is caught; the endpoint goes on to publish.  *)
AccountingFails(b) ==
  /\ \E point \in {"account", "look", "notice", "store"} : BeatAt(b, point)
  /\ AccountingFault /\ Moves(b, "list")
  /\ UNCHANGED <<exits, lifecycle, account, notice, posted>>

(* Telegram raises, whether or not the message was shown.                    *)
SendRaises(b) ==
  /\ BeatAt(b, "send") /\ AccountingFault /\ Moves(b, "unsure")
  /\ posted' \in {posted, [posted EXCEPT ![report[b].event] = @ + 1]}
  /\ UNCHANGED <<exits, lifecycle, account, notice>>

(* The handler ends anywhere: the process stops, or an error escapes it.     *)
BeatStops(b) ==
  /\ ~BeatAt(b, "idle") /\ AccountingFault
  /\ report' = [report EXCEPT ![b] = NoBeat]
  /\ UNCHANGED <<exits, lifecycle, account, notice, posted>>

Reconciles(b) ==
  \/ ReadClosed(b) \/ RecordLifecycle(b) \/ ReadAccount(b)
  \/ LookNotice(b) \/ PutNotice(b) \/ StoreAccount(b) \/ ListNotices(b) \/ ClaimNotice(b)
  \/ SendNotice(b) \/ NoteOutcome(b) \/ BeatAnswered(b)

AccountingNext ==
  \/ BrokerExits
  \/ \E b \in Beats :
       \/ \E seen \in 0 .. exits : BuildHeartbeat(b, seen)
       \/ Reconciles(b) \/ AccountingFails(b) \/ SendRaises(b) \/ BeatStops(b)

(* Handlers go on, and after an exit the broker's history is again and again *)
(* complete when a heartbeat is built: the EA sends one every few seconds.   *)
AccountingFairness ==
  \A b \in Beats : /\ WF_accountingVars(Reconciles(b))
                   /\ SF_accountingVars(exits > 0 /\ BuildHeartbeat(b, exits))

AccountingSpec == AccountingInit /\ [][AccountingNext]_accountingVars /\ AccountingFairness

-----------------------------------------------------------------------------
AccountingTypeOK ==
  /\ exits \in 0 .. Lots /\ lifecycle \in {"none", "open", "closed"}
  /\ account.status \in {"none", "reconciled", "awaits_closing", "awaits_history"}
  /\ account.result \in -1 .. Lots /\ account.historical \in BOOLEAN
  /\ notice \in [Events -> {Unnoticed, "pending", "sending"} \cup Fates]
  /\ posted \in [Events -> Nat]
  /\ \A b \in Beats : report[b].seen \in 0 .. Lots /\ report[b].listed \subseteq Events

(* Telegram shows the result of a set of exits at most once, whatever        *)
(* overlaps, repeats, fails or stops (trade_accounting.py:3 "An uncertain    *)
(* Telegram send is retained for reconciliation, not resent.").              *)
ResultShownOnce == \A k \in Events : posted[k] <= 1

(* A notice that was never claimed has not been shown, and one recorded as   *)
(* published has.                                                            *)
OutboxTellsTheTruth ==
  \A k \in Events : /\ notice[k] \in {Unnoticed, "pending"} => posted[k] = 0
                    /\ notice[k] = "published" => posted[k] = 1

(* Once the account of a trade is kept and the trade is not an import of an  *)
(* old one, its last exits are announced: their notice leaves "pending",     *)
(* even if a heartbeat's handler stopped between two writes or an older      *)
(* heartbeat overwrote the account.                                          *)
ExitsOwed == exits > 0 /\ account.status # "none" /\ ~account.historical
LastAnnounced == exits > 0 /\ notice[exits] \in {"sending"} \cup Fates
ExitsAnnounced == ExitsOwed ~> LastAnnounced
=============================================================================
