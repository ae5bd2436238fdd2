--------------------------- MODULE ScanPublication ---------------------------
(* What the scheduled scans tell the chat                                    *)
(* (src/monatise/application/deployment.py).  First part: a scanner of FTMO  *)
(* stocks or futures runs over one symbol; a setup it finds is checked       *)
(* against the alert kept in Redis, announced, priced at the terminal and    *)
(* published for approval.  Second part: the directional analysis of a       *)
(* crypto channel, whose notifications are reserved by compare-and-set.      *)
(* Runs of one scanner overlap only between two processes or beside a run    *)
(* the scheduler has given up; a run is cut off by its timeout or a crash.   *)
(*                                                                           *)
(* A setup is a signal id, and so a proposal.  Whether it differs materially *)
(* from the alert under cooldown is free: an analysis without an id of its   *)
(* own gets a new signal id each time, and one that keeps its id may have    *)
(* moved its levels.                                                         *)
EXTENDS Integers, FiniteSets, Sequences

CONSTANTS
  ScanRuns,       \* scanner runs that may be under way
  FoundSetups,    \* signal ids of the symbol's setups
  NoFound,        \* no setup
  MaxScanStarts,  \* bound: runs started
  MaxScanFaults,  \* bound: errors, cuts and transient quotes
  Watchers,       \* analyses of the channel that may be under way
  MaxReservations,\* bound: notifications reserved
  MaxNoticeFaults \* bound: failed deliveries, Redis errors and crashes

VARIABLES
  scanner,     \* "stock" or "futures": the order of announcement and pricing
  alertKey,    \* Redis: the setup under cooldown, or NoFound
  published,   \* the proposal of each setup: telegram_publish_status
  approvals,   \* approval messages each setup has had
  scan,        \* the runs
  cutOn,       \* history: setups a run was working on when it was cut off
  overlap,     \* history: two runs have been under way at once
  scanStarts,
  scanFaults

scanVars == <<scanner, alertKey, published, approvals, scan, cutOn, overlap,
              scanStarts, scanFaults>>

IdleScan == [pc |-> "idle", found |-> NoFound, previous |-> NoFound, fate |-> "none",
             record |-> "none"]
Endings == {"healthy", "degraded", "failed", "interrupted"}

ScanInit ==
  /\ scanner \in {"stock", "futures"} /\ alertKey = NoFound
  /\ published = [s \in FoundSetups |-> "none"] /\ approvals = [s \in FoundSetups |-> 0]
  /\ scan = [r \in ScanRuns |-> IdleScan]
  /\ cutOn = {} /\ overlap = FALSE /\ scanStarts = 0 /\ scanFaults = 0

ScanAt(r, pc) == scan[r].pc = pc
ScanTo(r, pc) == scan' = [scan EXCEPT ![r].pc = pc]
ScanEnds(r, fate) == scan' = [scan EXCEPT ![r].pc = "closing", ![r].fate = fate]
Scanning == {r \in ScanRuns : ~ScanAt(r, "idle")}
ScanFault == scanFaults < MaxScanFaults /\ scanFaults' = scanFaults + 1

-----------------------------------------------------------------------------
(* audited_scan writes the run's record before the scan and after it.        *)
StartScan(r) ==
  /\ ScanAt(r, "idle") /\ scanStarts < MaxScanStarts /\ scanStarts' = scanStarts + 1
  /\ scan' = [scan EXCEPT ![r] = [IdleScan EXCEPT !.pc = "analyse", !.record = "running"]]
  /\ overlap' = (overlap \/ Scanning # {})
  /\ UNCHANGED <<scanner, alertKey, published, approvals, cutOn, scanFaults>>

(* publication_allowed: only a confirmed setup goes on.                      *)
AnalyseSymbol(r) ==
  /\ ScanAt(r, "analyse")
  /\ \/ \E s \in FoundSetups : scan' = [scan EXCEPT ![r].pc = "look", ![r].found = s]
     \/ ScanEnds(r, "rejected")
     \/ ScanEnds(r, "no_data")
  /\ UNCHANGED <<scanner, alertKey, published, approvals, cutOn, overlap, scanStarts, scanFaults>>

(* _setup_materially_changed against the alert, if there is one.             *)
LookAtAlert(r) ==
  /\ ScanAt(r, "look")
  /\ \/ alertKey # NoFound /\ ScanEnds(r, "duplicate")
     \/ scan' = [scan EXCEPT ![r].pc = "key", ![r].previous = alertKey]
  /\ UNCHANGED <<scanner, alertKey, published, approvals, cutOn, overlap, scanStarts, scanFaults>>

(* The cooldown begins before anything is sent.                              *)
TakeAlert(r) ==
  /\ ScanAt(r, "key")
  /\ alertKey' = scan[r].found
  /\ ScanTo(r, IF scanner = "stock" THEN "announce" ELSE "price")
  /\ UNCHANGED <<scanner, published, approvals, cutOn, overlap, scanStarts, scanFaults>>

(* The stock scanner announces the setup first, the futures scanner only     *)
(* when it has no price for it, as context.                                  *)
Announce(r) ==
  /\ ScanAt(r, "announce")
  /\ IF scanner = "stock" THEN ScanTo(r, "price")
     ELSE scan' = [scan EXCEPT ![r].pc = "undo", ![r].fate = "context"]
  /\ UNCHANGED <<scanner, alertKey, published, approvals, cutOn, overlap, scanStarts, scanFaults>>

(* _create_ftmo_signal_proposal waits for a quote until its deadline; the    *)
(* proposal's id is a function of the signal, so a second run finds it.      *)
PriceSetup(r) ==
  /\ ScanAt(r, "price")
  /\ published' = [published EXCEPT ![scan[r].found] = IF @ = "none" THEN "created" ELSE @]
  /\ ScanTo(r, "publish")
  /\ UNCHANGED <<scanner, alertKey, approvals, cutOn, overlap, scanStarts, scanFaults>>

NoPrice(r) ==
  /\ ScanAt(r, "price") /\ ScanFault
  /\ IF scanner = "stock"
     THEN scan' = [scan EXCEPT ![r].pc = "undo", ![r].fate = "context"]
     ELSE ScanTo(r, "announce")
  /\ UNCHANGED <<scanner, alertKey, published, approvals, cutOn, overlap, scanStarts>>

-----------------------------------------------------------------------------
\* Mutant: an unknown outcome of a send is taken for no send.
ClaimSendAgain(r) ==
  /\ ScanAt(r, "publish")
  /\ IF published[scan[r].found] = "published" THEN ScanTo(r, "sent") /\ UNCHANGED published
     ELSE /\ published' = [published EXCEPT ![scan[r].found] = "sending"] /\ ScanTo(r, "send")
  /\ UNCHANGED <<scanner, alertKey, approvals, cutOn, overlap, scanStarts, scanFaults>>

(* publish_proposal.  The write of "sending" names the version that was read *)
(* and validated, so reading and claiming are one step; a lost race raises.  *)
ClaimSend(r) ==
  LET status == published[scan[r].found]
  IN /\ ScanAt(r, "publish")
     /\ \/ /\ status \in {"created", "context_only"}
           /\ published' = [published EXCEPT ![scan[r].found] = "sending"] /\ ScanTo(r, "send")
        \/ /\ status \in {"created", "context_only"}   \* validation refuses: withheld as context
           /\ published' = [published EXCEPT ![scan[r].found] = "context_only"]
           /\ scan' = [scan EXCEPT ![r].pc = "undo", ![r].fate = "context"]
        \/ status = "published" /\ ScanTo(r, "sent") /\ UNCHANGED published
        \/ /\ status \in {"sending", "reconciliation_required"}
           /\ scan' = [scan EXCEPT ![r].pc = "undo", ![r].fate = "failed"] /\ UNCHANGED published
  /\ UNCHANGED <<scanner, alertKey, approvals, cutOn, overlap, scanStarts, scanFaults>>

SendApproval(r) ==
  /\ ScanAt(r, "send")
  /\ approvals' = [approvals EXCEPT ![scan[r].found] = @ + 1] /\ ScanTo(r, "attach")
  /\ UNCHANGED <<scanner, alertKey, published, cutOn, overlap, scanStarts, scanFaults>>

AttachMessage(r) ==
  /\ ScanAt(r, "attach")
  /\ published' = [published EXCEPT ![scan[r].found] = "published"] /\ ScanTo(r, "sent")
  /\ UNCHANGED <<scanner, alertKey, approvals, cutOn, overlap, scanStarts, scanFaults>>

(* Telegram or the write after it fails: reconciliation is asked for.        *)
SendFails(r) ==
  /\ ScanAt(r, "send") \/ ScanAt(r, "attach")
  /\ ScanFault
  /\ approvals' \in IF ScanAt(r, "send")
                    THEN {approvals, [approvals EXCEPT ![scan[r].found] = @ + 1]} ELSE {approvals}
  /\ published' = [published EXCEPT ![scan[r].found] = "reconciliation_required"]
  /\ scan' = [scan EXCEPT ![r].pc = "undo", ![r].fate = "failed"]
  /\ UNCHANGED <<scanner, alertKey, cutOn, overlap, scanStarts>>

(* The stored proposal carries its keyboard.                                 *)
ConfirmSent(r) ==
  /\ ScanAt(r, "sent") /\ ScanEnds(r, "sent")
  /\ UNCHANGED <<scanner, alertKey, published, approvals, cutOn, overlap, scanStarts, scanFaults>>

\* Mutant: a setup without an approval message keeps its cooldown.
KeepAlert(r) ==
  /\ ScanAt(r, "undo") /\ ScanTo(r, "closing") /\ UNCHANGED alertKey
  /\ UNCHANGED <<scanner, published, approvals, cutOn, overlap, scanStarts, scanFaults>>

(* No approval message: the alert that was there before is put back.         *)
UndoAlert(r) ==
  /\ ScanAt(r, "undo")
  /\ alertKey' = scan[r].previous /\ ScanTo(r, "closing")
  /\ UNCHANGED <<scanner, published, approvals, cutOn, overlap, scanStarts, scanFaults>>

CloseScan(r) ==
  /\ ScanAt(r, "closing")
  /\ scan' = [scan EXCEPT ![r].pc = "idle",
       ![r].record = IF scan[r].fate \in {"sent", "duplicate", "rejected"} THEN "healthy"
                     ELSE "degraded"]
  /\ UNCHANGED <<scanner, alertKey, published, approvals, cutOn, overlap, scanStarts, scanFaults>>

-----------------------------------------------------------------------------
(* An exception between the alert and its approval undoes the alert;         *)
(* anywhere else it ends the run.                                            *)
Guarded(r) == scan[r].pc \in {"announce", "price", "publish", "sent"}
Holding(r) == Guarded(r) \/ scan[r].pc \in {"send", "attach", "undo"}

ScanRaises(r) ==
  /\ Guarded(r) /\ ScanFault
  /\ scan' = [scan EXCEPT ![r].pc = "undo", ![r].fate = "failed"]
  /\ UNCHANGED <<scanner, alertKey, published, approvals, cutOn, overlap, scanStarts>>

(* The scheduler cancels the run at its timeout, Redis or the store fails    *)
(* outside the guarded part, or the process stops: nothing is undone.        *)
ScanCut(r) ==
  /\ ~ScanAt(r, "idle") /\ ScanFault
  /\ cutOn' = IF Holding(r) THEN cutOn \cup {scan[r].found} ELSE cutOn
  /\ \E record \in {"interrupted", "failed", "running"} :
       scan' = [scan EXCEPT ![r].pc = "idle", ![r].record = record]
  /\ UNCHANGED <<scanner, alertKey, published, approvals, overlap, scanStarts>>

CooldownEnds ==
  /\ alertKey # NoFound /\ alertKey' = NoFound
  /\ UNCHANGED <<scanner, published, approvals, scan, cutOn, overlap, scanStarts, scanFaults>>

ScanNext ==
  \/ CooldownEnds
  \/ \E r \in ScanRuns :
       \/ StartScan(r) \/ AnalyseSymbol(r) \/ LookAtAlert(r) \/ TakeAlert(r) \/ Announce(r)
       \/ PriceSetup(r) \/ NoPrice(r) \/ ClaimSend(r) \/ SendApproval(r) \/ AttachMessage(r)
       \/ SendFails(r) \/ ConfirmSent(r) \/ UndoAlert(r) \/ CloseScan(r)
       \/ ScanRaises(r) \/ ScanCut(r)

ScanSpec == ScanInit /\ [][ScanNext]_scanVars

ScanTypeOK ==
  /\ alertKey \in FoundSetups \cup {NoFound} /\ cutOn \subseteq FoundSetups
  /\ published \in [FoundSetups -> {"none", "created", "context_only", "sending", "published",
                                    "reconciliation_required"}]
  /\ \A r \in ScanRuns : scan[r].record \in {"none", "running"} \cup Endings

(* A setup has one approval message, whatever overlaps, is cut off, repeated *)
(* after its cooldown or fails (trade_publication.py:76 "Never blindly       *)
(* create another live approval message").                                   *)
OneApprovalMessage == \A s \in FoundSetups : approvals[s] <= 1

(* The cooldown is earned: a setup holds it only when its approval message   *)
(* was sent, a run is still at work on it, or a run was cut off over it      *)
(* (deployment.py:2176 "A missing executable quote must not consume the      *)
(* setup cooldown.").  Two runs at once may put back an alert that the other *)
(* one has withdrawn meanwhile.                                              *)
CooldownEarned ==
  ~overlap /\ alertKey # NoFound =>
    \/ published[alertKey] = "published" \/ alertKey \in cutOn
    \/ \E r \in ScanRuns : Holding(r) /\ scan[r].found = alertKey

(* A run recorded healthy that found a setup sent its approval message or    *)
(* met it under cooldown.                                                    *)
HealthyIsTrue ==
  \A r \in ScanRuns :
    scan[r].record = "healthy" /\ scan[r].found # NoFound =>
      scan[r].fate = "duplicate" \/ (scan[r].fate = "sent" /\ approvals[scan[r].found] = 1)

-----------------------------------------------------------------------------
(* Notifications of a channel: _telegram_notification_candidate and the      *)
(* reservation and completion around the delivery.                           *)
VARIABLES
  channel,   \* Redis: the notification state of the channel
  mirror,    \* each process's copy, read when Redis does not answer
  watch,     \* the analyses under way
  reserved,  \* history: the notifications reserved, and whether the chat saw them
  lapsed,    \* reservations whose setup's validity has passed
  noticeFaults

noticeVars == <<channel, mirror, watch, reserved, lapsed, noticeFaults>>

NoNotice == [version |-> 0, kind |-> "none", setup |-> NoFound, delivery |-> "none", number |-> 0]
IdleWatch == [pc |-> "idle", notice |-> NoNotice, delivered |-> FALSE]

NoticeInit ==
  /\ channel = NoNotice /\ mirror = [w \in Watchers |-> NoNotice]
  /\ watch = [w \in Watchers |-> IdleWatch]
  /\ reserved = <<>> /\ lapsed = {} /\ noticeFaults = 0

NoticeFault == noticeFaults < MaxNoticeFaults /\ noticeFaults' = noticeFaults + 1

(* What the state last read calls for: an expiry first, then a setup that is *)
(* not the one notified last, whether its delivery succeeded or not.         *)
Candidate(previous, found) ==
  IF previous.kind = "setup" /\ previous.delivery = "delivered" /\ previous.number \in lapsed
  THEN [previous EXCEPT !.kind = "expired"]
  ELSE IF found = NoFound \/ (previous.kind = "setup" /\ previous.setup = found)
  THEN NoNotice
  ELSE [previous EXCEPT !.kind = "setup", !.setup = found]

Selected(w, previous, found) ==
  LET notice == Candidate(previous, found)
  IN watch' = [watch EXCEPT ![w] = IF notice = NoNotice THEN IdleWatch
                                   ELSE [IdleWatch EXCEPT !.pc = "reserve", !.notice = notice]]

AnalyseChannel(w, found) ==
  /\ watch[w].pc = "idle" /\ Len(reserved) < MaxReservations
  /\ \/ /\ mirror' = [mirror EXCEPT ![w] = IF channel = NoNotice THEN @ ELSE channel]
        /\ Selected(w, mirror'[w], found) /\ UNCHANGED noticeFaults
     \/ NoticeFault /\ Selected(w, mirror[w], found) /\ UNCHANGED mirror
  /\ UNCHANGED <<channel, reserved, lapsed>>

Reservation(w) ==
  [watch[w].notice EXCEPT !.version = @ + 1, !.delivery = "pending", !.number = Len(reserved) + 1]

Reserved(w) ==
  /\ channel' = Reservation(w)
  /\ reserved' = Append(reserved, [kind |-> watch[w].notice.kind, setup |-> watch[w].notice.setup,
                                   seen |-> FALSE])

\* Mutant: the state is written without its version.
ReserveBlindly(w) ==
  /\ watch[w].pc = "reserve" /\ Reserved(w)
  /\ mirror' = [mirror EXCEPT ![w] = channel']
  /\ watch' = [watch EXCEPT ![w].pc = "deliver", ![w].notice = channel']
  /\ UNCHANGED <<lapsed, noticeFaults>>

(* notification_state_compare_and_put: over the version that was read.       *)
ReserveNotice(w) ==
  /\ watch[w].pc = "reserve"
  /\ IF channel.version = watch[w].notice.version
     THEN /\ Reserved(w) /\ mirror' = [mirror EXCEPT ![w] = channel']
          /\ watch' = [watch EXCEPT ![w].pc = "deliver", ![w].notice = channel']
     ELSE watch' = [watch EXCEPT ![w] = IdleWatch] /\ UNCHANGED <<channel, mirror, reserved>>
  /\ UNCHANGED <<lapsed, noticeFaults>>

(* Redis raises, with or without having stored the reservation.              *)
ReserveFails(w) ==
  /\ watch[w].pc = "reserve" /\ NoticeFault
  /\ \/ channel.version = watch[w].notice.version /\ Reserved(w)
     \/ UNCHANGED <<channel, reserved>>
  /\ watch' = [watch EXCEPT ![w] = IdleWatch]
  /\ UNCHANGED <<mirror, lapsed>>

Deliver(w) ==
  /\ watch[w].pc = "deliver"
  /\ \/ /\ reserved' = [reserved EXCEPT ![watch[w].notice.number].seen = TRUE]
        /\ watch' = [watch EXCEPT ![w].pc = "finish", ![w].delivered = TRUE]
        /\ UNCHANGED noticeFaults
     \/ /\ NoticeFault
        /\ watch' = [watch EXCEPT ![w].pc = "finish"]
        /\ \E shown \in BOOLEAN :
             reserved' = [reserved EXCEPT ![watch[w].notice.number].seen = shown]
  /\ UNCHANGED <<channel, mirror, lapsed>>

(* Over the version of the reservation: a later notification is left alone.  *)
FinishNotice(w) ==
  LET finished == [watch[w].notice EXCEPT
                     !.version = @ + 1, !.delivery = IF watch[w].delivered THEN "delivered"
                                                     ELSE "failed"]
  IN /\ watch[w].pc = "finish"
     /\ IF channel.version = watch[w].notice.version
        THEN channel' = finished /\ mirror' = [mirror EXCEPT ![w] = finished]
        ELSE UNCHANGED <<channel, mirror>>
     /\ watch' = [watch EXCEPT ![w] = IdleWatch]
     /\ UNCHANGED <<reserved, lapsed, noticeFaults>>

(* The analysis stops, with its process or with its completion unwritten.    *)
WatchStops(w) ==
  /\ watch[w].pc # "idle" /\ NoticeFault
  /\ watch' = [watch EXCEPT ![w] = IdleWatch]
  /\ mirror' \in {mirror, [mirror EXCEPT ![w] = NoNotice]}
  /\ UNCHANGED <<channel, reserved, lapsed>>

SetupLapses ==
  /\ channel.number # 0 /\ channel.number \notin lapsed
  /\ lapsed' = lapsed \cup {channel.number}
  /\ UNCHANGED <<channel, mirror, watch, reserved, noticeFaults>>

NoticeNext ==
  \/ SetupLapses
  \/ \E w \in Watchers :
       \/ \E found \in FoundSetups \cup {NoFound} : AnalyseChannel(w, found)
       \/ ReserveNotice(w) \/ ReserveFails(w) \/ Deliver(w) \/ FinishNotice(w) \/ WatchStops(w)

NoticeSpec == NoticeInit /\ [][NoticeNext]_noticeVars

NoticeTypeOK ==
  /\ channel.delivery \in {"none", "pending", "delivered", "failed"}
  /\ channel.number \in 0 .. Len(reserved) /\ lapsed \subseteq 1 .. Len(reserved)

(* Overlapping analyses, Redis errors and stale copies never notify the same *)
(* setup twice running, and an expiry is announced once, after a setup that  *)
(* the chat was shown.                                                       *)
NoticesInOrder ==
  \A i \in DOMAIN reserved :
    /\ i > 1 => \/ reserved[i].kind # reserved[i - 1].kind
                \/ reserved[i].setup # reserved[i - 1].setup
    /\ reserved[i].kind = "expired" =>
         i > 1 /\ reserved[i - 1].seen /\ reserved[i - 1].setup = reserved[i].setup
=============================================================================
