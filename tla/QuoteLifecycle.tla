--------------------------- MODULE QuoteLifecycle ---------------------------
(* One Telegram analysis and the quote request it leads to                   *)
(* (_handle_telegram_analysis_request and _process_quote_request_once in     *)
(* production.py, process_quote_request and the claims in ftmo_master.py,    *)
(* publish_proposal in trade_publication.py).  The command may be delivered  *)
(* again while its first delivery still runs, and the quote worker's loop    *)
(* runs beside both.  A document is read and written again at each await;    *)
(* prices, gates and Telegram decide freely.                                 *)
EXTENDS Naturals, FiniteSets

CONSTANTS
  Loops,        \* quote worker loops, one per process
  Deliveries,   \* deliveries of the one Telegram command
  MaxAttempts,  \* maximum_attempts of a quote request
  MaxQuoteFaults \* bound: storage errors, Telegram errors and crashes

ASSUME QuoteAssumption ==
  /\ Loops \cap Deliveries = {}
  /\ MaxAttempts \in Nat \ {0} /\ MaxQuoteFaults \in Nat

Workers == Loops \cup Deliveries

VARIABLES
  chat,      \* the analysis request: its status, and whether it names a proposal
  kept,      \* the persisted analysis: none, context only, or eligible for a proposal
  quote,     \* the quote request
  proposal,  \* the signal's proposal
  worker,    \* each worker's point and what it has read
  expired,   \* the analysis, its quote request and its proposal have expired
  sends,     \* approval messages Telegram has shown
  told,      \* which refusals the user has been told
  overrun,   \* history: a lease ran out on a worker, or a claim of publication aged
  quoteFaults

quoteVars == <<chat, kept, quote, proposal, worker, expired, sends, told, overrun, quoteFaults>>

Claimed == {"QUOTE_REQUESTED", "WAITING_FOR_QUOTE"}
Publishing == {"PROPOSAL_CREATED", "PROPOSAL_PUBLISHING"}
Midway == {"QUOTE_RECEIVED", "QUOTE_VALIDATED"}
Final == {"PROPOSAL_PUBLISHED", "FAILED", "EXPIRED"}
QuoteStates == {"none"} \cup Claimed \cup Midway \cup Publishing \cup Final

Attempting == {"attempt", "received", "proposed", "validated"}
Points == {"idle", "analyse", "request", "await", "resume", "rejoin", "claim", "unclaimed", "tell", "publish",
           "read", "gates", "send", "attach", "context", "reconcile", "reset", "finish",
           "close"} \cup Attempting

QuoteTypeOK ==
  /\ chat \in [status : {"none", "processing", "waiting_for_quote", "completed"}, proposal : BOOLEAN]
  /\ kept \in {"none", "context", "eligible"} /\ expired \in BOOLEAN /\ overrun \in BOOLEAN
  /\ quote \in [state : QuoteStates, tries : 0..MaxAttempts, lease : {"none", "held", "over"},
                due : BOOLEAN, aged : BOOLEAN, message : BOOLEAN, told : BOOLEAN]
  /\ proposal \in [status : {"none", "pending_confirmation", "decided"},
                   publish : {"none", "sending", "published", "context_only", "reconciliation_required"},
                   message : BOOLEAN]
  /\ worker \in [Workers -> [pc : Points, late : BOOLEAN, fresh : BOOLEAN, bound : BOOLEAN,
                             tries : 0..MaxAttempts, reply : BOOLEAN, over : BOOLEAN]]
  /\ sends \in Nat /\ told \subseteq {"no_quote", "no_analysis"}
  /\ quoteFaults \in 0..MaxQuoteFaults

QuoteInit ==
  /\ chat = [status |-> "none", proposal |-> FALSE]
  /\ kept = "none"
  /\ quote = [state |-> "none", tries |-> 0, lease |-> "none", due |-> TRUE, aged |-> FALSE,
              message |-> FALSE, told |-> FALSE]
  /\ proposal = [status |-> "none", publish |-> "none", message |-> FALSE]
  /\ worker = [x \in Workers |-> [pc |-> "idle", late |-> FALSE, fresh |-> FALSE, bound |-> FALSE,
                                  tries |-> 0, reply |-> FALSE, over |-> FALSE]]
  /\ expired = FALSE /\ sends = 0 /\ told = {} /\ overrun = FALSE /\ quoteFaults = 0

-----------------------------------------------------------------------------
(* Steps of a worker. *)

At(x, points) == worker[x].pc \in points
Go(x, pc) == worker' = [worker EXCEPT ![x].pc = pc]

(* The attempt is over: what it knew is not used again.                      *)
Enter(x, pc) == worker' = [worker EXCEPT ![x].pc = pc, ![x].late = FALSE, ![x].tries = 0,
                                         ![x].bound = FALSE]

(* The worker returns: a loop looks again, a delivery is over.               *)
Rest(x) == [pc |-> "idle", late |-> FALSE, fresh |-> FALSE, bound |-> FALSE, tries |-> 0,
            reply |-> FALSE, over |-> x \in Deliveries]
Leave(x) == worker' = [worker EXCEPT ![x] = Rest(x)]

(* A write of the proposal makes every copy read before it stale.            *)
WriteProposal(x, value, pc) ==
  /\ proposal' = value
  /\ worker' = [y \in Workers |->
       IF y = x THEN [worker[x] EXCEPT !.pc = pc, !.fresh = FALSE]
       ELSE [worker[y] EXCEPT !.fresh = FALSE]]

(* _process_quote_request_once takes a request up: one that has its proposal *)
(* is published, with the proposal as it is read now, any other processed.   *)
LookStep(x) ==
  IF quote.state \in Publishing
  THEN Go(x, IF proposal.message THEN "finish" ELSE "publish")
  ELSE worker' = [worker EXCEPT ![x].pc = "claim", ![x].late = expired]

(* The loop's pass: pending requests only.                                   *)
Look(x) ==
  /\ x \in Loops /\ At(x, {"idle"})
  /\ quote.state \in Claimed \cup Publishing
  /\ LookStep(x)
  /\ UNCHANGED <<chat, kept, quote, proposal, expired, sends, told, overrun, quoteFaults>>

(* A delivery that finds a quote request waits no longer: it processes it.   *)
LookAtOwn(x) ==
  /\ At(x, {"close"}) /\ ~worker[x].reply /\ x \in Deliveries
  /\ IF quote.state = "none" THEN Leave(x) ELSE LookStep(x)
  /\ UNCHANGED <<chat, kept, quote, proposal, expired, sends, told, overrun, quoteFaults>>

-----------------------------------------------------------------------------
(* The Telegram handler. *)

(* claim_telegram_analysis_request, and what a repeated delivery does        *)
(* instead: replay the answer, process the request, or report an attempt     *)
(* that was interrupted before its analysis was kept.                        *)
Deliver(x) ==
  /\ x \in Deliveries /\ At(x, {"idle"}) /\ ~worker[x].over
  /\ \/ /\ chat.status = "none"
        /\ chat' = [chat EXCEPT !.status = "processing"] /\ Go(x, "analyse")
        /\ UNCHANGED told
     \/ /\ chat.status = "completed"
        /\ IF chat.proposal
           THEN worker' = [worker EXCEPT ![x].pc = "read", ![x].reply = TRUE]
           ELSE Leave(x)
        /\ UNCHANGED <<chat, told>>
     \/ chat.status = "waiting_for_quote" /\ Go(x, "close") /\ UNCHANGED <<chat, told>>
     \/ /\ chat.status = "processing" /\ kept # "none"
        /\ Go(x, "resume") /\ UNCHANGED <<chat, told>>
     \/ /\ chat.status = "processing" /\ kept = "none"
        /\ chat' = [chat EXCEPT !.status = "completed"]
        /\ told' = told \cup {"no_analysis"} /\ Leave(x)
  /\ UNCHANGED <<kept, quote, proposal, expired, sends, overrun, quoteFaults>>

(* The analysis runs and is kept once; only an eligible one asks for a quote. *)
Analyse(x) ==
  /\ At(x, {"analyse"}) /\ kept = "none"
  /\ \/ kept' = "eligible" /\ Go(x, "request") /\ UNCHANGED chat
     \/ kept' = "context" /\ chat' = [chat EXCEPT !.status = "completed"] /\ Leave(x)
  /\ UNCHANGED <<quote, proposal, expired, sends, told, overrun, quoteFaults>>

(* The handler's catch-all: the request is closed and the user told, whatever *)
(* had been stored by then; a signal that has expired ends here too.         *)
AnalysisFails(x) ==
  /\ \/ At(x, {"analyse"}) /\ UNCHANGED quoteFaults
     \/ At(x, {"request"}) /\ expired /\ UNCHANGED quoteFaults
     \/ /\ At(x, {"await"}) /\ quoteFaults < MaxQuoteFaults
        /\ quoteFaults' = quoteFaults + 1
  /\ chat' = [chat EXCEPT !.status = "completed"]
  /\ told' = told \cup {"no_analysis"}
  /\ Leave(x)
  /\ UNCHANGED <<kept, quote, proposal, expired, sends, overrun>>

(* create_quote_request: saved once, and found again by a repeated delivery. *)
CreateQuoteRequest(x, pc) ==
  /\ ~expired
  /\ quote' = IF quote.state = "none" THEN [quote EXCEPT !.state = "QUOTE_REQUESTED"] ELSE quote
  /\ Go(x, pc)

RequestQuote(x) ==
  /\ At(x, {"request"}) /\ CreateQuoteRequest(x, "await")
  /\ UNCHANGED <<chat, kept, proposal, expired, sends, told, overrun, quoteFaults>>

(* A repeated delivery goes on from the persisted analysis: it asks for the  *)
(* quote, or replays what became of it.                                      *)
ResumeRequest(x) ==
  /\ At(x, {"resume"})
  /\ \/ /\ kept = "eligible" /\ quote.state \notin Final
        /\ CreateQuoteRequest(x, "rejoin") /\ UNCHANGED chat
     \/ kept = "eligible" /\ expired /\ Leave(x) /\ UNCHANGED <<chat, quote>>
     \/ /\ kept = "context" \/ (quote.state \in Final /\ ~expired)
        /\ chat' = [status |-> "completed", proposal |-> chat.proposal \/ proposal.status # "none"]
        /\ IF proposal.status = "none" THEN Leave(x)
           ELSE worker' = [worker EXCEPT ![x].pc = "read", ![x].reply = TRUE]
        /\ UNCHANGED quote
  /\ UNCHANGED <<kept, proposal, expired, sends, told, overrun, quoteFaults>>

(* finish_telegram_analysis_request, and the answer to the user.             *)
AwaitQuote(x) ==
  /\ At(x, {"await", "rejoin"})
  /\ chat' = [chat EXCEPT !.status = "waiting_for_quote"] /\ Go(x, "close")
  /\ UNCHANGED <<kept, quote, proposal, expired, sends, told, overrun, quoteFaults>>

-----------------------------------------------------------------------------
(* process_quote_request. *)

\* Mutant: one attempt too many.
ClaimableOnceMore(x) ==
  /\ quote.state \in Claimed /\ quote.tries <= MaxAttempts
  /\ ~worker[x].late /\ quote.due /\ quote.lease # "held"

Claimable(x) ==
  /\ quote.state \in Claimed /\ quote.tries < MaxAttempts
  /\ ~worker[x].late /\ quote.due /\ quote.lease # "held"

(* claim_quote_attempt: a versioned write, with the time read at the start.  *)
ClaimAttempt(x) ==
  /\ At(x, {"claim"}) /\ Claimable(x)
  /\ quote' = [quote EXCEPT !.state = "QUOTE_REQUESTED", !.tries = @ + 1, !.lease = "held"]
  /\ worker' = [worker EXCEPT ![x].pc = "attempt", ![x].late = FALSE, ![x].tries = quote.tries + 1]
  /\ UNCHANGED <<chat, kept, proposal, expired, sends, told, overrun, quoteFaults>>

(* Not claimed: the stored request is returned, or expired if it is overdue. *)
NotClaimed(x) ==
  /\ At(x, {"claim"}) /\ ~Claimable(x)
  /\ IF quote.state \in Claimed /\ worker[x].late THEN Go(x, "unclaimed")
     ELSE IF quote.state \in {"FAILED", "EXPIRED"} /\ ~quote.told THEN Enter(x, "tell")
     ELSE Leave(x)
  /\ UNCHANGED <<chat, kept, quote, proposal, expired, sends, told, overrun, quoteFaults>>

(* The write that expires a request merges into whatever is stored by then.  *)
ExpireRequest(x) ==
  /\ At(x, {"unclaimed"})
  /\ quote' = [quote EXCEPT !.state = "EXPIRED", !.lease = "none"]
  /\ Enter(x, "tell")
  /\ UNCHANGED <<chat, kept, proposal, expired, sends, told, overrun, quoteFaults>>

(* The bridge is healthy, of the expected identity, and has a quote.         *)
ReceiveQuote(x) ==
  /\ At(x, {"attempt"})
  /\ quote' = [quote EXCEPT !.state = "QUOTE_RECEIVED", !.lease = "none"]
  /\ Go(x, "received")
  /\ UNCHANGED <<chat, kept, proposal, expired, sends, told, overrun, quoteFaults>>

(* create_signal_proposal, or the signal's proposal that is there already.   *)
Propose(x) ==
  /\ At(x, {"received"})
  /\ proposal' = IF proposal.status = "none" THEN [proposal EXCEPT !.status = "pending_confirmation"]
                 ELSE proposal
  /\ worker' = [worker EXCEPT ![x].pc = "proposed", ![x].bound = proposal.message]
  /\ UNCHANGED <<chat, kept, quote, expired, sends, told, overrun, quoteFaults>>

ValidateQuote(x) ==
  /\ At(x, {"proposed"})
  /\ quote' = [quote EXCEPT !.state = "QUOTE_VALIDATED", !.lease = "none"]
  /\ Go(x, "validated")
  /\ UNCHANGED <<chat, kept, proposal, expired, sends, told, overrun, quoteFaults>>

ProposalCreated(x) ==
  /\ At(x, {"validated"})
  /\ quote' = [quote EXCEPT !.state = "PROPOSAL_CREATED", !.lease = "none"]
  /\ Enter(x, IF worker[x].bound THEN "finish" ELSE "publish")
  /\ UNCHANGED <<chat, kept, proposal, expired, sends, told, overrun, quoteFaults>>

(* A gate or the proposal's validation refuses: the attempt ends, for good   *)
(* if the reason is terminal or the attempts are used up.                    *)
RefuseAttempt(x) ==
  /\ At(x, {"attempt", "received"})
  /\ \E terminal \in BOOLEAN :
       LET failed == terminal \/ worker[x].tries >= MaxAttempts IN
         /\ quote' = [quote EXCEPT !.state = IF failed THEN "FAILED" ELSE "WAITING_FOR_QUOTE",
                                   !.lease = "none", !.due = FALSE]
         /\ IF failed THEN Enter(x, "tell") ELSE Leave(x)
  /\ UNCHANGED <<chat, kept, proposal, expired, sends, told, overrun, quoteFaults>>

(* The terminal message, and the note that it was sent.                      *)
TellFailure(x) ==
  /\ At(x, {"tell"})
  /\ told' = told \cup {"no_quote"}
  /\ quote' = [quote EXCEPT !.told = TRUE]
  /\ Leave(x)
  /\ UNCHANGED <<chat, kept, proposal, expired, sends, overrun, quoteFaults>>

-----------------------------------------------------------------------------
(* Publication. *)

(* claim_quote_publication: a claim may be taken over after two minutes.     *)
\* Mutant: a claim whose worker stopped is never taken over.
PublicationUnclaimed == quote.state = "PROPOSAL_CREATED"
PublicationFree == quote.state = "PROPOSAL_CREATED" \/ (quote.state = "PROPOSAL_PUBLISHING" /\ quote.aged)
ClaimPublication(x) ==
  /\ At(x, {"publish"})
  /\ IF ~quote.message /\ PublicationFree
     THEN /\ quote' = [quote EXCEPT !.state = "PROPOSAL_PUBLISHING", !.aged = FALSE] /\ Go(x, "read")
     ELSE Leave(x) /\ UNCHANGED quote
  /\ UNCHANGED <<chat, kept, proposal, expired, sends, told, overrun, quoteFaults>>

(* After publish_proposal: a quote request is marked published ("finish") or *)
(* handed back ("reset"); a replayed answer has nothing more to do.          *)
Concluded(x, pc) == IF worker[x].reply THEN Rest(x) ELSE [worker[x] EXCEPT !.pc = pc]
Conclude(x, pc) == worker' = [worker EXCEPT ![x] = Concluded(x, pc)]

(* publish_proposal reads the durable proposal.  A recorded message is       *)
(* returned; a send whose outcome is unknown is never repeated.              *)
\* Mutant: an unknown outcome is not told from none.
ReadProposalBlindly(x) ==
  /\ At(x, {"read"})
  /\ IF proposal.message
     THEN Conclude(x, "finish")
     ELSE worker' = [worker EXCEPT ![x].pc = "gates", ![x].fresh = TRUE]
  /\ UNCHANGED <<chat, kept, quote, proposal, expired, sends, told, overrun, quoteFaults>>

ReadProposal(x) ==
  /\ At(x, {"read"})
  /\ IF proposal.message
     THEN Conclude(x, "finish")
     ELSE IF proposal.publish \in {"sending", "reconciliation_required"}
     THEN Conclude(x, "reset")
     ELSE worker' = [worker EXCEPT ![x].pc = "gates", ![x].fresh = TRUE]
  /\ UNCHANGED <<chat, kept, quote, proposal, expired, sends, told, overrun, quoteFaults>>

(* validate_proposal_publication passes: the intent to send is stored first, *)
(* over the version that was read.                                           *)
IntendSend(x) ==
  /\ At(x, {"gates"}) /\ worker[x].fresh
  /\ proposal.status = "pending_confirmation" /\ ~expired
  /\ WriteProposal(x, [proposal EXCEPT !.publish = "sending"], "send")
  /\ UNCHANGED <<chat, kept, quote, expired, sends, told, overrun, quoteFaults>>

(* Refused, by whatever gate: context only.                                  *)
Withhold(x) ==
  /\ At(x, {"gates"}) /\ worker[x].fresh
  /\ WriteProposal(x, [proposal EXCEPT !.publish = "context_only"], "context")
  /\ UNCHANGED <<chat, kept, quote, expired, sends, told, overrun, quoteFaults>>

(* The proposal was written meanwhile: the versioned write raises.           *)
StaleProposal(x) ==
  /\ At(x, {"gates"}) /\ ~worker[x].fresh
  /\ Conclude(x, "reset")
  /\ UNCHANGED <<chat, kept, quote, proposal, expired, sends, told, overrun, quoteFaults>>

SendProposal(x) ==
  /\ At(x, {"send"})
  /\ sends' = sends + 1 /\ Go(x, "attach")
  /\ UNCHANGED <<chat, kept, quote, proposal, expired, told, overrun, quoteFaults>>

(* attach_proposal_telegram_message: refused once the proposal was decided.  *)
Attach(x) ==
  /\ At(x, {"attach"})
  /\ IF proposal.status = "pending_confirmation"
     THEN /\ proposal' = [proposal EXCEPT !.publish = "published", !.message = TRUE]
          /\ worker' = [y \in Workers |->
               IF y # x THEN [worker[y] EXCEPT !.fresh = FALSE]
               ELSE Concluded(x, "finish")]
     ELSE Go(x, "reconcile") /\ UNCHANGED proposal
  /\ UNCHANGED <<chat, kept, quote, expired, sends, told, overrun, quoteFaults>>

(* The controls are retracted and the proposal is left to an operator.       *)
Reconcile(x) ==
  /\ At(x, {"reconcile"})
  /\ proposal' = [proposal EXCEPT !.publish = "reconciliation_required"]
  /\ worker' = [y \in Workers |->
       IF y # x THEN [worker[y] EXCEPT !.fresh = FALSE]
       ELSE Concluded(x, "reset")]
  /\ UNCHANGED <<chat, kept, quote, expired, sends, told, overrun, quoteFaults>>

(* The context message carries no controls and is not recorded.              *)
SendContext(x) ==
  /\ At(x, {"context"})
  /\ Conclude(x, "finish")
  /\ UNCHANGED <<chat, kept, quote, proposal, expired, sends, told, overrun, quoteFaults>>

(* The worker's handler of exceptions: the request is to be published again. *)
ResetRequest(x) ==
  /\ At(x, {"reset"})
  /\ quote' = [quote EXCEPT !.state = "PROPOSAL_CREATED"]
  /\ Leave(x)
  /\ UNCHANGED <<chat, kept, proposal, expired, sends, told, overrun, quoteFaults>>

FinishRequest(x) ==
  /\ At(x, {"finish"})
  /\ quote' = [quote EXCEPT !.state = "PROPOSAL_PUBLISHED", !.message = TRUE]
  /\ worker' = [worker EXCEPT ![x].pc = "close", ![x].reply = TRUE]
  /\ UNCHANGED <<chat, kept, proposal, expired, sends, told, overrun, quoteFaults>>

(* finish_telegram_analysis_request with the proposal.                       *)
CloseRequest(x) ==
  /\ At(x, {"close"}) /\ worker[x].reply
  /\ chat' = [status |-> "completed", proposal |-> TRUE]
  /\ Leave(x)
  /\ UNCHANGED <<kept, quote, proposal, expired, sends, told, overrun, quoteFaults>>

-----------------------------------------------------------------------------
(* What a storage or Telegram error does at each point: publication hands    *)
(* its request back, an uncertain send is left to an operator, anything else *)
(* ends the worker's pass.  A crash ends it anywhere.                        *)
Fault == quoteFaults < MaxQuoteFaults /\ quoteFaults' = quoteFaults + 1

SendFails(x) ==
  /\ At(x, {"send"}) /\ Fault
  /\ sends' \in {sends, sends + 1} /\ Go(x, "reconcile")
  /\ UNCHANGED <<chat, kept, quote, proposal, expired, told, overrun>>

PublicationRaises(x) ==
  /\ At(x, {"read", "gates", "context"}) /\ Fault
  /\ Conclude(x, "reset")
  /\ UNCHANGED <<chat, kept, quote, proposal, expired, sends, told, overrun>>

AttachRaises(x) ==
  /\ At(x, {"attach"}) /\ Fault /\ Go(x, "reconcile")
  /\ UNCHANGED <<chat, kept, quote, proposal, expired, sends, told, overrun>>

QuoteCrash(x) ==
  /\ ~At(x, {"idle"}) /\ Fault /\ Leave(x)
  /\ sends' \in (IF At(x, {"send"}) THEN {sends, sends + 1} ELSE {sends})
  /\ UNCHANGED <<chat, kept, quote, proposal, expired, told, overrun>>

(* Time, and the operator or a newer signal deciding the proposal.           *)
LeaseRunsOut ==
  /\ quote.lease = "held"
  /\ quote' = [quote EXCEPT !.lease = "over"]
  /\ overrun' = (overrun \/ \E x \in Workers : At(x, Attempting))
  /\ UNCHANGED <<chat, kept, proposal, worker, expired, sends, told, quoteFaults>>
RetryDue ==
  /\ ~quote.due /\ quote' = [quote EXCEPT !.due = TRUE]
  /\ UNCHANGED <<chat, kept, proposal, worker, expired, sends, told, overrun, quoteFaults>>
ClaimAges ==
  /\ quote.state = "PROPOSAL_PUBLISHING" /\ ~quote.aged /\ quote' = [quote EXCEPT !.aged = TRUE]
  /\ UNCHANGED <<chat, kept, proposal, worker, expired, sends, told, overrun, quoteFaults>>
DeadlinePasses ==
  /\ kept # "none" /\ ~expired /\ expired' = TRUE
  /\ UNCHANGED <<chat, kept, quote, proposal, worker, sends, told, overrun, quoteFaults>>
ProposalDecided ==
  /\ proposal.status = "pending_confirmation"
  /\ proposal' = [proposal EXCEPT !.status = "decided"]
  /\ worker' = [y \in Workers |-> [worker[y] EXCEPT !.fresh = FALSE]]
  /\ UNCHANGED <<chat, kept, quote, expired, sends, told, overrun, quoteFaults>>

WorkerProceeds(x) ==
  \/ Look(x) \/ LookAtOwn(x) \/ Analyse(x) \/ RequestQuote(x) \/ ResumeRequest(x) \/ AwaitQuote(x)
  \/ (AnalysisFails(x) /\ UNCHANGED quoteFaults)
  \/ ClaimAttempt(x) \/ NotClaimed(x) \/ ExpireRequest(x) \/ ReceiveQuote(x) \/ Propose(x)
  \/ ValidateQuote(x) \/ ProposalCreated(x) \/ RefuseAttempt(x) \/ TellFailure(x)
  \/ ClaimPublication(x) \/ ReadProposal(x) \/ IntendSend(x) \/ Withhold(x) \/ StaleProposal(x)
  \/ SendProposal(x) \/ Attach(x) \/ Reconcile(x) \/ SendContext(x) \/ ResetRequest(x)
  \/ FinishRequest(x) \/ CloseRequest(x)

QuoteClock == LeaseRunsOut \/ RetryDue \/ ClaimAges \/ DeadlinePasses

QuoteNext ==
  \/ \E x \in Workers :
       \/ Deliver(x) \/ WorkerProceeds(x) \/ AnalysisFails(x)
       \/ SendFails(x) \/ PublicationRaises(x) \/ AttachRaises(x) \/ QuoteCrash(x)
  \/ QuoteClock \/ ProposalDecided

QuoteFairness ==
  /\ \A x \in Workers : WF_quoteVars(WorkerProceeds(x))
  /\ WF_quoteVars(LeaseRunsOut) /\ WF_quoteVars(RetryDue)
  /\ WF_quoteVars(ClaimAges) /\ WF_quoteVars(DeadlinePasses)
QuoteSpec == QuoteInit /\ [][QuoteNext]_quoteVars /\ QuoteFairness

-----------------------------------------------------------------------------
\* Telegram shows at most one approval message of a proposal, whatever
\* overlaps, ages, fails or crashes: the intent to send is stored first and
\* only over the version that was read (trade_publication.py: "Never blindly
\* create another live approval message").
OneApprovalMessage == sends <= 1

\* Two workers attempt one quote request at a time only if a lease ran out on
\* a worker that was still working, although the lease is given back early,
\* when the quote is received.
AttemptsAreLeased ==
  Cardinality({x \in Workers : At(x, Attempting)}) > 1 => overrun

\* A user who was told that no executable proposal was created gets no
\* approval message, unless an attempt overran its lease.
RefusalIsFinal == "no_quote" \in told /\ sends > 0 => overrun

\* A quote request counts as published only after its proposal was put before
\* the user in some form, whoever handed the request back in between.
PublishedWasShown ==
  quote.state = "PROPOSAL_PUBLISHED" => proposal.publish # "none"

\* The handler's failure message says that no trade proposal was created; it
\* is also sent when the quote request had been stored before the failure.
\* It does not hold (README).
FailureMeansNoProposal == "no_analysis" \in told => sends = 0

\* Every quote request ends published, failed or expired, or waits for an
\* operator: its send is uncertain, or its worker stopped between the quote
\* and the proposal, where nothing takes it up again.  A request that a slower
\* publisher hands back after a faster one has published it stays so.
Stranded == quote.state \in Midway /\ \A x \in Workers : ~At(x, Attempting)
QuoteOpen == quote.state \in QuoteStates \ ({"none"} \cup Final)
QuoteSettled ==
  \/ quote.state \in Final \/ quote.message \/ Stranded
  \/ proposal.publish \in {"sending", "reconciliation_required"}
QuoteSettles == QuoteOpen ~> QuoteSettled
=============================================================================
