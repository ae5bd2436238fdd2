------------------------------ MODULE MCTrading ------------------------------
(* Instances of the quote-request workflow, of a pending order's permission, *)
(* of a trigger's publication, of a trade's accounting and of an order's     *)
(* price and size for TLC.  Each has its own copy of what it shares with the *)
(* rest, so a behaviour is a behaviour of one of them: part says which.      *)
EXTENDS QuoteLifecycle, PendingEntry, HierarchyPublication, TradeAccounting, OrderPricing, TLC

CONSTANTS
  Parts,     \* the workflows a run checks
  Hardships  \* bound: exits of a trade and faults of its accounting together

VARIABLE part

mcVars == <<quoteVars, pendingVars, hierarchyVars, accountingVars, pricingVars, part>>

-----------------------------------------------------------------------------
(* A spread of a tick; with risk open the account has also lost; a broker    *)
(* with a minimum distance, a halted symbol and a full book.                 *)
Quoted(bid, minimum, open, tradable, full) ==
  [bid |-> bid, ask |-> bid + 2, minimum |-> minimum, open |-> open, equity |-> 10000 - 2 * open,
   tradable |-> tradable, full |-> full]
PricingMarkets ==
  {Quoted(bid, 0, open, TRUE, FALSE) : bid \in {392, 398, 402}, open \in {0, 120}}
    \cup {Quoted(398, 4, 0, TRUE, FALSE), Quoted(398, 0, 0, FALSE, FALSE),
          Quoted(398, 0, 0, TRUE, TRUE)}

(* What an operator orders, what an analysis of a feed at half the broker's  *)
(* price finds, and managed entries in either feed.                          *)
Analysed(kind, side, entry, stop, target) ==
  [kind |-> kind, side |-> side, type |-> "market", entry |-> entry, stop |-> stop,
   target |-> target, invalidation |-> 0, low |-> 0, high |-> 0, observed |-> 0,
   native |-> FALSE, gold |-> FALSE, half |-> FALSE, ladder |-> FALSE, percent |-> 3]
PricingSetups ==
  {[Analysed("operator", "buy", 400, 390, 420) EXCEPT !.gold = TRUE],
   [Analysed("operator", "sell", 404, 412, 390) EXCEPT !.type = "limit"],
   Analysed("relative", "buy", 200, 195, 210),
   [Analysed("relative", "sell", 200, 205, 190) EXCEPT !.half = TRUE],
   [Analysed("relative", "buy", 200, 195, 210) EXCEPT !.ladder = TRUE],
   [Analysed("managed", "buy", 200, 195, 210) EXCEPT !.invalidation = 196, !.low = 199,
      !.high = 201, !.observed = 200, !.percent = 2, !.gold = TRUE],
   [Analysed("managed", "sell", 400, 412, 370) EXCEPT !.invalidation = 410, !.low = 398,
      !.high = 402, !.observed = 400, !.native = TRUE, !.half = TRUE, !.ladder = TRUE]}
PricingCandidates ==
  {[price |-> 208, score |-> 500, credible |-> FALSE, opposing |-> FALSE],
   [price |-> 210, score |-> 560, credible |-> TRUE, opposing |-> TRUE],
   [price |-> 214, score |-> 560, credible |-> TRUE, opposing |-> FALSE],
   [price |-> 381, score |-> 560, credible |-> TRUE, opposing |-> FALSE],
   [price |-> 380, score |-> 500, credible |-> TRUE, opposing |-> FALSE],
   [price |-> 366, score |-> 560, credible |-> TRUE, opposing |-> FALSE]}
PricingShares == <<40, 30, 20, 10>>

-----------------------------------------------------------------------------
MCInit ==
  /\ QuoteInit /\ PendingInit /\ HierarchyInit /\ AccountingInit /\ part \in Parts
  (* Elsewhere the market and the setup are any ones.                        *)
  /\ PricingInit
  /\ part # "pricing" => /\ market = CHOOSE m \in Markets : TRUE
                         /\ setup = CHOOSE s \in Setups : TRUE

(* A step of one workflow leaves the others alone.                           *)
QuoteOnly ==
  part = "quote" /\ UNCHANGED <<pendingVars, hierarchyVars, accountingVars, pricingVars, part>>
PendingOnly ==
  part = "pending" /\ UNCHANGED <<quoteVars, hierarchyVars, accountingVars, pricingVars, part>>
HierarchyOnly ==
  part = "hierarchy" /\ UNCHANGED <<quoteVars, pendingVars, accountingVars, pricingVars, part>>
AccountingOnly ==
  part = "accounting" /\ UNCHANGED <<quoteVars, pendingVars, hierarchyVars, pricingVars, part>>
PricingOnly ==
  part = "pricing" /\ UNCHANGED <<quoteVars, pendingVars, hierarchyVars, accountingVars, part>>

MCNext ==
  \/ QuoteOnly /\ QuoteNext
  \/ PendingOnly /\ PendingNext
  \/ HierarchyOnly /\ HierarchyNext
  \/ AccountingOnly /\ AccountingNext /\ exits' + accountingFaults' <= Hardships
  \/ PricingOnly /\ PricingNext

(* A workflow whose part it is not has nothing under way: its fairness asks  *)
(* for nothing.                                                              *)
MCSpec ==
  /\ MCInit /\ [][MCNext]_mcVars
  /\ QuoteFairness /\ PendingFairness /\ HierarchyFairness /\ AccountingFairness

(* The state of each workflow is well formed.                              *)
TradingTypeOK ==
  /\ QuoteTypeOK /\ PendingTypeOK /\ HierarchyTypeOK /\ AccountingTypeOK /\ PricingTypeOK

(* What each workflow promises of its state, stated in its own module.     *)
TradingSafe ==
  /\ OneApprovalMessage /\ AttemptsAreLeased /\ RefusalIsFinal /\ PublishedWasShown
  /\ PermissionIsFresh /\ NoLapsedOrderLeft
  /\ NoBlindResend
  /\ ResultShownOnce /\ OutboxTellsTheTruth
  /\ PricingSound

(* Quote requests are settled, revoked orders stop working, deliveries that  *)
(* nobody recorded surface, and the exits of a trade are announced: as one   *)
(* formula, QuoteSettles, RevocationCancels, AmbiguitySurfaces and           *)
(* ExitsAnnounced of the modules, for part never changes.                    *)
Owed ==
  \/ part = "quote" /\ QuoteOpen
  \/ part = "pending" /\ revoked
  \/ part = "hierarchy" /\ claim.status \in Ambiguous
  \/ part = "accounting" /\ ExitsOwed
Settled ==
  \/ part = "quote" /\ QuoteSettled
  \/ part = "pending" /\ ~Working
  \/ part = "hierarchy" /\ Surfaced
  \/ part = "accounting" /\ LastAnnounced
TradingSettles == Owed ~> Settled
=============================================================================
