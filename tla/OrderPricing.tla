----------------------------- MODULE OrderPricing -----------------------------
(* What one proposal's order costs, from the analysis to its delivery:       *)
(* application/ftmo_master.py prices and sizes it, entry_policy.py chooses   *)
(* its type, risk_policy.py bounds it, take_profit.py builds, converts and   *)
(* divides its targets.  Quotes and the account change between any two       *)
(* steps.  Who may take a step, and when a proposal, a lease or evidence     *)
(* expires, is in OperatorApproval, PendingEntry and SharedSetups.           *)
(*                                                                           *)
(* Prices are in points and a tick is Tick points; a converted price that is *)
(* not put on a tick is rounded down to a point.  A lot loses a unit of      *)
(* money for every point; the volume step and the minimum volume are a lot.  *)
EXTENDS Integers, Sequences, FiniteSets, Sums

CONSTANTS
  Tick,
  MaxLots,       \* volume_max
  GoldAllowance, \* gold_maximum_adverse_price_deviation
  Shares,        \* MULTI_TP_ALLOCATIONS, in hundredths
  Markets,       \* quotes with the account's state
  Setups,        \* analyses and operator orders
  Candidates,    \* evidence for targets, of setups that have a ladder
  MaxQuotes      \* bound: changes of the market

Market == [bid : Int, ask : Int, minimum : Nat, open : Nat, equity : Int,
           tradable : BOOLEAN, full : BOOLEAN]
Setup == [kind : {"operator", "relative", "managed"}, side : {"buy", "sell"},
          type : {"market", "limit", "stop"}, entry : Nat \ {0}, stop : Nat, target : Nat,
          invalidation : Nat, low : Nat, high : Nat, observed : Nat, native : BOOLEAN,
          gold : BOOLEAN, half : BOOLEAN, ladder : BOOLEAN, percent : Nat]
Candidate == [price : Nat, score : Int, credible : BOOLEAN, opposing : BOOLEAN]

(* A managed setup of another feed has the price that was observed there.  A *)
(* candidate is all the evidence for one price.                              *)
ASSUME PricingAssumption ==
  /\ Tick \in Nat \ {0} /\ MaxLots \in Nat \ {0} /\ GoldAllowance \in Nat
  /\ Shares \in Seq(Nat \ {0}) /\ Len(Shares) = 4 /\ Sum(Shares) = 100
  /\ Markets \subseteq Market /\ Setups \subseteq Setup
  /\ \A s \in Setups : /\ s.kind = "managed" /\ ~s.native => s.observed > 0
                       /\ s.ladder => s.entry # s.stop
  /\ Candidates \subseteq Candidate /\ IsFiniteSet(Candidates)
  /\ \A c, d \in Candidates : c.price = d.price => c = d

VARIABLES
  market,   \* bid, ask, minimum distance, equity, open risk
  setup,    \* the analysis
  ladder,   \* the candidates for its targets, and those chosen
  ticket,    \* the proposal, and the order it approves
  shown,    \* history: the proposal as it was published
  seen,     \* history: the market it was last priced in
  quotes

pricingVars == <<market, setup, ladder, ticket, shown, seen, quotes>>

NoGuard == [reference |-> 0, allowance |-> 0, budget |-> 0, maximum |-> MaxLots]
NoOrder == [stage |-> "none", child |-> FALSE, refreshed |-> FALSE, type |-> "market",
            entry |-> 0, stop |-> 0, target |-> 0, low |-> 0, high |-> 0, planned |-> 0,
            invalidation |-> 0, pendingOnly |-> FALSE, volume |-> 0, risk |-> 0,
            guard |-> NoGuard, targets |-> <<>>, lots |-> <<>>, size |-> 0, eligible |-> FALSE]
NoLadder == [offered |-> {}, chosen |-> <<>>]

PricingInit ==
  /\ market \in Markets /\ setup \in Setups /\ seen = market
  /\ ladder = NoLadder /\ ticket = NoOrder /\ shown = NoOrder /\ quotes = 0

Least(a, b) == IF a < b THEN a ELSE b
Most(a, b) == IF a > b THEN a ELSE b
Gap(a, b) == IF a > b THEN a - b ELSE b - a
OnTick(price) == (price \div Tick) * Tick
Sign(s) == IF s.side = "buy" THEN 1 ELSE -1
Executable(s, m) == IF s.side = "buy" THEN m.ask ELSE m.bid
Managed(s) == s.kind = "managed"
Elements(q) == {q[i] : i \in DOMAIN q}

-----------------------------------------------------------------------------
(* build_plan: candidates on the right side and usable, near ones merged     *)
(* into the first; the nearest and the three best of the others.  Risk is    *)
(* the distance to the stop, a tenth of it the least spacing.                *)
SetupRisk(s) == Gap(s.entry, s.stop)
Ahead(s, price) == Sign(s) * (price - s.entry)
Sorted(S, before) ==
  [i \in 1 .. Cardinality(S) |->
     CHOOSE c \in S : Cardinality({d \in S : <<d, c>> \in before}) = i - 1]
Usable(s, offered) == {c \in offered : Ahead(s, c.price) > 0 /\ c.credible}
Nearer(s) == {pair \in Candidate \X Candidate : Ahead(s, pair[1].price) < Ahead(s, pair[2].price)}
ByDistance(s, offered) == Sorted(offered, Nearer(s))

Merge(s, kept, c) ==
  IF kept # <<>> /\ 10 * Gap(c.price, kept[Len(kept)].price) < SetupRisk(s)
  THEN [kept EXCEPT ![Len(kept)].score = Most(@, c.score)]
  ELSE Append(kept, c)
MergeNear(s, offered) ==
  LET merged[n \in 0 .. Cardinality(offered)] ==
        IF n = 0 THEN <<>> ELSE Merge(s, merged[n - 1], ByDistance(s, offered)[n])
  IN merged[Cardinality(offered)]

Quality(s, merged, c) ==
  c.score + Least(40, (10 * Ahead(s, c.price)) \div SetupRisk(s))
    - IF \E d \in Elements(merged) : d.opposing /\ Ahead(s, d.price) < Ahead(s, c.price)
      THEN 50 ELSE 0

Better(s, merged) ==
  {pair \in Elements(merged) \X Elements(merged) :
     LET a == Quality(s, merged, pair[1])  b == Quality(s, merged, pair[2])
     IN a > b \/ (a = b /\ pair \in Nearer(s))}

ChooseTargets(s, offered) ==
  LET merged == MergeNear(s, Usable(s, offered))
      others == Sorted(Elements(Tail(merged)), Better(s, merged))
      best == {others[i] : i \in 1 .. Least(3, Len(others))}
      chosen == ByDistance(s, {merged[1]} \cup best)
  IN IF merged = <<>> THEN <<>> ELSE [i \in DOMAIN chosen |-> chosen[i].price]

(* TakeProfitPlan.validate                                                   *)
Spaced(side, targets, entry, stop, tick, minimum) ==
  \A i \in DOMAIN targets :
    LET previous == IF i = 1 THEN entry ELSE targets[i - 1]
        step == side * (targets[i] - previous)
    IN /\ step >= tick /\ side * (targets[i] - entry) >= minimum
       /\ IF i = 1 THEN step >= minimum ELSE 10 * step >= Gap(entry, stop)
Rewarding(side, targets, entry, stop) == 2 * side * (targets[1] - entry) >= 3 * Gap(entry, stop)
ValidPlan(side, targets, entry, stop, tick, minimum) ==
  /\ side * (entry - stop) > 0
  /\ Spaced(side, targets, entry, stop, tick, minimum)
  /\ Rewarding(side, targets, entry, stop)

ConvertPlan(s, targets, entry) ==
  [i \in DOMAIN targets |-> OnTick((targets[i] * entry) \div s.entry)]

(* The shares of a plan with fewer targets are scaled up; the last target    *)
(* takes what rounding leaves.                                               *)
AllocateVolume(targets, volume) ==
  LET n == Len(targets)
      whole == Sum(SubSeq(Shares, 1, n))
      floors == [i \in 1 .. n - 1 |-> (volume * Shares[i]) \div whole]
  IN Append(floors, volume - Sum(floors))
Divisible(targets, volume) ==
  \A i \in DOMAIN targets : AllocateVolume(targets, volume)[i] >= 1

-----------------------------------------------------------------------------
(* _validated_open_fields.  The checks in their order: the first that fails  *)
(* is the refusal.                                                           *)
First(checks) ==
  LET failing == {i \in DOMAIN checks : checks[i][1]}
  IN IF failing = {} THEN "none"
     ELSE checks[CHOOSE i \in failing : \A j \in failing : i <= j][2]

DayStart == 10000
DailyLimit == 400
TotalLimit == 1000
RiskCeiling(m) == (3 * m.equity) \div 100
LossCapacity(m) ==
  Least(DailyLimit, TotalLimit) - Most(0, DayStart - m.equity) - m.open

Budget(s, m, guard) ==
  LET fraction == Least(Least(3 * m.equity, s.percent * m.equity) \div 100, LossCapacity(m))
      halved == IF s.half THEN fraction \div 2 ELSE fraction
  IN IF guard.budget > 0 THEN Least(guard.budget, halved) ELSE halved

Worst(s, guard, entry, stop) ==
  IF guard.allowance = 0 THEN Gap(entry, stop)
  ELSE Most(Gap(entry, stop), Gap(guard.reference + Sign(s) * guard.allowance, stop))

Price(s, m, o, reference, avoid, defer, initialize) ==
  LET side == Sign(s)  live == Executable(s, m)
      atMarket == o.type = "market"
      entry == IF atMarket THEN live ELSE o.entry
      guard == IF initialize /\ s.gold /\ atMarket /\ GoldAllowance > 0
               THEN [NoGuard EXCEPT !.reference = entry, !.allowance = GoldAllowance]
               ELSE o.guard
      guarded == guard.allowance > 0
      distance == Gap(entry, o.stop)
      worst == Worst(s, guard, entry, o.stop)
      budget == Budget(s, m, guard)
      volume == IF worst = 0 \/ budget <= 0 THEN 0
                ELSE Least(budget \div worst, Least(MaxLots, guard.maximum))
      refusal == First(<<
        <<~m.tradable, "unavailable">>,
        <<guarded /\ ~atMarket, "unavailable">>,
        <<guarded /\ side * (entry - guard.reference) > guard.allowance, "tolerance">>,
        <<~guarded /\ reference # 0 /\ 200 * Gap(entry, reference) > reference, "tolerance">>,
        <<o.low # 0 /\ (entry < o.low \/ entry > o.high), "price moved">>,
        <<avoid /\ side * (live - o.target) >= 0, "target reached">>,
        <<side * (entry - o.stop) <= 0 \/ side * (o.target - entry) <= 0, "levels">>,
        <<~defer /\ o.type = "limit" /\ side * (entry - live) >= 0, "wrong side">>,
        <<~defer /\ o.type = "stop" /\ side * (entry - live) <= 0, "wrong side">>,
        <<distance < m.minimum, "stop too near">>,
        <<~defer /\ ~atMarket /\ Gap(entry, live) < m.minimum, "entry too near">>,
        <<Gap(o.target, entry) < distance, "reward/risk">>,
        <<m.full, "exposure">>,
        <<budget <= 0 \/ volume < 1, "capacity">>,
        <<m.open + worst * volume > RiskCeiling(m), "capacity">> >>)
  IN [refusal |-> refusal, entry |-> entry, volume |-> volume, risk |-> distance * volume,
      guard |-> IF guarded THEN [guard EXCEPT !.budget = budget, !.maximum = volume] ELSE guard]

(* _cap_reviewed_risk: neither the volume nor the loss exceeds those that    *)
(* were reviewed.                                                            *)
Capped(priced, volume, risk) ==
  LET perLot == priced.risk \div priced.volume
      lots == Least(priced.volume, Least(volume, risk \div perLot))
  IN [priced EXCEPT !.volume = lots, !.risk = perLot * lots]

-----------------------------------------------------------------------------
(* entry_order_type; none when the planned entry is the executable price.    *)
EntryType(s, planned, live, low, high, pendingOnly) ==
  IF low <= live /\ live <= high /\ ~pendingOnly THEN "market"
  ELSE IF planned = live THEN "none"
  ELSE IF (planned < live) = (s.side = "buy") THEN "limit" ELSE "stop"

(* _validate_entry_thesis: at the price at which a position would exit.      *)
ThesisHolds(s, m, invalidation, target) ==
  LET exit == IF s.side = "buy" THEN m.bid ELSE m.ask IN
    Sign(s) * (exit - invalidation) > 0 /\ Sign(s) * (target - exit) > 0

(* _entry_attempt.  A pending entry stays pending, at the planned price.     *)
EntryAttempt(s, m, o, preview) ==
  LET found == EntryType(s, o.planned, Executable(s, m), o.low, o.high, o.pendingOnly)
      type == IF found # "none" THEN found ELSE IF o.type # "market" THEN o.type ELSE "limit"
  IN [possible |-> ThesisHolds(s, m, o.invalidation, o.target) /\ (found # "none" \/ preview),
      order |-> IF type = "market" THEN [o EXCEPT !.type = type]
                ELSE [o EXCEPT !.type = type, !.guard = NoGuard, !.entry = o.planned,
                               !.pendingOnly = TRUE]]

-----------------------------------------------------------------------------
(* create_signal_proposal.  Relative levels keep their distance from the     *)
(* entry in proportion to it; managed levels are scaled by the price that    *)
(* was observed; an operator's are absolute.                                 *)
Relative(live, from, level) == OnTick((live * (from + (level - from))) \div from)
Scaled(s, live, price) == IF s.native THEN price ELSE (price * live) \div s.observed

Draft(s, m) ==
  LET live == Executable(s, m)
      level(price) == CASE s.kind = "operator" -> price
                        [] s.kind = "relative" -> Relative(live, s.entry, price)
                        [] s.kind = "managed" -> OnTick(Scaled(s, live, price))
      planned == OnTick(Scaled(s, live, s.entry))
      low == Scaled(s, live, s.low)
      high == Scaled(s, live, s.high)
      type == IF Managed(s) THEN EntryType(s, planned, live, low, high, s.type # "market")
              ELSE s.type
      plain == [NoOrder EXCEPT !.stage = "pending", !.type = type, !.stop = level(s.stop),
                  !.target = level(s.target), !.entry = s.entry]
  IN IF ~Managed(s) THEN plain
     ELSE [plain EXCEPT !.entry = planned, !.planned = planned, !.low = low, !.high = high,
                        !.invalidation = Scaled(s, live, s.invalidation),
                        !.pendingOnly = type # "market"]

(* Both need not hold after the stop has been scaled and put on a tick.      *)
DraftSound(s, m, o) ==
  Managed(s) =>
    /\ o.type # "none" /\ o.low <= o.planned /\ o.planned <= o.high
    /\ Sign(s) * (o.invalidation - Scaled(s, Executable(s, m), s.stop)) >= 0
    /\ Sign(s) * (o.planned - o.invalidation) > 0
    /\ ThesisHolds(s, m, o.invalidation, Scaled(s, Executable(s, m), s.target))

(* The targets on the broker's prices; the last is the order's target.       *)
WithTargets(s, m, o) ==
  IF ~s.ladder THEN o
  ELSE LET entry == IF Managed(s) THEN o.planned ELSE Executable(s, m)
           targets == ConvertPlan(s, ladder.chosen, entry)
       IN [o EXCEPT !.targets = targets, !.target = targets[Len(targets)]]
TargetsSound(s, m, o) ==
  s.ladder => ValidPlan(Sign(s), o.targets, IF Managed(s) THEN o.planned ELSE Executable(s, m),
                        o.stop, Tick, m.minimum)

(* create_trade_proposal *)
Filled(o, priced) ==
  [o EXCEPT !.entry = priced.entry, !.volume = priced.volume, !.risk = priced.risk,
            !.guard = priced.guard]
Divided(o) ==
  IF o.targets = <<>> THEN o
  ELSE [o EXCEPT !.lots = AllocateVolume(o.targets, o.volume), !.size = o.volume]
MayDivide(o) == o.targets # <<>> => Divisible(o.targets, o.volume)

-----------------------------------------------------------------------------
ChangeMarket ==
  /\ quotes < MaxQuotes /\ quotes' = quotes + 1
  /\ market' \in Markets \ {market} /\ UNCHANGED <<setup, ladder, ticket, shown, seen>>

(* The analysis chooses the targets; a weak first one ends it.               *)
ChooseLadder ==
  /\ ticket = NoOrder /\ setup.ladder /\ ladder = NoLadder
  /\ \E offered \in SUBSET Candidates :
       LET chosen == ChooseTargets(setup, offered) IN
         chosen # <<>> /\ ladder' = [offered |-> offered, chosen |-> chosen]
  /\ UNCHANGED <<market, setup, ticket, shown, seen, quotes>>

PlanStands ==
  setup.ladder => ladder # NoLadder
                  /\ ValidPlan(Sign(setup), ladder.chosen, setup.entry, setup.stop, 1, 0)

DraftProposal ==
  /\ ticket = NoOrder /\ PlanStands
  /\ LET draft == Draft(setup, market)
         planned == WithTargets(setup, market, draft)
         priced == Price(setup, market, planned, 0, Managed(setup), Managed(setup), TRUE)
         made == Divided(Filled(planned, priced))
     IN /\ DraftSound(setup, market, draft) /\ TargetsSound(setup, market, planned)
        /\ priced.refusal = "none" /\ MayDivide(Filled(planned, priced))
        /\ ticket' = made
  /\ seen' = market /\ UNCHANGED <<market, setup, ladder, shown, quotes>>

(* validate_proposal_publication: the proposal is shown as it was made.      *)
Publish ==
  /\ ticket.stage = "pending" /\ shown = NoOrder
  /\ LET attempt == EntryAttempt(setup, market, ticket, TRUE)
         o == IF Managed(setup) THEN attempt.order ELSE ticket
         priced == Price(setup, market, o, IF Managed(setup) THEN 0 ELSE ticket.entry,
                         ticket.child \/ Managed(setup), Managed(setup), FALSE)
     IN /\ Managed(setup) => attempt.possible
        /\ priced.refusal = "none"
        /\ o.targets # <<>> =>
             ValidPlan(Sign(setup), o.targets, priced.entry, o.stop, Tick, market.minimum)
  /\ shown' = ticket /\ UNCHANGED <<market, setup, ladder, ticket, seen, quotes>>

-----------------------------------------------------------------------------
(* approve: a relative market order without a guard or a plan follows the    *)
(* market; every other keeps its levels.                                     *)
Follows(s, o) ==
  s.kind = "relative" /\ o.targets = <<>> /\ o.guard = NoGuard /\ o.type = "market"
Followed(s, m, o) ==
  IF ~Follows(s, o) THEN o
  ELSE [o EXCEPT !.stop = Relative(Executable(s, m), s.entry, s.stop),
                 !.target = Relative(Executable(s, m), s.entry, s.target)]

Invalidating == {"tolerance", "price moved", "target reached", "levels", "reward/risk"}
Refused(o, reason) ==
  IF reason \in Invalidating
  THEN [o EXCEPT !.stage = "invalid", !.eligible = reason = "tolerance" /\ o.type = "market"]
  ELSE o

(* A plan keeps its destinations and at most the size it was approved for.   *)
Ladder(s, m, o, priced) ==
  IF o.targets = <<>> THEN [valid |-> TRUE, order |-> Filled(o, priced)]
  ELSE LET lots == Least(priced.volume, o.size)
           fitted == [priced EXCEPT !.volume = lots, !.risk = (@ \div priced.volume) * lots]
           filled == Filled(o, fitted)
       IN [valid |-> /\ ValidPlan(Sign(s), o.targets, priced.entry, o.stop, Tick, m.minimum)
                     /\ MayDivide(filled),
           order |-> Divided(filled)]

Approve ==
  /\ ticket.stage = "pending" /\ shown # NoOrder
  /\ LET attempt == EntryAttempt(setup, market, ticket, FALSE)
         o == IF Managed(setup) THEN attempt.order ELSE ticket
         reference == IF o.type = "market" /\ ~Managed(setup) THEN o.entry ELSE 0
         levels == Followed(setup, market, o)
         priced == Price(setup, market, levels, reference, ticket.child \/ Managed(setup),
                         FALSE, FALSE)
         reviewed == IF Managed(setup) \/ setup.half THEN Capped(priced, o.volume, o.risk)
                     ELSE priced
         laid == Ladder(setup, market, levels, reviewed)
     IN IF Managed(setup) /\ ~attempt.possible
        THEN /\ ~ThesisHolds(setup, market, ticket.invalidation, ticket.target)
             /\ ticket' = [ticket EXCEPT !.stage = "invalid"] /\ UNCHANGED seen
        ELSE IF priced.refusal # "none"
        THEN ticket' = Refused(o, priced.refusal) /\ UNCHANGED seen
        ELSE IF reviewed.volume < 1 \/ ~laid.valid THEN ticket' = o /\ UNCHANGED seen
        ELSE ticket' = [laid.order EXCEPT !.stage = "approved"] /\ seen' = market
  /\ UNCHANGED <<market, setup, ladder, shown, quotes>>

(* commands_for_bridge: a managed order, and one with an allocation, is      *)
(* priced again.  A refusal for the price lets the entry be offered again.   *)
PricedAgain(s) == Managed(s) \/ s.half
Reoffered == {"tolerance", "price moved", "wrong side", "entry too near"}
DeliverOrder ==
  /\ ticket.stage = "approved"
  /\ LET priced == Price(setup, market, [ticket EXCEPT !.guard = NoGuard], 0, FALSE, FALSE,
                         FALSE)
         thesis == ThesisHolds(setup, market, ticket.invalidation, ticket.target)
         fits == priced.refusal = "none" /\ ticket.volume <= priced.volume
         failed == [ticket EXCEPT !.stage = "failed"]
     IN IF ~PricedAgain(setup)
        THEN ticket' = [ticket EXCEPT !.stage = "delivered"] /\ UNCHANGED seen
        ELSE IF fits /\ (Managed(setup) => thesis)
        THEN ticket' = [ticket EXCEPT !.stage = "delivered"] /\ seen' = market
        ELSE /\ ticket' = [failed EXCEPT !.eligible =
                            Managed(setup) /\ thesis /\ priced.refusal \in Reoffered]
             /\ UNCHANGED seen
  /\ UNCHANGED <<market, setup, ladder, shown, quotes>>

(* create_limit_replacement: the planned entry, or the price approved, as a  *)
(* pending order; a managed one within what was reviewed.                    *)
ChildDraft ==
  LET entry == IF Managed(setup) THEN ticket.planned
               ELSE IF ticket.guard # NoGuard THEN ticket.guard.reference ELSE ticket.entry
      pending == [ticket EXCEPT !.pendingOnly = TRUE]
      type == IF Managed(setup) THEN EntryAttempt(setup, market, pending, TRUE).order.type
              ELSE "limit"
  IN [ticket EXCEPT !.stage = "pending", !.child = TRUE, !.type = type, !.entry = entry,
                   !.guard = NoGuard, !.pendingOnly = Managed(setup), !.eligible = FALSE]
Replaceable ==
  /\ ticket.stage \in {"invalid", "failed"} /\ ticket.eligible /\ ~ticket.child
  /\ Sign(setup) * (ticket.target - Executable(setup, market)) > 0
  /\ IF Managed(setup)
     THEN EntryAttempt(setup, market, [ticket EXCEPT !.pendingOnly = TRUE], TRUE).possible
     ELSE Sign(setup) * (Executable(setup, market) - ChildDraft.entry) > 0

Replace ==
  /\ Replaceable
  /\ LET draft == ChildDraft
         priced == Price(setup, market, draft, 0, Managed(setup), Managed(setup), TRUE)
         capped == IF Managed(setup) /\ priced.refusal = "none"
                   THEN Capped(priced, ticket.volume, ticket.risk) ELSE priced
         made == Filled(draft, capped)
     IN /\ priced.refusal = "none" /\ capped.volume >= 1 /\ MayDivide(made)
        /\ ticket' = Divided(made)
  /\ seen' = market /\ shown' = NoOrder /\ UNCHANGED <<market, setup, ladder, quotes>>

(* A replacement that was not published yet is priced anew.                  *)
RefreshReplacement ==
  /\ ticket.stage = "pending" /\ ticket.child /\ shown = NoOrder
  /\ LET priced == Price(setup, market, ticket, 0, FALSE, FALSE, FALSE) IN
       /\ priced.refusal = "none"
       /\ ticket' = [Filled(ticket, priced) EXCEPT !.refreshed = TRUE]
  /\ seen' = market /\ UNCHANGED <<market, setup, ladder, shown, quotes>>

PricingNext ==
  \/ ChangeMarket \/ ChooseLadder \/ DraftProposal \/ Publish \/ Approve \/ DeliverOrder \/ Replace
  \/ RefreshReplacement

PricingSpec == PricingInit /\ [][PricingNext]_pricingVars

PricingTypeOK ==
  /\ ticket.stage \in {"none", "pending", "approved", "delivered", "invalid", "failed"}
  /\ ticket.type \in {"market", "limit", "stop"} /\ ticket.volume \in 0 .. MaxLots
  /\ ticket.guard.allowance \in {0, GoldAllowance} /\ Len(ticket.lots) \in {0, Len(ticket.targets)}

-----------------------------------------------------------------------------
Placed == ticket.stage \in {"approved", "delivered"}

\* A fill at the worst price that the order allows, on top of what is at risk
\* already, loses no more than the risk ceiling and the account's loss limits
\* leave, in the market in which it was last priced.  A delivery that prices an
\* order again does so without its allowance (ftmo_master.py:2814): the farthest
\* fill was within the limits of the approval only (ReviewedIsCeiling).
LossWithinLimits ==
  Placed =>
    LET entry == IF ticket.type = "market" THEN Executable(setup, seen) ELSE ticket.entry
        farthest == ticket.guard.reference + Sign(setup) * ticket.guard.allowance
        allowed == ticket.guard # NoGuard /\ ~(ticket.stage = "delivered" /\ PricedAgain(setup))
    IN \A fill \in {entry} \cup (IF allowed THEN {farthest} ELSE {}) :
         LET loss == Gap(fill, ticket.stop) * ticket.volume IN
           /\ seen.open + loss <= RiskCeiling(seen)
           /\ \A limit \in {DailyLimit, TotalLimit} :
                Most(0, DayStart - seen.equity) + seen.open + loss <= limit

\* An order never takes more lots, nor a greater loss, than were shown, where
\* that is promised: of a managed entry, of a reduced allocation, of a gold order
\* within its allowance (ftmo_master.py:1806 "may reduce size, never increase").
ReviewedIsCeiling ==
  Placed =>
    /\ PricedAgain(setup) =>
         ticket.volume <= shown.volume /\ ticket.risk <= shown.risk
    /\ ticket.guard # NoGuard =>
         /\ ticket.volume <= shown.volume
         /\ Worst(setup, ticket.guard, ticket.entry, ticket.stop) * ticket.volume
              <= shown.guard.budget
    /\ ticket.targets # <<>> => ticket.volume <= shown.size

\* Once an entry waits, it is never upgraded to a market order, and its levels
\* are those that were shown.
PendingStays ==
  /\ ticket.pendingOnly => ticket.type # "market" /\ ticket.entry = ticket.planned
  /\ Placed /\ ~Follows(setup, ticket) =>
       ticket.stop = shown.stop /\ ticket.target = shown.target /\ ticket.targets = shown.targets

\* The targets are divided into the lots that are ordered, each of them at least
\* one, and ahead of each other; a refreshed replacement is divided at approval.
LadderFits ==
  ticket.targets # <<>> /\ (ticket.refreshed => Placed) =>
    /\ Sum(ticket.lots) = ticket.volume
    /\ \A i \in DOMAIN ticket.lots :
         /\ ticket.lots[i] >= 1
         /\ i > 1 => Sign(setup) * (ticket.targets[i] - ticket.targets[i - 1]) > 0

\* The nearest credible level is the first target, whatever else is offered, and
\* what is chosen is spaced: the plan fails for its first reward or not at all.
LadderIsSpaced ==
  ladder # NoLadder =>
    /\ \A c \in Usable(setup, ladder.offered) :
         Ahead(setup, ladder.chosen[1]) <= Ahead(setup, c.price)
    /\ Spaced(Sign(setup), ladder.chosen, setup.entry, setup.stop, 1, 0)

PricingSound ==
  /\ LossWithinLimits /\ ReviewedIsCeiling /\ PendingStays /\ LadderFits /\ LadderIsSpaced
=============================================================================
