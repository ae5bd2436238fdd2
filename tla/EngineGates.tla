----------------------------- MODULE EngineGates -----------------------------
(* The engines of the analysis pipeline that may stop a setup                *)
(* (src/monatise/engines): decision, risk validation, capital allocation,    *)
(* execution policy, portfolio intelligence, integration and governance, in  *)
(* the canonical order.  Each is a pure function of a request, which carries *)
(* the answers of the engines before it; a step asks one engine.             *)
(*                                                                           *)
(* Scores, ratios and percentages are in thousandths, rounded down; 0 stands *)
(* for a price or an amount that is not given.                               *)
EXTENDS Integers, FiniteSets

LOCAL INSTANCE FiniteSetsExt

CONSTANTS
  Voices,      \* the sources of evidence that are heard
  EvidenceScores,
  EntryPrice,       \* the proposed entry
  Levels,      \* prices around it
  Exposures,   \* portfolio exposures asked about
  Positions,   \* open positions asked about
  LossSteps    \* losses and drawdowns, in thousandths of the equity

VARIABLE asked   \* the request

gateVars == <<asked>>

Silent == [engine |-> "none"]
GatesInit == asked = Silent
AskedLast(engine) == asked.engine = engine

If(condition, set) == IF condition THEN set ELSE {}
AtMost(limit, value) == IF value < limit THEN value ELSE limit
AtLeast(limit, value) == IF value > limit THEN value ELSE limit
Fraction(value) == AtMost(1000, AtLeast(0, value))
Opposite(direction) ==
  IF direction = "long" THEN "short" ELSE IF direction = "short" THEN "long" ELSE direction

-----------------------------------------------------------------------------
(* DecisionEngine.  A weight of 20 is 1.00.  A two-sided opinion counts for  *)
(* neither direction.                                                        *)
Weight == [macro |-> 11, regime |-> 20, liquidity |-> 10, sweep |-> 17, demand |-> 15,
           supply |-> 15, reclaim |-> 20, structure |-> 24, fibonacci |-> 13, flow |-> 24]
Opinions == [direction : {"long", "short"}, score : EvidenceScores] \cup
            {[direction |-> "none", score |-> 0]}

(* What stops any setup, whatever the evidence.                              *)
Obstacles == {"no_data", "degraded", "event_lock", "macro_unavailable", "regime_unknown",
              "structure_unstable", "flow_unavailable"}

DecisionRequests ==
  [engine : {"decision"}, evidence : [Voices -> Opinions],
   obstacles : {{}} \cup {{o} : o \in Obstacles},
   directional : BOOLEAN, minimumSignal : {0, 7}, maximumConflict : {350}]

\* Mutant: the short side is credited with all that is heard.
LopsidedScore(evidence, direction) ==
  LET relevant == {v \in Voices : evidence[v].direction = direction \/ direction = "short"}
      weight == MapThenSumSet(LAMBDA v : Weight[v], relevant)
  IN IF weight = 0 THEN 0
     ELSE MapThenSumSet(LAMBDA v : Weight[v] * evidence[v].score, relevant) \div weight

DirectionScore(evidence, direction) ==
  LET relevant == {v \in Voices : evidence[v].direction = direction}
      weight == MapThenSumSet(LAMBDA v : Weight[v], relevant)
  IN IF weight = 0 THEN 0
     ELSE MapThenSumSet(LAMBDA v : Weight[v] * evidence[v].score, relevant) \div weight

(* round: a half goes to the even neighbour.                                 *)
Signal(difference) ==
  LET tenths == difference \div 100  rest == difference % 100
  IN IF rest < 50 \/ (rest = 50 /\ tenths % 2 = 0) THEN tenths ELSE tenths + 1

MinimumConviction == 580
Decide(request) ==
  LET long == DirectionScore(request.evidence, "long")
      short == DirectionScore(request.evidence, "short")
      strong == AtLeast(long, short)
      weak == AtMost(long, short)
      conflict == IF strong = 0 THEN 0 ELSE (1000 * weak) \div strong
      conviction == Fraction(strong - (2 * conflict) \div 5)
      trend == /\ request.obstacles = {} /\ request.directional
               /\ strong >= MinimumConviction
               /\ Signal(strong - weak) >= request.minimumSignal
               /\ conflict <= request.maximumConflict
  IN [passes |-> trend /\ conviction >= MinimumConviction,
      direction |-> IF ~trend THEN "none" ELSE IF long > short THEN "long" ELSE "short",
      conviction |-> IF trend THEN conviction ELSE 0]

-----------------------------------------------------------------------------
(* RiskValidationEngine.                                                     *)
Decisions == {Decide(request) : request \in DecisionRequests}
Equity == 10000
RiskRequests ==
  [engine : {"risk"}, decision : Decisions, entry : {0, EntryPrice},
   proposed : Levels \cup {0}, fibonacci : {0, EntryPrice - 2}, zone : {0, EntryPrice + 2},
   target : Levels \cup {0}, equity : {0, Equity}, expired : BOOLEAN,
   flow : {"healthy", "fragile", "trapped"}, rsiWarns : BOOLEAN]

(* The proposed level, else Fibonacci's, else the far side of the zone.      *)
Invalidation(request) ==
  IF request.proposed # 0 THEN request.proposed
  ELSE IF request.fibonacci # 0 THEN request.fibonacci ELSE request.zone

WrongSide(direction, entry, stop) ==
  stop <= 0 \/ (direction = "long" /\ stop >= entry) \/ (direction = "short" /\ stop <= entry)

Apart(a, b) == IF a > b THEN a - b ELSE b - a

(* In hundredths; 0 when the target is on the wrong side.                    *)
RewardRisk(direction, entry, stop, target) ==
  LET reward == IF direction = "long" THEN target - entry ELSE entry - target
  IN IF reward <= 0 THEN 0 ELSE (100 * reward) \div Apart(entry, stop)

ValidateRisk(request) ==
  LET decision == request.decision
      sided == decision.direction \in {"long", "short"}
      stop == Invalidation(request)
      placed == sided /\ request.entry # 0 /\ stop # 0
      sound == placed /\ ~WrongSide(decision.direction, request.entry, stop)
      distance == IF sound THEN (1000 * Apart(request.entry, stop)) \div request.entry ELSE 0
      judged == sound /\ request.target # 0
      reward == IF judged THEN RewardRisk(decision.direction, request.entry, stop, request.target)
                ELSE 0
      blockers ==
        If(~decision.passes, {"decision_not_approved"}) \cup
        If(~sided, {"no_trade_decision"}) \cup
        If(request.expired, {"signal_expired"}) \cup
        If(request.flow = "trapped", {"order_flow_health_block"}) \cup
        If(sided /\ request.entry = 0, {"missing_entry"}) \cup
        If(sided /\ stop = 0, {"missing_invalidation"}) \cup
        If(placed /\ ~sound, {"invalid_invalidation"}) \cup
        If(sound /\ distance < 1, {"stop_too_tight"}) \cup
        If(sound /\ distance > 50, {"stop_too_wide"}) \cup
        If(judged /\ reward = 0, {"invalid_target_geometry"}) \cup
        If(judged /\ reward # 0 /\ reward < 150, {"reward_risk_too_low"})
      warnings ==
        If(request.flow = "fragile", {"fragile_order_flow"}) \cup
        If(request.rsiWarns, {"rsi"}) \cup
        If(sided /\ request.target = 0, {"missing_target"}) \cup
        If(request.equity = 0, {"account_equity_unavailable"})
      bonus == AtMost(150, AtLeast(0, (reward - 100) \div 2))
  IN [passes |-> blockers \cup warnings = {}, direction |-> decision.direction,
      decision |-> IF blockers # {} THEN "rejected"
                   ELSE IF warnings # {} THEN "conditional" ELSE "approved",
      score |-> Fraction(decision.conviction + bonus
                         + (IF request.flow = "healthy" THEN 50 ELSE 0)
                         - 350 * Cardinality(blockers) - 100 * Cardinality(warnings)),
      amount |-> request.equity \div 100, reward |-> reward,
      entry |-> request.entry, stop |-> stop, target |-> request.target]

-----------------------------------------------------------------------------
(* CapitalAllocationEngine and its profiles.                                 *)
Limits(crypto, symbol, correlated, risk, positions, symbolPositions) ==
  [crypto |-> crypto, symbol |-> symbol, correlated |-> correlated, risk |-> risk,
   positions |-> positions, symbolPositions |-> symbolPositions]
Tiers(full, reduced, minimal, fullShare, reducedShare, minimalShare) ==
  [full |-> full, reduced |-> reduced, minimal |-> minimal, fullShare |-> fullShare,
   reducedShare |-> reducedShare, minimalShare |-> minimalShare]
Profiles == <<"conservative", "balanced", "aggressive", "paper_test">>
Limit == <<Limits(250, 70, 150, 25, 4, 1), Limits(500, 150, 300, 60, 8, 2),
           Limits(700, 250, 450, 100, 12, 3), Limits(950, 600, 850, 350, 30, 10)>>
Tier == <<Tiers(820, 680, 550, 700, 450, 200), Tiers(750, 550, 400, 1000, 600, 300),
          Tiers(680, 500, 350, 1000, 750, 400), Tiers(450, 300, 150, 1000, 850, 600)>>
LiveCapable(profile) == Profiles[profile] # "paper_test"

Risks ==
  {ValidateRisk(request) : request \in {r \in RiskRequests : r.decision.passes /\ ~r.rsiWarns}}
AllocationRequests ==
  [engine : {"allocation"}, risk : Risks, portfolio : Exposures, profile : DOMAIN Profiles,
   capital : {0, 2000}, live : BOOLEAN]

Capacity(limit, used) == AtLeast(0, (Equity * (limit - used)) \div 1000)
RiskCapacity(limit, amount) == AtLeast(0, (Equity * limit) \div 1000 - amount)

(* Exposure lowers the score, reward for the risk raises it.                 *)
AllocationScore(risk, portfolio) ==
  Fraction((7 * risk.score) \div 10
    - AtMost(250, (15 * portfolio.crypto + 10 * portfolio.correlated) \div 100
                  + (200 * portfolio.risk) \div Equity)
    - AtMost(150, portfolio.symbol \div 5)
    + AtMost(150, AtLeast(0, (risk.reward - 100) \div 2)))

Share(tier, score) ==
  IF score >= tier.full THEN tier.fullShare
  ELSE IF score >= tier.reduced THEN tier.reducedShare
  ELSE IF score >= tier.minimal THEN tier.minimalShare ELSE 0

Allocate(request) ==
  LET limit == Limit[request.profile]  portfolio == request.portfolio
      crypto == Capacity(limit.crypto, portfolio.crypto)
      symbol == Capacity(limit.symbol, portfolio.symbol)
      correlated == Capacity(limit.correlated, portfolio.correlated)
      risk == RiskCapacity(limit.risk, portfolio.risk)
      share == Share(Tier[request.profile], AllocationScore(request.risk, portfolio))
      blocked == \/ ~request.risk.passes
                 \/ request.live /\ ~LiveCapable(request.profile)
                 \/ portfolio.positions >= limit.positions
                 \/ portfolio.symbolPositions >= limit.symbolPositions
                 \/ 0 \in {crypto, symbol, correlated, risk}
      granted == IF blocked THEN 0 ELSE share
  IN [passes |-> granted > 0, profile |-> request.profile, setup |-> request.risk,
      risk |-> AtMost(risk, (request.risk.amount * granted) \div 1000),
      capital |-> AtMost(crypto, AtMost(symbol, AtMost(correlated,
                    (request.capital * granted) \div 1000)))]

-----------------------------------------------------------------------------
(* ExecutionPolicyEngine: a proposal for paper, or for a human.              *)
Allocations ==
  {Allocate(request) : request \in {r \in AllocationRequests : r.risk.decision # "rejected"}}
ExecutionRequests ==
  [engine : {"execution"}, allocation : Allocations,
   mode : {"disabled", "paper", "live_approval_required"}, expired : BOOLEAN,
   spread : {"unknown", "within", "wide"}, leverage : {"within", "above"}, approvalId : BOOLEAN]

Propose(request) ==
  LET live == request.mode = "live_approval_required"
      risk == request.allocation.setup
      blocked == \/ ~risk.passes \/ ~request.allocation.passes
                 \/ request.expired \/ request.spread = "wide" \/ request.leverage = "above"
                 \/ request.mode = "disabled"
                 \/ live /\ (~request.approvalId \/ ~LiveCapable(request.allocation.profile))
  IN [passes |-> ~blocked, live |-> live,
      side |-> IF risk.direction = "long" THEN "buy" ELSE "sell"]

-----------------------------------------------------------------------------
(* PortfolioIntelligenceEngine: concentration of the open positions.         *)
PortfolioRequests == [engine : {"portfolio"}, positions : SUBSET Positions]

Total(positions, Amount(_)) == MapThenSumSet(Amount, positions)
Notional(positions) == Total(positions, LAMBDA p : p.notional)
BySymbol(positions) ==
  {{p \in positions : p.symbol = s} : s \in {q.symbol : q \in positions}}
ByGroup(positions) ==
  {{p \in positions : p.group = g} : g \in {q.group : q \in positions}}
Largest(parts) == Max({0} \cup {Notional(part) : part \in parts})

Overloads(positions) ==
  If(1000 * Total(positions, LAMBDA p : p.risk) > 60 * Equity, {"high_total_risk"}) \cup
  If(1000 * Largest(BySymbol(positions)) > 200 * Equity, {"symbol_concentration"}) \cup
  If(1000 * Largest(ByGroup(positions)) > 350 * Equity, {"correlation_cluster"}) \cup
  If(1000 * Notional({p \in positions : p.illiquid}) > 200 * Equity, {"liquidity_concentration"})
Overlevered(positions) ==
  If(Total(positions, LAMBDA p : p.notional * p.leverage) > 3 * Notional(positions),
     {"leverage_concentration"})
Crowded(positions) ==
  /\ Notional(positions) > 0
  /\ 1000 * Apart(Notional({p \in positions : p.side = "long"}),
                     Notional({p \in positions : p.side = "short"})) > 600 * Notional(positions)
Clustered(positions) == \E p, q \in positions : p # q /\ Apart(p.expires, q.expires) <= 900

Weigh(request) ==
  LET blockers == Overloads(request.positions) \cup Overlevered(request.positions)
      health == IF Cardinality(blockers) >= 2 THEN "blocked"
                ELSE IF blockers # {} THEN "fragile"
                ELSE IF Crowded(request.positions) \/ Clustered(request.positions) THEN "elevated"
                ELSE "healthy"
  IN [passes |-> health \in {"healthy", "elevated"}, health |-> health]

-----------------------------------------------------------------------------
(* IntegrationEngine: an event for each channel that is requested and        *)
(* enabled; its blockers are "blocked" and "failed".                         *)
Channels == {"telegram", "openclaw", "database"}
IntegrationRequests ==
  [engine : {"integration"}, requested : SUBSET Channels, enabled : SUBSET Channels]
Integrate(request) ==
  LET events == request.requested \cap request.enabled
  IN [passes |-> events # {}, events |-> events]

-----------------------------------------------------------------------------
(* GovernanceLossControlEngine, the final gate.                              *)
Losses ==
  [daily : LossSteps, drawdown : LossSteps, consecutive : {0, 3},
   lastLoss : {"old", "recent", "unknown"}, day : {0, 5}, killed : BOOLEAN, frozen : BOOLEAN]
GovernanceRequests ==
  [engine : {"governance"}, upstream : SUBSET {"risk", "allocation", "execution"},
   portfolio : {"healthy", "elevated", "fragile", "blocked"}, losses : Losses, override : BOOLEAN]

(* The cooldown runs from the last loss, or from now when it is unknown.     *)
Cooling(losses) == losses.consecutive >= 3 /\ losses.lastLoss # "old"

Switched(losses) == If(losses.killed, {"kill switch"}) \cup
                    If(losses.drawdown >= 100, {"total drawdown"})
LossBlockers(losses) ==
  If(losses.frozen, {"manual governance freeze"}) \cup
  If(losses.daily >= 40, {"daily loss"}) \cup
  If(Cooling(losses), {"consecutive losses"}) \cup
  If(losses.day >= 5, {"losses in the last 24 hours"})
UpstreamBlockers(request) ==
  If("risk" \notin request.upstream, {"risk validation decision"}) \cup
  If("allocation" \notin request.upstream, {"capital allocation decision"}) \cup
  If("execution" \notin request.upstream, {"execution policy is blocked"}) \cup
  If(request.portfolio \in {"fragile", "blocked"}, {"portfolio health"})

(* What a manual override cannot clear.                                      *)
NonOverridable ==
  {"kill switch", "total drawdown", "manual governance freeze", "risk validation decision",
   "capital allocation decision", "execution policy is blocked", "portfolio health",
   "daily loss", "consecutive losses", "losses in the last 24 hours"}

Govern(request) ==
  LET losses == request.losses
      found == Switched(losses) \cup LossBlockers(losses) \cup UpstreamBlockers(request)
      cleared == request.override /\ found # {} /\ found \cap NonOverridable = {}
      cautions == \/ losses.consecutive >= 3 /\ ~Cooling(losses)
                  \/ losses.drawdown >= 50 /\ losses.drawdown < 100
                  \/ request.portfolio = "elevated"
                  \/ cleared
      decision == IF Switched(losses) # {} \/ (found # {} /\ ~cleared) THEN "block"
                  ELSE IF cautions THEN "reduce" ELSE "allow"
  IN [passes |-> decision # "block", decision |-> decision]

-----------------------------------------------------------------------------
(* The registry asks one engine at a time; a setup goes on while each passes *)
(* it.                                                                       *)
GatesNext ==
  /\ asked = Silent
  /\ \/ asked' \in DecisionRequests
     \/ asked' \in RiskRequests
     \/ asked' \in AllocationRequests
     \/ asked' \in ExecutionRequests
     \/ asked' \in PortfolioRequests
     \/ asked' \in IntegrationRequests
     \/ asked' \in GovernanceRequests

-----------------------------------------------------------------------------
(* The mirror image of a request: long for short, prices reflected about the *)
(* entry.                                                                    *)
MirrorEvidence(request) ==
  [request EXCEPT !.evidence = [v \in Voices |->
     [request.evidence[v] EXCEPT !.direction = Opposite(@)]]]
MirrorPrice(price) == IF price = 0 THEN 0 ELSE 2 * EntryPrice - price
MirrorSetup(request) ==
  [request EXCEPT !.decision.direction = Opposite(@), !.proposed = MirrorPrice(@),
                  !.fibonacci = MirrorPrice(@), !.zone = MirrorPrice(@), !.target = MirrorPrice(@)]

\* Neither direction is favoured: the mirror image of the evidence, and of a
\* setup's prices, gets the mirrored answer.  Equal evidence trades in neither
\* direction, although _classify resolves a tie to short.
NoDirectionFavoured ==
  /\ AskedLast("decision") =>
       /\ Decide(MirrorEvidence(asked)).passes = Decide(asked).passes
       /\ Decide(MirrorEvidence(asked)).direction = Opposite(Decide(asked).direction)
  /\ AskedLast("risk") =>
       LET mirrored == ValidateRisk(MirrorSetup(asked)) IN
         /\ mirrored.decision = ValidateRisk(asked).decision
         /\ mirrored.score = ValidateRisk(asked).score

\* A portfolio that is more exposed, and a profile that is more cautious, are
\* never granted more (capital_allocation/engine.py:15 "no profile removes risk
\* approval, concentration, exposure, open-risk, or position-count safeguards").
MoreExposed(portfolio) ==
  {[portfolio EXCEPT !.crypto = @ + 50], [portfolio EXCEPT !.symbol = @ + 50],
   [portfolio EXCEPT !.correlated = @ + 50], [portfolio EXCEPT !.risk = @ + 100],
   [portfolio EXCEPT !.positions = @ + 3], [portfolio EXCEPT !.symbolPositions = @ + 1]}
GrantsNoMore(request) ==
  LET granted == Allocate(request) IN
    granted.risk <= Allocate(asked).risk /\ granted.capital <= Allocate(asked).capital
CautionGrantsLess ==
  AskedLast("allocation") =>
    /\ \A portfolio \in MoreExposed(asked.portfolio) :
         GrantsNoMore([asked EXCEPT !.portfolio = portfolio])
    /\ asked.profile > 1 /\ ~asked.live => GrantsNoMore([asked EXCEPT !.profile = @ - 1])

\* What is granted on top of what is open stays within the profile's limits.
GrantWithinLimits ==
  AskedLast("allocation") /\ Allocate(asked).passes =>
    LET limit == Limit[asked.profile]  grant == Allocate(asked) IN
      /\ 1000 * (asked.portfolio.risk + grant.risk) <= limit.risk * Equity
      /\ \A kind \in {"crypto", "symbol", "correlated"} :
           asked.portfolio[kind] * Equity + 1000 * grant.capital <= limit[kind] * Equity

\* An open position more never relieves the portfolio of its risk, its
\* concentration in a symbol or a group, or its illiquid part.
PositionsOnlyLoad ==
  AskedLast("portfolio") =>
    \A p \in Positions : Overloads(asked.positions) \subseteq Overloads(asked.positions \cup {p})

\* A worse record never gets a milder verdict, and an override clears no
\* control: every blocker governance has is in the list of those that it may not.
Rank == [allow |-> 0, reduce |-> 1, block |-> 2]
WorseLosses(losses) ==
  {[losses EXCEPT !.daily = 40], [losses EXCEPT !.drawdown = AtLeast(50, @)],
   [losses EXCEPT !.drawdown = AtLeast(100, @)], [losses EXCEPT !.consecutive = 3],
   [losses EXCEPT !.day = 5], [losses EXCEPT !.killed = TRUE], [losses EXCEPT !.frozen = TRUE]}
    \cup If(losses.lastLoss = "old", {[losses EXCEPT !.lastLoss = "recent"]})
LossesNeverHelp ==
  AskedLast("governance") =>
    /\ \A losses \in WorseLosses(asked.losses) :
         Rank[Govern([asked EXCEPT !.losses = losses]).decision]
           >= Rank[Govern(asked).decision]
    /\ Govern([asked EXCEPT !.override = ~asked.override]).decision = Govern(asked).decision

\* A proposal has its stop behind its entry, its target at least one and a half
\* times as far ahead, a risk of at most one hundredth of the equity, and is
\* live only for a profile that may be.
ProposalIsSound ==
  AskedLast("execution") /\ Propose(asked).passes =>
    LET risk == asked.allocation.setup  ahead == IF Propose(asked).side = "buy" THEN 1 ELSE -1 IN
      /\ ahead * (risk.entry - risk.stop) > 0
      /\ 2 * ahead * (risk.target - risk.entry) >= 3 * ahead * (risk.entry - risk.stop)
      /\ 0 < asked.allocation.risk /\ asked.allocation.risk * 100 <= Equity
      /\ Propose(asked).live => LiveCapable(asked.allocation.profile)

GatesSound ==
  /\ NoDirectionFavoured /\ CautionGrantsLess /\ GrantWithinLimits /\ PositionsOnlyLoad
  /\ LossesNeverHelp /\ ProposalIsSound
=============================================================================
