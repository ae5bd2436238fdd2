---------------------------- MODULE CandleEvidence ----------------------------
(* What the engines read off the candles (src/monatise/engines): sweeps of   *)
(* liquidity, their reclaims, market structure, supply and demand zones and  *)
(* Fibonacci anchors.  Each assessment starts anew from the candles at hand, *)
(* so here candles arrive one by one and every arrival is assessed.          *)
(*                                                                           *)
(* Prices are whole ticks; percentages and ratios are ten-thousandths, and   *)
(* compared exactly.  Both sides of the market share one definition: 1 is    *)
(* up, -1 is down, and a price times the side grows in its direction.  Data  *)
(* of good quality, no regime, a liquidity map that stays as it is, and as   *)
(* many zones as there are (max_zones_per_type keeps the nearest).           *)
EXTENDS Integers, Sequences, FiniteSets

LOCAL INSTANCE FiniteSetsExt
LOCAL INSTANCE SequencesExt

CONSTANTS
  Shapes,     \* for each kind of candle its high, low and close from the open
  Histories,  \* sequences of kinds: the candles before the first assessment
  Pools,      \* the liquidity map: the side and the price of each level
  MaxArrivals \* bound: candles after the history

VARIABLES
  candles,  \* the candles so far
  evidence  \* the assessments of them

evidenceVars == <<candles, evidence>>

(* What production_analysis.py and the defaults of the requests set.         *)
Unit == 10000
SwingWindow == 1
ConfirmationCloses == 1
Displacement == 5000
BreakTolerance == 5
FailedWindow == 3
Lookback == 8
BreachTolerance == 5
RejectionClose == 10
MinimumWick == 3500
ReclaimCandles == 4
ReclaimTolerance == 10
HoldTolerance == 15
ReclaimBody == 4500
ImpulseWindow == 3
BaseMaximum == 4
MinimumImpulse == 15000
BaseBody == 5500
TouchTolerance == 10
ZoneTolerance == 15
AtrWindow == 14
AnchorAge == 160
AnchorRange == 20000

-----------------------------------------------------------------------------
(* Candles.                                                                  *)
Sides == {1, -1}
Dir(d) == IF d = 1 THEN "up" ELSE "down"
Size(n) == IF n < 0 THEN -n ELSE n
(* How far a candle goes on side d, and the price it reaches there.          *)
Reach(c, d) == IF d = 1 THEN c.h ELSE -c.l
Edge(c, d) == IF d = 1 THEN c.h ELSE c.l
BodyTop(c, d) == Max({d * c.o, d * c.c})
BodySize(c) == Size(c.c - c.o)
Spread(c) == c.h - c.l
(* A price moved by t of itself to side d, in units.                         *)
Moved(p, d, t) == Unit * d * p + p * t
(* n / m >= r, where a candle without a range has the ratio 0.               *)
RatioAtLeast(n, m, r) == m > 0 /\ Unit * n >= r * m
First(S) == IF S = {} THEN 0 ELSE Min(S)

(* _atr: the sum of the true ranges of the last candles.                     *)
TrueRange(cs, i) ==
  Max({Spread(cs[i]), Size(cs[i].h - cs[i - 1].c), Size(cs[i].l - cs[i - 1].c)})
RangeSum(cs) ==
  MapThenSumSet(LAMBDA i : TrueRange(cs, i), Len(cs) - AtrWindow + 1 .. Len(cs))

-----------------------------------------------------------------------------
(* LiquiditySweepEngine, for one level of the map.                           *)
NoSweep == [rank |-> 0]

SweepAt(cs, pool, i) ==
  LET c == cs[i]  d == pool.side
      wick == Reach(c, d) - BodyTop(c, d)
      wickOk == RatioAtLeast(wick, Spread(c), MinimumWick)
      inside == Unit * d * c.c <= Moved(pool.price, d, RejectionClose)
  IN  [rank |-> CASE wickOk /\ inside -> 3 [] wickOk \/ inside -> 2 [] OTHER -> 1,
       wick |-> wick, spread |-> Max({Spread(c), 1}),
       breach |-> Reach(c, d) - d * pool.price, at |-> i]

Breached(cs, pool) ==
  {i \in Max({1, Len(cs) - Lookback + 1}) .. Len(cs) :
     Unit * Reach(cs[i], pool.side) >= Moved(pool.price, pool.side, BreachTolerance)}

(* _stronger: status, then the wick, the breach and the candle.              *)
Stronger(a, b) ==
  \/ a.rank > b.rank
  \/ a.rank = b.rank /\ a.wick * b.spread > b.wick * a.spread
  \/ /\ a.rank = b.rank /\ a.wick * b.spread = b.wick * a.spread
     /\ a.breach > b.breach \/ (a.breach = b.breach /\ a.at > b.at)

\* Mutant: the last breach of a level is taken, whatever its status.
LastSweep(cs, pool) ==
  LET found == Breached(cs, pool) IN
    IF found = {} THEN NoSweep ELSE SweepAt(cs, pool, Max(found))

BestSweep(cs, pool) ==
  LET found == {SweepAt(cs, pool, i) : i \in Breached(cs, pool)} IN
    IF found = {} THEN NoSweep
    ELSE CHOOSE s \in found : \A o \in found \ {s} : Stronger(s, o)

-----------------------------------------------------------------------------
(* ReclaimEngine, for the sweep of one level.                                *)
Closes(c, d, p, t) == Unit * d * c.c >= Moved(p, d, -t)

\* Mutant: only the newest candle has to hold the level.
HeldAtLast(cs, later, d, p) == later = {} \/ Closes(cs[Max(later)], d, p, HoldTolerance)

Held(cs, later, d, p) == \A i \in later : Closes(cs[i], d, p, HoldTolerance)

ReclaimOf(cs, pool, sweep) ==
  LET d == -pool.side
      window == sweep.at + 1 .. Min({Len(cs), sweep.at + ReclaimCandles})
      at == First({i \in window : Closes(cs[i], d, pool.price, ReclaimTolerance)})
      later == {i \in window : i > at}
      held == Held(cs, later, d, pool.price)
      bodyOk == RatioAtLeast(BodySize(cs[at]), Spread(cs[at]), ReclaimBody)
      follows == \E i \in later : Reach(cs[i], d) > Reach(cs[at], d)
      (* require_follow_through is off.                                      *)
      status == CASE held /\ bodyOk -> "confirmed"
                  [] held /\ follows -> "possible"
                  [] OTHER -> "failed"
  IN  IF window = {} THEN [status |-> "none", side |-> d, at |-> 0, held |-> FALSE]
      ELSE IF at = 0 THEN [status |-> "failed", side |-> d, at |-> 0, held |-> FALSE]
      ELSE [status |-> status, side |-> d, at |-> at, held |-> held]

(* Sweeps that are neither confirmed nor possible have no reclaim.           *)
Reclaims(cs, sweeps) ==
  [p \in {q \in Pools : sweeps[q].rank >= 2} |-> ReclaimOf(cs, p, sweeps[p])]

-----------------------------------------------------------------------------
(* MarketStructureEngine.                                                    *)
Height(cs, d, i) == Reach(cs[i], d)

(* A candle beyond its neighbours, or the end of a plateau of equal ones     *)
(* that lies beyond both sides.                                              *)
SwingPoints(cs, d, past) ==
  LET n == Len(cs)  w == SwingWindow
      Over(i, s, e) == \A j \in ((s - w .. s - 1) \cup (e + 1 .. e + w)) \cap 1 .. n :
                         Height(cs, d, j) < Height(cs, d, i)
      Level(s, e) == \A j \in s .. e : Height(cs, d, j) = Height(cs, d, s)
      Ends(s, e) == e = n \/ Height(cs, d, e + 1) # Height(cs, d, s)
  IN  {i \in w + 1 .. n - w : Over(i, i, i)}
        \cup {e \in w + 2 .. n - past : \E s \in w + 1 .. e - 1 :
                 Level(s, e) /\ Ends(s, e) /\ Over(s, s, e)}

\* Mutant: a plateau counts as soon as it stands, not when it has ended.
OpenPlateaus(cs, d) == SwingPoints(cs, d, 0)

Swings(cs, d) == SwingPoints(cs, d, SwingWindow)

Compare(a, b) == IF a > b THEN "up" ELSE IF a < b THEN "down" ELSE "neutral"
NextLast(S) == Max(S \ {Max(S)})

(* _prior_bias: from the last two swings of each side, or else from the      *)
(* means of the two halves of the candles but the last.                      *)
PriorBias(cs, highs, lows) ==
  IF Cardinality(highs) < 2 \/ Cardinality(lows) < 2
  THEN LET n == Len(cs) - 1  m == n \div 2
           Weight(S) == MapThenSumSet(LAMBDA i : cs[i].h + cs[i].l, S)
       IN  Compare(m * Weight(m + 1 .. n), (n - m) * Weight(1 .. m))
  ELSE LET high == Compare(cs[Max(highs)].h, cs[NextLast(highs)].h)
           low == Compare(cs[Max(lows)].l, cs[NextLast(lows)].l)
       IN  IF high = low THEN high ELSE "conflicted"

Beyond(cs, i, d, level) == Unit * d * cs[i].c > Moved(level, d, BreakTolerance)

\* Mutant: the break is confirmed by the newest closes.
ConfirmedNow(cs, i, d, level) ==
  \A j \in Len(cs) - ConfirmationCloses + 1 .. Len(cs) : Beyond(cs, j, d, level)

Confirmed(cs, i, d, level) ==
  \A j \in i .. i + ConfirmationCloses - 1 : j <= Len(cs) /\ Beyond(cs, j, d, level)

(* _detect_breaks: of the last swing on each side, by the candles after the  *)
(* earlier of the two.                                                       *)
Breaks(cs, highs, lows, prior) ==
  LET from == Min({Max(highs), Max(lows)}) + 1
      Level(d) == IF d = 1 THEN cs[Max(highs)].h ELSE cs[Max(lows)].l
      Break(d, i) ==
        [kind |-> IF prior = Dir(-d) THEN "choch" ELSE "bos", side |-> d, level |-> Level(d),
         at |-> i, confirmed |-> /\ Confirmed(cs, i, d, Level(d))
                                 /\ RatioAtLeast(BodySize(cs[i]), Spread(cs[i]), Displacement)]
  IN  UNION {{Break(d, i) : i \in {j \in from .. Len(cs) : Beyond(cs, j, d, Level(d))}} :
               d \in Sides}

\* Mutant: the first close after a break is not looked at.
FailuresAfterOne(cs, b) ==
  {j \in b.at + 2 .. Min({Len(cs), b.at + FailedWindow}) : b.side * cs[j].c < b.side * b.level}

(* The closes back within the level of a break, soon after it.               *)
Failures(cs, b) ==
  {j \in b.at + 1 .. Min({Len(cs), b.at + FailedWindow}) : b.side * cs[j].c < b.side * b.level}

FailedBreaks(cs, breaks) ==
  {[b EXCEPT !.kind = "failed", !.at = Min(Failures(cs, b))] :
     b \in {x \in breaks : x.confirmed /\ Failures(cs, x) # {}}}

(* The last event that is confirmed; of several at a candle a failed break,  *)
(* else the one below, is the last in the list.                              *)
NoEvent == [kind |-> "none"]
LatestEvent(events) ==
  LET confirmed == {e \in events : e.confirmed}
      last == {e \in confirmed : \A o \in confirmed : o.at <= e.at}
      failed == {e \in last : e.kind = "failed"}
  IN  IF last = {} THEN NoEvent
      ELSE IF failed # {} THEN CHOOSE e \in failed : TRUE
      ELSE CHOOSE e \in last : \A o \in last : e.side <= o.side

(* _classify: only these biases have a state that says continuation or       *)
(* reversal.                                                                 *)
Bias(prior, latest) ==
  CASE latest.kind = "none" -> prior
    [] latest.kind = "failed" -> "conflicted"
    [] OTHER -> Dir(latest.side)

NoStructure ==
  [highs |-> {}, lows |-> {}, breaks |-> {}, failed |-> {}, latest |-> NoEvent,
   bias |-> "unknown"]

Structure(cs) ==
  LET highs == Swings(cs, 1)  lows == Swings(cs, -1)
      prior == PriorBias(cs, highs, lows)
      breaks == Breaks(cs, highs, lows, prior)
      failed == FailedBreaks(cs, breaks)
      latest == LatestEvent(breaks \cup failed)
  IN  IF Len(cs) < 2 * SwingWindow + 3 \/ highs = {} \/ lows = {}
      THEN [NoStructure EXCEPT !.highs = highs, !.lows = lows]
      ELSE [highs |-> highs, lows |-> lows, breaks |-> breaks, failed |-> failed,
            latest |-> latest, bias |-> Bias(prior, latest)]

-----------------------------------------------------------------------------
(* SupplyDemandEngine.  A zone is where candles with small bodies stood      *)
(* before price left: below it demand (1), above it supply (-1).             *)
IsBase(cs, b, e) ==
  \A i \in b .. e : Spread(cs[i]) > 0 /\ Unit * BodySize(cs[i]) <= BaseBody * Spread(cs[i])

(* _detect_zones: price arrives, rests, and departs by enough of the ATR.    *)
Arrival(cs, b) == cs[b - 1].c - cs[b - ImpulseWindow].o
Departure(cs, e) == cs[e + ImpulseWindow].c - cs[e + 1].o

Leaves(cs, e) == Size(Departure(cs, e)) * AtrWindow * Unit >= MinimumImpulse * RangeSum(cs)

Strength(cs, e, length) ==
  LET move == 100 * Size(Departure(cs, e)) * AtrWindow IN
    CASE move >= 250 * RangeSum(cs) /\ length <= 2 -> 3
      [] move >= 175 * RangeSum(cs) -> 2
      [] OTHER -> 1

(* On side d of a price, the further end is the one away from it.            *)
ZoneAt(cs, b, e) ==
  LET d == IF Departure(cs, e) > 0 THEN 1 ELSE -1 IN
    [side |-> d, base |-> b, left |-> e + 1, strength |-> Strength(cs, e, e - b + 1),
     proximal |-> d * Max({BodyTop(cs[i], d) : i \in b .. e}),
     distal |-> Edge(cs[CHOOSE i \in b .. e : \A j \in b .. e :
                          Reach(cs[i], -d) >= Reach(cs[j], -d)], -d)]

Detected(cs) ==
  {ZoneAt(cs, p[1], p[2]) : p \in
     {q \in (ImpulseWindow + 1 .. Len(cs) - ImpulseWindow - 1) \X (1 .. Len(cs) - ImpulseWindow) :
        /\ q[2] \in q[1] .. q[1] + BaseMaximum - 1 /\ IsBase(cs, q[1], q[2])
        /\ Leaves(cs, q[2]) /\ Arrival(cs, q[1]) # 0 /\ Departure(cs, q[2]) # 0}}

Lower(z) == Min({z.proximal, z.distal})
Upper(z) == Max({z.proximal, z.distal})

Touches(c, z) ==
  /\ Unit * c.l <= Moved(Upper(z), 1, TouchTolerance)
  /\ Unit * c.h >= Unit * Lower(z) - Upper(z) * TouchTolerance
ClosesThrough(c, z) == Unit * z.side * c.c < Moved(z.distal, z.side, -ZoneTolerance)

\* Mutant: only the newest candle can invalidate a zone.
StandsNow(cs, z) == Len(cs) = z.left \/ ~ClosesThrough(cs[Len(cs)], z)

(* _evaluate_zone: by the candles after the first that departed.             *)
Stands(cs, z) == \A i \in z.left + 1 .. Len(cs) : ~ClosesThrough(cs[i], z)

Confluent(z) ==
  \E p \in Pools :
    /\ p.side = -z.side
    /\ \/ p.price \in Lower(z) .. Upper(z)
       \/ 1000 * Size(2 * p.price - Lower(z) - Upper(z)) <= 3 * (Lower(z) + Upper(z))

(* Touches make a zone weaker, confluence makes it stronger.                 *)
Evaluated(cs, z) ==
  LET touches == Cardinality({i \in z.left + 1 .. Len(cs) : Touches(cs[i], z)})
      score == z.strength + (IF Confluent(z) THEN 1 ELSE 0) - Min({touches, 2})
  IN  [z EXCEPT !.strength = Max({1, Min({3, score})})]

(* _merge_overlapping, in the order of side, lower bound and base.           *)
Sooner(y, z) ==
  \/ y.side > z.side
  \/ y.side = z.side /\ Lower(y) < Lower(z)
  \/ y.side = z.side /\ Lower(y) = Lower(z) /\ y.base < z.base
  \/ y.side = z.side /\ Lower(y) = Lower(z) /\ y.base = z.base /\ y.left < z.left

\* Mutant: zones are merged in the order of their bases.
SoonerBase(y, z) == y.base < z.base \/ (y.base = z.base /\ y.left < z.left)

Before(y, z) == Sooner(y, z)

Overlap(y, z) == y.side = z.side /\ Max({Lower(y), Lower(z)}) <= Min({Upper(y), Upper(z)})

Joined(y, z) ==
  LET kept == IF y.strength >= z.strength THEN y ELSE z
      low == Min({Lower(y), Lower(z)})  high == Max({Upper(y), Upper(z)})
  IN  [kept EXCEPT !.proximal = IF y.side = 1 THEN high ELSE low,
                   !.distal = IF y.side = 1 THEN low ELSE high]

RECURSIVE Merged(_, _)
Merged(done, rest) ==
  IF rest = {} THEN done
  ELSE LET z == CHOOSE x \in rest : \A o \in rest \ {x} : Before(x, o)
           over == {y \in done : Overlap(y, z)}
           y == CHOOSE x \in over : \A o \in over \ {x} : Lower(x) < Lower(o)
       IN  Merged(IF over = {} THEN done \cup {z} ELSE (done \ {y}) \cup {Joined(y, z)},
                  rest \ {z})

(* Demand at or below the price, supply at or above it.                      *)
InPlace(z, price) == z.side * (IF z.side = 1 THEN Lower(z) ELSE Upper(z)) <= z.side * price

Zones(cs) ==
  LET standing == {Evaluated(cs, z) : z \in {x \in Detected(cs) : Stands(cs, x)}} IN
    {z \in Merged({}, standing) : InPlace(z, cs[Len(cs)].c)}

-----------------------------------------------------------------------------
(* FibonacciLiquidityEngine.  The legs between confirmed swings in the       *)
(* direction of the bias; scores are compared exactly, where the code rounds *)
(* them, and without what is the same for every leg.                         *)
Direction(bias) == CASE bias = "up" -> 1 [] bias = "down" -> -1 [] OTHER -> 0

LegSize(cs, d, leg) == d * (Edge(cs[leg.end], d) - Edge(cs[leg.start], -d))

Legs(cs, d, starts, ends) ==
  LET recent == Len(cs) - AnchorAge + 1 IN
    {leg \in [start : starts, end : ends] :
       /\ leg.start >= recent /\ leg.end > leg.start
       /\ LegSize(cs, d, leg) > 0
       /\ Unit * AtrWindow * LegSize(cs, d, leg) >= AnchorRange * RangeSum(cs)}

(* _evaluate_anchor: long, recent, and over more than two candles.           *)
Worth(cs, d, leg) ==
  LET age == Len(cs) - leg.end  total == RangeSum(cs) IN
    Min({7 * total, 28 * LegSize(cs, d, leg)}) * 1000
      + 25 * Max({0, AnchorAge - age}) * total
      + (IF leg.end - leg.start >= 3 THEN 1000 * total ELSE 0)

(* The first of the best legs is the primary anchor.                         *)
Preferred(cs, d, a, b) ==
  \/ Worth(cs, d, a) > Worth(cs, d, b)
  \/ /\ Worth(cs, d, a) = Worth(cs, d, b)
     /\ a.start < b.start \/ (a.start = b.start /\ a.end < b.end)

NoAnchor == [side |-> 0]

Anchor(cs, structure) ==
  LET d == Direction(structure.bias)
      legs == IF d = 1 THEN Legs(cs, d, structure.lows, structure.highs)
              ELSE Legs(cs, d, structure.highs, structure.lows)
  IN  IF d = 0 \/ Len(cs) < AtrWindow + 1 \/ legs = {} THEN NoAnchor
      ELSE LET best == CHOOSE a \in legs : \A b \in legs \ {a} : Preferred(cs, d, a, b)
           IN  [side |-> d, start |-> best.start, end |-> best.end]

(* The prices, in thousandths of a tick, that a leg retraces to, and the     *)
(* three zones between them.                                                 *)
Retraced(cs, a, ratio) == 1000 * Edge(cs[a.end], a.side) - a.side * ratio * LegSize(cs, a.side, a)
RetracementZones == {<<500, 500>>, <<618, 786>>, <<786, 886>>}

(* The zones that the price is in, and those that rest on a demand or supply *)
(* zone on the side of the leg.                                              *)
Between(cs, a, z, price) ==
  /\ a.side * 1000 * price <= a.side * Retraced(cs, a, z[1])
  /\ a.side * 1000 * price >= a.side * Retraced(cs, a, z[2])
Active(cs, a) ==
  IF a = NoAnchor THEN {} ELSE {z \in RetracementZones : Between(cs, a, z, cs[Len(cs)].c)}
Resting(cs, a, zones) ==
  IF a = NoAnchor THEN {}
  ELSE {z \in RetracementZones : \E y \in zones :
          /\ y.side = a.side
          /\ 1000 * Max({a.side * y.proximal, a.side * y.distal}) >= a.side * Retraced(cs, a, z[2])
          /\ 1000 * Min({a.side * y.proximal, a.side * y.distal}) <= a.side * Retraced(cs, a, z[1])}

-----------------------------------------------------------------------------
Assessed(cs) ==
  LET sweeps == [p \in Pools |-> BestSweep(cs, p)]
      structure == Structure(cs)
      zones == Zones(cs)
      anchor == Anchor(cs, structure)
  IN  [sweeps |-> sweeps, reclaims |-> Reclaims(cs, sweeps), structure |-> structure,
       zones |-> zones, anchor |-> anchor, active |-> Active(cs, anchor),
       resting |-> Resting(cs, anchor, zones)]

(* A candle opens where the last one closed.                                 *)
StartPrice == 1000
Arrived(cs, kind) ==
  LET open == IF cs = <<>> THEN StartPrice ELSE cs[Len(cs)].c  shape == Shapes[kind] IN
    Append(cs, [o |-> open, h |-> open + shape.h, l |-> open - shape.l, c |-> open + shape.c])

EvidenceInit ==
  \E history \in Histories :
    /\ candles = FoldLeft(Arrived, <<>>, history)
    /\ evidence = Assessed(candles)

NextCandle(kind) ==
  /\ \E history \in Histories : Len(candles) < Len(history) + MaxArrivals
  /\ candles' = Arrived(candles, kind)
  /\ evidence' = Assessed(candles')

EvidenceNext == \E kind \in DOMAIN Shapes : NextCandle(kind)

-----------------------------------------------------------------------------
EvidenceTypeOK ==
  /\ \A i \in 1 .. Len(candles) :
       LET c == candles[i] IN 0 < c.l /\ c.l <= c.o /\ c.l <= c.c /\ c.o <= c.h /\ c.c <= c.h
  /\ evidence.structure.bias \in {"up", "down", "neutral", "conflicted", "unknown"}
  /\ DOMAIN evidence.reclaims \subseteq Pools
  /\ evidence.anchor.side \in {-1, 0, 1}

(* A leg that orders may be placed on goes with the last confirmed break of  *)
(* structure, and price has not closed back within the level of that break   *)
(* in the candles that could make it a failed one.                           *)
HonestAnchor ==
  LET s == evidence.structure  b == s.latest IN
    (evidence.anchor # NoAnchor /\ b # NoEvent) =>
      /\ evidence.anchor.side = b.side
      /\ \A i \in b.at + 1 .. Min({Len(candles), b.at + FailedWindow}) :
           b.side * candles[i].c >= b.side * b.level

(* Zones of one side do not overlap, so a price is in at most one of them.   *)
ZonesDisjoint ==
  \A y \in evidence.zones, z \in evidence.zones : y # z => ~Overlap(y, z)

(* No candle has closed through a zone since price left it, and this holds   *)
(* of two zones that were merged into one as well.                           *)
ZonesUnbroken ==
  \A z \in evidence.zones, i \in 1 .. Len(candles) :
    i > z.left => ~ClosesThrough(candles[i], z)

EvidenceSound == HonestAnchor /\ ZonesDisjoint /\ ZonesUnbroken

(* A swing that was confirmed is never taken back by a later candle.         *)
ConfirmedSwingsStay ==
  /\ evidence.structure.highs \subseteq evidence'.structure.highs
  /\ evidence.structure.lows \subseteq evidence'.structure.lows

(* A break of the last swings that was confirmed stays confirmed for as long *)
(* as they are the last ones, whatever the candles after it do.              *)
BreaksStay ==
  LET Kept(s) == {<<b.side, b.level, b.at>> : b \in {x \in s.breaks : x.confirmed}}
      s == evidence.structure  t == evidence'.structure
  IN  (s.highs = t.highs /\ s.lows = t.lows) => Kept(s) \subseteq Kept(t)

(* A sweep that was confirmed is not replaced by a weaker one as long as its *)
(* candle is looked at.                                                      *)
SweepsHold ==
  \A p \in Pools :
    LET s == evidence.sweeps[p] IN
      (s.rank = 3 /\ s.at > Len(candles') - Lookback) => evidence'.sweeps[p].rank = 3

(* The reclaim of a sweep is settled once its candles have all arrived, and  *)
(* one that failed because the level did not hold never comes back.          *)
ReclaimsSettle ==
  \A p \in DOMAIN evidence.reclaims \cap DOMAIN evidence'.reclaims :
    LET r == evidence.reclaims[p]  s == evidence.sweeps[p] IN
      (evidence'.sweeps[p].at = s.at
         /\ (Len(candles) >= s.at + ReclaimCandles \/ (r.at # 0 /\ ~r.held)))
        => evidence'.reclaims[p] = r

EvidenceSteps ==
  [][ConfirmedSwingsStay /\ BreaksStay /\ SweepsHold /\ ReclaimsSettle]_evidenceVars
=============================================================================
