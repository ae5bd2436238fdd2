-------------------------- MODULE HierarchyEvidence --------------------------
(* The evidence of one symbol, layer by layer (hierarchy/coordinator.py,     *)
(* evaluator.py and adapter.py): a tick fetches the timeframes that are due, *)
(* then evaluates them at once: macro, 4h regime, 1h strategy, 15m setup, 5m *)
(* trigger.  Each context's id holds its candle and its parent's id, so an   *)
(* id is the path of candles down to it.  Two jobs tick the same symbol with *)
(* one evaluator.  Candles and what an analysis finds in them are free.      *)
EXTENDS Naturals, Sequences, FiniteSets

CONSTANTS
  MaxBucket,          \* bound: macro refresh buckets
  MaxCandle           \* bound: candles of a timeframe

ASSUME EvidenceAssumption == MaxBucket \in Nat \ {0} /\ MaxCandle \in Nat \ {0}

Regime == 1
Strategy == 2
Setup == 3
Trigger == 4
Layers == Regime..Trigger   \* 4h, 1h, 15m and 5m; 1m only refines the entry
Parents == Regime..Setup

VARIABLES
  bucket,     \* the macro bucket of the clock
  macro,      \* the bucket of the macro context, 0 for none
  context,    \* the evaluator's context of each layer
  kept,       \* the evaluator's last snapshot of each layer: its final candle, or 0
  bundle,     \* the last evaluation made an evidence bundle of the contexts
  blind       \* history: a known timeframe came without a final candle, or ticks overlapped

evidenceVars == <<bucket, macro, context, kept, bundle, blind>>

(* What a layer concluded: a direction, and the stage of a setup.            *)
NoContext == [id |-> <<>>, direction |-> "neutral", stage |-> "none"]
Held(l) == context[l] # NoContext

EvidenceTypeOK ==
  /\ bucket \in 1..MaxBucket /\ macro \in 0..MaxBucket /\ kept \in [Layers -> 0..MaxCandle]
  /\ \A l \in Layers : /\ context[l].direction \in {"long", "short", "neutral"}
                       /\ context[l].stage \in {"none", "watching", "confirmed"}
                       /\ Held(l) => Len(context[l].id) = l + 1

EvidenceInit ==
  /\ bucket = 1 /\ macro = 0 /\ context = [l \in Layers |-> NoContext] /\ kept = [l \in Layers |-> 0]
  /\ bundle = FALSE /\ blind = FALSE

-----------------------------------------------------------------------------
(* collect_due: a boundary of a timeframe is one of every shorter timeframe, *)
(* one that had no final candle is retried, and 5m stays dormant until a     *)
(* setup is watched.                                                         *)
Watching == context[Setup].stage \in {"watching", "confirmed"}
Due(l, watching) ==
  ({k \in Layers : k >= l} \cup {k \in Layers : kept[k] = 0})
     \cap (IF watching THEN Layers ELSE Parents)

(* _collect_timeframe: the newest candle seen twice unchanged; it may lag,   *)
(* be revised, or there may be none.                                         *)
FetchedCandles(took) ==
  {snaps \in [Layers -> 0..MaxCandle] : \A l \in Layers \ took : snaps[l] = kept[l]}

-----------------------------------------------------------------------------
(* evaluate: one synchronous pass over the layers. *)

(* A context that replaces another one takes the layers below with it.       *)
\* Mutant: only the next layer goes with its parent.
PlacedOver(contexts, l, new) ==
  [k \in Layers |-> IF k = l THEN new
     ELSE IF k = l + 1 /\ contexts[l].id # new.id THEN NoContext ELSE contexts[k]]

Placed(contexts, l, new) ==
  [k \in Layers |-> IF k = l THEN new
     ELSE IF k > l /\ contexts[l].id # new.id THEN NoContext ELSE contexts[k]]

(* _expire_state: an expired context takes the layers below with it.         *)
Expired(contexts, l) == [k \in Layers |-> IF k >= l THEN NoContext ELSE contexts[k]]

\* Mutant: the id leaves the parent's out.
UnderNobody(contexts, l, candle, direction, stage) ==
  Placed(contexts, l, [id |-> <<candle>>, direction |-> direction, stage |-> stage])

Under(contexts, l, candle, direction, stage) ==
  Placed(contexts, l, [id |-> Append(contexts[l - 1].id, candle), direction |-> direction,
                       stage |-> stage])

(* A layer is looked at again when its timeframe was fetched or its parent   *)
(* was replaced, if there are a parent and a final candle.                   *)
Looks(l, took, before, contexts, snaps) ==
  /\ l \in took \/ contexts[l - 1].id # before[l - 1].id
  /\ contexts[l - 1] # NoContext /\ snaps[l] > 0

(* The advisory regime, again when the macro context was replaced.           *)
WithRegime(contexts, m, took, snaps) ==
  IF (m # macro \/ Regime \in took) /\ snaps[Regime] > 0
  THEN Placed(contexts, Regime, [NoContext EXCEPT !.id = <<m, snaps[Regime]>>]) ELSE contexts

(* The 1h structure has the direction.                                       *)
WithStrategy(before, contexts, took, snaps) ==
  IF Looks(Strategy, took, before, contexts, snaps)
  THEN {Under(contexts, Strategy, snaps[Strategy], direction, "none") :
          direction \in {"long", "short", "neutral"}}
  ELSE {contexts}

(* An aligned setup takes it over; without a direction there is no setup.    *)
WithSetup(before, contexts, took, snaps) ==
  IF ~Looks(Setup, took, before, contexts, snaps) THEN {contexts}
  ELSE {Under(contexts, Setup, snaps[Setup], contexts[Strategy].direction, stage) :
          stage \in IF contexts[Strategy].direction = "neutral" THEN {"none"}
                    ELSE {"none", "watching", "confirmed"}}

(* The trigger confirms or rejects a confirmed setup on a fresh 5m candle.   *)
Judges(contexts, took, snaps) ==
  Trigger \in took /\ contexts[Setup].stage = "confirmed" /\ snaps[Trigger] > 0
WithTrigger(contexts, took, snaps) ==
  IF ~Judges(contexts, took, snaps) THEN contexts
  ELSE Under(contexts, Trigger, snaps[Trigger], contexts[Setup].direction, "none")

\* The parent's id and the layer's own candle are the id.
Rests(child, parent) == \E candle \in 1..MaxCandle : child.id = Append(parent.id, candle)

(* EvidenceBundle and the adapter: the whole chain hangs together.           *)
Linked(m, contexts) ==
  /\ contexts[Regime].id # <<>> /\ contexts[Regime].id[1] = m
  /\ \A l \in Strategy..Trigger : Rests(contexts[l], contexts[l - 1])

(* A tick that fetched took at bucket m.  A confirmed trigger gives a bundle, *)
(* if the 1m entry and the risk allow it (then HierarchyPublication).        *)
Evaluate(m, took, late) ==
  \E snaps \in FetchedCandles(took), cut \in {l \in Layers : Held(l)} \cup {Trigger + 1} :
    LET base == Expired(context, cut)
        regime == WithRegime(base, m, took, snaps) IN
      \E strategy \in WithStrategy(base, regime, took, snaps) :
      \E setup \in WithSetup(regime, strategy, took, snaps) :
        LET all == WithTrigger(setup, took, snaps) IN
          /\ macro' = m /\ context' = all /\ kept' = snaps
          /\ bundle' \in {FALSE, (Judges(setup, took, snaps) /\ Linked(m, all))}
          /\ blind' = (blind \/ late \/ \E l \in took : snaps[l] = 0 /\ kept[l] > 0)
          /\ UNCHANGED bucket

(* A tick alone.  Its awaits come before its evaluation, and one that fails  *)
(* in them leaves no trace, so the evaluation is the tick.                   *)
Tick == \E l \in Regime..(Trigger + 1) :
  Due(l, Watching) # {} /\ Evaluate(bucket, Due(l, Watching), FALSE)

(* A tick that overlapped others: its time, and what it saw due, are of its  *)
(* start.  Bound: ticks overlap once, before anything else blinds them.      *)
LateTick ==
  /\ ~blind /\ macro # 0
  /\ \E m \in 1..bucket, took \in SUBSET Layers \ {{}} : Evaluate(m, took, TRUE)

MacroRefresh ==
  /\ bucket < MaxBucket /\ bucket' = bucket + 1
  /\ UNCHANGED <<macro, context, kept, bundle, blind>>

EvidenceNext == Tick \/ LateTick \/ MacroRefresh

EvidenceSpec == EvidenceInit /\ [][EvidenceNext]_evidenceVars

-----------------------------------------------------------------------------
\* Each layer the evaluator holds rests on the one above it that it holds: a
\* layer whose parent was replaced or expired went with it, in whatever order
\* timeframes come due, fail or are revised and ticks overlap.
EvidenceChains ==
  \A l \in Strategy..Trigger : Held(l) => Held(l - 1) /\ Rests(context[l], context[l - 1])

\* H1 structure remains the directional authority (shared-timeframe-policy.md):
\* the setup points where the strategy above it points, and a bundle is of one
\* direction from strategy to trigger.  A strategy that turned under the same id
\* keeps its setup: the setup must be looked at with it, as it is unless 15m has
\* lost all its final candles or the ticks of two jobs overlap.
OneDirection ==
  ~blind =>
    /\ Held(Setup) /\ context[Setup].direction # "neutral"
         => context[Setup].direction = context[Strategy].direction
    /\ bundle =>
         /\ context[Strategy].direction # "neutral"
         /\ \A l \in {Setup, Trigger} : context[l].direction = context[Strategy].direction
=============================================================================
