-------------------------- MODULE MCInfrastructure --------------------------
(* Instances of the infrastructure services for TLC.  They share no state,   *)
(* so a behaviour is a behaviour of one of them: part says which.            *)
EXTENDS EventBus, StateManager, PluginManager, FeatureFlags, Configuration,
        Container, AuditLog, Security, Observability, DurableStores, EngineGates,
        AnalysisPipeline, CandleEvidence, LiveServer, OperatorConsole,
        ProcessLifecycle, TLC

CONSTANTS
  Parts,   \* the services a run checks
  p1, p2, boss, hand, safety, plain, u1, u2, top, leaf, alice, rally, drop, doji, hammer, star

PluginNeeds == (p1 :> {} @@ p2 :> {p1})
AdminCalls == (boss :> {"start_all", "stop_all"} @@ hand :> {"start", "stop"})
FewCalls == (boss :> {"start_all", "stop_all"} @@ hand :> {"stop"})
SafetyValues == (safety :> FALSE)
Buckets == (safety :> (u1 :> 10 @@ u2 :> 60) @@ plain :> (u1 :> 0 @@ u2 :> 60))
ServiceUses == (top :> {leaf} @@ leaf :> {})
SignedRequests ==
  {[actor |-> alice, nonce |-> 1, time |-> 1, key |-> 1],
   [actor |-> alice, nonce |-> 1, time |-> 2, key |-> 1],
   [actor |-> alice, nonce |-> 2, time |-> 2, key |-> 2]}

SignedTicks == (1 :> 1 @@ 2 :> 2)
DayShares == (top :> 7 @@ leaf :> 3)
AnalysisCosts == (top :> 4 @@ leaf :> 2)
DayCycles == (top :> 2 @@ leaf :> 2)

(* Portfolios, the use of their limits in thousandths, and open positions.   *)
Portfolio(crypto, symbol, correlated, risk, positions, symbolPositions) ==
  [crypto |-> crypto, symbol |-> symbol, correlated |-> correlated, risk |-> risk,
   positions |-> positions, symbolPositions |-> symbolPositions]
Books == {Portfolio(0, 0, 0, 0, 0, 0), Portfolio(450, 100, 290, 590, 7, 1)}
Position(symbol, group, notional, risk, leverage, side, illiquid, expires) ==
  [symbol |-> symbol, group |-> group, notional |-> notional, risk |-> risk,
   leverage |-> leverage, side |-> side, illiquid |-> illiquid, expires |-> expires]
OpenPositions ==
  {Position("btc", "major", 1500, 200, 2, "long", FALSE, 0),
   Position("eth", "major", 2100, 300, 2, "short", FALSE, 600),
   Position("alt", "small", 900, 150, 5, "long", TRUE, 9000)}

(* The distances of a candle's close, high and low from its open, and two    *)
(* histories: a rally that is sold into, and a drop that turns.              *)
Candle(close, high, low) == [c |-> close, h |-> high, l |-> low]
CandleShapes ==
  (rally :> Candle(7, 8, 1) @@ drop :> Candle(-7, 1, 8) @@ doji :> Candle(0, 3, 3)
     @@ hammer :> Candle(1, 1, 9) @@ star :> Candle(-1, 9, 1))
CandleHistories ==
  {<<doji, rally, rally, star, drop, doji, drop, hammer, rally, doji, rally, rally, star,
     drop, doji, doji>>,
   <<drop, drop, doji, doji, rally, rally, rally, star, drop, drop, doji, drop, drop,
     hammer, rally>>}
LiquidityPools == {[side |-> 1, price |-> 1012], [side |-> -1, price |-> 990]}

VARIABLE part

serviceVars == <<busVars, stateVars, pluginVars, flagVars, configVars, containerVars,
                 auditVars, securityVars, obsVars>>
storeVars == <<auditStreamVars, eventStoreVars, writeThroughVars>>
analysisVars == <<gateVars, pipelineVars, evidenceVars>>
processVars == <<liveVars, operatorVars, lifecycleVars>>
mcVars == <<serviceVars, storeVars, analysisVars, processVars, part>>

MCInit ==
  /\ BusInit /\ StateInit /\ PluginInit /\ FlagInit /\ ConfigInit
  /\ ContainerInit /\ AuditInit /\ SecurityInit /\ ObsInit
  /\ StreamInit /\ EventStoreInit /\ WriteThroughInit /\ GatesInit /\ PipelineInit
  /\ LiveInit /\ ConsoleInit /\ LifecycleInit
  /\ part \in Parts
  /\ IF part = "evidence" THEN EvidenceInit
     ELSE candles = <<>> /\ evidence = Assessed(<<>>)

(* A step of one service leaves the others alone.                            *)
Only(p) == part = p /\ UNCHANGED part
KeepAfterState ==
  UNCHANGED <<pluginVars, flagVars, configVars, containerVars, auditVars, securityVars, obsVars>>
KeepFirst == UNCHANGED <<busVars, stateVars, pluginVars, flagVars, configVars>>
KeepStores == UNCHANGED <<storeVars, analysisVars, processVars>>

Bus == Only("bus") /\ UNCHANGED stateVars /\ KeepAfterState /\ KeepStores
State == Only("state") /\ UNCHANGED busVars /\ KeepAfterState /\ KeepStores
PluginsOnly ==
  /\ Only("plugins") /\ KeepStores
  /\ UNCHANGED <<busVars, stateVars, flagVars, configVars, containerVars, auditVars,
                 securityVars, obsVars>>
FlagsOnly ==
  /\ Only("flags") /\ KeepStores
  /\ UNCHANGED <<busVars, stateVars, pluginVars, configVars, containerVars, auditVars,
                 securityVars, obsVars>>
ConfigOnly ==
  /\ Only("configuration") /\ KeepStores
  /\ UNCHANGED <<busVars, stateVars, pluginVars, flagVars, containerVars, auditVars,
                 securityVars, obsVars>>
ContainerOnly ==
  /\ Only("container") /\ KeepFirst /\ KeepStores
  /\ UNCHANGED <<auditVars, securityVars, obsVars>>
AuditOnly ==
  /\ Only("audit") /\ KeepFirst /\ KeepStores
  /\ UNCHANGED <<containerVars, securityVars, obsVars>>
SecurityOnly ==
  /\ Only("security") /\ KeepFirst /\ KeepStores
  /\ UNCHANGED <<containerVars, auditVars, obsVars>>
ObsOnly ==
  /\ Only("observability") /\ KeepFirst /\ KeepStores
  /\ UNCHANGED <<containerVars, auditVars, securityVars>>
StreamOnly ==
  /\ Only("stream")
  /\ UNCHANGED <<serviceVars, eventStoreVars, writeThroughVars, analysisVars, processVars>>
EventStoreOnly ==
  /\ Only("event_store")
  /\ UNCHANGED <<serviceVars, auditStreamVars, writeThroughVars, analysisVars, processVars>>
WriteThroughOnly ==
  /\ Only("write_through")
  /\ UNCHANGED <<serviceVars, auditStreamVars, eventStoreVars, analysisVars, processVars>>
AnalysisOnly(p) == Only(p) /\ UNCHANGED <<serviceVars, storeVars, processVars>>
GatesOnly == AnalysisOnly("gates") /\ UNCHANGED <<pipelineVars, evidenceVars>>
PipelineOnly == AnalysisOnly("pipeline") /\ UNCHANGED <<gateVars, evidenceVars>>
EvidenceOnly == AnalysisOnly("evidence") /\ UNCHANGED <<gateVars, pipelineVars>>
ProcessOnly(p) == Only(p) /\ UNCHANGED <<serviceVars, storeVars, analysisVars>>
LiveOnly(p) == ProcessOnly(p) /\ UNCHANGED <<operatorVars, lifecycleVars>>
OperatorOnly(p) == ProcessOnly(p) /\ UNCHANGED <<liveVars, lifecycleVars>>
HostOnly(p) == ProcessOnly(p) /\ UNCHANGED <<liveVars, operatorVars>>

MCNext ==
  \/ Bus /\ BusNext
  \/ State /\ StateNext
  \/ PluginsOnly /\ PluginNext
  \/ FlagsOnly /\ FlagNext
  \/ ConfigOnly /\ ConfigNext
  \/ ContainerOnly /\ ContainerNext
  \/ AuditOnly /\ AuditNext
  \/ SecurityOnly /\ SecurityNext
  \/ ObsOnly /\ ObsNext
  \/ StreamOnly /\ StreamNext
  \/ EventStoreOnly /\ EventStoreNext
  \/ WriteThroughOnly /\ WriteThroughNext
  \/ GatesOnly /\ GatesNext
  \/ PipelineOnly /\ PipelineNext
  \/ EvidenceOnly /\ EvidenceNext
  \/ LiveOnly("accounts") /\ AccountsNext
  \/ LiveOnly("rates") /\ RatesNext
  \/ LiveOnly("records") /\ RecordsNext
  \/ LiveOnly("alerts") /\ AlertsNext
  \/ OperatorOnly("console") /\ ConsoleNext
  \/ OperatorOnly("requests") /\ RequestsNext
  \/ OperatorOnly("retention") /\ RewritesNext
  \/ OperatorOnly("chat") /\ ChatNext
  \/ HostOnly("host") /\ HostNext
  \/ HostOnly("board") /\ BoardNext
  \/ HostOnly("feed") /\ FeedNext
  \/ HostOnly("quota") /\ QuotaNext

(* A service whose part it is not has no call under way, so its fairness     *)
(* asks for nothing.                                                         *)
MCSpec == MCInit /\ [][MCNext]_mcVars /\ BusFairness /\ PluginFairness

(* Every service's state is well formed.                                     *)
ServicesTypeOK ==
  /\ BusTypeOK /\ StateTypeOK /\ PluginTypeOK /\ FlagTypeOK /\ ConfigTypeOK
  /\ ContainerTypeOK /\ SecurityTypeOK /\ ObsTypeOK /\ StreamTypeOK
  /\ PipelineTypeOK /\ EvidenceTypeOK /\ LiveTypeOK /\ ConsoleTypeOK /\ LifecycleTypeOK

(* What each service promises of its state, stated in its own module.        *)
ServicesSafe ==
  /\ HandledOnce /\ NumbersAreUnique      \* event bus
  /\ NoBlindWrite                         \* state manager
  /\ DependenciesStarted                  \* plugin manager
  /\ SafetyFlagsHold                      \* feature flags
  /\ FrozenIsSound /\ HighestLayerWins    \* configuration
  /\ SingletonIsCurrent /\ NoDisposedSingleton  \* container
  /\ EditsAreDetected                     \* audit repository
  /\ AcceptedOnce                         \* security manager
  /\ MetricsAgree /\ HealthIsRegistered   \* observability
  /\ SettledStays /\ RootedRestores       \* durable audit stream
  /\ ReplayIsSound /\ AssuredIsDurable    \* durable events, state and jobs
  /\ GatesSound                           \* engines of the analysis
  /\ PipelineSound                        \* analysis workflow
  /\ EvidenceSound                        \* evidence from the candles
  /\ LiveSound                            \* dashboard server
  /\ ConsoleSound                         \* control record, requests, messages
  /\ LifecycleSound                       \* processes, alerts, posts, quota

(* What no step of a service may do, stated in its own module.               *)
ServicesSteps ==
  /\ SequenceCounts /\ VersionsGrow       \* state manager
  /\ DisabledStays                        \* plugin manager
  /\ RolloutsGrow                         \* feature flags
  /\ ImmutableKept                        \* configuration
  /\ AcceptsCurrentKey                    \* security manager
  /\ FinalIsFinal                         \* analysis workflow
  /\ EvidenceSteps                        \* evidence from the candles
  /\ LedgerKeeps                          \* dashboard server

=============================================================================
