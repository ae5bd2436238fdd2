------------------------------ MODULE EventBus ------------------------------
(***************************************************************************)
(* The in-process event bus (infrastructure/event_bus).  A publication asks*)
(* the store for its idempotency key, takes a sequence number, appends and *)
(* delivers to the handlers subscribed at that moment, all at once.  The   *)
(* store is a replaceable Protocol, so each of its calls is a step of its  *)
(* own and other tasks run in between.                                     *)
(***************************************************************************)
EXTENDS Integers, FiniteSets

CONSTANTS
  Keys,             \* idempotency keys; the event is what the key names
  Publishers,       \* tasks that call publish
  Handlers,         \* subscribers of the events' type
  BusAttempts,      \* max_attempts
  AtMostOnce,       \* delivery_mode is AT_MOST_ONCE
  MaxPublications   \* bound: no publication starts after so many numbers

ASSUME BusAssumption ==
  /\ BusAttempts \in Nat \ {0} /\ AtMostOnce \in BOOLEAN
  /\ MaxPublications \in Nat
  /\ "none" \notin Keys

VARIABLES
  stored,       \* envelopes of the store
  busSequence,  \* _sequence
  subscribed,   \* _handlers[event_type]
  publication,  \* each publisher's call of publish
  tally         \* history: attempts and successes per key and handler

busVars == <<stored, busSequence, subscribed, publication, tally>>

BusLimit == IF AtMostOnce THEN 1 ELSE BusAttempts

NoPublication ==
  [pc |-> "free", key |-> "none", number |-> 0, waits |-> {}, tries |-> [h \in Handlers |-> 0]]

BusTypeOK ==
  /\ stored \subseteq [key : Keys, number : Nat \ {0}]
  /\ busSequence \in Nat
  /\ subscribed \subseteq Handlers
  /\ publication \in [Publishers ->
       [pc : {"free", "contains", "duplicate", "number", "append", "deliver"},
        key : Keys \cup {"none"}, number : Nat,
        waits : SUBSET Handlers, tries : [Handlers -> 0..BusLimit]]]
  /\ tally \in [Keys -> [Handlers -> [tries : Nat, wins : Nat]]]

BusInit ==
  /\ stored = {}
  /\ busSequence = 0
  /\ subscribed = Handlers
  /\ publication = [p \in Publishers |-> NoPublication]
  /\ tally = [k \in Keys |-> [h \in Handlers |-> [tries |-> 0, wins |-> 0]]]

HasKey(k) == \E envelope \in stored : envelope.key = k

(* subscribe, unsubscribe: a delivery under way keeps its own snapshot.    *)
Subscribe(h) ==
  /\ subscribed' = IF h \in subscribed THEN subscribed \ {h} ELSE subscribed \cup {h}
  /\ UNCHANGED <<stored, busSequence, publication, tally>>

Publish(p, k) ==
  /\ publication[p].pc = "free" /\ busSequence < MaxPublications
  /\ publication' = [publication EXCEPT ![p].pc = "contains", ![p].key = k]
  /\ UNCHANGED <<stored, busSequence, subscribed, tally>>

ContainsKey(p) ==
  /\ publication[p].pc = "contains"
  /\ publication' = [publication EXCEPT ![p].pc =
       IF HasKey(publication[p].key) THEN "duplicate" ELSE "number"]
  /\ UNCHANGED <<stored, busSequence, subscribed, tally>>

(* A duplicate takes a number too, so the store's numbers have gaps.       *)
NextSequence(p) ==
  /\ busSequence' = busSequence + 1
  /\ \/ /\ publication[p].pc = "duplicate"
        /\ publication' = [publication EXCEPT ![p] = NoPublication]
     \/ /\ publication[p].pc = "number"
        /\ publication' = [publication EXCEPT ![p].pc = "append", ![p].number = busSequence']
  /\ UNCHANGED <<stored, subscribed, tally>>

(* The store refuses a key it has met since the first question.            *)
Stores(k) == ~HasKey(k)

AppendEnvelope(p) ==
  LET call == publication[p] IN
  /\ call.pc = "append"
  /\ IF Stores(call.key)
     THEN /\ stored' = stored \cup {[key |-> call.key, number |-> call.number]}
          /\ publication' = [publication EXCEPT ![p].pc = "deliver", ![p].waits = subscribed]
     ELSE /\ publication' = [publication EXCEPT ![p] = NoPublication]
          /\ UNCHANGED stored
  /\ UNCHANGED <<busSequence, subscribed, tally>>

(* One attempt of a handler; the others' attempts run beside it.           *)
Attempt(p, h, succeeds) ==
  LET call == publication[p]
      tries == call.tries[h] + 1
      ends == succeeds \/ tries = BusLimit IN
  /\ call.pc = "deliver" /\ h \in call.waits
  /\ publication' = [publication EXCEPT
       ![p].tries[h] = tries,
       ![p].waits = IF ends THEN @ \ {h} ELSE @]
  /\ tally' = [tally EXCEPT
       ![call.key][h].tries = @ + 1,
       ![call.key][h].wins = IF succeeds THEN @ + 1 ELSE @]
  /\ UNCHANGED <<stored, busSequence, subscribed>>

PublishReturns(p) ==
  /\ publication[p].pc = "deliver" /\ publication[p].waits = {}
  /\ publication' = [publication EXCEPT ![p] = NoPublication]
  /\ UNCHANGED <<stored, busSequence, subscribed, tally>>

(* The publisher's task is cancelled at an await.  An envelope already     *)
(* stored stays, and its key refuses every later publication.              *)
PublishCancelled(p) ==
  /\ publication[p].pc # "free"
  /\ publication' = [publication EXCEPT ![p] = NoPublication]
  /\ UNCHANGED <<stored, busSequence, subscribed, tally>>

PublishStep(p) ==
  \/ ContainsKey(p) \/ NextSequence(p) \/ AppendEnvelope(p) \/ PublishReturns(p)
  \/ \E h \in Handlers, succeeds \in BOOLEAN : Attempt(p, h, succeeds)

BusNext ==
  \/ \E h \in Handlers : Subscribe(h)
  \/ \E p \in Publishers :
       \/ \E k \in Keys : Publish(p, k)
       \/ PublishStep(p)
       \/ PublishCancelled(p)

(* The event loop goes on with every publication.                          *)
BusFairness == \A p \in Publishers : WF_busVars(PublishStep(p))

(* Publications of one key that overlap, from the first question on, give  *)
(* a handler one success and BusLimit attempts at most (publish,           *)
(* InMemoryEventStore.append).                                             *)
HandledOnce ==
  \A k \in Keys, h \in Handlers :
    tally[k][h].wins <= 1 /\ tally[k][h].tries <= BusLimit

(* Stored envelopes have distinct keys and distinct numbers, whatever      *)
(* number a publication took before another one appended.                  *)
NumbersAreUnique ==
  \A e, f \in stored : e.key = f.key \/ e.number = f.number => e = f

(* A handler a publication owes its event has no outcome yet only while    *)
(* that publication runs: it is called until it succeeds, or BusLimit      *)
(* times, or the publisher is cancelled (_deliver).                        *)
OwedIsServed ==
  \A p \in Publishers, h \in Handlers :
    (publication[p].pc = "deliver" /\ h \in publication[p].waits)
      ~> (publication[p].pc # "deliver" \/ h \notin publication[p].waits)
=============================================================================
