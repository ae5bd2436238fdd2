----------------------------- MODULE Container ------------------------------
(***************************************************************************)
(* The dependency injection container (dependency_injection/container.py). *)
(* Every method is one section under an RLock, except register_instance,   *)
(* which registers in one section and stores its instance in another, and  *)
(* a scope, which is open between two.  A resolve builds its dependencies  *)
(* inside its own section; here they need nothing themselves.  An instance *)
(* is known by the registration whose factory built it.                    *)
(***************************************************************************)
EXTENDS Integers, FiniteSets

CONSTANTS
  Services,          \* dependency keys
  Uses,              \* the dependencies each key is registered with
  Threads,
  MaxRegistrations   \* bound

ASSUME ContainerAssumption ==
  /\ Uses \in [Services -> SUBSET Services]
  /\ \A s \in Services : \A d \in Uses[s] : Uses[d] = {}
  /\ MaxRegistrations \in Nat
  /\ "none" \notin Services

VARIABLES
  registered,  \* _registrations: lifetime and number of each key
  singletons,  \* _singletons: the registration that built it, 0 for none
  scope,       \* each thread's active scope and its instances
  storing,     \* the instance a register_instance has still to store
  numbers,     \* history: registrations so far
  disposed,    \* history: singletons and scoped instances disposed, by registration
  overtaken    \* history: keys changed between the halves of a register_instance

containerVars == <<registered, singletons, scope, storing, numbers, disposed, overtaken>>

Lifetimes == {"singleton", "scoped", "transient"}
Registrations == 0..MaxRegistrations
NoRegistration == [lifetime |-> "none", number |-> 0]
NoScope == [open |-> FALSE, instances |-> [s \in Services |-> 0]]
NoStore == [key |-> "none", number |-> 0]

ContainerTypeOK ==
  /\ registered \in [Services -> [lifetime : Lifetimes \cup {"none"}, number : Registrations]]
  /\ singletons \in [Services -> Registrations]
  /\ scope \in [Threads -> [open : BOOLEAN, instances : [Services -> Registrations]]]
  /\ storing \in [Threads -> [key : Services \cup {"none"}, number : Registrations]]
  /\ numbers \in Registrations
  /\ disposed \subseteq Registrations
  /\ overtaken \subseteq Services

ContainerInit ==
  /\ registered = [s \in Services |-> NoRegistration]
  /\ singletons = [s \in Services |-> 0]
  /\ scope = [t \in Threads |-> NoScope]
  /\ storing = [t \in Threads |-> NoStore]
  /\ numbers = 0
  /\ disposed = {}
  /\ overtaken = {}

Known(s) == registered[s].lifetime # "none"
Storing(keys) == {s \in keys : \E t \in Threads : storing[t].key = s}

(* register: a replacement pops the singleton and disposes it.             *)
Registers(s, lifetime, replace) ==
  /\ numbers < MaxRegistrations
  /\ Known(s) => replace
  /\ numbers' = numbers + 1
  /\ registered' = [registered EXCEPT ![s] = [lifetime |-> lifetime, number |-> numbers + 1]]
  /\ singletons' = IF replace THEN [singletons EXCEPT ![s] = 0] ELSE singletons
  /\ disposed' = IF replace THEN (disposed \cup {singletons[s]}) \ {0} ELSE disposed
  /\ overtaken' = overtaken \cup Storing({s})
  /\ UNCHANGED scope

RegisterService(s, lifetime, replace) ==
  Registers(s, lifetime, replace) /\ UNCHANGED storing

RegisterInstance(t, s, replace) ==
  /\ storing[t] = NoStore
  /\ Registers(s, "singleton", replace)
  /\ storing' = [storing EXCEPT ![t] = [key |-> s, number |-> numbers']]

StoreInstance(t) ==
  /\ storing[t] # NoStore
  /\ singletons' = [singletons EXCEPT ![storing[t].key] = storing[t].number]
  /\ storing' = [storing EXCEPT ![t] = NoStore]
  /\ UNCHANGED <<registered, scope, numbers, disposed, overtaken>>

(* The keys built: none below an instance that exists already.             *)
Exists(t, s) ==
  CASE registered[s].lifetime = "singleton" -> singletons[s] # 0
    [] registered[s].lifetime = "scoped" -> scope[t].instances[s] # 0
    [] OTHER -> FALSE
Builds(t, s) == IF Exists(t, s) THEN {} ELSE {d \in {s} \cup Uses[s] : ~Exists(t, d)}

Kept(cache, made, lifetime) ==
  [d \in Services |->
     IF d \in made /\ registered[d].lifetime = lifetime THEN registered[d].number ELSE cache[d]]

MayUse(t, s) == Known(s) /\ (registered[s].lifetime = "scoped" => scope[t].open)

(* A factory may raise: dependencies built before it stay, the key itself  *)
(* does not.                                                               *)
Resolve(t, s, made) ==
  /\ MayUse(t, s)
  /\ IF \A d \in Builds(t, s) : MayUse(t, d)
     THEN made = Builds(t, s) \/ made \in SUBSET (Builds(t, s) \ {s})
     ELSE made \in SUBSET {d \in Builds(t, s) \ {s} : MayUse(t, d)}
  /\ singletons' = Kept(singletons, made, "singleton")
  /\ scope' = [scope EXCEPT ![t].instances = Kept(@, made, "scoped")]
  /\ UNCHANGED <<registered, storing, numbers, disposed, overtaken>>

OpenScope(t) ==
  /\ ~scope[t].open
  /\ scope' = [scope EXCEPT ![t].open = TRUE]
  /\ UNCHANGED <<registered, singletons, storing, numbers, disposed, overtaken>>

InstancesOf(t) == {scope[t].instances[s] : s \in Services} \ {0}

CloseScope(t) ==
  /\ scope[t].open
  /\ scope' = [scope EXCEPT ![t] = NoScope]
  /\ disposed' = disposed \cup InstancesOf(t)
  /\ UNCHANGED <<registered, singletons, storing, numbers, overtaken>>

Unregister(s) ==
  /\ registered' = [registered EXCEPT ![s] = NoRegistration]
  /\ singletons' = [singletons EXCEPT ![s] = 0]
  /\ disposed' = (disposed \cup {singletons[s]}) \ {0}
  /\ overtaken' = overtaken \cup Storing({s})
  /\ UNCHANGED <<scope, storing, numbers>>

(* clear disposes the singletons and the calling thread's scope; the other *)
(* threads' scopes go on.                                                  *)
Clear(t) ==
  /\ registered' = [s \in Services |-> NoRegistration]
  /\ singletons' = [s \in Services |-> 0]
  /\ scope' = [scope EXCEPT ![t] = NoScope]
  /\ disposed' = (disposed \cup InstancesOf(t) \cup {singletons[s] : s \in Services}) \ {0}
  /\ overtaken' = overtaken \cup Storing(Services)
  /\ UNCHANGED <<storing, numbers>>

ContainerNext ==
  \/ \E s \in Services, replace \in BOOLEAN :
       \/ \E lifetime \in Lifetimes : RegisterService(s, lifetime, replace)
       \/ \E t \in Threads : RegisterInstance(t, s, replace)
  \/ \E s \in Services : Unregister(s) \/ \E t \in Threads, made \in SUBSET Services : Resolve(t, s, made)
  \/ \E t \in Threads : StoreInstance(t) \/ OpenScope(t) \/ CloseScope(t) \/ Clear(t)

(* A cached singleton was built by the key's current registration, unless  *)
(* the key changed between the two halves of a register_instance, which    *)
(* then stores the instance of a registration that is gone.                *)
SingletonIsCurrent ==
  \A s \in Services :
    singletons[s] # 0 /\ s \notin overtaken => singletons[s] = registered[s].number

(* No thread gets a disposed singleton from the cache: what is disposed    *)
(* has left it (register, unregister, clear).                              *)
NoDisposedSingleton ==
  \A s \in Services : s \notin overtaken => singletons[s] \notin disposed
=============================================================================
