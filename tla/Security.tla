------------------------------ MODULE Security ------------------------------
(***************************************************************************)
(* The security manager (infrastructure/security/manager.py): identities   *)
(* and policies, and the verification of signed requests, which looks at   *)
(* nonce, key and actor in one section under the lock, checks the          *)
(* signature without it, and looks again in a second section before it     *)
(* keeps the nonce.                                                        *)
(***************************************************************************)
EXTENDS Integers, FiniteSets

CONSTANTS
  Actors,
  Requests,    \* signed requests: actor, nonce, time, key version
  Verifiers,   \* threads
  Skew,        \* maximum_clock_skew_seconds
  MaxTime,     \* bound of the clock
  MaxKeys      \* bound: keys registered for an actor

ASSUME SecurityAssumption ==
  /\ Requests \subseteq [actor : Actors, nonce : Nat, time : Nat, key : Nat \ {0}]
  /\ Skew \in Nat \ {0} /\ MaxTime \in Nat /\ MaxKeys \in Nat

VARIABLES
  clock,
  actors,      \* _actors: absent, enabled or disabled
  keyOf,       \* _verification_keys: the key version of each actor, 0 for none
  nonces,      \* _seen_nonces
  verifying,   \* each thread's verification: request, its now, the key it read
  accepted     \* history: each request's acceptances, at which clock

securityVars == <<clock, actors, keyOf, nonces, verifying, accepted>>

NoVerification == [pc |-> "free", request |-> CHOOSE r \in Requests : TRUE, now |-> 0, key |-> 0]

SecurityTypeOK ==
  /\ clock \in 0..MaxTime
  /\ actors \in [Actors -> {"absent", "enabled", "disabled"}]
  /\ keyOf \in [Actors -> 0..MaxKeys]
  /\ \A n \in nonces : n.actor \in Actors /\ n.expires \in 0..(MaxTime + Skew)
  /\ verifying \in [Verifiers ->
       [pc : {"free", "started", "read"}, request : Requests, now : 0..MaxTime, key : 0..MaxKeys]]
  /\ accepted \in [Requests -> SUBSET [now : 0..MaxTime, by : Verifiers]]

SecurityInit ==
  /\ clock = 0
  /\ actors = [a \in Actors |-> "absent"]
  /\ keyOf = [a \in Actors |-> 0]
  /\ nonces = {}
  /\ verifying = [v \in Verifiers |-> NoVerification]
  /\ accepted = [r \in Requests |-> {}]

(* A verification waits for nothing and is over within a tick; several run *)
(* inside one tick.                                                        *)
Passes ==
  /\ clock < MaxTime
  /\ \A v \in Verifiers : verifying[v].pc = "free"
  /\ clock' = clock + 1
  /\ UNCHANGED <<actors, keyOf, nonces, verifying, accepted>>

RegisterActor(a, status) ==
  /\ actors' = [actors EXCEPT ![a] = status]
  /\ UNCHANGED <<clock, keyOf, nonces, verifying, accepted>>

RegisterKey(a) ==
  /\ actors[a] = "enabled" /\ keyOf[a] < MaxKeys
  /\ keyOf' = [keyOf EXCEPT ![a] = @ + 1]
  /\ UNCHANGED <<clock, actors, nonces, verifying, accepted>>

Distance(a, b) == IF a > b THEN a - b ELSE b - a

(* verify_signed_request reads its clock once, before the first section.   *)
VerifyStarts(v, r) ==
  /\ verifying[v].pc = "free"
  /\ Distance(clock, r.time) <= Skew
  /\ verifying' = [verifying EXCEPT ![v] =
       [pc |-> "started", request |-> r, now |-> clock, key |-> 0]]
  /\ UNCHANGED <<clock, actors, keyOf, nonces, accepted>>

KeptNonces(now) == {n \in nonces : n.expires >= now}
Seen(r, now) == \E n \in KeptNonces(now) : n.actor = r.actor /\ n.nonce = r.nonce
Ends(v) == verifying' = [verifying EXCEPT ![v] = NoVerification]

(* The first section, and the checks of key, payload and signature.        *)
VerifyReads(v) ==
  LET call == verifying[v]
      r == call.request IN
  /\ call.pc = "started"
  /\ nonces' = KeptNonces(call.now)
  /\ IF ~Seen(r, call.now) /\ actors[r.actor] = "enabled" /\ keyOf[r.actor] = r.key
     THEN verifying' = [verifying EXCEPT ![v].pc = "read", ![v].key = keyOf[r.actor]]
     ELSE Ends(v)
  /\ UNCHANGED <<clock, actors, keyOf, accepted>>

Unchanged(r, key) == actors[r.actor] = "enabled" /\ keyOf[r.actor] = key

\* Mutant: the second section looks at the nonce alone.
AcceptsRequestByNonce(r, call) == ~Seen(r, call.now)

(* The second section: look again, then keep the nonce.                    *)
AcceptsRequest(r, call) == Unchanged(r, call.key) /\ ~Seen(r, call.now)

VerifyCommits(v) ==
  LET call == verifying[v]
      r == call.request IN
  /\ call.pc = "read"
  /\ IF AcceptsRequest(r, call)
     THEN /\ nonces' = KeptNonces(call.now) \cup
               {[actor |-> r.actor, nonce |-> r.nonce, expires |-> call.now + Skew]}
          /\ accepted' = [accepted EXCEPT ![r] = @ \cup {[now |-> call.now, by |-> v]}]
     ELSE nonces' = KeptNonces(call.now) /\ UNCHANGED accepted
  /\ Ends(v)
  /\ UNCHANGED <<clock, actors, keyOf>>

SecurityNext ==
  \/ Passes
  \/ \E a \in Actors :
       RegisterKey(a) \/ \E status \in {"enabled", "disabled"} : RegisterActor(a, status)
  \/ \E v \in Verifiers :
       VerifyReads(v) \/ VerifyCommits(v) \/ \E r \in Requests : VerifyStarts(v, r)

(* A request whose time is not ahead of the clocks that accept it is       *)
(* accepted once, although verifications of it overlap: its nonce is kept  *)
(* for as long as its time stays within the skew (_purge_expired_nonces,   *)
(* verify_signed_request).                                                 *)
AcceptedOnce ==
  \A r \in Requests :
    (\A e \in accepted[r] : r.time <= e.now) => Cardinality(accepted[r]) <= 1

(* At the moment a request is accepted its actor is enabled and the key    *)
(* that signed it is the actor's, whatever changed since the first look.   *)
AcceptsCurrentKey ==
  [][\A r \in Requests :
       accepted'[r] # accepted[r] => actors[r.actor] = "enabled" /\ keyOf[r.actor] = r.key
    ]_securityVars
=============================================================================
