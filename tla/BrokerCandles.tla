---------------------------- MODULE BrokerCandles ----------------------------
(* Candles asked of the terminal (hierarchy/broker_candles.py): an analysis  *)
(* stores a request and polls it for twenty seconds, the expert advisor is   *)
(* handed the oldest pending request at every poll, until one answer is      *)
(* accepted, so it may answer a request several times and late.              *)
EXTENDS Naturals, FiniteSets

CONSTANTS
  Fetches,      \* analyses that ask; each makes one request
  NoBatch,
  Batches,      \* candle batches the terminal may capture
  Accepts,      \* answers that may be under way at once
  MaxAnswers    \* bound: answers begun

ASSUME CandleAssumption ==
  /\ NoBatch \notin Batches /\ {"no", "waiting", "gave_up"} \cap Batches = {}
  /\ IsFiniteSet(Fetches) /\ MaxAnswers \in Nat

VARIABLES
  demand,     \* the record of each request
  fetched,    \* what each analysis has: waiting, a batch or none
  accepting,  \* each answer under way: its request, its batch, what it read
  order,      \* requests in the order they were stored
  answers     \* answers begun

candleVars == <<demand, fetched, accepting, order, answers>>

NoAnswer == [request |-> NoBatch, batch |-> NoBatch, read |-> FALSE]
CandleTypeOK ==
  /\ demand \in [Fetches -> [state : {"absent", "pending", "received", "deleted"},
                             over : BOOLEAN, old : BOOLEAN, response : Batches \cup {NoBatch}]]
  /\ fetched \in [Fetches -> {"no", "waiting", "gave_up"} \cup Batches]
  /\ \A a \in Accepts : accepting[a].batch \in Batches \cup {NoBatch}
  /\ order \in [Fetches -> 0..Cardinality(Fetches)] /\ answers \in 0..MaxAnswers

CandleInit ==
  /\ demand = [f \in Fetches |-> [state |-> "absent", over |-> FALSE, old |-> FALSE,
                                  response |-> NoBatch]]
  /\ fetched = [f \in Fetches |-> "no"] /\ accepting = [a \in Accepts |-> NoAnswer]
  /\ order = [f \in Fetches |-> 0] /\ answers = 0

Asked == {f \in Fetches : demand[f].state # "absent"}

(* fetch: a new request under a new id.                                      *)
FetchBegins(f) ==
  /\ demand[f].state = "absent"
  /\ demand' = [demand EXCEPT ![f].state = "pending"]
  /\ fetched' = [fetched EXCEPT ![f] = "waiting"]
  /\ order' = [order EXCEPT ![f] = Cardinality(Asked) + 1]
  /\ UNCHANGED <<accepting, answers>>

FetchPolls(f) ==
  /\ fetched[f] = "waiting" /\ demand[f].state = "received"
  /\ fetched' = [fetched EXCEPT ![f] = demand[f].response]
  /\ UNCHANGED <<demand, accepting, order, answers>>

FetchTimesOut(f) ==
  /\ fetched[f] = "waiting" /\ fetched' = [fetched EXCEPT ![f] = "gave_up"]
  /\ UNCHANGED <<demand, accepting, order, answers>>

(* next_request: the oldest pending request that has not expired; the        *)
(* terminal copies the candles and posts them.                               *)
Listed == {f \in Fetches : demand[f].state = "pending" /\ ~demand[f].over}
AnswerBegins(a) ==
  /\ accepting[a] = NoAnswer /\ answers < MaxAnswers
  /\ \E f \in Listed, b \in Batches :
       /\ \A g \in Listed : order[f] <= order[g]
       /\ accepting' = [accepting EXCEPT ![a] = [request |-> f, batch |-> b, read |-> FALSE]]
  /\ answers' = answers + 1
  /\ UNCHANGED <<demand, fetched, order>>

(* It also deletes requests five minutes after they expired.                 *)
NextRequestDeletes(f) ==
  /\ demand[f].old
  /\ demand' = [demand EXCEPT ![f].state = "deleted", ![f].old = FALSE, ![f].response = NoBatch]
  /\ UNCHANGED <<fetched, accepting, order, answers>>

(* accept reads the request before its checks and writes under the version   *)
(* it read: an answer, or the deletion, in between refuses it.               *)
\* Mutant: the answer is written under no version.
UnconsumedUnchecked(f) == TRUE
Unconsumed(f) == demand[f].state = "pending"

AcceptReads(a) ==
  /\ accepting[a] # NoAnswer /\ ~accepting[a].read
  /\ LET f == accepting[a].request IN
       accepting' = [accepting EXCEPT ![a] =
         IF demand[f].state = "pending" /\ ~demand[f].over
         THEN [accepting[a] EXCEPT !.read = TRUE] ELSE NoAnswer]
  /\ UNCHANGED <<demand, fetched, order, answers>>

AcceptWrites(a) ==
  /\ accepting[a].read
  /\ LET f == accepting[a].request IN
       demand' = IF Unconsumed(f)
                 THEN [demand EXCEPT ![f].state = "received", ![f].response = accepting[a].batch]
                 ELSE demand
  /\ accepting' = [accepting EXCEPT ![a] = NoAnswer]
  /\ UNCHANGED <<fetched, order, answers>>

(* It is refused for its content, or never arrives.                          *)
AnswerRefused(a) ==
  /\ accepting[a] # NoAnswer /\ accepting' = [accepting EXCEPT ![a] = NoAnswer]
  /\ UNCHANGED <<demand, fetched, order, answers>>

(* Forty-five seconds, and five minutes more.                                *)
DemandExpires(f) ==
  /\ demand[f].state \in {"pending", "received"} /\ ~demand[f].over
  /\ fetched[f] # "waiting"   \* a fetch gives up long before
  /\ demand' = [demand EXCEPT ![f].over = TRUE]
  /\ UNCHANGED <<fetched, accepting, order, answers>>
DemandAges(f) ==
  /\ demand[f].over /\ ~demand[f].old /\ demand[f].state # "deleted"
  /\ demand' = [demand EXCEPT ![f].old = TRUE]
  /\ UNCHANGED <<fetched, accepting, order, answers>>

CandleNext ==
  \/ \E f \in Fetches : \/ FetchBegins(f) \/ FetchPolls(f) \/ FetchTimesOut(f)
                        \/ NextRequestDeletes(f) \/ DemandExpires(f) \/ DemandAges(f)
  \/ \E a \in Accepts : AnswerBegins(a) \/ AcceptReads(a) \/ AcceptWrites(a) \/ AnswerRefused(a)

CandleSpec == CandleInit /\ [][CandleNext]_candleVars

-----------------------------------------------------------------------------
\* The first accepted answer of a request stands until the request is deleted:
\* overlapping and late answers of the terminal never replace the candles an
\* analysis took, and never bring a deleted request back.
AnswerStands ==
  [][\A f \in Fetches :
       /\ demand[f].state = "received" => \/ demand'[f].response = demand[f].response
                                          \/ demand'[f].state = "deleted"
       /\ demand[f].state = "deleted" => demand'[f].state = "deleted"]_candleVars

\* An analysis holds the answer to its own request and no other.
FetchHasItsAnswer ==
  \A f \in Fetches : fetched[f] \in Batches /\ demand[f].state # "deleted"
                       => demand[f].response = fetched[f]
=============================================================================
