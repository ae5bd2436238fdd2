--------------------------- MODULE MCControlPlane ---------------------------
(* Instances of ControlPlane for TLC: one original o1, managed or not, its   *)
(* limit replacement r1, three callbacks and two request slots.              *)
EXTENDS ControlPlane, TLC

CONSTANTS o1, r1, c1, c2, c3, s1, s2

MCOneOriginal == {o1}
MCReplacements == {r1}
MCNoReplacements == {}
MCOrigin == r1 :> o1
MCNoOrigin == << >>
MCNoneManaged == {}

\* The original is a market order, the kind that is replaced without a policy.
MarketInit == Init /\ \A o \in Originals : prop[o].otype = "market"

CallbackSymmetry == Permutations({c1, c2, c3} \cap Callbacks)
SlotSymmetry == Permutations({s1, s2} \cap Slots)
Symmetric == CallbackSymmetry \cup SlotSymmetry
=============================================================================
