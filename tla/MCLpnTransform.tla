--------------------------- MODULE MCLpnTransform ---------------------------
EXTENDS LpnTransform, TransformSamples

MCNets ==
    Nets3(2, {{4}}, Removable) \cup Nets4(1, {{5}, {5, 8}, {6}}) \cup EdgeNets(1)

(* Events may produce before and after an abstract event.                  *)
MCTwice ==
    Nets3(1, {{4}}, LAMBDA shape, abstract : \A t \in abstract : NoSelfLoop(shape, t))
=============================================================================
