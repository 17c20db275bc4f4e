---------------------------- MODULE GraphSearch -----------------------------
(***************************************************************************)
(* What an exploration of a loaded net promises, whatever its order and    *)
(* its data structures: it stores only markings it has reached, it answers *)
(* TRUE only when it stores all it can reach and none of them is bad, and  *)
(* FALSE only when it has met a bad one (or has no marking to start from). *)
(***************************************************************************)
CONSTANTS
    Nets,
    Start(_),        \* Start(N): the set of initial markings, empty if none
    Succ(_, _),      \* Succ(N, m): the markings one firing away from m
    Same(_, _),      \* the search does not tell these two markings apart
    Bad(_, _)        \* Bad(N, m): meeting m ends the search

VARIABLES net, seen, answer
vars == <<net, seen, answer>>

Init == net \in Nets /\ seen = {} /\ answer = "none"

Root ==
    /\ answer = "none" /\ seen = {}
    /\ \E m \in Start(net) : seen' = {m}
    /\ UNCHANGED <<net, answer>>

Extend ==
    /\ answer = "none"
    /\ \E m \in seen : \E n \in Succ(net, m) :
          /\ \A k \in seen : ~Same(k, n)
          /\ seen' = seen \cup {n}
    /\ UNCHANGED <<net, answer>>

Closed == \A m \in seen : \A n \in Succ(net, m) : \E k \in seen : Same(k, n)

Accept ==
    /\ answer = "none" /\ seen # {}
    /\ Closed
    /\ \A m \in seen : ~Bad(net, m)
    /\ answer' = "TRUE"
    /\ UNCHANGED <<net, seen>>

Reject ==
    /\ answer = "none"
    /\ Start(net) = {} \/ \E m \in seen : Bad(net, m)
    /\ answer' = "FALSE"
    /\ UNCHANGED <<net, seen>>

Next == Root \/ Extend \/ Accept \/ Reject
Spec == Init /\ [][Next]_vars

=============================================================================
