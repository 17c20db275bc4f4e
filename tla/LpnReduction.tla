---------------------------- MODULE LpnReduction ----------------------------
(***************************************************************************)
(* lpn_rsg with partial-order reduction: LpnExplore with the ample sets as *)
(* its fire lists, compared with the whole graph of the net.               *)
(***************************************************************************)
EXTENDS LpnAmple

(* The markings of the whole graph, found breadth first.                   *)
AllSuccessors(N, m) ==
    {FindNewMarking(N, m, e) : e \in {f \in m.enablings : ~Fails(N, m, f)}}

WholeGraph(N) ==
    LET from[S \in SUBSET Marking(N)] ==
            LET T == S \cup UNION {AllSuccessors(N, m) : m \in S}
            IN  IF T = S THEN S ELSE from[T]
    IN  from[Initial(N)]

(* Nets with nothing to report and, inputs included, no two edges of one   *)
(* signal enabled together (for outputs the consistency check ensures it). *)
WellBehaved(N) ==
    /\ Initial(N) # {}
    /\ \A m \in WholeGraph(N) : \A e \in m.enablings :
          /\ ~Fails(N, m, e)
          /\ \A f \in m.enablings \ {e} : N.signal[e] = N.signal[f] => N.signal[e] = -1

-----------------------------------------------------------------------------
(* An ample set is made of enabled events (the code prints "Something      *)
(* wrong" otherwise), is empty only if none is enabled, and with an event  *)
(* has every enabled one in conflict with it, whatever the order in which  *)
(* they were come upon.                                                    *)
Closed(N, m, ample) ==
    \A i \in ample : \A j \in m.enablings : Conflict(N, i, j) => j \in ample
AmpleProper ==
    \A i \in 1 .. Len(stack) :
        LET m == stack[i].marking IN
        /\ stack[i].firelist \subseteq m.enablings
        /\ m.enablings # {} => stack[i].firelist # {}
        /\ Closed(net, m, stack[i].firelist)

(* The reduction keeps every stuck marking of a well-behaved net.          *)
DeadlocksKept ==
    answer = "TRUE" /\ WellBehaved(net) =>
        \A m \in WholeGraph(net) : m.enablings = {} => \E k \in Table : SameKey(k, m)

(* The reduction is called an optimization: it should answer what the      *)
(* whole graph answers.                                                    *)
EndsWhole(N, m) ==
    \/ ~NoFail /\ ~N.keepgoing /\ \E e \in m.enablings : Fails(N, m, e)
    \/ m.enablings = {} /\ FoundDeadlock(N, m, N.search)
SameAnswer ==
    answer = "TRUE" => \A m \in WholeGraph(net) : ~EndsWhole(net, m)

=============================================================================
