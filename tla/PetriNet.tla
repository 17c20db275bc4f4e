------------------------------ MODULE PetriNet ------------------------------
(***************************************************************************)
(* What a token game promises, in terms of places that hold a token or do  *)
(* not, independently of ATACS's one bit per rule: a 1-safe net whose      *)
(* outputs take the edge of the event that fires.  The environment may     *)
(* give the inputs any value at any time.                                  *)
(***************************************************************************)
EXTENDS LpnNet

CONSTANT Nets

VARIABLES net, tokens, outputs
vars == <<net, tokens, outputs>>

Pre(N, e)  == {Cell(N, r) : r \in {q \in Markable(N) : q[2] = e}}
Post(N, e) == {r \in Markable(N) : r[1] = e} \cup
              {<<p>> : p \in {q \in Place(N) :
                                /\ <<e, q>> \in N.rules
                                /\ \E f \in Event(N) : <<q, f>> \in N.rules}}

(* Values of all the signals that agree with the outputs.                  *)
Views(N, out) == {v \in [Signal(N) -> Values] :
                     \A s \in Output(N) : v[s] = out[s]}

(* With failures as warnings, constraint rules do not hold an event back.  *)
CanFire(N, e) ==
    \E v \in Views(N, outputs) :
        \A r \in Markable(N) \ (IF NoFail THEN N.constraint ELSE {}) :
            r[2] = e => Cell(N, r) \in tokens /\ LevelSatisfied(N, r, v)

Init ==
    /\ net \in Nets
    /\ tokens = {Cell(net, r) : r \in net.marked}
    /\ outputs = [s \in Output(net) |-> net.start[s]]

Fire(e) ==
    /\ CanFire(net, e)
    /\ (tokens \ Pre(net, e)) \cap Post(net, e) = {}
    /\ tokens' = (tokens \ Pre(net, e)) \cup Post(net, e)
    /\ outputs' = [s \in Output(net) |->
                      IF s # net.signal[e] THEN outputs[s]
                      ELSE IF net.rising[e] THEN "1" ELSE "0"]
    /\ UNCHANGED net

Next == \E e \in Event(net) : Fire(e)

Spec == Init /\ [][Next]_vars

=============================================================================
