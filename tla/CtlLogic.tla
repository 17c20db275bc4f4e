------------------------------ MODULE CtlLogic ------------------------------
(***************************************************************************)
(* What the operators of CTL mean on a state graph, as ctlchecker.c reads  *)
(* them.  A state graph is a record:                                       *)
(*                                                                         *)
(*   states    the states of the state table; 0 is the initial one         *)
(*   edges     triples <<s, e, t>>: firing event e leads from s to t       *)
(*   code      the value of each signal in each state                      *)
(*                                                                         *)
(* Paths of EG are infinite and weakly fair: an event that stays enabled   *)
(* is taken.  EX and EU are about finite paths.                            *)
(***************************************************************************)
EXTENDS Integers, FiniteSets, Sequences

StateGraph(g) ==
    /\ IsFiniteSet(g.states) /\ 0 \in g.states
    /\ \A x \in g.edges : x[1] \in g.states /\ x[3] \in g.states
    /\ \A s \in DOMAIN g.code : g.code[s] \in [g.states -> {"0", "1", "X", "R", "F"}]

Succ(g, s) == {x[3] : x \in {y \in g.edges : y[1] = s}}
Pred(g, s) == {x[1] : x \in {y \in g.edges : y[3] = s}}

(* The least set with f2 and every state of f1 that has a successor in it. *)
Closed(g, f1, f2, X) ==
    /\ f2 \subseteq X
    /\ \A s \in X : Pred(g, s) \cap f1 \subseteq X

EUSat(g, f1, f2) ==
    {s \in g.states : \A X \in SUBSET g.states : Closed(g, f1, f2, X) => s \in X}

EXSat(g, f) == {s \in g.states : Succ(g, s) \cap f # {}}

(* A path may visit exactly the states of C for ever: no part of C is a    *)
(* trap or a dead end.                                                     *)
Recurrent(g, C) ==
    /\ C # {}
    /\ \E s \in C : Succ(g, s) \cap C # {}
    /\ \A D \in SUBSET C : D \notin {{}, C} => \E s \in D : Succ(g, s) \cap (C \ D) # {}

(* ... and do so fairly: no event is enabled all along and never taken.    *)
Enables(g, s, e)  == \E x \in g.edges : x[1] = s /\ x[2] = e
FairlyIn(g, C) ==
    \A e \in {x[2] : x \in g.edges} :
        \/ \E s \in C : ~Enables(g, s, e)
        \/ \E x \in g.edges : x[1] \in C /\ x[2] = e /\ x[3] \in C

EGSat(g, f) ==
    EUSat(g, f, UNION {C \in SUBSET f : Recurrent(g, C) /\ FairlyIn(g, C)})

(* Weak until: no path leaves p before it has reached q.                   *)
AWSat(g, p, q) ==
    {s \in g.states :
        \E X \in SUBSET g.states :
            /\ s \in X
            /\ \A t \in X : t \in q \/ (t \in p /\ Succ(g, t) \subseteq X)}

=============================================================================
