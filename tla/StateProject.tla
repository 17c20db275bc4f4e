---------------------------- MODULE StateProject ----------------------------
(***************************************************************************)
(* The projection of a state graph (project.c): find_reduced_state_graph   *)
(* removes the firings of dummy events before it checks semi-modularity,   *)
(* properties and complete state coding.  Two states that such a firing    *)
(* joins have the same values of all signals; one of them absorbs the      *)
(* other and takes over its links.                                         *)
(*                                                                         *)
(* A state has two lists of links, pairs <<state, event>>: succ and pred.  *)
(* The numbers of the states are the order of the hash table.              *)
(***************************************************************************)
EXTENDS Integers, FiniteSets, SequencesExt

CONSTANT Instances
(* The states were found by firings from the initial one.                  *)
ASSUME InstancesAssumption ==
    \A i \in Instances :
        /\ IsFiniteSet(i.states) /\ i.states = 1 .. Cardinality(i.states)
        /\ i.initial \in i.states
        /\ IsFiniteSet(i.edges)
        /\ \A x \in i.edges : x[1] \in i.states /\ x[3] \in i.states
        /\ \A s \in i.states \ {i.initial} : \E x \in i.edges : x[3] = s
        /\ DOMAIN i.code = i.states
        /\ \A s, t \in i.states : DOMAIN i.code[s] = DOMAIN i.code[t]
        /\ i.abstracted \subseteq i.keep

VARIABLES
    inst,      \* the graph: states, initial, edges, code, keep, abstracted
    succ,      \* the successor links of each state
    pred,      \* the predecessor links of each state
    code,      \* the code of each state
    absorbed,  \* the states with color -1
    zero,      \* the state with number 0
    cur,       \* the state that absorbs
    again,     \* ~done: this pass has merged two states
    pc,        \* "merge", "clean" or "done"
    rep        \* history: the state that stands for each state

vars == <<inst, succ, pred, code, absorbed, zero, cur, again, pc, rep>>

States == inst.states
Kept(e)    == e \in inst.keep
Blocked(e) == Kept(e) /\ e \notin inst.abstracted

Value(c)  == IF c \in {"1", "F"} THEN 1 ELSE 0
(* statecmp: the values of all signals agree.                              *)
StateCmp(s, t) == \A i \in DOMAIN code[s] : Value(code[s][i]) = Value(code[t][i])

(* The links as exp_add_state leaves them.                                 *)
Init ==
    /\ inst \in Instances
    /\ succ = [s \in States |-> SetToSeq({<<x[3], x[2]>> : x \in {y \in inst.edges : y[1] = s}})]
    /\ pred = [s \in States |-> SetToSeq({<<x[1], x[2]>> : x \in {y \in inst.edges : y[3] = s}})]
    /\ code = inst.code
    /\ absorbed = {} /\ zero = inst.initial
    /\ cur = 1 /\ again = FALSE /\ pc = "merge"
    /\ rep = [s \in States |-> s]

-----------------------------------------------------------------------------
(* Lists of links.                                                         *)
Redirect(list, N, C) ==
    [i \in DOMAIN list |-> IF list[i][1] = N THEN <<C, list[i][2]>> ELSE list[i]]

(* The k-th of a set of positions, and the links at these positions.       *)
Nth(P, k)   == CHOOSE i \in P : Cardinality({j \in P : j < i}) = k - 1
At(list, P) == [k \in 1 .. Cardinality(P) |-> list[Nth(P, k)]]

(* The list without its first link to N.                                   *)
DropFirst(list, N) ==
    At(list, {i \in DOMAIN list : list[i][1] = N => \E j \in 1 .. i - 1 : list[j][1] = N})

(* The links of the absorbed state that C does not have yet, without       *)
(* silent loops.                                                           *)
TakeLinks(list, links, C) ==
    LET new == {i \in DOMAIN links :
                   /\ links[i] \notin ToSet(list) \cup {links[j] : j \in 1 .. i - 1}
                   /\ links[i][1] = C => Kept(links[i][2])}
    IN  list \o At(links, new)

(* in_state_list: the event of the last link is not compared.              *)
InStateList(list, C, e) == Contains(list, <<C, e>>) \/ Last(list)[1] = C

(* The walk of rm_pred_links through the predecessors of X, a successor of *)
(* the absorbed state N: a link from N becomes one from C, or is removed.  *)
(* The walk stops when it has removed the head of the list.                *)
Walk(list, C, N, X) ==
    LET Gone(i) == list[i][1] = N /\ (X = C \/ InStateList(list, C, list[i][2]))
    IN  IF list # <<>> /\ Gone(1) THEN Tail(list)
        ELSE Redirect(At(list, {i \in DOMAIN list : ~Gone(i)}), N, C)

(* Faulty: the successors of N keep it as their predecessor.               *)
RmPredLinksOwn(C, N) ==
    [pred EXCEPT ![C] = TakeLinks(Walk(@, C, N, C), pred[N], C)]

(* The predecessors of X after k walks.  There is one for each link from N. *)
Walked(C, N, X, k) ==
    LET list[n \in 0 .. k] == IF n = 0 THEN pred[X] ELSE Walk(list[n - 1], C, N, X)
    IN  list[k]
LinksTo(N, X) == Cardinality({i \in DOMAIN succ[N] : succ[N][i][1] = X})

(* Predecessor lists after rm_pred_links.                                  *)
RmPredLinks(C, N) ==
    LET others == [X \in States |-> Walked(C, N, X, LinksTo(N, X))]
    IN  IF others[C] = <<>> THEN others
        ELSE [others EXCEPT ![C] = TakeLinks(@, others[N], C)]

(* Faulty: nothing leads to C that led to N.                               *)
RmSuccLinksOwn(p, C, N) ==
    [succ EXCEPT ![C] = DropFirst(TakeLinks(succ[C], succ[N], C), N)]

(* Successor lists after rm_succ_links, when the predecessor lists are p.  *)
RmSuccLinks(p, C, N) ==
    LET Moved(P) == P # C /\ \E x \in ToSet(p[N]) :
                                  x[1] = P /\ ~Contains(succ[P], <<C, x[2]>>)
        others   == [P \in States |-> IF Moved(P) THEN Redirect(succ[P], N, C) ELSE succ[P]]
    IN  [others EXCEPT ![C] = DropFirst(TakeLinks(@, others[N], C), N)]

MergeEnablings(c, n) == [i \in DOMAIN c |-> IF n[i] \in {"R", "F"} THEN n[i] ELSE c[i]]

-----------------------------------------------------------------------------
(* Faulty: a change of excitation keeps two states apart.                  *)
SilentSameCode(C, link) ==
    /\ link[1] \notin absorbed \cup {C}
    /\ code[C] = code[link[1]]
    /\ ~Blocked(link[2])

(* The links over which C absorbs the other end.                           *)
Silent(C, link) ==
    /\ link[1] \notin absorbed \cup {C}
    /\ StateCmp(C, link[1])
    /\ ~Blocked(link[2])

MayAbsorb(C) == C \notin absorbed /\ \E i \in DOMAIN succ[C] : Silent(C, succ[C][i])

Merge(C, n) ==
    /\ code' = [code EXCEPT ![C] = MergeEnablings(@, code[n])]
    /\ zero' = IF zero = n THEN C ELSE zero
    /\ absorbed' = absorbed \cup {n}
    /\ pred' = RmPredLinks(C, n)
    /\ succ' = RmSuccLinks(pred', C, n)
    /\ rep' = [s \in States |-> IF rep[s] = n THEN C ELSE rep[s]]

Absorb ==
    /\ pc = "merge" /\ cur \in States /\ cur \notin absorbed
    /\ \E i \in DOMAIN succ[cur] :
          /\ Silent(cur, succ[cur][i])
          /\ \A j \in 1 .. i - 1 : ~Silent(cur, succ[cur][j])
          /\ Merge(cur, succ[cur][i][1])
    /\ again' = TRUE
    /\ UNCHANGED <<inst, cur, pc>>

NextState ==
    /\ pc = "merge" /\ cur \in States /\ ~MayAbsorb(cur)
    /\ cur' = cur + 1
    /\ UNCHANGED <<inst, succ, pred, code, absorbed, zero, again, pc, rep>>

(* Faulty: a merge is remembered in the passes after it.                   *)
NextPassAgain ==
    /\ pc = "merge" /\ cur \notin States
    /\ cur' = 1
    /\ pc' = IF again THEN "merge" ELSE "clean"
    /\ UNCHANGED <<inst, succ, pred, code, absorbed, zero, again, rep>>

(* The passes end with one that merges nothing.                            *)
NextPass ==
    /\ pc = "merge" /\ cur \notin States
    /\ cur' = 1 /\ again' = FALSE
    /\ pc' = IF again THEN "merge" ELSE "clean"
    /\ UNCHANGED <<inst, succ, pred, code, absorbed, zero, rep>>

(* A signal that has another value in a successor is excited.              *)
Excited(s, i) ==
    \E j \in DOMAIN succ'[s] :
        LET c == Value(code[succ'[s][j][1]][i]) IN c # Value(code[s][i])

Clean ==
    /\ pc = "clean"
    /\ succ' = [s \in States |->
                  At(succ[s], {i \in DOMAIN succ[s] : succ[s][i][1] \notin absorbed})]
    /\ code' = [s \in States |-> [i \in DOMAIN code[s] |->
                    CASE code[s][i] = "0" /\ Excited(s, i) -> "R"
                      [] code[s][i] = "1" /\ Excited(s, i) -> "F"
                      [] OTHER -> code[s][i]]]
    /\ pc' = "done"
    /\ UNCHANGED <<inst, pred, absorbed, zero, cur, again, rep>>

Next == Absorb \/ NextState \/ NextPass \/ Clean

Spec == Init /\ [][Next]_vars /\ WF_vars(Next)

-----------------------------------------------------------------------------
Left == States \ absorbed

SilentEdges == {x \in inst.edges : StateCmp(x[1], x[3])}

(* No circle of silent firings, and the initial state is reached again.    *)
Proper ==
    /\ \A S \in (SUBSET States) \ {{}} :
           \E s \in S : \A x \in SilentEdges : x[1] = s => x[3] \notin S
    /\ \E x \in inst.edges : x[3] = inst.initial
    /\ inst.keep = {}

(* Every change of the values is made by one event.                        *)
OneEvent ==
    \A x, y \in inst.edges \ SilentEdges :
        StateCmp(x[1], y[1]) /\ StateCmp(x[3], y[3]) => x[2] = y[2]

(* No firing of a visible event is lost, and it can be followed both ways: *)
(* checkCTL goes by the predecessors, the checks of semi-modularity and    *)
(* the printed graph by the successors.                                    *)
FiringsKept ==
    pc = "done" /\ Proper /\ OneEvent =>
        \A x \in inst.edges \ SilentEdges :
            /\ Contains(succ[rep[x[1]]], <<rep[x[3]], x[2]>>)
            /\ Contains(pred[rep[x[3]]], <<rep[x[1]], x[2]>>)

(* Every link between states that are left is the image of a firing, and   *)
(* no link leads to a state that has been freed.                           *)
LinksSound ==
    pc = "done" /\ inst.keep = {} =>
        \A s \in Left :
            /\ \A l \in ToSet(succ[s]) :
                   \E x \in inst.edges : <<rep[x[1]], x[2], rep[x[3]]>> = <<s, l[2], l[1]>>
            /\ \A l \in ToSet(pred[s]) :
                   \E x \in inst.edges : <<rep[x[1]], x[2], rep[x[3]]>> = <<l[1], l[2], s>>

(* Exactly the states joined by silent firings become one, and the number  *)
(* 0 is with the state that stands for the initial one.                    *)
MergedExactly ==
    pc = "done" /\ Proper =>
        /\ \A x \in SilentEdges : rep[x[1]] = rep[x[3]]
        /\ \A s \in Left : \A S \in (SUBSET {t \in States : rep[t] = s}) \ {{}} :
               s \in S \/ \E x \in SilentEdges :
                   rep[x[1]] = s /\ rep[x[3]] = s /\ (x[1] \in S <=> x[3] \notin S)
        /\ {s \in Left : s = zero} = {rep[inst.initial]}

Ends == <>(pc = "done")

(* "??? I DON'T THINK THIS IS NECESSARY" (project.c 306): a state without  *)
(* predecessors does not take over those of the state it absorbs, and no   *)
(* successor link is left without its predecessor link.                    *)
PredsKnown ==
    pc = "done" /\ inst.keep = {} =>
        \A s \in Left : \A l \in ToSet(succ[s]) : Contains(pred[l[1]], <<s, l[2]>>)

=============================================================================
