--------------------------- MODULE ProjectSamples ---------------------------
(***************************************************************************)
(* Families of state graphs for TLC: one signal, whose value splits the    *)
(* states, silent events 1 and 2 inside the parts, and the edges of the    *)
(* signal, events 3 and 4, between them.                                   *)
(***************************************************************************)
EXTENDS StateProject

(* Every choice of at most one target for each event in each state.        *)
Moves(S, E, Targets(_)) ==
    {{<<s, e, move[<<s, e>>]>> : <<s, e>> \in {m \in S \X E : move[m] # 0}} :
        move \in {f \in [S \X E -> S \cup {0}] :
                     \A m \in S \X E : f[m] \in Targets(m[1]) \cup {0}}}

Silents(n, high, E) ==
    Moves(1 .. n, E, LAMBDA s : {t \in 1 .. n : t \in high <=> s \in high})
(* ... without the firings that lead back to their own state.              *)
Steps(n, high, E) ==
    {M \in Silents(n, high, E) : \A x \in M : x[1] # x[3]}
Visibles(n, high) ==
    {{<<x[1], IF x[1] \in high THEN 4 ELSE 3, x[3]>> : x \in M} :
        M \in Moves(1 .. n, {0}, LAMBDA s : {t \in 1 .. n : t \in high <=> s \notin high})}

(* Four states at most: three steps reach what can be reached.             *)
Step(R, edges) == R \cup {x[3] : x \in {y \in edges : y[1] \in R}}
Reached(n, s, edges) == Step(Step(Step({s}, edges), edges), edges) = 1 .. n

Graphs(n, high, silents) ==
    {G \in [states : {1 .. n}, initial : 1 .. n,
            edges : {M \cup V : M \in silents, V \in Visibles(n, high)}] :
        Reached(n, G.initial, G.edges)}

Coded(G, high, keep) ==
    [states |-> G.states, initial |-> G.initial, edges |-> G.edges,
     keep |-> keep, abstracted |-> {},
     code |-> [s \in G.states |->
                 LET excited == \E x \in G.edges : x[1] = s /\ x[2] \in {3, 4}
                 IN  << CASE s \notin high /\ excited -> "R" [] s \in high /\ excited -> "F"
                          [] s \notin high /\ ~excited -> "0" [] OTHER -> "1" >>]]

(* Three states: two silent events, the second may be kept; or one, which  *)
(* may lead back to its own state.                                         *)
ThreeStates(keeps) ==
    UNION {{Coded(G, high, keep) : G \in Graphs(3, high, Steps(3, high, {1, 2}))} :
              high \in {{}, {2}, {2, 3}}, keep \in keeps}
    \cup UNION {{Coded(G, high, {}) : G \in Graphs(3, high, Silents(3, high, {1}))} :
              high \in {{2}, {2, 3}}}

FourStates ==
    UNION {{Coded(G, high, {}) : G \in Graphs(4, high, Steps(4, high, {1}))} :
              high \in {{4}, {1}, {3, 4}, {2, 4}}}

AllGraphs    == ThreeStates({{}, {2}}) \cup FourStates
SilentGraphs == ThreeStates({{}})

=============================================================================
