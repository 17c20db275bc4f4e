----------------------------- MODULE CtlSamples -----------------------------
(***************************************************************************)
(* Families of state graphs and formulas for TLC.  Signal 0 is p and       *)
(* signal 1 is q.                                                          *)
(***************************************************************************)
EXTENDS CtlParser, TLC

AllReached(S, E) == \A s \in S : 0 \in EUSat([states |-> S, edges |-> E], S, {s})

Coded(S, E, P, Q) ==
    [states |-> S, edges |-> E,
     code |-> (0 :> [s \in S |-> IF s \in P THEN "F" ELSE "0"]) @@
              (1 :> [s \in S |-> IF s \in Q THEN "1" ELSE "R"])]

(* Event e leads from s to move[s, e], or is not enabled (-1).             *)
Moves(S, E) == {{<<m[1], m[2], move[m]>> : m \in {n \in S \X E : move[n] # -1}} :
                    move \in [S \X E -> S \cup {-1}]}

Graphs(S, edgeSets, Ps, Qs) ==
    {Coded(S, E, P, Q) : E \in {R \in edgeSets : AllReached(S, R)}, P \in Ps, Q \in Qs}

Checks(graphs, formulas) ==
    {[graph |-> G, formula |-> f, prog |-> Parse(f)] : G \in graphs, f \in formulas}

Three == {0, 1, 2}
Two   == {0, 1}

(* Formulas over p and q, which are their first two reductions.            *)
PQ(reductions) == << <<"VAR", 0, 0>>, <<"VAR", 1, 0>> >> \o reductions

(* Components and fairness: three states, two events, nearly all with p.   *)
(* States 1 and 2 can be exchanged: one of two such choices is enough.     *)
LoopChecks ==
    Checks(Graphs(Three, Moves(Three, {1, 2}),
                  {{0, 1}, Three}, {{}}),
           {<< <<"VAR", 0, 0>>, <<"EG", 1, 0>> >>})

(* Growing: all graphs on three states, of one event, all values of p, q.  *)
UntilChecks ==
    Checks(Graphs(Three, {{<<x[1], 1, x[2]>> : x \in R} : R \in SUBSET (Three \X Three)},
                  SUBSET Three, {{2}, {1, 2}}),
           {PQ(<< <<"EU", 1, 2>> >>)})

(* Every operator, and formulas that nest them: AG (~p | AF q), EG EX p,   *)
(* AG EF q.                                                                *)
NestedChecks ==
    Checks(Graphs(Two, Moves(Two, {1, 2}), SUBSET Two, SUBSET Two),
           {<< <<"VAR", 1, 0>>, <<"AF", 1, 0>> >>,
            << <<"VAR", 0, 0>>, <<"AX", 1, 0>> >>,
            PQ(<< <<"AND", 1, 2>>, <<"EF", 3, 0>> >>),
            PQ(<< <<"AU", 1, 2>> >>),
            << <<"VAR", 0, 0>>, <<"NOT", 1, 0>>, <<"VAR", 1, 0>>, <<"AF", 3, 0>>,
               <<"OR", 2, 4>>, <<"AG", 5, 0>> >>,
            << <<"VAR", 0, 0>>, <<"EX", 1, 0>>, <<"EG", 2, 0>> >>,
            << <<"VAR", 1, 0>>, <<"EF", 1, 0>>, <<"AG", 2, 0>> >>})

AllChecks == NestedChecks \cup UntilChecks \cup LoopChecks

StuckChecks ==
    Checks(Graphs(Two, Moves(Two, {1, 2}), SUBSET Two, {{}, {1}}),
           {<< <<"VAR", 0, 0>>, <<"EG", 1, 0>> >>, << <<"VAR", 1, 0>>, <<"AF", 1, 0>> >>})

=============================================================================
