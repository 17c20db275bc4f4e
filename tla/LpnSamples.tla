----------------------------- MODULE LpnSamples -----------------------------
(***************************************************************************)
(* Families of small nets for TLC, as a command that verifies explores     *)
(* them.                                                                   *)
(***************************************************************************)
EXTENDS Integers, FiniteSetsExt, TLC

True(nsignals) == {[s \in 0 .. (nsignals - 1) |-> "X"]}

(* A level expression that is one literal.                                 *)
Literal(nsignals, signal, value) ==
    {[s \in 0 .. (nsignals - 1) |-> IF s = signal THEN value ELSE "X"]}

(* The loader drops what no rule mentions.                                 *)
Unused(ids, rules) == {i \in ids : \A r \in rules : r[1] # i /\ r[2] # i}

-----------------------------------------------------------------------------
(* Every net over two events without signals (1, 2) and two places (3, 4): *)
(* choice, synchronisation, read arcs, constraint rules, sources, sinks    *)
(* and unsafe nets all occur.                                              *)
Ins   == [{3, 4} \X {1, 2} -> {"none", "trigger", "constraint"}]
Outs  == SUBSET ({1, 2} \X {3, 4})

ShapeNet(ins, outs, places, on) ==
    LET into == {r \in DOMAIN ins : ins[r] # "none"} IN
    [nevents |-> 3, nplaces |-> 2, nsignals |-> 0, ninpsig |-> 0,
     rules |-> into \cup outs,
     constraint |-> {r \in into : ins[r] = "constraint"},
     level |-> [r \in into |-> True(0)],
     marked |-> {r \in into : r[1] \in places},
     signal |-> [e \in {1, 2} |-> -1],
     rising |-> [e \in {1, 2} |-> TRUE],
     start |-> [s \in {} |-> "0"],
     dropped |-> Unused(1 .. 4, into \cup outs),
     keepgoing |-> on, search |-> on]

ShapeNets == {ShapeNet(ins, outs, places, FALSE) :
                  ins \in Ins, outs \in Outs, places \in SUBSET {3, 4}}

(* The same, explored by the search command with keepgoing.                *)
SearchNets == {ShapeNet(ins, outs, places, TRUE) :
                  ins \in Ins, outs \in Outs, places \in SUBSET {3, 4}}

-----------------------------------------------------------------------------
(* Two signals, each alternating rising and falling edges through the      *)
(* implicit places between its events (1 and 2 of signal 0, 3 and 4 of     *)
(* signal 1), every edge guarded by a literal of the other signal or by    *)
(* nothing.  ninpsig of them are inputs.                                   *)
Guards(other) == {True(2), Literal(2, other, "0"), Literal(2, other, "1")}

RingNet(g1, g2, g3, g4, v0, v1, ninpsig) ==
    [nevents |-> 5, nplaces |-> 0, nsignals |-> 2, ninpsig |-> ninpsig,
     rules |-> {<<2, 1>>, <<1, 2>>, <<4, 3>>, <<3, 4>>},
     constraint |-> {},
     level |-> [r \in {<<2, 1>>, <<1, 2>>, <<4, 3>>, <<3, 4>>} |->
                   CASE r[2] = 1 -> g1 [] r[2] = 2 -> g2
                     [] r[2] = 3 -> g3 [] r[2] = 4 -> g4],
     marked |-> {IF v0 = "0" THEN <<2, 1>> ELSE <<1, 2>>,
                 IF v1 = "0" THEN <<4, 3>> ELSE <<3, 4>>},
     signal |-> [e \in 1 .. 4 |-> IF e <= 2 THEN 0 ELSE 1],
     rising |-> [e \in 1 .. 4 |-> e \in {1, 3}],
     start |-> [s \in 0 .. 1 |-> IF s = 0 THEN v0 ELSE v1],
     dropped |-> {},
     keepgoing |-> FALSE, search |-> FALSE]

RingNets == {RingNet(g1, g2, g3, g4, v0, v1, n) :
                g1 \in Guards(1), g2 \in Guards(1),
                g3 \in Guards(0), g4 \in Guards(0),
                v0 \in {"0", "1"}, v1 \in {"0", "1"}, n \in 0 .. 2}

-----------------------------------------------------------------------------
(* The shapes again, without constraint rules, over two signals with       *)
(* nothing to make their edges alternate: event 1 raises signal 0, and the *)
(* other lowers or raises signal 0 or signal 1.  The loader numbers the    *)
(* events of a signal with rising and falling edges in turn (1 .. 4 and    *)
(* 5, 6) and drops those the net does not mention.  Inconsistent start     *)
(* states, outputs that are disabled and opposite edges that are enabled   *)
(* together all occur.                                                     *)
SignalNet(into, outs, places, other, ninpsig, value) ==
    LET e(i) == IF i = 1 THEN 1 ELSE other
        p(i) == i + 4
        arcs == {<<p(a[1]), e(a[2])>> : a \in into}
        rules == arcs \cup {<<e(a[1]), p(a[2])>> : a \in outs} IN
    [nevents |-> 7, nplaces |-> 2, nsignals |-> 2, ninpsig |-> ninpsig,
     rules |-> rules,
     constraint |-> {},
     level |-> [r \in arcs |-> True(2)],
     marked |-> {r \in arcs : r[1] \in places},
     signal |-> [i \in 1 .. 6 |-> IF i <= 4 THEN 0 ELSE 1],
     rising |-> [i \in 1 .. 6 |-> i \in {1, 3, 5}],
     start |-> [s \in 0 .. 1 |-> value],
     dropped |-> Unused(1 .. 8, rules),
     keepgoing |-> FALSE, search |-> FALSE]

SignalNets == {SignalNet(into, outs, places, other, ninpsig, value) :
                  into \in SUBSET ({3, 4} \X {1, 2}), outs \in Outs,
                  places \in SUBSET {7, 8}, other \in {2, 3, 5, 6},
                  ninpsig \in {0, 1}, value \in {"0", "1"}}

-----------------------------------------------------------------------------
(* Three events without signals, of which 1 and 2 share place 4 while 3    *)
(* needs place 6; more places between them and up to three output arcs.    *)
ChoiceNet(more, outs, places) ==
    LET into == {<<4, 1>>, <<4, 2>>, <<6, 3>>} \cup more IN
    [nevents |-> 4, nplaces |-> 3, nsignals |-> 0, ninpsig |-> 0,
     rules |-> into \cup outs,
     constraint |-> {},
     level |-> [r \in into |-> True(0)],
     marked |-> {r \in into : r[1] \in places},
     signal |-> [e \in 1 .. 3 |-> -1],
     rising |-> [e \in 1 .. 3 |-> TRUE],
     start |-> [s \in {} |-> "0"],
     dropped |-> Unused(1 .. 6, into \cup outs),
     keepgoing |-> FALSE, search |-> FALSE]

ChoiceNets == {ChoiceNet(more, outs, places) :
                  more \in SUBSET {<<5, 1>>, <<5, 2>>, <<5, 3>>, <<6, 2>>},
                  outs \in UNION {kSubset(n, (1 .. 3) \X (4 .. 6)) : n \in 0 .. 3},
                  places \in SUBSET (4 .. 6)}

-----------------------------------------------------------------------------
GameNets      == ShapeNets \cup RingNets \cup SignalNets
ExploreNets   == ShapeNets \cup SearchNets \cup RingNets \cup SignalNets
ReductionNets == ShapeNets \cup RingNets \cup ChoiceNets

=============================================================================
