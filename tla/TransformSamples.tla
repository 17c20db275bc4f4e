-------------------------- MODULE TransformSamples --------------------------
(***************************************************************************)
(* Nets for the transformations, with their abstract events.               *)
(***************************************************************************)
EXTENDS Integers, FiniteSetsExt, TLC

Some(n, set) == UNION {kSubset(k, set) : k \in 1 .. n}

(* A literal of a signal, or of none.                                      *)
Guard(nsignals, signal, value) ==
    {[s \in 0 .. (nsignals - 1) |-> IF s = signal THEN value ELSE "X"]}

-----------------------------------------------------------------------------
(* Nets of dummy events: a shape gives the places before and after each.   *)
ShapeNet(nevents, nplaces, shape, places, abstract, two) ==
    LET events == 1 .. (nevents - 1)
        all    == nevents .. (nevents + nplaces - 1)
        into   == {r \in all \X events : r[1] \in shape.ins[r[2]]}
        from   == {r \in events \X all : r[2] \in shape.outs[r[1]]} IN
    [nevents |-> nevents, nplaces |-> nplaces, nsignals |-> 0, ninpsig |-> 0,
     rules |-> into \cup from,
     constraint |-> {},
     level |-> [r \in into |-> Guard(0, 0, "X")],
     marked |-> {r \in into : r[1] \in places},
     signal |-> [e \in events |-> -1],
     rising |-> [e \in events |-> TRUE],
     start |-> [s \in {} |-> "0"],
     dropped |-> {i \in events \cup all : \A r \in into \cup from : i \notin {r[1], r[2]}},
     abstract |-> abstract, xform2 |-> two]

(* A token is recorded by the rules out of its place: every place has some.*)
AllConsumed(shape) ==
    UNION {shape.outs[e] : e \in DOMAIN shape.outs}
        \subseteq UNION {shape.ins[e] : e \in DOMAIN shape.ins}

NoSelfLoop(shape, t) == shape.ins[t] \cap shape.outs[t] = {}

(* No event produces both before and after an abstract event.              *)
ProducedOnce(shape, t) ==
    \A u \in DOMAIN shape.outs \ {t} :
        \/ shape.outs[u] \cap shape.ins[t] = {}
        \/ shape.outs[u] \cap shape.outs[t] = {}

Removable(shape, abstract) ==
    \A t \in abstract : NoSelfLoop(shape, t) /\ ProducedOnce(shape, t)

(* Three events and up to three places.                                    *)
Shapes3(n) ==
    {shape \in {[ins |-> <<a, b, c>>, outs |-> <<d, e, f>>] :
                    a \in Some(2, 4 .. 6), b \in Some(n, 4 .. 6), c \in Some(1, 4 .. 6),
                    d \in Some(2, 4 .. 6), e \in Some(n, 4 .. 6), f \in Some(1, 4 .. 6)} :
        AllConsumed(shape)}

Nets3(n, marked, Allowed(_, _)) ==
    {ShapeNet(4, 3, x[1], x[2], x[3], x[4]) :
        x \in {y \in Shapes3(n) \X marked \X {{1}, {1, 2}} \X BOOLEAN :
                   Allowed(y[1], y[3])}}

(* Four events and four places, with a fork, which may be a choice too.    *)
Shapes4(n) ==
    {shape \in {[ins |-> <<{5}, a, {6, 7}, d>>, outs |-> <<{6, 7}, b, c, e>>] :
                    a \in {{5}, {8}}, b \in Some(1, 5 .. 8), c \in Some(1, 5 .. 8),
                    d \in Some(n, 5 .. 8), e \in Some(n, 5 .. 8)} :
        AllConsumed(shape)}

Nets4(n, marked) ==
    {ShapeNet(5, 4, x[1], x[2], x[3], TRUE) :
        x \in {y \in Shapes4(n) \X marked \X {{1}, {1, 4}} :
                   Removable(y[1], y[3])}}

-----------------------------------------------------------------------------
(* Nets without places: the edges of signals 0 (events 1, 2) and 1 (3, 4)  *)
(* and the dummy events 5, 6, one after the other or two by two, with a    *)
(* guard on the rising edges of signal 1 and a constraint rule.            *)
Ring == {<<5, 1>>, <<1, 3>>, <<3, 6>>, <<6, 2>>, <<2, 4>>, <<4, 5>>}
Fork == {<<5, 1>>, <<5, 3>>, <<1, 6>>, <<3, 6>>, <<6, 2>>, <<6, 4>>, <<2, 5>>, <<4, 5>>}
Late == {<<1, 5>>, <<3, 5>>, <<5, 2>>, <<5, 4>>, <<2, 6>>, <<4, 6>>, <<6, 1>>, <<6, 3>>}

EdgeNet(rules, marked, guard, constraint, start, ninpsig, two) ==
    [nevents |-> 7, nplaces |-> 0, nsignals |-> 2, ninpsig |-> ninpsig,
     rules |-> rules,
     constraint |-> constraint,
     level |-> [r \in rules |-> IF r[2] = 3 THEN guard ELSE Guard(2, -1, "X")],
     marked |-> marked,
     signal |-> [e \in 1 .. 6 |-> IF e <= 2 THEN 0 ELSE IF e <= 4 THEN 1 ELSE -1],
     rising |-> [e \in 1 .. 6 |-> e \in {1, 3}],
     start |-> [s \in 0 .. 1 |-> start[s + 1]],
     dropped |-> {},
     abstract |-> {5, 6}, xform2 |-> two]

EdgeNets(ninpsig) ==
    UNION {{EdgeNet(rules, marked, guard, constraint, start, ninpsig, two) :
                marked \in IF rules = Ring THEN Some(1, rules) ELSE kSubset(2, rules),
                guard \in {Guard(2, -1, "X"), Guard(2, 0, "1")},
                constraint \in {{}} \cup Some(1, rules \cap {<<1, 3>>, <<5, 3>>, <<3, 5>>}),
                start \in {<<"0", "0">>, <<"1", "0">>},
                two \in BOOLEAN} :
           rules \in {Ring, Fork, Late}}

=============================================================================
