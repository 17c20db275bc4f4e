---------------------------- MODULE TimedSamples ----------------------------
(***************************************************************************)
(* Families of small timed nets for TLC.                                   *)
(***************************************************************************)
EXTENDS LpnSamples

(* Event e fires within bounds[e].                                         *)
Timed(N, bounds) ==
    N @@ [lower |-> [r \in DOMAIN N.level |-> bounds[r[2]][1]],
          upper |-> [r \in DOMAIN N.level |-> bounds[r[2]][2]]]

Infinite  == 2147483647
Intervals == {<<0, 1>>, <<1, 2>>, <<2, 2>>, <<1, Infinite>>}

-----------------------------------------------------------------------------
(* Nets of three events (1, 2, 3) and two places (4, 5) without signals:   *)
(* forks and joins, choices, events that keep a token in place, loops that *)
(* never meet.                                                             *)
PlainNet(rules, tokens) ==
    LET into == {r \in rules : r[2] <= 3} IN
    [nevents |-> 4, nplaces |-> 2, nsignals |-> 0, ninpsig |-> 0,
     rules |-> rules, constraint |-> {},
     level |-> [r \in into |-> True(0)],
     marked |-> {r \in into : r \in tokens \/ <<r[1]>> \in tokens},
     signal |-> [e \in 1 .. 3 |-> -1],
     rising |-> [e \in 1 .. 3 |-> TRUE],
     start |-> [s \in {} |-> "0"], dropped |-> Unused(1 .. 5, rules)]

PlainNets ==
    {PlainNet({<<1, 2>>, <<1, 3>>, <<2, 1>>, <<3, 1>>}, {<<2, 1>>, <<3, 1>>}),
     PlainNet({<<1, 2>>, <<1, 3>>, <<2, 1>>, <<3, 1>>}, {<<1, 2>>, <<3, 1>>}),
     PlainNet({<<1, 2>>, <<2, 1>>, <<3, 3>>}, {<<2, 1>>, <<3, 3>>}),
     PlainNet({<<1, 2>>, <<2, 3>>, <<3, 1>>, <<1, 3>>, <<3, 2>>}, {<<3, 1>>, <<3, 2>>}),
     PlainNet({<<4, 1>>, <<4, 2>>, <<1, 5>>, <<2, 5>>, <<5, 3>>, <<3, 4>>}, {<<4>>}),
     PlainNet({<<4, 1>>, <<1, 4>>, <<4, 2>>, <<2, 3>>, <<3, 4>>}, {<<4>>}),
     PlainNet({<<4, 1>>, <<1, 4>>, <<4, 2>>, <<2, 4>>, <<3, 3>>}, {<<4>>, <<3, 3>>}),
     PlainNet({<<4, 1>>, <<4, 2>>, <<1, 4>>, <<2, 4>>, <<3, 1>>, <<1, 3>>}, {<<4>>, <<1, 3>>}),
     PlainNet({<<1, 4>>, <<4, 2>>, <<2, 5>>, <<5, 1>>, <<5, 3>>, <<3, 5>>}, {<<5>>})}

TimedPlain == {Timed(N, <<b1, b2, b3>>) :
                  N \in PlainNets, b1 \in Intervals, b2 \in Intervals, b3 \in Intervals}

-----------------------------------------------------------------------------
(* The two rings of LpnSamples: edges that wait for levels, lose them      *)
(* again and pass through states in which both edges are enabled.          *)
TimedRings == {Timed(RingNet(g1, g2, g3, g4, v, "0", 2), <<b0, b0, b1, b1>>) :
                  g1 \in Guards(1), g2 \in Guards(1), g3 \in Guards(0), g4 \in Guards(0),
                  v \in {"0", "1"}, b0 \in Intervals \ {<<1, 2>>}, b1 \in Intervals \ {<<1, 2>>}}

-----------------------------------------------------------------------------
(* Signal 2 follows signals 0 and 1 when both have changed, and they wait  *)
(* for it: events 1, 2 and 3, 4 and 5, 6 are the edges of the three.       *)
Both(value) == {[s \in 0 .. 2 |-> IF s = 2 THEN "X" ELSE value]}

JoinNet(ninpsig) ==
    LET rules == {<<2, 1>>, <<1, 2>>, <<4, 3>>, <<3, 4>>, <<6, 5>>, <<5, 6>>} IN
    [nevents |-> 7, nplaces |-> 0, nsignals |-> 3, ninpsig |-> ninpsig,
     rules |-> rules, constraint |-> {},
     level |-> [r \in rules |->
                   CASE r[2] \in {1, 3} -> Literal(3, 2, "0")
                     [] r[2] \in {2, 4} -> Literal(3, 2, "1")
                     [] r[2] = 5 -> Both("1") [] r[2] = 6 -> Both("0")],
     marked |-> {<<2, 1>>, <<4, 3>>, <<6, 5>>},
     signal |-> [e \in 1 .. 6 |-> (e - 1) \div 2],
     rising |-> [e \in 1 .. 6 |-> e \in {1, 3, 5}],
     start |-> [s \in 0 .. 2 |-> "0"], dropped |-> {}]

TimedJoins == {Timed(JoinNet(2), <<b0, b0, b1, b1, b2, b2>>) :
                  b0 \in Intervals, b1 \in Intervals, b2 \in Intervals}

-----------------------------------------------------------------------------
(* Event 1 starts 2 and 3, 2 starts 4, and event 5 repeats on its own: the *)
(* zone has keys for three enabled events.                                 *)
ForkNet ==
    LET rules == {<<1, 2>>, <<1, 3>>, <<2, 4>>, <<3, 1>>, <<4, 1>>, <<5, 5>>} IN
    [nevents |-> 6, nplaces |-> 0, nsignals |-> 0, ninpsig |-> 0,
     rules |-> rules, constraint |-> {},
     level |-> [r \in rules |-> True(0)],
     marked |-> {<<3, 1>>, <<4, 1>>, <<5, 5>>},
     signal |-> [e \in 1 .. 5 |-> -1],
     rising |-> [e \in 1 .. 5 |-> TRUE],
     start |-> [s \in {} |-> "0"], dropped |-> {}]

TimedForks == {Timed(ForkNet, <<<<0, 1>>, b2, b3, <<1, 2>>, b5>>) :
                  b2 \in Intervals, b3 \in {<<2, 2>>, <<1, Infinite>>}, b5 \in {<<1, 2>>, <<2, 2>>}}

-----------------------------------------------------------------------------
TimedNets == TimedPlain \cup TimedRings \cup TimedJoins \cup TimedForks

=============================================================================
