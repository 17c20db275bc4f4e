----------------------------- MODULE LpnConflict -----------------------------
(***************************************************************************)
(* The conflicts that the loader finds between the events of a net: those  *)
(* over a place and those over a level.  The partial-order reduction       *)
(* works with them and with nothing else.                                  *)
(***************************************************************************)
EXTENDS LpnExplore

EventsOf(N, s) == {e \in Event(N) : N.signal[e] = s}

(* The events of signal s of one phase (0: rising, 1: falling), which the  *)
(* loader numbers alternately, up to the first of stops.                   *)
Phase(N, s, offset, stops) ==
    {k \in EventsOf(N, s) :
        LET first == (CHOOSE f \in EventsOf(N, s) :
                         \A g \in EventsOf(N, s) : f <= g) + offset
        IN  /\ k >= first /\ (k - first) % 2 = 0
            /\ \A l \in first .. k : (l - first) % 2 = 0 =>
                  N.signal[l] = s /\ l \notin stops}

-----------------------------------------------------------------------------
(* Conflicts, as extract_rules finds them                                  *)

(* Only the first place that i and j share is looked at.                   *)
StealConflict(N, i, j) ==
    \E p \in Place(N) :
        /\ <<p, i>> \in N.rules /\ <<p, j>> \in N.rules
        /\ \A q \in Place(N) :
              <<q, i>> \in N.rules /\ <<q, j>> \in N.rules => p <= q
        /\ <<i, p>> \notin N.rules \/ <<j, p>> \notin N.rules

(* Faulty: no two events meet in a place.                                  *)
NoMergeConflict(N, i, j) == FALSE

MergeConflict(N, i, j) ==
    \E p \in Place(N) : <<i, p>> \in N.rules /\ <<j, p>> \in N.rules

(* Faulty: the phases are exchanged.                                       *)
LevelConflictPhase(N, i, j) ==
    \E r \in Markable(N) : r[2] = j /\
        \E product \in N.level[r] : \E s \in Signal(N) :
            /\ product[s] \in {"0", "1"}
            /\ i \in Phase(N, s, IF product[s] = "0" THEN 1 ELSE 0, {j})

(* i moves a signal away from the value that a level of j asks for.        *)
LevelConflict(N, i, j) ==
    \E r \in Markable(N) : r[2] = j /\
        \E product \in N.level[r] : \E s \in Signal(N) :
            /\ product[s] \in {"0", "1"}
            /\ i \in Phase(N, s, IF product[s] = "0" THEN 0 ELSE 1, {j})

(* The ample sets do not tell one kind of conflict from another.           *)
Conflict(N, i, j) ==
    /\ i # j
    /\ \/ StealConflict(N, i, j) \/ MergeConflict(N, i, j)
       \/ LevelConflict(N, i, j) \/ LevelConflict(N, j, i)

-----------------------------------------------------------------------------
(* Of two enabled events of which one takes a token the other needs, each  *)
(* is in conflict with the other, though the loader looks at one place     *)
(* only.                                                                   *)
Steals(N, i, j) ==
    \E r \in Markable(N) : r[2] = j /\ r \in FanIn(N, i) \ FanOut(N, i)
ThievesConflict ==
    \A m \in Table : \A i, j \in m.enablings :
        i # j /\ Steals(net, i, j) => Conflict(net, i, j) /\ Conflict(net, j, i)

=============================================================================
