------------------------------ MODULE LpnAmple ------------------------------
(***************************************************************************)
(* The partial-order reduction of lpnrsg.c: the necessary set of a         *)
(* disabled event, the dependent set of an enabled one, and the ample set  *)
(* fired instead of all enabled events.  The recursions of the code share  *)
(* a set TD of events they may not pass through and a cache of the         *)
(* necessary sets found so far; here both are passed along.                *)
(***************************************************************************)
EXTENDS LpnConflict, SequencesExt

(* No event has number 0: what the cache holds for an event not yet met.   *)
Unknown == {0}

Cache(N, m) == [Event(N) -> (SUBSET m.enablings) \cup {Unknown}]

(* A loop of the code: step[x] takes its result past x, for each x of S in *)
(* index order.                                                            *)
InOrder(S, start, step) ==
    MapThenFoldSet(LAMBDA x, acc : step[x][acc], start, LAMBDA x : x, Max, S)

-----------------------------------------------------------------------------
(* Necessary sets: enabled events one of which fires before t is enabled,  *)
(* with the cycles met on the way (dirty), the cache, and whether nothing  *)
(* smaller can be found (stop).                                            *)
Answer(N, m) == [res : SUBSET m.enablings, dirty : SUBSET Event(N),
                 cache : Cache(N, m), stop : BOOLEAN]

Found(res, dirty, cache) ==
    [res |-> res, dirty |-> dirty, cache |-> cache, stop |-> FALSE]

Union(acc, new) ==
    Found(acc.res \cup new.res, acc.dirty \cup new.dirty, new.cache)

UpdateResult(acc, new) ==
    IF acc.res = {} \/ Cardinality(new.res) < Cardinality(acc.res)
    THEN [new EXCEPT !.stop = (new.res = {})]
    ELSE [acc EXCEPT !.cache = new.cache]

(* A search answers for the cache it starts with.  All of some searches,   *)
(* and the best of them up to one that finds nothing.                      *)
UnionOver(N, m, S, search) ==
    [cache \in Cache(N, m) |->
        InOrder(S, Found({}, {}, cache),
                [x \in S |-> [acc \in Answer(N, m) |-> Union(acc, search[x][acc.cache])]])]

BestOver(N, m, S, search) ==
    [cache \in Cache(N, m) |->
        InOrder(S, Found({}, {}, cache),
                [x \in S |-> [acc \in Answer(N, m) |->
                    IF acc.stop THEN acc ELSE UpdateResult(acc, search[x][acc.cache])]])]

(* The recursions; get[TD][t] is the search for the necessary set of t.    *)
TransitionRecurse(N, m, get, tp, TD) ==
    IF tp \in Event(N) THEN get[TD][tp]
    ELSE UnionOver(N, m, {j \in Event(N) : /\ <<j, tp>> \in N.rules
                                           /\ <<tp, j>> \notin N.rules}, get[TD])

(* The events that move signal s away from its value, none of them after   *)
(* another event of s.                                                     *)
LiteralRecurse(N, m, get, s, TD) ==
    UnionOver(N, m, Phase(N, s, IF Val(m.state[s]) = "1" THEN 1 ELSE 0,
                          EventsOf(N, s) \cap N.dropped),
              [k \in EventsOf(N, s) |-> get[TD \cup (EventsOf(N, s) \ {k})][k]])

AndRecurse(N, m, get, product, TD) ==
    BestOver(N, m, {s \in Signal(N) : product[s] \notin {"X", Val(m.state[s])}},
             [s \in Signal(N) |-> LiteralRecurse(N, m, get, s, TD)])

OrRecurse(N, m, get, r, TD) ==
    LET products == SetToSeq(N.level[r])
    IN  UnionOver(N, m, DOMAIN products,
                  [i \in DOMAIN products |-> AndRecurse(N, m, get, products[i], TD)])

(* A rule that keeps t from being enabled: for want of a token, of its     *)
(* level, or of both.                                                      *)
RuleRecurse(N, m, get, r, TD, acc) ==
    LET token == IF r \in m.marking THEN acc
                 ELSE UpdateResult(acc, TransitionRecurse(N, m, get, r[1], TD)[acc.cache])
    IN  IF token.stop \/ LevelSatisfied(N, r, m.state) THEN token
        ELSE IF N.level[r] = {} THEN [token EXCEPT !.stop = TRUE]
        ELSE UpdateResult(token, OrRecurse(N, m, get, r, TD)[token.cache])

RulesRecurse(N, m, get, t, TD) ==
    LET waiting == {r \in Markable(N) :
                       r[2] = t /\ ~MarkedAndSatisfied(N, m.marking, m.state, r)}
        before  == {r[1] : r \in waiting}
    IN  [cache \in Cache(N, m) |->
            InOrder(before, Found({}, {}, cache),
                    [tp \in before |-> [acc \in Answer(N, m) |->
                        IF acc.stop THEN acc
                        ELSE RuleRecurse(N, m, get, <<tp, t>>, TD, acc)]])]

GetNecessarySet(N, m) ==
    LET get[TD \in SUBSET Event(N)] ==
            [t \in Event(N) |-> [cache \in Cache(N, m) |->
                IF t \in TD THEN Found({}, {t}, cache)
                ELSE IF t \in m.enablings THEN Found({t}, {}, cache)
                ELSE IF cache[t] # Unknown THEN Found(cache[t], {}, cache)
                ELSE LET found == RulesRecurse(N, m, get, t, TD \cup {t})[cache]
                     IN  IF TD \cap found.dirty # {}
                         THEN Found(found.res, found.dirty, found.cache)
                         ELSE Found(found.res, {}, [found.cache EXCEPT ![t] = found.res])]]
    IN  get

-----------------------------------------------------------------------------
(* The dependent set of i: every enabled event in conflict with a member,  *)
(* and for one that is not enabled, what is necessary to enable it.  It is *)
(* added to the events given, with the cache that is then left.            *)
Partial(N, m) == [ample : SUBSET m.enablings, cache : Cache(N, m)]

(* One of S after the other, if it is not there by then.                   *)
AddEach(N, m, dependent, S, acc) ==
    InOrder(S, acc, [k \in S |-> [part \in Partial(N, m) |->
                        IF k \in part.ample THEN part ELSE dependent[k][part]]])

(* What i asks for because of j, which is in conflict with it.             *)
AddFor(N, m, dependent, i, j, acc) ==
    LET barred    == IF N.signal[i] >= 0 THEN EventsOf(N, N.signal[i]) ELSE {i}
        necessary == GetNecessarySet(N, m)[barred][j][acc.cache]
    IN  IF j \in m.enablings THEN AddEach(N, m, dependent, {j}, acc)
        ELSE AddEach(N, m, dependent, necessary.res, [acc EXCEPT !.cache = necessary.cache])

GetDependentSet(N, m) ==
    LET dependent[i \in m.enablings] ==
            [given \in Partial(N, m) |->
                LET others == {j \in Event(N) : Conflict(N, i, j)}
                IN  InOrder(others, [given EXCEPT !.ample = @ \cup {i}],
                            [j \in others |-> [acc \in Partial(N, m) |->
                                AddFor(N, m, dependent, i, j, acc)]])]
    IN  dependent

-----------------------------------------------------------------------------
NothingKnown(N) == [t \in Event(N) |-> Unknown]

(* Faulty: the seed itself is left out, and the last set is taken.         *)
AmpleSeedless(N, m) ==
    LET Try(best, i) ==
            LET dep == GetDependentSet(N, m)[i][[best EXCEPT !.ample = {}]]
            IN  [dep EXCEPT !.ample = @ \ {i}]
    IN  IF Cardinality(m.enablings) = 1 THEN m.enablings
        ELSE InOrder(m.enablings, [ample |-> m.enablings, cache |-> NothingKnown(N)],
                     [i \in m.enablings |-> [best \in Partial(N, m) |-> Try(best, i)]]).ample

(* The smallest dependent set of an enabled event, the first of them if it *)
(* is not the only one; all enabled events if none is smaller.             *)
GetAmpleSet(N, m) ==
    LET Try(best, i) ==
            LET dep == GetDependentSet(N, m)[i][[best EXCEPT !.ample = {}]]
            IN  IF Cardinality(dep.ample) < Cardinality(best.ample) THEN dep
                ELSE [best EXCEPT !.cache = dep.cache]
    IN  IF Cardinality(m.enablings) = 1 THEN m.enablings
        ELSE InOrder(m.enablings, [ample |-> m.enablings, cache |-> NothingKnown(N)],
                     [i \in m.enablings |-> [best \in Partial(N, m) |-> Try(best, i)]]).ample

=============================================================================
