------------------------------ MODULE LpnZone ------------------------------
(***************************************************************************)
(* The zones of the timed exploration of LPNs (lpn_rsg with bap).  A zone  *)
(* has a key for each event that has fired and may still be the cause of   *)
(* an enabled one, in firing order, and bounds the differences of their    *)
(* firing times: time(i) - time(j) <= clocks[<<i, j>>].  The nets have two *)
(* more fields, the bounds of the delay of each rule:                      *)
(*                                                                         *)
(*   lower, upper       functions on the rules into events                 *)
(***************************************************************************)
EXTENDS LpnNet, SequencesExt

INFIN == 2147483647

Size(zone)    == Len(zone.keys)
Indices(n)    == (1 .. n) \X (1 .. n)
Causal(N)     == N.rules \ N.constraint
OfEvent(N, e) == {r \in Markable(N) : r[2] = e}

(* The numbers of a set in increasing order.                               *)
Sorted(S) == [l \in 1 .. Cardinality(S) |-> CHOOSE x \in S : Cardinality({y \in S : y < x}) = l - 1]

(* The rules that carry a token of event f to event e, itself or through a *)
(* place.                                                                  *)
Direct(N, f, e) == {r \in Causal(N) : r = <<f, e>>}
Places(N, f, e) ==
    {r \in Causal(N) : r[1] \in Place(N) /\ r[2] = e /\ <<f, r[1]>> \in N.rules}
Path(N, f, e) == IF Direct(N, f, e) # {} THEN Direct(N, f, e) ELSE Places(N, f, e)

-----------------------------------------------------------------------------
(* Matrices                                                                *)

(* Op(v).  TLC computes v, and the entries of the result, only once.       *)
With(v, Op(_)) == CHOOSE y \in {Op(x) : x \in {v}} : y = y

Sum(a, b) == IF a = INFIN \/ b = INFIN THEN INFIN ELSE a + b

Through(n, clocks, k) ==
    With(clocks, LAMBDA c :
        [x \in Indices(n) |->
            LET other == Sum(c[<<x[1], k>>], c[<<k, x[2]>>])
            IN  IF c[x] > other THEN other ELSE c[x]])

(* Faulty: the first clock is left out.                                    *)
RecanocalizeShort(n, clocks) ==
    LET phase[k \in 0 .. n] == IF k <= 1 THEN clocks ELSE Through(n, phase[k - 1], k)
    IN  phase[n]

(* Floyd's algorithm.  A phase is taken at once: it changes no entry that  *)
(* it reads as long as the zone is consistent.                             *)
Recanocalize(n, clocks) ==
    LET phase[k \in 0 .. n] == IF k = 0 THEN clocks ELSE Through(n, phase[k - 1], k)
    IN  phase[n]

-----------------------------------------------------------------------------
(* Causes.  The zone does not store what made an event enabled: the latest *)
(* key is looked for that has a rule to the event, or without whose change *)
(* of a signal a level of the event would not hold.                        *)

(* Faulty: a signal that is enabled to fall counts as low.                 *)
UndoneStable(N, keys, state, j) ==
    [s \in Signal(N) |->
        LET n == Cardinality({k \in j .. Len(keys) : N.signal[keys[k]] = s})
        IN  IF n = 0 THEN state[s]
            ELSE IF (state[s] = "1") # (n % 2 = 1) THEN "1" ELSE "0"]

(* The state with the changes of signals by the keys from j on undone.     *)
Undone(N, keys, state, j) ==
    [s \in Signal(N) |->
        LET n == Cardinality({k \in j .. Len(keys) : N.signal[keys[k]] = s})
        IN  IF n = 0 THEN state[s]
            ELSE IF (state[s] \in {"1", "F"}) # (n % 2 = 1) THEN "1" ELSE "0"]

Unsatisfied(N, keys, state, e, j) ==
    IF N.signal[keys[j]] < 0 THEN {}
    ELSE {r \in OfEvent(N, e) : ~LevelSatisfied(N, r, Undone(N, keys, state, j))}

(* Faulty: the earliest key is taken.                                      *)
EarliestCause(N, keys, state, e) ==
    LET causes == {j \in DOMAIN keys :
                      \/ Path(N, keys[j], e) # {}
                      \/ Unsatisfied(N, keys, state, e, j) # {}}
    IN  IF causes = {} THEN 0 ELSE Min(causes)

(* BIG ASSUMPTION: LATEST EVENT IS CAUSAL.  0: no key is a cause.          *)
Cause(N, keys, state, e) ==
    LET causes == {j \in DOMAIN keys :
                      \/ Path(N, keys[j], e) # {}
                      \/ Unsatisfied(N, keys, state, e, j) # {}}
    IN  IF causes = {} THEN 0 ELSE Max(causes)

(* The rule whose bounds are set: the first in the order of the code.      *)
CauseRule(N, keys, state, e, j) ==
    LET rules == IF Path(N, keys[j], e) # {} THEN Path(N, keys[j], e)
                 ELSE Unsatisfied(N, keys, state, e, j)
    IN  CHOOSE r \in rules : \A q \in rules : r[1] <= q[1]

(* lpn_find_causal, for the clock i of event e.                            *)
FindCausal(N, keys, state, e, i, clocks) ==
    LET j == Cause(N, keys, state, e)
        r == CauseRule(N, keys, state, e, j)
    IN  IF j = 0 THEN clocks
        ELSE [clocks EXCEPT
                 ![<<i, j>>] = N.upper[r],
                 ![<<j, i>>] = IF Direct(N, keys[j], e) # {} THEN @ ELSE -N.lower[r]]

(* lpn_find_largest, for the initial zone: only a rule between the events  *)
(* has a chance.  For a cause through a place the code compares the bound  *)
(* of the rule that there is not, which is 0.                              *)
FindLargest(N, keys, e, i, clocks) ==
    LET upper(j) == N.upper[<<keys[j], e>>]
        direct == {j \in DOMAIN keys : Direct(N, keys[j], e) # {} /\ upper(j) > 0}
        widest == {j \in direct : \A k \in direct : upper(k) <= upper(j)}
    IN  IF direct = {} THEN clocks
        ELSE [clocks EXCEPT ![<<i, Min(widest)>>] = upper(Min(widest))]

(* The key i is the cause of e.                                            *)
IsCausal(N, keys, mk, e, i) ==
    /\ \A j \in (i + 1) .. Len(keys) :
          /\ Path(N, keys[j], e) = {}
          /\ Unsatisfied(N, keys, mk.state, e, j) \subseteq N.constraint
    /\ \/ (Direct(N, keys[i], e) \cup Places(N, keys[i], e)) \cap mk.marking # {}
       \/ Unsatisfied(N, keys, mk.state, e, i) \ N.constraint # {}

-----------------------------------------------------------------------------
(* Zones                                                                   *)

(* A clock i for event e: it is not before any key, and the lower bounds   *)
(* of the rules from the keys hold.  The last place there is decides.      *)
LowerBound(N, f, e, none) ==
    LET path == Path(N, f, e)
    IN  IF path = {} THEN none
        ELSE -N.lower[CHOOSE r \in path : \A q \in path : q[1] <= r[1]]

Extended(N, zone, e) ==
    LET n == Size(zone)
        i == n + 1
    IN  [x \in Indices(i) |->
            CASE x[1] <= n /\ x[2] <= n -> zone.clocks[x]
              [] x[1] <= n /\ x[2] = i -> LowerBound(N, zone.keys[x[1]], e, 0)
              [] x[1] = i /\ x[2] <= n -> INFIN
              [] x = <<i, i>> -> 0]

ExtendZone(N, zone, e, state, initial) ==
    LET i == Size(zone) + 1
        Bounded(clocks) ==
            IF initial THEN FindLargest(N, zone.keys, e, i, clocks)
            ELSE FindCausal(N, zone.keys, state, e, i, clocks)
    IN  [keys   |-> Append(zone.keys, e),
         clocks |-> Recanocalize(i, With(Extended(N, zone, e), Bounded))]

(* The keys that are the cause of an enabled event.                        *)
Needed(N, keys, mk) ==
    {i \in DOMAIN keys : \E e \in mk.enablings : IsCausal(N, keys, mk, e, i)}

(* The members of a sequence and the entries of a matrix at given indices. *)
Select(seq, order)  == [l \in DOMAIN order |-> seq[order[l]]]
Submatrix(m, order) == [x \in Indices(Len(order)) |-> m[<<order[x[1]], order[x[2]]>>]]

(* Faulty: only the keys are removed.                                      *)
ProjectKeys(N, zone, mk) ==
    With(Sorted(Needed(N, zone.keys, mk)), LAMBDA order :
        [keys |-> Select(zone.keys, order), clocks |-> zone.clocks])

ProjectZone(N, zone, mk) ==
    With(Sorted(Needed(N, zone.keys, mk)), LAMBDA order :
        [keys |-> Select(zone.keys, order), clocks |-> Submatrix(zone.clocks, order)])

(* What is left of the extension in the zone that was extended: the code   *)
(* works in the matrix of the marking it explores.                         *)
Tightened(zone, extended) ==
    [zone EXCEPT !.clocks = [x \in Indices(Size(zone)) |-> extended.clocks[x]]]

(* The events whose tokens are in the initial marking, all at time 0.      *)
FindInitialZone(N, marking) ==
    LET old  == {f \in Event(N) : \E r \in marking :
                    r = <<f, r[2]>> \/ (r[1] \in Place(N) /\ <<f, r[1]>> \in N.rules)}
        keys == Sorted(old)
    IN  [keys |-> keys, clocks |-> [x \in Indices(Len(keys)) |-> 0]]

(* The zone with a clock for each enabled event.                           *)
WithEnabled(N, zone, keys, mk, initial) ==
    LET n     == Size(zone)
        start == [x \in Indices(Len(keys)) |->
                     IF x[1] <= n /\ x[2] <= n THEN zone.clocks[x]
                     ELSE IF x[1] = x[2] THEN 0 ELSE INFIN]
        Low(clocks, i) == [x \in DOMAIN clocks |->
                              IF x[2] = i /\ x[1] <= n
                              THEN LowerBound(N, keys[x[1]], keys[i], INFIN) ELSE clocks[x]]
        Bounded(clocks, i) ==
            With(clocks, LAMBDA c :
                IF initial THEN FindLargest(N, zone.keys, keys[i], i, Low(c, i))
                ELSE FindCausal(N, zone.keys, mk.state, keys[i], i, Low(c, i)))
        bounded[i \in n .. Len(keys)] ==
            IF i = n THEN start ELSE Bounded(bounded[i - 1], i)
    IN  [keys   |-> keys,
         clocks |-> Recanocalize(Len(keys), bounded[Len(keys)])]

(* Faulty: an event has to be able to fire before every other.             *)
FirstStrictly(all, n) ==
    {all.keys[i] : i \in {k \in (n + 1) .. Size(all) :
         \A j \in (n + 1) .. Size(all) : j # k => all.clocks[<<j, k>>] > 0}}

First(all, n) ==
    {all.keys[i] : i \in {k \in (n + 1) .. Size(all) :
         \A j \in (n + 1) .. Size(all) : all.clocks[<<j, k>>] >= 0}}

(* The enabled events that can fire first in time.                         *)
GetFireable(N, zone, mk, initial) ==
    With(zone.keys \o Sorted(mk.enablings), LAMBDA keys :
        With(WithEnabled(N, zone, keys, mk, initial), LAMBDA all : First(all, Size(zone))))

=============================================================================
