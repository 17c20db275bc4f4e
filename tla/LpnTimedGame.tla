---------------------------- MODULE LpnTimedGame ----------------------------
(***************************************************************************)
(* The timed exploration of an LPN (lpn_rsg with bap) along one timed run  *)
(* of the net.  The run chooses the delay before each firing; the zones    *)
(* are what the code computes on the same path, and they never see the     *)
(* delays.  The state table, which cuts a path at a zone it has stored, is *)
(* ZoneList.                                                               *)
(*                                                                         *)
(* Time is counted in units of the bounds: these are integers and closed,  *)
(* so that the runs with integer delays take every order of firings there  *)
(* is.  Each event has one pair of bounds, that of all rules to it: it     *)
(* fires between lower and upper after it became enabled.  Rules with      *)
(* different bounds, constraint rules, alternatives in a level and levels  *)
(* of an event over its own signal break the assumption that the latest    *)
(* event is causal, and are left out.  No time of a run and no sum of the  *)
(* bounds on its path reaches INFIN: the code does not check its sums.     *)
(***************************************************************************)
EXTENDS LpnZone

CONSTANTS
    Nets,
    MaxBound,      \* bound: the finite bounds of the delays of rules
    MaxDelay,      \* bound: the delay before a firing
    MaxFirings     \* bound: the firings of a run

Simple(N) ==
    /\ N.constraint = {}
    /\ \A e \in Event(N) : e \in N.dropped \/ OfEvent(N, e) # {}
    /\ \A r, q \in Markable(N) : r[2] = q[2] =>
          N.lower[r] = N.lower[q] /\ N.upper[r] = N.upper[q]
    /\ \A r \in Markable(N) :
          /\ 0 <= N.lower[r] /\ N.lower[r] <= N.upper[r] /\ N.upper[r] <= INFIN
          /\ \A p, q \in N.level[r] : p = q
          /\ \A p \in N.level[r] :
                N.signal[r[2]] >= 0 => p[N.signal[r[2]]] = "X"

ASSUME NetsAssumption ==
    /\ MaxBound \in Nat /\ MaxDelay \in Nat /\ MaxFirings \in Nat
    /\ MaxBound + MaxDelay * (MaxFirings + 1) <= INFIN
    /\ \A N \in Nets :
          /\ LoadedNet(N) /\ Simple(N)
          /\ N.lower \in [Markable(N) -> Nat] /\ N.upper \in [Markable(N) -> Nat]
          /\ \A r \in Markable(N) : /\ N.lower[r] <= MaxBound
                                    /\ N.upper[r] <= MaxBound \/ N.upper[r] = INFIN
          /\ 2 * (MaxBound * (N.nevents * MaxFirings)) < INFIN

VARIABLES
    net,
    pc,        \* "start" or "explore"
    mk,        \* the marking being explored
    zone,      \* its zone
    fireable,  \* its fire list
    initial,   \* the flag initial: nothing has been fired
    age,       \* history: for each rule, the time it has been marked with its level true
    ago,       \* history: the time since the firing of each key of the zone
    elapsed,   \* history: the time since the start
    firings

vars == <<net, pc, mk, zone, fireable, initial, age, ago, elapsed, firings>>

NoZone == [keys |-> <<>>, clocks |-> <<>>]

Init ==
    /\ net \in Nets
    /\ pc = "start"
    /\ mk = [marking |-> {}, state |-> net.start, enablings |-> {}]
    /\ zone = NoZone /\ fireable = {} /\ initial = TRUE
    /\ age = [r \in Markable(net) |-> 0] /\ ago = <<>> /\ elapsed = 0
    /\ firings = 0

FindInitial ==
    /\ pc = "start" /\ ~NoInitialMarking(net)
    /\ pc' = "explore"
    /\ mk' = InitialMarking(net)
    /\ zone' = FindInitialZone(net, mk'.marking)
    /\ fireable' = GetFireable(net, zone', mk', TRUE)
    /\ ago' = [i \in DOMAIN zone'.keys |-> 0]
    /\ UNCHANGED <<net, initial, age, elapsed, firings>>

Lower(e) == CHOOSE b \in {net.lower[r] : r \in OfEvent(net, e)} : TRUE
Upper(e) == CHOOSE b \in {net.upper[r] : r \in OfEvent(net, e)} : TRUE

(* The time since e became enabled.                                        *)
Enabled(e) == Min({age[r] : r \in OfEvent(net, e)})

(* e can fire after d units of time: no enabled event misses its deadline. *)
InTime(e, d) ==
    /\ e \in mk.enablings
    /\ Enabled(e) + d >= Lower(e)
    /\ \A f \in mk.enablings : Enabled(f) + d <= Upper(f)

Delays == 0 .. MaxDelay

(* The run itself: e fires after d units of time, the keys kept are given. *)
Pass(e, d, kept) ==
    /\ ago' = Select(Append([i \in DOMAIN ago |-> ago[i] + d], 0), kept)
    /\ age' = [r \in Markable(net) |->
                  IF \/ r \in FanOut(net, e)
                     \/ ~MarkedAndSatisfied(net, mk.marking, mk.state, r)
                     \/ ~MarkedAndSatisfied(net, mk'.marking, mk'.state, r)
                  THEN 0 ELSE age[r] + d]
    /\ elapsed' = elapsed + d

(* Each firing leaves its mark on the matrix that the next one of the fire *)
(* list starts from.                                                       *)
After(z, f) == Tightened(z, ExtendZone(net, z, f, FindNewMarking(net, mk, f).state, initial))
ZoneBefore(e) ==
    LET before[f \in 0 .. (e - 1)] ==
            IF f = 0 THEN zone
            ELSE IF f \in fireable THEN With(before[f - 1], LAMBDA z : After(z, f))
            ELSE before[f - 1]
    IN  before[e - 1]

(* The fire list is taken in index order; a failed firing ends the         *)
(* exploration.  A new zone that is not consistent would be passed over:   *)
(* ZoneCanonical shows that there is none.                                 *)
Fire(e) ==
    /\ firings < MaxFirings
    /\ e \in fireable
    /\ \E d \in Delays : InTime(e, d)
    /\ \A f \in fireable : f <= e => ~Fails(net, mk, f)
    /\ mk' = FindNewMarking(net, mk, e)
    /\ \E before \in {ZoneBefore(e)} :
       \E all \in {ExtendZone(net, before, e, mk'.state, initial)} :
          /\ zone' = ProjectZone(net, all, mk')
          /\ \E d \in Delays : InTime(e, d) /\ Pass(e, d, Sorted(Needed(net, all.keys, mk')))
    /\ initial' = FALSE
    /\ fireable' = GetFireable(net, zone', mk', FALSE)
    /\ firings' = firings + 1
    /\ UNCHANGED <<net, pc>>

Next == FindInitial \/ \E e \in fireable : Fire(e)

Spec == Init /\ [][Next]_vars

-----------------------------------------------------------------------------
(* The matrix, the keys and the history of a zone have the same size.      *)
TypeOK ==
    /\ pc \in {"start", "explore"}
    /\ mk \in Marking(net)
    /\ zone.keys \in Seq(Event(net))
    /\ DOMAIN zone.clocks = Indices(Size(zone))
    /\ \A x \in Indices(Size(zone)) : zone.clocks[x] \in Int
    /\ fireable \subseteq mk.enablings
    /\ initial = (firings = 0)
    /\ DOMAIN ago = DOMAIN zone.keys

(* Nothing is lost by lpn_extend_zone and lpn_project_zone: the times of   *)
(* the run satisfy the zone computed on its path, whatever was fired       *)
(* before in the same matrix and whatever was projected away.              *)
TimesInZone ==
    \A i, j \in DOMAIN ago : ago[j] - ago[i] <= zone.clocks[<<i, j>>]

(* Every event that can fire next in time is in the fire list that         *)
(* lpn_get_fireable computed, so that no timed behaviour is cut off.       *)
FireableInTime ==
    \A e \in mk.enablings : (\E d \in Delays : InTime(e, d)) => e \in fireable

(* The zones that are stored and compared entry by entry are canonical:    *)
(* equal sets of times have equal matrices.  None is found inconsistent.   *)
ZoneCanonical ==
    LET c == zone.clocks
    IN  \A i, j, k \in DOMAIN zone.keys :
            c[<<i, i>>] = 0 /\ c[<<i, j>>] <= Sum(c[<<i, k>>], c[<<k, j>>])

(* What the zone does not store is found again: the key taken for the      *)
(* cause of an enabled event fired when the event became enabled, and an   *)
(* event without a cause has been enabled since the start.                 *)
CausesRight ==
    \A e \in mk.enablings :
        LET j == Cause(net, zone.keys, mk.state, e)
        IN  Enabled(e) = IF j = 0 THEN elapsed ELSE ago[j]

=============================================================================
