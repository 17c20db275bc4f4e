---------------------------- MODULE LpnTokenGame ----------------------------
(***************************************************************************)
(* The token game of one loaded net: from the initial marking, any enabled *)
(* event may be fired by lpn_find_new_marking, which either returns a new  *)
(* marking or reports a failure, after which the game is over.  Every      *)
(* exploration of the net walks this graph, whatever its order.            *)
(***************************************************************************)
EXTENDS LpnNet

CONSTANT Nets          \* the nets the loader may have produced
ASSUME NetsAssumption == \A N \in Nets : LoadedNet(N)

VARIABLES
    net,     \* the loaded net, which the game only reads
    mk,      \* the current marking
    failed   \* a failure has been reported

vars == <<net, mk, failed>>

(* With no initial marking there is nothing to fire: the game ends at once.*)
Init ==
    /\ net \in Nets
    /\ failed = NoInitialMarking(net)
    /\ mk = IF failed
            THEN [marking |-> net.marked, state |-> net.start, enablings |-> {}]
            ELSE InitialMarking(net)

Fire(e) ==
    /\ ~failed
    /\ e \in mk.enablings
    /\ ~Fails(net, mk, e)
    /\ mk' = FindNewMarking(net, mk, e)
    /\ UNCHANGED <<net, failed>>

Fail(e) ==
    /\ ~failed
    /\ e \in mk.enablings
    /\ Fails(net, mk, e)
    /\ failed' = TRUE
    /\ UNCHANGED <<net, mk>>

Next == \E e \in Event(net) : Fire(e) \/ Fail(e)

Spec == Init /\ [][Next]_vars

-----------------------------------------------------------------------------
TypeOK ==
    /\ net \in Nets
    /\ mk \in Marking(net)
    /\ failed \in BOOLEAN

(* The bits of all rules out of one place are equal in every marking: the  *)
(* place has a token or it has none.  lpn_fire_transition clears and sets  *)
(* them rule by rule.                                                      *)
PlaceUniform ==
    \A r, s \in Markable(net) :
        SamePlace(net, r, s) => (r \in mk.marking <=> s \in mk.marking)

(* A signal is coded as changing exactly when an event of it is enabled,   *)
(* and an output is coded with the edge of every one of its enabled events:*)
(* opposite edges are never enabled together.  Hence no enabled event can  *)
(* fail as a vacuous transition.                                           *)
CodesMatchEnablings ==
    /\ \A s \in Signal(net) :
          mk.state[s] \in {"R", "F"} <=> \E e \in mk.enablings : net.signal[e] = s
    /\ \A e \in mk.enablings : net.signal[e] \in Output(net) =>
          mk.state[net.signal[e]] = (IF net.rising[e] THEN "R" ELSE "F")

(* The enablings stored with a marking are those of its marking and state, *)
(* although they were computed before the state was recoded.  The state    *)
(* table identifies markings by marking and state alone.                   *)
EnablingsCurrent ==
    failed \/ mk.enablings = EventsEnabled(net, mk.marking, mk.state)

(* Semi-modularity, unless disablings are only warnings: at most one       *)
(* output event leaves the enabled set in a step, and it has fired: its    *)
(* signal has taken the new value.                                         *)
LeavesEnabled == {e \in mk.enablings \ mk'.enablings : net.signal[e] \in Output(net)}
Reached(e)    == Val(mk'.state[net.signal[e]]) = IF net.rising[e] THEN "1" ELSE "0"
OutputsPersist ==
    [][ ~(Disabling \/ NoFail) =>
            \A e, f \in LeavesEnabled : e = f /\ Reached(e) ]_vars

(* An output has the value of its last fired event: no step changes two    *)
(* outputs, and one that changes fires an event that was enabled.          *)
OutputsChangeByFiring ==
    [][ \A s, t \in Output(net) :
          Val(mk'.state[s]) # Val(mk.state[s]) =>
             /\ mk.state[s] \in {"R", "F"}
             /\ Val(mk'.state[t]) # Val(mk.state[t]) => s = t ]_vars

(* The game played on bits is the game played on tokens: see PetriNet.     *)
Abstract == INSTANCE PetriNet WITH
    tokens  <- {Cell(net, r) : r \in mk.marking},
    outputs <- [s \in Output(net) |-> Val(mk.state[s])]

AbstractSpec == Abstract!Spec

=============================================================================
