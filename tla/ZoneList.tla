------------------------------ MODULE ZoneList ------------------------------
(***************************************************************************)
(* The zones stored with one timed state: the linked list that find_state  *)
(* scans and edits when a zone is added to a state it has already stored,  *)
(* and the count of zones (regions) that lpn_rsg keeps from the result.    *)
(*                                                                         *)
(* A zone bounds each dimension it has; a dimension it lacks is            *)
(* unconstrained.  The entries of its matrix are abstracted to one number  *)
(* per dimension: the code compares matrices entry by entry, over the      *)
(* dimensions that match.  Zones are compared within one marking (no       *)
(* orbit match), without genrg and without exp_enabled.                    *)
(***************************************************************************)
EXTENDS Integers, Sequences

CONSTANTS
    Dims,      \* the dimensions a zone may have
    Bounds,    \* the values of a bound
    Options,   \* the timing options in force, one of them in each run
    MaxAdds    \* bound: the zones added after the first

ASSUME ZonesAssumption ==
    /\ Bounds \subseteq Int
    /\ Options \subseteq [subsets : BOOLEAN, supersets : BOOLEAN, bap : BOOLEAN]
    /\ MaxAdds \in Nat

Zones == UNION {[D -> Bounds] : D \in SUBSET Dims}

VARIABLES
    opts,      \* subsets, supersets: timeopts; bap: the timed method
    pc,        \* "idle" or "scan"
    zones,     \* e->clocklist
    new,       \* the zone being added
    at,        \* clockptr: the zone looked at
    prev,      \* prev
    superset,  \* superset
    removed,   \* *removed_regions
    regions,   \* what lpn_rsg counts for this state
    adds

vars == <<opts, pc, zones, new, at, prev, superset, removed, regions, adds>>

(* Without bap, or with neither option, the dimensions have to be the      *)
(* same.                                                                   *)
SameDimensions(o, z, old) ==
    ~o.bap \/ ~(o.subsets \/ o.supersets) => DOMAIN z = DOMAIN old

(* timing_match: the old zone makes the zone z redundant.                  *)
Matches(o, z, old) ==
    /\ SameDimensions(o, z, old)
    /\ DOMAIN old \subseteq DOMAIN z
    /\ \A d \in DOMAIN old :
          IF o.subsets THEN z[d] <= old[d] ELSE z[d] = old[d]

(* Faulty: every bound has to be wider.                                    *)
SupersetStrictly(o, z, old) ==
    /\ o.supersets
    /\ ~o.bap => DOMAIN z = DOMAIN old
    /\ DOMAIN z \subseteq DOMAIN old
    /\ \A d \in DOMAIN z : z[d] > old[d]

(* superset: the zone z makes the old one redundant.                       *)
SupersetOf(o, z, old) ==
    /\ o.supersets
    /\ ~o.bap => DOMAIN z = DOMAIN old
    /\ DOMAIN z \subseteq DOMAIN old
    /\ \A d \in DOMAIN z : z[d] >= old[d]

(* The state has just been stored, with its first zone.                    *)
Init ==
    /\ opts \in Options
    /\ pc = "idle"
    /\ \E z \in Zones : zones = <<z>> /\ new = z
    /\ at = 1 /\ prev = 1 /\ superset = FALSE /\ removed = 0
    /\ regions = 1 /\ adds = 0

(* The state is met again, with zone z.                                    *)
FindState(z) ==
    /\ pc = "idle" /\ adds < MaxAdds
    /\ new' = z
    /\ at' = 1 /\ prev' = 1 /\ removed' = 0 /\ superset' = FALSE
    /\ pc' = "scan" /\ adds' = adds + 1
    /\ UNCHANGED <<opts, zones, regions>>

(* The zone is redundant: add_state returns 0 and nothing is counted.      *)
Redundant ==
    /\ pc = "scan" /\ at <= Len(zones)
    /\ Matches(opts, new, zones[at])
    /\ pc' = "idle"
    /\ UNCHANGED <<opts, zones, new, at, prev, superset, removed, regions, adds>>

Swallows == ~Matches(opts, new, zones[at]) /\ SupersetOf(opts, new, zones[at])

(* The head goes.  If it is the only zone left it is freed but stays       *)
(* linked, for InsertZone to replace.                                      *)
RemoveHead ==
    /\ pc = "scan" /\ at <= Len(zones)
    /\ Swallows /\ at = 1
    /\ IF Len(zones) > 1
       THEN zones' = Tail(zones) /\ UNCHANGED at
       ELSE at' = 2 /\ UNCHANGED zones
    /\ superset' = TRUE
    /\ removed' = removed + 1
    /\ UNCHANGED <<opts, pc, new, prev, regions, adds>>

(* Faulty: clockptr moves past the zone behind the one removed.            *)
RemoveInnerSkipping ==
    /\ pc = "scan" /\ at <= Len(zones)
    /\ Swallows /\ at > 1
    /\ zones' = SubSeq(zones, 1, prev) \o SubSeq(zones, at + 1, Len(zones))
    /\ superset' = FALSE /\ at' = at + 1
    /\ removed' = removed + 1
    /\ UNCHANGED <<opts, pc, new, prev, regions, adds>>

(* Faulty: superset stays set, and the insertion replaces the whole list.  *)
RemoveInnerSuperset ==
    /\ pc = "scan" /\ at <= Len(zones)
    /\ Swallows /\ at > 1
    /\ zones' = SubSeq(zones, 1, prev) \o SubSeq(zones, at + 1, Len(zones))
    /\ superset' = TRUE
    /\ removed' = removed + 1
    /\ UNCHANGED <<opts, pc, new, at, prev, regions, adds>>

RemoveInner ==
    /\ pc = "scan" /\ at <= Len(zones)
    /\ Swallows /\ at > 1
    /\ zones' = SubSeq(zones, 1, prev) \o SubSeq(zones, at + 1, Len(zones))
    /\ superset' = FALSE
    /\ removed' = removed + 1
    /\ UNCHANGED <<opts, pc, new, at, prev, regions, adds>>

(* Faulty: the scan does not advance.                                      *)
KeepStaying ==
    /\ pc = "scan" /\ at <= Len(zones)
    /\ ~Matches(opts, new, zones[at]) /\ ~SupersetOf(opts, new, zones[at])
    /\ superset' = FALSE
    /\ prev' = at
    /\ UNCHANGED <<opts, pc, zones, new, at, removed, regions, adds>>

Keep ==
    /\ pc = "scan" /\ at <= Len(zones)
    /\ ~Matches(opts, new, zones[at]) /\ ~SupersetOf(opts, new, zones[at])
    /\ superset' = FALSE
    /\ prev' = at /\ at' = at + 1
    /\ UNCHANGED <<opts, pc, zones, new, removed, regions, adds>>

(* Faulty: the zones removed are not taken off the count.                  *)
InsertZoneUncounted ==
    /\ pc = "scan" /\ at > Len(zones)
    /\ zones' = IF prev # 1 \/ ~superset
                THEN Append(SubSeq(zones, 1, prev), new)
                ELSE <<new>>
    /\ regions' = regions + 1
    /\ pc' = "idle"
    /\ UNCHANGED <<opts, new, at, prev, superset, removed, adds>>

(* The end of the list.  add_state returns 2, or minus the zones removed.  *)
InsertZone ==
    /\ pc = "scan" /\ at > Len(zones)
    /\ zones' = IF prev # 1 \/ ~superset
                THEN Append(SubSeq(zones, 1, prev), new)
                ELSE <<new>>
    /\ regions' = regions - removed + 1
    /\ pc' = "idle"
    /\ UNCHANGED <<opts, new, at, prev, superset, removed, adds>>

Next == \/ \E z \in Zones : FindState(z)
        \/ Redundant \/ RemoveHead \/ RemoveInner \/ Keep \/ InsertZone

Spec == Init /\ [][Next]_vars

(* The scan is a loop of a sequential program.                             *)
FairSpec == Spec /\ WF_vars(Redundant \/ RemoveHead \/ RemoveInner \/ Keep \/ InsertZone)

-----------------------------------------------------------------------------
TypeOK ==
    /\ opts \in Options
    /\ pc \in {"idle", "scan"}
    /\ zones \in Seq(Zones) /\ new \in Zones
    /\ at \in 1 .. Len(zones) + 1 /\ prev \in 1 .. Len(zones)
    /\ superset \in BOOLEAN
    /\ removed \in Nat /\ regions \in Nat /\ adds \in 0 .. MaxAdds

(* What z allows, k allows.                                                *)
Within(z, k) ==
    /\ DOMAIN k \subseteq DOMAIN z
    /\ \A d \in DOMAIN k : z[d] <= k[d]

(* The zones the state stands for, the one being added included.           *)
Held == {zones[i] : i \in 1 .. Len(zones)} \cup (IF pc = "scan" THEN {new} ELSE {})

(* Whatever is removed, skipped or replaced while a zone is added, no      *)
(* timing behaviour stored before is lost, nor is the new one: every zone  *)
(* held stays within one that is held.                                     *)
NothingLost == [][\A z \in Held : \E k \in Held' : Within(z, k)]_vars

(* The count of zones is the length of the list.  It would not be if a     *)
(* scan removed a zone and then found the new one redundant: add_state     *)
(* returns 0 then, and the removed zones stay counted.                     *)
RegionsExact == pc = "idle" => regions = Len(zones)

(* With both options no stored zone makes another redundant.               *)
NoneRedundant ==
    pc = "idle" /\ opts.subsets /\ opts.supersets =>
        \A i, j \in 1 .. Len(zones) : Matches(opts, zones[i], zones[j]) => i = j

(* Every scan ends, whatever it removes on its way.                        *)
ScanEnds == pc = "scan" ~> pc = "idle"

=============================================================================
