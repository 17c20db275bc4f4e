--------------------------- MODULE ZoneListProofs ---------------------------
(***************************************************************************)
(* Proofs about ZoneList: for every set of dimensions and bounds, for all  *)
(* options and any number of additions, the list edited in place loses no  *)
(* zone, its count is exact and, with both options, nothing in it is       *)
(* redundant.                                                              *)
(***************************************************************************)
EXTENDS ZoneList, SequenceTheorems, TLAPS

(* No zone makes a zone stored before it redundant, nor is it made         *)
(* redundant by one.                                                       *)
Ordered ==
    \A i, j \in 1 .. Len(zones) :
        i < j => ~Matches(opts, zones[j], zones[i]) /\ ~SupersetOf(opts, zones[j], zones[i])

(* The zone looked at last was the only one, and it has been freed.        *)
Freed == superset /\ at > 1

(* A scan that has passed zones: what is known of them, and of the rest    *)
(* once a zone has been removed.                                           *)
Scanning ==
    pc = "scan" =>
        /\ at > 1 /\ ~superset => prev = at - 1
        /\ at = 1 => prev = 1
        /\ Freed => prev = 1 /\ Len(zones) = 1 /\ SupersetOf(opts, new, zones[1])
        /\ ~Freed => \A k \in 1 .. at - 1 :
              ~Matches(opts, new, zones[k]) /\ ~SupersetOf(opts, new, zones[k])
        /\ removed > 0 => \A k \in at .. Len(zones) : ~Matches(opts, new, zones[k])

(* The count, corrected for the zones already taken from the list.         *)
Counted ==
    /\ pc = "idle" => regions = Len(zones)
    /\ pc = "scan" /\ ~Freed => regions = Len(zones) + removed
    /\ pc = "scan" /\ Freed => regions = removed

IInv == TypeOK /\ Ordered /\ Scanning /\ Counted

-----------------------------------------------------------------------------
(* Bounds are numbers.                                                     *)
LEMMA BoundsOfZones == \A z \in Zones : \A d \in DOMAIN z : z[d] \in Int
<1> SUFFICES ASSUME NEW z \in Zones, NEW d \in DOMAIN z PROVE z[d] \in Int
    OBVIOUS
<1>1. PICK D \in SUBSET Dims : z \in [D -> Bounds]
    BY DEF Zones
<1> QED BY <1>1, ZonesAssumption

(* What makes a zone redundant also does what that zone did.               *)
LEMMA Transitive ==
    ASSUME NEW o \in [subsets : BOOLEAN, supersets : BOOLEAN, bap : BOOLEAN],
           NEW z \in Zones, NEW r \in Zones, NEW s \in Zones,
           SupersetOf(o, z, r), Matches(o, z, s)
    PROVE  SupersetOf(o, s, r)
<1>1. /\ DOMAIN s \subseteq DOMAIN z /\ DOMAIN z \subseteq DOMAIN r
      /\ ~o.bap => DOMAIN s = DOMAIN z /\ DOMAIN z = DOMAIN r
    BY DEF SupersetOf, Matches, SameDimensions
<1>2. ASSUME NEW d \in DOMAIN s PROVE s[d] >= r[d]
    <2>1. s[d] \in Int /\ z[d] \in Int /\ r[d] \in Int
        BY <1>1, <1>2, BoundsOfZones
    <2>2. z[d] <= s[d] \/ z[d] = s[d]
        BY <1>2 DEF Matches
    <2>3. z[d] >= r[d]
        BY <1>1, <1>2 DEF SupersetOf
    <2> QED BY <2>1, <2>2, <2>3
<1> QED BY <1>1, <1>2 DEF SupersetOf

(* The list without its at-th zone.                                        *)
LEMMA RemoveProperties ==
    ASSUME NEW S, NEW s \in Seq(S), NEW k \in 2 .. Len(s),
           NEW t, t = SubSeq(s, 1, k - 1) \o SubSeq(s, k + 1, Len(s))
    PROVE  /\ t \in Seq(S) /\ Len(t) = Len(s) - 1
           /\ \A i \in 1 .. Len(t) : t[i] = IF i < k THEN s[i] ELSE s[i + 1]
<1>1. Len(s) \in Nat /\ \A i \in 1 .. Len(s) : s[i] \in S
    BY LenProperties, ElementOfSeq
<1> DEFINE u == SubSeq(s, 1, k - 1)  v == SubSeq(s, k + 1, Len(s))
<1>2. u \in Seq(S) /\ Len(u) = k - 1 /\ \A i \in 1 .. k - 1 : u[i] = s[i]
    BY <1>1, SubSeqProperties
<1>3. v \in Seq(S) /\ Len(v) = Len(s) - k /\ \A i \in 1 .. Len(s) - k : v[i] = s[k + i]
    <2>1. \A i \in k + 1 .. Len(s) : s[i] \in S
        BY <1>1
    <2>2. /\ v \in Seq(S)
          /\ Len(v) = IF k + 1 <= Len(s) THEN Len(s) - (k + 1) + 1 ELSE 0
          /\ \A i \in 1 .. Len(s) - (k + 1) + 1 : v[i] = s[(k + 1) + i - 1]
        BY <1>1, <2>1, SubSeqProperties
    <2>3. \A i \in 1 .. Len(s) - k : v[i] = s[k + i]
        BY <1>1, <2>2
    <2> QED BY <1>1, <2>2, <2>3
<1> HIDE DEF u, v
<1>4. /\ u \o v \in Seq(S) /\ Len(u \o v) = Len(s) - 1
      /\ \A i \in 1 .. Len(s) - 1 :
            (u \o v)[i] = IF i <= k - 1 THEN u[i] ELSE v[i - (k - 1)]
    <2>1. Len(u) + Len(v) = Len(s) - 1
        BY <1>1, <1>2, <1>3
    <2>2. /\ u \o v \in Seq(S) /\ Len(u \o v) = Len(u) + Len(v)
          /\ \A i \in 1 .. Len(u) + Len(v) :
                (u \o v)[i] = IF i <= Len(u) THEN u[i] ELSE v[i - Len(u)]
        BY <1>2, <1>3, ConcatProperties
    <2>3. Len(u) = k - 1
        BY <1>2
    <2> QED BY <2>1, <2>2, <2>3
<1>5. ASSUME NEW i \in 1 .. Len(s) - 1
      PROVE  (u \o v)[i] = IF i < k THEN s[i] ELSE s[i + 1]
    <2>1. CASE i < k
        BY <1>1, <1>2, <1>4, <2>1
    <2>2. CASE ~(i < k)
        <3>1. i - (k - 1) \in 1 .. Len(s) - k /\ k + (i - (k - 1)) = i + 1
            BY <1>1, <2>2
        <3> QED BY <1>1, <1>3, <1>4, <2>2, <3>1
    <2> QED BY <2>1, <2>2
<1> QED BY <1>1, <1>4, <1>5 DEF u, v

-----------------------------------------------------------------------------
(* The options, whatever they are, are three flags.                        *)
LEMMA Flags ==
    TypeOK => opts \in [subsets : BOOLEAN, supersets : BOOLEAN, bap : BOOLEAN]
BY ZonesAssumption DEF TypeOK

(* The zones in the list, at each index.                                   *)
LEMMA ZonesTyped ==
    ASSUME TypeOK
    PROVE  /\ Len(zones) \in Nat /\ Len(zones) >= 1
           /\ \A i \in 1 .. Len(zones) : zones[i] \in Zones
<1>1. Len(zones) \in Nat /\ \A i \in 1 .. Len(zones) : zones[i] \in Zones
    BY LenProperties, ElementOfSeq DEF TypeOK
<1>2. prev \in 1 .. Len(zones)
    BY DEF TypeOK
<1> QED BY <1>1, <1>2

(* The first zone of a state.                                              *)
LEMMA InitHolds == Init => IInv
<1> SUFFICES ASSUME Init PROVE IInv
    OBVIOUS
<1>1. PICK z \in Zones : zones = <<z>> /\ new = z
    BY DEF Init
<1>2. zones \in Seq(Zones) /\ Len(zones) = 1
    BY <1>1
<1>3. TypeOK
    <2>1. zones \in Seq(Zones) /\ new \in Zones
        BY <1>1, <1>2
    <2>2. at \in 1 .. Len(zones) + 1 /\ prev \in 1 .. Len(zones)
        BY <1>2 DEF Init
    <2>3. adds \in 0 .. MaxAdds /\ removed \in Nat /\ regions \in Nat
        BY ZonesAssumption DEF Init
    <2> QED BY <2>1, <2>2, <2>3 DEF Init, TypeOK
<1>4. Ordered
    BY <1>2 DEF Ordered
<1> QED BY <1>2, <1>3, <1>4 DEF Init, IInv, Scanning, Counted

(* A zone is offered to the state.                                         *)
LEMMA FindStateKeeps ==
    ASSUME IInv, NEW z \in Zones, FindState(z) PROVE IInv'
<1> USE DEF IInv, FindState
<1>1. TypeOK'
    <2>1. at' \in 1 .. Len(zones') + 1 /\ prev' \in 1 .. Len(zones')
        BY ZonesTyped
    <2>2. adds' \in 0 .. MaxAdds /\ removed' \in Nat
        BY ZonesAssumption DEF TypeOK
    <2> QED BY <2>1, <2>2 DEF TypeOK
<1>2. Ordered'
    BY DEF Ordered
<1>3. Scanning'
    BY DEF Scanning, Freed
<1>4. Counted'
    BY ZonesTyped DEF Counted, Freed, TypeOK
<1> QED BY <1>1, <1>2, <1>3, <1>4

(* Nothing was removed before a zone is found redundant.                   *)
LEMMA RedundantKeeps ==
    ASSUME IInv, Redundant PROVE IInv'
<1> USE DEF IInv, Redundant
<1>1. TypeOK'
    BY DEF TypeOK
<1>2. Ordered'
    BY DEF Ordered
<1>3. Scanning'
    BY DEF Scanning
<1>4. ~Freed
    <2>1. at \in Nat /\ at <= Len(zones) /\ Len(zones) \in Nat
        BY ZonesTyped DEF TypeOK
    <2> QED BY <2>1 DEF Scanning, Freed
<1>5. removed = 0
    <2>1. at \in at .. Len(zones) /\ removed \in Nat
        BY ZonesTyped DEF TypeOK
    <2> QED BY <2>1 DEF Scanning
<1>6. Counted'
    BY <1>4, <1>5, ZonesTyped DEF Counted
<1> QED BY <1>1, <1>2, <1>3, <1>6

(* The head is removed; if it is the only zone it is only freed.           *)
LEMMA RemoveHeadKeeps ==
    ASSUME IInv, RemoveHead PROVE IInv'
<1> USE DEF IInv, RemoveHead
<1>1. /\ Len(zones) \in Nat /\ Len(zones) >= 1
      /\ \A i \in 1 .. Len(zones) : zones[i] \in Zones
    BY ZonesTyped
<1>2. SupersetOf(opts, new, zones[1]) /\ at = 1 /\ prev = 1 /\ new \in Zones
    BY DEF Swallows, Scanning, TypeOK
<1>3. CASE Len(zones) > 1
    <2>1. /\ zones' \in Seq(Zones) /\ Len(zones') = Len(zones) - 1
          /\ \A i \in 1 .. Len(zones') : zones'[i] = zones[i + 1]
        BY <1>3, HeadTailProperties DEF TypeOK
    <2>2. TypeOK'
        BY <1>1, <1>2, <1>3, <2>1 DEF TypeOK
    <2>3. Ordered'
        <3>1. opts' = opts
            OBVIOUS
        <3> HIDE DEF RemoveHead
        <3> QED BY <1>1, <2>1, <3>1 DEF Ordered
    <2>4. ASSUME NEW k \in 1 .. Len(zones') PROVE ~Matches(opts, new, zones'[k])
        <3>1. k + 1 \in 1 .. Len(zones) /\ 1 < k + 1 /\ 1 \in 1 .. Len(zones)
            BY <1>1, <2>1
        <3>2. ~SupersetOf(opts, zones[k + 1], zones[1])
            BY <3>1 DEF Ordered
        <3>3. zones[k + 1] \in Zones /\ zones[1] \in Zones
            BY <1>1, <3>1
        <3>4. ~Matches(opts, new, zones[k + 1])
            BY <1>2, <3>2, <3>3, Flags, Transitive
        <3> QED BY <2>1, <3>4
    <2>5. Scanning'
        <3>1. at' = 1 /\ prev' = 1 /\ opts' = opts /\ new' = new /\ ~Freed'
            BY <1>2, <1>3 DEF Freed
        <3> QED BY <2>4, <3>1 DEF Scanning
    <2>6. Counted'
        BY <1>1, <1>2, <1>3, <2>1 DEF Counted, Freed, TypeOK
    <2> QED BY <2>2, <2>3, <2>5, <2>6
<1>4. CASE Len(zones) = 1
    <2>1. at' = 2 /\ zones' = zones /\ superset' = TRUE /\ Freed'
        BY <1>2, <1>4 DEF Freed
    <2>2. TypeOK'
        BY <1>2, <1>4, <2>1 DEF TypeOK
    <2>3. Ordered'
        <3>1. opts' = opts
            OBVIOUS
        <3> QED BY <1>4, <2>1, <3>1 DEF Ordered
    <2>4. Scanning'
        <3>1. prev' = 1 /\ Len(zones') = 1 /\ SupersetOf(opts, new, zones[1])'
            BY <1>2, <1>4, <2>1 DEF SupersetOf
        <3>2. at' .. Len(zones') = {}
            BY <1>4, <2>1
        <3> QED BY <2>1, <3>1, <3>2 DEF Scanning
    <2>5. Counted'
        <3>1. ~Freed /\ regions = Len(zones) + removed
            BY <1>2 DEF Counted, Freed
        <3>2. pc' = "scan" /\ regions' = regions /\ removed' = removed + 1
            OBVIOUS
        <3>3. removed \in Nat
            BY DEF TypeOK
        <3> QED BY <1>4, <2>1, <3>1, <3>2, <3>3 DEF Counted
    <2> QED BY <2>2, <2>3, <2>4, <2>5
<1> HIDE DEF RemoveHead
<1>5. Len(zones) > 1 \/ Len(zones) = 1
    BY <1>1
<1> QED BY <1>3, <1>4, <1>5

(* A zone is unlinked from behind another.                                 *)
LEMMA RemoveInnerKeeps ==
    ASSUME IInv, RemoveInner PROVE IInv'
<1> USE DEF IInv, RemoveInner
<1>1. /\ Len(zones) \in Nat /\ Len(zones) >= 1
      /\ \A i \in 1 .. Len(zones) : zones[i] \in Zones
    BY ZonesTyped
<1>2. at \in 2 .. Len(zones) /\ new \in Zones
    BY <1>1 DEF TypeOK
<1>3. ~superset /\ ~Freed /\ prev = at - 1
    <2>1. at > 1 /\ Len(zones) # 1 /\ pc = "scan"
        BY <1>1, <1>2
    <2>2. ~Freed
        BY <2>1 DEF Scanning
    <2> QED BY <2>1, <2>2 DEF Scanning, Freed, TypeOK
<1>4. /\ zones' \in Seq(Zones) /\ Len(zones') = Len(zones) - 1
      /\ \A i \in 1 .. Len(zones') :
            zones'[i] = IF i < at THEN zones[i] ELSE zones[i + 1]
    BY <1>2, <1>3, RemoveProperties DEF TypeOK
<1>10. /\ opts' = opts /\ pc = "scan" /\ pc' = pc /\ new' = new /\ at' = at
      /\ prev' = prev /\ regions' = regions /\ adds' = adds
      /\ removed' = removed + 1 /\ superset' = FALSE /\ Swallows
    OBVIOUS
<1> HIDE DEF RemoveInner
<1>5. TypeOK'
    <2>1. at' \in 1 .. Len(zones') + 1 /\ prev' \in 1 .. Len(zones')
        BY <1>1, <1>2, <1>3, <1>4, <1>10
    <2>2. removed' \in Nat
        BY <1>10 DEF TypeOK
    <2> QED BY <1>4, <1>10, <2>1, <2>2 DEF TypeOK
<1>6. Ordered'
    <2> SUFFICES ASSUME NEW i \in 1 .. Len(zones'), NEW j \in 1 .. Len(zones'), i < j
                 PROVE  /\ ~Matches(opts, zones'[j], zones'[i])
                        /\ ~SupersetOf(opts, zones'[j], zones'[i])
        BY <1>10 DEF Ordered
    <2>1. PICK k \in 1 .. Len(zones) :
              zones'[i] = zones[k] /\ ((k = i /\ i < at) \/ (k = i + 1 /\ i >= at))
        <3>1. CASE i < at
            BY <1>1, <1>2, <1>4, <3>1
        <3>2. CASE ~(i < at)
            <4>1. i + 1 \in 1 .. Len(zones) /\ i >= at /\ zones'[i] = zones[i + 1]
                BY <1>1, <1>2, <1>4, <3>2
            <4> QED BY <4>1
        <3> QED BY <3>1, <3>2
    <2>2. PICK l \in 1 .. Len(zones) :
              zones'[j] = zones[l] /\ ((l = j /\ j < at) \/ (l = j + 1 /\ j >= at))
        <3>1. CASE j < at
            BY <1>1, <1>2, <1>4, <3>1
        <3>2. CASE ~(j < at)
            <4>1. j + 1 \in 1 .. Len(zones) /\ j >= at /\ zones'[j] = zones[j + 1]
                BY <1>1, <1>2, <1>4, <3>2
            <4> QED BY <4>1
        <3> QED BY <3>1, <3>2
    <2>3. k < l
        BY <1>1, <1>2, <2>1, <2>2
    <2> QED BY <2>1, <2>2, <2>3 DEF Ordered
<1>7. ASSUME NEW k \in at .. Len(zones') PROVE ~Matches(opts, new, zones'[k])
    <2>1. /\ k + 1 \in 1 .. Len(zones) /\ at < k + 1 /\ at \in 1 .. Len(zones)
          /\ zones'[k] = zones[k + 1]
        BY <1>1, <1>2, <1>4
    <2>2. ~SupersetOf(opts, zones[k + 1], zones[at])
        BY <2>1 DEF Ordered
    <2>3. zones[k + 1] \in Zones /\ zones[at] \in Zones
        BY <1>1, <2>1
    <2> QED BY <1>2, <1>10, <2>1, <2>2, <2>3, Flags, Transitive DEF Swallows
<1>8. Scanning'
    <2>1. \A k \in 1 .. at - 1 : zones'[k] = zones[k]
        BY <1>1, <1>2, <1>4
    <2>2. at' = at /\ prev' = prev /\ opts' = opts /\ new' = new /\ ~superset' /\ ~Freed'
        BY <1>10 DEF Freed
    <2>3. \A k \in 1 .. at - 1 :
             ~Matches(opts, new, zones'[k]) /\ ~SupersetOf(opts, new, zones'[k])
        BY <1>3, <1>10, <2>1 DEF Scanning
    <2>4. at # 1
        BY <1>2
    <2> QED BY <1>3, <1>7, <2>2, <2>3, <2>4 DEF Scanning
<1>9. Counted'
    <2>1. removed \in Nat /\ ~Freed'
        BY <1>10 DEF TypeOK, Freed
    <2>2. regions = Len(zones) + removed
        BY <1>3, <1>10 DEF Counted
    <2> QED BY <1>1, <1>4, <1>10, <2>1, <2>2 DEF Counted
<1> QED BY <1>5, <1>6, <1>8, <1>9

(* A zone that is neither wider nor narrower is passed over.               *)
LEMMA KeepKeeps ==
    ASSUME IInv, Keep PROVE IInv'
<1> USE DEF IInv, Keep
<1>1. Len(zones) \in Nat /\ Len(zones) >= 1 /\ at \in 1 .. Len(zones)
    BY ZonesTyped DEF TypeOK
<1>2. ~Freed
    BY <1>1 DEF Scanning, Freed
<1>3. TypeOK'
    <2>1. at' \in 1 .. Len(zones') + 1 /\ prev' \in 1 .. Len(zones')
        BY <1>1
    <2>2. superset' \in BOOLEAN
        OBVIOUS
    <2> QED BY <2>1, <2>2 DEF TypeOK
<1>4. Ordered'
    BY DEF Ordered
<1>5. Scanning'
    BY <1>1, <1>2 DEF Scanning, Freed
<1>6. Counted'
    BY <1>1, <1>2 DEF Counted, Freed, TypeOK
<1> QED BY <1>3, <1>4, <1>5, <1>6

(* The new zone is linked in behind the last, or replaces the freed one.   *)
LEMMA InsertZoneKeeps ==
    ASSUME IInv, InsertZone PROVE IInv'
<1> USE DEF IInv, InsertZone
<1>1. /\ Len(zones) \in Nat /\ Len(zones) >= 1 /\ at = Len(zones) + 1
      /\ zones \in Seq(Zones) /\ new \in Zones /\ at > 1
    BY ZonesTyped DEF TypeOK
<1>2. CASE superset
    <2>1. zones' = <<new>> /\ Len(zones) = 1 /\ Freed
        BY <1>1, <1>2 DEF Scanning, Freed
    <2>2. zones' \in Seq(Zones) /\ Len(zones') = 1
        <3>1. <<new>> \in Seq(Zones) /\ Len(<<new>>) = 1
            BY <1>1
        <3> QED BY <2>1, <3>1
    <2>3. regions' = 1
        BY <1>1, <2>1 DEF Counted, TypeOK
    <2>4. prev = 1
        BY <2>1 DEF Scanning
    <2>5. TypeOK'
        BY <1>1, <2>1, <2>2, <2>3, <2>4 DEF TypeOK
    <2> QED BY <2>2, <2>3, <2>5 DEF Ordered, Scanning, Counted
<1>3. CASE ~superset
    <2>1. prev = Len(zones) /\ ~Freed
        BY <1>1, <1>3 DEF Scanning, Freed
    <2>2. zones' = Append(zones, new)
        BY <1>1, <1>3, <2>1, SubSeqFull
    <2>3. /\ zones' \in Seq(Zones) /\ Len(zones') = Len(zones) + 1
          /\ \A i \in 1 .. Len(zones) : zones'[i] = zones[i]
          /\ zones'[Len(zones) + 1] = new
        <3>1. /\ Append(zones, new) \in Seq(Zones)
              /\ Len(Append(zones, new)) = Len(zones) + 1
              /\ \A i \in 1 .. Len(zones) : Append(zones, new)[i] = zones[i]
              /\ Append(zones, new)[Len(zones) + 1] = new
            BY <1>1, AppendProperties
        <3> QED BY <2>2, <3>1
    <2>4. regions' = Len(zones')
        <3>1. regions = Len(zones) + removed /\ removed \in Nat
            BY <2>1 DEF Counted, TypeOK
        <3>2. regions' = regions - removed + 1
            OBVIOUS
        <3> QED BY <1>1, <2>3, <3>1, <3>2
    <2>5. TypeOK'
        BY <1>1, <2>1, <2>3, <2>4 DEF TypeOK
    <2>6. Ordered'
        <3>1. \A k \in 1 .. Len(zones) :
                 ~Matches(opts, new, zones[k]) /\ ~SupersetOf(opts, new, zones[k])
            BY <1>1, <2>1 DEF Scanning
        <3>2. ASSUME NEW i \in 1 .. Len(zones'), NEW j \in 1 .. Len(zones'), i < j
              PROVE  /\ ~Matches(opts, zones'[j], zones'[i])
                     /\ ~SupersetOf(opts, zones'[j], zones'[i])
            <4>1. i \in 1 .. Len(zones)
                BY <1>1, <2>3, <3>2
            <4>2. j \in 1 .. Len(zones) \/ j = Len(zones) + 1
                BY <1>1, <2>3
            <4> QED BY <2>3, <3>1, <3>2, <4>1, <4>2 DEF Ordered
        <3> QED BY <3>2 DEF Ordered
    <2> QED BY <2>4, <2>5, <2>6 DEF Scanning, Counted
<1> QED BY <1>2, <1>3 DEF TypeOK

(* The inductive invariant holds in every state.                           *)
LEMMA Invariance == Spec => []IInv
<1>1. IInv /\ [Next]_vars => IInv'
    <2> SUFFICES ASSUME IInv, [Next]_vars PROVE IInv'
        OBVIOUS
    <2>1. CASE UNCHANGED vars
        BY <2>1 DEF vars, IInv, TypeOK, Ordered, Scanning, Counted, Freed
    <2>2. CASE Next
        BY <2>2, FindStateKeeps, RedundantKeeps, RemoveHeadKeeps,
           RemoveInnerKeeps, KeepKeeps, InsertZoneKeeps DEF Next
    <2> QED BY <2>1, <2>2
<1> QED BY <1>1, InitHolds, PTL DEF Spec

(* Every variable keeps its type: the pointers stay in the list.           *)
THEOREM TypeCorrect == Spec => []TypeOK
BY Invariance, PTL DEF IInv

(* The count of zones is exact whenever no zone is being added.            *)
THEOREM CountExact == Spec => []RegionsExact
<1>1. IInv => RegionsExact
    BY DEF IInv, Counted, RegionsExact
<1> QED BY <1>1, Invariance, PTL

(* With both options no stored zone makes another redundant.               *)
THEOREM Irredundant == Spec => []NoneRedundant
<1>1. IInv => NoneRedundant
    <2> SUFFICES ASSUME IInv, opts.subsets, opts.supersets,
                        NEW i \in 1 .. Len(zones), NEW j \in 1 .. Len(zones),
                        Matches(opts, zones[i], zones[j]), i # j
                 PROVE  FALSE
        BY DEF NoneRedundant
    <2>1. i > j
        <3>1. CASE i < j
            <4>1. ~SupersetOf(opts, zones[j], zones[i])
                BY <3>1 DEF IInv, Ordered
            <4>2. /\ DOMAIN zones[j] \subseteq DOMAIN zones[i]
                  /\ ~opts.bap => DOMAIN zones[i] = DOMAIN zones[j]
                  /\ \A d \in DOMAIN zones[j] : zones[i][d] <= zones[j][d]
                BY DEF Matches, SameDimensions
            <4>3. zones[i] \in Zones /\ zones[j] \in Zones
                BY ZonesTyped DEF IInv
            <4>4. \A d \in DOMAIN zones[j] : zones[j][d] >= zones[i][d]
                BY <4>2, <4>3, BoundsOfZones
            <4> QED BY <4>1, <4>2, <4>4 DEF SupersetOf
        <3> QED BY <3>1
    <2>2. ~Matches(opts, zones[i], zones[j])
        BY <2>1 DEF IInv, Ordered
    <2> QED BY <2>2
<1> QED BY <1>1, Invariance, PTL

-----------------------------------------------------------------------------
(* Every zone is within itself.                                            *)
LEMMA WithinItself == \A z \in Zones : Within(z, z)
<1> SUFFICES ASSUME NEW z \in Zones PROVE Within(z, z)
    OBVIOUS
<1>1. \A d \in DOMAIN z : z[d] <= z[d]
    BY BoundsOfZones
<1> QED BY <1>1 DEF Within

(* A zone that is made redundant is within the one that makes it so.       *)
LEMMA RedundantIsWithin ==
    ASSUME NEW o \in [subsets : BOOLEAN, supersets : BOOLEAN, bap : BOOLEAN],
           NEW z \in Zones, NEW k \in Zones
    PROVE  /\ Matches(o, z, k) => Within(z, k)
           /\ SupersetOf(o, z, k) => Within(k, z)
<1>1. ASSUME Matches(o, z, k), NEW d \in DOMAIN k PROVE z[d] <= k[d]
    <2>1. d \in DOMAIN z /\ (z[d] <= k[d] \/ z[d] = k[d])
        BY <1>1 DEF Matches
    <2>2. z[d] \in Int /\ k[d] \in Int
        BY <1>1, <2>1, BoundsOfZones
    <2> QED BY <2>1, <2>2
<1>2. ASSUME SupersetOf(o, z, k), NEW d \in DOMAIN z PROVE k[d] <= z[d]
    <2>1. d \in DOMAIN k /\ z[d] >= k[d]
        BY <1>2 DEF SupersetOf
    <2>2. z[d] \in Int /\ k[d] \in Int
        BY <1>2, <2>1, BoundsOfZones
    <2> QED BY <2>1, <2>2
<1> QED BY <1>1, <1>2 DEF Within, Matches, SupersetOf

Kept == \A z \in Held : \E k \in Held' : Within(z, k)

(* A step that keeps every held zone, or all but one that is within        *)
(* another it keeps.                                                       *)
LEMMA KeptButOne ==
    ASSUME TypeOK, NEW z \in Held, NEW k \in Held', Within(z, k),
           Held \ {z} \subseteq Held'
    PROVE  Kept
<1>1. Held \subseteq Zones
    BY ZonesTyped DEF Held, TypeOK
<1> QED BY <1>1, WithinItself DEF Kept

LEMMA KeptAll ==
    ASSUME TypeOK, Held \subseteq Held' PROVE Kept
<1>1. Held \subseteq Zones
    BY ZonesTyped DEF Held, TypeOK
<1> QED BY <1>1, WithinItself DEF Kept

LEMMA StepKeeps ==
    ASSUME IInv, [Next]_vars PROVE Kept
<1> USE DEF IInv
<1>1. /\ Len(zones) \in Nat /\ Len(zones) >= 1
      /\ \A i \in 1 .. Len(zones) : zones[i] \in Zones
    BY ZonesTyped
<1>2. new \in Zones /\ at \in 1 .. Len(zones) + 1
    BY DEF TypeOK
<1>3. opts \in [subsets : BOOLEAN, supersets : BOOLEAN, bap : BOOLEAN]
    BY Flags
<1>4. CASE UNCHANGED vars
    BY <1>4, KeptAll DEF vars, Held
<1>5. ASSUME NEW z \in Zones, FindState(z) PROVE Kept
    BY <1>5, KeptAll DEF FindState, Held
<1>6. CASE Redundant
    <2>1. at \in 1 .. Len(zones) /\ Matches(opts, new, zones[at]) /\ zones' = zones
          /\ pc = "scan" /\ pc' = "idle"
        BY <1>1, <1>2, <1>6 DEF Redundant
    <2>2. Within(new, zones[at])
        BY <1>1, <1>2, <1>3, <2>1, RedundantIsWithin
    <2>3. new \in Held /\ zones[at] \in Held' /\ Held \ {new} \subseteq Held'
        BY <2>1 DEF Held
    <2> QED BY <2>2, <2>3, KeptButOne
<1>7. CASE RemoveHead
    <2>1. /\ at = 1 /\ SupersetOf(opts, new, zones[1])
          /\ pc = "scan" /\ pc' = "scan" /\ new' = new
          /\ (zones' = Tail(zones) /\ Len(zones) > 1) \/ zones' = zones
        BY <1>7 DEF RemoveHead, Swallows
    <2>2. Within(zones[1], new)
        BY <1>1, <1>2, <1>3, <2>1, RedundantIsWithin
    <2>3. new \in Held' /\ zones[1] \in Held
        BY <1>1, <2>1 DEF Held
    <2>4. CASE zones' = zones
        BY <2>1, <2>4, KeptAll DEF Held
    <2>5. CASE zones' = Tail(zones) /\ Len(zones) > 1
        <3>1. /\ Len(zones') = Len(zones) - 1
              /\ \A i \in 1 .. Len(zones') : zones'[i] = zones[i + 1]
            BY <1>1, <2>5, HeadTailProperties DEF TypeOK
        <3>2. ASSUME NEW i \in 2 .. Len(zones) PROVE zones[i] \in Held'
            <4>1. i - 1 \in 1 .. Len(zones') /\ zones'[i - 1] = zones[i]
                BY <1>1, <3>1
            <4> QED BY <4>1 DEF Held
        <3>3. \A i \in 1 .. Len(zones) : i = 1 \/ i \in 2 .. Len(zones)
            BY <1>1
        <3>4. Held \ {zones[1]} \subseteq Held'
            BY <2>1, <2>3, <3>2, <3>3 DEF Held
        <3> QED BY <2>2, <2>3, <3>4, KeptButOne
    <2> QED BY <2>1, <2>4, <2>5
<1>8. CASE RemoveInner
    <2>1. /\ at \in 2 .. Len(zones) /\ SupersetOf(opts, new, zones[at])
          /\ pc = "scan" /\ pc' = "scan" /\ new' = new
        BY <1>1, <1>2, <1>8 DEF RemoveInner, Swallows
    <2>2. prev = at - 1
        <3>1. at > 1 /\ Len(zones) # 1
            BY <1>1, <2>1
        <3> QED BY <2>1, <3>1 DEF Scanning, Freed, TypeOK
    <2>3. /\ Len(zones') = Len(zones) - 1
          /\ \A i \in 1 .. Len(zones') :
                zones'[i] = IF i < at THEN zones[i] ELSE zones[i + 1]
        BY <1>8, <2>1, <2>2, RemoveProperties DEF RemoveInner, TypeOK
    <2>4. Within(zones[at], new) /\ zones[at] \in Held /\ new \in Held'
        BY <1>1, <1>2, <1>3, <2>1, RedundantIsWithin DEF Held
    <2>5. ASSUME NEW i \in 1 .. Len(zones), i # at PROVE zones[i] \in Held'
        <3>1. CASE i < at
            <4>1. i \in 1 .. Len(zones') /\ zones'[i] = zones[i]
                BY <1>1, <2>1, <2>3, <3>1
            <4> QED BY <4>1 DEF Held
        <3>2. CASE i > at
            <4>1. i - 1 \in 1 .. Len(zones') /\ ~(i - 1 < at) /\ (i - 1) + 1 = i
                BY <1>1, <2>1, <2>3, <3>2
            <4>2. zones'[i - 1] = zones[i]
                BY <2>3, <4>1
            <4> QED BY <4>1, <4>2 DEF Held
        <3> QED BY <2>1, <2>5, <3>1, <3>2
    <2>6. Held \ {zones[at]} \subseteq Held'
        BY <2>1, <2>4, <2>5 DEF Held
    <2> QED BY <2>4, <2>6, KeptButOne
<1>9. CASE Keep
    BY <1>9, KeptAll DEF Keep, Held
<1>10. CASE InsertZone
    <2>1. at = Len(zones) + 1 /\ at > 1 /\ pc = "scan" /\ pc' = "idle" /\ zones \in Seq(Zones)
        BY <1>1, <1>2, <1>10 DEF InsertZone, TypeOK
    <2>2. CASE superset
        <3>1. /\ prev = 1 /\ Len(zones) = 1 /\ SupersetOf(opts, new, zones[1])
            BY <2>1, <2>2 DEF Scanning, Freed
        <3>2. zones' = <<new>>
            BY <1>10, <2>2, <3>1 DEF InsertZone
        <3>3. Within(zones[1], new)
            BY <1>1, <1>2, <1>3, <3>1, RedundantIsWithin
        <3>4. new \in Held'
            <4>1. Len(<<new>>) = 1 /\ <<new>>[1] = new
                OBVIOUS
            <4> QED BY <3>2, <4>1 DEF Held
        <3>5. zones[1] \in Held /\ Held \ {zones[1]} \subseteq Held'
            BY <3>1, <3>4 DEF Held
        <3> QED BY <3>3, <3>4, <3>5, KeptButOne
    <2>3. CASE ~superset
        <3>1. prev = Len(zones)
            BY <1>1, <2>1, <2>3 DEF Scanning
        <3>2. zones' = Append(zones, new)
            <4>1. SubSeq(zones, 1, prev) = zones
                BY <2>1, <3>1, SubSeqFull
            <4> QED BY <1>10, <2>3, <4>1 DEF InsertZone
        <3>3. /\ Len(zones') = Len(zones) + 1
              /\ \A i \in 1 .. Len(zones) : zones'[i] = zones[i]
              /\ zones'[Len(zones) + 1] = new
            BY <1>2, <2>1, <3>2, AppendProperties
        <3>4. Len(zones) + 1 \in 1 .. Len(zones') /\ 1 .. Len(zones) \subseteq 1 .. Len(zones')
            BY <1>1, <3>3
        <3>5. Held \subseteq Held'
            BY <3>3, <3>4 DEF Held
        <3> QED BY <3>5, KeptAll
    <2> QED BY <2>2, <2>3 DEF TypeOK
<1> QED BY <1>4, <1>5, <1>6, <1>7, <1>8, <1>9, <1>10 DEF Next

(* Adding a zone loses nothing that was stored, nor the zone itself.       *)
THEOREM Coverage == Spec => NothingLost
<1>1. IInv /\ [Next]_vars => [\A z \in Held : \E k \in Held' : Within(z, k)]_vars
    BY StepKeeps DEF Kept
<1> QED BY <1>1, Invariance, PTL DEF Spec, NothingLost

=============================================================================
