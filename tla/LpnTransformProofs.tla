------------------------- MODULE LpnTransformProofs -------------------------
(***************************************************************************)
(* Proofs about LpnTransform, for every loaded net and every choice of     *)
(* abstract events: whatever sequence of transformations is applied, the   *)
(* result is a net again, and the rules out of each place agree on its     *)
(* token unless 4b has torn a place.                                       *)
(***************************************************************************)
EXTENDS LpnTransform, LpnNetProofs, FiniteSetTheorems

(* A net that a transformation may work on.                                *)
IsNet(N) == DOMAIN N = Fields /\ NetShape(N)

(* Both have the same events, places and signals.                          *)
SameSize(N, M) ==
    /\ M.nevents = N.nevents /\ M.nplaces = N.nplaces
    /\ M.nsignals = N.nsignals /\ M.ninpsig = N.ninpsig
    /\ M.abstract = N.abstract /\ M.xform2 = N.xform2

-----------------------------------------------------------------------------
(* Rewriting rules                                                         *)

(* The new rules connect an event and a place.                             *)
Arcs(N) == (Event(N) \X Place(N)) \cup (Place(N) \X Event(N))

LEMMA IndicesApart ==
    ASSUME NEW N, NetShape(N), NEW i \in Event(N)
    PROVE  i \notin Place(N)
  BY DEF NetShape, Event, Place

LEMMA SizesEqual ==
    ASSUME NEW N, NEW M, SameSize(N, M)
    PROVE  Event(M) = Event(N) /\ Place(M) = Place(N) /\ Signal(M) = Signal(N)
  BY DEF SameSize, Event, Place, Signal

LEMMA RewriteFields ==
    ASSUME NEW N, IsNet(N), NEW gone, NEW new, NEW marked, NEW level, NEW dropped
    PROVE  LET M == Rewrite(N, gone, new, marked, level, dropped)
               rules == (N.rules \ gone) \cup new
           IN  /\ DOMAIN M = Fields /\ SameSize(N, M)
               /\ M.rules = rules
               /\ M.constraint = (N.constraint \cap rules) \ new
               /\ M.marked = marked \cap rules
               /\ M.level = [r \in {s \in rules : s[2] \in Event(N)} |->
                                IF r \in new THEN level[r] ELSE N.level[r]]
               /\ M.dropped = N.dropped \cup dropped
               /\ M.signal = N.signal /\ M.rising = N.rising /\ M.start = N.start
  BY DEF Rewrite, IsNet, Fields, SameSize

LEMMA RewriteTokens ==
    ASSUME NEW N, IsNet(N), NEW gone, NEW new, NEW marked, NEW level, NEW dropped,
           NEW M, M = Rewrite(N, gone, new, marked, level, dropped)
    PROVE  /\ M.rules = (N.rules \ gone) \cup new
           /\ M.marked = marked \cap ((N.rules \ gone) \cup new)
           /\ SameSize(N, M)
  BY DEF Rewrite, IsNet, Fields, SameSize

LEMMA RewriteShape ==
    ASSUME NEW N, IsNet(N), NEW gone, NEW new \in SUBSET Arcs(N),
           NEW marked, \A r \in marked : r[2] \in Event(N),
           NEW level,
           \A r \in new : r[2] \in Event(N) =>
                level[r] \in SUBSET [Signal(N) -> Values],
           NEW dropped \in SUBSET (Event(N) \cup Place(N))
    PROVE  /\ IsNet(Rewrite(N, gone, new, marked, level, dropped))
           /\ SameSize(N, Rewrite(N, gone, new, marked, level, dropped))
  <1> PICK M : M = Rewrite(N, gone, new, marked, level, dropped)
    OBVIOUS
  <1> PICK rules : rules = (N.rules \ gone) \cup new
    OBVIOUS
  <1>1. /\ DOMAIN M = Fields /\ SameSize(N, M)
        /\ M.rules = rules
        /\ M.constraint = (N.constraint \cap rules) \ new
        /\ M.marked = marked \cap rules
        /\ M.level = [r \in {s \in rules : s[2] \in Event(N)} |->
                         IF r \in new THEN level[r] ELSE N.level[r]]
        /\ M.dropped = N.dropped \cup dropped
        /\ M.signal = N.signal /\ M.rising = N.rising /\ M.start = N.start
    BY RewriteFields
  <1>2. Event(M) = Event(N) /\ Place(M) = Place(N) /\ Signal(M) = Signal(N)
    BY <1>1, SizesEqual
  <1>3. Markable(M) = {s \in rules : s[2] \in Event(N)}
    BY <1>1, <1>2 DEF Markable
  <1>4. M.level \in [Markable(M) -> SUBSET [Signal(M) -> Values]]
    <2>1. ASSUME NEW r \in Markable(M)
          PROVE  (IF r \in new THEN level[r] ELSE N.level[r])
                     \in SUBSET [Signal(N) -> Values]
      <3>1. CASE r \in new
        BY <1>3, <3>1
      <3>2. CASE r \notin new
        <4>1. r \in Markable(N)
          BY <1>3, <3>2 DEF Markable
        <4> QED
          BY <3>2, <4>1 DEF IsNet, NetShape
      <3> QED
        BY <3>1, <3>2
    <2> QED
      BY <1>1, <1>2, <1>3, <2>1
  <1>5. M.rules \subseteq (Event(M) \X (Event(M) \cup Place(M))) \cup (Place(M) \X Event(M))
    <2>1. N.rules \subseteq (Event(N) \X (Event(N) \cup Place(N)))
                                \cup (Place(N) \X Event(N))
      BY DEF IsNet, NetShape
    <2> QED
      BY <1>1, <1>2, <2>1 DEF Arcs
  <1>6. M.marked \subseteq Markable(M) /\ M.constraint \subseteq M.rules
    BY <1>1, <1>3
  <1>7. M.dropped \subseteq Event(M) \cup Place(M)
    BY <1>1, <1>2 DEF IsNet, NetShape
  <1>8. /\ M.nevents \in Nat \ {0} /\ M.nplaces \in Nat
        /\ M.nsignals \in Nat /\ M.ninpsig \in 0 .. M.nsignals
        /\ M.signal \in [Event(M) -> -1 .. (M.nsignals - 1)]
        /\ M.rising \in [Event(M) -> BOOLEAN]
        /\ M.start \in [Signal(M) -> Values]
    BY <1>1, <1>2 DEF IsNet, NetShape, SameSize
  <1> QED
    BY <1>1, <1>4, <1>5, <1>6, <1>7, <1>8 DEF IsNet, NetShape

-----------------------------------------------------------------------------
(* Merging the places around an event                                      *)

LEMMA PresetRules ==
    ASSUME NEW N, NetShape(N), NEW t \in Event(N), NEW p \in Preset(N, t)
    PROVE  /\ <<p, t>> \in Markable(N) /\ p \in Place(N)
           /\ N.level[<<p, t>>] \in SUBSET [Signal(N) -> Values]
  <1>1. <<p, t>> \in Markable(N) /\ p \in Place(N)
    BY DEF Preset, Markable
  <1> QED
    BY <1>1 DEF NetShape

(* What xform3a, xform3b and xform3c make of the preset of t.              *)
Merged3(N, t, q, gone, moved, into) ==
    Rewrite(N, gone, moved \cup into, Marked3(N, t, q, moved),
            [r \in moved |-> N.level[<<r[1], t>>]], {t, q})

FromPreset(N, t, q, moved) ==
    moved \subseteq {<<p, x>> : p \in Preset(N, t) \ {q}, x \in Event(N)}

LEMMA FromPresetIs ==
    ASSUME NEW N, NEW t, NEW q, NEW moved, FromPreset(N, t, q, moved), NEW r \in moved
    PROVE  /\ r[1] \in Preset(N, t) /\ r[1] # q /\ r[2] \in Event(N)
           /\ r = <<r[1], r[2]>>
  BY DEF FromPreset

LEMMA Marked3Rules ==
    ASSUME NEW N, NetShape(N), NEW t \in Event(N), NEW q, NEW moved,
           FromPreset(N, t, q, moved), NEW r \in Marked3(N, t, q, moved)
    PROVE  r[2] \in Event(N)
  <1>1. CASE r \in N.marked
    BY <1>1 DEF NetShape, Markable
  <1>2. CASE r \in moved
    BY <1>2, FromPresetIs
  <1>3. CASE r \in N.rules /\ r[1] \in Preset(N, t)
    <2>1. r[1] \in Place(N)
      BY <1>3 DEF Preset
    <2>2. r[1] \notin Event(N)
      BY <2>1, IndicesApart
    <2> QED
      BY <1>3, <2>2 DEF NetShape
  <1> QED
    BY <1>1, <1>2, <1>3 DEF Marked3

LEMMA Merge3Shape ==
    ASSUME NEW N, IsNet(N), NEW t \in Event(N), NEW q \in Place(N), NEW gone,
           NEW moved, FromPreset(N, t, q, moved),
           NEW into \in SUBSET (Event(N) \X Place(N))
    PROVE  /\ IsNet(Merged3(N, t, q, gone, moved, into))
           /\ SameSize(N, Merged3(N, t, q, gone, moved, into))
  <1> PICK level : level = [r \in moved |-> N.level[<<r[1], t>>]]
    OBVIOUS
  <1> PICK marked : marked = Marked3(N, t, q, moved)
    OBVIOUS
  <1>1. NetShape(N)
    BY DEF IsNet
  <1>2. ASSUME NEW r \in moved
        PROVE  /\ r \in Arcs(N) /\ r[2] \in Event(N)
               /\ level[r] \in SUBSET [Signal(N) -> Values]
    <2>1. /\ r[1] \in Preset(N, t) /\ r[2] \in Event(N) /\ r = <<r[1], r[2]>>
      BY FromPresetIs
    <2>2. r[1] \in Place(N) /\ N.level[<<r[1], t>>] \in SUBSET [Signal(N) -> Values]
      BY <1>1, <2>1, PresetRules
    <2> QED
      BY <2>1, <2>2 DEF Arcs
  <1>3. ASSUME NEW r \in into PROVE r \in Arcs(N) /\ r[2] \notin Event(N)
    <2>1. r[2] \in Place(N)
      OBVIOUS
    <2> QED
      BY <1>1, <2>1, IndicesApart DEF Arcs
  <1>4. \A r \in marked : r[2] \in Event(N)
    BY <1>1, Marked3Rules
  <1>5. moved \cup into \in SUBSET Arcs(N)
    BY <1>2, <1>3
  <1>6. \A r \in moved \cup into : r[2] \in Event(N) =>
            level[r] \in SUBSET [Signal(N) -> Values]
    BY <1>2, <1>3
  <1>7. {t, q} \in SUBSET (Event(N) \cup Place(N))
    OBVIOUS
  <1> QED
    BY <1>4, <1>5, <1>6, <1>7, RewriteShape DEF Merged3

(* The token of a place is on each of its rules.                           *)
LEMMA TokenOnRule ==
    ASSUME NEW N, PlacesAgree(N), NEW r \in Markable(N), r[1] \in Place(N), NetShape(N)
    PROVE  r \in N.marked <=> MarkedPlace(N, r[1])
  <1>1. ASSUME NEW s \in N.marked, s[1] = r[1] PROVE r \in N.marked
    <2>1. s \in Markable(N)
      BY DEF NetShape
    <2> QED
      BY <1>1, <2>1 DEF PlacesAgree, SamePlace
  <1> QED
    BY <1>1 DEF MarkedPlace

(* Whether place p has a token afterwards.                                 *)
Token3(N, t, q, p) ==
    IF p \in Preset(N, t) THEN MarkedPlace(N, q) \/ MarkedPlace(N, p)
    ELSE MarkedPlace(N, p)

LEMMA Merge3Token ==
    ASSUME NEW N, NetShape(N), PlacesAgree(N), NEW t \in Event(N), NEW q,
           NEW moved, FromPreset(N, t, q, moved),
           NEW r, r \in Markable(N) \/ r \in moved, r[1] \in Place(N)
    PROVE  r \in Marked3(N, t, q, moved) <=> Token3(N, t, q, r[1])
  <1>1. r \in Markable(N) => (r \in N.marked <=> MarkedPlace(N, r[1]))
    BY TokenOnRule
  <1>2. r[1] \in Preset(N, t) => (<<r[1], t>> \in N.marked <=> MarkedPlace(N, r[1]))
    <2> SUFFICES ASSUME r[1] \in Preset(N, t)
                 PROVE  <<r[1], t>> \in N.marked <=> MarkedPlace(N, r[1])
      OBVIOUS
    <2>1. <<r[1], t>> \in Markable(N) /\ <<r[1], t>>[1] = r[1]
      BY PresetRules
    <2> QED
      BY <2>1, TokenOnRule
  <1>3. r \in moved => r[1] \in Preset(N, t)
    BY FromPresetIs
  <1>4. r \notin Markable(N) => r \notin N.marked
    BY DEF NetShape
  <1>5. r \in Markable(N) => r \in N.rules
    BY DEF Markable
  <1>6. CASE MarkedPlace(N, q)
    BY <1>1, <1>3, <1>5, <1>6 DEF Marked3, Token3
  <1>7. CASE ~MarkedPlace(N, q)
    BY <1>1, <1>2, <1>3, <1>4, <1>7 DEF Marked3, Token3
  <1> QED
    BY <1>6, <1>7

LEMMA Merge3Agree ==
    ASSUME NEW N, IsNet(N), PlacesAgree(N),
           NEW t \in Event(N), NEW q \in Place(N), NEW gone,
           NEW moved, FromPreset(N, t, q, moved),
           NEW into \in SUBSET (Event(N) \X Place(N))
    PROVE  PlacesAgree(Merged3(N, t, q, gone, moved, into))
  <1> PICK level : level = [r \in moved |-> N.level[<<r[1], t>>]]
    OBVIOUS
  <1> PICK marked : marked = Marked3(N, t, q, moved)
    OBVIOUS
  <1> PICK new : new = moved \cup into
    OBVIOUS
  <1> PICK dropped : dropped = {t, q}
    OBVIOUS
  <1> PICK M : M = Rewrite(N, gone, new, marked, level, dropped)
    OBVIOUS
  <1>1. /\ M.rules = (N.rules \ gone) \cup new
        /\ M.marked = marked \cap ((N.rules \ gone) \cup new)
        /\ SameSize(N, M)
    BY RewriteTokens
  <1>2. Event(M) = Event(N) /\ Place(M) = Place(N)
    BY <1>1, SizesEqual
  <1>3. NetShape(N)
    BY DEF IsNet
  <1>4. ASSUME NEW r \in Markable(M), r[1] \in Place(N)
        PROVE  r \in M.marked <=> Token3(N, t, q, r[1])
    <2>1. r \in M.rules /\ r[2] \in Event(N)
      BY <1>2 DEF Markable
    <2>2. r \notin into
      <3>1. r \in into => r[2] \in Place(N)
        OBVIOUS
      <3> QED
        BY <2>1, <3>1, <1>3, IndicesApart
    <2>3. r \in Markable(N) \/ r \in moved
      BY <1>1, <2>1, <2>2 DEF Markable
    <2> QED
      BY <1>1, <1>3, <1>4, <2>1, <2>3, Merge3Token
  <1>5. PlacesAgree(M)
    BY <1>2, <1>4 DEF PlacesAgree, SamePlace
  <1> QED
    BY <1>5 DEF Merged3

-----------------------------------------------------------------------------
(* Moving a token over an event                                            *)

LEMMA PostsetRules ==
    ASSUME NEW N, NetShape(N), NEW t \in Event(N), NEW q \in Postset(N, t)
    PROVE  q \in Place(N) /\ q \notin Event(N)
  BY IndicesApart DEF Postset

New4(N, t, p) ==
    (Postset(N, t) \X (Consumers(N, p) \ {t})) \cup (Producers(N, p) \X Postset(N, t))

LEMMA Merge4Shape ==
    ASSUME NEW N, IsNet(N), NEW t \in Event(N), NEW p \in Place(N)
    PROVE  /\ IsNet(Merge4(N, t, p))
           /\ SameSize(N, Merge4(N, t, p))
  <1> PICK new : new = New4(N, t, p)
    OBVIOUS
  <1> PICK level : level = [r \in new |-> TrueLevel(N)]
    OBVIOUS
  <1> PICK marked : marked = Marked4(N, t, new)
    OBVIOUS
  <1>1. NetShape(N)
    BY DEF IsNet
  <1>2. new \in SUBSET Arcs(N)
    BY DEF New4, Arcs, Postset, Consumers, Producers
  <1>3. \A r \in new : level[r] \in SUBSET [Signal(N) -> Values]
    BY DEF TrueLevel, Values
  <1>4. ASSUME NEW r \in marked PROVE r[2] \in Event(N)
    <2>1. CASE r \in N.marked
      BY <1>1, <2>1 DEF NetShape, Markable
    <2>2. CASE r \in N.rules \cup new /\ r[1] \in Postset(N, t)
      <3>1. r[1] \notin Event(N)
        BY <1>1, <2>2, PostsetRules
      <3> QED
        BY <1>1, <1>2, <2>2, <3>1 DEF NetShape, Arcs
    <2> QED
      BY <2>1, <2>2 DEF Marked4
  <1>5. {t, p} \in SUBSET (Event(N) \cup Place(N))
    OBVIOUS
  <1> QED
    BY <1>2, <1>3, <1>4, <1>5, RewriteShape DEF Merge4, New4

Token4(N, t, q) == MarkedPlace(N, q) \/ (PreMarked(N, t) /\ q \in Postset(N, t))

(* The place p before t has a token, or none of the places after it that   *)
(* are given to other consumers has one.                                   *)
LEMMA Merge4Agree ==
    ASSUME NEW N, IsNet(N), PlacesAgree(N), NEW t \in Event(N), NEW p \in Place(N),
           PreMarked(N, t) \/ ~Tears(N, t, p)
    PROVE  PlacesAgree(Merge4(N, t, p))
  <1> PICK new : new = New4(N, t, p)
    OBVIOUS
  <1> PICK gone : gone = {<<t, q>> : q \in Postset(N, t)}
                             \cup {r \in N.rules : p \in {r[1], r[2]}}
    OBVIOUS
  <1> PICK level : level = [r \in new |-> TrueLevel(N)]
    OBVIOUS
  <1> PICK marked : marked = Marked4(N, t, new)
    OBVIOUS
  <1> PICK dropped : dropped = {t, p}
    OBVIOUS
  <1> PICK M : M = Rewrite(N, gone, new, marked, level, dropped)
    OBVIOUS
  <1>1. /\ M.rules = (N.rules \ gone) \cup new
        /\ M.marked = marked \cap ((N.rules \ gone) \cup new)
        /\ SameSize(N, M)
    BY RewriteTokens
  <1>2. Event(M) = Event(N) /\ Place(M) = Place(N)
    BY <1>1, SizesEqual
  <1>3. NetShape(N)
    BY DEF IsNet
  <1>4. ASSUME NEW r \in Markable(M), r[1] \in Place(N)
        PROVE  r \in M.marked <=> Token4(N, t, r[1])
    <2>1. r \in M.rules /\ r[2] \in Event(N)
      BY <1>2 DEF Markable
    <2>2. CASE r \in N.rules
      <3>1. r \in Markable(N)
        BY <2>1, <2>2 DEF Markable
      <3>2. r \in N.marked <=> MarkedPlace(N, r[1])
        BY <1>3, <1>4, <3>1, TokenOnRule
      <3> QED
        BY <1>1, <2>1, <2>2, <3>2 DEF Marked4, Token4
    <2>3. CASE r \notin N.rules
      <3>1. r \in new
        BY <1>1, <2>1, <2>3
      <3>2. r[1] \in Postset(N, t) /\ r[2] \in Consumers(N, p) \ {t}
        <4>1. r \notin Producers(N, p) \X Postset(N, t)
          BY <1>3, <2>1, PostsetRules
        <4> QED
          BY <3>1, <4>1 DEF New4
      <3>3. r \notin N.marked
        BY <1>3, <2>3 DEF NetShape, Markable
      <3>4. CASE PreMarked(N, t)
        BY <1>1, <2>1, <3>1, <3>2, <3>4 DEF Marked4, Token4
      <3>5. CASE ~PreMarked(N, t)
        <4>1. ~MarkedPlace(N, r[1])
          BY <3>2, <3>5 DEF Tears, PostMarked
        <4> QED
          BY <1>1, <3>3, <3>5, <4>1 DEF Marked4, Token4
      <3> QED
        BY <3>4, <3>5
    <2> QED
      BY <2>2, <2>3
  <1>5. ASSUME NEW r \in Markable(M), NEW s \in Markable(M), SamePlace(M, r, s)
        PROVE  r \in M.marked <=> s \in M.marked
    <2>1. r[1] \in Place(N) /\ s[1] = r[1]
      BY <1>2, <1>5 DEF SamePlace
    <2> QED
      BY <1>4, <2>1
  <1>6. PlacesAgree(M)
    BY <1>5 DEF PlacesAgree
  <1> QED
    BY <1>6 DEF Merge4, New4

-----------------------------------------------------------------------------
(* One transformation: the design stays a net of the same size, and, if    *)
(* the rules out of each place agreed on its token, they still do.         *)
Keeps(N, M) ==
    IsNet(N) => /\ IsNet(M) /\ SameSize(N, M)
                /\ PlacesAgree(N) => PlacesAgree(M)

LEMMA MovedFromPreset ==
    ASSUME NEW N, NEW t, NEW q
    PROVE  FromPreset(N, t, q, Moved3(N, t, q))
  <1>1. Consumers(N, q) \subseteq Event(N)
    BY DEF Consumers
  <1> QED
    BY <1>1 DEF FromPreset, Moved3

LEMMA Merge3abKeeps ==
    ASSUME NEW N, NEW t \in Event(N), NEW q \in Place(N)
    PROVE  Keeps(N, Merge3ab(N, t, q))
  <1> PICK moved : moved = Moved3(N, t, q)
    OBVIOUS
  <1> PICK gone : gone = {<<p, t>> : p \in Preset(N, t)}
                             \cup {r \in N.rules : q \in {r[1], r[2]}}
    OBVIOUS
  <1>1. Merge3ab(N, t, q) = Merged3(N, t, q, gone, moved, {})
    <2>1. moved \cup {} = moved
      OBVIOUS
    <2> QED
      BY <2>1 DEF Merge3ab, Merged3
  <1>2. FromPreset(N, t, q, moved)
    BY MovedFromPreset
  <1> QED
    BY <1>1, <1>2, Merge3Shape, Merge3Agree DEF Keeps

LEMMA Merge3cKeeps ==
    ASSUME NEW N, NEW t \in Event(N), NEW q \in Place(N)
    PROVE  Keeps(N, Merge3c(N, t, q))
  <1> PICK moved : moved = {r \in Moved3(N, t, q) : r[2] # t}
    OBVIOUS
  <1> PICK into : into = (Producers(N, q) \ {t}) \X (Preset(N, t) \ {q})
    OBVIOUS
  <1> PICK gone : gone = {<<p, t>> : p \in Preset(N, t)}
                             \cup {r \in N.rules : q \in {r[1], r[2]}}
    OBVIOUS
  <1>1. Merge3c(N, t, q) = Merged3(N, t, q, gone, moved, into)
    BY DEF Merge3c, Merged3
  <1>2. FromPreset(N, t, q, moved)
    BY MovedFromPreset DEF FromPreset
  <1>3. into \in SUBSET (Event(N) \X Place(N))
    BY DEF Producers, Preset
  <1> QED
    BY <1>1, <1>2, <1>3, Merge3Shape, Merge3Agree DEF Keeps

LEMMA Merge4Keeps ==
    ASSUME NEW N, NEW t \in Event(N), NEW p \in Place(N),
           PreMarked(N, t) \/ ~Tears(N, t, p)
    PROVE  Keeps(N, Merge4(N, t, p))
  BY Merge4Shape, Merge4Agree DEF Keeps

LEMMA DropKeeps ==
    ASSUME NEW N, NEW places \in SUBSET Place(N)
    PROVE  Keeps(N, Drop(N, places))
  <1> SUFFICES ASSUME IsNet(N)
               PROVE  /\ IsNet(Drop(N, places)) /\ SameSize(N, Drop(N, places))
                      /\ PlacesAgree(N) => PlacesAgree(Drop(N, places))
    BY DEF Keeps
  <1> PICK gone : gone = {r \in N.rules : r[1] \in places \/ r[2] \in places}
    OBVIOUS
  <1> PICK marked : marked = N.marked
    OBVIOUS
  <1> PICK level : level = << >>
    OBVIOUS
  <1> PICK M : M = Rewrite(N, gone, {}, marked, level, places)
    OBVIOUS
  <1>1. M = Drop(N, places)
    BY DEF Drop
  <1>2. IsNet(M) /\ SameSize(N, M)
    <2>1. \A r \in marked : r[2] \in Event(N)
      BY DEF IsNet, NetShape, Markable
    <2>2. {} \in SUBSET Arcs(N) /\ places \in SUBSET (Event(N) \cup Place(N))
      OBVIOUS
    <2>3. \A r \in {} : r[2] \in Event(N) => level[r] \in SUBSET [Signal(N) -> Values]
      OBVIOUS
    <2> QED
      BY <2>1, <2>2, <2>3, RewriteShape
  <1>3. /\ M.rules = (N.rules \ gone) \cup {}
        /\ M.marked = marked \cap ((N.rules \ gone) \cup {})
        /\ SameSize(N, M)
    BY RewriteTokens
  <1>4. Event(M) = Event(N) /\ Place(M) = Place(N)
    BY <1>3, SizesEqual
  <1>5. ASSUME NEW r \in Markable(M)
        PROVE  r \in Markable(N) /\ (r \in M.marked <=> r \in N.marked)
    BY <1>3, <1>4 DEF Markable
  <1>6. PlacesAgree(N) => PlacesAgree(M)
    BY <1>4, <1>5 DEF PlacesAgree, SamePlace
  <1> QED
    BY <1>1, <1>2, <1>6

-----------------------------------------------------------------------------
(* The places that implicit places become                                  *)

Earlier(N, r) == {s \in Implicit(N) : s[1] < r[1] \/ (s[1] = r[1] /\ s[2] < r[2])}

NewPlace(N, r) == N.nevents + N.nplaces + Cardinality(Earlier(N, r))

LEMMA ImplicitFinite ==
    ASSUME NEW N, NetShape(N)
    PROVE  /\ Implicit(N) \subseteq Event(N) \X Event(N)
           /\ IsFiniteSet(Implicit(N)) /\ Cardinality(Implicit(N)) \in Nat
  <1>1. Implicit(N) \in SUBSET (Event(N) \X Event(N))
    BY DEF Implicit, NetShape
  <1>2. IsFiniteSet(Event(N))
    <2>1. N.nevents - 1 \in Int
      BY DEF NetShape
    <2> QED
      BY <2>1, FS_Interval DEF Event
  <1>3. IsFiniteSet(Event(N) \X Event(N))
    BY <1>2, FS_Product
  <1> QED
    BY <1>1, <1>3, FS_Subset, FS_CardinalityType

LEMMA ImplicitPair ==
    ASSUME NEW N, NetShape(N), NEW r \in Implicit(N)
    PROVE  r[1] \in Int /\ r[2] \in Int /\ r = <<r[1], r[2]>>
  <1>1. r \in Event(N) \X Event(N)
    BY ImplicitFinite
  <1>2. r = <<r[1], r[2]>> /\ r[1] \in Event(N) /\ r[2] \in Event(N)
    BY <1>1
  <1>3. Event(N) \subseteq Int
    BY DEF Event, NetShape
  <1> QED
    BY <1>2, <1>3

LEMMA EarlierFewer ==
    ASSUME NEW N, NetShape(N), NEW r \in Implicit(N)
    PROVE  Cardinality(Earlier(N, r)) \in 0 .. (Cardinality(Implicit(N)) - 1)
  <1> PICK S : S = Implicit(N)
    OBVIOUS
  <1> PICK T : T = Earlier(N, r)
    OBVIOUS
  <1>1. IsFiniteSet(S) /\ Cardinality(S) \in Nat /\ S \subseteq Event(N) \X Event(N)
    BY ImplicitFinite
  <1>2. r[1] \in Int /\ r[2] \in Int
    BY ImplicitPair
  <1>3. T \in SUBSET S /\ r \in S /\ r \notin T
    BY <1>2 DEF Earlier
  <1>4. IsFiniteSet(T) /\ Cardinality(T) \in Nat
    BY <1>1, <1>3, FS_Subset, FS_CardinalityType
  <1>5. Cardinality(T) <= Cardinality(S) /\ Cardinality(S) # Cardinality(T)
    BY <1>1, <1>3, FS_Subset
  <1> QED
    BY <1>1, <1>4, <1>5

LEMMA EarlierApart ==
    ASSUME NEW N, NetShape(N), NEW r \in Implicit(N), NEW s \in Implicit(N),
           s \in Earlier(N, r)
    PROVE  Cardinality(Earlier(N, s)) # Cardinality(Earlier(N, r))
  <1> PICK S : S = Earlier(N, s)
    OBVIOUS
  <1> PICK T : T = Earlier(N, r)
    OBVIOUS
  <1>1. Implicit(N) \subseteq Event(N) \X Event(N) /\ IsFiniteSet(Implicit(N))
    BY ImplicitFinite
  <1>2. \A x \in Implicit(N) : x[1] \in Int /\ x[2] \in Int
    BY ImplicitPair
  <1>3. S \in SUBSET T
    <2> SUFFICES ASSUME NEW x \in S PROVE x \in T
      OBVIOUS
    <2>1. x \in Implicit(N) /\ (x[1] < s[1] \/ (x[1] = s[1] /\ x[2] < s[2]))
      BY DEF Earlier
    <2>2. s[1] < r[1] \/ (s[1] = r[1] /\ s[2] < r[2])
      BY DEF Earlier
    <2>3. x[1] < r[1] \/ (x[1] = r[1] /\ x[2] < r[2])
      BY <1>2, <2>1, <2>2
    <2> QED
      BY <2>1, <2>3 DEF Earlier
  <1>4. s \in T /\ s \notin S
    BY <1>2 DEF Earlier
  <1>5. T \in SUBSET Implicit(N)
    BY DEF Earlier
  <1>6. IsFiniteSet(T)
    BY <1>1, <1>5, FS_Subset
  <1> QED
    BY <1>3, <1>4, <1>6, FS_Subset

LEMMA NewPlaceApart ==
    ASSUME NEW N, NetShape(N), NEW r \in Implicit(N), NEW s \in Implicit(N), r # s
    PROVE  NewPlace(N, r) # NewPlace(N, s)
  <1>2. /\ r[1] \in Int /\ r[2] \in Int /\ r = <<r[1], r[2]>>
        /\ s[1] \in Int /\ s[2] \in Int /\ s = <<s[1], s[2]>>
    BY ImplicitPair
  <1>3. r[1] # s[1] \/ r[2] # s[2]
    BY <1>2
  <1>4. s \in Earlier(N, r) \/ r \in Earlier(N, s)
    <2>1. \A a, b, c, d \in Int : a # c \/ b # d =>
              (c < a \/ (c = a /\ d < b)) \/ (a < c \/ (a = c /\ b < d))
      OBVIOUS
    <2>2. \/ s[1] < r[1] \/ (s[1] = r[1] /\ s[2] < r[2])
          \/ r[1] < s[1] \/ (r[1] = s[1] /\ r[2] < s[2])
      BY <1>2, <1>3, <2>1
    <2> QED
      BY <2>2 DEF Earlier
  <1>5. Cardinality(Earlier(N, r)) # Cardinality(Earlier(N, s))
    BY <1>4, EarlierApart
  <1>6. /\ Cardinality(Earlier(N, r)) \in Int /\ Cardinality(Earlier(N, s)) \in Int
        /\ N.nevents \in Int /\ N.nplaces \in Int
    BY EarlierFewer DEF NetShape
  <1> QED
    BY <1>5, <1>6 DEF NewPlace

-----------------------------------------------------------------------------
(* The expanded design                                                     *)

IntoRule(N, r) == <<NewPlace(N, r), r[2]>>
FromRule(N, r) == <<r[1], NewPlace(N, r)>>

ExpandedRules(N) ==
    (N.rules \ Implicit(N)) \cup {IntoRule(N, r) : r \in Implicit(N)}
                            \cup {FromRule(N, r) : r \in Implicit(N)}

ExpandedLevel(N) ==
    [s \in {r \in ExpandedRules(N) : r[2] \in Event(N)} |->
        IF s \in N.rules THEN N.level[s]
        ELSE N.level[CHOOSE r \in Implicit(N) : IntoRule(N, r) = s]]

ExpandedConstraint(N) ==
    (N.constraint \ Implicit(N))
        \cup {IntoRule(N, r) : r \in N.constraint \cap Implicit(N)}
        \cup {FromRule(N, r) : r \in N.constraint \cap Implicit(N)}

ExpandedMarked(N) ==
    (N.marked \ Implicit(N)) \cup {IntoRule(N, r) : r \in N.marked \cap Implicit(N)}

Prepared(N, abstract) == [ExpandDesign(N) EXCEPT !.abstract = abstract]

LEMMA ExpandFields ==
    ASSUME NEW N, IsNet(N), NEW abstract,
           NEW M, M = Prepared(N, abstract)
    PROVE  /\ DOMAIN M = Fields
           /\ M.nevents = N.nevents
           /\ M.nplaces = N.nplaces + Cardinality(Implicit(N))
           /\ M.nsignals = N.nsignals /\ M.ninpsig = N.ninpsig
           /\ M.rules = ExpandedRules(N)
           /\ M.constraint = ExpandedConstraint(N)
           /\ M.level = ExpandedLevel(N)
           /\ M.marked = ExpandedMarked(N)
           /\ M.signal = N.signal /\ M.rising = N.rising /\ M.start = N.start
           /\ M.dropped = N.dropped /\ M.abstract = abstract /\ M.xform2 = N.xform2
  <1> PICK place : place = N.nplaces + Cardinality(Implicit(N))
    OBVIOUS
  <1> PICK rules : rules = ExpandedRules(N)
    OBVIOUS
  <1> PICK constraint : constraint = ExpandedConstraint(N)
    OBVIOUS
  <1> PICK level : level = ExpandedLevel(N)
    OBVIOUS
  <1> PICK marked : marked = ExpandedMarked(N)
    OBVIOUS
  <1>1. ExpandDesign(N) = [N EXCEPT !.nplaces = place, !.rules = rules,
                                    !.constraint = constraint, !.marked = marked,
                                    !.level = level]
    BY DEF ExpandDesign, ExpandedRules, ExpandedConstraint, ExpandedMarked,
           ExpandedLevel, IntoRule, FromRule, NewPlace, Earlier
  <1>2. DOMAIN N = Fields
    BY DEF IsNet
  <1> QED
    BY <1>1, <1>2 DEF Fields, Prepared

(* Its places: those there were, and one for each implicit place.          *)
LEMMA ExpandPlaces ==
    ASSUME NEW N, IsNet(N), NEW M, M.nevents = N.nevents,
           M.nplaces = N.nplaces + Cardinality(Implicit(N))
    PROVE  /\ M.nplaces \in Nat
           /\ Event(M) = Event(N) /\ Place(N) \subseteq Place(M)
           /\ \A r \in Implicit(N) :
                 NewPlace(N, r) \in Place(M) /\ NewPlace(N, r) \notin Place(N) \cup Event(N)
  <1>1. NetShape(N) /\ N.nevents \in Nat \ {0} /\ N.nplaces \in Nat
    BY DEF IsNet, NetShape
  <1> PICK size : size = Cardinality(Implicit(N))
    OBVIOUS
  <1>2. size \in Nat
    BY <1>1, ImplicitFinite
  <1>3. Event(M) = Event(N)
    BY DEF Event
  <1>4. Place(N) \subseteq Place(M) /\ M.nplaces \in Nat
    BY <1>1, <1>2 DEF Place
  <1>5. ASSUME NEW r \in Implicit(N)
        PROVE  NewPlace(N, r) \in Place(M) /\ NewPlace(N, r) \notin Place(N) \cup Event(N)
    <2> PICK k : k = Cardinality(Earlier(N, r))
      OBVIOUS
    <2>1. k \in 0 .. (size - 1)
      BY <1>1, EarlierFewer
    <2>2. NewPlace(N, r) = N.nevents + N.nplaces + k
      BY DEF NewPlace
    <2> QED
      BY <1>1, <1>2, <2>1, <2>2 DEF Place, Event
  <1> QED
    BY <1>3, <1>4, <1>5

LEMMA ExpandShape ==
    ASSUME NEW N, IsNet(N), NEW abstract,
           NEW M, M = Prepared(N, abstract)
    PROVE  IsNet(M) /\ M.rules \subseteq Arcs(M) /\ M.nevents = N.nevents
  <1>1. /\ DOMAIN M = Fields
        /\ M.nevents = N.nevents
        /\ M.nplaces = N.nplaces + Cardinality(Implicit(N))
        /\ M.nsignals = N.nsignals /\ M.ninpsig = N.ninpsig
        /\ M.rules = ExpandedRules(N)
        /\ M.constraint = ExpandedConstraint(N)
        /\ M.level = ExpandedLevel(N)
        /\ M.marked = ExpandedMarked(N)
        /\ M.signal = N.signal /\ M.rising = N.rising /\ M.start = N.start
        /\ M.dropped = N.dropped
    BY ExpandFields
  <1>2. /\ M.nplaces \in Nat /\ Event(M) = Event(N) /\ Place(N) \subseteq Place(M)
        /\ \A r \in Implicit(N) :
              NewPlace(N, r) \in Place(M) /\ NewPlace(N, r) \notin Place(N) \cup Event(N)
    BY <1>1, ExpandPlaces
  <1>3. /\ NetShape(N)
        /\ Implicit(N) \subseteq N.rules /\ Implicit(N) \subseteq Markable(N)
        /\ \A r \in Implicit(N) : r[1] \in Event(N) /\ r[2] \in Event(N)
    BY DEF IsNet, Implicit, Markable
  <1>4. Signal(M) = Signal(N)
    BY <1>1 DEF Signal
  <1>5. \A r \in Implicit(N) : /\ IntoRule(N, r) \in Place(M) \X Event(M)
                               /\ FromRule(N, r) \in Event(M) \X Place(M)
                               /\ IntoRule(N, r)[2] = r[2]
    BY <1>2, <1>3 DEF IntoRule, FromRule
  <1>6. M.rules \subseteq Arcs(M)
    <2>1. N.rules \ Implicit(N) \subseteq (Event(N) \X Place(N)) \cup (Place(N) \X Event(N))
      <3> SUFFICES ASSUME NEW r \in N.rules \ Implicit(N)
                   PROVE  r \in (Event(N) \X Place(N)) \cup (Place(N) \X Event(N))
        OBVIOUS
      <3>1. r \in (Event(N) \X (Event(N) \cup Place(N))) \cup (Place(N) \X Event(N))
        BY <1>3 DEF NetShape
      <3>2. r \notin Event(N) \X Event(N)
        BY DEF Implicit
      <3> QED
        BY <3>1, <3>2
    <2> QED
      BY <1>1, <1>2, <1>5, <2>1 DEF ExpandedRules, Arcs
  <1>7. M.rules \subseteq (Event(M) \X (Event(M) \cup Place(M))) \cup (Place(M) \X Event(M))
    BY <1>6 DEF Arcs
  <1>8. M.constraint \subseteq M.rules
    BY <1>1, <1>3 DEF NetShape, ExpandedRules, ExpandedConstraint
  <1>9. M.marked \subseteq Markable(M)
    <2>1. \A r \in N.marked \ Implicit(N) : r \in M.rules /\ r[2] \in Event(M)
      BY <1>1, <1>2, <1>3 DEF NetShape, Markable, ExpandedRules
    <2>2. \A r \in Implicit(N) : IntoRule(N, r) \in M.rules /\ IntoRule(N, r)[2] \in Event(M)
      BY <1>1, <1>2, <1>3, <1>5 DEF ExpandedRules
    <2> QED
      BY <1>1, <2>1, <2>2 DEF Markable, ExpandedMarked
  <1>10. M.level \in [Markable(M) -> SUBSET [Signal(M) -> Values]]
    <2>1. Markable(M) = {r \in ExpandedRules(N) : r[2] \in Event(N)}
      BY <1>1, <1>2 DEF Markable
    <2>2. ASSUME NEW s \in Markable(M)
          PROVE  (IF s \in N.rules THEN N.level[s]
                  ELSE N.level[CHOOSE r \in Implicit(N) : IntoRule(N, r) = s])
                     \in SUBSET [Signal(N) -> Values]
      <3>1. N.level \in [Markable(N) -> SUBSET [Signal(N) -> Values]]
        BY <1>3 DEF NetShape
      <3>2. CASE s \in N.rules
        <4>1. s \in Markable(N)
          BY <1>2, <3>2 DEF Markable
        <4> QED
          BY <3>1, <3>2, <4>1
      <3>3. CASE s \notin N.rules
        <4>1. \A r \in Implicit(N) : s # FromRule(N, r)
          <5> SUFFICES ASSUME NEW r \in Implicit(N), s = FromRule(N, r) PROVE FALSE
            OBVIOUS
          <5>1. s[2] = NewPlace(N, r)
            BY DEF FromRule
          <5>2. s[2] \in Event(N)
            BY <1>2 DEF Markable
          <5> QED
            BY <1>2, <5>1, <5>2
        <4>2. \E r \in Implicit(N) : IntoRule(N, r) = s
          BY <2>1, <3>3, <4>1 DEF ExpandedRules
        <4>3. (CHOOSE r \in Implicit(N) : IntoRule(N, r) = s) \in Implicit(N)
          BY <4>2
        <4> QED
          BY <1>3, <3>1, <3>3, <4>3
      <3> QED
        BY <3>2, <3>3
    <2>3. M.level = [s \in Markable(M) |->
                        IF s \in N.rules THEN N.level[s]
                        ELSE N.level[CHOOSE r \in Implicit(N) : IntoRule(N, r) = s]]
      BY <1>1, <2>1 DEF ExpandedLevel
    <2> QED
      BY <1>4, <2>2, <2>3
  <1>11. M.dropped \subseteq Event(M) \cup Place(M)
    BY <1>1, <1>2, <1>3 DEF NetShape
  <1>12. /\ M.nevents \in Nat \ {0}
         /\ M.nsignals \in Nat /\ M.ninpsig \in 0 .. M.nsignals
         /\ M.signal \in [Event(M) -> -1 .. (M.nsignals - 1)]
         /\ M.rising \in [Event(M) -> BOOLEAN]
         /\ M.start \in [Signal(M) -> Values]
    BY <1>1, <1>2, <1>3, <1>4 DEF NetShape
  <1> QED
    BY <1>1, <1>2, <1>6, <1>7, <1>8, <1>9, <1>10, <1>11, <1>12 DEF IsNet, NetShape

LEMMA ExpandAgree ==
    ASSUME NEW N, IsNet(N), PlacesAgree(N), NEW abstract,
           NEW M, M = Prepared(N, abstract)
    PROVE  PlacesAgree(M)
  <1>1. /\ M.nevents = N.nevents
        /\ M.nplaces = N.nplaces + Cardinality(Implicit(N))
        /\ M.rules = ExpandedRules(N)
        /\ M.marked = ExpandedMarked(N)
    BY ExpandFields
  <1>2. /\ Event(M) = Event(N) /\ Place(N) \subseteq Place(M)
        /\ \A r \in Implicit(N) :
              NewPlace(N, r) \in Place(M) /\ NewPlace(N, r) \notin Place(N) \cup Event(N)
    BY <1>1, ExpandPlaces
  <1>3. NetShape(N)
    BY DEF IsNet
  <1>4. ASSUME NEW r \in Markable(M), r[1] \in Place(M)
        PROVE  \/ /\ r[1] \in Place(N) /\ r \in Markable(N)
                  /\ r \in M.marked <=> r \in N.marked
               \/ r[1] \notin Place(N) /\ \E x \in Implicit(N) : r = IntoRule(N, x)
    <2>1. r \in ExpandedRules(N) /\ r[2] \in Event(N)
      BY <1>1, <1>2 DEF Markable
    <2>2. \A x \in Implicit(N) : r # FromRule(N, x)
      <3> SUFFICES ASSUME NEW x \in Implicit(N), r = FromRule(N, x) PROVE FALSE
        OBVIOUS
      <3>1. r[2] = NewPlace(N, x)
        BY DEF FromRule
      <3> QED
        BY <1>2, <2>1, <3>1
    <2>3. CASE r \in N.rules \ Implicit(N)
      <3>1. r \in Markable(N)
        BY <2>1, <2>3 DEF Markable
      <3>2. r[1] \in Place(N)
        BY <1>3, <2>1, <2>3 DEF NetShape, Implicit
      <3>3. \A x \in Implicit(N) : r # IntoRule(N, x)
        BY <1>2, <3>2 DEF IntoRule
      <3> QED
        BY <1>1, <2>3, <3>1, <3>2, <3>3 DEF ExpandedMarked
    <2>4. CASE \E x \in Implicit(N) : r = IntoRule(N, x)
      BY <1>2, <2>4 DEF IntoRule
    <2> QED
      BY <2>1, <2>2, <2>3, <2>4 DEF ExpandedRules
  <1>5. ASSUME NEW r \in Markable(M), NEW s \in Markable(M), SamePlace(M, r, s)
        PROVE  r \in M.marked <=> s \in M.marked
    <2>1. r[1] \in Place(M) /\ s[1] = r[1]
      BY <1>5 DEF SamePlace
    <2>2. CASE r[1] \in Place(N)
      BY <1>4, <2>1, <2>2 DEF PlacesAgree, SamePlace
    <2>3. CASE r[1] \notin Place(N)
      <3>1. PICK x \in Implicit(N) : r = IntoRule(N, x)
        BY <1>4, <2>1, <2>3
      <3>2. PICK y \in Implicit(N) : s = IntoRule(N, y)
        BY <1>4, <2>1, <2>3
      <3>3. NewPlace(N, x) = NewPlace(N, y)
        BY <2>1, <3>1, <3>2 DEF IntoRule
      <3>4. x = y
        BY <1>3, <3>3, NewPlaceApart
      <3> QED
        BY <3>1, <3>2, <3>4
    <2> QED
      BY <2>2, <2>3
  <1> QED
    BY <1>5 DEF PlacesAgree

-----------------------------------------------------------------------------
(* The inductive invariant.  Beyond TypeOK it says that the rules which    *)
(* replace_constraints puts back lead from events to places, so that none  *)
(* of them takes part in a marking.                                        *)
IInv ==
    /\ net \in Nets
    /\ IsNet(design) /\ (~torn => PlacesAgree(design))
    /\ design.abstract \subseteq Event(design)
    /\ torn \in BOOLEAN /\ modified \in BOOLEAN /\ at \in 0 .. design.nevents
    /\ pc \in {"check", "events", "merge", "loops", "pass", "follow", "compare", "failed"}
    /\ saved \subseteq Event(design) \X Place(design)
    /\ design.xform2 = net.xform2 /\ (torn => net.xform2)
    /\ pc \in {"follow", "compare", "failed"} =>
          mk \in Marking(net) /\ images \subseteq Marking(design)

LEMMA NetsAreNets ==
    ASSUME NEW N \in Nets
    PROVE  IsNet(N) /\ PlacesAgree(N) /\ N.abstract \subseteq Event(N)
  BY NetsAssumption DEF IsNet, LoadedNet

LEMMA InitIInv == Init => IInv
  <1> SUFFICES ASSUME Init PROVE IInv
    OBVIOUS
  <1>1. IsNet(net) /\ PlacesAgree(net) /\ net.abstract \subseteq Event(net)
    BY NetsAreNets DEF Init
  <1>2. 0 \in 0 .. net.nevents
    BY <1>1 DEF IsNet, NetShape
  <1> QED
    BY <1>1, <1>2 DEF Init, IInv

(* What fix_constraints records: the places come after the events.         *)
LEMMA PrepareIInv == IInv /\ Prepare => IInv'
  <1> SUFFICES ASSUME IInv, Prepare PROVE IInv'
    OBVIOUS
  <1> PICK abstract : abstract = CheckConstraints(net)
    OBVIOUS
  <1>1. IsNet(net) /\ PlacesAgree(net) /\ net.abstract \subseteq Event(net)
    BY NetsAreNets DEF IInv
  <1>2. design' = Prepared(net, abstract)
    BY DEF Prepare, Prepared
  <1>3. IsNet(design') /\ design'.rules \subseteq Arcs(design') /\ design'.nevents = net.nevents
    BY <1>1, <1>2, ExpandShape
  <1>4. PlacesAgree(design')
    BY <1>1, <1>2, ExpandAgree
  <1>5. design'.abstract \subseteq Event(design')
    <2>1. design'.abstract = abstract
      BY <1>1, <1>2, ExpandFields
    <2>2. abstract \subseteq net.abstract
      BY DEF CheckConstraints
    <2> QED
      BY <1>1, <1>3, <2>1, <2>2 DEF Event
  <1>6. saved' \subseteq Event(design') \X Place(design')
    <2> SUFFICES ASSUME NEW r \in saved' PROVE r \in Event(design') \X Place(design')
      OBVIOUS
    <2>1. r \in design'.constraint /\ r[1] < r[2]
      BY DEF Prepare
    <2>2. r \in Arcs(design')
      BY <1>3, <2>1 DEF IsNet, NetShape
    <2>3. r \notin Place(design') \X Event(design')
      <3> SUFFICES ASSUME r \in Place(design') \X Event(design') PROVE FALSE
        OBVIOUS
      <3>1. r[1] \in Place(design') /\ r[2] \in Event(design')
        OBVIOUS
      <3>2. r[2] < r[1]
        BY <1>3, <3>1 DEF IsNet, NetShape, Place, Event
      <3>3. r[1] \in Int /\ r[2] \in Int
        BY <1>3, <3>1 DEF IsNet, NetShape, Place, Event
      <3> QED
        BY <2>1, <3>2, <3>3
    <2> QED
      BY <2>2, <2>3 DEF Arcs
  <1>7. at' \in 0 .. design'.nevents
    BY <1>3 DEF Prepare, IsNet, NetShape
  <1>8. design'.xform2 = net.xform2
    BY <1>1, <1>2, ExpandFields
  <1> QED
    BY <1>3, <1>4, <1>5, <1>6, <1>7, <1>8 DEF Prepare, IInv

(* A step that leaves a net of the same size in the passes.                *)
LEMMA DesignStep ==
    ASSUME IInv,
           IsNet(design'), SameSize(design, design'), ~torn' => PlacesAgree(design'),
           net' = net, saved' = saved, torn' \in BOOLEAN, modified' \in BOOLEAN,
           torn' => torn \/ design.xform2,
           at' \in 0 .. design.nevents, pc' \in {"events", "merge", "loops", "pass"}
    PROVE  IInv'
  <1>1. /\ design'.nevents = design.nevents /\ design'.abstract = design.abstract
        /\ design'.xform2 = design.xform2
    BY DEF SameSize
  <1>2. Event(design') = Event(design) /\ Place(design') = Place(design)
    BY SizesEqual
  <1> QED
    BY <1>1, <1>2 DEF IInv

(* The transformations of a pass.                                          *)
LEMMA TriedIsEvent ==
    ASSUME IInv, NEW k, First(k), Removed
    PROVE  /\ at \in Event(design) /\ at' \in 0 .. design.nevents
           /\ net' = net /\ saved' = saved /\ modified' \in BOOLEAN /\ pc' = "events"
  <1>1. at \in Event(design) /\ design.nevents \in Nat
    BY DEF First, IInv, IsNet, NetShape
  <1>2. at + 1 \in 0 .. design.nevents
    BY <1>1 DEF Event
  <1> QED
    BY <1>1, <1>2 DEF Removed, First

LEMMA NeighbourIsPlace ==
    ASSUME NEW N, NEW t, NEW p \in Neighbours(N, t)
    PROVE  p \in Place(N)
  BY DEF Neighbours, Preset, Postset

LEMMA KeepingStep ==
    ASSUME IInv, NEW k, First(k), Removed, UNCHANGED torn, Keeps(design, design')
    PROVE  IInv'
  <1>1. /\ at' \in 0 .. design.nevents
        /\ net' = net /\ saved' = saved /\ modified' \in BOOLEAN /\ pc' = "events"
    BY TriedIsEvent
  <1>2. IsNet(design) /\ torn \in BOOLEAN /\ (~torn => PlacesAgree(design))
    BY DEF IInv
  <1>3. IsNet(design') /\ SameSize(design, design')
        /\ (PlacesAgree(design) => PlacesAgree(design'))
    BY <1>2 DEF Keeps
  <1> QED
    BY <1>1, <1>2, <1>3, DesignStep

LEMMA Xform3IInv == IInv /\ (Xform3a \/ Xform3b \/ Xform3c) => IInv'
  <1>1. ASSUME IInv, Xform3a PROVE IInv'
    <2>1. First(1) /\ Removed /\ UNCHANGED torn
      BY <1>1 DEF Xform3a
    <2>2. PICK p \in Neighbours(design, at) : design' = Merge3ab(design, at, p)
      BY <1>1 DEF Xform3a
    <2>3. Keeps(design, design')
      BY <1>1, <2>1, <2>2, TriedIsEvent, NeighbourIsPlace, Merge3abKeeps
    <2> QED
      BY <1>1, <2>1, <2>3, KeepingStep
  <1>2. ASSUME IInv, Xform3b PROVE IInv'
    <2>1. First(3) /\ Removed /\ UNCHANGED torn
      BY <1>2 DEF Xform3b
    <2>2. PICK p \in Neighbours(design, at) : design' = Merge3ab(design, at, p)
      BY <1>2 DEF Xform3b
    <2>3. Keeps(design, design')
      BY <1>2, <2>1, <2>2, TriedIsEvent, NeighbourIsPlace, Merge3abKeeps
    <2> QED
      BY <1>2, <2>1, <2>3, KeepingStep
  <1>3. ASSUME IInv, Xform3c PROVE IInv'
    <2>1. First(5) /\ Removed /\ UNCHANGED torn
      BY <1>3 DEF Xform3c
    <2>2. PICK p \in Neighbours(design, at) : design' = Merge3c(design, at, p)
      BY <1>3 DEF Xform3c
    <2>3. Keeps(design, design')
      BY <1>3, <2>1, <2>2, TriedIsEvent, NeighbourIsPlace, Merge3cKeeps
    <2> QED
      BY <1>3, <2>1, <2>3, KeepingStep
  <1> QED
    BY <1>1, <1>2, <1>3

LEMMA SingleConsumer ==
    ASSUME NEW N, NEW t, NEW p, Can(N, 2, t, p) \/ Can(N, 6, t, p)
    PROVE  ~Tears(N, t, p)
  <1>1. Xforms[2] = "4a" /\ Xforms[6] = "4c"
    BY DEF Xforms
  <1>2. Can4a(N, t, p) \/ Can4c(N, t, p)
    BY <1>1 DEF Can
  <1> QED
    BY <1>2 DEF Can4a, Can4c, Tears

LEMMA Xform4IInv == IInv /\ (Xform4a \/ Xform4b \/ Xform4c) => IInv'
  <1>1. ASSUME IInv, Xform4a PROVE IInv'
    <2>1. First(2) /\ Removed /\ UNCHANGED torn
      BY <1>1 DEF Xform4a
    <2>2. PICK p \in Neighbours(design, at) :
              Can(design, 2, at, p) /\ design' = Merge4(design, at, p)
      BY <1>1 DEF Xform4a
    <2>3. ~Tears(design, at, p)
      BY <2>2, SingleConsumer
    <2>4. Keeps(design, design')
      BY <1>1, <2>1, <2>2, <2>3, TriedIsEvent, NeighbourIsPlace, Merge4Keeps
    <2> QED
      BY <1>1, <2>1, <2>4, KeepingStep
  <1>2. ASSUME IInv, Xform4b PROVE IInv'
    <2>1. First(4) /\ Removed
      BY <1>2 DEF Xform4b
    <2>2. PICK p \in Neighbours(design, at) :
              /\ Can(design, 4, at, p)
              /\ design' = Merge4(design, at, p)
              /\ torn' = (torn \/ Tears(design, at, p))
      BY <1>2 DEF Xform4b
    <2>3. at \in Event(design) /\ p \in Place(design)
      BY <1>2, <2>1, TriedIsEvent, NeighbourIsPlace
    <2>4. IsNet(design) /\ torn \in BOOLEAN /\ (~torn => PlacesAgree(design))
      BY <1>2 DEF IInv
    <2>5. IsNet(design') /\ SameSize(design, design')
      BY <2>2, <2>3, <2>4, Merge4Shape
    <2>6. ~torn' => PlacesAgree(design')
      BY <2>2, <2>3, <2>4, Merge4Agree
    <2>7. torn' \in BOOLEAN /\ (torn' => torn \/ design.xform2)
      BY <2>2 DEF Can, Xforms
    <2>8. /\ at' \in 0 .. design.nevents
          /\ net' = net /\ saved' = saved /\ modified' \in BOOLEAN /\ pc' = "events"
      BY <1>2, <2>1, TriedIsEvent
    <2> QED
      BY <1>2, <2>5, <2>6, <2>7, <2>8, DesignStep
  <1>3. ASSUME IInv, Xform4c PROVE IInv'
    <2>1. First(6) /\ Removed /\ UNCHANGED torn
      BY <1>3 DEF Xform4c
    <2>2. PICK p \in Neighbours(design, at) :
              Can(design, 6, at, p) /\ design' = Merge4(design, at, p)
      BY <1>3 DEF Xform4c
    <2>3. ~Tears(design, at, p)
      BY <2>2, SingleConsumer
    <2>4. Keeps(design, design')
      BY <1>3, <2>1, <2>2, <2>3, TriedIsEvent, NeighbourIsPlace, Merge4Keeps
    <2> QED
      BY <1>3, <2>1, <2>4, KeepingStep
  <1> QED
    BY <1>1, <1>2, <1>3

(* The steps between the transformations.                                  *)
LEMMA SameDesignStep ==
    ASSUME IInv, UNCHANGED <<net, design, saved, torn>>, modified' \in BOOLEAN,
           at' \in 0 .. design.nevents, pc' \in {"events", "merge", "loops", "pass"}
    PROVE  IInv'
  <1>1. IsNet(design) /\ SameSize(design, design) /\ torn \in BOOLEAN
        /\ (~torn => PlacesAgree(design))
    BY DEF IInv, SameSize
  <1> QED
    BY <1>1, DesignStep

LEMMA KeepEventIInv == IInv /\ (KeepEvent \/ EventsTried \/ NextPass) => IInv'
  <1> SUFFICES ASSUME IInv, KeepEvent \/ EventsTried \/ NextPass PROVE IInv'
    OBVIOUS
  <1>1. design.nevents \in Nat \ {0} /\ at \in 0 .. design.nevents /\ modified \in BOOLEAN
    BY DEF IInv, IsNet, NetShape
  <1>2. CASE KeepEvent
    <2>1. at + 1 \in 0 .. design.nevents
      BY <1>1, <1>2 DEF KeepEvent, Event
    <2> QED
      BY <1>1, <1>2, <2>1, SameDesignStep DEF KeepEvent
  <1>3. CASE EventsTried
    BY <1>1, <1>3, SameDesignStep DEF EventsTried
  <1>4. CASE NextPass
    <2>1. 1 \in 0 .. design.nevents
      BY <1>1
    <2> QED
      BY <1>4, <2>1, SameDesignStep DEF NextPass
  <1> QED
    BY <1>2, <1>3, <1>4

LEMMA DropIInv ==
    ASSUME IInv, NEW places \in SUBSET Place(design), design' = Drop(design, places),
           modified' = TRUE, pc' \in {"loops", "pass"}, UNCHANGED <<net, saved, torn, at>>
    PROVE  IInv'
  <1>1. IsNet(design) /\ torn \in BOOLEAN /\ (~torn => PlacesAgree(design))
        /\ at \in 0 .. design.nevents
    BY DEF IInv
  <1>2. Keeps(design, design')
    BY DropKeeps
  <1>3. IsNet(design') /\ SameSize(design, design')
        /\ (PlacesAgree(design) => PlacesAgree(design'))
    BY <1>1, <1>2 DEF Keeps
  <1> QED
    BY <1>1, <1>3, DesignStep

LEMMA PlacesIInv == IInv /\ (Xform0 \/ Xform1) => IInv'
  <1> SUFFICES ASSUME IInv, Xform0 \/ Xform1 PROVE IInv'
    OBVIOUS
  <1>1. modified \in BOOLEAN /\ at \in 0 .. design.nevents
    BY DEF IInv
  <1>2. CASE Xform0
    <2>1. CASE Duplicates(design) = {}
      BY <1>1, <1>2, <2>1, SameDesignStep DEF Xform0
    <2>2. CASE Duplicates(design) # {}
      <3>1. Duplicates(design) \in SUBSET Place(design)
        BY DEF Duplicates
      <3>2. /\ design' = Drop(design, Duplicates(design))
            /\ modified' = TRUE /\ pc' = "pass" /\ UNCHANGED <<net, saved, torn, at>>
        BY <1>2, <2>2 DEF Xform0
      <3> QED
        BY <3>1, <3>2, DropIInv
    <2> QED
      BY <2>1, <2>2
  <1>3. CASE Xform1
    <2>1. CASE SelfLoops(design) = {}
      BY <1>1, <1>3, <2>1, SameDesignStep DEF Xform1
    <2>2. CASE SelfLoops(design) # {}
      <3>1. PICK p \in SelfLoops(design) : design' = Drop(design, {p})
        BY <1>3, <2>2 DEF Xform1
      <3>2. {p} \in SUBSET Place(design)
        BY DEF SelfLoops
      <3>3. modified' = TRUE /\ pc' = "loops" /\ UNCHANGED <<net, saved, torn, at>>
        BY <1>3, <2>2 DEF Xform1
      <3> QED
        BY <3>1, <3>2, <3>3, DropIInv
    <2> QED
      BY <2>1, <2>2
  <1> QED
    BY <1>2, <1>3

-----------------------------------------------------------------------------
(* The rules that replace_constraints puts back have no bit in a marking.  *)
Replaced(N, back) == [N EXCEPT !.rules = @ \cup back, !.constraint = @ \cup back]

LEMMA ReplaceKeeps ==
    ASSUME NEW N, IsNet(N), NEW back \in SUBSET (Event(N) \X Place(N)),
           NEW M, M = Replaced(N, back)
    PROVE  /\ IsNet(M) /\ SameSize(N, M)
           /\ PlacesAgree(N) => PlacesAgree(M)
  <1>1. /\ DOMAIN M = Fields /\ SameSize(N, M)
        /\ M.rules = N.rules \cup back /\ M.constraint = N.constraint \cup back
        /\ M.level = N.level /\ M.marked = N.marked /\ M.dropped = N.dropped
        /\ M.signal = N.signal /\ M.rising = N.rising /\ M.start = N.start
    BY DEF IsNet, Fields, SameSize, Replaced
  <1>2. Event(M) = Event(N) /\ Place(M) = Place(N) /\ Signal(M) = Signal(N)
    BY <1>1, SizesEqual
  <1>3. NetShape(N)
    BY DEF IsNet
  <1>4. Markable(M) = Markable(N)
    <2>1. ASSUME NEW r \in back PROVE r[2] \notin Event(N)
      <3>1. r[2] \in Place(N)
        OBVIOUS
      <3> QED
        BY <1>3, <3>1, IndicesApart
    <2> QED
      BY <1>1, <1>2, <2>1 DEF Markable
  <1>5. /\ M.rules \subseteq (Event(M) \X (Event(M) \cup Place(M))) \cup (Place(M) \X Event(M))
        /\ M.constraint \subseteq M.rules
    BY <1>1, <1>2, <1>3 DEF NetShape
  <1>6. NetShape(M)
    BY <1>1, <1>2, <1>3, <1>4, <1>5 DEF NetShape, SameSize
  <1>7. PlacesAgree(N) => PlacesAgree(M)
    BY <1>1, <1>2, <1>4 DEF PlacesAgree, SamePlace
  <1> QED
    BY <1>1, <1>6, <1>7 DEF IsNet

LEMMA ReturnIInv == IInv /\ Return => IInv'
  <1> SUFFICES ASSUME IInv, Return PROVE IInv'
    OBVIOUS
  <1>1. IsNet(design) /\ (~torn => PlacesAgree(design))
        /\ saved \in SUBSET (Event(design) \X Place(design))
    BY DEF IInv
  <1>2. design' = Replaced(design, saved)
    BY DEF Return, Replaced
  <1>3. IsNet(design') /\ SameSize(design, design')
        /\ (PlacesAgree(design) => PlacesAgree(design'))
    BY <1>1, <1>2, ReplaceKeeps
  <1>4. Event(design') = Event(design) /\ Place(design') = Place(design)
    BY <1>3, SizesEqual
  <1>5. mk' \in Marking(net') /\ images' \subseteq Marking(design')
    <2>1. NetShape(net) /\ NetShape(design')
      BY <1>3, NetsAreNets DEF IInv, IsNet
    <2>2. InitialMarking(net) \in Marking(net) /\ InitialMarking(design') \in Marking(design')
      BY <2>1, InitialMarkingShape
    <2> QED
      BY <2>2 DEF Return
  <1>6. /\ design'.nevents = design.nevents /\ design'.abstract = design.abstract
        /\ design'.xform2 = design.xform2
    BY <1>3 DEF SameSize
  <1> QED
    BY <1>1, <1>3, <1>4, <1>5, <1>6 DEF Return, IInv

LEMMA AfterType ==
    ASSUME NEW N, NEW M \in SUBSET Marking(N), NEW events
    PROVE  After(N, M, events) \subseteq Marking(N)
  <1>1. ASSUME NEW m \in M, NEW e \in m.enablings
        PROVE  FindNewMarking(N, m, e) \in Marking(N)
    <2>1. e \in Event(N)
      BY DEF Marking
    <2> QED
      BY <2>1, FindNewMarkingType
  <1> QED
    BY <1>1 DEF After

LEMMA GameIInv == IInv /\ (Follow \/ Play \/ PlayFailing) => IInv'
  <1> SUFFICES ASSUME IInv, Follow \/ Play \/ PlayFailing PROVE IInv'
    OBVIOUS
  <1>1. pc \in {"follow", "compare"} /\ UNCHANGED <<net, design, saved, torn, at, modified>>
    BY DEF Follow, Play, PlayFailing
  <1>2. pc' \in {"follow", "compare", "failed"}
    BY <1>1 DEF Follow, Play, PlayFailing
  <1>3. mk \in Marking(net) /\ images \in SUBSET Marking(design)
    BY <1>1 DEF IInv
  <1>4. mk' \in Marking(net) /\ images' \subseteq Marking(design)
    <2>1. CASE Follow
      <3>1. images' = images \cup After(design, images, design.abstract) /\ mk' = mk
        BY <2>1 DEF Follow
      <3> QED
        BY <1>3, <3>1, AfterType
    <2>2. CASE Play
      <3>1. PICK e \in mk.enablings :
                /\ mk' = FindNewMarking(net, mk, e)
                /\ images' = images \/ images' = After(design, images, {e})
        BY <2>2 DEF Play
      <3>2. e \in Event(net)
        BY <1>3 DEF Marking
      <3> QED
        BY <1>3, <3>1, <3>2, AfterType, FindNewMarkingType
    <2>3. CASE PlayFailing
      BY <1>3, <2>3 DEF PlayFailing, game
    <2> QED
      BY <2>1, <2>2, <2>3
  <1> QED
    BY <1>1, <1>2, <1>4 DEF IInv

-----------------------------------------------------------------------------
LEMMA StepIInv == IInv /\ [Next]_vars => IInv'
  <1>1. IInv /\ UNCHANGED vars => IInv'
    BY DEF IInv, vars, game
  <1> QED
    BY <1>1, PrepareIInv, Xform3IInv, Xform4IInv, KeepEventIInv, PlacesIInv,
       ReturnIInv, GameIInv DEF Next

LEMMA InvariantIInv == Spec => []IInv
  BY InitIInv, StepIInv, PTL DEF Spec

(* Whatever is abstract and whatever net is loaded, each transformation of *)
(* lpntrsfm.c leaves a net that the rest of the program can read: indices  *)
(* in range, a level for each rule into an event, marks on such rules      *)
(* only; and, unless 4b has torn a place, one token for all rules out of a *)
(* place, as extract_rules makes it.                                       *)
THEOREM TransformTypeCorrect == Spec => []TypeOK
  <1>1. IInv => TypeOK
    BY DEF IInv, TypeOK, IsNet
  <1> QED
    BY <1>1, InvariantIInv, PTL

(* Only 4b tears places, and only xform2 lets it: without that option what *)
(* is explored is a net as extract_rules makes it, whichever events are    *)
(* removed.                                                                *)
THEOREM UntornWithoutXform2 == Spec => [](~net.xform2 => LoadedNet(design))
  <1>1. IInv => (~net.xform2 => LoadedNet(design))
    BY DEF IInv, IsNet, LoadedNet
  <1> QED
    BY <1>1, InvariantIInv, PTL

=============================================================================
