------------------------- MODULE StateProjectProofs -------------------------
(***************************************************************************)
(* Proofs about StateProject, for every state graph without kept events    *)
(* and every order of the hash table: what the merges do to the lists of   *)
(* links, and what is left of the graph in the end.                        *)
(***************************************************************************)
EXTENDS StateProject, FiniteSetTheorems, WellFoundedInduction, NaturalsInduction, TLAPS

-----------------------------------------------------------------------------
(* Numbers and lists                                                       *)

LEMMA LeastOf ==
    ASSUME NEW T, T \subseteq Nat, T # {}
    PROVE  \E x \in T : \A y \in T : x <= y
  <1> DEFINE less == OpToRel(<, Nat)
  <1>1. IsWellFoundedOn(less, Nat)
    BY NatLessThanWellFounded
  <1>2. PICK x \in T : \A y \in T : ~(<<y, x>> \in less)
    <2> HIDE DEF less
    <2> QED
      BY <1>1, WFMin
  <1>3. ASSUME NEW y \in T PROVE x <= y
    <2>1. <<y, x>> \in Nat \X Nat /\ ~(<<y, x>>[1] < <<y, x>>[2])
      BY <1>2 DEF OpToRel
    <2> QED
      BY <2>1
  <1> QED
    BY <1>3

LEMMA CountTo ==
    ASSUME NEW T, 0 \in T, \A n \in Nat : n \in T => n + 1 \in T
    PROVE  Nat \subseteq T
  <1> SUFFICES ASSUME NEW x \in Nat \ T, \A y \in Nat \ T : x <= y PROVE FALSE
    BY LeastOf, Nat \ T \subseteq Nat
  <1>1. x - 1 \in Nat /\ x - 1 \in T
    OBVIOUS
  <1> QED
    BY <1>1, x - 1 + 1 = x

(* A list is a function on an initial segment of the numbers.              *)
IsList(list) == \E n \in Nat : DOMAIN list = 1 .. n /\ list = [i \in 1 .. n |-> list[i]]

LEMMA ListLength ==
    ASSUME NEW list, IsList(list)
    PROVE  /\ Len(list) \in Nat /\ DOMAIN list = 1 .. Len(list)
           /\ list \in Seq(ToSet(list))
  <1>1. PICK n \in Nat : DOMAIN list = 1 .. n /\ list = [i \in 1 .. n |-> list[i]]
    BY DEF IsList
  <1>2. list \in [1 .. n -> ToSet(list)]
    BY <1>1 DEF ToSet
  <1>3. list \in Seq(ToSet(list))
    BY <1>2
  <1> QED
    BY <1>1, <1>3

LEMMA SeqIsList ==
    ASSUME NEW S, NEW list \in Seq(S)
    PROVE  IsList(list)
  BY DEF IsList

LEMMA FiniteBelow ==
    ASSUME NEW n \in Nat, NEW P \in SUBSET (1 .. n)
    PROVE  IsFiniteSet(P) /\ Cardinality(P) \in Nat
  <1>1. IsFiniteSet(1 .. n)
    BY FS_Interval
  <1> QED
    BY <1>1, FS_Subset, FS_CardinalityType

(* How many members of P are smaller.                                      *)
Rank(P) == [i \in P |-> Cardinality({j \in P : j < i})]

LEMMA RankBijective ==
    ASSUME NEW n \in Nat, NEW P \in SUBSET (1 .. n)
    PROVE  /\ Rank(P) \in [P -> 0 .. Cardinality(P) - 1]
           /\ \A i, j \in P : Rank(P)[i] = Rank(P)[j] => i = j
           /\ \A k \in 0 .. Cardinality(P) - 1 : \E i \in P : Rank(P)[i] = k
  <1> DEFINE Below(i) == {j \in P : j < i}
             last == Cardinality(P) - 1
  <1>1. IsFiniteSet(P) /\ Cardinality(P) \in Nat
    BY FiniteBelow
  <1>2. ASSUME NEW i \in P
        PROVE  IsFiniteSet(Below(i)) /\ Cardinality(Below(i)) \in 0 .. last
    <2>1. Below(i) \in SUBSET (P \ {i})
      OBVIOUS
    <2>2. IsFiniteSet(P \ {i}) /\ Cardinality(P \ {i}) = last
      BY <1>1, FS_RemoveElement
    <2>3. IsFiniteSet(Below(i)) /\ Cardinality(Below(i)) <= last
      BY <2>1, <2>2, FS_Subset
    <2>4. Cardinality(Below(i)) \in Nat
      BY <2>3, FS_CardinalityType
    <2> QED
      BY <2>3, <2>4, <1>1
  <1>3. Rank(P) \in [P -> 0 .. last]
    BY <1>2 DEF Rank
  <1>4. ASSUME NEW i \in P, NEW j \in P, i < j
        PROVE  Cardinality(Below(i)) < Cardinality(Below(j))
    <2>0. i \in Nat /\ j \in Nat /\ P \subseteq Nat
      OBVIOUS
    <2>a. ASSUME NEW h \in Below(i) PROVE h \in Below(j)
      <3>1. h \in P /\ h < i /\ h \in Nat
        BY <2>0
      <3> QED
        BY <3>1, <2>0, <1>4
    <2>1. Below(i) \in SUBSET Below(j) /\ i \in Below(j) /\ i \notin Below(i)
      <3>1. i \in Below(j) /\ i \notin Below(i)
        BY <1>4, <2>0
      <3> QED
        BY <3>1, <2>a
    <2>2. /\ Cardinality(Below(i)) <= Cardinality(Below(j))
          /\ Cardinality(Below(i)) # Cardinality(Below(j))
      BY <2>1, <1>2, FS_Subset
    <2>3. Cardinality(Below(i)) \in Nat /\ Cardinality(Below(j)) \in Nat
      BY <1>2, FS_CardinalityType
    <2> QED
      BY <2>2, <2>3
  <1>5. \A i, j \in P : Rank(P)[i] = Rank(P)[j] => i = j
    <2> SUFFICES ASSUME NEW i \in P, NEW j \in P, Rank(P)[i] = Rank(P)[j], i # j PROVE FALSE
      OBVIOUS
    <2>1. Cardinality(Below(i)) = Cardinality(Below(j))
      BY DEF Rank
    <2>2. i < j \/ j < i
      OBVIOUS
    <2> QED
      BY <2>1, <2>2, <1>2, <1>4
  <1>6. Rank(P) \in Injection(P, 0 .. last)
    BY <1>3, <1>5 DEF Injection, IsInjective
  <1>7. IsFiniteSet(0 .. last) /\ Cardinality(0 .. last) = Cardinality(P)
    BY <1>1, FS_Interval
  <1>8. Rank(P) \in Surjection(P, 0 .. last)
    BY <1>6, <1>7, FS_Injection
  <1> QED
    BY <1>3, <1>5, <1>8 DEF Surjection

LEMMA NthMember ==
    ASSUME NEW n \in Nat, NEW P \in SUBSET (1 .. n)
    PROVE  /\ \A k \in 1 .. Cardinality(P) : Nth(P, k) \in P
           /\ \A k, l \in 1 .. Cardinality(P) : Nth(P, k) = Nth(P, l) => k = l
           /\ \A i \in P : \E k \in 1 .. Cardinality(P) : Nth(P, k) = i
  <1>0. Cardinality(P) \in Nat
    BY FiniteBelow
  <1>1. ASSUME NEW k \in 1 .. Cardinality(P)
        PROVE  Nth(P, k) \in P /\ Rank(P)[Nth(P, k)] = k - 1
    <2>1. k - 1 \in 0 .. Cardinality(P) - 1
      BY <1>0
    <2>2. PICK i \in P : Rank(P)[i] = k - 1
      BY <2>1, RankBijective
    <2>3. Cardinality({j \in P : j < i}) = k - 1
      BY <2>2 DEF Rank
    <2>4. Nth(P, k) \in P /\ Cardinality({j \in P : j < Nth(P, k)}) = k - 1
      BY <2>3 DEF Nth
    <2> QED
      BY <2>4 DEF Rank
  <1>2. ASSUME NEW i \in P PROVE \E k \in 1 .. Cardinality(P) : Nth(P, k) = i
    <2>1. Rank(P)[i] \in 0 .. Cardinality(P) - 1
      <3>1. Rank(P) \in [P -> 0 .. Cardinality(P) - 1]
        BY RankBijective
      <3> QED
        BY <3>1
    <2>2. PICK k \in 1 .. Cardinality(P) : k - 1 = Rank(P)[i]
      <3>1. PICK r \in Int : r = Rank(P)[i] /\ r \in 0 .. Cardinality(P) - 1
        BY <2>1
      <3>2. r + 1 \in 1 .. Cardinality(P) /\ r + 1 - 1 = r
        BY <3>1, <1>0
      <3> QED
        BY <3>1, <3>2
    <2>3. Nth(P, k) \in P /\ Rank(P)[Nth(P, k)] = Rank(P)[i]
      BY <1>1, <2>2
    <2>4. Nth(P, k) = i
      BY <2>3, RankBijective
    <2> QED
      BY <2>4
  <1>3. ASSUME NEW k \in 1 .. Cardinality(P), NEW l \in 1 .. Cardinality(P),
               Nth(P, k) = Nth(P, l)
        PROVE  k = l
    BY <1>0, <1>1, <1>3
  <1> QED
    BY <1>1, <1>2, <1>3

(* No link is in a list twice.                                             *)
Simple(list) == \A i, j \in DOMAIN list : list[i] = list[j] => i = j

LEMMA AtLinks ==
    ASSUME NEW list, IsList(list), NEW P \in SUBSET DOMAIN list
    PROVE  /\ IsList(At(list, P))
           /\ ToSet(At(list, P)) = {list[i] : i \in P}
           /\ Simple(list) => Simple(At(list, P))
  <1>1. PICK n \in Nat : DOMAIN list = 1 .. n
    BY DEF IsList
  <1>2. Cardinality(P) \in Nat
    BY <1>1, FiniteBelow
  <1>3. At(list, P) = [k \in 1 .. Cardinality(P) |-> list[Nth(P, k)]]
    BY DEF At
  <1>4. IsList(At(list, P))
    BY <1>2, <1>3 DEF IsList
  <1>5. ToSet(At(list, P)) = {list[i] : i \in P}
    <2>1. /\ \A k \in 1 .. Cardinality(P) : Nth(P, k) \in P
          /\ \A i \in P : \E k \in 1 .. Cardinality(P) : Nth(P, k) = i
      BY <1>1, NthMember
    <2>2. ToSet(At(list, P)) = {list[Nth(P, k)] : k \in 1 .. Cardinality(P)}
      BY <1>3 DEF ToSet
    <2> HIDE DEF Nth
    <2> QED
      BY <2>1, <2>2
  <1>6. ASSUME Simple(list) PROVE Simple(At(list, P))
    <2>1. /\ \A k \in 1 .. Cardinality(P) : Nth(P, k) \in P
          /\ \A k, l \in 1 .. Cardinality(P) : Nth(P, k) = Nth(P, l) => k = l
      BY <1>1, NthMember
    <2> QED
      BY <1>3, <1>6, <2>1 DEF Simple
  <1> QED
    BY <1>4, <1>5, <1>6

LEMMA TailLinks ==
    ASSUME NEW list, IsList(list), list # <<>>
    PROVE  /\ IsList(Tail(list))
           /\ ToSet(Tail(list)) \subseteq ToSet(list)
           /\ \A l \in ToSet(list) : l = list[1] \/ l \in ToSet(Tail(list))
           /\ Simple(list) => Simple(Tail(list)) /\ list[1] \notin ToSet(Tail(list))
           /\ 1 \in DOMAIN list
  <1>1. list \in Seq(ToSet(list)) /\ Len(list) \in Nat /\ DOMAIN list = 1 .. Len(list)
    BY ListLength
  <1>2. 1 \in 1 .. Len(list)
    BY <1>1
  <1>3. Tail(list) \in Seq(ToSet(list)) /\ Len(Tail(list)) = Len(list) - 1
    BY <1>1, <1>2
  <1>4. \A i \in 1 .. Len(list) - 1 : Tail(list)[i] = list[i + 1] /\ i + 1 \in 1 .. Len(list)
    BY <1>1
  <1>5. DOMAIN Tail(list) = 1 .. Len(list) - 1
    BY <1>3
  <1>6. IsList(Tail(list))
    BY <1>3, SeqIsList
  <1>7. ASSUME NEW l \in ToSet(list) PROVE l = list[1] \/ l \in ToSet(Tail(list))
    <2>1. PICK i \in 1 .. Len(list) : l = list[i]
      BY <1>1 DEF ToSet
    <2>2. CASE i # 1
      <3>1. i - 1 \in 1 .. Len(list) - 1 /\ i - 1 + 1 = i
        BY <1>1, <2>2
      <3> QED
        BY <2>1, <3>1, <1>4, <1>5 DEF ToSet
    <2> QED
      BY <2>1, <2>2
  <1>8. ASSUME Simple(list)
        PROVE  Simple(Tail(list)) /\ list[1] \notin ToSet(Tail(list))
    <2>1. ASSUME NEW i \in 1 .. Len(list) - 1 PROVE list[i + 1] # list[1]
      <3>1. i + 1 \in 1 .. Len(list) /\ i + 1 # 1
        BY <1>1
      <3> QED
        BY <3>1, <1>8, <1>1, <1>2 DEF Simple
    <2>2. ASSUME NEW i \in 1 .. Len(list) - 1, NEW j \in 1 .. Len(list) - 1,
                 list[i + 1] = list[j + 1]
          PROVE  i = j
      <3>1. i + 1 \in 1 .. Len(list) /\ j + 1 \in 1 .. Len(list)
        BY <1>1
      <3>2. i + 1 = j + 1
        BY <3>1, <2>2, <1>8, <1>1 DEF Simple
      <3> QED
        BY <3>2
    <2> QED
      BY <2>1, <2>2, <1>4, <1>5 DEF Simple, ToSet
  <1>9. ToSet(Tail(list)) \subseteq ToSet(list)
    BY <1>1, <1>4, <1>5 DEF ToSet
  <1> QED
    BY <1>1, <1>2, <1>6, <1>7, <1>8, <1>9

LEMMA RedirectLinks ==
    ASSUME NEW list, IsList(list), NEW N, NEW C
    PROVE  /\ IsList(Redirect(list, N, C))
           /\ ToSet(Redirect(list, N, C)) =
                {IF l[1] = N THEN <<C, l[2]>> ELSE l : l \in ToSet(list)}
  BY DEF Redirect, IsList, ToSet

LEMMA DropFirstLinks ==
    ASSUME NEW list, IsList(list), NEW N
    PROVE  /\ IsList(DropFirst(list, N))
           /\ ToSet(DropFirst(list, N)) \subseteq ToSet(list)
           /\ \A l \in ToSet(list) : l[1] # N => l \in ToSet(DropFirst(list, N))
  <1> DEFINE P == {i \in DOMAIN list : list[i][1] = N => \E j \in 1 .. i - 1 : list[j][1] = N}
  <1>1. DropFirst(list, N) = At(list, P)
    BY DEF DropFirst
  <1>2. IsList(At(list, P)) /\ ToSet(At(list, P)) = {list[i] : i \in P}
    BY AtLinks
  <1>3. ASSUME NEW l \in ToSet(list), l[1] # N PROVE l \in {list[i] : i \in P}
    BY <1>3 DEF ToSet
  <1>4. {list[i] : i \in P} \subseteq ToSet(list)
    BY DEF ToSet
  <1> QED
    BY <1>1, <1>2, <1>3, <1>4

(* The links of a second list that may be taken over.                      *)
Taken(links, C) == {l \in ToSet(links) : l[1] = C => Kept(l[2])}

LEMMA ConcatLinks ==
    ASSUME NEW list, IsList(list), NEW more, IsList(more)
    PROVE  /\ IsList(list \o more)
           /\ ToSet(list \o more) = ToSet(list) \cup ToSet(more)
           /\ Simple(list) /\ Simple(more) /\ ToSet(list) \cap ToSet(more) = {}
                => Simple(list \o more)
  <1> DEFINE S == ToSet(list) \cup ToSet(more)
             both == list \o more
             m == Len(list)
             n == Len(more)
  <1>1. /\ list \in Seq(S) /\ m \in Nat /\ DOMAIN list = 1 .. m
        /\ more \in Seq(S) /\ n \in Nat /\ DOMAIN more = 1 .. n
    BY ListLength
  <1>2. both \in Seq(S) /\ DOMAIN both = 1 .. m + n
    BY <1>1
  <1>3. \A i \in 1 .. m : i \in 1 .. m + n /\ both[i] = list[i]
    BY <1>1
  <1>4. \A j \in 1 .. n : m + j \in 1 .. m + n /\ both[m + j] = more[j]
    BY <1>1
  <1>5. \A i \in 1 .. m + n : (i \in 1 .. m \/ i - m \in 1 .. n) /\ m + (i - m) = i
    BY <1>1
  <1>6. IsList(both)
    BY <1>2, SeqIsList
  <1> HIDE DEF m, n, both
  <1>7. ToSet(both) = ToSet(list) \cup ToSet(more)
    <2>1. ASSUME NEW i \in 1 .. m + n PROVE both[i] \in ToSet(list) \cup ToSet(more)
      <3>1. CASE i \in 1 .. m
        BY <3>1, <1>1, <1>3 DEF ToSet
      <3>2. CASE i - m \in 1 .. n /\ m + (i - m) = i
        <4>1. both[i] = more[i - m]
          BY <3>2, <1>4
        <4> QED
          BY <3>2, <4>1, <1>1 DEF ToSet
      <3> QED
        BY <1>5, <3>1, <3>2
    <2>2. ToSet(list) \subseteq ToSet(both)
      BY <1>1, <1>2, <1>3 DEF ToSet
    <2>3. ToSet(more) \subseteq ToSet(both)
      BY <1>1, <1>2, <1>4 DEF ToSet
    <2>4. ToSet(both) = {both[i] : i \in 1 .. m + n}
      BY <1>2 DEF ToSet
    <2> QED
      BY <2>1, <2>2, <2>3, <2>4
  <1>8. ASSUME Simple(list), Simple(more), ToSet(list) \cap ToSet(more) = {},
               NEW i \in 1 .. m + n, NEW j \in 1 .. m + n, both[i] = both[j]
        PROVE  i = j
    <2>1. CASE i \in 1 .. m /\ j \in 1 .. m
      BY <2>1, <1>1, <1>3, <1>8 DEF Simple
    <2>2. CASE i - m \in 1 .. n /\ j - m \in 1 .. n
      <3>1. both[i] = more[i - m] /\ both[j] = more[j - m]
        BY <2>2, <1>4, <1>5
      <3>2. i - m = j - m
        BY <3>1, <2>2, <1>1, <1>8 DEF Simple
      <3> QED
        BY <3>2, <1>1
    <2>3. CASE i \in 1 .. m /\ j - m \in 1 .. n
      <3>1. both[i] = list[i] /\ both[j] = more[j - m]
        BY <2>3, <1>3, <1>4, <1>5
      <3> QED
        BY <3>1, <2>3, <1>1, <1>8 DEF ToSet
    <2>4. CASE i - m \in 1 .. n /\ j \in 1 .. m
      <3>1. both[j] = list[j] /\ both[i] = more[i - m]
        BY <2>4, <1>3, <1>4, <1>5
      <3> QED
        BY <3>1, <2>4, <1>1, <1>8 DEF ToSet
    <2> QED
      BY <1>5, <2>1, <2>2, <2>3, <2>4
  <1> QED
    BY <1>2, <1>6, <1>7, <1>8 DEF Simple, both

LEMMA TakeLinksLinks ==
    ASSUME NEW list, IsList(list), NEW links, IsList(links), NEW C
    PROVE  /\ IsList(TakeLinks(list, links, C))
           /\ ToSet(TakeLinks(list, links, C)) = ToSet(list) \cup Taken(links, C)
           /\ Simple(list) => Simple(TakeLinks(list, links, C))
  <1> DEFINE Earlier(i) == {links[j] : j \in 1 .. i - 1}
             new == {i \in DOMAIN links :
                        /\ links[i] \notin ToSet(list) \cup Earlier(i)
                        /\ links[i][1] = C => Kept(links[i][2])}
  <1>1. TakeLinks(list, links, C) = list \o At(links, new)
    BY DEF TakeLinks
  <1>2. IsList(At(links, new)) /\ ToSet(At(links, new)) = {links[i] : i \in new}
    BY AtLinks
  <1>3. ToSet(list) \cap {links[i] : i \in new} = {}
    OBVIOUS
  <1>4. {links[i] : i \in new} \subseteq Taken(links, C)
    BY DEF Taken, ToSet
  <1>5. ASSUME NEW l \in Taken(links, C), l \notin ToSet(list)
        PROVE  l \in {links[i] : i \in new}
    <2> DEFINE T == {i \in DOMAIN links : links[i] = l}
    <2>1. DOMAIN links = 1 .. Len(links) /\ Len(links) \in Nat
      BY ListLength
    <2>2. T \subseteq Nat /\ T # {}
      BY <2>1 DEF Taken, ToSet
    <2>3. PICK i \in T : \A j \in T : i <= j
      BY <2>2, LeastOf
    <2>4. l \notin Earlier(i)
      BY <2>1, <2>3
    <2> QED
      BY <2>3, <2>4, <1>5 DEF Taken
  <1>6. Simple(At(links, new))
    <2>1. DOMAIN links = 1 .. Len(links) /\ Len(links) \in Nat
      BY ListLength
    <2>2. ASSUME NEW i \in new, NEW j \in new, links[i] = links[j]
          PROVE  i = j
      <3>1. i \in Nat /\ j \in Nat /\ i >= 1 /\ j >= 1
        BY <2>1
      <3>2. CASE i < j
        BY <3>1, <3>2, <2>2, i \in 1 .. j - 1
      <3>3. CASE j < i
        BY <3>1, <3>3, <2>2, j \in 1 .. i - 1
      <3> QED
        BY <3>1, <3>2, <3>3
    <2>3. /\ \A k \in 1 .. Cardinality(new) : Nth(new, k) \in new
          /\ \A k, l \in 1 .. Cardinality(new) : Nth(new, k) = Nth(new, l) => k = l
      BY <2>1, NthMember
    <2>4. At(links, new) = [k \in 1 .. Cardinality(new) |-> links[Nth(new, k)]]
      BY DEF At
    <2> HIDE DEF new
    <2> QED
      BY <2>2, <2>3, <2>4 DEF Simple
  <1> HIDE DEF new
  <1>7. ToSet(list) \cup ToSet(At(links, new)) = ToSet(list) \cup Taken(links, C)
    BY <1>2, <1>4, <1>5
  <1>8. ToSet(list) \cap ToSet(At(links, new)) = {}
    BY <1>2, <1>3
  <1> QED
    BY <1>1, <1>2, <1>6, <1>7, <1>8, ConcatLinks

-----------------------------------------------------------------------------
(* The walks of rm_pred_links                                              *)

Pairs(list) == \A l \in ToSet(list) : l = <<l[1], l[2]>>
LinksFrom(list, N) == {l \in ToSet(list) : l[1] = N}

(* What walks through the predecessors old of X leave: the links from      *)
(* others stay, those that are left of N come from C, and each link from N *)
(* has one from C in its place.                                            *)
AfterWalks(old, new, C, N, X) ==
    /\ IsList(new) /\ Simple(new) /\ Pairs(new)
    /\ \A l \in ToSet(old) : l[1] # N => l \in ToSet(new)
    /\ \A l \in ToSet(new) :
          l \in ToSet(old) \/ (X # C /\ l[1] = C /\ <<N, l[2]>> \in ToSet(old))
    /\ \A l \in ToSet(old) : l[1] = N =>
          \/ l \in ToSet(new) \/ X = C
          \/ \E k \in ToSet(new) : k[1] = C /\
                (k[2] = l[2] \/ k \in ToSet(old) \/ <<N, k[2]>> \in ToSet(old))

LEMMA NoWalk ==
    ASSUME NEW list, IsList(list), Simple(list), Pairs(list), NEW C, NEW N, NEW X
    PROVE  AfterWalks(list, list, C, N, X)
  BY DEF AfterWalks

LEMMA MoreWalks ==
    ASSUME NEW l0, NEW l1, NEW l2, NEW C, NEW N, NEW X, C # N,
           AfterWalks(l0, l1, C, N, X), AfterWalks(l1, l2, C, N, X)
    PROVE  /\ AfterWalks(l0, l2, C, N, X)
  <1>1. \A l \in ToSet(l0) : l[1] # N => l \in ToSet(l2)
    BY DEF AfterWalks
  <1>2. ASSUME NEW e, <<N, e>> \in ToSet(l1) PROVE <<N, e>> \in ToSet(l0)
    BY <1>2 DEF AfterWalks
  <1>3. ASSUME NEW l \in ToSet(l2)
        PROVE  l \in ToSet(l0) \/ (X # C /\ l[1] = C /\ <<N, l[2]>> \in ToSet(l0))
    <2>1. CASE l \in ToSet(l1)
      BY <2>1 DEF AfterWalks
    <2>2. CASE X # C /\ l[1] = C /\ <<N, l[2]>> \in ToSet(l1)
      BY <2>2, <1>2
    <2> QED
      BY <2>1, <2>2 DEF AfterWalks
  <1>4. ASSUME NEW l \in ToSet(l0), l[1] = N, X # C, l \notin ToSet(l2)
        PROVE  \E k \in ToSet(l2) : k[1] = C /\
                  (k[2] = l[2] \/ k \in ToSet(l0) \/ <<N, k[2]>> \in ToSet(l0))
    <2>1. CASE l \in ToSet(l1)
      <3>1. PICK k \in ToSet(l2) : k[1] = C /\
                  (k[2] = l[2] \/ k \in ToSet(l1) \/ <<N, k[2]>> \in ToSet(l1))
        BY <1>4, <2>1 DEF AfterWalks
      <3>2. CASE k \in ToSet(l1)
        BY <3>1, <3>2 DEF AfterWalks
      <3> QED
        BY <3>1, <3>2, <1>2
    <2>2. CASE l \notin ToSet(l1)
      <3>1. PICK k \in ToSet(l1) : k[1] = C /\
                  (k[2] = l[2] \/ k \in ToSet(l0) \/ <<N, k[2]>> \in ToSet(l0))
        BY <1>4, <2>2 DEF AfterWalks
      <3>2. k \in ToSet(l2)
        BY <3>1 DEF AfterWalks
      <3> QED
        BY <3>1, <3>2
    <2> QED
      BY <2>1, <2>2
  <1> QED
    BY <1>1, <1>3, <1>4 DEF AfterWalks

(* A walk leaves no link from N, or one less.                              *)
LEMMA OneWalk ==
    ASSUME NEW list, IsList(list), Simple(list), Pairs(list),
           NEW C, NEW N, NEW X, C # N
    PROVE  /\ AfterWalks(list, Walk(list, C, N, X), C, N, X)
           /\ \/ LinksFrom(Walk(list, C, N, X), N) = {}
              \/ \E l \in LinksFrom(list, N) :
                    LinksFrom(Walk(list, C, N, X), N) = LinksFrom(list, N) \ {l}
  <1> DEFINE Gone(i) == list[i][1] = N /\ (X = C \/ InStateList(list, C, list[i][2]))
             kept == {i \in DOMAIN list : ~Gone(i)}
             new == Walk(list, C, N, X)
  <1>1. CASE list # <<>> /\ Gone(1)
    <2>1. new = Tail(list)
      BY <1>1 DEF Walk
    <2>2. /\ IsList(new) /\ Simple(new) /\ ToSet(new) \subseteq ToSet(list)
          /\ \A l \in ToSet(list) : l = list[1] \/ l \in ToSet(new)
          /\ list[1] \notin ToSet(new) /\ 1 \in DOMAIN list
      BY <2>1, <1>1, TailLinks
    <2>3. list[1] \in ToSet(list) /\ list[1][1] = N
      BY <2>2, <1>1 DEF ToSet
    <2>4. LinksFrom(new, N) = LinksFrom(list, N) \ {list[1]}
      BY <2>2, <2>3 DEF LinksFrom
    <2>5. Pairs(new)
      BY <2>2 DEF Pairs
    <2>6. ASSUME X # C
          PROVE  \E k \in ToSet(new) : k[1] = C /\ (k[2] = list[1][2] \/ k \in ToSet(list))
      <3>1. InStateList(list, C, list[1][2])
        BY <1>1, <2>6
      <3>2. DOMAIN list = 1 .. Len(list) /\ Len(list) \in Nat /\ 1 <= Len(list)
        BY <2>2, ListLength
      <3>3. PICK k \in ToSet(list) : k[1] = C /\ (k[2] = list[1][2] \/ k \in ToSet(list))
        BY <3>1, <3>2 DEF InStateList, Contains, Last, ToSet
      <3>4. k \in ToSet(new)
        BY <2>2, <2>3, <3>3
      <3> QED
        BY <3>3, <3>4
    <2>7. AfterWalks(list, new, C, N, X)
      <3> HIDE DEF new
      <3>1. ASSUME NEW l \in ToSet(list), l[1] = N
            PROVE  \/ l \in ToSet(new) \/ X = C
                   \/ \E k \in ToSet(new) : k[1] = C /\
                         (k[2] = l[2] \/ k \in ToSet(list) \/ <<N, k[2]>> \in ToSet(list))
        <4>1. CASE l = list[1] /\ X # C
          BY <4>1, <2>6
        <4> QED
          BY <4>1, <2>2
      <3>2. /\ \A l \in ToSet(list) : l[1] # N => l \in ToSet(new)
            /\ \A l \in ToSet(new) : l \in ToSet(list)
        BY <2>2, <2>3
      <3> QED
        BY <2>2, <2>5, <3>1, <3>2 DEF AfterWalks
    <2> QED
      BY <2>3, <2>4, <2>7 DEF LinksFrom
  <1>2. CASE ~(list # <<>> /\ Gone(1))
    <2> DEFINE at == At(list, kept)
    <2>1. new = Redirect(at, N, C)
      BY <1>2 DEF Walk
    <2>2. IsList(at) /\ ToSet(at) = {list[i] : i \in kept} /\ Simple(at)
      BY AtLinks
    <2> HIDE DEF at, new
    <2>3. /\ IsList(new)
          /\ ToSet(new) = {IF l[1] = N THEN <<C, l[2]>> ELSE l : l \in ToSet(at)}
      BY <2>1, <2>2, RedirectLinks
    <2>4. \A l \in ToSet(list) : l[1] # N => l \in ToSet(at)
      BY <2>2 DEF ToSet
    <2>5. ToSet(at) \subseteq ToSet(list)
      BY <2>2 DEF ToSet
    <2>6. DOMAIN list = 1 .. Len(list) /\ Len(list) \in Nat
      BY ListLength
    <2>7. ASSUME NEW l \in ToSet(at), l[1] = N
          PROVE  X # C /\ <<C, l[2]>> \notin ToSet(list)
      <3>1. PICK i \in kept : l = list[i]
        BY <2>2
      <3>2. X # C /\ ~InStateList(list, C, l[2])
        BY <3>1, <2>7
      <3>3. ~Contains(list, <<C, l[2]>>)
        BY <3>2 DEF InStateList
      <3> QED
        BY <3>2, <3>3, <2>6 DEF Contains, ToSet
    <2>8. ASSUME NEW l \in ToSet(list), l \notin ToSet(at), X # C
          PROVE  \E k \in ToSet(list) : k[1] = C
      <3>1. PICK i \in DOMAIN list : l = list[i] /\ Gone(i)
        BY <2>2, <2>8 DEF ToSet
      <3>2. InStateList(list, C, l[2]) /\ 1 <= Len(list)
        BY <3>1, <2>8, <2>6
      <3> QED
        BY <3>2, <2>6 DEF InStateList, Contains, Last, ToSet
    <2> HIDE DEF kept
    <2>9. Pairs(new)
      BY <2>3, <2>5 DEF Pairs
    <2>10. LinksFrom(new, N) = {}
      BY <2>3 DEF LinksFrom
    <2>11. Simple(new)
      <3>1. new = [i \in DOMAIN at |-> IF at[i][1] = N THEN <<C, at[i][2]>> ELSE at[i]]
        BY <2>1 DEF Redirect
      <3>2. ASSUME NEW i \in DOMAIN at, NEW j \in DOMAIN at, at[i][1] = N, at[j][1] = N,
                   <<C, at[i][2]>> = <<C, at[j][2]>>
            PROVE  i = j
        <4>1. at[i] \in ToSet(list) /\ at[j] \in ToSet(list)
          BY <2>5 DEF ToSet
        <4>2. at[i] = at[j]
          BY <4>1, <3>2 DEF Pairs
        <4> QED
          BY <4>2, <2>2 DEF Simple
      <3>3. ASSUME NEW i \in DOMAIN at, NEW j \in DOMAIN at, at[i][1] = N, at[j][1] # N
            PROVE  <<C, at[i][2]>> # at[j]
        <4>1. at[i] \in ToSet(at) /\ at[j] \in ToSet(at)
          BY DEF ToSet
        <4> QED
          BY <4>1, <3>3, <2>5, <2>7
      <3>4. \A i, j \in DOMAIN at : at[i] = at[j] => i = j
        BY <2>2 DEF Simple
      <3> QED
        BY <3>1, <3>2, <3>3, <3>4 DEF Simple
    <2>12. ASSUME NEW l \in ToSet(new)
           PROVE  l \in ToSet(list) \/ (X # C /\ l[1] = C /\ <<N, l[2]>> \in ToSet(list))
      <3>1. PICK m \in ToSet(at) : l = IF m[1] = N THEN <<C, m[2]>> ELSE m
        BY <2>3
      <3>2. CASE m[1] = N
        <4>1. m = <<N, m[2]>> /\ m \in ToSet(list)
          BY <3>2, <2>5 DEF Pairs
        <4> QED
          BY <3>1, <3>2, <4>1, <2>7
      <3> QED
        BY <3>1, <3>2, <2>5
    <2>13. ASSUME NEW l \in ToSet(list), l[1] = N, X # C
           PROVE  \E k \in ToSet(new) : k[1] = C /\ (k[2] = l[2] \/ k \in ToSet(list))
      <3>1. CASE l \in ToSet(at)
        <4>1. <<C, l[2]>> \in ToSet(new)
          BY <3>1, <2>13, <2>3
        <4> QED
          BY <4>1
      <3>2. CASE l \notin ToSet(at)
        <4>1. PICK k \in ToSet(list) : k[1] = C
          BY <3>2, <2>8, <2>13
        <4>2. k \in ToSet(new)
          BY <4>1, <2>4, <2>3
        <4> QED
          BY <4>1, <4>2
      <3> QED
        BY <3>1, <3>2
    <2>14. \A l \in ToSet(list) : l[1] # N => l \in ToSet(new)
      BY <2>3, <2>4
    <2>15. AfterWalks(list, new, C, N, X)
      BY <2>3, <2>9, <2>11, <2>12, <2>13, <2>14 DEF AfterWalks
    <2> QED
      BY <2>10, <2>15 DEF new
  <1> QED
    BY <1>1, <1>2

LEMMA ListFinite ==
    ASSUME NEW list, IsList(list)
    PROVE  IsFiniteSet(ToSet(list))
  <1>1. PICK n \in Nat : DOMAIN list = 1 .. n /\ list = [i \in 1 .. n |-> list[i]]
    BY DEF IsList
  <1>2. list \in Surjection(1 .. n, ToSet(list))
    BY <1>1 DEF Surjection, ToSet
  <1>3. IsFiniteSet(1 .. n)
    BY FS_Interval
  <1> QED
    BY <1>2, <1>3, FS_Surjection

(* The lists after each of k walks.                                        *)
IsWalk(f, C, N, X, k) ==
    f = [n \in 0 .. k |-> IF n = 0 THEN pred[X] ELSE Walk(f[n - 1], C, N, X)]

LEMMA WalkExists ==
    ASSUME NEW C, NEW N, NEW X, NEW k \in Nat
    PROVE  \E f : IsWalk(f, C, N, X, k) /\ Walked(C, N, X, k) = f[k]
  <1> DEFINE T == {n \in Nat : \E f : IsWalk(f, C, N, X, n)}
  <1>1. 0 \in T
    <2> DEFINE f == [m \in 0 .. 0 |-> pred[X]]
    <2>1. IsWalk(f, C, N, X, 0)
      BY DEF IsWalk
    <2> QED
      BY <2>1
  <1>2. ASSUME NEW n \in Nat, n \in T PROVE n + 1 \in T
    <2>1. PICK f : IsWalk(f, C, N, X, n)
      BY <1>2
    <2> DEFINE g == [m \in 0 .. n + 1 |-> IF m = n + 1 THEN Walk(f[n], C, N, X) ELSE f[m]]
    <2>2. ASSUME NEW m \in 0 .. n + 1
          PROVE  g[m] = IF m = 0 THEN pred[X] ELSE Walk(g[m - 1], C, N, X)
      <3>1. CASE m = n + 1
        <4>1. g[m] = Walk(f[n], C, N, X) /\ n \in 0 .. n + 1 /\ n # n + 1 /\ m - 1 = n /\ m # 0
          BY <3>1
        <4>2. g[n] = f[n]
          BY <4>1
        <4> QED
          BY <4>1, <4>2
      <3>2. CASE m # n + 1 /\ m # 0
        <4>1. m \in 0 .. n /\ m - 1 \in 0 .. n + 1 /\ m - 1 # n + 1
          BY <3>2
        <4>2. g[m] = f[m] /\ g[m - 1] = f[m - 1]
          BY <3>2, <4>1
        <4>3. f[m] = Walk(f[m - 1], C, N, X)
          BY <2>1, <3>2, <4>1 DEF IsWalk
        <4> QED
          BY <3>2, <4>2, <4>3
      <3>3. CASE m = 0
        <4>1. 0 \in 0 .. n /\ m # n + 1
          BY <3>3
        <4>2. f[0] = pred[X]
          BY <2>1, <4>1 DEF IsWalk
        <4> QED
          BY <3>3, <4>1, <4>2
      <3> QED
        BY <3>1, <3>2, <3>3
    <2>3. g = [m \in 0 .. n + 1 |-> IF m = 0 THEN pred[X] ELSE Walk(g[m - 1], C, N, X)]
      <3>1. DOMAIN g = 0 .. n + 1 /\ g = [m \in 0 .. n + 1 |-> g[m]]
        OBVIOUS
      <3> HIDE DEF g
      <3> QED
        BY <2>2, <3>1
    <2> HIDE DEF g
    <2> QED
      BY <2>3 DEF IsWalk
  <1>3. k \in T
    <2> HIDE DEF T
    <2> QED
      BY <1>1, <1>2, CountTo
  <1>4. Walked(C, N, X, k) = (CHOOSE f : IsWalk(f, C, N, X, k))[k]
    BY DEF Walked, IsWalk
  <1> QED
    BY <1>3, <1>4

(* With a walk for each of them, no link from N is left.                   *)
LEMMA WalksDone ==
    ASSUME NEW C, NEW N, NEW X, NEW k \in Nat, C # N,
           IsList(pred[X]), Simple(pred[X]), Pairs(pred[X])
    PROVE  /\ AfterWalks(pred[X], Walked(C, N, X, k), C, N, X)
           /\ Cardinality(LinksFrom(pred[X], N)) <= k =>
                 LinksFrom(Walked(C, N, X, k), N) = {}
  <1>1. PICK f : IsWalk(f, C, N, X, k) /\ Walked(C, N, X, k) = f[k]
    BY WalkExists
  <1> DEFINE Of(n) == LinksFrom(f[n], N)
             all == Cardinality(LinksFrom(pred[X], N))
             T == {n \in Nat : n <= k =>
                      /\ AfterWalks(pred[X], f[n], C, N, X)
                      /\ IsFiniteSet(Of(n))
                      /\ Of(n) = {} \/ Cardinality(Of(n)) + n <= all}
  <1>2. f[0] = pred[X] /\ \A n \in 0 .. k : n # 0 => f[n] = Walk(f[n - 1], C, N, X)
    BY <1>1 DEF IsWalk
  <1>3. 0 \in T
    <2>1. LinksFrom(pred[X], N) \in SUBSET ToSet(pred[X])
      BY DEF LinksFrom
    <2>2. IsFiniteSet(LinksFrom(pred[X], N))
      BY <2>1, ListFinite, FS_Subset
    <2>3. all \in Nat
      BY <2>2, FS_CardinalityType
    <2> HIDE DEF all
    <2>4. Cardinality(Of(0)) + 0 <= all
      BY <1>2, <2>3 DEF all
    <2> QED
      BY <1>2, <2>2, <2>4, NoWalk
  <1>4. ASSUME NEW n \in Nat, n \in T PROVE n + 1 \in T
    <2> SUFFICES ASSUME n + 1 <= k
                 PROVE  /\ AfterWalks(pred[X], f[n + 1], C, N, X)
                        /\ IsFiniteSet(Of(n + 1))
                        /\ Of(n + 1) = {} \/ Cardinality(Of(n + 1)) + (n + 1) <= all
      OBVIOUS
    <2>1. n <= k /\ n + 1 \in 0 .. k /\ n + 1 # 0 /\ n + 1 - 1 = n
      OBVIOUS
    <2>2. f[n + 1] = Walk(f[n], C, N, X)
      BY <1>2, <2>1
    <2>3. /\ AfterWalks(pred[X], f[n], C, N, X)
          /\ IsFiniteSet(Of(n))
          /\ Of(n) = {} \/ Cardinality(Of(n)) + n <= all
      BY <1>4, <2>1
    <2>4. IsList(f[n]) /\ Simple(f[n]) /\ Pairs(f[n])
      BY <2>3 DEF AfterWalks
    <2>5. /\ AfterWalks(f[n], f[n + 1], C, N, X)
          /\ Of(n + 1) = {} \/ \E l \in Of(n) : Of(n + 1) = Of(n) \ {l}
      BY <2>2, <2>4, OneWalk
    <2>6. AfterWalks(pred[X], f[n + 1], C, N, X)
      BY <2>3, <2>5, MoreWalks
    <2>7. CASE Of(n + 1) = {}
      BY <2>6, <2>7, FS_EmptySet
    <2>8. CASE \E l \in Of(n) : Of(n + 1) = Of(n) \ {l}
      <3>1. PICK l \in Of(n) : Of(n + 1) = Of(n) \ {l}
        BY <2>8
      <3>2. /\ IsFiniteSet(Of(n + 1))
            /\ Cardinality(Of(n + 1)) = Cardinality(Of(n)) - 1
        BY <3>1, <2>3, FS_RemoveElement
      <3>3. Cardinality(Of(n)) \in Nat /\ Cardinality(Of(n)) + n <= all
        BY <2>3, <3>1, FS_CardinalityType
      <3>4. Cardinality(Of(n)) - 1 + (n + 1) = Cardinality(Of(n)) + n
        BY <3>3
      <3> QED
        BY <2>6, <3>2, <3>3, <3>4
    <2> QED
      BY <2>5, <2>7, <2>8
  <1>5. k \in T
    <2> HIDE DEF T
    <2> QED
      BY <1>3, <1>4, CountTo
  <1>6. /\ AfterWalks(pred[X], f[k], C, N, X)
        /\ IsFiniteSet(Of(k))
        /\ Of(k) = {} \/ Cardinality(Of(k)) + k <= all
    BY <1>5
  <1>7. ASSUME all <= k PROVE Of(k) = {}
    <2> SUFFICES ASSUME Cardinality(Of(k)) + k <= all PROVE Of(k) = {}
      BY <1>6
    <2>1. LinksFrom(pred[X], N) \in SUBSET ToSet(pred[X])
      BY DEF LinksFrom
    <2>2. all \in Nat /\ Cardinality(Of(k)) \in Nat
      BY <1>6, <2>1, ListFinite, FS_Subset, FS_CardinalityType
    <2>3. Cardinality(Of(k)) = 0
      <3> HIDE DEF all
      <3>1. all <= k
        BY <1>7 DEF all
      <3> QED
        BY <2>2, <3>1
    <2> QED
      BY <2>3, <1>6, FS_EmptySet
  <1> QED
    BY <1>1, <1>6, <1>7

-----------------------------------------------------------------------------
(* The inductive invariant                                                 *)

(* The values of all signals agree, whatever is excited.                   *)
SameValues(s, t) ==
    \A i \in DOMAIN inst.code[s] : Value(inst.code[s][i]) = Value(inst.code[t][i])

(* A firing of e between states that a and b stand for.                    *)
Image(a, e, b) == \E x \in inst.edges : rep[x[1]] = a /\ x[2] = e /\ rep[x[3]] = b

Shape ==
    /\ pc \in {"merge", "clean", "done"}
    /\ cur \in Nat \ {0}
    /\ DOMAIN succ = States /\ DOMAIN pred = States
    /\ \A s \in States :
          /\ IsList(succ[s]) /\ Pairs(succ[s])
          /\ IsList(pred[s]) /\ Pairs(pred[s]) /\ Simple(pred[s])
          /\ \A l \in ToSet(succ[s]) : l[1] \in States

ValuesKept ==
    /\ DOMAIN code = States
    /\ \A s \in States :
          /\ DOMAIN code[s] = DOMAIN inst.code[s]
          /\ \A i \in DOMAIN code[s] : Value(code[s][i]) = Value(inst.code[s][i])

(* Each state that is left stands for states of its values, which are      *)
(* joined by firings.                                                      *)
Class(s) == {t \in States : rep[t] = s}

Classes ==
    /\ absorbed \subseteq States
    /\ rep \in [States -> Left]
    /\ \A s \in Left : rep[s] = s
    /\ \A s \in States : SameValues(s, rep[s])
    /\ zero = rep[inst.initial]

Joined ==
    \A s \in Left : \A S \in SUBSET Class(s) : S # {} /\ s \notin S =>
        \E x \in inst.edges :
            /\ SameValues(x[1], x[3])
            /\ rep[x[1]] = s /\ rep[x[3]] = s
            /\ (x[1] \in S <=> x[3] \notin S)

SuccSound ==
    \A s \in Left : \A l \in ToSet(succ[s]) :
        l[1] \in absorbed \/ Image(s, l[2], l[1])

PredSound ==
    \A s \in Left : \A l \in ToSet(pred[s]) :
        Image(l[1], l[2], s) /\ <<s, l[2]>> \in ToSet(succ[l[1]])

(* The predecessors of a state that is left are complete up to the events, *)
(* of visible firings when each change of the values has one event.        *)
Sinks ==
    /\ \A S \in (SUBSET States) \ {{}} : \E s \in S :
          \A x \in inst.edges : SameValues(x[1], x[3]) /\ x[1] = s => x[3] \notin S
    /\ \E x \in inst.edges : x[3] = inst.initial

EventsAgree ==
    \A x, y \in inst.edges :
        /\ ~SameValues(x[1], x[3]) /\ ~SameValues(y[1], y[3])
        /\ SameValues(x[1], y[1]) /\ SameValues(x[3], y[3])
        => x[2] = y[2]

PredComplete ==
    Sinks =>
        \A x \in inst.edges : rep[x[1]] # rep[x[3]] =>
            \E l \in ToSet(pred[rep[x[3]]]) :
                /\ l[1] = rep[x[1]]
                /\ EventsAgree /\ ~SameValues(x[1], x[3]) => l[2] = x[2]

(* A state that has absorbed others has absorbed all it can, and so have   *)
(* those before cur.                                                       *)
Mergeable(s) ==
    \E l \in ToSet(succ[s]) : l[1] \notin absorbed \cup {s} /\ SameValues(s, l[1])

Settled ==
    \A s \in Left :
        \/ ~Mergeable(s)
        \/ pc = "merge" /\ (s = cur \/ (s > cur /\ Class(s) = {s}))

Cleaned ==
    pc = "done" => \A s \in States : \A l \in ToSet(succ[s]) : l[1] \notin absorbed

Core ==
    /\ Shape /\ ValuesKept /\ Classes /\ Joined
    /\ SuccSound /\ PredSound /\ PredComplete /\ Settled /\ Cleaned

Inv == inst \in Instances /\ (inst.keep = {} => Core)


-----------------------------------------------------------------------------
(* The lists after a merge                                                 *)

(* Every link from N in the predecessors of X has its successor link in N. *)
LEMMA EnoughWalks ==
    ASSUME Shape, PredSound, NEW X \in Left, NEW N \in Left
    PROVE  /\ LinksTo(N, X) \in Nat
           /\ Cardinality(LinksFrom(pred[X], N)) <= LinksTo(N, X)
  <1> DEFINE at == {i \in DOMAIN succ[N] : succ[N][i][1] = X}
             f == [l \in LinksFrom(pred[X], N) |->
                      CHOOSE i \in at : succ[N][i] = <<X, l[2]>>]
  <1>0. X \in States /\ N \in States
    BY DEF Left
  <1>1. IsFiniteSet(at) /\ Cardinality(at) \in Nat
    <2>1. DOMAIN succ[N] = 1 .. Len(succ[N]) /\ Len(succ[N]) \in Nat
      BY <1>0, ListLength DEF Shape
    <2>2. at \in SUBSET (1 .. Len(succ[N]))
      BY <2>1
    <2> QED
      BY <2>1, <2>2, FiniteBelow
  <1>2. ASSUME NEW l \in LinksFrom(pred[X], N)
        PROVE  \E i \in at : succ[N][i] = <<X, l[2]>>
    <2>1. <<X, l[2]>> \in ToSet(succ[N])
      BY DEF PredSound, LinksFrom
    <2> QED
      BY <2>1 DEF ToSet
  <1>3. \A l \in LinksFrom(pred[X], N) : f[l] \in at /\ succ[N][f[l]] = <<X, l[2]>>
    BY <1>2
  <1>4. f \in [LinksFrom(pred[X], N) -> at]
    BY <1>3
  <1>5. \A l \in LinksFrom(pred[X], N) : l = <<N, l[2]>>
    BY <1>0 DEF LinksFrom, Shape, Pairs
  <1>6. ASSUME NEW k \in LinksFrom(pred[X], N), NEW l \in LinksFrom(pred[X], N), f[k] = f[l]
        PROVE  k = l
    <2> HIDE DEF f
    <2>1. <<X, k[2]>> = <<X, l[2]>>
      BY <1>3, <1>6
    <2> QED
      BY <2>1, <1>5
  <1>7. f \in Injection(LinksFrom(pred[X], N), at)
    <2> HIDE DEF f, at
    <2> QED
      BY <1>4, <1>6 DEF Injection, IsInjective
  <1>8. Cardinality(LinksFrom(pred[X], N)) <= Cardinality(at)
    <2> HIDE DEF f, at
    <2> QED
      BY <1>1, <1>7, FS_Injection
  <1> QED
    BY <1>1, <1>8 DEF LinksTo

(* W[X] is what the walks leave of the predecessors of X.                  *)
WalksLeave(W, C, N) ==
    \A X \in States :
        /\ AfterWalks(pred[X], W[X], C, N, X)
        /\ X \in Left => LinksFrom(W[X], N) = {}

PredsAre(P, W, C, N) ==
    /\ DOMAIN P = States
    /\ \A X \in States : (X # C \/ W[C] = <<>>) => P[X] = W[X]
    /\ W[C] # <<>> => P[C] = TakeLinks(W[C], W[N], C)

LEMMA MergedPreds ==
    ASSUME Shape, PredSound, NEW C \in Left, NEW N \in Left, C # N
    PROVE  \E W : WalksLeave(W, C, N) /\ PredsAre(RmPredLinks(C, N), W, C, N)
  <1> DEFINE W == [X \in States |-> Walked(C, N, X, LinksTo(N, X))]
  <1>1. C \in States /\ N \in States
    BY DEF Left
  <1>2. ASSUME NEW X \in States
        PROVE  /\ AfterWalks(pred[X], W[X], C, N, X)
               /\ X \in Left => LinksFrom(W[X], N) = {}
    <2>1. LinksTo(N, X) \in Nat
      <3>1. DOMAIN succ[N] = 1 .. Len(succ[N]) /\ Len(succ[N]) \in Nat
        BY <1>1, ListLength DEF Shape
      <3>2. {i \in DOMAIN succ[N] : succ[N][i][1] = X} \in SUBSET (1 .. Len(succ[N]))
        BY <3>1
      <3> QED
        BY <3>1, <3>2, FiniteBelow DEF LinksTo
    <2>a. IsList(pred[X]) /\ Simple(pred[X]) /\ Pairs(pred[X])
      BY DEF Shape
    <2>2. AfterWalks(pred[X], W[X], C, N, X)
      BY <2>1, <2>a, WalksDone
    <2>3. ASSUME X \in Left PROVE LinksFrom(W[X], N) = {}
      <3>2. Cardinality(LinksFrom(pred[X], N)) <= LinksTo(N, X)
        BY <2>3, EnoughWalks
      <3> QED
        BY <2>1, <2>a, <3>2, WalksDone
    <2> QED
      BY <2>2, <2>3
  <1>3. RmPredLinks(C, N) =
            IF W[C] = <<>> THEN W ELSE [W EXCEPT ![C] = TakeLinks(@, W[N], C)]
    BY DEF RmPredLinks
  <1>4. DOMAIN W = States
    OBVIOUS
  <1> HIDE DEF W
  <1>5. PredsAre(RmPredLinks(C, N), W, C, N)
    BY <1>1, <1>3, <1>4 DEF PredsAre
  <1> QED
    BY <1>2, <1>5 DEF WalksLeave

(* What rm_succ_links makes of the successor lists, when the predecessors  *)
(* of N are preds.                                                         *)
SuccsAre(S, preds, C, N) ==
    /\ DOMAIN S = States
    /\ \A X \in States : IsList(S[X]) /\ Pairs(S[X])
    /\ \A X \in States \ {C} :
          /\ \A l \in ToSet(S[X]) :
                l \in ToSet(succ[X]) \/ (l[1] = C /\ <<N, l[2]>> \in ToSet(succ[X]))
          /\ \A l \in ToSet(succ[X]) : l[1] # N => l \in ToSet(S[X])
          /\ \A e : <<N, e>> \in ToSet(succ[X]) /\ <<X, e>> \in preds =>
                       <<C, e>> \in ToSet(S[X])
    /\ \A l \in ToSet(S[C]) :
          l \in ToSet(succ[C]) \/ (l \in ToSet(succ[N]) /\ l[1] # C)
    /\ \A l \in ToSet(succ[C]) : l[1] # N => l \in ToSet(S[C])
    /\ \A l \in ToSet(succ[N]) : l[1] \notin {C, N} => l \in ToSet(S[C])

LEMMA MergedSuccs ==
    ASSUME Shape, inst.keep = {}, NEW C \in Left, NEW N \in Left, C # N, NEW p
    PROVE  SuccsAre(RmSuccLinks(p, C, N), ToSet(p[N]), C, N)
  <1> DEFINE Moved(P) == P # C /\ \E x \in ToSet(p[N]) :
                                     x[1] = P /\ ~Contains(succ[P], <<C, x[2]>>)
             others == [P \in States |-> IF Moved(P) THEN Redirect(succ[P], N, C) ELSE succ[P]]
             S == RmSuccLinks(p, C, N)
             all == TakeLinks(succ[C], others[N], C)
  <1>1. C \in States /\ N \in States
    BY DEF Left
  <1>2. S = [others EXCEPT ![C] = DropFirst(TakeLinks(@, others[N], C), N)]
    BY DEF RmSuccLinks
  <1>3. \A X \in States : IsList(succ[X]) /\ Pairs(succ[X])
    BY DEF Shape
  <1>4. ASSUME NEW X \in States
        PROVE  /\ IsList(others[X]) /\ Pairs(others[X])
               /\ \A l \in ToSet(others[X]) :
                     \/ l \in ToSet(succ[X])
                     \/ l[1] = C /\ <<N, l[2]>> \in ToSet(succ[X])
               /\ \A l \in ToSet(succ[X]) : l[1] # N => l \in ToSet(others[X])
    <2>1. CASE Moved(X)
      <3> DEFINE new == Redirect(succ[X], N, C)
      <3>1. others[X] = new
        BY <2>1
      <3>2. /\ IsList(new)
            /\ ToSet(new) = {IF l[1] = N THEN <<C, l[2]>> ELSE l : l \in ToSet(succ[X])}
        BY <1>3, RedirectLinks
      <3> HIDE DEF new
      <3>3. ASSUME NEW l \in ToSet(new)
            PROVE  /\ l = <<l[1], l[2]>>
                   /\ l \in ToSet(succ[X]) \/ (l[1] = C /\ <<N, l[2]>> \in ToSet(succ[X]))
        <4>1. PICK m \in ToSet(succ[X]) : l = IF m[1] = N THEN <<C, m[2]>> ELSE m
          BY <3>2
        <4>2. m = <<m[1], m[2]>>
          BY <1>3 DEF Pairs
        <4> QED
          BY <4>1, <4>2
      <3> HIDE DEF others
      <3> QED
        BY <3>1, <3>2, <3>3 DEF Pairs
    <2>2. CASE ~Moved(X)
      <3>1. others[X] = succ[X]
        BY <2>2
      <3> HIDE DEF others
      <3> QED
        BY <3>1, <1>3
    <2> QED
      BY <2>1, <2>2
  <1>5. others[C] = succ[C]
    BY <1>1
  <1>6. ASSUME NEW X \in States \ {C}, NEW e,
               <<N, e>> \in ToSet(succ[X]), <<X, e>> \in ToSet(p[N])
        PROVE  <<C, e>> \in ToSet(others[X])
    <2>1. CASE Moved(X)
      <3>1. others[X] = Redirect(succ[X], N, C)
        BY <2>1
      <3>2. ToSet(others[X]) = {IF l[1] = N THEN <<C, l[2]>> ELSE l : l \in ToSet(succ[X])}
        BY <3>1, <1>3, RedirectLinks
      <3>3. <<N, e>>[1] = N /\ <<N, e>>[2] = e
        OBVIOUS
      <3> HIDE DEF others
      <3> QED
        BY <3>2, <3>3, <1>6
    <2>2. CASE ~Moved(X)
      <3>1. others[X] = succ[X]
        BY <2>2
      <3>2. Contains(succ[X], <<C, e>>)
        BY <2>2, <1>6
      <3>3. DOMAIN succ[X] = 1 .. Len(succ[X])
        BY <1>3, ListLength
      <3> QED
        BY <3>1, <3>2, <3>3 DEF Contains, ToSet
    <2> QED
      BY <2>1, <2>2
  <1>7. DOMAIN others = States
    OBVIOUS
  <1> HIDE DEF others
  <1>8. IsList(all) /\ ToSet(all) = ToSet(succ[C]) \cup {l \in ToSet(others[N]) : l[1] # C}
    BY <1>1, <1>3, <1>4, TakeLinksLinks DEF Taken, Kept
  <1>9. S = [others EXCEPT ![C] = DropFirst(all, N)]
    BY <1>1, <1>2, <1>5, <1>7
  <1> HIDE DEF all
  <1> HIDE DEF S
  <1>10. DOMAIN S = States /\ S[C] = DropFirst(all, N) /\ \A X \in States \ {C} : S[X] = others[X]
    BY <1>1, <1>7, <1>9
  <1>11. /\ IsList(S[C]) /\ ToSet(S[C]) \subseteq ToSet(all)
         /\ \A l \in ToSet(all) : l[1] # N => l \in ToSet(S[C])
    BY <1>8, <1>10, DropFirstLinks
  <1>12. ASSUME NEW l \in ToSet(all)
         PROVE  /\ l = <<l[1], l[2]>>
                /\ l \in ToSet(succ[C]) \/ (l \in ToSet(succ[N]) /\ l[1] # C)
    BY <1>1, <1>3, <1>4, <1>8 DEF Pairs
  <1>13. Pairs(S[C])
    BY <1>11, <1>12 DEF Pairs
  <1>14. \A X \in States : IsList(S[X]) /\ Pairs(S[X])
    BY <1>4, <1>10, <1>11, <1>13
  <1>15. ASSUME NEW X \in States \ {C}
         PROVE  /\ \A l \in ToSet(S[X]) :
                      l \in ToSet(succ[X]) \/ (l[1] = C /\ <<N, l[2]>> \in ToSet(succ[X]))
                /\ \A l \in ToSet(succ[X]) : l[1] # N => l \in ToSet(S[X])
                /\ \A e : <<N, e>> \in ToSet(succ[X]) /\ <<X, e>> \in ToSet(p[N]) =>
                             <<C, e>> \in ToSet(S[X])
    BY <1>4, <1>6, <1>10
  <1>16. \A l \in ToSet(S[C]) : l \in ToSet(succ[C]) \/ (l \in ToSet(succ[N]) /\ l[1] # C)
    BY <1>11, <1>12
  <1>17. \A l \in ToSet(succ[C]) : l[1] # N => l \in ToSet(S[C])
    BY <1>8, <1>11
  <1>18. \A l \in ToSet(succ[N]) : l[1] \notin {C, N} => l \in ToSet(S[C])
    BY <1>1, <1>4, <1>8, <1>11
  <1> QED
    BY <1>10, <1>14, <1>15, <1>16, <1>17, <1>18 DEF SuccsAre, S

-----------------------------------------------------------------------------
(* A merge                                                                 *)

(* C absorbs N, to which a silent firing leads.                            *)
Merging(C, N) ==
    /\ inst \in Instances /\ inst.keep = {} /\ Core
    /\ C \in Left /\ N \in Left /\ C # N
    /\ SameValues(C, N)
    /\ \E e : <<N, e>> \in ToSet(succ[C])
    /\ pc = "merge" /\ C = cur
    /\ Merge(C, N)
    /\ UNCHANGED <<inst, cur, pc>>

LEMMA InstanceFacts ==
    ASSUME inst \in Instances
    PROVE  /\ IsFiniteSet(States) /\ States = 1 .. Cardinality(States)
           /\ \A s \in States : s \in Nat /\ s >= 1
           /\ inst.initial \in States
           /\ IsFiniteSet(inst.edges)
           /\ \A x \in inst.edges : x[1] \in States /\ x[3] \in States
           /\ \A s \in States \ {inst.initial} : \E x \in inst.edges : x[3] = s
           /\ DOMAIN inst.code = States
           /\ \A s, t \in States : DOMAIN inst.code[s] = DOMAIN inst.code[t]
  <1>1. IsFiniteSet(States) /\ States = 1 .. Cardinality(States)
    BY InstancesAssumption DEF States
  <1>2. Cardinality(States) \in Nat
    BY <1>1, FS_CardinalityType
  <1>3. \A s \in States : s \in Nat /\ s >= 1
    BY <1>1, <1>2
  <1> QED
    BY <1>1, <1>3, InstancesAssumption DEF States

LEMMA SameValuesEquivalence ==
    ASSUME inst \in Instances, NEW s \in States, NEW t \in States, NEW u \in States
    PROVE  /\ SameValues(s, s)
           /\ SameValues(s, t) => SameValues(t, s)
           /\ SameValues(s, t) /\ SameValues(t, u) => SameValues(s, u)
  <1>1. DOMAIN inst.code[s] = DOMAIN inst.code[t] /\ DOMAIN inst.code[t] = DOMAIN inst.code[u]
    BY InstanceFacts
  <1> QED
    BY <1>1 DEF SameValues

LEMMA CompareValues ==
    ASSUME inst \in Instances, ValuesKept, NEW s \in States, NEW t \in States
    PROVE  StateCmp(s, t) <=> SameValues(s, t)
  <1>1. DOMAIN code[s] = DOMAIN inst.code[s] /\ DOMAIN code[t] = DOMAIN inst.code[s]
    BY InstanceFacts DEF ValuesKept
  <1> QED
    BY <1>1 DEF StateCmp, SameValues, ValuesKept

LEMMA MergedReps ==
    ASSUME NEW C, NEW N, Merging(C, N)
    PROVE  /\ States' = States /\ Left' = Left \ {N} /\ absorbed' = absorbed \cup {N}
           /\ C \in States /\ N \in States
           /\ rep' \in [States -> Left']
           /\ \A s \in States : rep'[s] = IF rep[s] = N THEN C ELSE rep[s]
           /\ \A s, t : SameValues(s, t)' <=> SameValues(s, t)
  <1>1. States' = States /\ Left' = Left \ {N} /\ absorbed' = absorbed \cup {N}
    BY DEF Merging, Merge, States, Left
  <1>2. C \in States /\ N \in States
    BY DEF Merging, Left
  <1>3. rep' = [s \in States |-> IF rep[s] = N THEN C ELSE rep[s]]
    BY DEF Merging, Merge
  <1>4. rep \in [States -> Left] /\ C \in Left /\ N \in Left /\ C # N
    BY DEF Merging, Core, Classes
  <1>5. \A s, t : SameValues(s, t)' <=> SameValues(s, t)
    BY DEF Merging, SameValues
  <1> QED
    BY <1>1, <1>2, <1>3, <1>4, <1>5

LEMMA MergedImage ==
    ASSUME NEW C, NEW N, Merging(C, N), NEW a, NEW e, NEW b, Image(a, e, b)
    PROVE  Image(IF a = N THEN C ELSE a, e, IF b = N THEN C ELSE b)'
  <1>1. PICK x \in inst.edges : rep[x[1]] = a /\ x[2] = e /\ rep[x[3]] = b
    BY DEF Image
  <1>2. x[1] \in States /\ x[3] \in States
    BY InstanceFacts DEF Merging
  <1>3. /\ rep'[x[1]] = IF a = N THEN C ELSE a
        /\ rep'[x[3]] = IF b = N THEN C ELSE b
    BY <1>1, <1>2, MergedReps
  <1>4. x \in inst'.edges
    BY DEF Merging
  <1> QED
    BY <1>1, <1>3, <1>4 DEF Image

LEMMA MergedLists ==
    ASSUME NEW C, NEW N, Merging(C, N)
    PROVE  \E W : /\ WalksLeave(W, C, N) /\ PredsAre(pred', W, C, N)
                  /\ SuccsAre(succ', ToSet(W[N]), C, N)
  <1>1. /\ C \in Left /\ N \in Left /\ C # N /\ inst.keep = {} /\ Shape /\ PredSound
        /\ pred' = RmPredLinks(C, N) /\ succ' = RmSuccLinks(pred', C, N)
    BY DEF Merging, Merge, Core
  <1>2. PICK W : WalksLeave(W, C, N) /\ PredsAre(pred', W, C, N)
    BY <1>1, MergedPreds
  <1>3. SuccsAre(succ', ToSet(pred'[N]), C, N)
    BY <1>1, MergedSuccs
  <1>4. pred'[N] = W[N]
    BY <1>1, <1>2, MergedReps DEF PredsAre
  <1> QED
    BY <1>2, <1>3, <1>4

LEMMA MergeShape ==
    ASSUME NEW C, NEW N, Merging(C, N)
    PROVE  Shape'
  <1>1. PICK W : /\ WalksLeave(W, C, N) /\ PredsAre(pred', W, C, N)
                 /\ SuccsAre(succ', ToSet(W[N]), C, N)
    BY MergedLists
  <1>2. C \in States /\ N \in States /\ States' = States /\ pc' = pc /\ cur' = cur /\ C # N
    BY MergedReps DEF Merging
  <1>3. Shape
    BY DEF Merging, Core
  <1>4. \A X \in States : IsList(W[X]) /\ Pairs(W[X]) /\ Simple(W[X])
    BY <1>1 DEF WalksLeave, AfterWalks
  <1>5. ASSUME NEW X \in States
        PROVE  IsList(pred'[X]) /\ Pairs(pred'[X]) /\ Simple(pred'[X])
    <2>1. CASE X # C \/ W[C] = <<>>
      BY <2>1, <1>1, <1>4 DEF PredsAre
    <2>2. CASE X = C /\ W[C] # <<>>
      <3>1. pred'[C] = TakeLinks(W[C], W[N], C)
        BY <2>2, <1>1 DEF PredsAre
      <3>2. /\ IsList(pred'[C]) /\ Simple(pred'[C])
            /\ ToSet(pred'[C]) = ToSet(W[C]) \cup Taken(W[N], C)
        BY <3>1, <1>2, <1>4, TakeLinksLinks
      <3>3. Pairs(pred'[C])
        BY <3>2, <1>2, <1>4 DEF Pairs, Taken
      <3> QED
        BY <2>2, <3>2, <3>3
    <2> QED
      BY <2>1, <2>2
  <1>6. ASSUME NEW X \in States, NEW l \in ToSet(succ'[X]) PROVE l[1] \in States
    <2>1. CASE X = C
      BY <2>1, <1>1, <1>2, <1>3 DEF SuccsAre, Shape
    <2>2. CASE X # C
      BY <2>2, <1>1, <1>2, <1>3 DEF SuccsAre, Shape
    <2> QED
      BY <2>1, <2>2
  <1>7. \A X \in States : IsList(succ'[X]) /\ Pairs(succ'[X])
    BY <1>1 DEF SuccsAre
  <1>8. DOMAIN succ' = States /\ DOMAIN pred' = States
    BY <1>1 DEF SuccsAre, PredsAre
  <1>9. pc \in {"merge", "clean", "done"} /\ cur \in Nat \ {0}
    BY <1>3 DEF Shape
  <1> QED
    BY <1>2, <1>5, <1>6, <1>7, <1>8, <1>9 DEF Shape

LEMMA MergeValues ==
    ASSUME NEW C, NEW N, Merging(C, N)
    PROVE  ValuesKept'
  <1>1. code' = [code EXCEPT ![C] = MergeEnablings(code[C], code[N])]
    BY DEF Merging, Merge
  <1>2. C \in States /\ N \in States /\ States' = States /\ inst' = inst
    BY MergedReps DEF Merging
  <1>3. ValuesKept /\ SameValues(C, N)
    BY DEF Merging, Core
  <1>4. DOMAIN inst.code[C] = DOMAIN inst.code[N]
    BY <1>2, InstanceFacts DEF Merging
  <1>5. DOMAIN code[C] = DOMAIN inst.code[C] /\ DOMAIN code[N] = DOMAIN inst.code[C]
    BY <1>2, <1>3, <1>4 DEF ValuesKept
  <1>6. ASSUME NEW i \in DOMAIN code[C]
        PROVE  Value(MergeEnablings(code[C], code[N])[i]) = Value(inst.code[C][i])
    <2>1. Value(code[C][i]) = Value(inst.code[C][i]) /\ Value(code[N][i]) = Value(inst.code[N][i])
      BY <1>2, <1>3, <1>5 DEF ValuesKept
    <2>2. Value(inst.code[C][i]) = Value(inst.code[N][i])
      BY <1>3, <1>5 DEF SameValues
    <2>3. MergeEnablings(code[C], code[N])[i] \in {code[C][i], code[N][i]}
      BY DEF MergeEnablings
    <2> QED
      BY <2>1, <2>2, <2>3
  <1>7. DOMAIN MergeEnablings(code[C], code[N]) = DOMAIN code[C]
    BY DEF MergeEnablings
  <1>8. code'[C] = MergeEnablings(code[C], code[N]) /\ \A s \in States \ {C} : code'[s] = code[s]
    BY <1>1, <1>2, <1>3 DEF ValuesKept
  <1>9. DOMAIN code' = States
    BY <1>1, <1>3 DEF ValuesKept
  <1>10. ASSUME NEW s \in States
         PROVE  /\ DOMAIN code'[s] = DOMAIN inst.code[s]
                /\ \A i \in DOMAIN code'[s] : Value(code'[s][i]) = Value(inst.code[s][i])
    <2>1. CASE s = C
      BY <2>1, <1>5, <1>6, <1>7, <1>8
    <2>2. CASE s # C
      BY <2>2, <1>3, <1>8 DEF ValuesKept
    <2> QED
      BY <2>1, <2>2
  <1> QED
    BY <1>2, <1>9, <1>10 DEF ValuesKept

LEMMA MergeClasses ==
    ASSUME NEW C, NEW N, Merging(C, N)
    PROVE  Classes'
  <1>1. /\ States' = States /\ Left' = Left \ {N} /\ absorbed' = absorbed \cup {N}
        /\ C \in States /\ N \in States
        /\ rep' \in [States -> Left']
        /\ \A s \in States : rep'[s] = IF rep[s] = N THEN C ELSE rep[s]
        /\ \A s, t : SameValues(s, t)' <=> SameValues(s, t)
    BY MergedReps
  <1>2. Classes /\ SameValues(C, N) /\ inst' = inst /\ inst \in Instances
    BY DEF Merging, Core
  <1>3. absorbed' \subseteq States
    BY <1>1, <1>2 DEF Classes
  <1>4. \A s \in Left' : rep'[s] = s
    BY <1>1, <1>2 DEF Classes, Left
  <1>5. ASSUME NEW s \in States PROVE SameValues(s, rep'[s])
    <2>1. SameValues(s, rep[s])
      BY <1>2 DEF Classes
    <2>2. CASE rep[s] = N
      BY <2>1, <2>2, <1>1, <1>2, SameValuesEquivalence
    <2> QED
      BY <2>1, <2>2, <1>1
  <1>6. zero' = rep'[inst.initial]
    <2>1. zero = rep[inst.initial] /\ inst.initial \in States
      BY <1>2, InstanceFacts DEF Classes
    <2>2. zero' = IF zero = N THEN C ELSE zero
      BY DEF Merging, Merge
    <2> QED
      BY <2>1, <2>2, <1>1
  <1> QED
    BY <1>1, <1>2, <1>3, <1>4, <1>5, <1>6 DEF Classes

(* The states that C and N stand for are joined by the firing from one to  *)
(* the other.                                                              *)
LEMMA MergeJoined ==
    ASSUME NEW C, NEW N, Merging(C, N)
    PROVE  Joined'
  <1>1. /\ States' = States /\ Left' = Left \ {N}
        /\ C \in States /\ N \in States
        /\ \A s \in States : rep'[s] = IF rep[s] = N THEN C ELSE rep[s]
        /\ \A s, t : SameValues(s, t)' <=> SameValues(s, t)
    BY MergedReps
  <1>2. /\ Joined /\ Classes /\ SuccSound /\ inst' = inst /\ inst \in Instances
        /\ C \in Left /\ N \in Left /\ C # N /\ SameValues(C, N)
    BY DEF Merging, Core
  <1>3. \A x \in inst.edges : x[1] \in States /\ x[3] \in States
    BY <1>2, InstanceFacts
  <1> SUFFICES ASSUME NEW s \in Left \ {N}, NEW S \in SUBSET {t \in States : rep'[t] = s},
                      S # {}, s \notin S
               PROVE  \E x \in inst.edges :
                          /\ SameValues(x[1], x[3])
                          /\ rep'[x[1]] = s /\ rep'[x[3]] = s
                          /\ (x[1] \in S <=> x[3] \notin S)
    BY <1>1, <1>2 DEF Joined, Class
  <1> DEFINE Crosses(x, r, T) ==
                /\ SameValues(x[1], x[3]) /\ rep[x[1]] = r /\ rep[x[3]] = r
                /\ (x[1] \in T <=> x[3] \notin T)
  <1>4. ASSUME NEW r \in Left, NEW T \in SUBSET Class(r), T # {}, r \notin T
        PROVE  \E x \in inst.edges : Crosses(x, r, T)
    BY <1>2, <1>4 DEF Joined
  <1>5. CASE s # C
    <2>1. S \subseteq Class(s)
      BY <1>1, <1>5 DEF Class
    <2>2. PICK x \in inst.edges : Crosses(x, s, S)
      BY <2>1, <1>4
    <2> QED
      BY <2>2, <1>1, <1>3
  <1>6. CASE s = C
    <2>1. \A t \in S : t \in Class(C) \/ t \in Class(N)
      BY <1>1, <1>6 DEF Class
    <2>2. Class(C) \cap Class(N) = {}
      BY <1>2 DEF Class
    <2>3. CASE S \cap Class(C) # {}
      <3>1. PICK x \in inst.edges : Crosses(x, C, S \cap Class(C))
        BY <1>2, <1>4, <1>6, <2>3
      <3>2. x[1] \in Class(C) /\ x[3] \in Class(C)
        BY <3>1, <1>3 DEF Class
      <3> QED
        BY <3>1, <3>2, <1>1, <1>2, <1>3, <1>6
    <2>4. CASE S \subseteq Class(N) /\ N \notin S
      <3>1. PICK x \in inst.edges : Crosses(x, N, S)
        BY <1>2, <1>4, <2>4
      <3> QED
        BY <3>1, <1>1, <1>3, <1>6
    <2>5. CASE S \subseteq Class(N) /\ N \in S /\ S # Class(N)
      <3>0. Class(N) \ S # {} /\ Class(N) \ S \in SUBSET Class(N) /\ N \notin Class(N) \ S
        BY <2>5
      <3>1. PICK x \in inst.edges : Crosses(x, N, Class(N) \ S)
        <4> HIDE DEF Crosses
        <4> QED
          BY <1>2, <1>4, <3>0
      <3>2. x[1] \in Class(N) /\ x[3] \in Class(N)
        BY <3>1, <1>3 DEF Class
      <3> QED
        BY <3>1, <3>2, <1>1, <1>3, <1>6
    <2>6. CASE S = Class(N)
      <3>1. PICK e : <<N, e>> \in ToSet(succ[C])
        BY DEF Merging
      <3>2. <<N, e>>[1] = N /\ N \notin absorbed
        BY <1>2 DEF Left
      <3>3. Image(C, <<N, e>>[2], N)
        BY <1>2, <3>1, <3>2 DEF SuccSound
      <3>4. PICK x \in inst.edges : rep[x[1]] = C /\ rep[x[3]] = N
        BY <3>3 DEF Image
      <3>5. SameValues(x[1], C) /\ SameValues(x[3], N)
        BY <1>2, <1>3, <3>4 DEF Classes
      <3>6. SameValues(x[1], x[3])
        BY <1>1, <1>2, <1>3, <3>5, SameValuesEquivalence
      <3>7. x[1] \notin Class(N) /\ x[3] \in Class(N)
        BY <1>2, <1>3, <3>4 DEF Class
      <3> QED
        BY <1>1, <1>2, <1>3, <1>6, <2>6, <3>4, <3>6, <3>7
    <2> QED
      BY <2>1, <2>3, <2>4, <2>5, <2>6
  <1> QED
    BY <1>5, <1>6

LEMMA MergeSuccSound ==
    ASSUME NEW C, NEW N, Merging(C, N)
    PROVE  SuccSound'
  <1>1. PICK W : SuccsAre(succ', ToSet(W[N]), C, N)
    BY MergedLists
  <1>2. Left' = Left \ {N} /\ absorbed' = absorbed \cup {N}
    BY MergedReps
  <1>3. /\ SuccSound /\ C \in Left /\ N \in Left /\ C # N /\ Left \subseteq States
        /\ \A s \in Left : s \notin absorbed
    BY DEF Merging, Core, Left
  <1> SUFFICES ASSUME NEW s \in Left \ {N}, NEW l \in ToSet(succ'[s]),
                      l[1] \notin absorbed \cup {N}
               PROVE  Image(s, l[2], l[1])'
    BY <1>2 DEF SuccSound
  <1>4. CASE l \in ToSet(succ[s])
    <2>1. Image(s, l[2], l[1])
      BY <1>3, <1>4 DEF SuccSound
    <2> QED
      BY <2>1, MergedImage
  <1>5. CASE s # C /\ l[1] = C /\ <<N, l[2]>> \in ToSet(succ[s])
    <2>1. <<N, l[2]>>[1] = N /\ <<N, l[2]>>[2] = l[2]
      OBVIOUS
    <2>2. Image(s, l[2], N)
      BY <1>3, <1>5, <2>1 DEF SuccSound
    <2> QED
      BY <2>2, <1>5, MergedImage
  <1>6. CASE s = C /\ l \in ToSet(succ[N]) /\ l[1] # C
    <2>1. Image(N, l[2], l[1])
      BY <1>3, <1>6 DEF SuccSound
    <2> QED
      BY <2>1, <1>6, MergedImage
  <1> QED
    BY <1>1, <1>3, <1>4, <1>5, <1>6 DEF SuccsAre

LEMMA MergePredSound ==
    ASSUME NEW C, NEW N, Merging(C, N)
    PROVE  PredSound'
  <1>1. PICK W : /\ WalksLeave(W, C, N) /\ PredsAre(pred', W, C, N)
                 /\ SuccsAre(succ', ToSet(W[N]), C, N)
    BY MergedLists
  <1>2. Left' = Left \ {N}
    BY MergedReps
  <1>3. /\ PredSound /\ Shape /\ Classes
        /\ C \in Left /\ N \in Left /\ C # N /\ Left \subseteq States
    BY DEF Merging, Core, Left
  <1>a. \A x \in inst.edges : rep[x[1]] \in Left /\ rep[x[3]] \in Left
    BY <1>3, InstanceFacts DEF Classes, Merging
  <1>4. ASSUME NEW s \in Left, NEW l \in ToSet(pred[s])
        PROVE  /\ Image(l[1], l[2], s) /\ <<s, l[2]>> \in ToSet(succ[l[1]])
               /\ l[1] \in Left /\ l = <<l[1], l[2]>>
    <2>1. Image(l[1], l[2], s) /\ <<s, l[2]>> \in ToSet(succ[l[1]])
      BY <1>3 DEF PredSound
    <2> QED
      BY <2>1, <1>3, <1>a DEF Image, Shape, Pairs
  <1>b. \A a, e : <<a, e>>[1] = a /\ <<a, e>>[2] = e
    OBVIOUS
  <1>5. ASSUME NEW s \in Left \ {N}, NEW l \in ToSet(W[s])
        PROVE  Image(l[1], l[2], s)' /\ <<s, l[2]>> \in ToSet(succ'[l[1]])
    <2>1. l[1] # N
      BY <1>1, <1>3 DEF WalksLeave, LinksFrom
    <2>2. CASE l \in ToSet(pred[s])
      <3>1. Image(l[1], l[2], s) /\ <<s, l[2]>> \in ToSet(succ[l[1]]) /\ l[1] \in Left
        BY <2>2, <1>4
      <3>2. Image(l[1], l[2], s)'
        BY <3>1, <2>1, MergedImage
      <3>3. <<s, l[2]>> \in ToSet(succ'[l[1]])
        BY <3>1, <1>1, <1>3, <1>b DEF SuccsAre
      <3> QED
        BY <3>2, <3>3
    <2>3. CASE s # C /\ l[1] = C /\ <<N, l[2]>> \in ToSet(pred[s])
      <3>1. Image(N, l[2], s) /\ <<s, l[2]>> \in ToSet(succ[N])
        BY <2>3, <1>4, <1>b
      <3>2. Image(C, l[2], s)'
        BY <3>1, MergedImage
      <3>3. <<s, l[2]>> \in ToSet(succ'[C])
        BY <3>1, <2>3, <1>1, <1>3, <1>b DEF SuccsAre
      <3> QED
        BY <3>2, <3>3, <2>3
    <2> QED
      BY <2>2, <2>3, <1>1, <1>3 DEF WalksLeave, AfterWalks
  <1>6. ASSUME NEW l \in ToSet(W[N]), l[1] # C
        PROVE  Image(l[1], l[2], C)' /\ <<C, l[2]>> \in ToSet(succ'[l[1]])
    <2>1. l[1] # N
      BY <1>1, <1>3 DEF WalksLeave, LinksFrom
    <2>2. l \in ToSet(pred[N])
      BY <1>1, <1>3, <1>6 DEF WalksLeave, AfterWalks
    <2>3. /\ Image(l[1], l[2], N) /\ <<N, l[2]>> \in ToSet(succ[l[1]])
          /\ l[1] \in Left /\ l = <<l[1], l[2]>>
      BY <2>2, <1>3, <1>4
    <2>4. Image(l[1], l[2], C)'
      BY <2>1, <2>3, MergedImage
    <2>5. <<C, l[2]>> \in ToSet(succ'[l[1]])
      BY <2>3, <1>1, <1>3, <1>6 DEF SuccsAre
    <2> QED
      BY <2>4, <2>5
  <1>7. ASSUME NEW s \in Left \ {N}, NEW l \in ToSet(pred'[s])
        PROVE  Image(l[1], l[2], s)' /\ <<s, l[2]>> \in ToSet(succ'[l[1]])
    <2>1. CASE s # C \/ W[C] = <<>>
      BY <2>1, <1>1, <1>3, <1>5 DEF PredsAre
    <2>2. CASE s = C /\ W[C] # <<>>
      <3>1. pred'[C] = TakeLinks(W[C], W[N], C) /\ IsList(W[C]) /\ IsList(W[N])
        BY <2>2, <1>1, <1>3 DEF PredsAre, WalksLeave, AfterWalks
      <3>2. ToSet(pred'[C]) = ToSet(W[C]) \cup Taken(W[N], C)
        BY <3>1, TakeLinksLinks
      <3>3. \A k \in Taken(W[N], C) : k \in ToSet(W[N]) /\ k[1] # C
        BY DEF Taken, Kept, Merging
      <3> QED
        BY <2>2, <3>2, <3>3, <1>5, <1>6
    <2> QED
      BY <2>1, <2>2
  <1> QED
    BY <1>2, <1>7 DEF PredSound

(* Without circles of silent firings, firings into a set of states cannot  *)
(* all be silent and come from the set.                                    *)
LEMMA FiredInto ==
    ASSUME inst \in Instances, Sinks, NEW K \in SUBSET States, K # {},
           \A s \in K : \E x \in inst.edges :
               x[3] = s /\ x[1] \in K /\ SameValues(x[1], x[3])
    PROVE  FALSE
  <1> DEFINE Closed(S) == \A s \in S : \E x \in inst.edges :
                             x[3] = s /\ x[1] \in S /\ SameValues(x[1], x[3])
             T == {n \in Nat : \E S \in SUBSET States : S # {} /\ Closed(S) /\ Cardinality(S) = n}
  <1>1. \A S \in SUBSET States : IsFiniteSet(S) /\ Cardinality(S) \in Nat
    BY InstanceFacts, FS_Subset, FS_CardinalityType
  <1>2. T # {} /\ T \subseteq Nat
    BY <1>1
  <1>3. PICK n \in T : \A m \in T : n <= m
    <2> HIDE DEF T
    <2> QED
      BY <1>2, LeastOf
  <1>4. PICK S \in SUBSET States : S # {} /\ Closed(S) /\ Cardinality(S) = n
    OBVIOUS
  <1>5. PICK s \in S : \A x \in inst.edges :
            SameValues(x[1], x[3]) /\ x[1] = s => x[3] \notin S
    BY <1>4 DEF Sinks
  <1>6. PICK y \in inst.edges : y[3] = s /\ y[1] \in S /\ SameValues(y[1], y[3])
    BY <1>4, <1>5
  <1>7. y[1] # s
    BY <1>5, <1>6
  <1>8. Closed(S \ {s})
    <2> SUFFICES ASSUME NEW t \in S \ {s}
                 PROVE  \E x \in inst.edges :
                           x[3] = t /\ x[1] \in S \ {s} /\ SameValues(x[1], x[3])
      OBVIOUS
    <2>1. PICK x \in inst.edges : x[3] = t /\ x[1] \in S /\ SameValues(x[1], x[3])
      BY <1>4
    <2>2. x[1] # s
      BY <1>5, <2>1
    <2> QED
      BY <2>1, <2>2
  <1>9. Cardinality(S \ {s}) = n - 1 /\ n \in Nat
    BY <1>1, <1>4, <1>5, FS_RemoveElement
  <1>10. S \ {s} \in SUBSET States /\ S \ {s} # {}
    BY <1>6, <1>7
  <1>11. n - 1 \in T
    <2> HIDE DEF Closed
    <2>1. Cardinality(S \ {s}) \in Nat
      BY <1>1, <1>10
    <2> QED
      BY <1>8, <1>9, <1>10, <2>1
  <1> QED
    BY <1>3, <1>9, <1>11

(* So C keeps a predecessor, and takes over those of N.                    *)
LEMMA PredsKept ==
    ASSUME NEW C, NEW N, Merging(C, N), Sinks, NEW W, WalksLeave(W, C, N)
    PROVE  W[C] # <<>>
  <1> SUFFICES ASSUME W[C] = <<>> PROVE FALSE
    OBVIOUS
  <1>1. /\ inst \in Instances /\ Shape /\ Classes /\ PredComplete /\ PredSound /\ SuccSound
        /\ Settled /\ SameValues(C, N)
        /\ C \in Left /\ N \in Left /\ C # N /\ C = cur /\ Left \subseteq States
        /\ C \notin absorbed /\ N \notin absorbed
    BY DEF Merging, Core, Left
  <1>2. /\ States = 1 .. Cardinality(States) /\ inst.initial \in States
        /\ \A x \in inst.edges : x[1] \in States /\ x[3] \in States
        /\ \A s \in States \ {inst.initial} : \E x \in inst.edges : x[3] = s
    BY <1>1, InstanceFacts
  <1>3. ASSUME NEW l \in ToSet(pred[C]) PROVE l[1] = N
    <2>1. ToSet(W[C]) = {}
      BY DEF ToSet
    <2>2. \A k \in ToSet(pred[C]) : k[1] # N => k \in ToSet(W[C])
      BY <1>1 DEF WalksLeave, AfterWalks
    <2> QED
      BY <2>1, <2>2
  <1>4. ASSUME NEW l \in ToSet(pred[C]) PROVE Class(N) = {N}
    <2>1. <<C, l[2]>> \in ToSet(succ[N]) /\ <<C, l[2]>>[1] = C
      BY <1>1, <1>3 DEF PredSound
    <2>2. SameValues(N, C)
      BY <1>1, SameValuesEquivalence
    <2>3. Mergeable(N)
      BY <1>1, <2>1, <2>2 DEF Mergeable
    <2> QED
      BY <1>1, <2>3 DEF Settled
  <1> DEFINE K == Class(C) \cup (IF ToSet(pred[C]) = {} THEN {} ELSE {N})
  <1>5. K \in SUBSET States /\ C \in K
    BY <1>1 DEF Class, Classes
  <1>6. ASSUME NEW s \in Class(C)
        PROVE  \E x \in inst.edges : x[3] = s /\ x[1] \in K /\ SameValues(x[1], x[3])
    <2>1. s \in States /\ rep[s] = C
      BY DEF Class
    <2>2. PICK x \in inst.edges : x[3] = s
      BY <2>1, <1>2 DEF Sinks
    <2>3. SameValues(x[1], rep[x[1]]) /\ SameValues(x[3], C)
      BY <2>1, <2>2, <1>1, <1>2 DEF Classes
    <2>4. CASE rep[x[1]] = C
      <3>1. SameValues(x[1], x[3])
        BY <2>3, <2>4, <1>1, <1>2, SameValuesEquivalence
      <3> QED
        BY <2>2, <2>4, <3>1, <1>2 DEF Class
    <2>5. CASE rep[x[1]] # C
      <3>1. PICK l \in ToSet(pred[C]) : l[1] = rep[x[1]]
        BY <2>1, <2>2, <2>5, <1>1 DEF PredComplete
      <3>2. rep[x[1]] = N /\ Class(N) = {N}
        BY <3>1, <1>3, <1>4
      <3>3. x[1] = N
        BY <3>2, <1>2 DEF Class
      <3>4. SameValues(x[1], x[3])
        BY <3>3, <2>3, <1>1, <1>2, SameValuesEquivalence
      <3> QED
        BY <3>1, <3>3, <3>4, <2>2
    <2> QED
      BY <2>4, <2>5
  <1>7. ASSUME ToSet(pred[C]) # {}
        PROVE  \E x \in inst.edges : x[3] = N /\ x[1] \in K /\ SameValues(x[1], x[3])
    <2>1. PICK e : <<N, e>> \in ToSet(succ[C])
      BY DEF Merging
    <2>2. <<N, e>>[1] = N
      OBVIOUS
    <2>3. Image(C, <<N, e>>[2], N)
      BY <1>1, <2>1, <2>2 DEF SuccSound
    <2>4. PICK x \in inst.edges : rep[x[1]] = C /\ rep[x[3]] = N
      BY <2>3 DEF Image
    <2>5. x[3] = N
      BY <2>4, <1>2, <1>4, <1>7 DEF Class
    <2>6. SameValues(x[1], C)
      BY <2>4, <1>1, <1>2 DEF Classes
    <2>7. SameValues(x[1], x[3])
      BY <2>5, <2>6, <1>1, <1>2, SameValuesEquivalence
    <2> QED
      BY <2>4, <2>5, <2>7, <1>2 DEF Class
  <1>8. \A s \in K : \E x \in inst.edges : x[3] = s /\ x[1] \in K /\ SameValues(x[1], x[3])
    BY <1>6, <1>7
  <1> HIDE DEF K
  <1> QED
    BY <1>1, <1>5, <1>8, FiredInto

LEMMA MergePredComplete ==
    ASSUME NEW C, NEW N, Merging(C, N)
    PROVE  PredComplete'
  <1>1. PICK W : WalksLeave(W, C, N) /\ PredsAre(pred', W, C, N)
    BY MergedLists
  <1>2. /\ \A s \in States : rep'[s] = IF rep[s] = N THEN C ELSE rep[s]
        /\ \A s, t : SameValues(s, t)' <=> SameValues(s, t)
        /\ C \in States /\ N \in States
    BY MergedReps
  <1>3. /\ inst \in Instances /\ inst' = inst /\ Classes /\ PredComplete /\ PredSound /\ Shape
        /\ C \in Left /\ N \in Left /\ C # N /\ Left \subseteq States /\ SameValues(C, N)
    BY DEF Merging, Core, Left
  <1>4. Sinks' <=> Sinks
    <2>1. States' = States
      BY MergedReps
    <2>2. ASSUME NEW S
          PROVE  (\E s \in S : \A x \in inst'.edges :
                      SameValues(x[1], x[3])' /\ x[1] = s => x[3] \notin S)
             <=> (\E s \in S : \A x \in inst.edges :
                      SameValues(x[1], x[3]) /\ x[1] = s => x[3] \notin S)
      BY <1>2, <1>3
    <2>3. (\E x \in inst'.edges : x[3] = inst'.initial)
             <=> (\E x \in inst.edges : x[3] = inst.initial)
      BY <1>3
    <2> QED
      BY <2>1, <2>2, <2>3 DEF Sinks
  <1>5. EventsAgree' <=> EventsAgree
    BY <1>2, <1>3 DEF EventsAgree
  <1> SUFFICES ASSUME Sinks, NEW x \in inst.edges, rep'[x[1]] # rep'[x[3]]
               PROVE  \E l \in ToSet(pred'[rep'[x[3]]]) :
                          /\ l[1] = rep'[x[1]]
                          /\ EventsAgree /\ ~SameValues(x[1], x[3]) => l[2] = x[2]
    BY <1>2, <1>3, <1>4, <1>5 DEF PredComplete
  <1> DEFINE a == rep[x[1]]
             b == rep[x[3]]
             Fits(l) == EventsAgree /\ ~SameValues(x[1], x[3]) => l[2] = x[2]
  <1>6. x[1] \in States /\ x[3] \in States /\ a \in Left /\ b \in Left
    BY <1>3, InstanceFacts DEF Classes
  <1>7. a # b /\ ~(a \in {C, N} /\ b \in {C, N})
    BY <1>2, <1>6
  <1>8. PICK l \in ToSet(pred[b]) : l[1] = a /\ Fits(l)
    BY <1>3, <1>7 DEF PredComplete
  <1>9. W[C] # <<>>
    BY <1>1, PredsKept
  <1>10. ToSet(pred'[C]) = ToSet(W[C]) \cup {k \in ToSet(W[N]) : k[1] # C}
    <2>1. pred'[C] = TakeLinks(W[C], W[N], C) /\ IsList(W[C]) /\ IsList(W[N])
      BY <1>1, <1>2, <1>9 DEF PredsAre, WalksLeave, AfterWalks
    <2>2. ToSet(pred'[C]) = ToSet(W[C]) \cup Taken(W[N], C)
      BY <2>1, TakeLinksLinks
    <2>3. Taken(W[N], C) = {k \in ToSet(W[N]) : k[1] # C}
      BY DEF Taken, Kept, Merging
    <2> QED
      BY <2>2, <2>3
  <1>11. CASE b \notin {C, N}
    <2>1. pred'[b] = W[b] /\ rep'[x[3]] = b
      BY <1>1, <1>2, <1>3, <1>6, <1>11 DEF PredsAre
    <2>2. CASE a # N
      <3>1. l \in ToSet(W[b])
        BY <1>1, <1>3, <1>6, <1>8, <2>2 DEF WalksLeave, AfterWalks
      <3> QED
        BY <2>1, <2>2, <3>1, <1>2, <1>6, <1>8
    <2>3. CASE a = N
      <3>1. l \notin ToSet(W[b])
        BY <1>1, <1>3, <1>6, <1>8, <2>3 DEF WalksLeave, LinksFrom
      <3>2. PICK k \in ToSet(W[b]) : k[1] = C /\
                (k[2] = l[2] \/ k \in ToSet(pred[b]) \/ <<N, k[2]>> \in ToSet(pred[b]))
        BY <3>1, <1>1, <1>3, <1>6, <1>8, <1>11, <2>3 DEF WalksLeave, AfterWalks
      <3>3. ASSUME EventsAgree, ~SameValues(x[1], x[3]) PROVE k[2] = x[2]
        <4>1. CASE k[2] = l[2]
          BY <4>1, <3>3, <1>8
        <4>2. CASE k \in ToSet(pred[b]) \/ <<N, k[2]>> \in ToSet(pred[b])
          <5>1. <<N, k[2]>>[1] = N /\ <<N, k[2]>>[2] = k[2]
            OBVIOUS
          <5>2. Image(C, k[2], b) \/ Image(N, k[2], b)
            BY <4>2, <5>1, <3>2, <1>3, <1>6 DEF PredSound
          <5>3. PICK y \in inst.edges : rep[y[1]] \in {C, N} /\ y[2] = k[2] /\ rep[y[3]] = b
            BY <5>2 DEF Image
          <5>4. y[1] \in States /\ y[3] \in States
            BY <1>3, InstanceFacts
          <5>5. /\ SameValues(x[1], N) /\ SameValues(x[3], b)
                /\ SameValues(y[1], N) /\ SameValues(y[3], b)
            BY <5>3, <5>4, <1>2, <1>3, <1>6, <2>3, SameValuesEquivalence DEF Classes
          <5>6. SameValues(x[1], y[1]) /\ SameValues(x[3], y[3])
            BY <5>4, <5>5, <1>2, <1>3, <1>6, SameValuesEquivalence
          <5>7. ~SameValues(y[1], y[3])
            BY <5>4, <5>6, <3>3, <1>3, <1>6, SameValuesEquivalence
          <5> QED
            BY <5>3, <5>6, <5>7, <3>3 DEF EventsAgree
        <4> QED
          BY <4>1, <4>2, <3>2
      <3> QED
        BY <3>2, <3>3, <2>1, <2>3, <1>2, <1>6
    <2> QED
      BY <2>2, <2>3
  <1>12. CASE b = C
    <2>1. a \notin {C, N}
      BY <1>7, <1>12
    <2>2. l \in ToSet(W[C])
      BY <2>1, <1>1, <1>2, <1>8, <1>12 DEF WalksLeave, AfterWalks
    <2> QED
      BY <2>1, <2>2, <1>2, <1>3, <1>6, <1>8, <1>10, <1>12
  <1>13. CASE b = N
    <2>1. a \notin {C, N}
      BY <1>7, <1>13
    <2>2. l \in ToSet(W[N])
      BY <2>1, <1>1, <1>2, <1>8, <1>13 DEF WalksLeave, AfterWalks
    <2> QED
      BY <2>1, <2>2, <1>2, <1>3, <1>6, <1>8, <1>10, <1>13
  <1> QED
    BY <1>11, <1>12, <1>13

LEMMA MergeSettled ==
    ASSUME NEW C, NEW N, Merging(C, N)
    PROVE  Settled'
  <1>1. PICK W : SuccsAre(succ', ToSet(W[N]), C, N)
    BY MergedLists
  <1>2. /\ States' = States /\ Left' = Left \ {N} /\ absorbed' = absorbed \cup {N}
        /\ \A s \in States : rep'[s] = IF rep[s] = N THEN C ELSE rep[s]
        /\ \A s, t : SameValues(s, t)' <=> SameValues(s, t)
        /\ C \in States /\ N \in States
    BY MergedReps
  <1>3. /\ inst \in Instances /\ Settled /\ C = cur /\ cur' = cur /\ pc' = pc /\ pc = "merge"
        /\ C \in Left /\ N \in Left /\ C # N /\ SameValues(C, N)
        /\ Left \subseteq States /\ N \notin absorbed
    BY DEF Merging, Core, Left
  <1> SUFFICES ASSUME NEW s \in Left \ {N}, s # C
               PROVE  \/ ~Mergeable(s)'
                      \/ s > cur /\ Class(s)' = {s}
    BY <1>2, <1>3 DEF Settled
  <1>4. ASSUME Mergeable(s)' PROVE Mergeable(s)
    <2>1. PICK l \in ToSet(succ'[s]) : l[1] \notin absorbed' \cup {s} /\ SameValues(s, l[1])
      BY <1>2, <1>4 DEF Mergeable
    <2>2. CASE l \in ToSet(succ[s])
      BY <2>1, <2>2, <1>2 DEF Mergeable
    <2>3. CASE l[1] = C /\ <<N, l[2]>> \in ToSet(succ[s])
      <3>1. SameValues(s, N)
        BY <2>1, <2>3, <1>2, <1>3, SameValuesEquivalence
      <3>2. <<N, l[2]>>[1] = N
        OBVIOUS
      <3> QED
        BY <2>3, <3>1, <3>2, <1>3 DEF Mergeable
    <2> QED
      BY <2>1, <2>2, <2>3, <1>1, <1>3 DEF SuccsAre
  <1>5. Class(s)' = Class(s)
    BY <1>2 DEF Class
  <1> QED
    BY <1>3, <1>4, <1>5 DEF Settled

LEMMA MergeCore ==
    ASSUME NEW C, NEW N, Merging(C, N)
    PROVE  Core'
  <1>1. Cleaned'
    BY DEF Merging, Cleaned
  <1> QED
    BY <1>1, MergeShape, MergeValues, MergeClasses, MergeJoined, MergeSuccSound,
       MergePredSound, MergePredComplete, MergeSettled DEF Core

-----------------------------------------------------------------------------
(* The invariant holds                                                     *)

LEMMA SetToSeqLinks ==
    ASSUME NEW S, IsFiniteSet(S)
    PROVE  IsList(SetToSeq(S)) /\ ToSet(SetToSeq(S)) = S /\ Simple(SetToSeq(S))
  <1> DEFINE n == Cardinality(S)
  <1>1. n \in Nat /\ ExistsBijection(1 .. n, S)
    BY FS_CardinalityType
  <1>2. PICK f \in Bijection(1 .. n, S) : TRUE
    BY <1>1 DEF ExistsBijection
  <1>3. f \in [1 .. n -> S] /\ IsInjective(f)
    BY <1>2 DEF Bijection, Injection
  <1>4. SetToSeq(S) \in [1 .. n -> S] /\ IsInjective(SetToSeq(S))
    BY <1>3 DEF SetToSeq
  <1>5. SetToSeq(S) \in Injection(1 .. n, S)
    BY <1>4 DEF Injection
  <1>6. IsFiniteSet(1 .. n) /\ Cardinality(1 .. n) = n
    BY <1>1, FS_Interval
  <1>7. SetToSeq(S) \in Surjection(1 .. n, S)
    BY <1>5, <1>6, FS_Injection
  <1> HIDE DEF n
  <1>8. ToSet(SetToSeq(S)) = S
    BY <1>4, <1>7 DEF Surjection, ToSet
  <1> QED
    BY <1>1, <1>4, <1>8 DEF IsList, Simple, IsInjective

(* The links out of and into a state.                                      *)
Out(s)  == {<<x[3], x[2]>> : x \in {y \in inst.edges : y[1] = s}}
Into(s) == {<<x[1], x[2]>> : x \in {y \in inst.edges : y[3] = s}}

LEMMA LinksFinite ==
    ASSUME inst \in Instances, NEW s
    PROVE  IsFiniteSet(Out(s)) /\ IsFiniteSet(Into(s))
  <1> DEFINE from == {y \in inst.edges : y[1] = s}
             to == {y \in inst.edges : y[3] = s}
             f == [x \in from |-> <<x[3], x[2]>>]
             g == [x \in to |-> <<x[1], x[2]>>]
  <1>1. IsFiniteSet(from) /\ IsFiniteSet(to)
    BY InstanceFacts, FS_Subset
  <1>2. f \in Surjection(from, Out(s))
    BY DEF Surjection, Out
  <1>3. g \in Surjection(to, Into(s))
    BY DEF Surjection, Into
  <1> HIDE DEF from, to, f, g
  <1> QED
    BY <1>1, <1>2, <1>3, FS_Surjection

LEMMA InitInv == Init => Inv
  <1> SUFFICES ASSUME Init, inst.keep = {} PROVE Core
    BY DEF Inv, Init
  <1>1. /\ inst \in Instances /\ code = inst.code /\ absorbed = {} /\ zero = inst.initial
        /\ cur = 1 /\ pc = "merge"
        /\ rep = [s \in States |-> s]
        /\ succ = [s \in States |-> SetToSeq(Out(s))]
        /\ pred = [s \in States |-> SetToSeq(Into(s))]
    BY DEF Init, Out, Into
  <1>2. /\ inst.initial \in States
        /\ \A x \in inst.edges : x[1] \in States /\ x[3] \in States
        /\ DOMAIN inst.code = States
    BY <1>1, InstanceFacts
  <1>3. ASSUME NEW s \in States
        PROVE  /\ IsList(succ[s]) /\ ToSet(succ[s]) = Out(s)
               /\ IsList(pred[s]) /\ ToSet(pred[s]) = Into(s) /\ Simple(pred[s])
    BY <1>1, LinksFinite, SetToSeqLinks
  <1>4. Left = States
    BY <1>1 DEF Left
  <1>5. Shape
    <2>1. DOMAIN succ = States /\ DOMAIN pred = States
      BY <1>1
    <2>2. ASSUME NEW s \in States
          PROVE  Pairs(succ[s]) /\ Pairs(pred[s]) /\ \A l \in ToSet(succ[s]) : l[1] \in States
      BY <1>2, <1>3 DEF Pairs, Out, Into
    <2> QED
      BY <1>1, <1>3, <2>1, <2>2 DEF Shape
  <1>6. ValuesKept
    BY <1>1, <1>2 DEF ValuesKept
  <1>7. Classes
    BY <1>1, <1>2, <1>4, SameValuesEquivalence DEF Classes
  <1>8. Joined
    BY <1>1, <1>4 DEF Joined, Class
  <1>9. ASSUME NEW x \in inst.edges
        PROVE  rep[x[1]] = x[1] /\ rep[x[3]] = x[3]
    BY <1>1, <1>2
  <1>10. SuccSound
    <2> SUFFICES ASSUME NEW s \in States, NEW l \in Out(s) PROVE Image(s, l[2], l[1])
      BY <1>3, <1>4 DEF SuccSound
    <2>1. PICK x \in inst.edges : x[1] = s /\ l = <<x[3], x[2]>>
      BY DEF Out
    <2> QED
      BY <2>1, <1>9 DEF Image
  <1>11. PredSound
    <2> SUFFICES ASSUME NEW s \in States, NEW l \in Into(s)
                 PROVE  Image(l[1], l[2], s) /\ <<s, l[2]>> \in ToSet(succ[l[1]])
      BY <1>3, <1>4 DEF PredSound
    <2>1. PICK x \in inst.edges : x[3] = s /\ l = <<x[1], x[2]>>
      BY DEF Into
    <2>2. <<s, l[2]>> \in Out(l[1]) /\ l[1] \in States
      BY <2>1, <1>2 DEF Out
    <2> QED
      BY <2>1, <2>2, <1>3, <1>9 DEF Image
  <1>12. PredComplete
    <2> SUFFICES ASSUME NEW x \in inst.edges
                 PROVE  \E l \in ToSet(pred[rep[x[3]]]) : l[1] = rep[x[1]] /\ l[2] = x[2]
      BY DEF PredComplete
    <2>1. <<x[1], x[2]>> \in Into(x[3])
      BY DEF Into
    <2> QED
      BY <2>1, <1>2, <1>3, <1>9
  <1>13. Settled
    <2>1. \A s \in States : s = 1 \/ s > 1
      BY <1>1, InstanceFacts
    <2> QED
      BY <2>1, <1>1, <1>4 DEF Settled, Class
  <1>14. Cleaned
    BY <1>1 DEF Cleaned
  <1> QED
    BY <1>5, <1>6, <1>7, <1>8, <1>10, <1>11, <1>12, <1>13, <1>14 DEF Core

LEMMA AbsorbCore ==
    ASSUME inst \in Instances, inst.keep = {}, Core, Absorb
    PROVE  Core'
  <1>1. PICK i \in DOMAIN succ[cur] :
            Silent(cur, succ[cur][i]) /\ Merge(cur, succ[cur][i][1])
    BY DEF Absorb
  <1> DEFINE l == succ[cur][i]
             N == l[1]
  <1>2. cur \in Left /\ cur \in States
    BY DEF Absorb, Left
  <1>3. l \in ToSet(succ[cur]) /\ l = <<l[1], l[2]>> /\ N \in States
    BY <1>2 DEF Core, Shape, Pairs, ToSet
  <1>4. N \in Left /\ N # cur
    BY <1>1, <1>3 DEF Silent, Left
  <1>5. SameValues(cur, N)
    BY <1>1, <1>2, <1>3, CompareValues DEF Silent, Core
  <1>6. <<N, l[2]>> \in ToSet(succ[cur])
    BY <1>3
  <1>7. Merging(cur, N)
    BY <1>1, <1>2, <1>4, <1>5, <1>6 DEF Merging, Absorb
  <1> QED
    BY <1>7, MergeCore

(* What Settled and Cleaned do not speak of is left alone.                 *)
LEMMA RestCore ==
    ASSUME Core, UNCHANGED <<inst, succ, pred, code, absorbed, zero, rep>>,
           pc' \in {"merge", "clean", "done"}, cur' \in Nat \ {0}, Settled', Cleaned'
    PROVE  Core'
  <1>1. \A s, t : SameValues(s, t)' <=> SameValues(s, t)
    BY DEF SameValues
  <1>2. \A a, e, b : Image(a, e, b)' <=> Image(a, e, b)
    BY DEF Image
  <1>3. Left' = Left /\ States' = States /\ \A s : Class(s)' = Class(s)
    BY DEF Left, States, Class
  <1>4. Shape'
    BY <1>3 DEF Core, Shape
  <1>5. ValuesKept' /\ Classes' /\ Joined'
    BY <1>1, <1>3 DEF Core, ValuesKept, Classes, Joined
  <1>6. SuccSound' /\ PredSound'
    BY <1>2, <1>3 DEF Core, SuccSound, PredSound
  <1>7. (Sinks' <=> Sinks) /\ (EventsAgree' <=> EventsAgree)
    BY <1>1, <1>3 DEF Sinks, EventsAgree
  <1>8. PredComplete'
    BY <1>1, <1>7 DEF Core, PredComplete
  <1> QED
    BY <1>4, <1>5, <1>6, <1>8 DEF Core

LEMMA NextStateCore ==
    ASSUME inst \in Instances, inst.keep = {}, Core, NextState
    PROVE  Core'
  <1>1. /\ cur' = cur + 1 /\ pc = "merge" /\ pc' = "merge" /\ cur \in States /\ ~MayAbsorb(cur)
        /\ UNCHANGED <<inst, succ, pred, code, absorbed, zero, rep>>
    BY DEF NextState
  <1>2. cur \in Nat \ {0} /\ cur' \in Nat \ {0} /\ Settled /\ Shape /\ ValuesKept
    BY <1>1 DEF Core, Shape
  <1>3. ASSUME cur \in Left PROVE ~Mergeable(cur)
    <2> SUFFICES ASSUME NEW l \in ToSet(succ[cur]), l[1] \notin absorbed \cup {cur},
                        SameValues(cur, l[1])
                 PROVE  FALSE
      BY DEF Mergeable
    <2>1. PICK i \in DOMAIN succ[cur] : l = succ[cur][i]
      BY DEF ToSet
    <2>2. l[1] \in States
      BY <1>1, <1>2 DEF Shape
    <2>3. Silent(cur, l)
      BY <2>2, <1>1, <1>2, CompareValues DEF Silent, Blocked, Kept
    <2> QED
      BY <2>1, <2>3, <1>1, <1>3 DEF MayAbsorb, Left
  <1>4. \A s, t : SameValues(s, t)' <=> SameValues(s, t)
    BY <1>1 DEF SameValues
  <1>5. Left' = Left /\ (\A s : Class(s)' = Class(s)) /\ \A s : Mergeable(s)' <=> Mergeable(s)
    BY <1>1, <1>4 DEF Left, States, Class, Mergeable
  <1>6. ASSUME NEW s \in Left
        PROVE  ~Mergeable(s) \/ s = cur' \/ (s > cur' /\ Class(s) = {s})
    <2>1. s \in Nat
      BY <1>1, InstanceFacts DEF Left
    <2>2. CASE s = cur
      BY <2>2, <1>3, <1>6
    <2>3. CASE s > cur /\ Class(s) = {s}
      BY <2>1, <2>3, <1>1, <1>2
    <2> QED
      BY <2>2, <2>3, <1>2 DEF Settled
  <1>7. Settled'
    BY <1>1, <1>5, <1>6 DEF Settled
  <1>8. Cleaned'
    BY <1>1 DEF Cleaned
  <1> QED
    BY <1>1, <1>2, <1>7, <1>8, RestCore

(* A pass ends when no state can absorb another one.                       *)
LEMMA NextPassCore ==
    ASSUME inst \in Instances, inst.keep = {}, Core, NextPass
    PROVE  Core'
  <1>1. /\ cur' = 1 /\ pc = "merge" /\ pc' \in {"merge", "clean"} /\ cur \notin States
        /\ UNCHANGED <<inst, succ, pred, code, absorbed, zero, rep>>
    BY DEF NextPass
  <1>2. cur \in Nat \ {0} /\ Settled
    BY DEF Core, Shape
  <1>3. States = 1 .. Cardinality(States) /\ Cardinality(States) \in Nat
    BY InstanceFacts, FS_CardinalityType
  <1>4. ASSUME NEW s \in Left PROVE ~Mergeable(s)
    <2>1. s \in States
      BY DEF Left
    <2>2. s \in 1 .. Cardinality(States) /\ cur \notin 1 .. Cardinality(States)
      BY <2>1, <1>1, <1>3
    <2>3. ~(s = cur) /\ ~(s > cur)
      BY <2>2, <1>2, <1>3
    <2> QED
      BY <2>3, <1>2 DEF Settled
  <1>5. \A s, t : SameValues(s, t)' <=> SameValues(s, t)
    BY <1>1 DEF SameValues
  <1>6. Left' = Left /\ \A s : Mergeable(s)' <=> Mergeable(s)
    BY <1>1, <1>5 DEF Left, States, Mergeable
  <1>7. Settled'
    BY <1>4, <1>6 DEF Settled
  <1>8. Cleaned'
    BY <1>1 DEF Cleaned
  <1> QED
    BY <1>1, <1>7, <1>8, RestCore

LEMMA CleanCore ==
    ASSUME inst \in Instances, inst.keep = {}, Core, Clean
    PROVE  Core'
  <1> DEFINE P(s) == {i \in DOMAIN succ[s] : succ[s][i][1] \notin absorbed}
  <1>1. /\ pc = "clean" /\ pc' = "done" /\ UNCHANGED <<inst, pred, absorbed, zero, cur, rep>>
        /\ succ' = [s \in States |-> At(succ[s], P(s))]
    BY DEF Clean
  <1>2. ASSUME NEW s \in States
        PROVE  /\ IsList(succ'[s])
               /\ ToSet(succ'[s]) = {l \in ToSet(succ[s]) : l[1] \notin absorbed}
    <2>1. IsList(succ[s])
      BY DEF Core, Shape
    <2>2. IsList(At(succ[s], P(s))) /\ ToSet(At(succ[s], P(s))) = {succ[s][i] : i \in P(s)}
      BY <2>1, AtLinks
    <2>3. {succ[s][i] : i \in P(s)} = {l \in ToSet(succ[s]) : l[1] \notin absorbed}
      BY DEF ToSet
    <2> QED
      BY <1>1, <2>2, <2>3
  <1>3. \A s, t : SameValues(s, t)' <=> SameValues(s, t)
    BY <1>1 DEF SameValues
  <1>4. \A a, e, b : Image(a, e, b)' <=> Image(a, e, b)
    BY <1>1 DEF Image
  <1>5. Left' = Left /\ States' = States /\ \A s : Class(s)' = Class(s)
    BY <1>1 DEF Left, States, Class
  <1>6. Shape'
    <2>1. DOMAIN succ' = States
      BY <1>1
    <2>2. \A s \in States : Pairs(succ'[s]) /\ \A l \in ToSet(succ'[s]) : l[1] \in States
      BY <1>2 DEF Core, Shape, Pairs
    <2> QED
      BY <1>1, <1>2, <1>5, <2>1, <2>2 DEF Core, Shape
  <1>7. ValuesKept'
    <2>1. ValuesKept
      BY DEF Core
    <2>2. DOMAIN code' = States
      BY DEF Clean
    <2>3. ASSUME NEW s \in States
          PROVE  /\ DOMAIN code'[s] = DOMAIN code[s]
                 /\ \A i \in DOMAIN code[s] : Value(code'[s][i]) = Value(code[s][i])
      <3>1. code'[s] = [i \in DOMAIN code[s] |->
                    CASE code[s][i] = "0" /\ Excited(s, i) -> "R"
                      [] code[s][i] = "1" /\ Excited(s, i) -> "F"
                      [] OTHER -> code[s][i]]
        BY DEF Clean
      <3>2. ASSUME NEW i \in DOMAIN code[s] PROVE Value(code'[s][i]) = Value(code[s][i])
        <4>1. \/ code'[s][i] = code[s][i]
              \/ code[s][i] = "0" /\ code'[s][i] = "R"
              \/ code[s][i] = "1" /\ code'[s][i] = "F"
          BY <3>1
        <4> QED
          BY <4>1 DEF Value
      <3> QED
        BY <3>1, <3>2
    <2> QED
      BY <1>1, <1>5, <2>1, <2>2, <2>3 DEF ValuesKept
  <1>8. Classes' /\ Joined'
    BY <1>1, <1>3, <1>5 DEF Core, Classes, Joined
  <1>9. SuccSound'
    BY <1>1, <1>2, <1>4, <1>5 DEF Core, SuccSound, Left
  <1>10. PredSound'
    <2> SUFFICES ASSUME NEW s \in Left, NEW l \in ToSet(pred[s])
                 PROVE  Image(l[1], l[2], s) /\ <<s, l[2]>> \in ToSet(succ'[l[1]])
      BY <1>1, <1>4, <1>5 DEF PredSound
    <2>1. Image(l[1], l[2], s) /\ <<s, l[2]>> \in ToSet(succ[l[1]])
      BY DEF Core, PredSound
    <2>2. l[1] \in States
      BY <2>1, InstanceFacts DEF Core, Classes, Image, Left
    <2>3. <<s, l[2]>>[1] = s /\ s \notin absorbed
      BY DEF Left
    <2> QED
      BY <2>1, <2>2, <2>3, <1>2
  <1>11. (Sinks' <=> Sinks) /\ (EventsAgree' <=> EventsAgree)
    BY <1>1, <1>3, <1>5 DEF Sinks, EventsAgree
  <1>12. PredComplete'
    BY <1>1, <1>3, <1>11 DEF Core, PredComplete
  <1>13. Settled'
    <2> SUFFICES ASSUME NEW s \in Left, Mergeable(s)' PROVE Mergeable(s)
      BY <1>1, <1>5 DEF Core, Settled
    <2>1. s \in States
      BY DEF Left
    <2> QED
      BY <2>1, <1>1, <1>2, <1>3 DEF Mergeable
  <1>14. Cleaned'
    BY <1>1, <1>2, <1>5 DEF Cleaned
  <1> QED
    BY <1>6, <1>7, <1>8, <1>9, <1>10, <1>12, <1>13, <1>14 DEF Core

LEMMA StutterInv == Inv /\ UNCHANGED vars => Inv'
  <1> SUFFICES ASSUME Inv, UNCHANGED vars PROVE Inv'
    OBVIOUS
  <1>1. UNCHANGED <<inst, succ, pred, code, absorbed, zero, rep, cur, pc>>
    BY DEF vars
  <1>2. ASSUME inst.keep = {} PROVE Core'
    <2>1. Core
      BY <1>2 DEF Inv
    <2>2. \A s, t : SameValues(s, t)' <=> SameValues(s, t)
      BY <1>1 DEF SameValues
    <2>3. /\ Left' = Left /\ (\A s : Class(s)' = Class(s))
          /\ (\A s : Mergeable(s)' <=> Mergeable(s))
      BY <1>1, <2>2 DEF Left, States, Class, Mergeable
    <2>4. Settled' /\ Cleaned'
      BY <1>1, <2>1, <2>3 DEF Core, Settled, Cleaned, States
    <2>5. pc' \in {"merge", "clean", "done"} /\ cur' \in Nat \ {0}
      BY <1>1, <2>1 DEF Core, Shape
    <2> QED
      BY <1>1, <2>1, <2>4, <2>5, RestCore
  <1> QED
    BY <1>1, <1>2 DEF Inv

LEMMA NextInv == Inv /\ [Next]_vars => Inv'
  <1> SUFFICES ASSUME Inv, [Next]_vars PROVE Inv'
    OBVIOUS
  <1>1. CASE UNCHANGED vars
    BY <1>1, StutterInv
  <1>2. CASE Next
    <2>1. inst' = inst /\ inst \in Instances
      BY <1>2 DEF Next, Absorb, NextState, NextPass, Clean, Inv
    <2>2. ASSUME inst.keep = {} PROVE Core'
      <3>1. Core
        BY <2>2 DEF Inv
      <3>2. CASE Absorb
        BY <2>1, <2>2, <3>1, <3>2, AbsorbCore
      <3>3. CASE NextState
        BY <2>1, <2>2, <3>1, <3>3, NextStateCore
      <3>4. CASE NextPass
        BY <2>1, <2>2, <3>1, <3>4, NextPassCore
      <3>5. CASE Clean
        BY <2>1, <2>2, <3>1, <3>5, CleanCore
      <3> QED
        BY <1>2, <3>2, <3>3, <3>4, <3>5 DEF Next
    <2> QED
      BY <2>1, <2>2 DEF Inv
  <1> QED
    BY <1>1, <1>2

THEOREM Invariant == Spec => []Inv
  <1> QED
    BY InitInv, NextInv, PTL DEF Spec

-----------------------------------------------------------------------------
(* What is left of the graph                                               *)

LEMMA SilentSameValues ==
    ASSUME Inv, inst.keep = {}
    PROVE  /\ \A x \in inst.edges : x \in SilentEdges <=> SameValues(x[1], x[3])
           /\ Proper => Sinks
           /\ OneEvent => EventsAgree
  <1>1. inst \in Instances /\ ValuesKept
    BY DEF Inv, Core
  <1>2. \A x \in inst.edges : x[1] \in States /\ x[3] \in States
    BY <1>1, InstanceFacts
  <1>3. \A x \in inst.edges : x \in SilentEdges <=> SameValues(x[1], x[3])
    BY <1>1, <1>2, CompareValues DEF SilentEdges
  <1>4. ASSUME Proper PROVE Sinks
    <2> SUFFICES ASSUME NEW S \in (SUBSET States) \ {{}}
                 PROVE  \E s \in S : \A x \in inst.edges :
                           SameValues(x[1], x[3]) /\ x[1] = s => x[3] \notin S
      BY <1>4 DEF Proper, Sinks
    <2>1. PICK s \in S : \A x \in SilentEdges : x[1] = s => x[3] \notin S
      BY <1>4 DEF Proper
    <2> QED
      BY <2>1, <1>3 DEF SilentEdges
  <1>5. ASSUME OneEvent PROVE EventsAgree
    <2> SUFFICES ASSUME NEW x \in inst.edges, NEW y \in inst.edges,
                        ~SameValues(x[1], x[3]), ~SameValues(y[1], y[3]),
                        SameValues(x[1], y[1]), SameValues(x[3], y[3])
                 PROVE  x[2] = y[2]
      BY DEF EventsAgree
    <2>1. StateCmp(x[1], y[1]) /\ StateCmp(x[3], y[3])
      BY <1>1, <1>2, CompareValues
    <2> QED
      BY <2>1, <1>3, <1>5 DEF OneEvent
  <1> QED
    BY <1>3, <1>4, <1>5

LEMMA LinksSoundFromInv == Inv => LinksSound
  <1> SUFFICES ASSUME Inv, pc = "done", inst.keep = {}, NEW s \in Left
               PROVE  /\ \A l \in ToSet(succ[s]) : \E x \in inst.edges :
                             <<rep[x[1]], x[2], rep[x[3]]>> = <<s, l[2], l[1]>>
                      /\ \A l \in ToSet(pred[s]) : \E x \in inst.edges :
                             <<rep[x[1]], x[2], rep[x[3]]>> = <<l[1], l[2], s>>
    BY DEF LinksSound
  <1>1. SuccSound /\ PredSound /\ Cleaned /\ s \in States
    BY DEF Inv, Core, Left
  <1>2. \A l \in ToSet(succ[s]) : Image(s, l[2], l[1])
    BY <1>1 DEF SuccSound, Cleaned
  <1>3. \A l \in ToSet(pred[s]) : Image(l[1], l[2], s)
    BY <1>1 DEF PredSound
  <1> QED
    BY <1>2, <1>3 DEF Image

LEMMA FiringsKeptFromInv == Inv => FiringsKept
  <1> SUFFICES ASSUME Inv, pc = "done", Proper, OneEvent, NEW x \in inst.edges \ SilentEdges
               PROVE  /\ Contains(succ[rep[x[1]]], <<rep[x[3]], x[2]>>)
                      /\ Contains(pred[rep[x[3]]], <<rep[x[1]], x[2]>>)
    BY DEF FiringsKept
  <1>1. inst.keep = {} /\ inst \in Instances
    BY DEF Proper, Inv
  <1>2. Shape /\ Classes /\ PredSound /\ PredComplete
    BY <1>1 DEF Inv, Core
  <1>3. Sinks /\ EventsAgree /\ ~SameValues(x[1], x[3])
    BY <1>1, SilentSameValues
  <1>4. x[1] \in States /\ x[3] \in States
    BY <1>1, InstanceFacts
  <1>5. rep[x[1]] \in Left /\ rep[x[3]] \in Left /\ Left \subseteq States
    BY <1>2, <1>4 DEF Classes, Left
  <1>6. rep[x[1]] # rep[x[3]]
    <2>1. SameValues(x[1], rep[x[1]]) /\ SameValues(x[3], rep[x[3]])
      BY <1>2, <1>4 DEF Classes
    <2> QED
      BY <2>1, <1>1, <1>3, <1>4, <1>5, SameValuesEquivalence
  <1>7. PICK l \in ToSet(pred[rep[x[3]]]) : l[1] = rep[x[1]] /\ l[2] = x[2]
    BY <1>2, <1>3, <1>6 DEF PredComplete
  <1>8. l = <<rep[x[1]], x[2]>>
    BY <1>2, <1>5, <1>7 DEF Shape, Pairs
  <1>9. <<rep[x[3]], x[2]>> \in ToSet(succ[rep[x[1]]])
    BY <1>2, <1>5, <1>7 DEF PredSound
  <1>10. /\ DOMAIN succ[rep[x[1]]] = 1 .. Len(succ[rep[x[1]]])
         /\ DOMAIN pred[rep[x[3]]] = 1 .. Len(pred[rep[x[3]]])
    BY <1>2, <1>5, ListLength DEF Shape
  <1> QED
    BY <1>7, <1>8, <1>9, <1>10 DEF Contains, ToSet

LEMMA MergedExactlyFromInv == Inv => MergedExactly
  <1> SUFFICES ASSUME Inv, pc = "done", Proper
               PROVE  /\ \A x \in SilentEdges : rep[x[1]] = rep[x[3]]
                      /\ \A s \in Left : \A S \in (SUBSET {t \in States : rep[t] = s}) \ {{}} :
                             s \in S \/ \E x \in SilentEdges :
                                 rep[x[1]] = s /\ rep[x[3]] = s /\ (x[1] \in S <=> x[3] \notin S)
                      /\ {s \in Left : s = zero} = {rep[inst.initial]}
    BY DEF MergedExactly
  <1>1. inst.keep = {} /\ inst \in Instances
    BY DEF Proper, Inv
  <1>2. Shape /\ Classes /\ Joined /\ PredSound /\ PredComplete /\ Settled
    BY <1>1 DEF Inv, Core
  <1>3. Sinks /\ \A x \in inst.edges : x \in SilentEdges <=> SameValues(x[1], x[3])
    BY <1>1, SilentSameValues
  <1>4. ASSUME NEW x \in SilentEdges, rep[x[1]] # rep[x[3]] PROVE FALSE
    <2>1. x \in inst.edges /\ SameValues(x[1], x[3])
      BY <1>3 DEF SilentEdges
    <2>2. x[1] \in States /\ x[3] \in States
      BY <1>1, <2>1, InstanceFacts
    <2>3. /\ rep[x[1]] \in Left /\ rep[x[3]] \in Left /\ Left \subseteq States
          /\ rep[x[3]] \notin absorbed
      BY <1>2, <2>2 DEF Classes, Left
    <2>4. PICK l \in ToSet(pred[rep[x[3]]]) : l[1] = rep[x[1]]
      BY <1>2, <1>3, <1>4, <2>1 DEF PredComplete
    <2>5. <<rep[x[3]], l[2]>> \in ToSet(succ[rep[x[1]]])
      BY <1>2, <2>3, <2>4 DEF PredSound
    <2>6. SameValues(x[1], rep[x[1]]) /\ SameValues(x[3], rep[x[3]])
      BY <1>2, <2>2 DEF Classes
    <2>7. SameValues(rep[x[1]], rep[x[3]])
      BY <1>1, <2>1, <2>2, <2>3, <2>6, SameValuesEquivalence
    <2>8. <<rep[x[3]], l[2]>>[1] = rep[x[3]]
      OBVIOUS
    <2>9. Mergeable(rep[x[1]])
      BY <1>4, <2>3, <2>5, <2>7, <2>8 DEF Mergeable
    <2> QED
      BY <1>2, <2>3, <2>9 DEF Settled
  <1>5. ASSUME NEW s \in Left, NEW S \in (SUBSET {t \in States : rep[t] = s}) \ {{}}, s \notin S
        PROVE  \E x \in SilentEdges :
                   rep[x[1]] = s /\ rep[x[3]] = s /\ (x[1] \in S <=> x[3] \notin S)
    <2>1. S \in SUBSET Class(s) /\ S # {}
      BY DEF Class
    <2>2. PICK x \in inst.edges :
              /\ SameValues(x[1], x[3]) /\ rep[x[1]] = s /\ rep[x[3]] = s
              /\ (x[1] \in S <=> x[3] \notin S)
      BY <1>2, <1>5, <2>1 DEF Joined
    <2> QED
      BY <2>2, <1>3
  <1>6. {s \in Left : s = zero} = {rep[inst.initial]}
    BY <1>1, <1>2, InstanceFacts DEF Classes
  <1> QED
    BY <1>4, <1>5, <1>6

(* Every link between states that are left comes from a firing, and leads  *)
(* to no state that has been freed (project, project.c).                   *)
THEOREM LinksAreSound == Spec => []LinksSound
  <1> QED
    BY Invariant, LinksSoundFromInv, PTL

(* No visible firing is lost in either direction, whatever the order of    *)
(* the hash table.                                                         *)
THEOREM VisibleFiringsKept == Spec => []FiringsKept
  <1> QED
    BY Invariant, FiringsKeptFromInv, PTL

(* Exactly the states joined by silent firings become one.                 *)
THEOREM ClassesMerged == Spec => []MergedExactly
  <1> QED
    BY Invariant, MergedExactlyFromInv, PTL

=============================================================================
