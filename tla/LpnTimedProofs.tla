--------------------------- MODULE LpnTimedProofs ---------------------------
(***************************************************************************)
(* Proofs about LpnTimedGame, for every net of its class and any bounds:   *)
(* the zones that lpn_rsg computes on the path of a timed run contain the  *)
(* times of the run.                                                       *)
(***************************************************************************)
EXTENDS LpnTimedGame, LpnNetProofs, FiniteSetTheorems, TLAPS

-----------------------------------------------------------------------------
(* Induction up to a number.                                               *)
LEMMA BoundedInduction ==
    ASSUME NEW n \in Nat, NEW T, 0 \in T, \A k \in 1 .. n : k - 1 \in T => k \in T
    PROVE  0 .. n \subseteq T
  <1> DEFINE U == {k \in Nat : k <= n => k \in T}
  <1>1. 0 \in U
    OBVIOUS
  <1>2. \A k \in Nat : k \in U => k + 1 \in U
    <2> SUFFICES ASSUME NEW k \in Nat, k \in U, k + 1 <= n PROVE k + 1 \in T
      OBVIOUS
    <2>1. k \in T /\ k + 1 \in 1 .. n /\ (k + 1) - 1 = k
      OBVIOUS
    <2> QED
      BY <2>1
  <1>3. Nat \subseteq U
    <2> HIDE DEF U
    <2> QED
      BY <1>1, <1>2, SetInduction
  <1> QED
    BY <1>3

(* The same from a number to another.                                      *)
LEMMA RangeInduction ==
    ASSUME NEW a \in Nat, NEW b \in Nat, NEW T, a \in T,
           \A k \in (a + 1) .. b : k - 1 \in T => k \in T
    PROVE  a .. b \subseteq T
  <1> DEFINE U == {k \in Nat : a + k <= b => a + k \in T}
  <1>1. 0 \in U
    OBVIOUS
  <1>2. \A k \in Nat : k \in U => k + 1 \in U
    <2> SUFFICES ASSUME NEW k \in Nat, k \in U, a + (k + 1) <= b PROVE a + (k + 1) \in T
      OBVIOUS
    <2>1. a + k \in T /\ a + (k + 1) \in (a + 1) .. b /\ (a + (k + 1)) - 1 = a + k
      OBVIOUS
    <2> QED
      BY <2>1
  <1>3. Nat \subseteq U
    <2> HIDE DEF U
    <2> QED
      BY <1>1, <1>2, SetInduction
  <1>4. ASSUME NEW k \in a .. b PROVE k \in T
    <2>1. k - a \in Nat /\ a + (k - a) = k /\ k <= b
      OBVIOUS
    <2>2. k - a \in U
      BY <1>3, <2>1
    <2> QED
      BY <2>1, <2>2
  <1> QED
    BY <1>4

(* A loop over the numbers from a to b, each step a function on a set S,   *)
(* has a history.                                                          *)
IsLoop(S, base, a, b, D, G) ==
    /\ base \in S /\ a \in Nat /\ b \in Nat /\ a <= b /\ D = a .. b
    /\ \A k \in D : \A x \in S : G[k][x] \in S
IsHistory(S, base, a, D, G, f) ==
    f \in [D -> S] /\ f[a] = base /\ \A k \in D \ {a} : f[k] = G[k][f[k - 1]]

LEMMA HistoryExists ==
    ASSUME NEW S, NEW base, NEW a, NEW b, NEW D, NEW G, IsLoop(S, base, a, b, D, G)
    PROVE  \E f : IsHistory(S, base, a, D, G, f)
  <1> DEFINE Upto(m, f) == /\ f \in [a .. m -> S] /\ f[a] = base
                           /\ \A k \in (a + 1) .. m : f[k] = G[k][f[k - 1]]
             T == {m \in D : \E f : Upto(m, f)}
  <1>0. /\ base \in S /\ a \in Nat /\ b \in Nat /\ a <= b /\ D = a .. b
        /\ \A k \in D : \A x \in S : G[k][x] \in S
    BY DEF IsLoop
  <1>1. a \in T
    <2>1. Upto(a, [k \in a .. a |-> base]) /\ a \in D
      BY <1>0
    <2> HIDE DEF Upto
    <2> QED
      BY <2>1
  <1>2. ASSUME NEW m \in (a + 1) .. b, m - 1 \in T PROVE m \in T
    <2>1. PICK f : Upto(m - 1, f)
      BY <1>2
    <2> DEFINE g == [k \in a .. m |-> IF k < m THEN f[k] ELSE G[m][f[m - 1]]]
    <2>2. f[m - 1] \in S /\ m \in D
      BY <1>0, <2>1
    <2>3. G[m][f[m - 1]] \in S
      BY <1>0, <2>2
    <2>4. g \in [a .. m -> S] /\ g[a] = base
      BY <1>0, <2>1, <2>3
    <2>5. ASSUME NEW k \in (a + 1) .. m PROVE g[k] = G[k][g[k - 1]]
      <3>1. g[k - 1] = f[k - 1]
        BY <1>0
      <3>2. CASE k < m
        BY <1>0, <3>1, <3>2, <2>1
      <3>3. CASE k = m
        BY <1>0, <3>1, <3>3
      <3> QED
        BY <1>0, <3>2, <3>3
    <2>6. Upto(m, g)
      BY <2>4, <2>5
    <2> HIDE DEF Upto
    <2> QED
      BY <2>2, <2>6
  <1>3. b \in T
    <2> HIDE DEF T
    <2>1. a .. b \subseteq T
      BY <1>0, <1>1, <1>2, RangeInduction
    <2> QED
      BY <1>0, <2>1
  <1>4. PICK f : Upto(b, f)
    BY <1>3
  <1>5. D \ {a} = (a + 1) .. b
    BY <1>0
  <1> QED
    BY <1>0, <1>4, <1>5 DEF IsHistory

-----------------------------------------------------------------------------
(* Times that a matrix allows: t[i] is the time of the i-th key.           *)
Matrices(n) == [Indices(n) -> Int]
Fits(n, clocks, t) == \A i, j \in 1 .. n : t[i] - t[j] <= clocks[<<i, j>>]
Times(n) == {t \in [1 .. n -> Int] : \A i, j \in 1 .. n : t[i] - t[j] <= INFIN}

(* One phase of Floyd's algorithm.                                         *)
LEMMA ThroughIs ==
    ASSUME NEW n \in Nat, NEW clocks \in Matrices(n), NEW k \in 1 .. n
    PROVE  /\ Through(n, clocks, k) \in Matrices(n)
           /\ \A i, j \in 1 .. n : Through(n, clocks, k)[<<i, j>>] =
                 LET other == Sum(clocks[<<i, k>>], clocks[<<k, j>>])
                 IN  IF clocks[<<i, j>>] > other THEN other ELSE clocks[<<i, j>>]
  <1> DEFINE Shorter(x) == LET other == Sum(clocks[<<x[1], k>>], clocks[<<k, x[2]>>])
                           IN  IF clocks[x] > other THEN other ELSE clocks[x]
             result == [x \in Indices(n) |-> Shorter(x)]
  <1>1. Through(n, clocks, k) = CHOOSE y \in {result} : y = y
    BY DEF Through, With
  <1>2. Through(n, clocks, k) = result
    <2> HIDE DEF result
    <2> QED
      BY <1>1
  <1>3. ASSUME NEW i \in 1 .. n, NEW j \in 1 .. n
        PROVE  /\ <<i, j>> \in Indices(n) /\ clocks[<<i, j>>] \in Int
               /\ Sum(clocks[<<i, k>>], clocks[<<k, j>>]) \in Int
               /\ Shorter(<<i, j>>) \in Int
    BY DEF Indices, Matrices, Sum, INFIN
  <1>4. \A x \in Indices(n) : Shorter(x) \in Int
    BY <1>3 DEF Indices
  <1>5. result \in Matrices(n)
    BY <1>4 DEF Matrices
  <1> QED
    BY <1>2, <1>3, <1>5

LEMMA ThroughFits ==
    ASSUME NEW n \in Nat, NEW clocks \in Matrices(n), NEW k \in 1 .. n,
           NEW t \in Times(n), Fits(n, clocks, t)
    PROVE  Fits(n, Through(n, clocks, k), t)
  <1> SUFFICES ASSUME NEW i \in 1 .. n, NEW j \in 1 .. n
               PROVE  t[i] - t[j] <= Through(n, clocks, k)[<<i, j>>]
    BY DEF Fits
  <1>1. /\ t[i] \in Int /\ t[j] \in Int /\ t[k] \in Int
        /\ t[i] - t[j] <= INFIN
        /\ t[i] - t[k] <= clocks[<<i, k>>] /\ t[k] - t[j] <= clocks[<<k, j>>]
        /\ t[i] - t[j] <= clocks[<<i, j>>]
    BY DEF Times, Fits
  <1>2. clocks[<<i, k>>] \in Int /\ clocks[<<k, j>>] \in Int /\ clocks[<<i, j>>] \in Int
    BY DEF Matrices, Indices
  <1>3. t[i] - t[j] <= Sum(clocks[<<i, k>>], clocks[<<k, j>>])
    BY <1>1, <1>2 DEF Sum, INFIN
  <1> QED
    BY <1>1, <1>3, ThroughIs

(* The phases of Floyd's algorithm, one after the other.                   *)
LEMMA PhasesOfRecanocalize ==
    ASSUME NEW n \in Nat, NEW clocks \in Matrices(n)
    PROVE  \E phase : /\ Recanocalize(n, clocks) = phase[n]
                      /\ phase[0] = clocks
                      /\ \A k \in 1 .. n : phase[k] = Through(n, phase[k - 1], k)
  <1> DEFINE M == Matrices(n)
             Is(f) == f = [k \in 0 .. n |-> IF k = 0 THEN clocks ELSE Through(n, f[k - 1], k)]
  <1>1. PICK D : D = 0 .. n
    OBVIOUS
  <1>2. PICK G : G = [k \in D |-> [c \in M |-> IF k = 0 THEN c ELSE Through(n, c, k)]]
    OBVIOUS
  <1>3. \A k \in D \ {0} : k \in 1 .. n /\ k - 1 \in D
    BY <1>1
  <1>4. \A k \in D : \A c \in M : G[k][c] \in M
    BY <1>2, <1>3, ThroughIs
  <1>5. PICK f : IsHistory(M, clocks, 0, D, G, f)
    <2>1. IsLoop(M, clocks, 0, n, D, G)
      BY <1>1, <1>4 DEF IsLoop
    <2> QED
      BY <2>1, HistoryExists
  <1>6. ASSUME NEW k \in D \ {0} PROVE f[k] = Through(n, f[k - 1], k)
    <2>1. f[k - 1] \in M
      BY <1>3, <1>5 DEF IsHistory
    <2>2. G[k][f[k - 1]] = Through(n, f[k - 1], k)
      BY <1>2, <2>1
    <2> QED
      BY <1>5, <2>2 DEF IsHistory
  <1>7. Is(f)
    BY <1>1, <1>5, <1>6 DEF IsHistory
  <1> DEFINE phase == CHOOSE g : Is(g)
  <1>8. Is(phase)
    <2> HIDE DEF Is
    <2> QED
      BY <1>7
  <1>9. Recanocalize(n, clocks) = phase[n]
    BY DEF Recanocalize
  <1> HIDE DEF phase
  <1>10. phase[0] = clocks /\ \A k \in 1 .. n : phase[k] = Through(n, phase[k - 1], k)
    BY <1>8
  <1> QED
    BY <1>9, <1>10

(* Tightening a matrix loses no times.                                     *)
LEMMA RecanocalizeFits ==
    ASSUME NEW n \in Nat, NEW clocks \in Matrices(n)
    PROVE  /\ Recanocalize(n, clocks) \in Matrices(n)
           /\ \A t \in Times(n) : Fits(n, clocks, t) => Fits(n, Recanocalize(n, clocks), t)
  <1> PICK phase : /\ Recanocalize(n, clocks) = phase[n]
                   /\ phase[0] = clocks
                   /\ \A k \in 1 .. n : phase[k] = Through(n, phase[k - 1], k)
    BY PhasesOfRecanocalize
  <1> DEFINE Good(c) == /\ c \in Matrices(n)
                        /\ \A t \in Times(n) : Fits(n, clocks, t) => Fits(n, c, t)
             T == {k \in 0 .. n : Good(phase[k])}
  <1>1. 0 \in T
    OBVIOUS
  <1>2. ASSUME NEW k \in 1 .. n, k - 1 \in T PROVE k \in T
    <2>1. Good(phase[k - 1])
      BY <1>2
    <2>2. Good(Through(n, phase[k - 1], k))
      BY <2>1, ThroughIs, ThroughFits
    <2> HIDE DEF Good
    <2> QED
      BY <2>2
  <1>3. n \in T
    <2> HIDE DEF T
    <2>1. 0 .. n \subseteq T
      BY <1>1, <1>2, BoundedInduction
    <2> QED
      BY <2>1
  <1> QED
    BY <1>3

-----------------------------------------------------------------------------
(* Sorted lists the members of a finite set in increasing order.           *)
LEMMA SortedIs ==
    ASSUME NEW S, S \subseteq Nat, IsFiniteSet(S)
    PROVE  /\ Cardinality(S) \in Nat
           /\ Sorted(S) \in [1 .. Cardinality(S) -> S]
           /\ \A l, m \in 1 .. Cardinality(S) : l < m => Sorted(S)[l] < Sorted(S)[m]
           /\ \A x \in S : \E l \in 1 .. Cardinality(S) : Sorted(S)[l] = x
  <1> DEFINE Below(x) == {y \in S : y < x}
             Rank(x)  == Cardinality(Below(x))
             n        == Cardinality(S)
  <1>1. n \in Nat
    BY FS_CardinalityType
  <1>2. ASSUME NEW x \in S
        PROVE  IsFiniteSet(Below(x)) /\ Rank(x) \in 0 .. (n - 1)
    <2>1. Below(x) \in SUBSET S /\ x \in S \ Below(x)
      OBVIOUS
    <2>2. IsFiniteSet(Below(x)) /\ Rank(x) <= n /\ (Rank(x) = n => Below(x) = S)
      <3> HIDE DEF Below
      <3> QED
        BY <2>1, FS_Subset
    <2>3. Rank(x) \in Nat
      BY <2>2, FS_CardinalityType
    <2> QED
      BY <1>1, <2>1, <2>2, <2>3
  <1>3. ASSUME NEW x \in S, NEW z \in S, x < z PROVE Rank(x) < Rank(z)
    <2>0. x \in Nat /\ z \in Nat /\ \A y \in S : y \in Nat
      OBVIOUS
    <2>1. Below(x) \in SUBSET Below(z) /\ x \in Below(z) \ Below(x)
      <3>1. x \in Below(z) /\ x \notin Below(x)
        BY <1>3, <2>0
      <3>2. ASSUME NEW y \in Below(x) PROVE y \in Below(z)
        <4>1. y \in S /\ y \in Nat /\ y < x
          OBVIOUS
        <4> QED
          BY <1>3, <2>0, <4>1
      <3> HIDE DEF Below
      <3> QED
        BY <3>1, <3>2
    <2>2. /\ IsFiniteSet(Below(z))
          /\ Rank(x) <= Rank(z) /\ (Rank(x) = Rank(z) => Below(x) = Below(z))
      <3> HIDE DEF Below
      <3> QED
        BY <1>2, <2>1, FS_Subset
    <2> QED
      BY <1>2, <2>1, <2>2
  <1>4. ASSUME NEW l \in 0 .. (n - 1) PROVE \E x \in S : Rank(x) = l
    <2> DEFINE T == {k \in Nat : k < n => \E x \in S : Rank(x) = k}
    <2>1. 0 \in T
      <3> SUFFICES ASSUME 0 < n PROVE \E x \in S : Rank(x) = 0
        OBVIOUS
      <3>1. S # {}
        BY FS_EmptySet
      <3>2. PICK x \in S : \A y \in S : x <= y
        BY <3>1, SmallestOf
      <3>3. Below(x) = {}
        <4>1. \A y \in S : ~(y < x)
          BY <3>2
        <4> QED
          BY <4>1
      <3> QED
        BY <3>3, FS_EmptySet
    <2>2. ASSUME NEW k \in Nat, k \in T PROVE k + 1 \in T
      <3> SUFFICES ASSUME k + 1 < n PROVE \E x \in S : Rank(x) = k + 1
        OBVIOUS
      <3>1. PICK x \in S : Rank(x) = k
        BY <1>1, <2>2
      <3> DEFINE Upto == Below(x) \cup {x}
      <3>2. IsFiniteSet(Upto) /\ Cardinality(Upto) = k + 1
        <4>1. x \notin Below(x)
          OBVIOUS
        <4> HIDE DEF Below
        <4> QED
          BY <3>1, <4>1, <1>2, FS_AddElement
      <3>3. S \ Upto # {}
        <4>1. Cardinality(Upto) # Cardinality(S)
          BY <3>2
        <4>2. Upto \subseteq S
          OBVIOUS
        <4> HIDE DEF Upto
        <4>3. Upto # S
          BY <4>1
        <4> QED
          BY <4>2, <4>3
      <3>4. S \ Upto \subseteq Nat
        OBVIOUS
      <3>5. PICK z \in S \ Upto : \A y \in S \ Upto : z <= y
        <4> HIDE DEF Upto
        <4> QED
          BY <3>3, <3>4, SmallestOf
      <3>6. Below(z) = Upto
        <4>1. z > x
          BY <3>5
        <4>2. ASSUME NEW y \in S PROVE y < z <=> y \in Upto
          BY <4>1, <3>5
        <4> QED
          BY <4>1, <4>2
      <3> QED
        BY <3>2, <3>5, <3>6
    <2>3. Nat \subseteq T
      <3> HIDE DEF T
      <3> QED
        BY <2>1, <2>2, SetInduction
    <2> QED
      BY <1>1, <2>3
  <1>5. ASSUME NEW l \in 1 .. n PROVE Sorted(S)[l] \in S /\ Rank(Sorted(S)[l]) = l - 1
    <2>1. Sorted(S)[l] = CHOOSE x \in S : Rank(x) = l - 1
      BY DEF Sorted
    <2>2. l - 1 \in 0 .. (n - 1)
      BY <1>1
    <2> HIDE DEF Rank
    <2> QED
      BY <1>4, <2>1, <2>2
  <1>6. ASSUME NEW x \in S, NEW z \in S, Rank(x) <= Rank(z) PROVE x <= z
    <2>1. x \in Nat /\ z \in Nat /\ Rank(x) \in Nat /\ Rank(z) \in Nat
      BY <1>2
    <2>2. ~(z < x)
      <3> HIDE DEF Rank
      <3> QED
        BY <1>3, <1>6, <2>1
    <2> QED
      BY <2>1, <2>2
  <1>7. Sorted(S) \in [1 .. n -> S]
    <2> DEFINE Nth(l) == CHOOSE x \in S : Rank(x) = l - 1
    <2>0. Sorted(S) = [l \in 1 .. n |-> Nth(l)]
      BY DEF Sorted
    <2> HIDE DEF Nth, n
    <2>1. Sorted(S) = [l \in 1 .. n |-> Sorted(S)[l]]
      BY <2>0
    <2> QED
      BY <1>5, <2>1
  <1>8. ASSUME NEW l \in 1 .. n, NEW m \in 1 .. n, l < m
        PROVE  Sorted(S)[l] < Sorted(S)[m]
    <2> DEFINE x == Sorted(S)[l]
               z == Sorted(S)[m]
    <2>1. x \in S /\ z \in S /\ Rank(x) = l - 1 /\ Rank(z) = m - 1
      BY <1>5
    <2>2. x # z
      BY <2>1, <1>8, <1>1
    <2> HIDE DEF x, z, Rank
    <2>3. x <= z
      BY <2>1, <1>6, <1>8, <1>1
    <2>4. x < z
      BY <2>1, <2>2, <2>3
    <2> QED
      BY <2>4 DEF x, z
  <1>9. ASSUME NEW x \in S PROVE \E l \in 1 .. n : Sorted(S)[l] = x
    <2> DEFINE l == Rank(x) + 1
    <2>0. Rank(x) \in 0 .. (n - 1)
      BY <1>2
    <2>1. l \in 1 .. n /\ l - 1 = Rank(x)
      <3> HIDE DEF Rank
      <3> QED
        BY <1>1, <2>0
    <2> HIDE DEF l
    <2>2. Sorted(S)[l] \in S /\ Rank(Sorted(S)[l]) = Rank(x)
      BY <1>5, <2>1
    <2> HIDE DEF Rank
    <2>3. Rank(Sorted(S)[l]) <= Rank(x) /\ Rank(x) <= Rank(Sorted(S)[l])
      BY <2>0, <2>2, <1>1
    <2>4. Sorted(S)[l] <= x /\ x <= Sorted(S)[l]
      BY <1>6, <2>2, <2>3
    <2>5. Sorted(S)[l] \in Nat /\ x \in Nat
      BY <2>2
    <2> QED
      BY <2>1, <2>4, <2>5
  <1> HIDE DEF n
  <1> QED
    BY <1>1, <1>7, <1>8, <1>9 DEF n

-----------------------------------------------------------------------------
(* What the history of a run says of the keys of its zone.  The constants  *)
(* are a net, a marking, keys and the time since the firing of each, the   *)
(* time that each rule has held, and the time since the start.             *)

(* A firing of f makes a rule r hold that did not: it marks the rule, or   *)
(* changes a signal of its level.                                          *)
Reads(N, r, s) == \E p \in N.level[r] : p[s] # "X"
Wakes(N, state, f, r) ==
    \/ r \in FanOut(N, f)
    \/ N.signal[f] >= 0 /\ state[N.signal[f]] # "X" /\ Reads(N, r, N.signal[f])

Since(N, held, e) == Min({held[r] : r \in OfEvent(N, e)})

Past(N, m, keys, past, held, now) ==
    /\ keys \in Seq(Event(N)) /\ past \in [DOMAIN keys -> Nat]
    /\ held \in [Markable(N) -> Nat] /\ now \in Nat
    /\ \A i, j \in DOMAIN keys : i < j => past[j] <= past[i]
    /\ \A i \in DOMAIN keys :
          /\ past[i] <= now
          /\ N.signal[keys[i]] >= 0 /\ m.state[N.signal[keys[i]]] = "X" => past[i] = now
    /\ \A r \in Markable(N) : held[r] <= now
    /\ \A i \in DOMAIN keys, r \in Markable(N) :
          Wakes(N, m.state, keys[i], r) => held[r] <= past[i]

(* What made an enabled event enabled is among the keys, unless it has     *)
(* been enabled from the start.                                            *)
Explained(N, m, keys, past, held, now) ==
    \A e \in m.enablings :
        \/ Since(N, held, e) = now
        \/ \E i \in DOMAIN keys, r \in OfEvent(N, e) :
              Wakes(N, m.state, keys[i], r) /\ past[i] = Since(N, held, e)

-----------------------------------------------------------------------------
(* Smallest and largest numbers.                                           *)
LEMMA MinIs ==
    ASSUME NEW T, T \subseteq Nat, T # {}
    PROVE  Min(T) \in T /\ \A y \in T : Min(T) <= y
  <1>1. \E x \in T : \A y \in T : x <= y
    BY SmallestOf
  <1> QED
    BY <1>1, Zenon DEF Min

LEMMA MaxIs ==
    ASSUME NEW n \in Nat, NEW T, T \subseteq 1 .. n, T # {}
    PROVE  Max(T) \in T /\ \A y \in T : Max(T) >= y
  <1> DEFINE U == {k \in Nat : n - k \in T}
  <1>1. U # {}
    <2> PICK x \in T : TRUE
      OBVIOUS
    <2>1. n - x \in Nat /\ n - (n - x) = x
      OBVIOUS
    <2> QED
      BY <2>1
  <1>2. PICK k \in U : \A l \in U : k <= l
    <2> HIDE DEF U
    <2>1. U \subseteq Nat
      BY DEF U
    <2> QED
      BY <1>1, <2>1, SmallestOf
  <1>3. n - k \in T
    OBVIOUS
  <1>4. ASSUME NEW y \in T PROVE n - k >= y
    <2>1. n - y \in Nat /\ n - (n - y) = y /\ y \in Nat
      OBVIOUS
    <2>2. k <= n - y
      BY <1>2, <2>1
    <2> QED
      BY <2>1, <2>2
  <1>5. \E x \in T : \A y \in T : x >= y
    BY <1>3, <1>4
  <1> QED
    BY <1>5, Zenon DEF Max

-----------------------------------------------------------------------------
(* Rules.  In a simple net, a path from f to e is a rule to e that a       *)
(* firing of f marks.                                                      *)
LEMMA RuleIsPair ==
    ASSUME NEW N, LoadedNet(N), NEW r \in Markable(N)
    PROVE  r = <<r[1], r[2]>> /\ r[1] \in Nat /\ r[2] \in Event(N) /\ r \in N.rules
  BY SMTT(20) DEF LoadedNet, NetShape, Markable, Event, Place

LEMMA PathIs ==
    ASSUME NEW N, LoadedNet(N), Simple(N), NEW f \in Event(N), NEW e \in Event(N)
    PROVE  /\ Path(N, f, e) \subseteq OfEvent(N, e)
           /\ Path(N, f, e) # {} <=> \E r \in OfEvent(N, e) : r \in FanOut(N, f)
  <1>1. Causal(N) = N.rules
    BY DEF Causal, Simple
  <1>2. ASSUME NEW r \in Direct(N, f, e) \cup Places(N, f, e)
        PROVE  r \in OfEvent(N, e) /\ r \in FanOut(N, f)
    BY <1>1 DEF Direct, Places, OfEvent, FanOut, Markable
  <1>3. ASSUME NEW r \in OfEvent(N, e), r \in FanOut(N, f)
        PROVE  r \in Direct(N, f, e) \cup Places(N, f, e)
    <2>1. r \in Markable(N) /\ r[2] = e /\ r = <<r[1], r[2]>> /\ r \in N.rules
      BY RuleIsPair DEF OfEvent
    <2>2. r[1] = f \/ (r[1] \in Place(N) /\ <<f, r[1]>> \in N.rules)
      BY <1>3 DEF FanOut
    <2> QED
      BY <1>1, <2>1, <2>2 DEF Direct, Places
  <1> QED
    BY <1>2, <1>3 DEF Path

(* Undoing the changes of signals: signals without a change stay, one with *)
(* a single change takes the other value.                                  *)
LEMMA UndoneIs ==
    ASSUME NEW N, NEW keys \in Seq(Event(N)), NEW state \in [Signal(N) -> Codes],
           NEW j \in DOMAIN keys, NEW s \in Signal(N)
    PROVE  /\ (\A k \in j .. Len(keys) : N.signal[keys[k]] # s)
                  => Undone(N, keys, state, j)[s] = state[s]
           /\ (/\ N.signal[keys[j]] = s
               /\ \A k \in (j + 1) .. Len(keys) : N.signal[keys[k]] # s)
                  => Undone(N, keys, state, j)[s] = IF state[s] \in {"1", "F"} THEN "0" ELSE "1"
  <1> DEFINE changes == {k \in j .. Len(keys) : N.signal[keys[k]] = s}
  <1>1. j \in Nat /\ Len(keys) \in Nat /\ j <= Len(keys)
    OBVIOUS
  <1>2. Undone(N, keys, state, j)[s] =
            IF Cardinality(changes) = 0 THEN state[s]
            ELSE IF (state[s] \in {"1", "F"}) # (Cardinality(changes) % 2 = 1)
                 THEN "1" ELSE "0"
    BY DEF Undone
  <1>3. CASE \A k \in j .. Len(keys) : N.signal[keys[k]] # s
    <2>1. changes = {}
      BY <1>3
    <2>2. Cardinality(changes) = 0
      BY <2>1, FS_EmptySet
    <2>3. Undone(N, keys, state, j)[s] = state[s]
      BY <1>2, <2>2
    <2>4. j \in j .. Len(keys)
      BY <1>1
    <2> QED
      BY <1>3, <2>3, <2>4
  <1>4. CASE /\ N.signal[keys[j]] = s
             /\ \A k \in (j + 1) .. Len(keys) : N.signal[keys[k]] # s
    <2>1. changes = {j}
      BY <1>1, <1>4
    <2>2. Cardinality(changes) = 1
      BY <2>1, FS_Singleton
    <2>3. Undone(N, keys, state, j)[s] = IF state[s] \in {"1", "F"} THEN "0" ELSE "1"
      <3> HIDE DEF changes
      <3> QED
        BY <1>2, <2>2
    <2>4. j \in j .. Len(keys)
      BY <1>1
    <2> QED
      BY <1>4, <2>3, <2>4
  <1> QED
    BY <1>3, <1>4

(* The level of a rule to an enabled event that no longer holds at a key   *)
(* reads a signal that this key or a later one changed.                    *)
LEMMA UnsatisfiedReads ==
    ASSUME NEW N, LoadedNet(N), NEW keys \in Seq(Event(N)),
           NEW state \in [Signal(N) -> Codes], NEW e \in Event(N),
           \A r \in OfEvent(N, e) : LevelSatisfied(N, r, state),
           NEW j \in DOMAIN keys, Unsatisfied(N, keys, state, e, j) # {}
    PROVE  \E k \in j .. Len(keys) : \E r \in OfEvent(N, e) :
              N.signal[keys[k]] >= 0 /\ Reads(N, r, N.signal[keys[k]])
  <1> DEFINE undone == Undone(N, keys, state, j)
  <1>1. PICK r \in OfEvent(N, e) : ~LevelSatisfied(N, r, undone)
    BY DEF Unsatisfied
  <1>2. PICK p \in N.level[r] : \A s \in Signal(N) :
            /\ p[s] = "1" => state[s] \notin {"0", "R"}
            /\ p[s] = "0" => state[s] \notin {"1", "F"}
    BY DEF LevelSatisfied
  <1>3. PICK s \in Signal(N) : ~ /\ p[s] = "1" => undone[s] \notin {"0", "R"}
                                 /\ p[s] = "0" => undone[s] \notin {"1", "F"}
    BY <1>1 DEF LevelSatisfied
  <1>4. undone[s] # state[s] /\ p[s] # "X"
    <2> HIDE DEF undone
    <2> QED
      BY <1>2, <1>3
  <1>5. PICK k \in j .. Len(keys) : N.signal[keys[k]] = s
    BY <1>4, UndoneIs
  <1>6. s >= 0
    BY DEF Signal
  <1> QED
    BY <1>4, <1>5, <1>6 DEF Reads

(* Conversely, the last change of a signal that the level reads is needed. *)
LEMMA UnsatisfiedAt ==
    ASSUME NEW N, LoadedNet(N), Simple(N), NEW keys \in Seq(Event(N)),
           NEW state \in [Signal(N) -> Codes], NEW e \in Event(N),
           NEW r \in OfEvent(N, e), LevelSatisfied(N, r, state),
           NEW j \in DOMAIN keys, N.signal[keys[j]] >= 0,
           state[N.signal[keys[j]]] # "X", Reads(N, r, N.signal[keys[j]]),
           \A k \in (j + 1) .. Len(keys) : N.signal[keys[k]] # N.signal[keys[j]]
    PROVE  r \in Unsatisfied(N, keys, state, e, j)
  <1> DEFINE undone == Undone(N, keys, state, j)
             s      == N.signal[keys[j]]
  <1>1. s \in Signal(N) /\ state[s] \in Codes
    <2>1. N.signal[keys[j]] \in -1 .. (N.nsignals - 1) /\ N.nsignals \in Nat
      BY DEF LoadedNet, NetShape
    <2> QED
      BY <2>1 DEF Signal
  <1>2. PICK p \in N.level[r] : p[s] # "X"
    BY DEF Reads
  <1>3. r \in Markable(N) /\ r[2] = e /\ N.level[r] \in SUBSET [Signal(N) -> Values]
    BY DEF LoadedNet, NetShape, OfEvent
  <1>4. \A q \in N.level[r] : q = p
    BY <1>3 DEF Simple
  <1>5. p[s] \in Values
    BY <1>1, <1>3
  <1>6. /\ p[s] = "1" => state[s] \notin {"0", "R"}
        /\ p[s] = "0" => state[s] \notin {"1", "F"}
    BY <1>1, <1>4 DEF LevelSatisfied
  <1>7. undone[s] = IF state[s] \in {"1", "F"} THEN "0" ELSE "1"
    <2>1. \A k \in (j + 1) .. Len(keys) : N.signal[keys[k]] # s
      OBVIOUS
    <2>2. N.signal[keys[j]] = s
      OBVIOUS
    <2> HIDE DEF s
    <2> QED
      BY <1>1, <2>1, <2>2, UndoneIs
  <1>8. ~ (/\ p[s] = "1" => undone[s] \notin {"0", "R"}
           /\ p[s] = "0" => undone[s] \notin {"1", "F"})
    <2> HIDE DEF undone, s
    <2>1. state[s] # "X"
      BY DEF s
    <2> QED
      BY <1>1, <1>2, <1>5, <1>6, <1>7, <2>1 DEF Codes, Values
  <1>9. ~LevelSatisfied(N, r, undone)
    BY <1>1, <1>4, <1>8 DEF LevelSatisfied
  <1>10. ~(N.signal[keys[j]] < 0)
    BY <1>1 DEF Signal
  <1> QED
    BY <1>9, <1>10 DEF Unsatisfied

-----------------------------------------------------------------------------
(* Causes                                                                  *)

(* The cause is the latest key with a path to e or without which a level   *)
(* of e does not hold.                                                     *)
LEMMA CauseIs ==
    ASSUME NEW N, NEW keys \in Seq(Event(N)), NEW state, NEW e
    PROVE  LET j == Cause(N, keys, state, e)
               causes == {i \in DOMAIN keys : \/ Path(N, keys[i], e) # {}
                                              \/ Unsatisfied(N, keys, state, e, i) # {}}
           IN  /\ j = 0 <=> causes = {}
               /\ j # 0 => j \in causes /\ \A i \in causes : i <= j
  <1> DEFINE causes == {i \in DOMAIN keys : \/ Path(N, keys[i], e) # {}
                                            \/ Unsatisfied(N, keys, state, e, i) # {}}
  <1>1. Cause(N, keys, state, e) = IF causes = {} THEN 0 ELSE Max(causes)
    BY DEF Cause
  <1>2. causes \subseteq 1 .. Len(keys) /\ Len(keys) \in Nat
    OBVIOUS
  <1>3. causes # {} => /\ Max(causes) \in causes /\ Max(causes) # 0
                       /\ \A i \in causes : i <= Max(causes)
    <2> HIDE DEF causes
    <2>1. causes # {} => Max(causes) \in causes /\ \A i \in causes : Max(causes) >= i
      BY <1>2, MaxIs
    <2> QED
      BY <1>2, <2>1
  <1> HIDE DEF causes
  <1> QED
    BY <1>1, <1>3 DEF causes

(* The rules to an enabled event are marked and their levels hold.         *)
LEMMA EnabledRules ==
    ASSUME NEW N, LoadedNet(N), Simple(N), NEW m \in Marking(N),
           m.enablings = EventsEnabled(N, m.marking, m.state), NEW e \in m.enablings
    PROVE  /\ e \in Event(N) /\ OfEvent(N, e) # {}
           /\ \A r \in OfEvent(N, e) :
                 r \in Markable(N) /\ r \in m.marking /\ LevelSatisfied(N, r, m.state)
  <1>1. e \in Event(N) /\ e \notin N.dropped
    BY DEF EventsEnabled
  <1>2. OfEvent(N, e) # {}
    BY <1>1 DEF Simple
  <1>3. ASSUME NEW r \in OfEvent(N, e)
        PROVE  r \in Markable(N) /\ r \in m.marking /\ LevelSatisfied(N, r, m.state)
    <2>1. r \in Markable(N) /\ r[2] = e
      BY DEF OfEvent
    <2>2. r \in Markable(N) \ N.constraint
      BY <2>1 DEF Simple
    <2>3. MarkedAndSatisfied(N, m.marking, m.state, r)
      BY <2>1, <2>2 DEF EventsEnabled
    <2> QED
      BY <2>1, <2>3 DEF MarkedAndSatisfied
  <1> QED
    BY <1>1, <1>2, <1>3

(* An event became enabled with the last of its rules.                     *)
LEMMA SinceIs ==
    ASSUME NEW N, NEW held \in [Markable(N) -> Nat], NEW e, OfEvent(N, e) # {}
    PROVE  /\ Since(N, held, e) \in Nat
           /\ \E r \in OfEvent(N, e) : Since(N, held, e) = held[r]
           /\ \A r \in OfEvent(N, e) : Since(N, held, e) <= held[r]
  <1> DEFINE T == {held[r] : r \in OfEvent(N, e)}
  <1>1. T \subseteq Nat /\ T # {}
    BY DEF OfEvent
  <1>2. Min(T) \in T /\ \A y \in T : Min(T) <= y
    <2> HIDE DEF T
    <2> QED
      BY <1>1, MinIs
  <1>3. Since(N, held, e) = Min(T)
    BY DEF Since
  <1> QED
    BY <1>1, <1>2, <1>3

(* The key taken for the cause of an enabled event fired when the event    *)
(* became enabled, and projection keeps it.                                *)
LEMMA CauseRight ==
    ASSUME NEW N, LoadedNet(N), Simple(N), NEW m \in Marking(N),
           m.enablings = EventsEnabled(N, m.marking, m.state),
           NEW keys, NEW past, NEW held, NEW now,
           Past(N, m, keys, past, held, now), Explained(N, m, keys, past, held, now),
           NEW e \in m.enablings
    PROVE  LET j == Cause(N, keys, m.state, e)
           IN  /\ j \in 0 .. Len(keys)
               /\ Since(N, held, e) = IF j = 0 THEN now ELSE past[j]
               /\ Since(N, held, e) # now =>
                     j # 0 /\ \E r \in OfEvent(N, e) : Wakes(N, m.state, keys[j], r)
               /\ j # 0 => IsCausal(N, keys, m, e, j)
  <1> DEFINE j     == Cause(N, keys, m.state, e)
             since == Since(N, held, e)
             W     == {i \in DOMAIN keys :
                          \E r \in OfEvent(N, e) : Wakes(N, m.state, keys[i], r)}
             Causes(i) == Path(N, keys[i], e) # {} \/ Unsatisfied(N, keys, m.state, e, i) # {}
  <1>1. /\ keys \in Seq(Event(N)) /\ past \in [DOMAIN keys -> Nat]
        /\ held \in [Markable(N) -> Nat] /\ now \in Nat
        /\ DOMAIN keys = 1 .. Len(keys) /\ Len(keys) \in Nat
        /\ m.state \in [Signal(N) -> Codes]
    BY DEF Past, Marking
  <1>2. /\ e \in Event(N) /\ OfEvent(N, e) # {}
        /\ \A r \in OfEvent(N, e) :
              r \in Markable(N) /\ r \in m.marking /\ LevelSatisfied(N, r, m.state)
    BY EnabledRules
  <1>3. /\ since \in Nat /\ since <= now
        /\ \A r \in OfEvent(N, e) : since <= held[r]
    BY <1>1, <1>2, SinceIs DEF Past
  <1>4. \A i \in W : since <= past[i]
    <2> SUFFICES ASSUME NEW i \in W PROVE since <= past[i]
      OBVIOUS
    <2>1. PICK r \in OfEvent(N, e) : Wakes(N, m.state, keys[i], r)
      OBVIOUS
    <2>2. r \in Markable(N) /\ i \in DOMAIN keys
      BY <1>2
    <2>3. held[r] <= past[i] /\ since <= held[r]
      BY <1>3, <2>1, <2>2 DEF Past
    <2>4. held[r] \in Nat /\ past[i] \in Nat
      BY <1>1, <2>2
    <2> HIDE DEF since
    <2> QED
      BY <1>3, <2>3, <2>4
  <1>5. \A i, k \in DOMAIN keys : i <= k => past[k] <= past[i] /\ past[i] <= now
    BY <1>1 DEF Past
  <1>6. /\ j = 0 <=> \A i \in DOMAIN keys : ~Causes(i)
        /\ j # 0 => j \in DOMAIN keys /\ Causes(j) /\ \A i \in DOMAIN keys : Causes(i) => i <= j
    BY <1>1, CauseIs
  <1> HIDE DEF j, since
  <1>7. ASSUME W # {}
        PROVE  /\ Max(W) \in W /\ (\A i \in W : i <= Max(W))
               /\ Max(W) \in DOMAIN keys /\ Causes(Max(W)) /\ j # 0 /\ Max(W) <= j
               /\ since # now => past[Max(W)] = since
    <2> DEFINE i == Max(W)
    <2>1. i \in W /\ \A k \in W : k <= i
      <3>1. W \subseteq 1 .. Len(keys)
        BY <1>1
      <3> HIDE DEF W
      <3>2. Max(W) \in W /\ \A k \in W : Max(W) >= k
        BY <1>1, <1>7, <3>1, MaxIs
      <3> QED
        BY <1>1, <3>1, <3>2
    <2> HIDE DEF i
    <2>2. i \in DOMAIN keys
      BY <2>1
    <2>3. PICK r \in OfEvent(N, e) : Wakes(N, m.state, keys[i], r)
      BY <2>1
    <2>4. keys[i] \in Event(N)
      BY <1>1, <2>2
    <2>5. Causes(i)
      <3>1. CASE r \in FanOut(N, keys[i])
        BY <3>1, <1>2, <2>4, PathIs
      <3>2. CASE /\ N.signal[keys[i]] >= 0 /\ m.state[N.signal[keys[i]]] # "X"
                 /\ Reads(N, r, N.signal[keys[i]])
        <4>1. ASSUME NEW k \in (i + 1) .. Len(keys) PROVE N.signal[keys[k]] # N.signal[keys[i]]
          <5>1. k \in DOMAIN keys /\ ~(k <= i)
            BY <1>1, <2>2
          <5>2. k \notin W
            BY <2>1, <5>1
          <5> QED
            BY <3>2, <5>1, <5>2 DEF Wakes
        <4>2. r \in Unsatisfied(N, keys, m.state, e, i)
          BY <1>1, <1>2, <2>2, <3>2, <4>1, UnsatisfiedAt
        <4> QED
          BY <4>2
      <3> QED
        BY <2>3, <3>1, <3>2 DEF Wakes
    <2>6. j # 0 /\ i <= j
      <3> HIDE DEF Causes
      <3> QED
        BY <1>6, <2>2, <2>5
    <2>7. since # now => past[i] = since
      <3> SUFFICES ASSUME since # now PROVE past[i] = since
        OBVIOUS
      <3>1. PICK k \in W : past[k] = since
        BY <1>2 DEF Explained, since
      <3>2. past[i] <= past[k] /\ since <= past[i]
        BY <1>4, <1>5, <2>1, <2>2, <3>1
      <3> QED
        BY <1>1, <1>3, <2>2, <3>1, <3>2
    <2> QED
      BY <2>1, <2>2, <2>5, <2>6, <2>7 DEF i
  <1>8. since # now => W # {}
    BY <1>2 DEF Explained, since
  <1>9. ASSUME NEW i \in DOMAIN keys, Causes(i), \A k \in i .. Len(keys) : k \notin W
        PROVE  past[i] = now
    <2>1. keys[i] \in Event(N) /\ i \in i .. Len(keys)
      BY <1>1
    <2>2. Path(N, keys[i], e) = {}
      <3>1. i \notin W
        BY <1>9, <2>1
      <3>2. \A r \in OfEvent(N, e) : r \notin FanOut(N, keys[i])
        BY <3>1 DEF Wakes
      <3> QED
        BY <1>2, <2>1, <3>2, PathIs
    <2>3. Unsatisfied(N, keys, m.state, e, i) # {}
      BY <1>9, <2>2
    <2>4. PICK k \in i .. Len(keys) : \E r \in OfEvent(N, e) :
              N.signal[keys[k]] >= 0 /\ Reads(N, r, N.signal[keys[k]])
      BY <1>1, <1>2, <2>3, UnsatisfiedReads
    <2>5. k \in DOMAIN keys /\ i <= k
      BY <1>1
    <2>6. m.state[N.signal[keys[k]]] = "X"
      BY <1>9, <2>4, <2>5 DEF Wakes
    <2>7. past[k] = now
      BY <2>4, <2>5, <2>6 DEF Past
    <2>8. past[k] <= past[i] /\ past[i] <= now
      BY <1>5, <2>5
    <2> QED
      BY <1>1, <2>5, <2>7, <2>8
  <1>10. /\ since = IF j = 0 THEN now ELSE past[j]
         /\ since # now => j # 0 /\ j \in W
    <2>1. CASE W = {}
      <3>1. since = now
        BY <1>8, <2>1
      <3>2. j # 0 => past[j] = now
        <4> HIDE DEF Causes
        <4> QED
          BY <1>6, <1>9, <2>1
      <3> QED
        BY <3>1, <3>2
    <2>2. CASE W # {}
      <3>1. /\ Max(W) \in W /\ (\A i \in W : i <= Max(W)) /\ Max(W) \in DOMAIN keys
            /\ j # 0 /\ Max(W) <= j /\ (since # now => past[Max(W)] = since)
        BY <1>7, <2>2
      <3>2. j \in DOMAIN keys /\ Causes(j)
        BY <1>6, <3>1
      <3>3. since <= past[Max(W)] /\ past[Max(W)] <= now
        BY <1>4, <1>5, <3>1
      <3>4. CASE j = Max(W)
        BY <1>1, <1>3, <3>1, <3>2, <3>3, <3>4, SMTT(20)
      <3>5. CASE j # Max(W)
        <4>1. \A k \in j .. Len(keys) : k \notin W
          <5> SUFFICES ASSUME NEW k \in j .. Len(keys), k \in W PROVE FALSE
            OBVIOUS
          <5>1. k <= Max(W)
            BY <3>1
          <5> HIDE DEF W
          <5> QED
            BY <1>1, <3>1, <3>2, <3>5, <5>1
        <4>2. past[j] = now
          <5> HIDE DEF Causes, W
          <5> QED
            BY <1>9, <3>2, <4>1
        <4>3. past[j] <= past[Max(W)]
          BY <1>5, <3>1, <3>2
        <4>4. past[Max(W)] = now
          BY <1>1, <3>1, <3>3, <4>2, <4>3
        <4> QED
          BY <3>1, <4>2, <4>4
      <3> QED
        BY <3>4, <3>5
    <2> QED
      BY <2>1, <2>2
  <1>11. j # 0 => IsCausal(N, keys, m, e, j)
    <2> SUFFICES ASSUME j # 0 PROVE IsCausal(N, keys, m, e, j)
      OBVIOUS
    <2>1. j \in DOMAIN keys /\ Causes(j)
      BY <1>6
    <2>2. ASSUME NEW k \in (j + 1) .. Len(keys)
          PROVE  Path(N, keys[k], e) = {} /\ Unsatisfied(N, keys, m.state, e, k) = {}
      <3>1. k \in DOMAIN keys /\ ~(k <= j)
        BY <1>1, <2>1
      <3>2. ~Causes(k)
        <4> HIDE DEF Causes
        <4> QED
          BY <1>6, <3>1
      <3> QED
        BY <3>2
    <2>3. \/ (Direct(N, keys[j], e) \cup Places(N, keys[j], e)) \cap m.marking # {}
          \/ Unsatisfied(N, keys, m.state, e, j) \ N.constraint # {}
      <3>1. CASE Path(N, keys[j], e) # {}
        <4>1. keys[j] \in Event(N)
          BY <1>1, <2>1
        <4>2. Path(N, keys[j], e) \subseteq m.marking
          BY <1>2, <4>1, PathIs
        <4>3. Path(N, keys[j], e) \subseteq Direct(N, keys[j], e) \cup Places(N, keys[j], e)
          BY DEF Path
        <4> QED
          BY <3>1, <4>2, <4>3
      <3>2. CASE Unsatisfied(N, keys, m.state, e, j) # {}
        BY <3>2 DEF Simple
      <3> QED
        BY <2>1, <3>1, <3>2
    <2> QED
      BY <2>2, <2>3 DEF IsCausal
  <1>12. j \in 0 .. Len(keys)
    BY <1>1, <1>6
  <1> QED
    BY <1>10, <1>11, <1>12 DEF j, since

-----------------------------------------------------------------------------
(* A firing                                                                *)

(* A firing changes the value of the fired signal and of no other.         *)
LEMMA FiredState ==
    ASSUME NEW N, LoadedNet(N), NEW m \in Marking(N), NEW h \in Event(N),
           h \in m.enablings, ~Fails(N, m, h), InputsAgree(N, m)
    PROVE  LET n == FindNewMarking(N, m, h)
               s == N.signal[h]
           IN  /\ n \in Marking(N)
               /\ n.enablings = EventsEnabled(N, n.marking, n.state)
               /\ n.marking = (m.marking \ FanIn(N, h)) \cup FanOut(N, h)
               /\ \A u \in Signal(N) \ {s} :
                     /\ n.state[u] \in {"0", "R"} <=> m.state[u] \in {"0", "R"}
                     /\ n.state[u] \in {"1", "F"} <=> m.state[u] \in {"1", "F"}
                     /\ n.state[u] = "X" <=> m.state[u] = "X"
               /\ s >= 0 =>
                     /\ s \in Signal(N)
                     /\ m.state[s] \in {"R", "F"}
                     /\ n.state[s] \in {"1", "F"} <=> m.state[s] = "R"
                     /\ n.state[s] \in {"0", "R"} <=> m.state[s] = "F"
                     /\ n.state[s] # "X"
  <1> DEFINE n == FindNewMarking(N, m, h)
             s == N.signal[h]
  <1>1. /\ n \in Marking(N)
        /\ n.enablings = EventsEnabled(N, n.marking, n.state)
        /\ \A u \in Signal(N) : Val(n.state[u]) =
              IF u # s THEN Val(m.state[u]) ELSE IF m.state[u] = "R" THEN "1" ELSE "0"
    BY FiringValues
  <1>2. n.marking = (m.marking \ FanIn(N, h)) \cup FanOut(N, h)
    BY DEF FindNewMarking, UpdateState, FireTransition
  <1>3. /\ n.state \in [Signal(N) -> Codes] /\ m.state \in [Signal(N) -> Codes]
    BY <1>1 DEF Marking
  <1>4. s >= 0 => s \in Signal(N) /\ m.state[s] \in {"R", "F"}
    <2>1. s \in -1 .. (N.nsignals - 1) /\ N.nsignals \in Nat
      BY DEF LoadedNet, NetShape
    <2>2. s >= 0 => m.state[s] \in {"R", "F"}
      BY DEF Fails, VacuousFailure
    <2> QED
      BY <2>1, <2>2 DEF Signal
  <1> HIDE DEF n, s
  <1>5. \A u \in Signal(N) \ {s} : Val(n.state[u]) = Val(m.state[u])
    BY <1>1
  <1>6. \A u \in Signal(N) \ {s} :
            /\ n.state[u] \in {"0", "R"} <=> m.state[u] \in {"0", "R"}
            /\ n.state[u] \in {"1", "F"} <=> m.state[u] \in {"1", "F"}
            /\ n.state[u] = "X" <=> m.state[u] = "X"
    BY <1>3, <1>5 DEF Val, Codes
  <1>7. ASSUME s >= 0
        PROVE  /\ n.state[s] \in {"1", "F"} <=> m.state[s] = "R"
               /\ n.state[s] \in {"0", "R"} <=> m.state[s] = "F"
               /\ n.state[s] # "X"
    <2>1. Val(n.state[s]) = IF m.state[s] = "R" THEN "1" ELSE "0"
      BY <1>1, <1>4, <1>7
    <2> QED
      BY <1>3, <1>4, <1>7, <2>1 DEF Val, Codes
  <1> QED
    BY <1>1, <1>2, <1>4, <1>6, <1>7 DEF n, s

(* Only a level that reads the fired signal changes, and it does change.   *)
LEMMA FiredLevel ==
    ASSUME NEW N, LoadedNet(N), Simple(N), NEW m \in Marking(N), NEW h \in Event(N),
           h \in m.enablings, ~Fails(N, m, h), InputsAgree(N, m), NEW r \in Markable(N)
    PROVE  LET before == LevelSatisfied(N, r, m.state)
               after  == LevelSatisfied(N, r, FindNewMarking(N, m, h).state)
               reads  == N.signal[h] >= 0 /\ Reads(N, r, N.signal[h])
           IN  /\ ~before /\ after => reads
               /\ reads => ~(before /\ after)
  <1> DEFINE n == FindNewMarking(N, m, h)
             s == N.signal[h]
  <1>1. /\ n \in Marking(N)
        /\ \A u \in Signal(N) \ {s} :
              /\ n.state[u] \in {"0", "R"} <=> m.state[u] \in {"0", "R"}
              /\ n.state[u] \in {"1", "F"} <=> m.state[u] \in {"1", "F"}
        /\ s >= 0 =>
              /\ s \in Signal(N) /\ m.state[s] \in {"R", "F"}
              /\ n.state[s] \in {"1", "F"} <=> m.state[s] = "R"
              /\ n.state[s] \in {"0", "R"} <=> m.state[s] = "F"
    BY FiredState
  <1>2. N.level[r] \in SUBSET [Signal(N) -> Values]
    BY DEF LoadedNet, NetShape
  <1> HIDE DEF n, s
  <1>3. ASSUME ~LevelSatisfied(N, r, m.state), LevelSatisfied(N, r, n.state)
        PROVE  s >= 0 /\ Reads(N, r, s)
    <2>1. PICK p \in N.level[r] : \A u \in Signal(N) :
              /\ p[u] = "1" => n.state[u] \notin {"0", "R"}
              /\ p[u] = "0" => n.state[u] \notin {"1", "F"}
      BY <1>3 DEF LevelSatisfied
    <2>2. PICK u \in Signal(N) : ~ /\ p[u] = "1" => m.state[u] \notin {"0", "R"}
                                   /\ p[u] = "0" => m.state[u] \notin {"1", "F"}
      BY <1>3 DEF LevelSatisfied
    <2>3. u = s /\ p[u] # "X"
      BY <1>1, <2>1, <2>2
    <2> QED
      BY <2>3 DEF Reads, Signal
  <1>4. ASSUME s >= 0, Reads(N, r, s), LevelSatisfied(N, r, m.state),
               LevelSatisfied(N, r, n.state)
        PROVE  FALSE
    <2>1. PICK p \in N.level[r] : p[s] # "X"
      BY <1>4 DEF Reads
    <2>2. \A q \in N.level[r] : q = p
      BY DEF Simple
    <2>3. s \in Signal(N) /\ p[s] \in Values
      BY <1>1, <1>2, <1>4
    <2>4. /\ p[s] = "1" => m.state[s] \notin {"0", "R"} /\ n.state[s] \notin {"0", "R"}
          /\ p[s] = "0" => m.state[s] \notin {"1", "F"} /\ n.state[s] \notin {"1", "F"}
      BY <1>4, <2>2, <2>3 DEF LevelSatisfied
    <2> QED
      BY <1>1, <1>4, <2>1, <2>3, <2>4 DEF Values
  <1> QED
    BY <1>3, <1>4 DEF n, s

(* The time each rule has held after h has fired, d after the last firing. *)
HeldAfter(N, m, h, held, d) ==
    LET n == FindNewMarking(N, m, h)
    IN  [r \in Markable(N) |->
            IF \/ r \in FanOut(N, h)
               \/ ~MarkedAndSatisfied(N, m.marking, m.state, r)
               \/ ~MarkedAndSatisfied(N, n.marking, n.state, r)
            THEN 0 ELSE held[r] + d]

PastAfter(past, d) == Append([i \in DOMAIN past |-> past[i] + d], 0)

(* A firing keeps the history right: what it enables has its own key as a  *)
(* cause, and everything else grows older by the same time.                *)
LEMMA FiredPast ==
    ASSUME NEW N, LoadedNet(N), Simple(N), NEW m \in Marking(N), NEW h \in Event(N),
           h \in m.enablings, ~Fails(N, m, h), InputsAgree(N, m), NEW d \in Nat,
           NEW keys, NEW past, NEW held, NEW now, Past(N, m, keys, past, held, now)
    PROVE  Past(N, FindNewMarking(N, m, h), Append(keys, h), PastAfter(past, d),
                HeldAfter(N, m, h, held, d), now + d)
  <1> DEFINE n     == FindNewMarking(N, m, h)
             s     == N.signal[h]
             l     == Len(keys)
             keys2 == Append(keys, h)
             past2 == PastAfter(past, d)
             held2 == HeldAfter(N, m, h, held, d)
  <1>1. /\ keys \in Seq(Event(N)) /\ past \in [DOMAIN keys -> Nat]
        /\ held \in [Markable(N) -> Nat] /\ now \in Nat
        /\ DOMAIN keys = 1 .. l /\ l \in Nat
    BY DEF Past
  <1>2. /\ keys2 \in Seq(Event(N)) /\ DOMAIN keys2 = 1 .. (l + 1)
        /\ \A i \in 1 .. l : keys2[i] = keys[i]
        /\ keys2[l + 1] = h
    BY <1>1
  <1>3. /\ past2 \in [1 .. (l + 1) -> Nat]
        /\ \A i \in 1 .. l : past2[i] = past[i] + d
        /\ past2[l + 1] = 0
    <2> DEFINE older == [i \in DOMAIN past |-> past[i] + d]
    <2>1. older \in [1 .. l -> Nat] /\ \A i \in 1 .. l : older[i] = past[i] + d
      BY <1>1
    <2>2. past2 = Append(older, 0)
      BY DEF PastAfter
    <2> HIDE DEF older, past2
    <2>3. older \in Seq(Nat) /\ Len(older) = l
      BY <1>1, <2>1
    <2>4. past2 \in Seq(Nat) /\ Len(past2) = l + 1 /\ past2[l + 1] = 0
      BY <2>2, <2>3
    <2>5. \A i \in 1 .. l : past2[i] = older[i]
      BY <1>1, <2>2, <2>3
    <2>6. past2 \in [1 .. (l + 1) -> Nat]
      BY <2>4
    <2> QED
      BY <2>1, <2>4, <2>5, <2>6
  <1>4. held2 \in [Markable(N) -> Nat] /\ \A r \in Markable(N) :
            \/ held2[r] = 0
            \/ /\ held2[r] = held[r] + d
               /\ r \notin FanOut(N, h)
               /\ MarkedAndSatisfied(N, m.marking, m.state, r)
               /\ MarkedAndSatisfied(N, n.marking, n.state, r)
    BY <1>1 DEF HeldAfter
  <1>5. /\ n \in Marking(N)
        /\ \A u \in Signal(N) \ {s} : n.state[u] = "X" <=> m.state[u] = "X"
        /\ s >= 0 => s \in Signal(N) /\ m.state[s] # "X" /\ n.state[s] # "X"
    BY FiredState
  <1>6. ASSUME NEW i \in 1 .. (l + 1), NEW k \in 1 .. (l + 1), i < k
        PROVE  past2[k] <= past2[i]
    <2>1. CASE k = l + 1
      BY <1>3, <2>1
    <2>2. CASE k # l + 1
      <3>1. i \in 1 .. l /\ k \in 1 .. l
        <4>1. l \in Nat /\ i < k /\ k # l + 1
          BY <1>1, <1>6, <2>2
        <4> HIDE DEF l
        <4> QED
          BY <4>1
      <3>2. past[k] <= past[i] /\ past[k] \in Nat /\ past[i] \in Nat
        BY <1>1, <1>6, <3>1 DEF Past
      <3> QED
        BY <1>3, <3>1, <3>2
    <2> QED
      BY <2>1, <2>2
  <1>7. ASSUME NEW i \in 1 .. (l + 1)
        PROVE  /\ past2[i] <= now + d
               /\ N.signal[keys2[i]] >= 0 /\ n.state[N.signal[keys2[i]]] = "X"
                     => past2[i] = now + d
    <2>1. CASE i = l + 1
      <3>1. N.signal[keys2[i]] = s /\ past2[i] = 0
        BY <1>2, <1>3, <2>1
      <3>2. past2[i] <= now + d
        BY <1>1, <3>1
      <3>3. ~(N.signal[keys2[i]] >= 0 /\ n.state[N.signal[keys2[i]]] = "X")
        <4> HIDE DEF n, s, past2, keys2
        <4> QED
          BY <1>5, <3>1
      <3> QED
        BY <3>2, <3>3
    <2>2. CASE i # l + 1
      <3>1. i \in 1 .. l
        BY <1>1, <2>2
      <3>2. /\ past[i] <= now /\ past[i] \in Nat
            /\ N.signal[keys[i]] >= 0 /\ m.state[N.signal[keys[i]]] = "X" => past[i] = now
        BY <1>1, <3>1 DEF Past
      <3>3. N.signal[keys[i]] >= 0 => N.signal[keys[i]] \in Signal(N)
        <4>1. keys[i] \in Event(N)
          BY <1>1, <3>1
        <4>2. N.signal[keys[i]] \in -1 .. (N.nsignals - 1) /\ N.nsignals \in Nat
          BY <4>1 DEF LoadedNet, NetShape
        <4> QED
          BY <4>2 DEF Signal
      <3> HIDE DEF n, s
      <3>4. N.signal[keys[i]] >= 0 /\ n.state[N.signal[keys[i]]] = "X" => past[i] = now
        BY <1>5, <3>2, <3>3
      <3>5. past2[i] = past[i] + d /\ keys2[i] = keys[i]
        BY <1>2, <1>3, <3>1
      <3> HIDE DEF past2, keys2
      <3>6. past2[i] <= now + d
        BY <1>1, <3>2, <3>5
      <3>7. N.signal[keys2[i]] >= 0 /\ n.state[N.signal[keys2[i]]] = "X" => past2[i] = now + d
        BY <3>4, <3>5
      <3> QED
        BY <3>6, <3>7
    <2> QED
      BY <2>1, <2>2
  <1>8. ASSUME NEW r \in Markable(N) PROVE held2[r] <= now + d
    <2>1. held[r] <= now /\ held[r] \in Nat /\ now \in Nat /\ d \in Nat
      BY <1>1 DEF Past
    <2>2. held2[r] = 0 \/ held2[r] = held[r] + d
      BY <1>4
    <2> HIDE DEF held2
    <2> QED
      BY <2>1, <2>2
  <1>9. ASSUME NEW i \in 1 .. (l + 1), NEW r \in Markable(N),
               Wakes(N, n.state, keys2[i], r)
        PROVE  held2[r] <= past2[i]
    <2>1. CASE held2[r] = 0
      BY <1>3, <2>1
    <2>2. CASE held2[r] # 0
      <3>1. /\ held2[r] = held[r] + d /\ r \notin FanOut(N, h)
            /\ MarkedAndSatisfied(N, m.marking, m.state, r)
            /\ MarkedAndSatisfied(N, n.marking, n.state, r)
        BY <1>4, <2>2
      <3>2. ~(s >= 0 /\ Reads(N, r, s))
        BY <3>1, FiredLevel DEF MarkedAndSatisfied
      <3>3. i # l + 1
        BY <1>2, <1>9, <3>1, <3>2 DEF Wakes
      <3>4. i \in 1 .. l /\ keys2[i] = keys[i] /\ keys[i] \in Event(N)
        BY <1>1, <1>2, <3>3
      <3>5. Wakes(N, m.state, keys[i], r)
        <4>1. N.signal[keys[i]] >= 0 => N.signal[keys[i]] \in Signal(N)
          <5>1. N.signal[keys[i]] \in -1 .. (N.nsignals - 1) /\ N.nsignals \in Nat
            BY <3>4 DEF LoadedNet, NetShape
          <5> QED
            BY <5>1 DEF Signal
        <4> HIDE DEF n, s
        <4> QED
          BY <1>5, <1>9, <3>4, <4>1 DEF Wakes
      <3>6. held[r] <= past[i] /\ held[r] \in Nat /\ past[i] \in Nat
        BY <1>1, <3>4, <3>5 DEF Past
      <3> QED
        BY <1>3, <3>1, <3>4, <3>6
    <2> QED
      BY <2>1, <2>2
  <1>10. now + d \in Nat
    BY <1>1
  <1> HIDE DEF n, keys2, past2, held2, l
  <1>11. past2 \in [DOMAIN keys2 -> Nat]
    BY <1>2, <1>3
  <1> QED
    BY <1>2, <1>4, <1>6, <1>7, <1>8, <1>9, <1>10, <1>11 DEF Past, n, keys2, past2, held2

LEMMA FiredExplained ==
    ASSUME NEW N, LoadedNet(N), Simple(N), NEW m \in Marking(N), NEW h \in Event(N),
           m.enablings = EventsEnabled(N, m.marking, m.state),
           h \in m.enablings, ~Fails(N, m, h), InputsAgree(N, m), NEW d \in Nat,
           NEW keys, NEW past, NEW held, NEW now,
           Past(N, m, keys, past, held, now), Explained(N, m, keys, past, held, now)
    PROVE  Explained(N, FindNewMarking(N, m, h), Append(keys, h), PastAfter(past, d),
                     HeldAfter(N, m, h, held, d), now + d)
  <1> DEFINE n     == FindNewMarking(N, m, h)
             s     == N.signal[h]
             l     == Len(keys)
             keys2 == Append(keys, h)
             past2 == PastAfter(past, d)
             held2 == HeldAfter(N, m, h, held, d)
  <1>1. /\ keys \in Seq(Event(N)) /\ past \in [DOMAIN keys -> Nat]
        /\ held \in [Markable(N) -> Nat] /\ now \in Nat
        /\ DOMAIN keys = 1 .. l /\ l \in Nat
    BY DEF Past
  <1>2. /\ DOMAIN keys2 = 1 .. (l + 1) /\ keys2[l + 1] = h
        /\ \A i \in 1 .. l : keys2[i] = keys[i]
    BY <1>1
  <1>3. past2[l + 1] = 0 /\ \A i \in 1 .. l : past2[i] = past[i] + d
    <2> DEFINE older == [i \in DOMAIN past |-> past[i] + d]
    <2>1. older \in [1 .. l -> Nat] /\ \A i \in 1 .. l : older[i] = past[i] + d
      BY <1>1
    <2>2. past2 = Append(older, 0)
      BY DEF PastAfter
    <2> HIDE DEF older, past2
    <2>3. older \in Seq(Nat) /\ Len(older) = l
      BY <1>1, <2>1
    <2>4. past2[l + 1] = 0 /\ \A i \in 1 .. l : past2[i] = older[i]
      BY <1>1, <2>2, <2>3
    <2> QED
      BY <2>1, <2>4
  <1>4. /\ n \in Marking(N) /\ n.enablings = EventsEnabled(N, n.marking, n.state)
        /\ n.marking = (m.marking \ FanIn(N, h)) \cup FanOut(N, h)
        /\ \A u \in Signal(N) \ {s} : n.state[u] = "X" <=> m.state[u] = "X"
        /\ s >= 0 => n.state[s] # "X"
    BY FiredState
  <1>5. held2 \in [Markable(N) -> Nat]
    BY <1>1 DEF HeldAfter
  <1> SUFFICES ASSUME NEW f \in n.enablings
               PROVE  \/ Since(N, held2, f) = now + d
                      \/ \E i \in DOMAIN keys2, r \in OfEvent(N, f) :
                            Wakes(N, n.state, keys2[i], r) /\ past2[i] = Since(N, held2, f)
    BY DEF Explained
  <1>6. /\ f \in Event(N) /\ OfEvent(N, f) # {}
        /\ \A r \in OfEvent(N, f) :
              r \in Markable(N) /\ r \in n.marking /\ LevelSatisfied(N, r, n.state)
    <2> HIDE DEF n
    <2> QED
      BY <1>4, EnabledRules
  <1>7. /\ Since(N, held2, f) \in Nat
        /\ \E r \in OfEvent(N, f) : Since(N, held2, f) = held2[r]
        /\ \A r \in OfEvent(N, f) : Since(N, held2, f) <= held2[r]
    <2> HIDE DEF held2
    <2> QED
      BY <1>5, <1>6, SinceIs
  <1> DEFINE New(r) == \/ r \in FanOut(N, h)
                       \/ ~MarkedAndSatisfied(N, m.marking, m.state, r)
  <1>8. CASE \E r \in OfEvent(N, f) : New(r)
    <2>1. PICK r \in OfEvent(N, f) : New(r)
      BY <1>8
    <2>2. r \in Markable(N) /\ r \in n.marking /\ LevelSatisfied(N, r, n.state)
      BY <1>6
    <2>3. held2[r] = 0
      BY <2>1, <2>2 DEF HeldAfter
    <2>4. Since(N, held2, f) = 0
      <3> HIDE DEF held2
      <3>1. Since(N, held2, f) <= held2[r]
        BY <1>7
      <3> QED
        BY <1>7, <2>3, <3>1
    <2>5. Wakes(N, n.state, h, r)
      <3>1. CASE r \in FanOut(N, h)
        BY <3>1 DEF Wakes
      <3>2. CASE r \notin FanOut(N, h)
        <4>1. r \in m.marking
          BY <1>4, <2>2, <3>2
        <4>2. ~LevelSatisfied(N, r, m.state)
          BY <2>1, <3>2, <4>1 DEF MarkedAndSatisfied
        <4>3. s >= 0 /\ Reads(N, r, s)
          BY <2>2, <4>2, FiredLevel
        <4> QED
          BY <1>4, <4>3 DEF Wakes
      <3> QED
        BY <3>1, <3>2
    <2>6. l + 1 \in DOMAIN keys2
      BY <1>1, <1>2
    <2> HIDE DEF keys2, past2, held2, n
    <2> QED
      BY <1>2, <1>3, <2>4, <2>5, <2>6
  <1>9. CASE \A r \in OfEvent(N, f) : ~New(r)
    <2>1. \A r \in OfEvent(N, f) : held2[r] = held[r] + d
      BY <1>6, <1>9 DEF HeldAfter, MarkedAndSatisfied
    <2>2. f \in m.enablings
      <3>1. f \notin N.dropped
        BY <1>4 DEF EventsEnabled
      <3>2. \A r \in Markable(N) : r[2] = f => MarkedAndSatisfied(N, m.marking, m.state, r)
        BY <1>9 DEF OfEvent
      <3> QED
        BY <1>6, <3>1, <3>2 DEF EventsEnabled
    <2>3. /\ Since(N, held, f) \in Nat
          /\ \E r \in OfEvent(N, f) : Since(N, held, f) = held[r]
          /\ \A r \in OfEvent(N, f) : Since(N, held, f) <= held[r]
      BY <1>1, <1>6, SinceIs
    <2>4. Since(N, held2, f) = Since(N, held, f) + d
      <3> DEFINE a == Since(N, held, f)
                 b == Since(N, held2, f)
      <3>1. PICK q \in OfEvent(N, f) : b = held2[q]
        BY <1>7
      <3>2. PICK r \in OfEvent(N, f) : a = held[r]
        BY <2>3
      <3>3. b = held[q] + d /\ b <= held[r] + d
        <4>1. b <= held2[r]
          BY <1>7
        <4> HIDE DEF held2, b
        <4> QED
          BY <2>1, <3>1, <4>1
      <3>4. a <= held[q]
        BY <2>3
      <3>5. held[q] \in Nat /\ held[r] \in Nat
        BY <1>1, <1>6
      <3> HIDE DEF a, b
      <3>6. b = a + d
        BY <3>2, <3>3, <3>4, <3>5
      <3> QED
        BY <3>6 DEF a, b
    <2>5. CASE Since(N, held, f) = now
      BY <2>4, <2>5
    <2>6. CASE \E i \in DOMAIN keys, r \in OfEvent(N, f) :
                  Wakes(N, m.state, keys[i], r) /\ past[i] = Since(N, held, f)
      <3>1. PICK i \in DOMAIN keys, r \in OfEvent(N, f) :
                Wakes(N, m.state, keys[i], r) /\ past[i] = Since(N, held, f)
        BY <2>6
      <3>2. i \in 1 .. l /\ keys[i] \in Event(N) /\ i \in DOMAIN keys2
        BY <1>1, <1>2
      <3>3. N.signal[keys[i]] >= 0 => N.signal[keys[i]] \in Signal(N)
        <4>1. N.signal[keys[i]] \in -1 .. (N.nsignals - 1) /\ N.nsignals \in Nat
          BY <3>2 DEF LoadedNet, NetShape
        <4> QED
          BY <4>1 DEF Signal
      <3> HIDE DEF n, s, keys2, past2, held2
      <3>4. Wakes(N, n.state, keys[i], r)
        BY <1>4, <3>1, <3>3 DEF Wakes
      <3>5. past2[i] = Since(N, held2, f) /\ keys2[i] = keys[i]
        BY <1>2, <1>3, <2>4, <3>1, <3>2
      <3> QED
        BY <3>2, <3>4, <3>5
    <2> QED
      BY <2>2, <2>5, <2>6 DEF Explained
  <1> QED
    BY <1>8, <1>9

(* Projection keeps the keys that are needed to explain the enablings.     *)
LEMMA ProjectedPast ==
    ASSUME NEW N, LoadedNet(N), Simple(N), NEW m \in Marking(N),
           m.enablings = EventsEnabled(N, m.marking, m.state),
           NEW keys, NEW past, NEW held, NEW now,
           Past(N, m, keys, past, held, now), Explained(N, m, keys, past, held, now)
    PROVE  LET order == Sorted(Needed(N, keys, m))
           IN  /\ DOMAIN order = 1 .. Len(order) /\ Len(order) \in Nat
               /\ \A i \in DOMAIN order : order[i] \in DOMAIN keys
               /\ Past(N, m, Select(keys, order), Select(past, order), held, now)
               /\ Explained(N, m, Select(keys, order), Select(past, order), held, now)
  <1> DEFINE S     == Needed(N, keys, m)
             c     == Cardinality(S)
             order == Sorted(S)
             keys2 == Select(keys, order)
             past2 == Select(past, order)
  <1>1. /\ keys \in Seq(Event(N)) /\ past \in [DOMAIN keys -> Nat]
        /\ held \in [Markable(N) -> Nat] /\ now \in Nat
        /\ DOMAIN keys = 1 .. Len(keys) /\ Len(keys) \in Nat
    BY DEF Past
  <1>2. S \subseteq 1 .. Len(keys)
    BY <1>1 DEF Needed
  <1>3. /\ c \in Nat /\ order \in [1 .. c -> S]
        /\ \A i, k \in 1 .. c : i < k => order[i] < order[k]
        /\ \A x \in S : \E i \in 1 .. c : order[i] = x
    <2>1. IsFiniteSet(1 .. Len(keys))
      BY <1>1, FS_Interval
    <2> HIDE DEF S
    <2>2. S \subseteq Nat
      BY <1>2
    <2>3. S \in SUBSET (1 .. Len(keys))
      BY <1>2
    <2>4. IsFiniteSet(S)
      BY <2>1, <2>3, FS_Subset
    <2> QED
      BY <2>2, <2>4, SortedIs
  <1> HIDE DEF S, c, order
  <1>4. /\ DOMAIN order = 1 .. c /\ Len(order) = c
        /\ \A i \in 1 .. c : order[i] \in DOMAIN keys
    <2>1. order \in Seq(S) /\ DOMAIN order = 1 .. c
      BY <1>3
    <2>2. Len(order) = c
      BY <1>3, <2>1
    <2> QED
      BY <1>1, <1>2, <1>3, <2>1, <2>2
  <1>5. /\ keys2 \in Seq(Event(N)) /\ DOMAIN keys2 = 1 .. c
        /\ past2 \in [1 .. c -> Nat]
        /\ \A i \in 1 .. c : keys2[i] = keys[order[i]] /\ past2[i] = past[order[i]]
    <2>1. keys2 = [i \in 1 .. c |-> keys[order[i]]] /\ past2 = [i \in 1 .. c |-> past[order[i]]]
      BY <1>4 DEF Select
    <2>2. \A i \in 1 .. c : keys[order[i]] \in Event(N) /\ past[order[i]] \in Nat
      BY <1>1, <1>4
    <2>3. keys2 \in [1 .. c -> Event(N)]
      BY <2>1, <2>2
    <2> HIDE DEF keys2, past2
    <2>4. keys2 \in Seq(Event(N))
      BY <1>3, <2>3
    <2> QED
      BY <2>1, <2>2, <2>4
  <1> HIDE DEF keys2, past2
  <1>6. Past(N, m, keys2, past2, held, now)
    <2>1. ASSUME NEW i \in 1 .. c, NEW k \in 1 .. c, i < k PROVE past2[k] <= past2[i]
      <3>1. order[i] < order[k] /\ order[i] \in DOMAIN keys /\ order[k] \in DOMAIN keys
        BY <1>3, <1>4, <2>1
      <3>2. past[order[k]] <= past[order[i]]
        BY <3>1 DEF Past
      <3> QED
        BY <1>5, <3>2
    <2>2. ASSUME NEW i \in 1 .. c
          PROVE  /\ past2[i] <= now
                 /\ N.signal[keys2[i]] >= 0 /\ m.state[N.signal[keys2[i]]] = "X" => past2[i] = now
                 /\ \A r \in Markable(N) : Wakes(N, m.state, keys2[i], r) => held[r] <= past2[i]
      <3>1. order[i] \in DOMAIN keys /\ keys2[i] = keys[order[i]] /\ past2[i] = past[order[i]]
        BY <1>4, <1>5
      <3> QED
        BY <3>1 DEF Past
    <2>3. \A r \in Markable(N) : held[r] <= now
      BY DEF Past
    <2> QED
      BY <1>1, <1>5, <2>1, <2>2, <2>3 DEF Past
  <1>7. Explained(N, m, keys2, past2, held, now)
    <2> SUFFICES ASSUME NEW e \in m.enablings, Since(N, held, e) # now
                 PROVE  \E i \in DOMAIN keys2, r \in OfEvent(N, e) :
                           Wakes(N, m.state, keys2[i], r) /\ past2[i] = Since(N, held, e)
      BY DEF Explained
    <2> DEFINE j == Cause(N, keys, m.state, e)
    <2>1. /\ j \in 0 .. Len(keys) /\ Since(N, held, e) = (IF j = 0 THEN now ELSE past[j])
          /\ j # 0 /\ \E r \in OfEvent(N, e) : Wakes(N, m.state, keys[j], r)
          /\ IsCausal(N, keys, m, e, j)
      BY CauseRight
    <2> HIDE DEF j
    <2>2. j \in S
      BY <1>1, <2>1 DEF S, Needed
    <2>3. PICK i \in 1 .. c : order[i] = j
      BY <1>3, <2>2
    <2>4. keys2[i] = keys[j] /\ past2[i] = past[j] /\ i \in DOMAIN keys2
      BY <1>5, <2>3
    <2> QED
      BY <2>1, <2>4
  <1> QED
    BY <1>3, <1>4, <1>6, <1>7 DEF S, order, keys2, past2

-----------------------------------------------------------------------------
(* Bounds of zones                                                         *)

LowerOf(N, e) == CHOOSE b \in {N.lower[r] : r \in OfEvent(N, e)} : TRUE
UpperOf(N, e) == CHOOSE b \in {N.upper[r] : r \in OfEvent(N, e)} : TRUE

HasBounds(N) == /\ LoadedNet(N) /\ Simple(N)
              /\ N.lower \in [Markable(N) -> Nat] /\ N.upper \in [Markable(N) -> Nat]

(* All rules to an event have its bounds.                                  *)
LEMMA BoundsAre ==
    ASSUME NEW N, HasBounds(N), NEW e, NEW r \in OfEvent(N, e)
    PROVE  /\ N.lower[r] = LowerOf(N, e) /\ N.upper[r] = UpperOf(N, e)
           /\ LowerOf(N, e) \in Nat /\ UpperOf(N, e) \in Nat
           /\ LowerOf(N, e) <= UpperOf(N, e) /\ UpperOf(N, e) <= INFIN
  <1>1. PICK q \in OfEvent(N, e) : LowerOf(N, e) = N.lower[q]
    <2>1. LowerOf(N, e) \in {N.lower[s] : s \in OfEvent(N, e)}
      BY DEF LowerOf
    <2> QED
      BY <2>1
  <1>2. PICK p \in OfEvent(N, e) : UpperOf(N, e) = N.upper[p]
    <2>1. UpperOf(N, e) \in {N.upper[s] : s \in OfEvent(N, e)}
      BY DEF UpperOf
    <2> QED
      BY <2>1
  <1>3. \A x \in OfEvent(N, e) : x \in Markable(N) /\ x[2] = e
    BY DEF OfEvent
  <1>4. N.lower[r] = N.lower[q] /\ N.upper[r] = N.upper[p]
    BY <1>3 DEF HasBounds, Simple
  <1>5. /\ N.lower[r] \in Nat /\ N.upper[r] \in Nat
        /\ N.lower[r] <= N.upper[r] /\ N.upper[r] <= INFIN
    BY <1>3 DEF HasBounds, Simple
  <1> QED
    BY <1>1, <1>2, <1>4, <1>5

(* The rules that lpn_find_causal and lpn_extend_zone come to.             *)
LEMMA FirstRule ==
    ASSUME NEW N, LoadedNet(N), NEW rules, rules \subseteq Markable(N), rules # {}
    PROVE  /\ (CHOOSE r \in rules : \A q \in rules : r[1] <= q[1]) \in rules
           /\ (CHOOSE r \in rules : \A q \in rules : q[1] <= r[1]) \in rules
  <1> DEFINE T == {r[1] : r \in rules}
             last == N.nevents + N.nplaces
  <1>1. /\ T \subseteq Nat /\ T \subseteq 1 .. last /\ T # {} /\ last \in Nat
    <2>1. N.nevents \in Nat \ {0} /\ N.nplaces \in Nat
      BY DEF LoadedNet, NetShape
    <2>2. ASSUME NEW r \in rules PROVE r[1] \in 1 .. last
      <3>1. r \in N.rules
        BY DEF Markable
      <3>2. r[1] \in Event(N) \/ r[1] \in Place(N)
        BY <3>1 DEF LoadedNet, NetShape
      <3> QED
        BY <2>1, <3>2 DEF Event, Place
    <2> QED
      BY <2>1, <2>2
  <1>2. \E x \in T : \A y \in T : x <= y
    <2> HIDE DEF T
    <2> QED
      BY <1>1, SmallestOf
  <1>3. \E x \in T : \A y \in T : y <= x
    <2> HIDE DEF T, last
    <2>1. Max(T) \in T /\ \A y \in T : Max(T) >= y
      BY <1>1, MaxIs
    <2>2. \A y \in T : y <= Max(T)
      BY <1>1, <2>1
    <2> QED
      BY <2>1, <2>2
  <1>4. \E r \in rules : \A q \in rules : r[1] <= q[1]
    BY <1>2
  <1>5. \E r \in rules : \A q \in rules : q[1] <= r[1]
    BY <1>3
  <1> QED
    BY <1>4, <1>5

LEMMA LowerBoundIs ==
    ASSUME NEW N, HasBounds(N), NEW f \in Event(N), NEW e \in Event(N), NEW none
    PROVE  LowerBound(N, f, e, none) =
              IF Path(N, f, e) = {} THEN none ELSE -LowerOf(N, e)
  <1> DEFINE r == CHOOSE x \in Path(N, f, e) : \A q \in Path(N, f, e) : q[1] <= x[1]
  <1>1. LowerBound(N, f, e, none) = IF Path(N, f, e) = {} THEN none ELSE -N.lower[r]
    BY DEF LowerBound
  <1>2. Path(N, f, e) # {} => N.lower[r] = LowerOf(N, e)
    <2> SUFFICES ASSUME Path(N, f, e) # {} PROVE N.lower[r] = LowerOf(N, e)
      OBVIOUS
    <2>1. Path(N, f, e) \subseteq OfEvent(N, e)
      BY PathIs DEF HasBounds
    <2>2. Path(N, f, e) \subseteq Markable(N)
      BY <2>1 DEF OfEvent
    <2>3. r \in Path(N, f, e)
      BY <2>2, FirstRule DEF HasBounds
    <2> HIDE DEF r
    <2> QED
      BY <2>1, <2>3, BoundsAre
  <1> HIDE DEF r
  <1> QED
    BY <1>1, <1>2

LEMMA CauseRuleIs ==
    ASSUME NEW N, HasBounds(N), NEW keys \in Seq(Event(N)), NEW state, NEW e \in Event(N),
           NEW j, j = Cause(N, keys, state, e), j # 0
    PROVE  CauseRule(N, keys, state, e, j) \in OfEvent(N, e)
  <1> DEFINE rules == IF Path(N, keys[j], e) # {} THEN Path(N, keys[j], e)
                      ELSE Unsatisfied(N, keys, state, e, j)
  <1>1. /\ j \in DOMAIN keys
        /\ Path(N, keys[j], e) # {} \/ Unsatisfied(N, keys, state, e, j) # {}
    BY CauseIs
  <1>2. keys[j] \in Event(N)
    BY <1>1
  <1>3. rules # {} /\ rules \subseteq OfEvent(N, e)
    <2>1. Path(N, keys[j], e) \subseteq OfEvent(N, e)
      BY <1>2, PathIs DEF HasBounds
    <2>2. Unsatisfied(N, keys, state, e, j) \subseteq OfEvent(N, e)
      BY DEF Unsatisfied
    <2> QED
      BY <1>1, <2>1, <2>2
  <1>4. CauseRule(N, keys, state, e, j)
            = CHOOSE r \in rules : \A q \in rules : r[1] <= q[1]
    BY DEF CauseRule
  <1>5. rules \subseteq Markable(N)
    BY <1>3 DEF OfEvent
  <1> HIDE DEF rules
  <1>6. (CHOOSE r \in rules : \A q \in rules : r[1] <= q[1]) \in rules
    BY <1>3, <1>5, FirstRule DEF HasBounds
  <1> QED
    BY <1>3, <1>4, <1>6

(* The times t of the keys allow e to fire at time x.                      *)
Allowed(N, keys, state, e, first, t, x) ==
    /\ \A i \in DOMAIN keys :
          t[i] <= x /\ (Path(N, keys[i], e) # {} => t[i] + LowerOf(N, e) <= x)
    /\ IF first THEN \A i \in DOMAIN keys : x <= t[i] + UpperOf(N, e)
       ELSE LET j == Cause(N, keys, state, e)
            IN  j # 0 => t[j] + LowerOf(N, e) <= x /\ x <= t[j] + UpperOf(N, e)

(* A bound is set: old becomes new, by an upper bound of the clock i of e  *)
(* over j and perhaps a lower bound.                                       *)
Sets(N, e, n, i, j, old, new) ==
    \A a, b \in 1 .. n :
        /\ a = i /\ b = j => new[<<a, b>>] = UpperOf(N, e)
        /\ a = j /\ b = i => new[<<a, b>>] \in {old[<<a, b>>], -LowerOf(N, e)}
        /\ ~(a = i /\ b = j) /\ ~(a = j /\ b = i) => new[<<a, b>>] = old[<<a, b>>]

LEMMA CausalFits ==
    ASSUME NEW N, HasBounds(N), NEW keys \in Seq(Event(N)), NEW state,
           NEW e \in Event(N), OfEvent(N, e) # {},
           NEW n \in Nat, NEW clocks \in Matrices(n), NEW i \in 1 .. n, Len(keys) < i,
           NEW t \in Times(n), Fits(n, clocks, t),
           Allowed(N, keys, state, e, FALSE, t, t[i])
    PROVE  /\ FindCausal(N, keys, state, e, i, clocks) \in Matrices(n)
           /\ Fits(n, FindCausal(N, keys, state, e, i, clocks), t)
           /\ \E j \in 0 .. (i - 1) :
                 Sets(N, e, n, i, j, clocks, FindCausal(N, keys, state, e, i, clocks))
  <1> DEFINE j == Cause(N, keys, state, e)
             r == CauseRule(N, keys, state, e, j)
             kept  == Direct(N, keys[j], e) # {}
             ij    == <<i, j>>
             ji    == <<j, i>>
             u     == N.upper[r]
             v     == -N.lower[r]
             both  == [clocks EXCEPT ![ij] = u, ![ji] = IF kept THEN @ ELSE v]
  <1>1. FindCausal(N, keys, state, e, i, clocks) = IF j = 0 THEN clocks ELSE both
    BY DEF FindCausal
  <1>2. CASE j = 0
    <2>1. 0 \in 0 .. (i - 1) /\ Sets(N, e, n, i, 0, clocks, clocks)
      BY DEF Sets
    <2> QED
      BY <1>1, <1>2, <2>1
  <1>3. CASE j # 0
    <2>1. j \in 1 .. n /\ j # i
      <3>1. j \in DOMAIN keys
        BY <1>3, CauseIs
      <3> QED
        BY <3>1
    <2>2. r \in OfEvent(N, e)
      BY <1>3, CauseRuleIs
    <2>3. /\ N.lower[r] = LowerOf(N, e) /\ N.upper[r] = UpperOf(N, e)
          /\ LowerOf(N, e) \in Nat /\ UpperOf(N, e) \in Nat
      BY <2>2, BoundsAre
    <2>4. t[j] + LowerOf(N, e) <= t[i] /\ t[i] <= t[j] + UpperOf(N, e)
      BY <1>3 DEF Allowed
    <2> HIDE DEF j, r, kept
    <2>5. t[i] \in Int /\ t[j] \in Int
      BY <2>1 DEF Times
    <2>6. t[i] - t[j] <= N.upper[r] /\ t[j] - t[i] <= -N.lower[r]
      BY <2>3, <2>4, <2>5
    <2>7. <<i, j>> \in Indices(n) /\ <<j, i>> \in Indices(n)
      BY <2>1 DEF Indices
    <2>8. ij # ji /\ ij \in Indices(n) /\ ji \in Indices(n) /\ u \in Int /\ v \in Int
      BY <2>1, <2>3, <2>7
    <2> HIDE DEF ij, ji, u, v
    <2>9. /\ both \in Matrices(n)
          /\ \A x \in Indices(n) : both[x] =
                IF x = ji /\ ~kept THEN v ELSE IF x = ij THEN u ELSE clocks[x]
      BY <2>8 DEF Matrices
    <2> HIDE DEF both
    <2>10. ASSUME NEW a \in 1 .. n, NEW b \in 1 .. n PROVE t[a] - t[b] <= both[<<a, b>>]
      <3>1. <<a, b>> \in Indices(n) /\ t[a] - t[b] <= clocks[<<a, b>>]
        BY DEF Indices, Fits
      <3>2. both[<<a, b>>] = IF <<a, b>> = ji /\ ~kept THEN v
                             ELSE IF <<a, b>> = ij THEN u ELSE clocks[<<a, b>>]
        BY <2>9, <3>1
      <3>3. CASE <<a, b>> = ji
        <4>1. a = j /\ b = i
          BY <3>3 DEF ji
        <4> QED
          BY <2>6, <2>8, <3>1, <3>2, <3>3, <4>1 DEF v
      <3>4. CASE <<a, b>> = ij
        <4>1. a = i /\ b = j
          BY <3>4 DEF ij
        <4> QED
          BY <2>6, <2>8, <3>1, <3>2, <3>4, <4>1 DEF u
      <3>5. CASE <<a, b>> # ij /\ <<a, b>> # ji
        BY <3>1, <3>2, <3>5
      <3> QED
        BY <3>3, <3>4, <3>5
    <2>11. Sets(N, e, n, i, j, clocks, both)
      <3> SUFFICES ASSUME NEW a \in 1 .. n, NEW b \in 1 .. n
                   PROVE  /\ a = i /\ b = j => both[<<a, b>>] = UpperOf(N, e)
                          /\ a = j /\ b = i => both[<<a, b>>] \in {clocks[<<a, b>>], -LowerOf(N, e)}
                          /\ ~(a = i /\ b = j) /\ ~(a = j /\ b = i)
                                => both[<<a, b>>] = clocks[<<a, b>>]
        BY DEF Sets
      <3>1. <<a, b>> \in Indices(n)
        BY DEF Indices
      <3>2. both[<<a, b>>] = IF <<a, b>> = ji /\ ~kept THEN v
                             ELSE IF <<a, b>> = ij THEN u ELSE clocks[<<a, b>>]
        BY <2>9, <3>1
      <3> QED
        BY <2>1, <2>3, <3>2 DEF ij, ji, u, v
    <2>12. j \in 0 .. (i - 1)
      <3>1. j \in DOMAIN keys
        BY <1>3, CauseIs DEF j
      <3> QED
        BY <3>1
    <2> QED
      BY <1>1, <1>3, <2>9, <2>10, <2>11, <2>12 DEF Fits, j
  <1> QED
    BY <1>2, <1>3

LEMMA LargestFits ==
    ASSUME NEW N, HasBounds(N), NEW keys \in Seq(Event(N)), NEW e \in Event(N),
           NEW n \in Nat, NEW clocks \in Matrices(n), NEW i \in 1 .. n, Len(keys) < i,
           NEW t \in Times(n), Fits(n, clocks, t),
           \A k \in DOMAIN keys : t[i] <= t[k] + UpperOf(N, e)
    PROVE  /\ FindLargest(N, keys, e, i, clocks) \in Matrices(n)
           /\ Fits(n, FindLargest(N, keys, e, i, clocks), t)
           /\ \E j \in 0 .. (i - 1) :
                 Sets(N, e, n, i, j, clocks, FindLargest(N, keys, e, i, clocks))
  <1> DEFINE upper(j) == N.upper[<<keys[j], e>>]
             direct == {j \in DOMAIN keys : Direct(N, keys[j], e) # {} /\ upper(j) > 0}
             widest == {j \in direct : \A k \in direct : upper(k) <= upper(j)}
             j      == Min(widest)
             ij     == <<i, j>>
             u      == upper(j)
             result == [clocks EXCEPT ![ij] = u]
  <1>1. FindLargest(N, keys, e, i, clocks) = IF direct = {} THEN clocks ELSE result
    BY DEF FindLargest
  <1>2. CASE direct = {}
    <2>1. 0 \in 0 .. (i - 1) /\ Sets(N, e, n, i, 0, clocks, clocks)
      BY DEF Sets
    <2> QED
      BY <1>1, <1>2, <2>1
  <1>3. CASE direct # {}
    <2>1. ASSUME NEW k \in direct
          PROVE  k \in DOMAIN keys /\ upper(k) = UpperOf(N, e) /\ UpperOf(N, e) \in Nat
      <3>1. k \in DOMAIN keys /\ Direct(N, keys[k], e) # {} /\ keys[k] \in Event(N)
        OBVIOUS
      <3>2. <<keys[k], e>> \in Direct(N, keys[k], e)
        BY <3>1 DEF Direct
      <3>3. Direct(N, keys[k], e) \subseteq OfEvent(N, e)
        BY <3>1, PathIs DEF HasBounds, Path
      <3>4. <<keys[k], e>> \in OfEvent(N, e)
        BY <3>2, <3>3
      <3> QED
        BY <3>1, <3>4, BoundsAre
    <2>2. widest = direct
      <3> HIDE DEF direct, upper
      <3> QED
        BY <2>1
    <2>3. direct \subseteq Nat
      OBVIOUS
    <2>4. j \in direct
      <3> HIDE DEF direct, widest
      <3> QED
        BY <1>3, <2>2, <2>3, MinIs
    <2> HIDE DEF j, direct, upper, widest
    <2>5. /\ j \in 1 .. n /\ j # i /\ u = UpperOf(N, e) /\ u \in Int
          /\ j \in DOMAIN keys
      <3>1. j \in DOMAIN keys /\ u = UpperOf(N, e) /\ UpperOf(N, e) \in Nat
        BY <2>1, <2>4
      <3> QED
        BY <3>1
    <2>6. t[i] - t[j] <= u
      <3>1. t[i] \in Int /\ t[j] \in Int
        BY <2>5 DEF Times
      <3> QED
        BY <2>5, <3>1
    <2>7. ij \in Indices(n)
      BY <2>5 DEF Indices
    <2> HIDE DEF ij, u
    <2>8. /\ result \in Matrices(n)
          /\ \A x \in Indices(n) : result[x] = IF x = ij THEN u ELSE clocks[x]
      BY <2>5, <2>7 DEF Matrices
    <2> HIDE DEF result
    <2>9. ASSUME NEW a \in 1 .. n, NEW b \in 1 .. n PROVE t[a] - t[b] <= result[<<a, b>>]
      <3>1. <<a, b>> \in Indices(n) /\ t[a] - t[b] <= clocks[<<a, b>>]
        BY DEF Indices, Fits
      <3>2. CASE <<a, b>> = ij
        <4>1. a = i /\ b = j
          BY <3>2 DEF ij
        <4> QED
          BY <2>6, <2>8, <3>1, <3>2, <4>1
      <3>3. CASE <<a, b>> # ij
        BY <2>8, <3>1, <3>3
      <3> QED
        BY <3>2, <3>3
    <2>10. Sets(N, e, n, i, j, clocks, result)
      BY <2>5, <2>8 DEF Sets, ij, Indices
    <2>11. j \in 0 .. (i - 1)
      BY <2>5
    <2> QED
      BY <1>1, <1>3, <2>8, <2>9, <2>10, <2>11 DEF Fits
  <1> QED
    BY <1>2, <1>3

OneAllowed(N, z, n, e, state, first, t) ==
    /\ n \in Nat /\ n = Len(z.keys) /\ z.keys \in Seq(Event(N)) /\ z.clocks \in Matrices(n)
    /\ e \in Event(N) /\ OfEvent(N, e) # {} /\ first \in BOOLEAN
    /\ t \in Times(n + 1) /\ Fits(n, z.clocks, t)
    /\ Allowed(N, z.keys, state, e, first, t, t[n + 1])

(* The matrix that a fired event e is added to: its clock n + 1 follows    *)
(* every key, and has an upper bound over at most one.                     *)
Begun(N, e, n, clocks, start, j) ==
    /\ start \in Matrices(n + 1) /\ j \in 0 .. n /\ start[<<n + 1, n + 1>>] = 0
    /\ \A a, b \in 1 .. n : start[<<a, b>>] = clocks[<<a, b>>]
    /\ \A a \in 1 .. n : /\ start[<<a, n + 1>>] <= 0
                         /\ start[<<n + 1, a>>] = IF a = j THEN UpperOf(N, e) ELSE INFIN

LEMMA ExtendZoneBegins ==
    ASSUME NEW N, HasBounds(N), NEW z, NEW n, NEW e, NEW state, NEW first, NEW t,
           OneAllowed(N, z, n, e, state, first, t)
    PROVE  LET all == ExtendZone(N, z, e, state, first)
           IN  /\ all.keys = Append(z.keys, e)
               /\ \E start, j : /\ Begun(N, e, n, z.clocks, start, j)
                                /\ Fits(n + 1, start, t)
                                /\ all.clocks = Recanocalize(n + 1, start)
  <1> DEFINE i      == n + 1
             base   == Extended(N, z, e)
             Result(c) == IF first THEN FindLargest(N, z.keys, e, i, c)
                          ELSE FindCausal(N, z.keys, state, e, i, c)
             result == Result(base)
             all    == ExtendZone(N, z, e, state, first)
  <1>a. /\ n \in Nat /\ n = Len(z.keys) /\ z.keys \in Seq(Event(N)) /\ z.clocks \in Matrices(n)
        /\ e \in Event(N) /\ OfEvent(N, e) # {} /\ first \in BOOLEAN
        /\ t \in Times(n + 1) /\ Fits(n, z.clocks, t)
        /\ Allowed(N, z.keys, state, e, first, t, t[n + 1])
    BY DEF OneAllowed
  <1> USE <1>a
  <1>1. /\ all.keys = Append(z.keys, e)
        /\ all.clocks = Recanocalize(i, CHOOSE y \in {result} : y = y)
    BY DEF ExtendZone, With, Size
  <1>2. (CHOOSE y \in {result} : y = y) = result
    <2> HIDE DEF result
    <2> QED
      OBVIOUS
  <1>3. ASSUME NEW a \in 1 .. i, NEW b \in 1 .. i
        PROVE  /\ <<a, b>> \in Indices(i)
               /\ base[<<a, b>>] =
                     IF a <= n /\ b <= n THEN z.clocks[<<a, b>>]
                     ELSE IF a <= n THEN LowerBound(N, z.keys[a], e, 0)
                     ELSE IF b <= n THEN INFIN ELSE 0
    <2>1. <<a, b>> \in Indices(i)
      BY DEF Indices
    <2>2. base[<<a, b>>] =
            CASE a <= n /\ b <= n -> z.clocks[<<a, b>>]
              [] a <= n /\ b = i -> LowerBound(N, z.keys[a], e, 0)
              [] a = i /\ b <= n -> INFIN
              [] <<a, b>> = <<i, i>> -> 0
      BY <2>1 DEF Extended, Size
    <2>3. (a <= n \/ a = i) /\ (b <= n \/ b = i) /\ ~(i <= n)
      OBVIOUS
    <2> HIDE DEF base
    <2> QED
      BY <2>1, <2>2, <2>3
  <1> DEFINE Entry(x) == CASE x[1] <= n /\ x[2] <= n -> z.clocks[x]
                           [] x[1] <= n /\ x[2] = i -> LowerBound(N, z.keys[x[1]], e, 0)
                           [] x[1] = i /\ x[2] <= n -> INFIN
                           [] x = <<i, i>> -> 0
  <1>4. base = [x \in Indices(i) |-> Entry(x)]
    BY DEF Extended, Size
  <1>5. base = [x \in Indices(i) |-> base[x]]
    <2> HIDE DEF Entry, base
    <2> QED
      BY <1>4
  <1> HIDE DEF base, all
  <1>6. \A k \in DOMAIN z.keys : z.keys[k] \in Event(N)
    OBVIOUS
  <1>7. PICK r \in OfEvent(N, e) : TRUE
    OBVIOUS
  <1>8. LowerOf(N, e) \in Nat /\ UpperOf(N, e) \in Nat
    BY <1>7, BoundsAre
  <1>9. ASSUME NEW k \in 1 .. n
        PROVE  /\ LowerBound(N, z.keys[k], e, 0) \in Int
               /\ LowerBound(N, z.keys[k], e, 0) <= 0
               /\ t[k] - t[i] <= LowerBound(N, z.keys[k], e, 0)
    <2>1. k \in DOMAIN z.keys
      OBVIOUS
    <2>2. LowerBound(N, z.keys[k], e, 0) =
              IF Path(N, z.keys[k], e) = {} THEN 0 ELSE -LowerOf(N, e)
      BY <1>6, <2>1, LowerBoundIs
    <2>3. t[k] <= t[i] /\ (Path(N, z.keys[k], e) # {} => t[k] + LowerOf(N, e) <= t[i])
      BY <2>1 DEF Allowed
    <2>4. t[k] \in Int /\ t[i] \in Int
      BY SMTT(20) DEF Times
    <2> QED
      BY <1>8, <2>2, <2>3, <2>4
  <1>10. base \in Matrices(i)
    <2> SUFFICES ASSUME NEW a \in 1 .. i, NEW b \in 1 .. i PROVE base[<<a, b>>] \in Int
      <3>1. ASSUME \A a, b \in 1 .. i : base[<<a, b>>] \in Int, NEW x \in Indices(i)
            PROVE  base[x] \in Int
        BY <3>1 DEF Indices
      <3>2. (\A x \in Indices(i) : base[x] \in Int) => base \in Matrices(i)
        BY <1>5, Zenon DEF Matrices
      <3> QED
        BY <3>1, <3>2
    <2>1. CASE a <= n /\ b <= n
      <3>1. <<a, b>> \in Indices(n)
        BY <2>1 DEF Indices
      <3> QED
        BY <1>3, <2>1, <3>1 DEF Matrices
    <2>2. CASE a <= n /\ ~(b <= n)
      BY <1>3, <1>9, <2>2
    <2>3. CASE ~(a <= n)
      BY <1>3, <2>3 DEF INFIN
    <2> QED
      BY <2>1, <2>2, <2>3
  <1>11. Fits(i, base, t)
    <2> SUFFICES ASSUME NEW a \in 1 .. i, NEW b \in 1 .. i PROVE t[a] - t[b] <= base[<<a, b>>]
      BY DEF Fits
    <2>1. t[a] - t[b] <= INFIN /\ t[a] \in Int /\ t[b] \in Int
      BY DEF Times
    <2>2. CASE a <= n /\ b <= n
      BY <1>3, <2>2 DEF Fits
    <2>3. CASE a <= n /\ ~(b <= n)
      <3>1. b = i /\ a \in 1 .. n
        BY <2>3
      <3> QED
        BY <1>3, <1>9, <2>3, <3>1
    <2>4. CASE ~(a <= n) /\ b <= n
      BY <1>3, <2>1, <2>4
    <2>5. CASE ~(a <= n) /\ ~(b <= n)
      <3>1. a = b
        BY <2>5
      <3> QED
        BY <1>3, <2>1, <2>5, <3>1
    <2> QED
      BY <2>2, <2>3, <2>4, <2>5
  <1>12. PICK j \in 0 .. n : /\ result \in Matrices(i) /\ Fits(i, result, t)
                            /\ Sets(N, e, i, i, j, base, result)
    <2>1. i \in Nat /\ i \in 1 .. i /\ Len(z.keys) < i /\ 0 .. (i - 1) = 0 .. n
      OBVIOUS
    <2>2. CASE first
      <3>1. \A k \in DOMAIN z.keys : t[i] <= t[k] + UpperOf(N, e)
        BY <2>2 DEF Allowed
      <3>2. /\ FindLargest(N, z.keys, e, i, base) \in Matrices(i)
            /\ Fits(i, FindLargest(N, z.keys, e, i, base), t)
            /\ \E j \in 0 .. (i - 1) :
                  Sets(N, e, i, i, j, base, FindLargest(N, z.keys, e, i, base))
        <4> HIDE DEF i
        <4> QED
          BY <1>10, <1>11, <2>1, <3>1, LargestFits DEF i
      <3> HIDE DEF i
      <3> QED
        BY <2>1, <2>2, <3>2
    <2>3. CASE ~first
      <3>1. Allowed(N, z.keys, state, e, FALSE, t, t[i])
        BY <2>3
      <3>2. /\ FindCausal(N, z.keys, state, e, i, base) \in Matrices(i)
            /\ Fits(i, FindCausal(N, z.keys, state, e, i, base), t)
            /\ \E j \in 0 .. (i - 1) :
                  Sets(N, e, i, i, j, base, FindCausal(N, z.keys, state, e, i, base))
        <4> HIDE DEF i
        <4> QED
          BY <1>10, <1>11, <2>1, <3>1, CausalFits DEF i
      <3> HIDE DEF i
      <3> QED
        BY <2>1, <2>3, <3>2
    <2> HIDE DEF result
    <2> QED
      BY <2>2, <2>3
  <1> HIDE DEF result
  <1>13. Begun(N, e, n, z.clocks, result, j)
    <2>1. ASSUME NEW a \in 1 .. i, NEW b \in 1 .. i
          PROVE  /\ a = i /\ b = j => result[<<a, b>>] = UpperOf(N, e)
                 /\ a = j /\ b = i => result[<<a, b>>] \in {base[<<a, b>>], -LowerOf(N, e)}
                 /\ ~(a = i /\ b = j) /\ ~(a = j /\ b = i)
                       => result[<<a, b>>] = base[<<a, b>>]
      BY <1>12 DEF Sets
    <2>2. ASSUME NEW a \in 1 .. n, NEW b \in 1 .. n
          PROVE  result[<<a, b>>] = z.clocks[<<a, b>>]
      BY <1>3, <2>1, SMTT(20)
    <2>3. ASSUME NEW a \in 1 .. n PROVE result[<<a, i>>] <= 0
      <3>1. base[<<a, i>>] <= 0
        <4>1. a \in 1 .. i /\ i \in 1 .. i /\ a <= n /\ ~(i <= n)
          OBVIOUS
        <4>2. base[<<a, i>>] = LowerBound(N, z.keys[a], e, 0)
          BY <1>3, <4>1
        <4> QED
          BY <1>9, <4>2
      <3> QED
        BY <1>8, <2>1, <3>1, SMTT(20)
    <2>4. ASSUME NEW a \in 1 .. n
          PROVE  result[<<i, a>>] = IF a = j THEN UpperOf(N, e) ELSE INFIN
      BY <1>3, <2>1, SMTT(20)
    <2>5. result[<<i, i>>] = 0
      <3>1. i \in 1 .. i /\ i # j /\ ~(i <= n)
        OBVIOUS
      <3>2. base[<<i, i>>] = 0
        BY <1>3, <3>1
      <3> QED
        BY <2>1, <3>1, <3>2
    <2> QED
      BY <1>12, <2>2, <2>3, <2>4, <2>5 DEF Begun
  <1> QED
    BY <1>1, <1>2, <1>12, <1>13 DEF all

(* A clock for a fired event: the zone still contains the times of its     *)
(* keys, together with every time that the bounds of the event allow.      *)
LEMMA ExtendZoneFits ==
    ASSUME NEW N, HasBounds(N), NEW z, NEW n, NEW e, NEW state, NEW first, NEW t,
           OneAllowed(N, z, n, e, state, first, t)
    PROVE  LET all == ExtendZone(N, z, e, state, first)
           IN  /\ all.keys = Append(z.keys, e)
               /\ all.clocks \in Matrices(n + 1)
               /\ Fits(n + 1, all.clocks, t)
  <1> DEFINE all == ExtendZone(N, z, e, state, first)
  <1>1. all.keys = Append(z.keys, e)
    BY ExtendZoneBegins
  <1>2. PICK start, j : /\ Begun(N, e, n, z.clocks, start, j) /\ Fits(n + 1, start, t)
                        /\ all.clocks = Recanocalize(n + 1, start)
    BY ExtendZoneBegins
  <1>3. start \in Matrices(n + 1) /\ n + 1 \in Nat /\ t \in Times(n + 1)
    BY <1>2 DEF Begun, OneAllowed
  <1> HIDE DEF all
  <1> QED
    BY <1>1, <1>2, <1>3, RecanocalizeFits DEF all

(* A clock for each enabled event: the zone contains the times of its keys *)
(* with every choice of times that the bounds of the events allow.         *)
AllAllowed(N, z, n, m, first, keys, l, t) ==
    /\ n \in Nat /\ n = Len(z.keys) /\ z.keys \in Seq(Event(N)) /\ z.clocks \in Matrices(n)
    /\ keys \in Seq(Event(N)) /\ l \in Nat /\ l = Len(keys) /\ n <= l
    /\ \A k \in 1 .. n : keys[k] = z.keys[k]
    /\ t \in Times(l) /\ Fits(n, z.clocks, t) /\ first \in BOOLEAN
    /\ \A i \in (n + 1) .. l :
          OfEvent(N, keys[i]) # {} /\ Allowed(N, z.keys, m.state, keys[i], first, t, t[i])

LEMMA WithEnabledFits ==
    ASSUME NEW N, HasBounds(N), NEW z, NEW n, NEW m, NEW first, NEW keys, NEW l, NEW t,
           AllAllowed(N, z, n, m, first, keys, l, t)
    PROVE  LET all == WithEnabled(N, z, keys, m, first)
           IN  all.keys = keys /\ all.clocks \in Matrices(l) /\ Fits(l, all.clocks, t)
  <1> DEFINE start == [x \in Indices(l) |->
                          IF x[1] <= n /\ x[2] <= n THEN z.clocks[x]
                          ELSE IF x[1] = x[2] THEN 0 ELSE INFIN]
             Low(c, i) == [x \in DOMAIN c |->
                              IF x[2] = i /\ x[1] <= n
                              THEN LowerBound(N, keys[x[1]], keys[i], INFIN) ELSE c[x]]
             Step(c, i) == IF first THEN FindLargest(N, z.keys, keys[i], i, Low(c, i))
                           ELSE FindCausal(N, z.keys, m.state, keys[i], i, Low(c, i))
             Once(c, i) == CHOOSE y \in {Step(x, i) : x \in {c}} : y = y
             Is(g) == g = [i \in n .. l |-> IF i = n THEN start ELSE Once(g[i - 1], i)]
             bounded == CHOOSE g : Is(g)
             all  == WithEnabled(N, z, keys, m, first)
  <1>a. /\ n \in Nat /\ n = Len(z.keys) /\ z.keys \in Seq(Event(N)) /\ z.clocks \in Matrices(n)
        /\ keys \in Seq(Event(N)) /\ l \in Nat /\ l = Len(keys) /\ n <= l
        /\ \A k \in 1 .. n : keys[k] = z.keys[k]
        /\ t \in Times(l) /\ Fits(n, z.clocks, t) /\ first \in BOOLEAN
        /\ \A i \in (n + 1) .. l :
              OfEvent(N, keys[i]) # {} /\ Allowed(N, z.keys, m.state, keys[i], first, t, t[i])
    BY DEF AllAllowed
  <1> USE <1>a
  <1>0. PICK S : \A c : c \in S <=> c \in Matrices(l) /\ Fits(l, c, t)
    <2>1. \A c : c \in {x \in Matrices(l) : Fits(l, x, t)} <=> c \in Matrices(l) /\ Fits(l, c, t)
      OBVIOUS
    <2> QED
      BY <2>1
  <1>1. all.keys = keys /\ all.clocks = Recanocalize(l, bounded[l])
    BY DEF WithEnabled, With, Size
  <1>2. start \in S
    <2>1. ASSUME NEW a \in 1 .. l, NEW b \in 1 .. l
          PROVE  /\ <<a, b>> \in Indices(l)
                 /\ start[<<a, b>>] = IF a <= n /\ b <= n THEN z.clocks[<<a, b>>]
                                      ELSE IF a = b THEN 0 ELSE INFIN
      BY DEF Indices
    <2>2. ASSUME NEW a \in 1 .. l, NEW b \in 1 .. l
          PROVE  start[<<a, b>>] \in Int /\ t[a] - t[b] <= start[<<a, b>>]
      <3>1. t[a] - t[b] <= INFIN /\ t[a] \in Int /\ t[b] \in Int
        BY DEF Times
      <3>2. CASE a <= n /\ b <= n
        <4>1. /\ <<a, b>> \in Indices(n) /\ a \in 1 .. n /\ b \in 1 .. n
          BY <3>2 DEF Indices
        <4>2. z.clocks[<<a, b>>] \in Int /\ t[a] - t[b] <= z.clocks[<<a, b>>]
          BY <4>1 DEF Matrices, Fits
        <4> HIDE DEF start
        <4> QED
          BY <2>1, <3>2, <4>2
      <3>3. CASE ~(a <= n /\ b <= n)
        <4> HIDE DEF start
        <4> QED
          BY <2>1, <3>1, <3>3 DEF INFIN
      <3> QED
        BY <3>2, <3>3
    <2>3. start = [x \in Indices(l) |-> start[x]]
      OBVIOUS
    <2> HIDE DEF start
    <2>4. \A x \in Indices(l) : start[x] \in Int
      BY <2>2 DEF Indices
    <2>5. start \in Matrices(l)
      BY <2>3, <2>4, Zenon DEF Matrices
    <2> QED
      BY <1>0, <2>2, <2>5 DEF Fits
  <1>3. ASSUME NEW c \in S, NEW i \in (n + 1) .. l PROVE Low(c, i) \in S
    <2> DEFINE low == Low(c, i)
    <2>1. DOMAIN c = Indices(l)
      BY <1>0 DEF Matrices
    <2>2. ASSUME NEW a \in 1 .. l, NEW b \in 1 .. l
          PROVE  /\ <<a, b>> \in Indices(l)
                 /\ low[<<a, b>>] = IF b = i /\ a <= n
                                    THEN LowerBound(N, keys[a], keys[i], INFIN)
                                    ELSE c[<<a, b>>]
      BY <2>1 DEF Indices
    <2>3. keys[i] \in Event(N)
      OBVIOUS
    <2>4. PICK r \in OfEvent(N, keys[i]) : TRUE
      OBVIOUS
    <2>5. LowerOf(N, keys[i]) \in Nat
      BY <2>4, BoundsAre
    <2> HIDE DEF low
    <2>6. ASSUME NEW a \in 1 .. l, NEW b \in 1 .. l
          PROVE  low[<<a, b>>] \in Int /\ t[a] - t[b] <= low[<<a, b>>]
      <3>1. t[a] - t[b] <= INFIN /\ t[a] \in Int /\ t[b] \in Int
        BY DEF Times
      <3>2. CASE b = i /\ a <= n
        <4>1. a \in DOMAIN z.keys /\ keys[a] = z.keys[a] /\ keys[a] \in Event(N)
          BY <3>2
        <4>2. low[<<a, b>>] = IF Path(N, keys[a], keys[i]) = {} THEN INFIN
                              ELSE -LowerOf(N, keys[i])
          BY <2>2, <2>3, <3>2, <4>1, LowerBoundIs
        <4>3. Path(N, keys[a], keys[i]) # {} => t[a] + LowerOf(N, keys[i]) <= t[i]
          BY <4>1 DEF Allowed
        <4> QED
          BY <2>5, <3>1, <3>2, <4>2, <4>3 DEF INFIN
      <3>3. CASE ~(b = i /\ a <= n)
        <4>1. c[<<a, b>>] \in Int /\ t[a] - t[b] <= c[<<a, b>>]
          BY <1>0, <2>2 DEF Matrices, Fits
        <4> QED
          BY <2>2, <3>3, <4>1
      <3> QED
        BY <3>2, <3>3
    <2>7. low = [x \in Indices(l) |-> low[x]]
      BY <2>1 DEF low
    <2>8. \A x \in Indices(l) : low[x] \in Int
      BY <2>6 DEF Indices
    <2>9. low \in Matrices(l)
      BY <2>7, <2>8, Zenon DEF Matrices
    <2>10. low \in S
      BY <1>0, <2>6, <2>9 DEF Fits
    <2> QED
      BY <2>10 DEF low
  <1>4. ASSUME NEW c \in S, NEW i \in (n + 1) .. l PROVE Once(c, i) \in S
    <2> DEFINE low == Low(c, i)
    <2>1. low \in Matrices(l) /\ Fits(l, low, t)
      BY <1>0, <1>3
    <2>2. keys[i] \in Event(N) /\ i \in 1 .. l /\ Len(z.keys) < i
      OBVIOUS
    <2> HIDE DEF low
    <2>3. CASE first
      <3>1. \A k \in DOMAIN z.keys : t[i] <= t[k] + UpperOf(N, keys[i])
        BY <2>3 DEF Allowed
      <3>2. FindLargest(N, z.keys, keys[i], i, low) \in S
        BY <1>0, <2>1, <2>2, <3>1, LargestFits
      <3>3. Step(c, i) \in S
        BY <2>3, <3>2 DEF low
      <3> HIDE DEF Step
      <3> QED
        BY <3>3
    <2>4. CASE ~first
      <3>1. Allowed(N, z.keys, m.state, keys[i], FALSE, t, t[i])
        BY <2>4
      <3>2. OfEvent(N, keys[i]) # {}
        OBVIOUS
      <3>3. FindCausal(N, z.keys, m.state, keys[i], i, low) \in S
        BY <1>0, <2>1, <2>2, <3>1, <3>2, CausalFits
      <3>4. Step(c, i) \in S
        BY <2>4, <3>3 DEF low
      <3> HIDE DEF Step
      <3> QED
        BY <3>4
    <2> QED
      BY <2>3, <2>4
  <1> HIDE DEF Once, start
  <1>5. Is(bounded)
    <2>1. PICK D : D = n .. l
      OBVIOUS
    <2>2. PICK G : G = [i \in D |-> [c \in S |-> IF i = n THEN c ELSE Once(c, i)]]
      OBVIOUS
    <2>3. \A i \in D \ {n} : i \in (n + 1) .. l /\ i - 1 \in D
      BY <2>1
    <2>4. \A i \in D : \A c \in S : G[i][c] \in S
      BY <1>4, <2>2, <2>3
    <2>5. PICK f : IsHistory(S, start, n, D, G, f)
      <3>1. IsLoop(S, start, n, l, D, G)
        BY <1>2, <2>1, <2>4 DEF IsLoop
      <3> QED
        BY <3>1, HistoryExists
    <2>6. ASSUME NEW i \in D \ {n} PROVE f[i] = Once(f[i - 1], i)
      <3>1. f[i - 1] \in S
        BY <2>3, <2>5 DEF IsHistory
      <3>2. G[i][f[i - 1]] = Once(f[i - 1], i)
        BY <2>2, <3>1
      <3> QED
        BY <2>5, <3>2 DEF IsHistory
    <2>7. Is(f)
      BY <2>1, <2>5, <2>6 DEF IsHistory
    <2> HIDE DEF Is
    <2> QED
      BY <2>7
  <1> HIDE DEF bounded
  <1>6. /\ bounded[n] = start
        /\ \A i \in (n + 1) .. l : bounded[i] = Once(bounded[i - 1], i)
    <2>1. \A i \in n .. l : bounded[i] = IF i = n THEN start ELSE Once(bounded[i - 1], i)
      BY <1>5
    <2>2. n \in n .. l /\ \A i \in (n + 1) .. l : i \in n .. l /\ i # n
      OBVIOUS
    <2> HIDE DEF Is
    <2> QED
      BY <2>1, <2>2
  <1>7. bounded[l] \in S
    <2> DEFINE T == {i \in n .. l : bounded[i] \in S}
    <2>1. n \in T
      BY <1>2, <1>6
    <2>2. \A i \in (n + 1) .. l : i - 1 \in T => i \in T
      BY <1>4, <1>6
    <2> HIDE DEF T
    <2>3. n .. l \subseteq T
      BY <2>1, <2>2, RangeInduction
    <2>4. l \in T
      BY <2>3
    <2> QED
      BY <2>4 DEF T
  <1> QED
    BY <1>0, <1>1, <1>7, RecanocalizeFits

(* What is allowed depends on the times of the keys alone.                 *)
Agree(keys, t, u) == \A i \in DOMAIN keys : t[i] = u[i]

LEMMA AllowedSame ==
    ASSUME NEW N, NEW keys, keys \in Seq(Event(N)), NEW state, NEW e, NEW first,
           NEW t, NEW u, NEW x, Agree(keys, t, u), Allowed(N, keys, state, e, first, t, x)
    PROVE  Allowed(N, keys, state, e, first, u, x)
  <1>1. LET j == Cause(N, keys, state, e) IN j # 0 => j \in DOMAIN keys
    BY CauseIs
  <1>2. \A i \in DOMAIN keys :
            u[i] <= x /\ (Path(N, keys[i], e) # {} => u[i] + LowerOf(N, e) <= x)
    BY DEF Allowed, Agree
  <1>3. first => \A i \in DOMAIN keys : x <= u[i] + UpperOf(N, e)
    BY DEF Allowed, Agree
  <1>4. ~first => LET j == Cause(N, keys, state, e)
                  IN  j # 0 => u[j] + LowerOf(N, e) <= x /\ x <= u[j] + UpperOf(N, e)
    BY <1>1 DEF Allowed, Agree
  <1> QED
    BY <1>2, <1>3, <1>4 DEF Allowed

LEMMA GetFireableIs ==
    ASSUME NEW N, NEW z, NEW m, NEW first
    PROVE  GetFireable(N, z, m, first) =
              First(WithEnabled(N, z, z.keys \o Sorted(m.enablings), m, first), Len(z.keys))
  <1> DEFINE Inner(k) == CHOOSE y \in {First(a, Len(z.keys)) : a \in {WithEnabled(N, z, k, m, first)}} : y = y
             keys == z.keys \o Sorted(m.enablings)
  <1>1. GetFireable(N, z, m, first) = CHOOSE y \in {Inner(k) : k \in {keys}} : y = y
    BY DEF GetFireable, With, Size
  <1>2. (CHOOSE y \in {Inner(k) : k \in {keys}} : y = y) = Inner(keys)
    <2> HIDE DEF Inner, keys
    <2> QED
      OBVIOUS
  <1>3. Inner(keys) = First(WithEnabled(N, z, keys, m, first), Len(z.keys))
    <2> HIDE DEF keys
    <2> QED
      OBVIOUS
  <1> QED
    BY <1>1, <1>2, <1>3

(* The clocks of the enabled events follow those of the keys.              *)
ListsEnabled(N, keys, n, E, all, l) ==
    /\ all \in Seq(Event(N)) /\ l \in Nat /\ l = Len(all) /\ n <= l
    /\ \A k \in 1 .. n : all[k] = keys[k]
    /\ \A i \in (n + 1) .. l : all[i] \in E
    /\ \A e \in E : \E i \in (n + 1) .. l : all[i] = e

LEMMA KeysOfEnabled ==
    ASSUME NEW N, LoadedNet(N), NEW keys, keys \in Seq(Event(N)), NEW E, E \subseteq Event(N)
    PROVE  ListsEnabled(N, keys, Len(keys), E, keys \o Sorted(E), Len(keys \o Sorted(E)))
  <1> DEFINE s == Sorted(E)
             c == Cardinality(E)
  <1>1. /\ E \subseteq Nat /\ IsFiniteSet(E)
    <2>1. N.nevents \in Int /\ N.nevents - 1 \in Int
      BY DEF LoadedNet, NetShape
    <2>2. IsFiniteSet(1 .. (N.nevents - 1))
      BY <2>1, FS_Interval
    <2>3. E \in SUBSET (1 .. (N.nevents - 1))
      BY DEF Event
    <2>4. IsFiniteSet(E)
      BY <2>2, <2>3, FS_Subset
    <2> QED
      BY <2>3, <2>4
  <1>2. c \in Nat /\ s \in [1 .. c -> E] /\ \A e \in E : \E i \in 1 .. c : s[i] = e
    BY <1>1, SortedIs
  <1> HIDE DEF s, c
  <1>3. s \in Seq(E) /\ Len(s) = c /\ s \in Seq(Event(N))
    BY <1>2
  <1> DEFINE all == keys \o s
             n   == Len(keys)
  <1>4. /\ all \in Seq(Event(N)) /\ Len(all) = n + c /\ n \in Nat /\ DOMAIN all = 1 .. (n + c)
        /\ \A k \in 1 .. n : all[k] = keys[k]
        /\ \A k \in 1 .. c : all[n + k] = s[k]
    BY <1>2, <1>3
  <1> HIDE DEF all, n
  <1>5. ASSUME NEW i \in (n + 1) .. (n + c) PROVE all[i] \in E
    <2>1. i - n \in 1 .. c /\ n + (i - n) = i
      BY <1>2, <1>4
    <2>2. all[i] = s[i - n]
      BY <1>4, <2>1
    <2> QED
      BY <1>2, <2>1, <2>2
  <1>6. ASSUME NEW e \in E PROVE \E i \in (n + 1) .. (n + c) : all[i] = e
    <2>1. PICK k \in 1 .. c : s[k] = e
      BY <1>2
    <2>2. n + k \in (n + 1) .. (n + c) /\ all[n + k] = e
      BY <1>2, <1>4, <2>1
    <2> QED
      BY <2>2
  <1>7. n <= n + c /\ n + c \in Nat
    BY <1>2, <1>4
  <1> QED
    BY <1>4, <1>5, <1>6, <1>7 DEF ListsEnabled, all, n, s

(* An event that can be the next one of the enabled events is in the fire  *)
(* list: t are times of the keys, and x times for the enabled events.      *)
Chosen(N, z, n, m, first, t, x) ==
    /\ n \in Nat /\ n = Len(z.keys) /\ z.keys \in Seq(Event(N)) /\ z.clocks \in Matrices(n)
    /\ m.enablings \subseteq Event(N) /\ first \in BOOLEAN
    /\ t \in [1 .. n -> Int] /\ Fits(n, z.clocks, t) /\ x \in [m.enablings -> Int]
    /\ \A f \in m.enablings :
          OfEvent(N, f) # {} /\ Allowed(N, z.keys, m.state, f, first, t, x[f])
    /\ \A i, j \in 1 .. n : t[i] - t[j] <= INFIN
    /\ \A f, g \in m.enablings : x[f] - x[g] <= INFIN
    /\ \A i \in 1 .. n : \A f \in m.enablings :
          t[i] - x[f] <= INFIN /\ x[f] - t[i] <= INFIN

LEMMA FireableFits ==
    ASSUME NEW N, HasBounds(N), NEW z, NEW n, NEW m, NEW first, NEW t, NEW x,
           Chosen(N, z, n, m, first, t, x),
           NEW e \in m.enablings, \A f \in m.enablings : x[e] <= x[f]
    PROVE  e \in GetFireable(N, z, m, first)
  <1> DEFINE keys == z.keys \o Sorted(m.enablings)
             l    == Len(keys)
             all  == WithEnabled(N, z, keys, m, first)
             u    == [i \in 1 .. l |-> IF i <= n THEN t[i] ELSE x[keys[i]]]
  <1>a. /\ n \in Nat /\ n = Len(z.keys) /\ z.keys \in Seq(Event(N)) /\ z.clocks \in Matrices(n)
        /\ m.enablings \subseteq Event(N) /\ first \in BOOLEAN
        /\ t \in [1 .. n -> Int] /\ Fits(n, z.clocks, t) /\ x \in [m.enablings -> Int]
        /\ \A f \in m.enablings :
              OfEvent(N, f) # {} /\ Allowed(N, z.keys, m.state, f, first, t, x[f])
        /\ \A i, j \in 1 .. n : t[i] - t[j] <= INFIN
        /\ \A f, g \in m.enablings : x[f] - x[g] <= INFIN
        /\ \A i \in 1 .. n : \A f \in m.enablings :
              t[i] - x[f] <= INFIN /\ x[f] - t[i] <= INFIN
    BY DEF Chosen
  <1> USE <1>a
  <1>1. /\ keys \in Seq(Event(N)) /\ l \in Nat /\ n <= l
        /\ \A k \in 1 .. n : keys[k] = z.keys[k]
        /\ \A i \in (n + 1) .. l : keys[i] \in m.enablings
        /\ \E i \in (n + 1) .. l : keys[i] = e
    <2>1. LoadedNet(N)
      BY DEF HasBounds
    <2>2. ListsEnabled(N, z.keys, n, m.enablings, keys, l)
      BY <2>1, KeysOfEnabled
    <2> HIDE DEF keys, l
    <2> QED
      BY <2>2 DEF ListsEnabled
  <1> HIDE DEF keys, l
  <1>2. /\ \A i \in 1 .. n : u[i] = t[i] /\ i \in 1 .. l
        /\ \A i \in (n + 1) .. l : u[i] = x[keys[i]] /\ i \in 1 .. l
        /\ \A i \in 1 .. l : i \in 1 .. n \/ i \in (n + 1) .. l
    BY <1>1
  <1>3. u \in [1 .. l -> Int]
    BY <1>1, <1>2, ZenonT(30)
  <1> HIDE DEF u
  <1>4. u \in Times(l)
    <2> SUFFICES ASSUME NEW i \in 1 .. l, NEW j \in 1 .. l PROVE u[i] - u[j] <= INFIN
      BY <1>3 DEF Times
    <2>1. CASE i \in 1 .. n /\ j \in 1 .. n
      BY <1>2, <2>1
    <2>2. CASE i \in 1 .. n /\ j \in (n + 1) .. l
      BY <1>1, <1>2, <2>2, ZenonT(30)
    <2>3. CASE i \in (n + 1) .. l /\ j \in 1 .. n
      BY <1>1, <1>2, <2>3, ZenonT(30)
    <2>4. CASE i \in (n + 1) .. l /\ j \in (n + 1) .. l
      <3>1. keys[i] \in m.enablings /\ keys[j] \in m.enablings
        BY <1>1, <2>4
      <3>2. x[keys[i]] - x[keys[j]] <= INFIN
        BY <3>1
      <3> QED
        BY <1>2, <2>4, <3>2
    <2> QED
      BY <1>2, <2>1, <2>2, <2>3, <2>4
  <1>5. Fits(n, z.clocks, u)
    BY <1>2 DEF Fits
  <1>6. \A i \in (n + 1) .. l :
            OfEvent(N, keys[i]) # {} /\ Allowed(N, z.keys, m.state, keys[i], first, u, u[i])
    <2> SUFFICES ASSUME NEW i \in (n + 1) .. l
                 PROVE  OfEvent(N, keys[i]) # {}
                        /\ Allowed(N, z.keys, m.state, keys[i], first, u, u[i])
      OBVIOUS
    <2>1. Allowed(N, z.keys, m.state, keys[i], first, t, x[keys[i]])
      BY <1>1
    <2>2. \A k \in DOMAIN z.keys : t[k] = u[k]
      BY <1>2
    <2>3. Allowed(N, z.keys, m.state, keys[i], first, u, x[keys[i]])
      <3>1. Agree(z.keys, t, u)
        BY <2>2 DEF Agree
      <3> QED
        BY <2>1, <3>1, AllowedSame
    <2> QED
      BY <1>1, <1>2, <2>3
  <1>7. all.keys = keys /\ all.clocks \in Matrices(l) /\ Fits(l, all.clocks, u)
    <2>1. AllAllowed(N, z, n, m, first, keys, l, u)
      BY <1>1, <1>4, <1>5, <1>6 DEF AllAllowed, l
    <2> QED
      BY <2>1, WithEnabledFits
  <1>8. PICK k \in (n + 1) .. l : keys[k] = e
    BY <1>1
  <1> HIDE DEF all
  <1>9. ASSUME NEW j \in (n + 1) .. l PROVE all.clocks[<<j, k>>] >= 0
    <2>1. u[k] <= u[j] /\ u[k] \in Int /\ u[j] \in Int
      BY <1>1, <1>2, <1>3, <1>8
    <2>2. u[j] - u[k] <= all.clocks[<<j, k>>]
      BY <1>2, <1>7 DEF Fits
    <2>3. all.clocks[<<j, k>>] \in Int
      BY <1>2, <1>7 DEF Matrices, Indices
    <2> QED
      BY <2>1, <2>2, <2>3
  <1>10. GetFireable(N, z, m, first) = First(all, n)
    BY GetFireableIs DEF all, keys
  <1>11. Size(all) = l
    BY <1>7 DEF Size, l
  <1>12. e \in First(all, n)
    BY <1>7, <1>8, <1>9, <1>11 DEF First
  <1> QED
    BY <1>10, <1>12

(* Only enabled events are in the fire list.                               *)
LEMMA FireableEnabled ==
    ASSUME NEW N, LoadedNet(N), NEW z, z.keys \in Seq(Event(N)),
           NEW m, m.enablings \subseteq Event(N), NEW first
    PROVE  GetFireable(N, z, m, first) \subseteq m.enablings
  <1> DEFINE keys == z.keys \o Sorted(m.enablings)
             all  == WithEnabled(N, z, keys, m, first)
  <1>1. \A i \in (Len(z.keys) + 1) .. Len(keys) : keys[i] \in m.enablings
    <2>1. ListsEnabled(N, z.keys, Len(z.keys), m.enablings, keys, Len(keys))
      BY KeysOfEnabled
    <2> HIDE DEF keys
    <2> QED
      BY <2>1 DEF ListsEnabled
  <1>2. all.keys = keys
    BY DEF WithEnabled
  <1>3. GetFireable(N, z, m, first) = First(all, Len(z.keys))
    BY GetFireableIs
  <1> HIDE DEF all, keys
  <1> QED
    BY <1>1, <1>2, <1>3 DEF First, Size

-----------------------------------------------------------------------------
(* Runs.  Time 0 is now: the keys have fired at the times -past[i].        *)
Ages(past) == [i \in DOMAIN past |-> -past[i]]

(* The marking, the keys and the history on the path of a run.             *)
Timed(N, m, keys, past, held, now, first) ==
    /\ m \in Marking(N) /\ m.enablings = EventsEnabled(N, m.marking, m.state)
    /\ Past(N, m, keys, past, held, now) /\ Explained(N, m, keys, past, held, now)
    /\ first \in BOOLEAN /\ (first => now = 0)

(* A zone that contains the times of the keys.                             *)
Holds(keys, z, past) ==
    /\ z = [keys |-> keys, clocks |-> z.clocks]
    /\ z.clocks \in Matrices(Len(keys)) /\ Fits(Len(keys), z.clocks, Ages(past))

(* After x, the bounds of e are met.                                       *)
Meets(N, held, e, x) ==
    LowerOf(N, e) <= Since(N, held, e) + x /\ Since(N, held, e) + x <= UpperOf(N, e)

(* Whatever the run allows, the bounds that the code sets allow.           *)
LEMMA MeetsAllowed ==
    ASSUME NEW N, HasBounds(N), NEW m, NEW keys, NEW past, NEW held, NEW now, NEW first,
           Timed(N, m, keys, past, held, now, first),
           NEW e, e \in m.enablings, NEW x, x \in Nat, Meets(N, held, e, x)
    PROVE  Allowed(N, keys, m.state, e, first, Ages(past), x)
  <1>1. /\ LoadedNet(N) /\ Simple(N) /\ m \in Marking(N)
        /\ m.enablings = EventsEnabled(N, m.marking, m.state)
        /\ Past(N, m, keys, past, held, now) /\ Explained(N, m, keys, past, held, now)
    BY DEF HasBounds, Timed
  <1>2. /\ keys \in Seq(Event(N)) /\ past \in [DOMAIN keys -> Nat]
        /\ held \in [Markable(N) -> Nat] /\ now \in Nat
        /\ \A i \in DOMAIN keys : past[i] <= now
        /\ \A i \in DOMAIN keys, r \in Markable(N) :
              Wakes(N, m.state, keys[i], r) => held[r] <= past[i]
    BY <1>1 DEF Past
  <1>3. e \in Event(N) /\ OfEvent(N, e) # {} /\ OfEvent(N, e) \subseteq Markable(N)
    BY <1>1, EnabledRules DEF OfEvent
  <1>4. /\ Since(N, held, e) \in Nat
        /\ \A r \in OfEvent(N, e) : Since(N, held, e) <= held[r]
    BY <1>2, <1>3, SinceIs
  <1>5. LowerOf(N, e) \in Nat /\ UpperOf(N, e) \in Nat
    BY <1>3, BoundsAre
  <1>6. \A i \in DOMAIN keys : Ages(past)[i] = -past[i] /\ past[i] \in Nat
    BY <1>2 DEF Ages
  <1>7. ASSUME NEW i \in DOMAIN keys
        PROVE  /\ Ages(past)[i] <= x
               /\ Path(N, keys[i], e) # {} => Ages(past)[i] + LowerOf(N, e) <= x
    <2>1. Ages(past)[i] <= x
      BY <1>6
    <2>2. ASSUME Path(N, keys[i], e) # {} PROVE Ages(past)[i] + LowerOf(N, e) <= x
      <3>1. keys[i] \in Event(N)
        BY <1>2
      <3>2. PICK r \in OfEvent(N, e) : r \in FanOut(N, keys[i])
        BY <1>1, <1>3, <2>2, <3>1, PathIs
      <3>3. r \in Markable(N) /\ Wakes(N, m.state, keys[i], r)
        BY <1>3, <3>2 DEF Wakes
      <3>4. held[r] <= past[i] /\ held[r] \in Nat
        BY <1>2, <3>3
      <3>5. Since(N, held, e) <= held[r]
        BY <1>4
      <3> QED
        BY <1>4, <1>5, <1>6, <3>4, <3>5 DEF Meets
    <2> QED
      BY <2>1, <2>2
  <1>8. ASSUME first, NEW i \in DOMAIN keys PROVE x <= Ages(past)[i] + UpperOf(N, e)
    <2>1. past[i] = 0
      BY <1>2, <1>6, <1>8 DEF Timed
    <2> QED
      BY <1>4, <1>5, <1>6, <2>1 DEF Meets
  <1>9. ASSUME NEW j, j = Cause(N, keys, m.state, e), j # 0
        PROVE  /\ Ages(past)[j] + LowerOf(N, e) <= x
               /\ x <= Ages(past)[j] + UpperOf(N, e)
    <2>1. j \in 0 .. Len(keys) /\ Since(N, held, e) = past[j]
      BY <1>1, <1>9, CauseRight
    <2>2. j \in DOMAIN keys
      BY <1>2, <1>9, <2>1
    <2> QED
      BY <1>4, <1>5, <1>6, <2>1, <2>2 DEF Meets
  <1> QED
    BY <1>7, <1>8, <1>9 DEF Allowed

(* The firing of an event changes no signal that its own levels read: the  *)
(* state after it leads to the same cause.                                 *)
LEMMA CauseAfter ==
    ASSUME NEW N, LoadedNet(N), Simple(N), NEW m, m \in Marking(N), NEW f,
           f \in m.enablings, ~Fails(N, m, f), InputsAgree(N, m),
           NEW keys, keys \in Seq(Event(N))
    PROVE  Cause(N, keys, FindNewMarking(N, m, f).state, f) = Cause(N, keys, m.state, f)
  <1> DEFINE n == FindNewMarking(N, m, f)
             s == N.signal[f]
  <1>0. f \in Event(N)
    BY DEF Marking
  <1>1. /\ n \in Marking(N)
        /\ \A u \in Signal(N) \ {s} :
              /\ n.state[u] \in {"0", "R"} <=> m.state[u] \in {"0", "R"}
              /\ n.state[u] \in {"1", "F"} <=> m.state[u] \in {"1", "F"}
    BY <1>0, FiredState
  <1>2. s >= 0 => \A r \in OfEvent(N, f) : \A p \in N.level[r] : p[s] = "X"
    BY <1>0 DEF Simple, OfEvent
  <1>3. s \in Signal(N) => s >= 0
    BY DEF Signal, LoadedNet, NetShape
  <1> HIDE DEF n, s
  <1>4. ASSUME NEW j \in DOMAIN keys
        PROVE  Unsatisfied(N, keys, n.state, f, j) = Unsatisfied(N, keys, m.state, f, j)
    <2> DEFINE a == Undone(N, keys, n.state, j)
               b == Undone(N, keys, m.state, j)
    <2>1. ASSUME NEW u \in Signal(N) \ {s}
          PROVE  /\ a[u] \in {"0", "R"} <=> b[u] \in {"0", "R"}
                 /\ a[u] \in {"1", "F"} <=> b[u] \in {"1", "F"}
      <3> DEFINE c == Cardinality({k \in j .. Len(keys) : N.signal[keys[k]] = u})
      <3>1. /\ a[u] = IF c = 0 THEN n.state[u]
                      ELSE IF (n.state[u] \in {"1", "F"}) # (c % 2 = 1) THEN "1" ELSE "0"
            /\ b[u] = IF c = 0 THEN m.state[u]
                      ELSE IF (m.state[u] \in {"1", "F"}) # (c % 2 = 1) THEN "1" ELSE "0"
        BY DEF Undone
      <3> HIDE DEF a, b, c
      <3>2. /\ n.state[u] \in {"0", "R"} <=> m.state[u] \in {"0", "R"}
            /\ n.state[u] \in {"1", "F"} <=> m.state[u] \in {"1", "F"}
        BY <1>1
      <3>3. CASE c = 0
        BY <3>1, <3>2, <3>3
      <3>4. CASE c # 0
        BY <3>1, <3>2, <3>4
      <3> QED
        BY <3>3, <3>4
    <2> HIDE DEF a, b
    <2>2. ASSUME NEW r \in OfEvent(N, f)
          PROVE  LevelSatisfied(N, r, a) <=> LevelSatisfied(N, r, b)
      <3>1. ASSUME NEW p \in N.level[r], NEW u \in Signal(N)
            PROVE  (/\ p[u] = "1" => a[u] \notin {"0", "R"}
                    /\ p[u] = "0" => a[u] \notin {"1", "F"})
                   <=> (/\ p[u] = "1" => b[u] \notin {"0", "R"}
                        /\ p[u] = "0" => b[u] \notin {"1", "F"})
        <4>1. CASE u = s
          BY <1>2, <1>3, <4>1
        <4>2. CASE u # s
          BY <2>1, <4>2
        <4> QED
          BY <4>1, <4>2
      <3> QED
        BY <3>1 DEF LevelSatisfied
    <2> QED
      BY <2>2 DEF Unsatisfied, a, b
  <1>5. \A j : j \in DOMAIN keys =>
            Unsatisfied(N, keys, n.state, f, j) = Unsatisfied(N, keys, m.state, f, j)
    BY <1>4
  <1>6. {j \in DOMAIN keys : \/ Path(N, keys[j], f) # {}
                             \/ Unsatisfied(N, keys, n.state, f, j) # {}}
            = {j \in DOMAIN keys : \/ Path(N, keys[j], f) # {}
                                   \/ Unsatisfied(N, keys, m.state, f, j) # {}}
    BY <1>5
  <1> QED
    BY <1>6, Zenon DEF Cause, n

(* The times of the keys of a zone and of one more.                        *)
Before(keys, past, x) == [i \in 1 .. (Len(keys) + 1) |-> IF i = Len(keys) + 1 THEN x ELSE -past[i]]

LEMMA ExtendAllowed ==
    ASSUME NEW N, HasBounds(N), NEW m, NEW keys, NEW past, NEW held, NEW now, NEW first,
           Timed(N, m, keys, past, held, now, first), InputsAgree(N, m),
           NEW f, f \in m.enablings, ~Fails(N, m, f), NEW z, Holds(keys, z, past),
           NEW x, x \in Nat, Meets(N, held, f, x), now + x <= INFIN
    PROVE  /\ OneAllowed(N, z, Len(keys), f, FindNewMarking(N, m, f).state, first,
                         Before(keys, past, x))
           /\ z.keys = keys
  <1> DEFINE n == Len(keys)
             t == Before(keys, past, x)
             state == FindNewMarking(N, m, f).state
  <1>1. /\ LoadedNet(N) /\ Simple(N) /\ m \in Marking(N)
        /\ m.enablings = EventsEnabled(N, m.marking, m.state) /\ first \in BOOLEAN
    BY DEF HasBounds, Timed
  <1>2. /\ keys \in Seq(Event(N)) /\ past \in [DOMAIN keys -> Nat] /\ now \in Nat
        /\ \A i \in DOMAIN keys : past[i] <= now
    BY DEF Timed, Past
  <1>3. n \in Nat /\ DOMAIN keys = 1 .. n
    BY <1>2
  <1>4. f \in Event(N) /\ OfEvent(N, f) # {}
    BY <1>1, EnabledRules
  <1>5. z.keys = keys /\ z.clocks \in Matrices(n) /\ Fits(n, z.clocks, Ages(past))
    <2>1. z = [keys |-> keys, clocks |-> z.clocks]
      BY DEF Holds
    <2> QED
      BY <2>1 DEF Holds
  <1> HIDE DEF n
  <1>6. /\ t[n + 1] = x
        /\ \A i \in 1 .. n : t[i] = -past[i] /\ t[i] = Ages(past)[i]
        /\ t \in [1 .. (n + 1) -> Int]
    BY <1>2, <1>3 DEF Before, Ages, n
  <1> HIDE DEF t
  <1>7. t \in Times(n + 1)
    <2> SUFFICES ASSUME NEW i \in 1 .. (n + 1), NEW j \in 1 .. (n + 1)
                 PROVE  t[i] - t[j] <= INFIN
      BY <1>6 DEF Times
    <2>1. i \in 1 .. n \/ i = n + 1
      BY <1>3
    <2>2. j \in 1 .. n \/ j = n + 1
      BY <1>3
    <2>3. t[i] <= x
      BY <1>2, <1>3, <1>6, <2>1
    <2>4. -now <= t[j]
      <3>1. CASE j = n + 1
        BY <1>2, <1>6, <3>1
      <3>2. CASE j \in 1 .. n
        <4>1. past[j] \in Nat /\ past[j] <= now
          BY <1>2, <1>3, <3>2
        <4>2. t[j] = -past[j]
          BY <1>6, <3>2
        <4> QED
          BY <1>2, <4>1, <4>2
      <3> QED
        BY <2>2, <3>1, <3>2
    <2> QED
      BY <1>2, <1>6, <2>3, <2>4 DEF INFIN
  <1>8. Fits(n, z.clocks, t)
    BY <1>5, <1>6 DEF Fits
  <1>9. Allowed(N, keys, state, f, first, t, x)
    <2>1. Allowed(N, keys, m.state, f, first, Ages(past), x)
      BY MeetsAllowed
    <2>2. Cause(N, keys, state, f) = Cause(N, keys, m.state, f)
      BY <1>1, <1>2, CauseAfter
    <2>3. Allowed(N, keys, state, f, first, Ages(past), x)
      <3> HIDE DEF state
      <3> QED
        BY <2>1, <2>2 DEF Allowed
    <2>4. Agree(keys, Ages(past), t)
      BY <1>3, <1>6 DEF Agree
    <2> HIDE DEF state
    <2> QED
      BY <1>2, <2>3, <2>4, AllowedSame
  <1> HIDE DEF state
  <1>10. /\ n = Len(z.keys) /\ z.keys \in Seq(Event(N)) /\ t[n + 1] = x
         /\ Allowed(N, z.keys, state, f, first, t, t[n + 1])
    BY <1>2, <1>5, <1>6, <1>9 DEF n
  <1>11. OneAllowed(N, z, n, f, state, first, t)
    BY <1>1, <1>3, <1>4, <1>5, <1>7, <1>8, <1>10 DEF OneAllowed
  <1> QED
    BY <1>5, <1>11 DEF n, t, state

LEMMA ExtendHolds ==
    ASSUME NEW N, HasBounds(N), NEW m, NEW keys, NEW past, NEW held, NEW now, NEW first,
           Timed(N, m, keys, past, held, now, first), InputsAgree(N, m),
           NEW f, f \in m.enablings, ~Fails(N, m, f), NEW z, Holds(keys, z, past),
           NEW x, x \in Nat, Meets(N, held, f, x), now + x <= INFIN
    PROVE  LET all == ExtendZone(N, z, f, FindNewMarking(N, m, f).state, first)
           IN  /\ all.keys = Append(keys, f)
               /\ all.clocks \in Matrices(Len(keys) + 1)
               /\ Fits(Len(keys) + 1, all.clocks, Before(keys, past, x))
  BY ExtendAllowed, ExtendZoneFits

(* The same for what is left in the matrix of the marking that is explored.*)
LEMMA TightenedHolds ==
    ASSUME NEW N, HasBounds(N), NEW m, NEW keys, NEW past, NEW held, NEW now, NEW first,
           Timed(N, m, keys, past, held, now, first), InputsAgree(N, m),
           NEW f, f \in m.enablings, ~Fails(N, m, f), NEW z, Holds(keys, z, past),
           NEW x, x \in Nat, Meets(N, held, f, x), now + x <= INFIN
    PROVE  Holds(keys, Tightened(z, ExtendZone(N, z, f, FindNewMarking(N, m, f).state, first)),
                 past)
  <1> DEFINE n    == Len(keys)
             all  == ExtendZone(N, z, f, FindNewMarking(N, m, f).state, first)
             rest == [i \in Indices(n) |-> all.clocks[i]]
             new  == Tightened(z, all)
  <1>1. /\ all.clocks \in Matrices(n + 1)
        /\ Fits(n + 1, all.clocks, Before(keys, past, x))
    BY ExtendHolds
  <1>2. z = [keys |-> keys, clocks |-> z.clocks]
    BY DEF Holds
  <1>3. keys \in Seq(Event(N)) /\ past \in [DOMAIN keys -> Nat]
    BY DEF Timed, Past
  <1>4. n \in Nat /\ DOMAIN keys = 1 .. n
    BY <1>3
  <1> HIDE DEF all
  <1>5. new = [z EXCEPT !.clocks = rest]
    <2>1. z.keys = keys
      BY <1>2
    <2> QED
      BY <2>1 DEF Tightened, Size
  <1>6. new = [keys |-> keys, clocks |-> rest] /\ new.clocks = rest
    <2> HIDE DEF new, rest
    <2> QED
      BY <1>2, <1>5
  <1> HIDE DEF n, new
  <1>7. ASSUME NEW i \in 1 .. n, NEW j \in 1 .. n
        PROVE  /\ <<i, j>> \in Indices(n) /\ <<i, j>> \in Indices(n + 1)
               /\ rest[<<i, j>>] \in Int
               /\ Ages(past)[i] - Ages(past)[j] <= rest[<<i, j>>]
    <2>1. /\ <<i, j>> \in Indices(n) /\ <<i, j>> \in Indices(n + 1)
          /\ i \in 1 .. (n + 1) /\ j \in 1 .. (n + 1) /\ i # n + 1 /\ j # n + 1
      BY <1>4 DEF Indices
    <2>2. rest[<<i, j>>] = all.clocks[<<i, j>>] /\ all.clocks[<<i, j>>] \in Int
      BY <1>1, <2>1 DEF Matrices
    <2>3. Before(keys, past, x)[i] = Ages(past)[i] /\ Before(keys, past, x)[j] = Ages(past)[j]
      BY <1>3, <1>4, <2>1 DEF Before, Ages, n
    <2> QED
      BY <1>1, <2>1, <2>2, <2>3 DEF Fits
  <1>8. rest = [i \in Indices(n) |-> rest[i]]
    OBVIOUS
  <1> HIDE DEF rest
  <1>9. rest \in Matrices(n)
    <2>1. \A i \in Indices(n) : rest[i] \in Int
      BY <1>7 DEF Indices
    <2> QED
      BY <1>8, <2>1, Zenon DEF Matrices
  <1>10. Fits(n, rest, Ages(past))
    BY <1>7 DEF Fits
  <1> QED
    BY <1>6, <1>9, <1>10 DEF Holds, n, new, all

(* The run may wait d: no enabled event misses its deadline, and no time   *)
(* reaches INFIN.                                                          *)
Waits(N, m, held, now, d) ==
    /\ d \in Nat
    /\ \A f \in m.enablings : /\ Since(N, held, f) + d <= UpperOf(N, f)
                              /\ LowerOf(N, f) + now + d <= INFIN

(* Then every enabled event can meet its bounds, after d or later.         *)
LEMMA DelayExists ==
    ASSUME NEW N, HasBounds(N), NEW m, NEW keys, NEW past, NEW held, NEW now, NEW first,
           Timed(N, m, keys, past, held, now, first),
           NEW d, Waits(N, m, held, now, d), NEW f, f \in m.enablings
    PROVE  \E x \in Nat : /\ Meets(N, held, f, x) /\ now + x <= INFIN /\ d <= x
                          /\ x = d \/ x = LowerOf(N, f) - Since(N, held, f)
                          /\ LowerOf(N, f) <= Since(N, held, f) + d => x = d
  <1>1. /\ LoadedNet(N) /\ Simple(N) /\ m \in Marking(N)
        /\ m.enablings = EventsEnabled(N, m.marking, m.state)
        /\ held \in [Markable(N) -> Nat] /\ now \in Nat
    BY DEF HasBounds, Timed, Past
  <1>2. OfEvent(N, f) # {}
    BY <1>1, EnabledRules
  <1>3. /\ Since(N, held, f) \in Nat /\ LowerOf(N, f) \in Nat /\ UpperOf(N, f) \in Nat
        /\ LowerOf(N, f) <= UpperOf(N, f)
    BY <1>1, <1>2, SinceIs, BoundsAre
  <1>4. /\ d \in Nat /\ Since(N, held, f) + d <= UpperOf(N, f)
        /\ LowerOf(N, f) + now + d <= INFIN
    BY DEF Waits
  <1>5. CASE LowerOf(N, f) <= Since(N, held, f) + d
    <2>1. Meets(N, held, f, d) /\ now + d <= INFIN /\ d <= d
      BY <1>1, <1>3, <1>4, <1>5 DEF Meets, INFIN
    <2> QED
      BY <1>4, <2>1
  <1>6. CASE Since(N, held, f) + d < LowerOf(N, f)
    <2> DEFINE x == LowerOf(N, f) - Since(N, held, f)
    <2>1. x \in Nat /\ Meets(N, held, f, x) /\ now + x <= INFIN /\ d <= x
      BY <1>1, <1>3, <1>4, <1>6 DEF Meets, INFIN
    <2>2. ~(LowerOf(N, f) <= Since(N, held, f) + d)
      BY <1>3, <1>4, <1>6
    <2> QED
      BY <2>1, <2>2
  <1> QED
    BY <1>3, <1>4, <1>5, <1>6

(* The firings that come before in the fire list leave a zone that still   *)
(* contains the times of the run.                                          *)
LEMMA ZoneBeforeIs ==
    ASSUME HasBounds(net), Timed(net, mk, zone.keys, ago, age, elapsed, initial),
           InputsAgree(net, mk), Holds(zone.keys, zone, ago), fireable \subseteq mk.enablings,
           NEW e, e \in fireable, \A f \in fireable : f <= e => ~Fails(net, mk, f),
           NEW d, Waits(net, mk, age, elapsed, d)
    PROVE  /\ e \in Event(net) /\ e - 1 \in Nat /\ e \in Nat
           /\ \E before :
                 /\ ZoneBefore(e) = before[e - 1] /\ before[0] = zone
                 /\ \A f \in 0 .. (e - 1) : Holds(zone.keys, before[f], ago)
                 /\ \A f \in 1 .. (e - 1) : before[f] = IF f \in fireable
                                                       THEN After(before[f - 1], f)
                                                       ELSE before[f - 1]
  <1> DEFINE Once(y, f) == CHOOSE z \in {After(x, f) : x \in {y}} : z = z
             Step(y, f) == IF f \in fireable THEN Once(y, f) ELSE y
             Is(g)  == g = [f \in 0 .. (e - 1) |->
                               IF f = 0 THEN zone
                               ELSE IF f \in fireable THEN Once(g[f - 1], f) ELSE g[f - 1]]
             before == CHOOSE g : Is(g)
             b      == e - 1
  <1>0. PICK S : \A z : z \in S <=> z \in {[keys |-> zone.keys, clocks |-> c] :
                                             c \in Matrices(Len(zone.keys))}
                                    /\ Holds(zone.keys, z, ago)
    <2> DEFINE T == {z \in {[keys |-> zone.keys, clocks |-> c] : c \in Matrices(Len(zone.keys))} :
                        Holds(zone.keys, z, ago)}
    <2>1. \A z : z \in T <=> z \in {[keys |-> zone.keys, clocks |-> c] :
                                      c \in Matrices(Len(zone.keys))}
                             /\ Holds(zone.keys, z, ago)
      OBVIOUS
    <2> HIDE DEF T
    <2> QED
      BY <2>1
  <1>1. \A z : z \in S <=> Holds(zone.keys, z, ago)
    <2>1. ASSUME NEW z, Holds(zone.keys, z, ago) PROVE z \in S
      <3>1. z = [keys |-> zone.keys, clocks |-> z.clocks]
            /\ z.clocks \in Matrices(Len(zone.keys))
        BY <2>1 DEF Holds
      <3> QED
        BY <1>0, <2>1, <3>1
    <2> QED
      BY <1>0, <2>1
  <1>2. e \in Event(net) /\ b \in Nat /\ e \in Nat
    <2>1. e \in mk.enablings /\ mk.enablings \subseteq Event(net)
      BY DEF Timed, Marking
    <2>2. net.nevents \in Nat
      BY DEF HasBounds, LoadedNet, NetShape
    <2> QED
      BY <2>1, <2>2 DEF Event
  <1>3. ZoneBefore(e) = before[b]
    BY DEF ZoneBefore, With
  <1>4. ASSUME NEW y \in S, NEW f \in 1 .. b PROVE Step(y, f) \in S
    <2>1. CASE f \in fireable
      <3>1. f \in mk.enablings /\ f <= e
        BY <1>2, <2>1
      <3>2. ~Fails(net, mk, f)
        BY <2>1, <3>1
      <3>3. PICK x \in Nat : Meets(net, age, f, x) /\ elapsed + x <= INFIN
        BY <3>1, DelayExists
      <3>4. Holds(zone.keys, y, ago)
        BY <1>1
      <3>5. Holds(zone.keys,
                  Tightened(y, ExtendZone(net, y, f, FindNewMarking(net, mk, f).state, initial)),
                  ago)
        BY <3>1, <3>2, <3>3, <3>4, TightenedHolds
      <3>6. After(y, f) \in S
        BY <1>1, <3>5 DEF After
      <3>7. Once(y, f) = After(y, f)
        OBVIOUS
      <3> QED
        BY <2>1, <3>6, <3>7
    <2>2. CASE f \notin fireable
      BY <2>2
    <2> QED
      BY <2>1, <2>2
  <1> HIDE DEF Once, b
  <1>5. Is(before)
    <2>1. PICK D : D = 0 .. b
      OBVIOUS
    <2>2. PICK G : G = [f \in D |-> [y \in S |-> IF f = 0 THEN y ELSE Step(y, f)]]
      OBVIOUS
    <2>3. \A f \in D \ {0} : f \in 1 .. b /\ f - 1 \in D
      BY <1>2, <2>1
    <2> HIDE DEF Step
    <2>4. \A f \in D : \A y \in S : G[f][y] \in S
      BY <1>4, <2>2, <2>3
    <2>5. PICK g : IsHistory(S, zone, 0, D, G, g)
      <3>1. zone \in S
        BY <1>1
      <3>2. IsLoop(S, zone, 0, b, D, G)
        BY <1>2, <2>1, <2>4, <3>1 DEF IsLoop
      <3> QED
        BY <3>2, HistoryExists
    <2>6. ASSUME NEW f \in D \ {0} PROVE g[f] = Step(g[f - 1], f)
      <3>1. g[f - 1] \in S
        BY <2>3, <2>5 DEF IsHistory
      <3>2. G[f][g[f - 1]] = Step(g[f - 1], f)
        BY <2>2, <3>1
      <3> QED
        BY <2>5, <3>2 DEF IsHistory
    <2>7. Is(g)
      BY <2>1, <2>5, <2>6 DEF IsHistory, Step, b
    <2> HIDE DEF Is
    <2> QED
      BY <2>7
  <1> HIDE DEF before
  <1>6. /\ before[0] = zone
        /\ \A f \in 1 .. b : before[f] = Step(before[f - 1], f)
    <2>1. \A f \in 0 .. b : before[f] = IF f = 0 THEN zone ELSE Step(before[f - 1], f)
      BY <1>5 DEF b
    <2>2. 0 \in 0 .. b /\ \A f \in 1 .. b : f \in 0 .. b /\ f # 0
      BY <1>2
    <2> HIDE DEF Is, Step
    <2> QED
      BY <2>1, <2>2
  <1>7. \A f \in 0 .. b : before[f] \in S
    <2> DEFINE T == {f \in 0 .. b : before[f] \in S}
    <2>1. 0 \in T
      BY <1>1, <1>2, <1>6
    <2> HIDE DEF Step
    <2>2. \A f \in 1 .. b : f - 1 \in T => f \in T
      BY <1>4, <1>6
    <2> HIDE DEF T
    <2>3. 0 .. b \subseteq T
      BY <1>2, <2>1, <2>2, BoundedInduction
    <2> QED
      BY <2>3 DEF T
  <1>8. ASSUME NEW f \in 1 .. b
        PROVE  before[f] = IF f \in fireable THEN After(before[f - 1], f) ELSE before[f - 1]
    <2>1. before[f] = Step(before[f - 1], f)
      BY <1>6
    <2>2. Once(before[f - 1], f) = After(before[f - 1], f)
      BY DEF Once
    <2> QED
      BY <2>1, <2>2
  <1> HIDE DEF Step
  <1> QED
    BY <1>1, <1>2, <1>3, <1>6, <1>7, <1>8 DEF b

LEMMA ZoneBeforeHolds ==
    ASSUME HasBounds(net), Timed(net, mk, zone.keys, ago, age, elapsed, initial),
           InputsAgree(net, mk), Holds(zone.keys, zone, ago), fireable \subseteq mk.enablings,
           NEW e, e \in fireable, \A f \in fireable : f <= e => ~Fails(net, mk, f),
           NEW d, Waits(net, mk, age, elapsed, d)
    PROVE  Holds(zone.keys, ZoneBefore(e), ago)
  <1>1. e - 1 \in Nat
    BY ZoneBeforeIs
  <1>2. PICK before : /\ ZoneBefore(e) = before[e - 1]
                      /\ \A f \in 0 .. (e - 1) : Holds(zone.keys, before[f], ago)
    BY ZoneBeforeIs
  <1>3. e - 1 \in 0 .. (e - 1)
    BY <1>1
  <1> QED
    BY <1>2, <1>3

(* A firing after d: the zone of the marking that it reaches contains the  *)
(* times of the keys it keeps.                                             *)
Projects(N, all, keys, past, m, order) ==
    /\ all.keys = keys /\ keys \in Seq(Event(N)) /\ past \in [DOMAIN keys -> Nat]
    /\ all.clocks \in Matrices(Len(keys)) /\ Fits(Len(keys), all.clocks, Ages(past))
    /\ order = Sorted(Needed(N, keys, m))
    /\ DOMAIN order = 1 .. Len(order) /\ Len(order) \in Nat
    /\ \A i \in DOMAIN order : order[i] \in DOMAIN keys

LEMMA ProjectHolds ==
    ASSUME NEW N, NEW all, NEW keys, NEW past, NEW m, NEW order,
           Projects(N, all, keys, past, m, order)
    PROVE  LET z == ProjectZone(N, all, m)
           IN  /\ z.keys = Select(keys, order)
               /\ Holds(Select(keys, order), z, Select(past, order))
  <1> DEFINE sub  == Submatrix(all.clocks, order)
             some == [keys |-> Select(keys, order), clocks |-> sub]
             Pick(o) == [keys |-> Select(all.keys, o), clocks |-> Submatrix(all.clocks, o)]
             z == ProjectZone(N, all, m)
             c == Len(order)
             past2 == Select(past, order)
  <1>a. /\ all.keys = keys /\ keys \in Seq(Event(N)) /\ past \in [DOMAIN keys -> Nat]
        /\ all.clocks \in Matrices(Len(keys)) /\ Fits(Len(keys), all.clocks, Ages(past))
        /\ order = Sorted(Needed(N, keys, m))
        /\ DOMAIN order = 1 .. Len(order) /\ Len(order) \in Nat
        /\ \A i \in DOMAIN order : order[i] \in DOMAIN keys
    BY DEF Projects
  <1> USE <1>a
  <1>1. z = CHOOSE y \in {Pick(o) : o \in {order}} : y = y
    BY DEF ProjectZone, With
  <1>2. z = some
    <2>1. Pick(order) = some
      OBVIOUS
    <2> HIDE DEF Pick, some, z
    <2> QED
      BY <1>1, <2>1
  <1>3. Len(Select(keys, order)) = c /\ DOMAIN past2 = 1 .. c
    BY DEF Select
  <1>4. ASSUME NEW i \in 1 .. c
        PROVE  order[i] \in 1 .. Len(keys) /\ Ages(past2)[i] = Ages(past)[order[i]]
    BY <1>3 DEF Select, Ages
  <1>5. ASSUME NEW i \in 1 .. c, NEW j \in 1 .. c
        PROVE  /\ sub[<<i, j>>] \in Int
               /\ Ages(past2)[i] - Ages(past2)[j] <= sub[<<i, j>>]
    <2>1. sub[<<i, j>>] = all.clocks[<<order[i], order[j]>>]
      BY DEF Submatrix, Indices
    <2>2. <<order[i], order[j]>> \in Indices(Len(keys))
      BY <1>4 DEF Indices
    <2> HIDE DEF sub
    <2> QED
      BY <1>4, <2>1, <2>2 DEF Matrices, Fits
  <1>6. sub = [x \in Indices(c) |-> sub[x]]
    BY DEF Submatrix
  <1> HIDE DEF sub
  <1>7. sub \in Matrices(c)
    <2>1. \A x \in Indices(c) : sub[x] \in Int
      BY <1>5 DEF Indices
    <2> QED
      BY <1>6, <2>1, Zenon DEF Matrices
  <1>8. Fits(c, sub, Ages(past2))
    BY <1>5 DEF Fits
  <1> HIDE DEF z
  <1>9. z.keys = Select(keys, order) /\ z.clocks = sub /\ z = [keys |-> z.keys, clocks |-> z.clocks]
    BY <1>2
  <1> QED
    BY <1>3, <1>7, <1>8, <1>9 DEF Holds, z

LEMMA FiredHolds ==
    ASSUME NEW N, HasBounds(N), NEW m, NEW keys, NEW past, NEW held, NEW now, NEW first,
           Timed(N, m, keys, past, held, now, first), InputsAgree(N, m),
           NEW e, e \in m.enablings, ~Fails(N, m, e), NEW z, Holds(keys, z, past),
           NEW d, d \in Nat, Meets(N, held, e, d), now + d <= INFIN
    PROVE  LET new   == FindNewMarking(N, m, e)
               all   == ExtendZone(N, z, e, new.state, first)
               z2    == ProjectZone(N, all, new)
               past2 == Select(PastAfter(past, d), Sorted(Needed(N, all.keys, new)))
           IN  /\ Timed(N, new, z2.keys, past2, HeldAfter(N, m, e, held, d), now + d, FALSE)
               /\ Holds(z2.keys, z2, past2)
               /\ Projects(N, all, Append(keys, e), PastAfter(past, d), new,
                           Sorted(Needed(N, all.keys, new)))
  <1> DEFINE new   == FindNewMarking(N, m, e)
             all   == ExtendZone(N, z, e, new.state, first)
             z2    == ProjectZone(N, all, new)
             keys1 == Append(keys, e)
             past1 == PastAfter(past, d)
             held1 == HeldAfter(N, m, e, held, d)
             order == Sorted(Needed(N, keys1, new))
             n     == Len(keys)
  <1>1. /\ LoadedNet(N) /\ Simple(N) /\ m \in Marking(N)
        /\ m.enablings = EventsEnabled(N, m.marking, m.state) /\ e \in Event(N)
        /\ Past(N, m, keys, past, held, now) /\ Explained(N, m, keys, past, held, now)
    BY DEF HasBounds, Timed, Marking
  <1>2. /\ all.keys = keys1 /\ all.clocks \in Matrices(n + 1)
        /\ Fits(n + 1, all.clocks, Before(keys, past, d))
    BY ExtendHolds
  <1>3. /\ Past(N, new, keys1, past1, held1, now + d)
        /\ Explained(N, new, keys1, past1, held1, now + d)
    BY <1>1, FiredPast, FiredExplained
  <1>4. new \in Marking(N) /\ new.enablings = EventsEnabled(N, new.marking, new.state)
    BY <1>1, FiredState
  <1> HIDE DEF all, new, keys1, past1, held1
  <1>5. /\ DOMAIN order = 1 .. Len(order) /\ Len(order) \in Nat
        /\ \A i \in DOMAIN order : order[i] \in DOMAIN keys1
        /\ Past(N, new, Select(keys1, order), Select(past1, order), held1, now + d)
        /\ Explained(N, new, Select(keys1, order), Select(past1, order), held1, now + d)
    BY <1>1, <1>3, <1>4, ProjectedPast
  <1>6. /\ keys1 \in Seq(Event(N)) /\ past1 \in [DOMAIN keys1 -> Nat]
    BY <1>3 DEF Past
  <1>7. Len(keys1) = n + 1 /\ n \in Nat /\ DOMAIN keys = 1 .. n /\ past \in [1 .. n -> Nat]
    BY <1>1 DEF Past, keys1
  <1>8. \A i \in 1 .. (n + 1) : Ages(past1)[i] = Before(keys, past, d)[i] - d
    <2> SUFFICES ASSUME NEW i \in 1 .. (n + 1)
                 PROVE  Ages(past1)[i] = Before(keys, past, d)[i] - d
      OBVIOUS
    <2>1. Ages(past1)[i] = -past1[i]
      BY <1>6, <1>7 DEF Ages
    <2>2. past1[i] = IF i = n + 1 THEN 0 ELSE past[i] + d
      <3> DEFINE older == [k \in DOMAIN past |-> past[k] + d]
      <3>1. older \in Seq(Nat) /\ Len(older) = n /\ \A k \in 1 .. n : older[k] = past[k] + d
        BY <1>7
      <3> HIDE DEF older
      <3>2. past1 = Append(older, 0)
        BY DEF past1, PastAfter, older
      <3>3. i \in 1 .. n \/ i = n + 1
        BY <1>7
      <3> QED
        BY <1>7, <3>1, <3>2, <3>3
    <2>3. Before(keys, past, d)[i] = IF i = n + 1 THEN d ELSE -past[i]
      BY DEF Before
    <2>4. i # n + 1 => past[i] \in Nat
      BY <1>7
    <2> HIDE DEF n
    <2> QED
      BY <2>1, <2>2, <2>3, <2>4
  <1>9. Fits(n + 1, all.clocks, Ages(past1))
    <2> SUFFICES ASSUME NEW i \in 1 .. (n + 1), NEW j \in 1 .. (n + 1)
                 PROVE  Ages(past1)[i] - Ages(past1)[j] <= all.clocks[<<i, j>>]
      BY DEF Fits
    <2> DEFINE bi == Before(keys, past, d)[i]
               bj == Before(keys, past, d)[j]
    <2>1. bi - bj <= all.clocks[<<i, j>>]
      BY <1>2 DEF Fits
    <2>2. bi \in Int /\ bj \in Int
      BY <1>7 DEF Before
    <2>3. Ages(past1)[i] = bi - d /\ Ages(past1)[j] = bj - d
      BY <1>8
    <2> HIDE DEF bi, bj
    <2> QED
      BY <2>1, <2>2, <2>3
  <1>p. Projects(N, all, keys1, past1, new, order)
    BY <1>2, <1>5, <1>6, <1>7, <1>9 DEF Projects
  <1>10. /\ z2.keys = Select(keys1, order)
         /\ Holds(Select(keys1, order), z2, Select(past1, order))
    <2> HIDE DEF order
    <2> QED
      BY <1>p, ProjectHolds
  <1>11. Timed(N, new, z2.keys, Select(past1, order), held1, now + d, FALSE)
    <2> HIDE DEF order, z2
    <2> QED
      BY <1>4, <1>5, <1>10 DEF Timed
  <1> HIDE DEF z2, order
  <1> QED
    BY <1>2, <1>p, <1>10, <1>11 DEF z2, order, new, all, keys1, past1, held1

(* An event that the run can fire next is in the fire list.                *)
LEMMA FireableHolds ==
    ASSUME NEW N, HasBounds(N), NEW m, NEW z, NEW past, NEW held, NEW now, NEW first,
           Timed(N, m, z.keys, past, held, now, first), Holds(z.keys, z, past),
           NEW d, Waits(N, m, held, now, d),
           NEW e, e \in m.enablings, LowerOf(N, e) <= Since(N, held, e) + d
    PROVE  e \in GetFireable(N, z, m, first)
  <1> DEFINE n == Len(z.keys)
             t == Ages(past)
             Chance(f) == {y \in Nat : /\ Meets(N, held, f, y) /\ now + y <= INFIN /\ d <= y
                                       /\ LowerOf(N, f) <= Since(N, held, f) + d => y = d}
             x == [f \in m.enablings |-> CHOOSE y \in Chance(f) : TRUE]
  <1>1. /\ LoadedNet(N) /\ Simple(N) /\ m \in Marking(N)
        /\ m.enablings = EventsEnabled(N, m.marking, m.state)
        /\ m.enablings \subseteq Event(N) /\ first \in BOOLEAN
    BY DEF HasBounds, Timed, Marking
  <1>2. /\ z.keys \in Seq(Event(N)) /\ past \in [DOMAIN z.keys -> Nat] /\ now \in Nat
        /\ \A i \in DOMAIN z.keys : past[i] <= now
    BY DEF Timed, Past
  <1>3. n \in Nat /\ DOMAIN z.keys = 1 .. n
    BY <1>2
  <1>4. ASSUME NEW f \in m.enablings PROVE x[f] \in Chance(f)
    <2>1. Chance(f) # {}
      BY DelayExists
    <2> HIDE DEF Chance
    <2> QED
      BY <2>1
  <1>5. DOMAIN x = m.enablings /\ x = [f \in m.enablings |-> x[f]]
    OBVIOUS
  <1> HIDE DEF x
  <1>6. \A f \in m.enablings : /\ x[f] \in Nat /\ Meets(N, held, f, x[f])
                               /\ now + x[f] <= INFIN /\ d <= x[f]
    BY <1>4
  <1>7. x[e] = d
    BY <1>4
  <1>8. x \in [m.enablings -> Int]
    <2>1. \A f \in m.enablings : x[f] \in Int
      BY <1>6
    <2> QED
      BY <1>5, <2>1, Zenon
  <1>9. t \in [1 .. n -> Int] /\ \A i \in 1 .. n : t[i] <= 0 /\ -now <= t[i]
    <2>1. \A i \in 1 .. n : past[i] \in Nat /\ past[i] <= now
      BY <1>2, <1>3
    <2>2. \A i \in 1 .. n : -past[i] \in Int /\ -past[i] <= 0 /\ -now <= -past[i]
      BY <1>2, <2>1
    <2>3. t = [i \in 1 .. n |-> -past[i]]
      BY <1>2, <1>3 DEF Ages
    <2> HIDE DEF t, n
    <2> QED
      BY <2>2, <2>3
  <1>10. z.clocks \in Matrices(n) /\ Fits(n, z.clocks, t)
    BY DEF Holds
  <1> HIDE DEF t, n, Chance
  <1>11. ASSUME NEW f \in m.enablings
         PROVE  OfEvent(N, f) # {} /\ Allowed(N, z.keys, m.state, f, first, t, x[f])
    <2>1. OfEvent(N, f) # {}
      BY <1>1, EnabledRules
    <2>2. Allowed(N, z.keys, m.state, f, first, Ages(past), x[f])
      BY <1>6, MeetsAllowed
    <2> QED
      BY <2>1, <2>2 DEF t
  <1>12. \A i, j \in 1 .. n : t[i] - t[j] <= INFIN
    <2> SUFFICES ASSUME NEW i \in 1 .. n, NEW j \in 1 .. n PROVE t[i] - t[j] <= INFIN
      OBVIOUS
    <2>1. now <= INFIN
      <3>1. x[e] \in Nat /\ now + x[e] <= INFIN
        BY <1>6
      <3> QED
        BY <1>2, <3>1 DEF INFIN
    <2>2. t[i] \in Int /\ t[i] <= 0 /\ t[j] \in Int /\ -now <= t[j]
      BY <1>9
    <2> QED
      BY <1>2, <2>1, <2>2 DEF INFIN
  <1>13. \A f, g \in m.enablings : x[f] - x[g] <= INFIN
    BY <1>2, <1>6 DEF INFIN
  <1>14. ASSUME NEW i \in 1 .. n, NEW f \in m.enablings
         PROVE  t[i] - x[f] <= INFIN /\ x[f] - t[i] <= INFIN
    BY <1>2, <1>6, <1>9 DEF INFIN
  <1>15. Chosen(N, z, n, m, first, t, x)
    BY <1>1, <1>2, <1>3, <1>8, <1>9, <1>10, <1>11, <1>12, <1>13, <1>14 DEF Chosen, n
  <1>16. \A f \in m.enablings : x[e] <= x[f]
    BY <1>6, <1>7
  <1> QED
    BY <1>15, <1>16, FireableFits

-----------------------------------------------------------------------------
(* Canonical matrices.  The finite entries are at most k, so that no sum   *)
(* of two of them is taken for an infinite one.                            *)
Small(n, clocks, k) ==
    /\ k \in Nat /\ 2 * k < INFIN
    /\ \A a \in 1 .. n : clocks[<<a, a>>] = 0
    /\ \A a, b \in 1 .. n : clocks[<<a, b>>] <= k \/ clocks[<<a, b>>] = INFIN
Closed(n, clocks, m) ==
    \A l \in 1 .. m : \A a, b \in 1 .. n :
        clocks[<<a, b>>] <= Sum(clocks[<<a, l>>], clocks[<<l, b>>])
Canonical(n, clocks, k) == Small(n, clocks, k) /\ Closed(n, clocks, n)

(* The classical step of Floyd's algorithm: after phase m no path through  *)
(* the first m clocks is shorter.                                          *)
LEMMA PhaseCloses ==
    ASSUME NEW n \in Nat, NEW clocks \in Matrices(n), NEW t \in [1 .. n -> Int],
           Fits(n, clocks, t), NEW k, Small(n, clocks, k),
           NEW m \in 1 .. n, Closed(n, clocks, m - 1)
    PROVE  /\ Closed(n, Through(n, clocks, m), m)
           /\ \A a \in 1 .. n : Through(n, clocks, m)[<<a, a>>] = 0
  <1> DEFINE new == Through(n, clocks, m)
  <1>1. ASSUME NEW a \in 1 .. n, NEW b \in 1 .. n
        PROVE  /\ clocks[<<a, b>>] \in Int
               /\ clocks[<<a, b>>] <= k \/ clocks[<<a, b>>] = INFIN
               /\ new[<<a, b>>] = IF clocks[<<a, b>>] > Sum(clocks[<<a, m>>], clocks[<<m, b>>])
                                  THEN Sum(clocks[<<a, m>>], clocks[<<m, b>>])
                                  ELSE clocks[<<a, b>>]
               /\ t[a] - t[b] <= clocks[<<a, b>>]
    BY ThroughIs, ZenonT(30) DEF Matrices, Indices, Small, Fits
  <1>2. k \in Nat /\ 2 * k < INFIN /\ \A a \in 1 .. n : clocks[<<a, a>>] = 0
    BY DEF Small
  <1> HIDE DEF new
  <1>3. ASSUME NEW a \in 1 .. n PROVE new[<<a, a>>] = 0
    <2>1. /\ t[a] \in Int /\ t[m] \in Int
          /\ t[a] - t[m] <= clocks[<<a, m>>] /\ t[m] - t[a] <= clocks[<<m, a>>]
          /\ clocks[<<a, m>>] \in Int /\ clocks[<<m, a>>] \in Int
      BY <1>1
    <2> DEFINE am == clocks[<<a, m>>]
               ma == clocks[<<m, a>>]
    <2>2. new[<<a, a>>] = IF 0 > Sum(am, ma) THEN Sum(am, ma) ELSE 0
      BY <1>1, <1>2
    <2> HIDE DEF am, ma
    <2>3. Sum(am, ma) >= 0 /\ Sum(am, ma) \in Int
      <3>1. /\ t[a] \in Int /\ t[m] \in Int /\ t[a] - t[m] <= am /\ t[m] - t[a] <= ma
            /\ am \in Int /\ ma \in Int
        BY <2>1 DEF am, ma
      <3> QED
        BY <3>1 DEF Sum, INFIN
    <2> QED
      BY <2>2, <2>3
  <1>4. ASSUME NEW l \in 1 .. m, NEW a \in 1 .. n, NEW b \in 1 .. n
        PROVE  new[<<a, b>>] <= Sum(new[<<a, l>>], new[<<l, b>>])
    <2>0. l \in 1 .. n /\ (l \in 1 .. (m - 1) \/ l = m)
      OBVIOUS
    <2> DEFINE ab == clocks[<<a, b>>]
               al == clocks[<<a, l>>]
               lb == clocks[<<l, b>>]
               am == clocks[<<a, m>>]
               mb == clocks[<<m, b>>]
               lm == clocks[<<l, m>>]
               ml == clocks[<<m, l>>]
    <2>1. /\ ab \in Int /\ al \in Int /\ lb \in Int /\ am \in Int
          /\ mb \in Int /\ lm \in Int /\ ml \in Int
          /\ ab <= k \/ ab = INFIN
          /\ al <= k \/ al = INFIN
          /\ lb <= k \/ lb = INFIN
          /\ am <= k \/ am = INFIN
          /\ mb <= k \/ mb = INFIN
          /\ lm <= k \/ lm = INFIN
          /\ ml <= k \/ ml = INFIN
      BY <1>1, <2>0
    <2>2. /\ new[<<a, b>>] = IF ab > Sum(am, mb) THEN Sum(am, mb) ELSE ab
          /\ new[<<a, l>>] = IF al > Sum(am, ml) THEN Sum(am, ml) ELSE al
          /\ new[<<l, b>>] = IF lb > Sum(lm, mb) THEN Sum(lm, mb) ELSE lb
      BY <1>1, <2>0
    <2>3. Sum(lm, ml) >= 0
      <3>1. /\ t[l] \in Int /\ t[m] \in Int /\ lm \in Int /\ ml \in Int
            /\ t[l] - t[m] <= lm /\ t[m] - t[l] <= ml
        BY <1>1, <2>0
      <3> HIDE DEF lm, ml
      <3> QED
        BY <3>1 DEF Sum, INFIN
    <2>4. CASE l = m
      <3>1. /\ al = am /\ lb = mb /\ lm = 0 /\ ml = 0
        BY <1>2, <2>4
      <3> HIDE DEF ab, al, lb, am, mb, lm, ml
      <3> QED
        BY <1>2, <2>1, <2>2, <3>1 DEF Sum, INFIN
    <2>5. CASE l \in 1 .. (m - 1)
      <3>1. ab <= Sum(al, lb) /\ am <= Sum(al, lm) /\ mb <= Sum(ml, lb)
        BY <2>5 DEF Closed
      <3> HIDE DEF ab, al, lb, am, mb, lm, ml
      <3>2. CASE ~(al > Sum(am, ml)) /\ ~(lb > Sum(lm, mb))
        BY <1>2, <2>1, <2>2, <3>1, <3>2, SMTT(20) DEF Sum, INFIN
      <3>3. CASE ~(al > Sum(am, ml)) /\ lb > Sum(lm, mb)
        BY <1>2, <2>1, <2>2, <3>1, <3>3 DEF Sum, INFIN
      <3>4. CASE al > Sum(am, ml) /\ ~(lb > Sum(lm, mb))
        BY <1>2, <2>1, <2>2, <3>1, <3>4 DEF Sum, INFIN
      <3>5. CASE al > Sum(am, ml) /\ lb > Sum(lm, mb)
        BY <1>2, <2>1, <2>2, <2>3, <3>1, <3>5 DEF Sum, INFIN
      <3> QED
        BY <2>1, <3>2, <3>3, <3>4, <3>5
    <2> QED
      BY <2>0, <2>4, <2>5
  <1> QED
    BY <1>3, <1>4 DEF Closed, new

(* A canonical matrix of n clocks, and one clock more: the phase of a      *)
(* clock m of the n changes no entry between the n clocks, and the row of  *)
(* the new one gets its only bound, over the clock j, through j.           *)
Extending(n, c, u, j, t, k, w) ==
    /\ n \in Nat /\ c \in Matrices(n) /\ Canonical(n, c, k)
    /\ u \in Nat /\ w \in Nat /\ (u <= w \/ u = INFIN) /\ 2 * (k + w) < INFIN
    /\ j \in 0 .. n /\ t \in Times(n + 1)

Extension(n, c, u, j, t, m, matrix) ==
    /\ matrix \in Matrices(n + 1) /\ Fits(n + 1, matrix, t)
    /\ Closed(n + 1, matrix, m) /\ matrix[<<n + 1, n + 1>>] = 0
    /\ \A a, b \in 1 .. n : matrix[<<a, b>>] = c[<<a, b>>]
    /\ \A a \in 1 .. n :
          /\ matrix[<<a, n + 1>>] <= 0
          /\ matrix[<<n + 1, a>>] = IF j \in 1 .. m THEN Sum(u, c[<<j, a>>])
                                    ELSE IF a = j THEN u ELSE INFIN

LEMMA ExtensionSmall ==
    ASSUME NEW n, NEW c, NEW u, NEW j, NEW t, NEW k, NEW w, Extending(n, c, u, j, t, k, w),
           NEW m \in 0 .. n, NEW matrix, Extension(n, c, u, j, t, m, matrix)
    PROVE  Small(n + 1, matrix, k + w)
  <1>a. /\ n \in Nat /\ c \in Matrices(n) /\ Canonical(n, c, k)
        /\ u \in Nat /\ w \in Nat /\ (u <= w \/ u = INFIN) /\ 2 * (k + w) < INFIN
        /\ j \in 0 .. n /\ t \in Times(n + 1)
    BY DEF Extending
  <1>b. /\ matrix \in Matrices(n + 1) /\ matrix[<<n + 1, n + 1>>] = 0
        /\ \A a, b \in 1 .. n : matrix[<<a, b>>] = c[<<a, b>>]
        /\ \A a \in 1 .. n :
              /\ matrix[<<a, n + 1>>] <= 0
              /\ matrix[<<n + 1, a>>] = IF j \in 1 .. m THEN Sum(u, c[<<j, a>>])
                                        ELSE IF a = j THEN u ELSE INFIN
    BY DEF Extension
  <1> USE <1>a
  <1>1. k \in Nat /\ k + w \in Nat
    BY DEF Canonical, Small
  <1>2. ASSUME NEW a \in 1 .. n, NEW b \in 1 .. n
        PROVE  /\ c[<<a, b>>] \in Int /\ (c[<<a, b>>] <= k \/ c[<<a, b>>] = INFIN)
               /\ c[<<a, a>>] = 0
    BY DEF Canonical, Small, Matrices, Indices
  <1>3. \A a \in 1 .. (n + 1) : a \in 1 .. n \/ a = n + 1
    OBVIOUS
  <1>4. ASSUME NEW a \in 1 .. (n + 1) PROVE matrix[<<a, a>>] = 0
    BY <1>2, <1>3, <1>b
  <1>5. ASSUME NEW a \in 1 .. n
        PROVE  matrix[<<n + 1, a>>] <= k + w \/ matrix[<<n + 1, a>>] = INFIN
    <2>1. CASE j \in 1 .. m
      <3>1. j \in 1 .. n
        BY <2>1
      <3>2. matrix[<<n + 1, a>>] = Sum(u, c[<<j, a>>])
        BY <1>b, <2>1
      <3> DEFINE ja == c[<<j, a>>]
      <3>3. /\ ja \in Int /\ (ja <= k \/ ja = INFIN) /\ u \in Nat /\ (u <= w \/ u = INFIN)
            /\ k \in Nat /\ w \in Nat
        BY <1>1, <1>2, <3>1
      <3> HIDE DEF ja
      <3>4. Sum(u, ja) <= k + w \/ Sum(u, ja) = INFIN
        BY <3>3 DEF Sum, INFIN
      <3> QED
        BY <3>2, <3>4 DEF ja
    <2>2. CASE j \notin 1 .. m
      <3>1. matrix[<<n + 1, a>>] = u \/ matrix[<<n + 1, a>>] = INFIN
        BY <1>b, <2>2
      <3>2. u <= k + w \/ u = INFIN
        BY <1>1
      <3> QED
        BY <3>1, <3>2
    <2> QED
      BY <2>1, <2>2
  <1>6. ASSUME NEW a \in 1 .. (n + 1), NEW b \in 1 .. (n + 1)
        PROVE  matrix[<<a, b>>] <= k + w \/ matrix[<<a, b>>] = INFIN
    <2>1. CASE a \in 1 .. n /\ b \in 1 .. n
      <3>1. matrix[<<a, b>>] = c[<<a, b>>]
        BY <1>b, <2>1
      <3>2. c[<<a, b>>] \in Int /\ (c[<<a, b>>] <= k \/ c[<<a, b>>] = INFIN)
        BY <1>2, <2>1
      <3>3. c[<<a, b>>] <= k => c[<<a, b>>] <= k + w
        BY <1>1, <3>2
      <3> QED
        BY <3>1, <3>2, <3>3
    <2>2. CASE a \in 1 .. n /\ b = n + 1
      <3>1. matrix[<<a, b>>] <= 0 /\ matrix[<<a, b>>] \in Int
        BY <1>b, <2>2 DEF Matrices, Indices
      <3> QED
        BY <1>1, <3>1
    <2>3. CASE a = n + 1 /\ b \in 1 .. n
      BY <1>5, <2>3
    <2>4. CASE a = n + 1 /\ b = n + 1
      BY <1>1, <1>b, <2>4
    <2> QED
      BY <1>3, <2>1, <2>2, <2>3, <2>4
  <1> QED
    BY <1>1, <1>4, <1>6 DEF Small

LEMMA ExtensionPhase ==
    ASSUME NEW n, NEW c, NEW u, NEW j, NEW t, NEW k, NEW w, Extending(n, c, u, j, t, k, w),
           NEW m \in 1 .. n, NEW matrix, Extension(n, c, u, j, t, m - 1, matrix)
    PROVE  Extension(n, c, u, j, t, m, Through(n + 1, matrix, m))
  <1> DEFINE i == n + 1
             new == Through(i, matrix, m)
  <1>a. /\ n \in Nat /\ c \in Matrices(n) /\ Canonical(n, c, k)
        /\ u \in Nat /\ w \in Nat /\ (u <= w \/ u = INFIN) /\ 2 * (k + w) < INFIN
        /\ j \in 0 .. n /\ t \in Times(n + 1)
    BY DEF Extending
  <1>b. /\ matrix \in Matrices(i) /\ Fits(i, matrix, t)
        /\ Closed(i, matrix, m - 1) /\ matrix[<<i, i>>] = 0
        /\ \A a, b \in 1 .. n : matrix[<<a, b>>] = c[<<a, b>>]
        /\ \A a \in 1 .. n :
              /\ matrix[<<a, i>>] <= 0
              /\ matrix[<<i, a>>] = IF j \in 1 .. (m - 1) THEN Sum(u, c[<<j, a>>])
                                    ELSE IF a = j THEN u ELSE INFIN
    BY DEF Extension
  <1>c. i \in Nat /\ m \in 1 .. i /\ i \in 1 .. i /\ t \in [1 .. i -> Int]
        /\ \A a \in 1 .. n : a \in 1 .. i
    BY <1>a DEF Times
  <1>d. Small(i, matrix, k + w)
    <2>1. m - 1 \in 0 .. n
      BY <1>a
    <2> QED
      BY <2>1, ExtensionSmall
  <1>1. new \in Matrices(i) /\ Fits(i, new, t)
    BY <1>a, <1>b, <1>c, ThroughIs, ThroughFits
  <1>2. Closed(i, new, m) /\ new[<<i, i>>] = 0
    BY <1>b, <1>c, <1>d, PhaseCloses
  <1>3. ASSUME NEW a \in 1 .. i, NEW b \in 1 .. i
        PROVE  /\ new[<<a, b>>] = LET other == Sum(matrix[<<a, m>>], matrix[<<m, b>>])
                                  IN  IF matrix[<<a, b>>] > other THEN other
                                      ELSE matrix[<<a, b>>]
               /\ new[<<a, b>>] \in Int
               /\ matrix[<<a, b>>] \in Int
    <2>1. i \in Nat /\ matrix \in Matrices(i) /\ m \in 1 .. i
      BY <1>b, <1>c
    <2> HIDE DEF new, i
    <2>2. <<a, b>> \in Indices(i)
      BY DEF Indices
    <2>3. new[<<a, b>>] \in Int /\ matrix[<<a, b>>] \in Int
      BY <1>1, <2>1, <2>2 DEF Matrices
    <2>4. new[<<a, b>>] = LET other == Sum(matrix[<<a, m>>], matrix[<<m, b>>])
                          IN  IF matrix[<<a, b>>] > other THEN other ELSE matrix[<<a, b>>]
      BY <2>1, ThroughIs DEF new
    <2> QED
      BY <2>3, <2>4
  <1> HIDE DEF new, i
  <1>4. ASSUME NEW a \in 1 .. n, NEW b \in 1 .. n
        PROVE  /\ c[<<a, b>>] \in Int /\ (c[<<a, b>>] <= k \/ c[<<a, b>>] = INFIN)
               /\ c[<<a, a>>] = 0
               /\ \A l \in 1 .. n : c[<<a, b>>] <= Sum(c[<<a, l>>], c[<<l, b>>])
    BY <1>a DEF Canonical, Small, Closed, Matrices, Indices
  <1>5. k \in Nat
    BY <1>a DEF Canonical, Small
  <1>6. ASSUME NEW a \in 1 .. n, NEW b \in 1 .. n PROVE new[<<a, b>>] = c[<<a, b>>]
    <2>1. /\ matrix[<<a, b>>] = c[<<a, b>>] /\ matrix[<<a, m>>] = c[<<a, m>>]
          /\ matrix[<<m, b>>] = c[<<m, b>>]
      BY <1>b
    <2>2. /\ c[<<a, b>>] \in Int /\ c[<<a, m>>] \in Int /\ c[<<m, b>>] \in Int
          /\ c[<<a, b>>] <= Sum(c[<<a, m>>], c[<<m, b>>])
      BY <1>4
    <2>3. a \in 1 .. i /\ b \in 1 .. i
      BY <1>c
    <2>4. Sum(c[<<a, m>>], c[<<m, b>>]) \in Int
      BY <2>2 DEF Sum, INFIN
    <2> QED
      BY <1>3, <2>1, <2>2, <2>3, <2>4
  <1>7. ASSUME NEW a \in 1 .. n PROVE new[<<a, i>>] <= 0
    <2>1. a \in 1 .. i /\ i \in 1 .. i /\ matrix[<<a, i>>] <= 0
      BY <1>b, <1>c
    <2>2. /\ matrix[<<a, i>>] \in Int /\ matrix[<<a, m>>] \in Int /\ matrix[<<m, i>>] \in Int
      BY <1>3, <1>c, <2>1
    <2>3. Sum(matrix[<<a, m>>], matrix[<<m, i>>]) \in Int
      BY <2>2 DEF Sum, INFIN
    <2> QED
      BY <1>3, <2>1, <2>2, <2>3
  <1>8. ASSUME NEW b \in 1 .. n
        PROVE  new[<<i, b>>] = IF j \in 1 .. m THEN Sum(u, c[<<j, b>>])
                               ELSE IF b = j THEN u ELSE INFIN
    <2> DEFINE ib == matrix[<<i, b>>]
               im == matrix[<<i, m>>]
               mb == c[<<m, b>>]
    <2>1. /\ ib = IF j \in 1 .. (m - 1) THEN Sum(u, c[<<j, b>>])
                  ELSE IF b = j THEN u ELSE INFIN
          /\ im = IF j \in 1 .. (m - 1) THEN Sum(u, c[<<j, m>>])
                  ELSE IF m = j THEN u ELSE INFIN
          /\ matrix[<<m, b>>] = mb
      BY <1>b
    <2>2. /\ new[<<i, b>>] = IF ib > Sum(im, mb) THEN Sum(im, mb) ELSE ib
          /\ ib \in Int /\ im \in Int
      <3>1. i \in 1 .. i /\ b \in 1 .. i /\ m \in 1 .. i
        BY <1>c
      <3> QED
        BY <1>3, <2>1, <3>1
    <2>3. mb \in Int /\ (mb <= k \/ mb = INFIN)
      BY <1>4
    <2> HIDE DEF ib, im, mb
    <2>4. CASE j \notin 1 .. m
      <3>1. im = INFIN /\ (ib = u \/ ib = INFIN) /\ ib = IF b = j THEN u ELSE INFIN
        BY <2>1, <2>4
      <3>2. Sum(im, mb) = INFIN /\ ib <= INFIN
        <4>1. k <= INFIN /\ w <= INFIN
          BY <1>a, <1>5 DEF INFIN
        <4> QED
          BY <1>a, <3>1, <4>1 DEF Sum, INFIN
      <3>3. ~(ib > Sum(im, mb))
        BY <2>2, <3>2 DEF INFIN
      <3> QED
        BY <2>2, <2>4, <3>1, <3>3
    <2>5. CASE j = m
      <3>1. im = u /\ ib = IF b = j THEN u ELSE INFIN
        BY <2>1, <2>5
      <3>2. mb = c[<<j, b>>] /\ (b = j => mb = 0)
        BY <1>4, <2>5 DEF mb
      <3>3. new[<<i, b>>] = Sum(u, mb)
        <4>1. CASE b = j
          <5>1. Sum(im, mb) = u
            BY <1>a, <3>1, <3>2, <4>1 DEF Sum, INFIN
          <5> QED
            BY <1>a, <2>2, <3>1, <3>2, <4>1, <5>1
        <4>2. CASE b # j
          <5>1. ib = INFIN /\ Sum(im, mb) <= INFIN /\ Sum(im, mb) \in Int
            BY <1>5, <1>a, <2>3, <3>1, <4>2 DEF Sum, INFIN
          <5>2. new[<<i, b>>] = Sum(im, mb)
            BY <2>2, <5>1 DEF INFIN
          <5> QED
            BY <3>1, <5>2
        <4> QED
          BY <4>1, <4>2
      <3> QED
        BY <2>5, <3>2, <3>3
    <2>6. CASE j \in 1 .. (m - 1)
      <3> DEFINE jb == c[<<j, b>>]
                 jm == c[<<j, m>>]
      <3>1. j \in 1 .. n /\ j \in 1 .. m
        BY <1>a, <2>6
      <3>2. /\ jb \in Int /\ (jb <= k \/ jb = INFIN) /\ jm \in Int /\ (jm <= k \/ jm = INFIN)
            /\ jb <= Sum(jm, mb)
        BY <1>4, <3>1 DEF mb
      <3>3. ib = Sum(u, jb) /\ im = Sum(u, jm)
        BY <2>1, <2>6
      <3> HIDE DEF jb, jm
      <3>4. ib <= Sum(im, mb)
        BY <1>5, <1>a, <2>3, <3>2, <3>3 DEF Sum, INFIN
      <3>5. Sum(im, mb) \in Int
        BY <2>2, <2>3 DEF Sum, INFIN
      <3>6. new[<<i, b>>] = Sum(u, jb)
        BY <2>2, <3>3, <3>4, <3>5
      <3> QED
        BY <3>1, <3>6 DEF jb
    <2> QED
      <3>1. j \notin 1 .. m \/ j = m \/ j \in 1 .. (m - 1)
        BY <1>a
      <3> QED
        BY <2>4, <2>5, <2>6, <3>1
  <1> QED
    BY <1>1, <1>2, <1>6, <1>7, <1>8 DEF Extension, new, i

LEMMA ExtendCanonical ==
    ASSUME NEW n, NEW c, NEW u, NEW j, NEW t, NEW k, NEW w, Extending(n, c, u, j, t, k, w),
           NEW start, Extension(n, c, u, j, t, 0, start)
    PROVE  Canonical(n + 1, Recanocalize(n + 1, start), k + w)
  <1> DEFINE i == n + 1
  <1>1. /\ n \in Nat /\ i \in Nat /\ i \in 1 .. i /\ start \in Matrices(i)
        /\ t \in [1 .. i -> Int] /\ t \in Times(i) /\ i - 1 = n
    BY DEF Extending, Extension, Times
  <1>2. PICK phase : /\ Recanocalize(i, start) = phase[i]
                     /\ phase[0] = start
                     /\ \A m \in 1 .. i : phase[m] = Through(i, phase[m - 1], m)
    BY <1>1, PhasesOfRecanocalize
  <1> DEFINE T == {m \in 0 .. n : Extension(n, c, u, j, t, m, phase[m])}
  <1>3. 0 \in T
    BY <1>1, <1>2
  <1>4. ASSUME NEW m \in 1 .. n, m - 1 \in T PROVE m \in T
    <2>1. Extension(n, c, u, j, t, m - 1, phase[m - 1])
      BY <1>4
    <2>2. Extension(n, c, u, j, t, m, Through(i, phase[m - 1], m))
      BY <2>1, ExtensionPhase
    <2>3. m \in 1 .. i
      BY <1>1
    <2> QED
      BY <1>1, <1>2, <2>2, <2>3
  <1>5. Extension(n, c, u, j, t, n, phase[n])
    <2> HIDE DEF T
    <2>1. 0 .. n \subseteq T
      BY <1>1, <1>3, <1>4, BoundedInduction
    <2>2. n \in T
      BY <1>1, <2>1
    <2> QED
      BY <2>2 DEF T
  <1> DEFINE old == phase[n]
             new == Through(i, old, i)
  <1>6. Recanocalize(i, start) = new
    BY <1>1, <1>2
  <1>7. /\ old \in Matrices(i) /\ Fits(i, old, t) /\ Closed(i, old, i - 1)
        /\ old[<<i, i>>] = 0 /\ \A a \in 1 .. n : old[<<a, i>>] <= 0
    BY <1>1, <1>5 DEF Extension
  <1>8. Small(i, old, k + w)
    <2>1. n \in 0 .. n
      BY <1>1
    <2> QED
      BY <1>5, <2>1, ExtensionSmall
  <1> HIDE DEF i, old
  <1>9. Closed(i, new, i) /\ \A a \in 1 .. i : new[<<a, a>>] = 0
    BY <1>1, <1>7, <1>8, PhaseCloses
  <1>10. ASSUME NEW a \in 1 .. i, NEW b \in 1 .. i
         PROVE  new[<<a, b>>] <= k + w \/ new[<<a, b>>] = INFIN
    <2>1. /\ old[<<a, b>>] \in Int /\ old[<<a, i>>] \in Int /\ old[<<i, b>>] \in Int
      BY <1>1, <1>7 DEF Matrices, Indices
    <2>2. /\ old[<<a, b>>] <= k + w \/ old[<<a, b>>] = INFIN
          /\ old[<<i, b>>] <= k + w \/ old[<<i, b>>] = INFIN
          /\ k + w \in Nat
      BY <1>1, <1>8 DEF Small
    <2>3. old[<<a, i>>] <= 0
      <3>1. a \in 1 .. n \/ a = i
        BY <1>1 DEF i
      <3> QED
        BY <1>7, <3>1
    <2>4. new[<<a, b>>] = LET other == Sum(old[<<a, i>>], old[<<i, b>>])
                          IN  IF old[<<a, b>>] > other THEN other ELSE old[<<a, b>>]
      BY <1>1, <1>7, ThroughIs
    <2> HIDE DEF new
    <2>5. Sum(old[<<a, i>>], old[<<i, b>>]) <= k + w \/ Sum(old[<<a, i>>], old[<<i, b>>]) = INFIN
      BY <2>1, <2>2, <2>3 DEF Sum, INFIN
    <2> QED
      BY <2>2, <2>4, <2>5
  <1> HIDE DEF new
  <1>11. Small(i, new, k + w)
    BY <1>8, <1>9, <1>10 DEF Small
  <1> QED
    BY <1>6, <1>9, <1>11 DEF Canonical, i

(* A larger bound, and some of the clocks.                                 *)
Fewer(n, clocks, n2, sub, order) ==
    /\ n \in Nat /\ clocks \in Matrices(n) /\ n2 \in Nat
    /\ \A i \in 1 .. n2 : order[i] \in 1 .. n
    /\ \A i, j \in 1 .. n2 : sub[<<i, j>>] = clocks[<<order[i], order[j]>>]

LEMMA CanonicalFewer ==
    ASSUME NEW n, NEW clocks, NEW k, Canonical(n, clocks, k),
           NEW k2 \in Nat, k <= k2, 2 * k2 < INFIN,
           NEW n2, NEW sub, NEW order, Fewer(n, clocks, n2, sub, order)
    PROVE  Canonical(n2, sub, k2)
  <1>a. /\ n \in Nat /\ clocks \in Matrices(n) /\ n2 \in Nat
        /\ \A i \in 1 .. n2 : order[i] \in 1 .. n
        /\ \A i, j \in 1 .. n2 : sub[<<i, j>>] = clocks[<<order[i], order[j]>>]
    BY DEF Fewer
  <1> USE <1>a
  <1>1. ASSUME NEW a \in 1 .. n, NEW b \in 1 .. n
        PROVE  /\ clocks[<<a, b>>] \in Int
               /\ clocks[<<a, b>>] <= k \/ clocks[<<a, b>>] = INFIN
               /\ clocks[<<a, a>>] = 0
               /\ \A l \in 1 .. n : clocks[<<a, b>>] <= Sum(clocks[<<a, l>>], clocks[<<l, b>>])
    BY DEF Canonical, Small, Closed, Matrices, Indices
  <1>2. k \in Nat
    BY DEF Canonical, Small
  <1>3. ASSUME NEW a \in 1 .. n2, NEW b \in 1 .. n2
        PROVE  sub[<<a, a>>] = 0 /\ (sub[<<a, b>>] <= k2 \/ sub[<<a, b>>] = INFIN)
    <2>1. order[a] \in 1 .. n /\ order[b] \in 1 .. n
      OBVIOUS
    <2> DEFINE v == clocks[<<order[a], order[b]>>]
    <2>2. sub[<<a, a>>] = clocks[<<order[a], order[a]>>] /\ sub[<<a, b>>] = v
      OBVIOUS
    <2>3. clocks[<<order[a], order[a]>>] = 0 /\ v \in Int /\ (v <= k \/ v = INFIN)
      BY <1>1, <2>1
    <2>4. v <= k => v <= k2
      BY <1>2, <2>3
    <2> QED
      BY <2>2, <2>3, <2>4
  <1>4. ASSUME NEW l \in 1 .. n2, NEW a \in 1 .. n2, NEW b \in 1 .. n2
        PROVE  sub[<<a, b>>] <= Sum(sub[<<a, l>>], sub[<<l, b>>])
    <2>1. order[a] \in 1 .. n /\ order[b] \in 1 .. n /\ order[l] \in 1 .. n
      OBVIOUS
    <2> QED
      BY <1>1, <2>1, ZenonT(30)
  <1> QED
    BY <1>3, <1>4 DEF Canonical, Small, Closed

(* What lpn_extend_zone does to a canonical zone.                          *)
Bounded(N, f, k, w) ==
    /\ w \in Nat /\ (UpperOf(N, f) <= w \/ UpperOf(N, f) = INFIN) /\ 2 * (k + w) < INFIN

LEMMA ExtendKeepsCanonical ==
    ASSUME NEW N, HasBounds(N), NEW m, NEW keys, NEW past, NEW held, NEW now, NEW first,
           Timed(N, m, keys, past, held, now, first), InputsAgree(N, m),
           NEW f, f \in m.enablings, ~Fails(N, m, f), NEW z, Holds(keys, z, past),
           NEW x, x \in Nat, Meets(N, held, f, x), now + x <= INFIN,
           NEW k, Canonical(Len(keys), z.clocks, k), NEW w, Bounded(N, f, k, w)
    PROVE  Canonical(Len(keys) + 1,
                     ExtendZone(N, z, f, FindNewMarking(N, m, f).state, first).clocks, k + w)
  <1> DEFINE n == Len(keys)
             t == Before(keys, past, x)
             u == UpperOf(N, f)
             state == FindNewMarking(N, m, f).state
             all == ExtendZone(N, z, f, state, first)
  <1>1. OneAllowed(N, z, n, f, state, first, t)
    BY ExtendAllowed
  <1> HIDE DEF n, t, state
  <1>2. PICK start, j : /\ Begun(N, f, n, z.clocks, start, j) /\ Fits(n + 1, start, t)
                        /\ all.clocks = Recanocalize(n + 1, start)
    BY <1>1, ExtendZoneBegins
  <1>3. /\ n \in Nat /\ z.clocks \in Matrices(n) /\ OfEvent(N, f) # {} /\ t \in Times(n + 1)
    BY <1>1 DEF OneAllowed
  <1>4. u \in Nat
    <2>1. PICK r \in OfEvent(N, f) : TRUE
      BY <1>3
    <2> QED
      BY <2>1, BoundsAre
  <1> HIDE DEF u, all
  <1>5. Extending(n, z.clocks, u, j, t, k, w)
    BY <1>2, <1>3, <1>4 DEF Extending, Begun, Bounded, u, n
  <1>6. Extension(n, z.clocks, u, j, t, 0, start)
    <2>1. Closed(n + 1, start, 0)
      BY DEF Closed
    <2>2. j \notin 1 .. 0
      OBVIOUS
    <2>3. /\ start \in Matrices(n + 1) /\ start[<<n + 1, n + 1>>] = 0
          /\ \A a, b \in 1 .. n : start[<<a, b>>] = z.clocks[<<a, b>>]
          /\ \A a \in 1 .. n : /\ start[<<a, n + 1>>] <= 0
                               /\ start[<<n + 1, a>>] = IF a = j THEN u ELSE INFIN
      BY <1>2 DEF Begun, u
    <2> QED
      BY <1>2, <2>1, <2>2, <2>3 DEF Extension
  <1>7. Canonical(n + 1, Recanocalize(n + 1, start), k + w)
    BY <1>5, <1>6, ExtendCanonical
  <1> QED
    BY <1>2, <1>7 DEF all, n, state

LEMMA TightenedCanonical ==
    ASSUME NEW N, HasBounds(N), NEW m, NEW keys, NEW past, NEW held, NEW now, NEW first,
           Timed(N, m, keys, past, held, now, first), InputsAgree(N, m),
           NEW f, f \in m.enablings, ~Fails(N, m, f), NEW z, Holds(keys, z, past),
           NEW x, x \in Nat, Meets(N, held, f, x), now + x <= INFIN,
           NEW k, Canonical(Len(keys), z.clocks, k), NEW w, Bounded(N, f, k, w)
    PROVE  Canonical(Len(keys),
                     Tightened(z, ExtendZone(N, z, f, FindNewMarking(N, m, f).state,
                                             first)).clocks, k + w)
  <1> DEFINE n == Len(keys)
             all == ExtendZone(N, z, f, FindNewMarking(N, m, f).state, first)
             rest == [i \in Indices(n) |-> all.clocks[i]]
             order == [i \in 1 .. n |-> i]
  <1>1. Canonical(n + 1, all.clocks, k + w) /\ all.clocks \in Matrices(n + 1)
    BY ExtendKeepsCanonical, ExtendHolds
  <1>2. n \in Nat
    BY DEF Timed, Past
  <1> HIDE DEF all
  <1>3. Tightened(z, all).clocks = rest
    <2>1. z = [keys |-> keys, clocks |-> z.clocks]
      BY DEF Holds
    <2>2. z.keys = keys
      BY <2>1
    <2>3. Tightened(z, all) = [z EXCEPT !.clocks = rest]
      BY <2>2 DEF Tightened, Size
    <2> HIDE DEF rest
    <2> QED
      BY <2>1, <2>3
  <1> HIDE DEF n
  <1>4. \A i, j \in 1 .. n : rest[<<i, j>>] = all.clocks[<<order[i], order[j]>>]
    BY DEF Indices
  <1>5. \A i \in 1 .. n : order[i] \in 1 .. (n + 1)
    BY <1>2
  <1> HIDE DEF rest, order
  <1>6. k + w \in Nat /\ k + w <= k + w /\ 2 * (k + w) < INFIN /\ n + 1 \in Nat
    BY <1>1, <1>2 DEF Canonical, Small
  <1>7. Canonical(n, rest, k + w)
    <2> DEFINE kw == k + w
               c  == all.clocks
               l  == n + 1
    <2>1. Canonical(l, c, kw) /\ c \in Matrices(l) /\ l \in Nat
          /\ kw \in Nat /\ kw <= kw /\ 2 * kw < INFIN
      BY <1>1, <1>6
    <2>2. /\ \A i, j \in 1 .. n : rest[<<i, j>>] = c[<<order[i], order[j]>>]
          /\ \A i \in 1 .. n : order[i] \in 1 .. l
      BY <1>4, <1>5
    <2> HIDE DEF kw, c, l
    <2>3. Fewer(l, c, n, rest, order)
      BY <1>2, <2>1, <2>2 DEF Fewer
    <2>4. Canonical(n, rest, kw)
      BY <2>1, <2>3, CanonicalFewer
    <2> QED
      BY <2>4 DEF kw
  <1> QED
    BY <1>3, <1>7 DEF n, all

LEMMA CanonicalMore ==
    ASSUME NEW n \in Nat, NEW clocks, NEW k, Canonical(n, clocks, k),
           clocks \in Matrices(n), NEW k2 \in Nat, k <= k2, 2 * k2 < INFIN
    PROVE  Canonical(n, clocks, k2)
  <1>1. \A a, b \in 1 .. n : clocks[<<a, b>>] \in Int
    BY DEF Matrices, Indices
  <1>2. /\ k \in Nat /\ \A a \in 1 .. n : clocks[<<a, a>>] = 0
        /\ \A a, b \in 1 .. n : clocks[<<a, b>>] <= k \/ clocks[<<a, b>>] = INFIN
    BY DEF Canonical, Small
  <1>3. ASSUME NEW a \in 1 .. n, NEW b \in 1 .. n
        PROVE  clocks[<<a, b>>] <= k2 \/ clocks[<<a, b>>] = INFIN
    <2> DEFINE v == clocks[<<a, b>>]
    <2>1. v \in Int /\ (v <= k \/ v = INFIN)
      BY <1>1, <1>2
    <2> HIDE DEF v
    <2>2. v <= k2 \/ v = INFIN
      BY <1>2, <2>1
    <2> QED
      BY <2>2 DEF v
  <1> QED
    BY <1>2, <1>3 DEF Canonical, Small

LEMMA TimesIs ==
    ASSUME NEW a \in Nat, NEW b \in Nat, NEW c \in Nat, b <= c
    PROVE  a * b \in Nat /\ a * c \in Nat /\ a * b <= a * c /\ a * (b + 1) = a * b + a
  <1>1. PICK d \in Nat : c = b + d
    <2>1. c - b \in Nat /\ c = b + (c - b)
      OBVIOUS
    <2> QED
      BY <2>1
  <1>2. a * c = a * b + a * d /\ a * (b + 1) = a * b + a
    BY <1>1
  <1>3. a * b \in Nat /\ a * d \in Nat /\ a * c \in Nat
    BY <1>1
  <1> DEFINE p == a * b
             q == a * d
  <1>4. p + q >= p
    <2>1. p \in Nat /\ q \in Nat
      BY <1>3
    <2> HIDE DEF p, q
    <2> QED
      BY <2>1
  <1> QED
    BY <1>2, <1>3, <1>4

LEMMA ZoneBeforeCanonical ==
    ASSUME HasBounds(net), Timed(net, mk, zone.keys, ago, age, elapsed, initial),
           InputsAgree(net, mk), Holds(zone.keys, zone, ago), fireable \subseteq mk.enablings,
           NEW e, e \in fireable, \A f \in fireable : f <= e => ~Fails(net, mk, f),
           NEW d, Waits(net, mk, age, elapsed, d),
           NEW k, Canonical(Len(zone.keys), zone.clocks, k), NEW w \in Nat,
           2 * (k + w * e) < INFIN,
           \A f \in mk.enablings : UpperOf(net, f) <= w \/ UpperOf(net, f) = INFIN
    PROVE  Canonical(Len(zone.keys), ZoneBefore(e).clocks, k + w * (e - 1))
  <1> DEFINE n == Len(zone.keys)
             b == e - 1
  <1>1. e \in Event(net) /\ b \in Nat /\ e \in Nat
    BY ZoneBeforeIs
  <1>2. PICK before :
           /\ ZoneBefore(e) = before[b] /\ before[0] = zone
           /\ \A f \in 0 .. b : Holds(zone.keys, before[f], ago)
           /\ \A f \in 1 .. b : before[f] = IF f \in fireable THEN After(before[f - 1], f)
                                            ELSE before[f - 1]
    BY ZoneBeforeIs
  <1>3. n \in Nat /\ k \in Nat
    BY DEF Timed, Past, Canonical, Small
  <1> DEFINE T == {f \in 0 .. b : Canonical(n, before[f].clocks, k + w * f)}
  <1>4. 0 \in T
    <2>1. k + w * 0 = k
      BY <1>3
    <2> QED
      BY <1>1, <1>2, <2>1
  <1>5. ASSUME NEW f \in 1 .. b, f - 1 \in T PROVE f \in T
    <2> DEFINE y == before[f - 1]
               p == k + w * (f - 1)
               q == w * e
    <2>1. f - 1 \in 0 .. b /\ f \in 0 .. b /\ f \in Nat /\ f - 1 \in Nat /\ f <= e
      BY <1>1
    <2>2. Canonical(n, y.clocks, p) /\ Holds(zone.keys, y, ago)
      BY <1>2, <1>5, <2>1
    <2>3. p + w = k + w * f /\ p \in Nat /\ w * f \in Nat
      <3>1. w * (f - 1) \in Nat /\ w * ((f - 1) + 1) = w * (f - 1) + w /\ (f - 1) + 1 = f
        BY <2>1, TimesIs
      <3>2. w * f = w * (f - 1) + w
        BY <3>1
      <3> DEFINE r == w * (f - 1)
                 s == w * f
      <3>3. r \in Nat /\ s = r + w
        BY <3>1, <3>2
      <3>4. s \in Nat /\ (k + r) + w = k + s /\ k + r \in Nat
        <4> HIDE DEF r, s
        <4> QED
          BY <1>3, <3>3
      <3> QED
        BY <3>4
    <2>4. 2 * (k + w * f) < INFIN
      <3>1. w * f <= q /\ q \in Nat /\ 2 * (k + q) < INFIN
        BY <1>1, <2>1, TimesIs
      <3> DEFINE r == w * f
      <3>2. r \in Nat /\ r <= q
        BY <2>3, <3>1
      <3>3. 2 * (k + r) < INFIN
        <4> HIDE DEF r, q
        <4> QED
          BY <1>3, <3>1, <3>2 DEF INFIN
      <3> QED
        BY <3>3
    <2>5. 2 * (p + w) < INFIN
      BY <2>3, <2>4
    <2>6. before[f] = IF f \in fireable THEN After(y, f) ELSE y
      BY <1>2
    <2> HIDE DEF y, p, q
    <2>7. Canonical(n, before[f].clocks, p + w)
      <3>1. CASE f \in fireable
        <4>1. f \in mk.enablings /\ ~Fails(net, mk, f)
          BY <2>1, <3>1
        <4>2. PICK x \in Nat : Meets(net, age, f, x) /\ elapsed + x <= INFIN
          BY <4>1, DelayExists
        <4>3. Bounded(net, f, p, w)
          BY <2>5, <4>1 DEF Bounded
        <4>4. Canonical(n, Tightened(y, ExtendZone(net, y, f, FindNewMarking(net, mk, f).state,
                                                   initial)).clocks, p + w)
          BY <2>2, <4>1, <4>2, <4>3, TightenedCanonical
        <4> QED
          BY <2>6, <3>1, <4>4 DEF After
      <3>2. CASE f \notin fireable
        <4>1. y.clocks \in Matrices(n)
          BY <2>2 DEF Holds
        <4>2. p + w \in Nat /\ p <= p + w
          BY <2>3
        <4> HIDE DEF n
        <4>3. Canonical(n, y.clocks, p + w)
          BY <1>3, <2>2, <2>5, <4>1, <4>2, CanonicalMore
        <4> QED
          BY <2>6, <3>2, <4>3
      <3> QED
        BY <3>1, <3>2
    <2> QED
      BY <2>1, <2>3, <2>7
  <1>6. b \in T
    <2> HIDE DEF T, b
    <2>1. 0 .. b \subseteq T
      BY <1>1, <1>4, <1>5, BoundedInduction
    <2> QED
      BY <1>1, <2>1
  <1> QED
    BY <1>2, <1>6

LEMMA ProjectCanonical ==
    ASSUME NEW N, NEW all, NEW keys, NEW past, NEW m, NEW order,
           Projects(N, all, keys, past, m, order),
           NEW k, Canonical(Len(keys), all.clocks, k),
           NEW k2 \in Nat, k <= k2, 2 * k2 < INFIN
    PROVE  LET z == ProjectZone(N, all, m)
           IN  Canonical(Len(z.keys), z.clocks, k2)
  <1> DEFINE sub  == Submatrix(all.clocks, order)
             some == [keys |-> Select(keys, order), clocks |-> sub]
             Pick(o) == [keys |-> Select(all.keys, o), clocks |-> Submatrix(all.clocks, o)]
             z == ProjectZone(N, all, m)
             c == Len(order)
             n == Len(keys)
  <1>a. /\ all.keys = keys /\ keys \in Seq(Event(N))
        /\ all.clocks \in Matrices(n)
        /\ order = Sorted(Needed(N, keys, m))
        /\ DOMAIN order = 1 .. c /\ c \in Nat
        /\ \A i \in DOMAIN order : order[i] \in DOMAIN keys
    BY DEF Projects
  <1>1. z = CHOOSE y \in {Pick(o) : o \in {order}} : y = y
    BY <1>a DEF ProjectZone, With
  <1>2. z = some
    <2>1. Pick(order) = some
      BY <1>a
    <2> HIDE DEF Pick, some, z
    <2> QED
      BY <1>1, <2>1
  <1>3. Len(z.keys) = c /\ z.clocks = sub
    <2>1. z.keys = Select(keys, order) /\ z.clocks = sub
      BY <1>2
    <2> QED
      BY <1>a, <2>1 DEF Select
  <1>4. \A i, j \in 1 .. c : sub[<<i, j>>] = all.clocks[<<order[i], order[j]>>]
    BY DEF Submatrix, Indices
  <1>5. n \in Nat /\ \A i \in 1 .. c : order[i] \in 1 .. n
    BY <1>a
  <1> DEFINE whole == all.clocks
  <1>6. whole \in Matrices(n) /\ Canonical(n, whole, k)
        /\ \A i, j \in 1 .. c : sub[<<i, j>>] = whole[<<order[i], order[j]>>]
    BY <1>a, <1>4
  <1> HIDE DEF z, sub, c, n, whole
  <1>7. Canonical(c, sub, k2)
    <2>1. Fewer(n, whole, c, sub, order)
      BY <1>a, <1>5, <1>6 DEF Fewer, c
    <2> QED
      BY <1>6, <2>1, CanonicalFewer
  <1> QED
    BY <1>3, <1>7 DEF z

(* The initial zone: every event with a token in the initial marking has   *)
(* fired at time 0.                                                        *)
LEMMA InitialHolds ==
    ASSUME NEW N, LoadedNet(N), Simple(N), ~NoInitialMarking(N),
           InputsConsistent(N, N.marked, N.start)
    PROVE  LET m    == InitialMarking(N)
               z    == FindInitialZone(N, m.marking)
               past == [i \in DOMAIN z.keys |-> 0]
               held == [r \in Markable(N) |-> 0]
           IN  /\ Timed(N, m, z.keys, past, held, 0, TRUE) /\ Holds(z.keys, z, past)
               /\ Canonical(Len(z.keys), z.clocks, 0)
  <1> DEFINE m    == InitialMarking(N)
             z    == FindInitialZone(N, m.marking)
             past == [i \in DOMAIN z.keys |-> 0]
             held == [r \in Markable(N) |-> 0]
             old  == {f \in Event(N) : \E r \in m.marking :
                         r = <<f, r[2]>> \/ (r[1] \in Place(N) /\ <<f, r[1]>> \in N.rules)}
             n    == Len(z.keys)
             zero == [x \in Indices(Len(Sorted(old))) |-> 0]
  <1>1. m \in Marking(N) /\ m.enablings = EventsEnabled(N, m.marking, m.state)
    BY InitialValues
  <1>2. z = [keys |-> Sorted(old), clocks |-> zero]
    BY DEF FindInitialZone
  <1>3. Sorted(old) \in Seq(Event(N))
    <2> HIDE DEF old
    <2>1. old \subseteq Event(N)
      BY DEF old
    <2>2. N.nevents - 1 \in Int
      BY DEF LoadedNet, NetShape
    <2>3. IsFiniteSet(1 .. (N.nevents - 1))
      BY <2>2, FS_Interval
    <2>4. old \in SUBSET (1 .. (N.nevents - 1))
      BY <2>1 DEF Event
    <2>5. IsFiniteSet(old) /\ old \subseteq Nat
      <3>1. IsFiniteSet(old)
        BY <2>3, <2>4, FS_Subset
      <3>2. old \subseteq Nat
        BY <2>2, <2>4
      <3> QED
        BY <3>1, <3>2
    <2>6. Cardinality(old) \in Nat /\ Sorted(old) \in [1 .. Cardinality(old) -> old]
      BY <2>5, SortedIs
    <2> QED
      BY <2>1, <2>6
  <1> HIDE DEF m, old, z
  <1>4. /\ z.keys = Sorted(old) /\ z.clocks = zero /\ z = [keys |-> z.keys, clocks |-> z.clocks]
        /\ z.keys \in Seq(Event(N))
    BY <1>2, <1>3
  <1>5. n \in Nat /\ DOMAIN z.keys = 1 .. n
    BY <1>4
  <1>6. Past(N, m, z.keys, past, held, 0)
    BY <1>4 DEF Past
  <1>7. Explained(N, m, z.keys, past, held, 0)
    <2> SUFFICES ASSUME NEW e \in m.enablings PROVE Since(N, held, e) = 0
      BY DEF Explained
    <2>1. OfEvent(N, e) # {} /\ OfEvent(N, e) \subseteq Markable(N)
      BY <1>1, EnabledRules DEF OfEvent
    <2>2. held \in [Markable(N) -> Nat]
      OBVIOUS
    <2>3. PICK r \in OfEvent(N, e) : Since(N, held, e) = held[r]
      BY <2>1, <2>2, SinceIs
    <2> QED
      BY <2>1, <2>3
  <1>8. zero \in Matrices(n) /\ Fits(n, zero, Ages(past))
    <2>1. \A i \in 1 .. n : Ages(past)[i] = 0
      <3>1. DOMAIN past = 1 .. n /\ \A i \in 1 .. n : past[i] = 0
        BY <1>5
      <3> HIDE DEF past, n
      <3>2. \A i \in 1 .. n : Ages(past)[i] = -past[i]
        BY <3>1 DEF Ages
      <3> QED
        BY <3>1, <3>2
    <2>2. zero \in Matrices(n)
      BY <1>4 DEF Matrices
    <2>3. \A i, j \in 1 .. n : zero[<<i, j>>] = 0
      BY <1>4 DEF Indices
    <2> HIDE DEF zero, past, n
    <2> QED
      BY <2>1, <2>2, <2>3 DEF Fits
  <1>9. Holds(z.keys, z, past)
    BY <1>4, <1>8 DEF Holds
  <1>10. Canonical(n, zero, 0)
    <2>1. \A i, j \in 1 .. n : zero[<<i, j>>] = 0
      BY <1>4 DEF Indices
    <2> HIDE DEF zero, n
    <2> QED
      BY <2>1 DEF Canonical, Small, Closed, Sum, INFIN
  <1> QED
    BY <1>1, <1>4, <1>6, <1>7, <1>9, <1>10 DEF Timed, m, z

-----------------------------------------------------------------------------
(* The inductive invariant: the history of the run explains the enabled    *)
(* events by the keys of the zone, the zone contains the times of its      *)
(* keys and is canonical, and the fire list is that of the zone.  A firing *)
(* is preceded by at most those of the other events in the same matrix.    *)
TimedInv ==
    /\ net \in Nets /\ pc \in {"start", "explore"}
    /\ firings \in 0 .. MaxFirings /\ initial = (firings = 0)
    /\ pc = "start" =>
          /\ mk = [marking |-> {}, state |-> net.start, enablings |-> {}]
          /\ zone = NoZone /\ fireable = {} /\ firings = 0
          /\ age = [r \in Markable(net) |-> 0] /\ ago = <<>> /\ elapsed = 0
    /\ pc = "explore" =>
          /\ Timed(net, mk, zone.keys, ago, age, elapsed, initial)
          /\ Holds(zone.keys, zone, ago)
          /\ fireable = GetFireable(net, zone, mk, initial)
          /\ elapsed <= MaxDelay * firings
          /\ Canonical(Len(zone.keys), zone.clocks, MaxBound * (net.nevents * firings))

(* The bounds of the constants keep every time below INFIN.                *)
LEMMA NetHasBounds ==
    ASSUME net \in Nets
    PROVE  HasBounds(net) /\ LoadedNet(net) /\ Simple(net)
  BY NetsAssumption DEF HasBounds

LEMMA WaitsInTime ==
    ASSUME TimedInv, pc = "explore", NEW e, NEW d \in Delays, InTime(e, d)
    PROVE  /\ Waits(net, mk, age, elapsed, d) /\ d \in Nat /\ e \in mk.enablings
           /\ LowerOf(net, e) <= Since(net, age, e) + d /\ Meets(net, age, e, d)
           /\ elapsed + d <= INFIN /\ elapsed + d <= MaxDelay * (firings + 1)
  <1>1. /\ d \in Nat /\ d <= MaxDelay /\ MaxDelay \in Nat /\ MaxFirings \in Nat
        /\ firings \in Nat /\ firings <= MaxFirings
    BY NetsAssumption DEF Delays, TimedInv
  <1>2. /\ \A f : Enabled(f) = Since(net, age, f) /\ Lower(f) = LowerOf(net, f)
                  /\ Upper(f) = UpperOf(net, f)
    BY DEF Enabled, Since, Lower, LowerOf, Upper, UpperOf
  <1>3. /\ e \in mk.enablings /\ Enabled(e) + d >= Lower(e)
        /\ \A f \in mk.enablings : Enabled(f) + d <= Upper(f)
    BY DEF InTime
  <1>4. /\ HasBounds(net) /\ LoadedNet(net) /\ Simple(net) /\ mk \in Marking(net)
        /\ mk.enablings = EventsEnabled(net, mk.marking, mk.state)
        /\ age \in [Markable(net) -> Nat] /\ elapsed \in Nat
    BY NetHasBounds DEF TimedInv, Timed, Past
  <1>5. ASSUME NEW f \in mk.enablings
        PROVE  /\ Since(net, age, f) \in Nat /\ LowerOf(net, f) \in Nat
               /\ UpperOf(net, f) \in Nat
               /\ LowerOf(net, f) + MaxDelay * (MaxFirings + 1) <= INFIN
    <2>1. OfEvent(net, f) # {}
      BY <1>4, EnabledRules
    <2>2. PICK r \in OfEvent(net, f) : TRUE
      BY <2>1
    <2>3. r \in Markable(net)
      BY DEF OfEvent
    <2>4. /\ LowerOf(net, f) = net.lower[r] /\ LowerOf(net, f) \in Nat
          /\ UpperOf(net, f) \in Nat
      BY <1>4, BoundsAre
    <2>5. /\ net.lower[r] <= MaxBound /\ MaxBound \in Nat
          /\ MaxBound + MaxDelay * (MaxFirings + 1) <= INFIN
      BY <2>3, NetsAssumption DEF TimedInv
    <2> DEFINE whole == MaxDelay * (MaxFirings + 1)
    <2>6. whole \in Nat
      BY <1>1
    <2>7. MaxBound + whole <= INFIN
      BY <2>5
    <2> HIDE DEF whole
    <2>8. LowerOf(net, f) + whole <= INFIN
      BY <2>4, <2>5, <2>6, <2>7 DEF INFIN
    <2>9. Since(net, age, f) \in Nat
      BY <1>4, <2>1, SinceIs
    <2> QED
      BY <2>4, <2>8, <2>9 DEF whole
  <1>6. elapsed + d <= MaxDelay * (firings + 1)
    <2>1. elapsed <= MaxDelay * firings
      BY DEF TimedInv
    <2>2. MaxDelay * (firings + 1) = MaxDelay * firings + MaxDelay
      BY <1>1
    <2>3. MaxDelay * firings \in Nat
      BY <1>1
    <2> QED
      BY <1>1, <1>4, <2>1, <2>2, <2>3
  <1>7. MaxDelay * (firings + 1) <= MaxDelay * (MaxFirings + 1)
    <2>1. PICK k \in Nat : MaxFirings = firings + k
      <3>1. MaxFirings - firings \in Nat /\ MaxFirings = firings + (MaxFirings - firings)
        BY <1>1
      <3> QED
        BY <3>1
    <2>2. MaxDelay * (MaxFirings + 1) = MaxDelay * (firings + 1) + MaxDelay * k
      BY <1>1, <2>1
    <2>3. MaxDelay * k \in Nat /\ MaxDelay * (firings + 1) \in Nat
      BY <1>1
    <2> QED
      BY <2>2, <2>3
  <1> DEFINE p == MaxDelay * (firings + 1)
             q == MaxDelay * (MaxFirings + 1)
  <1>8. p \in Nat /\ q \in Nat
    BY <1>1
  <1>9. elapsed + d <= p /\ p <= q /\ \A f \in mk.enablings : LowerOf(net, f) + q <= INFIN
    BY <1>5, <1>6, <1>7
  <1> HIDE DEF p, q
  <1>10. ASSUME NEW f \in mk.enablings
         PROVE  LowerOf(net, f) + elapsed + d <= INFIN /\ elapsed + d <= INFIN
    BY <1>1, <1>4, <1>5, <1>8, <1>9 DEF INFIN
  <1>11. Waits(net, mk, age, elapsed, d)
    BY <1>1, <1>2, <1>3, <1>10 DEF Waits
  <1>12. LowerOf(net, e) <= Since(net, age, e) + d /\ Since(net, age, e) + d <= UpperOf(net, e)
    BY <1>1, <1>2, <1>3, <1>5
  <1> QED
    BY <1>1, <1>3, <1>6, <1>10, <1>11, <1>12 DEF Meets

LEMMA InitialStep ==
    ASSUME TimedInv, InputsAgree(net, mk), FindInitial
    PROVE  TimedInv'
  <1>1. /\ pc = "start" /\ ~NoInitialMarking(net) /\ pc' = "explore"
        /\ mk' = InitialMarking(net) /\ zone' = FindInitialZone(net, mk'.marking)
        /\ fireable' = GetFireable(net, zone', mk', TRUE)
        /\ ago' = [i \in DOMAIN zone'.keys |-> 0]
        /\ net' = net /\ initial' = initial /\ age' = age /\ elapsed' = elapsed
        /\ firings' = firings
    BY DEF FindInitial
  <1>2. /\ net \in Nets /\ LoadedNet(net) /\ Simple(net)
        /\ firings = 0 /\ initial = TRUE /\ elapsed = 0
        /\ age = [r \in Markable(net) |-> 0]
        /\ firings \in 0 .. MaxFirings /\ initial = (firings = 0)
    BY <1>1, NetHasBounds DEF TimedInv
  <1>3. InputsConsistent(net, net.marked, net.start)
    BY DEF InputsAgree
  <1>4. /\ Timed(net, mk', zone'.keys, ago', age', elapsed', initial')
        /\ Holds(zone'.keys, zone', ago')
        /\ Canonical(Len(zone'.keys), zone'.clocks, 0)
    BY <1>1, <1>2, <1>3, InitialHolds
  <1>5. /\ elapsed' <= MaxDelay * firings'
        /\ MaxBound * (net'.nevents * firings') = 0
    <2>1. MaxDelay \in Nat /\ MaxBound \in Nat /\ net.nevents \in Nat
      BY <1>2, NetsAssumption DEF LoadedNet, NetShape
    <2>2. MaxDelay * 0 = 0 /\ net.nevents * 0 = 0 /\ MaxBound * 0 = 0
      BY <2>1
    <2> QED
      BY <1>1, <1>2, <2>2
  <1> QED
    BY <1>1, <1>2, <1>4, <1>5 DEF TimedInv

(* The bounds of the constants keep every sum of entries below INFIN: a    *)
(* firing adds to the entries at most a bound of each event.               *)
LEMMA RoomForFiring ==
    ASSUME net \in Nets, firings \in 0 .. MaxFirings, firings < MaxFirings,
           NEW e, e \in mk.enablings,
           Timed(net, mk, zone.keys, ago, age, elapsed, initial)
    PROVE  LET k  == MaxBound * (net.nevents * firings)
               k2 == MaxBound * (net.nevents * (firings + 1))
           IN  /\ k \in Nat /\ k2 \in Nat /\ 2 * k2 < INFIN
               /\ k + MaxBound * (e - 1) + MaxBound <= k2
               /\ k + MaxBound * e <= k2 /\ 2 * (k + MaxBound * e) < INFIN
               /\ 2 * ((k + MaxBound * (e - 1)) + MaxBound) < INFIN
               /\ k + MaxBound * (e - 1) \in Nat /\ MaxBound \in Nat
  <1> DEFINE v    == net.nevents
             vf   == v * firings
             vf1  == v * (firings + 1)
             most == v * MaxFirings
             k    == MaxBound * vf
             k2   == MaxBound * vf1
             last == MaxBound * most
             be   == MaxBound * e
             bp   == MaxBound * (e - 1)
             bv   == MaxBound * v
  <1>1. /\ MaxBound \in Nat /\ MaxFirings \in Nat /\ v \in Nat /\ 2 * last < INFIN
        /\ firings \in Nat /\ firings + 1 \in Nat /\ firings + 1 <= MaxFirings
    BY NetsAssumption DEF LoadedNet, NetShape
  <1>2. e \in Nat /\ e - 1 \in Nat /\ e <= v /\ (e - 1) + 1 = e
    <2>1. e \in Event(net)
      BY DEF Timed, Marking
    <2> QED
      BY <1>1, <2>1 DEF Event
  <1>3. vf \in Nat /\ vf1 \in Nat /\ most \in Nat /\ vf1 = vf + v /\ vf1 <= most
    <2>1. firings <= firings
      BY <1>1
    <2> HIDE DEF v
    <2> QED
      BY <1>1, <2>1, TimesIs
  <1>4. k \in Nat /\ k2 \in Nat /\ last \in Nat /\ k2 <= last
    <2> HIDE DEF vf, vf1, most
    <2>1. vf <= vf
      BY <1>3
    <2> QED
      BY <1>1, <1>3, <2>1, TimesIs
  <1>5. k2 = k + bv
    <2> HIDE DEF v, vf, vf1
    <2>1. MaxBound * (vf + v) = MaxBound * vf + MaxBound * v
      BY <1>1, <1>3
    <2> QED
      BY <1>3, <2>1
  <1>6. be \in Nat /\ bv \in Nat /\ be <= bv /\ bp \in Nat /\ be = bp + MaxBound
    <2> HIDE DEF v
    <2>1. MaxBound * ((e - 1) + 1) = bp + MaxBound /\ bp \in Nat
      <3>1. e - 1 <= e - 1
        BY <1>2
      <3> QED
        BY <1>1, <1>2, <3>1, TimesIs
    <2>2. be \in Nat /\ bv \in Nat /\ be <= bv
      BY <1>1, <1>2, TimesIs
    <2> QED
      BY <1>2, <2>1, <2>2
  <1> HIDE DEF k, k2, last, be, bp, bv
  <1>7. /\ 2 * k2 < INFIN /\ k + bp + MaxBound <= k2 /\ k + be <= k2
        /\ 2 * (k + be) < INFIN /\ 2 * ((k + bp) + MaxBound) < INFIN /\ k + bp \in Nat
    BY <1>1, <1>4, <1>5, <1>6 DEF INFIN
  <1> QED
    BY <1>1, <1>4, <1>7 DEF k, k2, be, bp, vf, vf1, v

LEMMA UppersBounded ==
    ASSUME net \in Nets, Timed(net, mk, zone.keys, ago, age, elapsed, initial)
    PROVE  \A f \in mk.enablings : UpperOf(net, f) <= MaxBound \/ UpperOf(net, f) = INFIN
  <1> SUFFICES ASSUME NEW f \in mk.enablings
               PROVE  UpperOf(net, f) <= MaxBound \/ UpperOf(net, f) = INFIN
    OBVIOUS
  <1>1. HasBounds(net) /\ LoadedNet(net) /\ Simple(net) /\ mk \in Marking(net)
        /\ mk.enablings = EventsEnabled(net, mk.marking, mk.state)
    BY NetHasBounds DEF Timed
  <1>2. PICK r \in OfEvent(net, f) : TRUE
    <2>1. OfEvent(net, f) # {}
      BY <1>1, EnabledRules
    <2> QED
      BY <2>1
  <1>3. r \in Markable(net) /\ net.upper[r] = UpperOf(net, f)
    BY <1>1, <1>2, BoundsAre DEF OfEvent
  <1> QED
    BY <1>3, NetsAssumption

LEMMA FireStep ==
    ASSUME TimedInv, InputsAgree(net, mk), NEW e \in fireable, Fire(e)
    PROVE  TimedInv'
  <1>1. pc = "explore"
    BY DEF TimedInv
  <1>2. /\ firings < MaxFirings /\ \A f \in fireable : f <= e => ~Fails(net, mk, f)
        /\ mk' = FindNewMarking(net, mk, e) /\ initial' = FALSE
        /\ fireable' = GetFireable(net, zone', mk', FALSE)
        /\ firings' = firings + 1 /\ net' = net /\ pc' = pc
    BY DEF Fire
  <1>3. PICK d \in Delays :
            LET all == ExtendZone(net, ZoneBefore(e), e, mk'.state, initial)
            IN  /\ zone' = ProjectZone(net, all, mk') /\ InTime(e, d)
                /\ Pass(e, d, Sorted(Needed(net, all.keys, mk')))
    BY DEF Fire
  <1> DEFINE new   == FindNewMarking(net, mk, e)
             z     == ZoneBefore(e)
             all   == ExtendZone(net, z, e, new.state, initial)
             order == Sorted(Needed(net, all.keys, new))
  <1>4. /\ net \in Nets /\ HasBounds(net) /\ LoadedNet(net)
        /\ Timed(net, mk, zone.keys, ago, age, elapsed, initial)
        /\ Holds(zone.keys, zone, ago) /\ fireable = GetFireable(net, zone, mk, initial)
        /\ firings \in 0 .. MaxFirings
    BY <1>1, NetHasBounds DEF TimedInv
  <1>5. /\ Waits(net, mk, age, elapsed, d) /\ d \in Nat /\ e \in mk.enablings
        /\ Meets(net, age, e, d) /\ elapsed + d <= INFIN
        /\ elapsed + d <= MaxDelay * (firings + 1)
    BY <1>1, <1>3, WaitsInTime
  <1>6. fireable \subseteq mk.enablings
    <2>1. zone.keys \in Seq(Event(net)) /\ mk.enablings \subseteq Event(net)
      BY <1>4 DEF Timed, Past, Marking
    <2> QED
      BY <1>4, <2>1, FireableEnabled
  <1>7. Holds(zone.keys, z, ago)
    BY <1>2, <1>4, <1>5, <1>6, ZoneBeforeHolds
  <1>8. e \in Nat /\ ~Fails(net, mk, e)
    <2>1. e \in Event(net) /\ net.nevents \in Nat
      BY <1>4, <1>5 DEF Timed, Marking, LoadedNet, NetShape
    <2>2. e \in Nat
      BY <2>1 DEF Event
    <2> QED
      BY <1>2, <2>2
  <1>k. LET k  == MaxBound * (net.nevents * firings)
            k2 == MaxBound * (net.nevents * (firings + 1))
        IN  /\ k \in Nat /\ k2 \in Nat /\ 2 * k2 < INFIN
            /\ k + MaxBound * (e - 1) + MaxBound <= k2
            /\ k + MaxBound * e <= k2 /\ 2 * (k + MaxBound * e) < INFIN
            /\ 2 * ((k + MaxBound * (e - 1)) + MaxBound) < INFIN
            /\ k + MaxBound * (e - 1) \in Nat /\ MaxBound \in Nat
    BY <1>2, <1>4, <1>5, RoomForFiring
  <1>u. \A f \in mk.enablings : UpperOf(net, f) <= MaxBound \/ UpperOf(net, f) = INFIN
    BY <1>4, UppersBounded
  <1>c. LET k == MaxBound * (net.nevents * firings)
        IN  Canonical(Len(zone.keys), z.clocks, k + MaxBound * (e - 1))
    <2> DEFINE k == MaxBound * (net.nevents * firings)
    <2>1. Canonical(Len(zone.keys), zone.clocks, k)
      BY <1>1 DEF TimedInv
    <2>2. 2 * (k + MaxBound * e) < INFIN /\ MaxBound \in Nat
      BY <1>k
    <2> HIDE DEF k
    <2>3. Canonical(Len(zone.keys), ZoneBefore(e).clocks, k + MaxBound * (e - 1))
      BY <1>2, <1>4, <1>5, <1>6, <1>u, <2>1, <2>2, ZoneBeforeCanonical
    <2> QED
      BY <2>3 DEF k
  <1> HIDE DEF z
  <1>d. LET k == MaxBound * (net.nevents * firings)
        IN  Canonical(Len(zone.keys) + 1, all.clocks, k + MaxBound * (e - 1) + MaxBound)
    <2> DEFINE k == MaxBound * (net.nevents * firings) + MaxBound * (e - 1)
    <2>1. Bounded(net, e, k, MaxBound)
      BY <1>k, <1>u, <1>5 DEF Bounded
    <2>2. Canonical(Len(zone.keys), z.clocks, k)
      BY <1>c
    <2> HIDE DEF k
    <2>3. Canonical(Len(zone.keys) + 1, all.clocks, k + MaxBound)
      BY <1>4, <1>5, <1>7, <1>8, <2>1, <2>2, ExtendKeepsCanonical
    <2> QED
      BY <2>3 DEF k
  <1>9. LET z2    == ProjectZone(net, all, new)
            past2 == Select(PastAfter(ago, d), order)
        IN  /\ Timed(net, new, z2.keys, past2, HeldAfter(net, mk, e, age, d), elapsed + d, FALSE)
            /\ Holds(z2.keys, z2, past2)
            /\ Projects(net, all, Append(zone.keys, e), PastAfter(ago, d), new, order)
    BY <1>4, <1>5, <1>7, <1>8, FiredHolds
  <1>10. /\ zone' = ProjectZone(net, all, new) /\ mk' = new
         /\ ago' = Select(PastAfter(ago, d), order)
         /\ age' = HeldAfter(net, mk, e, age, d) /\ elapsed' = elapsed + d
    BY <1>2, <1>3 DEF Pass, PastAfter, HeldAfter, z
  <1> HIDE DEF new, all, order
  <1>11. /\ Timed(net, mk', zone'.keys, ago', age', elapsed', FALSE)
         /\ Holds(zone'.keys, zone', ago')
    BY <1>9, <1>10
  <1>12. /\ firings' \in 0 .. MaxFirings /\ firings' # 0 /\ elapsed' <= MaxDelay * firings'
    BY <1>2, <1>4, <1>5, <1>10, NetsAssumption
  <1>13. Canonical(Len(zone'.keys), zone'.clocks, MaxBound * (net'.nevents * firings'))
    <2> DEFINE k  == MaxBound * (net.nevents * firings) + MaxBound * (e - 1) + MaxBound
               k2 == MaxBound * (net.nevents * (firings + 1))
    <2>1. Projects(net, all, Append(zone.keys, e), PastAfter(ago, d), new, order)
      BY <1>9
    <2>2. Len(Append(zone.keys, e)) = Len(zone.keys) + 1
      BY <1>4 DEF Timed, Past
    <2>3. k2 \in Nat /\ k <= k2 /\ 2 * k2 < INFIN
      BY <1>k
    <2>4. Canonical(Len(Append(zone.keys, e)), all.clocks, k)
      BY <1>d, <2>2
    <2> HIDE DEF k, k2
    <2>5. Canonical(Len(zone'.keys), zone'.clocks, k2)
      BY <1>10, <2>1, <2>3, <2>4, ProjectCanonical
    <2> QED
      BY <1>2, <2>5 DEF k2
  <1> QED
    BY <1>1, <1>2, <1>4, <1>11, <1>12, <1>13 DEF TimedInv

(* The invariant holds along every timed run of a net of the class, as     *)
(* long as the environment never enables an input to take the value it     *)
(* has: the code checks this of outputs only, and the enablings it keeps   *)
(* would not be those of the state it keeps.                               *)
THEOREM TimedInvariance == Spec /\ []InputsAgree(net, mk) => []TimedInv
  <1>1. Init => TimedInv
    <2> SUFFICES ASSUME Init PROVE TimedInv
      OBVIOUS
    <2>1. /\ net \in Nets /\ pc = "start" /\ pc # "explore" /\ initial = TRUE /\ firings = 0
          /\ mk = [marking |-> {}, state |-> net.start, enablings |-> {}]
          /\ zone = NoZone /\ fireable = {}
          /\ age = [r \in Markable(net) |-> 0] /\ ago = <<>> /\ elapsed = 0
      BY DEF Init
    <2>2. 0 \in 0 .. MaxFirings
      BY NetsAssumption
    <2> QED
      BY <2>1, <2>2 DEF TimedInv
  <1>2. TimedInv /\ InputsAgree(net, mk) /\ [Next]_vars => TimedInv'
    <2> SUFFICES ASSUME TimedInv, InputsAgree(net, mk), [Next]_vars PROVE TimedInv'
      OBVIOUS
    <2>1. CASE FindInitial
      BY <2>1, InitialStep
    <2>2. ASSUME NEW e \in fireable, Fire(e) PROVE TimedInv'
      BY <2>2, FireStep
    <2>3. CASE UNCHANGED vars
      BY <2>3 DEF vars, TimedInv
    <2> QED
      BY <2>1, <2>2, <2>3 DEF Next
  <1> QED
    BY <1>1, <1>2, PTL DEF Spec

(* The matrix, the keys and the history of a zone have the same size all   *)
(* along: what lpn_extend_zone adds and lpn_project_zone removes.          *)
THEOREM TimedTypeCorrect == Spec /\ []InputsAgree(net, mk) => []TypeOK
  <1>1. TimedInv => TypeOK
    <2> SUFFICES ASSUME TimedInv PROVE TypeOK
      OBVIOUS
    <2>1. net \in Nets /\ LoadedNet(net) /\ pc \in {"start", "explore"} /\ initial = (firings = 0)
      BY NetHasBounds DEF TimedInv
    <2>2. CASE pc = "start"
      <3>1. /\ mk = [marking |-> {}, state |-> net.start, enablings |-> {}]
            /\ zone = NoZone /\ fireable = {} /\ ago = <<>>
        BY <2>2 DEF TimedInv
      <3>2. mk \in Marking(net)
        BY <2>1, <3>1 DEF LoadedNet, NetShape, Marking, Codes, Values
      <3>3. zone.keys = <<>> /\ zone.clocks = <<>> /\ Size(zone) = 0 /\ Indices(0) = {}
        BY <3>1 DEF NoZone, Size, Indices
      <3> QED
        BY <2>1, <3>1, <3>2, <3>3 DEF TypeOK
    <2>3. CASE pc = "explore"
      <3>1. /\ mk \in Marking(net) /\ zone.keys \in Seq(Event(net))
            /\ ago \in [DOMAIN zone.keys -> Nat]
            /\ zone.clocks \in Matrices(Size(zone))
            /\ fireable = GetFireable(net, zone, mk, initial)
        BY <2>3 DEF TimedInv, Timed, Past, Holds, Size
      <3>2. fireable \subseteq mk.enablings
        <4>1. mk.enablings \subseteq Event(net)
          BY <3>1 DEF Marking
        <4> QED
          BY <2>1, <3>1, <4>1, FireableEnabled
      <3> QED
        BY <2>1, <3>1, <3>2 DEF TypeOK, Matrices
    <2> QED
      BY <2>1, <2>2, <2>3
  <1> QED
    BY <1>1, TimedInvariance, PTL

(* BIG ASSUMPTION: LATEST EVENT IS CAUSAL, as lpn_find_causal says: in the *)
(* nets of the class it is right.  The key it takes for the cause of an    *)
(* enabled event fired when the event became enabled, although the zone    *)
(* stores neither and forgets the keys that are not needed.                *)
THEOREM CausesAreRight == Spec /\ []InputsAgree(net, mk) => []CausesRight
  <1>1. TimedInv => CausesRight
    <2> SUFFICES ASSUME TimedInv, NEW e \in mk.enablings
                 PROVE  LET j == Cause(net, zone.keys, mk.state, e)
                        IN  Enabled(e) = IF j = 0 THEN elapsed ELSE ago[j]
      BY DEF CausesRight
    <2>1. pc = "explore"
      BY DEF TimedInv
    <2>2. /\ LoadedNet(net) /\ Simple(net) /\ mk \in Marking(net)
          /\ mk.enablings = EventsEnabled(net, mk.marking, mk.state)
          /\ Past(net, mk, zone.keys, ago, age, elapsed)
          /\ Explained(net, mk, zone.keys, ago, age, elapsed)
      BY <2>1, NetHasBounds DEF TimedInv, Timed
    <2>3. Enabled(e) = Since(net, age, e)
      BY DEF Enabled, Since
    <2> QED
      BY <2>2, <2>3, CauseRight
  <1> QED
    BY <1>1, TimedInvariance, PTL

(* The zone that lpn_extend_zone and lpn_project_zone compute on the path  *)
(* of a timed run contains the times of the run: the exploration cuts off  *)
(* no run, whatever was fired before in the matrix of the same marking.    *)
THEOREM ZonesContainTimes == Spec /\ []InputsAgree(net, mk) => []TimesInZone
  <1>1. TimedInv => TimesInZone
    <2> SUFFICES ASSUME TimedInv, NEW i \in DOMAIN ago, NEW j \in DOMAIN ago
                 PROVE  ago[j] - ago[i] <= zone.clocks[<<i, j>>]
      BY DEF TimesInZone
    <2>1. CASE pc = "start"
      BY <2>1 DEF TimedInv
    <2>2. CASE pc = "explore"
      <3>1. /\ zone.keys \in Seq(Event(net)) /\ ago \in [DOMAIN zone.keys -> Nat]
            /\ Fits(Len(zone.keys), zone.clocks, Ages(ago))
        BY <2>2 DEF TimedInv, Timed, Past, Holds
      <3>2. i \in 1 .. Len(zone.keys) /\ j \in 1 .. Len(zone.keys)
        BY <3>1
      <3>3. Ages(ago)[i] - Ages(ago)[j] <= zone.clocks[<<i, j>>]
        BY <3>1, <3>2 DEF Fits
      <3>4. /\ Ages(ago)[i] = -ago[i] /\ Ages(ago)[j] = -ago[j]
            /\ ago[i] \in Nat /\ ago[j] \in Nat
        BY <3>1 DEF Ages
      <3>5. Ages(ago)[i] - Ages(ago)[j] = ago[j] - ago[i]
        BY <3>4
      <3> QED
        BY <3>3, <3>5
    <2> QED
      BY <2>1, <2>2 DEF TimedInv
  <1> QED
    BY <1>1, TimedInvariance, PTL

(* Every event that the run can fire next, after some delay, is in the     *)
(* fire list of lpn_get_fireable.                                          *)
THEOREM NothingFireableIsLeftOut == Spec /\ []InputsAgree(net, mk) => []FireableInTime
  <1>1. TimedInv => FireableInTime
    <2> SUFFICES ASSUME TimedInv, NEW e \in mk.enablings, NEW d \in Delays, InTime(e, d)
                 PROVE  e \in fireable
      BY DEF FireableInTime
    <2>1. pc = "explore"
      BY DEF TimedInv
    <2>2. /\ HasBounds(net) /\ Timed(net, mk, zone.keys, ago, age, elapsed, initial)
          /\ Holds(zone.keys, zone, ago) /\ fireable = GetFireable(net, zone, mk, initial)
      BY <2>1, NetHasBounds DEF TimedInv
    <2>3. /\ Waits(net, mk, age, elapsed, d)
          /\ LowerOf(net, e) <= Since(net, age, e) + d
      BY <2>1, WaitsInTime
    <2> QED
      BY <2>2, <2>3, FireableHolds
  <1> QED
    BY <1>1, TimedInvariance, PTL

(* The zones that are stored and compared entry by entry are canonical, as *)
(* lpn_recanocalize_zone leaves them: removing clocks keeps them so, and   *)
(* none is found inconsistent.                                             *)
THEOREM ZonesAreCanonical == Spec /\ []InputsAgree(net, mk) => []ZoneCanonical
  <1>1. TimedInv => ZoneCanonical
    <2> SUFFICES ASSUME TimedInv, NEW i \in DOMAIN zone.keys, NEW j \in DOMAIN zone.keys,
                        NEW k \in DOMAIN zone.keys
                 PROVE  /\ zone.clocks[<<i, i>>] = 0
                        /\ zone.clocks[<<i, j>>] <=
                              Sum(zone.clocks[<<i, k>>], zone.clocks[<<k, j>>])
      BY DEF ZoneCanonical
    <2>1. CASE pc = "start"
      BY <2>1 DEF TimedInv, NoZone
    <2>2. CASE pc = "explore"
      <3>1. zone.keys \in Seq(Event(net))
        BY <2>2 DEF TimedInv, Timed, Past
      <3>2. Canonical(Len(zone.keys), zone.clocks, MaxBound * (net.nevents * firings))
        BY <2>2 DEF TimedInv
      <3>3. i \in 1 .. Len(zone.keys) /\ j \in 1 .. Len(zone.keys) /\ k \in 1 .. Len(zone.keys)
        BY <3>1
      <3> QED
        BY <3>2, <3>3 DEF Canonical, Small, Closed
    <2> QED
      BY <2>1, <2>2 DEF TimedInv
  <1> QED
    BY <1>1, TimedInvariance, PTL

=============================================================================
