-------------------------- MODULE FatVolume_proofs --------------------------
(***************************************************************************)
(* Proofs about FatVolume, for any volume, any paths, any number of file   *)
(* objects and calls of any size: no cluster is in two files and none is   *)
(* lost, only stale readers get errors, and a write is short only when the *)
(* volume is full.                                                         *)
(*                                                                         *)
(* In the order of the module: the table and its chains; the allocator;    *)
(* directories and their slots; the tree of directories and files; the     *)
(* invariant; then one call after the other, f_write and f_read pass by    *)
(* pass. v is a volume before a change, w the one after it, F and G are    *)
(* file objects by handle, C is a set of chains with their owners.         *)
(***************************************************************************)
EXTENDS FatVolume, FiniteSetTheorems, TLAPS

(* A finite set of integers that is not empty has a smallest element: the  *)
(* one for which the set of smaller ones is minimal.                       *)
LEMMA SmallestElement ==
  ASSUME NEW S \in SUBSET Int, IsFiniteSet(S), S # {}
  PROVE  \E m \in S : \A x \in S : m <= x
<1> DEFINE Below(x) == {y \in S : y < x}
           T == {Below(x) : x \in S}
<1>1. T \subseteq FiniteSubsetsOf(S)
  BY FS_Subset DEF FiniteSubsetsOf
<1>2. T # {}
  OBVIOUS
<1>3. PICK U \in T : \A V \in T : ~(<<V, U>> \in StrictSubsetOrdering(S))
  BY <1>1, <1>2, FS_StrictSubsetOrderingWellFounded, WFMin
<1>4. PICK m \in S : U = Below(m)
  OBVIOUS
<1>5. ASSUME NEW x \in S, x < m PROVE FALSE
  <2>1. \A y \in S : y \in Int
    OBVIOUS
  <2>2. Below(x) \subseteq Below(m)
    <3>1. ASSUME NEW y \in S, y < x PROVE y < m
      BY <1>5, <2>1, <3>1
    <3> QED
      BY <3>1
  <2>3. x \in Below(m) /\ x \notin Below(x)
    BY <1>5, <2>1
  <2>4. <<Below(x), U>> \in StrictSubsetOrdering(S)
    BY <2>2, <2>3, <1>4 DEF StrictSubsetOrdering
  <2> QED
    BY <2>4, <1>3
<1> QED
  BY <1>5

(* So does every set of integers between two others.                       *)
LEMMA Between ==
  ASSUME NEW a \in Int, NEW b \in Int, NEW S \in SUBSET (a .. b)
  PROVE  IsFiniteSet(S) /\ S \in SUBSET Int
<1>1. IsFiniteSet(a .. b) /\ (a .. b) \subseteq Int
  BY FS_Interval
<1> QED
  BY <1>1, FS_Subset

(* Min of two numbers. *)
LEMMA MinOfTwo ==
  ASSUME NEW a \in Nat, NEW b \in Nat
  PROVE  /\ Min({a, b}) \in {a, b} /\ Min({a, b}) <= a /\ Min({a, b}) <= b
         /\ Min({a, b}) \in Nat
<1>1. \E x \in {a, b} : \A y \in {a, b} : x <= y
  BY a <= b \/ b <= a
<1>2. Min({a, b}) \in {a, b} /\ \A y \in {a, b} : Min({a, b}) <= y
  BY <1>1 DEF Min
<1> QED
  BY <1>2

(* Max of two numbers. *)
LEMMA MaxOfTwo ==
  ASSUME NEW a \in Int, NEW b \in Int
  PROVE  Max({a, b}) = IF a < b THEN b ELSE a
<1>1. \E x \in {a, b} : \A y \in {a, b} : x >= y
  BY a <= b \/ b <= a
<1>2. Max({a, b}) \in {a, b} /\ \A y \in {a, b} : Max({a, b}) >= y
  BY <1>1 DEF Max
<1> QED
  BY <1>2

(* Induction for a set: what holds 0, and with n also n + 1, holds Nat. No *)
(* operator is a parameter, so that the provers can use it.                *)
LEMMA CountUp ==
  ASSUME NEW S, 0 \in S, \A n \in Nat : n \in S => n + 1 \in S
  PROVE  Nat \subseteq S
<1> SUFFICES ASSUME NEW x \in Nat, x \notin S PROVE FALSE
  OBVIOUS
<1> DEFINE out == {n \in 0 .. x : n \notin S}
<1>1. PICK m \in out : \A n \in out : m <= n
  <2>1. out \in SUBSET (0 .. x) /\ x \in out /\ 0 \in Int /\ x \in Int
    OBVIOUS
  <2> HIDE DEF out
  <2>2. IsFiniteSet(out) /\ out \in SUBSET Int
    BY <2>1, Between
  <2> QED
    BY <2>1, <2>2, SmallestElement
<1>2. m # 0 /\ m \in Nat /\ m - 1 \in Nat
  OBVIOUS
<1>3. m - 1 \in S
  BY <1>1, <1>2
<1> QED
  BY <1>2, <1>3

-----------------------------------------------------------------------------
(* The table and its chains.                                               *)

(* What VolumeConstants says, in the forms the proofs use.                 *)
LEMMA Constants ==
  /\ NFat \in Nat /\ NFat > 3 /\ NRoot \in Nat /\ NRoot > 0 /\ SS \in Nat /\ SS > 0
  /\ PerSector \in Nat /\ PerSector > 2 /\ MaxUnits \in Nat /\ MaxMade \in Nat
  /\ EOC \notin Clusters /\ 0 \notin Clusters /\ EOC \in Nat /\ EOC # 0
  /\ Clusters \subseteq Nat /\ \A c \in Clusters : c >= 2 /\ c < NFat
BY VolumeConstants DEF Clusters, EOC

(* The recursive function Walk is what its definition says: there is a     *)
(* function for every number of steps.                                     *)
LEMMA WalkDef ==
  ASSUME NEW v, NEW c
  PROVE  Walk(v, c) = [k \in 0 .. NFat |->
                         IF k = 0 THEN c ELSE GetFat(v, Walk(v, c)[k - 1])]
<1> DEFINE Is(g, n) == g = [k \in 0 .. n |-> IF k = 0 THEN c ELSE GetFat(v, g[k - 1])]
           S == {n \in Nat : \E g : Is(g, n)}
<1>1. 0 \in S
  <2>1. Is([k \in 0 .. 0 |-> c], 0)
    OBVIOUS
  <2> QED
    BY <2>1
<1>2. ASSUME NEW n \in Nat, n \in S PROVE n + 1 \in S
  <2>1. PICK g : Is(g, n)
    BY <1>2
  <2> DEFINE h == [k \in 0 .. n + 1 |-> IF k = n + 1 THEN GetFat(v, g[n]) ELSE g[k]]
  <2>2. ASSUME NEW k \in 0 .. n + 1
        PROVE  h[k] = IF k = 0 THEN c ELSE GetFat(v, h[k - 1])
    <3>1. CASE k = n + 1
      <4>1. h[k] = GetFat(v, g[n]) /\ k - 1 = n /\ n \in 0 .. n + 1 /\ n # n + 1
        BY <3>1
      <4>2. h[n] = g[n]
        BY <4>1
      <4> QED
        BY <3>1, <4>1, <4>2
    <3>2. CASE k # n + 1 /\ k # 0
      <4>1. k \in 0 .. n /\ k - 1 \in 0 .. n + 1 /\ k - 1 # n + 1 /\ k - 1 \in 0 .. n
        BY <3>2
      <4>2. h[k] = g[k] /\ h[k - 1] = g[k - 1]
        BY <3>2, <4>1
      <4>3. g[k] = GetFat(v, g[k - 1])
        BY <2>1, <3>2, <4>1
      <4> QED
        BY <3>2, <4>2, <4>3
    <3>3. CASE k = 0 /\ k # n + 1
      <4>1. h[k] = g[k] /\ g[k] = c
        BY <2>1, <3>3
      <4> QED
        BY <3>3, <4>1
    <3> QED
      BY <3>1, <3>2, <3>3
  <2>3. Is(h, n + 1)
    BY <2>2
  <2> HIDE DEF h, Is
  <2> QED
    BY <2>3
<1>3. NFat \in S
  <2> HIDE DEF S
  <2> QED
    BY <1>1, <1>2, CountUp, Constants
<1>4. \E g : g = [k \in 0 .. NFat |-> IF k = 0 THEN c ELSE GetFat(v, g[k - 1])]
  BY <1>3
<1> DEFINE at == CHOOSE g : g = [k \in 0 .. NFat |-> IF k = 0 THEN c ELSE GetFat(v, g[k - 1])]
<1>5. at = [k \in 0 .. NFat |-> IF k = 0 THEN c ELSE GetFat(v, at[k - 1])]
  <2> HIDE DEF at
  <2> QED
    BY <1>4 DEF at
<1>6. Walk(v, c) = at
  BY DEF Walk
<1> HIDE DEF at
<1> QED
  BY <1>5, <1>6

(* The same, step by step.                                                 *)
LEMMA WalkAt ==
  ASSUME NEW v, NEW c
  PROVE  /\ Walk(v, c)[0] = c
         /\ \A k \in 1 .. NFat : Walk(v, c)[k] = GetFat(v, Walk(v, c)[k - 1])
<1> DEFINE at == Walk(v, c)
<1> HIDE DEF at
<1>1. at = [k \in 0 .. NFat |-> IF k = 0 THEN c ELSE GetFat(v, at[k - 1])]
  BY WalkDef DEF at
<1>2. at[0] = c /\ \A k \in 1 .. NFat : at[k] = GetFat(v, at[k - 1])
  BY <1>1, Constants
<1> QED
  BY <1>2 DEF at

(* How long a chain is.                                                    *)
LEMMA ChainLength ==
  ASSUME NEW v, NEW c
  PROVE  \E n \in 0 .. NFat :
            /\ Chain(v, c) = [k \in 1 .. n |-> Walk(v, c)[k - 1]]
            /\ n = NFat \/ Walk(v, c)[n] \notin Clusters
            /\ \A k \in 0 .. n - 1 : Walk(v, c)[k] \in Clusters
<1> DEFINE S == {NFat} \cup {k \in 0 .. NFat : Walk(v, c)[k] \notin Clusters}
           n == Min(S)
<1>1. S \in SUBSET (0 .. NFat) /\ S # {} /\ 0 \in Int /\ NFat \in Int
  BY Constants
<1>2. \E m \in S : \A x \in S : m <= x
  <2> HIDE DEF S
  <2>1. IsFiniteSet(S) /\ S \in SUBSET Int
    BY <1>1, Between
  <2> QED
    BY <1>1, <2>1, SmallestElement
<1>3. n \in S /\ \A x \in S : n <= x
  BY <1>2 DEF Min
<1>4. n \in 0 .. NFat /\ (n = NFat \/ Walk(v, c)[n] \notin Clusters)
  BY <1>3, Constants
<1>5. \A k \in 0 .. n - 1 : Walk(v, c)[k] \in Clusters
  <2> HIDE DEF n
  <2> QED
    BY <1>3, <1>4, Constants
<1>6. Chain(v, c) = [k \in 1 .. n |-> Walk(v, c)[k - 1]]
  BY DEF Chain
<1> HIDE DEF n
<1> QED
  BY <1>4, <1>5, <1>6

(* A sequence that the table links from c to a last cluster.               *)
IsChain(v, c, s) ==
  /\ s \in Seq(Clusters) /\ s # <<>> /\ s[1] = c
  /\ \A k \in 1 .. Len(s) - 1 : v.fat[s[k]] = s[k + 1]
  /\ v.fat[s[Len(s)]] = EOC
  /\ \A j, k \in 1 .. Len(s) : s[j] = s[k] => j = k

(* The chain from c is one.                                                *)
Sound(v, c) == IsChain(v, c, Chain(v, c))

(* A chain is a path in the table, of clusters only, and not longer than   *)
(* the table.                                                              *)
LEMMA ChainShape ==
  ASSUME NEW v, NEW c
  PROVE  LET s == Chain(v, c) IN
         /\ s \in Seq(Clusters) /\ Len(s) \in 0 .. NFat
         /\ c \in Clusters => s # <<>> /\ s[1] = c
         /\ c \notin Clusters => s = <<>>
         /\ \A k \in 1 .. Len(s) - 1 : v.fat[s[k]] = s[k + 1]
<1> DEFINE at == Walk(v, c)
           s == Chain(v, c)
<1>1. PICK n \in 0 .. NFat :
            /\ s = [k \in 1 .. n |-> at[k - 1]]
            /\ n = NFat \/ at[n] \notin Clusters
            /\ \A k \in 0 .. n - 1 : at[k] \in Clusters
  BY ChainLength
<1>2. at[0] = c /\ \A k \in 1 .. NFat : at[k] = GetFat(v, at[k - 1])
  BY WalkAt
<1> HIDE DEF s, at
<1>3. \A k \in 1 .. n : s[k] = at[k - 1] /\ s[k] \in Clusters /\ k - 1 \in 0 .. n - 1
  BY <1>1, Constants
<1>4. s \in Seq(Clusters) /\ Len(s) = n /\ n \in Nat
  BY <1>1, <1>3, Constants
<1>5. ASSUME c \in Clusters PROVE s # <<>> /\ s[1] = c
  <2>1. n # 0
    BY <1>1, <1>2, <1>5, Constants
  <2> QED
    BY <2>1, <1>2, <1>3, <1>4
<1>6. ASSUME c \notin Clusters PROVE s = <<>>
  <2>1. n = 0
    <3>1. CASE n > 0
      <4>1. 0 \in 0 .. n - 1
        BY <3>1, <1>4
      <4> QED
        BY <4>1, <1>1, <1>2, <1>6
    <3> QED
      BY <3>1, <1>4
  <2> QED
    BY <2>1, <1>4
<1>7. ASSUME NEW k \in 1 .. Len(s) - 1 PROVE v.fat[s[k]] = s[k + 1]
  <2>1. k \in 1 .. n /\ k + 1 \in 1 .. n /\ k \in 1 .. NFat /\ (k + 1) - 1 = k
    BY <1>4, Constants
  <2>2. s[k + 1] = GetFat(v, s[k]) /\ s[k] \in Clusters
    BY <2>1, <1>2, <1>3
  <2> QED
    BY <2>2 DEF GetFat
<1> QED
  BY <1>4, <1>5, <1>6, <1>7, Constants DEF s

(* No more clusters than there are.                                        *)
LEMMA ShortChain ==
  ASSUME NEW s \in Seq(Clusters), \A j, k \in 1 .. Len(s) : s[j] = s[k] => j = k
  PROVE  Len(s) < NFat
<1>1. IsFiniteSet(Clusters) /\ Cardinality(Clusters) = NFat - 2
  BY FS_Interval, Constants DEF Clusters
<1>2. s \in Injection(1 .. Len(s), Clusters)
  BY DEF Injection, IsInjective
<1>3. Cardinality(1 .. Len(s)) <= Cardinality(Clusters)
  BY <1>1, <1>2, FS_Injection
<1>4. Cardinality(1 .. Len(s)) = Len(s) /\ Len(s) \in Nat
  <2> DEFINE m == Len(s)
  <2>1. m \in Nat /\ 1 \in Int /\ m \in Int
    OBVIOUS
  <2> HIDE DEF m
  <2>2. Cardinality(1 .. m) = IF 1 > m THEN 0 ELSE m - 1 + 1
    BY <2>1, FS_Interval
  <2> QED
    BY <2>1, <2>2 DEF m
<1> QED
  BY <1>1, <1>3, <1>4, Constants

(* The walk stays on such a sequence, which is the chain.                  *)
LEMMA ChainIs ==
  ASSUME NEW v, NEW c, NEW s, IsChain(v, c, s)
  PROVE  Chain(v, c) = s
<1> DEFINE at == Walk(v, c)
           m == Len(s)
<1>1. s \in Seq(Clusters) /\ m \in Nat /\ m > 0 /\ m < NFat
  BY ShortChain DEF IsChain
<1>2. at[0] = c /\ \A k \in 1 .. NFat : at[k] = GetFat(v, at[k - 1])
  BY WalkAt
<1> HIDE DEF at
<1> DEFINE on == {k \in Nat : k < m => at[k] = s[k + 1]}
<1>3. 0 \in on
  BY <1>1, <1>2 DEF IsChain
<1>4. ASSUME NEW k \in Nat, k \in on PROVE k + 1 \in on
  <2> SUFFICES ASSUME k + 1 < m PROVE at[k + 1] = s[k + 2]
    OBVIOUS
  <2>1. at[k] = s[k + 1] /\ k + 1 \in 1 .. m - 1 /\ k + 1 \in 1 .. NFat /\ (k + 1) - 1 = k
    BY <1>1, <1>4, Constants
  <2>2. at[k + 1] = GetFat(v, s[k + 1])
    BY <1>2, <2>1
  <2>3. s[k + 1] \in Clusters /\ v.fat[s[k + 1]] = s[k + 2]
    BY <2>1, <1>1 DEF IsChain
  <2> QED
    BY <2>2, <2>3 DEF GetFat
<1>5. \A k \in Nat : k < m => at[k] = s[k + 1]
  <2>1. Nat \subseteq on
    <3> HIDE DEF on
    <3> QED
      BY <1>3, <1>4, CountUp
  <2> QED
    BY <2>1
<1>6. at[m] = EOC
  <2>1. m \in 1 .. NFat /\ m - 1 \in Nat /\ (m - 1) + 1 = m
    BY <1>1, Constants
  <2>2. at[m] = GetFat(v, s[m]) /\ s[m] \in Clusters
    BY <1>1, <1>2, <1>5, <2>1
  <2> QED
    BY <2>2 DEF IsChain, GetFat
<1>7. PICK n \in 0 .. NFat :
            /\ Chain(v, c) = [k \in 1 .. n |-> at[k - 1]]
            /\ n = NFat \/ at[n] \notin Clusters
            /\ \A k \in 0 .. n - 1 : at[k] \in Clusters
  BY ChainLength DEF at
<1>8. n = m
  <2>1. CASE n < m
    <3>1. at[n] = s[n + 1] /\ n + 1 \in 1 .. m
      BY <1>1, <1>5, <2>1
    <3>2. at[n] \in Clusters /\ n # NFat
      BY <3>1, <1>1, <2>1, Constants
    <3> QED
      BY <1>7, <3>2
  <2>2. CASE n > m
    <3>1. m \in 0 .. n - 1
      BY <1>1, <2>2, Constants
    <3> QED
      BY <3>1, <1>6, <1>7, Constants
  <2> QED
    BY <2>1, <2>2, <1>1, Constants
<1>9. \A k \in 1 .. m : at[k - 1] = s[k]
  <2> TAKE k \in 1 .. m
  <2>1. k - 1 \in Nat /\ k - 1 < m /\ (k - 1) + 1 = k
    BY <1>1
  <2> QED
    BY <2>1, <1>5
<1>10. [k \in 1 .. m |-> at[k - 1]] = s
  BY <1>1, <1>9
<1> QED
  BY <1>7, <1>8, <1>10

(* A chain depends on the table only.                                      *)
LEMMA ChainByTable ==
  ASSUME NEW v, NEW w, NEW c, v.fat = w.fat
  PROVE  Chain(v, c) = Chain(w, c)
<1>1. \A d : GetFat(v, d) = GetFat(w, d)
  BY DEF GetFat
<1> DEFINE a == Walk(v, c)
           b == Walk(w, c)
<1>2. a = [k \in 0 .. NFat |-> IF k = 0 THEN c ELSE GetFat(v, a[k - 1])]
  BY WalkDef
<1>3. b = [k \in 0 .. NFat |-> IF k = 0 THEN c ELSE GetFat(v, b[k - 1])]
  BY WalkDef, <1>1
<1> HIDE DEF a, b
<1> DEFINE same == {k \in Nat : k <= NFat => a[k] = b[k]}
<1>4. 0 \in same
  <2>1. 0 \in 0 .. NFat
    BY Constants
  <2> QED
    BY <2>1, <1>2, <1>3
<1>5. ASSUME NEW k \in Nat, k \in same PROVE k + 1 \in same
  <2> SUFFICES ASSUME k + 1 <= NFat PROVE a[k + 1] = b[k + 1]
    OBVIOUS
  <2>1. a[k] = b[k] /\ k + 1 \in 0 .. NFat /\ k + 1 # 0 /\ (k + 1) - 1 = k
    BY <1>5, Constants
  <2>2. a[k + 1] = GetFat(v, a[k]) /\ b[k + 1] = GetFat(v, b[k])
    <3>1. a[k + 1] = GetFat(v, a[(k + 1) - 1]) /\ b[k + 1] = GetFat(v, b[(k + 1) - 1])
      BY <1>2, <1>3, <2>1
    <3> QED
      BY <3>1, <2>1
  <2> QED
    BY <2>1, <2>2
<1>6. Nat \subseteq same
  <2> HIDE DEF same
  <2> QED
    BY <1>4, <1>5, CountUp
<1>7. a = b
  <2>1. \A k \in 0 .. NFat : a[k] = b[k]
    BY <1>6, Constants
  <2>2. a = [k \in 0 .. NFat |-> a[k]]
    BY <1>2
  <2>3. b = [k \in 0 .. NFat |-> b[k]]
    BY <1>3
  <2> HIDE DEF same
  <2> QED
    BY <2>1, <2>2, <2>3
<1> QED
  BY <1>7 DEF Chain, a, b

(* A sound chain stays one while the table keeps its links.                *)
LEMMA SoundFrame ==
  ASSUME NEW v, NEW w, NEW c, Sound(v, c),
         \A k \in 1 .. Len(Chain(v, c)) : w.fat[Chain(v, c)[k]] = v.fat[Chain(v, c)[k]]
  PROVE  Sound(w, c) /\ Chain(w, c) = Chain(v, c)
<1> DEFINE s == Chain(v, c)
<1>1. IsChain(v, c, s) /\ \A k \in 1 .. Len(s) : w.fat[s[k]] = v.fat[s[k]]
  BY DEF Sound
<1> HIDE DEF s
<1>2. Len(s) \in Nat /\ Len(s) > 0
  BY <1>1 DEF IsChain
<1>3. IsChain(w, c, s)
  BY <1>1, <1>2 DEF IsChain
<1>4. Chain(w, c) = s
  BY <1>3, ChainIs
<1> QED
  BY <1>3, <1>4 DEF Sound, s

(* The clusters of a chain are clusters, its first among them.             *)
LEMMA ClustersIn ==
  ASSUME NEW v, NEW c
  PROVE  /\ ClustersOf(v, c) \subseteq Clusters
         /\ c \in Clusters => c \in ClustersOf(v, c)
         /\ c \notin Clusters => ClustersOf(v, c) = {}
         /\ ClustersOf(v, c) = {Chain(v, c)[k] : k \in 1 .. Len(Chain(v, c))}
<1> DEFINE s == Chain(v, c)
<1>1. /\ s \in Seq(Clusters) /\ Len(s) \in Nat /\ DOMAIN s = 1 .. Len(s)
      /\ c \in Clusters => s # <<>> /\ s[1] = c
      /\ c \notin Clusters => s = <<>>
  BY ChainShape, Constants
<1>2. ClustersOf(v, c) = {s[k] : k \in DOMAIN s}
  BY DEF ClustersOf, ToSet
<1> HIDE DEF s
<1>3. ASSUME c \in Clusters PROVE 1 \in DOMAIN s
  BY <1>1, <1>3
<1>4. ASSUME c \notin Clusters PROVE DOMAIN s = {}
  BY <1>1, <1>4
<1> QED
  BY <1>1, <1>2, <1>3, <1>4 DEF s

(* The same, said of clusters.                                             *)
LEMMA SoundAway ==
  ASSUME NEW v, NEW w, NEW c, Sound(v, c),
         \A d \in ClustersOf(v, c) : w.fat[d] = v.fat[d]
  PROVE  /\ Sound(w, c) /\ Chain(w, c) = Chain(v, c)
         /\ ClustersOf(w, c) = ClustersOf(v, c)
<1>1. \A k \in 1 .. Len(Chain(v, c)) : w.fat[Chain(v, c)[k]] = v.fat[Chain(v, c)[k]]
  BY ClustersIn
<1>2. Sound(w, c) /\ Chain(w, c) = Chain(v, c)
  BY <1>1, SoundFrame
<1> QED
  BY <1>2 DEF ClustersOf

(* What NoCrossLink says of a chain.                                       *)
LEMMA SoundMeans ==
  ASSUME NEW v, NEW c \in Clusters
  PROVE  Sound(v, c) <=> LET chain == Chain(v, c) IN
           chain # <<>> /\ IsInjective(chain) /\ v.fat[chain[Len(chain)]] = EOC
<1> DEFINE s == Chain(v, c)
<1>1. /\ s \in Seq(Clusters) /\ Len(s) \in Nat /\ DOMAIN s = 1 .. Len(s)
      /\ s # <<>> /\ s[1] = c
      /\ \A k \in 1 .. Len(s) - 1 : v.fat[s[k]] = s[k + 1]
  BY ChainShape, Constants
<1> HIDE DEF s
<1>2. IsChain(v, c, s) <=> s # <<>> /\ IsInjective(s) /\ v.fat[s[Len(s)]] = EOC
  BY <1>1 DEF IsChain, IsInjective
<1> QED
  BY <1>2 DEF Sound, s

(* The owners C, pairs of a name and a first cluster or 0, have chains that *)
(* are sound and apart, and hold all that is taken.                        *)
Apart(v, C) ==
  /\ \A o \in C : o = <<o[1], o[2]>> /\ o[2] \in Clusters \cup {0}
  /\ \A o \in C : o[2] # 0 => Sound(v, o[2])
  /\ \A o, p \in C : o # p => ClustersOf(v, o[2]) \cap ClustersOf(v, p[2]) = {}
  /\ \A c \in Clusters : v.fat[c] # 0 <=> \E o \in C : c \in ClustersOf(v, o[2])

(* What an owner has, the table says is taken.                             *)
LEMMA OwnedTaken ==
  ASSUME NEW v, NEW C, Apart(v, C), NEW o \in C, NEW c \in ClustersOf(v, o[2])
  PROVE  c \in Clusters /\ v.fat[c] # 0
BY ClustersIn DEF Apart

(* What is no cluster begins no chain.                                     *)
LEMMA EmptyChain ==
  ASSUME NEW v, NEW c, c \notin Clusters
  PROVE  Chain(v, c) = <<>> /\ ClustersOf(v, c) = {}
BY ChainShape, ClustersIn

(* The chain of an owner is kept while its clusters are.                   *)
LEMMA Kept ==
  ASSUME NEW v, NEW w, NEW C, Apart(v, C), NEW o \in C,
         \A d \in ClustersOf(v, o[2]) : w.fat[d] = v.fat[d]
  PROVE  /\ Chain(w, o[2]) = Chain(v, o[2]) /\ ClustersOf(w, o[2]) = ClustersOf(v, o[2])
         /\ o[2] # 0 => Sound(w, o[2])
<1> DEFINE c == o[2]
<1>1. \A d \in ClustersOf(v, c) : w.fat[d] = v.fat[d]
  OBVIOUS
<1>2. c # 0 => Sound(v, c)
  BY DEF Apart
<1> HIDE DEF c
<1>3. CASE c = 0
  <2>1. c \notin Clusters
    BY <1>3, Constants
  <2> QED
    BY <2>1, <1>3, EmptyChain DEF c
<1>4. CASE c # 0
  <2>1. Sound(w, c) /\ Chain(w, c) = Chain(v, c) /\ ClustersOf(w, c) = ClustersOf(v, c)
    BY <1>1, <1>2, <1>4, SoundAway
  <2> QED
    BY <2>1 DEF c
<1> QED
  BY <1>3, <1>4

(* Apart depends on the table only.                                        *)
LEMMA ApartSame ==
  ASSUME NEW v, NEW w, NEW C, Apart(v, C), v.fat = w.fat
  PROVE  Apart(w, C)
<1>1. \A c : Chain(v, c) = Chain(w, c)
  BY ChainByTable
<1>2. \A c : ClustersOf(v, c) = ClustersOf(w, c)
  BY <1>1 DEF ClustersOf
<1>3. \A c : Sound(v, c) => Sound(w, c)
  BY <1>1 DEF Sound, IsChain
<1> QED
  BY <1>2, <1>3 DEF Apart

(* Owners of nothing come and go.                                          *)
LEMMA ApartZero ==
  ASSUME NEW v, NEW C, Apart(v, C), NEW x
  PROVE  Apart(v, C \cup {<<x, 0>>}) /\ Apart(v, C \ {<<x, 0>>})
<1>1. ClustersOf(v, 0) = {}
  BY ClustersIn, Constants
<1>2. Apart(v, C \cup {<<x, 0>>})
  BY <1>1 DEF Apart
<1>3. Apart(v, C \ {<<x, 0>>})
  <2> DEFINE D == C \ {<<x, 0>>}
  <2>1. \A o \in C : o \in D \/ ClustersOf(v, o[2]) = {}
    BY <1>1
  <2>2. \A c \in Clusters : v.fat[c] # 0 <=> \E o \in D : c \in ClustersOf(v, o[2])
    BY <2>1 DEF Apart
  <2> QED
    BY <2>2 DEF Apart
<1> QED
  BY <1>2, <1>3

(* A chain passes to another owner.                                        *)
LEMMA ApartOwner ==
  ASSUME NEW v, NEW C, Apart(v, C), NEW o \in C, NEW y
  PROVE  Apart(v, (C \ {o}) \cup {<<y, o[2]>>})
<1> DEFINE n == <<y, o[2]>>
           D == (C \ {o}) \cup {n}
<1>1. \A p \in D : p = n \/ (p \in C /\ p # o)
  OBVIOUS
<1>2. n[2] = o[2] /\ n = <<n[1], n[2]>>
  OBVIOUS
<1>3. \A p, q \in D : p # q => ClustersOf(v, p[2]) \cap ClustersOf(v, q[2]) = {}
  <2> TAKE p, q \in D
  <2> HAVE p # q
  <2> HIDE DEF n
  <2>1. CASE p = n
    <3>1. q \in C /\ q # o
      BY <2>1, <1>1
    <3> QED
      BY <2>1, <3>1, <1>2 DEF Apart
  <2>2. CASE q = n
    <3>1. p \in C /\ p # o
      BY <2>2, <1>1
    <3> QED
      BY <2>2, <3>1, <1>2 DEF Apart
  <2>3. CASE p # n /\ q # n
    BY <2>3, <1>1 DEF Apart
  <2> QED
    BY <2>1, <2>2, <2>3
<1>4. \A p \in D : p = <<p[1], p[2]>> /\ p[2] \in Clusters \cup {0}
  BY <1>2 DEF Apart
<1>5. \A p \in D : p[2] # 0 => Sound(v, p[2])
  BY <1>2 DEF Apart
<1>6. \A c \in Clusters : v.fat[c] # 0 <=> \E p \in D : c \in ClustersOf(v, p[2])
  <2>1. \A p \in C : \E q \in D : q[2] = p[2]
    BY <1>2
  <2>2. \A p \in D : \E q \in C : q[2] = p[2]
    BY <1>2
  <2> HIDE DEF D
  <2> QED
    BY <2>1, <2>2 DEF Apart
<1> HIDE DEF D
<1>7. Apart(v, D)
  BY <1>3, <1>4, <1>5, <1>6 DEF Apart
<1> QED
  BY <1>7 DEF D

(* A free cluster becomes a chain.                                         *)
LEMMA ApartNew ==
  ASSUME NEW v, NEW w, NEW C, Apart(v, C), NEW x, NEW n \in Clusters, v.fat[n] = 0,
         v.fat \in [Clusters -> Clusters \cup {0, EOC}], w.fat = [v.fat EXCEPT ![n] = EOC]
  PROVE  /\ Chain(w, n) = <<n>>
         /\ \A o \in C : Chain(w, o[2]) = Chain(v, o[2])
         /\ Apart(w, C \cup {<<x, n>>})
<1>1. IsChain(w, n, <<n>>)
  BY Constants DEF IsChain
<1>2. Chain(w, n) = <<n>> /\ Sound(w, n) /\ ClustersOf(w, n) = {n}
  BY <1>1, ChainIs DEF Sound, ClustersOf, ToSet
<1>3. ASSUME NEW o \in C
      PROVE  /\ Chain(w, o[2]) = Chain(v, o[2]) /\ ClustersOf(w, o[2]) = ClustersOf(v, o[2])
             /\ n \notin ClustersOf(v, o[2])
             /\ o[2] # 0 => Sound(w, o[2])
  <2>1. n \notin ClustersOf(v, o[2])
    BY OwnedTaken
  <2>2. \A d \in ClustersOf(v, o[2]) : w.fat[d] = v.fat[d]
    BY <2>1, ClustersIn
  <2>3. Chain(w, o[2]) = Chain(v, o[2]) /\ ClustersOf(w, o[2]) = ClustersOf(v, o[2])
        /\ (o[2] # 0 => Sound(w, o[2]))
    BY <2>2, Kept
  <2> QED
    BY <2>1, <2>3
<1> DEFINE m == <<x, n>>
           D == C \cup {m}
<1>4. m[2] = n /\ m = <<m[1], m[2]>>
  OBVIOUS
<1> HIDE DEF m
<1>5. \A o \in D : o = <<o[1], o[2]>> /\ o[2] \in Clusters \cup {0}
  BY <1>4 DEF Apart
<1>6. \A o \in D : o[2] # 0 => Sound(w, o[2])
  BY <1>2, <1>3, <1>4
<1>7. \A o, p \in D : o # p => ClustersOf(w, o[2]) \cap ClustersOf(w, p[2]) = {}
  <2>1. \A o, p \in C : o # p => ClustersOf(w, o[2]) \cap ClustersOf(w, p[2]) = {}
    BY <1>3 DEF Apart
  <2>2. \A o \in C : ClustersOf(w, o[2]) \cap ClustersOf(w, m[2]) = {}
    BY <1>2, <1>3, <1>4
  <2> QED
    BY <2>1, <2>2
<1>8. \A c \in Clusters : w.fat[c] # 0 <=> \E o \in D : c \in ClustersOf(w, o[2])
  <2> TAKE c \in Clusters
  <2>1. CASE c = n
    <3>1. w.fat[c] = EOC /\ m \in D /\ c \in ClustersOf(w, m[2])
      BY <2>1, <1>2, <1>4
    <3> QED
      BY <3>1, Constants
  <2>2. CASE c # n
    <3>1. w.fat[c] = v.fat[c] /\ c \notin ClustersOf(w, m[2])
      BY <2>2, <1>2, <1>4
    <3> QED
      BY <3>1, <1>3 DEF Apart
  <2> QED
    BY <2>1, <2>2
<1> HIDE DEF D
<1>9. Apart(w, D)
  BY <1>5, <1>6, <1>7, <1>8 DEF Apart
<1> QED
  BY <1>2, <1>3, <1>9 DEF D, m

(* A free cluster is added to a chain.                                     *)
Continued(v, w, C, o, n) ==
  /\ Chain(w, o[2]) = Append(Chain(v, o[2]), n)
  /\ \A p \in C \ {o} : Chain(w, p[2]) = Chain(v, p[2])
  /\ Apart(w, C)

(* A free cluster is linked behind the last one of an owner's chain.       *)
LEMMA ApartNext ==
  ASSUME NEW v, NEW w, NEW C, Apart(v, C), NEW o \in C, o[2] # 0,
         NEW n \in Clusters, v.fat[n] = 0, NEW l, l = Chain(v, o[2])[Len(Chain(v, o[2]))],
         v.fat \in [Clusters -> Clusters \cup {0, EOC}],
         w.fat = [v.fat EXCEPT ![l] = n, ![n] = EOC]
  PROVE  Continued(v, w, C, o, n)
<1> DEFINE s == Chain(v, o[2])
           t == Append(s, n)
           m == Len(s)
<1>1. IsChain(v, o[2], s)
  BY DEF Apart, Sound
<1>2. \A c \in ClustersOf(v, o[2]) : c \in Clusters /\ v.fat[c] # 0
  BY OwnedTaken
<1>3. ClustersOf(v, o[2]) = {s[k] : k \in 1 .. m}
  BY ClustersIn
<1>0. l = s[m]
  OBVIOUS
<1> HIDE DEF s
<1>4. /\ s \in Seq(Clusters) /\ m \in Nat /\ m > 0 /\ l \in Clusters /\ l # n
      /\ \A k \in 1 .. m : s[k] # n /\ s[k] \in Clusters
  BY <1>0, <1>1, <1>2, <1>3 DEF IsChain
<1>5. /\ t \in Seq(Clusters) /\ Len(t) = m + 1 /\ t[m + 1] = n
      /\ \A k \in 1 .. m : t[k] = s[k]
  BY <1>4
<1> HIDE DEF t
<1>6. IsChain(w, o[2], t)
  <2>1. t # <<>> /\ t[1] = o[2]
    BY <1>1, <1>4, <1>5 DEF IsChain
  <2>2. ASSUME NEW k \in 1 .. Len(t) - 1 PROVE w.fat[t[k]] = t[k + 1]
    <3>1. CASE k = m
      <4>1. t[k] = l /\ t[k + 1] = n
        BY <3>1, <1>0, <1>4, <1>5
      <4> QED
        BY <4>1, <1>4
    <3>2. CASE k # m
      <4>1. k \in 1 .. m - 1 /\ k \in 1 .. m /\ k + 1 \in 1 .. m /\ m \in 1 .. m
        BY <3>2, <1>4, <1>5
      <4>2. s[k] # l /\ s[k] # n /\ v.fat[s[k]] = s[k + 1] /\ s[k] \in Clusters
        BY <3>2, <4>1, <1>0, <1>1, <1>4 DEF IsChain
      <4> QED
        BY <4>1, <4>2, <1>5
    <3> QED
      BY <3>1, <3>2
  <2>3. w.fat[t[Len(t)]] = EOC
    BY <1>4, <1>5
  <2>4. ASSUME NEW j \in 1 .. Len(t), NEW k \in 1 .. Len(t), t[j] = t[k] PROVE j = k
    <3>1. CASE j \in 1 .. m /\ k \in 1 .. m
      BY <3>1, <2>4, <1>1, <1>5 DEF IsChain
    <3>2. CASE j = m + 1 \/ k = m + 1
      BY <3>2, <2>4, <1>4, <1>5
    <3> QED
      BY <3>1, <3>2, <1>4, <1>5
  <2> QED
    BY <1>5, <2>1, <2>2, <2>3, <2>4 DEF IsChain
<1>7. Chain(w, o[2]) = t /\ Sound(w, o[2])
  BY <1>6, ChainIs DEF Sound
<1>8. ClustersOf(w, o[2]) = ClustersOf(v, o[2]) \cup {n}
  <2>1. ClustersOf(w, o[2]) = {t[k] : k \in 1 .. m + 1}
    BY <1>5, <1>7, ClustersIn
  <2> QED
    BY <2>1, <1>3, <1>4, <1>5
<1>9. ASSUME NEW p \in C, p # o
      PROVE  /\ Chain(w, p[2]) = Chain(v, p[2]) /\ ClustersOf(w, p[2]) = ClustersOf(v, p[2])
             /\ n \notin ClustersOf(v, p[2])
             /\ p[2] # 0 => Sound(w, p[2])
  <2>1. n \notin ClustersOf(v, p[2])
    BY OwnedTaken
  <2>2. l \notin ClustersOf(v, p[2])
    <3>1. l \in ClustersOf(v, o[2])
      BY <1>0, <1>3, <1>4
    <3> QED
      BY <1>9, <3>1 DEF Apart
  <2>3. \A d \in ClustersOf(v, p[2]) : w.fat[d] = v.fat[d]
    BY <2>1, <2>2, ClustersIn
  <2>4. p \in C
    OBVIOUS
  <2>5. Chain(w, p[2]) = Chain(v, p[2]) /\ ClustersOf(w, p[2]) = ClustersOf(v, p[2])
        /\ (p[2] # 0 => Sound(w, p[2]))
    BY ONLY Apart(v, C), <2>3, <2>4, Kept
  <2> QED
    BY <2>1, <2>5
<1>10. \A p, q \in C : p # q => ClustersOf(w, p[2]) \cap ClustersOf(w, q[2]) = {}
  <2> TAKE p, q \in C
  <2> HAVE p # q
  <2>1. ClustersOf(v, p[2]) \cap ClustersOf(v, q[2]) = {}
    BY DEF Apart
  <2>2. CASE p = o
    <3>1. q # o
      BY <2>2
    <3> QED
      BY <2>1, <2>2, <3>1, <1>8, <1>9
  <2>3. CASE q = o
    <3>1. p # o
      BY <2>3
    <3> QED
      BY <2>1, <2>3, <3>1, <1>8, <1>9
  <2>4. CASE p # o /\ q # o
    BY <2>1, <2>4, <1>9
  <2> QED
    BY <2>2, <2>3, <2>4
<1>11. \A c \in Clusters : w.fat[c] # 0 <=> \E p \in C : c \in ClustersOf(w, p[2])
  <2> TAKE c \in Clusters
  <2>1. CASE c = n
    <3>1. w.fat[c] = EOC /\ c \in ClustersOf(w, o[2])
      BY <2>1, <1>8
    <3> QED
      BY <3>1, Constants
  <2>2. CASE c # n
    <3>1. \A p \in C : c \in ClustersOf(w, p[2]) <=> c \in ClustersOf(v, p[2])
      BY <2>2, <1>8, <1>9
    <3>2. w.fat[c] # 0 <=> v.fat[c] # 0
      <4>1. CASE c = l
        <5>1. w.fat[c] = n /\ v.fat[c] # 0
          BY <4>1, <1>0, <1>2, <1>3, <1>4
        <5> QED
          BY <5>1, Constants
      <4>2. CASE c # l
        BY <4>2, <2>2
      <4> QED
        BY <4>1, <4>2
    <3> QED
      BY <3>1, <3>2 DEF Apart
  <2> QED
    BY <2>1, <2>2
<1>12. Apart(w, C)
  <2>1. \A p \in C : p[2] # 0 => Sound(w, p[2])
    BY <1>7, <1>9
  <2> QED
    BY <2>1, <1>10, <1>11 DEF Apart
<1> QED
  BY <1>7, <1>9, <1>12 DEF Continued, t, s

(* A chain is given back.                                                  *)
LEMMA ApartCut ==
  ASSUME NEW v, NEW w, NEW C, Apart(v, C), NEW o \in C,
         w.fat = [d \in Clusters |-> IF d \in ClustersOf(v, o[2]) THEN 0 ELSE v.fat[d]]
  PROVE  /\ \A p \in C \ {o} : Chain(w, p[2]) = Chain(v, p[2])
         /\ Apart(w, C \ {o})
<1> DEFINE D == C \ {o}
<1>1. ASSUME NEW p \in D
      PROVE  /\ Chain(w, p[2]) = Chain(v, p[2]) /\ ClustersOf(w, p[2]) = ClustersOf(v, p[2])
             /\ ClustersOf(v, p[2]) \cap ClustersOf(v, o[2]) = {}
             /\ p[2] # 0 => Sound(w, p[2])
  <2>1. ClustersOf(v, p[2]) \cap ClustersOf(v, o[2]) = {}
    BY DEF Apart
  <2>2. \A d \in ClustersOf(v, p[2]) : w.fat[d] = v.fat[d]
    BY <2>1, ClustersIn
  <2>3. p \in C
    OBVIOUS
  <2>4. Chain(w, p[2]) = Chain(v, p[2]) /\ ClustersOf(w, p[2]) = ClustersOf(v, p[2])
        /\ (p[2] # 0 => Sound(w, p[2]))
    BY <2>2, <2>3, Kept
  <2> QED
    BY <2>1, <2>4
<1>2. \A c \in Clusters : w.fat[c] # 0 <=> \E p \in D : c \in ClustersOf(w, p[2])
  <2> TAKE c \in Clusters
  <2>1. CASE c \in ClustersOf(v, o[2])
    BY <2>1, <1>1
  <2>2. CASE c \notin ClustersOf(v, o[2])
    BY <2>2, <1>1 DEF Apart
  <2> QED
    BY <2>1, <2>2
<1>3. \A p, q \in D : p # q => ClustersOf(w, p[2]) \cap ClustersOf(w, q[2]) = {}
  BY <1>1 DEF Apart
<1>4. \A p \in D : p[2] # 0 => Sound(w, p[2])
  BY <1>1
<1>5. \A p \in D : p = <<p[1], p[2]>> /\ p[2] \in Clusters \cup {0}
  BY DEF Apart
<1>6. \A p \in D : Chain(w, p[2]) = Chain(v, p[2])
  BY <1>1
<1> HIDE DEF D
<1>7. Apart(w, D)
  BY <1>2, <1>3, <1>4, <1>5 DEF Apart
<1> QED
  BY <1>6, <1>7 DEF D

(* A record of the right fields; nothing is said about the cells.          *)
Volume(v) ==
  /\ v = [fat |-> v.fat, last |-> v.last, disk |-> v.disk]
  /\ v.fat \in [Clusters -> Clusters \cup {0, EOC}]
  /\ v.last \in 0 .. NFat - 1
  /\ v.disk = [c \in Clusters \cup {0} |-> v.disk[c]]

(* FreeAfter finds a free cluster whenever there is one (ff.cpp:996-1008). *)
LEMMA FreeFound ==
  ASSUME NEW v, NEW scl \in Nat
  PROVE  \/ /\ FreeAfter(v, scl) = 0
            /\ \A c \in Clusters : v.fat[c] # 0
         \/ /\ FreeAfter(v, scl) \in Clusters
            /\ v.fat[FreeAfter(v, scl)] = 0
<1> DEFINE free == {c \in Clusters : v.fat[c] = 0}
           turn(c) == IF c > scl THEN c - scl ELSE c + NFat - scl
           turns == {turn(c) : c \in free}
<1>1. CASE free = {}
  BY <1>1 DEF FreeAfter
<1>2. CASE free # {}
  <2>1. turns # {} /\ turns \in SUBSET Int
    <3>1. \A c \in free : turn(c) \in Int
      BY Constants
    <3> HIDE DEF free, turn
    <3> QED
      BY <3>1, <1>2
  <2>2. IsFiniteSet(turns)
    <3>1. IsFiniteSet(Clusters)
      BY FS_Interval, Constants DEF Clusters
    <3>2. IsFiniteSet(free)
      BY <3>1, FS_Subset
    <3> HIDE DEF free, turn
    <3>3. [c \in free |-> turn(c)] \in Surjection(free, turns)
      BY DEF Surjection
    <3> HIDE DEF turns
    <3> QED
      BY <3>2, <3>3, FS_Surjection
  <2>3. PICK m \in turns : \A x \in turns : m <= x
    <3> HIDE DEF turns
    <3> QED
      BY <2>1, <2>2, SmallestElement
  <2>4. \E c \in free : \A d \in free : turn(c) <= turn(d)
    <3> HIDE DEF free, turn
    <3> QED
      BY <2>3
  <2>5. FreeAfter(v, scl) = CHOOSE c \in free : \A d \in free : turn(c) <= turn(d)
    BY <1>2 DEF FreeAfter
  <2>6. FreeAfter(v, scl) \in free
    <3> HIDE DEF free, turn
    <3> QED
      BY <2>4, <2>5
  <2> QED
    BY <2>6
<1> QED
  BY <1>1, <1>2

(* What create_chain does when it is given no cluster, or a last one: n is *)
(* taken, w is the volume with it.                                         *)
Taken(v, l, r) ==
  LET n == r.cl IN
  /\ n \in Clusters /\ v.fat[n] = 0
  /\ Volume(r.v) /\ r.v.disk = v.disk /\ r.v.last = n
  /\ r.v.fat = IF l = 0 THEN [v.fat EXCEPT ![n] = EOC]
               ELSE [v.fat EXCEPT ![l] = n, ![n] = EOC]

(* Nothing is free.                                                        *)
NoneLeft(v, r) == r.cl = 0 /\ r.v = v /\ \A c \in Clusters : v.fat[c] # 0

(* create_chain for a new chain or behind the last cluster of one: a free  *)
(* cluster is taken, or there is none and nothing changes                  *)
(* (ff.cpp:976-1025).                                                      *)
LEMMA CreateChainIs ==
  ASSUME NEW v, Volume(v), NEW l, l = 0 \/ (l \in Clusters /\ v.fat[l] = EOC)
  PROVE  Taken(v, l, CreateChain(v, l)) \/ NoneLeft(v, CreateChain(v, l))
<1> DEFINE scl == IF l # 0 THEN l ELSE IF v.last \in 1 .. NFat - 1 THEN v.last ELSE 1
           ncl == FreeAfter(v, scl)
           linked == [d \in Clusters |->
                       CASE d = l -> ncl [] d = ncl -> EOC [] OTHER -> v.fat[d]]
           r == CreateChain(v, l)
<1>1. scl \in Nat
  BY Constants DEF Volume
<1>2. ~(l # 0 /\ GetFat(v, l) < 2) /\ ~(l # 0 /\ GetFat(v, l) < NFat)
  BY Constants DEF GetFat, EOC
<1>3. r = IF ncl = 0 THEN [v |-> v, cl |-> 0]
          ELSE [v |-> [v EXCEPT !.fat = linked, !.last = ncl], cl |-> ncl]
  BY <1>2 DEF CreateChain
<1>4. \/ ncl = 0 /\ \A c \in Clusters : v.fat[c] # 0
      \/ ncl \in Clusters /\ v.fat[ncl] = 0
  BY <1>1, FreeFound
<1> HIDE DEF ncl, scl
<1>5. CASE ncl = 0
  <2>1. r = [v |-> v, cl |-> 0]
    BY <1>3, <1>5
  <2>2. \A c \in Clusters : v.fat[c] # 0
    BY <1>4, <1>5, Constants
  <2> HIDE DEF r
  <2>3. NoneLeft(v, r)
    BY <2>1, <2>2 DEF NoneLeft
  <2> QED
    BY <2>3 DEF r
<1>6. CASE ncl # 0
  <2>1. r.cl = ncl /\ r.v = [v EXCEPT !.fat = linked, !.last = ncl]
    BY <1>3, <1>6
  <2>2. ncl \in Clusters /\ v.fat[ncl] = 0 /\ l # ncl
    BY <1>4, <1>6, Constants
  <2>3. linked = IF l = 0 THEN [v.fat EXCEPT ![ncl] = EOC]
                 ELSE [v.fat EXCEPT ![l] = ncl, ![ncl] = EOC]
    <3>1. CASE l = 0
      <4>1. \A d \in Clusters : linked[d] = IF d = ncl THEN EOC ELSE v.fat[d]
        BY <3>1, <2>2, Constants
      <4> QED
        BY <3>1, <4>1 DEF Volume
    <3>2. CASE l # 0
      <4>1. \A d \in Clusters : linked[d] = IF d = l THEN ncl ELSE IF d = ncl THEN EOC ELSE v.fat[d]
        BY <3>2, <2>2, Constants
      <4> QED
        BY <3>2, <4>1, <2>2 DEF Volume
    <3> QED
      BY <3>1, <3>2
  <2>4. linked \in [Clusters -> Clusters \cup {0, EOC}]
    BY <2>2 DEF Volume
  <2> HIDE DEF r, linked
  <2>5. r.v.fat = linked /\ r.v.last = ncl /\ r.v.disk = v.disk /\ r.v = [fat |-> linked, last |-> ncl, disk |-> v.disk]
    BY <2>1 DEF Volume
  <2>6. ncl \in 0 .. NFat - 1
    BY <2>2, Constants
  <2>7. Volume(r.v)
    BY <2>4, <2>5, <2>6 DEF Volume
  <2>8. Taken(v, l, r)
    BY <2>1, <2>2, <2>3, <2>5, <2>7 DEF Taken
  <2> QED
    BY <2>8 DEF r
<1> QED
  BY <1>5, <1>6

(* remove_chain frees the clusters of the chain and nothing else           *)
(* (ff.cpp:923-965).                                                       *)
LEMMA RemoveChainIs ==
  ASSUME NEW v, Volume(v), NEW c
  PROVE  LET w == RemoveChain(v, c) IN
         /\ Volume(w) /\ w.disk = v.disk /\ w.last = v.last
         /\ w.fat = [d \in Clusters |-> IF d \in ClustersOf(v, c) THEN 0 ELSE v.fat[d]]
<1> DEFINE g == [d \in Clusters |-> IF d \in ClustersOf(v, c) THEN 0 ELSE v.fat[d]]
           w == RemoveChain(v, c)
<1>1. w = [v EXCEPT !.fat = g]
  BY DEF RemoveChain
<1>2. g \in [Clusters -> Clusters \cup {0, EOC}]
  BY DEF Volume
<1> HIDE DEF g, w
<1>3. w = [fat |-> g, last |-> v.last, disk |-> v.disk]
  BY <1>1 DEF Volume
<1>4. Volume(w) /\ w.disk = v.disk /\ w.last = v.last /\ w.fat = g
  BY <1>2, <1>3 DEF Volume
<1> QED
  BY <1>4 DEF g, w

(* A cell is written.                                                      *)
LEMMA PutIs ==
  ASSUME NEW v, Volume(v), NEW s, s[1] \in Clusters \cup {0}, NEW cell
  PROVE  LET w == Put(v, s, cell) IN
         /\ Volume(w) /\ w.fat = v.fat /\ w.last = v.last
         /\ \A c \in Clusters \cup {0} : c # s[1] => w.disk[c] = v.disk[c]
         /\ w.disk[s[1]] = [v.disk[s[1]] EXCEPT ![s[2]] = cell]
<1> DEFINE w == Put(v, s, cell)
           g == [v.disk EXCEPT ![s[1]] = [v.disk[s[1]] EXCEPT ![s[2]] = cell]]
<1>1. w = [v EXCEPT !.disk = g]
  BY DEF Put
<1> HIDE DEF w
<1>2. w = [fat |-> v.fat, last |-> v.last, disk |-> g]
  BY <1>1 DEF Volume
<1>3. g = [c \in Clusters \cup {0} |-> g[c]]
  BY DEF Volume
<1>4. /\ \A c \in Clusters \cup {0} : c # s[1] => g[c] = v.disk[c]
      /\ g[s[1]] = [v.disk[s[1]] EXCEPT ![s[2]] = cell]
  BY DEF Volume
<1> HIDE DEF g
<1>5. Volume(w) /\ w.fat = v.fat /\ w.last = v.last /\ w.disk = g
  BY <1>2, <1>3 DEF Volume
<1> QED
  BY <1>4, <1>5 DEF w

(* A sector is written.                                                    *)
LEMMA SectorIs ==
  ASSUME NEW v, Volume(v), NEW c \in Clusters \cup {0}, NEW b
  PROVE  LET w == [v EXCEPT !.disk[c] = b] IN
         /\ Volume(w) /\ w.fat = v.fat /\ w.last = v.last
         /\ \A d \in Clusters \cup {0} : d # c => w.disk[d] = v.disk[d]
         /\ w.disk[c] = b
<1> DEFINE g == [v.disk EXCEPT ![c] = b]
           w == [v EXCEPT !.disk[c] = b]
<1>1. w = [v EXCEPT !.disk = g]
  OBVIOUS
<1> HIDE DEF w
<1>2. w = [fat |-> v.fat, last |-> v.last, disk |-> g]
  BY <1>1 DEF Volume
<1>3. g = [d \in Clusters \cup {0} |-> g[d]]
  BY DEF Volume
<1>4. g[c] = b /\ \A d \in Clusters \cup {0} : d # c => g[d] = v.disk[d]
  BY DEF Volume
<1> HIDE DEF g
<1>5. Volume(w) /\ w.fat = v.fat /\ w.last = v.last /\ w.disk = g
  BY <1>2, <1>3 DEF Volume
<1> QED
  BY <1>4, <1>5 DEF w

(* Quotient and remainder make up the number.                              *)
LEMMA DivMod ==
  ASSUME NEW x \in Nat, NEW P \in Nat \ {0}
  PROVE  x = P * (x \div P) + (x % P) /\ x % P \in 0 .. P - 1 /\ x \div P \in Nat
OBVIOUS

(* And there is only one way to do so.                                     *)
LEMMA DivModIs ==
  ASSUME NEW P \in Nat \ {0}, NEW q \in Nat, NEW r \in 0 .. P - 1
  PROVE  (P * q + r) \div P = q /\ (P * q + r) % P = r
OBVIOUS

(* A number is below a multiple exactly if its quotient is below the       *)
(* factor.                                                                 *)
LEMMA RowBelow ==
  ASSUME NEW P \in Nat \ {0}, NEW q \in Nat, NEW n \in Nat, NEW r \in 0 .. P - 1
  PROVE  q < n <=> P * q + r < P * n
<1>1. ASSUME q < n PROVE P * q + r < P * n
  <2>1. P * (n - q) >= P
    BY <1>1
  <2>2. P * n - P * q = P * (n - q)
    OBVIOUS
  <2> QED
    BY <2>1, <2>2
<1>2. ASSUME q >= n PROVE P * q + r >= P * n
  <2>1. P * (q - n) >= 0
    BY <1>2
  <2>2. P * q - P * n = P * (q - n)
    OBVIOUS
  <2> QED
    BY <2>1, <2>2
<1> QED
  BY <1>1, <1>2

-----------------------------------------------------------------------------
(* Directories: the sectors of one, the rows of a sector.                  *)
Where(v, dcl) == IF dcl = 0 THEN {0} ELSE ClustersOf(v, dcl)
Rows(c) == IF c = 0 THEN NRoot ELSE PerSector

(* The slots of the root.                                                  *)
LEMMA RootSlots ==
  ASSUME NEW v
  PROVE  Slots(v, 0) = [k \in 1 .. NRoot |-> <<0, k - 1>>]
BY DEF Slots

(* The k-th slot is row i of the j-th cluster of the chain s.              *)
RowsOf(S, s) ==
  /\ Len(s) \in Nat \ {0}
  /\ DOMAIN S = 1 .. Len(s) * PerSector /\ Len(S) = Len(s) * PerSector
  /\ S = [k \in 1 .. Len(s) * PerSector |-> S[k]]
  /\ \A k \in 1 .. Len(s) * PerSector : \E j \in 1 .. Len(s), i \in 0 .. PerSector - 1 :
        k = PerSector * (j - 1) + i + 1 /\ S[k] = <<s[j], i>>
  /\ \A j \in 1 .. Len(s), i \in 0 .. PerSector - 1 :
        /\ PerSector * (j - 1) + i + 1 \in 1 .. Len(s) * PerSector
        /\ S[PerSector * (j - 1) + i + 1] = <<s[j], i>>

(* The slots of a directory are the rows of its clusters, one after the    *)
(* other.                                                                  *)
LEMMA DirSlotAt ==
  ASSUME NEW v, NEW c \in Clusters
  PROVE  RowsOf(Slots(v, c), Chain(v, c))
<1> DEFINE s == Chain(v, c)
           n == Len(s)
           S == Slots(v, c)
<1>1. n \in Nat \ {0} /\ n * PerSector \in Nat
  <2>1. s \in Seq(Clusters) /\ s # <<>>
    BY ChainShape
  <2> HIDE DEF s
  <2>2. Len(s) \in Nat \ {0}
    BY <2>1
  <2> QED
    BY <2>2, Constants
<1>2. S = [k \in 1 .. n * PerSector |->
             <<s[((k - 1) \div PerSector) + 1], (k - 1) % PerSector>>]
  BY Constants DEF Slots
<1> HIDE DEF s, S
<1>3. DOMAIN S = 1 .. n * PerSector /\ S = [k \in 1 .. n * PerSector |-> S[k]]
  BY <1>2
<1>4. Len(S) = n * PerSector
  BY <1>1, <1>3
<1>5. ASSUME NEW k \in 1 .. n * PerSector
      PROVE  \E j \in 1 .. n, i \in 0 .. PerSector - 1 :
                k = PerSector * (j - 1) + i + 1 /\ S[k] = <<s[j], i>>
  <2> DEFINE q == (k - 1) \div PerSector
             i == (k - 1) % PerSector
  <2>1. k - 1 \in Nat /\ PerSector \in Nat \ {0}
    BY <1>1, Constants
  <2>2. k - 1 = PerSector * q + i /\ i \in 0 .. PerSector - 1 /\ q \in Nat
    BY <2>1, DivMod
  <2>3. S[k] = <<s[q + 1], i>>
    BY <1>2
  <2> HIDE DEF q, i
  <2>4. PerSector * q + i < PerSector * n
    BY <1>1, <2>2, Constants
  <2>5. q < n
    BY <1>1, <2>1, <2>2, <2>4, RowBelow
  <2>6. q + 1 \in 1 .. n /\ (q + 1) - 1 = q /\ k = PerSector * q + i + 1
    BY <1>1, <2>2, <2>5
  <2> QED
    BY <2>2, <2>3, <2>6
<1>6. ASSUME NEW j \in 1 .. n, NEW i \in 0 .. PerSector - 1
      PROVE  /\ PerSector * (j - 1) + i + 1 \in 1 .. n * PerSector
             /\ S[PerSector * (j - 1) + i + 1] = <<s[j], i>>
  <2> DEFINE q == j - 1
             k == PerSector * q + i + 1
  <2>1. q \in Nat /\ q < n /\ PerSector \in Nat \ {0} /\ q + 1 = j
    BY <1>1, Constants
  <2>2. PerSector * q + i < PerSector * n
    BY <1>1, <2>1, RowBelow
  <2>3. (PerSector * q + i) \div PerSector = q /\ (PerSector * q + i) % PerSector = i
    BY <2>1, DivModIs
  <2> HIDE DEF q
  <2>4. k \in 1 .. n * PerSector /\ k - 1 = PerSector * q + i
    BY <1>1, <2>1, <2>2, Constants
  <2> HIDE DEF k
  <2>5. S[k] = <<s[q + 1], i>>
    BY <1>2, <2>3, <2>4
  <2>6. S[k] = <<s[j], i>>
    BY <2>1, <2>5
  <2> QED
    BY <2>4, <2>6 DEF k, q
<1> QED
  BY <1>1, <1>3, <1>4, <1>5, <1>6 DEF RowsOf, s, S

(* The slots of a directory are the rows of its sectors, each once.        *)
LEMMA SlotsOnce ==
  ASSUME NEW v, NEW dcl \in Clusters \cup {0}, dcl # 0 => Sound(v, dcl)
  PROVE  /\ DOMAIN Slots(v, dcl) = 1 .. Len(Slots(v, dcl)) /\ Len(Slots(v, dcl)) \in Nat
         /\ \A k, l \in DOMAIN Slots(v, dcl) : Slots(v, dcl)[k] = Slots(v, dcl)[l] => k = l
         /\ \A k \in DOMAIN Slots(v, dcl) :
               /\ Slots(v, dcl)[k] = <<Slots(v, dcl)[k][1], Slots(v, dcl)[k][2]>>
               /\ Slots(v, dcl)[k][1] \in Where(v, dcl)
               /\ Slots(v, dcl)[k][2] \in 0 .. Rows(Slots(v, dcl)[k][1]) - 1
<1>1. CASE dcl = 0
  <2>1. Slots(v, dcl) = [k \in 1 .. NRoot |-> <<0, k - 1>>]
    BY <1>1, RootSlots
  <2>2. Len(Slots(v, dcl)) = NRoot
    BY <2>1, Constants
  <2> QED
    BY <1>1, <2>1, <2>2, Constants DEF Where, Rows
<1>2. CASE dcl # 0
  <2> DEFINE s == Chain(v, dcl)
             n == Len(s)
             S == Slots(v, dcl)
  <2>1. dcl \in Clusters /\ Sound(v, dcl)
    BY <1>2
  <2>2. RowsOf(S, s)
    BY <2>1, DirSlotAt
  <2>3. \A j, k \in 1 .. n : s[j] = s[k] => j = k
    BY <2>1 DEF Sound, IsChain
  <2>4. Where(v, dcl) = {s[j] : j \in 1 .. n} /\ Where(v, dcl) \subseteq Clusters
    BY <1>2, ClustersIn DEF Where
  <2> HIDE DEF s, S
  <2>5. ASSUME NEW k \in DOMAIN S, NEW l \in DOMAIN S, S[k] = S[l] PROVE k = l
    <3>1. PICK j \in 1 .. n, i \in 0 .. PerSector - 1 :
             k = PerSector * (j - 1) + i + 1 /\ S[k] = <<s[j], i>>
      BY <2>2 DEF RowsOf
    <3>2. PICK jj \in 1 .. n, ii \in 0 .. PerSector - 1 :
             l = PerSector * (jj - 1) + ii + 1 /\ S[l] = <<s[jj], ii>>
      BY <2>2 DEF RowsOf
    <3>3. s[j] = s[jj] /\ i = ii
      BY <2>5, <3>1, <3>2
    <3>4. j = jj
      BY <2>3, <3>3
    <3> QED
      BY <3>1, <3>2, <3>3, <3>4
  <2>6. ASSUME NEW k \in DOMAIN S
        PROVE  S[k] = <<S[k][1], S[k][2]>> /\ S[k][1] \in Where(v, dcl) /\ S[k][2] \in 0 .. Rows(S[k][1]) - 1
    <3>1. PICK j \in 1 .. n, i \in 0 .. PerSector - 1 : S[k] = <<s[j], i>>
      BY <2>2 DEF RowsOf
    <3>2. S[k][1] = s[j] /\ S[k][2] = i /\ s[j] \in Where(v, dcl) /\ Rows(s[j]) = PerSector
      BY <3>1, <2>4, Constants DEF Rows
    <3> QED
      BY <3>1, <3>2
  <2>7. n * PerSector \in Nat
    BY <2>2, Constants DEF RowsOf
  <2> QED
    BY <2>2, <2>5, <2>6, <2>7 DEF RowsOf, S
<1> QED
  BY <1>1, <1>2

(* What a slot of the root may hold, and what one of a directory.          *)
RootCell(cell) ==
  \/ cell \in {Zero, Deleted}
  \/ /\ cell = Entry(cell.name, TRUE, cell.clust, 0)
     /\ cell.name \in Dirs /\ cell.clust \in Clusters
FileCell(cell) ==
  \/ cell \in {Zero, Deleted}
  \/ /\ cell = Entry(cell.name, FALSE, cell.clust, cell.size)
     /\ cell.clust \in Clusters \cup {0} /\ cell.size \in 0 .. MaxUnits

(* Files follow the two dots, and after a zero there are only zeros.       *)
Listing(v, S) ==
  /\ \A k \in 1 .. Len(S) : IF k < 3 THEN At(v, S[k]) = Dot ELSE FileCell(At(v, S[k]))
  /\ \A k, l \in 1 .. Len(S) : k < l /\ At(v, S[k]) = Zero => At(v, S[l]) = Zero

(* c is the first cluster of a directory: its chain ends, and its slots    *)
(* are the two dots and then files, with nothing behind a blank one.       *)
Directory(v, c) ==
  /\ c \in Clusters /\ Sound(v, c)
  /\ \A x \in ClustersOf(v, c) : v.disk[x] = [i \in 0 .. PerSector - 1 |-> v.disk[x][i]]
  /\ Listing(v, Slots(v, c))

(* The kinds of cells differ, and an entry has what it was made of.        *)
LEMMA Kinds ==
  /\ ~IsEntry(Zero) /\ ~IsEntry(Deleted) /\ ~IsEntry(Dot) /\ Zero # Deleted /\ Zero # Dot /\ Deleted # Dot
  /\ \A n, d, c, z : /\ IsEntry(Entry(n, d, c, z)) /\ Entry(n, d, c, z) \notin {Zero, Deleted, Dot}
                     /\ Entry(n, d, c, z).name = n /\ Entry(n, d, c, z).dir = d
                     /\ Entry(n, d, c, z).clust = c /\ Entry(n, d, c, z).size = z
BY DEF IsEntry, Zero, Deleted, Dot, Entry

(* The slots of a directory.                                               *)
LEMMA SlotKnown ==
  ASSUME NEW v, NEW c \in Clusters, Sound(v, c)
  PROVE  /\ Len(Slots(v, c)) \in Nat /\ DOMAIN Slots(v, c) = 1 .. Len(Slots(v, c))
         /\ ToSet(Slots(v, c)) = {Slots(v, c)[k] : k \in 1 .. Len(Slots(v, c))}
         /\ \A k, l \in 1 .. Len(Slots(v, c)) : Slots(v, c)[k] = Slots(v, c)[l] => k = l
         /\ \A s \in ToSet(Slots(v, c)) :
              /\ s = <<s[1], s[2]>> /\ s[1] \in ClustersOf(v, c) /\ s[2] \in 0 .. PerSector - 1
              /\ s[1] \in Clusters /\ s # NoSlot
<1> DEFINE S == Slots(v, c)
<1>0. c # 0 /\ c \in Clusters \cup {0} /\ (c # 0 => Sound(v, c))
  BY Constants
<1>1. DOMAIN S = 1 .. Len(S) /\ Len(S) \in Nat
  BY <1>0, SlotsOnce
<1>2. \A k, l \in DOMAIN S : S[k] = S[l] => k = l
  BY <1>0, SlotsOnce
<1>3. \A k \in DOMAIN S : S[k] = <<S[k][1], S[k][2]>> /\ S[k][1] \in Where(v, c)
                          /\ S[k][2] \in 0 .. Rows(S[k][1]) - 1
  BY <1>0, SlotsOnce
<1>4. Where(v, c) = ClustersOf(v, c) /\ ClustersOf(v, c) \subseteq Clusters
  BY <1>0, ClustersIn DEF Where
<1>5. \A x \in ClustersOf(v, c) : Rows(x) = PerSector
  BY <1>4, Constants DEF Rows
<1>6. ToSet(S) = {S[k] : k \in DOMAIN S}
  BY DEF ToSet
<1> HIDE DEF S
<1>7. \A k \in DOMAIN S : S[k] # NoSlot
  BY <1>3 DEF NoSlot
<1>8. ASSUME NEW s \in ToSet(S)
      PROVE  /\ s = <<s[1], s[2]>> /\ s[1] \in ClustersOf(v, c) /\ s[2] \in 0 .. PerSector - 1
             /\ s[1] \in Clusters /\ s # NoSlot
  <2>1. PICK k \in DOMAIN S : s = S[k]
    BY <1>6
  <2> QED
    BY <2>1, <1>3, <1>4, <1>5, <1>7
<1>9. ToSet(S) = {S[k] : k \in 1 .. Len(S)}
  BY <1>1, <1>6
<1> QED
  BY <1>1, <1>2, <1>8, <1>9 DEF S

(* The slots depend on the chain only.                                     *)
LEMMA SlotsByChain ==
  ASSUME NEW v, NEW w, NEW c, Chain(w, c) = Chain(v, c)
  PROVE  Slots(w, c) = Slots(v, c)
BY DEF Slots

(* A directory whose chain and sectors are kept is the same.               *)
LEMMA DirFrame ==
  ASSUME NEW v, NEW w, NEW c, Directory(v, c), Chain(w, c) = Chain(v, c), Sound(w, c),
         \A x \in ClustersOf(v, c) : w.disk[x] = v.disk[x]
  PROVE  /\ Directory(w, c) /\ Slots(w, c) = Slots(v, c) /\ ClustersOf(w, c) = ClustersOf(v, c)
         /\ \A s \in ToSet(Slots(v, c)) : At(w, s) = At(v, s)
         /\ FilesIn(w, c) = FilesIn(v, c)
<1> DEFINE S == Slots(v, c)
<1>1. c \in Clusters /\ Sound(v, c)
  BY DEF Directory
<1>2. Slots(w, c) = S /\ ClustersOf(w, c) = ClustersOf(v, c)
  BY SlotsByChain DEF ClustersOf
<1>3. \A s \in ToSet(S) : s[1] \in ClustersOf(v, c)
  BY <1>1, SlotKnown
<1>4. \A s \in ToSet(S) : At(w, s) = At(v, s)
  BY <1>3 DEF At
<1>5. \A k \in 1 .. Len(S) : S[k] \in ToSet(S)
  BY <1>1, SlotKnown
<1> HIDE DEF S
<1>6. Listing(v, S)
  BY DEF Directory, S
<1>7. Listing(w, S)
  <2>1. \A k \in 1 .. Len(S) : At(w, S[k]) = At(v, S[k])
    BY <1>4, <1>5
  <2> QED
    BY <2>1, <1>6 DEF Listing
<1>8. Directory(w, c)
  BY <1>2, <1>7, <1>1 DEF Directory
<1>9. FilesIn(w, c) = FilesIn(v, c)
  BY <1>2, <1>4 DEF FilesIn, S
<1> QED
  BY <1>2, <1>4, <1>8, <1>9 DEF S

(* A cell of a directory was written.                                      *)
PutInto(v, w, c, s, cell) ==
  /\ Directory(w, c) /\ Slots(w, c) = Slots(v, c) /\ ClustersOf(w, c) = ClustersOf(v, c)
  /\ \A x \in ToSet(Slots(v, c)) : At(w, x) = IF x = s THEN cell ELSE At(v, x)
  /\ FilesIn(w, c) = (FilesIn(v, c) \ {s}) \cup (IF IsEntry(cell) THEN {s} ELSE {})
  /\ Volume(w) /\ w.fat = v.fat
  /\ \A x \in Clusters \cup {0} : x \notin ClustersOf(v, c) => w.disk[x] = v.disk[x]
  /\ At(w, s) = cell /\ s[1] \in ClustersOf(v, c)

(* A cell of a directory is written: not over the dots, not after a zero,  *)
(* and not with a zero.                                                    *)
LEMMA DirPut ==
  ASSUME NEW v, Volume(v), NEW c, Directory(v, c), NEW k \in 3 .. Len(Slots(v, c)),
         NEW s, s = Slots(v, c)[k], \A j \in 1 .. k - 1 : At(v, Slots(v, c)[j]) # Zero,
         NEW cell, FileCell(cell), cell # Zero
  PROVE  PutInto(v, Put(v, s, cell), c, s, cell)
<1> DEFINE S == Slots(v, c)
           w == Put(v, s, cell)
<1>1. c \in Clusters /\ Sound(v, c) /\ Listing(v, S)
  BY DEF Directory
<1>2. /\ Len(S) \in Nat /\ ToSet(S) = {S[j] : j \in 1 .. Len(S)}
      /\ \A j, l \in 1 .. Len(S) : S[j] = S[l] => j = l
      /\ \A x \in ToSet(S) : /\ x = <<x[1], x[2]>> /\ x[1] \in ClustersOf(v, c)
                             /\ x[2] \in 0 .. PerSector - 1 /\ x[1] \in Clusters
  BY <1>1, SlotKnown
<1>3. k \in 1 .. Len(S) /\ k >= 3 /\ s = S[k] /\ s \in ToSet(S)
  BY <1>2
<1>4. s[1] \in Clusters \cup {0} /\ s[1] \in ClustersOf(v, c) /\ s[2] \in 0 .. PerSector - 1
  BY <1>2, <1>3
<1>5. /\ Volume(w) /\ w.fat = v.fat
      /\ \A x \in Clusters \cup {0} : x # s[1] => w.disk[x] = v.disk[x]
      /\ w.disk[s[1]] = [v.disk[s[1]] EXCEPT ![s[2]] = cell]
  BY <1>4, PutIs
<1>6. \A x \in ClustersOf(v, c) : v.disk[x] = [i \in 0 .. PerSector - 1 |-> v.disk[x][i]]
  BY DEF Directory
<1>7. Chain(w, c) = Chain(v, c) /\ Sound(w, c)
  <2>1. Chain(w, c) = Chain(v, c)
    BY <1>5, ChainByTable
  <2> QED
    BY <2>1, <1>5, <1>1 DEF Sound, IsChain
<1>8. Slots(w, c) = S /\ ClustersOf(w, c) = ClustersOf(v, c)
  BY <1>7, SlotsByChain DEF ClustersOf
<1>0. \A j \in 1 .. k - 1 : At(v, S[j]) # Zero
  OBVIOUS
<1> HIDE DEF S, w
<1>9. ASSUME NEW x \in ToSet(S) PROVE At(w, x) = IF x = s THEN cell ELSE At(v, x)
  <2>1. CASE x = s
    BY <2>1, <1>4, <1>5, <1>6 DEF At
  <2>2. CASE x[1] # s[1]
    <3>1. x[1] \in Clusters \cup {0} /\ x # s
      BY <2>2, <1>2
    <3> QED
      BY <3>1, <2>2, <1>5 DEF At
  <2>3. CASE x[1] = s[1] /\ x # s
    <3>1. x[2] # s[2] /\ x[2] \in 0 .. PerSector - 1
      BY <2>3, <1>2, <1>3
    <3> QED
      BY <2>3, <3>1, <1>4, <1>5, <1>6 DEF At
  <2> QED
    BY <2>1, <2>2, <2>3
<1>10. \A j \in 1 .. Len(S) : At(w, S[j]) = IF j = k THEN cell ELSE At(v, S[j])
  BY <1>2, <1>3, <1>9
<1>11. Listing(w, S)
  <2>1. \A j \in 1 .. Len(S) : IF j < 3 THEN At(w, S[j]) = Dot ELSE FileCell(At(w, S[j]))
    BY <1>1, <1>3, <1>10 DEF Listing
  <2>2. ASSUME NEW j \in 1 .. Len(S), NEW l \in 1 .. Len(S), j < l, At(w, S[j]) = Zero
        PROVE  At(w, S[l]) = Zero
    <3>1. j # k /\ At(v, S[j]) = Zero
      BY <2>2, <1>10
    <3>2. l # k
      BY <3>1, <2>2, <1>2, <1>3, <1>0
    <3> QED
      BY <3>1, <3>2, <2>2, <1>1, <1>10 DEF Listing
  <2> QED
    BY <2>1, <2>2 DEF Listing
<1>12. \A x \in ClustersOf(v, c) : w.disk[x] = [i \in 0 .. PerSector - 1 |-> w.disk[x][i]]
  <2> TAKE x \in ClustersOf(v, c)
  <2>1. CASE x = s[1]
    BY <2>1, <1>5, <1>6
  <2>2. CASE x # s[1]
    <3>1. w.disk[x] = v.disk[x]
      BY <2>2, <1>1, <1>5, ClustersIn
    <3> QED
      BY <3>1, <1>6
  <2> QED
    BY <2>1, <2>2
<1>13. Directory(w, c)
  BY <1>1, <1>7, <1>8, <1>11, <1>12 DEF Directory
<1>14. FilesIn(w, c) = (FilesIn(v, c) \ {s}) \cup (IF IsEntry(cell) THEN {s} ELSE {})
  <2>1. FilesIn(w, c) = {x \in ToSet(S) : IsEntry(At(w, x))}
    BY <1>8 DEF FilesIn
  <2>2. FilesIn(v, c) = {x \in ToSet(S) : IsEntry(At(v, x))}
    BY DEF FilesIn, S
  <2> QED
    BY <2>1, <2>2, <1>9, <1>3
<1>15. \A x \in Clusters \cup {0} : x \notin ClustersOf(v, c) => w.disk[x] = v.disk[x]
  BY <1>4, <1>5
<1> QED
  BY <1>3, <1>4, <1>5, <1>8, <1>9, <1>13, <1>14, <1>15 DEF PutInto, S, w

(* A directory without a blank slot grows by a cluster of zeros.           *)
LEMMA DirGrow ==
  ASSUME NEW v, NEW w, NEW c, Directory(v, c), NEW n \in Clusters, n \notin ClustersOf(v, c),
         Sound(w, c), Chain(w, c) = Append(Chain(v, c), n),
         \A x \in ClustersOf(v, c) : w.disk[x] = v.disk[x], w.disk[n] = BlankTable,
         \A k \in 1 .. Len(Slots(v, c)) : At(v, Slots(v, c)[k]) # Zero
  PROVE  /\ Directory(w, c) /\ ClustersOf(w, c) = ClustersOf(v, c) \cup {n}
         /\ Len(Slots(v, c)) + 1 \in 1 .. Len(Slots(w, c)) /\ Len(Slots(v, c)) + 1 >= 3
         /\ Slots(w, c)[Len(Slots(v, c)) + 1] = <<n, 0>>
         /\ \A k \in 1 .. Len(Slots(v, c)) : At(w, Slots(w, c)[k]) # Zero
         /\ \A x \in ToSet(Slots(v, c)) : At(w, x) = At(v, x)
         /\ FilesIn(w, c) = FilesIn(v, c) /\ <<n, 0>> \notin FilesIn(v, c)
<1> DEFINE S == Slots(v, c)
           T == Slots(w, c)
           s == Chain(v, c)
           t == Chain(w, c)
           m == Len(s)
<1>1. c \in Clusters /\ Sound(v, c) /\ Listing(v, S) /\ n # 0
  BY Constants DEF Directory
<1>2. RowsOf(S, s) /\ RowsOf(T, t)
  BY <1>1, DirSlotAt
<1>3. /\ Len(S) \in Nat /\ ToSet(S) = {S[j] : j \in 1 .. Len(S)}
      /\ Len(T) \in Nat /\ ToSet(T) = {T[j] : j \in 1 .. Len(T)}
      /\ \A x \in ToSet(S) : x = <<x[1], x[2]>> /\ x[1] \in ClustersOf(v, c)
  BY <1>1, SlotKnown
<1>4. s \in Seq(Clusters) /\ t = Append(s, n)
  BY <1>1, ChainShape
<1>5. ClustersOf(v, c) = {s[j] : j \in 1 .. m} /\ ClustersOf(w, c) = {t[j] : j \in 1 .. Len(t)}
  BY ClustersIn
<1>6. \A k \in 1 .. Len(S) : At(v, S[k]) # Zero
  OBVIOUS
<1>0. /\ \A x \in ClustersOf(v, c) : v.disk[x] = [i \in 0 .. PerSector - 1 |-> v.disk[x][i]]
      /\ \A x \in ClustersOf(v, c) : w.disk[x] = v.disk[x]
  BY DEF Directory
<1> HIDE DEF S, T, s, t
<1>7. m \in Nat /\ Len(t) = m + 1 /\ t[m + 1] = n /\ \A j \in 1 .. m : t[j] = s[j]
  BY <1>4
<1>8. ClustersOf(w, c) = ClustersOf(v, c) \cup {n}
  BY <1>5, <1>7
<1>9. Len(S) = m * PerSector /\ Len(T) = (m + 1) * PerSector /\ m >= 1
  BY <1>2, <1>7 DEF RowsOf
<1>10. Len(T) = Len(S) + PerSector /\ Len(S) >= PerSector
  <2>1. (m + 1) * PerSector = m * PerSector + PerSector
    BY <1>7, Constants
  <2>2. m * PerSector >= PerSector
    <3>1. (m - 1) * PerSector >= 0
      BY <1>9, <1>7, Constants
    <3>2. (m - 1) * PerSector = m * PerSector - PerSector
      BY <1>7, Constants
    <3>3. m * PerSector \in Nat
      BY <1>3, <1>9
    <3> QED
      BY <3>1, <3>2, <3>3, Constants
  <2> QED
    BY <2>1, <2>2, <1>9
<1>11. ASSUME NEW k \in 1 .. Len(S) PROVE T[k] = S[k] /\ k \in 1 .. Len(T)
  <2>1. PICK j \in 1 .. m, i \in 0 .. PerSector - 1 :
           k = PerSector * (j - 1) + i + 1 /\ S[k] = <<s[j], i>>
    BY <1>2, <1>9 DEF RowsOf
  <2>2. j \in 1 .. Len(t)
    BY <1>7
  <2>3. T[k] = <<t[j], i>>
    BY <2>1, <2>2, <1>2 DEF RowsOf
  <2>4. T[k] = <<s[j], i>>
    BY <2>3, <1>7
  <2>5. k \in 1 .. Len(T)
    <3>1. Len(S) \in Nat /\ Len(T) \in Nat
      BY ONLY <1>3
    <3>2. Len(S) =< Len(T)
      BY ONLY <1>10, <3>1, Constants
    <3> QED
      BY ONLY k \in 1 .. Len(S), <3>1, <3>2
  <2> QED
    BY <2>1, <2>4, <2>5
<1>12. ASSUME NEW k \in 1 .. Len(T), k > Len(S)
       PROVE  \E i \in 0 .. PerSector - 1 : T[k] = <<n, i>>
  <2>1. PICK j \in 1 .. m + 1, i \in 0 .. PerSector - 1 :
           k = PerSector * (j - 1) + i + 1 /\ T[k] = <<t[j], i>>
    BY <1>2, <1>7, <1>9 DEF RowsOf
  <2>2. j \notin 1 .. m
    <3> SUFFICES ASSUME j \in 1 .. m PROVE FALSE
      OBVIOUS
    <3>1. PerSector * (j - 1) + i + 1 \in 1 .. Len(S)
      BY <1>2, <1>9 DEF RowsOf
    <3>2. k \in 1 .. Len(S)
      BY <2>1, <3>1
    <3> QED
      BY <3>2, <1>3, <1>12
  <2>3. j = m + 1
    BY <2>2, <1>7
  <2> QED
    BY <2>1, <2>3, <1>7
<1>13. T[Len(S) + 1] = <<n, 0>> /\ Len(S) + 1 \in 1 .. Len(T)
  <2>1. m + 1 \in 1 .. Len(t) /\ 0 \in 0 .. PerSector - 1
    BY <1>7, Constants
  <2>2. T[PerSector * ((m + 1) - 1) + 0 + 1] = <<t[m + 1], 0>>
    BY <2>1, <1>2 DEF RowsOf
  <2>3. PerSector * ((m + 1) - 1) + 0 + 1 = Len(S) + 1
    <3>1. PerSector * ((m + 1) - 1) = m * PerSector
      BY <1>7, Constants
    <3> QED
      BY <3>1, <1>9, <1>3
  <2>4. Len(S) + 1 \in 1 .. Len(T)
    BY <1>3, <1>10, Constants
  <2> QED
    BY <2>2, <2>3, <2>4, <1>7
<1>14. \A x \in ToSet(S) : At(w, x) = At(v, x)
  BY <1>0, <1>3 DEF At
<1>15. \A k \in 1 .. Len(S) : At(w, T[k]) = At(v, S[k])
  BY <1>3, <1>11, <1>14
<1>16. \A k \in 1 .. Len(T) : k > Len(S) => At(w, T[k]) = Zero
  <2> TAKE k \in 1 .. Len(T)
  <2> HAVE k > Len(S)
  <2>1. PICK i \in 0 .. PerSector - 1 : T[k] = <<n, i>>
    BY <1>12
  <2>2. At(w, <<n, i>>) = BlankTable[i]
    BY DEF At
  <2> QED
    BY <2>1, <2>2 DEF BlankTable
<1>17. Listing(w, T)
  <2>1. \A k \in 1 .. Len(T) : IF k < 3 THEN At(w, T[k]) = Dot ELSE FileCell(At(w, T[k]))
    <3> TAKE k \in 1 .. Len(T)
    <3>1. CASE k \in 1 .. Len(S)
      BY <3>1, <1>1, <1>15 DEF Listing
    <3>2. CASE k > Len(S)
      <4>1. At(w, T[k]) = Zero /\ k >= 3
        BY <3>2, <1>3, <1>10, <1>16, Constants
      <4> QED
        BY <4>1 DEF FileCell
    <3> QED
      BY <3>1, <3>2, <1>3
  <2>2. \A k, l \in 1 .. Len(T) : k < l /\ At(w, T[k]) = Zero => At(w, T[l]) = Zero
    <3> TAKE k, l \in 1 .. Len(T)
    <3> HAVE k < l /\ At(w, T[k]) = Zero
    <3>1. k \notin 1 .. Len(S)
      BY <1>6, <1>15
    <3>2. l > Len(S)
      BY <3>1, <1>3
    <3> QED
      BY <3>2, <1>16
  <2> QED
    BY <2>1, <2>2 DEF Listing
<1>18. \A x \in ClustersOf(w, c) : w.disk[x] = [i \in 0 .. PerSector - 1 |-> w.disk[x][i]]
  <2>1. w.disk[n] = [i \in 0 .. PerSector - 1 |-> w.disk[n][i]]
    BY DEF BlankTable
  <2> QED
    BY <2>1, <1>0, <1>8
<1>19. Directory(w, c)
  BY <1>1, <1>17, <1>18 DEF Directory, T
<1>20. FilesIn(w, c) = FilesIn(v, c)
  <2>1. FilesIn(w, c) = {x \in ToSet(T) : IsEntry(At(w, x))}
    BY DEF FilesIn, T
  <2>2. FilesIn(v, c) = {x \in ToSet(S) : IsEntry(At(v, x))}
    BY DEF FilesIn, S
  <2>3. \A x \in ToSet(S) : x \in ToSet(T)
    BY <1>3, <1>11
  <2>4. \A x \in ToSet(T) : IsEntry(At(w, x)) => x \in ToSet(S)
    <3> TAKE x \in ToSet(T)
    <3>1. PICK k \in 1 .. Len(T) : x = T[k]
      BY <1>3
    <3>2. CASE k \in 1 .. Len(S)
      BY <3>1, <3>2, <1>3, <1>11
    <3>3. CASE k > Len(S)
      BY <3>1, <3>3, <1>16, Kinds
    <3> QED
      BY <3>1, <3>2, <3>3, <1>3
  <2> QED
    BY <2>1, <2>2, <2>3, <2>4, <1>14
<1>21. <<n, 0>> \notin FilesIn(v, c)
  BY <1>3 DEF FilesIn, S
<1>22. Len(S) + 1 >= 3 /\ \A k \in 1 .. Len(S) : At(w, T[k]) # Zero
  BY <1>3, <1>6, <1>10, <1>15, Constants
<1> QED
  BY <1>8, <1>13, <1>14, <1>19, <1>20, <1>21, <1>22 DEF S, T

-----------------------------------------------------------------------------
(* The least of some positions.                                            *)
LEMMA FirstOf ==
  ASSUME NEW n \in Nat, NEW P \in SUBSET (1 .. n), P # {}
  PROVE  Min(P) \in P /\ Min(P) \in 1 .. n /\ \A k \in P : Min(P) <= k
<1>1. 1 \in Int /\ n \in Int
  OBVIOUS
<1>2. IsFiniteSet(P) /\ P \in SUBSET Int
  BY <1>1, Between
<1>3. \E m \in P : \A x \in P : m <= x
  BY <1>2, SmallestElement
<1> QED
  BY <1>3 DEF Min

(* What dir_find finds.                                                    *)
LEMMA FindIs ==
  ASSUME NEW v, NEW c, NEW name, NEW n \in Nat, DOMAIN Slots(v, c) = 1 .. n,
         Find(v, c, name) # NoSlot
  PROVE  /\ Find(v, c, name) \in FilesIn(v, c) /\ At(v, Find(v, c, name)).name = name
<1> DEFINE S == Slots(v, c)
           stops == {k \in DOMAIN S : LET cell == At(v, S[k]) IN
                       cell = Zero \/ (IsEntry(cell) /\ cell.name = name)}
           m == Min(stops)
           r == Find(v, c, name)
<1>1. r = IF stops = {} \/ At(v, S[m]) = Zero THEN NoSlot ELSE S[m]
  BY DEF Find
<1>2. stops # {} /\ At(v, S[m]) # Zero /\ r = S[m]
  BY <1>1
<1>3. stops \in SUBSET (1 .. n)
  OBVIOUS
<1>4. m \in stops
  <2> HIDE DEF stops
  <2> QED
    BY <1>2, <1>3, FirstOf
<1>5. m \in DOMAIN S /\ IsEntry(At(v, S[m])) /\ At(v, S[m]).name = name
  BY <1>2, <1>4
<1>6. S[m] \in ToSet(S)
  BY <1>5 DEF ToSet
<1> HIDE DEF m, S, r
<1> QED
  BY <1>2, <1>5, <1>6 DEF FilesIn, S, r

(* A slot behind the dots that no zero precedes.                           *)
Placed(v, c, k, s) ==
  /\ k \in 3 .. Len(Slots(v, c)) /\ s = Slots(v, c)[k]
  /\ \A j \in 1 .. k - 1 : At(v, Slots(v, c)[j]) # Zero

(* Every entry of a directory has such a place.                            *)
LEMMA FilePlaced ==
  ASSUME NEW v, NEW c, Directory(v, c), NEW s \in FilesIn(v, c)
  PROVE  \E k : Placed(v, c, k, s)
<1> DEFINE S == Slots(v, c)
<1>1. c \in Clusters /\ Sound(v, c) /\ Listing(v, S)
  BY DEF Directory
<1>2. Len(S) \in Nat /\ ToSet(S) = {S[j] : j \in 1 .. Len(S)}
  BY <1>1, SlotKnown
<1>3. s \in ToSet(S) /\ IsEntry(At(v, s))
  BY DEF FilesIn
<1> HIDE DEF S
<1>4. PICK k \in 1 .. Len(S) : s = S[k]
  BY <1>2, <1>3
<1>5. k \in 3 .. Len(S)
  BY <1>1, <1>2, <1>3, <1>4, Kinds DEF Listing
<1>6. \A j \in 1 .. k - 1 : At(v, S[j]) # Zero
  <2> SUFFICES ASSUME NEW j \in 1 .. k - 1, At(v, S[j]) = Zero PROVE FALSE
    OBVIOUS
  <2>1. At(v, S[k]) = Zero
    BY <1>1, <1>2 DEF Listing
  <2> QED
    BY <2>1, <1>3, <1>4, Kinds
<1> QED
  BY <1>4, <1>5, <1>6 DEF Placed, S

(* f_unlink of a directory finds no file in it.                            *)
LEMMA EmptyIs ==
  ASSUME NEW v, NEW c, Directory(v, c), Empty(v, c)
  PROVE  FilesIn(v, c) = {}
<1> DEFINE S == Slots(v, c)
           stops == {k \in 3 .. Len(S) : At(v, S[k]) # Deleted}
           m == Min(stops)
<1>1. c \in Clusters /\ Sound(v, c) /\ Listing(v, S)
  BY DEF Directory
<1>2. Len(S) \in Nat
  BY <1>1, SlotKnown
<1>3. stops # {} => At(v, S[m]) = Zero
  BY DEF Empty
<1> SUFFICES ASSUME NEW s \in FilesIn(v, c) PROVE FALSE
  OBVIOUS
<1>4. IsEntry(At(v, s))
  BY DEF FilesIn
<1>5. PICK k : Placed(v, c, k, s)
  BY FilePlaced
<1>6. k \in stops
  BY <1>4, <1>5, Kinds DEF Placed
<1>7. stops \in SUBSET (1 .. Len(S))
  BY <1>2
<1>8. m \in stops /\ m <= k
  <2> HIDE DEF stops
  <2> QED
    BY <1>2, <1>6, <1>7, FirstOf
<1>9. At(v, S[m]) = Zero
  BY <1>3, <1>6
<1> HIDE DEF m
<1>10. m \in 1 .. k - 1 \/ m = k
  BY <1>2, <1>5, <1>8 DEF Placed
<1>11. S[k] = s
  BY <1>5 DEF Placed
<1> QED
  BY <1>4, <1>5, <1>9, <1>10, <1>11, Kinds DEF Placed

(* The last slot is in the last cluster.                                   *)
LEMMA LastSlot ==
  ASSUME NEW v, NEW c \in Clusters
  PROVE  Slots(v, c)[Len(Slots(v, c))][1] = Chain(v, c)[Len(Chain(v, c))]
<1> DEFINE S == Slots(v, c)
           s == Chain(v, c)
           m == Len(s)
<1>1. RowsOf(S, s)
  BY DirSlotAt
<1> HIDE DEF S, s
<1>2. m \in Nat \ {0} /\ Len(S) = m * PerSector
  BY <1>1 DEF RowsOf
<1>3. m \in 1 .. m /\ PerSector - 1 \in 0 .. PerSector - 1
  BY <1>2, Constants
<1>4. S[PerSector * (m - 1) + (PerSector - 1) + 1] = <<s[m], PerSector - 1>>
  BY <1>1, <1>3 DEF RowsOf
<1>5. PerSector * (m - 1) + (PerSector - 1) + 1 = m * PerSector
  BY <1>2, Constants
<1> QED
  BY <1>2, <1>4, <1>5 DEF S, s

(* dir_alloc in a directory: a slot that is blank, or none, or the first   *)
(* one of a new cluster.                                                   *)
Grown(v, c, a) ==
  LET r == CreateChain(v, Chain(v, c)[Len(Chain(v, c))]) IN
  /\ Taken(v, Chain(v, c)[Len(Chain(v, c))], r)
  /\ a.v = [r.v EXCEPT !.disk[r.cl] = BlankTable] /\ a.slot = <<r.cl, 0>>
  /\ \A k \in 1 .. Len(Slots(v, c)) : At(v, Slots(v, c)[k]) # Zero

(* dir_alloc finds no slot, a slot without an entry before which nothing   *)
(* is blank, or the first slot of a new cluster (ff.cpp:1179-1204).        *)
LEMMA AllocIs ==
  ASSUME NEW v, Volume(v), NEW c, Directory(v, c)
  PROVE  LET a == Alloc(v, c) IN
         \/ a.v = v /\ a.slot = NoSlot
         \/ a.v = v /\ a.slot # NoSlot /\ ~IsEntry(At(v, a.slot)) /\ \E k : Placed(v, c, k, a.slot)
         \/ Grown(v, c, a)
<1> DEFINE S == Slots(v, c)
           a == Alloc(v, c)
           l == Chain(v, c)[Len(Chain(v, c))]
           r == CreateChain(v, l)
           blank == {k \in DOMAIN S : At(v, S[k]) \in {Zero, Deleted}}
           m == Min(blank)
<1>1. c \in Clusters /\ Sound(v, c) /\ Listing(v, S) /\ c # 0
  BY Constants DEF Directory
<1>2. /\ Len(S) \in Nat /\ DOMAIN S = 1 .. Len(S) /\ ToSet(S) = {S[j] : j \in 1 .. Len(S)}
      /\ \A x \in ToSet(S) : x # NoSlot
  BY <1>1, SlotKnown
<1>3. S[Len(S)][1] = l
  BY <1>1, LastSlot
<1>4. a = IF blank # {} THEN [v |-> v, slot |-> S[m]]
          ELSE IF r.cl < 2 THEN [v |-> v, slot |-> NoSlot]
          ELSE [v |-> [r.v EXCEPT !.disk[r.cl] = BlankTable], slot |-> <<r.cl, 0>>]
  BY <1>1, <1>3 DEF Alloc
<1>5. v.fat[l] = EOC /\ l \in Clusters
  BY <1>1 DEF Sound, IsChain
<1>6. CASE blank # {}
  <2>1. blank \in SUBSET (1 .. Len(S))
    BY <1>2
  <2>2. m \in blank /\ \A k \in blank : m <= k
    <3> HIDE DEF blank
    <3> QED
      BY <1>2, <1>6, <2>1, FirstOf
  <2>3. a = [v |-> v, slot |-> S[m]]
    BY <1>4, <1>6
  <2>4. m \in 1 .. Len(S) /\ At(v, S[m]) \in {Zero, Deleted}
    BY <2>1, <2>2
  <2>5. \A j \in 1 .. Len(S) : At(v, S[j]) = Zero => m <= j
    BY <1>2, <2>2
  <2> HIDE DEF m, S, a
  <2>6. m \in 3 .. Len(S)
    BY <1>1, <1>2, <2>4, Kinds DEF Listing
  <2>7. \A j \in 1 .. m - 1 : At(v, S[j]) # Zero
    BY <1>2, <2>5, <2>6
  <2>8. a.v = v /\ a.slot = S[m] /\ ~IsEntry(At(v, S[m])) /\ S[m] # NoSlot
    BY <1>2, <2>3, <2>4, Kinds
  <2>9. Placed(v, c, m, S[m])
    BY <2>6, <2>7 DEF Placed, S
  <2>10. \/ a.v = v /\ a.slot = NoSlot
         \/ a.v = v /\ a.slot # NoSlot /\ ~IsEntry(At(v, a.slot)) /\ \E k : Placed(v, c, k, a.slot)
         \/ Grown(v, c, a)
    BY <2>8, <2>9
  <2> QED
    BY <2>10 DEF a
<1>7. CASE blank = {}
  <2>1. a = IF r.cl < 2 THEN [v |-> v, slot |-> NoSlot]
            ELSE [v |-> [r.v EXCEPT !.disk[r.cl] = BlankTable], slot |-> <<r.cl, 0>>]
    BY <1>4, <1>7
  <2>2. \A k \in 1 .. Len(S) : At(v, S[k]) # Zero
    BY <1>2, <1>7
  <2>3. Taken(v, l, r) \/ NoneLeft(v, r)
    BY <1>5, CreateChainIs
  <2> HIDE DEF r, a
  <2>4. CASE Taken(v, l, r)
    <3>0. r.cl \in Clusters
      BY <2>4 DEF Taken
    <3>1. ~(r.cl < 2)
      BY <3>0, Constants DEF Clusters
    <3>2. a.v = [r.v EXCEPT !.disk[r.cl] = BlankTable] /\ a.slot = <<r.cl, 0>>
      BY <2>1, <3>1
    <3>3. Grown(v, c, a)
      BY <2>2, <2>4, <3>2 DEF Grown, r
    <3> QED
      BY <3>3 DEF a
  <2>5. CASE NoneLeft(v, r)
    <3>1. a.v = v /\ a.slot = NoSlot
      BY <2>1, <2>5 DEF NoneLeft
    <3> QED
      BY <3>1 DEF a
  <2> QED
    BY <2>3, <2>4, <2>5
<1> QED
  BY <1>6, <1>7

(* In the root.                                                            *)
LEMMA AllocRootIs ==
  ASSUME NEW v
  PROVE  LET a == Alloc(v, 0) IN
         \/ a.v = v /\ a.slot = NoSlot
         \/ a.v = v /\ a.slot # NoSlot /\ a.slot \in DirSlots /\ ~IsEntry(At(v, a.slot))
<1> DEFINE S == Slots(v, 0)
           a == Alloc(v, 0)
           blank == {k \in DOMAIN S : At(v, S[k]) \in {Zero, Deleted}}
           m == Min(blank)
<1>1. a = IF blank # {} THEN [v |-> v, slot |-> S[m]] ELSE [v |-> v, slot |-> NoSlot]
  BY DEF Alloc
<1>2. S = [k \in 1 .. NRoot |-> <<0, k - 1>>]
  BY RootSlots
<1>3. CASE blank # {}
  <2>1. blank \in SUBSET (1 .. NRoot) /\ NRoot \in Nat
    BY <1>2, Constants
  <2>2. m \in blank
    <3> HIDE DEF blank
    <3> QED
      BY <1>3, <2>1, FirstOf
  <2>3. m \in 1 .. NRoot /\ ~IsEntry(At(v, S[m]))
    BY <2>1, <2>2, Kinds
  <2> HIDE DEF m, blank
  <2>4. S[m] = <<0, m - 1>> /\ m - 1 \in 0 .. NRoot - 1
    BY <1>2, <2>3, Constants
  <2> HIDE DEF S
  <2>5. S[m] \in DirSlots /\ S[m] # NoSlot
    BY <2>4 DEF DirSlots, NoSlot
  <2> QED
    BY <1>1, <1>3, <2>3, <2>5
<1>4. CASE blank = {}
  BY <1>1, <1>4
<1> QED
  BY <1>3, <1>4

(* The root and the directories in it.                                     *)
Tree(v) ==
  /\ Volume(v)
  /\ v.disk[0] = [i \in 0 .. NRoot - 1 |-> v.disk[0][i]]
  /\ \A s \in DirSlots : RootCell(At(v, s))
  /\ \A d \in LiveDirs(v) : Directory(v, At(v, d).clust)
  /\ \A d, e \in LiveDirs(v) :
       d # e => ClustersOf(v, At(v, d).clust) \cap ClustersOf(v, At(v, e).clust) = {}

(* The slot s holds the entry of the path p.                               *)
InDir(v, p, s) ==
  \E d \in LiveDirs(v) : /\ At(v, d).name = p[1]
                         /\ s \in FilesIn(v, At(v, d).clust) /\ At(v, s).name = p[2]

(* What an entry of the root says.                                         *)
LEMMA DirFacts ==
  ASSUME NEW v, Tree(v), NEW d \in LiveDirs(v)
  PROVE  /\ d \in DirSlots /\ d = <<d[1], d[2]>> /\ d[1] = 0 /\ d[2] \in 0 .. NRoot - 1
         /\ IsEntry(At(v, d)) /\ At(v, d) = Entry(At(v, d).name, TRUE, At(v, d).clust, 0)
         /\ At(v, d).name \in Dirs /\ At(v, d).clust \in Clusters /\ At(v, d).size = 0
         /\ Directory(v, At(v, d).clust)
<1>1. d \in DirSlots /\ IsEntry(At(v, d)) /\ RootCell(At(v, d)) /\ Directory(v, At(v, d).clust)
  BY DEF LiveDirs, Tree
<1>2. d = <<d[1], d[2]>> /\ d[1] = 0 /\ d[2] \in 0 .. NRoot - 1
  BY <1>1 DEF DirSlots
<1>3. /\ At(v, d) = Entry(At(v, d).name, TRUE, At(v, d).clust, 0)
      /\ At(v, d).name \in Dirs /\ At(v, d).clust \in Clusters
  BY <1>1, Kinds DEF RootCell
<1>4. At(v, d).size = 0
  BY <1>3 DEF Entry
<1> QED
  BY <1>1, <1>2, <1>3, <1>4

(* What an entry of a directory says.                                      *)
LEMMA FileFacts ==
  ASSUME NEW v, NEW c, Directory(v, c), NEW s \in FilesIn(v, c)
  PROVE  /\ s = <<s[1], s[2]>> /\ s[1] \in ClustersOf(v, c) /\ s[2] \in 0 .. PerSector - 1
         /\ s[1] \in Clusters /\ s # NoSlot /\ s \notin DirSlots
         /\ s \in (Clusters \cup {0}) \X Nat
         /\ IsEntry(At(v, s)) /\ At(v, s) = Entry(At(v, s).name, FALSE, At(v, s).clust, At(v, s).size)
         /\ At(v, s).clust \in Clusters \cup {0} /\ At(v, s).size \in 0 .. MaxUnits
<1>1. c \in Clusters /\ Sound(v, c) /\ Listing(v, Slots(v, c))
  BY DEF Directory
<1>2. s \in ToSet(Slots(v, c)) /\ IsEntry(At(v, s))
  BY DEF FilesIn
<1>3. /\ s = <<s[1], s[2]>> /\ s[1] \in ClustersOf(v, c) /\ s[2] \in 0 .. PerSector - 1
      /\ s[1] \in Clusters /\ s # NoSlot
  BY <1>1, <1>2, SlotKnown
<1>4. s \notin DirSlots
  BY <1>3, Constants DEF DirSlots
<1>5. s \in (Clusters \cup {0}) \X Nat
  BY <1>3, Constants
<1>6. PICK k \in 3 .. Len(Slots(v, c)) : s = Slots(v, c)[k]
  BY FilePlaced DEF Placed
<1>7. FileCell(At(v, s))
  <2>1. k \in 1 .. Len(Slots(v, c)) /\ ~(k < 3)
    OBVIOUS
  <2> QED
    BY <1>1, <1>6, <2>1 DEF Listing
<1>8. /\ At(v, s) = Entry(At(v, s).name, FALSE, At(v, s).clust, At(v, s).size)
      /\ At(v, s).clust \in Clusters \cup {0} /\ At(v, s).size \in 0 .. MaxUnits
  BY <1>2, <1>7, Kinds DEF FileCell
<1> QED
  BY <1>2, <1>3, <1>4, <1>5, <1>8

(* The files are the entries of the directories, and none is in the root.  *)
LEMMA LiveFacts ==
  ASSUME NEW v, Tree(v)
  PROVE  /\ \A s \in LiveFiles(v) : \E d \in LiveDirs(v) : s \in FilesIn(v, At(v, d).clust)
         /\ \A d \in LiveDirs(v) : \A s \in FilesIn(v, At(v, d).clust) : s \in LiveFiles(v)
         /\ LiveFiles(v) \cap DirSlots = {} /\ LiveDirs(v) \subseteq DirSlots
         /\ \A p, s : InDir(v, p, s) => s \in LiveFiles(v)
         /\ \A s \in LiveFiles(v) : /\ s = <<s[1], s[2]>> /\ IsEntry(At(v, s))
                                    /\ At(v, s).clust \in Clusters \cup {0}
                                    /\ At(v, s).size \in 0 .. MaxUnits
<1>1. /\ \A s \in LiveFiles(v) : \E d \in LiveDirs(v) : s \in FilesIn(v, At(v, d).clust)
      /\ \A d \in LiveDirs(v) : \A s \in FilesIn(v, At(v, d).clust) : s \in LiveFiles(v)
  BY DEF LiveFiles
<1>2. ASSUME NEW s \in LiveFiles(v)
      PROVE  /\ s = <<s[1], s[2]>> /\ IsEntry(At(v, s)) /\ s \notin DirSlots
             /\ At(v, s).clust \in Clusters \cup {0} /\ At(v, s).size \in 0 .. MaxUnits
  <2>1. PICK d \in LiveDirs(v) : s \in FilesIn(v, At(v, d).clust)
    BY <1>1
  <2>2. Directory(v, At(v, d).clust)
    BY DirFacts
  <2> QED
    BY <2>1, <2>2, FileFacts
<1>3. \A p, s : InDir(v, p, s) => s \in LiveFiles(v)
  BY <1>1 DEF InDir
<1>4. LiveDirs(v) \subseteq DirSlots
  BY DEF LiveDirs
<1> QED
  BY <1>1, <1>2, <1>3, <1>4

(* In which directory a file is.                                           *)
LEMMA OneDir ==
  ASSUME NEW v, Tree(v), NEW d \in LiveDirs(v), NEW e \in LiveDirs(v),
         NEW s \in FilesIn(v, At(v, d).clust), s \in FilesIn(v, At(v, e).clust)
  PROVE  d = e
<1>1. s[1] \in ClustersOf(v, At(v, d).clust)
  BY DirFacts, FileFacts
<1>2. s[1] \in ClustersOf(v, At(v, e).clust)
  BY DirFacts, FileFacts
<1> QED
  BY <1>1, <1>2 DEF Tree

(* A slot is the entry of one path.                                        *)
LEMMA OnePath ==
  ASSUME NEW v, Tree(v), NEW p \in Paths, NEW q \in Paths, NEW s, InDir(v, p, s), InDir(v, q, s)
  PROVE  p = q
<1>1. PICK d \in LiveDirs(v) : /\ At(v, d).name = p[1]
                               /\ s \in FilesIn(v, At(v, d).clust) /\ At(v, s).name = p[2]
  BY DEF InDir
<1>2. PICK e \in LiveDirs(v) : /\ At(v, e).name = q[1]
                               /\ s \in FilesIn(v, At(v, e).clust) /\ At(v, s).name = q[2]
  BY DEF InDir
<1>3. d = e
  BY <1>1, <1>2, OneDir
<1>4. p[1] = q[1] /\ p[2] = q[2]
  BY <1>1, <1>2, <1>3
<1>5. p = <<p[1], p[2]>> /\ q = <<q[1], q[2]>>
  BY VolumeConstants
<1> QED
  BY <1>4, <1>5

(* What two volumes share when one entry is made, changed or taken away.   *)
Edited(v, w, s, on) ==
  /\ LiveDirs(w) = LiveDirs(v)
  /\ LiveFiles(w) = (LiveFiles(v) \ {s}) \cup on
  /\ \A x \in LiveDirs(v) \cup LiveFiles(v) : x # s => At(w, x) = At(v, x)
  /\ \A p, x : InDir(v, p, x) /\ x # s => InDir(w, p, x)

(* The same directories and files, with the same entries.                  *)
Same(v, w) ==
  /\ LiveDirs(w) = LiveDirs(v) /\ LiveFiles(w) = LiveFiles(v)
  /\ \A x \in LiveDirs(v) \cup LiveFiles(v) : At(w, x) = At(v, x)
  /\ \A p, x : InDir(v, p, x) => InDir(w, p, x)

(* The root is the same.                                                   *)
LEMMA RootFrame ==
  ASSUME NEW v, NEW w, Tree(v), w.disk[0] = v.disk[0]
  PROVE  /\ \A s \in DirSlots : At(w, s) = At(v, s) /\ RootCell(At(w, s))
         /\ LiveDirs(w) = LiveDirs(v)
         /\ w.disk[0] = [i \in 0 .. NRoot - 1 |-> w.disk[0][i]]
<1>1. \A s \in DirSlots : At(w, s) = At(v, s)
  BY DEF DirSlots, At
<1> QED
  BY <1>1 DEF Tree, LiveDirs

(* All other directories are as they were.                                 *)
Others(v, w, d, s) ==
  \A e \in LiveDirs(v) : e # d =>
     /\ Chain(w, At(v, e).clust) = Chain(v, At(v, e).clust) /\ Sound(w, At(v, e).clust)
     /\ \A x \in ClustersOf(v, At(v, e).clust) : w.disk[x] = v.disk[x]
     /\ ClustersOf(v, At(v, e).clust) \cap ClustersOf(w, At(v, d).clust) = {}
     /\ s \notin FilesIn(v, At(v, e).clust)

(* Directories that are kept one by one, all but one, which is edited.     *)
LEMMA TreeEdit ==
  ASSUME NEW v, NEW w, Tree(v), Volume(w), w.disk[0] = v.disk[0], NEW d \in LiveDirs(v),
         NEW s, NEW on, on \subseteq {s},
         Others(v, w, d, s),
         Directory(w, At(v, d).clust),
         FilesIn(w, At(v, d).clust) = (FilesIn(v, At(v, d).clust) \ {s}) \cup on,
         \A x \in FilesIn(v, At(v, d).clust) : x # s => At(w, x) = At(v, x)
  PROVE  Tree(w) /\ Edited(v, w, s, on)
<1>1. /\ \A x \in DirSlots : At(w, x) = At(v, x) /\ RootCell(At(w, x))
      /\ LiveDirs(w) = LiveDirs(v)
      /\ w.disk[0] = [i \in 0 .. NRoot - 1 |-> w.disk[0][i]]
  BY RootFrame
<1>2. \A e \in LiveDirs(v) : At(w, e) = At(v, e)
  BY <1>1 DEF LiveDirs
<1>3. ASSUME NEW e \in LiveDirs(v), e # d
      PROVE  LET c == At(v, e).clust IN
             /\ Directory(w, c) /\ ClustersOf(w, c) = ClustersOf(v, c)
             /\ \A x \in FilesIn(v, c) : At(w, x) = At(v, x)
             /\ FilesIn(w, c) = FilesIn(v, c) /\ s \notin FilesIn(v, c)
  <2> DEFINE c == At(v, e).clust
  <2>1. Directory(v, c)
    BY DirFacts
  <2>2. Chain(w, c) = Chain(v, c) /\ Sound(w, c) /\ s \notin FilesIn(v, c)
        /\ \A x \in ClustersOf(v, c) : w.disk[x] = v.disk[x]
    BY <1>3 DEF Others
  <2> HIDE DEF c
  <2>3. /\ Directory(w, c) /\ ClustersOf(w, c) = ClustersOf(v, c)
        /\ \A x \in ToSet(Slots(v, c)) : At(w, x) = At(v, x)
        /\ FilesIn(w, c) = FilesIn(v, c)
    BY <2>1, <2>2, DirFrame
  <2>4. FilesIn(v, c) \subseteq ToSet(Slots(v, c))
    BY DEF FilesIn
  <2> QED
    BY <2>2, <2>3, <2>4 DEF c
<1>4. Tree(w)
  <2>1. \A e \in LiveDirs(w) : Directory(w, At(w, e).clust)
    BY <1>1, <1>2, <1>3
  <2>2. ASSUME NEW e \in LiveDirs(v), NEW f \in LiveDirs(v), e # f
        PROVE  ClustersOf(w, At(v, e).clust) \cap ClustersOf(w, At(v, f).clust) = {}
    <3>1. ClustersOf(v, At(v, e).clust) \cap ClustersOf(v, At(v, f).clust) = {}
      BY <2>2 DEF Tree
    <3>2. CASE e = d
      <4>1. f # d
        BY <2>2, <3>2
      <4>2. ClustersOf(w, At(v, f).clust) = ClustersOf(v, At(v, f).clust)
        BY <4>1, <1>3
      <4>3. ClustersOf(v, At(v, f).clust) \cap ClustersOf(w, At(v, d).clust) = {}
        BY <4>1 DEF Others
      <4> QED
        BY <3>2, <4>2, <4>3
    <3>3. CASE f = d
      <4>1. e # d
        BY <2>2, <3>3
      <4>2. ClustersOf(w, At(v, e).clust) = ClustersOf(v, At(v, e).clust)
        BY <4>1, <1>3
      <4>3. ClustersOf(v, At(v, e).clust) \cap ClustersOf(w, At(v, d).clust) = {}
        BY <4>1 DEF Others
      <4> QED
        BY <3>3, <4>2, <4>3
    <3>4. CASE e # d /\ f # d
      <4>1. ClustersOf(w, At(v, e).clust) = ClustersOf(v, At(v, e).clust)
        BY <3>4, <1>3
      <4>2. ClustersOf(w, At(v, f).clust) = ClustersOf(v, At(v, f).clust)
        BY <3>4, <1>3
      <4> QED
        BY <3>1, <4>1, <4>2
    <3> QED
      BY <3>2, <3>3, <3>4
  <2> QED
    BY <1>1, <1>2, <2>1, <2>2 DEF Tree
<1>5. \A e \in LiveDirs(v) : FilesIn(w, At(w, e).clust) =
         IF e = d THEN (FilesIn(v, At(v, e).clust) \ {s}) \cup on ELSE FilesIn(v, At(v, e).clust)
  BY <1>2, <1>3
<1>6. LiveFiles(w) = (LiveFiles(v) \ {s}) \cup on
  <2>1. ASSUME NEW x PROVE x \in LiveFiles(w) <=> \E e \in LiveDirs(v) : x \in FilesIn(w, At(w, e).clust)
    BY <1>1 DEF LiveFiles
  <2>2. ASSUME NEW x PROVE x \in LiveFiles(v) <=> \E e \in LiveDirs(v) : x \in FilesIn(v, At(v, e).clust)
    BY DEF LiveFiles
  <2>3. \A e \in LiveDirs(v) : e # d => s \notin FilesIn(v, At(v, e).clust)
    BY DEF Others
  <2>4. ASSUME NEW x \in LiveFiles(w) PROVE x \in (LiveFiles(v) \ {s}) \cup on
    <3>1. PICK e \in LiveDirs(v) : x \in FilesIn(w, At(w, e).clust)
      BY <2>1
    <3> QED
      BY <3>1, <1>5, <2>2, <2>3
  <2>5. ASSUME NEW x \in (LiveFiles(v) \ {s}) \cup on PROVE x \in LiveFiles(w)
    <3>1. CASE x \in on
      BY <3>1, <1>5, <2>1
    <3>2. CASE x \in LiveFiles(v) /\ x # s
      BY <3>2, <1>5, <2>1, <2>2
    <3> QED
      BY <3>1, <3>2
  <2> QED
    BY <2>4, <2>5
<1>7. \A x \in LiveDirs(v) \cup LiveFiles(v) : x # s => At(w, x) = At(v, x)
  BY <1>2, <1>3 DEF LiveFiles
<1>8. \A p, x : InDir(v, p, x) /\ x # s => InDir(w, p, x)
  <2> SUFFICES ASSUME NEW p, NEW x, InDir(v, p, x), x # s PROVE InDir(w, p, x)
    OBVIOUS
  <2>1. PICK e \in LiveDirs(v) : /\ At(v, e).name = p[1]
                                 /\ x \in FilesIn(v, At(v, e).clust) /\ At(v, x).name = p[2]
    BY DEF InDir
  <2>2. x \in FilesIn(w, At(w, e).clust)
    BY <2>1, <1>5
  <2>3. x \in LiveFiles(v)
    BY <2>1 DEF LiveFiles
  <2>4. At(w, x) = At(v, x) /\ At(w, e) = At(v, e)
    BY <2>3, <1>2, <1>7
  <2> QED
    BY <2>1, <2>2, <2>4, <1>1 DEF InDir
<1> QED
  BY <1>1, <1>4, <1>6, <1>7, <1>8 DEF Edited

(* Directories that are kept one by one.                                   *)
LEMMA TreeSame ==
  ASSUME NEW v, NEW w, Tree(v), Volume(w), w.disk[0] = v.disk[0],
         \A e \in LiveDirs(v) :
            /\ Chain(w, At(v, e).clust) = Chain(v, At(v, e).clust) /\ Sound(w, At(v, e).clust)
            /\ \A x \in ClustersOf(v, At(v, e).clust) : w.disk[x] = v.disk[x]
  PROVE  Tree(w) /\ Same(v, w)
<1>1. /\ \A x \in DirSlots : At(w, x) = At(v, x) /\ RootCell(At(w, x))
      /\ LiveDirs(w) = LiveDirs(v)
      /\ w.disk[0] = [i \in 0 .. NRoot - 1 |-> w.disk[0][i]]
  BY RootFrame
<1>2. \A e \in LiveDirs(v) : At(w, e) = At(v, e)
  BY <1>1 DEF LiveDirs
<1>3. ASSUME NEW e \in LiveDirs(v)
      PROVE  LET c == At(v, e).clust IN
             /\ Directory(w, c) /\ ClustersOf(w, c) = ClustersOf(v, c)
             /\ \A x \in FilesIn(v, c) : At(w, x) = At(v, x)
             /\ FilesIn(w, c) = FilesIn(v, c)
  <2> DEFINE c == At(v, e).clust
  <2>1. Directory(v, c)
    BY DirFacts
  <2>2. Chain(w, c) = Chain(v, c) /\ Sound(w, c)
        /\ \A x \in ClustersOf(v, c) : w.disk[x] = v.disk[x]
    OBVIOUS
  <2> HIDE DEF c
  <2>3. /\ Directory(w, c) /\ ClustersOf(w, c) = ClustersOf(v, c)
        /\ \A x \in ToSet(Slots(v, c)) : At(w, x) = At(v, x)
        /\ FilesIn(w, c) = FilesIn(v, c)
    BY <2>1, <2>2, DirFrame
  <2>4. FilesIn(v, c) \subseteq ToSet(Slots(v, c))
    BY DEF FilesIn
  <2> QED
    BY <2>3, <2>4 DEF c
<1>4. Tree(w)
  <2>1. \A e \in LiveDirs(w) : Directory(w, At(w, e).clust)
    BY <1>1, <1>2, <1>3
  <2>2. \A e, f \in LiveDirs(w) :
           e # f => ClustersOf(w, At(w, e).clust) \cap ClustersOf(w, At(w, f).clust) = {}
    BY <1>1, <1>2, <1>3 DEF Tree
  <2> QED
    BY <1>1, <2>1, <2>2 DEF Tree
<1>5. LiveFiles(w) = LiveFiles(v)
  BY <1>1, <1>2, <1>3 DEF LiveFiles
<1>6. \A x \in LiveDirs(v) \cup LiveFiles(v) : At(w, x) = At(v, x)
  BY <1>2, <1>3 DEF LiveFiles
<1>7. \A p, x : InDir(v, p, x) => InDir(w, p, x)
  BY <1>1, <1>2, <1>3 DEF InDir
<1> QED
  BY <1>1, <1>4, <1>5, <1>6, <1>7 DEF Same

(* A file is entered, changed or taken out.                                *)
Replaced(v, w, d, s, cell) ==
  /\ Tree(w) /\ Edited(v, w, s, IF IsEntry(cell) THEN {s} ELSE {})
  /\ At(w, s) = cell /\ w.fat = v.fat
  /\ s \notin DirSlots
  /\ \A p : IsEntry(cell) /\ p[1] = At(v, d).name /\ p[2] = cell.name => InDir(w, p, s)

(* An entry of a directory is written in a place that may have one.        *)
LEMMA TreePut ==
  ASSUME NEW v, Tree(v), NEW d \in LiveDirs(v), NEW k, NEW s, Placed(v, At(v, d).clust, k, s),
         NEW cell, FileCell(cell), cell # Zero
  PROVE  Replaced(v, Put(v, s, cell), d, s, cell)
<1> DEFINE c == At(v, d).clust
           w == Put(v, s, cell)
           on == IF IsEntry(cell) THEN {s} ELSE {}
<1>1. Volume(v) /\ Directory(v, c) /\ c \in Clusters /\ Sound(v, c)
  BY DirFacts DEF Tree, Directory
<1>2. /\ k \in 3 .. Len(Slots(v, c)) /\ s = Slots(v, c)[k]
      /\ \A j \in 1 .. k - 1 : At(v, Slots(v, c)[j]) # Zero
  BY DEF Placed
<1> HIDE DEF c
<1>0. PutInto(v, w, c, s, cell)
  BY <1>1, <1>2, DirPut
<1> HIDE DEF w
<1>3. /\ Directory(w, c) /\ ClustersOf(w, c) = ClustersOf(v, c)
      /\ \A x \in ToSet(Slots(v, c)) : At(w, x) = IF x = s THEN cell ELSE At(v, x)
      /\ FilesIn(w, c) = (FilesIn(v, c) \ {s}) \cup on
      /\ Volume(w) /\ w.fat = v.fat
      /\ \A x \in Clusters \cup {0} : x \notin ClustersOf(v, c) => w.disk[x] = v.disk[x]
      /\ At(w, s) = cell /\ s[1] \in ClustersOf(v, c)
  BY <1>0 DEF PutInto
<1> HIDE DEF on
<1>4. w.disk[0] = v.disk[0]
  BY <1>3, ClustersIn, Constants
<1>5. \A x \in FilesIn(v, c) : x # s => At(w, x) = At(v, x)
  BY <1>3 DEF FilesIn
<1>6. ASSUME NEW e \in LiveDirs(v), e # d
      PROVE  /\ Chain(w, At(v, e).clust) = Chain(v, At(v, e).clust) /\ Sound(w, At(v, e).clust)
             /\ \A x \in ClustersOf(v, At(v, e).clust) : w.disk[x] = v.disk[x]
             /\ ClustersOf(v, At(v, e).clust) \cap ClustersOf(w, c) = {}
             /\ s \notin FilesIn(v, At(v, e).clust)
  <2> DEFINE b == At(v, e).clust
  <2>1. ClustersOf(v, b) \cap ClustersOf(v, c) = {}
    BY <1>6 DEF Tree, c
  <2>2. Directory(v, b) /\ Sound(v, b)
    BY DirFacts DEF Directory
  <2> HIDE DEF b
  <2>3. Chain(w, b) = Chain(v, b)
    BY <1>3, ChainByTable
  <2>4. Sound(w, b)
    BY <2>2, <2>3, <1>3 DEF Sound, IsChain
  <2>5. \A x \in ClustersOf(v, b) : w.disk[x] = v.disk[x]
    BY <1>3, <2>1, ClustersIn
  <2>6. s \notin FilesIn(v, b)
    BY <1>3, <2>1, <2>2, FileFacts
  <2> QED
    BY <1>3, <2>1, <2>3, <2>4, <2>5, <2>6 DEF b
<1>7. on \subseteq {s}
  BY DEF on
<1>8. Tree(w) /\ Edited(v, w, s, on)
  <2>1. Others(v, w, d, s)
    BY <1>6 DEF Others, c
  <2>2. /\ Directory(w, At(v, d).clust) /\ Volume(w)
        /\ FilesIn(w, At(v, d).clust) = (FilesIn(v, At(v, d).clust) \ {s}) \cup on
        /\ \A x \in FilesIn(v, At(v, d).clust) : x # s => At(w, x) = At(v, x)
    BY <1>3, <1>5 DEF c
  <2> QED
    BY ONLY Tree(v), d \in LiveDirs(v), <1>4, <1>7, <2>1, <2>2, TreeEdit
<1>9. s \notin DirSlots
  BY <1>3, ClustersIn, Constants DEF DirSlots
<1>10. ASSUME IsEntry(cell), NEW p, p[1] = At(v, d).name, p[2] = cell.name PROVE InDir(w, p, s)
  <2>1. d \in LiveDirs(w) /\ At(w, d) = At(v, d)
    <3>1. d # s
      BY <1>9 DEF LiveDirs
    <3> QED
      BY <1>8, <3>1 DEF Edited
  <2>2. s \in FilesIn(w, c)
    BY <1>3, <1>10 DEF on
  <2> QED
    BY <2>1, <2>2, <1>3, <1>10 DEF InDir, c
<1> QED
  BY <1>3, <1>8, <1>9, <1>10 DEF Replaced, w, on

(* A directory grows.                                                      *)
LEMMA TreeGrow ==
  ASSUME NEW v, NEW w, Tree(v), Volume(w), NEW d \in LiveDirs(v), NEW n \in Clusters,
         \A e \in LiveDirs(v) : n \notin ClustersOf(v, At(v, e).clust),
         \A x \in Clusters \cup {0} : x # n => w.disk[x] = v.disk[x], w.disk[n] = BlankTable,
         Chain(w, At(v, d).clust) = Append(Chain(v, At(v, d).clust), n), Sound(w, At(v, d).clust),
         \A e \in LiveDirs(v) : e # d =>
            Chain(w, At(v, e).clust) = Chain(v, At(v, e).clust) /\ Sound(w, At(v, e).clust),
         \A k \in 1 .. Len(Slots(v, At(v, d).clust)) : At(v, Slots(v, At(v, d).clust)[k]) # Zero
  PROVE  /\ Tree(w) /\ Edited(v, w, <<n, 0>>, {}) /\ <<n, 0>> \notin LiveFiles(v)
         /\ At(w, d) = At(v, d) /\ \E k : Placed(w, At(v, d).clust, k, <<n, 0>>)
<1> DEFINE c == At(v, d).clust
           s == <<n, 0>>
<1>1. Directory(v, c)
  BY DirFacts
<1>2. n \notin ClustersOf(v, c) /\ n # 0
  BY Constants
<1>3. \A x \in ClustersOf(v, c) : w.disk[x] = v.disk[x]
  BY <1>2, ClustersIn
<1>4. \A k \in 1 .. Len(Slots(v, c)) : At(v, Slots(v, c)[k]) # Zero
  OBVIOUS
<1>5. Chain(w, c) = Append(Chain(v, c), n) /\ Sound(w, c)
  OBVIOUS
<1> HIDE DEF c
<1>6. /\ Directory(w, c) /\ ClustersOf(w, c) = ClustersOf(v, c) \cup {n}
      /\ Len(Slots(v, c)) + 1 \in 1 .. Len(Slots(w, c)) /\ Len(Slots(v, c)) + 1 >= 3
      /\ Slots(w, c)[Len(Slots(v, c)) + 1] = <<n, 0>>
      /\ \A k \in 1 .. Len(Slots(v, c)) : At(w, Slots(w, c)[k]) # Zero
      /\ \A x \in ToSet(Slots(v, c)) : At(w, x) = At(v, x)
      /\ FilesIn(w, c) = FilesIn(v, c) /\ <<n, 0>> \notin FilesIn(v, c)
  BY <1>1, <1>2, <1>3, <1>4, <1>5, DirGrow
<1>7. w.disk[0] = v.disk[0]
  BY <1>2
<1>8. ASSUME NEW e \in LiveDirs(v), e # d
      PROVE  /\ Chain(w, At(v, e).clust) = Chain(v, At(v, e).clust) /\ Sound(w, At(v, e).clust)
             /\ \A x \in ClustersOf(v, At(v, e).clust) : w.disk[x] = v.disk[x]
             /\ ClustersOf(v, At(v, e).clust) \cap ClustersOf(w, c) = {}
             /\ s \notin FilesIn(v, At(v, e).clust)
  <2> DEFINE b == At(v, e).clust
  <2>1. n \notin ClustersOf(v, b) /\ Chain(w, b) = Chain(v, b) /\ Sound(w, b)
    BY <1>8
  <2>2. ClustersOf(v, b) \cap ClustersOf(v, c) = {}
    BY <1>8 DEF Tree, c
  <2>3. Directory(v, b)
    BY DirFacts
  <2> HIDE DEF b
  <2>4. \A x \in ClustersOf(v, b) : w.disk[x] = v.disk[x]
    BY <2>1, ClustersIn
  <2>5. s \notin FilesIn(v, b)
    <3> SUFFICES ASSUME s \in FilesIn(v, b) PROVE FALSE
      OBVIOUS
    <3>1. s[1] \in ClustersOf(v, b)
      BY <2>3, FileFacts
    <3> QED
      BY <2>1, <3>1
  <2> QED
    BY <2>1, <2>2, <2>4, <2>5, <1>6 DEF b
<1>9. FilesIn(w, c) = (FilesIn(v, c) \ {s}) \cup {}
  BY <1>6
<1>10. \A x \in FilesIn(v, c) : x # s => At(w, x) = At(v, x)
  BY <1>6 DEF FilesIn
<1> HIDE DEF s
<1>11. Tree(w) /\ Edited(v, w, s, {})
  <2>1. {} \subseteq {s}
    OBVIOUS
  <2>2. Others(v, w, d, s)
    BY <1>8 DEF Others, c
  <2> USE DEF c
  <2> QED
    BY <1>6, <1>7, <1>9, <1>10, <2>1, <2>2, TreeEdit
<1>12. s \notin LiveFiles(v)
  <2>1. \A e \in LiveDirs(v) : s \notin FilesIn(v, At(v, e).clust)
    BY <1>6, <1>8 DEF s, c
  <2> QED
    BY <2>1 DEF LiveFiles
<1>13. At(w, d) = At(v, d)
  <2>1. d \in DirSlots
    BY DEF LiveDirs
  <2>2. w.disk[0] = v.disk[0]
    BY <1>7
  <2> QED
    BY ONLY <2>1, <2>2, Tree(v), RootFrame
<1>14. Placed(w, c, Len(Slots(v, c)) + 1, s)
  <2>1. Len(Slots(v, c)) \in Nat /\ Len(Slots(w, c)) \in Nat
    <3>1. c \in Clusters /\ Sound(v, c) /\ Sound(w, c)
      BY <1>1, <1>5 DEF Directory
    <3> QED
      BY <3>1, SlotKnown
  <2>2. Len(Slots(v, c)) + 1 \in 3 .. Len(Slots(w, c))
    BY <2>1, <1>6
  <2>3. (Len(Slots(v, c)) + 1) - 1 = Len(Slots(v, c))
    BY <2>1
  <2> QED
    BY <2>2, <2>3, <1>6 DEF Placed, s
<1> QED
  BY <1>11, <1>12, <1>13, <1>14 DEF s, c

(* A directory is made or taken out.                                       *)
LEMMA TreeRoot ==
  ASSUME NEW v, Tree(v), NEW s \in DirSlots, NEW cell, RootCell(cell),
         s \in LiveDirs(v) => FilesIn(v, At(v, s).clust) = {},
         IsEntry(cell) => /\ Directory(v, cell.clust) /\ FilesIn(v, cell.clust) = {}
                          /\ \A e \in LiveDirs(v) :
                               ClustersOf(v, At(v, e).clust) \cap ClustersOf(v, cell.clust) = {}
  PROVE  LET w == Put(v, s, cell) IN
         /\ Tree(w) /\ w.fat = v.fat /\ At(w, s) = cell
         /\ LiveDirs(w) = (LiveDirs(v) \ {s}) \cup (IF IsEntry(cell) THEN {s} ELSE {})
         /\ LiveFiles(w) = LiveFiles(v)
         /\ \A x \in LiveDirs(v) \cup LiveFiles(v) : x # s => At(w, x) = At(v, x)
         /\ \A p, x : InDir(v, p, x) => InDir(w, p, x)
<1> DEFINE w == Put(v, s, cell)
           on == IF IsEntry(cell) THEN {s} ELSE {}
<1>1. Volume(v) /\ s[1] = 0 /\ s[2] \in 0 .. NRoot - 1 /\ s = <<s[1], s[2]>>
  BY DEF Tree, DirSlots
<1>2. /\ Volume(w) /\ w.fat = v.fat
      /\ \A x \in Clusters \cup {0} : x # 0 => w.disk[x] = v.disk[x]
      /\ w.disk[0] = [v.disk[0] EXCEPT ![s[2]] = cell]
  BY <1>1, PutIs
<1> HIDE DEF w
<1>3. v.disk[0] = [i \in 0 .. NRoot - 1 |-> v.disk[0][i]]
  BY DEF Tree
<1>4. \A x \in DirSlots : At(w, x) = IF x = s THEN cell ELSE At(v, x)
  <2> TAKE x \in DirSlots
  <2>1. x[1] = 0 /\ x[2] \in 0 .. NRoot - 1 /\ x = <<x[1], x[2]>>
    BY DEF DirSlots
  <2> QED
    BY <2>1, <1>1, <1>2, <1>3 DEF At
<1>5. LiveDirs(w) = (LiveDirs(v) \ {s}) \cup on
  BY <1>4 DEF LiveDirs
<1>6. ASSUME NEW c, Directory(v, c)
      PROVE  /\ Directory(w, c) /\ ClustersOf(w, c) = ClustersOf(v, c)
             /\ FilesIn(w, c) = FilesIn(v, c)
             /\ \A x \in FilesIn(v, c) : At(w, x) = At(v, x)
  <2>1. Chain(w, c) = Chain(v, c)
    BY <1>2, ChainByTable
  <2>2. Sound(w, c)
    BY <2>1, <1>2, <1>6 DEF Sound, IsChain, Directory
  <2>3. \A x \in ClustersOf(v, c) : w.disk[x] = v.disk[x]
    BY <1>2, ClustersIn, Constants
  <2>4. /\ Directory(w, c) /\ ClustersOf(w, c) = ClustersOf(v, c)
        /\ FilesIn(w, c) = FilesIn(v, c)
        /\ \A x \in ToSet(Slots(v, c)) : At(w, x) = At(v, x)
    BY <1>6, <2>1, <2>2, <2>3, DirFrame
  <2> QED
    BY <2>4 DEF FilesIn
<1>7. \A e \in LiveDirs(v) : e # s => At(w, e) = At(v, e) /\ Directory(v, At(v, e).clust)
  BY <1>4, DirFacts DEF LiveDirs
<1>8. s \in LiveDirs(w) => /\ IsEntry(cell) /\ At(w, s) = cell /\ Directory(v, cell.clust)
                           /\ FilesIn(v, cell.clust) = {}
  BY <1>4, <1>5 DEF LiveDirs
<1>9. Tree(w)
  <2>1. w.disk[0] = [i \in 0 .. NRoot - 1 |-> w.disk[0][i]]
    BY <1>2, <1>3
  <2>2. \A x \in DirSlots : RootCell(At(w, x))
    BY <1>4 DEF Tree
  <2>3. \A e \in LiveDirs(w) : Directory(w, At(w, e).clust)
    BY <1>5, <1>6, <1>7, <1>8
  <2>4. ASSUME NEW e \in LiveDirs(w), NEW f \in LiveDirs(w), e # f
        PROVE  ClustersOf(w, At(w, e).clust) \cap ClustersOf(w, At(w, f).clust) = {}
    <3>1. CASE e # s /\ f # s
      <4>1. e \in LiveDirs(v) /\ f \in LiveDirs(v)
        BY <3>1, <1>5
      <4>2. ClustersOf(v, At(v, e).clust) \cap ClustersOf(v, At(v, f).clust) = {}
        BY <4>1, <2>4 DEF Tree
      <4> QED
        BY <3>1, <4>1, <4>2, <1>6, <1>7
    <3>2. CASE e = s
      <4>1. f # s /\ f \in LiveDirs(v)
        BY <3>2, <2>4, <1>5
      <4>2. ClustersOf(v, At(v, f).clust) \cap ClustersOf(v, cell.clust) = {}
        BY <4>1, <3>2, <1>8
      <4> QED
        BY <3>2, <4>1, <4>2, <1>6, <1>7, <1>8
    <3>3. CASE f = s
      <4>1. e # s /\ e \in LiveDirs(v)
        BY <3>3, <2>4, <1>5
      <4>2. ClustersOf(v, At(v, e).clust) \cap ClustersOf(v, cell.clust) = {}
        BY <4>1, <3>3, <1>8
      <4> QED
        BY <3>3, <4>1, <4>2, <1>6, <1>7, <1>8
    <3> QED
      BY <3>1, <3>2, <3>3
  <2> QED
    BY <1>2, <2>1, <2>2, <2>3, <2>4 DEF Tree
<1>10. \A e \in LiveDirs(w) : FilesIn(w, At(w, e).clust) =
          IF e = s THEN {} ELSE FilesIn(v, At(v, e).clust)
  BY <1>5, <1>6, <1>7, <1>8
<1>11. LiveFiles(w) = LiveFiles(v)
  <2>1. ASSUME NEW x PROVE x \in LiveFiles(w) <=> \E e \in LiveDirs(w) : x \in FilesIn(w, At(w, e).clust)
    BY DEF LiveFiles
  <2>2. ASSUME NEW x PROVE x \in LiveFiles(v) <=> \E e \in LiveDirs(v) : x \in FilesIn(v, At(v, e).clust)
    BY DEF LiveFiles
  <2>3. ASSUME NEW x \in LiveFiles(w) PROVE x \in LiveFiles(v)
    BY <2>1, <2>2, <1>5, <1>10
  <2>4. ASSUME NEW x \in LiveFiles(v) PROVE x \in LiveFiles(w)
    <3>1. PICK e \in LiveDirs(v) : x \in FilesIn(v, At(v, e).clust)
      BY <2>2
    <3>2. e # s
      BY <3>1
    <3>3. e \in LiveDirs(w)
      BY <3>2, <1>5
    <3> QED
      BY <3>1, <3>2, <3>3, <2>1, <1>10
  <2> QED
    BY <2>3, <2>4
<1>12. \A x \in LiveDirs(v) \cup LiveFiles(v) : x # s => At(w, x) = At(v, x)
  <2>1. \A x \in LiveFiles(v) : At(w, x) = At(v, x)
    <3> TAKE x \in LiveFiles(v)
    <3>1. PICK e \in LiveDirs(v) : x \in FilesIn(v, At(v, e).clust)
      BY DEF LiveFiles
    <3>2. Directory(v, At(v, e).clust)
      BY DirFacts
    <3> QED
      BY <3>1, <3>2, <1>6
  <2> QED
    BY <2>1, <1>7
<1>13. ASSUME NEW p, NEW x, InDir(v, p, x) PROVE InDir(w, p, x)
  <2>1. PICK e \in LiveDirs(v) : /\ At(v, e).name = p[1]
                                 /\ x \in FilesIn(v, At(v, e).clust) /\ At(v, x).name = p[2]
    BY <1>13 DEF InDir
  <2>2. e # s /\ e \in LiveDirs(w)
    BY <2>1, <1>5
  <2>3. x \in LiveFiles(v) /\ x # s
    BY <2>1, LiveFacts
  <2>4. At(w, x) = At(v, x) /\ At(w, e) = At(v, e) /\ x \in FilesIn(w, At(w, e).clust)
    BY <2>1, <2>2, <2>3, <1>10, <1>12
  <2> QED
    BY <2>1, <2>2, <2>4 DEF InDir
<1>14. At(w, s) = cell
  BY <1>4
<1> QED
  BY <1>2, <1>5, <1>9, <1>11, <1>12, <1>13, <1>14 DEF w, on

(* Who owns by an entry, and who by being open.                            *)
Owned(v) == {<<s, At(v, s).clust>> : s \in LiveDirs(v) \cup LiveFiles(v)}
Held(F) == {<< <<h>>, F[h].sclust>> : h \in {h \in Handles : F[h].mode = "write"}}

(* The chains are those of the entries and those of the writers.           *)
LEMMA ChainsAre ==
  ASSUME NEW v, NEW F
  PROVE  ChainsOf(v, F) = Owned(v) \cup Held(F)
BY DEF ChainsOf, Owned, Held

(* A writer is never taken for an entry.                                   *)
LEMMA HeldNames ==
  ASSUME NEW F, NEW o \in Held(F), NEW a, NEW b, NEW c
  PROVE  o # <<<<a, b>>, c>>
<1>1. PICK h : o = <<<<h>>, F[h].sclust>>
  BY DEF Held
<1>2. <<h>> # <<a, b>>
  OBVIOUS
<1> QED
  BY <1>1, <1>2

(* With the same entries there are the same chains of entries.             *)
LEMMA OwnedSame ==
  ASSUME NEW v, NEW w, Same(v, w)
  PROVE  Owned(w) = Owned(v)
BY DEF Owned, Same

(* A file entry goes, and its chain has one owner less.                    *)
LEMMA OwnedOut ==
  ASSUME NEW v, NEW w, NEW s, Edited(v, w, s, {}), s \notin LiveDirs(v)
  PROVE  /\ Owned(w) = Owned(v) \ {<<s, At(v, s).clust>>}
         /\ s \notin LiveFiles(v) => Owned(w) = Owned(v)
<1> DEFINE L == LiveDirs(v) \cup LiveFiles(v)
<1>1. LiveDirs(w) \cup LiveFiles(w) = L \ {s} /\ \A x \in L : x # s => At(w, x) = At(v, x)
  BY DEF Edited
<1>2. Owned(w) = {<<x, At(w, x).clust>> : x \in L \ {s}}
  BY <1>1 DEF Owned
<1>3. {<<x, At(w, x).clust>> : x \in L \ {s}} = {<<x, At(v, x).clust>> : x \in L \ {s}}
  BY <1>1
<1>4. Owned(v) = {<<x, At(v, x).clust>> : x \in L}
  BY DEF Owned
<1> HIDE DEF L
<1>5. Owned(w) = Owned(v) \ {<<s, At(v, s).clust>>}
  BY <1>2, <1>3, <1>4
<1>6. ASSUME s \notin LiveFiles(v) PROVE Owned(w) = Owned(v)
  <2>1. s \notin L
    BY <1>6 DEF L
  <2> QED
    BY <2>1, <1>2, <1>3, <1>4
<1> QED
  BY <1>5, <1>6

(* A file entry comes or changes.                                          *)
LEMMA OwnedIn ==
  ASSUME NEW v, NEW w, NEW s, Edited(v, w, s, {s}), s \notin LiveDirs(v)
  PROVE  /\ Owned(w) = (Owned(v) \ {<<s, At(v, s).clust>>}) \cup {<<s, At(w, s).clust>>}
         /\ s \notin LiveFiles(v) => Owned(w) = Owned(v) \cup {<<s, At(w, s).clust>>}
<1> DEFINE L == LiveDirs(v) \cup LiveFiles(v)
<1>1. LiveDirs(w) \cup LiveFiles(w) = (L \ {s}) \cup {s} /\ \A x \in L : x # s => At(w, x) = At(v, x)
  BY DEF Edited
<1>2. Owned(w) = {<<x, At(w, x).clust>> : x \in (L \ {s}) \cup {s}}
  BY <1>1 DEF Owned
<1>3. {<<x, At(w, x).clust>> : x \in (L \ {s}) \cup {s}}
      = {<<x, At(v, x).clust>> : x \in L \ {s}} \cup {<<s, At(w, s).clust>>}
  BY <1>1
<1>4. Owned(v) = {<<x, At(v, x).clust>> : x \in L}
  BY DEF Owned
<1> HIDE DEF L
<1>5. Owned(w) = (Owned(v) \ {<<s, At(v, s).clust>>}) \cup {<<s, At(w, s).clust>>}
  BY <1>2, <1>3, <1>4
<1>6. ASSUME s \notin LiveFiles(v) PROVE Owned(w) = Owned(v) \cup {<<s, At(w, s).clust>>}
  <2>1. s \notin L
    BY <1>6 DEF L
  <2> QED
    BY <2>1, <1>2, <1>3, <1>4
<1> QED
  BY <1>5, <1>6

(* An entry that goes and comes is one that changes.                       *)
LEMMA EditTwice ==
  ASSUME NEW v, NEW w, NEW u, NEW s, Edited(v, w, s, {}), Edited(w, u, s, {s})
  PROVE  Edited(v, u, s, {s})
BY DEF Edited

(* An edit, then nothing.                                                  *)
LEMMA EditSame ==
  ASSUME NEW v, NEW w, NEW u, NEW s, NEW on, Edited(v, w, s, on), Same(w, u),
         s \notin LiveDirs(v), on \subseteq {s}
  PROVE  Edited(v, u, s, on)
<1>1. \A x \in LiveDirs(v) \cup LiveFiles(v) : x # s => x \in LiveDirs(w) \cup LiveFiles(w)
  BY DEF Edited
<1>2. \A x \in LiveDirs(v) \cup LiveFiles(v) : x # s => At(u, x) = At(v, x)
  BY <1>1 DEF Edited, Same
<1> QED
  BY <1>2 DEF Edited, Same

(* Nothing, twice.                                                         *)
LEMMA SameSame ==
  ASSUME NEW v, NEW w, NEW u, Same(v, w), Same(w, u)
  PROVE  Same(v, u)
BY DEF Same

-----------------------------------------------------------------------------
(* Looking up.                                                             *)
LEMMA DirFound ==
  ASSUME NEW v, NEW name, Find(v, 0, name) # NoSlot
  PROVE  Find(v, 0, name) \in LiveDirs(v) /\ At(v, Find(v, 0, name)).name = name
<1> DEFINE d == Find(v, 0, name)
<1>1. Slots(v, 0) = [k \in 1 .. NRoot |-> <<0, k - 1>>] /\ NRoot \in Nat
  BY RootSlots, Constants
<1>2. d \in FilesIn(v, 0) /\ At(v, d).name = name
  <2>1. DOMAIN Slots(v, 0) = 1 .. NRoot
    BY <1>1
  <2> QED
    BY <1>1, <2>1, FindIs
<1> HIDE DEF d
<1>3. d \in ToSet(Slots(v, 0)) /\ IsEntry(At(v, d))
  BY <1>2 DEF FilesIn
<1>4. PICK k \in 1 .. NRoot : d = <<0, k - 1>>
  BY <1>1, <1>3 DEF ToSet
<1>5. k - 1 \in 0 .. NRoot - 1
  BY Constants
<1>6. d \in DirSlots
  BY <1>4, <1>5 DEF DirSlots
<1> QED
  BY <1>2, <1>3, <1>6 DEF LiveDirs, d

(* dir_find in a directory finds an entry of that name (ff.cpp:1419-1471). *)
LEMMA FileFound ==
  ASSUME NEW v, NEW c, Directory(v, c), NEW name, Find(v, c, name) # NoSlot
  PROVE  Find(v, c, name) \in FilesIn(v, c) /\ At(v, Find(v, c, name)).name = name
<1>1. DOMAIN Slots(v, c) = 1 .. Len(Slots(v, c)) /\ Len(Slots(v, c)) \in Nat
  BY SlotKnown DEF Directory
<1> QED
  BY <1>1, FindIs

(* follow_path finds a file of that path (ff.cpp:1953-2006).               *)
LEMMA LookupIs ==
  ASSUME NEW v, Tree(v), NEW p, Lookup(v, p) # NoSlot
  PROVE  InDir(v, p, Lookup(v, p))
<1> DEFINE d == Find(v, 0, p[1])
           c == At(v, d).clust
           s == Lookup(v, p)
<1>1. s = IF d = NoSlot THEN NoSlot ELSE Find(v, c, p[2])
  BY DEF Lookup
<1>2. d # NoSlot /\ s = Find(v, c, p[2])
  BY <1>1
<1>3. d \in LiveDirs(v) /\ At(v, d).name = p[1]
  BY <1>2, DirFound
<1>4. Directory(v, c)
  BY <1>3, DirFacts
<1> HIDE DEF d, s
<1>5. s # NoSlot
  BY DEF s
<1> HIDE DEF c
<1>6. s \in FilesIn(v, c) /\ At(v, s).name = p[2]
  BY <1>2, <1>4, <1>5, FileFound
<1>7. InDir(v, p, s)
  BY <1>3, <1>6 DEF InDir, c
<1> QED
  BY <1>7 DEF s

-----------------------------------------------------------------------------
(* The table under the tree.                                               *)
DirsIn(v, C) == \A d \in LiveDirs(v) : <<d, At(v, d).clust>> \in C

(* The chains of the directories are among all chains.                     *)
LEMMA DirsInChains ==
  ASSUME NEW v, NEW F
  PROVE  DirsIn(v, ChainsOf(v, F))
BY DEF DirsIn, ChainsOf

(* The sectors of a chain that is no directory's are no directory's.       *)
LEMMA NotOfDir ==
  ASSUME NEW v, NEW C, Tree(v), Apart(v, C), DirsIn(v, C), NEW o \in C,
         \A d \in LiveDirs(v) : o # <<d, At(v, d).clust>>, NEW c \in ClustersOf(v, o[2])
  PROVE  c \in Clusters /\ \A d \in LiveDirs(v) : c \notin ClustersOf(v, At(v, d).clust)
<1>1. c \in Clusters
  BY OwnedTaken
<1>2. ASSUME NEW d \in LiveDirs(v) PROVE c \notin ClustersOf(v, At(v, d).clust)
  <2> DEFINE q == <<d, At(v, d).clust>>
  <2>1. q \in C /\ o # q /\ q[2] = At(v, d).clust
    BY DEF DirsIn
  <2> HIDE DEF q
  <2>2. ClustersOf(v, o[2]) \cap ClustersOf(v, q[2]) = {}
    BY <2>1 DEF Apart
  <2> QED
    BY <2>1, <2>2
<1> QED
  BY <1>1, <1>2

(* A sector outside the directories is written.                            *)
LEMMA TreeSector ==
  ASSUME NEW v, Tree(v), NEW c \in Clusters,
         \A d \in LiveDirs(v) : c \notin ClustersOf(v, At(v, d).clust), NEW b
  PROVE  LET w == [v EXCEPT !.disk[c] = b] IN Tree(w) /\ Same(v, w) /\ w.fat = v.fat
<1> DEFINE w == [v EXCEPT !.disk[c] = b]
<1>1. Volume(v) /\ c \in Clusters \cup {0} /\ c # 0
  BY Constants DEF Tree
<1>2. /\ Volume(w) /\ w.fat = v.fat
      /\ \A d \in Clusters \cup {0} : d # c => w.disk[d] = v.disk[d]
  BY <1>1, SectorIs
<1> HIDE DEF w
<1>3. w.disk[0] = v.disk[0]
  BY <1>1, <1>2
<1>4. ASSUME NEW e \in LiveDirs(v)
      PROVE  /\ Chain(w, At(v, e).clust) = Chain(v, At(v, e).clust) /\ Sound(w, At(v, e).clust)
             /\ \A x \in ClustersOf(v, At(v, e).clust) : w.disk[x] = v.disk[x]
  <2>1. Chain(w, At(v, e).clust) = Chain(v, At(v, e).clust)
    BY <1>2, ChainByTable
  <2>2. Sound(v, At(v, e).clust)
    BY DirFacts DEF Directory
  <2>3. Sound(w, At(v, e).clust)
    BY <2>1, <2>2, <1>2 DEF Sound, IsChain
  <2>4. \A x \in ClustersOf(v, At(v, e).clust) : w.disk[x] = v.disk[x]
    BY <1>2, ClustersIn
  <2> QED
    BY <2>1, <2>3, <2>4
<1>5. Tree(w) /\ Same(v, w)
  BY <1>2, <1>3, <1>4, TreeSame
<1> QED
  BY <1>2, <1>5 DEF w

(* Only the table changes, and the chains of the directories do not.       *)
LEMMA TreeTable ==
  ASSUME NEW v, NEW w, NEW C, NEW D, Tree(v), Volume(w), w.disk = v.disk, DirsIn(v, C),
         Apart(w, D), \A d \in LiveDirs(v) : <<d, At(v, d).clust>> \in D,
         \A d \in LiveDirs(v) : Chain(w, At(v, d).clust) = Chain(v, At(v, d).clust)
  PROVE  Tree(w) /\ Same(v, w)
<1>1. ASSUME NEW e \in LiveDirs(v) PROVE Sound(w, At(v, e).clust)
  <2> DEFINE q == <<e, At(v, e).clust>>
  <2>1. q \in D /\ q[2] = At(v, e).clust /\ q[2] # 0
    BY DirFacts, Constants
  <2> HIDE DEF q
  <2> QED
    BY <2>1 DEF Apart
<1> QED
  BY <1>1, TreeSame

(* The chain of a file or of a writer is given back.                       *)
LEMMA TreeCut ==
  ASSUME NEW v, NEW w, NEW C, Tree(v), Apart(v, C), DirsIn(v, C), NEW o \in C,
         \A d \in LiveDirs(v) : o # <<d, At(v, d).clust>>, Volume(w), w.disk = v.disk,
         w.fat = [d \in Clusters |-> IF d \in ClustersOf(v, o[2]) THEN 0 ELSE v.fat[d]]
  PROVE  /\ Tree(w) /\ Same(v, w) /\ Apart(w, C \ {o})
         /\ \A p \in C \ {o} : Chain(w, p[2]) = Chain(v, p[2])
<1>1. (\A p \in C \ {o} : Chain(w, p[2]) = Chain(v, p[2])) /\ Apart(w, C \ {o})
  BY ApartCut
<1>2. \A d \in LiveDirs(v) : <<d, At(v, d).clust>> \in C \ {o}
  BY DEF DirsIn
<1>3. ASSUME NEW d \in LiveDirs(v) PROVE Chain(w, At(v, d).clust) = Chain(v, At(v, d).clust)
  <2> DEFINE q == <<d, At(v, d).clust>>
  <2>1. q \in C \ {o} /\ q[2] = At(v, d).clust
    BY <1>2
  <2> HIDE DEF q
  <2> QED
    BY <2>1, <1>1
<1>4. Tree(w) /\ Same(v, w)
  BY <1>1, <1>2, <1>3, TreeTable
<1> QED
  BY <1>1, <1>4

(* A chain is begun.                                                       *)
LEMMA TreeBegin ==
  ASSUME NEW v, NEW C, Tree(v), Apart(v, C), DirsIn(v, C), NEW r, Taken(v, 0, r), NEW x
  PROVE  /\ Tree(r.v) /\ Same(v, r.v) /\ Apart(r.v, C \cup {<<x, r.cl>>})
         /\ Chain(r.v, r.cl) = <<r.cl>>
         /\ \A o \in C : Chain(r.v, o[2]) = Chain(v, o[2]) /\ r.cl \notin ClustersOf(v, o[2])
<1> DEFINE w == r.v
           n == r.cl
<1>1. /\ n \in Clusters /\ v.fat[n] = 0 /\ w.fat = [v.fat EXCEPT ![n] = EOC]
      /\ Volume(w) /\ w.disk = v.disk /\ v.fat \in [Clusters -> Clusters \cup {0, EOC}]
  BY DEF Taken, Tree, Volume
<1> HIDE DEF w, n
<1>2. /\ Chain(w, n) = <<n>>
      /\ \A o \in C : Chain(w, o[2]) = Chain(v, o[2])
      /\ Apart(w, C \cup {<<x, n>>})
  BY <1>1, ApartNew
<1>3. \A o \in C : n \notin ClustersOf(v, o[2])
  BY <1>1, OwnedTaken
<1>4. \A d \in LiveDirs(v) : <<d, At(v, d).clust>> \in C \cup {<<x, n>>}
  BY DEF DirsIn
<1>5. ASSUME NEW d \in LiveDirs(v) PROVE Chain(w, At(v, d).clust) = Chain(v, At(v, d).clust)
  <2> DEFINE q == <<d, At(v, d).clust>>
  <2>1. q \in C /\ q[2] = At(v, d).clust
    BY DEF DirsIn
  <2> HIDE DEF q
  <2> QED
    BY <2>1, <1>2
<1>6. Tree(w) /\ Same(v, w)
  BY <1>1, <1>2, <1>4, <1>5, TreeTable
<1> QED
  BY <1>2, <1>3, <1>6 DEF w, n

(* A chain that is no directory's is continued.                            *)
LEMMA TreeNext ==
  ASSUME NEW v, NEW C, Tree(v), Apart(v, C), DirsIn(v, C), NEW o \in C, o[2] # 0,
         \A d \in LiveDirs(v) : o # <<d, At(v, d).clust>>,
         NEW r, NEW l, l = Chain(v, o[2])[Len(Chain(v, o[2]))], Taken(v, l, r)
  PROVE  /\ Tree(r.v) /\ Same(v, r.v) /\ Apart(r.v, C)
         /\ Chain(r.v, o[2]) = Append(Chain(v, o[2]), r.cl)
         /\ \A p \in C : r.cl \notin ClustersOf(v, p[2])
         /\ \A p \in C \ {o} : Chain(r.v, p[2]) = Chain(v, p[2])
<1> DEFINE w == r.v
           n == r.cl
<1>0. l # 0
  <2>1. Sound(v, o[2])
    BY DEF Apart
  <2>2. l \in Clusters
    BY <2>1 DEF Sound, IsChain
  <2> QED
    BY <2>2, Constants
<1>1. /\ n \in Clusters /\ v.fat[n] = 0 /\ w.fat = [v.fat EXCEPT ![l] = n, ![n] = EOC]
      /\ Volume(w) /\ w.disk = v.disk /\ v.fat \in [Clusters -> Clusters \cup {0, EOC}]
  BY <1>0 DEF Taken, Tree, Volume
<1> HIDE DEF w, n
<1>7. Continued(v, w, C, o, n)
  BY <1>1, ApartNext
<1>2. /\ Chain(w, o[2]) = Append(Chain(v, o[2]), n)
      /\ \A p \in C \ {o} : Chain(w, p[2]) = Chain(v, p[2])
      /\ Apart(w, C)
  BY <1>7 DEF Continued
<1>3. \A p \in C : n \notin ClustersOf(v, p[2])
  BY <1>1, OwnedTaken
<1>4. \A d \in LiveDirs(v) : <<d, At(v, d).clust>> \in C
  BY DEF DirsIn
<1>5. ASSUME NEW d \in LiveDirs(v) PROVE Chain(w, At(v, d).clust) = Chain(v, At(v, d).clust)
  <2> DEFINE q == <<d, At(v, d).clust>>
  <2>1. q \in C \ {o} /\ q[2] = At(v, d).clust
    BY <1>4
  <2> HIDE DEF q
  <2> QED
    BY <2>1, <1>2
<1>6. Tree(w) /\ Same(v, w)
  BY <1>1, <1>2, <1>4, <1>5, TreeTable
<1> QED
  BY <1>2, <1>3, <1>6 DEF w, n

(* No file is longer than its chain.                                       *)
Fits(v) == \A s \in LiveFiles(v) : At(v, s).size <= Len(Chain(v, At(v, s).clust)) * SS

(* The fields of a file object.                                            *)
Fil(f) ==
  /\ f = [mode |-> f.mode, slot |-> f.slot, sclust |-> f.sclust, clust |-> f.clust,
          fptr |-> f.fptr, fsize |-> f.fsize, buf |-> f.buf, dsect |-> f.dsect,
          dirty |-> f.dirty, error |-> f.error, path |-> f.path, ver |-> f.ver,
          fed |-> f.fed, seen |-> f.seen, stale |-> f.stale]
  /\ f.mode \in {"closed", "read", "write"}
  /\ f.slot \in {NoSlot} \cup ((Clusters \cup {0}) \X Nat)
  /\ f.sclust \in Clusters \cup {0} /\ f.clust \in Clusters \cup {0, EOC}
  /\ f.fptr \in 0 .. MaxUnits /\ f.fsize \in 0 .. MaxUnits /\ f.dsect \in Clusters \cup {0}
  /\ f.dirty \in BOOLEAN /\ f.error \in BOOLEAN /\ f.path \in {<<>>} \cup Paths
  /\ f.ver \in 0 .. MaxMade /\ f.fed \in 0 .. MaxUnits /\ f.stale \in BOOLEAN
  /\ f.mode = "closed" => ~f.error

(* A writer: its entry is an empty file, its chain holds what it wrote, it *)
(* stands at the end of it.                                                *)
Writing(v, f) ==
  /\ f.path \in Paths /\ InDir(v, f.path, f.slot)
  /\ At(v, f.slot).clust = 0 /\ At(v, f.slot).size = 0
  /\ ~f.error /\ f.fsize <= f.fptr
  /\ f.fptr <= Len(Chain(v, f.sclust)) * SS
  /\ f.sclust # 0 => f.fptr > 0 /\ f.clust = Chain(v, f.sclust)[Len(Chain(v, f.sclust))]
  /\ f.dirty \/ f.fptr % SS # 0 => f.dsect \in ClustersOf(v, f.sclust)

(* A reader whose path was not disturbed stands in the chain of its entry. *)
Reading(v, f) ==
  /\ f.path \in Paths /\ f.fptr <= f.fsize
  /\ ~f.stale =>
       /\ ~f.error
       /\ f.fsize # 0 =>
            /\ InDir(v, f.path, f.slot)
            /\ At(v, f.slot).clust = f.sclust /\ At(v, f.slot).size = f.fsize
            /\ f.fptr # 0 => f.clust = Chain(v, f.sclust)[((f.fptr - 1) \div SS) + 1]

(* A file object that is what it should be.                                *)
Handled(v, f) ==
  Fil(f) /\ (f.mode = "write" => Writing(v, f)) /\ (f.mode = "read" => Reading(v, f))

(* All of them; nobody writes to a path that another writes to.            *)
Opened(v, F) ==
  /\ F = [h \in Handles |-> F[h]]
  /\ \A h \in Handles : Handled(v, F[h])
  /\ \A h, g \in Handles : F[h].mode = "write" /\ F[g].mode = "write" /\ h # g
                           => F[h].path # F[g].path

(* The invariant, of a volume and its file objects.                        *)
Inv(v, F) == Tree(v) /\ Apart(v, ChainsOf(v, F)) /\ Fits(v) /\ Opened(v, F)

-----------------------------------------------------------------------------
(* Whose slot and chain must be kept.                                      *)
Matters(f) == f.mode = "write" \/ (f.mode = "read" /\ ~f.stale /\ f.fsize # 0)

(* What changes, if anything, is what s owns, or how long directories are. *)
Changed(v, w, F, s) ==
  /\ \A o \in ChainsOf(v, F) : o[1] # s /\ o[1] \notin DirSlots => Chain(w, o[2]) = Chain(v, o[2])
  /\ \A p, x : InDir(v, p, x) /\ x # s => InDir(w, p, x)
  /\ \A x \in LiveFiles(v) : x # s => At(w, x) = At(v, x)
  /\ LiveFiles(w) \ {s} = LiveFiles(v) \ {s}

(* The entry and the chain behind an open file.                            *)
LEMMA HandleOwns ==
  ASSUME NEW v, NEW F, Inv(v, F), NEW h \in Handles, Matters(F[h])
  PROVE  /\ InDir(v, F[h].path, F[h].slot) /\ F[h].path \in Paths
         /\ F[h].slot \in LiveFiles(v) /\ \A g : F[h].slot # <<g>>
         /\ F[h].slot \notin DirSlots /\ <<h>> \notin DirSlots
         /\ F[h].mode = "write" => << <<h>>, F[h].sclust>> \in ChainsOf(v, F)
         /\ F[h].mode # "write" => << F[h].slot, F[h].sclust>> \in ChainsOf(v, F)
<1>1. Handled(v, F[h]) /\ Tree(v)
  BY DEF Inv, Opened
<1>2. InDir(v, F[h].path, F[h].slot) /\ F[h].path \in Paths
  BY <1>1 DEF Handled, Matters, Writing, Reading
<1>3. F[h].slot \in LiveFiles(v) /\ F[h].slot = <<F[h].slot[1], F[h].slot[2]>>
  BY <1>1, <1>2, LiveFacts
<1>4. \A g, a, b : <<a, b>> # <<g>>
  OBVIOUS
<1>5. \A g : F[h].slot # <<g>>
  BY <1>3, <1>4
<1>6. F[h].mode = "write" => << <<h>>, F[h].sclust>> \in ChainsOf(v, F)
  BY DEF ChainsOf
<1>7. ASSUME F[h].mode # "write" PROVE << F[h].slot, F[h].sclust>> \in ChainsOf(v, F)
  <2>1. At(v, F[h].slot).clust = F[h].sclust
    BY <1>1, <1>7 DEF Matters, Handled, Reading
  <2> QED
    BY <1>3, <2>1 DEF ChainsOf
<1>8. F[h].slot \notin DirSlots /\ <<h>> \notin DirSlots
  BY <1>1, <1>3, <1>4, LiveFacts DEF DirSlots
<1> QED
  BY <1>2, <1>3, <1>5, <1>6, <1>7, <1>8

(* What is known of a writer depends on its entry and its chain only.      *)
LEMMA WritingKept ==
  ASSUME NEW v, NEW w, NEW f, Writing(v, f), InDir(w, f.path, f.slot),
         At(w, f.slot) = At(v, f.slot), Chain(w, f.sclust) = Chain(v, f.sclust)
  PROVE  Writing(w, f)
BY DEF Writing, ClustersOf

(* And so does what is known of a reader.                                  *)
LEMMA ReadingKept ==
  ASSUME NEW v, NEW w, NEW f, Reading(v, f),
         ~f.stale /\ f.fsize # 0 => InDir(w, f.path, f.slot)
              /\ At(w, f.slot) = At(v, f.slot) /\ Chain(w, f.sclust) = Chain(v, f.sclust)
  PROVE  Reading(w, f)
BY DEF Reading

(* A file object is none the worse for what happens to other files.        *)
LEMMA HandleKept ==
  ASSUME NEW v, NEW w, NEW F, Inv(v, F), NEW s, Changed(v, w, F, s), NEW h \in Handles,
         Matters(F[h]) => F[h].slot # s /\ <<h>> # s
  PROVE  Handled(w, F[h])
<1> DEFINE f == F[h]
<1>1. Handled(v, f)
  BY DEF Inv, Opened
<1>2. ASSUME Matters(f)
      PROVE  /\ InDir(w, f.path, f.slot) /\ At(w, f.slot) = At(v, f.slot)
             /\ Chain(w, f.sclust) = Chain(v, f.sclust)
  <2>1. /\ InDir(v, f.path, f.slot) /\ f.slot \in LiveFiles(v)
        /\ f.mode = "write" => << <<h>>, f.sclust>> \in ChainsOf(v, F)
        /\ f.mode # "write" => << f.slot, f.sclust>> \in ChainsOf(v, F)
        /\ f.slot # s /\ <<h>> # s /\ f.slot \notin DirSlots /\ <<h>> \notin DirSlots
    BY <1>2, HandleOwns
  <2> HIDE DEF f
  <2>2. InDir(w, f.path, f.slot) /\ At(w, f.slot) = At(v, f.slot)
    BY <2>1 DEF Changed
  <2>3. \E o \in ChainsOf(v, F) : o[1] # s /\ o[1] \notin DirSlots /\ o[2] = f.sclust
    BY <2>1
  <2>4. Chain(w, f.sclust) = Chain(v, f.sclust)
    BY <2>3 DEF Changed
  <2> QED
    BY <2>2, <2>4
<1> HIDE DEF f
<1>3. f.mode = "write" => Writing(w, f)
  BY <1>1, <1>2, WritingKept DEF Handled, Matters
<1>4. f.mode = "read" => Reading(w, f)
  BY <1>1, <1>2, ReadingKept DEF Handled, Matters
<1> QED
  BY <1>1, <1>3, <1>4 DEF Handled, f

(* And the other files still fit their chains.                             *)
LEMMA FitsKept ==
  ASSUME NEW v, NEW w, NEW F, Inv(v, F), NEW s, Changed(v, w, F, s),
         s \in LiveFiles(w) => At(w, s).size <= Len(Chain(w, At(w, s).clust)) * SS
  PROVE  Fits(w)
<1> SUFFICES ASSUME NEW x \in LiveFiles(w), x # s
             PROVE  At(w, x).size <= Len(Chain(w, At(w, x).clust)) * SS
  BY DEF Fits
<1>1. x \in LiveFiles(v) /\ At(w, x) = At(v, x)
  BY DEF Changed
<1>2. <<x, At(v, x).clust>> \in ChainsOf(v, F)
  BY <1>1 DEF ChainsOf
<1>3. Chain(w, At(v, x).clust) = Chain(v, At(v, x).clust)
  <2> DEFINE o == <<x, At(v, x).clust>>
  <2>1. o \in ChainsOf(v, F) /\ o[1] # s /\ o[2] = At(v, x).clust /\ o[1] \notin DirSlots
    BY <1>1, <1>2, LiveFacts DEF Inv
  <2> HIDE DEF o
  <2> QED
    BY <2>1 DEF Changed
<1>4. At(v, x).size <= Len(Chain(v, At(v, x).clust)) * SS
  BY <1>1 DEF Inv, Fits
<1> QED
  BY <1>1, <1>3, <1>4

(* Nothing that is owned changes, and no file object.                      *)
LEMMA InvKept ==
  ASSUME NEW v, NEW w, NEW F, Inv(v, F), Changed(v, w, F, NoSlot), Tree(w),
         Apart(w, ChainsOf(w, F))
  PROVE  Inv(w, F)
<1>1. NoSlot \notin LiveFiles(w)
  BY LiveFacts DEF NoSlot
<1>2. Fits(w)
  BY <1>1, FitsKept
<1>3. ASSUME NEW h \in Handles PROVE Handled(w, F[h])
  <2>1. Matters(F[h]) => F[h].slot # NoSlot /\ <<h>> # NoSlot
    <3>1. ASSUME Matters(F[h]) PROVE F[h].slot # NoSlot
      <4>1. F[h].slot \in LiveFiles(v) /\ Tree(v)
        BY <3>1, HandleOwns DEF Inv
      <4> QED
        BY <4>1, LiveFacts DEF NoSlot
    <3> QED
      BY <3>1 DEF NoSlot
  <2> QED
    BY <2>1, HandleKept
<1>4. Opened(w, F)
  BY <1>3 DEF Inv, Opened
<1> QED
  BY <1>2, <1>4 DEF Inv

(* The parts of the invariant that the proofs use most.                    *)
LEMMA InvFacts ==
  ASSUME NEW v, NEW F, Inv(v, F)
  PROVE  /\ Tree(v) /\ Apart(v, ChainsOf(v, F)) /\ DirsIn(v, ChainsOf(v, F)) /\ Volume(v)
         /\ \A s \in LiveFiles(v) : <<s, At(v, s).clust>> \in ChainsOf(v, F)
         /\ \A d \in LiveDirs(v) : <<d, At(v, d).clust>> \in ChainsOf(v, F)
         /\ \A d \in LiveDirs(v), s \in LiveFiles(v) : \A a, b : <<s, a>> # <<d, b>>
         /\ \A d \in LiveDirs(v) : \A h, a, b : << <<h>>, a>> # <<d, b>>
<1>1. Tree(v) /\ Apart(v, ChainsOf(v, F)) /\ DirsIn(v, ChainsOf(v, F)) /\ Volume(v)
  BY DirsInChains DEF Inv, Tree
<1>2. /\ \A s \in LiveFiles(v) : <<s, At(v, s).clust>> \in ChainsOf(v, F)
      /\ \A d \in LiveDirs(v) : <<d, At(v, d).clust>> \in ChainsOf(v, F)
  BY DEF ChainsOf
<1>3. \A d \in LiveDirs(v), s \in LiveFiles(v) : \A a, b : <<s, a>> # <<d, b>>
  BY <1>1, LiveFacts
<1>4. \A d \in LiveDirs(v) : \A h, a, b : << <<h>>, a>> # <<d, b>>
  <2> TAKE d \in LiveDirs(v)
  <2> TAKE h, a, b
  <2>1. d = <<d[1], d[2]>>
    BY <1>1, DirFacts
  <2>2. <<h>> # <<d[1], d[2]>>
    OBVIOUS
  <2> QED
    BY <2>1, <2>2
<1> QED
  BY <1>1, <1>2, <1>3, <1>4

(* A new directory.                                                        *)
LEMMA NewDirectory ==
  ASSUME NEW t, NEW n \in Clusters, Chain(t, n) = <<n>>, t.fat[n] = EOC,
         t.disk[n] = [BlankTable EXCEPT ![0] = Dot, ![1] = Dot]
  PROVE  Directory(t, n) /\ FilesIn(t, n) = {}
<1> DEFINE S == Slots(t, n)
<1>1. IsChain(t, n, <<n>>)
  BY DEF IsChain
<1>2. Sound(t, n) /\ ClustersOf(t, n) = {n}
  BY <1>1 DEF Sound, ClustersOf, ToSet
<1>3. RowsOf(S, <<n>>)
  BY DirSlotAt
<1>4. /\ Len(S) \in Nat /\ ToSet(S) = {S[k] : k \in 1 .. Len(S)}
  BY <1>2, SlotKnown
<1> HIDE DEF S
<1>5. Len(S) = PerSector
  <2>1. Len(<<n>>) = 1 /\ 1 * PerSector = PerSector
    BY Constants
  <2> QED
    BY <2>1, <1>3 DEF RowsOf
<1>6. ASSUME NEW k \in 1 .. Len(S) PROVE At(t, S[k]) = IF k < 3 THEN Dot ELSE Zero
  <2>1. Len(<<n>>) = 1 /\ 1 * PerSector = PerSector
    BY Constants
  <2>2. PICK j \in 1 .. 1, i \in 0 .. PerSector - 1 :
           k = PerSector * (j - 1) + i + 1 /\ S[k] = << <<n>>[j], i>>
    BY <1>3, <1>5, <2>1 DEF RowsOf
  <2>3. j = 1 /\ k = i + 1 /\ S[k] = <<n, i>>
    BY <2>2, Constants
  <2>4. At(t, <<n, i>>) = IF i < 2 THEN Dot ELSE Zero
    <3>1. At(t, <<n, i>>) = t.disk[n][i]
      BY DEF At
    <3>2. t.disk[n][i] = IF i = 0 \/ i = 1 THEN Dot ELSE Zero
      BY Constants DEF BlankTable
    <3>3. i = 0 \/ i = 1 <=> i < 2
      BY Constants
    <3> QED
      BY <3>1, <3>2, <3>3
  <2> QED
    BY <2>3, <2>4
<1>7. Listing(t, S)
  <2>1. \A k \in 1 .. Len(S) : IF k < 3 THEN At(t, S[k]) = Dot ELSE FileCell(At(t, S[k]))
    BY <1>6 DEF FileCell
  <2>2. \A k, l \in 1 .. Len(S) : k < l /\ At(t, S[k]) = Zero => At(t, S[l]) = Zero
    BY <1>4, <1>6, Kinds
  <2> QED
    BY <2>1, <2>2 DEF Listing
<1>8. t.disk[n] = [i \in 0 .. PerSector - 1 |-> t.disk[n][i]]
  BY DEF BlankTable
<1>9. Directory(t, n)
  BY <1>2, <1>7, <1>8 DEF Directory, S
<1>10. FilesIn(t, n) = {}
  BY <1>4, <1>6, Kinds DEF FilesIn, S
<1> QED
  BY <1>9, <1>10

(* The two writes of f_mkdir.                                              *)
Dotted(r, t) == t = [r.v EXCEPT !.disk[r.cl] = [BlankTable EXCEPT ![0] = Dot, ![1] = Dot]]
Entered(t, n, d, w) ==
  w = IF Alloc(t, 0).slot = NoSlot THEN RemoveChain(t, n)
      ELSE Put(Alloc(t, 0).v, Alloc(t, 0).slot, Entry(d, TRUE, n, 0))

(* f_mkdir keeps the invariant, whether the root has a slot or not: the    *)
(* cluster that was taken first is then given back (ff.cpp:3316-3380).     *)
LEMMA MkdirKeeps ==
  ASSUME NEW v, NEW F, Inv(v, F), NEW d \in Dirs, NEW r, r = CreateChain(v, 0), r.cl > 1,
         NEW t, Dotted(r, t), NEW w, Entered(t, r.cl, d, w)
  PROVE  Inv(w, F) /\ Changed(v, w, F, NoSlot)
<1> DEFINE C == ChainsOf(v, F)
           n == r.cl
           a == Alloc(t, 0)
           T == [BlankTable EXCEPT ![0] = Dot, ![1] = Dot]
<1>1. Tree(v) /\ Apart(v, C) /\ DirsIn(v, C) /\ Volume(v)
  BY InvFacts
<1>2. Taken(v, 0, r)
  <2>1. Taken(v, 0, r) \/ NoneLeft(v, r)
    BY <1>1, CreateChainIs
  <2> QED
    BY <2>1 DEF NoneLeft
<1>3. /\ Tree(r.v) /\ Same(v, r.v) /\ Chain(r.v, n) = <<n>>
      /\ \A o \in C : Chain(r.v, o[2]) = Chain(v, o[2]) /\ n \notin ClustersOf(v, o[2])
  BY ONLY <1>1, <1>2, TreeBegin
<1>0. \A x : Apart(r.v, C \cup {<<x, n>>})
  BY ONLY <1>1, <1>2, TreeBegin
<1>4. /\ n \in Clusters /\ v.fat[n] = 0 /\ r.v.fat = [v.fat EXCEPT ![n] = EOC]
      /\ v.fat \in [Clusters -> Clusters \cup {0, EOC}]
  BY <1>1, <1>2 DEF Taken, Volume
<1>5. \A e \in LiveDirs(v) : n \notin ClustersOf(v, At(v, e).clust)
                             /\ Chain(r.v, At(v, e).clust) = Chain(v, At(v, e).clust)
  <2> TAKE e \in LiveDirs(v)
  <2> DEFINE q == <<e, At(v, e).clust>>
  <2>1. q \in C /\ q[2] = At(v, e).clust
    BY <1>1 DEF DirsIn
  <2> HIDE DEF q, n, C
  <2> QED
    BY <1>3, <2>1
<1> HIDE DEF C, n, a, T
<1>6. \A e \in LiveDirs(r.v) : n \notin ClustersOf(r.v, At(r.v, e).clust)
  BY <1>3, <1>5 DEF Same, ClustersOf
<1>7. t = [r.v EXCEPT !.disk[n] = T]
  BY DEF n, T, Dotted
<1>8. Tree(t) /\ Same(r.v, t) /\ t.fat = r.v.fat /\ Volume(r.v)
  <2>1. Tree(r.v) /\ n \in Clusters
    BY <1>3, <1>4
  <2>2. Tree(t) /\ Same(r.v, t) /\ t.fat = r.v.fat
    BY ONLY <2>1, <1>6, <1>7, TreeSector
  <2> QED
    BY <2>1, <2>2 DEF Tree
<1>9. t.disk[n] = T /\ Volume(t)
  <2>1. n \in Clusters \cup {0}
    BY <1>4
  <2> QED
    BY <1>7, <1>8, <2>1, SectorIs
<1>10. \A c : Chain(t, c) = Chain(r.v, c)
  BY <1>8, ChainByTable
<1>11. Same(v, t)
  BY <1>3, <1>8, SameSame
<1>12. Directory(t, n) /\ FilesIn(t, n) = {}
  <2>1. Chain(t, n) = <<n>> /\ t.fat[n] = EOC
    BY <1>3, <1>4, <1>8, <1>10
  <2> QED
    BY <2>1, <1>4, <1>9, NewDirectory DEF T
<1>13. \A e \in LiveDirs(t) : ClustersOf(t, At(t, e).clust) \cap ClustersOf(t, n) = {}
  <2>1. ClustersOf(t, n) = {n}
    BY <1>3, <1>10 DEF ClustersOf, ToSet
  <2>2. \A e \in LiveDirs(t) : ClustersOf(t, At(t, e).clust) = ClustersOf(r.v, At(r.v, e).clust)
    BY <1>8, <1>10 DEF Same, ClustersOf
  <2> QED
    BY <2>1, <2>2, <1>6, <1>8 DEF Same
<1>14. \/ a.v = t /\ a.slot = NoSlot
       \/ a.v = t /\ a.slot # NoSlot /\ a.slot \in DirSlots /\ ~IsEntry(At(t, a.slot))
  BY AllocRootIs DEF a
<1>15. CASE a.slot = NoSlot
  <2>1. w = RemoveChain(t, n)
    BY <1>15 DEF a, n, Entered
  <2>2. /\ Volume(w) /\ w.disk = t.disk
        /\ w.fat = [c \in Clusters |-> IF c \in ClustersOf(t, n) THEN 0 ELSE t.fat[c]]
    BY <1>9, <2>1, RemoveChainIs
  <2>3. ClustersOf(t, n) = {n}
    BY <1>3, <1>10 DEF ClustersOf, ToSet
  <2>4. w.fat = v.fat
    <3>1. \A c \in Clusters : w.fat[c] = v.fat[c]
      BY <2>2, <2>3, <1>4, <1>8
    <3> QED
      BY <2>2, <3>1, <1>4
  <2>5. \A c : Chain(w, c) = Chain(v, c)
    BY <2>4, ChainByTable
  <2>6. ASSUME NEW e \in LiveDirs(t)
        PROVE  /\ Chain(w, At(t, e).clust) = Chain(t, At(t, e).clust) /\ Sound(w, At(t, e).clust)
               /\ \A x \in ClustersOf(t, At(t, e).clust) : w.disk[x] = t.disk[x]
    <3>1. e \in LiveDirs(v) /\ At(t, e) = At(v, e)
      BY <1>11 DEF Same
    <3>2. Sound(v, At(v, e).clust)
      BY <3>1, <1>1, DirFacts DEF Directory
    <3>3. Sound(w, At(v, e).clust)
      BY <3>2, <2>4, <2>5 DEF Sound, IsChain
    <3> QED
      BY <3>1, <3>3, <2>2, <2>5, <1>5, <1>10
  <2>7. Tree(w) /\ Same(t, w)
    BY <1>8, <2>2, <2>6, TreeSame
  <2>8. Same(v, w)
    BY <1>11, <2>7, SameSame
  <2>9. ChainsOf(w, F) = C
    BY <2>8, OwnedSame, ChainsAre DEF C
  <2>10. Apart(w, C)
    BY <1>1, <2>4, ApartSame
  <2>11. Changed(v, w, F, NoSlot)
    BY <2>5, <2>8 DEF Changed, Same
  <2> QED
    BY <2>7, <2>9, <2>10, <2>11, InvKept
<1>16. CASE a.slot # NoSlot
  <2> DEFINE s == a.slot
             cell == Entry(d, TRUE, n, 0)
  <2>1. w = Put(t, s, cell) /\ s \in DirSlots /\ ~IsEntry(At(t, s))
    BY <1>14, <1>16 DEF a, n, Entered
  <2>2. RootCell(cell) /\ IsEntry(cell) /\ cell.clust = n
    BY <1>4 DEF RootCell, Entry, IsEntry
  <2> HIDE DEF s, cell
  <2>3. s \notin LiveDirs(t)
    BY <2>1 DEF LiveDirs
  <2>4. /\ Tree(w) /\ w.fat = t.fat /\ At(w, s) = cell
        /\ LiveDirs(w) = (LiveDirs(t) \ {s}) \cup (IF IsEntry(cell) THEN {s} ELSE {})
        /\ LiveFiles(w) = LiveFiles(t)
        /\ \A x \in LiveDirs(t) \cup LiveFiles(t) : x # s => At(w, x) = At(t, x)
        /\ \A p, x : InDir(t, p, x) => InDir(w, p, x)
    BY <1>8, <1>12, <1>13, <2>1, <2>2, <2>3, TreeRoot
  <2>5. /\ LiveDirs(w) = LiveDirs(v) \cup {s} /\ LiveFiles(w) = LiveFiles(v)
        /\ s \notin LiveDirs(v) \cup LiveFiles(v)
        /\ \A x \in LiveDirs(v) \cup LiveFiles(v) : At(w, x) = At(v, x)
        /\ \A p, x : InDir(v, p, x) => InDir(w, p, x)
    <3>1. s \notin LiveFiles(t)
      BY <2>1, <1>8, LiveFacts
    <3> QED
      BY <3>1, <2>2, <2>3, <2>4, <1>11 DEF Same
  <2>6. Owned(w) = Owned(v) \cup {<<s, n>>}
    <3>1. Owned(w) = {<<x, At(w, x).clust>> : x \in LiveDirs(v) \cup LiveFiles(v) \cup {s}}
      BY <2>5 DEF Owned
    <3>2. Owned(v) = {<<x, At(w, x).clust>> : x \in LiveDirs(v) \cup LiveFiles(v)}
      BY <2>5 DEF Owned
    <3>3. At(w, s).clust = n
      BY <2>2, <2>4
    <3> QED
      BY <3>1, <3>2, <3>3
  <2>7. ChainsOf(w, F) = C \cup {<<s, n>>}
    BY <2>6, ChainsAre DEF C
  <2>8. Apart(w, C \cup {<<s, n>>})
    BY <1>0, <1>8, <2>4, ApartSame
  <2>9. Changed(v, w, F, NoSlot)
    <3>1. \A c : Chain(w, c) = Chain(t, c)
      BY <2>4, ChainByTable
    <3>2. \A o \in C : Chain(w, o[2]) = Chain(v, o[2])
      BY <3>1, <1>3, <1>10
    <3> QED
      BY <3>2, <2>5 DEF Changed, C
  <2> QED
    BY <2>4, <2>7, <2>8, <2>9, InvKept
<1> QED
  BY <1>15, <1>16

(* The invariant after a change at one entry that no open file depends on. *)
LEMMA InvChanged ==
  ASSUME NEW v, NEW w, NEW F, Inv(v, F), NEW s, Changed(v, w, F, s), Tree(w),
         Apart(w, ChainsOf(w, F)),
         s \in LiveFiles(w) => At(w, s).size <= Len(Chain(w, At(w, s).clust)) * SS,
         \A h \in Handles : Matters(F[h]) => F[h].slot # s /\ <<h>> # s
  PROVE  Inv(w, F)
<1>1. Fits(w)
  BY FitsKept
<1>2. \A h \in Handles : Handled(w, F[h])
  BY HandleKept
<1>3. Opened(w, F)
  BY <1>2 DEF Inv, Opened
<1> QED
  BY <1>1, <1>3 DEF Inv

(* The readers of a path that is to go.                                    *)
Disturbed(F, p) ==
  [h \in Handles |-> IF F[h].mode = "read" /\ F[h].path = p
                     THEN [F[h] EXCEPT !.stale = TRUE] ELSE F[h]]

(* A reader whose path is deleted or created again.                        *)
LEMMA StaleFil ==
  ASSUME NEW v, NEW f, Handled(v, f), f.mode = "read"
  PROVE  LET g == [f EXCEPT !.stale = TRUE] IN
         Handled(v, g) /\ g.mode = "read" /\ g.path = f.path /\ g.sclust = f.sclust /\ g.stale
<1> DEFINE g == [f EXCEPT !.stale = TRUE]
<1>0. /\ g = [f EXCEPT !.stale = TRUE]
      /\ f = [mode |-> f.mode, slot |-> f.slot, sclust |-> f.sclust, clust |-> f.clust,
          fptr |-> f.fptr, fsize |-> f.fsize, buf |-> f.buf, dsect |-> f.dsect,
          dirty |-> f.dirty, error |-> f.error, path |-> f.path, ver |-> f.ver,
          fed |-> f.fed, seen |-> f.seen, stale |-> f.stale]
  BY DEF Handled, Fil
<1> HIDE DEF g
<1>1. /\ g.mode = f.mode /\ g.slot = f.slot /\ g.sclust = f.sclust /\ g.clust = f.clust
      /\ g.fptr = f.fptr /\ g.fsize = f.fsize /\ g.dsect = f.dsect /\ g.buf = f.buf
      /\ g.dirty = f.dirty /\ g.error = f.error /\ g.path = f.path /\ g.ver = f.ver
      /\ g.fed = f.fed /\ g.seen = f.seen /\ g.stale = TRUE
      /\ g = [mode |-> g.mode, slot |-> g.slot, sclust |-> g.sclust, clust |-> g.clust,
          fptr |-> g.fptr, fsize |-> g.fsize, buf |-> g.buf, dsect |-> g.dsect,
          dirty |-> g.dirty, error |-> g.error, path |-> g.path, ver |-> g.ver,
          fed |-> g.fed, seen |-> g.seen, stale |-> g.stale]
  BY ONLY <1>0
<1>2. Fil(g)
  BY <1>1 DEF Handled, Fil
<1>3. Reading(v, g)
  BY <1>1 DEF Handled, Reading
<1> QED
  BY <1>1, <1>2, <1>3 DEF Handled, g

(* The invariant promises less about such readers.                         *)
LEMMA DisturbKeeps ==
  ASSUME NEW v, NEW F, Inv(v, F), NEW p
  PROVE  LET G == Disturbed(F, p) IN
         /\ Inv(v, G) /\ G = [h \in Handles |-> G[h]]
         /\ \A h \in Handles : /\ G[h].mode = F[h].mode /\ G[h].path = F[h].path
                               /\ G[h].mode = "read" /\ G[h].path = p => G[h].stale
                               /\ G[h].mode # "read" => G[h] = F[h]
<1> DEFINE G == Disturbed(F, p)
<1>1. ASSUME NEW h \in Handles
      PROVE  /\ Handled(v, G[h]) /\ G[h].mode = F[h].mode /\ G[h].path = F[h].path
             /\ G[h].sclust = F[h].sclust
             /\ G[h].mode = "read" /\ G[h].path = p => G[h].stale
             /\ G[h].mode # "read" => G[h] = F[h]
  <2>1. Handled(v, F[h])
    BY DEF Inv, Opened
  <2>2. CASE F[h].mode = "read" /\ F[h].path = p
    <3>1. G[h] = [F[h] EXCEPT !.stale = TRUE]
      BY <2>2 DEF Disturbed
    <3> QED
      BY <2>1, <2>2, <3>1, StaleFil
  <2>3. CASE ~(F[h].mode = "read" /\ F[h].path = p)
    <3>1. G[h] = F[h]
      BY <2>3 DEF Disturbed
    <3> QED
      BY <2>1, <2>3, <3>1
  <2> QED
    BY <2>2, <2>3
<1>2. G = [h \in Handles |-> G[h]]
  BY DEF Disturbed
<1> HIDE DEF G
<1>3. ChainsOf(v, G) = ChainsOf(v, F)
  <2>1. Held(G) = Held(F)
    BY <1>1 DEF Held
  <2> QED
    BY <2>1, ChainsAre
<1>4. Opened(v, G)
  BY <1>1, <1>2 DEF Inv, Opened
<1>5. Inv(v, G)
  BY <1>3, <1>4 DEF Inv
<1> QED
  BY <1>1, <1>2, <1>5 DEF G

-----------------------------------------------------------------------------
(* f_unlink: the entry is marked and the chain given back.                 *)
Unlinked(v, s, w) == w = RemoveChain(Put(v, s, Deleted), At(v, s).clust)

(* f_unlink of a file that nobody has open, or only readers that have been *)
(* told so: its chain is free, and no other one (ff.cpp:3247-3307).        *)
LEMMA UnlinkKeeps ==
  ASSUME NEW v, NEW F, Inv(v, F), NEW p \in Paths, NEW s, InDir(v, p, s),
         \A h \in Handles : Matters(F[h]) => F[h].path # p, NEW w, Unlinked(v, s, w)
  PROVE  Inv(w, F) /\ Changed(v, w, F, s) /\ s \notin LiveFiles(w)
<1> DEFINE C == ChainsOf(v, F)
           c == At(v, s).clust
           o == <<s, c>>
           u == Put(v, s, Deleted)
<1>1. Tree(v) /\ Apart(v, C) /\ DirsIn(v, C) /\ Volume(v) /\ s \in LiveFiles(v) /\ o \in C
  BY InvFacts, LiveFacts
<1>2. PICK d \in LiveDirs(v) : s \in FilesIn(v, At(v, d).clust)
  BY DEF InDir
<1>3. PICK k : Placed(v, At(v, d).clust, k, s)
  BY <1>1, <1>2, DirFacts, FilePlaced
<1>4. FileCell(Deleted) /\ Deleted # Zero /\ ~IsEntry(Deleted)
  BY Kinds DEF FileCell
<1>5. /\ Tree(u) /\ Edited(v, u, s, IF IsEntry(Deleted) THEN {s} ELSE {})
      /\ u.fat = v.fat /\ s \notin DirSlots
  <2>1. Replaced(v, u, d, s, Deleted)
    BY <1>1, <1>3, <1>4, TreePut
  <2> QED
    BY <2>1 DEF Replaced
<1>6. w = RemoveChain(u, c)
  BY DEF Unlinked
<1> HIDE DEF C, o, u, c
<1>7. Edited(v, u, s, {}) /\ s \notin LiveDirs(v)
  BY <1>1, <1>4, <1>5, LiveFacts
<1>8. o[1] = s /\ o[2] = c /\ o = <<s, c>>
  BY DEF o
<1>9. Owned(u) = Owned(v) \ {o}
  BY <1>7, OwnedOut DEF o, c
<1>10. ClustersOf(u, c) = ClustersOf(v, c) /\ \A b : Chain(u, b) = Chain(v, b)
  BY <1>5, ChainByTable DEF ClustersOf
<1>11. /\ Volume(w) /\ w.disk = u.disk
       /\ w.fat = [b \in Clusters |-> IF b \in ClustersOf(u, o[2]) THEN 0 ELSE u.fat[b]]
  <2>1. Volume(u)
    BY <1>5 DEF Tree
  <2> QED
    BY <2>1, <1>6, <1>8, RemoveChainIs
<1>12. Apart(u, C)
  BY <1>1, <1>5, ApartSame
<1>13. DirsIn(u, C) /\ \A e \in LiveDirs(u) : o # <<e, At(u, e).clust>>
  <2>1. \A e \in LiveDirs(u) : e \in LiveDirs(v) /\ At(u, e) = At(v, e) /\ e # s
    BY <1>7 DEF Edited
  <2> QED
    BY <2>1, <1>1, <1>8 DEF DirsIn
<1>14. /\ Tree(w) /\ Same(u, w) /\ Apart(w, C \ {o})
       /\ \A q \in C \ {o} : Chain(w, q[2]) = Chain(u, q[2])
  BY <1>1, <1>5, <1>11, <1>12, <1>13, TreeCut
<1>15. ChainsOf(w, F) = C \ {o}
  <2>1. Owned(w) = Owned(v) \ {o}
    BY <1>9, <1>14, OwnedSame
  <2>2. o \notin Held(F)
    <3>1. s = <<s[1], s[2]>>
      BY <1>1, LiveFacts
    <3> QED
      BY <3>1, <1>8, HeldNames
  <2> QED
    BY <2>1, <2>2, ChainsAre DEF C
<1>16. Edited(v, w, s, {})
  BY <1>7, <1>14, EditSame
<1>17. Changed(v, w, F, s)
  <2>1. \A q \in C : q[1] # s => Chain(w, q[2]) = Chain(v, q[2])
    BY <1>8, <1>10, <1>14
  <2> QED
    BY <2>1, <1>16 DEF Changed, Edited, C
<1>18. \A h \in Handles : Matters(F[h]) => F[h].slot # s /\ <<h>> # s
  <2> SUFFICES ASSUME NEW h \in Handles, Matters(F[h]) PROVE F[h].slot # s /\ <<h>> # s
    OBVIOUS
  <2>1. InDir(v, F[h].path, F[h].slot) /\ F[h].path \in Paths /\ F[h].path # p
    BY HandleOwns
  <2>2. F[h].slot # s
    BY <1>1, <2>1, OnePath
  <2>3. <<h>> # <<s[1], s[2]>> /\ s = <<s[1], s[2]>>
    BY <1>1, LiveFacts
  <2> QED
    BY <2>2, <2>3
<1>19. s \notin LiveFiles(w)
  BY <1>16 DEF Edited
<1> QED
  BY <1>14, <1>15, <1>17, <1>18, <1>19, InvChanged

(* f_unlink of a directory without entries (ff.cpp:3247-3307).             *)
LEMMA RmdirKeeps ==
  ASSUME NEW v, NEW F, Inv(v, F), NEW s \in LiveDirs(v), Empty(v, At(v, s).clust),
         NEW w, Unlinked(v, s, w)
  PROVE  Inv(w, F) /\ Changed(v, w, F, s)
<1> DEFINE C == ChainsOf(v, F)
           c == At(v, s).clust
           o == <<s, c>>
           u == Put(v, s, Deleted)
<1>1. /\ Tree(v) /\ Apart(v, C) /\ DirsIn(v, C) /\ Volume(v) /\ o \in C
      /\ s \in DirSlots /\ s = <<s[1], s[2]>> /\ s \notin LiveFiles(v)
  BY InvFacts, DirFacts, LiveFacts
<1>2. FilesIn(v, c) = {}
  BY <1>1, DirFacts, EmptyIs
<1>3. RootCell(Deleted) /\ ~IsEntry(Deleted)
  BY Kinds DEF RootCell
<1>4. /\ Tree(u) /\ u.fat = v.fat
      /\ LiveDirs(u) = (LiveDirs(v) \ {s}) \cup (IF IsEntry(Deleted) THEN {s} ELSE {})
      /\ LiveFiles(u) = LiveFiles(v)
      /\ \A x \in LiveDirs(v) \cup LiveFiles(v) : x # s => At(u, x) = At(v, x)
      /\ \A p, x : InDir(v, p, x) => InDir(u, p, x)
  BY <1>1, <1>2, <1>3, TreeRoot
<1>5. w = RemoveChain(u, c)
  BY DEF Unlinked
<1> HIDE DEF C, o, u, c
<1>6. LiveDirs(u) = LiveDirs(v) \ {s}
  BY <1>3, <1>4
<1>7. o[1] = s /\ o[2] = c /\ o = <<s, c>>
  BY DEF o
<1>8. Owned(u) = Owned(v) \ {o}
  <2>1. Owned(u) = {<<x, At(v, x).clust>> : x \in (LiveDirs(v) \cup LiveFiles(v)) \ {s}}
    BY <1>1, <1>4, <1>6 DEF Owned
  <2>2. Owned(v) = {<<x, At(v, x).clust>> : x \in LiveDirs(v) \cup LiveFiles(v)}
    BY DEF Owned
  <2> QED
    BY <2>1, <2>2, <1>7 DEF c
<1>10. \A b : Chain(u, b) = Chain(v, b)
  BY <1>4, ChainByTable
<1>11. /\ Volume(w) /\ w.disk = u.disk
       /\ w.fat = [b \in Clusters |-> IF b \in ClustersOf(u, o[2]) THEN 0 ELSE u.fat[b]]
  <2>1. Volume(u)
    BY <1>4 DEF Tree
  <2> QED
    BY <2>1, <1>5, <1>7, RemoveChainIs
<1>12. Apart(u, C)
  BY <1>1, <1>4, ApartSame
<1>13. DirsIn(u, C) /\ \A e \in LiveDirs(u) : o # <<e, At(u, e).clust>>
  <2>1. \A e \in LiveDirs(u) : e \in LiveDirs(v) /\ At(u, e) = At(v, e) /\ e # s
    BY <1>4, <1>6
  <2> QED
    BY <2>1, <1>1, <1>7 DEF DirsIn
<1>14. /\ Tree(w) /\ Same(u, w) /\ Apart(w, C \ {o})
       /\ \A q \in C \ {o} : Chain(w, q[2]) = Chain(u, q[2])
  <2>1. Tree(u) /\ o \in C
    BY <1>1, <1>4
  <2> QED
    BY ONLY <2>1, <1>11, <1>12, <1>13, TreeCut, SMTT(60)
<1>15. ChainsOf(w, F) = C \ {o}
  <2>1. Owned(w) = Owned(v) \ {o}
    BY <1>8, <1>14, OwnedSame
  <2>2. o \notin Held(F)
    BY <1>1, <1>7, HeldNames
  <2> QED
    BY <2>1, <2>2, ChainsAre DEF C
<1>17. Changed(v, w, F, s)
  <2>1. \A q \in C : q[1] # s => Chain(w, q[2]) = Chain(v, q[2])
    BY <1>7, <1>10, <1>14
  <2>2. LiveFiles(w) = LiveFiles(v) /\ \A x \in LiveFiles(v) : x # s => At(w, x) = At(v, x)
    BY <1>4, <1>14 DEF Same
  <2>3. \A p, x : InDir(v, p, x) => InDir(w, p, x)
    BY <1>4, <1>14 DEF Same
  <2> QED
    BY <2>1, <2>2, <2>3 DEF Changed, C
<1>18. \A h \in Handles : Matters(F[h]) => F[h].slot # s /\ <<h>> # s
  <2> SUFFICES ASSUME NEW h \in Handles, Matters(F[h]) PROVE F[h].slot # s /\ <<h>> # s
    OBVIOUS
  <2>1. F[h].slot \in LiveFiles(v)
    BY HandleOwns
  <2>2. <<h>> # <<s[1], s[2]>>
    OBVIOUS
  <2> QED
    BY <1>1, <2>1, <2>2
<1>19. s \notin LiveFiles(w)
  BY <1>1, <1>4, <1>14 DEF Same
<1> QED
  BY <1>14, <1>15, <1>17, <1>18, <1>19, InvChanged

(* A closed file object, one opened to write, one opened to read.          *)
LEMMA ClosedFil ==
  ASSUME NEW v
  PROVE  Handled(v, Closed) /\ Closed.mode = "closed" /\ ~Matters(Closed)
<1>1. Fil(Closed)
  BY Constants DEF Fil, Closed, NoSlot
<1> QED
  BY <1>1 DEF Handled, Closed, Matters

(* A file object as f_open leaves it.                                      *)
NewWriter(f, s, p, n) ==
  f = [Closed EXCEPT !.mode = "write", !.slot = s, !.path = p, !.ver = n]

(* A writer that has just been opened.                                     *)
LEMMA WriterFil ==
  ASSUME NEW v, NEW p \in Paths, NEW s \in (Clusters \cup {0}) \X Nat, NEW n \in 0 .. MaxMade,
         InDir(v, p, s), At(v, s).clust = 0, At(v, s).size = 0,
         NEW f, NewWriter(f, s, p, n)
  PROVE  Handled(v, f) /\ f.mode = "write" /\ f.path = p /\ f.sclust = 0
<1>0. Closed = [mode |-> "closed", slot |-> NoSlot, sclust |-> 0, clust |-> 0,
           fptr |-> 0, fsize |-> 0, buf |-> NoUnits, dsect |-> 0,
           dirty |-> FALSE, error |-> FALSE,
           path |-> <<>>, ver |-> 0, fed |-> 0, seen |-> <<>>, stale |-> FALSE]
  BY DEF Closed
<1>a. f = [Closed EXCEPT !.mode = "write", !.slot = s, !.path = p, !.ver = n]
  BY DEF NewWriter
<1>1. /\ f.mode = "write" /\ f.slot = s /\ f.sclust = 0 /\ f.clust = 0 /\ f.fptr = 0
      /\ f.fsize = 0 /\ f.buf = NoUnits /\ f.dsect = 0 /\ f.dirty = FALSE /\ f.error = FALSE
      /\ f.path = p /\ f.ver = n /\ f.fed = 0 /\ f.seen = <<>> /\ f.stale = FALSE
      /\ f = [mode |-> f.mode, slot |-> f.slot, sclust |-> f.sclust, clust |-> f.clust,
              fptr |-> f.fptr, fsize |-> f.fsize, buf |-> f.buf, dsect |-> f.dsect,
              dirty |-> f.dirty, error |-> f.error, path |-> f.path, ver |-> f.ver,
              fed |-> f.fed, seen |-> f.seen, stale |-> f.stale]
  BY ONLY <1>0, <1>a
<1>2. Fil(f)
  <2>1. /\ f.mode \in {"closed", "read", "write"} /\ f.slot \in {NoSlot} \cup ((Clusters \cup {0}) \X Nat)
        /\ f.sclust \in Clusters \cup {0} /\ f.clust \in Clusters \cup {0, EOC}
        /\ f.path \in {<<>>} \cup Paths /\ f.dsect \in Clusters \cup {0}
        /\ f.dirty \in BOOLEAN /\ f.error \in BOOLEAN /\ f.stale \in BOOLEAN /\ ~f.error
    BY <1>1
  <2>2. /\ f.fptr \in 0 .. MaxUnits /\ f.fsize \in 0 .. MaxUnits
        /\ f.ver \in 0 .. MaxMade /\ f.fed \in 0 .. MaxUnits
    BY <1>1, Constants
  <2> QED
    BY <1>1, <2>1, <2>2 DEF Fil
<1>3. Chain(v, 0) = <<>>
  BY EmptyChain, Constants
<1>4. Writing(v, f)
  BY ONLY <1>1, <1>3, Constants, InDir(v, p, s), At(v, s).clust = 0, At(v, s).size = 0, p \in Paths DEF Writing
<1> QED
  BY <1>1, <1>2, <1>4 DEF Handled

(* A reader that has just been opened.                                     *)
LEMMA ReaderFil ==
  ASSUME NEW v, NEW p \in Paths, NEW s \in (Clusters \cup {0}) \X Nat, InDir(v, p, s),
         At(v, s).clust \in Clusters \cup {0}, At(v, s).size \in 0 .. MaxUnits
  PROVE  LET f == [Closed EXCEPT !.mode = "read", !.slot = s, !.path = p,
                                 !.sclust = At(v, s).clust, !.fsize = At(v, s).size] IN
         Handled(v, f) /\ f.mode = "read"
<1> DEFINE f == [Closed EXCEPT !.mode = "read", !.slot = s, !.path = p,
                               !.sclust = At(v, s).clust, !.fsize = At(v, s).size]
<1>0. Closed = [mode |-> "closed", slot |-> NoSlot, sclust |-> 0, clust |-> 0,
           fptr |-> 0, fsize |-> 0, buf |-> NoUnits, dsect |-> 0,
           dirty |-> FALSE, error |-> FALSE,
           path |-> <<>>, ver |-> 0, fed |-> 0, seen |-> <<>>, stale |-> FALSE]
  BY DEF Closed
<1>a. f = [Closed EXCEPT !.mode = "read", !.slot = s, !.path = p,
                                 !.sclust = At(v, s).clust, !.fsize = At(v, s).size]
  OBVIOUS
<1> HIDE DEF f
<1>1. /\ f.mode = "read" /\ f.slot = s /\ f.sclust = At(v, s).clust /\ f.clust = 0 /\ f.fptr = 0
      /\ f.fsize = At(v, s).size /\ f.buf = NoUnits /\ f.dsect = 0 /\ f.dirty = FALSE /\ f.error = FALSE
      /\ f.path = p /\ f.ver = 0 /\ f.fed = 0 /\ f.seen = <<>> /\ f.stale = FALSE
      /\ f = [mode |-> f.mode, slot |-> f.slot, sclust |-> f.sclust, clust |-> f.clust,
              fptr |-> f.fptr, fsize |-> f.fsize, buf |-> f.buf, dsect |-> f.dsect,
              dirty |-> f.dirty, error |-> f.error, path |-> f.path, ver |-> f.ver,
              fed |-> f.fed, seen |-> f.seen, stale |-> f.stale]
  BY ONLY <1>0, <1>a
<1>2. Fil(f)
  <2>1. /\ f.mode \in {"closed", "read", "write"} /\ f.slot \in {NoSlot} \cup ((Clusters \cup {0}) \X Nat)
        /\ f.sclust \in Clusters \cup {0} /\ f.clust \in Clusters \cup {0, EOC}
        /\ f.path \in {<<>>} \cup Paths /\ f.dsect \in Clusters \cup {0}
        /\ f.dirty \in BOOLEAN /\ f.error \in BOOLEAN /\ f.stale \in BOOLEAN /\ ~f.error
    BY <1>1
  <2>2. /\ f.fptr \in 0 .. MaxUnits /\ f.fsize \in 0 .. MaxUnits
        /\ f.ver \in 0 .. MaxMade /\ f.fed \in 0 .. MaxUnits
    BY <1>1, Constants
  <2> QED
    BY <1>1, <2>1, <2>2 DEF Fil
<1>4. Reading(v, f)
  BY <1>1, Constants DEF Reading
<1> QED
  BY <1>1, <1>2, <1>4 DEF Handled, f

(* One file object is replaced.                                            *)
LEMMA Swap ==
  ASSUME NEW w, NEW F, F = [k \in Handles |-> F[k]], NEW h \in Handles, NEW f, Handled(w, f),
         \A k \in Handles : k # h => Handled(w, F[k]),
         \A h1, h2 \in Handles : F[h1].mode = "write" /\ F[h2].mode = "write" /\ h1 # h2
                           => F[h1].path # F[h2].path,
         \A k \in Handles : k # h /\ F[k].mode = "write" /\ f.mode = "write" => F[k].path # f.path
  PROVE  Opened(w, [F EXCEPT ![h] = f])
<1> DEFINE G == [F EXCEPT ![h] = f]
<1>1. G = [k \in Handles |-> G[k]] /\ \A k \in Handles : G[k] = IF k = h THEN f ELSE F[k]
  OBVIOUS
<1> HIDE DEF G
<1>2. \A k \in Handles : Handled(w, G[k])
  BY <1>1
<1>3. ASSUME NEW h1 \in Handles, NEW h2 \in Handles, G[h1].mode = "write", G[h2].mode = "write", h1 # h2
      PROVE  G[h1].path # G[h2].path
  BY <1>1, <1>3
<1>4. Opened(w, G)
  BY <1>1, <1>2, <1>3 DEF Opened
<1> QED
  BY <1>4 DEF G

(* The chains of the writers when one file object changes.                 *)
LEMMA HeldSwap ==
  ASSUME NEW F, F = [k \in Handles |-> F[k]], NEW h \in Handles, NEW f
  PROVE  Held([F EXCEPT ![h] = f]) = (Held(F) \ {<< <<h>>, F[h].sclust>>})
            \cup (IF f.mode = "write" THEN {<< <<h>>, f.sclust>>} ELSE {})
<1> DEFINE G == [F EXCEPT ![h] = f]
<1>1. \A k \in Handles : G[k] = IF k = h THEN f ELSE F[k]
  OBVIOUS
<1> HIDE DEF G
<1>2. \A k : <<k>> = <<h>> => k = h
  OBVIOUS
<1>3. Held(G) = (Held(F) \ {<< <<h>>, F[h].sclust>>})
            \cup (IF f.mode = "write" THEN {<< <<h>>, f.sclust>>} ELSE {})
  <2>1. ASSUME NEW o \in Held(G)
        PROVE  o \in (Held(F) \ {<< <<h>>, F[h].sclust>>})
            \cup (IF f.mode = "write" THEN {<< <<h>>, f.sclust>>} ELSE {})
    <3>1. PICK k \in Handles : G[k].mode = "write" /\ o = << <<k>>, G[k].sclust>>
      BY DEF Held
    <3>2. CASE k = h
      BY <3>1, <3>2, <1>1
    <3>3. CASE k # h
      <4>1. G[k] = F[k] /\ o = << <<k>>, F[k].sclust>> /\ F[k].mode = "write"
        BY <3>1, <3>3, <1>1
      <4>2. o \in Held(F)
        BY <4>1 DEF Held
      <4>3. o # << <<h>>, F[h].sclust>>
        BY <4>1, <3>3, <1>2
      <4> QED
        BY <4>2, <4>3
    <3> QED
      BY <3>2, <3>3
  <2>2. ASSUME NEW o \in Held(F), o # << <<h>>, F[h].sclust>> PROVE o \in Held(G)
    <3>1. PICK k \in Handles : F[k].mode = "write" /\ o = << <<k>>, F[k].sclust>>
      BY DEF Held
    <3>2. k # h
      BY <3>1, <2>2
    <3>3. G[k] = F[k]
      BY <3>2, <1>1
    <3> QED
      BY <3>1, <3>3 DEF Held
  <2>3. ASSUME f.mode = "write" PROVE << <<h>>, f.sclust>> \in Held(G)
    BY <2>3, <1>1 DEF Held
  <2> QED
    BY <2>1, <2>2, <2>3
<1> QED
  BY <1>3 DEF G

(* Who does not write holds no chain.                                      *)
LEMMA NotHeld ==
  ASSUME NEW F, NEW h, F[h].mode # "write", NEW c
  PROVE  << <<h>>, c>> \notin Held(F)
<1> SUFFICES ASSUME << <<h>>, c>> \in Held(F) PROVE FALSE
  OBVIOUS
<1>1. PICK k \in Handles : F[k].mode = "write" /\ << <<h>>, c>> = << <<k>>, F[k].sclust>>
  BY DEF Held
<1>2. k = h
  BY <1>1
<1> QED
  BY <1>1, <1>2

-----------------------------------------------------------------------------
(* f_close of a reader, or any other change of a file object that is not a *)
(* writer (ff.cpp:2683-2718).                                              *)
LEMMA CloseReadKeeps ==
  ASSUME NEW v, NEW F, Inv(v, F), NEW h \in Handles, F[h].mode # "write",
         NEW f, Handled(v, f), f.mode # "write"
  PROVE  Inv(v, [F EXCEPT ![h] = f])
<1> DEFINE G == [F EXCEPT ![h] = f]
<1>1. Opened(v, F) /\ F = [k \in Handles |-> F[k]]
  BY DEF Inv, Opened
<1>2. Opened(v, G)
  BY <1>1, Swap DEF Opened
<1>3. Held(G) = Held(F)
  <2>1. << <<h>>, F[h].sclust>> \notin Held(F)
    BY NotHeld
  <2> QED
    BY <2>1, <1>1, HeldSwap
<1> HIDE DEF G
<1>4. ChainsOf(v, G) = ChainsOf(v, F)
  BY <1>3, ChainsAre
<1>5. Inv(v, G)
  BY <1>2, <1>4 DEF Inv
<1> QED
  BY <1>5 DEF G

(* f_open for reading (ff.cpp:2283-2406).                                  *)
LEMMA OpenReadKeeps ==
  ASSUME NEW v, NEW F, Inv(v, F), NEW h \in Handles, F[h].mode = "closed", NEW p \in Paths,
         NEW s, InDir(v, p, s)
  PROVE  Inv(v, [F EXCEPT ![h] =
                   [Closed EXCEPT !.mode = "read", !.slot = s, !.path = p,
                                  !.sclust = At(v, s).clust, !.fsize = At(v, s).size]])
<1> DEFINE f == [Closed EXCEPT !.mode = "read", !.slot = s, !.path = p,
                               !.sclust = At(v, s).clust, !.fsize = At(v, s).size]
<1>1. PICK d \in LiveDirs(v) : s \in FilesIn(v, At(v, d).clust)
  BY DEF InDir
<1>2. /\ s \in (Clusters \cup {0}) \X Nat /\ At(v, s).clust \in Clusters \cup {0}
      /\ At(v, s).size \in 0 .. MaxUnits
  BY <1>1, DirFacts, FileFacts DEF Inv
<1>3. Handled(v, f) /\ f.mode = "read"
  BY ONLY <1>2, p \in Paths, InDir(v, p, s), ReaderFil
<1> HIDE DEF f
<1>4. Inv(v, [F EXCEPT ![h] = f])
  BY <1>3, CloseReadKeeps
<1> QED
  BY <1>4 DEF f

-----------------------------------------------------------------------------
(* The dirty sector of a writer goes to its own chain.                     *)
LEMMA FlushKeeps ==
  ASSUME NEW v, NEW F, Inv(v, F), NEW h \in Handles, F[h].mode = "write"
  PROVE  Inv(Flush(v, F[h]), F) /\ Same(v, Flush(v, F[h])) /\ Flush(v, F[h]).fat = v.fat
<1> DEFINE f == F[h]
           w == Flush(v, f)
           C == ChainsOf(v, F)
           o == << <<h>>, f.sclust>>
<1>1. Writing(v, f) /\ Fil(f)
  BY DEF Inv, Opened, Handled
<1>2. /\ Tree(v) /\ Apart(v, C) /\ DirsIn(v, C) /\ o \in C
      /\ \A d \in LiveDirs(v) : o # <<d, At(v, d).clust>>
  <2>1. o \in C
    BY DEF ChainsOf
  <2> QED
    BY <2>1, InvFacts
<1> HIDE DEF C
<1>3. CASE ~f.dirty
  <2>1. w = v
    BY <1>3 DEF Flush
  <2> QED
    BY <2>1 DEF Same
<1>4. CASE f.dirty
  <2>1. w = [v EXCEPT !.disk[f.dsect] = f.buf]
    BY <1>4 DEF Flush
  <2>2. f.dsect \in ClustersOf(v, o[2])
    BY <1>1, <1>4 DEF Writing
  <2> HIDE DEF f, w, o
  <2>3. f.dsect \in Clusters /\ \A d \in LiveDirs(v) : f.dsect \notin ClustersOf(v, At(v, d).clust)
    BY <1>2, <2>2, NotOfDir
  <2>4. Tree(w) /\ Same(v, w) /\ w.fat = v.fat
    BY ONLY <1>2, <2>1, <2>3, TreeSector
  <2>5. ChainsOf(w, F) = C /\ Apart(w, C)
    BY <1>2, <2>4, OwnedSame, ChainsAre, ApartSame DEF C
  <2>6. Changed(v, w, F, NoSlot)
    <3>1. \A c : Chain(w, c) = Chain(v, c)
      BY <2>4, ChainByTable
    <3> QED
      BY <3>1, <2>4 DEF Changed, Same
  <2>7. Inv(w, F)
    BY <2>4, <2>5, <2>6, InvKept
  <2> QED
    BY <2>4, <2>7 DEF w, f
<1> QED
  BY <1>3, <1>4

(* f_sync: the size and the chain go into the entry.                       *)
Synced(v, f, w) ==
  w = Put(v, f.slot, [At(v, f.slot) EXCEPT !.size = f.fsize, !.clust = f.sclust])

(* f_sync of a writer: its chain goes from the file object to the entry,   *)
(* which was found at open and is still there (ff.cpp:2635-2718).          *)
LEMMA SyncKeeps ==
  ASSUME NEW v, NEW F, Inv(v, F), NEW h \in Handles, F[h].mode = "write",
         NEW w, Synced(v, F[h], w)
  PROVE  /\ Inv(w, [F EXCEPT ![h] = Closed]) /\ Changed(v, w, F, F[h].slot)
         /\ InDir(w, F[h].path, F[h].slot) /\ w.fat = v.fat
         /\ At(w, F[h].slot).clust = F[h].sclust /\ At(w, F[h].slot).size = F[h].fsize
<1> DEFINE f == F[h]
           s == f.slot
           C == ChainsOf(v, F)
           o == << <<h>>, f.sclust>>
           cell == [At(v, s) EXCEPT !.size = f.fsize, !.clust = f.sclust]
           G == [F EXCEPT ![h] = Closed]
<1>1. Writing(v, f) /\ Fil(f) /\ Tree(v) /\ Apart(v, C)
  BY DEF Inv, Opened, Handled
<1>2. PICK d \in LiveDirs(v) : /\ s \in FilesIn(v, At(v, d).clust)
                               /\ At(v, d).name = f.path[1] /\ At(v, s).name = f.path[2]
  BY <1>1 DEF Writing, InDir
<1>3. PICK k : Placed(v, At(v, d).clust, k, s)
  BY <1>1, <1>2, DirFacts, FilePlaced
<1>4. /\ At(v, s) = Entry(At(v, s).name, FALSE, At(v, s).clust, At(v, s).size)
      /\ s = <<s[1], s[2]>> /\ s \in LiveFiles(v) /\ s \notin DirSlots
  <2>1. Tree(v)
    BY <1>1
  <2>2. d \in LiveDirs(v) /\ s \in FilesIn(v, At(v, d).clust)
    BY <1>2
  <2> HIDE DEF s, f, C, o, cell, G
  <2>3. Directory(v, At(v, d).clust)
    BY ONLY <2>1, <2>2, DirFacts
  <2>4. s \in LiveFiles(v)
    BY ONLY <2>1, <2>2, LiveFacts
  <2> QED
    BY ONLY <2>2, <2>3, <2>4, FileFacts
<1>5. cell = Entry(At(v, s).name, FALSE, f.sclust, f.fsize)
  <2>1. cell = [At(v, s) EXCEPT !.size = f.fsize, !.clust = f.sclust]
    OBVIOUS
  <2> DEFINE x == At(v, s)
             name == x.name
             clust == x.clust
             size == x.size
  <2>2. x = Entry(name, FALSE, clust, size) /\ cell = [x EXCEPT !.size = f.fsize, !.clust = f.sclust]
    BY <1>4, <2>1
  <2> HIDE DEF s, f, C, o, cell, G, x, name, clust, size
  <2>3. cell = Entry(name, FALSE, f.sclust, f.fsize)
    BY ONLY <2>2 DEF Entry
  <2> QED
    BY ONLY <2>3 DEF name, x
<1>6. /\ FileCell(cell) /\ cell # Zero /\ IsEntry(cell) /\ cell.clust = f.sclust /\ cell.size = f.fsize
      /\ cell.name = At(v, s).name
  <2>1. f.sclust \in Clusters \cup {0} /\ f.fsize \in 0 .. MaxUnits
    BY <1>1 DEF Fil
  <2> QED
    BY <1>5, <2>1 DEF FileCell, Entry, IsEntry, Zero
<1>7. w = Put(v, s, cell)
  BY DEF Synced
<1>8. /\ At(v, s).clust = 0 /\ At(v, s).size = 0 /\ f.fsize <= f.fptr /\ f.path \in Paths
      /\ f.fptr <= Len(Chain(v, f.sclust)) * SS /\ InDir(v, f.path, s)
      /\ f.fptr \in Nat /\ f.fsize \in Nat
  BY <1>1 DEF Writing, Fil
<1> HIDE DEF C, o, cell, s, G
<1>9. Replaced(v, w, d, s, cell)
  BY <1>1, <1>3, <1>6, <1>7, TreePut
<1>10. Tree(w) /\ Edited(v, w, s, {s}) /\ At(w, s) = cell /\ w.fat = v.fat
  BY <1>6, <1>9 DEF Replaced
<1>18. InDir(w, f.path, s)
  BY <1>2, <1>6, <1>9 DEF Replaced
<1>11. \A c : Chain(w, c) = Chain(v, c)
  BY <1>10, ChainByTable
<1>12. Changed(v, w, F, s)
  BY <1>10, <1>11, <1>4 DEF Changed, Edited
<1>13. Fits(w)
  <2>1. At(w, s).size <= Len(Chain(w, At(w, s).clust)) * SS
    <3>1. f.fsize <= Len(Chain(v, f.sclust)) * SS
      <4>1. Len(Chain(v, f.sclust)) \in Nat
        BY ChainShape, Constants
      <4>2. Len(Chain(v, f.sclust)) * SS \in Nat
        BY <4>1, Constants
      <4> QED
        BY <1>8, <4>2
    <3> QED
      BY <3>1, <1>6, <1>10, <1>11
  <2> QED
    BY <2>1, <1>12, FitsKept
<1>14. ASSUME NEW g \in Handles, g # h PROVE Handled(w, F[g])
  <2>1. ASSUME Matters(F[g]) PROVE F[g].slot # s /\ <<g>> # s
    <3>1. /\ InDir(v, F[g].path, F[g].slot) /\ F[g].path \in Paths /\ F[g].slot \in LiveFiles(v)
          /\ Handled(v, F[g])
      BY <2>1, HandleOwns DEF Inv, Opened
    <3>2. CASE F[g].mode = "write"
      <4>1. F[g].path # f.path
        BY <1>14, <3>2 DEF Inv, Opened
      <4>2. F[g].slot # s
        BY <1>1, <1>8, <3>1, <4>1, OnePath
      <4> QED
        BY <4>2, <1>4
    <3>3. CASE F[g].mode # "write"
      <4>1. F[g].mode = "read" /\ ~F[g].stale /\ F[g].fsize # 0
        BY <2>1, <3>3 DEF Matters
      <4>2. Reading(v, F[g])
        BY <3>1, <4>1 DEF Handled
      <4>3. At(v, F[g].slot).size # 0
        BY <4>1, <4>2 DEF Reading
      <4>4. F[g].slot # s
        BY <4>3, <1>8
      <4> QED
        BY <4>4, <1>4
    <3> QED
      BY <3>2, <3>3
  <2> QED
    BY <2>1, <1>12, HandleKept
<1>15. Opened(w, G)
  <2>1. F = [g \in Handles |-> F[g]]
    BY DEF Inv, Opened
  <2>2. Handled(w, Closed) /\ Closed.mode # "write"
    BY ClosedFil
  <2>3. \A h1, h2 \in Handles : F[h1].mode = "write" /\ F[h2].mode = "write" /\ h1 # h2
                           => F[h1].path # F[h2].path
    BY DEF Inv, Opened
  <2> QED
    BY <2>1, <2>2, <2>3, <1>14, Swap DEF G
<1>16. ChainsOf(w, G) = ((C \ {<<s, 0>>}) \ {o}) \cup {<<s, f.sclust>>}
  <2>1. Held(G) = Held(F) \ {o}
    <3>1. Closed.mode # "write" /\ F = [g \in Handles |-> F[g]]
      BY ClosedFil DEF Inv, Opened
    <3> QED
      BY <3>1, HeldSwap DEF G, o
  <2>2. Owned(w) = (Owned(v) \ {<<s, 0>>}) \cup {<<s, f.sclust>>}
    <3>1. s \notin LiveDirs(v)
      BY <1>4, <1>1, LiveFacts
    <3> QED
      BY <3>1, <1>6, <1>8, <1>10, OwnedIn
  <2>3. <<s, 0>> \notin Held(F)
    BY <1>4, HeldNames
  <2>4. o \notin Owned(v) /\ o # <<s, f.sclust>>
    <3>1. \A x \in LiveDirs(v) \cup LiveFiles(v) : x = <<x[1], x[2]>>
      BY <1>1, DirFacts, LiveFacts
    <3>2. \A a, b : <<a, b>> # <<h>>
      OBVIOUS
    <3>3. \A x \in LiveDirs(v) \cup LiveFiles(v) : x # <<h>>
      BY <3>1, <3>2
    <3> QED
      BY <3>3, <1>4 DEF Owned, o
  <2>5. C = Owned(v) \cup Held(F)
    BY ChainsAre DEF C
  <2>6. ChainsOf(w, G) = Owned(w) \cup Held(G)
    BY ChainsAre
  <2> QED
    BY <2>1, <2>2, <2>3, <2>4, <2>5, <2>6
<1>17. Apart(w, ((C \ {<<s, 0>>}) \ {o}) \cup {<<s, f.sclust>>})
  <2>1. Apart(v, C \ {<<s, 0>>})
    BY <1>1, ApartZero
  <2>2. o \in C \ {<<s, 0>>}
    <3>1. o \in C
      BY DEF C, o, ChainsOf
    <3>2. <<h>> # s
      <4>1. <<h>> # <<s[1], s[2]>>
        OBVIOUS
      <4> QED
        BY <4>1, <1>4
    <3> QED
      BY <3>1, <3>2 DEF o
  <2>3. Apart(v, ((C \ {<<s, 0>>}) \ {o}) \cup {<<s, o[2]>>})
    <3> DEFINE D == C \ {<<s, 0>>}
    <3> HIDE DEF D
    <3> QED
      BY <2>1, <2>2, ApartOwner DEF D
  <2>4. o[2] = f.sclust
    BY DEF o
  <2> QED
    BY <2>3, <2>4, <1>10, ApartSame
<1> QED
  <2>1. Inv(w, G)
    BY <1>10, <1>13, <1>15, <1>16, <1>17 DEF Inv
  <2> QED
    BY <2>1, <1>6, <1>10, <1>12, <1>18 DEF G, s

(* The allocator starts somewhere else.                                    *)
LEMMA LastIs ==
  ASSUME NEW v, Volume(v), NEW l \in 0 .. NFat - 1
  PROVE  LET w == [v EXCEPT !.last = l] IN
         Volume(w) /\ w.fat = v.fat /\ w.disk = v.disk
<1>1. v = [fat |-> v.fat, last |-> v.last, disk |-> v.disk]
  BY DEF Volume
<1>2. [v EXCEPT !.last = l] = [fat |-> v.fat, last |-> l, disk |-> v.disk]
  BY ONLY <1>1
<1> QED
  BY <1>2 DEF Volume

(* The entry of a file without units.                                      *)
BlankFile(name) == Entry(name, FALSE, 0, 0)

(* The entry of a new file.                                                *)
LEMMA BlankFileIs ==
  ASSUME NEW name
  PROVE  /\ FileCell(BlankFile(name)) /\ BlankFile(name) # Zero /\ IsEntry(BlankFile(name))
         /\ BlankFile(name).name = name /\ BlankFile(name).clust = 0 /\ BlankFile(name).size = 0
<1>1. 0 \in 0 .. MaxUnits
  BY Constants
<1> QED
  BY <1>1 DEF BlankFile, FileCell, Entry, IsEntry, Zero

(* A new entry, the chains being apart.                                    *)
LEMMA OpenNew ==
  ASSUME NEW v, NEW F, Inv(v, F), NEW t, NEW s, Tree(t), Edited(v, t, s, {}),
         s \notin LiveFiles(v), s \notin DirSlots, Apart(t, ChainsOf(v, F)),
         \A o \in ChainsOf(v, F) : o[1] \notin DirSlots => Chain(t, o[2]) = Chain(v, o[2]),
         NEW p \in Paths, NEW d \in LiveDirs(t), At(t, d).name = p[1],
         NEW k, Placed(t, At(t, d).clust, k, s),
         NEW w, w = Put(t, s, BlankFile(p[2]))
  PROVE  /\ Inv(w, F) /\ InDir(w, p, s) /\ At(w, s) = BlankFile(p[2])
         /\ Changed(v, w, F, s)
<1> DEFINE C == ChainsOf(v, F)
           cell == BlankFile(p[2])
<1>1. /\ FileCell(cell) /\ cell # Zero /\ IsEntry(cell)
      /\ cell.name = p[2] /\ cell.clust = 0 /\ cell.size = 0
  BY BlankFileIs
<1>2. w = Put(t, s, cell)
  OBVIOUS
<1> HIDE DEF C, cell
<1>3. Replaced(t, w, d, s, cell)
  BY <1>1, <1>2, TreePut
<1>4. Tree(w) /\ Edited(t, w, s, {s}) /\ At(w, s) = cell /\ w.fat = t.fat
  BY <1>1, <1>3 DEF Replaced
<1>5. InDir(w, p, s)
  BY <1>1, <1>3 DEF Replaced
<1>6. Edited(v, w, s, {s})
  BY <1>4, EditTwice
<1>7. s \notin LiveDirs(v) /\ Tree(v)
  BY LiveFacts DEF Inv
<1>8. ChainsOf(w, F) = C \cup {<<s, 0>>}
  <2>1. Owned(w) = Owned(v) \cup {<<s, 0>>}
    BY <1>1, <1>4, <1>6, <1>7, OwnedIn
  <2> QED
    BY <2>1, ChainsAre DEF C
<1>9. Apart(w, ChainsOf(w, F))
  <2>1. Apart(w, C)
    BY <1>4, ApartSame DEF C
  <2>2. Apart(w, C \cup {<<s, 0>>})
    BY ONLY <2>1, ApartZero
  <2> QED
    BY ONLY <2>2, <1>8
<1>10. Changed(v, w, F, s)
  <2>1. \A c : Chain(w, c) = Chain(t, c)
    BY <1>4, ChainByTable
  <2>2. \A o \in ChainsOf(v, F) : o[1] \notin DirSlots => Chain(w, o[2]) = Chain(v, o[2])
    BY <2>1
  <2> QED
    BY <2>2, <1>6 DEF Changed, Edited
<1>11. At(w, s).size <= Len(Chain(w, At(w, s).clust)) * SS
  <2>1. Len(Chain(w, At(w, s).clust)) \in Nat
    BY ChainShape, Constants
  <2>2. Len(Chain(w, At(w, s).clust)) * SS \in Nat
    BY <2>1, Constants
  <2> QED
    BY <2>2, <1>1, <1>4
<1>12. \A h \in Handles : Matters(F[h]) => F[h].slot # s /\ <<h>> # s
  <2> SUFFICES ASSUME NEW h \in Handles, Matters(F[h]) PROVE F[h].slot # s /\ <<h>> # s
    OBVIOUS
  <2>1. F[h].slot \in LiveFiles(v)
    BY HandleOwns
  <2>2. s \in LiveFiles(w)
    BY <1>4, <1>6 DEF Edited
  <2>3. s = <<s[1], s[2]>> /\ <<h>> # <<s[1], s[2]>>
    BY <2>2, <1>4, LiveFacts
  <2> QED
    BY <2>1, <2>3
<1>13. Inv(w, F)
  BY ONLY <1>4, <1>9, <1>10, <1>11, <1>12, Inv(v, F), InvChanged
<1> QED
  BY <1>4, <1>5, <1>10, <1>13 DEF cell

(* dir_alloc found a slot.                                                 *)
LEMMA OpenBlank ==
  ASSUME NEW v, NEW F, Inv(v, F), NEW p \in Paths, NEW d \in LiveDirs(v), At(v, d).name = p[1],
         NEW k, NEW s, Placed(v, At(v, d).clust, k, s), ~IsEntry(At(v, s)),
         NEW w, w = Put(v, s, BlankFile(p[2]))
  PROVE  /\ Inv(w, F) /\ InDir(w, p, s) /\ At(w, s) = BlankFile(p[2])
         /\ Changed(v, w, F, s)
<1>1. Tree(v) /\ Apart(v, ChainsOf(v, F))
  BY DEF Inv
<1>2. s \notin LiveFiles(v)
  BY <1>1, LiveFacts
<1>3. s \notin DirSlots
  <2>1. Directory(v, At(v, d).clust)
    BY <1>1, DirFacts
  <2>2. s \in ToSet(Slots(v, At(v, d).clust)) /\ At(v, d).clust \in Clusters /\ Sound(v, At(v, d).clust)
    <3>1. At(v, d).clust \in Clusters /\ Sound(v, At(v, d).clust)
      BY <2>1 DEF Directory
    <3> QED
      BY <3>1, SlotKnown DEF Placed
  <2>3. s[1] \in Clusters
    BY <2>2, SlotKnown
  <2> QED
    BY <2>3, Constants DEF DirSlots
<1>4. Edited(v, v, s, {})
  BY <1>2 DEF Edited
<1> QED
  BY <1>1, <1>2, <1>3, <1>4, OpenNew

(* dir_alloc gave the directory a cluster.                                 *)
LEMMA OpenGrown ==
  ASSUME NEW v, NEW F, Inv(v, F), NEW p \in Paths, NEW d \in LiveDirs(v), At(v, d).name = p[1],
         NEW a, Grown(v, At(v, d).clust, a),
         NEW w, w = Put(a.v, a.slot, BlankFile(p[2]))
  PROVE  /\ Inv(w, F) /\ InDir(w, p, a.slot) /\ At(w, a.slot) = BlankFile(p[2])
         /\ Changed(v, w, F, a.slot)
<1> DEFINE C == ChainsOf(v, F)
           c == At(v, d).clust
           q == <<d, c>>
           l == Chain(v, c)[Len(Chain(v, c))]
           r == CreateChain(v, l)
           n == r.cl
           t == a.v
           s == <<n, 0>>
<1>1. Tree(v) /\ Apart(v, C) /\ DirsIn(v, C) /\ Volume(v)
  BY InvFacts
<1>2. c \in Clusters /\ Directory(v, c) /\ d \in DirSlots
  BY <1>1, DirFacts
<1>3. q \in C /\ q[1] = d /\ q[2] = c
  BY <1>1 DEF DirsIn
<1>4. /\ Taken(v, l, r) /\ t = [r.v EXCEPT !.disk[n] = BlankTable] /\ a.slot = s
      /\ \A k \in 1 .. Len(Slots(v, c)) : At(v, Slots(v, c)[k]) # Zero
  BY DEF Grown
<1> HIDE DEF l
<1>5. l \in Clusters /\ l # 0 /\ c # 0
  <2>1. l \in Clusters
    BY <1>2, ChainShape DEF l
  <2> QED
    BY <2>1, <1>2, Constants
<1>6. /\ n \in Clusters /\ v.fat[n] = 0 /\ Volume(r.v) /\ r.v.disk = v.disk
      /\ r.v.fat = [v.fat EXCEPT ![l] = n, ![n] = EOC]
  BY <1>4, <1>5 DEF Taken
<1> HIDE DEF r, n, t, q, C, c
<1>7. /\ Volume(t) /\ t.fat = r.v.fat /\ t.disk[n] = BlankTable
      /\ \A x \in Clusters \cup {0} : x # n => t.disk[x] = v.disk[x]
  <2>1. Volume(r.v) /\ n \in Clusters \cup {0} /\ t = [r.v EXCEPT !.disk[n] = BlankTable]
    BY <1>4, <1>6
  <2>2. /\ Volume(t) /\ t.fat = r.v.fat /\ t.disk[n] = BlankTable
        /\ \A x \in Clusters \cup {0} : x # n => t.disk[x] = r.v.disk[x]
    BY ONLY <2>1, SectorIs
  <2> QED
    BY <2>2, <1>6
<1>8. Continued(v, t, C, q, n)
  <2>1. v.fat \in [Clusters -> Clusters \cup {0, EOC}]
    BY <1>1 DEF Volume
  <2>2. l = Chain(v, q[2])[Len(Chain(v, q[2]))] /\ q[2] # 0
    BY <1>3, <1>5 DEF l
  <2>3. t.fat = [v.fat EXCEPT ![l] = n, ![n] = EOC]
    BY <1>6, <1>7
  <2> QED
    BY ONLY <2>1, <2>2, <2>3, <1>1, <1>3, <1>6, ApartNext
<1>9. /\ Chain(t, c) = Append(Chain(v, c), n) /\ Apart(t, C)
      /\ \A o \in C \ {q} : Chain(t, o[2]) = Chain(v, o[2])
  BY <1>3, <1>8 DEF Continued
<1>10. Sound(t, c)
  BY <1>3, <1>5, <1>9 DEF Apart
<1>11. ASSUME NEW e \in LiveDirs(v)
       PROVE  /\ n \notin ClustersOf(v, At(v, e).clust)
              /\ e # d => /\ Chain(t, At(v, e).clust) = Chain(v, At(v, e).clust)
                          /\ Sound(t, At(v, e).clust)
  <2> DEFINE x == <<e, At(v, e).clust>>
  <2>1. x \in C /\ x[2] = At(v, e).clust /\ x[1] = e /\ x[2] # 0
    <3>1. At(v, e).clust \in Clusters
      BY <1>1, DirFacts
    <3> QED
      BY <3>1, <1>1, Constants DEF DirsIn
  <2> HIDE DEF x
  <2>2. n \notin ClustersOf(v, x[2])
    BY <2>1, <1>1, <1>6, OwnedTaken
  <2>3. e # d => x # q
    BY <2>1, <1>3
  <2>4. Sound(t, x[2])
    BY <2>1, <1>9 DEF Apart
  <2> QED
    BY <2>1, <2>2, <2>3, <2>4, <1>9
<1>12. \A x \in Clusters \cup {0} : x # n => t.disk[x] = v.disk[x]
  BY <1>7
<1>13. /\ Tree(t) /\ Edited(v, t, <<n, 0>>, {}) /\ <<n, 0>> \notin LiveFiles(v)
       /\ At(t, d) = At(v, d) /\ \E k : Placed(t, c, k, <<n, 0>>)
  <2>1. \A e \in LiveDirs(v) : n \notin ClustersOf(v, At(v, e).clust)
    BY <1>11
  <2>2. \A e \in LiveDirs(v) : e # d =>
            Chain(t, At(v, e).clust) = Chain(v, At(v, e).clust) /\ Sound(t, At(v, e).clust)
    BY <1>11
  <2>3. /\ Chain(t, At(v, d).clust) = Append(Chain(v, At(v, d).clust), n) /\ Sound(t, At(v, d).clust)
        /\ \A k \in 1 .. Len(Slots(v, At(v, d).clust)) : At(v, Slots(v, At(v, d).clust)[k]) # Zero
    BY <1>4, <1>9, <1>10 DEF c
  <2>4. Tree(v) /\ Volume(t) /\ n \in Clusters /\ t.disk[n] = BlankTable
    BY <1>1, <1>6, <1>7
  <2>5. /\ Tree(t) /\ Edited(v, t, <<n, 0>>, {}) /\ <<n, 0>> \notin LiveFiles(v)
        /\ At(t, d) = At(v, d) /\ \E k : Placed(t, At(v, d).clust, k, <<n, 0>>)
    BY ONLY <2>1, <2>2, <2>3, <2>4, <1>12, d \in LiveDirs(v), TreeGrow
  <2> QED
    BY <2>5 DEF c
<1>14. PICK k : Placed(t, c, k, s)
  BY <1>13
<1>15. s \notin DirSlots /\ s \notin LiveFiles(v) /\ Edited(v, t, s, {})
  <2>1. s[1] = n /\ n # 0
    BY <1>6, Constants
  <2> QED
    BY <2>1, <1>13 DEF DirSlots
<1>16. \A o \in C : o[1] \notin DirSlots => Chain(t, o[2]) = Chain(v, o[2])
  BY <1>2, <1>3, <1>9
<1>17. d \in LiveDirs(t) /\ At(t, d).name = p[1] /\ Placed(t, At(t, d).clust, k, s)
  BY <1>13, <1>14 DEF Edited, c
<1>18. w = Put(t, s, BlankFile(p[2]))
  BY <1>4 DEF t
<1> HIDE DEF s
<1>19. Inv(w, F) /\ InDir(w, p, s) /\ At(w, s) = BlankFile(p[2]) /\ Changed(v, w, F, s)
  <2>1. Apart(t, ChainsOf(v, F)) /\ Tree(t) /\ \A o \in ChainsOf(v, F) :
           o[1] \notin DirSlots => Chain(t, o[2]) = Chain(v, o[2])
    BY <1>9, <1>13, <1>16 DEF C
  <2> QED
    BY ONLY <2>1, <1>15, <1>17, <1>18, Inv(v, F), p \in Paths, OpenNew
<1> QED
  BY <1>4, <1>19

(* A file of that name is cut to nothing.                                  *)
Emptied(v, s, name, w) ==
  LET old == At(v, s).clust
      cut == Put(v, s, BlankFile(name))
  IN  w = IF old = 0 THEN cut ELSE [RemoveChain(cut, old) EXCEPT !.last = old - 1]

(* f_open of a file that exists cuts it to nothing: its chain is free.     *)
LEMMA OpenFound ==
  ASSUME NEW v, NEW F, Inv(v, F), NEW p \in Paths, NEW d \in LiveDirs(v), At(v, d).name = p[1],
         NEW s \in FilesIn(v, At(v, d).clust), At(v, s).name = p[2],
         \A h \in Handles : Matters(F[h]) => F[h].path # p,
         NEW w, Emptied(v, s, p[2], w)
  PROVE  /\ Inv(w, F) /\ InDir(w, p, s) /\ At(w, s) = BlankFile(p[2])
         /\ Changed(v, w, F, s)
<1> DEFINE C == ChainsOf(v, F)
           c == At(v, s).clust
           o == <<s, c>>
           cell == BlankFile(p[2])
           u == Put(v, s, cell)
<1>1. /\ Tree(v) /\ Apart(v, C) /\ DirsIn(v, C) /\ Volume(v) /\ s \in LiveFiles(v) /\ o \in C
      /\ InDir(v, p, s)
  <2>1. InDir(v, p, s)
    BY DEF InDir
  <2> QED
    BY <2>1, InvFacts, LiveFacts
<1>2. c \in Clusters \cup {0} /\ s = <<s[1], s[2]>>
  BY <1>1, LiveFacts
<1>3. PICK k : Placed(v, At(v, d).clust, k, s)
  BY <1>1, DirFacts, FilePlaced
<1>4. FileCell(cell) /\ cell # Zero /\ IsEntry(cell) /\ cell.name = p[2] /\ cell.clust = 0 /\ cell.size = 0
  BY BlankFileIs
<1>5. w = IF c = 0 THEN u ELSE [RemoveChain(u, c) EXCEPT !.last = c - 1]
  BY DEF Emptied
<1> HIDE DEF C, o, c, cell
<1>6. Replaced(v, u, d, s, cell)
  BY <1>1, <1>3, <1>4, TreePut
<1> HIDE DEF u
<1>7. /\ Tree(u) /\ Edited(v, u, s, {s}) /\ u.fat = v.fat /\ s \notin DirSlots
      /\ At(u, s) = cell /\ InDir(u, p, s) /\ s \notin LiveDirs(v)
  BY <1>1, <1>4, <1>6, LiveFacts DEF Replaced
<1>8. o[1] = s /\ o[2] = c /\ o = <<s, c>>
  BY DEF o
<1>9. Owned(u) = (Owned(v) \ {o}) \cup {<<s, 0>>}
  BY <1>4, <1>7, OwnedIn DEF o, c
<1>10. ClustersOf(u, c) = ClustersOf(v, c) /\ \A b : Chain(u, b) = Chain(v, b)
  BY <1>7, ChainByTable DEF ClustersOf
<1>11. Apart(u, C)
  BY <1>1, <1>7, ApartSame
<1>12. DirsIn(u, C) /\ \A e \in LiveDirs(u) : o # <<e, At(u, e).clust>>
  <2>1. \A e \in LiveDirs(u) : e \in LiveDirs(v) /\ At(u, e) = At(v, e) /\ e # s
    BY <1>7 DEF Edited
  <2> QED
    BY <2>1, <1>1, <1>8 DEF DirsIn
<1>13. /\ Tree(w) /\ Same(u, w) /\ Apart(w, C \ {o})
       /\ \A q \in C \ {o} : Chain(w, q[2]) = Chain(u, q[2])
  <2>1. CASE c = 0
    <3>1. w = u
      BY <1>5, <2>1
    <3>2. Apart(u, C \ {o})
      BY ONLY <1>8, <1>11, <2>1, ApartZero
    <3>3. Same(u, u)
      BY DEF Same
    <3> QED
      BY <3>1, <3>2, <3>3, <1>7
  <2>2. CASE c # 0
    <3> DEFINE x == RemoveChain(u, c)
    <3>1. /\ Volume(x) /\ x.disk = u.disk
          /\ x.fat = [b \in Clusters |-> IF b \in ClustersOf(u, o[2]) THEN 0 ELSE u.fat[b]]
      <4>1. Volume(u)
        BY <1>7 DEF Tree
      <4> QED
        BY <4>1, <1>8, RemoveChainIs
    <3>2. w = [x EXCEPT !.last = c - 1] /\ c - 1 \in 0 .. NFat - 1
      BY <1>2, <1>5, <2>2, Constants
    <3> HIDE DEF x
    <3>3. Volume(w) /\ w.fat = x.fat /\ w.disk = x.disk
      BY ONLY <3>1, <3>2, LastIs
    <3>4. /\ Volume(w) /\ w.disk = u.disk
          /\ w.fat = [b \in Clusters |-> IF b \in ClustersOf(u, o[2]) THEN 0 ELSE u.fat[b]]
      BY <3>1, <3>3
    <3>5. Tree(u) /\ o \in C
      BY <1>1, <1>7
    <3> QED
      BY ONLY <3>4, <3>5, <1>11, <1>12, TreeCut, SMTT(60)
  <2> QED
    BY <2>1, <2>2
<1>14. /\ Edited(v, w, s, {s}) /\ At(w, s) = cell /\ InDir(w, p, s)
  <2>1. s \in LiveFiles(u)
    BY <1>7 DEF Edited
  <2>2. At(w, s) = cell /\ InDir(w, p, s)
    BY <2>1, <1>7, <1>13 DEF Same
  <2>3. Edited(v, w, s, {s})
    BY <1>7, <1>13, EditSame
  <2> QED
    BY <2>2, <2>3
<1>15. ChainsOf(w, F) = (C \ {o}) \cup {<<s, 0>>}
  <2>1. Owned(w) = (Owned(v) \ {o}) \cup {<<s, 0>>}
    BY <1>9, <1>13, OwnedSame
  <2>2. o \notin Held(F)
    BY <1>2, <1>8, HeldNames
  <2> QED
    BY <2>1, <2>2, ChainsAre DEF C
<1>16. Apart(w, ChainsOf(w, F))
  <2>1. Apart(w, (C \ {o}) \cup {<<s, 0>>})
    <3> DEFINE D == C \ {o}
    <3>1. Apart(w, D)
      BY <1>13
    <3> HIDE DEF D
    <3>2. Apart(w, D \cup {<<s, 0>>})
      BY ONLY <3>1, ApartZero
    <3> QED
      BY <3>2 DEF D
  <2> QED
    BY ONLY <2>1, <1>15
<1>17. Changed(v, w, F, s)
  <2>1. \A q \in C : q[1] # s => Chain(w, q[2]) = Chain(v, q[2])
    BY <1>8, <1>10, <1>13
  <2> QED
    BY <2>1, <1>14 DEF Changed, Edited, C
<1>18. \A h \in Handles : Matters(F[h]) => F[h].slot # s /\ <<h>> # s
  <2> SUFFICES ASSUME NEW h \in Handles, Matters(F[h]) PROVE F[h].slot # s /\ <<h>> # s
    OBVIOUS
  <2>1. InDir(v, F[h].path, F[h].slot) /\ F[h].path \in Paths /\ F[h].path # p
    BY HandleOwns
  <2>2. F[h].slot # s
    BY <1>1, <2>1, OnePath
  <2>3. <<h>> # <<s[1], s[2]>>
    OBVIOUS
  <2> QED
    BY <1>2, <2>2, <2>3
<1>19. At(w, s).size <= Len(Chain(w, At(w, s).clust)) * SS
  <2>1. Len(Chain(w, At(w, s).clust)) \in Nat
    BY ChainShape, Constants
  <2>2. Len(Chain(w, At(w, s).clust)) * SS \in Nat
    BY <2>1, Constants
  <2> QED
    BY <2>2, <1>4, <1>14
<1>20. Inv(w, F)
  BY ONLY <1>13, <1>16, <1>17, <1>18, <1>19, Inv(v, F), InvChanged
<1> QED
  BY <1>14, <1>17, <1>20 DEF cell

-----------------------------------------------------------------------------
(* The file object of a writer is filled in.                               *)
LEMMA HandleOpened ==
  ASSUME NEW w, NEW F, Inv(w, F), NEW h \in Handles, F[h].mode = "closed",
         NEW p \in Paths, NEW s, InDir(w, p, s), At(w, s) = BlankFile(p[2]),
         NEW n \in 0 .. MaxMade,
         \A k \in Handles : F[k].mode = "write" => F[k].path # p
  PROVE  Inv(w, [F EXCEPT ![h] =
                   [Closed EXCEPT !.mode = "write", !.slot = s, !.path = p, !.ver = n]])
<1> DEFINE f == [Closed EXCEPT !.mode = "write", !.slot = s, !.path = p, !.ver = n]
           G == [F EXCEPT ![h] = f]
           C == ChainsOf(w, F)
<1>1. s \in (Clusters \cup {0}) \X Nat
  <2>1. PICK d \in LiveDirs(w) : s \in FilesIn(w, At(w, d).clust)
    BY DEF InDir
  <2>2. Tree(w)
    BY DEF Inv
  <2>3. Directory(w, At(w, d).clust)
    BY <2>2, DirFacts
  <2> QED
    BY <2>1, <2>3, FileFacts
<1>2. At(w, s).clust = 0 /\ At(w, s).size = 0
  BY BlankFileIs
<1>a. NewWriter(f, s, p, n)
  BY DEF NewWriter
<1> HIDE DEF f
<1>3. Handled(w, f) /\ f.mode = "write" /\ f.path = p /\ f.sclust = 0
  BY ONLY <1>1, <1>2, <1>a, p \in Paths, n \in 0 .. MaxMade, InDir(w, p, s), WriterFil
<1>4. Opened(w, F) /\ F = [k \in Handles |-> F[k]]
  BY DEF Inv, Opened
<1>5. Opened(w, G)
  BY <1>3, <1>4, Swap DEF Opened
<1>6. << <<h>>, F[h].sclust>> \notin Held(F)
  BY NotHeld
<1>7. Held(G) = Held(F) \cup {<< <<h>>, 0>>}
  BY <1>3, <1>4, <1>6, HeldSwap
<1>8. ChainsOf(w, G) = C \cup {<< <<h>>, 0>>}
  <2> HIDE DEF G
  <2> QED
    BY <1>7, ChainsAre
<1>9. Apart(w, ChainsOf(w, G))
  <2> HIDE DEF G, C
  <2>1. Apart(w, C)
    BY DEF Inv, C
  <2>2. Apart(w, C \cup {<< <<h>>, 0>>})
    BY ONLY <2>1, ApartZero
  <2> QED
    BY ONLY <2>2, <1>8
<1> HIDE DEF G
<1>10. Inv(w, G)
  BY <1>5, <1>9 DEF Inv
<1> QED
  BY <1>10 DEF G, f

(* The entry that f_open finds or makes, and the volume it leaves.         *)
Registered(v, dcl, name, reg) ==
  LET found == Find(v, dcl, name) IN
  reg = IF found = NoSlot THEN Alloc(v, dcl) ELSE [v |-> v, slot |-> found]

Cut(v, dcl, name, reg, w) ==
  LET found == Find(v, dcl, name)
      old   == IF found = NoSlot THEN 0 ELSE At(v, found).clust
      cut   == Put(reg.v, reg.slot, BlankFile(name))
  IN  w = IF old = 0 THEN cut ELSE [RemoveChain(cut, old) EXCEPT !.last = old - 1]

(* Whichever way f_open comes by the entry.                                *)
LEMMA CutKeeps ==
  ASSUME NEW v, NEW F, Inv(v, F), NEW p \in Paths, NEW d \in LiveDirs(v), At(v, d).name = p[1],
         \A h \in Handles : Matters(F[h]) => F[h].path # p,
         NEW reg, Registered(v, At(v, d).clust, p[2], reg), reg.slot # NoSlot,
         NEW w, Cut(v, At(v, d).clust, p[2], reg, w)
  PROVE  /\ Inv(w, F) /\ InDir(w, p, reg.slot) /\ At(w, reg.slot) = BlankFile(p[2])
         /\ Changed(v, w, F, reg.slot)
<1> DEFINE c == At(v, d).clust
           found == Find(v, c, p[2])
           s == reg.slot
<1>1. Tree(v) /\ Volume(v) /\ Directory(v, c)
  <2>1. Tree(v) /\ Volume(v)
    BY InvFacts
  <2> QED
    BY <2>1, DirFacts
<1>2. CASE found # NoSlot
  <2>1. reg = [v |-> v, slot |-> found]
    BY <1>2 DEF Registered
  <2>2. s = found /\ reg.v = v
    BY <2>1
  <2>3. s \in FilesIn(v, c) /\ At(v, s).name = p[2]
    BY <1>1, <1>2, <2>2, FileFound
  <2>4. Emptied(v, s, p[2], w)
    BY <1>2, <2>2 DEF Cut, Emptied
  <2> HIDE DEF s
  <2>5. s \in FilesIn(v, At(v, d).clust)
    BY <2>3
  <2> HIDE DEF c, found
  <2>6. Inv(w, F) /\ InDir(w, p, s) /\ At(w, s) = BlankFile(p[2]) /\ Changed(v, w, F, s)
    BY <2>3, <2>4, <2>5, OpenFound
  <2> QED
    BY <2>6 DEF s
<1>3. CASE found = NoSlot
  <2>1. reg = Alloc(v, c)
    BY <1>3 DEF Registered
  <2>2. w = Put(reg.v, reg.slot, BlankFile(p[2]))
    BY <1>3 DEF Cut
  <2> HIDE DEF c, found, s
  <2>3. \/ reg.v = v /\ ~IsEntry(At(v, reg.slot)) /\ \E k : Placed(v, c, k, reg.slot)
        \/ Grown(v, c, reg)
    BY <1>1, <2>1, AllocIs
  <2>4. CASE reg.v = v /\ ~IsEntry(At(v, reg.slot)) /\ \E k : Placed(v, c, k, reg.slot)
    <3>1. PICK k : Placed(v, At(v, d).clust, k, s)
      BY <2>4 DEF c, s
    <3>2. w = Put(v, s, BlankFile(p[2])) /\ ~IsEntry(At(v, s))
      BY <2>2, <2>4 DEF s
    <3>3. Inv(w, F) /\ InDir(w, p, s) /\ At(w, s) = BlankFile(p[2]) /\ Changed(v, w, F, s)
      BY ONLY <3>1, <3>2, Inv(v, F), p \in Paths, d \in LiveDirs(v), At(v, d).name = p[1], OpenBlank
    <3> QED
      BY <3>3 DEF s
  <2>5. CASE Grown(v, c, reg)
    <3>1. Grown(v, At(v, d).clust, reg)
      BY <2>5 DEF c
    <3> QED
      BY ONLY <3>1, <2>2, Inv(v, F), p \in Paths, d \in LiveDirs(v), At(v, d).name = p[1], OpenGrown
  <2> QED
    BY <2>3, <2>4, <2>5
<1> QED
  BY <1>2, <1>3

(* f_open for writing keeps the invariant: readers of the path are stale   *)
(* from now on, there is a blank entry, and the writer has no chain        *)
(* (ff.cpp:2283-2406).                                                     *)
LEMMA OpenWriteKeeps ==
  ASSUME Inv(vol, fp), made \in 0 .. MaxMade, NEW h \in Handles, NEW p \in Paths, OpenWrite(h, p)
  PROVE  Inv(vol', fp') /\ made' \in 0 .. MaxMade
<1> DEFINE F == Disturbed(fp, p)
           d == Find(vol, 0, p[1])
           c == At(vol, d).clust
           found == Find(vol, c, p[2])
           reg   == IF found = NoSlot THEN Alloc(vol, c) ELSE [v |-> vol, slot |-> found]
           old   == IF found = NoSlot THEN 0 ELSE At(vol, found).clust
           cut   == Put(reg.v, reg.slot, Entry(p[2], FALSE, 0, 0))
<1>1. /\ fp[h].mode = "closed" /\ made < MaxMade /\ made' = made + 1 /\ Unshared(p)
      /\ d # NoSlot /\ reg.slot # NoSlot
      /\ vol' = IF old = 0 THEN cut ELSE [RemoveChain(cut, old) EXCEPT !.last = old - 1]
      /\ fp' = [Disturb(p) EXCEPT ![h] =
                  [Closed EXCEPT !.mode = "write", !.slot = reg.slot, !.path = p, !.ver = made + 1]]
  BY DEF OpenWrite
<1>2. Disturb(p) = F
  BY DEF Disturb, Disturbed, Readers
<1>3. d \in LiveDirs(vol) /\ At(vol, d).name = p[1]
  BY <1>1, DirFound
<1>4. Registered(vol, At(vol, d).clust, p[2], reg)
  BY DEF Registered
<1>5. Cut(vol, At(vol, d).clust, p[2], reg, vol')
  BY <1>1 DEF Cut, BlankFile
<1> HIDE DEF F, reg
<1>6. /\ Inv(vol, F) /\ F = [k \in Handles |-> F[k]]
      /\ \A k \in Handles : /\ F[k].mode = fp[k].mode /\ F[k].path = fp[k].path
                            /\ F[k].mode = "read" /\ F[k].path = p => F[k].stale
  BY DisturbKeeps DEF F
<1>7. \A k \in Handles : F[k].mode = "write" => F[k].path # p
  BY <1>1, <1>6 DEF Unshared, Writers
<1>8. \A k \in Handles : Matters(F[k]) => F[k].path # p
  BY <1>6, <1>7 DEF Matters
<1> HIDE DEF d, c, found, old, cut
<1>9. Inv(vol', F) /\ InDir(vol', p, reg.slot) /\ At(vol', reg.slot) = BlankFile(p[2])
  <2>1. reg.slot # NoSlot /\ Inv(vol, F)
    BY <1>1, <1>6
  <2> QED
    BY ONLY <2>1, <1>3, <1>4, <1>5, <1>8, p \in Paths, CutKeeps
<1>10. made + 1 \in 0 .. MaxMade
  BY <1>1, Constants
<1>11. F[h].mode = "closed"
  BY <1>1, <1>6
<1> DEFINE s == reg.slot
           n == made + 1
<1>12. fp' = [F EXCEPT ![h] = [Closed EXCEPT !.mode = "write", !.slot = s, !.path = p, !.ver = n]]
  BY <1>1, <1>2
<1>13. Inv(vol', F) /\ InDir(vol', p, s) /\ At(vol', s) = BlankFile(p[2]) /\ n \in 0 .. MaxMade
  BY <1>9, <1>10
<1> HIDE DEF s, n
<1>14. Inv(vol', [F EXCEPT ![h] = [Closed EXCEPT !.mode = "write", !.slot = s, !.path = p, !.ver = n]])
  BY ONLY <1>7, <1>11, <1>13, h \in Handles, p \in Paths, HandleOpened
<1> QED
  BY <1>1, <1>10, <1>12, <1>14

(* How many units a pass moves: one or more, not across the sector's end.  *)
LEMMA PassIs ==
  ASSUME NEW f, f.fptr \in Nat, NEW left \in Nat \ {0}
  PROVE  /\ Pass(f, left) \in 1 .. left /\ Pass(f, left) <= SS - (f.fptr % SS)
         /\ f.fptr % SS \in 0 .. SS - 1
<1>1. f.fptr % SS \in 0 .. SS - 1
  <2>1. SS \in Nat \ {0}
    BY Constants
  <2> QED
    BY <2>1, DivMod
<1> DEFINE room == SS - (f.fptr % SS)
<1>2. room \in Nat \ {0}
  BY <1>1, Constants
<1> HIDE DEF room
<1>3. /\ Min({left, room}) \in {left, room} /\ Min({left, room}) <= left
      /\ Min({left, room}) <= room /\ Min({left, room}) \in Nat
  BY <1>2, MinOfTwo
<1>4. Pass(f, left) = Min({left, room})
  BY DEF Pass, room
<1> QED
  BY <1>1, <1>2, <1>3, <1>4 DEF room

(* Who stands inside a sector of his chain has all of it.                  *)
LEMMA RoomInSector ==
  ASSUME NEW x \in Nat, NEW L \in Nat, x <= L * SS, x % SS # 0, NEW m \in Nat, m <= SS - (x % SS)
  PROVE  x + m <= L * SS /\ x # 0 /\ L # 0
<1> DEFINE q == x \div SS
           r == x % SS
<1>0. SS \in Nat \ {0}
  BY Constants
<1>1. x = SS * q + r /\ r \in 0 .. SS - 1 /\ q \in Nat
  BY <1>0, DivMod
<1>2. r \in 1 .. SS - 1
  BY <1>1
<1> HIDE DEF q, r
<1>3. L * SS = SS * L /\ SS * L \in Nat
  BY <1>0
<1>4. SS * q + (r - 1) < SS * L
  <2> DEFINE y == SS * q
             z == SS * L
  <2>1. y \in Nat /\ z \in Nat
    BY <1>0, <1>1
  <2>2. y + r <= z
    BY <1>1, <1>3
  <2> HIDE DEF y, z
  <2>3. y + (r - 1) < z
    BY <1>2, <2>1, <2>2
  <2> QED
    BY <2>3 DEF y, z
<1>5. r - 1 \in 0 .. SS - 1 /\ SS - 1 \in 0 .. SS - 1
  BY <1>0, <1>2
<1>6. q < L
  BY ONLY <1>0, <1>1, <1>4, <1>5, L \in Nat, RowBelow
<1>7. SS * q + (SS - 1) < SS * L
  BY ONLY <1>0, <1>1, <1>5, <1>6, L \in Nat, RowBelow
<1>8. x # 0 /\ m <= SS - r
  <2>1. m <= SS - r
    BY DEF r
  <2>2. x # 0
    <3>1. SS * q \in Nat
      BY <1>0, <1>1
    <3> QED
      BY <3>1, <1>1, <1>2
  <2> QED
    BY <2>1, <2>2
<1>9. x + m <= SS * L
  <2> DEFINE y == SS * q
             z == SS * L
  <2>1. y \in Nat /\ z \in Nat /\ x = y + r /\ y + (SS - 1) < z
    BY <1>0, <1>1, <1>3, <1>7
  <2> HIDE DEF y, z
  <2>2. x + m <= z
    BY <1>0, <1>2, <1>8, <2>1
  <2> QED
    BY <2>2 DEF z
<1>10. x + m <= L * SS
  BY ONLY <1>3, <1>9
<1>11. L # 0
  BY ONLY <1>1, <1>6, L \in Nat
<1> QED
  BY ONLY <1>8, <1>10, <1>11

(* The dirty sector goes to the disk.                                      *)
LEMMA FlushOn ==
  ASSUME NEW u, NEW D, Tree(u), Apart(u, D), DirsIn(u, D), NEW o \in D,
         \A d \in LiveDirs(u) : o # <<d, At(u, d).clust>>,
         NEW f, f.dirty => f.dsect \in ClustersOf(u, o[2])
  PROVE  Tree(Flush(u, f)) /\ Same(u, Flush(u, f)) /\ Flush(u, f).fat = u.fat
<1>1. CASE ~f.dirty
  BY <1>1 DEF Flush, Same
<1>2. CASE f.dirty
  <2>1. f.dsect \in Clusters /\ \A d \in LiveDirs(u) : f.dsect \notin ClustersOf(u, At(u, d).clust)
    BY <1>2, NotOfDir
  <2>2. Flush(u, f) = [u EXCEPT !.disk[f.dsect] = f.buf]
    BY <1>2 DEF Flush
  <2> DEFINE c == f.dsect
             b == f.buf
             w == Flush(u, f)
  <2>3. c \in Clusters /\ \A d \in LiveDirs(u) : c \notin ClustersOf(u, At(u, d).clust)
    BY <2>1
  <2>4. w = [u EXCEPT !.disk[c] = b]
    BY <2>2
  <2> HIDE DEF c, b, w
  <2>5. Tree(w) /\ Same(u, w) /\ w.fat = u.fat
    BY ONLY <2>3, <2>4, Tree(u), TreeSector
  <2> QED
    BY <2>5 DEF w
<1> QED
  BY <1>1, <1>2

-----------------------------------------------------------------------------
(* A writer moves on: its chain may grow, nobody else's changes.           *)
LEMMA WriterMoves ==
  ASSUME NEW v, NEW F, Inv(v, F), NEW h \in Handles, F[h].mode = "write",
         NEW w, Tree(w), Same(v, w),
         \A o \in ChainsOf(v, F) : o[1] # <<h>> => Chain(w, o[2]) = Chain(v, o[2]),
         NEW g, Handled(w, g), g.mode = "write", g.path = F[h].path,
         Apart(w, (ChainsOf(v, F) \ {<< <<h>>, F[h].sclust>>}) \cup {<< <<h>>, g.sclust>>})
  PROVE  Inv(w, [F EXCEPT ![h] = g])
<1> DEFINE G == [F EXCEPT ![h] = g]
           C == ChainsOf(v, F)
           o == << <<h>>, F[h].sclust>>
           p == << <<h>>, g.sclust>>
<1>1. Opened(v, F) /\ F = [k \in Handles |-> F[k]] /\ Tree(v)
  BY DEF Inv, Opened
<1>2. Changed(v, w, F, <<h>>)
  BY DEF Changed, Same
<1>3. \A k, a, b : <<k>> # <<a, b>>
  OBVIOUS
<1>4. <<h>> \notin LiveFiles(w)
  BY <1>3, LiveFacts
<1>5. Fits(w)
  BY ONLY <1>2, <1>4, Inv(v, F), FitsKept
<1>6. ASSUME NEW k \in Handles, k # h PROVE Handled(w, F[k])
  <2>1. Matters(F[k]) => F[k].slot # <<h>>
    BY HandleOwns
  <2>2. <<k>> # <<h>>
    BY <1>6
  <2> QED
    BY ONLY <1>2, <2>1, <2>2, Inv(v, F), k \in Handles, HandleKept
<1>7. Opened(w, G)
  <2>1. \A h1, h2 \in Handles : F[h1].mode = "write" /\ F[h2].mode = "write" /\ h1 # h2
                           => F[h1].path # F[h2].path
    BY <1>1 DEF Opened
  <2>2. \A k \in Handles : k # h /\ F[k].mode = "write" /\ g.mode = "write" => F[k].path # g.path
    BY <2>1
  <2> QED
    BY ONLY <1>1, <1>6, <2>1, <2>2, h \in Handles, Handled(w, g), Swap
<1>8. Held(G) = (Held(F) \ {o}) \cup {p}
  BY <1>1, HeldSwap
<1> HIDE DEF G
<1>9. ChainsOf(w, G) = (C \ {o}) \cup {p}
  <2>1. Owned(w) = Owned(v)
    BY OwnedSame
  <2>2. o \notin Owned(v)
    <3>1. \A x \in LiveDirs(v) \cup LiveFiles(v) : x = <<x[1], x[2]>>
      BY <1>1, DirFacts, LiveFacts
    <3>2. \A x \in LiveDirs(v) \cup LiveFiles(v) : x # <<h>>
      BY <3>1, <1>3
    <3> QED
      BY <3>2 DEF Owned
  <2>3. C = Owned(v) \cup Held(F)
    BY ChainsAre
  <2>4. ChainsOf(w, G) = Owned(w) \cup Held(G)
    BY ChainsAre
  <2> HIDE DEF o, p, C
  <2> QED
    BY ONLY <2>1, <2>2, <2>3, <2>4, <1>8
<1>10. Apart(w, ChainsOf(w, G))
  BY <1>9
<1> HIDE DEF C, o, p
<1>11. Inv(w, G)
  BY ONLY <1>5, <1>7, <1>10, Tree(w) DEF Inv
<1> QED
  BY <1>11 DEF G

(* The chain of a writer has got one more cluster.                         *)
Lengthened(v, F, h, u, n, c) ==
  LET C == ChainsOf(v, F) IN
  /\ n \in Clusters /\ c \in Clusters
  /\ Tree(u) /\ Same(v, u)
  /\ Apart(u, (C \ {<< <<h>>, F[h].sclust>>}) \cup {<< <<h>>, c>>})
  /\ Chain(u, c) = Append(Chain(v, F[h].sclust), n)
  /\ \A o \in C : o[1] # <<h>> => Chain(u, o[2]) = Chain(v, o[2])

(* The first cluster of a writer begins its chain.                         *)
LEMMA FirstCluster ==
  ASSUME NEW v, NEW F, Inv(v, F), NEW h \in Handles, F[h].mode = "write", F[h].sclust = 0,
         NEW r, Taken(v, 0, r)
  PROVE  Lengthened(v, F, h, r.v, r.cl, r.cl)
<1> DEFINE C == ChainsOf(v, F)
           o == << <<h>>, 0>>
           D == C \ {o}
           n == r.cl
           x == <<h>>
<1>1. Tree(v) /\ Apart(v, C) /\ DirsIn(v, C) /\ \A d \in LiveDirs(v) : \A a, b : << <<h>>, a>> # <<d, b>>
  BY InvFacts
<1>2. DirsIn(v, D)
  BY <1>1 DEF DirsIn
<1>3. n \in Clusters
  BY DEF Taken
<1> HIDE DEF C
<1>4. Apart(v, D)
  BY ONLY <1>1, ApartZero
<1> HIDE DEF D, o
<1>5. /\ Tree(r.v) /\ Same(v, r.v) /\ Apart(r.v, D \cup {<<x, n>>})
      /\ Chain(r.v, n) = <<n>>
      /\ \A q \in D : Chain(r.v, q[2]) = Chain(v, q[2]) /\ n \notin ClustersOf(v, q[2])
  BY ONLY <1>1, <1>2, <1>4, Taken(v, 0, r), TreeBegin
<1>6. Chain(v, 0) = <<>>
  BY EmptyChain, Constants
<1>7. Chain(r.v, n) = Append(Chain(v, F[h].sclust), n)
  BY <1>5, <1>6
<1>8. \A q \in C : q[1] # x => Chain(r.v, q[2]) = Chain(v, q[2])
  BY <1>5 DEF D, o
<1>9. Apart(r.v, (C \ {<< <<h>>, F[h].sclust>>}) \cup {<< <<h>>, n>>})
  BY <1>5 DEF D, o
<1> HIDE DEF n, x
<1> QED
  BY <1>3, <1>5, <1>7, <1>8, <1>9 DEF Lengthened, C, n, x

(* The next one follows the last cluster of the chain, where the writer    *)
(* stands.                                                                 *)
LEMMA NextCluster ==
  ASSUME NEW v, NEW F, Inv(v, F), NEW h \in Handles, F[h].mode = "write", F[h].sclust # 0,
         NEW r, Taken(v, F[h].clust, r)
  PROVE  Lengthened(v, F, h, r.v, r.cl, F[h].sclust)
<1> DEFINE C == ChainsOf(v, F)
           c == F[h].sclust
           o == << <<h>>, c>>
           n == r.cl
           l == F[h].clust
<1>1. /\ Tree(v) /\ Apart(v, C) /\ DirsIn(v, C)
      /\ \A d \in LiveDirs(v) : o # <<d, At(v, d).clust>>
  BY InvFacts
<1>2. o \in C /\ o[1] = <<h>> /\ o[2] = c /\ o[2] # 0
  BY DEF ChainsOf
<1>3. n \in Clusters
  BY DEF Taken
<1>4. c \in Clusters /\ l = Chain(v, c)[Len(Chain(v, c))]
  BY DEF Inv, Opened, Handled, Fil, Writing
<1> HIDE DEF C, o, c, l
<1>5. /\ Tree(r.v) /\ Same(v, r.v) /\ Apart(r.v, C)
      /\ Chain(r.v, o[2]) = Append(Chain(v, o[2]), r.cl)
      /\ \A q \in C \ {o} : Chain(r.v, q[2]) = Chain(v, q[2])
  <2>1. l = Chain(v, o[2])[Len(Chain(v, o[2]))] /\ Taken(v, l, r)
    BY <1>2, <1>4 DEF l
  <2> QED
    BY ONLY <1>1, <1>2, <2>1, TreeNext
<1>6. Apart(r.v, (C \ {o}) \cup {o})
  <2>1. (C \ {o}) \cup {o} = C
    BY <1>2
  <2> QED
    BY <2>1, <1>5
<1>7. \A q \in C : q[1] # <<h>> => Chain(r.v, q[2]) = Chain(v, q[2])
  BY <1>2, <1>5
<1>8. Chain(r.v, c) = Append(Chain(v, c), n)
  BY <1>2, <1>5
<1> HIDE DEF n
<1> QED
  BY <1>3, <1>4, <1>5, <1>6, <1>7, <1>8 DEF Lengthened, C, o, c, n

(* What a pass of the loop of f_write leaves of a file object.             *)
Kin(f, g) ==
  /\ g = [mode |-> g.mode, slot |-> g.slot, sclust |-> g.sclust, clust |-> g.clust,
          fptr |-> g.fptr, fsize |-> g.fsize, buf |-> g.buf, dsect |-> g.dsect,
          dirty |-> g.dirty, error |-> g.error, path |-> g.path, ver |-> g.ver,
          fed |-> g.fed, seen |-> g.seen, stale |-> g.stale]
  /\ g.mode = f.mode /\ g.slot = f.slot /\ g.path = f.path /\ g.ver = f.ver /\ g.fed = f.fed
  /\ g.fsize = f.fsize /\ g.stale = f.stale /\ g.error = f.error /\ g.seen = f.seen

(* What a writer has to have for the invariant after it has moved.         *)
LEMMA MovedWriter ==
  ASSUME NEW v, NEW w, Tree(v), NEW f, Handled(v, f), f.mode = "write", Same(v, w),
         NEW g, Kin(f, g), g.sclust \in Clusters, g.clust \in Clusters, g.dirty \in BOOLEAN,
         g.dsect \in Clusters \cup {0}, g.fptr \in f.fptr .. MaxUnits, g.fptr > 0,
         g.fptr <= Len(Chain(w, g.sclust)) * SS,
         g.clust = Chain(w, g.sclust)[Len(Chain(w, g.sclust))],
         g.dirty \/ g.fptr % SS # 0 => g.dsect \in ClustersOf(w, g.sclust)
  PROVE  Handled(w, g) /\ g.mode = "write" /\ g.path = f.path
<1>1. Fil(f) /\ Writing(v, f)
  BY DEF Handled
<1>2. f.slot \in LiveFiles(v)
  BY <1>1, LiveFacts DEF Writing
<1>3. InDir(w, f.path, f.slot) /\ At(w, f.slot) = At(v, f.slot)
  BY <1>1, <1>2 DEF Same, Writing
<1>4. /\ g.mode = "write" /\ g.slot = f.slot /\ g.path = f.path /\ g.ver = f.ver /\ g.fed = f.fed
      /\ g.fsize = f.fsize /\ g.stale = f.stale /\ g.error = f.error
  BY DEF Kin
<1>5. Fil(g)
  <2>1. g = [mode |-> g.mode, slot |-> g.slot, sclust |-> g.sclust, clust |-> g.clust,
          fptr |-> g.fptr, fsize |-> g.fsize, buf |-> g.buf, dsect |-> g.dsect,
          dirty |-> g.dirty, error |-> g.error, path |-> g.path, ver |-> g.ver,
          fed |-> g.fed, seen |-> g.seen, stale |-> g.stale]
    BY DEF Kin
  <2>2. /\ f.slot \in {NoSlot} \cup ((Clusters \cup {0}) \X Nat)
        /\ f.fptr \in 0 .. MaxUnits /\ f.fsize \in 0 .. MaxUnits
        /\ f.error \in BOOLEAN /\ f.path \in {<<>>} \cup Paths
        /\ f.ver \in 0 .. MaxMade /\ f.fed \in 0 .. MaxUnits /\ f.stale \in BOOLEAN
    BY <1>1 DEF Fil
  <2>3. g.fptr \in 0 .. MaxUnits
    BY <2>2, Constants
  <2> QED
    BY <1>4, <2>1, <2>2, <2>3 DEF Fil
<1>6. Writing(w, g)
  <2>1. /\ f.path \in Paths /\ At(v, f.slot).clust = 0 /\ At(v, f.slot).size = 0
        /\ ~f.error /\ f.fsize <= f.fptr
    BY <1>1 DEF Writing
  <2>2. f.fsize <= g.fptr
    <3>1. f.fsize \in Nat /\ f.fptr \in Nat
      BY <1>1 DEF Fil
    <3> QED
      BY <2>1, <3>1, Constants
  <2>3. /\ g.path \in Paths /\ InDir(w, g.path, g.slot)
        /\ At(w, g.slot).clust = 0 /\ At(w, g.slot).size = 0
        /\ ~g.error /\ g.fsize <= g.fptr
    BY ONLY <1>3, <1>4, <2>1, <2>2
  <2> QED
    BY <2>3 DEF Writing
<1> QED
  BY <1>4, <1>5, <1>6 DEF Handled

(* A pass of f_write that begins a sector.                                 *)
LEMMA EdgeDone ==
  ASSUME NEW v, NEW F, Inv(v, F), NEW h \in Handles, F[h].mode = "write",
         NEW u, NEW n, NEW c, Lengthened(v, F, h, u, n, c),
         NEW w, Tree(w), Same(u, w), w.fat = u.fat,
         NEW g, Kin(F[h], g), g.sclust = c, g.clust = n, g.dirty \in BOOLEAN,
         g.dsect \in Clusters \cup {0}, g.dirty \/ g.fptr % SS # 0 => g.dsect = n,
         NEW len \in 1 .. SS, g.fptr = F[h].fptr + len, g.fptr <= MaxUnits
  PROVE  Inv(w, [F EXCEPT ![h] = g])
<1> DEFINE f == F[h]
           C == ChainsOf(v, F)
           D == (C \ {<< <<h>>, f.sclust>>}) \cup {<< <<h>>, c>>}
<1>1. /\ n \in Clusters /\ c \in Clusters /\ Same(v, u) /\ Apart(u, D)
      /\ Chain(u, c) = Append(Chain(v, f.sclust), n)
      /\ \A o \in C : o[1] # <<h>> => Chain(u, o[2]) = Chain(v, o[2])
  BY DEF Lengthened
<1>2. Handled(v, f) /\ Fil(f) /\ Writing(v, f) /\ Tree(v)
  BY DEF Inv, Opened, Handled
<1>3. Same(v, w) /\ \A x : Chain(w, x) = Chain(u, x)
  <2>1. \A x : Chain(w, x) = Chain(u, x)
    BY ChainByTable
  <2> QED
    BY <1>1, <2>1, SameSame
<1> HIDE DEF f, C, D
<1>4. /\ Chain(v, f.sclust) \in Seq(Clusters) /\ Len(Chain(v, f.sclust)) \in Nat
      /\ Chain(w, c) = Append(Chain(v, f.sclust), n)
  BY <1>1, <1>3, ChainShape, Constants
<1>5. /\ Len(Chain(w, c)) = Len(Chain(v, f.sclust)) + 1 /\ Chain(w, c)[Len(Chain(w, c))] = n
  BY ONLY <1>1, <1>4
<1>6. f.fptr \in 0 .. MaxUnits /\ f.fptr <= Len(Chain(v, f.sclust)) * SS
  BY <1>2 DEF Fil, Writing
<1>7. g.fptr \in f.fptr .. MaxUnits /\ g.fptr > 0
  BY <1>6, Constants DEF f
<1>8. g.fptr <= Len(Chain(w, c)) * SS
  <2> DEFINE L == Len(Chain(v, f.sclust))
             x == L * SS
  <2>1. x \in Nat /\ (L + 1) * SS = x + SS
    BY <1>4, Constants
  <2>2. f.fptr <= x /\ g.fptr = f.fptr + len /\ Len(Chain(w, c)) = L + 1
    BY <1>5, <1>6 DEF f
  <2> HIDE DEF x, L
  <2>3. g.fptr <= x + SS
    BY <1>6, <2>1, <2>2, Constants
  <2> QED
    BY <2>1, <2>2, <2>3
<1>9. n \in ClustersOf(w, c)
  <2>1. ClustersOf(w, c) = {Chain(w, c)[k] : k \in 1 .. Len(Chain(w, c))}
    BY ClustersIn
  <2>2. Len(Chain(w, c)) \in 1 .. Len(Chain(w, c))
    BY <1>4, <1>5
  <2> QED
    BY <1>5, <2>1, <2>2
<1>10. Handled(w, g) /\ g.mode = "write" /\ g.path = f.path
  <2>1. Kin(f, g) /\ f.mode = "write"
    BY DEF f
  <2>2. /\ g.sclust \in Clusters /\ g.clust \in Clusters
        /\ g.fptr <= Len(Chain(w, g.sclust)) * SS
        /\ g.clust = Chain(w, g.sclust)[Len(Chain(w, g.sclust))]
        /\ (g.dirty \/ g.fptr % SS # 0 => g.dsect \in ClustersOf(w, g.sclust))
    BY <1>1, <1>5, <1>8, <1>9
  <2> QED
    BY ONLY <1>2, <1>3, <1>7, <2>1, <2>2, g.dirty \in BOOLEAN, g.dsect \in Clusters \cup {0}, MovedWriter
<1>11. Apart(w, (ChainsOf(v, F) \ {<< <<h>>, F[h].sclust>>}) \cup {<< <<h>>, g.sclust>>})
  <2>1. Apart(w, D)
    BY <1>1, ApartSame
  <2> QED
    BY <2>1 DEF D, C, f
<1>12. \A o \in ChainsOf(v, F) : o[1] # <<h>> => Chain(w, o[2]) = Chain(v, o[2])
  BY <1>1, <1>3 DEF C
<1>13. g.path = F[h].path
  BY <1>10 DEF f
<1> QED
  BY ONLY <1>3, <1>10, <1>11, <1>12, <1>13, Inv(v, F), h \in Handles, F[h].mode = "write", Tree(w), WriterMoves

(* Where the next cluster of a writer comes from.                          *)
Following(v, f) ==
  CASE f.fptr = 0 /\ f.sclust # 0 -> [v |-> v, cl |-> f.sclust]
    [] f.fptr = 0 /\ f.sclust = 0 -> CreateChain(v, 0)
    [] OTHER                      -> CreateChain(v, f.clust)

(* Behind the edge of a cluster a writer gets a new cluster or none is     *)
(* free; that its last cluster is not in a chain never happens             *)
(* (ff.cpp:2544-2558).                                                     *)
LEMMA FollowingIs ==
  ASSUME NEW v, NEW F, Inv(v, F), NEW h \in Handles, F[h].mode = "write", F[h].fptr % SS = 0,
         NEW r, r = Following(v, F[h])
  PROVE  \/ NoneLeft(v, r)
         \/ /\ Lengthened(v, F, h, r.v, r.cl, IF F[h].fptr = 0 THEN r.cl ELSE F[h].sclust)
            /\ r.v.disk = v.disk /\ v.fat[r.cl] = 0
<1> DEFINE f == F[h]
           C == ChainsOf(v, F)
<1>1. Handled(v, f) /\ Fil(f) /\ Writing(v, f) /\ Tree(v) /\ Volume(v) /\ Apart(v, C)
  BY InvFacts DEF Inv, Opened, Handled
<1>2. /\ f.sclust \in Clusters \cup {0} /\ f.fptr \in Nat
      /\ f.fptr <= Len(Chain(v, f.sclust)) * SS
      /\ f.sclust # 0 => f.fptr > 0 /\ f.clust = Chain(v, f.sclust)[Len(Chain(v, f.sclust))]
  BY <1>1 DEF Fil, Writing
<1>3. CASE f.fptr = 0
  <2>1. f.sclust = 0
    BY <1>2, <1>3
  <2>2. r = CreateChain(v, 0)
    BY <1>3, <2>1 DEF Following
  <2>3. Taken(v, 0, r) \/ NoneLeft(v, r)
    BY <1>1, <2>2, CreateChainIs
  <2>4. Taken(v, 0, r) => /\ Lengthened(v, F, h, r.v, r.cl, r.cl)
                          /\ r.v.disk = v.disk /\ v.fat[r.cl] = 0
    BY <2>1, FirstCluster DEF Taken
  <2> QED
    BY <1>3, <2>3, <2>4
<1>4. CASE f.fptr # 0
  <2>1. r = CreateChain(v, f.clust)
    BY <1>4 DEF Following
  <2>2. f.sclust # 0
    <3>1. Chain(v, 0) = <<>>
      BY EmptyChain, Constants
    <3>2. Len(<<>>) * SS = 0
      BY Constants
    <3> QED
      BY <3>1, <3>2, <1>2, <1>4
  <2>3. f.clust \in Clusters /\ v.fat[f.clust] = EOC
    <3>1. Sound(v, f.sclust)
      <4>1. << <<h>>, f.sclust>> \in C
        BY DEF ChainsOf
      <4> QED
        BY <4>1, <1>1, <2>2 DEF Apart
    <3> HIDE DEF f
    <3>2. f.clust = Chain(v, f.sclust)[Len(Chain(v, f.sclust))]
      BY <1>2, <2>2
    <3>3. /\ Chain(v, f.sclust) \in Seq(Clusters) /\ Chain(v, f.sclust) # <<>>
          /\ v.fat[Chain(v, f.sclust)[Len(Chain(v, f.sclust))]] = EOC
      BY <3>1 DEF Sound, IsChain
    <3> QED
      BY <3>2, <3>3
  <2>4. Taken(v, f.clust, r) \/ NoneLeft(v, r)
    BY <1>1, <2>1, <2>3, CreateChainIs
  <2>6. Taken(v, f.clust, r) => r.v.disk = v.disk /\ v.fat[r.cl] = 0
    BY DEF Taken
  <2>5. Taken(v, f.clust, r) => Lengthened(v, F, h, r.v, r.cl, f.sclust)
    BY <2>2, NextCluster
  <2> QED
    BY <1>4, <2>4, <2>5, <2>6
<1> QED
  BY <1>3, <1>4

-----------------------------------------------------------------------------
(* The state of the loop of f_write.                                       *)
Accounted(st) == st = [v |-> st.v, f |-> st.f, done |-> st.done, left |-> st.left]

(* The next units that a pass is given.                                    *)
Units(st, len) == [i \in 1 .. len |-> Unit(st.f.ver, st.done + i)]

(* A pass that wrote len units.                                            *)
Advanced(st, t, len) ==
  /\ Accounted(t) /\ Kin(st.f, t.f)
  /\ t.left = st.left - len /\ t.done = st.done + len /\ t.f.fptr = st.f.fptr + len

(* A pass inside a sector, one that begins a sector, and one that cannot.  *)
Inside(st, t, len) ==
  /\ Advanced(st, t, len) /\ t.v = st.v /\ t.f.sclust = st.f.sclust /\ t.f.clust = st.f.clust
  /\ t.f.dirty = TRUE /\ t.f.dsect = st.f.dsect
  /\ t.f.buf = Patch(st.f.buf, st.f.fptr % SS, Units(st, len))

Begun(st, t, len, r) ==
  /\ Advanced(st, t, len)
  /\ t.f.sclust = (IF st.f.fptr = 0 THEN r.cl ELSE st.f.sclust) /\ t.f.clust = r.cl
  /\ \/ /\ len = SS /\ t.f.dirty = FALSE /\ t.f.dsect = st.f.dsect
        /\ t.v = [Flush(r.v, st.f) EXCEPT !.disk[r.cl] = Patch(NoUnits, 0, Units(st, len))]
     \/ /\ t.f.dirty = TRUE /\ t.f.dsect = r.cl /\ t.v = Flush(r.v, st.f)
        /\ t.f.buf = Patch(NoUnits, 0, Units(st, len))

Halted(st, t) ==
  Accounted(t) /\ t.v = st.v /\ t.f = st.f /\ t.done = st.done /\ t.left = 0

(* A pass of f_write, case by case (ff.cpp:2538-2622).                     *)
LEMMA WriteTurnIs ==
  ASSUME NEW st, Accounted(st), Fil(st.f), st.left # 0,
         NEW len, len = Pass(st.f, st.left), NEW r, r = Following(st.v, st.f),
         NEW t, t = WriteTurn(st)
  PROVE  /\ st.f.fptr % SS # 0 => Inside(st, t, len)
         /\ st.f.fptr % SS = 0 /\ r.cl = 0 => Halted(st, t)
         /\ st.f.fptr % SS = 0 /\ r.cl \notin {0, 1} => Begun(st, t, len, r)
<1> DEFINE f == st.f
           src == Units(st, len)
           here == [f EXCEPT !.clust = r.cl, !.dirty = FALSE,
                             !.sclust = IF f.fptr = 0 THEN r.cl ELSE @]
           v == Flush(r.v, f)
           went == [st EXCEPT !.done = @ + len, !.left = @ - len]
           buf1 == Patch(f.buf, f.fptr % SS, src)
           buf2 == Patch(NoUnits, 0, src)
<1>1. t = IF f.fptr % SS # 0 THEN
            [went EXCEPT !.f = [f EXCEPT !.buf = Patch(@, f.fptr % SS, src),
                                         !.dirty = TRUE, !.fptr = @ + len]]
        ELSE IF r.cl = 0 THEN [st EXCEPT !.left = 0]
        ELSE IF r.cl = 1 THEN [st EXCEPT !.left = 0, !.f.error = TRUE]
        ELSE IF len = SS THEN
            [went EXCEPT !.v = [v EXCEPT !.disk[r.cl] = Patch(NoUnits, 0, src)],
                         !.f = [here EXCEPT !.fptr = @ + len]]
        ELSE
            [went EXCEPT !.v = v,
                         !.f = [here EXCEPT !.buf = Patch(NoUnits, 0, src), !.dsect = r.cl,
                                            !.dirty = TRUE, !.fptr = @ + len]]
  BY DEF WriteTurn, Following, Units
<1>2. st = [v |-> st.v, f |-> f, done |-> st.done, left |-> st.left]
  BY DEF Accounted
<1>3. went = [v |-> st.v, f |-> f, done |-> st.done + len, left |-> st.left - len]
  <2>1. went = [st EXCEPT !.done = @ + len, !.left = @ - len]
    OBVIOUS
  <2> DEFINE a == st.v
             d == st.done
             l == st.left
  <2>2. st = [v |-> a, f |-> f, done |-> d, left |-> l]
    BY <1>2
  <2> HIDE DEF went, f, a, d, l
  <2>3. went = [v |-> a, f |-> f, done |-> d + len, left |-> l - len]
    BY ONLY <2>1, <2>2
  <2> QED
    BY <2>3 DEF a, d, l
<1>4. f = [mode |-> f.mode, slot |-> f.slot, sclust |-> f.sclust, clust |-> f.clust,
          fptr |-> f.fptr, fsize |-> f.fsize, buf |-> f.buf, dsect |-> f.dsect,
          dirty |-> f.dirty, error |-> f.error, path |-> f.path, ver |-> f.ver,
          fed |-> f.fed, seen |-> f.seen, stale |-> f.stale]
  BY DEF Fil
<1>5. here = [mode |-> f.mode, slot |-> f.slot, sclust |-> IF f.fptr = 0 THEN r.cl ELSE f.sclust, clust |-> r.cl,
          fptr |-> f.fptr, fsize |-> f.fsize, buf |-> f.buf, dsect |-> f.dsect,
          dirty |-> FALSE, error |-> f.error, path |-> f.path, ver |-> f.ver,
          fed |-> f.fed, seen |-> f.seen, stale |-> f.stale]
  <2>1. here = [f EXCEPT !.clust = r.cl, !.dirty = FALSE, !.sclust = IF f.fptr = 0 THEN r.cl ELSE @]
    OBVIOUS
  <2> HIDE DEF here, f
  <2> QED
    BY ONLY <1>4, <2>1
<1> DEFINE sec == [v EXCEPT !.disk[r.cl] = Patch(NoUnits, 0, src)]
<1>6. CASE f.fptr % SS # 0
  <2> DEFINE g == [f EXCEPT !.buf = Patch(@, f.fptr % SS, src), !.dirty = TRUE, !.fptr = @ + len]
  <2>1. t = [went EXCEPT !.f = g]
    BY <1>1, <1>6
  <2>2. g = [f EXCEPT !.buf = buf1, !.dirty = TRUE, !.fptr = @ + len]
    BY ONLY <1>4
  <2> HIDE DEF f, went, g, buf1
  <2>3. t = [v |-> st.v, f |-> g, done |-> st.done + len, left |-> st.left - len]
    BY ONLY <2>1, <1>3
  <2>4. g = [mode |-> f.mode, slot |-> f.slot, sclust |-> f.sclust, clust |-> f.clust,
          fptr |-> f.fptr + len, fsize |-> f.fsize, buf |-> buf1, dsect |-> f.dsect,
          dirty |-> TRUE, error |-> f.error, path |-> f.path, ver |-> f.ver,
          fed |-> f.fed, seen |-> f.seen, stale |-> f.stale]
    BY ONLY <2>2, <1>4
  <2>5. Accounted(t) /\ t.v = st.v /\ t.f = g /\ t.done = st.done + len /\ t.left = st.left - len
    BY ONLY <2>3 DEF Accounted
  <2>6. Kin(f, g) /\ g.sclust = f.sclust /\ g.clust = f.clust /\ g.dirty = TRUE
        /\ g.dsect = f.dsect /\ g.fptr = f.fptr + len /\ g.buf = buf1
    BY ONLY <2>4 DEF Kin
  <2>7. Inside(st, t, len)
    BY ONLY <2>5, <2>6 DEF Inside, Advanced, f, buf1
  <2> QED
    BY <2>7, <1>6 DEF f
<1>7. CASE f.fptr % SS = 0 /\ r.cl = 0
  <2>1. t = [st EXCEPT !.left = 0]
    BY <1>1, <1>7
  <2>2. t = [v |-> st.v, f |-> st.f, done |-> st.done, left |-> 0]
    BY ONLY <2>1, <1>2
  <2>3. Halted(st, t)
    BY ONLY <2>2 DEF Halted, Accounted
  <2> QED
    BY <2>3, <1>7
<1>8. CASE f.fptr % SS = 0 /\ r.cl \notin {0, 1} /\ len = SS
  <2> DEFINE g == [here EXCEPT !.fptr = @ + len]
  <2>1. t = [went EXCEPT !.v = sec, !.f = g] /\ g = [here EXCEPT !.fptr = @ + len]
    BY <1>1, <1>8
  <2> HIDE DEF f, went, g, here, sec
  <2>3. t = [v |-> sec, f |-> g, done |-> st.done + len, left |-> st.left - len]
    BY ONLY <2>1, <1>3
  <2>4. g = [mode |-> f.mode, slot |-> f.slot, sclust |-> IF f.fptr = 0 THEN r.cl ELSE f.sclust, clust |-> r.cl,
          fptr |-> f.fptr + len, fsize |-> f.fsize, buf |-> f.buf, dsect |-> f.dsect,
          dirty |-> FALSE, error |-> f.error, path |-> f.path, ver |-> f.ver,
          fed |-> f.fed, seen |-> f.seen, stale |-> f.stale]
    BY ONLY <1>5, <2>1
  <2>5. Accounted(t) /\ t.v = sec /\ t.f = g /\ t.done = st.done + len /\ t.left = st.left - len
    BY ONLY <2>3 DEF Accounted
  <2>6. /\ Kin(f, g) /\ g.sclust = (IF f.fptr = 0 THEN r.cl ELSE f.sclust) /\ g.clust = r.cl
        /\ g.dirty = FALSE /\ g.dsect = f.dsect /\ g.fptr = f.fptr + len
    BY ONLY <2>4 DEF Kin
  <2>7. Begun(st, t, len, r)
    BY ONLY <2>5, <2>6, <1>8 DEF Begun, Advanced, f, sec
  <2> QED
    BY <2>7, <1>8 DEF f
<1>9. CASE f.fptr % SS = 0 /\ r.cl \notin {0, 1} /\ len # SS
  <2> DEFINE g == [here EXCEPT !.buf = buf2, !.dsect = r.cl, !.dirty = TRUE, !.fptr = @ + len]
  <2>1. /\ t = [went EXCEPT !.v = v, !.f = g]
        /\ g = [here EXCEPT !.buf = buf2, !.dsect = r.cl, !.dirty = TRUE, !.fptr = @ + len]
    BY <1>1, <1>9
  <2> HIDE DEF f, went, g, here, v, buf2
  <2>3. t = [v |-> v, f |-> g, done |-> st.done + len, left |-> st.left - len]
    BY ONLY <2>1, <1>3
  <2>4. g = [mode |-> f.mode, slot |-> f.slot, sclust |-> IF f.fptr = 0 THEN r.cl ELSE f.sclust, clust |-> r.cl,
          fptr |-> f.fptr + len, fsize |-> f.fsize, buf |-> buf2, dsect |-> r.cl,
          dirty |-> TRUE, error |-> f.error, path |-> f.path, ver |-> f.ver,
          fed |-> f.fed, seen |-> f.seen, stale |-> f.stale]
    BY ONLY <1>5, <2>1
  <2>5. Accounted(t) /\ t.v = v /\ t.f = g /\ t.done = st.done + len /\ t.left = st.left - len
    BY ONLY <2>3 DEF Accounted
  <2>6. /\ Kin(f, g) /\ g.sclust = (IF f.fptr = 0 THEN r.cl ELSE f.sclust) /\ g.clust = r.cl
        /\ g.dirty = TRUE /\ g.dsect = r.cl /\ g.fptr = f.fptr + len /\ g.buf = buf2
    BY ONLY <2>4 DEF Kin
  <2>7. Begun(st, t, len, r)
    BY ONLY <2>5, <2>6 DEF Begun, Advanced, f, v, buf2
  <2> QED
    BY <2>7, <1>9 DEF f
<1> QED
  BY <1>6, <1>7, <1>8, <1>9

(* A sector behind an edge is the next edge.                               *)
LEMMA EdgeNext ==
  ASSUME NEW x \in Nat, x % SS = 0
  PROVE  (x + SS) % SS = 0
<1> DEFINE q == x \div SS
           r == x % SS
           y == SS * q
<1>0. SS \in Nat \ {0}
  BY Constants
<1>1. x = SS * q + r /\ r \in 0 .. SS - 1 /\ q \in Nat
  BY <1>0, DivMod
<1>a. r = 0 /\ 0 \in 0 .. SS - 1
  BY <1>0
<1> HIDE DEF q, r
<1>2. x = y /\ SS * (q + 1) + 0 = y + SS /\ y \in Nat /\ q + 1 \in Nat
  <2>1. y \in Nat /\ SS * (q + 1) + 0 = y + SS /\ q + 1 \in Nat
    BY ONLY <1>0, <1>1
  <2>2. x = y + r
    BY <1>1
  <2> HIDE DEF y
  <2> QED
    BY ONLY <2>1, <2>2, <1>a
<1>3. (SS * (q + 1) + 0) % SS = 0
  BY ONLY <1>0, <1>a, <1>2, DivModIs
<1>4. SS * (q + 1) + 0 = x + SS
  BY <1>2
<1> QED
  BY ONLY <1>3, <1>4

(* The sectors that a pass writes are the writer's own.                    *)
SectorsKept(u, f, n, b) ==
  LET x == Flush(u, f)
      w == [x EXCEPT !.disk[n] = b]
  IN  /\ Tree(x) /\ Same(u, x) /\ x.fat = u.fat
      /\ Tree(w) /\ Same(u, w) /\ w.fat = u.fat

(* What f_write writes to the disk it writes into clusters of the file.    *)
LEMMA SectorsKeep ==
  ASSUME NEW v, NEW F, Inv(v, F), NEW h \in Handles, F[h].mode = "write",
         NEW u, NEW n, NEW c, Lengthened(v, F, h, u, n, c), NEW b
  PROVE  SectorsKept(u, F[h], n, b)
<1> DEFINE f == F[h]
           C == ChainsOf(v, F)
           p == << <<h>>, c>>
           D == (C \ {<< <<h>>, f.sclust>>}) \cup {p}
           x == Flush(u, f)
           w == [x EXCEPT !.disk[n] = b]
<1>1. /\ n \in Clusters /\ Tree(u) /\ Same(v, u) /\ Apart(u, D)
      /\ Chain(u, c) = Append(Chain(v, f.sclust), n)
  BY DEF Lengthened
<1>2. Writing(v, f) /\ f.mode = "write"
  BY DEF Inv, Opened, Handled
<1>3. DirsIn(v, C) /\ \A d \in LiveDirs(v) : \A a, e : << <<h>>, a>> # <<d, e>>
  BY InvFacts
<1>4. DirsIn(u, D) /\ \A d \in LiveDirs(u) : p # <<d, At(u, d).clust>>
  <2>1. LiveDirs(u) = LiveDirs(v) /\ \A d \in LiveDirs(v) : At(u, d) = At(v, d)
    BY <1>1 DEF Same
  <2>2. \A d \in LiveDirs(u) : p # <<d, At(u, d).clust>>
    BY <1>3, <2>1
  <2>3. \A d \in LiveDirs(u) : <<d, At(u, d).clust>> \in C /\ << <<h>>, f.sclust>> # <<d, At(u, d).clust>>
    BY <1>3, <2>1 DEF DirsIn
  <2> QED
    BY <2>2, <2>3 DEF DirsIn
<1>5. p \in D /\ p[2] = c
  OBVIOUS
<1> HIDE DEF f, C, p, D
<1>6. /\ Chain(v, f.sclust) \in Seq(Clusters)
      /\ ClustersOf(u, c) = {Chain(u, c)[k] : k \in 1 .. Len(Chain(u, c))}
      /\ ClustersOf(v, f.sclust) = {Chain(v, f.sclust)[k] : k \in 1 .. Len(Chain(v, f.sclust))}
  BY ChainShape, ClustersIn
<1>7. n \in ClustersOf(u, c) /\ ClustersOf(v, f.sclust) \subseteq ClustersOf(u, c)
  <2> DEFINE s == Chain(v, f.sclust)
             t == Chain(u, c)
  <2>1. s \in Seq(Clusters) /\ t = Append(s, n) /\ n \in Clusters
    BY <1>1, <1>6
  <2> HIDE DEF s, t
  <2>2. /\ t[Len(t)] = n /\ Len(t) \in 1 .. Len(t)
        /\ \A k \in 1 .. Len(s) : k \in 1 .. Len(t) /\ t[k] = s[k]
    BY ONLY <2>1
  <2> QED
    BY <1>6, <2>2 DEF s, t
<1>8. f.dirty => f.dsect \in ClustersOf(u, p[2])
  BY <1>2, <1>5, <1>7 DEF Writing
<1>9. Tree(x) /\ Same(u, x) /\ x.fat = u.fat
  BY ONLY <1>1, <1>4, <1>5, <1>8, FlushOn
<1>10. \A d \in LiveDirs(u) : n \notin ClustersOf(u, At(u, d).clust)
  <2>1. n \in ClustersOf(u, p[2])
    BY <1>5, <1>7
  <2> QED
    BY ONLY <1>1, <1>4, <1>5, <2>1, NotOfDir
<1>11. \A d \in LiveDirs(x) : n \notin ClustersOf(x, At(x, d).clust)
  <2>1. \A d \in LiveDirs(x) : d \in LiveDirs(u) /\ At(x, d) = At(u, d)
    BY <1>9 DEF Same
  <2>2. \A a : ClustersOf(x, a) = ClustersOf(u, a)
    BY <1>9, ChainByTable DEF ClustersOf
  <2> QED
    BY <1>10, <2>1, <2>2
<1> HIDE DEF x
<1>12. Tree(w) /\ Same(x, w) /\ w.fat = x.fat
  BY ONLY <1>1, <1>9, <1>11, TreeSector
<1> HIDE DEF w
<1>13. Same(u, w)
  BY <1>9, <1>12, SameSame
<1> QED
  BY <1>9, <1>12, <1>13 DEF x, w, f, SectorsKept

-----------------------------------------------------------------------------
(* The volume is full.                                                     *)
NoneFree(v) == \A c \in Clusters : v.fat[c] # 0

(* What a pass does: it moves some units, or finds the volume full.        *)
Passed(st, t) ==
  \/ \E len \in 1 .. st.left : /\ t.left = st.left - len /\ t.done = st.done + len
                               /\ t.f.fptr = st.f.fptr + len
  \/ t.left = 0 /\ t.done = st.done /\ t.f.fptr = st.f.fptr /\ NoneFree(t.v)

(* A pass of f_write within a sector.                                      *)
LEMMA InsideKeeps ==
  ASSUME NEW v, NEW F, Inv(v, F), NEW h \in Handles, F[h].mode = "write", F[h].fptr % SS # 0,
         NEW len \in Nat \ {0}, len <= SS - (F[h].fptr % SS), F[h].fptr + len <= MaxUnits,
         NEW g, Kin(F[h], g), g.fptr = F[h].fptr + len, g.sclust = F[h].sclust,
         g.clust = F[h].clust, g.dirty = TRUE, g.dsect = F[h].dsect
  PROVE  Inv(v, [F EXCEPT ![h] = g])
<1> DEFINE f == F[h]
           C == ChainsOf(v, F)
           o == << <<h>>, f.sclust>>
           L == Len(Chain(v, f.sclust))
<1>1. Handled(v, f) /\ Fil(f) /\ Writing(v, f) /\ Tree(v) /\ Apart(v, C)
  BY DEF Inv, Opened, Handled
<1>2. f.fptr \in Nat /\ f.sclust \in Clusters \cup {0} /\ f.dsect \in Clusters \cup {0}
  BY <1>1 DEF Fil
<1>3. L \in Nat /\ f.fptr <= L * SS
  <2>1. L \in Nat
    BY ChainShape, Constants
  <2> QED
    BY <2>1, <1>1 DEF Writing
<1>4. f.fptr + len <= L * SS /\ L # 0
  <2>1. f.fptr % SS # 0 /\ len <= SS - (f.fptr % SS) /\ len \in Nat
    OBVIOUS
  <2> HIDE DEF f, L
  <2> QED
    BY ONLY <1>2, <1>3, <2>1, RoomInSector
<1>5. f.sclust \in Clusters
  BY <1>2, <1>4, EmptyChain, Constants
<1>6. f.clust = Chain(v, f.sclust)[L] /\ f.clust \in Clusters
  <2>1. f.clust = Chain(v, f.sclust)[L]
    BY <1>1, <1>5, Constants DEF Writing
  <2>2. Chain(v, f.sclust) \in Seq(Clusters)
    BY ChainShape
  <2> QED
    BY <2>1, <2>2, <1>3, <1>4
<1>7. Same(v, v)
  BY DEF Same
<1>8. f.dsect \in ClustersOf(v, f.sclust)
  BY <1>1 DEF Writing
<1>9. /\ Kin(f, g) /\ f.mode = "write" /\ g.sclust \in Clusters /\ g.clust \in Clusters
      /\ g.dirty \in BOOLEAN /\ g.dsect \in Clusters \cup {0}
      /\ g.fptr \in f.fptr .. MaxUnits /\ g.fptr > 0
      /\ g.fptr <= Len(Chain(v, g.sclust)) * SS
      /\ g.clust = Chain(v, g.sclust)[Len(Chain(v, g.sclust))]
      /\ (g.dirty \/ g.fptr % SS # 0 => g.dsect \in ClustersOf(v, g.sclust))
  <2>1. g.fptr \in f.fptr .. MaxUnits /\ g.fptr > 0
    BY <1>2, Constants
  <2>2. g.fptr <= Len(Chain(v, g.sclust)) * SS
    BY <1>4
  <2> QED
    BY <1>2, <1>5, <1>6, <1>8, <2>1, <2>2
<1> HIDE DEF f, L
<1>10. Handled(v, g) /\ g.mode = "write" /\ g.path = f.path
  BY ONLY <1>1, <1>7, <1>9, MovedWriter
<1>11. Apart(v, (C \ {o}) \cup {<< <<h>>, g.sclust>>})
  <2>1. o \in C
    BY DEF ChainsOf, f
  <2>2. (C \ {o}) \cup {<< <<h>>, g.sclust>>} = C
    BY <2>1 DEF f
  <2> QED
    BY <2>2, <1>1
<1>12. Apart(v, (ChainsOf(v, F) \ {<< <<h>>, F[h].sclust>>}) \cup {<< <<h>>, g.sclust>>})
  BY <1>11 DEF f
<1>13. g.path = F[h].path /\ \A q \in ChainsOf(v, F) : q[1] # <<h>> => Chain(v, q[2]) = Chain(v, q[2])
  BY <1>10 DEF f
<1> QED
  BY ONLY <1>1, <1>7, <1>10, <1>12, <1>13, Inv(v, F), h \in Handles, F[h].mode = "write", WriterMoves

(* A pass of f_write keeps the invariant, and moves on or finds the volume *)
(* full.                                                                   *)
LEMMA WriteTurnKeeps ==
  ASSUME NEW F, NEW h \in Handles, F[h].mode = "write", NEW st, Accounted(st), st.f = F[h],
         Inv(st.v, F), st.left \in Nat \ {0}, st.done \in Nat, st.f.fptr + st.left <= MaxUnits,
         NEW t, t = WriteTurn(st)
  PROVE  Accounted(t) /\ Inv(t.v, [F EXCEPT ![h] = t.f]) /\ Kin(st.f, t.f) /\ Passed(st, t)
<1> DEFINE f == st.f
           v == st.v
           len == Pass(f, st.left)
           r == Following(v, f)
           c == IF f.fptr = 0 THEN r.cl ELSE f.sclust
<1>1. Handled(v, f) /\ Fil(f) /\ F = [k \in Handles |-> F[k]]
  BY DEF Inv, Opened, Handled
<1>2. f.fptr \in Nat
  BY <1>1 DEF Fil
<1>3. /\ len \in 1 .. st.left /\ len <= SS - (f.fptr % SS) /\ f.fptr % SS \in 0 .. SS - 1
  BY <1>2, PassIs
<1> HIDE DEF len, r
<1>4. /\ f.fptr % SS # 0 => Inside(st, t, len)
      /\ f.fptr % SS = 0 /\ r.cl = 0 => Halted(st, t)
      /\ f.fptr % SS = 0 /\ r.cl \notin {0, 1} => Begun(st, t, len, r)
  <2>1. st.left # 0
    OBVIOUS
  <2> QED
    BY <1>1, <2>1, WriteTurnIs DEF len, r
<1>5. len \in 1 .. st.left /\ st.left \in Nat /\ f.fptr + len <= MaxUnits /\ len \in Nat \ {0}
  BY <1>2, <1>3, Constants
<1>6. CASE f.fptr % SS # 0
  <2>1. Inside(st, t, len)
    BY <1>4, <1>6
  <2>2. /\ Accounted(t) /\ Kin(f, t.f) /\ t.left = st.left - len /\ t.done = st.done + len
        /\ t.f.fptr = f.fptr + len /\ t.v = v /\ t.f.sclust = f.sclust /\ t.f.clust = f.clust
        /\ t.f.dirty = TRUE /\ t.f.dsect = f.dsect
    BY <2>1 DEF Inside, Advanced
  <2> DEFINE g == t.f
  <2>3. /\ Kin(F[h], g) /\ g.fptr = F[h].fptr + len /\ g.sclust = F[h].sclust
        /\ g.clust = F[h].clust /\ g.dirty = TRUE /\ g.dsect = F[h].dsect
        /\ F[h].fptr % SS # 0 /\ len <= SS - (F[h].fptr % SS) /\ F[h].fptr + len <= MaxUnits
        /\ Inv(v, F)
    BY <2>2, <1>3, <1>5, <1>6
  <2> HIDE DEF g, v
  <2>4. Inv(v, [F EXCEPT ![h] = g])
    BY ONLY <2>3, <1>5, h \in Handles, F[h].mode = "write", InsideKeeps
  <2>5. Passed(st, t)
    BY <1>5, <2>2 DEF Passed
  <2> QED
    BY <2>2, <2>4, <2>5 DEF g
<1>7. CASE f.fptr % SS = 0
  <2>1. NoneLeft(v, r) \/ Lengthened(v, F, h, r.v, r.cl, c)
    <3>1. F[h].fptr % SS = 0 /\ r = Following(v, F[h]) /\ Inv(v, F) /\ f = F[h]
      BY <1>7 DEF r
    <3> QED
      BY <3>1, FollowingIs
  <2>2. CASE NoneLeft(v, r)
    <3>1. r.cl = 0 /\ NoneFree(v)
      BY <2>2 DEF NoneLeft, NoneFree
    <3>2. Halted(st, t)
      BY <1>4, <1>7, <3>1
    <3>3. Accounted(t) /\ t.v = v /\ t.f = f /\ t.done = st.done /\ t.left = 0
      BY <3>2 DEF Halted
    <3>4. [F EXCEPT ![h] = t.f] = F
      BY <1>1, <3>3
    <3>5. Kin(f, t.f)
      BY <1>1, <3>3 DEF Kin, Fil
    <3>6. Passed(st, t)
      BY <3>1, <3>3 DEF Passed
    <3> QED
      BY <3>3, <3>4, <3>5, <3>6
  <2>3. CASE Lengthened(v, F, h, r.v, r.cl, c)
    <3>1. r.cl \in Clusters
      BY <2>3 DEF Lengthened
    <3>2. Begun(st, t, len, r)
      BY <1>4, <1>7, <3>1, Constants
    <3> DEFINE g == t.f
               w == t.v
               u == r.v
               n == r.cl
    <3>3. /\ Accounted(t) /\ Kin(f, g) /\ t.left = st.left - len /\ t.done = st.done + len
          /\ g.fptr = f.fptr + len /\ g.sclust = c /\ g.clust = n
      BY <3>2 DEF Begun, Advanced
    <3>4. PICK b : \/ len = SS /\ g.dirty = FALSE /\ g.dsect = f.dsect
                      /\ w = [Flush(u, f) EXCEPT !.disk[n] = b]
                   \/ g.dirty = TRUE /\ g.dsect = n /\ w = Flush(u, f)
      BY <3>2 DEF Begun
    <3>5. Passed(st, t)
      BY <1>5, <3>3 DEF Passed
    <3>6. Inv(v, F) /\ Lengthened(v, F, h, u, n, c) /\ f = F[h]
      BY <2>3
    <3> HIDE DEF f, v, g, w, u, n, c
    <3>7. SectorsKept(u, f, n, b)
      BY ONLY <3>6, h \in Handles, F[h].mode = "write", SectorsKeep
    <3>8. Tree(w) /\ Same(u, w) /\ w.fat = u.fat
      BY ONLY <3>4, <3>7 DEF SectorsKept
    <3>9. g.dirty \in BOOLEAN /\ (g.dirty \/ g.fptr % SS # 0 => g.dsect = n) /\ g.dsect \in Clusters \cup {0}
      <4>1. CASE len = SS /\ g.dirty = FALSE /\ g.dsect = f.dsect
        <5>1. g.fptr % SS = 0
          BY <1>2, <1>7, <3>3, <4>1, EdgeNext
        <5>2. f.dsect \in Clusters \cup {0}
          BY <1>1 DEF Fil
        <5> QED
          BY <4>1, <5>1, <5>2
      <4>2. CASE g.dirty = TRUE /\ g.dsect = n
        BY <3>1, <4>2 DEF n
      <4> QED
        BY <3>4, <4>1, <4>2
    <3>10. len \in 1 .. SS /\ g.fptr = F[h].fptr + len /\ g.fptr <= MaxUnits
      <4>1. len <= SS
        BY <1>3, <1>5, <1>7, Constants
      <4> QED
        BY <4>1, <1>2, <1>5, <3>3, <3>6, Constants
    <3>11. Kin(F[h], g) /\ g.sclust = c /\ g.clust = n
      BY <3>3, <3>6
    <3>12. Inv(w, [F EXCEPT ![h] = g])
      BY ONLY <3>6, <3>8, <3>9, <3>10, <3>11, h \in Handles, F[h].mode = "write", EdgeDone
    <3> QED
      BY <3>3, <3>5, <3>12 DEF g, w, f
  <2> QED
    BY <2>1, <2>2, <2>3
<1> QED
  BY <1>6, <1>7

(* The state in which the loop of f_write begins.                          *)
WriteStart(h, n) == [v |-> vol, f |-> fp[h], done |-> fp[h].fed, left |-> n]

(* The recursive function in WriteLoop is what its definition says.        *)
LEMMA WriteLoopDef ==
  ASSUME NEW h, NEW n \in Nat
  PROVE  \E pass : /\ pass[0] = WriteStart(h, n) /\ WriteLoop(h, n) = pass[n]
                   /\ \A k \in 1 .. n : pass[k] = WriteTurn(pass[k - 1])
<1> DEFINE st0 == WriteStart(h, n)
           Is(g, m) == g = [k \in 0 .. m |-> IF k = 0 THEN st0 ELSE WriteTurn(g[k - 1])]
           S == {m \in Nat : \E g : Is(g, m)}
<1>a. WriteLoop(h, n) = LET pass[k \in 0 .. n] == IF k = 0 THEN st0 ELSE WriteTurn(pass[k - 1]) IN pass[n]
  BY DEF WriteLoop, WriteStart
<1> HIDE DEF st0
<1>1. 0 \in S
  <2>1. Is([k \in 0 .. 0 |-> st0], 0)
    OBVIOUS
  <2> QED
    BY <2>1
<1>2. ASSUME NEW m \in Nat, m \in S PROVE m + 1 \in S
  <2>1. PICK g : Is(g, m)
    BY <1>2
  <2> DEFINE x == [k \in 0 .. m + 1 |-> IF k = m + 1 THEN WriteTurn(g[m]) ELSE g[k]]
  <2>2. ASSUME NEW k \in 0 .. m + 1
        PROVE  x[k] = IF k = 0 THEN st0 ELSE WriteTurn(x[k - 1])
    <3>1. CASE k = m + 1
      <4>1. k # 0 /\ k - 1 = m /\ m \in 0 .. m + 1 /\ m # m + 1
        BY <3>1
      <4> QED
        BY <3>1, <4>1
    <3>2. CASE k # m + 1 /\ k # 0
      <4>1. k \in 0 .. m /\ k - 1 \in 0 .. m + 1 /\ k - 1 # m + 1 /\ k - 1 \in 0 .. m
        BY <3>2
      <4>2. x[k] = g[k] /\ x[k - 1] = g[k - 1]
        BY <3>2, <4>1
      <4>3. g[k] = WriteTurn(g[k - 1])
        BY <2>1, <3>2, <4>1
      <4> QED
        BY <3>2, <4>2, <4>3
    <3>3. CASE k = 0 /\ k # m + 1
      <4>1. x[k] = g[k] /\ g[k] = st0
        BY <2>1, <3>3
      <4> QED
        BY <3>3, <4>1
    <3> QED
      BY <3>1, <3>2, <3>3
  <2>3. Is(x, m + 1)
    BY <2>2
  <2> HIDE DEF x, Is
  <2> QED
    BY <2>3
<1>3. n \in S
  <2> HIDE DEF S
  <2> QED
    BY <1>1, <1>2, CountUp
<1>4. \E g : g = [k \in 0 .. n |-> IF k = 0 THEN st0 ELSE WriteTurn(g[k - 1])]
  BY <1>3
<1> DEFINE pass == CHOOSE g : g = [k \in 0 .. n |-> IF k = 0 THEN st0 ELSE WriteTurn(g[k - 1])]
<1>5. pass = [k \in 0 .. n |-> IF k = 0 THEN st0 ELSE WriteTurn(pass[k - 1])]
  <2> HIDE DEF pass
  <2> QED
    BY <1>4 DEF pass
<1>6. WriteLoop(h, n) = pass[n]
  BY <1>a
<1> HIDE DEF pass
<1>7. pass[0] = st0 /\ \A k \in 1 .. n : pass[k] = WriteTurn(pass[k - 1])
  BY <1>5
<1> QED
  BY <1>6, <1>7 DEF st0

(* After k passes.                                                         *)
Underway(F, h, n, st, k) ==
  /\ Accounted(st) /\ Inv(st.v, [F EXCEPT ![h] = st.f]) /\ Kin(F[h], st.f)
  /\ st.left \in Nat /\ st.left + k <= n /\ st.done \in Nat /\ st.f.fptr \in Nat
  /\ st.done + F[h].fptr = F[h].fed + st.f.fptr
  /\ st.done + st.left <= F[h].fed + n
  /\ st.done + st.left = F[h].fed + n \/ (st.left = 0 /\ NoneFree(st.v))

(* Passes follow each other.                                               *)
LEMMA KinKin ==
  ASSUME NEW a, NEW b, NEW c, Kin(a, b), Kin(b, c)
  PROVE  Kin(a, c)
BY DEF Kin

(* One pass more.                                                          *)
LEMMA UnderwayTurn ==
  ASSUME NEW F, F = [k \in Handles |-> F[k]], NEW h \in Handles, F[h].mode = "write",
         F[h].fptr \in Nat, F[h].fed \in Nat, F[h].fptr <= F[h].fed, NEW n \in Nat,
         F[h].fed + n <= MaxUnits, NEW k \in Nat, k < n,
         NEW st, Underway(F, h, n, st, k)
  PROVE  Underway(F, h, n, WriteTurn(st), k + 1)
<1> DEFINE t == WriteTurn(st)
           G == [F EXCEPT ![h] = st.f]
<1>1. /\ Accounted(st) /\ Inv(st.v, G) /\ Kin(F[h], st.f)
      /\ st.left \in Nat /\ st.left + k <= n /\ st.done \in Nat /\ st.f.fptr \in Nat
      /\ st.done + F[h].fptr = F[h].fed + st.f.fptr
      /\ st.done + st.left <= F[h].fed + n
      /\ st.done + st.left = F[h].fed + n \/ (st.left = 0 /\ NoneFree(st.v))
  BY DEF Underway
<1>2. CASE st.left = 0
  <2>1. t = st
    BY <1>2 DEF WriteTurn
  <2> HIDE DEF t
  <2> QED
    BY <1>1, <1>2, <2>1 DEF Underway, t
<1>3. CASE st.left # 0
  <2>1. G[h] = st.f /\ \A g : [G EXCEPT ![h] = g] = [F EXCEPT ![h] = g]
    OBVIOUS
  <2>2. st.f.mode = "write"
    BY <1>1 DEF Kin
  <2>3. st.f.fptr + st.left <= MaxUnits /\ st.left \in Nat \ {0}
    BY <1>1, <1>3, Constants
  <2>4. t = WriteTurn(st)
    OBVIOUS
  <2>5. st.f = G[h] /\ G[h].mode = "write"
    BY <2>1, <2>2
  <2> HIDE DEF t, G
  <2>6. Accounted(t) /\ Inv(t.v, [G EXCEPT ![h] = t.f]) /\ Kin(st.f, t.f) /\ Passed(st, t)
    BY ONLY <1>1, <2>3, <2>4, <2>5, h \in Handles, WriteTurnKeeps
  <2>7. Inv(t.v, [F EXCEPT ![h] = t.f]) /\ Kin(F[h], t.f)
    BY <1>1, <2>1, <2>6, KinKin
  <2>8. /\ t.left \in Nat /\ t.left + (k + 1) <= n /\ t.done \in Nat /\ t.f.fptr \in Nat
        /\ t.done + F[h].fptr = F[h].fed + t.f.fptr
        /\ t.done + t.left <= F[h].fed + n
        /\ t.done + t.left = F[h].fed + n \/ (t.left = 0 /\ NoneFree(t.v))
    <3>1. CASE \E len \in 1 .. st.left : /\ t.left = st.left - len /\ t.done = st.done + len
                                         /\ t.f.fptr = st.f.fptr + len
      <4>1. PICK len \in 1 .. st.left : /\ t.left = st.left - len /\ t.done = st.done + len
                                        /\ t.f.fptr = st.f.fptr + len
        BY <3>1
      <4> QED
        BY <1>1, <1>3, <4>1
    <3>2. CASE t.left = 0 /\ t.done = st.done /\ t.f.fptr = st.f.fptr /\ NoneFree(t.v)
      BY <1>1, <3>2
    <3> QED
      BY <2>6, <3>1, <3>2 DEF Passed
  <2> QED
    BY <2>6, <2>7, <2>8 DEF Underway, t
<1> QED
  BY <1>2, <1>3

(* After as many passes as there were units.                               *)
LEMMA WriteLoopIs ==
  ASSUME Inv(vol, fp), NEW h \in Handles, fp[h].mode = "write", fp[h].fptr <= fp[h].fed,
         NEW n \in Nat, fp[h].fed + n <= MaxUnits
  PROVE  Underway(fp, h, n, WriteLoop(h, n), n)
<1>1. PICK pass : /\ pass[0] = WriteStart(h, n) /\ WriteLoop(h, n) = pass[n]
                  /\ \A k \in 1 .. n : pass[k] = WriteTurn(pass[k - 1])
  BY WriteLoopDef
<1>2. Handled(vol, fp[h]) /\ Fil(fp[h]) /\ fp = [k \in Handles |-> fp[k]]
  BY DEF Inv, Opened, Handled
<1>3. fp[h].fptr \in Nat /\ fp[h].fed \in Nat
  BY <1>2 DEF Fil
<1>4. Underway(fp, h, n, pass[0], 0)
  <2> DEFINE st == pass[0]
  <2>1. st = [v |-> vol, f |-> fp[h], done |-> fp[h].fed, left |-> n]
    BY <1>1 DEF WriteStart
  <2> HIDE DEF st
  <2>2. Accounted(st) /\ st.v = vol /\ st.f = fp[h] /\ st.done = fp[h].fed /\ st.left = n
    BY <2>1 DEF Accounted
  <2>3. [fp EXCEPT ![h] = st.f] = fp
    BY <1>2, <2>2
  <2>4. Kin(fp[h], st.f)
    BY <1>2, <2>2 DEF Kin, Fil
  <2>5. Underway(fp, h, n, st, 0)
    BY <1>3, <2>2, <2>3, <2>4 DEF Underway
  <2> QED
    BY <2>5 DEF st
<1> DEFINE S == {k \in Nat : k <= n => Underway(fp, h, n, pass[k], k)}
<1>5. 0 \in S
  BY <1>4
<1>6. ASSUME NEW k \in Nat, k \in S PROVE k + 1 \in S
  <2> SUFFICES ASSUME k + 1 <= n PROVE Underway(fp, h, n, pass[k + 1], k + 1)
    OBVIOUS
  <2>1. k < n /\ k + 1 \in 1 .. n /\ (k + 1) - 1 = k
    OBVIOUS
  <2>2. Underway(fp, h, n, pass[k], k)
    BY <1>6, <2>1
  <2>3. pass[k + 1] = WriteTurn(pass[k])
    BY <1>1, <2>1
  <2>4. Underway(fp, h, n, WriteTurn(pass[k]), k + 1)
    BY ONLY <1>2, <1>3, <2>1, <2>2, h \in Handles, fp[h].mode = "write", fp[h].fptr <= fp[h].fed,
       n \in Nat, k \in Nat, fp[h].fed + n <= MaxUnits, UnderwayTurn
  <2> QED
    BY <2>3, <2>4
<1>7. n \in S
  <2> HIDE DEF S
  <2> QED
    BY <1>5, <1>6, CountUp
<1> QED
  BY <1>1, <1>7

(* No writer has more in its file than it was given.                       *)
Counted(F) == \A h \in Handles : F[h].mode = "write" => F[h].fptr <= F[h].fed

(* f_write has gone round its loop: its count and its size are set.        *)
Ended(f, g, m) == g = [f EXCEPT !.fed = m, !.fsize = Max({@, f.fptr})]

(* All else is as it was, and the size is the position.                    *)
LEMMA EndedIs ==
  ASSUME NEW f, NEW g, NEW m, Fil(f), f.fsize <= f.fptr, Ended(f, g, m)
  PROVE  /\ g.mode = f.mode /\ g.slot = f.slot /\ g.sclust = f.sclust /\ g.clust = f.clust
         /\ g.fptr = f.fptr /\ g.fsize = f.fptr /\ g.dsect = f.dsect /\ g.buf = f.buf
         /\ g.dirty = f.dirty /\ g.error = f.error /\ g.path = f.path /\ g.ver = f.ver
         /\ g.fed = m /\ g.seen = f.seen /\ g.stale = f.stale
         /\ g = [mode |-> g.mode, slot |-> g.slot, sclust |-> g.sclust, clust |-> g.clust,
                  fptr |-> g.fptr, fsize |-> g.fsize, buf |-> g.buf, dsect |-> g.dsect,
                  dirty |-> g.dirty, error |-> g.error, path |-> g.path, ver |-> g.ver,
                  fed |-> g.fed, seen |-> g.seen, stale |-> g.stale]
<1>2. f.fsize \in 0 .. MaxUnits /\ f.fptr \in 0 .. MaxUnits /\ f.fsize <= f.fptr
  BY DEF Fil
<1>3. Max({f.fsize, f.fptr}) = f.fptr
  <2> DEFINE a == f.fsize
             b == f.fptr
  <2>1. a \in Int /\ b \in Int /\ a <= b
    BY <1>2
  <2> HIDE DEF a, b
  <2>2. Max({a, b}) = b
    BY ONLY <2>1, MaxOfTwo
  <2> QED
    BY <2>2 DEF a, b
<1>4. f = [mode |-> f.mode, slot |-> f.slot, sclust |-> f.sclust, clust |-> f.clust,
          fptr |-> f.fptr, fsize |-> f.fsize, buf |-> f.buf, dsect |-> f.dsect,
          dirty |-> f.dirty, error |-> f.error, path |-> f.path, ver |-> f.ver,
          fed |-> f.fed, seen |-> f.seen, stale |-> f.stale]
  BY DEF Fil
<1>5. g = [mode |-> f.mode, slot |-> f.slot, sclust |-> f.sclust, clust |-> f.clust,
          fptr |-> f.fptr, fsize |-> f.fptr, buf |-> f.buf, dsect |-> f.dsect,
          dirty |-> f.dirty, error |-> f.error, path |-> f.path, ver |-> f.ver,
          fed |-> m, seen |-> f.seen, stale |-> f.stale]
  <2>1. g = [f EXCEPT !.fed = m, !.fsize = Max({@, f.fptr})]
    BY DEF Ended
  <2> DEFINE x == Max({f.fsize, f.fptr})
  <2>2. g = [f EXCEPT !.fed = m, !.fsize = x]
    BY ONLY <1>4, <2>1
  <2>3. x = f.fptr
    BY <1>3
  <2> HIDE DEF x
  <2> QED
    BY ONLY <1>4, <2>2, <2>3
<1> QED
  BY ONLY <1>5

(* The counts and the size at the end of f_write are no part of the        *)
(* invariant's bounds on the chain.                                        *)
LEMMA WroteFil ==
  ASSUME NEW w, NEW G, Inv(w, G), NEW h \in Handles, G[h].mode = "write",
         NEW m \in 0 .. MaxUnits, NEW f, f = G[h],
         NEW g, Ended(f, g, m)
  PROVE  /\ Inv(w, [G EXCEPT ![h] = g])
         /\ g.mode = "write" /\ g.fptr = f.fptr /\ g.fed = m
<1>1. Handled(w, f) /\ Fil(f) /\ Writing(w, f) /\ Tree(w) /\ Apart(w, ChainsOf(w, G)) /\ f.mode = "write"
  BY DEF Inv, Opened, Handled
<1>2. f.fsize \in 0 .. MaxUnits /\ f.fptr \in 0 .. MaxUnits /\ f.fsize <= f.fptr
  BY <1>1 DEF Fil, Writing
<1>6. /\ g.mode = f.mode /\ g.slot = f.slot /\ g.sclust = f.sclust /\ g.clust = f.clust
      /\ g.fptr = f.fptr /\ g.fsize = f.fptr /\ g.dsect = f.dsect /\ g.buf = f.buf
      /\ g.dirty = f.dirty /\ g.error = f.error /\ g.path = f.path /\ g.ver = f.ver
      /\ g.fed = m /\ g.seen = f.seen /\ g.stale = f.stale
      /\ g = [mode |-> g.mode, slot |-> g.slot, sclust |-> g.sclust, clust |-> g.clust,
               fptr |-> g.fptr, fsize |-> g.fsize, buf |-> g.buf, dsect |-> g.dsect,
               dirty |-> g.dirty, error |-> g.error, path |-> g.path, ver |-> g.ver,
               fed |-> g.fed, seen |-> g.seen, stale |-> g.stale]
  BY ONLY <1>1, <1>2, Ended(f, g, m), EndedIs
<1>7. Fil(g)
  <2>1. /\ f.mode \in {"closed", "read", "write"}
        /\ f.slot \in {NoSlot} \cup ((Clusters \cup {0}) \X Nat)
        /\ f.sclust \in Clusters \cup {0} /\ f.clust \in Clusters \cup {0, EOC}
        /\ f.dsect \in Clusters \cup {0}
        /\ f.dirty \in BOOLEAN /\ f.error \in BOOLEAN /\ f.path \in {<<>>} \cup Paths
        /\ f.ver \in 0 .. MaxMade /\ f.stale \in BOOLEAN /\ f.mode = "write"
    BY <1>1 DEF Fil
  <2> QED
    BY ONLY <1>2, <1>6, <2>1, m \in 0 .. MaxUnits DEF Fil
<1>8. Writing(w, g)
  <2>1. g.fsize <= g.fptr
    BY <1>2, <1>6
  <2> QED
    BY ONLY <1>1, <1>6, <2>1 DEF Writing
<1>9. Handled(w, g) /\ g.mode = "write" /\ g.path = G[h].path
  BY <1>1, <1>6, <1>7, <1>8 DEF Handled
<1>10. Apart(w, (ChainsOf(w, G) \ {<< <<h>>, G[h].sclust>>}) \cup {<< <<h>>, g.sclust>>})
  <2>1. << <<h>>, G[h].sclust>> \in ChainsOf(w, G)
    BY DEF ChainsOf
  <2>2. (ChainsOf(w, G) \ {<< <<h>>, G[h].sclust>>}) \cup {<< <<h>>, g.sclust>>} = ChainsOf(w, G)
    BY ONLY <1>6, <2>1, f = G[h]
  <2> QED
    BY <1>1, <2>2
<1>11. Same(w, w) /\ \A o \in ChainsOf(w, G) : o[1] # <<h>> => Chain(w, o[2]) = Chain(w, o[2])
  BY DEF Same
<1> QED
  BY ONLY <1>1, <1>6, <1>9, <1>10, <1>11, Inv(w, G), h \in Handles, G[h].mode = "write", WriterMoves

(* f_write keeps the invariant, whatever it is given and wherever it       *)
(* stands, and takes less than it is given only if no cluster is free      *)
(* (ff.cpp:2516-2626).                                                     *)
LEMMA WriteKeeps ==
  ASSUME Inv(vol, fp), Counted(fp), NEW h \in Handles, NEW n \in WriteSizes, Write(h, n)
  PROVE  /\ Inv(vol', fp') /\ Counted(fp') /\ made' = made
         /\ \A k \in Handles : k # h => fp'[k] = fp[k]
         /\ fp'[h].mode = "write" /\ fp[h].mode = "write"
         /\ fp'[h].fed - fp'[h].fptr > fp[h].fed - fp[h].fptr => NoneFree(vol')
<1> DEFINE st == WriteLoop(h, n)
           f == st.f
           m == fp[h].fed + n
           g == [f EXCEPT !.fed = m, !.fsize = Max({@, f.fptr})]
           G == [fp EXCEPT ![h] = f]
<1>1. Writing(vol, fp[h]) /\ Fil(fp[h]) /\ fp = [k \in Handles |-> fp[k]] /\ fp[h].mode = "write"
  BY DEF Write, Writers, Inv, Opened, Handled
<1>2. fp[h].fptr \in Nat /\ fp[h].fed \in Nat /\ n \in Nat /\ m \in 0 .. MaxUnits
  <2>1. fp[h].fptr \in 0 .. MaxUnits /\ fp[h].fed \in 0 .. MaxUnits /\ n \in Nat
    BY <1>1, VolumeConstants DEF Fil
  <2>2. m <= MaxUnits
    BY DEF Write
  <2> QED
    BY <2>1, <2>2, Constants
<1>3. fp[h].fptr <= fp[h].fed /\ ~fp[h].error
  BY <1>1 DEF Counted, Writing
<1>4. /\ vol' = st.v /\ made' = made
      /\ fp' = [fp EXCEPT ![h] = [f EXCEPT !.fed = @ + n, !.fsize = Max({@, f.fptr})]]
  BY <1>3 DEF Write
<1>5. Underway(fp, h, n, st, n)
  BY <1>1, <1>2, <1>3, WriteLoopIs
<1> HIDE DEF st
<1>6. /\ Inv(st.v, G) /\ Kin(fp[h], f) /\ st.done \in Nat /\ f.fptr \in Nat
      /\ st.left = 0
      /\ st.done + fp[h].fptr = fp[h].fed + f.fptr
      /\ st.done + st.left <= fp[h].fed + n
      /\ st.done + st.left = fp[h].fed + n \/ NoneFree(st.v)
  BY <1>2, <1>5 DEF Underway
<1>7. f.fed = fp[h].fed /\ f.mode = "write"
  BY <1>1, <1>6 DEF Kin
<1>8. fp' = [fp EXCEPT ![h] = g]
  <2>1. f.fed + n = m
    BY <1>7
  <2>2. [f EXCEPT !.fed = @ + n, !.fsize = Max({@, f.fptr})] = g
    BY <2>1
  <2> QED
    BY <1>4, <2>2
<1>9. G[h] = f /\ [G EXCEPT ![h] = g] = [fp EXCEPT ![h] = g]
  BY <1>1
<1>10. fp'[h] = g /\ \A k \in Handles : k # h => fp'[k] = fp[k]
  BY <1>1, <1>8
<1>11. Ended(f, g, m)
  BY DEF Ended
<1> DEFINE w == st.v
<1>a. Inv(w, G) /\ G[h].mode = "write" /\ f = G[h]
  BY <1>6, <1>7, <1>9
<1> HIDE DEF g, G, f, m, w
<1>12. /\ Inv(w, [G EXCEPT ![h] = g])
       /\ g.mode = "write" /\ g.fptr = f.fptr /\ g.fed = m
  BY ONLY <1>a, <1>2, <1>11, h \in Handles, WroteFil
<1>13. Inv(vol', fp')
  BY <1>4, <1>8, <1>9, <1>12 DEF w
<1>14. g.fptr <= g.fed
  BY <1>2, <1>3, <1>6, <1>12 DEF m
<1>15. Counted(fp')
  BY <1>10, <1>14 DEF Counted
<1>16. fp'[h].fed - fp'[h].fptr > fp[h].fed - fp[h].fptr => NoneFree(vol')
  <2>1. st.done = m \/ NoneFree(st.v)
    BY <1>6 DEF m
  <2>2. st.done = m => g.fed - g.fptr = fp[h].fed - fp[h].fptr
    BY <1>2, <1>6, <1>12 DEF m
  <2>3. NoneFree(st.v) => NoneFree(vol')
    BY <1>4
  <2>4. fp'[h] = g
    BY <1>10
  <2>5. \A x, y : x = y => ~(x > y) \/ x \notin Int
    OBVIOUS
  <2>6. fp[h].fed - fp[h].fptr \in Int
    BY <1>2
  <2> QED
    BY ONLY <2>1, <2>2, <2>3, <2>4, <2>5, <2>6
<1> QED
  BY <1>1, <1>4, <1>10, <1>12, <1>13, <1>15, <1>16

(* The state of the loop of f_read.                                        *)
Shelved(st) == st = [f |-> st.f, out |-> st.out, left |-> st.left]

(* What f_read leaves of a file object.                                    *)
Like(f, g) ==
  /\ g = [mode |-> g.mode, slot |-> g.slot, sclust |-> g.sclust, clust |-> g.clust,
          fptr |-> g.fptr, fsize |-> g.fsize, buf |-> g.buf, dsect |-> g.dsect,
          dirty |-> g.dirty, error |-> g.error, path |-> g.path, ver |-> g.ver,
          fed |-> g.fed, seen |-> g.seen, stale |-> g.stale]
  /\ g.mode = f.mode /\ g.slot = f.slot /\ g.sclust = f.sclust /\ g.fsize = f.fsize
  /\ g.path = f.path /\ g.ver = f.ver /\ g.fed = f.fed /\ g.stale = f.stale /\ g.dirty = f.dirty

(* A pass that cannot go on, and one that moves some units.                *)
Refused(st, t) ==
  /\ Shelved(t) /\ Like(st.f, t.f) /\ t.left = 0 /\ t.f.error = TRUE
  /\ t.f.fptr = st.f.fptr /\ t.f.clust = st.f.clust /\ t.f.dsect = st.f.dsect

(* Cells of a sector; and where a pass gets them from: a whole sector from *)
(* the disk, a part of one through the buffer.                             *)
Cells(b, i, len) == [k \in 1 .. len |-> b[i + k - 1]]

Direct(st, t, len, cl) ==
  /\ st.f.fptr % SS = 0 /\ len = SS /\ t.f.dsect = st.f.dsect /\ t.f.buf = st.f.buf
  /\ t.out = st.out \o Cells(vol.disk[cl], st.f.fptr % SS, len)

Through(st, t, len, cl) ==
  LET edge == st.f.fptr % SS = 0 IN
  /\ t.f.dsect = IF edge THEN cl ELSE st.f.dsect
  /\ t.f.buf = IF edge /\ st.f.dsect # cl THEN vol.disk[cl] ELSE st.f.buf
  /\ t.out = st.out \o Cells(t.f.buf, st.f.fptr % SS, len)

Fetched(st, t, len, cl) ==
  /\ Shelved(t) /\ Like(st.f, t.f) /\ t.left = st.left - len /\ t.f.error = st.f.error
  /\ t.f.fptr = st.f.fptr + len
  /\ t.f.clust = IF st.f.fptr % SS = 0 THEN cl ELSE st.f.clust
  /\ t.f.dsect = st.f.dsect \/ (st.f.fptr % SS = 0 /\ t.f.dsect = cl)
  /\ Direct(st, t, len, cl) \/ Through(st, t, len, cl)

(* The cluster behind an edge.                                             *)
Onward(f) == IF f.fptr = 0 THEN f.sclust ELSE GetFat(vol, f.clust)

(* A pass of f_read, case by case (ff.cpp:2439-2503).                      *)
LEMMA ReadTurnIs ==
  ASSUME NEW st, Shelved(st), Fil(st.f), st.left # 0,
         NEW len, len = Pass(st.f, st.left), NEW cl, cl = Onward(st.f),
         NEW t, t = ReadTurn(st)
  PROVE  /\ st.f.fptr % SS = 0 /\ cl \notin Clusters => Refused(st, t)
         /\ st.f.fptr % SS # 0 \/ cl \in Clusters => Fetched(st, t, len, cl)
<1> DEFINE f == st.f
           edge == f.fptr % SS = 0
           load == IF edge /\ f.dsect # cl THEN vol.disk[cl] ELSE f.buf
           pick(b) == [i \in 1 .. len |-> b[(f.fptr % SS) + i - 1]]
           went == [st EXCEPT !.left = @ - len]
           out == st.out
           left == st.left
           out1 == out \o pick(vol.disk[cl])
           out2 == out \o pick(load)
           clust2 == IF edge THEN cl ELSE f.clust
           dsect2 == IF edge THEN cl ELSE f.dsect
<1>1. t = IF edge /\ cl \notin Clusters THEN [st EXCEPT !.left = 0, !.f.error = TRUE]
        ELSE IF edge /\ len = SS THEN
            [went EXCEPT !.f = [f EXCEPT !.clust = cl, !.fptr = @ + len],
                         !.out = @ \o pick(vol.disk[cl])]
        ELSE
            [went EXCEPT !.f = [f EXCEPT !.clust = IF edge THEN cl ELSE @, !.buf = load,
                                         !.dsect = IF edge THEN cl ELSE @,
                                         !.fptr = @ + len],
                         !.out = @ \o pick(load)]
  BY DEF ReadTurn, Onward
<1>2. st = [f |-> f, out |-> out, left |-> left]
  BY DEF Shelved
<1>3. went = [f |-> f, out |-> out, left |-> left - len]
  <2>1. went = [st EXCEPT !.left = @ - len]
    OBVIOUS
  <2> HIDE DEF went, f, out, left
  <2> QED
    BY ONLY <1>2, <2>1
<1>4. f = [mode |-> f.mode, slot |-> f.slot, sclust |-> f.sclust, clust |-> f.clust,
          fptr |-> f.fptr, fsize |-> f.fsize, buf |-> f.buf, dsect |-> f.dsect,
          dirty |-> f.dirty, error |-> f.error, path |-> f.path, ver |-> f.ver,
          fed |-> f.fed, seen |-> f.seen, stale |-> f.stale]
  BY DEF Fil
<1>5. CASE edge /\ cl \notin Clusters
  <2> DEFINE g == [f EXCEPT !.error = TRUE]
  <2>1. t = [st EXCEPT !.left = 0, !.f.error = TRUE]
    BY <1>1, <1>5
  <2>2. t = [st EXCEPT !.left = 0, !.f = g] /\ g = [f EXCEPT !.error = TRUE]
    BY ONLY <1>2, <2>1
  <2> HIDE DEF f, g, out, left, edge
  <2>3. t = [f |-> g, out |-> out, left |-> 0]
    BY ONLY <1>2, <2>2
  <2>4. g = [mode |-> f.mode, slot |-> f.slot, sclust |-> f.sclust, clust |-> f.clust,
          fptr |-> f.fptr, fsize |-> f.fsize, buf |-> f.buf, dsect |-> f.dsect,
          dirty |-> f.dirty, error |-> TRUE, path |-> f.path, ver |-> f.ver,
          fed |-> f.fed, seen |-> f.seen, stale |-> f.stale]
    BY ONLY <2>2, <1>4
  <2>5. Shelved(t) /\ t.f = g /\ t.left = 0
    BY ONLY <2>3 DEF Shelved
  <2>6. Like(f, g) /\ g.error = TRUE /\ g.fptr = f.fptr /\ g.clust = f.clust /\ g.dsect = f.dsect
    BY ONLY <2>4 DEF Like
  <2>7. Refused(st, t)
    BY ONLY <2>5, <2>6 DEF Refused, f
  <2> QED
    BY <2>7, <1>5 DEF f, edge
<1>6. CASE edge /\ cl \in Clusters /\ len = SS
  <2> DEFINE g == [f EXCEPT !.clust = cl, !.fptr = @ + len]
  <2>1. t = [went EXCEPT !.f = g, !.out = @ \o pick(vol.disk[cl])] /\ g = [f EXCEPT !.clust = cl, !.fptr = @ + len]
    BY <1>1, <1>6
  <2>2. t = [went EXCEPT !.f = g, !.out = out1]
    BY ONLY <1>3, <2>1
  <2> HIDE DEF f, g, went, out, left, out1, edge
  <2>3. t = [f |-> g, out |-> out1, left |-> left - len]
    BY ONLY <1>3, <2>2
  <2>4. g = [mode |-> f.mode, slot |-> f.slot, sclust |-> f.sclust, clust |-> cl,
          fptr |-> f.fptr + len, fsize |-> f.fsize, buf |-> f.buf, dsect |-> f.dsect,
          dirty |-> f.dirty, error |-> f.error, path |-> f.path, ver |-> f.ver,
          fed |-> f.fed, seen |-> f.seen, stale |-> f.stale]
    BY ONLY <2>1, <1>4
  <2>5. Shelved(t) /\ t.f = g /\ t.left = left - len /\ t.out = out1
    BY ONLY <2>3 DEF Shelved
  <2>6. Like(f, g) /\ g.error = f.error /\ g.fptr = f.fptr + len /\ g.clust = cl /\ g.dsect = f.dsect
    BY ONLY <2>4 DEF Like
  <2>a. g.buf = f.buf
    BY ONLY <2>4
  <2>b. out1 = out \o Cells(vol.disk[cl], f.fptr % SS, len)
    BY DEF Cells, out1
  <2>c. Direct(st, t, len, cl)
    BY ONLY <2>5, <2>6, <2>a, <2>b, <1>6 DEF Direct, f, edge, out
  <2>7. Fetched(st, t, len, cl)
    BY ONLY <2>5, <2>6, <2>c, <1>6 DEF Fetched, f, left, edge
  <2> QED
    BY <2>7, <1>6 DEF f, edge
<1>7. CASE ~(edge /\ cl \notin Clusters) /\ ~(edge /\ len = SS)
  <2> DEFINE g == [f EXCEPT !.clust = clust2, !.buf = load, !.dsect = dsect2, !.fptr = @ + len]
             g0 == [f EXCEPT !.clust = IF edge THEN cl ELSE @, !.buf = load,
                             !.dsect = IF edge THEN cl ELSE @, !.fptr = @ + len]
  <2>1. t = [went EXCEPT !.f = g0, !.out = @ \o pick(load)]
    BY <1>1, <1>7
  <2>2. g0 = g
    BY ONLY <1>4
  <2>3. t = [went EXCEPT !.f = g, !.out = out2] /\ g = [f EXCEPT !.clust = clust2, !.buf = load, !.dsect = dsect2, !.fptr = @ + len]
    BY ONLY <1>3, <2>1, <2>2
  <2>a. clust2 = (IF edge THEN cl ELSE f.clust) /\ (dsect2 = f.dsect \/ (edge /\ dsect2 = cl))
    OBVIOUS
  <2> HIDE DEF f, g, went, out, left, out2, clust2, dsect2, load, edge
  <2>4. t = [f |-> g, out |-> out2, left |-> left - len]
    BY ONLY <1>3, <2>3
  <2>5. g = [mode |-> f.mode, slot |-> f.slot, sclust |-> f.sclust, clust |-> clust2,
          fptr |-> f.fptr + len, fsize |-> f.fsize, buf |-> load, dsect |-> dsect2,
          dirty |-> f.dirty, error |-> f.error, path |-> f.path, ver |-> f.ver,
          fed |-> f.fed, seen |-> f.seen, stale |-> f.stale]
    BY ONLY <2>3, <1>4
  <2>6. Shelved(t) /\ t.f = g /\ t.left = left - len /\ t.out = out2
    BY ONLY <2>4 DEF Shelved
  <2>7. Like(f, g) /\ g.error = f.error /\ g.fptr = f.fptr + len /\ g.clust = clust2 /\ g.dsect = dsect2
    BY ONLY <2>5 DEF Like
  <2>b. g.buf = load
    BY ONLY <2>5
  <2>c. out2 = out \o Cells(load, f.fptr % SS, len)
    BY DEF Cells, out2
  <2>d. load = (IF edge /\ f.dsect # cl THEN vol.disk[cl] ELSE f.buf) /\ dsect2 = IF edge THEN cl ELSE f.dsect
    BY DEF load, dsect2
  <2>e. Through(st, t, len, cl)
    BY ONLY <2>6, <2>7, <2>b, <2>c, <2>d DEF Through, f, edge, out
  <2>8. Fetched(st, t, len, cl)
    BY ONLY <2>6, <2>7, <2>a, <2>e DEF Fetched, f, left, edge
  <2> QED
    BY <2>8, <1>7 DEF f, edge
<1> QED
  BY <1>5, <1>6, <1>7

-----------------------------------------------------------------------------
(* Where in its chain a reader stands.                                     *)
LEMMA Standing ==
  ASSUME NEW q \in Nat, NEW r \in Nat, r # 0, r <= SS
  PROVE  (SS * q + r - 1) \div SS = q
<1>0. SS \in Nat \ {0}
  BY Constants
<1>1. r - 1 \in 0 .. SS - 1
  BY <1>0
<1>2. SS * q + (r - 1) = SS * q + r - 1
  BY <1>0
<1>3. (SS * q + (r - 1)) \div SS = q
  BY ONLY <1>0, <1>1, q \in Nat, DivModIs
<1> QED
  BY ONLY <1>2, <1>3

(* The chain of a file whose reader is not stale is all there.             *)
LEMMA ReaderChain ==
  ASSUME NEW F, Inv(vol, F), NEW f, Handled(vol, f), f.mode = "read", ~f.stale, f.fsize # 0
  PROVE  LET s == Chain(vol, f.sclust) IN
         /\ s \in Seq(Clusters) /\ Len(s) \in Nat /\ f.fsize <= Len(s) * SS
         /\ f.sclust \in Clusters /\ s[1] = f.sclust
         /\ \A k \in 1 .. Len(s) - 1 : vol.fat[s[k]] = s[k + 1]
         /\ f.fptr # 0 => f.clust = s[((f.fptr - 1) \div SS) + 1]
<1> DEFINE s == Chain(vol, f.sclust)
<1>1. Reading(vol, f) /\ Fil(f) /\ Tree(vol) /\ Fits(vol)
  BY DEF Handled, Inv
<1>2. /\ InDir(vol, f.path, f.slot) /\ At(vol, f.slot).clust = f.sclust
      /\ At(vol, f.slot).size = f.fsize
      /\ f.fptr # 0 => f.clust = s[((f.fptr - 1) \div SS) + 1]
  BY <1>1 DEF Reading
<1>3. f.slot \in LiveFiles(vol)
  BY <1>1, <1>2, LiveFacts
<1>4. f.fsize <= Len(s) * SS
  BY <1>1, <1>2, <1>3 DEF Fits
<1>5. /\ s \in Seq(Clusters) /\ Len(s) \in Nat
      /\ \A k \in 1 .. Len(s) - 1 : vol.fat[s[k]] = s[k + 1]
  BY ChainShape, Constants
<1>6. f.sclust \in Clusters
  <2> SUFFICES ASSUME f.sclust \notin Clusters PROVE FALSE
    OBVIOUS
  <2>1. s = <<>>
    BY EmptyChain
  <2>2. Len(<<>>) * SS = 0 /\ f.fsize \in Nat
    BY <1>1, Constants DEF Fil
  <2> HIDE DEF s
  <2> QED
    BY <1>4, <2>1, <2>2
<1>7. s[1] = f.sclust
  BY <1>6, ChainShape
<1> QED
  BY <1>2, <1>4, <1>5, <1>6, <1>7

(* At an edge before the end of the file there is a next cluster.          *)
LEMMA ReaderOnward ==
  ASSUME NEW F, Inv(vol, F), NEW f, Handled(vol, f), f.mode = "read", ~f.stale,
         f.fptr < f.fsize, f.fptr % SS = 0
  PROVE  /\ Onward(f) \in Clusters /\ Onward(f) = Chain(vol, f.sclust)[(f.fptr \div SS) + 1]
         /\ f.fptr = SS * (f.fptr \div SS) /\ f.fptr \div SS \in Nat
<1> DEFINE s == Chain(vol, f.sclust)
           L == Len(s)
           q == f.fptr \div SS
           r == f.fptr % SS
<1>0. SS \in Nat \ {0} /\ 0 \in 0 .. SS - 1
  BY Constants
<1>1. f.fptr \in Nat /\ f.fsize \in Nat /\ f.fsize # 0 /\ f.clust \in Clusters \cup {0, EOC}
  BY DEF Handled, Fil
<1>2. /\ s \in Seq(Clusters) /\ L \in Nat /\ f.fsize <= L * SS
      /\ f.sclust \in Clusters /\ s[1] = f.sclust
      /\ \A k \in 1 .. L - 1 : vol.fat[s[k]] = s[k + 1]
      /\ f.fptr # 0 => f.clust = s[((f.fptr - 1) \div SS) + 1]
  BY <1>1, ReaderChain
<1>3. f.fptr = SS * q + r /\ q \in Nat
  BY <1>0, <1>1, DivMod
<1>4. r = 0 /\ f.fptr < f.fsize
  OBVIOUS
<1> HIDE DEF q, r, s, L
<1>5. f.fptr = SS * q + 0 /\ SS * q \in Nat /\ SS * L \in Nat /\ L * SS = SS * L
  BY <1>0, <1>1, <1>2, <1>3, <1>4
<1>6. SS * q + 0 < SS * L
  BY ONLY <1>1, <1>2, <1>4, <1>5
<1>7. q < L
  BY ONLY <1>0, <1>2, <1>3, <1>6, RowBelow
<1>8. q + 1 \in 1 .. L /\ s[q + 1] \in Clusters
  <2>1. q + 1 \in 1 .. L
    BY ONLY <1>2, <1>3, <1>7
  <2> QED
    BY ONLY <1>2, <2>1 DEF L
<1>9. CASE f.fptr = 0
  <2>1. q = 0
    <3>1. SS * q = 0
      BY ONLY <1>5, <1>9
    <3> QED
      BY ONLY <1>0, <1>3, <3>1
  <2>2. Onward(f) = f.sclust
    BY <1>9 DEF Onward
  <2>3. Onward(f) = s[q + 1]
    BY ONLY <1>2, <2>1, <2>2
  <2> QED
    BY <1>3, <1>5, <1>8, <2>3 DEF q, s
<1>10. CASE f.fptr # 0
  <2>1. q # 0 /\ q - 1 \in Nat
    <3>1. q # 0
      BY ONLY <1>0, <1>5, <1>10
    <3> QED
      BY <1>3, <3>1
  <2>2. SS * (q - 1) + SS = SS * q
    BY <1>0, <1>3
  <2>3. (SS * (q - 1) + SS - 1) \div SS = q - 1
    BY <1>0, <2>1, Standing
  <2>4. SS * (q - 1) + SS - 1 = f.fptr - 1
    <3> DEFINE a == SS * (q - 1)
               b == SS * q
    <3>1. a \in Nat /\ b \in Nat /\ a + SS = b /\ f.fptr = b + 0
      <4>1. a \in Nat
        BY ONLY <1>0, <2>1
      <4>2. a + SS = b
        BY ONLY <2>2
      <4>3. b \in Nat /\ f.fptr = b + 0
        BY ONLY <1>5
      <4> QED
        BY ONLY <4>1, <4>2, <4>3
    <3> HIDE DEF a, b
    <3>2. a + SS - 1 = f.fptr - 1
      BY ONLY <1>0, <3>1
    <3> QED
      BY <3>2 DEF a
  <2>5. (f.fptr - 1) \div SS = q - 1
    BY ONLY <2>3, <2>4
  <2>6. f.clust = s[q]
    <3>1. (q - 1) + 1 = q
      BY <1>3
    <3> QED
      BY ONLY <1>2, <1>10, <2>5, <3>1
  <2>7. q \in 1 .. L - 1
    BY <1>2, <1>3, <1>7, <2>1
  <2>8. f.clust \in Clusters /\ vol.fat[f.clust] = s[q + 1]
    <3>1. s[q] \in Clusters
      BY <1>2, <2>7 DEF L
    <3> QED
      BY <1>2, <2>6, <2>7, <3>1
  <2>9. Onward(f) = s[q + 1]
    BY <1>10, <2>8 DEF Onward, GetFat
  <2> QED
    BY <1>3, <1>5, <1>8, <2>9 DEF q, s
<1> QED
  BY <1>9, <1>10

(* The next position is in the same sector, or in the next one.            *)
LEMMA NextStanding ==
  ASSUME NEW x \in Nat, NEW len \in Nat \ {0}, len <= SS - (x % SS)
  PROVE  /\ (x + len - 1) \div SS = x \div SS
         /\ x % SS # 0 => (x - 1) \div SS = x \div SS
<1> DEFINE q == x \div SS
           r == x % SS
<1>0. SS \in Nat \ {0}
  BY Constants
<1>1. x = SS * q + r /\ r \in 0 .. SS - 1 /\ q \in Nat
  BY <1>0, DivMod
<1>2. len <= SS - r
  OBVIOUS
<1> HIDE DEF q, r
<1> DEFINE y == SS * q
<1>3. y \in Nat /\ x = y + r
  BY <1>0, <1>1
<1>4. r + len \in Nat /\ r + len # 0 /\ r + len <= SS
  BY <1>0, <1>1, <1>2
<1>5. (SS * q + (r + len) - 1) \div SS = q
  BY ONLY <1>1, <1>4, Standing
<1>6. r # 0 => (SS * q + r - 1) \div SS = q
  <2> HAVE r # 0
  <2>1. r \in Nat /\ r <= SS
    BY <1>0, <1>1
  <2> QED
    BY ONLY <1>1, <2>1, r # 0, Standing
<1>7. SS * q + (r + len) - 1 = x + len - 1 /\ SS * q + r - 1 = x - 1
  <2> HIDE DEF y
  <2>1. y + (r + len) - 1 = x + len - 1 /\ y + r - 1 = x - 1
    BY <1>1, <1>3, <1>4
  <2> QED
    BY <2>1 DEF y
<1>8. (x + len - 1) \div SS = q
  BY ONLY <1>5, <1>7
<1>9. r # 0 => (x - 1) \div SS = q
  BY ONLY <1>6, <1>7
<1> QED
  BY <1>8, <1>9 DEF q, r

(* A reader that has moved is still a file object.                         *)
LEMMA FilLike ==
  ASSUME NEW f, Fil(f), f.mode = "read", NEW g, Like(f, g), g.fptr \in 0 .. MaxUnits,
         g.clust \in Clusters \cup {0, EOC}, g.dsect \in Clusters \cup {0}, g.error \in BOOLEAN
  PROVE  Fil(g) /\ g.mode = "read"
BY DEF Fil, Like

(* And knows where it stands.                                              *)
LEMMA ReaderMoves ==
  ASSUME NEW F, Inv(vol, F), NEW f, Handled(vol, f), f.mode = "read",
         NEW len \in Nat \ {0}, len <= SS - (f.fptr % SS), f.fptr + len <= f.fsize,
         NEW st, st.f = f, NEW t, Fetched(st, t, len, Onward(f)),
         f.fptr % SS # 0 \/ Onward(f) \in Clusters
  PROVE  Handled(vol, t.f) /\ t.f.mode = "read"
<1> DEFINE g == t.f
           cl == Onward(f)
           s == Chain(vol, f.sclust)
<1>1. Reading(vol, f) /\ Fil(f)
  BY DEF Handled
<1>2. /\ Like(f, g) /\ g.error = f.error /\ g.fptr = f.fptr + len
      /\ g.clust = IF f.fptr % SS = 0 THEN cl ELSE f.clust
      /\ g.dsect = f.dsect \/ (f.fptr % SS = 0 /\ g.dsect = cl)
  BY DEF Fetched
<1>3. /\ f.fptr \in Nat /\ f.fsize \in 0 .. MaxUnits /\ f.fsize \in Nat /\ f.error \in BOOLEAN
      /\ f.clust \in Clusters \cup {0, EOC} /\ f.dsect \in Clusters \cup {0}
  BY <1>1 DEF Fil
<1>4. f.fptr % SS # 0 \/ cl \in Clusters
  OBVIOUS
<1> HIDE DEF g, cl
<1>5. Fil(g) /\ g.mode = "read"
  <2>1. g.fptr \in 0 .. MaxUnits
    BY <1>2, <1>3, Constants
  <2>2. g.clust \in Clusters \cup {0, EOC} /\ g.dsect \in Clusters \cup {0} /\ g.error \in BOOLEAN
    BY <1>2, <1>3, <1>4
  <2> QED
    BY ONLY <1>1, <1>2, <2>1, <2>2, f.mode = "read", FilLike
<1>6. /\ g.path = f.path /\ g.slot = f.slot /\ g.sclust = f.sclust /\ g.fsize = f.fsize
      /\ g.stale = f.stale
  BY <1>2 DEF Like
<1>7. f.path \in Paths /\ g.fptr <= f.fsize
  BY <1>1, <1>2 DEF Reading
<1>8. ASSUME ~f.stale
      PROVE  /\ ~f.error /\ InDir(vol, f.path, f.slot)
             /\ At(vol, f.slot).clust = f.sclust /\ At(vol, f.slot).size = f.fsize
             /\ g.clust = s[((g.fptr - 1) \div SS) + 1]
  <2>1. f.fsize # 0 /\ f.fptr < f.fsize
    BY <1>3
  <2>2. /\ ~f.error /\ InDir(vol, f.path, f.slot)
        /\ At(vol, f.slot).clust = f.sclust /\ At(vol, f.slot).size = f.fsize
        /\ f.fptr # 0 => f.clust = s[((f.fptr - 1) \div SS) + 1]
    BY <1>1, <1>8, <2>1 DEF Reading
  <2>3. /\ (f.fptr + len - 1) \div SS = f.fptr \div SS
        /\ f.fptr % SS # 0 => (f.fptr - 1) \div SS = f.fptr \div SS
    BY <1>3, NextStanding
  <2>4. g.clust = s[(f.fptr \div SS) + 1]
    <3>1. CASE f.fptr % SS = 0
      <4>1. cl = s[(f.fptr \div SS) + 1]
        BY <1>8, <2>1, <3>1, ReaderOnward DEF cl
      <4> QED
        BY <1>2, <3>1, <4>1
    <3>2. CASE f.fptr % SS # 0
      <4>1. f.fptr # 0
        <5>1. SS \in Nat \ {0}
          BY Constants
        <5>2. 0 % SS = 0
          BY <5>1
        <5> QED
          BY <3>2, <5>2
      <4>2. g.clust = f.clust
        BY <1>2, <3>2
      <4>3. (f.fptr - 1) \div SS = f.fptr \div SS
        BY <2>3, <3>2
      <4> QED
        BY ONLY <2>2, <4>1, <4>2, <4>3
    <3> QED
      BY <3>1, <3>2
  <2>5. (g.fptr - 1) \div SS = f.fptr \div SS
    <3>1. g.fptr - 1 = f.fptr + len - 1
      BY <1>2, <1>3
    <3> QED
      BY ONLY <2>3, <3>1
  <2> QED
    BY ONLY <2>2, <2>4, <2>5
<1>9. Reading(vol, g)
  BY ONLY <1>2, <1>6, <1>7, <1>8 DEF Reading
<1>10. Handled(vol, g)
  BY <1>5, <1>9 DEF Handled
<1> QED
  BY <1>5, <1>10 DEF g

(* The state in which the loop of f_read begins.                           *)
ReadStart(h, n) == [f |-> fp[h], out |-> <<>>, left |-> n]

(* The recursive function in ReadLoop is what its definition says.         *)
LEMMA ReadLoopDef ==
  ASSUME NEW h, NEW n \in Nat
  PROVE  \E pass : /\ pass[0] = ReadStart(h, n) /\ ReadLoop(h, n) = pass[n]
                   /\ \A k \in 1 .. n : pass[k] = ReadTurn(pass[k - 1])
<1> DEFINE st0 == ReadStart(h, n)
           Is(g, m) == g = [k \in 0 .. m |-> IF k = 0 THEN st0 ELSE ReadTurn(g[k - 1])]
           S == {m \in Nat : \E g : Is(g, m)}
<1>a. ReadLoop(h, n) = LET pass[k \in 0 .. n] == IF k = 0 THEN st0 ELSE ReadTurn(pass[k - 1]) IN pass[n]
  BY DEF ReadLoop, ReadStart
<1> HIDE DEF st0
<1>1. 0 \in S
  <2>1. Is([k \in 0 .. 0 |-> st0], 0)
    OBVIOUS
  <2> QED
    BY <2>1
<1>2. ASSUME NEW m \in Nat, m \in S PROVE m + 1 \in S
  <2>1. PICK g : Is(g, m)
    BY <1>2
  <2> DEFINE x == [k \in 0 .. m + 1 |-> IF k = m + 1 THEN ReadTurn(g[m]) ELSE g[k]]
  <2>2. ASSUME NEW k \in 0 .. m + 1
        PROVE  x[k] = IF k = 0 THEN st0 ELSE ReadTurn(x[k - 1])
    <3>1. CASE k = m + 1
      <4>1. k # 0 /\ k - 1 = m /\ m \in 0 .. m + 1 /\ m # m + 1
        BY <3>1
      <4> QED
        BY <3>1, <4>1
    <3>2. CASE k # m + 1 /\ k # 0
      <4>1. k \in 0 .. m /\ k - 1 \in 0 .. m + 1 /\ k - 1 # m + 1 /\ k - 1 \in 0 .. m
        BY <3>2
      <4>2. x[k] = g[k] /\ x[k - 1] = g[k - 1]
        BY <3>2, <4>1
      <4>3. g[k] = ReadTurn(g[k - 1])
        BY <2>1, <3>2, <4>1
      <4> QED
        BY <3>2, <4>2, <4>3
    <3>3. CASE k = 0 /\ k # m + 1
      <4>1. x[k] = g[k] /\ g[k] = st0
        BY <2>1, <3>3
      <4> QED
        BY <3>3, <4>1
    <3> QED
      BY <3>1, <3>2, <3>3
  <2>3. Is(x, m + 1)
    BY <2>2
  <2> HIDE DEF x, Is
  <2> QED
    BY <2>3
<1>3. n \in S
  <2> HIDE DEF S
  <2> QED
    BY <1>1, <1>2, CountUp
<1>4. \E g : g = [k \in 0 .. n |-> IF k = 0 THEN st0 ELSE ReadTurn(g[k - 1])]
  BY <1>3
<1> DEFINE pass == CHOOSE g : g = [k \in 0 .. n |-> IF k = 0 THEN st0 ELSE ReadTurn(g[k - 1])]
<1>5. pass = [k \in 0 .. n |-> IF k = 0 THEN st0 ELSE ReadTurn(pass[k - 1])]
  <2> HIDE DEF pass
  <2> QED
    BY <1>4 DEF pass
<1>6. ReadLoop(h, n) = pass[n]
  BY <1>a
<1> HIDE DEF pass
<1>7. pass[0] = st0 /\ \A k \in 1 .. n : pass[k] = ReadTurn(pass[k - 1])
  BY <1>5
<1> QED
  BY <1>6, <1>7 DEF st0

(* After k passes of the loop of f_read.                                   *)
Reached(st) ==
  /\ Shelved(st) /\ Handled(vol, st.f) /\ st.f.mode = "read"
  /\ st.left \in Nat /\ st.f.fptr + st.left <= st.f.fsize

(* One pass more.                                                          *)
LEMMA ReachedTurn ==
  ASSUME NEW F, Inv(vol, F), NEW st, Reached(st)
  PROVE  Reached(ReadTurn(st))
<1> DEFINE t == ReadTurn(st)
           f == st.f
           len == Pass(f, st.left)
           cl == Onward(f)
<1>1. /\ Shelved(st) /\ Handled(vol, f) /\ f.mode = "read" /\ Fil(f) /\ Reading(vol, f)
      /\ st.left \in Nat /\ f.fptr + st.left <= f.fsize
  BY DEF Reached, Handled
<1>2. f.fptr \in Nat /\ f.fsize \in Nat /\ f.fptr \in 0 .. MaxUnits
  BY <1>1 DEF Fil
<1>3. CASE st.left = 0
  <2>1. t = st
    BY <1>3 DEF ReadTurn
  <2> QED
    BY <2>1
<1>4. CASE st.left # 0
  <2>1. st.left \in Nat \ {0}
    BY <1>1, <1>4
  <2>2. /\ len \in 1 .. st.left /\ len <= SS - (f.fptr % SS)
    BY <1>2, <2>1, PassIs
  <2> HIDE DEF len, cl, t
  <2>3. /\ f.fptr % SS = 0 /\ cl \notin Clusters => Refused(st, t)
        /\ f.fptr % SS # 0 \/ cl \in Clusters => Fetched(st, t, len, cl)
    BY <1>1, <1>4, ReadTurnIs DEF len, cl, t
  <2>4. CASE f.fptr % SS = 0 /\ cl \notin Clusters
    <3>1. Refused(st, t)
      BY <2>3, <2>4
    <3>2. /\ Shelved(t) /\ Like(f, t.f) /\ t.left = 0 /\ t.f.error = TRUE
          /\ t.f.fptr = f.fptr /\ t.f.clust = f.clust /\ t.f.dsect = f.dsect
      BY <3>1 DEF Refused
    <3>3. f.stale
      <4>1. f.fptr < f.fsize
        BY <1>1, <1>2, <2>1
      <4> QED
        BY <1>1, <2>4, <4>1, ReaderOnward DEF cl, Fil
    <3> DEFINE g == t.f
    <3> HIDE DEF g, f
    <3>4. Fil(g) /\ g.mode = "read"
      <4>1. f.clust \in Clusters \cup {0, EOC} /\ f.dsect \in Clusters \cup {0}
        BY <1>1 DEF Fil
      <4>2. g.fptr \in 0 .. MaxUnits /\ g.clust \in Clusters \cup {0, EOC} /\ g.dsect \in Clusters \cup {0} /\ g.error \in BOOLEAN
        BY <1>2, <3>2, <4>1 DEF g
      <4>3. Like(f, g)
        BY <3>2 DEF g
      <4> QED
        BY ONLY <1>1, <4>2, <4>3, FilLike
    <3>5. g.stale /\ g.path \in Paths /\ g.fptr <= g.fsize /\ g.fsize = f.fsize
      <4>1. g.stale = f.stale /\ g.path = f.path /\ g.fsize = f.fsize /\ g.fptr = f.fptr
        BY <3>2 DEF Like, g
      <4>2. f.path \in Paths /\ f.fptr <= f.fsize
        BY <1>1 DEF Reading
      <4> QED
        BY ONLY <3>3, <4>1, <4>2
    <3>6. Reading(vol, g)
      BY <3>5 DEF Reading
    <3>7. Handled(vol, g)
      BY <3>4, <3>6 DEF Handled
    <3>8. g.fptr + 0 <= g.fsize
      BY <1>2, <3>2, <3>5 DEF g
    <3> QED
      BY <3>2, <3>4, <3>7, <3>8 DEF Reached, g, t
  <2>5. CASE f.fptr % SS # 0 \/ cl \in Clusters
    <3>1. Fetched(st, t, len, Onward(f))
      BY <2>3, <2>5 DEF cl
    <3>2. len \in Nat \ {0} /\ f.fptr + len <= f.fsize /\ (f.fptr % SS # 0 \/ Onward(f) \in Clusters)
      BY <1>1, <1>2, <2>1, <2>2, <2>5 DEF cl
    <3>3. st.f = f
      OBVIOUS
    <3> HIDE DEF f
    <3>4. Handled(vol, t.f) /\ t.f.mode = "read"
      BY ONLY <1>1, <2>2, <3>1, <3>2, <3>3, Inv(vol, F), ReaderMoves
    <3>5. Shelved(t) /\ t.left = st.left - len /\ t.f.fptr = f.fptr + len /\ t.f.fsize = f.fsize
      BY <3>1, <3>3 DEF Fetched, Like
    <3>6. t.left \in Nat /\ t.f.fptr + t.left <= t.f.fsize
      BY <1>1, <1>2, <2>1, <2>2, <3>5
    <3> QED
      BY <3>4, <3>5, <3>6 DEF Reached, t
  <2> QED
    BY <2>4, <2>5
<1> QED
  BY <1>3, <1>4

(* After as many passes as there were units to read.                       *)
LEMMA ReadLoopIs ==
  ASSUME Inv(vol, fp), NEW h \in Handles, fp[h].mode = "read", NEW n \in Nat,
         fp[h].fptr + n <= fp[h].fsize
  PROVE  Reached(ReadLoop(h, n))
<1>1. PICK pass : /\ pass[0] = ReadStart(h, n) /\ ReadLoop(h, n) = pass[n]
                  /\ \A k \in 1 .. n : pass[k] = ReadTurn(pass[k - 1])
  BY ReadLoopDef
<1>2. Handled(vol, fp[h])
  BY DEF Inv, Opened
<1>3. Reached(pass[0])
  <2> DEFINE st == pass[0]
  <2>1. st = [f |-> fp[h], out |-> <<>>, left |-> n]
    BY <1>1 DEF ReadStart
  <2> HIDE DEF st
  <2>2. Shelved(st) /\ st.f = fp[h] /\ st.left = n
    BY <2>1 DEF Shelved
  <2>3. Reached(st)
    BY <1>2, <2>2 DEF Reached
  <2> QED
    BY <2>3 DEF st
<1> DEFINE S == {k \in Nat : k <= n => Reached(pass[k])}
<1>4. 0 \in S
  BY <1>3
<1>5. ASSUME NEW k \in Nat, k \in S PROVE k + 1 \in S
  <2> SUFFICES ASSUME k + 1 <= n PROVE Reached(pass[k + 1])
    OBVIOUS
  <2>1. k < n /\ k + 1 \in 1 .. n /\ (k + 1) - 1 = k
    OBVIOUS
  <2>2. Reached(pass[k])
    BY <1>5, <2>1
  <2>3. pass[k + 1] = ReadTurn(pass[k])
    BY <1>1, <2>1
  <2> QED
    BY <2>2, <2>3, ReachedTurn
<1>6. n \in S
  <2> HIDE DEF S
  <2> QED
    BY <1>4, <1>5, CountUp
<1> QED
  BY <1>1, <1>6

(* What was read is no part of the invariant.                              *)
LEMMA SeenFil ==
  ASSUME NEW v, NEW f, Handled(v, f), f.mode = "read", NEW x, NEW g, g = [f EXCEPT !.seen = x]
  PROVE  Handled(v, g) /\ g.mode = "read"
<1>1. f = [mode |-> f.mode, slot |-> f.slot, sclust |-> f.sclust, clust |-> f.clust,
          fptr |-> f.fptr, fsize |-> f.fsize, buf |-> f.buf, dsect |-> f.dsect,
          dirty |-> f.dirty, error |-> f.error, path |-> f.path, ver |-> f.ver,
          fed |-> f.fed, seen |-> f.seen, stale |-> f.stale]
  BY DEF Handled, Fil
<1>2. /\ g.mode = f.mode /\ g.slot = f.slot /\ g.sclust = f.sclust /\ g.clust = f.clust
      /\ g.fptr = f.fptr /\ g.fsize = f.fsize /\ g.dsect = f.dsect /\ g.buf = f.buf
      /\ g.dirty = f.dirty /\ g.error = f.error /\ g.path = f.path /\ g.ver = f.ver
      /\ g.fed = f.fed /\ g.seen = x /\ g.stale = f.stale
      /\ g = [mode |-> g.mode, slot |-> g.slot, sclust |-> g.sclust, clust |-> g.clust,
          fptr |-> g.fptr, fsize |-> g.fsize, buf |-> g.buf, dsect |-> g.dsect,
          dirty |-> g.dirty, error |-> g.error, path |-> g.path, ver |-> g.ver,
          fed |-> g.fed, seen |-> g.seen, stale |-> g.stale]
  BY ONLY <1>1, g = [f EXCEPT !.seen = x]
<1>3. Fil(g)
  BY ONLY <1>2, Handled(v, f) DEF Handled, Fil
<1>4. Reading(v, g)
  BY ONLY <1>2, Handled(v, f), f.mode = "read" DEF Handled, Reading
<1> QED
  BY ONLY <1>2, <1>3, <1>4, f.mode = "read" DEF Handled

(* f_read keeps the invariant and changes nothing but its reader           *)
(* (ff.cpp:2415-2506).                                                     *)
LEMMA ReadKeeps ==
  ASSUME Inv(vol, fp), NEW h \in Handles, NEW n \in ReadSizes, Read(h, n)
  PROVE  /\ Inv(vol, fp') /\ vol' = vol /\ made' = made /\ fp[h].mode = "read"
         /\ fp'[h].mode = "read" /\ \A k \in Handles : k # h => fp'[k] = fp[k]
<1> DEFINE m == Min({n, fp[h].fsize - fp[h].fptr})
           st == ReadLoop(h, m)
           x == IF st.f.error THEN <<>> ELSE st.out
           g == [st.f EXCEPT !.seen = x]
<1>1. Reading(vol, fp[h]) /\ Fil(fp[h]) /\ fp = [k \in Handles |-> fp[k]] /\ fp[h].mode = "read"
  BY DEF Read, Readers, Inv, Opened, Handled
<1>2. fp[h].fptr \in Nat /\ fp[h].fsize \in Nat /\ n \in Nat /\ fp[h].fptr <= fp[h].fsize
  BY <1>1, VolumeConstants DEF Fil, Reading
<1>3. m \in Nat /\ fp[h].fptr + m <= fp[h].fsize
  <2> DEFINE y == fp[h].fsize - fp[h].fptr
  <2>1. y \in Nat
    BY <1>2
  <2>2. Min({n, y}) \in Nat /\ Min({n, y}) <= y
    <3> HIDE DEF y
    <3> QED
      BY <1>2, <2>1, MinOfTwo
  <2> QED
    BY <1>2, <2>2
<1>4. vol' = vol /\ made' = made /\ fp' = [fp EXCEPT ![h] = g]
  BY DEF Read
<1> HIDE DEF m
<1>5. Reached(st)
  BY <1>1, <1>3, ReadLoopIs
<1> HIDE DEF st
<1>6. Handled(vol, st.f) /\ st.f.mode = "read"
  BY <1>5 DEF Reached
<1>7. g = [st.f EXCEPT !.seen = x]
  OBVIOUS
<1> HIDE DEF g, x
<1>8. Handled(vol, g) /\ g.mode = "read"
  BY ONLY <1>6, <1>7, SeenFil
<1>9. Inv(vol, [fp EXCEPT ![h] = g])
  BY <1>1, <1>8, CloseReadKeeps
<1> QED
  BY <1>1, <1>4, <1>8, <1>9

(* The inductive invariant, over the variables.                            *)
IInv == Inv(vol, fp) /\ Counted(fp) /\ made \in 0 .. MaxMade

(* No writer was left short by a step, unless no cluster is free.          *)
NoneShort ==
  \A k \in Handles :
     fp[k].mode = "write" /\ fp'[k].mode = "write"
       /\ fp'[k].fed - fp'[k].fptr > fp[k].fed - fp[k].fptr => NoneFree(vol')

(* What every step does.                                                   *)
Stepped == IInv' /\ NoneShort

(* A step that leaves the writers alone, but may open or close one.        *)
LEMMA WritersLeft ==
  ASSUME Counted(fp), Inv(vol, fp), Inv(vol', fp'), made' \in 0 .. MaxMade,
         \A k \in Handles : fp'[k].mode = "write" =>
            fp'[k] = fp[k] \/ (fp[k].mode # "write" /\ fp'[k].fptr <= fp'[k].fed)
  PROVE  Stepped
<1>1. \A k \in Handles : fp[k].fptr \in Nat /\ fp[k].fed \in Nat
  BY Constants DEF Inv, Opened, Handled, Fil
<1>2. Counted(fp')
  BY DEF Counted
<1>3. NoneShort
  BY <1>1 DEF NoneShort
<1> QED
  BY <1>2, <1>3 DEF Stepped, IInv

(* One lemma for each call. f_mkdir (ff.cpp:3316-3380).                    *)
LEMMA MkdirStep ==
  ASSUME IInv, NEW d \in Dirs, Mkdir(d)
  PROVE  Stepped
<1> DEFINE r == CreateChain(vol, 0)
           t == [r.v EXCEPT !.disk[r.cl] = [BlankTable EXCEPT ![0] = Dot, ![1] = Dot]]
           a == Alloc(t, 0)
<1>1. /\ made < MaxMade /\ made' = made + 1 /\ r.cl > 1 /\ fp' = fp
      /\ vol' = IF a.slot = NoSlot THEN RemoveChain(t, r.cl)
                ELSE Put(a.v, a.slot, Entry(d, TRUE, r.cl, 0))
  BY DEF Mkdir
<1>2. Dotted(r, t)
  BY DEF Dotted
<1>3. Entered(t, r.cl, d, vol')
  BY <1>1 DEF Entered
<1>4. r = CreateChain(vol, 0)
  OBVIOUS
<1> HIDE DEF r, t, a
<1>5. Inv(vol, fp) /\ Counted(fp) /\ made \in 0 .. MaxMade /\ r.cl > 1
  BY <1>1 DEF IInv
<1>6. Inv(vol', fp)
  BY ONLY <1>2, <1>3, <1>4, <1>5, d \in Dirs, MkdirKeeps
<1>7. Inv(vol', fp') /\ made' \in 0 .. MaxMade
  <2>1. fp' = fp /\ made < MaxMade /\ made' = made + 1
    BY <1>1
  <2>2. made' \in 0 .. MaxMade
    BY ONLY <2>1, <1>5, Constants
  <2>3. Inv(vol', fp')
    BY ONLY <2>1, <1>6
  <2> QED
    BY <2>2, <2>3
<1>8. \A k \in Handles : fp'[k] = fp[k]
  BY <1>1
<1> QED
  BY ONLY <1>5, <1>7, <1>8, WritersLeft

(* f_unlink of a directory (ff.cpp:3247-3307).                             *)
LEMMA RmdirStep ==
  ASSUME IInv, NEW d \in Dirs, Rmdir(d)
  PROVE  Stepped
<1> DEFINE s == Find(vol, 0, d)
<1>1. /\ s # NoSlot /\ Empty(vol, At(vol, s).clust)
      /\ vol' = RemoveChain(Put(vol, s, Deleted), At(vol, s).clust)
      /\ fp' = fp /\ made' = made
  BY DEF Rmdir
<1>2. s \in LiveDirs(vol)
  BY <1>1, DirFound
<1>3. Unlinked(vol, s, vol')
  BY <1>1 DEF Unlinked
<1>4. Inv(vol, fp) /\ Counted(fp) /\ made \in 0 .. MaxMade
  BY DEF IInv
<1> HIDE DEF s
<1>5. Inv(vol', fp)
  BY ONLY <1>1, <1>2, <1>3, <1>4, RmdirKeeps
<1>6. Inv(vol', fp') /\ made' \in 0 .. MaxMade
  BY <1>1, <1>4, <1>5
<1>7. \A k \in Handles : fp'[k] = fp[k]
  BY <1>1
<1> QED
  BY ONLY <1>4, <1>6, <1>7, WritersLeft

(* f_unlink of a file (ff.cpp:3247-3307).                                  *)
LEMMA UnlinkStep ==
  ASSUME IInv, NEW p \in Paths, Unlink(p)
  PROVE  Stepped
<1> DEFINE F == Disturbed(fp, p)
           s == Lookup(vol, p)
<1>1. /\ Unshared(p) /\ s # NoSlot /\ fp' = Disturb(p) /\ made' = made
      /\ vol' = RemoveChain(Put(vol, s, Deleted), At(vol, s).clust)
  BY DEF Unlink
<1>2. fp' = F
  BY <1>1 DEF Disturb, Disturbed, Readers
<1>3. Inv(vol, fp) /\ Counted(fp) /\ made \in 0 .. MaxMade
  BY DEF IInv
<1>4. Unlinked(vol, s, vol')
  BY <1>1 DEF Unlinked
<1>5. InDir(vol, p, s)
  BY <1>1, <1>3, LookupIs, InvFacts
<1> HIDE DEF F
<1>6. /\ Inv(vol, F)
      /\ \A k \in Handles : /\ F[k].mode = fp[k].mode /\ F[k].path = fp[k].path
                            /\ F[k].mode = "read" /\ F[k].path = p => F[k].stale
                            /\ F[k].mode # "read" => F[k] = fp[k]
  BY <1>3, DisturbKeeps DEF F
<1>7. \A k \in Handles : F[k].mode = "write" => F[k].path # p
  BY <1>1, <1>6 DEF Unshared, Writers
<1>8. \A k \in Handles : Matters(F[k]) => F[k].path # p
  BY <1>6, <1>7 DEF Matters
<1> HIDE DEF s
<1>9. Inv(vol', F)
  BY ONLY <1>4, <1>5, <1>6, <1>8, p \in Paths, UnlinkKeeps
<1>10. Inv(vol', fp') /\ made' \in 0 .. MaxMade
  BY <1>1, <1>2, <1>3, <1>9
<1>11. \A k \in Handles : fp'[k].mode = "write" => fp'[k] = fp[k]
  BY <1>2, <1>6
<1> QED
  BY ONLY <1>3, <1>10, <1>11, WritersLeft

(* f_open for writing (ff.cpp:2283-2406).                                  *)
LEMMA OpenWriteStep ==
  ASSUME IInv, NEW h \in Handles, NEW p \in Paths, OpenWrite(h, p)
  PROVE  Stepped
<1> DEFINE F == Disturbed(fp, p)
<1>1. Inv(vol, fp) /\ Counted(fp) /\ made \in 0 .. MaxMade
  BY DEF IInv
<1>2. Inv(vol', fp') /\ made' \in 0 .. MaxMade
  BY <1>1, OpenWriteKeeps
<1>3. PICK s, n : fp' = [F EXCEPT ![h] =
                    [Closed EXCEPT !.mode = "write", !.slot = s, !.path = p, !.ver = n]]
  <2>1. Disturb(p) = F
    BY DEF Disturb, Disturbed, Readers
  <2> HIDE DEF F
  <2> QED
    BY <2>1 DEF OpenWrite
<1>4. fp[h].mode = "closed"
  BY DEF OpenWrite
<1> HIDE DEF F
<1>5. /\ F = [k \in Handles |-> F[k]]
      /\ \A k \in Handles : /\ F[k].mode = fp[k].mode
                            /\ F[k].mode # "read" => F[k] = fp[k]
  BY <1>1, DisturbKeeps DEF F
<1>6. fp'[h].fptr <= fp'[h].fed
  <2>1. fp'[h] = [Closed EXCEPT !.mode = "write", !.slot = s, !.path = p, !.ver = n]
    BY <1>3, <1>5
  <2>2. fp'[h].fptr = 0 /\ fp'[h].fed = 0
    BY <2>1 DEF Closed
  <2> QED
    BY <2>2
<1>7. \A k \in Handles : k # h => fp'[k] = F[k]
  BY <1>3, <1>5
<1>8. \A k \in Handles : fp'[k].mode = "write" =>
            fp'[k] = fp[k] \/ (fp[k].mode # "write" /\ fp'[k].fptr <= fp'[k].fed)
  BY <1>4, <1>5, <1>6, <1>7
<1> QED
  BY ONLY <1>1, <1>2, <1>8, WritersLeft

(* f_open for reading (ff.cpp:2283-2406).                                  *)
LEMMA OpenReadStep ==
  ASSUME IInv, NEW h \in Handles, NEW p \in Paths, OpenRead(h, p)
  PROVE  Stepped
<1> DEFINE s == Lookup(vol, p)
           g == [Closed EXCEPT !.mode = "read", !.slot = s, !.path = p,
                               !.sclust = At(vol, s).clust, !.fsize = At(vol, s).size]
<1>1. /\ fp[h].mode = "closed" /\ s # NoSlot /\ fp' = [fp EXCEPT ![h] = g]
      /\ vol' = vol /\ made' = made
  BY DEF OpenRead
<1>2. Inv(vol, fp) /\ Counted(fp) /\ made \in 0 .. MaxMade /\ fp = [k \in Handles |-> fp[k]]
  BY DEF IInv, Inv, Opened
<1>3. InDir(vol, p, s)
  BY <1>1, <1>2, LookupIs, InvFacts
<1>4. g.mode = "read"
  BY DEF Closed
<1> HIDE DEF s
<1>5. Inv(vol, [fp EXCEPT ![h] = g])
  BY ONLY <1>1, <1>2, <1>3, h \in Handles, p \in Paths, OpenReadKeeps DEF g
<1> HIDE DEF g
<1>6. Inv(vol', fp') /\ made' \in 0 .. MaxMade
  BY <1>1, <1>2, <1>5
<1>7. \A k \in Handles : fp'[k].mode = "write" => fp'[k] = fp[k]
  BY <1>1, <1>2, <1>4
<1> QED
  BY ONLY <1>2, <1>6, <1>7, WritersLeft

(* f_close of a writer: the last sector, then the entry                    *)
(* (ff.cpp:2635-2718).                                                     *)
LEMMA CloseWriteStep ==
  ASSUME IInv, NEW h \in Handles, CloseWrite(h)
  PROVE  Stepped
<1> DEFINE v == Flush(vol, fp[h])
<1>1. /\ fp[h].mode = "write" /\ fp' = [fp EXCEPT ![h] = Closed] /\ made' = made
      /\ vol' = Put(v, fp[h].slot, [At(v, fp[h].slot) EXCEPT !.size = fp[h].fsize,
                                                          !.clust = fp[h].sclust])
  BY DEF CloseWrite, Writers
<1>2. Inv(vol, fp) /\ Counted(fp) /\ made \in 0 .. MaxMade /\ fp = [k \in Handles |-> fp[k]]
  BY DEF IInv, Inv, Opened
<1>3. Inv(v, fp)
  BY <1>1, <1>2, FlushKeeps
<1> HIDE DEF v
<1>4. Synced(v, fp[h], vol')
  BY <1>1 DEF Synced
<1>5. Inv(vol', [fp EXCEPT ![h] = Closed])
  BY ONLY <1>1, <1>3, <1>4, h \in Handles, SyncKeeps
<1>6. Inv(vol', fp') /\ made' \in 0 .. MaxMade
  BY <1>1, <1>2, <1>5
<1>7. \A k \in Handles : fp'[k].mode = "write" => fp'[k] = fp[k]
  BY <1>1, <1>2 DEF Closed
<1> QED
  BY ONLY <1>2, <1>6, <1>7, WritersLeft

(* f_close of a reader (ff.cpp:2683-2718).                                 *)
LEMMA CloseReadStep ==
  ASSUME IInv, NEW h \in Handles, CloseRead(h)
  PROVE  Stepped
<1>1. fp[h].mode = "read" /\ fp' = [fp EXCEPT ![h] = Closed] /\ vol' = vol /\ made' = made
  BY DEF CloseRead, Readers
<1>2. Inv(vol, fp) /\ Counted(fp) /\ made \in 0 .. MaxMade /\ fp = [k \in Handles |-> fp[k]]
  BY DEF IInv, Inv, Opened
<1>3. Handled(vol, Closed) /\ Closed.mode = "closed"
  BY ClosedFil
<1>4. fp[h].mode # "write" /\ Closed.mode # "write"
  BY <1>1, <1>3
<1>5. Inv(vol, [fp EXCEPT ![h] = Closed])
  BY ONLY <1>2, <1>3, <1>4, h \in Handles, CloseReadKeeps
<1>6. Inv(vol', fp') /\ made' \in 0 .. MaxMade
  BY <1>1, <1>2, <1>5
<1>7. \A k \in Handles : fp'[k].mode = "write" => fp'[k] = fp[k]
  BY <1>1, <1>2, <1>4
<1> QED
  BY ONLY <1>2, <1>6, <1>7, WritersLeft

(* f_write (ff.cpp:2516-2626).                                             *)
LEMMA WriteStep ==
  ASSUME IInv, NEW h \in Handles, NEW n \in WriteSizes, Write(h, n)
  PROVE  Stepped
<1>1. Inv(vol, fp) /\ Counted(fp) /\ made \in 0 .. MaxMade
  BY DEF IInv
<1>2. /\ Inv(vol', fp') /\ Counted(fp') /\ made' = made
      /\ \A k \in Handles : k # h => fp'[k] = fp[k]
      /\ fp'[h].fed - fp'[h].fptr > fp[h].fed - fp[h].fptr => NoneFree(vol')
  BY <1>1, WriteKeeps
<1>3. \A k \in Handles : fp[k].fptr \in Nat /\ fp[k].fed \in Nat
  BY <1>1, Constants DEF Inv, Opened, Handled, Fil
<1>4. NoneShort
  BY <1>2, <1>3 DEF NoneShort
<1> QED
  BY <1>1, <1>2, <1>4 DEF Stepped, IInv

(* f_read (ff.cpp:2415-2506).                                              *)
LEMMA ReadStep ==
  ASSUME IInv, NEW h \in Handles, NEW n \in ReadSizes, Read(h, n)
  PROVE  Stepped
<1>1. Inv(vol, fp) /\ Counted(fp) /\ made \in 0 .. MaxMade
  BY DEF IInv
<1>2. /\ Inv(vol, fp') /\ vol' = vol /\ made' = made /\ fp'[h].mode = "read"
      /\ \A k \in Handles : k # h => fp'[k] = fp[k]
  BY <1>1, ReadKeeps
<1>3. Inv(vol', fp') /\ made' \in 0 .. MaxMade
  BY <1>1, <1>2
<1>4. \A k \in Handles : fp'[k].mode = "write" => fp'[k] = fp[k]
  BY <1>2
<1> QED
  BY ONLY <1>1, <1>3, <1>4, WritersLeft

(* Every step.                                                             *)
LEMMA NextStep ==
  ASSUME IInv, [Next]_vars
  PROVE  Stepped
<1>1. CASE Call
  BY <1>1, MkdirStep, RmdirStep, UnlinkStep, OpenWriteStep, OpenReadStep, WriteStep, ReadStep,
     CloseWriteStep, CloseReadStep DEF Call
<1>2. CASE UNCHANGED vars
  <2>1. vol' = vol /\ fp' = fp /\ made' = made
    BY <1>2 DEF vars
  <2>2. Inv(vol, fp) /\ Counted(fp) /\ made \in 0 .. MaxMade
    BY DEF IInv
  <2>3. Inv(vol', fp') /\ made' \in 0 .. MaxMade /\ \A k \in Handles : fp'[k] = fp[k]
    BY <2>1, <2>2
  <2> QED
    BY ONLY <2>2, <2>3, WritersLeft
<1> QED
  BY <1>1, <1>2 DEF Next

(* The volume as f_mkfs has left it: no directories, nothing taken,        *)
(* nothing open.                                                           *)
LEMMA InitInv ==
  ASSUME Init
  PROVE  IInv
<1>1. /\ vol = [fat  |-> [c \in Clusters |-> 0], last |-> 0,
                disk |-> [c \in Clusters \cup {0} |->
                          IF c = 0 THEN [i \in 0 .. NRoot - 1 |-> Zero] ELSE NoUnits]]
      /\ fp = [h \in Handles |-> Closed] /\ made = 0
  BY DEF Init
<1>2. /\ vol.fat = [c \in Clusters |-> 0] /\ vol.last = 0
      /\ vol.disk = [c \in Clusters \cup {0} |->
                          IF c = 0 THEN [i \in 0 .. NRoot - 1 |-> Zero] ELSE NoUnits]
  BY <1>1
<1>3. Volume(vol)
  <2>1. vol.fat \in [Clusters -> Clusters \cup {0, EOC}] /\ vol.last \in 0 .. NFat - 1
    BY <1>2, Constants
  <2>2. vol.disk = [c \in Clusters \cup {0} |-> vol.disk[c]]
    BY <1>2
  <2>3. vol = [fat |-> vol.fat, last |-> vol.last, disk |-> vol.disk]
    BY <1>1, <1>2
  <2> QED
    BY <2>1, <2>2, <2>3 DEF Volume
<1>4. vol.disk[0] = [i \in 0 .. NRoot - 1 |-> Zero]
  BY <1>2
<1>5. \A s \in DirSlots : At(vol, s) = Zero
  <2> SUFFICES ASSUME NEW i \in 0 .. NRoot - 1 PROVE At(vol, <<0, i>>) = Zero
    BY DEF DirSlots
  <2>1. At(vol, <<0, i>>) = vol.disk[0][i]
    BY DEF At
  <2>2. vol.disk[0][i] = Zero
    BY ONLY <1>4, i \in 0 .. NRoot - 1
  <2> QED
    BY <2>1, <2>2
<1>6. LiveDirs(vol) = {} /\ \A s \in DirSlots : RootCell(At(vol, s))
  BY <1>5, Kinds DEF LiveDirs, RootCell
<1>7. LiveFiles(vol) = {}
  BY <1>6 DEF LiveFiles
<1>8. Tree(vol)
  BY <1>3, <1>4, <1>6 DEF Tree
<1>9. \A h \in Handles : fp[h] = Closed
  BY <1>1
<1>10. Closed.mode = "closed" /\ \A h \in Handles : fp[h].mode = "closed"
  BY <1>9, ClosedFil
<1>11. ChainsOf(vol, fp) = {}
  BY <1>6, <1>7, <1>10 DEF ChainsOf
<1>12. Apart(vol, ChainsOf(vol, fp))
  BY <1>2, <1>11 DEF Apart
<1>13. Fits(vol)
  BY <1>7 DEF Fits
<1>14. Opened(vol, fp)
  <2>1. \A h \in Handles : Handled(vol, fp[h])
    BY <1>9, ClosedFil
  <2>2. fp = [h \in Handles |-> fp[h]]
    BY <1>1
  <2> QED
    BY <1>10, <2>1, <2>2 DEF Opened
<1>15. Counted(fp) /\ made \in 0 .. MaxMade
  BY <1>1, <1>10, Constants DEF Counted
<1> QED
  BY <1>8, <1>12, <1>13, <1>14, <1>15 DEF Inv, IInv

-----------------------------------------------------------------------------
(* A file object without its units.                                        *)
LEMMA MaskedFil ==
  ASSUME NEW f, Fil(f), NEW g, g = [f EXCEPT !.buf = NoUnits, !.seen = <<>>]
  PROVE  g \in FileObject
<1>1. f = [mode |-> f.mode, slot |-> f.slot, sclust |-> f.sclust, clust |-> f.clust,
          fptr |-> f.fptr, fsize |-> f.fsize, buf |-> f.buf, dsect |-> f.dsect,
          dirty |-> f.dirty, error |-> f.error, path |-> f.path, ver |-> f.ver,
          fed |-> f.fed, seen |-> f.seen, stale |-> f.stale]
  BY DEF Fil
<1> DEFINE none == NoUnits
<1>2. g = [f EXCEPT !.buf = none, !.seen = <<>>] /\ none \in {NoUnits}
  OBVIOUS
<1> HIDE DEF none
<1>3. g = [mode |-> f.mode, slot |-> f.slot, sclust |-> f.sclust, clust |-> f.clust,
           fptr |-> f.fptr, fsize |-> f.fsize, buf |-> none, dsect |-> f.dsect,
           dirty |-> f.dirty, error |-> f.error, path |-> f.path, ver |-> f.ver,
           fed |-> f.fed, seen |-> <<>>, stale |-> f.stale]
  BY ONLY <1>1, <1>2
<1> QED
  BY <1>2, <1>3 DEF Fil, FileObject

(* The invariant holds what VolumeSound says.                              *)
LEMMA SoundVolume ==
  ASSUME IInv
  PROVE  VolumeSound
<1> DEFINE C == ChainsOf(vol, fp)
<1>1. Tree(vol) /\ Apart(vol, C) /\ Opened(vol, fp) /\ Volume(vol)
  BY DEF IInv, Inv, Tree
<1>2. TypeOK
  <2>1. \A h \in Handles : Fil(fp[h])
    BY <1>1 DEF Opened, Handled
  <2>2. \A h \in Handles : [fp[h] EXCEPT !.buf = NoUnits, !.seen = <<>>] \in FileObject
    BY <2>1, MaskedFil
  <2>3. vol.fat \in [Clusters -> Clusters \cup {0, EOC}] /\ vol.last \in 0 .. NFat - 1
    BY <1>1 DEF Volume
  <2>4. DOMAIN vol.disk = Clusters \cup {0}
    BY <1>1 DEF Volume
  <2> QED
    BY <2>2, <2>3, <2>4 DEF TypeOK
<1>3. Chains = C
  BY DEF Chains
<1> HIDE DEF C
<1>4. /\ \A o \in C : o[2] \in Clusters \cup {0}
      /\ \A o \in C : o[2] # 0 => Sound(vol, o[2])
      /\ \A o, p \in C : o # p => ClustersOf(vol, o[2]) \cap ClustersOf(vol, p[2]) = {}
      /\ \A c \in Clusters : vol.fat[c] # 0 <=> \E o \in C : c \in ClustersOf(vol, o[2])
  BY <1>1 DEF Apart
<1>5. NoCrossLink
  <2>1. ASSUME NEW o \in C, o[2] # 0
        PROVE  LET chain == Chain(vol, o[2]) IN
               chain # <<>> /\ IsInjective(chain) /\ vol.fat[chain[Len(chain)]] = EOC
    <3>1. o[2] \in Clusters /\ Sound(vol, o[2])
      BY <1>4, <2>1
    <3> QED
      BY ONLY <3>1, SoundMeans
  <2> QED
    BY <1>3, <1>4, <2>1 DEF NoCrossLink
<1>6. NoLostClusters
  <2>1. \A o \in C : ClustersOf(vol, o[2]) \subseteq Clusters
    BY ClustersIn
  <2>2. {c \in Clusters : vol.fat[c] # 0} = UNION {ClustersOf(vol, o[2]) : o \in C}
    BY <1>4, <2>1
  <2> QED
    BY <1>3, <2>2 DEF NoLostClusters
<1> QED
  BY <1>2, <1>5, <1>6 DEF VolumeSound

(* And what ErrorsOnlyStale says: neither a writer nor a reader that is    *)
(* not stale is in error.                                                  *)
LEMMA StaleErrors ==
  ASSUME IInv
  PROVE  ErrorsOnlyStale
<1>1. \A h \in Handles : Handled(vol, fp[h])
  BY DEF IInv, Inv, Opened
<1>2. ASSUME NEW h \in Handles, fp[h].error PROVE fp[h].mode = "read" /\ fp[h].stale
  <2>1. Handled(vol, fp[h])
    BY <1>1
  <2>2. fp[h].mode \in {"closed", "read", "write"} /\ fp[h].mode # "closed"
    BY <1>2, <2>1 DEF Handled, Fil
  <2>3. fp[h].mode # "write"
    BY <1>2, <2>1 DEF Handled, Writing
  <2>4. fp[h].mode = "read" => fp[h].stale
    BY <1>2, <2>1 DEF Handled, Reading
  <2> QED
    BY <2>2, <2>3, <2>4
<1> QED
  BY <1>2 DEF ErrorsOnlyStale, Readers

-----------------------------------------------------------------------------
(* The tree, the table and the open files fit each other in every state,   *)
(* for any volume, any number of file objects and calls of any size: the   *)
(* chains of directories, files and writers are apart and hold all that is *)
(* taken, no file is longer than its chain, and every file object stands   *)
(* in its chain.                                                           *)
LEMMA Inductive == Spec => []IInv
<1>1. Init => IInv
  BY InitInv
<1>2. IInv /\ [Next]_vars => IInv'
  BY NextStep DEF Stepped
<1> QED
  BY <1>1, <1>2, PTL DEF Spec

(* No cluster is in two files, none is lost, and every chain ends,         *)
(* whatever the order of creates, deletes, opens, closes, reads and        *)
(* writes, and however often the volume is full in the middle of one       *)
(* (ff.cpp:923-1026).                                                      *)
THEOREM VolumeIsSound == Spec => []VolumeSound
<1>1. IInv => VolumeSound
  BY SoundVolume
<1> QED
  BY <1>1, Inductive, PTL

(* No writer ever gets an error, and a reader only if its path was deleted *)
(* or created again under it (ff.cpp:2454-2459, 2558: FR_INT_ERR).         *)
THEOREM ErrorsAreStale == Spec => []ErrorsOnlyStale
<1>1. IInv => ErrorsOnlyStale
  BY StaleErrors
<1> QED
  BY <1>1, Inductive, PTL

(* f_write takes less than it is given only in the step that finds the     *)
(* volume full, which the worker does not look at (ff.cpp:2557,            *)
(* ramdisk.cpp:713).                                                       *)
THEOREM ShortIsFull == Spec => ShortOnlyWhenFull
<1> DEFINE Full == \A h \in Writers : fp'[h].mode = "write" /\ fp'[h].fed - fp'[h].fptr > Dropped(h)
                                      => \A c \in Clusters : vol'.fat[c] # 0
<1>1. IInv /\ [Next]_vars => Full
  <2> SUFFICES ASSUME IInv, [Next]_vars PROVE Full
    OBVIOUS
  <2>1. NoneShort
    BY NextStep DEF Stepped
  <2> QED
    BY <2>1 DEF NoneShort, NoneFree, Writers, Dropped
<1>2. ShortOnlyWhenFull <=> [][Full]_vars
  BY DEF ShortOnlyWhenFull
<1> HIDE DEF Full
<1> QED
  BY <1>1, <1>2, Inductive, PTL DEF Spec
=============================================================================
