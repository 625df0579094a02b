----------------------- MODULE FatVolumeStore_proofs -----------------------
(***************************************************************************)
(* FatVolume implements FileStore, for any volume, any paths, any number   *)
(* of file objects, calls of any size and sectors of any size: what a      *)
(* reader gets is what the last writer of its path was able to write.      *)
(*                                                                         *)
(* The invariant of FatVolume_proofs says where the chains are; Content,   *)
(* the one of this module, what is in their sectors and who is found at    *)
(* which path:                                                             *)
(*   Named   no name is twice in the root or in a directory, and nothing   *)
(*           in the root is behind a blank slot, so that dir_find finds    *)
(*           what is there, and it only;                                   *)
(*   Filled  a file has written units only, up to its size;                *)
(*   Tended  a writer stands at the end of its chain, with its last sector *)
(*           in its buffer; a reader that was not disturbed has a sector   *)
(*           of its file in its buffer.                                    *)
(* Each call keeps it, is an operation of the store on what it is called   *)
(* for, and changes no other file.                                         *)
(***************************************************************************)
EXTENDS FatVolume_proofs

-----------------------------------------------------------------------------
(* Units by sector and cell.                                               *)

(* The k-th unit of a file is in this sector of its chain, in this cell.   *)
SectorOf(k) == ((k - 1) \div SS) + 1
CellOf(k) == (k - 1) % SS
UnitAt(v, c, k) == v.disk[Chain(v, c)[SectorOf(k)]][CellOf(k)]

(* Where the units of L sectors are.                                       *)
LEMMA UnitPlace ==
  ASSUME NEW L \in Nat, NEW k \in Nat \ {0}, k <= L * SS
  PROVE  /\ SectorOf(k) \in 1 .. L /\ CellOf(k) \in 0 .. SS - 1
         /\ k - 1 = SS * (SectorOf(k) - 1) + CellOf(k)
<1> DEFINE q == (k - 1) \div SS
           r == (k - 1) % SS
<1>1. SS \in Nat \ {0} /\ k - 1 \in Nat
  BY Constants
<1>2. k - 1 = SS * q + r /\ r \in 0 .. SS - 1 /\ q \in Nat
  BY <1>1, DivMod
<1>3. SectorOf(k) = q + 1 /\ CellOf(k) = r
  BY DEF SectorOf, CellOf
<1> DEFINE x == SS * L
<1>4. x = L * SS /\ x \in Nat
  BY <1>1
<1> HIDE DEF q, r
<1>5. q < L <=> SS * q + r < x
  BY ONLY <1>1, <1>2, L \in Nat, RowBelow
<1>6. k - 1 < x
  <2> HIDE DEF x
  <2> QED
    BY <1>4
<1>7. q < L
  BY <1>2, <1>5, <1>6
<1>8. q + 1 - 1 = q /\ q + 1 \in 1 .. L
  BY <1>2, <1>7
<1> QED
  BY <1>2, <1>3, <1>8

(* And there is one place only.                                            *)
LEMMA UnitPlaced ==
  ASSUME NEW q \in Nat, NEW r \in 0 .. SS - 1, NEW k \in Nat \ {0}, k - 1 = SS * q + r
  PROVE  SectorOf(k) = q + 1 /\ CellOf(k) = r
<1>1. SS \in Nat \ {0}
  BY Constants
<1> QED
  BY <1>1, DivModIs DEF SectorOf, CellOf

(* The units of a file that fits its chain.                                *)
LEMMA UnitsAre ==
  ASSUME NEW v, NEW c, NEW n \in Nat, n <= Len(Chain(v, c)) * SS
  PROVE  /\ ChainUnits(v, c, n) = [k \in 1 .. n |-> UnitAt(v, c, k)]
         /\ \A k \in 1 .. n : /\ SectorOf(k) \in 1 .. Len(Chain(v, c)) /\ CellOf(k) \in 0 .. SS - 1
                              /\ k - 1 = SS * (SectorOf(k) - 1) + CellOf(k)
                              /\ Chain(v, c)[SectorOf(k)] \in ClustersOf(v, c)
<1> DEFINE s == Chain(v, c)
           L == Len(s)
           x == L * SS
<1>1. L \in Nat /\ x \in Nat
  <2>1. L \in Nat
    BY ChainShape, Constants
  <2> QED
    BY <2>1, Constants
<1>2. ASSUME NEW k \in 1 .. n
      PROVE  /\ SectorOf(k) \in 1 .. L /\ CellOf(k) \in 0 .. SS - 1
             /\ k - 1 = SS * (SectorOf(k) - 1) + CellOf(k)
             /\ s[SectorOf(k)] \in ClustersOf(v, c) /\ ~(k > x)
  <2>1. k <= x /\ k \in Nat \ {0}
    <3>1. n <= x
      OBVIOUS
    <3> HIDE DEF x
    <3> QED
      BY <1>1, <3>1
  <2>2. /\ SectorOf(k) \in 1 .. L /\ CellOf(k) \in 0 .. SS - 1
        /\ k - 1 = SS * (SectorOf(k) - 1) + CellOf(k)
    BY <1>1, <2>1, UnitPlace
  <2>3. ~(k > x)
    <3> HIDE DEF x
    <3> QED
      BY <1>1, <2>1
  <2>4. s[SectorOf(k)] \in ClustersOf(v, c)
    BY <2>2, ClustersIn
  <2> QED
    BY <2>2, <2>3, <2>4
<1>3. ChainUnits(v, c, n) = [k \in 1 .. n |-> IF k > x THEN Zero
                               ELSE v.disk[s[((k - 1) \div SS) + 1]][(k - 1) % SS]]
  BY DEF ChainUnits
<1>4. ChainUnits(v, c, n) = [k \in 1 .. n |-> IF k > x THEN Zero ELSE UnitAt(v, c, k)]
  BY <1>3 DEF UnitAt, SectorOf, CellOf
<1> HIDE DEF s, L, x
<1>5. ChainUnits(v, c, n) = [k \in 1 .. n |-> UnitAt(v, c, k)]
  BY <1>2, <1>4
<1> QED
  BY <1>2, <1>5 DEF s, L

(* The units of a file depend on its chain and its sectors.                *)
LEMMA UnitsSame ==
  ASSUME NEW v, NEW w, NEW c, NEW n \in Nat, Chain(w, c) = Chain(v, c),
         \A x \in ClustersOf(v, c) : w.disk[x] = v.disk[x]
  PROVE  ChainUnits(w, c, n) = ChainUnits(v, c, n)
<1> DEFINE s == Chain(v, c)
           L == Len(s)
           x == L * SS
<1>1. L \in Nat /\ x \in Nat
  <2>1. L \in Nat
    BY ChainShape, Constants
  <2> QED
    BY <2>1, Constants
<1>2. ASSUME NEW k \in 1 .. n, ~(k > x)
      PROVE  w.disk[s[((k - 1) \div SS) + 1]] = v.disk[s[((k - 1) \div SS) + 1]]
  <2>1. k <= x /\ k \in Nat \ {0}
    <3> HIDE DEF x
    <3> QED
      BY <1>1, <1>2
  <2>2. SectorOf(k) \in 1 .. L
    BY <1>1, <2>1, UnitPlace
  <2>3. s[SectorOf(k)] \in ClustersOf(v, c)
    BY <2>2, ClustersIn
  <2> QED
    BY <2>3 DEF SectorOf
<1>3. ChainUnits(v, c, n) = [k \in 1 .. n |-> IF k > x THEN Zero
                               ELSE v.disk[s[((k - 1) \div SS) + 1]][(k - 1) % SS]]
  BY DEF ChainUnits
<1>4. ChainUnits(w, c, n) = [k \in 1 .. n |-> IF k > x THEN Zero
                               ELSE w.disk[s[((k - 1) \div SS) + 1]][(k - 1) % SS]]
  BY DEF ChainUnits
<1> HIDE DEF s, L, x
<1> QED
  BY <1>2, <1>3, <1>4

(* An empty file.                                                          *)
LEMMA NoneOf ==
  ASSUME NEW v, NEW c
  PROVE  ChainUnits(v, c, 0) = <<>>
<1>1. 1 .. 0 = {}
  OBVIOUS
<1> QED
  BY <1>1 DEF ChainUnits

(* Units are added behind those of a file.                                 *)
LEMMA UnitsGrow ==
  ASSUME NEW v, NEW c, NEW n \in Nat, n <= Len(Chain(v, c)) * SS,
         NEW w, NEW d, NEW m \in Nat, n + m <= Len(Chain(w, d)) * SS,
         \A k \in 1 .. n : UnitAt(w, d, k) = UnitAt(v, c, k),
         NEW s, s = [i \in 1 .. m |-> s[i]], \A i \in 1 .. m : UnitAt(w, d, n + i) = s[i]
  PROVE  ChainUnits(w, d, n + m) = ChainUnits(v, c, n) \o s
<1> DEFINE a == ChainUnits(v, c, n)
           b == ChainUnits(w, d, n + m)
<1>1. a = [k \in 1 .. n |-> UnitAt(v, c, k)]
  BY UnitsAre
<1>2. b = [k \in 1 .. n + m |-> UnitAt(w, d, k)]
  <2>1. n + m \in Nat
    OBVIOUS
  <2> QED
    BY ONLY <2>1, n + m <= Len(Chain(w, d)) * SS, UnitsAre
<1> HIDE DEF a, b
<1>3. Len(a) = n /\ Len(s) = m
  BY <1>1
<1>4. a \o s = [k \in 1 .. n + m |-> IF k <= n THEN a[k] ELSE s[k - n]]
  BY <1>3
<1>5. ASSUME NEW k \in 1 .. n + m PROVE b[k] = IF k <= n THEN a[k] ELSE s[k - n]
  <2>1. CASE k <= n
    BY <1>1, <1>2, <2>1
  <2>2. CASE k > n
    <3>1. k - n \in 1 .. m /\ n + (k - n) = k
      BY <2>2
    <3> QED
      BY <1>2, <2>2, <3>1
  <2> QED
    BY <2>1, <2>2
<1> QED
  BY <1>2, <1>4, <1>5 DEF a, b

(* A writer stands in the last sector of its chain, or behind it; inside a *)
(* sector that one is dirty, and no other is.                              *)
AtEnd(v, f) ==
  /\ f.sclust # 0 => (Len(Chain(v, f.sclust)) - 1) * SS < f.fptr
  /\ f.fptr % SS # 0 => f.dirty
  /\ f.dirty => f.sclust # 0 /\ f.dsect = f.clust

(* A writer whose chain is sound.                                          *)
Appending(v, f) ==
  /\ Volume(v) /\ Fil(f) /\ Writing(v, f) /\ AtEnd(v, f)
  /\ f.sclust # 0 => Sound(v, f.sclust)

(* The last sector of a writer.                                            *)
LEMMA LastSector ==
  ASSUME NEW v, NEW f, Appending(v, f), NEW s, s = Chain(v, f.sclust), NEW L, L = Len(s)
  PROVE  /\ L \in Nat /\ f.fptr \in Nat /\ f.fptr <= L * SS /\ s \in Seq(Clusters)
         /\ \A i, j \in 1 .. L : s[i] = s[j] => i = j
         /\ f.sclust = 0 => L = 0 /\ f.fptr = 0
         /\ f.sclust # 0 => L >= 1 /\ f.clust = s[L] /\ f.fptr # 0 /\ (f.fptr - 1) \div SS = L - 1
                            /\ SS * (L - 1) < f.fptr
         /\ \A k \in 1 .. f.fptr : /\ SectorOf(k) \in 1 .. L /\ CellOf(k) \in 0 .. SS - 1
                                   /\ k - 1 = SS * (SectorOf(k) - 1) + CellOf(k)
                                   /\ s[SectorOf(k)] \in ClustersOf(v, f.sclust)
<1>0. SS \in Nat \ {0}
  BY Constants
<1>1. s \in Seq(Clusters) /\ L \in Nat /\ (f.sclust \notin Clusters => s = <<>>)
      /\ (f.sclust \in Clusters => s # <<>>)
  BY ChainShape, Constants
<1>2. f.fptr \in Nat /\ f.sclust \in Clusters \cup {0} /\ f.fptr <= L * SS
      /\ (f.sclust # 0 => f.fptr > 0 /\ f.clust = s[L] /\ (L - 1) * SS < f.fptr)
  BY DEF Appending, Fil, Writing, AtEnd
<1>3. f.sclust = 0 => L = 0 /\ f.fptr = 0
  <2> SUFFICES ASSUME f.sclust = 0 PROVE L = 0 /\ f.fptr = 0
    OBVIOUS
  <2>1. L = 0
    BY <1>1, Constants
  <2>2. L * SS = 0
    BY <2>1, <1>0
  <2> QED
    BY <2>1, <2>2, <1>2
<1>4. \A k \in 1 .. f.fptr : /\ SectorOf(k) \in 1 .. L /\ CellOf(k) \in 0 .. SS - 1
                             /\ k - 1 = SS * (SectorOf(k) - 1) + CellOf(k)
                             /\ s[SectorOf(k)] \in ClustersOf(v, f.sclust)
  BY <1>2, UnitsAre
<1>5. f.sclust # 0 => L >= 1 /\ (f.fptr - 1) \div SS = L - 1 /\ SS * (L - 1) < f.fptr
  <2> SUFFICES ASSUME f.sclust # 0 PROVE L >= 1 /\ (f.fptr - 1) \div SS = L - 1 /\ SS * (L - 1) < f.fptr
    OBVIOUS
  <2>1. L >= 1
    BY <1>1, <1>2
  <2> DEFINE q == L - 1
             y == SS * q
             r == f.fptr - 1 - y
  <2>2. q \in Nat /\ y \in Nat /\ (L - 1) * SS = y /\ L * SS = y + SS
    BY <1>0, <1>1, <2>1
  <2> HIDE DEF y
  <2>3. r \in 0 .. SS - 1 /\ f.fptr - 1 = y + r /\ y < f.fptr
    BY <1>0, <1>2, <2>2
  <2> HIDE DEF q, r
  <2>4. (SS * q + r) \div SS = q
    BY <1>0, <2>2, <2>3, DivModIs
  <2>5. (f.fptr - 1) \div SS = q
    BY <2>3, <2>4 DEF y
  <2> QED
    BY <2>1, <2>3, <2>5 DEF q, y
<1>6. \A i, j \in 1 .. L : s[i] = s[j] => i = j
  <2>1. CASE f.sclust = 0
    BY <1>3, <2>1
  <2>2. CASE f.sclust # 0
    BY <2>2 DEF Appending, Sound, IsChain
  <2> QED
    BY <2>1, <2>2
<1> QED
  BY <1>1, <1>2, <1>3, <1>4, <1>5, <1>6

(* What the flush of a sector changes.                                     *)
LEMMA FlushIs ==
  ASSUME NEW v, Volume(v), NEW f, f.dirty => f.dsect \in Clusters
  PROVE  LET w == Flush(v, f) IN
         /\ Volume(w) /\ w.fat = v.fat /\ w.last = v.last
         /\ ~f.dirty => w = v
         /\ \A x \in Clusters \cup {0} : w.disk[x] = IF f.dirty /\ x = f.dsect THEN f.buf ELSE v.disk[x]
<1>1. CASE ~f.dirty
  BY <1>1 DEF Flush
<1>2. CASE f.dirty
  <2> DEFINE c == f.dsect
             b == f.buf
             w == Flush(v, f)
  <2>1. w = [v EXCEPT !.disk[c] = b] /\ c \in Clusters \cup {0}
    BY <1>2 DEF Flush
  <2> HIDE DEF c, b, w
  <2>2. /\ Volume(w) /\ w.fat = v.fat /\ w.last = v.last
        /\ \A d \in Clusters \cup {0} : d # c => w.disk[d] = v.disk[d]
        /\ w.disk[c] = b
    BY ONLY <2>1, Volume(v), SectorIs
  <2> QED
    BY <1>2, <2>2 DEF c, b, w
<1> QED
  BY <1>1, <1>2

(* What a writer has in its file is what would be there after f_sync.      *)
LEMMA FlushedUnits ==
  ASSUME NEW v, NEW f, Appending(v, f)
  PROVE  WrittenBy(v, f) = ChainUnits(Flush(v, f), f.sclust, f.fptr)
<1> DEFINE s == Chain(v, f.sclust)
           L == Len(s)
           w == Flush(v, f)
<1>1. /\ L \in Nat /\ f.fptr \in Nat /\ f.fptr <= L * SS /\ s \in Seq(Clusters)
      /\ \A i, j \in 1 .. L : s[i] = s[j] => i = j
      /\ f.sclust # 0 => L >= 1 /\ f.clust = s[L] /\ f.fptr # 0 /\ (f.fptr - 1) \div SS = L - 1
      /\ \A k \in 1 .. f.fptr : SectorOf(k) \in 1 .. L /\ s[SectorOf(k)] \in ClustersOf(v, f.sclust)
  BY LastSector
<1>2. Volume(v) /\ (f.dirty => f.sclust # 0 /\ f.dsect = f.clust)
  BY DEF Appending, AtEnd
<1>3. /\ w.fat = v.fat /\ (f.dirty => f.dsect = s[L] /\ L >= 1)
      /\ \A x \in Clusters \cup {0} : w.disk[x] = IF f.dirty /\ x = f.dsect THEN f.buf ELSE v.disk[x]
  <2>1. f.dirty => f.dsect \in Clusters /\ f.dsect = s[L] /\ L >= 1
    BY <1>1, <1>2
  <2> QED
    BY <1>2, <2>1, FlushIs
<1>4. Chain(w, f.sclust) = s
  BY <1>3, ChainByTable
<1>5. ChainUnits(w, f.sclust, f.fptr) = [k \in 1 .. f.fptr |-> w.disk[s[SectorOf(k)]][CellOf(k)]]
  <2>1. ChainUnits(w, f.sclust, f.fptr) = [k \in 1 .. f.fptr |-> UnitAt(w, f.sclust, k)]
    BY <1>1, <1>4, UnitsAre
  <2> QED
    BY <2>1, <1>4 DEF UnitAt
<1>6. ChainUnits(v, f.sclust, f.fptr) = [k \in 1 .. f.fptr |-> v.disk[s[SectorOf(k)]][CellOf(k)]]
  <2>1. ChainUnits(v, f.sclust, f.fptr) = [k \in 1 .. f.fptr |-> UnitAt(v, f.sclust, k)]
    BY <1>1, UnitsAre
  <2> QED
    BY <2>1 DEF UnitAt
<1>7. WrittenBy(v, f) = [k \in 1 .. f.fptr |->
         IF f.dirty /\ SectorOf(k) - 1 = (f.fptr - 1) \div SS THEN f.buf[CellOf(k)]
         ELSE ChainUnits(v, f.sclust, f.fptr)[k]]
  <2>1. \A k \in 1 .. f.fptr : (k - 1) \div SS = SectorOf(k) - 1 /\ (k - 1) % SS = CellOf(k)
    <3>1. SS \in Nat \ {0}
      BY Constants
    <3> QED
      BY <3>1, <1>1 DEF SectorOf, CellOf
  <2>2. WrittenBy(v, f) = [k \in 1 .. f.fptr |->
         IF f.dirty /\ (k - 1) \div SS = (f.fptr - 1) \div SS THEN f.buf[(k - 1) % SS]
         ELSE ChainUnits(v, f.sclust, f.fptr)[k]]
    BY DEF WrittenBy
  <2> QED
    BY <2>1, <2>2
<1>8. ASSUME NEW k \in 1 .. f.fptr
      PROVE  w.disk[s[SectorOf(k)]] =
                IF f.dirty /\ SectorOf(k) - 1 = (f.fptr - 1) \div SS THEN f.buf
                ELSE v.disk[s[SectorOf(k)]]
  <2>1. SectorOf(k) \in 1 .. L /\ s[SectorOf(k)] \in Clusters
    BY <1>1
  <2>2. CASE ~f.dirty
    BY <1>3, <2>1, <2>2
  <2>3. CASE f.dirty
    <3>1. (f.fptr - 1) \div SS = L - 1 /\ f.dsect = s[L] /\ L \in 1 .. L
      BY <1>1, <1>2, <1>3, <2>3
    <3> HIDE DEF s, L, w
    <3>2. s[SectorOf(k)] = s[L] <=> SectorOf(k) = L
      BY <1>1, <2>1, <3>1
    <3>3. SectorOf(k) - 1 = L - 1 <=> SectorOf(k) = L
      BY <1>1, <2>1
    <3> QED
      BY <1>3, <2>1, <2>3, <3>1, <3>2, <3>3
  <2> QED
    BY <2>2, <2>3
<1> HIDE DEF s, L, w
<1> QED
  BY <1>5, <1>6, <1>7, <1>8 DEF w

-----------------------------------------------------------------------------
(* Names: what dir_find finds.                                             *)

(* In the root as well nothing follows a zero; no name is there twice, in  *)
(* the root or in a directory.                                             *)
Ends(v) ==
  \A k, l \in 0 .. NRoot - 1 : k < l /\ At(v, <<0, k>>) = Zero => At(v, <<0, l>>) = Zero
DirOnce(v) == \A d, e \in LiveDirs(v) : At(v, d).name = At(v, e).name => d = e
FileOnce(v) == \A p \in Paths : \A x, y : InDir(v, p, x) /\ InDir(v, p, y) => x = y
Named(v) == Ends(v) /\ DirOnce(v) /\ FileOnce(v)

(* The names in the root.                                                  *)
DirNames(v) == {At(v, d).name : d \in LiveDirs(v)}

(* dir_find stops at the first slot with a name or a zero.                 *)
LEMMA FindFirst ==
  ASSUME NEW v, NEW c, NEW name, NEW n \in Nat, DOMAIN Slots(v, c) = 1 .. n,
         \A j \in 1 .. n : Slots(v, c)[j] # NoSlot,
         NEW k \in 1 .. n, IsEntry(At(v, Slots(v, c)[k])), At(v, Slots(v, c)[k]).name = name,
         \A j \in 1 .. k - 1 : At(v, Slots(v, c)[j]) # Zero
  PROVE  Find(v, c, name) # NoSlot
<1> DEFINE S == Slots(v, c)
           stops == {j \in DOMAIN S : LET cell == At(v, S[j]) IN
                       cell = Zero \/ (IsEntry(cell) /\ cell.name = name)}
           m == Min(stops)
           r == Find(v, c, name)
<1>1. r = IF stops = {} \/ At(v, S[m]) = Zero THEN NoSlot ELSE S[m]
  BY DEF Find
<1>2. k \in stops
  OBVIOUS
<1>3. stops \in SUBSET (1 .. n)
  OBVIOUS
<1>4. m \in 1 .. n /\ m <= k
  <2> HIDE DEF stops
  <2> QED
    BY <1>2, <1>3, FirstOf
<1>5. At(v, S[m]) # Zero
  <2>1. CASE m = k
    BY <2>1, Kinds
  <2>2. CASE m # k
    <3>1. m \in 1 .. k - 1
      BY <1>4, <2>2
    <3> QED
      BY <3>1
  <2> QED
    BY <2>1, <2>2
<1> HIDE DEF m, stops, r
<1> QED
  BY <1>1, <1>2, <1>4, <1>5 DEF r

(* What is in the root is found there.                                     *)
LEMMA RootFinds ==
  ASSUME NEW v, Tree(v), Ends(v), NEW d \in LiveDirs(v)
  PROVE  Find(v, 0, At(v, d).name) # NoSlot
<1>1. Slots(v, 0) = [k \in 1 .. NRoot |-> <<0, k - 1>>] /\ NRoot \in Nat
  BY RootSlots, Constants
<1>2. d = <<0, d[2]>> /\ d[2] \in 0 .. NRoot - 1 /\ IsEntry(At(v, d))
  BY DirFacts
<1> DEFINE k == d[2] + 1
<1>3. k \in 1 .. NRoot /\ k - 1 = d[2]
  BY <1>2, <1>1
<1>4. Slots(v, 0)[k] = d
  BY <1>1, <1>2, <1>3
<1>5. \A j \in 1 .. k - 1 : At(v, Slots(v, 0)[j]) # Zero
  <2> SUFFICES ASSUME NEW j \in 1 .. k - 1, At(v, Slots(v, 0)[j]) = Zero PROVE FALSE
    OBVIOUS
  <2>1. j - 1 \in 0 .. NRoot - 1 /\ j - 1 < d[2] /\ j \in 1 .. NRoot
    BY <1>1, <1>3
  <2>2. At(v, <<0, j - 1>>) = Zero
    BY <1>1, <2>1
  <2>3. At(v, <<0, d[2]>>) = Zero
    BY <1>2, <2>1, <2>2 DEF Ends
  <2> QED
    BY <1>2, <2>3, Kinds
<1>6. \A j \in 1 .. NRoot : Slots(v, 0)[j] # NoSlot
  BY <1>1 DEF NoSlot
<1>7. DOMAIN Slots(v, 0) = 1 .. NRoot
  BY <1>1
<1> HIDE DEF k
<1> QED
  BY <1>1, <1>2, <1>3, <1>4, <1>5, <1>6, <1>7, FindFirst

(* And so is what is in a directory.                                       *)
LEMMA FileFinds ==
  ASSUME NEW v, NEW c, Directory(v, c), NEW s \in FilesIn(v, c)
  PROVE  Find(v, c, At(v, s).name) # NoSlot
<1> DEFINE S == Slots(v, c)
<1>0. c \in Clusters /\ Sound(v, c)
  BY DEF Directory
<1>1. /\ Len(S) \in Nat /\ DOMAIN S = 1 .. Len(S)
      /\ \A j \in 1 .. Len(S) : S[j] # NoSlot
  <2>1. /\ Len(S) \in Nat /\ DOMAIN S = 1 .. Len(S) /\ ToSet(S) = {S[k] : k \in 1 .. Len(S)}
        /\ \A x \in ToSet(S) : x # NoSlot
    BY <1>0, SlotKnown
  <2> QED
    BY <2>1
<1>2. PICK k : Placed(v, c, k, s)
  BY FilePlaced
<1>3. k \in 1 .. Len(S) /\ s = S[k] /\ \A j \in 1 .. k - 1 : At(v, S[j]) # Zero
  BY <1>1, <1>2 DEF Placed
<1>4. IsEntry(At(v, s))
  BY DEF FilesIn
<1> QED
  BY <1>1, <1>3, <1>4, FindFirst

(* follow_path finds every file that is there.                             *)
LEMMA LookupFinds ==
  ASSUME NEW v, Tree(v), Named(v), NEW p \in Paths, NEW s, InDir(v, p, s)
  PROVE  Lookup(v, p) = s /\ s # NoSlot
<1>1. PICK d \in LiveDirs(v) : At(v, d).name = p[1] /\ s \in FilesIn(v, At(v, d).clust) /\ At(v, s).name = p[2]
  BY DEF InDir
<1> DEFINE e == Find(v, 0, p[1])
<1>2. e # NoSlot /\ e \in LiveDirs(v) /\ At(v, e).name = p[1]
  <2>1. e # NoSlot
    BY <1>1, RootFinds DEF Named
  <2> QED
    BY <2>1, DirFound
<1>3. e = d
  BY <1>1, <1>2 DEF Named, DirOnce
<1>4. Lookup(v, p) = Find(v, At(v, d).clust, p[2])
  BY <1>2, <1>3 DEF Lookup
<1>5. Directory(v, At(v, d).clust)
  BY DirFacts
<1>6. Lookup(v, p) # NoSlot
  BY <1>1, <1>4, <1>5, FileFinds
<1>7. InDir(v, p, Lookup(v, p))
  BY <1>6, LookupIs
<1> QED
  BY <1>6, <1>7 DEF Named, FileOnce

(* The directories that dir_find finds.                                    *)
LEMMA DirsAre ==
  ASSUME NEW v, Tree(v), Named(v)
  PROVE  {d \in Dirs : Find(v, 0, d) # NoSlot} = DirNames(v)
<1>1. ASSUME NEW d \in Dirs, Find(v, 0, d) # NoSlot PROVE d \in DirNames(v)
  BY <1>1, DirFound DEF DirNames
<1>2. ASSUME NEW s \in LiveDirs(v) PROVE At(v, s).name \in Dirs /\ Find(v, 0, At(v, s).name) # NoSlot
  BY <1>2, DirFacts, RootFinds DEF Named
<1> QED
  BY <1>1, <1>2 DEF DirNames

(* The units of the file that an entry stands for.                         *)
Body(v, s) == ChainUnits(v, At(v, s).clust, At(v, s).size)

(* What is in the volume at a path.                                        *)
LEMMA FileIs ==
  ASSUME NEW v, Tree(v), Named(v), NEW p \in Paths
  PROVE  /\ \A s : InDir(v, p, s) => FileAt(v, p) = Body(v, s)
         /\ (\A s : ~InDir(v, p, s)) => FileAt(v, p) = <<[kind |-> "none"]>>
<1>1. ASSUME NEW s, InDir(v, p, s) PROVE FileAt(v, p) = Body(v, s)
  BY <1>1, LookupFinds DEF FileAt, Body
<1>2. ASSUME \A s : ~InDir(v, p, s) PROVE FileAt(v, p) = <<[kind |-> "none"]>>
  BY <1>2, LookupIs DEF FileAt
<1> QED
  BY <1>1, <1>2

(* Who was not touched was there before.                                   *)
LEMMA InDirBack ==
  ASSUME NEW v, NEW w, Tree(v), Tree(w), NEW F, NEW s, Changed(v, w, F, s),
         NEW p, NEW x, InDir(w, p, x), x # s
  PROVE  InDir(v, p, x)
<1>1. PICK d \in LiveDirs(w) : At(w, d).name = p[1] /\ x \in FilesIn(w, At(w, d).clust) /\ At(w, x).name = p[2]
  BY DEF InDir
<1>2. x \in LiveFiles(w)
  BY LiveFacts
<1>3. x \in LiveFiles(v) /\ At(w, x) = At(v, x)
  BY <1>2 DEF Changed
<1>4. PICK e \in LiveDirs(v) : x \in FilesIn(v, At(v, e).clust)
  BY <1>3, LiveFacts
<1> DEFINE q == <<At(v, e).name, At(v, x).name>>
<1>5. q[1] = At(v, e).name /\ q[2] = At(v, x).name
  OBVIOUS
<1> HIDE DEF q
<1>6. InDir(v, q, x)
  BY <1>4, <1>5 DEF InDir
<1>7. InDir(w, q, x)
  BY <1>6 DEF Changed
<1>8. PICK b \in LiveDirs(w) : At(w, b).name = q[1] /\ x \in FilesIn(w, At(w, b).clust)
  BY <1>7 DEF InDir
<1>9. b = d
  BY <1>1, <1>8, OneDir
<1>10. q[1] = p[1] /\ q[2] = p[2]
  BY <1>1, <1>3, <1>5, <1>8, <1>9
<1> QED
  BY <1>6, <1>10 DEF InDir

(* Files stay apart by their names.                                        *)
LEMMA FilesNamed ==
  ASSUME NEW v, NEW w, Tree(v), Tree(w), FileOnce(v), NEW F, NEW s, Changed(v, w, F, s),
         \A p \in Paths : InDir(w, p, s) => \A y : InDir(v, p, y) => y = s
  PROVE  FileOnce(w)
<1> SUFFICES ASSUME NEW p \in Paths, NEW x, NEW y, InDir(w, p, x), InDir(w, p, y) PROVE x = y
  BY DEF FileOnce
<1>1. CASE x # s /\ y # s
  BY <1>1, InDirBack DEF FileOnce
<1>2. CASE x = s /\ y # s
  <2>1. InDir(v, p, y)
    BY <1>2, InDirBack
  <2> QED
    BY <1>2, <2>1
<1>3. CASE x # s /\ y = s
  <2>1. InDir(v, p, x)
    BY <1>3, InDirBack
  <2> QED
    BY <1>3, <2>1
<1> QED
  BY <1>1, <1>2, <1>3

(* The root is the same.                                                   *)
LEMMA RootNamed ==
  ASSUME NEW v, NEW w, Tree(v), Ends(v), DirOnce(v), w.disk[0] = v.disk[0]
  PROVE  Ends(w) /\ DirOnce(w) /\ DirNames(w) = DirNames(v)
<1>1. (\A s \in DirSlots : At(w, s) = At(v, s)) /\ LiveDirs(w) = LiveDirs(v)
  BY RootFrame
<1>2. LiveDirs(v) \subseteq DirSlots
  BY DEF LiveDirs
<1>3. \A k \in 0 .. NRoot - 1 : <<0, k>> \in DirSlots
  BY DEF DirSlots
<1>4. Ends(w)
  BY <1>1, <1>3 DEF Ends
<1>5. DirOnce(w)
  BY <1>1, <1>2 DEF DirOnce
<1>6. DirNames(w) = DirNames(v)
  BY <1>1, <1>2 DEF DirNames
<1> QED
  BY <1>4, <1>5, <1>6

-----------------------------------------------------------------------------
(* The invariant of the units.                                             *)

(* No sector of a file or a writer is written, other than those of s.      *)
Intact(v, w, F, s) ==
  \A o \in ChainsOf(v, F) : o[1] # s /\ o[1] \notin DirSlots =>
     \A c \in ClustersOf(v, o[2]) : w.disk[c] = v.disk[c]

(* Units that were written, none left from something else.                 *)
Whole(x) == \A k \in DOMAIN x : x[k].kind = "data"

(* The sector that a reader holds is one of its file.                      *)
Looks(v, f) ==
  /\ f.dsect # 0 => f.dsect \in ClustersOf(v, f.sclust) /\ f.buf = v.disk[f.dsect]
  /\ f.fptr % SS # 0 => f.dsect = f.clust

(* What a file object has of the units.                                    *)
Tended(v, f) ==
  /\ f.mode = "write" => AtEnd(v, f) /\ Whole(WrittenBy(v, f))
  /\ f.mode = "read" /\ ~f.stale /\ f.fsize # 0 => Looks(v, f)

(* The files hold units that were written.                                 *)
Filled(v) == \A s \in LiveFiles(v) : Whole(Body(v, s))

(* The invariant of the units.                                             *)
Content(v, F) ==
  Inv(v, F) /\ Named(v) /\ Filled(v) /\ \A h \in Handles : Tended(v, F[h])

(* The sectors that are written are in no other chain.                     *)
LEMMA IntactBy ==
  ASSUME NEW v, NEW F, Inv(v, F), NEW w, NEW s, NEW W,
         \A c \in Clusters : c \notin W => w.disk[c] = v.disk[c],
         \A c \in W : \/ c \notin Clusters \/ v.fat[c] = 0
                      \/ \E o \in ChainsOf(v, F) : /\ o[1] = s \/ o[1] \in DirSlots
                                                   /\ c \in ClustersOf(v, o[2])
  PROVE  Intact(v, w, F, s)
<1> SUFFICES ASSUME NEW o \in ChainsOf(v, F), o[1] # s, o[1] \notin DirSlots,
                    NEW c \in ClustersOf(v, o[2])
             PROVE  w.disk[c] = v.disk[c]
  BY DEF Intact
<1>1. Apart(v, ChainsOf(v, F))
  BY InvFacts
<1>2. c \in Clusters /\ v.fat[c] # 0
  BY <1>1, OwnedTaken
<1>3. c \notin W
  <2> SUFFICES ASSUME c \in W PROVE FALSE
    OBVIOUS
  <2>1. PICK p \in ChainsOf(v, F) : (p[1] = s \/ p[1] \in DirSlots) /\ c \in ClustersOf(v, p[2])
    BY <1>2
  <2>2. p # o
    BY <2>1
  <2>3. ClustersOf(v, o[2]) \cap ClustersOf(v, p[2]) = {}
    BY <1>1, <2>2 DEF Apart
  <2> QED
    BY <2>1, <2>3
<1> QED
  BY <1>2, <1>3

(* A file that is not touched has its units.                               *)
LEMMA BodyKept ==
  ASSUME NEW v, NEW w, NEW F, NEW s, NEW x, Inv(v, F), Changed(v, w, F, s), Intact(v, w, F, s),
         x \in LiveFiles(v), x # s
  PROVE  Body(w, x) = Body(v, x) /\ x \in LiveFiles(w)
<1> DEFINE c == At(v, x).clust
           n == At(v, x).size
           o == <<x, c>>
<1>1. o \in ChainsOf(v, F) /\ x \notin DirSlots /\ n \in 0 .. MaxUnits /\ MaxUnits \in Nat
  BY InvFacts, LiveFacts, Constants
<1>2. o[1] = x /\ o[2] = c
  OBVIOUS
<1>3. At(w, x) = At(v, x) /\ x \in LiveFiles(w)
  BY DEF Changed
<1> HIDE DEF o
<1>4. Chain(w, c) = Chain(v, c) /\ \A y \in ClustersOf(v, c) : w.disk[y] = v.disk[y]
  BY <1>1, <1>2 DEF Changed, Intact
<1>5. n \in Nat
  BY <1>1
<1>6. Body(w, x) = ChainUnits(w, c, n) /\ Body(v, x) = ChainUnits(v, c, n)
  BY <1>3 DEF Body
<1> HIDE DEF c, n
<1>7. ChainUnits(w, c, n) = ChainUnits(v, c, n)
  BY <1>4, <1>5, UnitsSame
<1> QED
  BY <1>3, <1>6, <1>7

(* And so has the path.                                                    *)
LEMMA FileKept ==
  ASSUME NEW v, NEW w, NEW F, Inv(v, F), Tree(w), Named(v), Named(w),
         NEW s, Changed(v, w, F, s), Intact(v, w, F, s),
         NEW p \in Paths, ~InDir(v, p, s), ~InDir(w, p, s)
  PROVE  FileAt(w, p) = FileAt(v, p)
<1>0. Tree(v)
  BY InvFacts
<1>1. CASE \E x : InDir(v, p, x)
  <2>1. PICK x : InDir(v, p, x)
    BY <1>1
  <2>2. x # s /\ x \in LiveFiles(v)
    BY <1>0, <2>1, LiveFacts
  <2>3. InDir(w, p, x)
    BY <2>1, <2>2 DEF Changed
  <2>4. Body(w, x) = Body(v, x)
    BY <2>2, BodyKept
  <2>5. FileAt(v, p) = Body(v, x)
    BY <1>0, <2>1, FileIs
  <2>6. FileAt(w, p) = Body(w, x)
    BY <2>3, FileIs
  <2> QED
    BY <2>4, <2>5, <2>6
<1>2. CASE \A x : ~InDir(v, p, x)
  <2>1. \A x : ~InDir(w, p, x)
    BY <1>0, <1>2, InDirBack
  <2>2. FileAt(w, p) = <<[kind |-> "none"]>>
    BY <2>1, FileIs
  <2>3. FileAt(v, p) = <<[kind |-> "none"]>>
    BY <1>0, <1>2, FileIs
  <2> QED
    BY <2>2, <2>3
<1> QED
  BY <1>1, <1>2

(* The files that are not touched hold written units.                      *)
LEMMA FilledKept ==
  ASSUME NEW v, NEW w, NEW F, Inv(v, F), Filled(v), NEW s, Changed(v, w, F, s), Intact(v, w, F, s),
         s \in LiveFiles(w) => Whole(Body(w, s))
  PROVE  Filled(w)
<1> SUFFICES ASSUME NEW x \in LiveFiles(w) PROVE Whole(Body(w, x))
  BY DEF Filled
<1>1. CASE x = s
  BY <1>1
<1>2. CASE x # s
  <2>1. x \in LiveFiles(v)
    BY <1>2 DEF Changed
  <2>2. Body(w, x) = Body(v, x)
    BY <1>2, <2>1, BodyKept
  <2> QED
    BY <2>1, <2>2 DEF Filled
<1> QED
  BY <1>1, <1>2

(* What a writer has in its file, by chain and sectors.                    *)
LEMMA WrittenSame ==
  ASSUME NEW v, NEW w, NEW f, f.fptr \in Nat, Chain(w, f.sclust) = Chain(v, f.sclust),
         \A y \in ClustersOf(v, f.sclust) : w.disk[y] = v.disk[y]
  PROVE  WrittenBy(w, f) = WrittenBy(v, f) /\ (AtEnd(v, f) => AtEnd(w, f))
<1>1. ChainUnits(w, f.sclust, f.fptr) = ChainUnits(v, f.sclust, f.fptr)
  BY UnitsSame
<1>2. WrittenBy(w, f) = WrittenBy(v, f)
  BY <1>1 DEF WrittenBy
<1>3. AtEnd(v, f) => AtEnd(w, f)
  BY DEF AtEnd
<1> QED
  BY <1>2, <1>3

(* Open files are none the worse for what happens to other files.          *)
LEMMA TendedKept ==
  ASSUME NEW v, NEW w, NEW F, Inv(v, F), NEW s, Changed(v, w, F, s), Intact(v, w, F, s),
         NEW h \in Handles, Tended(v, F[h]), Matters(F[h]) => F[h].slot # s /\ <<h>> # s
  PROVE  Tended(w, F[h]) /\ OpenAs(w, F[h]) = OpenAs(v, F[h])
<1> DEFINE f == F[h]
<1>1. f.fptr \in Nat
  BY Constants DEF Inv, Opened, Handled, Fil
<1>2. CASE f.mode = "write"
  <2> DEFINE o == << <<h>>, f.sclust>>
  <2>1. Matters(f)
    BY <1>2 DEF Matters
  <2>2. o \in ChainsOf(v, F) /\ <<h>> \notin DirSlots
    BY <1>2, <2>1, HandleOwns
  <2>3. o[1] = <<h>> /\ o[2] = f.sclust /\ <<h>> # s
    BY <2>1
  <2> HIDE DEF o
  <2>4. Chain(w, f.sclust) = Chain(v, f.sclust) /\ \A y \in ClustersOf(v, f.sclust) : w.disk[y] = v.disk[y]
    BY <2>2, <2>3 DEF Changed, Intact
  <2> HIDE DEF f
  <2>5. WrittenBy(w, f) = WrittenBy(v, f) /\ (AtEnd(v, f) => AtEnd(w, f))
    BY <1>1, <2>4, WrittenSame
  <2>6. OpenAs(w, f) = OpenAs(v, f)
    BY <2>5 DEF OpenAs
  <2>7. Tended(v, f)
    BY DEF f
  <2>8. Tended(w, f)
    BY <1>2, <2>5, <2>7 DEF Tended
  <2> QED
    BY <2>6, <2>8 DEF f
<1>3. CASE f.mode # "write"
  <2>1. OpenAs(w, f) = OpenAs(v, f)
    BY <1>3 DEF OpenAs
  <2>2. ASSUME f.mode = "read", ~f.stale, f.fsize # 0 PROVE Looks(w, f)
    <3> DEFINE o == <<f.slot, f.sclust>>
    <3>1. Matters(f)
      BY <2>2 DEF Matters
    <3>2. o \in ChainsOf(v, F) /\ f.slot \notin DirSlots
      BY <1>3, <3>1, HandleOwns
    <3>3. o[1] = f.slot /\ o[2] = f.sclust /\ f.slot # s
      BY <3>1
    <3> HIDE DEF o
    <3>4. Chain(w, f.sclust) = Chain(v, f.sclust) /\ \A y \in ClustersOf(v, f.sclust) : w.disk[y] = v.disk[y]
      BY <3>2, <3>3 DEF Changed, Intact
    <3>5. ClustersOf(w, f.sclust) = ClustersOf(v, f.sclust)
      BY <3>4 DEF ClustersOf
    <3>6. Looks(v, f)
      BY <2>2 DEF Tended
    <3> HIDE DEF f
    <3> QED
      BY <3>4, <3>5, <3>6 DEF Looks
  <2> QED
    BY <1>3, <2>1, <2>2 DEF Tended
<1> QED
  BY <1>2, <1>3

(* The files and the open files are to the store what they were.           *)
SameFiles(v, w) == \A p \in Paths : FileAt(w, p) = FileAt(v, p)
SameOpen(v, w, F) == \A h \in Handles : OpenAs(w, F[h]) = OpenAs(v, F[h])

(* After a change of one entry that no open file depends on.               *)
LEMMA ContentKept ==
  ASSUME NEW v, NEW w, NEW F, NEW s, Content(v, F), Inv(w, F), Ends(w), DirOnce(w),
         Changed(v, w, F, s), Intact(v, w, F, s),
         \A p \in Paths : InDir(w, p, s) => \A y : InDir(v, p, y) => y = s,
         s \in LiveFiles(w) => Whole(Body(w, s)),
         \A h \in Handles : Matters(F[h]) => F[h].slot # s /\ <<h>> # s
  PROVE  /\ Content(w, F) /\ SameOpen(v, w, F)
         /\ \A p \in Paths : ~InDir(v, p, s) /\ ~InDir(w, p, s) => FileAt(w, p) = FileAt(v, p)
<1>1. Inv(v, F) /\ Named(v) /\ Filled(v) /\ \A h \in Handles : Tended(v, F[h])
  BY DEF Content
<1>2. Tree(v) /\ Tree(w)
  BY <1>1 DEF Inv
<1>3. Named(w)
  <2>1. FileOnce(w)
    BY <1>1, <1>2, FilesNamed DEF Named
  <2> QED
    BY <2>1 DEF Named
<1>4. Filled(w)
  BY <1>1, FilledKept
<1>5. \A h \in Handles : Tended(w, F[h]) /\ OpenAs(w, F[h]) = OpenAs(v, F[h])
  BY <1>1, TendedKept
<1>6. \A p \in Paths : ~InDir(v, p, s) /\ ~InDir(w, p, s) => FileAt(w, p) = FileAt(v, p)
  BY <1>1, <1>2, <1>3, FileKept
<1> QED
  BY <1>1, <1>3, <1>4, <1>5, <1>6 DEF Content, SameOpen

(* The empty slot is no file's, and neither is one of the root.            *)
LEMMA NoFileIn ==
  ASSUME NEW v, NEW F, NEW s, Inv(v, F), s = NoSlot \/ s \in DirSlots
  PROVE  /\ s \notin LiveFiles(v) /\ \A p : ~InDir(v, p, s)
         /\ \A h \in Handles : Matters(F[h]) => F[h].slot # s /\ <<h>> # s
<1>1. Tree(v)
  BY InvFacts
<1>2. s \notin LiveFiles(v)
  <2>1. CASE s \in DirSlots
    BY <1>1, <2>1, LiveFacts
  <2>2. CASE s = NoSlot
    <3> SUFFICES ASSUME s \in LiveFiles(v) PROVE FALSE
      OBVIOUS
    <3>1. PICK d \in LiveDirs(v) : s \in FilesIn(v, At(v, d).clust)
      BY <1>1, LiveFacts
    <3> QED
      BY <1>1, <2>2, <3>1, DirFacts, FileFacts
  <2> QED
    BY <2>1, <2>2
<1>3. \A p : ~InDir(v, p, s)
  BY <1>1, <1>2, LiveFacts
<1>4. ASSUME NEW h \in Handles, Matters(F[h]) PROVE F[h].slot # s /\ <<h>> # s
  <2>1. F[h].slot \in LiveFiles(v) /\ <<h>> \notin DirSlots
    BY <1>4, HandleOwns
  <2>2. <<h>> # NoSlot
    BY DEF NoSlot
  <2> QED
    BY <1>2, <2>1, <2>2
<1> QED
  BY <1>2, <1>3, <1>4

(* A change in the root, or in the table.                                  *)
LEMMA RootContent ==
  ASSUME NEW v, NEW w, NEW F, NEW s, Content(v, F), Inv(w, F), Ends(w), DirOnce(w),
         Changed(v, w, F, s), Intact(v, w, F, s), s = NoSlot \/ s \in DirSlots
  PROVE  Content(w, F) /\ SameOpen(v, w, F) /\ SameFiles(v, w)
<1>1. Inv(v, F)
  BY DEF Content
<1>2. /\ s \notin LiveFiles(v) /\ \A p : ~InDir(v, p, s)
      /\ \A h \in Handles : Matters(F[h]) => F[h].slot # s /\ <<h>> # s
  BY <1>1, NoFileIn
<1>3. s \notin LiveFiles(w) /\ \A p : ~InDir(w, p, s)
  BY NoFileIn
<1>4. /\ Content(w, F) /\ SameOpen(v, w, F)
      /\ \A p \in Paths : ~InDir(v, p, s) /\ ~InDir(w, p, s) => FileAt(w, p) = FileAt(v, p)
  BY <1>2, <1>3, ContentKept
<1> QED
  BY <1>2, <1>3, <1>4 DEF SameFiles

(* One slot of the root is written.                                        *)
RootPut(v, w, k, cell) ==
  \A j \in 0 .. NRoot - 1 : At(w, <<0, j>>) = IF j = k THEN cell ELSE At(v, <<0, j>>)

(* The slots of the root.                                                  *)
LEMMA RootSlotIs ==
  ASSUME NEW s \in DirSlots
  PROVE  s = <<0, s[2]>> /\ s[2] \in 0 .. NRoot - 1
BY DEF DirSlots

(* No gap arises.                                                          *)
LEMMA EndsPut ==
  ASSUME NEW v, NEW w, NEW k \in 0 .. NRoot - 1, NEW cell, Ends(v), RootPut(v, w, k, cell),
         cell # Zero, \A j \in 0 .. k - 1 : At(v, <<0, j>>) # Zero
  PROVE  Ends(w)
<1> SUFFICES ASSUME NEW a \in 0 .. NRoot - 1, NEW b \in 0 .. NRoot - 1, a < b,
                    At(w, <<0, a>>) = Zero
             PROVE  At(w, <<0, b>>) = Zero
  BY DEF Ends
<1>1. a # k /\ At(v, <<0, a>>) = Zero
  BY DEF RootPut
<1>2. At(v, <<0, b>>) = Zero
  BY <1>1 DEF Ends
<1>3. b # k
  <2> SUFFICES ASSUME b = k PROVE FALSE
    OBVIOUS
  <2>1. a \in 0 .. k - 1
    BY Constants
  <2> QED
    BY <1>1, <2>1
<1> QED
  BY <1>2, <1>3 DEF RootPut

(* The directories in the root then.                                       *)
LEMMA DirsPut ==
  ASSUME NEW v, NEW w, NEW k \in 0 .. NRoot - 1, NEW cell, RootPut(v, w, k, cell)
  PROVE  /\ LiveDirs(w) = (LiveDirs(v) \ {<<0, k>>}) \cup (IF IsEntry(cell) THEN {<<0, k>>} ELSE {})
         /\ \A d \in LiveDirs(v) : d # <<0, k>> => At(w, d) = At(v, d)
         /\ At(w, <<0, k>>) = cell
<1>1. \A s \in DirSlots : At(w, s) = IF s = <<0, k>> THEN cell ELSE At(v, s)
  <2> SUFFICES ASSUME NEW s \in DirSlots PROVE At(w, s) = IF s = <<0, k>> THEN cell ELSE At(v, s)
    OBVIOUS
  <2>1. s = <<0, s[2]>> /\ s[2] \in 0 .. NRoot - 1
    BY RootSlotIs
  <2>2. s = <<0, k>> <=> s[2] = k
    BY <2>1
  <2> QED
    BY <2>1, <2>2 DEF RootPut
<1>2. <<0, k>> \in DirSlots
  BY DEF DirSlots
<1> QED
  BY <1>1, <1>2 DEF LiveDirs

(* dir_alloc takes the first slot of the root that is blank or deleted.    *)
LEMMA AllocFirst ==
  ASSUME NEW v, Alloc(v, 0).slot # NoSlot
  PROVE  /\ Alloc(v, 0).v = v
         /\ \E k \in 0 .. NRoot - 1 : /\ Alloc(v, 0).slot = <<0, k>> /\ ~IsEntry(At(v, <<0, k>>))
                                      /\ \A j \in 0 .. k - 1 : At(v, <<0, j>>) # Zero
<1> DEFINE S == Slots(v, 0)
           a == Alloc(v, 0)
           blank == {k \in DOMAIN S : At(v, S[k]) \in {Zero, Deleted}}
           m == Min(blank)
<1>1. a = IF blank # {} THEN [v |-> v, slot |-> S[m]] ELSE [v |-> v, slot |-> NoSlot]
  BY DEF Alloc
<1>2. S = [k \in 1 .. NRoot |-> <<0, k - 1>>]
  BY RootSlots
<1>3. blank # {}
  BY <1>1
<1>4. blank \in SUBSET (1 .. NRoot) /\ NRoot \in Nat
  BY <1>2, Constants
<1>5. m \in blank /\ \A k \in blank : m <= k
  <2> HIDE DEF blank
  <2> QED
    BY <1>3, <1>4, FirstOf
<1>6. m \in 1 .. NRoot /\ ~IsEntry(At(v, S[m]))
  BY <1>4, <1>5, Kinds
<1>7. S[m] = <<0, m - 1>> /\ m - 1 \in 0 .. NRoot - 1
  <2> HIDE DEF m
  <2> QED
    BY <1>2, <1>4, <1>6
<1>8. ASSUME NEW j \in 0 .. m - 1 - 1 PROVE At(v, <<0, j>>) # Zero
  <2>1. j + 1 \in 1 .. NRoot /\ j + 1 < m /\ j + 1 - 1 = j
    <3> HIDE DEF m
    <3> QED
      BY <1>4, <1>6
  <2>2. S[j + 1] = <<0, j>>
    <3> HIDE DEF m, blank, S
    <3> QED
      BY <1>2, <2>1
  <2>3. j + 1 \notin blank
    <3> HIDE DEF m, blank
    <3> QED
      BY <1>5, <1>6, <2>1
  <2> QED
    BY <1>2, <2>1, <2>2, <2>3
<1> HIDE DEF m, blank, S, a
<1>9. a.v = v /\ a.slot = <<0, m - 1>>
  BY <1>1, <1>3, <1>7
<1>10. \E k \in 0 .. NRoot - 1 : /\ a.slot = <<0, k>> /\ ~IsEntry(At(v, <<0, k>>))
                                /\ \A j \in 0 .. k - 1 : At(v, <<0, j>>) # Zero
  <2>1. ~IsEntry(At(v, <<0, m - 1>>))
    BY <1>6, <1>7
  <2> QED
    BY <1>7, <1>8, <1>9, <2>1
<1> QED
  BY <1>9, <1>10 DEF a

-----------------------------------------------------------------------------
(* f_mkdir and f_unlink.                                                   *)

(* The parts of the invariant of the units.                                *)
LEMMA ContentFacts ==
  ASSUME NEW v, NEW F, Content(v, F)
  PROVE  /\ Inv(v, F) /\ Tree(v) /\ Volume(v) /\ Named(v) /\ Ends(v) /\ DirOnce(v) /\ FileOnce(v)
         /\ Apart(v, ChainsOf(v, F))
         /\ v.disk[0] = [i \in 0 .. NRoot - 1 |-> v.disk[0][i]]
<1>1. Inv(v, F) /\ Named(v)
  BY DEF Content
<1>2. Tree(v) /\ Volume(v) /\ Apart(v, ChainsOf(v, F))
  BY <1>1, InvFacts
<1>3. v.disk[0] = [i \in 0 .. NRoot - 1 |-> v.disk[0][i]]
  BY <1>2 DEF Tree
<1> QED
  BY <1>1, <1>2, <1>3 DEF Named

(* A cell of the root is written.                                          *)
LEMMA RootPutIs ==
  ASSUME NEW v, NEW k \in 0 .. NRoot - 1, NEW cell, Volume(v),
         v.disk[0] = [i \in 0 .. NRoot - 1 |-> v.disk[0][i]]
  PROVE  LET w == Put(v, <<0, k>>, cell) IN
         /\ RootPut(v, w, k, cell)
         /\ \A c \in Clusters : w.disk[c] = v.disk[c]
<1> DEFINE s == <<0, k>>
           w == Put(v, s, cell)
<1>1. s[1] = 0 /\ s[2] = k /\ s[1] \in Clusters \cup {0} /\ 0 \notin Clusters
  BY Constants
<1> HIDE DEF s
<1>2. /\ \A c \in Clusters \cup {0} : c # s[1] => w.disk[c] = v.disk[c]
      /\ w.disk[s[1]] = [v.disk[s[1]] EXCEPT ![s[2]] = cell]
  BY <1>1, PutIs
<1> HIDE DEF w
<1>3. w.disk[0] = [v.disk[0] EXCEPT ![k] = cell] /\ \A c \in Clusters : w.disk[c] = v.disk[c]
  BY <1>1, <1>2
<1>4. ASSUME NEW j \in 0 .. NRoot - 1
      PROVE  At(w, <<0, j>>) = IF j = k THEN cell ELSE At(v, <<0, j>>)
  <2>1. At(w, <<0, j>>) = w.disk[0][j] /\ At(v, <<0, j>>) = v.disk[0][j]
    BY DEF At
  <2> QED
    BY <1>3, <2>1
<1> QED
  BY <1>3, <1>4 DEF RootPut, w, s

(* The volume with the cluster of a new directory.                         *)
LEMMA DottedIs ==
  ASSUME NEW v, NEW r, NEW t, Volume(v), r = CreateChain(v, 0), r.cl > 1, Dotted(r, t)
  PROVE  /\ r.cl \in Clusters /\ v.fat[r.cl] = 0 /\ Volume(t)
         /\ \A c \in Clusters \cup {0} : c # r.cl => t.disk[c] = v.disk[c]
<1>1. Taken(v, 0, r) \/ NoneLeft(v, r)
  BY CreateChainIs
<1>2. Taken(v, 0, r)
  BY <1>1 DEF NoneLeft
<1>3. r.cl \in Clusters /\ v.fat[r.cl] = 0 /\ Volume(r.v) /\ r.v.disk = v.disk
  BY <1>2 DEF Taken
<1> DEFINE b == [BlankTable EXCEPT ![0] = Dot, ![1] = Dot]
           u == r.v
           n == r.cl
<1>4. t = [u EXCEPT !.disk[n] = b]
  BY DEF Dotted
<1>5. u.disk = v.disk /\ Volume(u) /\ n \in Clusters \cup {0}
  BY <1>3
<1> HIDE DEF b, u, n
<1>6. Volume(t) /\ \A c \in Clusters \cup {0} : c # n => t.disk[c] = u.disk[c]
  BY ONLY <1>4, <1>5, SectorIs
<1> QED
  BY <1>3, <1>5, <1>6 DEF n

(* A name more in the root, or not.                                        *)
DirAdded(v, w, d) == DirNames(w) = DirNames(v) \/ DirNames(w) = DirNames(v) \cup {d}

(* What f_mkdir has done when w is the volume.                             *)
MadeDir(v, d, r, t, w) ==
  /\ r = CreateChain(v, 0) /\ r.cl > 1 /\ Dotted(r, t) /\ Entered(t, r.cl, d, w)
  /\ d \in Dirs /\ Find(v, 0, d) = NoSlot

(* f_mkdir adds a name to the root, or nothing if there is no room, and no *)
(* file is touched (ff.cpp:3316-3380).                                     *)
LEMMA MkdirContent ==
  ASSUME NEW v, NEW F, NEW d, NEW r, NEW t, NEW w, Content(v, F), MadeDir(v, d, r, t, w)
  PROVE  Content(w, F) /\ SameOpen(v, w, F) /\ SameFiles(v, w) /\ DirAdded(v, w, d)
<1>0. /\ d \in Dirs /\ r = CreateChain(v, 0) /\ r.cl > 1 /\ Dotted(r, t)
      /\ Entered(t, r.cl, d, w) /\ Find(v, 0, d) = NoSlot
  BY DEF MadeDir
<1> DEFINE n == r.cl
           cell == Entry(d, TRUE, n, 0)
<1>1. Inv(v, F) /\ Tree(v) /\ Volume(v) /\ Named(v) /\ Ends(v) /\ DirOnce(v)
      /\ v.disk[0] = [i \in 0 .. NRoot - 1 |-> v.disk[0][i]]
  BY ContentFacts
<1>2. /\ n \in Clusters /\ v.fat[n] = 0 /\ Volume(t)
      /\ \A c \in Clusters \cup {0} : c # n => t.disk[c] = v.disk[c]
  BY <1>0, <1>1, DottedIs
<1>3. Inv(w, F) /\ Changed(v, w, F, NoSlot)
  BY <1>0, <1>1, MkdirKeeps
<1>4. t.disk[0] = v.disk[0]
  BY <1>2, Constants
<1>5. /\ Ends(w) /\ DirOnce(w) /\ \A c \in Clusters : c # n => w.disk[c] = v.disk[c]
      /\ DirNames(w) = DirNames(v) \/ DirNames(w) = DirNames(v) \cup {d}
  <2>1. CASE Alloc(t, 0).slot = NoSlot
    <3>1. w = RemoveChain(t, n)
      BY <1>0, <2>1 DEF Entered
    <3>2. w.disk = t.disk
      BY <1>2, <3>1, RemoveChainIs
    <3>3. Ends(w) /\ DirOnce(w) /\ DirNames(w) = DirNames(v)
      BY <1>1, <1>4, <3>2, RootNamed
    <3> QED
      BY <1>2, <3>2, <3>3
  <2>2. CASE Alloc(t, 0).slot # NoSlot
    <3>1. PICK k \in 0 .. NRoot - 1 :
             /\ Alloc(t, 0).slot = <<0, k>> /\ ~IsEntry(At(t, <<0, k>>))
             /\ \A j \in 0 .. k - 1 : At(t, <<0, j>>) # Zero
      BY <2>2, AllocFirst
    <3>2. Alloc(t, 0).v = t
      BY <2>2, AllocFirst
    <3>3. w = Put(t, <<0, k>>, cell)
      BY <1>0, <2>2, <3>1, <3>2 DEF Entered
    <3>4. \A j : At(t, <<0, j>>) = At(v, <<0, j>>)
      BY <1>4 DEF At
    <3>5. IsEntry(cell) /\ cell # Zero /\ cell.name = d
      <4> HIDE DEF n
      <4> QED
        BY DEF Entry, IsEntry, Zero
    <3> HIDE DEF cell, n
    <3>6. RootPut(t, w, k, cell) /\ \A c \in Clusters : w.disk[c] = t.disk[c]
      BY <1>1, <1>2, <1>4, <3>3, RootPutIs
    <3>7. RootPut(v, w, k, cell)
      BY <3>4, <3>6 DEF RootPut
    <3>8. Ends(w)
      BY <1>1, <3>1, <3>4, <3>5, <3>7, EndsPut
    <3>9. /\ LiveDirs(w) = LiveDirs(v) \cup {<<0, k>>} /\ <<0, k>> \notin LiveDirs(v)
          /\ \A x \in LiveDirs(v) : At(w, x) = At(v, x)
          /\ At(w, <<0, k>>).name = d
      <4>1. /\ LiveDirs(w) = (LiveDirs(v) \ {<<0, k>>}) \cup (IF IsEntry(cell) THEN {<<0, k>>} ELSE {})
            /\ \A x \in LiveDirs(v) : x # <<0, k>> => At(w, x) = At(v, x)
            /\ At(w, <<0, k>>) = cell
        BY <3>7, DirsPut
      <4>2. <<0, k>> \notin LiveDirs(v)
        BY <3>1, <3>4 DEF LiveDirs
      <4> QED
        BY <3>5, <4>1, <4>2
    <3>10. d \notin DirNames(v)
      <4>1. d \notin {x \in Dirs : Find(v, 0, x) # NoSlot}
        BY <1>0
      <4> QED
        BY <1>1, <4>1, DirsAre
    <3>11. DirOnce(w)
      BY <1>1, <3>9, <3>10 DEF DirOnce, DirNames
    <3>12. DirNames(w) = DirNames(v) \cup {d}
      BY <3>9 DEF DirNames
    <3> QED
      BY <1>2, <3>6, <3>8, <3>11, <3>12
  <2> QED
    BY <2>1, <2>2
<1>6. Intact(v, w, F, NoSlot)
  <2> DEFINE W == {n}
  <2>1. \A c \in Clusters : c \notin W => w.disk[c] = v.disk[c]
    BY <1>5
  <2>2. \A c \in W : v.fat[c] = 0
    BY <1>2
  <2> HIDE DEF W
  <2> QED
    BY <1>1, <2>1, <2>2, IntactBy
<1>7. Content(w, F) /\ SameOpen(v, w, F) /\ SameFiles(v, w)
  BY <1>3, <1>5, <1>6, RootContent
<1> QED
  BY <1>5, <1>7 DEF DirAdded

(* f_unlink of a directory takes its name away, and there was no file of   *)
(* that directory (ff.cpp:3247-3307).                                      *)
LEMMA RmdirContent ==
  ASSUME NEW v, NEW F, NEW s, NEW w, Content(v, F), s \in LiveDirs(v), Empty(v, At(v, s).clust),
         Unlinked(v, s, w)
  PROVE  /\ Content(w, F) /\ SameOpen(v, w, F) /\ SameFiles(v, w)
         /\ DirNames(w) = DirNames(v) \ {At(v, s).name}
         /\ \A p \in Paths : p[1] = At(v, s).name => FileAt(v, p) = <<[kind |-> "none"]>>
<1>1. Inv(v, F) /\ Tree(v) /\ Volume(v) /\ Named(v) /\ Ends(v) /\ DirOnce(v)
      /\ v.disk[0] = [i \in 0 .. NRoot - 1 |-> v.disk[0][i]]
  BY ContentFacts
<1>2. Inv(w, F) /\ Changed(v, w, F, s)
  BY <1>1, RmdirKeeps
<1>3. /\ s = <<0, s[2]>> /\ s[2] \in 0 .. NRoot - 1 /\ s \in DirSlots /\ IsEntry(At(v, s))
      /\ Directory(v, At(v, s).clust)
  BY <1>1, DirFacts
<1> DEFINE k == s[2]
           t == Put(v, s, Deleted)
<1>4. RootPut(v, t, k, Deleted) /\ \A c \in Clusters : t.disk[c] = v.disk[c]
  <2> HIDE DEF k
  <2>1. s = <<0, k>> /\ k \in 0 .. NRoot - 1
    BY <1>3 DEF k
  <2> QED
    BY <1>1, <2>1, RootPutIs
<1>5. Volume(t)
  <2>1. s[1] \in Clusters \cup {0}
    BY <1>3
  <2> QED
    BY <1>1, <2>1, PutIs
<1>6. w.disk = t.disk
  <2>1. w = RemoveChain(t, At(v, s).clust)
    BY DEF Unlinked
  <2> HIDE DEF t
  <2> QED
    BY <1>5, <2>1, RemoveChainIs
<1> HIDE DEF t
<1>7. RootPut(v, w, k, Deleted) /\ \A c \in Clusters : w.disk[c] = v.disk[c]
  BY <1>4, <1>6 DEF RootPut, At
<1>8. Ends(w)
  <2>1. \A j \in 0 .. k - 1 : At(v, <<0, j>>) # Zero
    <3> SUFFICES ASSUME NEW j \in 0 .. k - 1, At(v, <<0, j>>) = Zero PROVE FALSE
      OBVIOUS
    <3>1. j \in 0 .. NRoot - 1 /\ j < k
      BY <1>3, Constants
    <3>2. At(v, <<0, k>>) = Zero
      BY <1>1, <1>3, <3>1 DEF Ends
    <3> QED
      BY <1>3, <3>2, Kinds
  <2> QED
    BY <1>1, <1>3, <1>7, <2>1, Kinds, EndsPut
<1>9. LiveDirs(w) = LiveDirs(v) \ {s} /\ \A d \in LiveDirs(v) : d # s => At(w, d) = At(v, d)
  <2>1. <<0, k>> = s /\ k \in 0 .. NRoot - 1
    BY <1>3
  <2> HIDE DEF k
  <2>2. /\ LiveDirs(w) = (LiveDirs(v) \ {<<0, k>>}) \cup (IF IsEntry(Deleted) THEN {<<0, k>>} ELSE {})
        /\ \A d \in LiveDirs(v) : d # <<0, k>> => At(w, d) = At(v, d)
    BY <1>7, <2>1, DirsPut
  <2> QED
    BY <2>1, <2>2, Kinds
<1>10. DirOnce(w) /\ DirNames(w) = DirNames(v) \ {At(v, s).name}
  BY <1>1, <1>9 DEF DirOnce, DirNames
<1>11. Intact(v, w, F, s)
  BY <1>1, <1>7, OwnedTaken, InvFacts DEF Intact
<1>12. Content(w, F) /\ SameOpen(v, w, F) /\ SameFiles(v, w)
  BY <1>2, <1>3, <1>8, <1>10, <1>11, RootContent
<1>13. ASSUME NEW p \in Paths, p[1] = At(v, s).name PROVE FileAt(v, p) = <<[kind |-> "none"]>>
  <2>1. FilesIn(v, At(v, s).clust) = {}
    BY <1>3, EmptyIs
  <2>2. \A x : ~InDir(v, p, x)
    BY <1>1, <1>13, <2>1 DEF InDir, DirOnce
  <2> QED
    BY <1>1, <2>2, FileIs
<1> QED
  BY <1>10, <1>12, <1>13

(* A cell is written, in a sector of which nothing is known.               *)
LEMMA PutSector ==
  ASSUME NEW v, NEW s, NEW cell, NEW w, Volume(v), s[1] \in Clusters \cup {0}, w = Put(v, s, cell)
  PROVE  /\ Volume(w) /\ w.fat = v.fat
         /\ \A c \in Clusters \cup {0} : c # s[1] => w.disk[c] = v.disk[c]
<1>1. /\ Volume(w) /\ w.fat = v.fat
      /\ \A c \in Clusters \cup {0} : c # s[1] => w.disk[c] = v.disk[c]
      /\ w.disk[s[1]] = [v.disk[s[1]] EXCEPT ![s[2]] = cell]
  BY PutIs
<1> QED
  BY <1>1

(* The entry of a path is nobody's who has another path open.              *)
LEMMA EntryFree ==
  ASSUME NEW v, NEW F, NEW p, NEW s, Inv(v, F), p \in Paths, InDir(v, p, s),
         \A h \in Handles : Matters(F[h]) => F[h].path # p
  PROVE  \A h \in Handles : Matters(F[h]) => F[h].slot # s /\ <<h>> # s
<1> SUFFICES ASSUME NEW h \in Handles, Matters(F[h]) PROVE F[h].slot # s /\ <<h>> # s
  OBVIOUS
<1>1. Tree(v)
  BY InvFacts
<1>2. InDir(v, F[h].path, F[h].slot) /\ F[h].path \in Paths /\ F[h].path # p
  BY HandleOwns
<1>3. F[h].slot # s
  BY <1>1, <1>2, OnePath
<1>4. s = <<s[1], s[2]>>
  BY <1>1, LiveFacts
<1>5. <<h>> # s
  BY <1>4
<1> QED
  BY <1>3, <1>5

(* An entry is in a sector of its directory.                               *)
LEMMA EntrySector ==
  ASSUME NEW v, NEW p, NEW s, Tree(v), InDir(v, p, s)
  PROVE  \E d \in LiveDirs(v) : s[1] \in ClustersOf(v, At(v, d).clust)
<1>1. PICK d \in LiveDirs(v) : s \in FilesIn(v, At(v, d).clust)
  BY DEF InDir
<1>2. s[1] \in ClustersOf(v, At(v, d).clust)
  BY <1>1, DirFacts, FileFacts
<1> QED
  BY <1>2

(* A sector of a directory, or a free one, is written.                     *)
LEMMA IntactDir ==
  ASSUME NEW v, NEW F, NEW w, NEW s, NEW x, Inv(v, F),
         \A c \in Clusters : c # x => w.disk[c] = v.disk[c],
         v.fat[x] = 0 \/ \E d \in LiveDirs(v) : x \in ClustersOf(v, At(v, d).clust)
  PROVE  Intact(v, w, F, s)
<1> DEFINE W == {x}
<1>1. \A c \in Clusters : c \notin W => w.disk[c] = v.disk[c]
  OBVIOUS
<1>2. ASSUME NEW d \in LiveDirs(v), x \in ClustersOf(v, At(v, d).clust)
      PROVE  \E o \in ChainsOf(v, F) : /\ o[1] = s \/ o[1] \in DirSlots
                                       /\ x \in ClustersOf(v, o[2])
  <2> DEFINE o == <<d, At(v, d).clust>>
  <2>1. o \in ChainsOf(v, F) /\ d \in DirSlots
    BY InvFacts, DirFacts
  <2>2. o[1] = d /\ o[2] = At(v, d).clust
    OBVIOUS
  <2> HIDE DEF o
  <2> QED
    BY <1>2, <2>1, <2>2
<1>3. \A c \in W : \/ c \notin Clusters \/ v.fat[c] = 0
                   \/ \E o \in ChainsOf(v, F) : /\ o[1] = s \/ o[1] \in DirSlots
                                                /\ c \in ClustersOf(v, o[2])
  BY <1>2
<1> HIDE DEF W
<1> QED
  BY <1>1, <1>3, IntactBy

(* The file at a path goes.                                                *)
Gone(v, w, p) ==
  \A q \in Paths : FileAt(w, q) = IF q = p THEN <<[kind |-> "none"]>> ELSE FileAt(v, q)

(* f_unlink of a file takes away that file and no other                    *)
(* (ff.cpp:3247-3307).                                                     *)
LEMMA UnlinkContent ==
  ASSUME NEW v, NEW F, NEW p, NEW s, NEW w, Content(v, F), p \in Paths, InDir(v, p, s),
         \A h \in Handles : Matters(F[h]) => F[h].path # p, Unlinked(v, s, w)
  PROVE  /\ Content(w, F) /\ SameOpen(v, w, F) /\ DirNames(w) = DirNames(v)
         /\ Gone(v, w, p)
<1>1. Inv(v, F) /\ Tree(v) /\ Volume(v) /\ Named(v) /\ Ends(v) /\ DirOnce(v) /\ FileOnce(v)
  BY ContentFacts
<1>2. Inv(w, F) /\ Changed(v, w, F, s) /\ s \notin LiveFiles(w)
  BY <1>1, UnlinkKeeps
<1>3. \A h \in Handles : Matters(F[h]) => F[h].slot # s /\ <<h>> # s
  BY <1>1, EntryFree
<1>4. PICK d \in LiveDirs(v) : s[1] \in ClustersOf(v, At(v, d).clust)
  BY <1>1, EntrySector
<1> DEFINE t == Put(v, s, Deleted)
           x == s[1]
<1>5. x \in Clusters /\ 0 \notin Clusters
  BY <1>4, ClustersIn, Constants
<1>6. Volume(t) /\ \A c \in Clusters \cup {0} : c # x => t.disk[c] = v.disk[c]
  <2>1. s[1] \in Clusters \cup {0}
    BY <1>5
  <2>2. t = Put(v, s, Deleted)
    OBVIOUS
  <2> HIDE DEF t
  <2> QED
    BY ONLY <1>1, <2>1, <2>2, PutSector DEF x
<1>7. w.disk = t.disk
  <2>1. w = RemoveChain(t, At(v, s).clust)
    BY DEF Unlinked
  <2> HIDE DEF t
  <2> QED
    BY <1>6, <2>1, RemoveChainIs
<1> HIDE DEF t
<1>8. w.disk[0] = v.disk[0] /\ \A c \in Clusters : c # x => w.disk[c] = v.disk[c]
  BY <1>5, <1>6, <1>7
<1> HIDE DEF x
<1>9. Ends(w) /\ DirOnce(w) /\ DirNames(w) = DirNames(v)
  BY <1>1, <1>8, RootNamed
<1>10. Intact(v, w, F, s)
  <2>1. \E e \in LiveDirs(v) : x \in ClustersOf(v, At(v, e).clust)
    BY <1>4 DEF x
  <2> QED
    BY <1>1, <1>8, <2>1, IntactDir
<1>11. \A q \in Paths : ~InDir(w, q, s)
  BY <1>2, InvFacts, LiveFacts
<1>12. /\ Content(w, F) /\ SameOpen(v, w, F)
       /\ \A q \in Paths : ~InDir(v, q, s) /\ ~InDir(w, q, s) => FileAt(w, q) = FileAt(v, q)
  BY <1>2, <1>3, <1>9, <1>10, <1>11, ContentKept
<1>13. \A q \in Paths : q # p => ~InDir(v, q, s)
  BY <1>1, OnePath
<1>14. FileAt(w, p) = <<[kind |-> "none"]>>
  <2>1. ASSUME NEW y, InDir(w, p, y) PROVE FALSE
    <3>1. y # s
      BY <1>11, <2>1
    <3>2. Tree(w)
      BY <1>2, InvFacts
    <3>3. InDir(v, p, y)
      BY <1>1, <1>2, <2>1, <3>1, <3>2, InDirBack
    <3> QED
      BY <1>1, <3>1, <3>3 DEF FileOnce
  <2>2. Tree(w) /\ Named(w)
    BY <1>12, ContentFacts
  <2> QED
    BY <2>1, <2>2, FileIs
<1> QED
  BY <1>9, <1>11, <1>12, <1>13, <1>14 DEF Gone

(* The sector and the entry that f_open uses.                              *)
EntryTaken(v, dcl, name, reg, w) ==
  /\ reg.slot[1] \in Clusters
  /\ v.fat[reg.slot[1]] = 0 \/ reg.slot[1] \in ClustersOf(v, dcl)
  /\ w.disk[0] = v.disk[0] /\ \A c \in Clusters : c # reg.slot[1] => w.disk[c] = v.disk[c]
  /\ IF Find(v, dcl, name) = NoSlot THEN reg.slot \notin LiveFiles(v)
     ELSE reg.slot = Find(v, dcl, name)

(* A cell is written, then the table is changed, or not.                   *)
LEMMA PutThen ==
  ASSUME NEW v, NEW s, NEW cell, NEW w, Volume(v), s[1] \in Clusters,
         w.disk = Put(v, s, cell).disk
  PROVE  w.disk[0] = v.disk[0] /\ \A c \in Clusters : c # s[1] => w.disk[c] = v.disk[c]
<1>1. \A c \in Clusters \cup {0} : c # s[1] => w.disk[c] = v.disk[c]
  <2> DEFINE t == Put(v, s, cell)
  <2>1. s[1] \in Clusters \cup {0}
    OBVIOUS
  <2> HIDE DEF t
  <2>2. \A c \in Clusters \cup {0} : c # s[1] => t.disk[c] = v.disk[c]
    BY <2>1, PutSector DEF t
  <2>3. w.disk = t.disk
    BY DEF t
  <2> QED
    BY <2>2, <2>3
<1> QED
  BY <1>1, Constants

(* Whichever way f_open comes by the entry.                                *)
LEMMA CutIs ==
  ASSUME NEW v, NEW d, NEW name, NEW reg, NEW w, Tree(v), d \in LiveDirs(v),
         Registered(v, At(v, d).clust, name, reg), reg.slot # NoSlot,
         Cut(v, At(v, d).clust, name, reg, w),
         \A e \in LiveDirs(v) : \A x \in ClustersOf(v, At(v, e).clust) : v.fat[x] # 0
  PROVE  EntryTaken(v, At(v, d).clust, name, reg, w)
<1> DEFINE dcl == At(v, d).clust
           found == Find(v, dcl, name)
<1>1. Volume(v) /\ Directory(v, dcl) /\ dcl \in Clusters
  BY DirFacts DEF Tree
<1> HIDE DEF dcl, found
<1>2. CASE found # NoSlot
  <2>1. reg.v = v /\ reg.slot = found
    BY <1>2 DEF Registered, found, dcl
  <2>2. found \in FilesIn(v, dcl)
    BY <1>1, <1>2, FileFound DEF found
  <2>3. found[1] \in ClustersOf(v, dcl) /\ found[1] \in Clusters
    BY <1>1, <2>2, FileFacts
  <2> DEFINE old == At(v, found).clust
             cut == Put(v, found, BlankFile(name))
  <2>4. w = IF old = 0 THEN cut ELSE [RemoveChain(cut, old) EXCEPT !.last = old - 1]
    BY <1>2, <2>1 DEF Cut, found, dcl
  <2>5. Volume(cut)
    BY <1>1, <2>3, PutIs
  <2>6. w.disk = cut.disk
    <3> HIDE DEF old, cut
    <3>1. [RemoveChain(cut, old) EXCEPT !.last = old - 1].disk = RemoveChain(cut, old).disk
      OBVIOUS
    <3>2. RemoveChain(cut, old).disk = cut.disk
      BY <2>5, RemoveChainIs
    <3> QED
      BY <2>4, <3>1, <3>2
  <2>7. w.disk[0] = v.disk[0] /\ \A c \in Clusters : c # found[1] => w.disk[c] = v.disk[c]
    BY <1>1, <2>3, <2>6, PutThen
  <2> QED
    BY <1>2, <2>1, <2>3, <2>7 DEF EntryTaken, found, dcl
<1>3. CASE found = NoSlot
  <2> DEFINE s == reg.slot
  <2>1. reg = Alloc(v, dcl) /\ w = Put(reg.v, s, BlankFile(name))
    BY <1>3 DEF Registered, Cut, found, dcl
  <2>2. \/ reg.v = v /\ ~IsEntry(At(v, s)) /\ \E k : Placed(v, dcl, k, s)
        \/ Grown(v, dcl, reg)
    <3>1. \/ reg.v = v /\ reg.slot = NoSlot
          \/ reg.v = v /\ reg.slot # NoSlot /\ ~IsEntry(At(v, reg.slot)) /\ \E k : Placed(v, dcl, k, reg.slot)
          \/ Grown(v, dcl, reg)
      BY <1>1, <2>1, AllocIs
    <3> QED
      BY <3>1
  <2>3. CASE reg.v = v /\ ~IsEntry(At(v, s)) /\ \E k : Placed(v, dcl, k, s)
    <3>1. PICK k : Placed(v, dcl, k, s)
      BY <2>3
    <3>2. s \in ToSet(Slots(v, dcl))
      <4>1. Len(Slots(v, dcl)) \in Nat /\ ToSet(Slots(v, dcl)) = {Slots(v, dcl)[j] : j \in 1 .. Len(Slots(v, dcl))}
        BY <1>1, SlotKnown DEF Directory
      <4>2. k \in 3 .. Len(Slots(v, dcl)) /\ s = Slots(v, dcl)[k]
        BY <3>1 DEF Placed
      <4>3. k \in 1 .. Len(Slots(v, dcl))
        BY <4>1, <4>2
      <4> QED
        BY <4>1, <4>2, <4>3
    <3>3. s[1] \in ClustersOf(v, dcl) /\ s[1] \in Clusters
      BY <1>1, <3>2, SlotKnown DEF Directory
    <3>4. s \notin LiveFiles(v)
      BY <2>3 DEF LiveFiles, FilesIn
    <3>5. w.disk[0] = v.disk[0] /\ \A c \in Clusters : c # s[1] => w.disk[c] = v.disk[c]
      <4>1. w.disk = Put(v, s, BlankFile(name)).disk
        BY <2>1, <2>3
      <4> QED
        BY <1>1, <3>3, <4>1, PutThen
    <3> QED
      BY <1>3, <3>3, <3>4, <3>5 DEF EntryTaken, found, dcl
  <2>4. CASE Grown(v, dcl, reg)
    <3> DEFINE r == CreateChain(v, Chain(v, dcl)[Len(Chain(v, dcl))])
               n == r.cl
               u == r.v
    <3>1. /\ Taken(v, Chain(v, dcl)[Len(Chain(v, dcl))], r)
          /\ reg.v = [u EXCEPT !.disk[n] = BlankTable] /\ s = <<n, 0>>
      BY <2>4 DEF Grown
    <3>2. n \in Clusters /\ v.fat[n] = 0 /\ Volume(u) /\ u.disk = v.disk
      BY <3>1 DEF Taken
    <3> HIDE DEF r, n, u
    <3> DEFINE g == reg.v
    <3>8. g = [u EXCEPT !.disk[n] = BlankTable] /\ n \in Clusters \cup {0}
      BY <3>1, <3>2
    <3> HIDE DEF g
    <3>3. Volume(g) /\ \A c \in Clusters \cup {0} : c # n => g.disk[c] = v.disk[c]
      <4>1. Volume(g) /\ \A c \in Clusters \cup {0} : c # n => g.disk[c] = u.disk[c]
        BY ONLY <3>2, <3>8, SectorIs
      <4> QED
        BY <3>2, <4>1
    <3>4. s[1] = n
      BY <3>1
    <3> HIDE DEF s
    <3>5. w.disk[0] = g.disk[0] /\ \A c \in Clusters : c # s[1] => w.disk[c] = g.disk[c]
      <4>1. w.disk = Put(g, s, BlankFile(name)).disk /\ s[1] \in Clusters
        BY <2>1, <3>2, <3>4 DEF g, s
      <4> QED
        BY ONLY <3>3, <4>1, PutThen
    <3>6. w.disk[0] = v.disk[0] /\ \A c \in Clusters : c # s[1] => w.disk[c] = v.disk[c]
      BY <3>2, <3>3, <3>4, <3>5, Constants
    <3>7. s \notin LiveFiles(v)
      <4> SUFFICES ASSUME s \in LiveFiles(v) PROVE FALSE
        OBVIOUS
      <4>1. PICK e \in LiveDirs(v) : s \in FilesIn(v, At(v, e).clust)
        BY LiveFacts
      <4>2. s[1] \in ClustersOf(v, At(v, e).clust)
        BY <4>1, DirFacts, FileFacts
      <4> QED
        BY <3>2, <3>4, <4>2
    <3> QED
      BY <1>3, <3>2, <3>4, <3>6, <3>7 DEF EntryTaken, found, dcl, s
  <2> QED
    BY <2>2, <2>3, <2>4
<1> QED
  BY <1>2, <1>3

-----------------------------------------------------------------------------
(* f_open.                                                                 *)

(* What is in the directory of a path is in the one that was found.        *)
LEMMA InThatDir ==
  ASSUME NEW v, NEW d, NEW p, NEW y, DirOnce(v), d \in LiveDirs(v), At(v, d).name = p[1], InDir(v, p, y)
  PROVE  y \in FilesIn(v, At(v, d).clust) /\ At(v, y).name = p[2]
BY DEF InDir, DirOnce

(* The file at a path is cut to nothing.                                   *)
CutShort(v, w, p) ==
  \A q \in Paths : FileAt(w, q) = IF q = p THEN <<>> ELSE FileAt(v, q)

(* f_open for writing leaves an empty file at the path, and the others as  *)
(* they were (ff.cpp:2283-2406).                                           *)
LEMMA CutContent ==
  ASSUME NEW v, NEW F, NEW p, NEW d, NEW reg, NEW w, Content(v, F), p \in Paths,
         d \in LiveDirs(v), At(v, d).name = p[1],
         \A h \in Handles : Matters(F[h]) => F[h].path # p,
         Registered(v, At(v, d).clust, p[2], reg), reg.slot # NoSlot,
         Cut(v, At(v, d).clust, p[2], reg, w)
  PROVE  /\ Content(w, F) /\ SameOpen(v, w, F) /\ DirNames(w) = DirNames(v)
         /\ CutShort(v, w, p)
<1> DEFINE dcl == At(v, d).clust
           s == reg.slot
<1>1. Inv(v, F) /\ Tree(v) /\ Volume(v) /\ Named(v) /\ Ends(v) /\ DirOnce(v) /\ FileOnce(v)
  BY ContentFacts
<1>2. /\ Inv(w, F) /\ InDir(w, p, s) /\ At(w, s) = BlankFile(p[2])
      /\ Changed(v, w, F, s)
  BY <1>1, CutKeeps
<1>3. EntryTaken(v, dcl, p[2], reg, w)
  <2>1. \A e \in LiveDirs(v) : \A x \in ClustersOf(v, At(v, e).clust) : v.fat[x] # 0
    <3> SUFFICES ASSUME NEW e \in LiveDirs(v), NEW x \in ClustersOf(v, At(v, e).clust) PROVE v.fat[x] # 0
      OBVIOUS
    <3> DEFINE o == <<e, At(v, e).clust>>
    <3>1. o \in ChainsOf(v, F) /\ Apart(v, ChainsOf(v, F))
      BY <1>1, InvFacts
    <3>2. x \in ClustersOf(v, o[2])
      OBVIOUS
    <3> HIDE DEF o
    <3> QED
      BY <3>1, <3>2, OwnedTaken
  <2> QED
    BY <1>1, <2>1, CutIs
<1>4. /\ s[1] \in Clusters /\ (v.fat[s[1]] = 0 \/ s[1] \in ClustersOf(v, dcl))
      /\ w.disk[0] = v.disk[0] /\ \A c \in Clusters : c # s[1] => w.disk[c] = v.disk[c]
      /\ IF Find(v, dcl, p[2]) = NoSlot THEN s \notin LiveFiles(v) ELSE s = Find(v, dcl, p[2])
  BY <1>3 DEF EntryTaken
<1> HIDE DEF s
<1>5. Ends(w) /\ DirOnce(w) /\ DirNames(w) = DirNames(v)
  BY <1>1, <1>4, RootNamed
<1>6. Intact(v, w, F, s)
  BY <1>1, <1>4, IntactDir
<1>7. Tree(w)
  BY <1>2, InvFacts
<1>8. Directory(v, dcl)
  BY <1>1, DirFacts
<1>9. ASSUME NEW q \in Paths, InDir(v, q, s) PROVE q = p
  <2>1. s \in LiveFiles(v)
    BY <1>1, <1>9, LiveFacts
  <2>2. Find(v, dcl, p[2]) # NoSlot /\ s = Find(v, dcl, p[2])
    BY <1>4, <2>1
  <2>3. s \in FilesIn(v, dcl) /\ At(v, s).name = p[2]
    BY <1>8, <2>2, FileFound
  <2>4. InDir(v, p, s)
    BY <2>3 DEF InDir
  <2> QED
    BY <1>1, <1>9, <2>4, OnePath
<1>10. ASSUME NEW q \in Paths, InDir(w, q, s) PROVE q = p
  BY <1>2, <1>7, <1>10, OnePath
<1>11. ASSUME NEW y, InDir(v, p, y) PROVE y = s
  <2>1. y \in FilesIn(v, dcl) /\ At(v, y).name = p[2]
    BY <1>1, <1>11, InThatDir
  <2>2. Find(v, dcl, p[2]) # NoSlot
    BY <1>8, <2>1, FileFinds
  <2>3. s \in FilesIn(v, dcl) /\ At(v, s).name = p[2]
    BY <1>4, <1>8, <2>2, FileFound
  <2>4. InDir(v, p, s)
    BY <2>3 DEF InDir
  <2> QED
    BY <1>1, <1>11, <2>4 DEF FileOnce
<1>12. \A h \in Handles : Matters(F[h]) => F[h].slot # s /\ <<h>> # s
  <2>1. s = <<s[1], s[2]>>
    BY <1>2, <1>7, LiveFacts
  <2>2. ASSUME NEW h \in Handles, Matters(F[h]) PROVE F[h].slot # s /\ <<h>> # s
    <3>1. InDir(v, F[h].path, F[h].slot) /\ F[h].path \in Paths /\ F[h].path # p
      BY <1>1, <2>2, HandleOwns
    <3>2. F[h].slot # s
      BY <1>9, <3>1
    <3> QED
      BY <2>1, <3>2
  <2> QED
    BY <2>2
<1>13. Body(w, s) = <<>>
  BY <1>2, BlankFileIs, NoneOf DEF Body
<1>14. Whole(Body(w, s))
  BY <1>13 DEF Whole
<1>15. \A q \in Paths : InDir(w, q, s) => \A y : InDir(v, q, y) => y = s
  BY <1>10, <1>11
<1>16. /\ Content(w, F) /\ SameOpen(v, w, F)
       /\ \A q \in Paths : ~InDir(v, q, s) /\ ~InDir(w, q, s) => FileAt(w, q) = FileAt(v, q)
  BY <1>2, <1>5, <1>6, <1>12, <1>14, <1>15, ContentKept
<1>17. FileAt(w, p) = <<>>
  <2>1. Tree(w) /\ Named(w)
    BY <1>16, ContentFacts
  <2> QED
    BY <1>2, <1>13, <2>1, FileIs
<1> QED
  BY <1>5, <1>9, <1>10, <1>16, <1>17 DEF CutShort

(* File objects change, and have what they should have of the units.       *)
LEMMA ContentSwap ==
  ASSUME NEW v, NEW F, NEW G, NEW h, Content(v, F), Inv(v, G), \A k \in Handles : k # h => G[k] = F[k],
         h \in Handles => Tended(v, G[h])
  PROVE  Content(v, G)
BY DEF Content

(* The readers of a path are told that it goes.                            *)
LEMMA DisturbContent ==
  ASSUME NEW v, NEW F, NEW p, NEW G, Content(v, F), G = Disturbed(F, p)
  PROVE  /\ Content(v, G)
         /\ \A h \in Handles : Matters(G[h]) => (G[h].mode = "write" /\ F[h] = G[h]) \/ G[h].path # p
         /\ \A h \in Handles :
              OpenAs(v, G[h]) = IF F[h].mode = "read" /\ F[h].path = p
                                THEN [OpenAs(v, F[h]) EXCEPT !.stale = TRUE] ELSE OpenAs(v, F[h])
<1>1. Inv(v, F)
  BY ContentFacts
<1>2. /\ Inv(v, G)
      /\ \A h \in Handles : /\ G[h].mode = F[h].mode /\ G[h].path = F[h].path
                            /\ G[h].mode = "read" /\ G[h].path = p => G[h].stale
                            /\ G[h].mode # "read" => G[h] = F[h]
  BY <1>1, DisturbKeeps
<1>3. \A h \in Handles : G[h] = IF F[h].mode = "read" /\ F[h].path = p
                                THEN [F[h] EXCEPT !.stale = TRUE] ELSE F[h]
  BY DEF Disturbed
<1>4. ASSUME NEW h \in Handles PROVE Tended(v, G[h])
  <2>1. Tended(v, F[h])
    BY DEF Content
  <2>2. CASE F[h].mode = "read" /\ F[h].path = p
    <3>1. G[h].mode = "read" /\ G[h].stale
      BY <1>2, <2>2
    <3> QED
      BY <3>1 DEF Tended
  <2>3. CASE ~(F[h].mode = "read" /\ F[h].path = p)
    BY <1>3, <2>1, <2>3
  <2> QED
    BY <2>2, <2>3
<1>5. Content(v, G)
  BY <1>2, <1>4 DEF Content
<1>6. ASSUME NEW h \in Handles
      PROVE  OpenAs(v, G[h]) = IF F[h].mode = "read" /\ F[h].path = p
                                THEN [OpenAs(v, F[h]) EXCEPT !.stale = TRUE] ELSE OpenAs(v, F[h])
  <2>1. CASE F[h].mode = "read" /\ F[h].path = p
    <3> DEFINE f == F[h]
               g == G[h]
    <3>1. Fil(f)
      BY <1>1 DEF Inv, Opened, Handled
    <3>2. g = [f EXCEPT !.stale = TRUE] /\ f.mode = "read"
      BY <1>3, <2>1
    <3> HIDE DEF f, g
    <3>3. /\ g.mode = f.mode /\ g.path = f.path /\ g.ver = f.ver /\ g.fed = f.fed /\ g.fptr = f.fptr
          /\ g.fsize = f.fsize /\ g.seen = f.seen /\ g.stale = TRUE
      BY <3>1, <3>2 DEF Fil
    <3>4. OpenAs(v, g) = [OpenAs(v, f) EXCEPT !.stale = TRUE]
      <4> DEFINE y == OpenAs(v, f)
                 x == [y EXCEPT !.stale = TRUE]
                 z == OpenAs(v, g)
      <4>1. y = [mode |-> f.mode, path |-> f.path, ver |-> f.ver, fed |-> f.fed, data |-> <<>>,
                 pos |-> f.fptr, len |-> f.fsize, seen |-> f.seen, stale |-> f.stale]
        BY <3>2 DEF OpenAs
      <4>2. z = [mode |-> g.mode, path |-> g.path, ver |-> g.ver, fed |-> g.fed, data |-> <<>>,
                 pos |-> g.fptr, len |-> g.fsize, seen |-> g.seen, stale |-> g.stale]
        BY <3>2, <3>3 DEF OpenAs
      <4>3. x = [y EXCEPT !.stale = TRUE]
        OBVIOUS
      <4> HIDE DEF x, y, z
      <4>4. /\ x = [mode |-> x.mode, path |-> x.path, ver |-> x.ver, fed |-> x.fed, data |-> x.data,
                    pos |-> x.pos, len |-> x.len, seen |-> x.seen, stale |-> x.stale]
            /\ x.mode = f.mode /\ x.path = f.path /\ x.ver = f.ver /\ x.fed = f.fed /\ x.data = <<>>
            /\ x.pos = f.fptr /\ x.len = f.fsize /\ x.seen = f.seen /\ x.stale = TRUE
        BY ONLY <4>1, <4>3
      <4>5. x = z
        BY ONLY <3>3, <4>2, <4>4
      <4> QED
        BY <4>5 DEF x, y, z
    <3> QED
      BY <2>1, <3>4 DEF f, g
  <2>2. CASE ~(F[h].mode = "read" /\ F[h].path = p)
    <3>1. G[h] = F[h]
      BY <1>3, <2>2
    <3> QED
      BY <2>2, <3>1
  <2> QED
    BY <2>1, <2>2
<1>7. \A h \in Handles : Matters(G[h]) => (G[h].mode = "write" /\ F[h] = G[h]) \/ G[h].path # p
  BY <1>2 DEF Matters
<1> QED
  BY <1>5, <1>6, <1>7

-----------------------------------------------------------------------------
(* f_write: one pass of its loop.                                          *)

(* What is known of a writer.                                              *)
LEMMA WriterIs ==
  ASSUME NEW v, NEW F, NEW h, Content(v, F), h \in Handles, F[h].mode = "write"
  PROVE  Appending(v, F[h]) /\ Whole(WrittenBy(v, F[h]))
<1> DEFINE f == F[h]
           o == << <<h>>, f.sclust>>
<1>1. Inv(v, F) /\ Volume(v) /\ Apart(v, ChainsOf(v, F))
  BY ContentFacts
<1>2. Handled(v, f) /\ Tended(v, f)
  BY <1>1 DEF Inv, Opened, Content
<1>3. Fil(f) /\ Writing(v, f) /\ AtEnd(v, f) /\ Whole(WrittenBy(v, f))
  BY <1>2 DEF Handled, Tended
<1>4. o \in ChainsOf(v, F)
  BY <1>1, HandleOwns DEF Matters
<1>5. o[2] = f.sclust
  OBVIOUS
<1> HIDE DEF o, f
<1>6. f.sclust # 0 => Sound(v, f.sclust)
  BY <1>1, <1>4, <1>5 DEF Apart
<1>7. Appending(v, f)
  BY <1>1, <1>3, <1>6 DEF Appending
<1> QED
  BY <1>3, <1>7 DEF f

(* A writer changes what is its own: nothing else is seen to change.       *)
LEMMA OwnWrite ==
  ASSUME NEW v, NEW w, NEW F, NEW G, NEW h, Content(v, F), Inv(w, G), h \in Handles,
         F[h].mode = "write", Changed(v, w, F, <<h>>), Intact(v, w, F, <<h>>),
         w.disk[0] = v.disk[0], \A k \in Handles : k # h => G[k] = F[k], Tended(w, G[h])
  PROVE  /\ Content(w, G) /\ SameFiles(v, w) /\ DirNames(w) = DirNames(v)
         /\ \A k \in Handles : k # h => OpenAs(w, G[k]) = OpenAs(v, F[k])
<1> DEFINE s == <<h>>
<1>1. Inv(v, F) /\ Tree(v) /\ Named(v) /\ Ends(v) /\ DirOnce(v) /\ FileOnce(v) /\ Filled(v)
  BY ContentFacts DEF Content
<1>2. Tree(w)
  BY DEF Inv
<1>3. Ends(w) /\ DirOnce(w) /\ DirNames(w) = DirNames(v)
  BY <1>1, RootNamed
<1>4. \A x : x \in LiveFiles(v) \/ x \in LiveFiles(w) => x # s
  <2> SUFFICES ASSUME NEW x, x \in LiveFiles(v) \/ x \in LiveFiles(w) PROVE x # s
    OBVIOUS
  <2>1. x = <<x[1], x[2]>>
    BY <1>1, <1>2, LiveFacts
  <2> QED
    BY <2>1
<1>5. \A p : ~InDir(v, p, s) /\ ~InDir(w, p, s)
  BY <1>1, <1>2, <1>4, LiveFacts
<1>6. s = <<h>>
  OBVIOUS
<1> HIDE DEF s
<1>7. Changed(v, w, F, s) /\ Intact(v, w, F, s)
  BY <1>6
<1>8. FileOnce(w)
  BY ONLY <1>1, <1>2, <1>5, <1>7, FilesNamed
<1>9. Named(w)
  BY <1>3, <1>8 DEF Named
<1>10. Filled(w)
  BY <1>1, <1>4, <1>7, FilledKept
<1>11. SameFiles(v, w)
  BY <1>1, <1>2, <1>5, <1>7, <1>9, FileKept DEF SameFiles
<1>12. ASSUME NEW k \in Handles, k # h PROVE Tended(w, F[k]) /\ OpenAs(w, F[k]) = OpenAs(v, F[k])
  <2>1. Tended(v, F[k])
    BY DEF Content
  <2>2. <<k>> # s
    BY <1>6, <1>12
  <2>3. Matters(F[k]) => F[k].slot # s
    BY <1>1, <1>4, HandleOwns
  <2> QED
    BY <1>1, <1>7, <2>1, <2>2, <2>3, TendedKept
<1>13. \A k \in Handles : Tended(w, G[k])
  BY <1>12
<1>14. Content(w, G)
  BY <1>9, <1>10, <1>13 DEF Content
<1> QED
  BY <1>3, <1>11, <1>12, <1>14

(* A sequence of this length.                                              *)
Listed(s, len) == s = [i \in 1 .. len |-> s[i]]

(* Units are added behind those that a writer has in its file.             *)
LEMMA WriterGrows ==
  ASSUME NEW v, NEW f, NEW w, NEW g, NEW len, NEW s, Appending(v, f), Appending(w, g),
         len \in Nat, g.fptr = f.fptr + len,
         \A k \in 1 .. f.fptr : UnitAt(Flush(w, g), g.sclust, k) = UnitAt(Flush(v, f), f.sclust, k),
         Listed(s, len),
         \A i \in 1 .. len : UnitAt(Flush(w, g), g.sclust, f.fptr + i) = s[i]
  PROVE  WrittenBy(w, g) = WrittenBy(v, f) \o s
<1>1. \A a, b : Appending(a, b) => /\ b.fptr \in Nat
                                   /\ b.fptr <= Len(Chain(Flush(a, b), b.sclust)) * SS
  <2> SUFFICES ASSUME NEW a, NEW b, Appending(a, b)
               PROVE  b.fptr \in Nat /\ b.fptr <= Len(Chain(Flush(a, b), b.sclust)) * SS
    OBVIOUS
  <2>1. Flush(a, b).fat = a.fat
    BY DEF Flush
  <2>2. Chain(Flush(a, b), b.sclust) = Chain(a, b.sclust)
    BY <2>1, ChainByTable
  <2> DEFINE c == Chain(a, b.sclust)
             L == Len(c)
  <2>0. c = Chain(a, b.sclust) /\ L = Len(c)
    OBVIOUS
  <2> HIDE DEF c, L
  <2>3. b.fptr \in Nat /\ b.fptr <= L * SS
    BY ONLY <2>0, Appending(a, b), LastSector
  <2> QED
    BY <2>0, <2>2, <2>3
<1> DEFINE x == Flush(v, f)
           y == Flush(w, g)
<1>2. x = Flush(v, f) /\ y = Flush(w, g)
  OBVIOUS
<1> HIDE DEF x, y
<1>3. f.fptr \in Nat /\ f.fptr <= Len(Chain(x, f.sclust)) * SS
  BY <1>1, <1>2
<1>4. f.fptr + len <= Len(Chain(y, g.sclust)) * SS
  BY <1>1, <1>2
<1>5. ChainUnits(y, g.sclust, f.fptr + len) = ChainUnits(x, f.sclust, f.fptr) \o s
  <2> DEFINE n == f.fptr
             c == f.sclust
             d == g.sclust
  <2>1. n \in Nat /\ n <= Len(Chain(x, c)) * SS /\ n + len <= Len(Chain(y, d)) * SS
    BY <1>3, <1>4
  <2>2. \A k \in 1 .. n : UnitAt(y, d, k) = UnitAt(x, c, k)
    BY <1>2
  <2>3. \A i \in 1 .. len : UnitAt(y, d, n + i) = s[i]
    BY <1>2
  <2> HIDE DEF n, c, d
  <2>5. s = [i \in 1 .. len |-> s[i]]
    BY DEF Listed
  <2>4. ChainUnits(y, d, n + len) = ChainUnits(x, c, n) \o s
    BY ONLY <2>1, <2>2, <2>3, <2>5, len \in Nat, UnitsGrow
  <2> QED
    BY <2>4 DEF n, c, d
<1> QED
  BY <1>2, <1>5, FlushedUnits

(* A sector with some cells replaced.                                      *)
LEMMA PatchIs ==
  ASSUME NEW old, NEW i, NEW s, NEW len, i \in 0 .. SS - 1, len \in Nat, i + len <= SS,
         s = [k \in 1 .. len |-> s[k]]
  PROVE  /\ \A c \in 0 .. i - 1 : Patch(old, i, s)[c] = old[c]
         /\ \A k \in 1 .. len : Patch(old, i, s)[i + k - 1] = s[k]
<1>1. Len(s) = len
  <2>1. s \in Seq({s[k] : k \in 1 .. len}) /\ DOMAIN s = 1 .. len
    BY ONLY len \in Nat, s = [k \in 1 .. len |-> s[k]]
  <2> QED
    BY <2>1
<1>2. \A c \in 0 .. SS - 1 :
        Patch(old, i, s)[c] = IF c \in i .. i + len - 1 THEN s[c - i + 1] ELSE old[c]
  BY <1>1 DEF Patch
<1>3. ASSUME NEW c \in 0 .. i - 1 PROVE Patch(old, i, s)[c] = old[c]
  <2>1. c \in 0 .. SS - 1 /\ c \notin i .. i + len - 1
    BY Constants
  <2> QED
    BY <1>2, <2>1
<1>4. ASSUME NEW k \in 1 .. len PROVE Patch(old, i, s)[i + k - 1] = s[k]
  <2> DEFINE c == i + k - 1
  <2>0. SS \in Nat
    BY Constants
  <2>1. c \in 0 .. SS - 1 /\ c \in i .. i + len - 1 /\ c - i + 1 = k
    BY ONLY <2>0, i \in 0 .. SS - 1, len \in Nat, i + len <= SS, k \in 1 .. len
  <2> HIDE DEF c
  <2>2. Patch(old, i, s)[c] = s[k]
    BY <1>2, <2>1
  <2> QED
    BY <2>2 DEF c
<1> QED
  BY <1>3, <1>4

(* The file object f with len more units, which are in its buffer.         *)
Buffered(f, g, len, s) ==
  /\ g.fptr = f.fptr + len /\ g.sclust = f.sclust /\ g.dsect = f.dsect /\ g.dirty = TRUE
  /\ Listed(s, len) /\ g.buf = Patch(f.buf, f.fptr % SS, s)
  /\ f.fptr % SS # 0 /\ len <= SS - (f.fptr % SS) /\ len \in Nat \ {0}

(* Inside a sector the units of a writer are added to his buffer.          *)
LEMMA InsideWrites ==
  ASSUME NEW v, NEW f, NEW g, NEW len, NEW s, Appending(v, f), Appending(v, g),
         Buffered(f, g, len, s)
  PROVE  WrittenBy(v, g) = WrittenBy(v, f) \o s
<1>0. /\ g.fptr = f.fptr + len /\ g.sclust = f.sclust /\ g.dsect = f.dsect /\ g.dirty = TRUE
      /\ Listed(s, len) /\ g.buf = Patch(f.buf, f.fptr % SS, s)
      /\ f.fptr % SS # 0 /\ len <= SS - (f.fptr % SS) /\ len \in Nat \ {0}
  BY DEF Buffered
<1> DEFINE c == f.sclust
           chain == Chain(v, c)
           L == Len(chain)
           x == Flush(v, f)
           y == Flush(v, g)
           r == f.fptr % SS
           q == L - 1
<1>1. c = f.sclust /\ chain = Chain(v, c) /\ L = Len(chain) /\ x = Flush(v, f) /\ y = Flush(v, g)
      /\ q = L - 1
  OBVIOUS
<1>2. f.dirty /\ c # 0 /\ f.dsect = f.clust /\ Volume(v) /\ f.fptr \in Nat
  BY <1>0, Constants DEF Appending, AtEnd, Fil
<1>3. r \in 0 .. SS - 1 /\ r # 0
  <2> DEFINE a == f.fptr
  <2>1. a \in Nat /\ SS \in Nat \ {0} /\ a % SS # 0
    BY <1>0, <1>2, Constants
  <2> HIDE DEF a
  <2>2. a % SS \in 0 .. SS - 1
    BY ONLY <2>1, DivMod
  <2> QED
    BY <2>1, <2>2 DEF a
<1> HIDE DEF c, chain, L, x, y, q
<1>4. /\ L \in Nat /\ L >= 1 /\ chain \in Seq(Clusters) /\ f.clust = chain[L]
      /\ f.fptr # 0 /\ (f.fptr - 1) \div SS = q
      /\ \A i, j \in 1 .. L : chain[i] = chain[j] => i = j
      /\ \A k \in 1 .. f.fptr : /\ SectorOf(k) \in 1 .. L /\ CellOf(k) \in 0 .. SS - 1
                                /\ k - 1 = SS * (SectorOf(k) - 1) + CellOf(k)
  <2>1. chain = Chain(v, f.sclust) /\ f.sclust # 0
    BY <1>1, <1>2
  <2>2. /\ L \in Nat /\ chain \in Seq(Clusters) /\ \A i, j \in 1 .. L : chain[i] = chain[j] => i = j
        /\ f.sclust # 0 => L >= 1 /\ f.clust = chain[L] /\ f.fptr # 0 /\ (f.fptr - 1) \div SS = L - 1
        /\ \A k \in 1 .. f.fptr : /\ SectorOf(k) \in 1 .. L /\ CellOf(k) \in 0 .. SS - 1
                                  /\ k - 1 = SS * (SectorOf(k) - 1) + CellOf(k)
    BY ONLY <1>1, <2>1, Appending(v, f), LastSector
  <2> QED
    BY <1>1, <2>1, <2>2
<1>5. q \in Nat /\ f.clust \in Clusters /\ chain[L] = f.clust /\ SS \in Nat \ {0}
  BY <1>1, <1>4, Constants
<1>6. /\ \A d \in Clusters \cup {0} : x.disk[d] = IF d = f.clust THEN f.buf ELSE v.disk[d]
      /\ \A d \in Clusters \cup {0} : y.disk[d] = IF d = f.clust THEN g.buf ELSE v.disk[d]
      /\ x.fat = v.fat /\ y.fat = v.fat
  <2>1. f.dsect \in Clusters /\ g.dsect = f.clust /\ f.dirty /\ g.dirty /\ f.clust \in Clusters \cup {0}
    BY <1>0, <1>2, <1>5
  <2>2. /\ x.fat = v.fat
        /\ \A d \in Clusters \cup {0} : x.disk[d] = IF f.dirty /\ d = f.dsect THEN f.buf ELSE v.disk[d]
    BY ONLY <1>1, <1>2, <2>1, FlushIs
  <2>3. /\ y.fat = v.fat
        /\ \A d \in Clusters \cup {0} : y.disk[d] = IF g.dirty /\ d = g.dsect THEN g.buf ELSE v.disk[d]
    BY ONLY <1>1, <1>2, <1>5, <2>1, FlushIs
  <2> QED
    BY <1>2, <2>1, <2>2, <2>3
<1>7. Chain(x, c) = chain /\ Chain(y, c) = chain
  BY <1>1, <1>6, ChainByTable
<1>8. f.fptr = SS * q + r
  <2>1. f.fptr = SS * (f.fptr \div SS) + r /\ f.fptr \div SS \in Nat
    BY <1>2, <1>5, DivMod
  <2> DEFINE u == f.fptr \div SS
  <2>2. f.fptr - 1 = SS * u + (r - 1) /\ r - 1 \in 0 .. SS - 1 /\ u \in Nat
    <3> DEFINE z == SS * u
    <3>1. z \in Nat /\ f.fptr = z + r
      BY <1>5, <2>1
    <3> HIDE DEF z
    <3>2. f.fptr - 1 = z + (r - 1) /\ r - 1 \in 0 .. SS - 1
      BY ONLY <3>1, <1>3, <1>5
    <3> QED
      BY <2>1, <3>2 DEF z
  <2> HIDE DEF u
  <2>3. (SS * u + (r - 1)) \div SS = u
    BY <1>5, <2>2, DivModIs
  <2>4. u = q
    BY <1>4, <2>2, <2>3
  <2> QED
    BY <2>1, <2>4 DEF u
<1>9. \A k \in 1 .. f.fptr : UnitAt(y, c, k) = UnitAt(x, c, k)
  <2> SUFFICES ASSUME NEW k \in 1 .. f.fptr PROVE UnitAt(y, c, k) = UnitAt(x, c, k)
    OBVIOUS
  <2> DEFINE i == SectorOf(k)
             e == CellOf(k)
  <2>1. i \in 1 .. L /\ e \in 0 .. SS - 1 /\ k - 1 = SS * (i - 1) + e
    BY <1>4
  <2>2. UnitAt(x, c, k) = x.disk[chain[i]][e] /\ UnitAt(y, c, k) = y.disk[chain[i]][e]
    BY <1>7 DEF UnitAt
  <2> HIDE DEF i, e
  <2>3. CASE i # L
    <3>1. chain[i] # f.clust /\ chain[i] \in Clusters
      <4>1. L \in 1 .. L /\ chain[i] # chain[L]
        BY ONLY <1>4, <2>1, <2>3
      <4>2. chain[i] \in Clusters
        BY ONLY <1>1, <1>4, <2>1
      <4> QED
        BY <1>4, <4>1, <4>2
    <3> QED
      BY <1>6, <2>2, <3>1
  <2>4. CASE i = L
    <3>1. k - 1 = SS * q + e
      BY <2>1, <2>4, <1>1
    <3> DEFINE z == SS * q
    <3>2. z \in Nat /\ k - 1 = z + e /\ f.fptr = z + r
      BY <3>1, <1>8, <1>5
    <3> HIDE DEF z
    <3>3. e \in 0 .. r - 1
      BY <3>2, <1>3, <2>1, <1>2
    <3>4. r + len <= SS /\ len \in Nat /\ s = [j \in 1 .. len |-> s[j]] /\ g.buf = Patch(f.buf, r, s)
      BY <1>0, <1>3, <1>5 DEF Listed
    <3>5. g.buf[e] = f.buf[e]
      BY ONLY <1>3, <3>3, <3>4, PatchIs
    <3> QED
      BY <1>5, <1>6, <2>2, <2>4, <3>5
  <2> QED
    BY <2>3, <2>4
<1>10. \A i \in 1 .. len : UnitAt(y, c, f.fptr + i) = s[i]
  <2> SUFFICES ASSUME NEW i \in 1 .. len PROVE UnitAt(y, c, f.fptr + i) = s[i]
    OBVIOUS
  <2> DEFINE k == f.fptr + i
             e == r + i - 1
             z == SS * q
  <2>1. z \in Nat /\ f.fptr = z + r
    BY <1>5, <1>8
  <2> HIDE DEF z
  <2>2. k \in Nat \ {0} /\ k - 1 = z + e /\ e \in 0 .. SS - 1 /\ r + len <= SS
    BY ONLY <1>0, <1>2, <1>3, <1>5, <2>1, i \in 1 .. len
  <2> HIDE DEF k
  <2>3. k - 1 = SS * q + e
    BY <2>2 DEF z
  <2>4. g.buf[e] = s[i]
    <3>1. Patch(f.buf, r, s)[r + i - 1] = s[i]
      BY ONLY <1>0, <1>3, <2>2, i \in 1 .. len, PatchIs DEF Listed
    <3> QED
      BY <1>0, <3>1
  <2> HIDE DEF e
  <2>5. SectorOf(k) = q + 1 /\ CellOf(k) = e
    BY ONLY <1>5, <2>2, <2>3, UnitPlaced
  <2>6. q + 1 = L
    BY <1>1, <1>4
  <2>7. UnitAt(y, c, k) = y.disk[chain[L]][e]
    BY <1>7, <2>5, <2>6 DEF UnitAt
  <2> QED
    BY <1>5, <1>6, <2>4, <2>7 DEF k
<1> HIDE DEF r
<1>11. /\ \A k \in 1 .. f.fptr : UnitAt(Flush(v, g), g.sclust, k) = UnitAt(Flush(v, f), f.sclust, k)
       /\ \A i \in 1 .. len : UnitAt(Flush(v, g), g.sclust, f.fptr + i) = s[i]
  BY <1>0, <1>1, <1>9, <1>10
<1>12. len \in Nat /\ Listed(s, len) /\ g.fptr = f.fptr + len
  BY <1>0
<1> QED
  BY ONLY <1>11, <1>12, Appending(v, f), Appending(v, g), WriterGrows

(* At the edge of a sector a writer stands behind his chain.               *)
LEMMA EdgeLength ==
  ASSUME NEW v, NEW f, Appending(v, f), f.fptr % SS = 0
  PROVE  f.fptr = SS * Len(Chain(v, f.sclust)) /\ Len(Chain(v, f.sclust)) \in Nat
<1> DEFINE s == Chain(v, f.sclust)
           L == Len(s)
<1>1. s = Chain(v, f.sclust) /\ L = Len(s)
  OBVIOUS
<1> HIDE DEF s, L
<1>2. /\ L \in Nat /\ f.fptr \in Nat
      /\ f.sclust = 0 => L = 0 /\ f.fptr = 0
      /\ f.sclust # 0 => L >= 1 /\ f.fptr # 0 /\ (f.fptr - 1) \div SS = L - 1
  BY ONLY <1>1, Appending(v, f), LastSector
<1>3. SS \in Nat \ {0}
  BY Constants
<1>4. CASE f.sclust = 0
  <2>1. L = 0 /\ f.fptr = 0
    BY <1>2, <1>4
  <2>2. SS * 0 = 0
    BY <1>3
  <2> QED
    BY <1>1, <2>1, <2>2
<1>5. CASE f.sclust # 0
  <2> DEFINE u == f.fptr \div SS
             y == SS * (u - 1)
  <2>0. \A a \in Nat : a % SS = 0 => a = SS * (a \div SS) /\ a \div SS \in Nat
    <3> SUFFICES ASSUME NEW a \in Nat, a % SS = 0 PROVE a = SS * (a \div SS) /\ a \div SS \in Nat
      OBVIOUS
    <3> DEFINE b == a \div SS
               z == SS * b
    <3>1. a = z + (a % SS) /\ b \in Nat /\ z \in Nat
      BY ONLY <1>3, a \in Nat, DivMod
    <3> HIDE DEF z
    <3>2. a = z
      BY ONLY <3>1, a % SS = 0, a \in Nat
    <3> QED
      BY <3>1, <3>2 DEF z
  <2>1. u \in Nat
    BY <1>2, <2>0
  <2>2. f.fptr = SS * u
    BY <1>2, <2>0
  <2> HIDE DEF u
  <2>3. u # 0
    <3>1. SS * 0 = 0
      BY <1>3
    <3> QED
      BY <1>2, <1>5, <2>2, <3>1
  <2>4. u - 1 \in Nat /\ SS - 1 \in 0 .. SS - 1
    BY ONLY <1>3, <2>1, <2>3
  <2>5. SS * u = y + SS /\ y \in Nat
    BY ONLY <1>3, <2>1, <2>4
  <2>6. (SS * (u - 1) + (SS - 1)) \div SS = u - 1
    BY ONLY <1>3, <2>4, DivModIs
  <2>7. (y + (SS - 1)) \div SS = u - 1
    BY <2>6
  <2> HIDE DEF y
  <2>8. f.fptr - 1 = y + (SS - 1)
    BY ONLY <1>3, <2>2, <2>5
  <2>9. u - 1 = L - 1
    BY ONLY <1>2, <1>5, <2>7, <2>8
  <2>10. u = L
    BY ONLY <1>2, <2>1, <2>9
  <2> QED
    BY <1>1, <1>2, <2>2, <2>10
<1> QED
  BY <1>4, <1>5

(* The disk with the last sectors of the writers f and g in place: one     *)
(* sector is new.                                                          *)
OneMore(v, f, w, g, n, b) ==
  \A d \in Clusters : Flush(w, g).disk[d] = IF d = n THEN b ELSE Flush(v, f).disk[d]

(* The file object f with a new cluster n and len units in it.             *)
Extended(v, f, w, g, len, s, n) ==
  /\ f.fptr % SS = 0 /\ len \in 1 .. SS /\ g.fptr = f.fptr + len /\ n \in Clusters
  /\ n \notin ClustersOf(v, f.sclust) /\ Chain(w, g.sclust) = Append(Chain(v, f.sclust), n)
  /\ Listed(s, len) /\ OneMore(v, f, w, g, n, Patch(NoUnits, 0, s))

(* A sector that a writer begins has the new units and nothing else.       *)
LEMMA BegunWrites ==
  ASSUME NEW v, NEW f, NEW w, NEW g, NEW len, NEW s, NEW n, Appending(v, f), Appending(w, g),
         Extended(v, f, w, g, len, s, n)
  PROVE  WrittenBy(w, g) = WrittenBy(v, f) \o s
<1>a. /\ f.fptr % SS = 0 /\ len \in 1 .. SS /\ g.fptr = f.fptr + len /\ n \in Clusters
      /\ n \notin ClustersOf(v, f.sclust) /\ Chain(w, g.sclust) = Append(Chain(v, f.sclust), n)
      /\ Listed(s, len) /\ OneMore(v, f, w, g, n, Patch(NoUnits, 0, s))
  BY DEF Extended
<1> USE <1>a
<1> DEFINE c == f.sclust
           d == g.sclust
           chain == Chain(v, c)
           L == Len(chain)
           x == Flush(v, f)
           y == Flush(w, g)
<1>1. /\ c = f.sclust /\ d = g.sclust /\ chain = Chain(v, c) /\ L = Len(chain)
      /\ x = Flush(v, f) /\ y = Flush(w, g)
  OBVIOUS
<1> HIDE DEF c, d, chain, L, x, y
<1>0. \A e \in Clusters : y.disk[e] = IF e = n THEN Patch(NoUnits, 0, s) ELSE x.disk[e]
  BY <1>1 DEF OneMore
<1>2. SS \in Nat \ {0} /\ len \in Nat \ {0} /\ len \in Nat
  BY Constants
<1>3. f.fptr = SS * L /\ L \in Nat /\ f.fptr \in Nat
  <2>1. f.fptr % SS = 0
    BY <1>a
  <2> QED
    BY ONLY <1>1, <1>2, <2>1, Appending(v, f), EdgeLength
<1>4. /\ chain \in Seq(Clusters)
      /\ \A k \in 1 .. f.fptr : /\ SectorOf(k) \in 1 .. L /\ CellOf(k) \in 0 .. SS - 1
                                /\ chain[SectorOf(k)] \in ClustersOf(v, c)
  BY ONLY <1>1, Appending(v, f), LastSector
<1>5. x.fat = v.fat /\ y.fat = w.fat
  BY <1>1 DEF Flush
<1>6. Chain(x, c) = chain /\ Chain(y, d) = Append(chain, n)
  BY <1>1, <1>5, ChainByTable
<1>7. \A k \in 1 .. f.fptr : UnitAt(y, d, k) = UnitAt(x, c, k)
  <2> SUFFICES ASSUME NEW k \in 1 .. f.fptr PROVE UnitAt(y, d, k) = UnitAt(x, c, k)
    OBVIOUS
  <2> DEFINE i == SectorOf(k)
             e == CellOf(k)
             a == chain[i]
  <2>1. i \in 1 .. L /\ a \in ClustersOf(v, c)
    BY <1>4
  <2>2. UnitAt(x, c, k) = x.disk[a][e] /\ UnitAt(y, d, k) = y.disk[Append(chain, n)[i]][e]
    BY <1>6 DEF UnitAt
  <2>3. a \in Clusters /\ a # n
    BY <1>1, <2>1, ClustersIn
  <2>4. Append(chain, n)[i] = a
    BY ONLY <1>1, <1>4, <2>1
  <2> HIDE DEF i, e, a
  <2> QED
    BY <1>0, <2>2, <2>3, <2>4
<1>8. \A i \in 1 .. len : UnitAt(y, d, f.fptr + i) = s[i]
  <2> SUFFICES ASSUME NEW i \in 1 .. len PROVE UnitAt(y, d, f.fptr + i) = s[i]
    OBVIOUS
  <2> DEFINE k == f.fptr + i
             e == i - 1
             z == SS * L
  <2>1. k \in Nat \ {0} /\ e \in 0 .. SS - 1 /\ f.fptr = z
    BY <1>2, <1>3
  <2> HIDE DEF z
  <2>2. k - 1 = z + e
    BY <1>3, <2>1
  <2>3. k - 1 = SS * L + e
    BY <2>2 DEF z
  <2>4. Patch(NoUnits, 0, s)[e] = s[i]
    <3>1. 0 \in 0 .. SS - 1 /\ 0 + len <= SS /\ s = [j \in 1 .. len |-> s[j]] /\ 0 + i - 1 = e
      BY <1>2 DEF Listed
    <3>2. Patch(NoUnits, 0, s)[0 + i - 1] = s[i]
      BY ONLY <1>2, <3>1, i \in 1 .. len, PatchIs
    <3> QED
      BY <3>1, <3>2
  <2> HIDE DEF k, e
  <2>5. SectorOf(k) = L + 1 /\ CellOf(k) = e
    BY ONLY <1>3, <2>1, <2>3, UnitPlaced
  <2>6. Append(chain, n)[L + 1] = n
    BY ONLY <1>1, <1>4
  <2>7. UnitAt(y, d, k) = y.disk[n][e]
    BY <1>6, <2>5, <2>6 DEF UnitAt
  <2> QED
    BY <1>0, <2>4, <2>7 DEF k
<1>9. /\ \A k \in 1 .. f.fptr : UnitAt(Flush(w, g), g.sclust, k) = UnitAt(Flush(v, f), f.sclust, k)
      /\ \A i \in 1 .. len : UnitAt(Flush(w, g), g.sclust, f.fptr + i) = s[i]
  BY <1>1, <1>7, <1>8
<1> QED
  BY ONLY <1>a, <1>2, <1>9, Appending(v, f), Appending(w, g), WriterGrows

(* A writer of the invariant that stands at the end of its chain.          *)
LEMMA AppendingIs ==
  ASSUME NEW v, NEW F, NEW h, Inv(v, F), h \in Handles, F[h].mode = "write", AtEnd(v, F[h])
  PROVE  Appending(v, F[h])
<1> DEFINE f == F[h]
           o == << <<h>>, f.sclust>>
<1>1. Volume(v) /\ Apart(v, ChainsOf(v, F))
  BY DEF Inv, Tree
<1>2. Handled(v, f)
  BY DEF Inv, Opened
<1>3. Fil(f) /\ Writing(v, f)
  BY <1>2 DEF Handled
<1>4. o \in ChainsOf(v, F)
  BY <1>1, HandleOwns DEF Matters
<1>5. o[2] = f.sclust
  OBVIOUS
<1> HIDE DEF o
<1>6. f.sclust # 0 => Sound(v, f.sclust)
  BY <1>1, <1>4, <1>5 DEF Apart
<1> QED
  BY <1>1, <1>3, <1>6 DEF Appending

(* Written units behind written units.                                     *)
LEMMA WholeBoth ==
  ASSUME NEW a, NEW n, NEW b, NEW m, n \in Nat, m \in Nat, Listed(a, n), Listed(b, m),
         Whole(a), Whole(b)
  PROVE  Whole(a \o b)
<1>1. a = [i \in 1 .. n |-> a[i]] /\ b = [i \in 1 .. m |-> b[i]]
  BY DEF Listed
<1>2. \A i \in 1 .. n : a[i].kind = "data"
  <2>1. DOMAIN a = 1 .. n
    BY <1>1
  <2> QED
    BY <2>1 DEF Whole
<1>3. \A i \in 1 .. m : b[i].kind = "data"
  <2>1. DOMAIN b = 1 .. m
    BY <1>1
  <2> QED
    BY <2>1 DEF Whole
<1>4. /\ a \o b \in Seq({a[i] : i \in 1 .. n} \cup {b[i] : i \in 1 .. m}) /\ DOMAIN (a \o b) = 1 .. n + m
      /\ \A i \in 1 .. n + m : (a \o b)[i] = IF i <= n THEN a[i] ELSE b[i - n]
  <2> DEFINE T == {a[i] : i \in 1 .. n} \cup {b[i] : i \in 1 .. m}
  <2>1. a \in Seq(T) /\ b \in Seq(T) /\ Len(a) = n /\ Len(b) = m
    <3>1. a \in [1 .. n -> T] /\ b \in [1 .. m -> T]
      BY ONLY <1>1
    <3> HIDE DEF T
    <3> QED
      BY ONLY <3>1, n \in Nat, m \in Nat
  <2> HIDE DEF T
  <2>2. a \o b \in Seq(T) /\ Len(a \o b) = n + m
    BY ONLY <2>1
  <2>3. DOMAIN (a \o b) = 1 .. n + m
    BY ONLY <2>2
  <2>4. \A i \in 1 .. n + m : (a \o b)[i] = IF i <= n THEN a[i] ELSE b[i - n]
    BY ONLY <2>1, n \in Nat, m \in Nat
  <2> QED
    BY <2>2, <2>3, <2>4 DEF T
<1>5. ASSUME NEW i \in 1 .. n + m PROVE (a \o b)[i].kind = "data"
  <2>1. CASE i <= n
    BY <1>2, <1>4, <2>1
  <2>2. CASE i > n
    <3>1. i - n \in 1 .. m
      BY <2>2
    <3> QED
      BY <1>3, <1>4, <2>2, <3>1
  <2>3. i <= n \/ i > n
    OBVIOUS
  <2> QED
    BY ONLY <2>1, <2>2, <2>3
<1> QED
  BY <1>4, <1>5 DEF Whole

(* The units of a pass.                                                    *)
LEMMA UnitsListed ==
  ASSUME NEW st, NEW len, len \in Nat
  PROVE  Listed(Units(st, len), len) /\ Whole(Units(st, len))
BY DEF Listed, Units, Whole, Unit

(* What a writer has is a sequence.                                        *)
LEMMA WrittenListed ==
  ASSUME NEW v, NEW f
  PROVE  Listed(WrittenBy(v, f), f.fptr)
BY DEF Listed, WrittenBy

(* The sector n is written, or held back, after what was held back before. *)
Laid(u, f, w, g, n, b) ==
  \/ g.dirty = FALSE /\ w = [Flush(u, f) EXCEPT !.disk[n] = b]
  \/ g.dirty = TRUE /\ g.dsect = n /\ w = Flush(u, f) /\ g.buf = b

(* A volume that differs in its table only; a sector that is held back.    *)
Alike(u, v) == Volume(u) /\ u.disk = v.disk
Backed(f) == f.dirty => f.dsect \in Clusters

(* The sectors that f_write writes.                                        *)
OutOf(f, n) == {n} \cup {d \in Clusters : f.dirty /\ d = f.dsect}

(* No other sector is written, and not the root.                           *)
Beneath(v, w, f, n) ==
  w.disk[0] = v.disk[0] /\ \A d \in Clusters : d \notin OutOf(f, n) => w.disk[d] = v.disk[d]

(* What a pass that begins a sector leaves on the disk.                    *)
LEMMA BegunDisk ==
  ASSUME NEW v, NEW u, NEW f, NEW w, NEW g, NEW n, NEW P, Volume(v), Alike(u, v), Backed(f), n \in Clusters,
         Laid(u, f, w, g, n, P)
  PROVE  OneMore(v, f, w, g, n, P) /\ Beneath(v, w, f, n)
<1>0. Volume(u) /\ u.disk = v.disk /\ (f.dirty => f.dsect \in Clusters)
  BY DEF Alike, Backed
<1> DEFINE x == Flush(u, f)
           y == Flush(v, f)
           z == Flush(w, g)
<1>1. x = Flush(u, f) /\ y = Flush(v, f) /\ z = Flush(w, g)
  OBVIOUS
<1> HIDE DEF x, y, z
<1>2. /\ Volume(x)
      /\ \A d \in Clusters \cup {0} : x.disk[d] = IF f.dirty /\ d = f.dsect THEN f.buf ELSE u.disk[d]
  BY ONLY <1>1, <1>0, FlushIs
<1>3. \A d \in Clusters \cup {0} : y.disk[d] = IF f.dirty /\ d = f.dsect THEN f.buf ELSE v.disk[d]
  BY ONLY <1>1, <1>0, Volume(v), FlushIs
<1>4. \A d \in Clusters \cup {0} : x.disk[d] = y.disk[d]
  BY ONLY <1>0, <1>2, <1>3
<1>5. x.disk[0] = v.disk[0] /\ \A d \in Clusters : ~(f.dirty /\ d = f.dsect) => x.disk[d] = v.disk[d]
  BY <1>0, <1>2, Constants
<1>6. CASE g.dirty = FALSE /\ w = [Flush(u, f) EXCEPT !.disk[n] = P]
  <2>1. z = w
    BY <1>1, <1>6 DEF Flush
  <2>2. w = [x EXCEPT !.disk[n] = P] /\ n \in Clusters \cup {0} /\ n # 0
    BY <1>1, <1>6, Constants
  <2>3. w.disk[n] = P /\ \A d \in Clusters \cup {0} : d # n => w.disk[d] = x.disk[d]
    BY ONLY <1>2, <2>2, SectorIs
  <2> QED
    BY ONLY <1>1, <1>4, <1>5, <2>1, <2>2, <2>3 DEF OneMore, OutOf, Beneath
<1>7. CASE g.dirty = TRUE /\ g.dsect = n /\ w = Flush(u, f) /\ g.buf = P
  <2>1. w = x /\ Volume(w) /\ (g.dirty => g.dsect \in Clusters) /\ g.dirty
    BY <1>1, <1>2, <1>7
  <2>2. \A d \in Clusters \cup {0} : z.disk[d] = IF g.dirty /\ d = g.dsect THEN g.buf ELSE w.disk[d]
    BY ONLY <1>1, <2>1, FlushIs
  <2>3. \A d \in Clusters \cup {0} : z.disk[d] = IF d = n THEN P ELSE x.disk[d]
    BY ONLY <1>7, <2>1, <2>2
  <2> QED
    BY ONLY <1>1, <1>4, <1>5, <2>1, <2>3 DEF OneMore, OutOf, Beneath
<1> QED
  BY <1>6, <1>7 DEF Laid

(* What a pass of f_write does to the file of the writer h, and to no      *)
(* other: F are the file objects before it, G after it.                    *)
Moved(v, w, F, G, h) ==
  /\ Content(w, G) /\ SameFiles(v, w) /\ DirNames(w) = DirNames(v)
  /\ \A k \in Handles : k # h => OpenAs(w, G[k]) = OpenAs(v, F[k])

(* A pass of the writer h from st to t.                                    *)
AtWork(v, F, G, h, st, t) ==
  /\ Content(v, F) /\ Inv(t.v, G) /\ h \in Handles /\ F[h].mode = "write"
  /\ \A k \in Handles : k # h => G[k] = F[k]
  /\ G[h] = t.f /\ st.f = F[h] /\ st.v = v

(* Where f stands in its sector.                                           *)
InSector(f, len) == f.fptr % SS # 0 /\ len \in Nat \ {0} /\ len <= SS - (f.fptr % SS)
AtEdge(f, len) == f.fptr % SS = 0 /\ len \in 1 .. SS

(* Inside a sector.                                                        *)
LEMMA InsideMoves ==
  ASSUME NEW v, NEW F, NEW G, NEW h, NEW st, NEW t, NEW len, AtWork(v, F, G, h, st, t),
         Inside(st, t, len), InSector(st.f, len)
  PROVE  Moved(v, t.v, F, G, h) /\ WrittenBy(t.v, t.f) = WrittenBy(v, st.f) \o Units(st, len)
<1>0. /\ Content(v, F) /\ Inv(t.v, G) /\ h \in Handles /\ F[h].mode = "write"
      /\ \A k \in Handles : k # h => G[k] = F[k]
      /\ G[h] = t.f /\ st.f = F[h] /\ st.v = v
      /\ F[h].fptr % SS # 0 /\ len \in Nat \ {0} /\ len <= SS - (F[h].fptr % SS) /\ t.v = v
  BY DEF AtWork, InSector, Inside
<1> USE <1>0
<1> DEFINE f == F[h]
           g == t.f
           s == Units(st, len)
<1>1. /\ g.fptr = f.fptr + len /\ g.sclust = f.sclust /\ g.clust = f.clust /\ g.dirty = TRUE
      /\ g.dsect = f.dsect /\ g.buf = Patch(f.buf, f.fptr % SS, s) /\ g.mode = "write" /\ t.v = v
  BY DEF Inside, Advanced, Kin
<1>2. Appending(v, f) /\ Whole(WrittenBy(v, f)) /\ f.fptr \in Nat
  <2>1. Appending(v, f) /\ Whole(WrittenBy(v, f))
    BY WriterIs
  <2> QED
    BY <2>1, Constants DEF Appending, Fil
<1>3. AtEnd(v, g)
  <2>1. AtEnd(v, f)
    BY <1>2 DEF Appending
  <2> DEFINE y == (Len(Chain(v, f.sclust)) - 1) * SS
  <2>2. f.sclust # 0 => y < f.fptr
    BY <2>1 DEF AtEnd
  <2>3. y \in Int
    BY ChainShape, Constants
  <2> HIDE DEF y
  <2>4. g.sclust # 0 => y < g.fptr
    BY <1>1, <1>2, <2>2, <2>3
  <2>5. f.sclust # 0 /\ f.dsect = f.clust
    BY <2>1 DEF AtEnd
  <2> QED
    BY <1>1, <2>4, <2>5 DEF AtEnd, y
<1>4. Appending(v, g)
  <2>1. G[h] = g
    OBVIOUS
  <2> HIDE DEF g
  <2> QED
    BY ONLY <1>1, <1>3, <2>1, Inv(v, G), h \in Handles, AppendingIs
<1>5. Listed(s, len) /\ Whole(s) /\ len \in Nat
  BY UnitsListed
<1>6. g = t.f /\ f = F[h]
  OBVIOUS
<1> HIDE DEF f, g, s
<1>7. WrittenBy(v, g) = WrittenBy(v, f) \o s
  <2>1. Buffered(f, g, len, s)
    BY <1>1, <1>5, <1>6 DEF Buffered
  <2> QED
    BY ONLY <1>2, <1>4, <2>1, InsideWrites
<1>8. Whole(WrittenBy(v, g))
  BY ONLY <1>2, <1>5, <1>7, WrittenListed, WholeBoth
<1>9. Tended(v, G[h])
  BY <1>1, <1>3, <1>6, <1>8 DEF Tended
<1>10. Changed(v, v, F, <<h>>) /\ Intact(v, v, F, <<h>>)
  BY DEF Changed, Intact
<1>11. Moved(v, v, F, G, h)
  BY ONLY <1>9, <1>10, Content(v, F), Inv(v, G), h \in Handles, F[h].mode = "write",
     \A k \in Handles : k # h => G[k] = F[k], OwnWrite DEF Moved
<1> QED
  BY <1>1, <1>6, <1>7, <1>11 DEF s

(* A free cluster is added to the chain of the writer h.                   *)
Furthered(v, F, h, r) ==
  /\ Lengthened(v, F, h, r.v, r.cl, IF F[h].fptr = 0 THEN r.cl ELSE F[h].sclust)
  /\ r.v.disk = v.disk /\ v.fat[r.cl] = 0

(* At the edge of one.                                                     *)
LEMMA BegunMoves ==
  ASSUME NEW v, NEW F, NEW G, NEW h, NEW st, NEW t, NEW len, NEW r, AtWork(v, F, G, h, st, t),
         Begun(st, t, len, r), AtEdge(st.f, len), Furthered(v, F, h, r)
  PROVE  Moved(v, t.v, F, G, h) /\ WrittenBy(t.v, t.f) = WrittenBy(v, st.f) \o Units(st, len)
<1>0. /\ Content(v, F) /\ Inv(t.v, G) /\ h \in Handles /\ F[h].mode = "write"
      /\ \A k \in Handles : k # h => G[k] = F[k]
      /\ G[h] = t.f /\ st.f = F[h] /\ st.v = v
      /\ F[h].fptr % SS = 0 /\ len \in 1 .. SS /\ r.v.disk = v.disk /\ v.fat[r.cl] = 0
      /\ Lengthened(v, F, h, r.v, r.cl, IF F[h].fptr = 0 THEN r.cl ELSE F[h].sclust)
  BY DEF AtWork, AtEdge, Furthered
<1> USE <1>0
<1> DEFINE f == F[h]
           g == t.f
           s == Units(st, len)
           u == r.v
           w == t.v
           n == r.cl
           c == IF f.fptr = 0 THEN n ELSE f.sclust
           C == ChainsOf(v, F)
           P == Patch(NoUnits, 0, s)
<1>1. /\ f = F[h] /\ g = t.f /\ s = Units(st, len) /\ u = r.v /\ w = t.v /\ n = r.cl /\ C = ChainsOf(v, F)
      /\ c = (IF f.fptr = 0 THEN n ELSE f.sclust) /\ P = Patch(NoUnits, 0, s)
  OBVIOUS
<1>2. /\ g.fptr = f.fptr + len /\ g.sclust = c /\ g.clust = n /\ g.mode = "write"
      /\ \/ len = SS /\ g.dirty = FALSE /\ w = [Flush(u, f) EXCEPT !.disk[n] = P]
         \/ g.dirty = TRUE /\ g.dsect = n /\ w = Flush(u, f) /\ g.buf = P
  BY DEF Begun, Advanced, Kin
<1>3. Lengthened(v, F, h, u, n, c) /\ u.disk = v.disk /\ v.fat[n] = 0 /\ Inv(w, G) /\ G[h] = g
  OBVIOUS
<1>4. Inv(v, F) /\ Volume(v) /\ Apart(v, C)
  BY ContentFacts
<1> HIDE DEF f, g, s, u, w, n, c, C, P
<1>5. /\ n \in Clusters /\ c \in Clusters /\ Tree(u) /\ Same(v, u)
      /\ Chain(u, c) = Append(Chain(v, f.sclust), n)
      /\ \A o \in C : o[1] # <<h>> => Chain(u, o[2]) = Chain(v, o[2])
  BY <1>1, <1>3 DEF Lengthened
<1>6. SectorsKept(u, f, n, P)
  BY ONLY <1>1, <1>3, <1>4, h \in Handles, F[h].mode = "write", SectorsKeep
<1>7. Tree(w) /\ Same(u, w) /\ w.fat = u.fat
  BY ONLY <1>2, <1>6 DEF SectorsKept
<1>8. Appending(v, f) /\ Whole(WrittenBy(v, f)) /\ f.fptr \in Nat
  <2>1. Appending(v, f) /\ Whole(WrittenBy(v, f))
    BY <1>1, WriterIs
  <2> QED
    BY <2>1, Constants DEF Appending, Fil
<1>9. SS \in Nat \ {0} /\ len \in Nat \ {0} /\ len \in Nat
  BY Constants
<1>10. f.fptr % SS = 0 /\ f.fptr = SS * Len(Chain(v, f.sclust)) /\ Len(Chain(v, f.sclust)) \in Nat
  <2>1. f.fptr % SS = 0
    BY <1>1
  <2> QED
    BY ONLY <1>8, <2>1, EdgeLength
<1>11. Chain(w, c) = Append(Chain(v, f.sclust), n) /\ \A o \in C : o[1] # <<h>> => Chain(w, o[2]) = Chain(v, o[2])
  <2>1. \A e : Chain(w, e) = Chain(u, e)
    BY <1>7, ChainByTable
  <2> QED
    BY <1>5, <2>1
<1>12. f.dirty => f.dsect \in Clusters /\ f.dsect \in ClustersOf(v, f.sclust)
  <2>1. f.dirty => f.dsect \in ClustersOf(v, f.sclust)
    BY <1>8 DEF Appending, Writing
  <2> QED
    BY <2>1, ClustersIn
<1>13. n \notin ClustersOf(v, f.sclust) /\ << <<h>>, f.sclust>> \in C
  <2>1. << <<h>>, f.sclust>> \in C
    BY <1>1, <1>4, HandleOwns DEF Matters
  <2> DEFINE o == << <<h>>, f.sclust>>
  <2>2. o \in C /\ o[2] = f.sclust
    BY <2>1
  <2> HIDE DEF o
  <2>3. n \notin ClustersOf(v, o[2])
    BY <1>3, <1>4, <2>2, OwnedTaken
  <2> QED
    BY <2>1, <2>2, <2>3
<1>14. /\ OneMore(v, f, w, g, n, P) /\ w.disk[0] = v.disk[0]
       /\ \A d \in Clusters : d \notin OutOf(f, n) => w.disk[d] = v.disk[d]
  <2>1. Alike(u, v)
    BY <1>3, <1>5 DEF Alike, Tree
  <2>2. Laid(u, f, w, g, n, P)
    BY <1>2 DEF Laid
  <2>3. Backed(f)
    BY <1>12 DEF Backed
  <2> QED
    <3>1. OneMore(v, f, w, g, n, P) /\ Beneath(v, w, f, n)
      BY ONLY <1>4, <1>5, <2>1, <2>2, <2>3, BegunDisk
    <3> QED
      BY <3>1 DEF Beneath
<1>15. AtEnd(w, g)
  <2>1. Len(Chain(w, c)) = Len(Chain(v, f.sclust)) + 1
    BY <1>11, ChainShape
  <2> DEFINE L == Len(Chain(v, f.sclust))
  <2>2. (Len(Chain(w, c)) - 1) * SS = SS * L
    BY ONLY <1>9, <1>10, <2>1
  <2>3. SS * L < g.fptr
    BY ONLY <1>2, <1>8, <1>9, <1>10
  <2>4. g.fptr % SS # 0 => g.dirty
    BY <1>2, <1>8, <1>10, EdgeNext
  <2>5. c # 0
    BY <1>5, Constants
  <2>6. g.dirty => g.dsect = g.clust
    BY <1>2
  <2>7. g.sclust # 0 => (Len(Chain(w, g.sclust)) - 1) * SS < g.fptr
    BY <1>2, <2>2, <2>3
  <2> QED
    BY <1>2, <2>4, <2>5, <2>6, <2>7 DEF AtEnd
<1>16. Appending(w, g)
  BY ONLY <1>2, <1>3, <1>15, h \in Handles, AppendingIs
<1>17. Listed(s, len) /\ Whole(s)
  BY <1>1, UnitsListed
<1>18. WrittenBy(w, g) = WrittenBy(v, f) \o s
  <2>1. Chain(w, g.sclust) = Append(Chain(v, f.sclust), n)
    BY <1>2, <1>11
  <2>2. OneMore(v, f, w, g, n, Patch(NoUnits, 0, s))
    BY <1>1, <1>14
  <2>3. Extended(v, f, w, g, len, s, n)
    BY ONLY <1>2, <1>5, <1>10, <1>13, <1>17, <2>1, <2>2, len \in 1 .. SS DEF Extended
  <2> QED
    BY ONLY <1>8, <1>16, <2>3, BegunWrites
<1>19. Whole(WrittenBy(w, g))
  BY ONLY <1>8, <1>9, <1>17, <1>18, WrittenListed, WholeBoth
<1>20. Tended(w, G[h])
  BY <1>2, <1>3, <1>15, <1>19 DEF Tended
<1>21. Changed(v, w, F, <<h>>)
  <2>1. Same(v, w)
    BY <1>5, <1>7, SameSame
  <2> QED
    BY <1>1, <1>11, <2>1 DEF Changed, Same
<1>22. Intact(v, w, F, <<h>>)
  <2> DEFINE W == OutOf(f, n)
  <2>1. \A d \in Clusters : d \notin W => w.disk[d] = v.disk[d]
    BY <1>14
  <2>2. \A d \in W : \/ d \notin Clusters \/ v.fat[d] = 0
                     \/ \E o \in ChainsOf(v, F) : /\ o[1] = <<h>> \/ o[1] \in DirSlots
                                                  /\ d \in ClustersOf(v, o[2])
    <3> SUFFICES ASSUME NEW d \in W, d # n
                 PROVE  \E o \in ChainsOf(v, F) : /\ o[1] = <<h>> \/ o[1] \in DirSlots
                                                  /\ d \in ClustersOf(v, o[2])
      BY <1>3
    <3>1. d \in ClustersOf(v, f.sclust)
      BY <1>12 DEF OutOf
    <3> QED
      BY <1>1, <1>13, <3>1
  <2> HIDE DEF W
  <2> QED
    BY ONLY <1>4, <2>1, <2>2, IntactBy
<1>23. Moved(v, w, F, G, h)
  BY ONLY <1>3, <1>14, <1>20, <1>21, <1>22, Content(v, F), h \in Handles, F[h].mode = "write",
     \A k \in Handles : k # h => G[k] = F[k], OwnWrite DEF Moved
<1> QED
  BY <1>1, <1>18, <1>23

-----------------------------------------------------------------------------
(* f_write: the whole call.                                                *)

(* m units of an object, behind the first d.                               *)
Given(ver, d, m) == [i \in 1 .. m |-> Unit(ver, d + i)]

(* Behind a, the first m units and then l more are m + l units.            *)
TwoParts(a, ver, d, m, l) ==
  (a \o Given(ver, d, m)) \o Given(ver, d + m, l) = a \o Given(ver, d, m + l)

(* Units given in two parts.                                               *)
LEMMA GivenGiven ==
  ASSUME NEW a, NEW n, NEW ver, NEW d, NEW m, NEW l, n \in Nat, d \in Nat, m \in Nat, l \in Nat,
         Listed(a, n)
  PROVE  TwoParts(a, ver, d, m, l)
<1> DEFINE T == {a[i] : i \in 1 .. n} \cup {Unit(ver, d + i) : i \in 1 .. m + l}
           b == Given(ver, d, m)
           c == Given(ver, d + m, l)
           e == Given(ver, d, m + l)
<1>1. /\ \A i \in 1 .. m : b[i] = Unit(ver, d + i)
      /\ \A i \in 1 .. l : c[i] = Unit(ver, (d + m) + i)
      /\ \A i \in 1 .. m + l : e[i] = Unit(ver, d + i)
  BY DEF Given
<1>2. a \in [1 .. n -> T]
  BY DEF Listed
<1>3. b \in [1 .. m -> T] /\ e \in [1 .. m + l -> T]
  <2>1. 1 .. m \subseteq 1 .. m + l
    OBVIOUS
  <2> QED
    BY <2>1 DEF Given
<1>4. c \in [1 .. l -> T]
  <2> SUFFICES ASSUME NEW i \in 1 .. l PROVE Unit(ver, (d + m) + i) \in T
    BY DEF Given
  <2>1. m + i \in 1 .. m + l /\ d + (m + i) = (d + m) + i
    OBVIOUS
  <2>2. Unit(ver, d + (m + i)) \in T
    BY ONLY <2>1
  <2> QED
    BY ONLY <2>1, <2>2
<1> HIDE DEF T, b, c, e
<1>5. /\ a \in Seq(T) /\ b \in Seq(T) /\ c \in Seq(T) /\ e \in Seq(T)
      /\ Len(a) = n /\ Len(b) = m /\ Len(c) = l /\ Len(e) = m + l
  BY ONLY <1>2, <1>3, <1>4, n \in Nat, m \in Nat, l \in Nat
<1>6. b \o c = e
  <2>1. b \o c \in Seq(T) /\ Len(b \o c) = m + l
    BY ONLY <1>5
  <2>2. ASSUME NEW i \in 1 .. m + l PROVE (b \o c)[i] = e[i]
    <3>1. CASE i <= m
      <4>1. (b \o c)[i] = b[i]
        BY ONLY <1>5, <2>2, <3>1, m \in Nat, l \in Nat
      <4>2. i \in 1 .. m
        BY <3>1
      <4> QED
        BY <1>1, <4>1, <4>2
    <3>2. CASE ~(i <= m)
      <4>1. i - m \in 1 .. l /\ (d + m) + (i - m) = d + i
        BY <3>2
      <4>2. (b \o c)[i] = c[i - m]
        BY ONLY <1>5, <2>2, <3>2, m \in Nat, l \in Nat
      <4>3. c[i - m] = Unit(ver, d + i)
        BY ONLY <1>1, <4>1
      <4> QED
        BY <1>1, <4>2, <4>3
    <3> QED
      BY ONLY <3>1, <3>2
  <2> DEFINE x == b \o c
  <2>3. x \in Seq(T) /\ Len(x) = m + l /\ \A i \in 1 .. m + l : x[i] = e[i]
    BY <2>1, <2>2
  <2> HIDE DEF x
  <2>4. x = [i \in 1 .. m + l |-> x[i]] /\ e = [i \in 1 .. m + l |-> e[i]]
    BY ONLY <1>5, <2>3, m \in Nat, l \in Nat
  <2>5. x = e
    BY ONLY <2>3, <2>4
  <2> QED
    BY <2>5 DEF x
<1>7. (a \o b) \o c = a \o (b \o c)
  BY ONLY <1>5
<1> QED
  BY <1>6, <1>7 DEF b, c, e, TwoParts

(* One step after the other.                                               *)
LEMMA MovedMoved ==
  ASSUME NEW u, NEW v, NEW w, NEW F, NEW G, NEW H, NEW h, Moved(u, v, F, G, h), Moved(v, w, G, H, h)
  PROVE  Moved(u, w, F, H, h)
BY DEF Moved, SameFiles

(* What a pass does to the file of a writer.                               *)
Appended(st, t) ==
  \E len \in 0 .. st.left : /\ t.done = st.done + len
                            /\ WrittenBy(t.v, t.f) = WrittenBy(st.v, st.f) \o Units(st, len)

(* A pass of f_write adds the next units to the file of the writer, in     *)
(* order, or none if the volume is full (ff.cpp:2538-2622).                *)
LEMMA TurnWrites ==
  ASSUME NEW F, NEW G, NEW h, NEW st, NEW t, AtWork(st.v, F, G, h, st, t), Accounted(st),
         st.left \in Nat \ {0}, st.done \in Nat, t = WriteTurn(st)
  PROVE  Moved(st.v, t.v, F, G, h) /\ Appended(st, t)
<1>a. /\ Content(st.v, F) /\ Inv(t.v, G) /\ h \in Handles /\ F[h].mode = "write"
      /\ \A k \in Handles : k # h => G[k] = F[k]
      /\ G[h] = t.f /\ st.f = F[h]
  BY DEF AtWork
<1> USE <1>a
<1> DEFINE f == st.f
           v == st.v
           len == Pass(f, st.left)
           r == Following(v, f)
           c == IF f.fptr = 0 THEN r.cl ELSE f.sclust
<1>0. Inv(v, F)
  BY ContentFacts
<1>1. Handled(v, f) /\ Fil(f)
  BY <1>0 DEF Inv, Opened, Handled
<1>2. f.fptr \in Nat
  BY <1>1 DEF Fil
<1>3. /\ len \in 1 .. st.left /\ len <= SS - (f.fptr % SS) /\ f.fptr % SS \in 0 .. SS - 1
  BY <1>2, PassIs
<1> HIDE DEF len, r
<1>4. /\ f.fptr % SS # 0 => Inside(st, t, len)
      /\ f.fptr % SS = 0 /\ r.cl = 0 => Halted(st, t)
      /\ f.fptr % SS = 0 /\ r.cl \notin {0, 1} => Begun(st, t, len, r)
  <2>1. st.left # 0
    OBVIOUS
  <2> QED
    BY <1>1, <2>1, WriteTurnIs DEF len, r
<1>5. len \in 1 .. st.left /\ len \in 0 .. st.left /\ len \in Nat \ {0}
  BY <1>3
<1>6. CASE f.fptr % SS # 0
  <2>1. Inside(st, t, len)
    BY <1>4, <1>6
  <2>2. t.v = v /\ t.done = st.done + len
    BY <2>1 DEF Inside, Advanced
  <2>3. InSector(st.f, len) /\ AtWork(v, F, G, h, st, t)
    BY <1>3, <1>5, <1>6 DEF InSector, AtWork
  <2> HIDE DEF v, f
  <2>4. Moved(v, t.v, F, G, h) /\ WrittenBy(t.v, t.f) = WrittenBy(v, st.f) \o Units(st, len)
    BY ONLY <2>1, <2>3, InsideMoves
  <2> QED
    BY <1>5, <2>2, <2>4 DEF Appended, v
<1>7. CASE f.fptr % SS = 0
  <2>1. \/ NoneLeft(v, r)
        \/ Lengthened(v, F, h, r.v, r.cl, c) /\ r.v.disk = v.disk /\ v.fat[r.cl] = 0
    <3>1. F[h].fptr % SS = 0 /\ r = Following(v, F[h]) /\ Inv(v, F) /\ f = F[h]
      BY <1>0, <1>7 DEF r
    <3> QED
      BY <3>1, FollowingIs
  <2>2. CASE NoneLeft(v, r)
    <3>1. r.cl = 0
      BY <2>2 DEF NoneLeft
    <3>2. Halted(st, t)
      BY <1>4, <1>7, <3>1
    <3>3. t.v = v /\ t.f = f /\ t.done = st.done /\ st.done = st.done + 0
      BY <3>2, Constants DEF Halted
    <3>4. \A k \in Handles : G[k] = F[k]
      BY <3>3
    <3>5. Content(v, G)
      <4>1. Tended(v, G[h])
        BY <3>4 DEF Content
      <4> QED
        BY <3>3, <4>1, ContentSwap
    <3>6. Moved(v, t.v, F, G, h)
      BY <3>3, <3>4, <3>5 DEF Moved, SameFiles
    <3>7. WrittenBy(v, f) \o Units(st, 0) = WrittenBy(v, f)
      <4>1. Units(st, 0) = <<>>
        BY DEF Units
      <4>2. Listed(WrittenBy(v, f), f.fptr)
        BY WrittenListed
      <4> DEFINE a == WrittenBy(v, f)
                 n == f.fptr
      <4>3. a = [i \in 1 .. n |-> a[i]] /\ n \in Nat
        BY <1>2, <4>2 DEF Listed
      <4> HIDE DEF a, n
      <4>4. a \in Seq({a[i] : i \in 1 .. n})
        BY ONLY <4>3
      <4>5. a \o <<>> = a
        BY ONLY <4>4
      <4> QED
        BY <4>1, <4>5 DEF a
    <3>8. 0 \in 0 .. st.left
      OBVIOUS
    <3> QED
      BY <3>3, <3>6, <3>7, <3>8 DEF Appended
  <2>3. CASE Lengthened(v, F, h, r.v, r.cl, c) /\ r.v.disk = v.disk /\ v.fat[r.cl] = 0
    <3>1. r.cl \in Clusters
      BY <2>3 DEF Lengthened
    <3>2. Begun(st, t, len, r)
      BY <1>4, <1>7, <3>1, Constants
    <3>3. t.done = st.done + len
      BY <3>2 DEF Begun, Advanced
    <3>4. len \in 1 .. SS
      BY <1>3, <1>5, <1>7, Constants
    <3>5. AtEdge(st.f, len) /\ AtWork(v, F, G, h, st, t) /\ Furthered(v, F, h, r)
      BY <1>7, <2>3, <3>4 DEF AtEdge, AtWork, Furthered
    <3> HIDE DEF v, f, c
    <3>6. Moved(v, t.v, F, G, h) /\ WrittenBy(t.v, t.f) = WrittenBy(v, st.f) \o Units(st, len)
      BY ONLY <3>2, <3>5, BegunMoves
    <3> QED
      BY <1>5, <3>3, <3>6 DEF Appended, v
  <2> QED
    BY <2>1, <2>2, <2>3
<1> QED
  BY <1>6, <1>7

(* The file objects with another one at h.                                 *)
With(F, h, g) == [F EXCEPT ![h] = g]

(* What they are then.                                                     *)
LEMMA WithIs ==
  ASSUME NEW F, NEW h, NEW g, h \in Handles, F = [k \in Handles |-> F[k]]
  PROVE  With(F, h, g)[h] = g /\ \A k \in Handles : k # h => With(F, h, g)[k] = F[k]
BY DEF With

(* What the passes of f_write so far have done: m units are in the file.   *)
Wrote(v, F, h, d, st) ==
  /\ Moved(v, st.v, F, With(F, h, st.f), h)
  /\ \E m \in Nat : /\ st.done = d + m
                    /\ WrittenBy(st.v, st.f) = WrittenBy(v, F[h]) \o Given(F[h].ver, d, m)

(* One pass more.                                                          *)
LEMMA WroteTurn ==
  ASSUME NEW v, NEW F, NEW h, NEW d, NEW n, NEW k, NEW st, h \in Handles, d \in Nat,
         F = [j \in Handles |-> F[j]], F[h].mode = "write", F[h].fptr \in Nat,
         Underway(F, h, n, st, k), Wrote(v, F, h, d, st), Underway(F, h, n, WriteTurn(st), k + 1)
  PROVE  Wrote(v, F, h, d, WriteTurn(st))
<1> DEFINE t == WriteTurn(st)
           G == With(F, h, st.f)
           H == With(F, h, t.f)
<1>1. t = WriteTurn(st) /\ G = With(F, h, st.f) /\ H = With(F, h, t.f)
  OBVIOUS
<1> HIDE DEF t, G, H
<1>2. /\ Accounted(st) /\ Kin(F[h], st.f) /\ st.left \in Nat /\ st.done \in Nat
      /\ Inv(t.v, H)
  BY <1>1 DEF Underway, With
<1>3. Moved(v, st.v, F, G, h) /\ Content(st.v, G)
  BY <1>1 DEF Wrote, Moved
<1>4. PICK m \in Nat : /\ st.done = d + m
                       /\ WrittenBy(st.v, st.f) = WrittenBy(v, F[h]) \o Given(F[h].ver, d, m)
  BY DEF Wrote
<1>5. CASE st.left = 0
  <2>1. t = st
    BY <1>1, <1>5 DEF WriteTurn
  <2> QED
    BY <1>1, <2>1
<1>6. CASE st.left # 0
  <2>1. G[h] = st.f /\ H[h] = t.f /\ \A j \in Handles : j # h => G[j] = F[j] /\ H[j] = F[j]
    BY <1>1, WithIs
  <2>2. G[h].mode = "write" /\ st.f.ver = F[h].ver
    BY <1>2, <2>1 DEF Kin
  <2>3. st.f = G[h] /\ H[h] = t.f /\ \A j \in Handles : j # h => H[j] = G[j]
    BY <2>1
  <2>4. st.left \in Nat \ {0}
    BY <1>2, <1>6
  <2>5. Moved(st.v, t.v, G, H, h) /\ Appended(st, t)
    <3>1. AtWork(st.v, G, H, h, st, t)
      BY ONLY <1>2, <1>3, <2>2, <2>3, h \in Handles DEF AtWork
    <3> QED
      BY ONLY <1>1, <1>2, <2>4, <3>1, TurnWrites
  <2>6. Moved(v, t.v, F, H, h)
    BY <1>3, <2>5, MovedMoved
  <2>7. PICK len \in 0 .. st.left : /\ t.done = st.done + len
                                    /\ WrittenBy(t.v, t.f) = WrittenBy(st.v, st.f) \o Units(st, len)
    BY <2>5 DEF Appended
  <2>8. Units(st, len) = Given(F[h].ver, d + m, len)
    BY <1>4, <2>2 DEF Units, Given
  <2>9. len \in Nat /\ m + len \in Nat /\ t.done = d + (m + len)
    BY <1>2, <1>4, <2>7
  <2> DEFINE a == WrittenBy(v, F[h])
             x == F[h].fptr
             ver == F[h].ver
  <2>10. Listed(a, x) /\ x \in Nat
    BY WrittenListed
  <2>11. WrittenBy(t.v, t.f) = (a \o Given(ver, d, m)) \o Given(ver, d + m, len)
    BY <1>4, <2>7, <2>8
  <2> HIDE DEF a, x, ver
  <2>12. (a \o Given(ver, d, m)) \o Given(ver, d + m, len) = a \o Given(ver, d, m + len)
    <3>1. len \in Nat
      BY <2>9
    <3> QED
      <4>1. TwoParts(a, ver, d, m, len)
        BY ONLY <2>10, <3>1, d \in Nat, m \in Nat, GivenGiven
      <4> QED
        BY ONLY <4>1 DEF TwoParts
  <2>13. WrittenBy(t.v, t.f) = WrittenBy(v, F[h]) \o Given(F[h].ver, d, m + len)
    BY <2>11, <2>12 DEF a, ver
  <2> QED
    BY <1>1, <2>6, <2>9, <2>13 DEF Wrote
<1> QED
  BY <1>5, <1>6

(* The loop of f_write puts the first units that it is given behind those  *)
(* that are in the file, and changes no other file (ff.cpp:2538-2622).     *)
LEMMA WriteLoopWrites ==
  ASSUME NEW h, NEW n, Content(vol, fp), h \in Handles, fp[h].mode = "write",
         fp[h].fptr <= fp[h].fed, n \in Nat, fp[h].fed + n <= MaxUnits
  PROVE  Underway(fp, h, n, WriteLoop(h, n), n) /\ Wrote(vol, fp, h, fp[h].fed, WriteLoop(h, n))
<1>0. Inv(vol, fp)
  BY ContentFacts
<1>1. PICK pass : /\ pass[0] = WriteStart(h, n) /\ WriteLoop(h, n) = pass[n]
                  /\ \A k \in 1 .. n : pass[k] = WriteTurn(pass[k - 1])
  BY WriteLoopDef
<1>2. Handled(vol, fp[h]) /\ Fil(fp[h]) /\ fp = [k \in Handles |-> fp[k]]
  BY <1>0 DEF Inv, Opened, Handled
<1>3. fp[h].fptr \in Nat /\ fp[h].fed \in Nat
  BY <1>2 DEF Fil
<1> DEFINE d == fp[h].fed
           Good(st, k) == Underway(fp, h, n, st, k) /\ Wrote(vol, fp, h, d, st)
<1>4. Good(pass[0], 0)
  <2> DEFINE st == pass[0]
  <2>1. st = [v |-> vol, f |-> fp[h], done |-> fp[h].fed, left |-> n]
    BY <1>1 DEF WriteStart
  <2> HIDE DEF st
  <2>2. Accounted(st) /\ st.v = vol /\ st.f = fp[h] /\ st.done = fp[h].fed /\ st.left = n
    BY <2>1 DEF Accounted
  <2>3. [fp EXCEPT ![h] = st.f] = fp /\ With(fp, h, st.f) = fp
    BY <1>2, <2>2 DEF With
  <2>4. Kin(fp[h], st.f)
    BY <1>2, <2>2 DEF Kin, Fil
  <2>5. Underway(fp, h, n, st, 0)
    BY <1>0, <1>3, <2>2, <2>3, <2>4 DEF Underway
  <2>6. Moved(vol, vol, fp, fp, h)
    BY DEF Moved, SameFiles
  <2>7. WrittenBy(vol, fp[h]) = WrittenBy(vol, fp[h]) \o Given(fp[h].ver, d, 0)
    <3> DEFINE a == WrittenBy(vol, fp[h])
               x == fp[h].fptr
    <3>1. Listed(a, x) /\ x \in Nat
      BY <1>3, WrittenListed
    <3>2. Given(fp[h].ver, d, 0) = <<>>
      BY DEF Given
    <3> HIDE DEF a, x
    <3>3. a \in Seq({a[i] : i \in 1 .. x})
      BY ONLY <3>1 DEF Listed
    <3>4. a \o <<>> = a
      BY ONLY <3>3
    <3> QED
      BY <3>2, <3>4 DEF a
  <2>8. st.done = d + 0
    BY <1>3, <2>2
  <2>9. Wrote(vol, fp, h, d, st)
    BY <2>2, <2>3, <2>6, <2>7, <2>8 DEF Wrote
  <2> QED
    BY <2>5, <2>9 DEF st
<1> DEFINE S == {k \in Nat : k <= n => Good(pass[k], k)}
<1>5. 0 \in S
  <2> HIDE DEF Good
  <2> QED
    BY <1>4
<1>6. ASSUME NEW k \in Nat, k \in S PROVE k + 1 \in S
  <2> SUFFICES ASSUME k + 1 <= n PROVE Good(pass[k + 1], k + 1)
    OBVIOUS
  <2>1. k < n /\ k + 1 \in 1 .. n /\ (k + 1) - 1 = k
    OBVIOUS
  <2>2. Good(pass[k], k)
    <3> HIDE DEF Good
    <3> QED
      BY <1>6, <2>1
  <2>3. pass[k + 1] = WriteTurn(pass[k])
    BY <1>1, <2>1
  <2>4. Underway(fp, h, n, WriteTurn(pass[k]), k + 1)
    BY ONLY <1>2, <1>3, <2>1, <2>2, h \in Handles, fp[h].mode = "write", fp[h].fptr <= fp[h].fed,
       n \in Nat, k \in Nat, fp[h].fed + n <= MaxUnits, UnderwayTurn
  <2>5. Wrote(vol, fp, h, d, WriteTurn(pass[k]))
    BY ONLY <1>2, <1>3, <2>2, <2>4, h \in Handles, fp[h].mode = "write", WroteTurn
  <2> QED
    BY <2>3, <2>4, <2>5
<1>7. n \in S
  <2> HIDE DEF S
  <2> QED
    BY <1>5, <1>6, CountUp
<1>8. Good(pass[n], n)
  <2> HIDE DEF Good
  <2> QED
    BY <1>7
<1> QED
  BY <1>1, <1>8

(* Two file objects of one writer that differ in their counts only.        *)
Twins(f, g) ==
  /\ g.mode = f.mode /\ g.sclust = f.sclust /\ g.clust = f.clust /\ g.fptr = f.fptr
  /\ g.dsect = f.dsect /\ g.buf = f.buf /\ g.dirty = f.dirty

(* They have the same units in the file.                                   *)
LEMMA TwinsHave ==
  ASSUME NEW v, NEW f, NEW g, Twins(f, g)
  PROVE  WrittenBy(v, g) = WrittenBy(v, f) /\ (AtEnd(v, f) => AtEnd(v, g))
BY DEF Twins, WrittenBy, AtEnd

(* The counts of a writer change.                                          *)
LEMMA TwinMoves ==
  ASSUME NEW v, NEW F, NEW G, NEW h, Content(v, F), Inv(v, G), h \in Handles,
         \A k \in Handles : k # h => G[k] = F[k], Twins(F[h], G[h]), F[h].mode = "write"
  PROVE  Moved(v, v, F, G, h)
<1>1. Tended(v, F[h]) /\ G[h].mode = "write"
  BY DEF Content, Twins
<1>2. AtEnd(v, F[h]) /\ Whole(WrittenBy(v, F[h]))
  BY <1>1 DEF Tended
<1>3. AtEnd(v, G[h]) /\ Whole(WrittenBy(v, G[h]))
  BY <1>2, TwinsHave
<1>4. Tended(v, G[h])
  BY <1>1, <1>3 DEF Tended
<1>5. Content(v, G)
  BY <1>4, ContentSwap
<1> QED
  BY <1>5 DEF Moved, SameFiles

(* What a call of f_write does: m of n units are added to what the writer  *)
(* h has in the file.                                                      *)
Served(v, w, F, G, h, n) ==
  /\ Moved(v, w, F, G, h)
  /\ F[h].mode = "write" /\ G[h].mode = "write" /\ G[h].path = F[h].path /\ G[h].ver = F[h].ver
  /\ G[h].seen = F[h].seen /\ G[h].stale = F[h].stale
  /\ G[h].fed = F[h].fed + n /\ G[h].fsize = G[h].fptr
  /\ \E m \in 0 .. n :
       WrittenBy(w, G[h]) = WrittenBy(v, F[h]) \o Given(F[h].ver, F[h].fed, m)

(* f_write adds to the file what it is given, in order, or as much of it   *)
(* as there is room for, and changes no other file (ff.cpp:2516-2626).     *)
LEMMA WriteContent ==
  ASSUME Content(vol, fp), Counted(fp), NEW h \in Handles, NEW n \in WriteSizes, Write(h, n)
  PROVE  Served(vol, vol', fp, fp', h, n)
<1> DEFINE st == WriteLoop(h, n)
           f == st.f
           m == fp[h].fed + n
           g == [f EXCEPT !.fed = m, !.fsize = Max({@, f.fptr})]
           G == With(fp, h, f)
<1>0. Inv(vol, fp)
  BY ContentFacts
<1>1. Writing(vol, fp[h]) /\ Fil(fp[h]) /\ fp = [k \in Handles |-> fp[k]] /\ fp[h].mode = "write"
  BY <1>0 DEF Write, Writers, Inv, Opened, Handled
<1>2. fp[h].fptr \in Nat /\ fp[h].fed \in Nat /\ n \in Nat /\ m <= MaxUnits
  BY <1>1, VolumeConstants DEF Fil, Write
<1>3. fp[h].fptr <= fp[h].fed /\ ~fp[h].error
  BY <1>1 DEF Counted, Writing
<1>4. /\ vol' = st.v
      /\ fp' = [fp EXCEPT ![h] = [f EXCEPT !.fed = @ + n, !.fsize = Max({@, f.fptr})]]
  BY <1>3 DEF Write
<1>5. Underway(fp, h, n, st, n) /\ Wrote(vol, fp, h, fp[h].fed, st)
  BY <1>1, <1>2, <1>3, WriteLoopWrites
<1>5a. Inv(vol', fp')
  BY <1>0, WriteKeeps
<1> HIDE DEF st
<1>6. Inv(st.v, G) /\ Kin(fp[h], f) /\ st.done \in Nat /\ st.done <= fp[h].fed + n
  BY <1>2, <1>5 DEF Underway, With
<1>7. /\ f.fed = fp[h].fed /\ f.mode = "write" /\ f.path = fp[h].path /\ f.ver = fp[h].ver
      /\ f.seen = fp[h].seen /\ f.stale = fp[h].stale
  BY <1>1, <1>6 DEF Kin
<1>8. fp' = [fp EXCEPT ![h] = g]
  <2>1. f.fed + n = m
    BY <1>7
  <2>2. [f EXCEPT !.fed = @ + n, !.fsize = Max({@, f.fptr})] = g
    BY <2>1
  <2> QED
    BY <1>4, <2>2
<1>10. fp'[h] = g /\ \A k \in Handles : k # h => fp'[k] = fp[k]
  BY <1>1, <1>8
<1>11. Ended(f, g, m)
  BY DEF Ended
<1> HIDE DEF g
<1>12. G[h] = f /\ \A k \in Handles : k # h => G[k] = fp[k]
  BY <1>1, WithIs
<1>13. Fil(f) /\ f.fsize <= f.fptr
  <2>1. Handled(st.v, G[h])
    BY <1>6 DEF Inv, Opened
  <2>2. Handled(st.v, f)
    BY <1>12, <2>1
  <2> QED
    BY <1>7, <2>2 DEF Handled, Writing
<1> HIDE DEF f, m, G
<1>14. /\ g.mode = f.mode /\ g.sclust = f.sclust /\ g.clust = f.clust
       /\ g.fptr = f.fptr /\ g.fsize = f.fptr /\ g.dsect = f.dsect /\ g.buf = f.buf
       /\ g.dirty = f.dirty /\ g.path = f.path /\ g.ver = f.ver
       /\ g.fed = m /\ g.seen = f.seen /\ g.stale = f.stale
  BY ONLY <1>11, <1>13, EndedIs
<1>15. Moved(vol, st.v, fp, G, h)
  BY <1>5 DEF Wrote, G, f
<1>16. PICK j \in Nat : /\ st.done = fp[h].fed + j
                        /\ WrittenBy(st.v, f) = WrittenBy(vol, fp[h]) \o Given(fp[h].ver, fp[h].fed, j)
  BY <1>5 DEF Wrote, f
<1>17. Twins(f, g)
  BY <1>14 DEF Twins
<1>18. Moved(st.v, st.v, G, fp', h)
  <2>1. Content(st.v, G)
    BY <1>15 DEF Moved
  <2>2. Inv(st.v, fp')
    BY <1>4, <1>5a
  <2>3. Twins(G[h], fp'[h]) /\ G[h].mode = "write"
    BY <1>7, <1>10, <1>12, <1>17
  <2>4. \A k \in Handles : k # h => fp'[k] = G[k]
    BY <1>10, <1>12
  <2> QED
    BY ONLY <2>1, <2>2, <2>3, <2>4, h \in Handles, TwinMoves
<1>19. Moved(vol, st.v, fp, fp', h)
  BY ONLY <1>15, <1>18, MovedMoved
<1>20. WrittenBy(st.v, g) = WrittenBy(st.v, f)
  BY <1>17, TwinsHave
<1>21. j \in 0 .. n
  BY <1>2, <1>6, <1>16
<1>22. WrittenBy(st.v, g) = WrittenBy(vol, fp[h]) \o Given(fp[h].ver, fp[h].fed, j)
  BY <1>16, <1>20
<1>23. fp'[h].fed = fp[h].fed + n /\ fp'[h].fsize = fp'[h].fptr
  BY <1>10, <1>14 DEF m
<1> QED
  BY <1>1, <1>4, <1>7, <1>10, <1>14, <1>19, <1>21, <1>22, <1>23 DEF Served

-----------------------------------------------------------------------------
(* f_read.                                                                 *)

(* m units of the chain from c, behind the first a.                        *)
Piece(v, c, a, m) == [i \in 1 .. m |-> UnitAt(v, c, a + i)]

(* Where the units of a pass are: in the sector behind x units, from cell  *)
(* x % SS on.                                                              *)
LEMMA PassUnits ==
  ASSUME NEW x \in Nat, NEW len \in Nat \ {0}, len <= SS - (x % SS), NEW i \in 1 .. len
  PROVE  SectorOf(x + i) = (x \div SS) + 1 /\ CellOf(x + i) = (x % SS) + i - 1
<1> DEFINE q == x \div SS
           r == x % SS
           k == x + i
           y == r + i - 1
           z == SS * q
<1>0. SS \in Nat \ {0}
  BY Constants
<1>1. x = SS * q + r /\ q \in Nat /\ r \in 0 .. SS - 1
  BY <1>0, DivMod
<1>2. len <= SS - r
  OBVIOUS
<1> HIDE DEF q, r
<1>3. z \in Nat
  BY ONLY <1>0, <1>1
<1>4. x = z + r
  BY <1>1
<1> HIDE DEF z
<1>5. y \in 0 .. SS - 1 /\ k \in Nat \ {0} /\ k - 1 = z + y
  BY ONLY <1>0, <1>1, <1>2, <1>3, <1>4, x \in Nat, len \in Nat \ {0}, i \in 1 .. len
<1> HIDE DEF y, k
<1>6. k - 1 = SS * q + y
  BY <1>5 DEF z
<1>7. SectorOf(k) = q + 1 /\ CellOf(k) = y
  BY ONLY <1>1, <1>5, <1>6, UnitPlaced
<1> QED
  BY <1>7 DEF k, y, q, r

(* A sector of which a pass takes units that follow the first x.           *)
LEMMA PassPiece ==
  ASSUME NEW v, NEW c, NEW x \in Nat, NEW len \in Nat \ {0}, len <= SS - (x % SS), NEW b,
         b = v.disk[Chain(v, c)[(x \div SS) + 1]]
  PROVE  Cells(b, x % SS, len) = Piece(v, c, x, len)
<1>1. ASSUME NEW i \in 1 .. len PROVE b[(x % SS) + i - 1] = UnitAt(v, c, x + i)
  BY <1>1, PassUnits DEF UnitAt
<1> QED
  BY <1>1 DEF Cells, Piece

(* A reader that looks at its file, and is not at the end of it.           *)
Awake(F, f) ==
  /\ Inv(vol, F) /\ Handled(vol, f) /\ f.mode = "read" /\ ~f.stale /\ f.fptr < f.fsize
  /\ Looks(vol, f)

(* The sector that it stands in.                                           *)
LEMMA AwakeSector ==
  ASSUME NEW F, NEW f, Awake(F, f)
  PROVE  /\ f.fptr \in Nat /\ f.fsize \in Nat /\ f.fsize # 0
         /\ f.fptr % SS = 0 => /\ Onward(f) \in ClustersOf(vol, f.sclust) /\ Onward(f) \in Clusters
                               /\ Onward(f) = Chain(vol, f.sclust)[(f.fptr \div SS) + 1]
         /\ f.fptr % SS # 0 => /\ f.buf = vol.disk[Chain(vol, f.sclust)[(f.fptr \div SS) + 1]]
<1> DEFINE s == Chain(vol, f.sclust)
           q == f.fptr \div SS
<1>0. /\ Inv(vol, F) /\ Handled(vol, f) /\ f.mode = "read" /\ ~f.stale /\ f.fptr < f.fsize
      /\ Looks(vol, f)
  BY DEF Awake
<1>1. f.fptr \in Nat /\ f.fsize \in Nat /\ f.fsize # 0
  BY <1>0 DEF Handled, Fil
<1>2. /\ s \in Seq(Clusters) /\ Len(s) \in Nat /\ f.fsize <= Len(s) * SS
      /\ f.fptr # 0 => f.clust = s[((f.fptr - 1) \div SS) + 1]
  BY <1>0, <1>1, ReaderChain
<1>3. ASSUME f.fptr % SS = 0
      PROVE  /\ Onward(f) \in ClustersOf(vol, f.sclust) /\ Onward(f) \in Clusters
             /\ Onward(f) = s[q + 1]
  <2>1. Onward(f) \in Clusters /\ Onward(f) = s[q + 1] /\ f.fptr = SS * q /\ q \in Nat
    BY <1>0, <1>3, ReaderOnward
  <2> DEFINE L == Len(s)
  <2>2. SS \in Nat \ {0} /\ 0 \in 0 .. SS - 1
    BY Constants
  <2> HIDE DEF q, s
  <2>3. L \in Nat /\ f.fsize <= L * SS
    BY <1>2
  <2> HIDE DEF L
  <2>4. SS * q + 0 < SS * L
    <3>1. SS * q \in Nat /\ SS * L \in Nat /\ L * SS = SS * L
      BY ONLY <2>1, <2>2, <2>3
    <3> QED
      BY ONLY <1>0, <1>1, <2>1, <2>3, <3>1
  <2>5. q < L
    BY ONLY <2>1, <2>2, <2>3, <2>4, RowBelow
  <2>6. q + 1 \in 1 .. L
    BY ONLY <2>1, <2>3, <2>5
  <2>7. s[q + 1] \in ClustersOf(vol, f.sclust)
    BY <2>6, ClustersIn DEF s, L
  <2> QED
    BY <2>1, <2>7
<1>4. ASSUME f.fptr % SS # 0 PROVE f.buf = vol.disk[s[q + 1]]
  <2>1. f.fptr # 0
    <3>1. SS \in Nat \ {0}
      BY Constants
    <3>2. 0 % SS = 0
      BY <3>1
    <3> QED
      BY <1>4, <3>2
  <2>2. (f.fptr - 1) \div SS = q
    <3>1. 1 <= SS - (f.fptr % SS)
      <4>1. SS \in Nat \ {0}
        BY Constants
      <4>2. f.fptr % SS \in 0 .. SS - 1
        BY <1>1, <4>1, DivMod
      <4> QED
        BY <4>1, <4>2
    <3>2. 1 \in Nat \ {0}
      OBVIOUS
    <3> QED
      BY ONLY <1>1, <1>4, <3>1, <3>2, NextStanding DEF q
  <2>3. f.clust = s[q + 1]
    BY ONLY <1>2, <2>1, <2>2
  <2>4. f.dsect = f.clust /\ (f.dsect # 0 => f.buf = vol.disk[f.dsect])
    BY <1>0, <1>4 DEF Looks
  <2>5. f.clust # 0
    <3> DEFINE L == Len(s)
               y == f.fptr
    <3>1. SS \in Nat \ {0}
      BY Constants
    <3>2. y = SS * q + (y % SS) /\ y % SS \in 0 .. SS - 1 /\ q \in Nat
      BY <1>1, <3>1, DivMod
    <3> DEFINE r == y % SS
    <3>3. y = SS * q + r /\ r \in 0 .. SS - 1
      BY <3>2
    <3>4. L \in Nat /\ y < L * SS
      BY <1>0, <1>1, <1>2, <3>1
    <3>4a. s \in Seq(Clusters)
      BY <1>2
    <3> HIDE DEF r, q, y, L, s
    <3>5. SS * q + r < SS * L
      BY ONLY <3>1, <3>3, <3>4
    <3>6. q < L
      BY ONLY <3>1, <3>2, <3>3, <3>4, <3>5, RowBelow
    <3>7. q + 1 \in 1 .. L
      BY ONLY <3>2, <3>4, <3>6
    <3>8. s[q + 1] \in Clusters
      BY ONLY <3>4a, <3>7 DEF L
    <3> QED
      BY <2>3, <3>8, Constants
  <2> QED
    BY ONLY <2>3, <2>4, <2>5
<1> QED
  BY <1>1, <1>3, <1>4

(* A pass gets the units that follow.                                      *)
LEMMA FetchedUnits ==
  ASSUME NEW F, NEW st, NEW t, NEW len, Awake(F, st.f), Fetched(st, t, len, Onward(st.f)),
         len \in Nat \ {0}, len <= SS - (st.f.fptr % SS)
  PROVE  /\ t.out = st.out \o Piece(vol, st.f.sclust, st.f.fptr, len)
         /\ Looks(vol, t.f)
<1> DEFINE f == st.f
           g == t.f
           x == f.fptr
           s == Chain(vol, f.sclust)
           d == s[(x \div SS) + 1]
           cl == Onward(f)
<1>1. /\ x \in Nat
      /\ x % SS = 0 => cl \in ClustersOf(vol, f.sclust) /\ cl = d
      /\ x % SS # 0 => f.buf = vol.disk[d]
  BY AwakeSector
<1>2. /\ g.sclust = f.sclust /\ g.fptr = x + len
      /\ g.clust = IF x % SS = 0 THEN cl ELSE f.clust
      /\ Direct(st, t, len, cl) \/ Through(st, t, len, cl)
  BY DEF Fetched, Like
<1>3. /\ f.dsect # 0 => f.dsect \in ClustersOf(vol, f.sclust) /\ f.buf = vol.disk[f.dsect]
      /\ x % SS # 0 => f.dsect = f.clust
  BY DEF Awake, Looks
<1>4. \A b : b = vol.disk[d] => Cells(b, x % SS, len) = Piece(vol, f.sclust, x, len)
  BY <1>1, PassPiece
<1>5. CASE Direct(st, t, len, cl)
  <2>1. /\ x % SS = 0 /\ len = SS /\ g.dsect = f.dsect /\ g.buf = f.buf
        /\ t.out = st.out \o Cells(vol.disk[cl], x % SS, len)
    BY <1>5 DEF Direct
  <2>2. (x + SS) % SS = 0
    BY <1>1, <2>1, EdgeNext
  <2>3. g.fptr % SS = 0
    BY <1>2, <2>1, <2>2
  <2>4. Looks(vol, g)
    BY <1>2, <1>3, <2>1, <2>3 DEF Looks
  <2>5. vol.disk[cl] = vol.disk[d]
    BY <1>1, <2>1
  <2> QED
    BY <1>4, <2>1, <2>4, <2>5
<1>6. CASE Through(st, t, len, cl)
  <2>1. /\ g.dsect = IF x % SS = 0 THEN cl ELSE f.dsect
        /\ g.buf = IF x % SS = 0 /\ f.dsect # cl THEN vol.disk[cl] ELSE f.buf
        /\ t.out = st.out \o Cells(g.buf, x % SS, len)
    BY <1>6 DEF Through
  <2>2. cl \in ClustersOf(vol, f.sclust) => cl # 0
    BY ClustersIn, Constants
  <2>3. g.buf = vol.disk[d]
    <3>1. CASE x % SS = 0
      BY <1>1, <1>3, <2>1, <2>2, <3>1
    <3>2. CASE x % SS # 0
      BY <1>1, <2>1, <3>2
    <3> QED
      BY <3>1, <3>2
  <2>4. Looks(vol, g)
    <3>1. CASE x % SS = 0
      <4>1. g.dsect = cl /\ g.clust = cl /\ g.buf = vol.disk[cl]
        BY <1>1, <1>2, <2>1, <2>3, <3>1
      <4> QED
        BY <1>1, <1>2, <3>1, <4>1 DEF Looks
    <3>2. CASE x % SS # 0
      <4>1. g.dsect = f.dsect /\ g.clust = f.clust /\ g.buf = f.buf
        BY <1>2, <2>1, <3>2
      <4> QED
        BY <1>2, <1>3, <3>2, <4>1 DEF Looks
    <3> QED
      BY <3>1, <3>2
  <2> QED
    BY <1>4, <2>1, <2>3, <2>4
<1> QED
  BY <1>2, <1>5, <1>6

(* Units read in two passes.                                               *)
PieceOn(v, c, a, m, l) == Piece(v, c, a, m) \o Piece(v, c, a + m, l) = Piece(v, c, a, m + l)

(* They are the units read in one.                                         *)
LEMMA PiecePiece ==
  ASSUME NEW v, NEW c, NEW a, NEW m, NEW l, a \in Nat, m \in Nat, l \in Nat
  PROVE  PieceOn(v, c, a, m, l)
<1> DEFINE b == Piece(v, c, a, m)
           d == Piece(v, c, a + m, l)
           e == Piece(v, c, a, m + l)
           T == {UnitAt(v, c, a + i) : i \in 1 .. m + l}
<1>1. /\ \A i \in 1 .. m : b[i] = UnitAt(v, c, a + i)
      /\ \A i \in 1 .. l : d[i] = UnitAt(v, c, (a + m) + i)
      /\ \A i \in 1 .. m + l : e[i] = UnitAt(v, c, a + i)
  BY DEF Piece
<1>2. b \in [1 .. m -> T] /\ e \in [1 .. m + l -> T]
  <2>1. 1 .. m \subseteq 1 .. m + l
    OBVIOUS
  <2> QED
    BY <2>1 DEF Piece
<1>3. d \in [1 .. l -> T]
  <2> SUFFICES ASSUME NEW i \in 1 .. l PROVE UnitAt(v, c, (a + m) + i) \in T
    BY DEF Piece
  <2>1. m + i \in 1 .. m + l /\ a + (m + i) = (a + m) + i
    OBVIOUS
  <2>2. UnitAt(v, c, a + (m + i)) \in T
    BY ONLY <2>1
  <2> QED
    BY ONLY <2>1, <2>2
<1> HIDE DEF T, b, d, e
<1>4. /\ b \in Seq(T) /\ d \in Seq(T) /\ e \in Seq(T)
      /\ Len(b) = m /\ Len(d) = l /\ Len(e) = m + l
  BY ONLY <1>2, <1>3, m \in Nat, l \in Nat
<1>5. b \o d \in Seq(T) /\ Len(b \o d) = m + l
  BY ONLY <1>4
<1>6. ASSUME NEW i \in 1 .. m + l PROVE (b \o d)[i] = e[i]
  <2>1. CASE i <= m
    <3>1. (b \o d)[i] = b[i]
      BY ONLY <1>4, <1>6, <2>1, m \in Nat, l \in Nat
    <3>2. i \in 1 .. m
      BY <2>1
    <3> QED
      BY <1>1, <3>1, <3>2
  <2>2. CASE ~(i <= m)
    <3>1. i - m \in 1 .. l /\ (a + m) + (i - m) = a + i
      BY <2>2
    <3>2. (b \o d)[i] = d[i - m]
      BY ONLY <1>4, <1>6, <2>2, m \in Nat, l \in Nat
    <3>3. d[i - m] = UnitAt(v, c, a + i)
      BY ONLY <1>1, <3>1
    <3> QED
      BY <1>1, <3>2, <3>3
  <2> QED
    BY ONLY <2>1, <2>2
<1> DEFINE x == b \o d
<1>7. x \in Seq(T) /\ Len(x) = m + l /\ \A i \in 1 .. m + l : x[i] = e[i]
  BY <1>5, <1>6
<1> HIDE DEF x
<1>8. x = [i \in 1 .. m + l |-> x[i]] /\ e = [i \in 1 .. m + l |-> e[i]]
  BY ONLY <1>4, <1>7, m \in Nat, l \in Nat
<1>9. x = e
  BY ONLY <1>7, <1>8
<1> QED
  BY <1>9 DEF x, b, d, e, PieceOn

(* A reader that moves twice.                                              *)
LEMMA LikeLike ==
  ASSUME NEW a, NEW b, NEW c, Like(a, b), Like(b, c)
  PROVE  Like(a, c)
BY DEF Like

(* What the passes of f_read so far have got, of n units, for the file     *)
(* object f that the call began with.                                      *)
Got(f, n, st) ==
  \E m \in Nat : /\ st.f.fptr = f.fptr + m /\ m + st.left = n
                 /\ st.out = Piece(vol, f.sclust, f.fptr, m)

(* After k passes: a stale reader has not gone back, one that is not has   *)
(* units of its file.                                                      *)
Fetching(f, n, st, k) ==
  /\ Reached(st) /\ Like(f, st.f) /\ f.fptr \in Nat /\ f.fptr <= st.f.fptr
  /\ ~f.stale => /\ st.left = 0 \/ st.left + k <= n
                 /\ Got(f, n, st)
                 /\ f.fsize # 0 => Looks(vol, st.f)

(* A pass of one that is not stale.                                        *)
LEMMA AwakeTurn ==
  ASSUME NEW F, NEW f, NEW n, NEW st, NEW t, NEW len, Fetching(f, n, st, 0), Inv(vol, F),
         ~f.stale, st.left \in Nat \ {0}, len \in 1 .. st.left, len <= SS - (st.f.fptr % SS),
         Fetched(st, t, len, Onward(st.f))
  PROVE  Got(f, n, t) /\ Looks(vol, t.f)
<1>1. /\ Reached(st) /\ Like(f, st.f) /\ f.fptr \in Nat
      /\ Got(f, n, st) /\ (f.fsize # 0 => Looks(vol, st.f))
  BY DEF Fetching
<1>2. /\ Handled(vol, st.f) /\ st.f.mode = "read" /\ st.left \in Nat
      /\ st.f.fptr + st.left <= st.f.fsize
  BY <1>1 DEF Reached
<1>3. st.f.fptr \in Nat /\ st.f.fsize \in Nat
  BY <1>2 DEF Handled, Fil
<1>4. st.f.stale = f.stale /\ st.f.fsize = f.fsize /\ st.f.sclust = f.sclust
  BY <1>1 DEF Like
<1>5. st.f.fptr < st.f.fsize /\ f.fsize # 0 /\ len \in Nat \ {0}
  BY <1>2, <1>3, <1>4
<1>6. Awake(F, st.f)
  BY <1>1, <1>2, <1>4, <1>5 DEF Awake
<1>7. /\ t.out = st.out \o Piece(vol, st.f.sclust, st.f.fptr, len)
      /\ Looks(vol, t.f)
  BY <1>5, <1>6, FetchedUnits
<1>8. PICK m \in Nat : /\ st.f.fptr = f.fptr + m /\ m + st.left = n
                       /\ st.out = Piece(vol, f.sclust, f.fptr, m)
  BY <1>1 DEF Got
<1>9. t.left = st.left - len /\ t.f.fptr = st.f.fptr + len
  BY DEF Fetched
<1>10. m + len \in Nat /\ t.f.fptr = f.fptr + (m + len) /\ (m + len) + t.left = n
  BY <1>1, <1>2, <1>5, <1>8, <1>9
<1>11. t.out = Piece(vol, f.sclust, f.fptr, m) \o Piece(vol, f.sclust, f.fptr + m, len)
  BY <1>4, <1>7, <1>8
<1>12. PieceOn(vol, f.sclust, f.fptr, m, len)
  <2> DEFINE c == f.sclust
             a == f.fptr
  <2>1. a \in Nat /\ len \in Nat
    BY <1>1, <1>5
  <2> HIDE DEF a, c
  <2>2. PieceOn(vol, c, a, m, len)
    BY ONLY <2>1, m \in Nat, PiecePiece
  <2> QED
    BY <2>2 DEF a, c
<1>13. t.out = Piece(vol, f.sclust, f.fptr, m + len)
  BY <1>11, <1>12 DEF PieceOn
<1> QED
  BY <1>7, <1>10, <1>13 DEF Got

(* One pass more.                                                          *)
LEMMA FetchingTurn ==
  ASSUME NEW F, NEW f, NEW n, NEW st, NEW k, Inv(vol, F), n \in Nat, k \in Nat, Fetching(f, n, st, k)
  PROVE  Fetching(f, n, ReadTurn(st), k + 1)
<1> DEFINE t == ReadTurn(st)
           len == Pass(st.f, st.left)
           cl == Onward(st.f)
<1>1. /\ Reached(st) /\ Like(f, st.f) /\ f.fptr \in Nat /\ f.fptr <= st.f.fptr
      /\ ~f.stale => /\ st.left = 0 \/ st.left + k <= n
                     /\ Got(f, n, st)
                     /\ f.fsize # 0 => Looks(vol, st.f)
  BY DEF Fetching
<1>2. /\ Shelved(st) /\ Handled(vol, st.f) /\ st.f.mode = "read" /\ Fil(st.f)
      /\ st.left \in Nat /\ st.f.fptr + st.left <= st.f.fsize
  BY <1>1 DEF Reached, Handled
<1>3. st.f.fptr \in Nat /\ st.f.fsize \in Nat
  BY <1>2 DEF Fil
<1>4. Reached(t)
  BY <1>1, ReachedTurn
<1>5. CASE st.left = 0
  <2>1. t = st
    BY <1>5 DEF ReadTurn
  <2> QED
    BY <1>1, <1>4, <1>5, <2>1 DEF Fetching
<1>6. CASE st.left # 0
  <2>1. st.left \in Nat \ {0}
    BY <1>2, <1>6
  <2>2. len \in 1 .. st.left /\ len <= SS - (st.f.fptr % SS)
    BY <1>3, <2>1, PassIs
  <2>3. t = ReadTurn(st) /\ len = Pass(st.f, st.left) /\ cl = Onward(st.f)
    OBVIOUS
  <2> HIDE DEF t, len, cl
  <2>4. /\ st.f.fptr % SS = 0 /\ cl \notin Clusters => Refused(st, t)
        /\ st.f.fptr % SS # 0 \/ cl \in Clusters => Fetched(st, t, len, cl)
    BY <1>2, <1>6, <2>3, ReadTurnIs
  <2>5. CASE st.f.fptr % SS = 0 /\ cl \notin Clusters
    <3>1. Like(st.f, t.f) /\ t.f.fptr = st.f.fptr /\ t.f.error = TRUE
      BY <2>4, <2>5 DEF Refused
    <3>2. f.stale
      <4>1. Handled(vol, t.f) /\ t.f.mode = "read"
        BY <1>4 DEF Reached
      <4>2. t.f.stale
        BY <3>1, <4>1 DEF Handled, Fil, Reading
      <4> QED
        BY <1>1, <3>1, <4>2 DEF Like
    <3>3. Like(f, t.f)
      BY <1>1, <3>1, LikeLike
    <3> QED
      BY <1>1, <1>4, <2>3, <3>1, <3>2, <3>3 DEF Fetching
  <2>6. CASE st.f.fptr % SS # 0 \/ cl \in Clusters
    <3>1. Fetched(st, t, len, Onward(st.f))
      BY <2>3, <2>4, <2>6
    <3>2. Like(f, t.f)
      BY <1>1, <3>1, LikeLike DEF Fetched
    <3>3. t.f.fptr = st.f.fptr + len /\ t.left = st.left - len
      BY <3>1 DEF Fetched
    <3>4. f.fptr <= t.f.fptr
      BY <1>1, <1>3, <2>1, <2>2, <3>3
    <3>5. ASSUME ~f.stale PROVE t.left + (k + 1) <= n /\ Got(f, n, t) /\ Looks(vol, t.f)
      <4>0. st.left + k <= n /\ st.left + 0 <= n
        BY <1>1, <1>2, <1>6, <3>5
      <4>1. Fetching(f, n, st, 0)
        BY <1>1, <1>2, <3>5, <4>0 DEF Fetching
      <4>2. Got(f, n, t) /\ Looks(vol, t.f)
        BY ONLY <2>1, <2>2, <3>1, <3>5, <4>1, Inv(vol, F), AwakeTurn
      <4>3. t.left + (k + 1) <= n
        BY <2>1, <2>2, <3>3, <4>0
      <4> QED
        BY <4>2, <4>3
    <3> QED
      BY <1>1, <1>4, <2>3, <3>2, <3>4, <3>5 DEF Fetching
  <2> QED
    BY <2>5, <2>6
<1> QED
  BY <1>5, <1>6
(* After as many passes as there were units to read (ff.cpp:2439-2503).    *)
LEMMA ReadLoopGets ==
  ASSUME Content(vol, fp), NEW h, NEW n, h \in Handles, fp[h].mode = "read", n \in Nat,
         fp[h].fptr + n <= fp[h].fsize
  PROVE  Fetching(fp[h], n, ReadLoop(h, n), n)
<1>0. Inv(vol, fp) /\ Tended(vol, fp[h])
  BY DEF Content
<1>1. PICK pass : /\ pass[0] = ReadStart(h, n) /\ ReadLoop(h, n) = pass[n]
                  /\ \A k \in 1 .. n : pass[k] = ReadTurn(pass[k - 1])
  BY ReadLoopDef
<1>2. Handled(vol, fp[h]) /\ Fil(fp[h])
  BY <1>0 DEF Inv, Opened, Handled
<1>3. Fetching(fp[h], n, pass[0], 0)
  <2> DEFINE st == pass[0]
             f == fp[h]
  <2>1. st = [f |-> f, out |-> <<>>, left |-> n]
    BY <1>1 DEF ReadStart
  <2> HIDE DEF st
  <2>2. Shelved(st) /\ st.f = f /\ st.left = n /\ st.out = <<>>
    BY <2>1 DEF Shelved
  <2>3. Reached(st)
    BY <1>2, <2>2 DEF Reached
  <2>4. Like(f, st.f)
    BY <1>2, <2>2 DEF Like, Fil
  <2>5. f.fptr \in Nat
    BY <1>2 DEF Fil
  <2>6. ~f.stale /\ f.fsize # 0 => Looks(vol, f)
    BY <1>0 DEF Tended
  <2>7. Got(f, n, st)
    <3>1. Piece(vol, f.sclust, f.fptr, 0) = <<>>
      BY DEF Piece
    <3>2. st.f.fptr = f.fptr + 0 /\ 0 + st.left = n
      BY <2>2, <2>5
    <3> QED
      BY <2>2, <3>1, <3>2 DEF Got
  <2>8. st.left + 0 <= n
    BY <2>2
  <2>9. f.fptr <= st.f.fptr
    BY <2>2, <2>5
  <2> QED
    BY <2>2, <2>3, <2>4, <2>5, <2>6, <2>7, <2>8, <2>9 DEF Fetching, st
<1> DEFINE S == {k \in Nat : k <= n => Fetching(fp[h], n, pass[k], k)}
<1>4. 0 \in S
  BY <1>3
<1>5. ASSUME NEW k \in Nat, k \in S PROVE k + 1 \in S
  <2> SUFFICES ASSUME k + 1 <= n PROVE Fetching(fp[h], n, pass[k + 1], k + 1)
    OBVIOUS
  <2>1. k < n /\ k + 1 \in 1 .. n /\ (k + 1) - 1 = k
    OBVIOUS
  <2>2. Fetching(fp[h], n, pass[k], k)
    BY <1>5, <2>1
  <2>3. pass[k + 1] = ReadTurn(pass[k])
    BY <1>1, <2>1
  <2>4. Fetching(fp[h], n, ReadTurn(pass[k]), k + 1)
    BY ONLY <1>0, <2>2, n \in Nat, k \in Nat, FetchingTurn
  <2> QED
    BY <2>3, <2>4
<1>6. n \in S
  <2> HIDE DEF S
  <2> QED
    BY <1>4, <1>5, CountUp
<1> QED
  BY <1>1, <1>6

(* A reader has been given the units x.                                    *)
Shown(f, g, x) == g = [f EXCEPT !.seen = x]

(* And is what it was otherwise.                                           *)
LEMMA ShownIs ==
  ASSUME NEW f, NEW g, NEW x, Fil(f), Shown(f, g, x)
  PROVE  /\ Like(f, g) /\ g.fptr = f.fptr /\ g.clust = f.clust /\ g.dsect = f.dsect
         /\ g.buf = f.buf /\ g.seen = x
<1>1. f = [mode |-> f.mode, slot |-> f.slot, sclust |-> f.sclust, clust |-> f.clust,
          fptr |-> f.fptr, fsize |-> f.fsize, buf |-> f.buf, dsect |-> f.dsect,
          dirty |-> f.dirty, error |-> f.error, path |-> f.path, ver |-> f.ver,
          fed |-> f.fed, seen |-> f.seen, stale |-> f.stale]
  BY DEF Fil
<1>2. /\ g.mode = f.mode /\ g.slot = f.slot /\ g.sclust = f.sclust /\ g.clust = f.clust
      /\ g.fptr = f.fptr /\ g.fsize = f.fsize /\ g.dsect = f.dsect /\ g.buf = f.buf
      /\ g.dirty = f.dirty /\ g.error = f.error /\ g.path = f.path /\ g.ver = f.ver
      /\ g.fed = f.fed /\ g.seen = x /\ g.stale = f.stale
      /\ g = [mode |-> g.mode, slot |-> g.slot, sclust |-> g.sclust, clust |-> g.clust,
          fptr |-> g.fptr, fsize |-> g.fsize, buf |-> g.buf, dsect |-> g.dsect,
          dirty |-> g.dirty, error |-> g.error, path |-> g.path, ver |-> g.ver,
          fed |-> g.fed, seen |-> g.seen, stale |-> g.stale]
  BY ONLY <1>1, Shown(f, g, x) DEF Shown
<1> QED
  BY ONLY <1>2 DEF Like

(* A part of a file.                                                       *)
PartOf(v, c, n, a, m) == SubSeq(ChainUnits(v, c, n), a + 1, a + m) = Piece(v, c, a, m)

(* The units in its sectors.                                               *)
LEMMA PartIs ==
  ASSUME NEW v, NEW c, NEW n, NEW a, NEW m, n \in Nat, a \in Nat, m \in Nat, a + m <= n,
         n <= Len(Chain(v, c)) * SS
  PROVE  PartOf(v, c, n, a, m)
<1> DEFINE x == ChainUnits(v, c, n)
           T == {UnitAt(v, c, k) : k \in 1 .. n}
           y == SubSeq(x, a + 1, a + m)
           z == Piece(v, c, a, m)
<1>1. x = [k \in 1 .. n |-> UnitAt(v, c, k)]
  BY UnitsAre
<1>2. x \in [1 .. n -> T] /\ \A k \in 1 .. n : x[k] = UnitAt(v, c, k)
  BY <1>1
<1> HIDE DEF x, T
<1>3. x \in Seq(T) /\ Len(x) = n
  BY ONLY <1>2, n \in Nat
<1>4. y = [i \in 1 .. m |-> x[(a + 1) + i - 1]]
  <2>1. (a + m) - (a + 1) + 1 = m
    OBVIOUS
  <2>2. a + 1 \in 1 .. n + 1 /\ a + m \in a .. n
    OBVIOUS
  <2>3. y \in Seq(T) /\ Len(y) = m /\ \A i \in 1 .. m : y[i] = x[(a + 1) + i - 1]
    BY ONLY <1>3, n \in Nat, a \in Nat, m \in Nat, a + m <= n
  <2> HIDE DEF y
  <2>4. y = [i \in 1 .. m |-> y[i]]
    BY ONLY <2>3, m \in Nat
  <2> QED
    BY <2>3, <2>4
<1>5. ASSUME NEW i \in 1 .. m PROVE x[(a + 1) + i - 1] = UnitAt(v, c, a + i)
  <2>1. a + i \in 1 .. n /\ (a + 1) + i - 1 = a + i
    OBVIOUS
  <2> QED
    BY <1>2, <2>1
<1>6. y = z
  BY <1>4, <1>5 DEF Piece
<1> QED
  BY <1>6 DEF PartOf, x

(* The file of a reader that is not stale is what it looks at.             *)
LEMMA ReaderFile ==
  ASSUME NEW v, NEW F, NEW f, Inv(v, F), Named(v), Handled(v, f), f.mode = "read", ~f.stale,
         f.fsize # 0
  PROVE  /\ FileAt(v, f.path) = ChainUnits(v, f.sclust, f.fsize)
         /\ f.fsize <= Len(Chain(v, f.sclust)) * SS
<1>1. /\ f.path \in Paths /\ InDir(v, f.path, f.slot)
      /\ At(v, f.slot).clust = f.sclust /\ At(v, f.slot).size = f.fsize
  BY DEF Handled, Reading
<1>2. Tree(v) /\ Fits(v)
  BY DEF Inv
<1>3. FileAt(v, f.path) = Body(v, f.slot)
  BY <1>1, <1>2, FileIs
<1>4. f.slot \in LiveFiles(v)
  BY <1>1, <1>2, LiveFacts
<1> QED
  BY <1>1, <1>2, <1>3, <1>4 DEF Body, Fits

(* What f_read gives to the reader f of the volume v, which is g then.     *)
Delivered(v, f, g, n) ==
  /\ f.mode = "read" /\ Like(f, g) /\ f.fptr \in Nat /\ f.fsize \in Nat /\ f.fptr <= f.fsize
  /\ f.stale => g.fptr \in f.fptr .. f.fsize
  /\ ~f.stale => LET m == Store!AtMost(f.fptr + n, f.fsize) IN
                 g.fptr = m /\ g.seen = SubSeq(FileAt(v, f.path), f.fptr + 1, m)

(* The two ways to say how far f_read goes.                                *)
LEMMA ReadsTo ==
  ASSUME NEW a, NEW n, NEW z, a \in Nat, n \in Nat, z \in Nat, a <= z
  PROVE  /\ Min({n, z - a}) \in Nat /\ a + Min({n, z - a}) <= z
         /\ Store!AtMost(a + n, z) = a + Min({n, z - a})
<1> DEFINE y == z - a
           m == Min({n, y})
<1>1. y \in Nat
  OBVIOUS
<1> HIDE DEF y
<1>2. m \in Nat /\ m <= y /\ m <= n /\ (m = n \/ m = y)
  BY <1>1, MinOfTwo
<1> HIDE DEF m
<1>3. a + m <= z /\ (a + n <= z => m = n) /\ (~(a + n <= z) => a + m = z)
  BY <1>1, <1>2 DEF y
<1>4. Store!AtMost(a + n, z) = a + m
  BY <1>3 DEF Store!AtMost
<1> QED
  BY <1>2, <1>3, <1>4 DEF m, y

(* f_read gives a reader the next units of its file, as many as it asks    *)
(* for or as there are (ff.cpp:2415-2506).                                 *)
LEMMA ReadContent ==
  ASSUME Content(vol, fp), NEW h \in Handles, NEW n \in ReadSizes, Read(h, n)
  PROVE  /\ Content(vol, fp') /\ Delivered(vol, fp[h], fp'[h], n)
         /\ \A k \in Handles : k # h => fp'[k] = fp[k]
<1> DEFINE f == fp[h]
           m == Min({n, f.fsize - f.fptr})
           st == ReadLoop(h, m)
           x == IF st.f.error THEN <<>> ELSE st.out
           g == [st.f EXCEPT !.seen = x]
<1>0. Inv(vol, fp) /\ Named(vol)
  BY ContentFacts
<1>1. Handled(vol, f) /\ Reading(vol, f) /\ Fil(f) /\ fp = [k \in Handles |-> fp[k]] /\ f.mode = "read"
  BY <1>0 DEF Read, Readers, Inv, Opened, Handled
<1>2. f.fptr \in Nat /\ f.fsize \in Nat /\ n \in Nat /\ f.fptr <= f.fsize
  BY <1>1, VolumeConstants DEF Fil, Reading
<1>3. /\ m \in Nat /\ f.fptr + m <= f.fsize
      /\ Store!AtMost(f.fptr + n, f.fsize) = f.fptr + m
  BY <1>2, ReadsTo
<1>4. fp' = [fp EXCEPT ![h] = g]
  BY DEF Read
<1>5. Inv(vol, fp') /\ \A k \in Handles : k # h => fp'[k] = fp[k]
  BY <1>0, ReadKeeps
<1> HIDE DEF m
<1>6. Fetching(f, m, st, m)
  BY <1>1, <1>3, ReadLoopGets
<1>7. Shown(st.f, g, x)
  BY DEF Shown
<1> HIDE DEF st
<1>8. fp'[h] = g
  BY <1>1, <1>4
<1> HIDE DEF g
<1>9. /\ Reached(st) /\ Like(f, st.f) /\ f.fptr <= st.f.fptr
      /\ ~f.stale => /\ st.left = 0 \/ st.left + m <= m
                     /\ Got(f, m, st)
                     /\ f.fsize # 0 => Looks(vol, st.f)
  BY <1>6 DEF Fetching
<1>10. /\ Handled(vol, st.f) /\ Fil(st.f) /\ st.f.mode = "read" /\ st.left \in Nat
       /\ st.f.fptr + st.left <= st.f.fsize
  BY <1>9 DEF Reached, Handled
<1>11. /\ Like(st.f, g) /\ g.fptr = st.f.fptr /\ g.clust = st.f.clust /\ g.dsect = st.f.dsect
       /\ g.buf = st.f.buf /\ g.seen = x
  BY <1>7, <1>10, ShownIs
<1>12. Like(f, g) /\ g.mode = "read" /\ g.stale = f.stale /\ g.fsize = f.fsize /\ g.sclust = f.sclust
  <2>1. Like(f, g)
    BY <1>9, <1>11, LikeLike
  <2> QED
    BY <1>1, <2>1 DEF Like
<1>13. ASSUME f.stale PROVE g.fptr \in f.fptr .. f.fsize
  <2>1. st.f.fptr \in Nat /\ st.f.fsize = f.fsize
    BY <1>9, <1>10 DEF Fil, Like
  <2> QED
    BY <1>2, <1>9, <1>10, <1>11, <2>1
<1>14. ASSUME ~f.stale
       PROVE  /\ g.fptr = f.fptr + m /\ g.seen = SubSeq(FileAt(vol, f.path), f.fptr + 1, f.fptr + m)
              /\ f.fsize # 0 => Looks(vol, g)
  <2>1. st.left = 0
    BY <1>3, <1>9, <1>10, <1>14
  <2>2. PICK j \in Nat : /\ st.f.fptr = f.fptr + j /\ j + st.left = m
                         /\ st.out = Piece(vol, f.sclust, f.fptr, j)
    BY <1>9, <1>14 DEF Got
  <2>3. j = m
    BY <1>3, <2>1, <2>2
  <2>4. x = Piece(vol, f.sclust, f.fptr, m)
    <3>1. ~st.f.error
      <4>1. st.f.stale = f.stale
        BY <1>9 DEF Like
      <4> QED
        BY <1>10, <1>14, <4>1 DEF Handled, Reading
    <3> QED
      BY <2>2, <2>3, <3>1
  <2>5. SubSeq(FileAt(vol, f.path), f.fptr + 1, f.fptr + m) = Piece(vol, f.sclust, f.fptr, m)
    <3> DEFINE a == f.fptr
               u == FileAt(vol, f.path)
    <3>1. CASE f.fsize = 0
      <4>1. m = 0 /\ a = 0
        BY <1>2, <1>3, <3>1
      <4>2. Piece(vol, f.sclust, 0, 0) = <<>>
        BY DEF Piece
      <4> HIDE DEF u, a
      <4>3. SubSeq(u, 0 + 1, 0 + 0) = <<>>
        OBVIOUS
      <4> QED
        BY <4>1, <4>2, <4>3 DEF a, u
    <3>2. CASE f.fsize # 0
      <4>1. /\ u = ChainUnits(vol, f.sclust, f.fsize)
            /\ f.fsize <= Len(Chain(vol, f.sclust)) * SS
        BY <1>0, <1>1, <1>14, <3>2, ReaderFile
      <4>2. PartOf(vol, f.sclust, f.fsize, f.fptr, m)
        <5> DEFINE b == f.fptr
                   c == f.sclust
                   z == f.fsize
        <5>1. z \in Nat /\ b \in Nat /\ m \in Nat /\ b + m <= z /\ z <= Len(Chain(vol, c)) * SS
          BY <1>2, <1>3, <4>1
        <5> HIDE DEF b, c, z
        <5>2. PartOf(vol, c, z, b, m)
          BY ONLY <5>1, PartIs
        <5> QED
          BY <5>2 DEF b, c, z
      <4> QED
        BY <4>1, <4>2 DEF PartOf
    <3> QED
      BY <3>1, <3>2
  <2>6. f.fsize # 0 => Looks(vol, g)
    <3>1. f.fsize # 0 => Looks(vol, st.f)
      BY <1>9, <1>14
    <3>2. g.sclust = st.f.sclust
      BY <1>11 DEF Like
    <3> QED
      BY <1>11, <3>1, <3>2 DEF Looks
  <2> QED
    BY <1>11, <2>2, <2>3, <2>4, <2>5, <2>6
<1>15. Tended(vol, g)
  BY <1>12, <1>14 DEF Tended
<1>16. Content(vol, fp')
  BY <1>5, <1>8, <1>15, ContentSwap
<1>17. Delivered(vol, f, g, n)
  BY <1>1, <1>2, <1>3, <1>12, <1>13, <1>14 DEF Delivered
<1> QED
  BY <1>5, <1>8, <1>16, <1>17

-----------------------------------------------------------------------------
(* f_close.                                                                *)

(* The last sector goes to the disk; the file object is closed.            *)
Flushed(v, f, u) == u = Flush(v, f)
Shut(F, h, G) == G = [F EXCEPT ![h] = Closed]

(* The last sector of a writer goes to the disk: it has what it had.       *)
LEMMA FlushContent ==
  ASSUME NEW v, NEW F, NEW h, NEW u, Content(v, F), h \in Handles, F[h].mode = "write",
         Flushed(v, F[h], u)
  PROVE  /\ Moved(v, u, F, F, h) /\ u.fat = v.fat
         /\ WrittenBy(v, F[h]) = ChainUnits(u, F[h].sclust, F[h].fptr)
<1> DEFINE f == F[h]
           o == << <<h>>, f.sclust>>
<1>0. u = Flush(v, f)
  BY DEF Flushed
<1>1. Inv(v, F) /\ Volume(v) /\ Apart(v, ChainsOf(v, F))
  BY ContentFacts
<1>2. Inv(u, F) /\ Same(v, u) /\ u.fat = v.fat
  BY <1>0, <1>1, FlushKeeps
<1>3. Appending(v, f) /\ Whole(WrittenBy(v, f))
  BY WriterIs
<1>4. AtEnd(v, f) /\ Writing(v, f)
  BY <1>3 DEF Appending
<1>5. f.dirty => f.dsect \in ClustersOf(v, f.sclust) /\ f.dsect \in Clusters
  BY <1>4, ClustersIn DEF Writing
<1>6. /\ \A x \in Clusters \cup {0} : u.disk[x] = IF f.dirty /\ x = f.dsect THEN f.buf ELSE v.disk[x]
      /\ Volume(u)
  BY <1>0, <1>1, <1>5, FlushIs
<1>7. o \in ChainsOf(v, F) /\ o[1] = <<h>> /\ o[2] = f.sclust
  BY <1>1, HandleOwns DEF Matters
<1> HIDE DEF o
<1>8. \A c : Chain(u, c) = Chain(v, c)
  BY <1>2, ChainByTable
<1>9. Changed(v, u, F, <<h>>)
  BY <1>2, <1>8 DEF Changed, Same
<1>10. u.disk[0] = v.disk[0]
  <2>1. ~(f.dirty /\ 0 = f.dsect)
    BY <1>5, Constants
  <2> QED
    BY <1>6, <2>1
<1>11. Intact(v, u, F, <<h>>)
  <2> DEFINE W == {d \in Clusters : f.dirty /\ d = f.dsect}
  <2>1. \A d \in Clusters : d \notin W => u.disk[d] = v.disk[d]
    BY <1>6
  <2>2. \A d \in W : \/ d \notin Clusters \/ v.fat[d] = 0
                     \/ \E p \in ChainsOf(v, F) : /\ p[1] = <<h>> \/ p[1] \in DirSlots
                                                  /\ d \in ClustersOf(v, p[2])
    BY <1>5, <1>7
  <2> HIDE DEF W
  <2> QED
    BY ONLY <1>1, <2>1, <2>2, IntactBy
<1>12. AtEnd(u, f)
  BY <1>4, <1>8 DEF AtEnd
<1>13. f.mode = "write" /\ f = F[h]
  OBVIOUS
<1> HIDE DEF f
<1>14. Appending(u, f)
  BY ONLY <1>2, <1>12, <1>13, h \in Handles, AppendingIs
<1>15. WrittenBy(v, f) = ChainUnits(u, f.sclust, f.fptr)
  BY <1>0, <1>3, FlushedUnits
<1>16. f.fptr \in Nat
  BY <1>3 DEF Appending, Fil
<1>17. WrittenBy(u, f) = ChainUnits(u, f.sclust, f.fptr)
  <2>1. WrittenBy(u, f) = ChainUnits(Flush(u, f), f.sclust, f.fptr)
    BY <1>14, FlushedUnits
  <2>2. /\ Flush(u, f).fat = u.fat
        /\ \A x \in Clusters \cup {0} : Flush(u, f).disk[x] = IF f.dirty /\ x = f.dsect THEN f.buf ELSE u.disk[x]
    BY <1>5, <1>6, FlushIs
  <2>3. \A x \in Clusters : Flush(u, f).disk[x] = u.disk[x]
    BY <1>6, <2>2
  <2>4. Chain(Flush(u, f), f.sclust) = Chain(u, f.sclust)
    BY <2>2, ChainByTable
  <2>5. ChainUnits(Flush(u, f), f.sclust, f.fptr) = ChainUnits(u, f.sclust, f.fptr)
    BY <1>16, <2>3, <2>4, ClustersIn, UnitsSame
  <2> QED
    BY <2>1, <2>5
<1>18. Tended(u, F[h])
  BY <1>3, <1>12, <1>13, <1>15, <1>17 DEF Tended
<1>19. Moved(v, u, F, F, h)
  BY ONLY <1>2, <1>9, <1>10, <1>11, <1>13, <1>18, Content(v, F), h \in Handles, OwnWrite DEF Moved
<1> QED
  BY <1>2, <1>13, <1>15, <1>19

(* Nobody but its writer depends on the entry of a file being written.     *)
LEMMA EntryOwn ==
  ASSUME NEW v, NEW F, NEW h, NEW k, Inv(v, F), h \in Handles, k \in Handles, k # h,
         F[h].mode = "write", Matters(F[k])
  PROVE  F[k].slot # F[h].slot /\ <<k>> # F[h].slot
<1> DEFINE f == F[h]
           s == f.slot
<1>1. Writing(v, f) /\ Tree(v)
  BY DEF Inv, Opened, Handled
<1>2. At(v, s).size = 0 /\ f.path \in Paths /\ InDir(v, f.path, s)
  BY <1>1 DEF Writing
<1>3. /\ InDir(v, F[k].path, F[k].slot) /\ F[k].path \in Paths /\ Handled(v, F[k])
  BY HandleOwns DEF Inv, Opened
<1>4. \A g : s # <<g>>
  BY HandleOwns DEF Matters
<1>5. CASE F[k].mode = "write"
  <2>1. F[k].path # f.path
    BY <1>5 DEF Inv, Opened
  <2>2. F[k].slot # s
    BY <1>1, <1>2, <1>3, <2>1, OnePath
  <2> QED
    BY <1>4, <2>2
<1>6. CASE F[k].mode # "write"
  <2>1. F[k].mode = "read" /\ ~F[k].stale /\ F[k].fsize # 0
    BY <1>6 DEF Matters
  <2>2. Reading(v, F[k])
    BY <1>3, <2>1 DEF Handled
  <2>3. At(v, F[k].slot).size # 0
    BY <2>1, <2>2 DEF Reading
  <2> QED
    BY <1>2, <1>4, <2>3
<1> QED
  BY <1>5, <1>6

(* The file at the path of the writer h, and the others, after f_sync.     *)
SyncedTo(v, w, F, G, h) ==
  /\ Content(w, G) /\ DirNames(w) = DirNames(v)
  /\ \A q \in Paths : FileAt(w, q) =
        IF q = F[h].path THEN ChainUnits(v, F[h].sclust, F[h].fsize) ELSE FileAt(v, q)
  /\ \A k \in Handles : k # h => G[k] = F[k] /\ OpenAs(w, F[k]) = OpenAs(v, F[k])
  /\ G[h] = Closed

(* f_sync makes what a writer has the file at its path, and nothing else   *)
(* changes (ff.cpp:2635-2718).                                             *)
LEMMA SyncContent ==
  ASSUME NEW v, NEW F, NEW h, NEW w, NEW G, Content(v, F), h \in Handles, F[h].mode = "write",
         Synced(v, F[h], w), Shut(F, h, G),
         Whole(ChainUnits(v, F[h].sclust, F[h].fsize))
  PROVE  SyncedTo(v, w, F, G, h)
<1> DEFINE f == F[h]
           s == f.slot
           o == << <<h>>, f.sclust>>
           x == s[1]
           cell == [At(v, s) EXCEPT !.size = f.fsize, !.clust = f.sclust]
           units == ChainUnits(v, f.sclust, f.fsize)
<1>1. Inv(v, F) /\ Tree(v) /\ Volume(v) /\ Named(v) /\ Ends(v) /\ DirOnce(v) /\ FileOnce(v) /\ Filled(v)
  BY ContentFacts DEF Content
<1>2. /\ Inv(w, G) /\ Changed(v, w, F, s) /\ InDir(w, f.path, s) /\ w.fat = v.fat
      /\ At(w, s).clust = f.sclust /\ At(w, s).size = f.fsize
  <2>1. /\ Inv(w, [F EXCEPT ![h] = Closed]) /\ Changed(v, w, F, F[h].slot)
        /\ InDir(w, F[h].path, F[h].slot) /\ w.fat = v.fat
        /\ At(w, F[h].slot).clust = F[h].sclust /\ At(w, F[h].slot).size = F[h].fsize
    BY ONLY <1>1, h \in Handles, F[h].mode = "write", Synced(v, F[h], w), SyncKeeps
  <2> QED
    BY <2>1 DEF Shut
<1>3. /\ f.path \in Paths /\ InDir(v, f.path, s) /\ s \notin DirSlots /\ \A g : s # <<g>>
      /\ o \in ChainsOf(v, F) /\ o[1] = <<h>> /\ o[2] = f.sclust /\ <<h>> \notin DirSlots
  BY <1>1, HandleOwns DEF Matters
<1>4. f.fsize \in Nat
  <2>1. Fil(f)
    BY <1>1 DEF Inv, Opened, Handled
  <2> QED
    BY <2>1, Constants DEF Fil
<1> HIDE DEF o
<1>5. PICK d \in LiveDirs(v) : x \in ClustersOf(v, At(v, d).clust)
  BY <1>1, <1>3, EntrySector
<1>6. x \in Clusters /\ 0 \notin Clusters
  BY <1>5, ClustersIn, Constants
<1>7. \A c \in Clusters \cup {0} : c # x => w.disk[c] = v.disk[c]
  <2>1. w = Put(v, s, cell)
    BY DEF Synced
  <2>2. s[1] \in Clusters \cup {0} /\ s[1] = x
    BY <1>6
  <2> HIDE DEF cell, x, s
  <2> QED
    BY <1>1, <2>1, <2>2, PutSector
<1>8. w.disk[0] = v.disk[0] /\ \A c \in Clusters : c # x => w.disk[c] = v.disk[c]
  BY <1>6, <1>7
<1> HIDE DEF x, cell
<1>9. Ends(w) /\ DirOnce(w) /\ DirNames(w) = DirNames(v)
  BY <1>1, <1>8, RootNamed
<1>10. Intact(v, w, F, s)
  BY <1>1, <1>5, <1>8, IntactDir
<1>11. Tree(w) /\ \A c : Chain(w, c) = Chain(v, c)
  BY <1>2, ChainByTable, InvFacts
<1>12. \A q \in Paths : q # f.path => ~InDir(v, q, s) /\ ~InDir(w, q, s)
  BY <1>1, <1>2, <1>3, <1>11, OnePath
<1>13. FileOnce(w)
  <2>1. \A q \in Paths : InDir(w, q, s) => \A y : InDir(v, q, y) => y = s
    BY <1>1, <1>3, <1>12 DEF FileOnce
  <2> HIDE DEF s, f
  <2> QED
    BY ONLY <1>1, <1>2, <1>11, <2>1, FilesNamed
<1>14. Named(w)
  BY <1>9, <1>13 DEF Named
<1>15. Body(w, s) = units
  <2>1. \A c \in ClustersOf(v, f.sclust) : w.disk[c] = v.disk[c]
    <3>1. o[1] # s
      BY <1>3
    <3> QED
      BY <1>3, <1>10, <3>1 DEF Intact
  <2> HIDE DEF f, s
  <2>2. ChainUnits(w, f.sclust, f.fsize) = ChainUnits(v, f.sclust, f.fsize)
    BY <1>4, <1>11, <2>1, UnitsSame
  <2> QED
    BY <1>2, <2>2 DEF Body
<1>16. Filled(w)
  BY <1>1, <1>2, <1>10, <1>15, FilledKept
<1>17. FileAt(w, f.path) = units
  BY <1>2, <1>3, <1>11, <1>14, <1>15, FileIs
<1>18. ASSUME NEW q \in Paths, q # f.path PROVE FileAt(w, q) = FileAt(v, q)
  BY <1>1, <1>2, <1>10, <1>11, <1>12, <1>14, <1>18, FileKept
<1>19. F = [k \in Handles |-> F[k]]
  BY <1>1 DEF Inv, Opened
<1>20. G[h] = Closed /\ \A k \in Handles : k # h => G[k] = F[k]
  BY <1>19 DEF Shut
<1>21. ASSUME NEW k \in Handles, k # h PROVE Tended(w, F[k]) /\ OpenAs(w, F[k]) = OpenAs(v, F[k])
  <2>1. Tended(v, F[k])
    BY DEF Content
  <2>2. Matters(F[k]) => F[k].slot # s /\ <<k>> # s
    BY <1>1, <1>21, EntryOwn
  <2> QED
    BY <1>1, <1>2, <1>10, <2>1, <2>2, TendedKept
<1>22. Tended(w, Closed)
  BY DEF Tended, Closed
<1>23. Content(w, G)
  BY <1>2, <1>14, <1>16, <1>20, <1>21, <1>22 DEF Content
<1> QED
  BY <1>9, <1>17, <1>18, <1>20, <1>21, <1>23 DEF SyncedTo

(* What f_close does of a writer whose size is its position: the file at   *)
(* its path is what it had, whole (ff.cpp:2683-2718).                      *)
Committed(v, w, F, G, h) ==
  /\ Content(w, G) /\ DirNames(w) = DirNames(v) /\ F[h].path \in Paths
  /\ \A q \in Paths :
       FileAt(w, q) = IF q = F[h].path THEN WrittenBy(v, F[h]) ELSE FileAt(v, q)
  /\ \A k \in Handles : k # h => OpenAs(w, G[k]) = OpenAs(v, F[k])
  /\ G[h] = Closed

(* It does.                                                                *)
LEMMA CloseContent ==
  ASSUME NEW v, NEW F, NEW h, NEW u, NEW w, NEW G, Content(v, F), h \in Handles, F[h].mode = "write",
         F[h].fsize = F[h].fptr, Flushed(v, F[h], u), Synced(u, F[h], w), Shut(F, h, G)
  PROVE  Committed(v, w, F, G, h)
<1> DEFINE f == F[h]
           units == ChainUnits(u, f.sclust, f.fsize)
<1>1. Moved(v, u, F, F, h) /\ WrittenBy(v, f) = units
  BY FlushContent
<1>2. /\ Content(u, F) /\ SameFiles(v, u) /\ DirNames(u) = DirNames(v)
      /\ \A k \in Handles : k # h => OpenAs(u, F[k]) = OpenAs(v, F[k])
  BY <1>1 DEF Moved
<1>3. Whole(WrittenBy(v, f))
  BY WriterIs
<1>4. /\ Content(w, G) /\ DirNames(w) = DirNames(u)
      /\ \A q \in Paths : FileAt(w, q) = IF q = f.path THEN units ELSE FileAt(u, q)
      /\ \A k \in Handles : k # h => G[k] = F[k] /\ OpenAs(w, F[k]) = OpenAs(u, F[k])
      /\ G[h] = Closed
  <2>1. Whole(ChainUnits(u, F[h].sclust, F[h].fsize))
    BY <1>1, <1>3
  <2>2. SyncedTo(u, w, F, G, h)
    BY ONLY <1>2, <2>1, h \in Handles, F[h].mode = "write", Synced(u, F[h], w), Shut(F, h, G), SyncContent
  <2> QED
    BY <2>2 DEF SyncedTo
<1>5. f.path \in Paths
  <2>1. Inv(v, F)
    BY ContentFacts
  <2> QED
    BY <2>1, HandleOwns DEF Matters
<1> QED
  BY <1>1, <1>2, <1>4, <1>5 DEF Committed, SameFiles

-----------------------------------------------------------------------------
(* The store.                                                              *)

(* The store that a volume and its file objects stand for.                 *)
Shows(z, v, F) == z = StoreOf(v, F)

(* What is in it.                                                          *)
LEMMA StoreIs ==
  ASSUME NEW v, NEW F, NEW z, Content(v, F), Shows(z, v, F)
  PROVE  /\ z.dirs = DirNames(v)
         /\ z.files = [p \in Paths |-> FileAt(v, p)]
         /\ z.hs = [h \in Handles |-> OpenAs(v, F[h])]
<1>1. z = [dirs  |-> {d \in Dirs : Find(v, 0, d) # NoSlot},
           files |-> [p \in Paths |-> FileAt(v, p)],
           hs    |-> [h \in Handles |-> OpenAs(v, F[h])]]
  BY DEF Shows, StoreOf
<1>2. {d \in Dirs : Find(v, 0, d) # NoSlot} = DirNames(v)
  BY ContentFacts, DirsAre
<1> QED
  BY ONLY <1>1, <1>2

(* A file that is there is not what stands for none.                       *)
LEMMA FileThere ==
  ASSUME NEW v, NEW F, NEW p \in Paths, NEW s, Content(v, F), InDir(v, p, s)
  PROVE  FileAt(v, p) = Body(v, s) /\ FileAt(v, p) # Store!NoFile
<1>1. FileAt(v, p) = Body(v, s)
  BY ContentFacts, FileIs
<1>2. Whole(Body(v, s))
  <2>1. s \in LiveFiles(v)
    BY DEF InDir, LiveFiles
  <2> QED
    BY <2>1 DEF Content, Filled
<1>3. ~Whole(<<[kind |-> "none"]>>)
  <2> DEFINE x == <<[kind |-> "none"]>>
  <2>1. 1 \in DOMAIN x /\ x[1].kind = "none"
    OBVIOUS
  <2> QED
    BY <2>1 DEF Whole
<1>4. Store!NoFile = <<[kind |-> "none"]>>
  BY DEF Store!NoFile
<1> QED
  BY <1>1, <1>2, <1>3, <1>4

(* A closed file object is idle.                                           *)
LEMMA ClosedIdle ==
  ASSUME NEW v
  PROVE  OpenAs(v, Closed) = Store!Idle
BY DEF Closed, OpenAs, Store!Idle

(* The size of a writer is where it stands.                                *)
Sized(F) == \A h \in Handles : F[h].mode = "write" => F[h].fsize = F[h].fptr

(* What holds in every state.                                              *)
Stored == IInv /\ Content(vol, fp) /\ Sized(fp) /\ Shows(store, vol, fp)

(* What a call leaves of it; the rest is in Stepped.                       *)
StillStored == Content(vol', fp') /\ Sized(fp')

(* f_mkdir makes a directory.                                              *)
LEMMA MkdirStores ==
  ASSUME Stored, NEW d \in Dirs, Mkdir(d), Shows(store', vol', fp')
  PROVE  StillStored /\ Store!MakeDir(d)
<1> DEFINE r == CreateChain(vol, 0)
           t == [r.v EXCEPT !.disk[r.cl] = [BlankTable EXCEPT ![0] = Dot, ![1] = Dot]]
           a == Alloc(t, 0)
<1>1. /\ made < MaxMade /\ made' = made + 1 /\ r.cl > 1 /\ fp' = fp /\ Find(vol, 0, d) = NoSlot
      /\ vol' = IF a.slot = NoSlot THEN RemoveChain(t, r.cl)
                ELSE Put(a.v, a.slot, Entry(d, TRUE, r.cl, 0))
  BY DEF Mkdir
<1>2. Dotted(r, t)
  BY DEF Dotted
<1>3. Entered(t, r.cl, d, vol')
  BY <1>1 DEF Entered
<1>4. r = CreateChain(vol, 0)
  OBVIOUS
<1> HIDE DEF r, t, a
<1>5. Content(vol, fp) /\ Sized(fp) /\ Shows(store, vol, fp)
  BY DEF Stored
<1>6. Content(vol', fp) /\ SameOpen(vol, vol', fp) /\ SameFiles(vol, vol') /\ DirAdded(vol, vol', d)
  <2>1. MadeDir(vol, d, r, t, vol')
    BY <1>1, <1>2, <1>3, <1>4 DEF MadeDir
  <2> QED
    BY ONLY <1>5, <2>1, MkdirContent
<1>7. Content(vol', fp') /\ Sized(fp')
  BY <1>1, <1>5, <1>6
<1>8. d \notin DirNames(vol)
  <2>1. {x \in Dirs : Find(vol, 0, x) # NoSlot} = DirNames(vol)
    BY <1>5, ContentFacts, DirsAre
  <2> QED
    BY <2>1, <1>1
<1>9. /\ store.dirs = DirNames(vol) /\ store.files = [p \in Paths |-> FileAt(vol, p)]
      /\ store.hs = [h \in Handles |-> OpenAs(vol, fp[h])]
  BY <1>5, StoreIs
<1>10. /\ store'.dirs = DirNames(vol') /\ store'.files = [p \in Paths |-> FileAt(vol', p)]
       /\ store'.hs = [h \in Handles |-> OpenAs(vol', fp'[h])]
  BY <1>7, StoreIs
<1>11. store'.files = store.files
  BY <1>6, <1>9, <1>10 DEF SameFiles
<1>12. store'.hs = store.hs
  BY <1>1, <1>6, <1>9, <1>10 DEF SameOpen
<1>13. Store!MakeDir(d)
  BY <1>1, <1>6, <1>8, <1>9, <1>10, <1>11, <1>12 DEF Store!MakeDir, DirAdded
<1> QED
  BY <1>7, <1>13 DEF StillStored

(* f_unlink of a directory removes it.                                     *)
LEMMA RmdirStores ==
  ASSUME Stored, NEW d \in Dirs, Rmdir(d), Shows(store', vol', fp')
  PROVE  StillStored /\ Store!RemoveDir(d)
<1> DEFINE s == Find(vol, 0, d)
<1>1. /\ s # NoSlot /\ Empty(vol, At(vol, s).clust)
      /\ vol' = RemoveChain(Put(vol, s, Deleted), At(vol, s).clust)
      /\ fp' = fp /\ made' = made
  BY DEF Rmdir
<1>2. s \in LiveDirs(vol) /\ At(vol, s).name = d
  BY <1>1, DirFound
<1>3. Unlinked(vol, s, vol')
  BY <1>1 DEF Unlinked
<1>4. Content(vol, fp) /\ Sized(fp) /\ Shows(store, vol, fp)
  BY DEF Stored
<1> HIDE DEF s
<1>5. /\ Content(vol', fp) /\ SameOpen(vol, vol', fp) /\ SameFiles(vol, vol')
      /\ DirNames(vol') = DirNames(vol) \ {At(vol, s).name}
      /\ \A p \in Paths : p[1] = At(vol, s).name => FileAt(vol, p) = <<[kind |-> "none"]>>
  BY ONLY <1>1, <1>2, <1>3, <1>4, RmdirContent
<1>6. Content(vol', fp') /\ Sized(fp')
  BY <1>1, <1>4, <1>5
<1>7. d \in DirNames(vol)
  BY <1>2 DEF DirNames
<1>8. /\ store.dirs = DirNames(vol) /\ store.files = [p \in Paths |-> FileAt(vol, p)]
      /\ store.hs = [h \in Handles |-> OpenAs(vol, fp[h])]
  BY <1>4, StoreIs
<1>9. /\ store'.dirs = DirNames(vol') /\ store'.files = [p \in Paths |-> FileAt(vol', p)]
      /\ store'.hs = [h \in Handles |-> OpenAs(vol', fp'[h])]
  BY <1>6, StoreIs
<1>10. store'.files = store.files
  BY <1>5, <1>8, <1>9 DEF SameFiles
<1>11. store'.hs = store.hs
  BY <1>1, <1>5, <1>8, <1>9 DEF SameOpen
<1>12. \A p \in Paths : p[1] = d => store.files[p] = Store!NoFile
  BY <1>2, <1>5, <1>8 DEF Store!NoFile
<1>13. Store!RemoveDir(d)
  BY <1>1, <1>2, <1>5, <1>7, <1>8, <1>9, <1>10, <1>11, <1>12 DEF Store!RemoveDir
<1> QED
  BY <1>6, <1>13 DEF StillStored

(* What the store shows of a file object.                                  *)
LEMMA OpenFields ==
  ASSUME NEW v, NEW f
  PROVE  /\ OpenAs(v, f).mode = f.mode /\ OpenAs(v, f).path = f.path /\ OpenAs(v, f).ver = f.ver
         /\ OpenAs(v, f).fed = f.fed /\ OpenAs(v, f).stale = f.stale
         /\ f.mode = "write" => OpenAs(v, f).data = WrittenBy(v, f)
         /\ f.mode = "read" => OpenAs(v, f).pos = f.fptr /\ OpenAs(v, f).len = f.fsize
BY DEF OpenAs

(* The readers of a path are told that it goes: what the store shows then. *)
Told(v, w, F, G, p) ==
  \A h \in Handles :
     OpenAs(w, G[h]) = IF F[h].mode = "read" /\ F[h].path = p
                       THEN [OpenAs(v, F[h]) EXCEPT !.stale = TRUE] ELSE OpenAs(v, F[h])

(* That is what the store does.                                            *)
LEMMA StoreTold ==
  ASSUME NEW G, NEW p, Told(vol, vol', fp, G, p),
         store.hs = [h \in Handles |-> OpenAs(vol, fp[h])]
  PROVE  [h \in Handles |-> OpenAs(vol', G[h])] = Store!Disturb(p)
<1>1. \A h \in Handles : store.hs[h] = OpenAs(vol, fp[h])
  OBVIOUS
<1>2. \A h \in Handles : store.hs[h].mode = fp[h].mode /\ store.hs[h].path = fp[h].path
  BY <1>1, OpenFields
<1>3. \A h \in Handles : OpenAs(vol', G[h]) = IF store.hs[h].mode = "read" /\ store.hs[h].path = p
                                              THEN [store.hs[h] EXCEPT !.stale = TRUE] ELSE store.hs[h]
  BY <1>1, <1>2 DEF Told
<1> QED
  BY <1>3 DEF Store!Disturb

(* Told of the path, nobody depends on it but its writer.                  *)
LEMMA TellContent ==
  ASSUME Content(vol, fp), Sized(fp), NEW p, Unshared(p)
  PROVE  /\ Content(vol, Disturbed(fp, p)) /\ Sized(Disturbed(fp, p))
         /\ \A h \in Handles : Matters(Disturbed(fp, p)[h]) => Disturbed(fp, p)[h].path # p
         /\ Told(vol, vol, fp, Disturbed(fp, p), p)
         /\ Disturb(p) = Disturbed(fp, p)
         /\ Disturbed(fp, p) = [k \in Handles |-> Disturbed(fp, p)[k]]
<1> DEFINE G == Disturbed(fp, p)
<1>1. G = Disturbed(fp, p)
  OBVIOUS
<1>2. Disturb(p) = G /\ G = [k \in Handles |-> G[k]]
  BY DEF Disturb, Disturbed, Readers
<1> HIDE DEF G
<1>3. /\ Content(vol, G)
      /\ \A h \in Handles : Matters(G[h]) => (G[h].mode = "write" /\ fp[h] = G[h]) \/ G[h].path # p
      /\ \A h \in Handles :
           OpenAs(vol, G[h]) = IF fp[h].mode = "read" /\ fp[h].path = p
                               THEN [OpenAs(vol, fp[h]) EXCEPT !.stale = TRUE] ELSE OpenAs(vol, fp[h])
  BY <1>1, DisturbContent
<1>4. \A h \in Handles : fp[h].mode = "write" => fp[h].path # p
  BY DEF Unshared, Writers
<1>5. \A h \in Handles : Matters(G[h]) => G[h].path # p
  BY <1>3, <1>4
<1>6. \A h \in Handles : G[h].mode = "write" => fp[h] = G[h]
  <2>1. Inv(vol, fp)
    BY ContentFacts
  <2> QED
    BY ONLY <2>1, DisturbKeeps DEF G
<1>7. Sized(G)
  BY <1>6 DEF Sized
<1>8. Told(vol, vol, fp, G, p)
  BY <1>3 DEF Told
<1> QED
  BY <1>2, <1>3, <1>5, <1>7, <1>8 DEF G

(* f_unlink of a file deletes it.                                          *)
LEMMA UnlinkStores ==
  ASSUME Stored, NEW p \in Paths, Unlink(p), Shows(store', vol', fp')
  PROVE  StillStored /\ Store!Delete(p)
<1> DEFINE F == Disturbed(fp, p)
           s == Lookup(vol, p)
<1>1. /\ Unshared(p) /\ s # NoSlot /\ fp' = Disturb(p) /\ made' = made
      /\ vol' = RemoveChain(Put(vol, s, Deleted), At(vol, s).clust)
  BY DEF Unlink
<1>2. Content(vol, fp) /\ Sized(fp) /\ Shows(store, vol, fp)
  BY DEF Stored
<1>3. Unlinked(vol, s, vol')
  BY <1>1 DEF Unlinked
<1>4. InDir(vol, p, s)
  BY <1>1, <1>2, ContentFacts, LookupIs
<1>5. /\ Content(vol, F) /\ Sized(F) /\ Told(vol, vol, fp, F, p) /\ fp' = F
      /\ \A h \in Handles : Matters(F[h]) => F[h].path # p
  BY <1>1, <1>2, TellContent
<1> HIDE DEF s, F
<1>6. /\ Content(vol', F) /\ SameOpen(vol, vol', F) /\ DirNames(vol') = DirNames(vol)
      /\ Gone(vol, vol', p)
  BY ONLY <1>3, <1>4, <1>5, p \in Paths, UnlinkContent
<1>7. Content(vol', fp') /\ Sized(fp')
  BY <1>5, <1>6
<1>8. /\ store.dirs = DirNames(vol) /\ store.files = [q \in Paths |-> FileAt(vol, q)]
      /\ store.hs = [h \in Handles |-> OpenAs(vol, fp[h])]
  BY <1>2, StoreIs
<1>9. /\ store'.dirs = DirNames(vol') /\ store'.files = [q \in Paths |-> FileAt(vol', q)]
      /\ store'.hs = [h \in Handles |-> OpenAs(vol', fp'[h])]
  BY <1>7, StoreIs
<1>10. Told(vol, vol', fp, F, p)
  BY <1>5, <1>6 DEF Told, SameOpen
<1>11. store'.hs = Store!Disturb(p)
  BY <1>5, <1>8, <1>9, <1>10, StoreTold
<1>12. store'.files = [store.files EXCEPT ![p] = Store!NoFile]
  BY <1>6, <1>8, <1>9 DEF Store!NoFile, Gone
<1>13. store.files[p] # Store!NoFile
  BY <1>2, <1>4, <1>8, FileThere
<1>14. store'.dirs = store.dirs
  BY <1>6, <1>8, <1>9
<1>15. Store!Delete(p)
  BY <1>1, <1>11, <1>12, <1>13, <1>14 DEF Store!Delete
<1> QED
  BY <1>7, <1>15 DEF StillStored

(* Nothing but the file object h changes.                                  *)
Only(v, w, F, G, h) == \A k \in Handles : k # h => OpenAs(w, G[k]) = OpenAs(v, F[k])

(* f_close of a writer commits what it has in the file.                    *)
LEMMA CloseWriteStores ==
  ASSUME Stored, NEW h \in Handles, CloseWrite(h), Shows(store', vol', fp')
  PROVE  StillStored /\ Store!Commit(h)
<1> DEFINE v == Flush(vol, fp[h])
<1>1. /\ fp[h].mode = "write" /\ fp' = [fp EXCEPT ![h] = Closed] /\ made' = made
      /\ vol' = Put(v, fp[h].slot, [At(v, fp[h].slot) EXCEPT !.size = fp[h].fsize,
                                                          !.clust = fp[h].sclust])
  BY DEF CloseWrite, Writers
<1>2. Content(vol, fp) /\ Sized(fp) /\ Shows(store, vol, fp)
  BY DEF Stored
<1>3. Flushed(vol, fp[h], v)
  BY DEF Flushed
<1> HIDE DEF v
<1>4. Synced(v, fp[h], vol')
  BY <1>1 DEF Synced
<1>5. Shut(fp, h, fp')
  BY <1>1 DEF Shut
<1>6. fp[h].fsize = fp[h].fptr
  BY <1>1, <1>2 DEF Sized
<1>7. Committed(vol, vol', fp, fp', h)
  BY ONLY <1>1, <1>2, <1>3, <1>4, <1>5, <1>6, h \in Handles, CloseContent
<1>8. /\ Content(vol', fp') /\ DirNames(vol') = DirNames(vol) /\ fp[h].path \in Paths
      /\ \A q \in Paths :
           FileAt(vol', q) = IF q = fp[h].path THEN WrittenBy(vol, fp[h]) ELSE FileAt(vol, q)
      /\ \A k \in Handles : k # h => OpenAs(vol', fp'[k]) = OpenAs(vol, fp[k])
      /\ fp'[h] = Closed
  BY <1>7 DEF Committed
<1>9. Sized(fp')
  <2>1. fp = [k \in Handles |-> fp[k]]
    BY <1>2, ContentFacts DEF Inv, Opened
  <2>2. \A k \in Handles : k # h => fp'[k] = fp[k]
    BY <1>1, <2>1
  <2> QED
    BY <1>2, <1>8, <2>2, ClosedFil DEF Sized
<1>10. /\ store.dirs = DirNames(vol) /\ store.files = [q \in Paths |-> FileAt(vol, q)]
       /\ store.hs = [k \in Handles |-> OpenAs(vol, fp[k])]
  BY <1>2, StoreIs
<1>11. /\ store'.dirs = DirNames(vol') /\ store'.files = [q \in Paths |-> FileAt(vol', q)]
       /\ store'.hs = [k \in Handles |-> OpenAs(vol', fp'[k])]
  BY <1>8, StoreIs
<1>12. /\ store.hs[h].mode = "write" /\ store.hs[h].path = fp[h].path
       /\ store.hs[h].data = WrittenBy(vol, fp[h])
  BY <1>1, <1>10, OpenFields
<1>13. store'.files = [store.files EXCEPT ![store.hs[h].path] = store.hs[h].data]
  BY <1>8, <1>10, <1>11, <1>12
<1>14. store'.hs = [store.hs EXCEPT ![h] = Store!Idle]
  <2>1. OpenAs(vol', fp'[h]) = Store!Idle
    BY <1>8, ClosedIdle
  <2> QED
    BY <1>8, <1>10, <1>11, <2>1
<1>15. Store!Commit(h)
  BY <1>1, <1>8, <1>10, <1>11, <1>12, <1>13, <1>14 DEF Store!Commit
<1> QED
  BY <1>8, <1>9, <1>15 DEF StillStored

(* A file object is opened for reading, or closed after it.                *)
LEMMA SwapStores ==
  ASSUME Content(vol, fp), Sized(fp), NEW h \in Handles, NEW G, NEW g,
         Inv(vol, G), \A k \in Handles : k # h => G[k] = fp[k], G[h] = g,
         Tended(vol, g), g.mode # "write"
  PROVE  /\ Content(vol, G) /\ Sized(G) /\ Only(vol, vol, fp, G, h)
<1>1. Content(vol, G)
  BY ContentSwap
<1> QED
  BY <1>1 DEF Sized, Only

(* f_close of a reader releases it.                                        *)
LEMMA CloseReadStores ==
  ASSUME Stored, NEW h \in Handles, CloseRead(h), Shows(store', vol', fp')
  PROVE  StillStored /\ Store!Release(h)
<1>1. fp[h].mode = "read" /\ fp' = [fp EXCEPT ![h] = Closed] /\ vol' = vol /\ made' = made
  BY DEF CloseRead, Readers
<1>2. Content(vol, fp) /\ Sized(fp) /\ Shows(store, vol, fp) /\ Inv(vol, fp)
  BY ContentFacts DEF Stored
<1>3. fp = [k \in Handles |-> fp[k]]
  BY <1>2 DEF Inv, Opened
<1>4. Handled(vol, Closed) /\ Closed.mode = "closed"
  BY ClosedFil
<1>5. fp[h].mode # "write" /\ Closed.mode # "write"
  BY <1>1, <1>4
<1>6. Inv(vol, [fp EXCEPT ![h] = Closed])
  BY ONLY <1>2, <1>4, <1>5, h \in Handles, CloseReadKeeps
<1>7. Inv(vol, fp') /\ \A k \in Handles : k # h => fp'[k] = fp[k]
  BY <1>1, <1>3, <1>6
<1>8. fp'[h] = Closed /\ Tended(vol, Closed)
  BY <1>1, <1>3, <1>4 DEF Tended
<1>9. Content(vol, fp') /\ Sized(fp') /\ Only(vol, vol, fp, fp', h)
  BY <1>2, <1>5, <1>7, <1>8, SwapStores
<1>10. /\ store.dirs = DirNames(vol) /\ store.files = [q \in Paths |-> FileAt(vol, q)]
       /\ store.hs = [k \in Handles |-> OpenAs(vol, fp[k])]
  BY <1>2, StoreIs
<1>11. /\ store'.dirs = DirNames(vol') /\ store'.files = [q \in Paths |-> FileAt(vol', q)]
       /\ store'.hs = [k \in Handles |-> OpenAs(vol', fp'[k])]
  <2>1. Content(vol', fp')
    BY <1>1, <1>9
  <2> QED
    BY <2>1, StoreIs
<1>12. store'.hs = [store.hs EXCEPT ![h] = Store!Idle]
  <2>1. OpenAs(vol', fp'[h]) = Store!Idle
    BY <1>8, ClosedIdle
  <2>2. \A k \in Handles : k # h => OpenAs(vol', fp'[k]) = OpenAs(vol, fp[k])
    BY <1>1, <1>9 DEF Only
  <2> QED
    BY <1>10, <1>11, <2>1, <2>2
<1>13. store.hs[h].mode = "read"
  BY <1>1, <1>10, OpenFields
<1>14. Store!Release(h)
  BY <1>1, <1>10, <1>11, <1>12, <1>13 DEF Store!Release
<1> QED
  BY <1>1, <1>9, <1>14 DEF StillStored

(* A reader that f_open has just opened: at the start of a file of size n. *)
AtStart(g, p, n) ==
  /\ g.mode = "read" /\ g.path = p /\ g.fsize = n /\ g.fptr = 0 /\ g.dsect = 0
  /\ g.ver = 0 /\ g.fed = 0 /\ g.seen = <<>> /\ g.stale = FALSE

(* The store shows it so.                                                  *)
ShownAs(v, g, p, n) ==
  OpenAs(v, g) = [Store!Idle EXCEPT !.mode = "read", !.path = p, !.len = n]

(* As it does when it opens one.                                           *)
LEMMA StartShown ==
  ASSUME NEW v, NEW g, NEW p, NEW n, AtStart(g, p, n)
  PROVE  ShownAs(v, g, p, n)
<1>1. OpenAs(v, g) = [mode |-> "read", path |-> p, ver |-> 0, fed |-> 0, data |-> <<>>, pos |-> 0,
                      len |-> n, seen |-> <<>>, stale |-> FALSE]
  BY DEF OpenAs, AtStart
<1> DEFINE i == Store!Idle
           x == [i EXCEPT !.mode = "read", !.path = p, !.len = n]
<1>2. i = [mode |-> "closed", path |-> <<>>, ver |-> 0, data |-> <<>>, fed |-> 0,
           pos |-> 0, len |-> 0, seen |-> <<>>, stale |-> FALSE]
  BY DEF Store!Idle
<1>3. x = [i EXCEPT !.mode = "read", !.path = p, !.len = n]
  OBVIOUS
<1> HIDE DEF i, x
<1>4. x = [mode |-> "read", path |-> p, ver |-> 0, data |-> <<>>, fed |-> 0, pos |-> 0,
           len |-> n, seen |-> <<>>, stale |-> FALSE]
  BY ONLY <1>2, <1>3
<1>5. OpenAs(v, g) = x
  BY ONLY <1>1, <1>4
<1> QED
  BY <1>5 DEF i, x, ShownAs

(* The length of a file.                                                   *)
LEMMA BodyLength ==
  ASSUME NEW v, NEW s, At(v, s).size \in Nat
  PROVE  Len(Body(v, s)) = At(v, s).size
BY DEF Body, ChainUnits

(* f_open for reading opens what the path holds.                           *)
LEMMA OpenReadStores ==
  ASSUME Stored, NEW h \in Handles, NEW p \in Paths, OpenRead(h, p), Shows(store', vol', fp')
  PROVE  StillStored /\ Store!Open(h, p)
<1> DEFINE s == Lookup(vol, p)
           n == At(vol, s).size
           g == [Closed EXCEPT !.mode = "read", !.slot = s, !.path = p,
                               !.sclust = At(vol, s).clust, !.fsize = At(vol, s).size]
<1>1. /\ fp[h].mode = "closed" /\ s # NoSlot /\ fp' = [fp EXCEPT ![h] = g]
      /\ vol' = vol /\ made' = made
  BY DEF OpenRead
<1>2. Content(vol, fp) /\ Sized(fp) /\ Shows(store, vol, fp) /\ Inv(vol, fp)
  BY ContentFacts DEF Stored
<1>3. fp = [k \in Handles |-> fp[k]]
  BY <1>2 DEF Inv, Opened
<1>4. InDir(vol, p, s)
  BY <1>1, <1>2, LookupIs, InvFacts
<1>5. AtStart(g, p, n)
  BY DEF AtStart, Closed
<1> HIDE DEF s
<1>6. Inv(vol, [fp EXCEPT ![h] = g])
  BY ONLY <1>1, <1>2, <1>4, h \in Handles, p \in Paths, OpenReadKeeps DEF g
<1> HIDE DEF g
<1>7. /\ Inv(vol, fp') /\ fp'[h] = g /\ \A k \in Handles : k # h => fp'[k] = fp[k]
  BY <1>1, <1>3, <1>6
<1>8. Tended(vol, g) /\ g.mode # "write"
  <2>1. 0 % SS = 0
    BY Constants
  <2> QED
    BY <1>5, <2>1 DEF Tended, Looks, AtStart
<1>9. Content(vol, fp') /\ Sized(fp') /\ Only(vol, vol, fp, fp', h)
  BY <1>2, <1>7, <1>8, SwapStores
<1>10. /\ store.dirs = DirNames(vol) /\ store.files = [q \in Paths |-> FileAt(vol, q)]
       /\ store.hs = [k \in Handles |-> OpenAs(vol, fp[k])]
  BY <1>2, StoreIs
<1>11. /\ store'.dirs = DirNames(vol') /\ store'.files = [q \in Paths |-> FileAt(vol', q)]
       /\ store'.hs = [k \in Handles |-> OpenAs(vol', fp'[k])]
  <2>1. Content(vol', fp')
    BY <1>1, <1>9
  <2> QED
    BY <2>1, StoreIs
<1>12. Len(store.files[p]) = n /\ store.files[p] # Store!NoFile
  <2>1. store.files[p] = FileAt(vol, p)
    BY <1>10
  <2>2. FileAt(vol, p) = Body(vol, s) /\ FileAt(vol, p) # Store!NoFile
    BY <1>2, <1>4, FileThere
  <2>3. n \in Nat
    <3>1. Fil(g) /\ g.fsize = n
      BY <1>5, <1>7 DEF Inv, Opened, Handled, AtStart
    <3> QED
      BY <3>1, Constants DEF Fil
  <2> QED
    BY <2>1, <2>2, <2>3, BodyLength
<1> DEFINE x == [Store!Idle EXCEPT !.mode = "read", !.path = p, !.len = Len(store.files[p])]
<1>13. store'.hs = [store.hs EXCEPT ![h] = x]
  <2>1. OpenAs(vol', fp'[h]) = x
    <3>1. AtStart(fp'[h], p, n)
      BY <1>5, <1>7
    <3>2. ShownAs(vol', fp'[h], p, n)
      BY ONLY <3>1, StartShown
    <3> QED
      BY <3>2, <1>12 DEF ShownAs
  <2>2. \A k \in Handles : k # h => OpenAs(vol', fp'[k]) = OpenAs(vol, fp[k])
    BY <1>1, <1>9 DEF Only
  <2> HIDE DEF x
  <2> QED
    BY <1>10, <1>11, <2>1, <2>2
<1>14. store.hs[h].mode = "closed"
  BY <1>1, <1>10, OpenFields
<1>15. Store!Open(h, p)
  BY <1>1, <1>10, <1>11, <1>12, <1>13, <1>14 DEF Store!Open
<1> QED
  BY <1>1, <1>9, <1>15 DEF StillStored

(* A writer that f_open has just opened.                                   *)
FreshWriter(g, p, n) ==
  /\ g.mode = "write" /\ g.path = p /\ g.ver = n /\ g.fptr = 0 /\ g.fsize = 0 /\ g.sclust = 0
  /\ g.dirty = FALSE /\ g.fed = 0 /\ g.seen = <<>> /\ g.stale = FALSE

(* The store shows it so.                                                  *)
NewShown(v, g, p, n) ==
  OpenAs(v, g) = [Store!Idle EXCEPT !.mode = "write", !.path = p, !.ver = n]

(* It has nothing in the file.                                             *)
LEMMA FreshWriterHas ==
  ASSUME NEW v, NEW g, NEW p, NEW n, FreshWriter(g, p, n)
  PROVE  Tended(v, g) /\ NewShown(v, g, p, n)
<1>1. g.mode = "write" /\ g.fptr = 0 /\ g.sclust = 0 /\ g.dirty = FALSE
  BY DEF FreshWriter
<1>2. WrittenBy(v, g) = <<>>
  BY <1>1 DEF WrittenBy
<1>3. Whole(WrittenBy(v, g))
  BY <1>2 DEF Whole
<1>4. AtEnd(v, g)
  <2>1. 0 % SS = 0
    BY Constants
  <2> QED
    BY <1>1, <2>1 DEF AtEnd
<1>5. OpenAs(v, g) = [mode |-> "write", path |-> p, ver |-> n, fed |-> 0, data |-> <<>>, pos |-> 0,
                      len |-> 0, seen |-> <<>>, stale |-> FALSE]
  BY <1>2 DEF OpenAs, FreshWriter
<1> DEFINE i == Store!Idle
           x == [i EXCEPT !.mode = "write", !.path = p, !.ver = n]
<1>6. i = [mode |-> "closed", path |-> <<>>, ver |-> 0, data |-> <<>>, fed |-> 0,
           pos |-> 0, len |-> 0, seen |-> <<>>, stale |-> FALSE]
  BY DEF Store!Idle
<1>7. x = [i EXCEPT !.mode = "write", !.path = p, !.ver = n]
  OBVIOUS
<1> HIDE DEF i, x
<1>8. x = [mode |-> "write", path |-> p, ver |-> n, data |-> <<>>, fed |-> 0, pos |-> 0,
           len |-> 0, seen |-> <<>>, stale |-> FALSE]
  BY ONLY <1>6, <1>7
<1>9. OpenAs(v, g) = x
  BY ONLY <1>5, <1>8
<1>10. NewShown(v, g, p, n)
  BY <1>9 DEF i, x, NewShown
<1> QED
  BY <1>1, <1>3, <1>4, <1>10 DEF Tended

(* f_open for writing creates the path, empty.                             *)
LEMMA OpenWriteStores ==
  ASSUME Stored, NEW h \in Handles, NEW p \in Paths, OpenWrite(h, p), Shows(store', vol', fp')
  PROVE  StillStored /\ Store!Create(h, p)
<1> DEFINE F == Disturbed(fp, p)
           d == Find(vol, 0, p[1])
           c == At(vol, d).clust
           found == Find(vol, c, p[2])
           reg   == IF found = NoSlot THEN Alloc(vol, c) ELSE [v |-> vol, slot |-> found]
           old   == IF found = NoSlot THEN 0 ELSE At(vol, found).clust
           cut   == Put(reg.v, reg.slot, Entry(p[2], FALSE, 0, 0))
           n == made + 1
           g == [Closed EXCEPT !.mode = "write", !.slot = reg.slot, !.path = p, !.ver = n]
<1>1. /\ fp[h].mode = "closed" /\ made < MaxMade /\ made' = n /\ Unshared(p)
      /\ d # NoSlot /\ reg.slot # NoSlot
      /\ vol' = IF old = 0 THEN cut ELSE [RemoveChain(cut, old) EXCEPT !.last = old - 1]
      /\ fp' = [Disturb(p) EXCEPT ![h] = g]
  BY DEF OpenWrite
<1>2. d \in LiveDirs(vol) /\ At(vol, d).name = p[1]
  BY <1>1, DirFound
<1>3. Registered(vol, At(vol, d).clust, p[2], reg)
  BY DEF Registered
<1>4. Cut(vol, At(vol, d).clust, p[2], reg, vol')
  BY <1>1 DEF Cut, BlankFile
<1>5. FreshWriter(g, p, n)
  BY DEF FreshWriter, Closed
<1>6. Content(vol, fp) /\ Sized(fp) /\ Shows(store, vol, fp) /\ Inv(vol, fp) /\ made \in 0 .. MaxMade
  BY ContentFacts DEF Stored, IInv
<1>7. Inv(vol', fp')
  BY <1>6, OpenWriteKeeps
<1>8. /\ Content(vol, F) /\ Sized(F) /\ Told(vol, vol, fp, F, p) /\ Disturb(p) = F
      /\ \A k \in Handles : Matters(F[k]) => F[k].path # p
      /\ F = [k \in Handles |-> F[k]]
  BY <1>1, <1>6, TellContent
<1> HIDE DEF F, d, c, found, reg, old, cut
<1>9. reg.slot # NoSlot /\ Content(vol, F) /\ \A k \in Handles : Matters(F[k]) => F[k].path # p
  BY <1>1, <1>8
<1>10. Content(vol', F) /\ SameOpen(vol, vol', F) /\ DirNames(vol') = DirNames(vol) /\ CutShort(vol, vol', p)
  BY ONLY <1>2, <1>3, <1>4, <1>9, p \in Paths, CutContent
<1> HIDE DEF g, n
<1>11. fp'[h] = g /\ \A k \in Handles : k # h => fp'[k] = F[k]
  BY <1>1, <1>8
<1>12. Tended(vol', g) /\ NewShown(vol', g, p, n)
  BY ONLY <1>5, FreshWriterHas
<1>13. Content(vol', fp')
  <2>1. Tended(vol', fp'[h])
    BY <1>11, <1>12
  <2> QED
    BY <1>7, <1>10, <1>11, <2>1, ContentSwap
<1>14. Sized(fp')
  BY <1>5, <1>8, <1>11 DEF Sized, FreshWriter
<1>15. /\ store.dirs = DirNames(vol) /\ store.files = [q \in Paths |-> FileAt(vol, q)]
       /\ store.hs = [k \in Handles |-> OpenAs(vol, fp[k])]
  BY <1>6, StoreIs
<1>16. /\ store'.dirs = DirNames(vol') /\ store'.files = [q \in Paths |-> FileAt(vol', q)]
       /\ store'.hs = [k \in Handles |-> OpenAs(vol', fp'[k])]
  BY <1>13, StoreIs
<1>17. [k \in Handles |-> OpenAs(vol', F[k])] = Store!Disturb(p)
  <2>1. Told(vol, vol', fp, F, p)
    BY <1>8, <1>10 DEF Told, SameOpen
  <2> QED
    BY <1>15, <2>1, StoreTold
<1> DEFINE x == [Store!Idle EXCEPT !.mode = "write", !.path = p, !.ver = n]
           z == Store!Disturb(p)
<1>18. store'.hs = [z EXCEPT ![h] = x]
  <2>1. OpenAs(vol', fp'[h]) = x
    BY <1>11, <1>12 DEF NewShown
  <2>2. [k \in Handles |-> OpenAs(vol', F[k])] = z
    BY <1>17
  <2> HIDE DEF x, z
  <2> QED
    BY <1>11, <1>16, <2>1, <2>2
<1>19. store'.files = [store.files EXCEPT ![p] = <<>>]
  BY <1>10, <1>15, <1>16 DEF CutShort
<1>20. p[1] \in store.dirs
  BY <1>2, <1>15 DEF DirNames
<1>21. store.hs[h].mode = "closed"
  BY <1>1, <1>15, OpenFields
<1>22. store'.hs = [Store!Disturb(p) EXCEPT ![h] =
                [Store!Idle EXCEPT !.mode = "write", !.path = p, !.ver = made + 1]]
  BY <1>18 DEF n
<1>23. store'.dirs = store.dirs /\ made < MaxMade /\ made' = made + 1
  BY <1>1, <1>10, <1>15, <1>16 DEF n
<1>24. Store!Create(h, p)
  BY ONLY <1>19, <1>20, <1>21, <1>22, <1>23 DEF Store!Create
<1> QED
  BY <1>13, <1>14, <1>24 DEF StillStored

(* What the store shows of an open file is y.                              *)
OpenFile(y) ==
  y = [mode |-> y.mode, path |-> y.path, ver |-> y.ver, fed |-> y.fed, data |-> y.data,
       pos |-> y.pos, len |-> y.len, seen |-> y.seen, stale |-> y.stale]

(* Two that agree are the same.                                            *)
LEMMA OpenFileIs ==
  ASSUME NEW x, NEW y, OpenFile(x), OpenFile(y),
         x.mode = y.mode, x.path = y.path, x.ver = y.ver, x.fed = y.fed, x.data = y.data,
         x.pos = y.pos, x.len = y.len, x.seen = y.seen, x.stale = y.stale
  PROVE  x = y
BY DEF OpenFile

(* It is one.                                                              *)
LEMMA OpenAsFile ==
  ASSUME NEW v, NEW f
  PROVE  OpenFile(OpenAs(v, f))
BY DEF OpenFile, OpenAs

(* Of the open files one becomes z.                                        *)
OneChanged(S, T, h, z) ==
  S = [k \in Handles |-> S[k]] /\ T = [k \in Handles |-> IF k = h THEN z ELSE S[k]]

(* A writer y with the units u more, of n that it was given, is z.         *)
Appends(y, z, u, n) ==
  /\ OpenFile(y) /\ OpenFile(z)
  /\ z.mode = y.mode /\ z.path = y.path /\ z.ver = y.ver /\ z.fed = y.fed + n
  /\ z.data = y.data \o u
  /\ z.pos = y.pos /\ z.len = y.len /\ z.seen = y.seen /\ z.stale = y.stale

(* That is how the store writes.                                           *)
WrittenOn(S, T, h, u, n) == T = [S EXCEPT ![h].data = @ \o u, ![h].fed = @ + n]

(* The open files with that one changed are what the store makes of them.  *)
LEMMA AppendRecord ==
  ASSUME NEW S, NEW T, NEW h, NEW z, NEW u, NEW n, h \in Handles,
         OneChanged(S, T, h, z), Appends(S[h], z, u, n)
  PROVE  WrittenOn(S, T, h, u, n)
<1> DEFINE y == S[h]
           a == y.data \o u
           b == y.fed + n
           x == [y EXCEPT !.data = a, !.fed = b]
           R == [S EXCEPT ![h].data = @ \o u, ![h].fed = @ + n]
<1>1. x = [y EXCEPT !.data = a, !.fed = b]
  OBVIOUS
<1>2. R = [k \in Handles |-> IF k = h THEN x ELSE S[k]]
  BY DEF OneChanged
<1>3. OpenFile(y) /\ OpenFile(z)
      /\ z.mode = y.mode /\ z.path = y.path /\ z.ver = y.ver /\ z.fed = b /\ z.data = a
      /\ z.pos = y.pos /\ z.len = y.len /\ z.seen = y.seen /\ z.stale = y.stale
  BY DEF Appends
<1> HIDE DEF x, a, b, R, y
<1>4. /\ OpenFile(x)
      /\ x.mode = y.mode /\ x.path = y.path /\ x.ver = y.ver /\ x.fed = b /\ x.data = a
      /\ x.pos = y.pos /\ x.len = y.len /\ x.seen = y.seen /\ x.stale = y.stale
  BY ONLY <1>1, <1>3 DEF OpenFile
<1>5. x = z
  BY ONLY <1>3, <1>4, OpenFileIs
<1>6. T = R
  BY <1>2, <1>5 DEF OneChanged
<1> QED
  BY <1>6 DEF R, WrittenOn

(* A reader y that has the units s and stands at k is z.                   *)
Delivers(y, z, k, s) ==
  /\ OpenFile(y) /\ OpenFile(z)
  /\ z.mode = y.mode /\ z.path = y.path /\ z.ver = y.ver /\ z.fed = y.fed /\ z.data = y.data
  /\ z.pos = k /\ z.len = y.len /\ z.seen = s /\ z.stale = y.stale

(* That is how the store reads.                                            *)
ReadOn(S, T, h, k, s) == T = [S EXCEPT ![h].seen = s, ![h].pos = k]
ReadOff(S, T, h, k, s) == T = [S EXCEPT ![h].pos = k, ![h].seen = s]

(* Either way.                                                             *)
LEMMA ReadRecord ==
  ASSUME NEW S, NEW T, NEW h, NEW z, NEW k, NEW s, h \in Handles,
         OneChanged(S, T, h, z), Delivers(S[h], z, k, s)
  PROVE  ReadOn(S, T, h, k, s) /\ ReadOff(S, T, h, k, s)
<1> DEFINE y == S[h]
           x == [y EXCEPT !.pos = k, !.seen = s]
           Q == [S EXCEPT ![h].seen = s, ![h].pos = k]
           R == [S EXCEPT ![h].pos = k, ![h].seen = s]
           w == [y EXCEPT !.seen = s, !.pos = k]
<1>1. x = [y EXCEPT !.pos = k, !.seen = s] /\ w = [y EXCEPT !.seen = s, !.pos = k]
  OBVIOUS
<1>2. /\ R = [j \in Handles |-> IF j = h THEN x ELSE S[j]]
      /\ Q = [j \in Handles |-> IF j = h THEN w ELSE S[j]]
  BY DEF OneChanged
<1>3. OpenFile(y) /\ OpenFile(z)
      /\ z.mode = y.mode /\ z.path = y.path /\ z.ver = y.ver /\ z.fed = y.fed /\ z.data = y.data
      /\ z.pos = k /\ z.len = y.len /\ z.seen = s /\ z.stale = y.stale
  BY DEF Delivers
<1> HIDE DEF x, w, R, Q, y
<1>4. /\ OpenFile(x)
      /\ x.mode = y.mode /\ x.path = y.path /\ x.ver = y.ver /\ x.fed = y.fed /\ x.data = y.data
      /\ x.pos = k /\ x.len = y.len /\ x.seen = s /\ x.stale = y.stale
  BY ONLY <1>1, <1>3 DEF OpenFile
<1>5. /\ OpenFile(w)
      /\ w.mode = y.mode /\ w.path = y.path /\ w.ver = y.ver /\ w.fed = y.fed /\ w.data = y.data
      /\ w.pos = k /\ w.len = y.len /\ w.seen = s /\ w.stale = y.stale
  BY ONLY <1>1, <1>3 DEF OpenFile
<1>6. x = z
  BY ONLY <1>3, <1>4, OpenFileIs
<1>7. w = z
  BY ONLY <1>3, <1>5, OpenFileIs
<1>8. T = R /\ T = Q
  BY <1>2, <1>6, <1>7 DEF OneChanged
<1> QED
  BY <1>8 DEF R, Q, ReadOn, ReadOff

(* The open files of the store after a call for one of them.               *)
LEMMA StoreReplaced ==
  ASSUME NEW v, NEW w, NEW F, NEW G, NEW h, NEW S, NEW T, h \in Handles, Only(v, w, F, G, h),
         S = [k \in Handles |-> OpenAs(v, F[k])], T = [k \in Handles |-> OpenAs(w, G[k])]
  PROVE  OneChanged(S, T, h, OpenAs(w, G[h])) /\ S[h] = OpenAs(v, F[h])
<1> DEFINE z == OpenAs(w, G[h])
<1>1. T = [k \in Handles |-> IF k = h THEN z ELSE S[k]]
  BY DEF Only
<1>2. S = [k \in Handles |-> S[k]] /\ S[h] = OpenAs(v, F[h])
  OBVIOUS
<1> QED
  BY <1>1, <1>2 DEF OneChanged

(* f_write appends.                                                        *)
LEMMA WriteStores ==
  ASSUME Stored, NEW h \in Handles, NEW n \in WriteSizes, Write(h, n), Shows(store', vol', fp')
  PROVE  StillStored /\ Store!AppendUnits(h, n)
<1>1. Content(vol, fp) /\ Sized(fp) /\ Shows(store, vol, fp) /\ Counted(fp)
  BY DEF Stored, IInv
<1>2. Served(vol, vol', fp, fp', h, n)
  BY <1>1, WriteContent
<1> DEFINE f == fp[h]
           g == fp'[h]
<1>3. /\ Content(vol', fp') /\ SameFiles(vol, vol') /\ DirNames(vol') = DirNames(vol)
      /\ Only(vol, vol', fp, fp', h)
      /\ f.mode = "write" /\ g.mode = "write" /\ g.path = f.path /\ g.ver = f.ver
      /\ g.seen = f.seen /\ g.stale = f.stale /\ g.fed = f.fed + n /\ g.fsize = g.fptr
  BY <1>2 DEF Served, Moved, Only
<1>4. PICK m \in 0 .. n : WrittenBy(vol', g) = WrittenBy(vol, f) \o Given(f.ver, f.fed, m)
  BY <1>2 DEF Served
<1>5. made' = made /\ \A k \in Handles : k # h => fp'[k] = fp[k]
  <2>1. Inv(vol, fp)
    BY <1>1, ContentFacts
  <2> QED
    BY <1>1, <2>1, WriteKeeps
<1>6. Sized(fp')
  BY <1>1, <1>3, <1>5 DEF Sized
<1>7. /\ store.dirs = DirNames(vol) /\ store.files = [q \in Paths |-> FileAt(vol, q)]
      /\ store.hs = [k \in Handles |-> OpenAs(vol, fp[k])]
  BY <1>1, StoreIs
<1>8. /\ store'.dirs = DirNames(vol') /\ store'.files = [q \in Paths |-> FileAt(vol', q)]
      /\ store'.hs = [k \in Handles |-> OpenAs(vol', fp'[k])]
  BY <1>3, StoreIs
<1>9. store'.dirs = store.dirs /\ store'.files = store.files
  BY <1>3, <1>7, <1>8 DEF SameFiles
<1> DEFINE S == store.hs
           T == store'.hs
           z == OpenAs(vol', g)
           y == OpenAs(vol, f)
           u == Given(f.ver, f.fed, m)
<1>10. OneChanged(S, T, h, z) /\ S[h] = y
  BY <1>3, <1>7, <1>8, StoreReplaced
<1>11. Appends(y, z, u, n)
  <2>1. OpenFile(y) /\ OpenFile(z)
    BY OpenAsFile
  <2>2. /\ y = [mode |-> "write", path |-> f.path, ver |-> f.ver, fed |-> f.fed,
                data |-> WrittenBy(vol, f), pos |-> 0, len |-> 0, seen |-> f.seen, stale |-> f.stale]
        /\ z = [mode |-> "write", path |-> g.path, ver |-> g.ver, fed |-> g.fed,
                data |-> WrittenBy(vol', g), pos |-> 0, len |-> 0, seen |-> g.seen, stale |-> g.stale]
    BY <1>3 DEF OpenAs
  <2> HIDE DEF y, z, u, f, g
  <2> QED
    BY <1>3, <1>4, <2>1, <2>2 DEF Appends, u
<1> HIDE DEF z, y, u, S, T
<1>12. WrittenOn(S, T, h, u, n)
  <2>1. OneChanged(S, T, h, z) /\ Appends(S[h], z, u, n)
    BY <1>10, <1>11
  <2> QED
    BY ONLY <2>1, h \in Handles, AppendRecord
<1>13. S[h].mode = "write" /\ S[h].ver = f.ver /\ S[h].fed = f.fed
  BY <1>3, <1>10, OpenFields DEF y
<1>14. u = [i \in 1 .. m |-> Store!Unit(S[h].ver, S[h].fed + i)]
  BY <1>13 DEF u, Given, Unit, Store!Unit
<1>15. \E k \in 0 .. n :
         T = [S EXCEPT ![h].data = @ \o [i \in 1 .. k |-> Store!Unit(S[h].ver, S[h].fed + i)],
                       ![h].fed = @ + n]
  BY <1>12, <1>14 DEF WrittenOn
<1>16. Store!AppendUnits(h, n)
  BY <1>5, <1>9, <1>13, <1>15 DEF Store!AppendUnits, S, T
<1> QED
  BY <1>3, <1>6, <1>16 DEF StillStored

(* f_read gives the units of the file, or any of them if the path was      *)
(* disturbed.                                                              *)
LEMMA ReadStores ==
  ASSUME Stored, NEW h \in Handles, NEW n \in ReadSizes, Read(h, n), Shows(store', vol', fp')
  PROVE  StillStored /\ (Store!Read(h, n) \/ Store!ReadStale(h))
<1>1. Content(vol, fp) /\ Sized(fp) /\ Shows(store, vol, fp) /\ Inv(vol, fp)
  BY ContentFacts DEF Stored
<1>2. /\ Content(vol, fp') /\ Delivered(vol, fp[h], fp'[h], n)
      /\ \A k \in Handles : k # h => fp'[k] = fp[k]
  BY <1>1, ReadContent
<1>3. vol' = vol /\ made' = made
  BY DEF Read
<1> DEFINE f == fp[h]
           g == fp'[h]
<1>4. /\ f.mode = "read" /\ Like(f, g) /\ f.fptr \in Nat /\ f.fsize \in Nat
      /\ f.stale => g.fptr \in f.fptr .. f.fsize
  BY <1>2 DEF Delivered
<1>5. f.path \in Paths
  BY <1>1, <1>4 DEF Inv, Opened, Handled, Reading
<1>6. /\ g.mode = "read" /\ g.path = f.path /\ g.ver = f.ver /\ g.fed = f.fed /\ g.stale = f.stale
      /\ g.fsize = f.fsize
  BY <1>4 DEF Like
<1>7. Content(vol', fp') /\ Sized(fp')
  <2>1. Content(vol', fp')
    BY <1>2, <1>3
  <2>2. Sized(fp')
    BY <1>1, <1>2, <1>6 DEF Sized
  <2> QED
    BY <2>1, <2>2
<1>8. /\ store.dirs = DirNames(vol) /\ store.files = [q \in Paths |-> FileAt(vol, q)]
      /\ store.hs = [k \in Handles |-> OpenAs(vol, fp[k])]
  BY <1>1, StoreIs
<1>9. /\ store'.dirs = DirNames(vol') /\ store'.files = [q \in Paths |-> FileAt(vol', q)]
      /\ store'.hs = [k \in Handles |-> OpenAs(vol', fp'[k])]
  BY <1>7, StoreIs
<1>10. store'.dirs = store.dirs /\ store'.files = store.files
  BY <1>3, <1>8, <1>9
<1> DEFINE S == store.hs
           T == store'.hs
           z == OpenAs(vol', g)
           y == OpenAs(vol, f)
           k == g.fptr
           s == g.seen
<1>11. Only(vol, vol', fp, fp', h)
  BY <1>2, <1>3 DEF Only
<1>12. OneChanged(S, T, h, z) /\ S[h] = y /\ T[h] = z
  BY <1>8, <1>9, <1>11, StoreReplaced
<1>13. Delivers(y, z, k, s)
  <2>1. OpenFile(y) /\ OpenFile(z)
    BY OpenAsFile
  <2>2. /\ y = [mode |-> "read", path |-> f.path, ver |-> f.ver, fed |-> f.fed,
                data |-> <<>>, pos |-> f.fptr, len |-> f.fsize, seen |-> f.seen, stale |-> f.stale]
        /\ z = [mode |-> "read", path |-> g.path, ver |-> g.ver, fed |-> g.fed,
                data |-> <<>>, pos |-> k, len |-> g.fsize, seen |-> s, stale |-> g.stale]
    BY <1>4, <1>6 DEF OpenAs
  <2> HIDE DEF y, z, k, s, f, g
  <2> QED
    BY <1>6, <2>1, <2>2 DEF Delivers
<1>14. /\ S[h].mode = "read" /\ S[h].path = f.path /\ S[h].stale = f.stale
       /\ S[h].pos = f.fptr /\ S[h].len = f.fsize
  BY <1>4, <1>12, OpenFields
<1>15. T[h].seen = s
  BY <1>12, <1>13 DEF Delivers
<1> HIDE DEF z, y, k, s, S, T
<1>16. ReadOn(S, T, h, k, s) /\ ReadOff(S, T, h, k, s)
  <2>1. OneChanged(S, T, h, z) /\ Delivers(S[h], z, k, s)
    BY <1>12, <1>13
  <2> QED
    BY ONLY <2>1, h \in Handles, ReadRecord
<1>17. CASE f.stale
  <2>1. k \in S[h].pos .. S[h].len
    BY <1>4, <1>14, <1>17 DEF k
  <2>2. T = [S EXCEPT ![h].pos = k, ![h].seen = T[h].seen]
    BY <1>15, <1>16 DEF ReadOff
  <2>3. Store!ReadStale(h)
    BY <1>3, <1>10, <1>14, <1>17, <2>1, <2>2 DEF Store!ReadStale, S, T
  <2> QED
    BY <1>7, <2>3 DEF StillStored
<1>18. CASE ~f.stale
  <2> DEFINE m == Store!AtMost(f.fptr + n, f.fsize)
  <2>1. k = m /\ s = SubSeq(FileAt(vol, f.path), f.fptr + 1, m)
    BY <1>2, <1>18 DEF Delivered, k, s
  <2>2. store.files[S[h].path] = FileAt(vol, f.path)
    BY <1>5, <1>8, <1>14
  <2>3. T = [S EXCEPT ![h].seen = s, ![h].pos = k]
    BY <1>16 DEF ReadOn
  <2>4. m = Store!AtMost(S[h].pos + n, S[h].len)
    BY <1>14
  <2> HIDE DEF m
  <2>5. s = SubSeq(store.files[S[h].path], S[h].pos + 1, Store!AtMost(S[h].pos + n, S[h].len))
    BY <1>14, <2>1, <2>2, <2>4
  <2>6. k = Store!AtMost(S[h].pos + n, S[h].len)
    BY <2>1, <2>4
  <2>7. T = [S EXCEPT ![h].seen = SubSeq(store.files[S[h].path], S[h].pos + 1,
                                         Store!AtMost(S[h].pos + n, S[h].len)),
                      ![h].pos = Store!AtMost(@ + n, S[h].len)]
    BY ONLY <2>3, <2>5, <2>6
  <2>8. Store!Read(h, n)
    BY <1>3, <1>10, <1>14, <1>18, <2>7 DEF Store!Read, S, T
  <2> QED
    BY <1>7, <2>8 DEF StillStored
<1> QED
  BY <1>17, <1>18

(* An empty volume is an empty store.                                      *)
LEMMA InitStores ==
  ASSUME Init
  PROVE  Stored /\ Store!Init
<1>1. IInv
  BY InitInv
<1>2. /\ vol.disk = [c \in Clusters \cup {0} |->
                          IF c = 0 THEN [i \in 0 .. NRoot - 1 |-> Zero] ELSE NoUnits]
      /\ fp = [h \in Handles |-> Closed] /\ made = 0 /\ Shows(store, vol, fp)
  BY DEF Init, Shows
<1>3. vol.disk[0] = [i \in 0 .. NRoot - 1 |-> Zero]
  BY <1>2
<1>4. \A s \in DirSlots : At(vol, s) = Zero
  <2> SUFFICES ASSUME NEW i \in 0 .. NRoot - 1 PROVE At(vol, <<0, i>>) = Zero
    BY DEF DirSlots
  <2>1. At(vol, <<0, i>>) = vol.disk[0][i]
    BY DEF At
  <2>2. vol.disk[0][i] = Zero
    BY ONLY <1>3, i \in 0 .. NRoot - 1
  <2> QED
    BY <2>1, <2>2
<1>5. LiveDirs(vol) = {}
  BY <1>4, Kinds DEF LiveDirs
<1>6. LiveFiles(vol) = {} /\ \A p, x : ~InDir(vol, p, x)
  BY <1>5 DEF LiveFiles, InDir
<1>7. Named(vol)
  <2>1. Ends(vol)
    BY <1>4 DEF Ends, DirSlots
  <2> QED
    BY <1>5, <1>6, <2>1 DEF Named, DirOnce, FileOnce
<1>8. \A h \in Handles : fp[h] = Closed
  BY <1>2
<1>9. Closed.mode = "closed"
  BY ClosedFil
<1>10. Tree(vol) /\ Inv(vol, fp)
  BY <1>1, InvFacts DEF IInv
<1>11. Content(vol, fp) /\ Sized(fp)
  BY <1>6, <1>7, <1>8, <1>9, <1>10 DEF Content, Filled, Tended, Sized
<1>12. /\ store.dirs = DirNames(vol) /\ store.files = [q \in Paths |-> FileAt(vol, q)]
       /\ store.hs = [k \in Handles |-> OpenAs(vol, fp[k])]
  BY <1>2, <1>11, StoreIs
<1>13. store.dirs = {}
  BY <1>5, <1>12 DEF DirNames
<1>14. store.files = [p \in Paths |-> Store!NoFile]
  <2>1. \A p \in Paths : FileAt(vol, p) = <<[kind |-> "none"]>>
    BY <1>6, <1>7, <1>10, FileIs
  <2> QED
    BY <1>12, <2>1 DEF Store!NoFile
<1>15. store.hs = [h \in Handles |-> Store!Idle]
  BY <1>8, <1>12, ClosedIdle
<1> QED
  BY <1>1, <1>2, <1>11, <1>13, <1>14, <1>15 DEF Stored, Store!Init

(* Every call is one of the store, every stutter one of it.                *)
LEMMA NextStores ==
  ASSUME Stored, [Next]_vars
  PROVE  Stored' /\ [Store!Next]_(Store!svars)
<1>1. IInv'
  BY NextStep DEF Stored, Stepped
<1>2. CASE Next
  <2>1. Call /\ Shows(store', vol', fp')
    BY <1>2 DEF Next, Shows
  <2>2. StillStored /\ Store!Next
    <3>1. ASSUME NEW d \in Dirs, Mkdir(d) PROVE StillStored /\ Store!Next
      BY <2>1, <3>1, MkdirStores DEF Store!Next
    <3>2. ASSUME NEW d \in Dirs, Rmdir(d) PROVE StillStored /\ Store!Next
      BY <2>1, <3>2, RmdirStores DEF Store!Next
    <3>3. ASSUME NEW p \in Paths, Unlink(p) PROVE StillStored /\ Store!Next
      BY <2>1, <3>3, UnlinkStores DEF Store!Next
    <3>4. ASSUME NEW h \in Handles, NEW p \in Paths, OpenWrite(h, p) PROVE StillStored /\ Store!Next
      BY <2>1, <3>4, OpenWriteStores DEF Store!Next
    <3>5. ASSUME NEW h \in Handles, NEW p \in Paths, OpenRead(h, p) PROVE StillStored /\ Store!Next
      BY <2>1, <3>5, OpenReadStores DEF Store!Next
    <3>6. ASSUME NEW h \in Handles, NEW n \in WriteSizes, Write(h, n) PROVE StillStored /\ Store!Next
      BY <2>1, <3>6, WriteStores DEF Store!Next
    <3>7. ASSUME NEW h \in Handles, NEW n \in ReadSizes, Read(h, n) PROVE StillStored /\ Store!Next
      BY <2>1, <3>7, ReadStores DEF Store!Next
    <3>8. ASSUME NEW h \in Handles, CloseWrite(h) PROVE StillStored /\ Store!Next
      BY <2>1, <3>8, CloseWriteStores DEF Store!Next
    <3>9. ASSUME NEW h \in Handles, CloseRead(h) PROVE StillStored /\ Store!Next
      BY <2>1, <3>9, CloseReadStores DEF Store!Next
    <3> QED
      BY <2>1, <3>1, <3>2, <3>3, <3>4, <3>5, <3>6, <3>7, <3>8, <3>9 DEF Call
  <2> QED
    BY <1>1, <2>1, <2>2 DEF StillStored, Stored
<1>3. CASE UNCHANGED vars
  <2>1. vol' = vol /\ fp' = fp /\ made' = made /\ store' = store
    BY <1>3 DEF vars
  <2>2. UNCHANGED Store!svars
    BY <2>1 DEF Store!svars
  <2>3. Stored'
    BY <1>1, <2>1 DEF Stored
  <2> QED
    BY <2>2, <2>3
<1> QED
  BY <1>2, <1>3

(* The volume implements the store of files that the ramfs worker relies   *)
(* on, for any volume, any number of file objects, calls of any size and   *)
(* any sectors: each f_mkdir, f_unlink, f_open, f_write, f_read and        *)
(* f_close of ff.cpp is the operation of the store, on the files by their  *)
(* paths and with their units in the order written.                        *)
THEOREM VolumeImplements == Spec => ImplementsStore
<1>1. Init => Stored /\ Store!Init
  BY InitStores
<1>2. Stored /\ [Next]_vars => Stored' /\ [Store!Next]_(Store!svars)
  BY NextStores
<1> QED
  BY <1>1, <1>2, PTL DEF Spec, ImplementsStore, Store!Spec
=============================================================================
