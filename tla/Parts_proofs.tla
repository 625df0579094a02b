---------------------------- MODULE Parts_proofs ----------------------------
(***************************************************************************)
(* Proofs about the parts that share no state with the threads of the      *)
(* other modules, in the order of the module:                              *)
(*                                                                         *)
(* RamDisk, for any disks and any addresses malloc may return: the memory  *)
(* of ramdisk_init is given back whichever of its steps fails, the object  *)
(* that stays mounted is never a freed one, and the volume that f_mkfs     *)
(* lays out is one that ff.cpp can work with.                              *)
(*                                                                         *)
(* Sessions, for any number of threads, browsers and slots, wherever the   *)
(* clock starts again: the only ways to lose a session.                    *)
(*                                                                         *)
(* HttpExchange, for any requests and any sizes of the two buffers: what   *)
(* the peer gets for an answer.                                            *)
(***************************************************************************)
EXTENDS RamDisk, HttpExchange, Sessions, SequenceTheorems, FiniteSetTheorems, TLAPS

(* A set of naturals that is not empty has a smallest element. *)
LEMMA SmallestElement ==
  ASSUME NEW S \in SUBSET Nat, S # {}
  PROVE  \E m \in S : \A x \in S : m <= x
<1> DEFINE R == {ss \in Nat \X Nat : ss[1] < ss[2]}
<1>1. IsWellFoundedOn(R, Nat)
  BY NatLessThanWellFounded DEF OpToRel
<1>2. \A x, m \in Nat : x < m => <<x, m>> \in R
  OBVIOUS
<1> HIDE DEF R
<1>3. PICK m \in S : \A x \in S : ~(<<x, m>> \in R)
  BY <1>1, WFMin
<1>4. \A x \in S : x \in Nat /\ m \in Nat /\ ~(x < m)
  BY <1>2, <1>3
<1>5. \A x \in S : m <= x
  BY <1>4
<1> QED
  BY <1>5

(* And one with a bound has a largest: that of the smallest distance. *)
LEMMA LargestElement ==
  ASSUME NEW n \in Nat, NEW S \in SUBSET (0 .. n), S # {}
  PROVE  \E m \in S : \A x \in S : x <= m
<1> DEFINE T == {n - x : x \in S}
<1>1. \A x \in S : x \in Int /\ n - x \in Nat
  BY \A x \in S : x \in 0 .. n
<1>2. T \in SUBSET Nat /\ T # {}
  BY <1>1
<1>3. PICK k \in T : \A l \in T : k <= l
  BY <1>2, SmallestElement
<1>4. PICK m \in S : k = n - m
  OBVIOUS
<1>5. \A x \in S : n - m <= n - x
  BY <1>3, <1>4
<1> QED
  BY <1>1, <1>5

(* Min of two numbers. *)
LEMMA MinOfTwo ==
  ASSUME NEW a \in Nat, NEW b \in Nat
  PROVE  /\ Min({a, b}) \in {a, b} /\ Min({a, b}) <= a /\ Min({a, b}) <= b
         /\ Min({a, b}) \in Nat
<1>1. \E x \in {a, b} : \A y \in {a, b} : x <= y
  BY a <= b \/ b <= a
<1>2. Min({a, b}) \in {a, b} /\ \A y \in {a, b} : Min({a, b}) <= y
  BY <1>1 DEF Min
<1> QED
  BY <1>2

(* Max of two numbers. *)
LEMMA MaxOfTwo ==
  ASSUME NEW a \in Int, NEW b \in Int
  PROVE  Max({a, b}) = IF a < b THEN b ELSE a
<1>1. \E x \in {a, b} : \A y \in {a, b} : x >= y
  BY a <= b \/ b <= a
<1>2. Max({a, b}) \in {a, b} /\ \A y \in {a, b} : Max({a, b}) >= y
  BY <1>1 DEF Max
<1> QED
  BY <1>2

-----------------------------------------------------------------------------
(* RamDisk.                                                                *)

Ram == [p_fatfs : Nat, pad : Int, p_buffer : Nat, p_align : Int, h_msgq : Nat]

(* What is allocated is what the error exit would free, and m_ramfs is     *)
(* filled in the order of ramdisk_init.                                    *)
RamInv ==
  /\ m_ramfs \in Ram
  /\ heap = Freed
  /\ stage \in {"off", "object"} => m_ramfs = NoRam
  /\ stage \in {"buffer"} => m_ramfs.p_buffer = Null
  /\ stage \in {"buffer", "queue"} => m_ramfs.h_msgq = Null
  /\ stage \in {"off", "object", "buffer", "queue", "mutex"} => mounted = Null
  /\ mounted # Null => mounted = m_ramfs.p_fatfs

(* What AlignMalloc returns lies behind the start of its block, so that    *)
(* there is room for the byte before it.                                   *)
LEMMA AlignedBehind ==
  ASSUME NEW p \in Nat \ {0}
  PROVE  AlignMalloc(p, 4) \in Nat /\ AlignMalloc(p, 4) > p
<1>1. PICK q : q = (p + 3) \div 4
  OBVIOUS
<1>2. q \in Int /\ q * 4 >= p
  BY <1>1
<1>3. AlignPtr(p, 4) = q * 4
  <2>1. p + 4 - 1 = p + 3
    OBVIOUS
  <2> QED
    BY <1>1, <2>1 DEF AlignPtr
<1> QED
  BY <1>2, <1>3 DEF AlignMalloc

LEMMA NothingToFree ==
  /\ NoRam \in Ram /\ NoRam.p_fatfs = Null /\ NoRam.p_buffer = Null /\ NoRam.h_msgq = Null
  /\ m_ramfs = NoRam => Freed = {}
BY DEF NoRam, Ram, Null, Freed

LEMMA RamInit == Init => RamInv
BY NothingToFree DEF Init, RamInv, Null

(* The aligned object: what the byte before it gives back is the start of  *)
(* the block (ramdisk.cpp:87-114).                                         *)
LEMMA ObjectAllocated == ASSUME RamInv, AllocateObject PROVE RamInv'
<1>1. PICK p \in ObjectBases :
        /\ heap' = heap \cup {p}
        /\ m_ramfs' = [m_ramfs EXCEPT !.p_fatfs = AlignMalloc(p, 4),
                                      !.pad = AlignMalloc(p, 4) - p]
  BY DEF AllocateObject
<1>2. stage = "object" /\ stage' = "buffer" /\ mounted = Null /\ mounted' = Null /\ m_ramfs = NoRam
  BY DEF AllocateObject, RamInv
<1>3. p \in Nat \ {0}
  BY DiskAssumption
<1>4. PICK ptr : ptr = AlignMalloc(p, 4)
  OBVIOUS
<1>5. ptr \in Nat /\ ptr # Null /\ ptr - p \in Int /\ ptr - (ptr - p) = p
  BY <1>3, <1>4, AlignedBehind DEF Null
<1>6. heap = {} /\ NoRam \in Ram /\ NoRam.p_buffer = Null /\ NoRam.h_msgq = Null
  BY <1>2, NothingToFree DEF RamInv
<1>7. /\ m_ramfs' \in Ram /\ m_ramfs'.p_fatfs = ptr /\ m_ramfs'.pad = ptr - p
      /\ m_ramfs'.p_buffer = Null /\ m_ramfs'.h_msgq = Null
  <2>1. m_ramfs' = [NoRam EXCEPT !.p_fatfs = ptr, !.pad = ptr - p]
    BY <1>1, <1>2, <1>4
  <2> QED
    BY <1>5, <1>6, <2>1 DEF Ram
<1>8. heap' = Freed'
  BY <1>1, <1>5, <1>6, <1>7 DEF Freed, AlignFree
<1> QED
  BY <1>2, <1>7, <1>8 DEF RamInv

LEMMA BufferAllocated == ASSUME RamInv, AllocateBuffer PROVE RamInv'
<1>1. PICK p \in BufferBases :
        /\ heap' = heap \cup {p}
        /\ m_ramfs' = [m_ramfs EXCEPT !.p_buffer = p, !.p_align = AlignPtr(p, SECTOR_SIZE)]
  BY DEF AllocateBuffer
<1>2. /\ stage = "buffer" /\ stage' = "queue" /\ mounted = Null /\ mounted' = Null
      /\ m_ramfs \in Ram /\ heap = Freed /\ m_ramfs.p_buffer = Null /\ m_ramfs.h_msgq = Null
  BY DEF AllocateBuffer, RamInv
<1>3. p \in Nat /\ p # Null
  BY DiskAssumption DEF Null
<1>4. PICK a : a = AlignPtr(p, SECTOR_SIZE)
  OBVIOUS
<1>5. a \in Int
  BY <1>3, <1>4 DEF AlignPtr, SECTOR_SIZE
<1>6. /\ m_ramfs' \in Ram /\ m_ramfs'.p_fatfs = m_ramfs.p_fatfs /\ m_ramfs'.pad = m_ramfs.pad
      /\ m_ramfs'.p_buffer = p /\ m_ramfs'.h_msgq = Null
  <2>1. m_ramfs' = [m_ramfs EXCEPT !.p_buffer = p, !.p_align = a]
    BY <1>1, <1>4
  <2> QED
    BY <1>2, <1>3, <1>5, <2>1 DEF Ram
<1>7. heap' = Freed'
  BY <1>1, <1>2, <1>3, <1>6 DEF Freed
<1> QED
  BY <1>2, <1>6, <1>7 DEF RamInv

LEMMA QueueCreated == ASSUME RamInv, CreateQueue PROVE RamInv'
<1>1. PICK p \in QueueBases :
        heap' = heap \cup {p} /\ m_ramfs' = [m_ramfs EXCEPT !.h_msgq = p]
  BY DEF CreateQueue
<1>2. /\ stage = "queue" /\ stage' = "mutex" /\ mounted = Null /\ mounted' = Null
      /\ m_ramfs \in Ram /\ heap = Freed /\ m_ramfs.h_msgq = Null
  BY DEF CreateQueue, RamInv
<1>3. p \in Nat /\ p # Null
  BY DiskAssumption DEF Null
<1>4. /\ m_ramfs' \in Ram /\ m_ramfs'.p_fatfs = m_ramfs.p_fatfs /\ m_ramfs'.pad = m_ramfs.pad
      /\ m_ramfs'.p_buffer = m_ramfs.p_buffer /\ m_ramfs'.h_msgq = p
  BY <1>1, <1>2, <1>3 DEF Ram
<1>5. heap' = Freed'
  BY <1>1, <1>2, <1>3, <1>4 DEF Freed
<1> QED
  BY <1>2, <1>4, <1>5 DEF RamInv

(* Everything is given back at once.                                       *)
LEMMA Released == ASSUME RamInv, Release PROVE RamInv'
<1>1. heap' = {} /\ mounted' = Null /\ m_ramfs' = NoRam /\ stage' = "off"
  BY DEF Release, RamInv
<1>2. Freed' = {}
  BY <1>1, NothingToFree DEF Freed
<1> QED
  BY <1>1, <1>2, NothingToFree DEF RamInv

LEMMA RamNext == ASSUME RamInv, [Next]_vars PROVE RamInv'
<1>1. CASE Begin
  <2>1. stage = "off" /\ stage' = "object" /\ m_ramfs' = NoRam /\ m_ramfs = NoRam
        /\ UNCHANGED <<heap, mounted>> /\ mounted = Null
    BY <1>1 DEF Begin, RamInv
  <2>2. UNCHANGED Freed
    BY <2>1 DEF Freed
  <2> QED
    BY <2>1, <2>2 DEF RamInv
<1>2. CASE AllocateObject \/ AllocateBuffer \/ CreateQueue
  BY <1>2, ObjectAllocated, BufferAllocated, QueueCreated
<1>3. CASE Mount \/ Refused \/ Mkfs \/ ChkMounted \/ UNCHANGED vars
  <2>1. UNCHANGED <<heap, m_ramfs>> /\ UNCHANGED Freed
    BY <1>3 DEF Mount, Refused, Mkfs, ChkMounted, vars, Freed
  <2>2. CASE Mount
    BY <2>1, <2>2 DEF Mount, RamInv
  <2>3. CASE Refused
    BY <2>1, <2>3 DEF Refused, RamInv
  <2>4. CASE Mkfs
    <3>1. stage = "mkfs" /\ stage' \in {"on", "oom"} /\ UNCHANGED mounted
      BY <2>4 DEF Mkfs
    <3> QED
      BY <2>1, <3>1 DEF RamInv
  <2>5. CASE ChkMounted \/ UNCHANGED vars
    <3>1. UNCHANGED <<stage, mounted>>
      BY <2>5 DEF ChkMounted, vars
    <3> QED
      BY <2>1, <3>1 DEF RamInv
  <2> QED
    BY <1>3, <2>2, <2>3, <2>4, <2>5
<1>4. CASE Oom \/ Destroy
  BY <1>4, Released DEF Oom, Destroy
<1> QED
  BY <1>1, <1>2, <1>3, <1>4 DEF Next

(* What is allocated is what the error exit frees, after every step.       *)
THEOREM RamInductive == Spec => []RamInv
<1>1. RamInv /\ [Next]_vars => RamInv'
  BY RamNext
<1> QED
  BY <1>1, RamInit, PTL DEF Spec

(* Whichever step of ramdisk_init is refused, and after ramdisk_destory,   *)
(* nothing stays allocated and no freed object stays mounted               *)
(* (ramdisk.cpp:229-257, 259-300).                                         *)
THEOREM DiskGivenBack == Spec => []NothingLeft
<1>1. RamInv => NothingLeft
  <2>1. ASSUME RamInv, stage = "off" PROVE heap = {} /\ mounted = Null
    BY <2>1, NothingToFree DEF RamInv
  <2> QED
    BY <2>1 DEF RamInv, NothingLeft
<1> QED
  BY <1>1, RamInductive, PTL

-----------------------------------------------------------------------------
(* The layout f_mkfs computes, and what chk_mounted makes of it.           *)

(* The allocation units f_mkfs accepts, in bytes, and what becomes of them *)
(* in sectors.                                                             *)
Powers == {0, 1, 2, 4, 8, 16, 32, 64, 128, 256, 512, 1024, 2048, 4096,
           8192, 16384, 32768, 65536, 131072, 262144, 524288, 1048576,
           2097152, 4194304, 8388608, 16777216, 33554432, 67108864,
           134217728, 268435456, 536870912, 1073741824}

ClusterSizes == {1, 2, 4, 8, 16, 32, 64, 128}

LEMMA PowersOfTwo ==
  ASSUME NEW n, PowerOf2(n)
  PROVE  n \in Powers
<1>1. PICK pow : pow = [k \in 0 .. 30 |-> 2 ^ k]
  OBVIOUS
<1>2. /\ 2 ^ 0 = 1 /\ 2 ^ 1 = 2 /\ 2 ^ 2 = 4 /\ 2 ^ 3 = 8
      /\ 2 ^ 4 = 16 /\ 2 ^ 5 = 32 /\ 2 ^ 6 = 64 /\ 2 ^ 7 = 128
  OBVIOUS
<1>3. /\ 2 ^ 8 = 256 /\ 2 ^ 9 = 512 /\ 2 ^ 10 = 1024 /\ 2 ^ 11 = 2048
      /\ 2 ^ 12 = 4096 /\ 2 ^ 13 = 8192 /\ 2 ^ 14 = 16384 /\ 2 ^ 15 = 32768
  OBVIOUS
<1>4. /\ 2 ^ 16 = 65536 /\ 2 ^ 17 = 131072 /\ 2 ^ 18 = 262144 /\ 2 ^ 19 = 524288
      /\ 2 ^ 20 = 1048576 /\ 2 ^ 21 = 2097152 /\ 2 ^ 22 = 4194304 /\ 2 ^ 23 = 8388608
  OBVIOUS
<1>5. /\ 2 ^ 24 = 16777216 /\ 2 ^ 25 = 33554432 /\ 2 ^ 26 = 67108864 /\ 2 ^ 27 = 134217728
      /\ 2 ^ 28 = 268435456 /\ 2 ^ 29 = 536870912 /\ 2 ^ 30 = 1073741824
  OBVIOUS
<1>6. /\ pow[0] = 1 /\ pow[1] = 2 /\ pow[2] = 4 /\ pow[3] = 8
      /\ pow[4] = 16 /\ pow[5] = 32 /\ pow[6] = 64 /\ pow[7] = 128
  BY <1>1, <1>2
<1>7. /\ pow[8] = 256 /\ pow[9] = 512 /\ pow[10] = 1024 /\ pow[11] = 2048
      /\ pow[12] = 4096 /\ pow[13] = 8192 /\ pow[14] = 16384 /\ pow[15] = 32768
  BY <1>1, <1>3
<1>8. /\ pow[16] = 65536 /\ pow[17] = 131072 /\ pow[18] = 262144 /\ pow[19] = 524288
      /\ pow[20] = 1048576 /\ pow[21] = 2097152 /\ pow[22] = 4194304 /\ pow[23] = 8388608
  BY <1>1, <1>4
<1>9. /\ pow[24] = 16777216 /\ pow[25] = 33554432 /\ pow[26] = 67108864 /\ pow[27] = 134217728
      /\ pow[28] = 268435456 /\ pow[29] = 536870912 /\ pow[30] = 1073741824
  BY <1>1, <1>5
<1>10. \A k \in 0 .. 7 : pow[k] \in Powers
  BY <1>6 DEF Powers
<1>11. \A k \in 8 .. 15 : pow[k] \in Powers
  BY <1>7 DEF Powers
<1>12. \A k \in 16 .. 23 : pow[k] \in Powers
  BY <1>8 DEF Powers
<1>13. \A k \in 24 .. 30 : pow[k] \in Powers
  BY <1>9 DEF Powers
<1>14. \A k \in 0 .. 30 : pow[k] \in Powers
  BY <1>10, <1>11, <1>12, <1>13
<1>15. n = 0 \/ \E k \in 0 .. 30 : n = pow[k]
  BY <1>1 DEF PowerOf2
<1> QED
  BY <1>14, <1>15 DEF Powers

LEMMA SizesArePowers == ASSUME NEW n \in ClusterSizes PROVE PowerOf2(n)
<1>1. 2 ^ 0 = 1
  OBVIOUS
<1>2. 2 ^ 1 = 2
  OBVIOUS
<1>3. 2 ^ 2 = 4
  OBVIOUS
<1>4. 2 ^ 3 = 8
  OBVIOUS
<1>5. 2 ^ 4 = 16
  OBVIOUS
<1>6. 2 ^ 5 = 32
  OBVIOUS
<1>7. 2 ^ 6 = 64
  OBVIOUS
<1>8. 2 ^ 7 = 128
  OBVIOUS
<1>9. \E k \in 0 .. 30 : n = 2 ^ k
  BY <1>1, <1>2, <1>3, <1>4, <1>5, <1>6, <1>7, <1>8 DEF ClusterSizes
<1> QED
  BY <1>9 DEF PowerOf2

LEMMA UnitInSectors ==
  ASSUME NEW u \in Powers
  PROVE  u \div SECTOR_SIZE \in Nat /\ (u \div SECTOR_SIZE) \in Powers
<1>1. CASE u \in {0, 1, 2, 4, 8, 16, 32, 64, 128, 256}
  <2>1. u \div 512 = 0
    BY <1>1
  <2> QED
    BY <2>1 DEF SECTOR_SIZE, Powers
<1>2. CASE u \in {512, 1024, 2048, 4096, 8192, 16384, 32768, 65536, 131072, 262144}
  <2>1. u \div 512 \in {1, 2, 4, 8, 16, 32, 64, 128, 256, 512}
    BY <1>2
  <2> QED
    BY <2>1 DEF SECTOR_SIZE, Powers
<1>3. CASE u \in {524288, 1048576, 2097152, 4194304, 8388608, 16777216, 33554432,
                  67108864, 134217728, 268435456, 536870912, 1073741824}
  <2>1. u \div 512 \in {1024, 2048, 4096, 8192, 16384, 32768, 65536, 131072, 262144, 524288,
                        1048576, 2097152}
    BY <1>3
  <2> QED
    BY <2>1 DEF SECTOR_SIZE, Powers
<1> QED
  BY <1>1, <1>2, <1>3 DEF Powers

LEMMA AutoUnitPower ==
  ASSUME NEW vs \in Nat
  PROVE  AutoUnit(vs) \in Powers
<1>1. PICK vst : vst = <<1024, 512, 256, 128, 64, 32, 16, 8, 4, 2, 0>>
  OBVIOUS
<1> DEFINE cst == <<32768, 16384, 8192, 4096, 2048, 16384, 8192, 4096, 2048, 1024, 512>>
<1>2. \A i \in 1 .. 11 : cst[i] \in {512, 1024, 2048, 4096, 8192, 16384, 32768}
  OBVIOUS
<1>3. PICK S : S = {i \in 1 .. 11 : vs >= vst[i]}
  OBVIOUS
<1>4. AutoUnit(vs) = cst[Min(S)]
  BY <1>1, <1>3 DEF AutoUnit
<1> HIDE DEF cst
<1>5. 11 \in S
  BY <1>1, <1>3
<1>6. S \in SUBSET Nat
  BY <1>3
<1>7. \E m \in S : \A x \in S : m <= x
  BY <1>5, <1>6, SmallestElement
<1>8. Min(S) \in S
  BY <1>7 DEF Min
<1>9. PICK m \in 1 .. 11 : m = Min(S)
  BY <1>3, <1>8
<1>10. cst[m] \in {512, 1024, 2048, 4096, 8192, 16384, 32768}
  BY <1>2, <1>9
<1> QED
  BY <1>4, <1>9, <1>10 DEF Powers

LEMMA UnitSizes ==
  ASSUME NEW n_vol \in Nat, NEW au, PowerOf2(au)
  PROVE  SectorsPerCluster(n_vol, au) \in ClusterSizes
<1>1. PICK u : u = IF au = 0 THEN AutoUnit(n_vol \div 2000) ELSE au
  OBVIOUS
<1>2. u \in Powers
  <2>1. n_vol \div 2000 \in Nat
    OBVIOUS
  <2> QED
    BY <1>1, <2>1, AutoUnitPower, PowersOfTwo
<1>3. PICK s : s = u \div SECTOR_SIZE
  OBVIOUS
<1>4. s \in Nat /\ s \in Powers
  BY <1>2, <1>3, UnitInSectors
<1>5. PICK t : t = Max({1, s})
  OBVIOUS
<1>6. t = IF 1 < s THEN s ELSE 1
  BY <1>4, <1>5, MaxOfTwo
<1>7. t \in Nat /\ t \in Powers /\ t # 0
  BY <1>4, <1>6 DEF Powers
<1>8. Min({128, t}) \in {128, t} /\ Min({128, t}) <= 128
  BY <1>7, MinOfTwo
<1>9. Min({128, t}) \in ClusterSizes
  BY <1>7, <1>8 DEF Powers, ClusterSizes
<1> QED
  BY <1>1, <1>3, <1>5, <1>9 DEF SectorsPerCluster

(* As many clusters of size csize as fit.                                  *)
LEMMA LayoutFits ==
  ASSUME NEW csize \in ClusterSizes, NEW a \in Nat, NEW b \in Nat, a <= b
  PROVE  /\ a \div csize \in Nat /\ b \div csize \in Nat /\ a \div csize <= b \div csize
         /\ a >= csize => a \div csize >= 1
         /\ (a \div csize - 1) * csize + csize <= a
<1>1. ASSUME NEW k \in ClusterSizes,
             \/ k = 1 \/ k = 2 \/ k = 4 \/ k = 8
             \/ k = 16 \/ k = 32 \/ k = 64 \/ k = 128,
             csize = k
      PROVE  /\ a \div csize \in Nat /\ b \div csize \in Nat /\ a \div csize <= b \div csize
             /\ a >= csize => a \div csize >= 1
             /\ (a \div csize - 1) * csize + csize <= a
  <2>1. CASE k = 1
    BY <1>1, <2>1
  <2>2. CASE k = 2
    BY <1>1, <2>2
  <2>3. CASE k = 4
    BY <1>1, <2>3
  <2>4. CASE k = 8
    BY <1>1, <2>4
  <2>5. CASE k = 16
    BY <1>1, <2>5
  <2>6. CASE k = 32
    BY <1>1, <2>6
  <2>7. CASE k = 64
    BY <1>1, <2>7
  <2>8. CASE k = 128
    BY <1>1, <2>8
  <2> QED
    BY <1>1, <2>1, <2>2, <2>3, <2>4, <2>5, <2>6, <2>7, <2>8
<1>2. \/ csize = 1 \/ csize = 2 \/ csize = 4 \/ csize = 8
      \/ csize = 16 \/ csize = 32 \/ csize = 64 \/ csize = 128
  BY DEF ClusterSizes
<1> QED
  BY <1>1, <1>2

(* A table of n bytes needs as many sectors.                               *)
LEMMA Sectors ==
  ASSUME NEW n \in Nat
  PROVE  SectorsOf(n) \in Nat /\ n <= SectorsOf(n) * SECTOR_SIZE
         /\ (n > 0 => SectorsOf(n) > 0)
BY DEF SectorsOf, SECTOR_SIZE

(* A larger table needs no fewer.                                         *)
LEMMA MoreSectors ==
  ASSUME NEW m \in Nat, NEW n \in Nat, m <= n
  PROVE  SectorsOf(m) <= SectorsOf(n)
BY DEF SectorsOf, SECTOR_SIZE

(* Bytes of a FAT for c clusters and the two entries before them.          *)
LEMMA TableBytes ==
  ASSUME NEW c \in Nat, NEW fmt \in {"FAT12", "FAT16", "FAT32"}
  PROVE  /\ FatBytes(fmt, c + 2) = IF fmt = "FAT32" THEN c * 4 + 8
                                   ELSE IF fmt = "FAT16" THEN c * 2 + 4
                                   ELSE (c * 3 + 1) \div 2 + 3
         /\ FatBytes(fmt, c + 2) \in Nat /\ FatBytes(fmt, c + 2) > 0
         /\ \A d \in Nat : d <= c => FatBytes(fmt, d + 2) <= FatBytes(fmt, c + 2)
<1>1. ASSUME NEW d \in Nat
      PROVE  FatBytes(fmt, d + 2) = IF fmt = "FAT32" THEN d * 4 + 8
                                    ELSE IF fmt = "FAT16" THEN d * 2 + 4
                                    ELSE (d * 3 + 1) \div 2 + 3
  <2>1. CASE fmt = "FAT32"
    BY <2>1 DEF FatBytes
  <2>2. CASE fmt = "FAT16"
    BY <2>2 DEF FatBytes
  <2>3. CASE fmt = "FAT12"
    <3>1. FatBytes(fmt, d + 2) = ((d + 2) * 3) \div 2 + ((d + 2) % 2)
      BY <2>3 DEF FatBytes
    <3>2. ((d + 2) * 3) \div 2 + ((d + 2) % 2) = (d * 3 + 1) \div 2 + 3
      OBVIOUS
    <3> QED
      BY <2>3, <3>1, <3>2
  <2> QED
    BY <2>1, <2>2, <2>3
<1>2. FatBytes(fmt, c + 2) \in Nat /\ FatBytes(fmt, c + 2) > 0
  BY <1>1
<1>3. ASSUME NEW d \in Nat, d <= c PROVE FatBytes(fmt, d + 2) <= FatBytes(fmt, c + 2)
  BY <1>1, <1>3
<1> QED
  BY <1>1, <1>2, <1>3

LEMMA Types12 ==
  ASSUME NEW n \in Nat
  PROVE  FatType(n) \in {"FAT12", "FAT16", "FAT32"}
BY DEF FatType

(* What f_mkfs plans.                                                      *)
LEMMA Planned ==
  ASSUME NEW n_vol \in Nat, NEW csize \in ClusterSizes, NEW p, p = Plan(n_vol, csize),
         NEW c, c = n_vol \div csize
  PROVE  /\ c \in Nat /\ p.fmt = FatType(c) /\ p.fmt \in {"FAT12", "FAT16", "FAT32"}
         /\ p.n_fat = SectorsOf(FatBytes(p.fmt, c + 2))
         /\ p.n_fat \in Nat /\ p.n_fat > 0 /\ (p.fmt # "FAT32" => p.n_fat < 65536)
         /\ p.n_rsv = IF p.fmt = "FAT32" THEN 32 ELSE 1
         /\ p.n_dir = IF p.fmt = "FAT32" THEN 0 ELSE 32
         /\ p.system = p.n_rsv + p.n_fat + p.n_dir /\ p.system \in Nat
<1>1. c \in Nat
  BY LayoutFits
<1>2. PICK fmt : fmt = FatType(c)
  OBVIOUS
<1>3. fmt \in {"FAT12", "FAT16", "FAT32"}
  BY <1>1, <1>2, Types12
<1>4. PICK n_fat : n_fat = SectorsOf(CASE fmt = "FAT32" -> c * 4 + 8
                                       [] fmt = "FAT16" -> c * 2 + 4
                                       [] fmt = "FAT12" -> (c * 3 + 1) \div 2 + 3)
  OBVIOUS
<1>5. n_fat = SectorsOf(FatBytes(fmt, c + 2))
  BY <1>1, <1>3, <1>4, TableBytes
<1>6. n_fat \in Nat /\ n_fat > 0
  BY <1>1, <1>3, <1>5, TableBytes, Sectors
<1>7. fmt # "FAT32" => n_fat < 65536
  <2>1. SUFFICES ASSUME fmt # "FAT32" PROVE n_fat < 65536
    OBVIOUS
  <2>2. c < 65526
    BY <1>1, <1>2, <2>1 DEF FatType, MIN_FAT32
  <2>3. FatBytes(fmt, c + 2) < 200000 /\ FatBytes(fmt, c + 2) \in Nat
    BY <1>1, <1>3, <2>1, <2>2, TableBytes
  <2> QED
    BY <1>5, <2>3 DEF SectorsOf, SECTOR_SIZE
<1>8. N_FATS = 1 /\ N_ROOTDIR \div PerSector = 32
  BY DEF N_FATS, N_ROOTDIR, PerSector, SECTOR_SIZE
<1>9. PICK n_rsv : n_rsv = IF fmt = "FAT32" THEN 32 ELSE 1
  OBVIOUS
<1>10. PICK n_dir : n_dir = IF fmt = "FAT32" THEN 0 ELSE 32
  OBVIOUS
<1>11. p = [fmt |-> fmt, n_rsv |-> n_rsv, n_fat |-> n_fat, n_dir |-> n_dir,
            system |-> n_rsv + n_fat * N_FATS + n_dir]
  BY <1>2, <1>4, <1>8, <1>9, <1>10 DEF Plan
<1>12. n_fat * N_FATS = n_fat
  BY <1>6, <1>8
<1> QED
  BY <1>1, <1>2, <1>3, <1>5, <1>6, <1>7, <1>9, <1>10, <1>11, <1>12

(* What chk_mounted finds in the boot record.                              *)
LEMMA Recorded ==
  ASSUME NEW n_vol \in Nat, n_vol > 0, NEW csize \in ClusterSizes,
         NEW p, p = Plan(n_vol, csize), NEW b, b = BootRecord(n_vol, csize)
  PROVE  /\ b.fmt = p.fmt /\ b.SecPerClus = csize /\ b.RsvdSecCnt = p.n_rsv /\ b.NumFATs = 1
         /\ b.RootEntCnt = IF p.fmt = "FAT32" THEN 0 ELSE 512
         /\ (IF b.TotSec16 # 0 THEN b.TotSec16 ELSE b.TotSec32) = n_vol
         /\ (IF b.FATSz16 # 0 THEN b.FATSz16 ELSE b.FATSz32) = p.n_fat
         /\ b.RootClus = IF p.fmt = "FAT32" THEN 2 ELSE 0
         /\ b.RootEntCnt \div PerSector = p.n_dir /\ b.RootEntCnt % PerSector = 0
<1>1. PICK c : c = n_vol \div csize
  OBVIOUS
<1>2. /\ p.fmt \in {"FAT12", "FAT16", "FAT32"} /\ p.n_fat \in Nat /\ p.n_fat > 0
      /\ p.fmt # "FAT32" => p.n_fat < 65536
      /\ p.n_rsv = IF p.fmt = "FAT32" THEN 32 ELSE 1
      /\ p.n_dir = IF p.fmt = "FAT32" THEN 0 ELSE 32
  BY <1>1, Planned
<1>3. csize % 256 = csize
  BY DEF ClusterSizes
<1>4. p.n_rsv % 65536 = p.n_rsv
  BY <1>2
<1>5. p.fmt # "FAT32" => p.n_fat % 65536 = p.n_fat
  BY <1>2
<1>6. /\ b.fmt = p.fmt /\ b.SecPerClus = csize % 256 /\ b.RsvdSecCnt = p.n_rsv % 65536
      /\ b.NumFATs = N_FATS /\ b.RootEntCnt = IF p.fmt = "FAT32" THEN 0 ELSE N_ROOTDIR
      /\ b.TotSec16 = (IF n_vol < 65536 THEN n_vol ELSE 0)
      /\ b.TotSec32 = (IF n_vol < 65536 THEN 0 ELSE n_vol)
      /\ b.FATSz16 = (IF p.fmt = "FAT32" THEN 0 ELSE p.n_fat % 65536)
      /\ b.FATSz32 = (IF p.fmt = "FAT32" THEN p.n_fat ELSE 0)
      /\ b.RootClus = IF p.fmt = "FAT32" THEN 2 ELSE 0
  BY DEF BootRecord
<1>7. N_FATS = 1 /\ N_ROOTDIR = 512 /\ PerSector = 16
  BY DEF N_FATS, N_ROOTDIR, PerSector, SECTOR_SIZE
<1>8. (IF b.TotSec16 # 0 THEN b.TotSec16 ELSE b.TotSec32) = n_vol
  BY <1>6
<1>9. (IF b.FATSz16 # 0 THEN b.FATSz16 ELSE b.FATSz32) = p.n_fat
  <2>1. CASE p.fmt = "FAT32"
    BY <1>6, <2>1
  <2>2. CASE p.fmt # "FAT32"
    BY <1>2, <1>5, <1>6, <2>2
  <2> QED
    BY <2>1, <2>2
<1>10. b.RootEntCnt \div PerSector = p.n_dir /\ b.RootEntCnt % PerSector = 0
  <2>1. CASE p.fmt = "FAT32"
    BY <1>2, <1>6, <1>7, <2>1
  <2>2. CASE p.fmt # "FAT32"
    BY <1>2, <1>6, <1>7, <2>2
  <2> QED
    BY <2>1, <2>2
<1> QED
  BY <1>3, <1>4, <1>6, <1>7, <1>8, <1>9, <1>10

(* The volume is mounted as what f_mkfs made it.                           *)
LEMMA MountedAsMade ==
  ASSUME NEW n_vol \in Nat, n_vol > 0, NEW csize \in ClusterSizes, ~TooSmall(n_vol, csize),
         NEW p, p = Plan(n_vol, csize), NEW n, n = (n_vol - p.system) \div csize
  PROVE  /\ n \in Nat /\ n >= 1 /\ n <= n_vol \div csize /\ n_vol >= p.system
         /\ (n - 1) * csize + csize <= n_vol - p.system
         /\ Mounted(BootRecord(n_vol, csize)) =
              [fs_type   |-> p.fmt,
               csize     |-> csize,
               n_fatent  |-> n + 2,
               n_rootdir |-> IF p.fmt = "FAT32" THEN 0 ELSE 512,
               fsize     |-> p.n_fat,
               fatbase   |-> B_VOL + p.n_rsv,
               dirbase   |-> IF p.fmt = "FAT32" THEN 2 ELSE B_VOL + p.n_rsv + p.n_fat,
               database  |-> B_VOL + p.system,
               last_clust |-> IF p.fmt = "FAT32" THEN 2 ELSE 0]
<1>1. PICK c : c = n_vol \div csize
  OBVIOUS
<1>2. /\ c \in Nat /\ p.fmt = FatType(c) /\ p.fmt \in {"FAT12", "FAT16", "FAT32"}
      /\ p.n_fat = SectorsOf(FatBytes(p.fmt, c + 2))
      /\ p.n_fat \in Nat /\ p.n_fat > 0
      /\ p.n_rsv = IF p.fmt = "FAT32" THEN 32 ELSE 1
      /\ p.n_dir = IF p.fmt = "FAT32" THEN 0 ELSE 32
      /\ p.system = p.n_rsv + p.n_fat + p.n_dir /\ p.system \in Nat
  BY <1>1, Planned
<1>3. csize \in Nat /\ csize > 0
  BY DEF ClusterSizes
<1>4. /\ n_vol >= p.system + csize
      /\ p.fmt = "FAT16" => n >= MIN_FAT16
      /\ p.fmt = "FAT32" => n >= MIN_FAT32
  <2>1. /\ ~(n_vol < p.system + csize)
        /\ ~(p.fmt = "FAT16" /\ n < MIN_FAT16)
        /\ ~(p.fmt = "FAT32" /\ n < MIN_FAT32)
    BY DEF TooSmall
  <2>2. n \in Int
    <3>1. n_vol - p.system \in Nat /\ n_vol - p.system <= n_vol
      BY <1>2, <1>3, <2>1
    <3> QED
      BY <3>1, LayoutFits
  <2> QED
    BY <1>2, <1>3, <2>1, <2>2 DEF MIN_FAT16, MIN_FAT32
<1>5. n_vol - p.system \in Nat /\ n_vol - p.system <= n_vol /\ n_vol - p.system >= csize
      /\ n_vol >= p.system
  BY <1>2, <1>3, <1>4
<1>6. n \in Nat /\ n >= 1 /\ n <= c /\ (n - 1) * csize + csize <= n_vol - p.system
  BY <1>1, <1>5, LayoutFits
<1>7. FatType(n) = p.fmt
  BY <1>2, <1>4, <1>6 DEF FatType, MIN_FAT16, MIN_FAT32
<1>8. p.n_fat >= SectorsOf(FatBytes(p.fmt, n + 2))
  <2>1. /\ FatBytes(p.fmt, n + 2) \in Nat /\ FatBytes(p.fmt, c + 2) \in Nat
        /\ FatBytes(p.fmt, n + 2) <= FatBytes(p.fmt, c + 2)
    BY <1>2, <1>6, TableBytes
  <2>2. /\ SectorsOf(FatBytes(p.fmt, n + 2)) <= SectorsOf(FatBytes(p.fmt, c + 2))
        /\ SectorsOf(FatBytes(p.fmt, n + 2)) \in Nat
    <3>1. PICK x, y : x = FatBytes(p.fmt, n + 2) /\ y = FatBytes(p.fmt, c + 2)
      OBVIOUS
    <3>2. x \in Nat /\ y \in Nat /\ x <= y
      BY <2>1, <3>1
    <3>3. SectorsOf(x) \in Nat
      BY <3>2, Sectors
    <3>5. SectorsOf(x) <= SectorsOf(y)
      BY <3>2, MoreSectors
    <3> QED
      BY <3>1, <3>3, <3>5
  <2> QED
    BY <1>2, <2>2
<1>9. PICK b : b = BootRecord(n_vol, csize)
  OBVIOUS
<1>10. /\ b.fmt = p.fmt /\ b.SecPerClus = csize /\ b.RsvdSecCnt = p.n_rsv /\ b.NumFATs = 1
       /\ b.RootEntCnt = IF p.fmt = "FAT32" THEN 0 ELSE 512
       /\ (IF b.TotSec16 # 0 THEN b.TotSec16 ELSE b.TotSec32) = n_vol
       /\ (IF b.FATSz16 # 0 THEN b.FATSz16 ELSE b.FATSz32) = p.n_fat
       /\ b.RootClus = IF p.fmt = "FAT32" THEN 2 ELSE 0
       /\ b.RootEntCnt \div PerSector = p.n_dir /\ b.RootEntCnt % PerSector = 0
  BY <1>9, Recorded
<1>11. p.n_fat * b.NumFATs = p.n_fat
  BY <1>2, <1>10
<1>12. SystemSectors(b, p.n_fat) = p.system
  BY <1>2, <1>10 DEF SystemSectors
<1>13. PICK nclst : nclst = (n_vol - p.system) \div b.SecPerClus
  OBVIOUS
<1>14. nclst = n
  BY <1>10, <1>13
<1>15. PICK valid : valid <=>
         /\ b.NumFATs \in {1, 2}
         /\ b.SecPerClus # 0 /\ PowerOf2(b.SecPerClus)
         /\ b.RootEntCnt % PerSector = 0
         /\ b.RsvdSecCnt # 0
         /\ n_vol >= p.system
         /\ nclst # 0
         /\ FatType(nclst) = "FAT32" <=> b.RootEntCnt = 0
         /\ p.n_fat >= SectorsOf(FatBytes(FatType(nclst), nclst + 2))
  OBVIOUS
<1>16. valid
  <2>1. PowerOf2(b.SecPerClus)
    BY <1>10, SizesArePowers
  <2>2. b.RsvdSecCnt # 0
    BY <1>2, <1>10
  <2>3. FatType(nclst) = "FAT32" <=> b.RootEntCnt = 0
    BY <1>7, <1>10, <1>14
  <2>4. p.n_fat >= SectorsOf(FatBytes(FatType(nclst), nclst + 2))
    BY <1>7, <1>8, <1>14
  <2> QED
    BY <1>3, <1>5, <1>6, <1>10, <1>14, <1>15, <2>1, <2>2, <2>3, <2>4
<1>17. b.fmt # "none"
  BY <1>2, <1>10
<1>18. Mounted(b) =
         IF b.fmt = "none" \/ ~valid THEN Unmounted
         ELSE [fs_type   |-> FatType(nclst),
               csize     |-> b.SecPerClus,
               n_fatent  |-> nclst + 2,
               n_rootdir |-> b.RootEntCnt,
               fsize     |-> p.n_fat,
               fatbase   |-> B_VOL + b.RsvdSecCnt,
               dirbase   |-> IF FatType(nclst) = "FAT32" THEN b.RootClus
                             ELSE B_VOL + b.RsvdSecCnt + p.n_fat,
               database  |-> B_VOL + p.system,
               last_clust |-> IF FatType(nclst) = "FAT32" THEN 2 ELSE 0]
  BY <1>10, <1>11, <1>12, <1>13, <1>15 DEF Mounted
<1>19. Mounted(b) =
         [fs_type   |-> p.fmt,
          csize     |-> csize,
          n_fatent  |-> n + 2,
          n_rootdir |-> IF p.fmt = "FAT32" THEN 0 ELSE 512,
          fsize     |-> p.n_fat,
          fatbase   |-> B_VOL + p.n_rsv,
          dirbase   |-> IF p.fmt = "FAT32" THEN 2 ELSE B_VOL + p.n_rsv + p.n_fat,
          database  |-> B_VOL + p.system,
          last_clust |-> IF p.fmt = "FAT32" THEN 2 ELSE 0]
  BY <1>7, <1>10, <1>14, <1>16, <1>17, <1>18
<1> QED
  BY <1>1, <1>5, <1>6, <1>9, <1>19

-----------------------------------------------------------------------------
(* The sectors of the volume and of one of its clusters.                   *)
Volume == disk.sectors - B_VOL

Csize == SectorsPerCluster(Volume, disk.au)

(* What f_mkfs has checked when it returns FR_OK.                          *)
Made ==
  /\ PowerOf2(disk.au) /\ disk.sectors >= 128 /\ ~TooSmall(Volume, Csize)
  /\ boot = BootRecord(Volume, Csize)

DiskInv ==
  /\ RamInv
  /\ disk \in [sectors : Disks, au : Units]
  /\ m_ramfs.p_align = Null \/ m_ramfs.p_align = AlignPtr(m_ramfs.p_buffer, SECTOR_SIZE)
  /\ stage # "on" => fs = Unmounted
  /\ stage = "on" => mounted # Null /\ Made /\ fs \in {Unmounted, Mounted(boot)}
  /\ result # "NO_FILESYSTEM"

(* Such a volume is laid out as ff.cpp needs it.                           *)
LEMMA MadeSound ==
  ASSUME disk \in [sectors : Disks, au : Units], Made, fs = Mounted(boot)
  PROVE  /\ fs.fs_type # "none" /\ fs.fs_type = boot.fmt /\ fs.csize = Csize
         /\ FatBytes(fs.fs_type, fs.n_fatent) <= fs.fsize * SECTOR_SIZE
         /\ LET root == IF fs.fs_type = "FAT32" THEN fs.database ELSE fs.dirbase
            IN  /\ B_VOL < fs.fatbase
                /\ fs.fatbase + fs.fsize <= root
                /\ root + fs.n_rootdir \div PerSector <= fs.database
         /\ fs.fs_type = "FAT32" => fs.dirbase \in 2 .. fs.n_fatent - 1
         /\ OnDisk(Clust2Sect(fs.n_fatent - 1) + fs.csize - 1)
<1>1. PICK n_vol, csize : n_vol = Volume /\ csize = Csize
  OBVIOUS
<1>2. disk.sectors \in Nat /\ B_VOL = 63 /\ disk.sectors >= 128 /\ n_vol = disk.sectors - 63
  BY <1>1, DiskAssumption DEF Made, Volume, B_VOL
<1>3. n_vol \in Nat /\ n_vol > 0
  BY <1>2
<1>4. csize \in ClusterSizes
  <2>1. PowerOf2(disk.au)
    BY DEF Made
  <2> QED
    BY <1>1, <1>3, <2>1, UnitSizes DEF Csize
<1>5. csize \in Nat /\ csize > 0
  BY <1>4 DEF ClusterSizes
<1>6. PICK p : p = Plan(n_vol, csize)
  OBVIOUS
<1>7. PICK c : c = n_vol \div csize
  OBVIOUS
<1>8. /\ p.fmt \in {"FAT12", "FAT16", "FAT32"} /\ c \in Nat
      /\ p.n_fat = SectorsOf(FatBytes(p.fmt, c + 2))
      /\ p.n_fat \in Nat /\ p.n_fat > 0
      /\ p.n_rsv = IF p.fmt = "FAT32" THEN 32 ELSE 1
      /\ p.n_dir = IF p.fmt = "FAT32" THEN 0 ELSE 32
      /\ p.system = p.n_rsv + p.n_fat + p.n_dir /\ p.system \in Nat
  BY <1>3, <1>4, <1>6, <1>7, Planned
<1>9. PICK n : n = (n_vol - p.system) \div csize
  OBVIOUS
<1>10. ~TooSmall(n_vol, csize) /\ boot = BootRecord(n_vol, csize)
  BY <1>1 DEF Made
<1>11. /\ n \in Nat /\ n >= 1 /\ n <= n_vol \div csize /\ n_vol >= p.system
       /\ (n - 1) * csize + csize <= n_vol - p.system
       /\ Mounted(BootRecord(n_vol, csize)) =
            [fs_type   |-> p.fmt,
             csize     |-> csize,
             n_fatent  |-> n + 2,
             n_rootdir |-> IF p.fmt = "FAT32" THEN 0 ELSE 512,
             fsize     |-> p.n_fat,
             fatbase   |-> B_VOL + p.n_rsv,
             dirbase   |-> IF p.fmt = "FAT32" THEN 2 ELSE B_VOL + p.n_rsv + p.n_fat,
             database  |-> B_VOL + p.system,
             last_clust |-> IF p.fmt = "FAT32" THEN 2 ELSE 0]
  BY <1>3, <1>4, <1>6, <1>9, <1>10, MountedAsMade
<1>12. /\ fs.fs_type = p.fmt /\ fs.csize = csize /\ fs.n_fatent = n + 2
       /\ fs.n_rootdir = (IF p.fmt = "FAT32" THEN 0 ELSE 512)
       /\ fs.fsize = p.n_fat /\ fs.fatbase = 63 + p.n_rsv
       /\ fs.dirbase = (IF p.fmt = "FAT32" THEN 2 ELSE 63 + p.n_rsv + p.n_fat)
       /\ fs.database = 63 + p.system
  BY <1>2, <1>10, <1>11
<1>13. fs.fs_type # "none" /\ fs.fs_type = boot.fmt /\ fs.csize = Csize
  <2>1. boot.fmt = p.fmt
    BY <1>3, <1>4, <1>6, <1>10, Recorded
  <2> QED
    BY <1>1, <1>8, <1>12, <2>1
<1>14. FatBytes(fs.fs_type, fs.n_fatent) <= fs.fsize * SECTOR_SIZE
  <2>1. /\ FatBytes(p.fmt, n + 2) \in Nat /\ FatBytes(p.fmt, c + 2) \in Nat
        /\ FatBytes(p.fmt, n + 2) <= FatBytes(p.fmt, c + 2)
    BY <1>7, <1>8, <1>11, TableBytes
  <2>2. PICK x, y : x = FatBytes(p.fmt, n + 2) /\ y = FatBytes(p.fmt, c + 2)
    OBVIOUS
  <2>3. x \in Nat /\ y \in Nat /\ x <= y
    BY <2>1, <2>2
  <2>4. y <= SectorsOf(y) * SECTOR_SIZE /\ SectorsOf(y) \in Nat
    BY <2>3, Sectors
  <2>5. x <= SectorsOf(y) * SECTOR_SIZE
    BY <2>3, <2>4 DEF SECTOR_SIZE
  <2> QED
    BY <1>8, <1>12, <2>2, <2>5
<1>15. LET root == IF fs.fs_type = "FAT32" THEN fs.database ELSE fs.dirbase
       IN  /\ B_VOL < fs.fatbase
           /\ fs.fatbase + fs.fsize <= root
           /\ root + fs.n_rootdir \div PerSector <= fs.database
  <2>1. PerSector = 16
    BY DEF PerSector, SECTOR_SIZE
  <2>2. CASE p.fmt = "FAT32"
    BY <1>2, <1>8, <1>12, <2>1, <2>2
  <2>3. CASE p.fmt # "FAT32"
    BY <1>2, <1>8, <1>12, <2>1, <2>3
  <2> QED
    BY <2>2, <2>3
<1>16. fs.fs_type = "FAT32" => fs.dirbase \in 2 .. fs.n_fatent - 1
  BY <1>11, <1>12
<1>17. OnDisk(Clust2Sect(fs.n_fatent - 1) + fs.csize - 1)
  <2>1. fs.n_fatent - 1 - 2 = n - 1
    BY <1>11, <1>12
  <2>2. Clust2Sect(fs.n_fatent - 1) = (n - 1) * csize + (63 + p.system)
    BY <1>12, <2>1 DEF Clust2Sect
  <2>3. PICK m : m = (n - 1) * csize
    OBVIOUS
  <2>4. m \in Int
    BY <1>5, <1>11, <2>3
  <2>5. m + csize <= n_vol - p.system
    BY <1>11, <2>3
  <2>6. m + (63 + p.system) + csize - 1 < disk.sectors
    BY <1>2, <1>5, <1>8, <2>4, <2>5
  <2> QED
    BY <1>12, <2>2, <2>3, <2>6 DEF OnDisk
<1> QED
  BY <1>13, <1>14, <1>15, <1>16, <1>17

(* And it can be mounted at all.                                           *)
LEMMA MountsMade ==
  ASSUME disk \in [sectors : Disks, au : Units], Made
  PROVE  Mounted(boot).fs_type # "none"
<1>1. PICK n_vol, csize : n_vol = Volume /\ csize = Csize
  OBVIOUS
<1>2. n_vol \in Nat /\ n_vol > 0
  <2>1. disk.sectors \in Nat /\ disk.sectors >= 128
    BY DiskAssumption DEF Made
  <2>2. n_vol = disk.sectors - 63
    BY <1>1 DEF Volume, B_VOL
  <2> QED
    BY <2>1, <2>2
<1>3. csize \in ClusterSizes
  <2>1. PowerOf2(disk.au)
    BY DEF Made
  <2> QED
    BY <1>1, <1>2, <2>1, UnitSizes DEF Csize
<1>4. PICK p : p = Plan(n_vol, csize)
  OBVIOUS
<1>5. PICK n, c : n = (n_vol - p.system) \div csize /\ c = n_vol \div csize
  OBVIOUS
<1>6. ~TooSmall(n_vol, csize) /\ boot = BootRecord(n_vol, csize)
  BY <1>1 DEF Made
<1>7. Mounted(BootRecord(n_vol, csize)) =
        [fs_type   |-> p.fmt,
         csize     |-> csize,
         n_fatent  |-> n + 2,
         n_rootdir |-> IF p.fmt = "FAT32" THEN 0 ELSE 512,
         fsize     |-> p.n_fat,
         fatbase   |-> B_VOL + p.n_rsv,
         dirbase   |-> IF p.fmt = "FAT32" THEN 2 ELSE B_VOL + p.n_rsv + p.n_fat,
         database  |-> B_VOL + p.system,
         last_clust |-> IF p.fmt = "FAT32" THEN 2 ELSE 0]
  BY <1>2, <1>3, <1>4, <1>5, <1>6, MountedAsMade
<1>8. p.fmt \in {"FAT12", "FAT16", "FAT32"}
  BY <1>2, <1>3, <1>4, <1>5, Planned
<1> QED
  BY <1>6, <1>7, <1>8

LEMMA DiskInit == Init => DiskInv
BY RamInit, NothingToFree DEF Init, DiskInv, NoRam

(* f_mkfs returns FR_OK only for a volume that it could make.              *)
LEMMA MkfsMade ==
  ASSUME disk \in [sectors : Disks, au : Units], MkfsResult = "OK"
  PROVE  /\ PowerOf2(disk.au) /\ disk.sectors >= 128 /\ ~TooSmall(Volume, Csize)
         /\ mounted # Null
<1>1. disk.sectors \in Nat
  BY DiskAssumption
<1>2. PowerOf2(disk.au)
  BY DEF MkfsResult
<1>3. mounted # Null
  BY <1>2 DEF MkfsResult
<1>4. ~(disk.sectors < 128)
  BY <1>2, <1>3 DEF MkfsResult
<1>5. ~TooSmall(Volume, Csize)
  BY <1>2, <1>3, <1>4 DEF MkfsResult, Volume, Csize
<1> QED
  BY <1>1, <1>2, <1>3, <1>4, <1>5

LEMMA DiskNext == ASSUME DiskInv, [Next]_vars PROVE DiskInv'
<1>1. RamInv'
  BY RamNext DEF DiskInv
<1>2. disk' = disk /\ disk' \in [sectors : Disks, au : Units]
  BY DEF DiskInv, Next, vars, Begin, AllocateObject, AllocateBuffer, CreateQueue, Mount,
         Refused, Mkfs, ChkMounted, Oom, Destroy
<1>3. CASE Begin \/ AllocateObject \/ AllocateBuffer \/ CreateQueue \/ Mount \/ Refused
           \/ Oom \/ Destroy
  <2>1. stage # "on" \/ Destroy
    BY <1>3 DEF Begin, AllocateObject, AllocateBuffer, CreateQueue, Mount, Refused, Oom
  <2>2. stage' # "on" /\ UNCHANGED result
    BY <1>3 DEF Begin, AllocateObject, AllocateBuffer, CreateQueue, Mount, Refused, Oom,
                Destroy, Release
  <2>3. fs' = Unmounted
    <3>1. CASE Destroy
      BY <3>1 DEF Destroy, Release, DiskInv
    <3>2. CASE ~Destroy
      BY <1>3, <2>1, <3>2 DEF DiskInv, Begin, AllocateObject, AllocateBuffer, CreateQueue,
                              Mount, Refused, Oom, Release
    <3> QED
      BY <3>1, <3>2
  <2>4. m_ramfs'.p_align = Null \/ m_ramfs'.p_align = AlignPtr(m_ramfs'.p_buffer, SECTOR_SIZE)
    <3>1. m_ramfs \in Ram /\ (m_ramfs.p_align = Null
                              \/ m_ramfs.p_align = AlignPtr(m_ramfs.p_buffer, SECTOR_SIZE))
      BY DEF DiskInv, RamInv
    <3>2. CASE UNCHANGED m_ramfs
      BY <3>1, <3>2
    <3>3. CASE m_ramfs' = NoRam
      BY <3>3 DEF NoRam
    <3>4. CASE AllocateObject
      <4>1. PICK x, y : m_ramfs' = [m_ramfs EXCEPT !.p_fatfs = x, !.pad = y]
        BY <3>4 DEF AllocateObject
      <4>2. m_ramfs'.p_align = m_ramfs.p_align /\ m_ramfs'.p_buffer = m_ramfs.p_buffer
        BY <3>1, <4>1 DEF Ram
      <4> QED
        BY <3>1, <4>2
    <3>5. CASE AllocateBuffer
      <4>1. PICK x : m_ramfs' = [m_ramfs EXCEPT !.p_buffer = x, !.p_align = AlignPtr(x, SECTOR_SIZE)]
        BY <3>5 DEF AllocateBuffer
      <4>2. PICK a : a = AlignPtr(x, SECTOR_SIZE)
        OBVIOUS
      <4>3. m_ramfs'.p_align = a /\ m_ramfs'.p_buffer = x
        BY <3>1, <4>1, <4>2 DEF Ram
      <4> QED
        BY <4>2, <4>3
    <3>6. CASE CreateQueue
      <4>1. PICK x : m_ramfs' = [m_ramfs EXCEPT !.h_msgq = x]
        BY <3>6 DEF CreateQueue
      <4>2. m_ramfs'.p_align = m_ramfs.p_align /\ m_ramfs'.p_buffer = m_ramfs.p_buffer
        BY <3>1, <4>1 DEF Ram
      <4> QED
        BY <3>1, <4>2
    <3> QED
      BY <1>3, <3>2, <3>3, <3>4, <3>5, <3>6 DEF Begin, Mount, Refused, Oom, Destroy, Release
  <2> QED
    BY <1>1, <1>2, <2>2, <2>3, <2>4 DEF DiskInv
<1>4. CASE Mkfs
  <2>1. /\ UNCHANGED <<disk, m_ramfs, mounted>> /\ fs' = Unmounted /\ result' = MkfsResult
        /\ \/ MkfsResult = "OK" /\ boot' = BootRecord(Volume, Csize) /\ stage' = "on"
           \/ stage' = "oom"
    BY <1>4 DEF Mkfs, Volume, Csize
  <2>2. result' # "NO_FILESYSTEM"
    BY <2>1 DEF MkfsResult
  <2>3. ASSUME stage' = "on" PROVE mounted' # Null /\ Made'
    <3>1. MkfsResult = "OK" /\ boot' = BootRecord(Volume, Csize)
      BY <2>1, <2>3
    <3>2. PowerOf2(disk.au) /\ disk.sectors >= 128 /\ ~TooSmall(Volume, Csize) /\ mounted # Null
      BY <3>1, MkfsMade DEF DiskInv
    <3> QED
      BY <2>1, <3>1, <3>2 DEF Made, Volume, Csize
  <2> QED
    BY <1>1, <1>2, <2>1, <2>2, <2>3 DEF DiskInv
<1>5. CASE ChkMounted
  <2>1. /\ stage = "on" /\ UNCHANGED <<disk, stage, heap, m_ramfs, mounted, boot, inits>>
        /\ fs' = Mounted(boot)
        /\ result' = IF fs'.fs_type = "none" THEN "NO_FILESYSTEM" ELSE "MOUNTED"
    BY <1>5 DEF ChkMounted
  <2>2. Made /\ mounted # Null
    BY <2>1 DEF DiskInv
  <2>3. Made'
    BY <2>1, <2>2 DEF Made, Volume, Csize
  <2>4. fs'.fs_type # "none"
    BY <2>1, <2>2, MountsMade DEF DiskInv
  <2> QED
    BY <1>1, <1>2, <2>1, <2>2, <2>3, <2>4 DEF DiskInv
<1>6. CASE UNCHANGED vars
  <2>1. UNCHANGED <<disk, stage, m_ramfs, mounted, boot, fs, result>>
    BY <1>6 DEF vars
  <2>2. Made => Made'
    BY <2>1 DEF Made, Volume, Csize
  <2> QED
    BY <1>1, <1>2, <2>1, <2>2 DEF DiskInv
<1> QED
  BY <1>3, <1>4, <1>5, <1>6 DEF Next

(* The disk fits its buffer wherever malloc has put it.                    *)
LEMMA AlignedInside ==
  ASSUME NEW p \in Nat
  PROVE  /\ AlignPtr(p, SECTOR_SIZE) \in Nat /\ AlignPtr(p, SECTOR_SIZE) >= p
         /\ AlignPtr(p, SECTOR_SIZE) <= p + SECTOR_SAFE
<1>1. PICK q : q = (p + 511) \div 512
  OBVIOUS
<1>2. q \in Nat /\ q * 512 >= p /\ q * 512 <= p + 511
  BY <1>1
<1>3. AlignPtr(p, SECTOR_SIZE) = q * 512
  <2>1. p + SECTOR_SIZE - 1 = p + 511
    BY DEF SECTOR_SIZE
  <2> QED
    BY <1>1, <2>1 DEF AlignPtr, SECTOR_SIZE
<1> QED
  BY <1>2, <1>3 DEF SECTOR_SAFE

(* The volume on the disk is always the one f_mkfs made, and f_mkfs makes  *)
(* none that chk_mounted would not mount.                                  *)
THEOREM DiskInductive == Spec => []DiskInv
<1>1. DiskInv /\ [Next]_vars => DiskInv'
  BY DiskNext
<1> QED
  BY <1>1, DiskInit, PTL DEF Spec

(* For a disk of any size and any allocation unit, a volume that f_mkfs    *)
(* has made can be mounted, as what it was made as; FAT, root directory    *)
(* and clusters do not overlap, the FAT has an entry for every cluster,    *)
(* the last cluster is on the disk, and the disk inside its buffer         *)
(* (ff.cpp:2120-2180, 3842-3880).                                          *)
THEOREM VolumeLaidOut == Spec => []LayoutSound
<1>1. DiskInv => LayoutSound
  <2> SUFFICES ASSUME DiskInv PROVE LayoutSound
    OBVIOUS
  <2>1. ASSUME fs.fs_type # "none"
        PROVE  /\ fs.fs_type = boot.fmt
               /\ fs.csize = SectorsPerCluster(disk.sectors - B_VOL, disk.au)
               /\ FatBytes(fs.fs_type, fs.n_fatent) <= fs.fsize * SECTOR_SIZE
               /\ LET root == IF fs.fs_type = "FAT32" THEN fs.database ELSE fs.dirbase
                  IN  /\ B_VOL < fs.fatbase
                      /\ fs.fatbase + fs.fsize <= root
                      /\ root + fs.n_rootdir \div PerSector <= fs.database
               /\ fs.fs_type = "FAT32" => fs.dirbase \in 2 .. fs.n_fatent - 1
               /\ OnDisk(Clust2Sect(fs.n_fatent - 1) + fs.csize - 1)
    <3>1. fs # Unmounted
      BY <2>1 DEF Unmounted
    <3>2. disk \in [sectors : Disks, au : Units] /\ Made /\ fs = Mounted(boot)
      BY <3>1 DEF DiskInv
    <3> QED
      BY <3>2, MadeSound DEF Csize, Volume
  <2>2. ASSUME m_ramfs.p_align # Null
        PROVE  /\ m_ramfs.p_align >= m_ramfs.p_buffer
               /\ m_ramfs.p_align + disk.sectors * SECTOR_SIZE
                    <= m_ramfs.p_buffer + disk.sectors * SECTOR_SIZE + SECTOR_SAFE
    <3>1. /\ m_ramfs.p_align = AlignPtr(m_ramfs.p_buffer, SECTOR_SIZE)
          /\ m_ramfs.p_buffer \in Nat /\ disk.sectors \in Nat
      BY <2>2, DiskAssumption DEF DiskInv, RamInv, Ram
    <3>2. /\ m_ramfs.p_align \in Nat /\ m_ramfs.p_align >= m_ramfs.p_buffer
          /\ m_ramfs.p_align <= m_ramfs.p_buffer + SECTOR_SAFE
      BY <3>1, AlignedInside
    <3> QED
      BY <3>1, <3>2 DEF SECTOR_SIZE, SECTOR_SAFE
  <2> QED
    BY <2>1, <2>2 DEF LayoutSound, DiskInv
<1> QED
  BY <1>1, DiskInductive, PTL

-----------------------------------------------------------------------------
(* Sessions.                                                               *)

Cookies == [id : Nat, ip : Nat, time : Nat]

Places == [pc : {"idle", "login", "store", "answer", "logout", "clear"},
           browser : Nat, slot : 0 .. MAX_COOKIES, seen : [Slots -> Cookies]]

(* An empty slot has the time 0, which is smaller than that of a session   *)
(* until the clock starts again.                                           *)
Dated(c, now) ==
  IF c.id = None THEN c.time = 0 ELSE c.time >= 1 \/ now >= Wrap

(* What a thread in the middle of its work knows.                          *)
Sound(th, c, now) ==
  /\ \A i \in Slots : Dated(th.seen[i], now)
  /\ th.pc \in {"login", "store"} => c.id # None
  /\ th.pc = "store" => th.slot = Oldest(th.seen)
  /\ th.pc \in {"logout", "clear"} => c.id = None \/ c.ip = th.browser
  /\ th.pc = "clear" => th.slot \in Slots /\ Same(th.seen[th.slot], c)

SessionsType ==
  /\ list \in [Slots -> Cookies]
  /\ thread \in [Threads -> Places]
  /\ cookie \in [Threads -> Cookies]
  /\ jar \in [Browsers -> Nat]
  /\ clock \in Nat /\ clock >= 1
  /\ logins \in Nat

SessionsInv ==
  /\ SessionsType
  /\ \A i \in Slots : Dated(list[i], clock)
  /\ \A t \in Threads : Sound(thread[t], cookie[t], clock)

-----------------------------------------------------------------------------
(* The cookie that was never used.                                         *)
LEMMA Unused ==
         /\ Clear \in Cookies /\ Idle \in Places
         /\ \A now \in Nat : Dated(Clear, now)
         /\ \A now \in Nat, c \in Cookies : Sound(Idle, c, now)
<1>1. Clear \in Cookies /\ Clear.id = 0 /\ Clear.time = 0
  BY DEF Clear, Cookies, None
<1>2. Idle \in Places /\ Idle.pc = "idle" /\ \A i \in Slots : Idle.seen[i] = Clear
  BY <1>1, SessionsAssumption DEF Idle, Places, None
<1>3. \A now \in Nat : Dated(Clear, now)
  BY <1>1 DEF Dated, None
<1> QED
  BY <1>1, <1>2, <1>3 DEF Sound

(* add takes a slot of the list, and none has a smaller time               *)
(* (http.cpp:157-170).                                                     *)
LEMMA OldestSlot ==
  ASSUME NEW s \in [Slots -> Cookies]
  PROVE  /\ Oldest(s) \in Slots
         /\ \A j \in Slots : s[Oldest(s)].time <= s[j].time
<1> DEFINE Times == {s[i].time : i \in Slots}
           Least == {i \in Slots : \A j \in Slots : s[i].time <= s[j].time}
<1>1. Slots = 0 .. MAX_COOKIES - 1 /\ 0 \in Slots /\ MAX_COOKIES - 1 \in Nat
  BY SessionsAssumption DEF Slots
<1>2. Times \in SUBSET Nat /\ Times # {}
  <2>1. \A i \in Slots : s[i].time \in Nat
    BY DEF Cookies
  <2> QED
    BY <1>1, <2>1
<1>3. PICK m \in Times : \A x \in Times : m <= x
  BY <1>2, SmallestElement
<1>4. Least \in SUBSET (0 .. MAX_COOKIES - 1)
  BY <1>1
<1>5. Least # {}
  BY <1>3
<1>6. \E i \in Least : \A j \in Least : j <= i
  <2> HIDE DEF Least
  <2> QED
    BY <1>1, <1>4, <1>5, LargestElement
<1>7. Max(Least) \in Least
  <2>1. \E i \in Least : \A j \in Least : i >= j
    BY <1>4, <1>6
  <2> QED
    BY <2>1 DEF Max
<1> QED
  BY <1>7 DEF Oldest

(* What a thread knows stays true while time passes.                       *)
LEMMA Later ==
  ASSUME NEW a \in Nat, NEW b \in Nat, a <= b,
         NEW th \in Places, NEW c \in Cookies
  PROVE  /\ Dated(c, a) => Dated(c, b)
         /\ Sound(th, c, a) => Sound(th, c, b)
<1>1. \A d \in Cookies : Dated(d, a) => Dated(d, b)
  BY SessionsAssumption DEF Dated
<1>2. \A i \in Slots : th.seen[i] \in Cookies
  BY DEF Places
<1> QED
  BY <1>1, <1>2 DEF Sound

(* A step of one thread.                                                   *)
LEMMA OneThread ==
  ASSUME SessionsInv, NEW t \in Threads,
         NEW th \in Places, NEW c \in Cookies,
         thread' = [thread EXCEPT ![t] = th],
         cookie' = [cookie EXCEPT ![t] = c],
         Sound(th, c, clock),
         list' \in [Slots -> Cookies], \A i \in Slots : Dated(list'[i], clock),
         jar' \in [Browsers -> Nat], clock' = clock, logins' \in Nat
  PROVE  SessionsInv'
<1>1. SessionsType'
  BY DEF SessionsInv, SessionsType
<1>2. ASSUME NEW u \in Threads PROVE Sound(thread'[u], cookie'[u], clock)
  <2>1. CASE u = t
    <3>1. thread'[u] = th /\ cookie'[u] = c
      BY <2>1 DEF SessionsInv, SessionsType
    <3> QED
      BY <3>1
  <2>2. CASE u # t
    <3>1. thread'[u] = thread[u] /\ cookie'[u] = cookie[u]
      BY <2>2 DEF SessionsInv, SessionsType
    <3> QED
      BY <3>1 DEF SessionsInv
  <2> QED
    BY <2>1, <2>2
<1> QED
  BY <1>1, <1>2 DEF SessionsInv
-----------------------------------------------------------------------------
LEMMA SessionsInit == ASSUME SessionInit PROVE SessionsInv
<1>1. 0 \in Nat /\ 1 \in Nat /\ None = 0
  BY DEF None
<1>2. Clear \in Cookies /\ Idle \in Places
  BY Unused
<1>3. SessionsType
  BY <1>1, <1>2 DEF SessionInit, SessionsType
<1>4. \A i \in Slots : Dated(list[i], clock)
  BY Unused DEF SessionInit
<1>5. \A t \in Threads : Sound(thread[t], cookie[t], clock)
  BY <1>2, Unused DEF SessionInit
<1> QED
  BY <1>3, <1>4, <1>5 DEF SessionsInv

(* The servent has a session of its browser or none.                       *)
LEMMA RequestMade ==
  ASSUME SessionsInv, NEW t \in Threads, NEW b \in Browsers,
         NEW command \in {"login", "logout"}, Request(t, b, command)
  PROVE  SessionsInv'
<1>1. PICK id \in {jar[b], None} :
        cookie' = [cookie EXCEPT ![t] =
           IF command = "login"
             THEN [Authorized(t, [id |-> id, ip |-> b, time |-> 0])
                     EXCEPT !.id = logins', !.ip = b]
             ELSE Authorized(t, [id |-> id, ip |-> b, time |-> 0])]
  BY DEF Request
<1>2. b \in Nat /\ id \in Nat
  BY SessionsAssumption DEF SessionsInv, SessionsType, None
<1>3. PICK f : f = Authorized(t, [id |-> id, ip |-> b, time |-> 0])
  OBVIOUS
<1>4. f \in Cookies /\ (f.id = None \/ f.ip = b)
  BY <1>2, <1>3, Unused DEF Authorized, Cookies, Clear
<1>5. logins' \in Nat /\ (command = "login" => logins' # None)
  BY DEF Request, SessionsInv, SessionsType, None
<1>6. PICK c : c = IF command = "login" THEN [f EXCEPT !.id = logins', !.ip = b] ELSE f
  OBVIOUS
<1>7. /\ c \in Cookies
      /\ command = "login" => c.id # None
      /\ command = "logout" => c.id = None \/ c.ip = b
  BY <1>2, <1>4, <1>5, <1>6 DEF Cookies
<1>8. PICK th : th = [Idle EXCEPT !.pc = command, !.browser = b]
  OBVIOUS
<1>9. /\ th \in Places /\ th.pc = command /\ th.browser = b
      /\ \A i \in Slots : th.seen[i] = Clear
  BY <1>2, <1>8, Unused DEF Places, Idle
<1>10. Sound(th, c, clock)
  BY <1>7, <1>9, Unused DEF Sound, SessionsInv, SessionsType
<1>11. thread' = [thread EXCEPT ![t] = th] /\ cookie' = [cookie EXCEPT ![t] = c]
  BY <1>1, <1>3, <1>6, <1>8 DEF Request
<1>12. UNCHANGED <<list, jar, clock>>
  BY DEF Request
<1>13. /\ list' \in [Slots -> Cookies] /\ \A i \in Slots : Dated(list'[i], clock)
       /\ jar' \in [Browsers -> Nat] /\ clock' = clock
  BY <1>12 DEF SessionsInv, SessionsType
<1> QED
  BY <1>5, <1>7, <1>9, <1>10, <1>11, <1>13, OneThread

(* add has read a list in which every session has a date.                  *)
LEMMA Scanned ==
  ASSUME SessionsInv, NEW t \in Threads, Scan(t)
  PROVE  SessionsInv'
<1>1. PICK old : old = thread[t]
  OBVIOUS
<1>2. old \in Places /\ old.pc = "login" /\ cookie[t] \in Cookies /\ cookie[t].id # None
  BY <1>1 DEF SessionsInv, SessionsType, Scan, Sound
<1>3. PICK next \in {"answer", "store"} :
        thread' = [thread EXCEPT ![t].slot = Oldest(list), ![t].seen = list, ![t].pc = next]
  BY DEF Scan
<1>4. PICK th : th = [old EXCEPT !.slot = Oldest(list), !.seen = list, !.pc = next]
  OBVIOUS
<1>5. Oldest(list) \in 0 .. MAX_COOKIES
  BY OldestSlot, SessionsAssumption DEF SessionsInv, SessionsType, Slots
<1>6. /\ th \in Places /\ th.pc = next /\ th.slot = Oldest(list) /\ th.seen = list
      /\ th.browser = old.browser
  BY <1>2, <1>4, <1>5 DEF Places, SessionsInv, SessionsType
<1>7. Sound(th, cookie[t], clock)
  BY <1>2, <1>3, <1>6 DEF Sound, SessionsInv
<1>8. thread' = [thread EXCEPT ![t] = th]
  BY <1>1, <1>3, <1>4 DEF SessionsInv, SessionsType
<1>9. cookie' = [cookie EXCEPT ![t] = cookie[t]]
  BY DEF Scan, SessionsInv, SessionsType
<1>10. UNCHANGED <<list, jar, clock, logins>>
  BY DEF Scan
<1>11. /\ list' \in [Slots -> Cookies] /\ \A i \in Slots : Dated(list'[i], clock)
       /\ jar' \in [Browsers -> Nat] /\ clock' = clock /\ logins' \in Nat
  BY <1>10 DEF SessionsInv, SessionsType
<1> QED
  BY <1>2, <1>6, <1>7, <1>8, <1>9, <1>11, OneThread

(* The date that add writes is 0 only after the clock has started again.   *)
LEMMA Stored ==
  ASSUME SessionsInv, NEW t \in Threads, Store(t)
  PROVE  SessionsInv'
<1>1. PICK old, d : old = thread[t] /\ d = cookie[t]
  OBVIOUS
<1>2. old \in Places /\ old.pc = "store" /\ d \in Cookies /\ d.id # None
  BY <1>1 DEF SessionsInv, SessionsType, Store, Sound
<1>3. PICK c : c = [d EXCEPT !.time = GetTime]
  OBVIOUS
<1>4. clock \in Nat /\ clock >= 1 /\ Wrap \in Nat /\ Wrap > 0
  BY SessionsAssumption DEF SessionsInv, SessionsType
<1>5. GetTime \in Nat /\ (GetTime >= 1 \/ clock >= Wrap)
  <2>1. clock < Wrap => clock % Wrap = clock
    BY <1>4
  <2>2. clock % Wrap \in Nat
    BY <1>4
  <2> QED
    BY <1>4, <2>1, <2>2 DEF GetTime
<1>6. c \in Cookies /\ c.id # None /\ Dated(c, clock)
  BY <1>2, <1>3, <1>5 DEF Cookies, Dated
<1>7. PICK th : th = [Idle EXCEPT !.pc = "answer", !.browser = old.browser]
  OBVIOUS
<1>8. th \in Places /\ th.pc = "answer" /\ \A i \in Slots : th.seen[i] = Clear
  BY <1>2, <1>7, Unused DEF Places, Idle
<1>9. Sound(th, c, clock)
  BY <1>8, Unused, <1>4 DEF Sound
<1>10. thread' = [thread EXCEPT ![t] = th]
  BY <1>1, <1>7 DEF Store
<1>11. cookie' = [cookie EXCEPT ![t] = c]
  BY <1>1, <1>3 DEF Store, Stamped
<1>12. list' = [list EXCEPT ![old.slot] = c]
  BY <1>1, <1>3 DEF Store, Stamped
<1>13. list' \in [Slots -> Cookies] /\ \A i \in Slots : Dated(list'[i], clock)
  BY <1>6, <1>12 DEF SessionsInv, SessionsType
<1>14. UNCHANGED <<jar, clock, logins>>
  BY DEF Store
<1>15. jar' \in [Browsers -> Nat] /\ clock' = clock /\ logins' \in Nat
  BY <1>14 DEF SessionsInv, SessionsType
<1> QED
  BY <1>6, <1>8, <1>9, <1>10, <1>11, <1>13, <1>15, OneThread
LEMMA Answered ==
  ASSUME SessionsInv, NEW t \in Threads, Answer(t)
  PROVE  SessionsInv'
<1>1. thread' = [thread EXCEPT ![t] = Idle] /\ UNCHANGED <<list, cookie, clock, logins>>
  BY DEF Answer
<1>2. cookie[t] \in Cookies /\ cookie' = [cookie EXCEPT ![t] = cookie[t]]
  BY <1>1 DEF SessionsInv, SessionsType
<1>3. jar' \in [Browsers -> Nat]
  BY <1>2 DEF Answer, SessionsInv, SessionsType, Cookies
<1>4. Idle \in Places /\ Sound(Idle, cookie[t], clock)
  BY <1>2, Unused DEF SessionsInv, SessionsType
<1>5. /\ list' \in [Slots -> Cookies] /\ \A i \in Slots : Dated(list'[i], clock)
      /\ clock' = clock /\ logins' \in Nat
  BY <1>1 DEF SessionsInv, SessionsType
<1> QED
  BY <1>1, <1>2, <1>3, <1>4, <1>5, OneThread

(* What remove is about to clear was its own cookie when it compared.      *)
LEMMA Compared ==
  ASSUME SessionsInv, NEW t \in Threads, Compare(t)
  PROVE  SessionsInv'
<1>1. PICK old, d : old = thread[t] /\ d = cookie[t]
  OBVIOUS
<1>2. /\ old \in Places /\ old.pc = "logout" /\ d \in Cookies
      /\ Sound(old, d, clock)
  BY <1>1 DEF SessionsInv, SessionsType, Compare
<1>3. PICK th : th = IF old.slot = MAX_COOKIES THEN Idle
                     ELSE IF Same(list[old.slot], d)
                       THEN [old EXCEPT !.pc = "clear", !.seen = list]
                       ELSE [old EXCEPT !.slot = old.slot + 1]
  OBVIOUS
<1>4. thread' = [thread EXCEPT ![t] = th]
  BY <1>1, <1>3 DEF Compare, SessionsInv, SessionsType
<1>5. MAX_COOKIES \in Nat /\ old.slot \in 0 .. MAX_COOKIES
  BY <1>2, SessionsAssumption DEF Places
<1>6. th \in Places /\ Sound(th, d, clock)
  <2>1. CASE old.slot = MAX_COOKIES
    BY <1>2, <1>3, <2>1, Unused DEF SessionsInv, SessionsType
  <2>2. CASE old.slot # MAX_COOKIES /\ Same(list[old.slot], d)
    <3>1. th = [old EXCEPT !.pc = "clear", !.seen = list]
      BY <1>3, <2>2
    <3>2. /\ th \in Places /\ th.pc = "clear" /\ th.seen = list
          /\ th.slot = old.slot /\ th.browser = old.browser
      BY <1>2, <3>1 DEF Places, SessionsInv, SessionsType
    <3>3. old.slot \in Slots
      BY <1>5, <2>2 DEF Slots
    <3> QED
      BY <1>2, <2>2, <3>2, <3>3 DEF Sound, SessionsInv
  <2>3. CASE old.slot # MAX_COOKIES /\ ~Same(list[old.slot], d)
    <3>1. th = [old EXCEPT !.slot = old.slot + 1]
      BY <1>3, <2>3
    <3>2. old.slot + 1 \in 0 .. MAX_COOKIES
      BY <1>5, <2>3
    <3>3. /\ th \in Places /\ th.pc = "logout" /\ th.seen = old.seen
          /\ th.browser = old.browser
      BY <1>2, <3>1, <3>2 DEF Places
    <3> QED
      BY <1>2, <3>3 DEF Sound
  <2> QED
    BY <2>1, <2>2, <2>3
<1>7. UNCHANGED <<list, cookie, jar, clock, logins>>
  BY DEF Compare
<1>8. cookie' = [cookie EXCEPT ![t] = d]
  BY <1>1, <1>7 DEF SessionsInv, SessionsType
<1>9. /\ list' \in [Slots -> Cookies] /\ \A i \in Slots : Dated(list'[i], clock)
      /\ jar' \in [Browsers -> Nat] /\ clock' = clock /\ logins' \in Nat
  BY <1>7 DEF SessionsInv, SessionsType
<1> QED
  BY <1>2, <1>4, <1>6, <1>8, <1>9, OneThread

LEMMA Cleared ==
  ASSUME SessionsInv, NEW t \in Threads, ClearSlot(t)
  PROVE  SessionsInv'
<1>1. PICK old, d : old = thread[t] /\ d = cookie[t]
  OBVIOUS
<1>2. /\ old \in Places /\ old.pc = "clear" /\ d \in Cookies
      /\ Sound(old, d, clock) /\ old.slot \in Slots
  BY <1>1 DEF SessionsInv, SessionsType, ClearSlot, Sound
<1>3. PICK th : th = [Idle EXCEPT !.pc = "logout", !.browser = old.browser,
                                  !.slot = old.slot + 1]
  OBVIOUS
<1>4. thread' = [thread EXCEPT ![t] = th] /\ list' = [list EXCEPT ![old.slot] = Clear]
  BY <1>1, <1>3 DEF ClearSlot
<1>5. old.slot + 1 \in 0 .. MAX_COOKIES
  BY <1>2, SessionsAssumption DEF Slots
<1>6. /\ th \in Places /\ th.pc = "logout" /\ th.browser = old.browser
      /\ \A i \in Slots : th.seen[i] = Clear
  BY <1>2, <1>3, <1>5, Unused DEF Places, Idle
<1>7. clock \in Nat
  BY DEF SessionsInv, SessionsType
<1>8. Sound(th, d, clock)
  BY <1>2, <1>6, <1>7, Unused DEF Sound
<1>9. list' \in [Slots -> Cookies] /\ \A i \in Slots : Dated(list'[i], clock)
  BY <1>4, <1>7, Unused DEF SessionsInv, SessionsType
<1>10. UNCHANGED <<cookie, jar, clock, logins>>
  BY DEF ClearSlot
<1>11. cookie' = [cookie EXCEPT ![t] = d]
  BY <1>1, <1>10 DEF SessionsInv, SessionsType
<1>12. jar' \in [Browsers -> Nat] /\ clock' = clock /\ logins' \in Nat
  BY <1>10 DEF SessionsInv, SessionsType
<1> QED
  BY <1>2, <1>4, <1>6, <1>8, <1>9, <1>11, <1>12, OneThread

LEMMA Ticked == ASSUME SessionsInv, Tick PROVE SessionsInv'
<1>1. clock' = clock + 1 /\ UNCHANGED <<list, thread, cookie, jar, logins>>
  BY DEF Tick
<1>2. clock \in Nat /\ clock' \in Nat /\ clock <= clock' /\ clock' >= 1
  BY <1>1 DEF SessionsInv, SessionsType
<1>3. SessionsType'
  BY <1>1, <1>2 DEF SessionsInv, SessionsType
<1>4. ASSUME NEW i \in Slots PROVE Dated(list[i], clock')
  BY <1>2, SessionsAssumption DEF Dated, SessionsInv, SessionsType
<1>5. ASSUME NEW t \in Threads PROVE Sound(thread[t], cookie[t], clock')
  <2>1. thread[t] \in Places /\ cookie[t] \in Cookies /\ Sound(thread[t], cookie[t], clock)
    BY DEF SessionsInv, SessionsType
  <2> QED
    BY <1>2, <2>1, Later
<1> QED
  BY <1>1, <1>3, <1>4, <1>5 DEF SessionsInv

LEMMA SessionsNext == ASSUME SessionsInv, [SessionNext]_sessionVars PROVE SessionsInv'
<1>1. CASE UNCHANGED sessionVars
  BY <1>1 DEF sessionVars, SessionsInv, SessionsType
<1>2. CASE Tick
  BY <1>2, Ticked
<1>3. ASSUME NEW t \in Threads,
             \/ \E b \in Browsers, c \in {"login", "logout"} : Request(t, b, c)
             \/ Scan(t) \/ Store(t) \/ Answer(t) \/ Compare(t) \/ ClearSlot(t)
      PROVE  SessionsInv'
  BY <1>3, RequestMade, Scanned, Stored, Answered, Compared, Cleared
<1> QED
  BY <1>1, <1>2, <1>3 DEF SessionNext

(* Every session has a date, and a thread that will write or clear a slot  *)
(* has seen why (http.cpp:139-176).                                        *)
THEOREM SessionsInductive == SessionSpec => []SessionsInv
<1>1. SessionInit => SessionsInv
  BY SessionsInit
<1>2. SessionsInv /\ [SessionNext]_sessionVars => SessionsInv'
  BY SessionsNext
<1> QED
  BY <1>1, <1>2, PTL DEF SessionSpec

-----------------------------------------------------------------------------
(* The step that takes a session away from its slot.                       *)
KeptStep ==
  \A i \in Slots : list[i].id # None /\ ~Same(list'[i], list[i]) =>
     \E t \in Threads :
        LET gone == list[i]
            req  == thread[t]
        IN  /\ req.slot = i
            /\ \/ req.seen[i] # gone
               \/ req.pc = "clear" /\ gone.ip = req.browser
               \/ /\ req.pc = "store"
                  /\ \/ clock >= Wrap
                     \/ \A j \in Slots : /\ req.seen[j].id # None
                                         /\ gone.time <= req.seen[j].time

LEMMA OneStep ==
  ASSUME SessionsInv, [SessionNext]_sessionVars PROVE KeptStep
<1> SUFFICES ASSUME NEW i \in Slots, list[i].id # None, ~Same(list'[i], list[i])
             PROVE  \E t \in Threads :
                      /\ thread[t].slot = i
                      /\ \/ thread[t].seen[i] # list[i]
                         \/ thread[t].pc = "clear" /\ list[i].ip = thread[t].browser
                         \/ /\ thread[t].pc = "store"
                            /\ \/ clock >= Wrap
                               \/ \A j \in Slots :
                                     /\ thread[t].seen[j].id # None
                                     /\ list[i].time <= thread[t].seen[j].time
  BY DEF KeptStep
<1>1. list'[i] # list[i]
  BY DEF Same
<1>2. PICK t \in Threads : Store(t) \/ ClearSlot(t)
  <2>1. list' # list
    BY <1>1
  <2> QED
    BY <2>1 DEF SessionNext, sessionVars, Tick, Request, Scan, Answer, Compare
<1>3. PICK req, d : req = thread[t] /\ d = cookie[t]
  OBVIOUS
<1>4. req \in Places /\ d \in Cookies /\ Sound(req, d, clock) /\ list[i] \in Cookies
  BY <1>3 DEF SessionsInv, SessionsType
<1>5. req.slot = i
  <2>1. PICK c : list' = [list EXCEPT ![req.slot] = c]
    BY <1>2, <1>3 DEF Store, ClearSlot
  <2> QED
    BY <1>1, <2>1 DEF SessionsInv, SessionsType
<1>6. ASSUME req.seen[i] = list[i], ClearSlot(t) PROVE req.pc = "clear" /\ list[i].ip = req.browser
  <2>1. req.pc = "clear"
    BY <1>3, <1>6 DEF ClearSlot
  <2>2. Same(list[i], d) /\ (d.id = None \/ d.ip = req.browser)
    BY <1>4, <1>5, <1>6, <2>1 DEF Sound
  <2> QED
    BY <2>1, <2>2 DEF Same
<1>7. ASSUME req.seen[i] = list[i], Store(t), ~(clock >= Wrap)
      PROVE  /\ req.pc = "store"
             /\ \A j \in Slots : req.seen[j].id # None /\ list[i].time <= req.seen[j].time
  <2>1. req.pc = "store" /\ req.slot = Oldest(req.seen)
    BY <1>3, <1>4, <1>7 DEF Store, Sound
  <2>2. req.seen \in [Slots -> Cookies]
    BY <1>4 DEF Places
  <2>3. \A j \in Slots : list[i].time <= req.seen[j].time
    BY <1>5, <1>7, <2>1, <2>2, OldestSlot
  <2>4. list[i].time >= 1 /\ list[i].time \in Nat
    BY <1>4, <1>7 DEF SessionsInv, Dated, Cookies
  <2>5. ASSUME NEW j \in Slots PROVE req.seen[j].id # None
    <3>1. req.seen[j].time \in Nat /\ req.seen[j].time >= 1
      BY <2>2, <2>3, <2>4 DEF Cookies
    <3>2. Dated(req.seen[j], clock)
      BY <1>4 DEF Sound
    <3> QED
      BY <3>1, <3>2 DEF Dated
  <2> QED
    BY <2>1, <2>3, <2>5
<1>8. CASE ClearSlot(t)
  BY <1>3, <1>5, <1>6, <1>8
<1>9. CASE Store(t)
  <2>1. req.pc = "store"
    BY <1>3, <1>9 DEF Store
  <2> QED
    BY <1>3, <1>5, <1>7, <1>9, <2>1
<1> QED
  BY <1>2, <1>8, <1>9

(* A browser loses its session when it logs out, when the list is full and *)
(* the session is the oldest, when another thread has touched the slot     *)
(* between the scan and the write, or when the clock has started again;    *)
(* and in no other way (http.cpp:139-176, usys.cpp:36-42).                 *)
THEOREM OnlyWaysToLoseASession ==
  SessionSpec => SessionKept
<1>1. SessionsInv /\ [SessionNext]_sessionVars => [KeptStep]_sessionVars
  BY OneStep
<1>2. SessionKept <=> [][KeptStep]_sessionVars
  BY DEF SessionKept, KeptStep
<1> QED
  BY <1>1, <1>2, SessionsInductive, PTL DEF SessionSpec

-----------------------------------------------------------------------------
(* HttpExchange.                                                           *)

Tokens == Statuses \cup {"field", "blank", "body", "message"}

(* A status, fields and the blank line, at the beginning of a sequence.    *)
Headed(s) ==
  /\ s # <<>> /\ s[1] \in Statuses
  /\ \E k \in DOMAIN s : s[k] = "blank" /\ \A j \in 2 .. k - 1 : s[j] = "field"

(* One status, and no body before the head is complete.                    *)
Proper(s) ==
  /\ s \in Seq(Tokens)
  /\ \A k \in 2 .. Len(s) : s[k] \notin Statuses
  /\ \A k \in 1 .. Len(s) : s[k] \in {"body", "message"} =>
       /\ s[1] \in Statuses
       /\ \E j \in 1 .. k - 1 : s[j] = "blank" /\ \A i \in 2 .. j - 1 : s[i] = "field"

(* What has been written and what is about to be.                          *)
Reply == out \o todo

(* incomingProc has not answered anything yet.                             *)
Early == {"request", "headers", "file", "command", "stream", "wait"}

HttpType ==
  /\ request \in Requests /\ allowed \in BOOLEAN /\ active \in BOOLEAN
  /\ peer \in {"prompt", "slow", "closed"}
  /\ sent \in Nat /\ line \in Nat /\ left \in Int
  /\ pc \in Early \cup {"write", "open", "close file", "send", "kill", "closed"}
  /\ then \in {"kill", "open", "close file", "send", "closed"}
  /\ todo \in Seq(Tokens) /\ out \in Seq(Tokens)
  /\ chan \in {"none", "busy", "playing", "closing"} /\ waits \in 0 .. WaitMax
  /\ done \in 0 .. 1 /\ file \in {"none", "open", "closed"}
  /\ failed \in Nat /\ lost \in BOOLEAN

-----------------------------------------------------------------------------
(* Sequences of tokens.                                                    *)
LEMMA Beginning ==
  ASSUME NEW s \in Seq(Tokens), NEW t \in Seq(Tokens)
  PROVE  /\ s \o t \in Seq(Tokens)
         /\ s \o <<>> = s /\ <<>> \o t = t
         /\ s # <<>> => s \o t # <<>> /\ (s \o t)[1] = s[1]
         /\ Proper(s \o t) => Proper(s)
         /\ Headed(s) => Headed(s \o t)
<1>1. /\ s \o t \in Seq(Tokens) /\ Len(s \o t) = Len(s) + Len(t)
      /\ \A k \in 1 .. Len(s) : (s \o t)[k] = s[k]
      /\ Len(s) \in Nat /\ Len(t) \in Nat
      /\ DOMAIN s = 1 .. Len(s) /\ DOMAIN (s \o t) = 1 .. Len(s \o t)
  OBVIOUS
<1>2. s \o <<>> = s /\ <<>> \o t = t
  OBVIOUS
<1>3. s # <<>> => s \o t # <<>> /\ (s \o t)[1] = s[1] /\ 1 \in 1 .. Len(s)
  OBVIOUS
<1>4. ASSUME Proper(s \o t) PROVE Proper(s)
  <2>1. PICK u : u = s \o t
    OBVIOUS
  <2>2. /\ \A k \in 1 .. Len(s) : u[k] = s[k] /\ k \in 1 .. Len(u)
        /\ \A k \in 2 .. Len(s) : k \in 1 .. Len(s) /\ k \in 2 .. Len(u)
    BY <1>1, <2>1
  <2>3. \A k \in 2 .. Len(s) : s[k] \notin Statuses
    BY <1>4, <2>1, <2>2 DEF Proper
  <2>4. ASSUME NEW k \in 1 .. Len(s), s[k] \in {"body", "message"}
        PROVE  /\ s[1] \in Statuses
               /\ \E j \in 1 .. k - 1 : s[j] = "blank" /\ \A i \in 2 .. j - 1 : s[i] = "field"
    <3>1. /\ u[1] \in Statuses
          /\ \E j \in 1 .. k - 1 : u[j] = "blank" /\ \A i \in 2 .. j - 1 : u[i] = "field"
      BY <1>4, <2>1, <2>2, <2>4 DEF Proper
    <3>2. PICK j \in 1 .. k - 1 : u[j] = "blank" /\ \A i \in 2 .. j - 1 : u[i] = "field"
      BY <3>1
    <3>3. j \in 1 .. Len(s) /\ 1 \in 1 .. Len(s) /\ \A i \in 2 .. j - 1 : i \in 1 .. Len(s)
      BY <1>1
    <3> QED
      BY <2>2, <3>1, <3>2, <3>3
  <2> QED
    BY <2>3, <2>4 DEF Proper
<1>5. ASSUME Headed(s) PROVE Headed(s \o t)
  <2>1. PICK u : u = s \o t
    OBVIOUS
  <2>2. PICK k \in 1 .. Len(s) : s[k] = "blank" /\ \A j \in 2 .. k - 1 : s[j] = "field"
    BY <1>1, <1>5 DEF Headed
  <2>3. k \in DOMAIN u /\ u[k] = "blank" /\ \A j \in 2 .. k - 1 : u[j] = s[j]
    BY <1>1, <2>1, <2>2
  <2>4. u # <<>> /\ u[1] \in Statuses
    BY <1>3, <1>5, <2>1 DEF Headed
  <2> QED
    BY <2>1, <2>2, <2>3, <2>4 DEF Headed
<1> QED
  BY <1>1, <1>2, <1>3, <1>4, <1>5

(* A token goes from the front of one sequence to the end of another.      *)
LEMMA Moves ==
  ASSUME NEW s \in Seq(Tokens), NEW t \in Seq(Tokens), t # <<>>
  PROVE  /\ Append(s, Head(t)) \in Seq(Tokens) /\ Tail(t) \in Seq(Tokens)
         /\ Append(s, Head(t)) \o Tail(t) = s \o t
         /\ Headed(s) => Headed(Append(s, Head(t)))
         /\ Len(t) = 1 => Tail(t) = <<>>
<1>1. PICK x, r : x = Head(t) /\ r = Tail(t)
  OBVIOUS
<1>2. /\ x \in Tokens /\ r \in Seq(Tokens) /\ Len(r) = Len(t) - 1
      /\ x = t[1] /\ \A i \in 1 .. Len(r) : r[i] = t[i + 1]
      /\ Len(s) \in Nat /\ Len(t) \in Nat \ {0} /\ Len(r) \in Nat
  BY <1>1, HeadTailProperties, EmptySeq, LenProperties
<1>3. PICK u : u = Append(s, x)
  OBVIOUS
<1>4. /\ u \in Seq(Tokens) /\ Len(u) = Len(s) + 1
      /\ \A i \in 1 .. Len(s) : u[i] = s[i]
      /\ u[Len(s) + 1] = x
  BY <1>2, <1>3, AppendProperties
<1>5. u \o r = s \o t
  <2>1. /\ SubSeq(t, 1, Len(t)) = t /\ Tail(t) = SubSeq(t, 2, Len(t))
        /\ SubSeq(t, 1, Len(t)) = <<t[1]>> \o SubSeq(t, 1 + 1, Len(t))
    BY <1>2, SubSeqFull, TailIsSubSeq, SubSeqRecursiveFirst
  <2>2. t = <<x>> \o r
    BY <1>1, <1>2, <2>1
  <2>3. u = s \o <<x>> /\ <<x>> \in Seq(Tokens)
    BY <1>2, <1>3, AppendIsConcat
  <2> QED
    BY <1>2, <2>2, <2>3, ConcatAssociative
<1>6. ASSUME Headed(s) PROVE Headed(u)
  <2>1. PICK k \in 1 .. Len(s) : s[k] = "blank" /\ \A j \in 2 .. k - 1 : s[j] = "field"
    BY <1>6, LenProperties DEF Headed
  <2>2. /\ DOMAIN u = 1 .. Len(u) /\ u # <<>>
        /\ s[1] \in Statuses /\ u[1] = s[1]
    <3>1. u # <<>> /\ DOMAIN u = 1 .. Len(u)
      BY <1>2, <1>4, EmptySeq, LenProperties
    <3>2. 1 \in 1 .. Len(s)
      BY <1>2, <2>1
    <3> QED
      BY <1>4, <1>6, <3>1, <3>2 DEF Headed
  <2>3. k \in 1 .. Len(u) /\ \A j \in 2 .. k - 1 : j \in 1 .. Len(s)
    BY <1>2, <1>4, <2>1
  <2>4. k \in DOMAIN u /\ u[k] = "blank" /\ \A j \in 2 .. k - 1 : u[j] = "field"
    BY <1>4, <2>1, <2>2, <2>3
  <2> QED
    BY <2>2, <2>4 DEF Headed
<1>7. Len(t) = 1 => r = <<>>
  BY <1>2, EmptySeq
<1> QED
  BY <1>1, <1>2, <1>3, <1>4, <1>5, <1>6, <1>7

(* A step that gives the reply, or what is written, another value.         *)
LEMMA ReplyIs ==
  ASSUME NEW v, Reply' = v, Proper(v)
  PROVE  Proper(Reply)' /\ (Headed(v) => Headed(Reply)')
BY DEF Proper, Headed

LEMMA OutIs ==
  ASSUME NEW v, out' = v, Headed(v)
  PROVE  Headed(out)'
BY DEF Headed

(* Behind a complete head a piece of the body may stand.                   *)
LEMMA WithBody ==
  ASSUME NEW s, Proper(s), Headed(s), NEW x \in {"body", "message"}
  PROVE  <<x>> \in Seq(Tokens) /\ Proper(s \o <<x>>) /\ Headed(s \o <<x>>)
<1>1. s \in Seq(Tokens) /\ <<x>> \in Seq(Tokens)
  BY DEF Proper, Tokens
<1>2. PICK u : u = s \o <<x>>
  OBVIOUS
<1>3. /\ u \in Seq(Tokens) /\ Len(u) = Len(s) + 1 /\ Len(s) \in Nat
      /\ \A k \in 1 .. Len(s) : u[k] = s[k]
      /\ u[Len(s) + 1] = x /\ DOMAIN s = 1 .. Len(s)
  BY <1>1, <1>2
<1>4. s[1] \in Statuses /\ Len(s) >= 1
  BY <1>1 DEF Headed
<1>5. u[1] \in Statuses
  BY <1>3, <1>4
<1>6. \A k \in 2 .. Len(u) : u[k] \notin Statuses
  <2>1. ASSUME NEW k \in 2 .. Len(u) PROVE u[k] \notin Statuses
    <3>1. CASE k \in 2 .. Len(s)
      BY <1>3, <3>1 DEF Proper
    <3>2. CASE k = Len(s) + 1
      BY <1>3, <3>2 DEF Statuses
    <3> QED
      BY <1>3, <3>1, <3>2
  <2> QED
    BY <2>1
<1>7. PICK b \in 1 .. Len(s) : s[b] = "blank" /\ \A j \in 2 .. b - 1 : s[j] = "field"
  BY <1>3 DEF Headed
<1>8. \A k \in 1 .. Len(u) : u[k] \in {"body", "message"} =>
         \E j \in 1 .. k - 1 : u[j] = "blank" /\ \A i \in 2 .. j - 1 : u[i] = "field"
  <2>1. ASSUME NEW k \in 1 .. Len(u), u[k] \in {"body", "message"}
        PROVE  \E j \in 1 .. k - 1 : u[j] = "blank" /\ \A i \in 2 .. j - 1 : u[i] = "field"
    <3>1. CASE k \in 1 .. Len(s)
      <4>1. s[k] \in {"body", "message"}
        BY <1>3, <2>1, <3>1
      <4>2. PICK j \in 1 .. k - 1 : s[j] = "blank" /\ \A i \in 2 .. j - 1 : s[i] = "field"
        BY <3>1, <4>1 DEF Proper
      <4>3. j \in 1 .. Len(s) /\ \A i \in 2 .. j - 1 : i \in 1 .. Len(s)
        BY <1>3, <3>1
      <4> QED
        BY <1>3, <4>2, <4>3
    <3>2. CASE k = Len(s) + 1
      <4>1. u[b] = "blank" /\ \A i \in 2 .. b - 1 : u[i] = s[i]
        BY <1>3, <1>7
      <4>2. b \in 1 .. k - 1
        BY <1>3, <1>7, <3>2
      <4> QED
        BY <1>7, <4>1, <4>2
    <3> QED
      BY <1>3, <3>1, <3>2
  <2> QED
    BY <2>1
<1>9. Proper(u)
  BY <1>3, <1>5, <1>6, <1>8 DEF Proper
<1>10. Headed(u)
  BY <1>1, <1>2, Beginning
<1> QED
  BY <1>1, <1>2, <1>9, <1>10

(* The heads that the program writes.                                      *)
LEMMA Heads ==
  ASSUME NEW c \in Statuses
  PROVE  /\ Proper(<<c, "blank">>) /\ Headed(<<c, "blank">>)
         /\ Proper(<<c, "field", "blank">>) /\ Headed(<<c, "field", "blank">>)
<1>1. PICK a, b : a = <<c, "blank">> /\ b = <<c, "field", "blank">>
  OBVIOUS
<1>2. /\ Len(a) = 2 /\ a[1] = c /\ a[2] = "blank" /\ DOMAIN a = 1 .. 2
      /\ Len(b) = 3 /\ b[1] = c /\ b[2] = "field" /\ b[3] = "blank" /\ DOMAIN b = 1 .. 3
  BY <1>1
<1>3. a \in Seq(Tokens) /\ b \in Seq(Tokens)
  BY <1>1 DEF Tokens
<1>4. c \notin {"field", "blank", "body", "message"} /\ {"field", "blank"} \cap Statuses = {}
  BY DEF Statuses
<1>5. Proper(a) /\ Proper(b)
  BY <1>2, <1>3, <1>4 DEF Proper
<1>6. Headed(a)
  BY <1>1, <1>2, <1>4 DEF Headed
<1>7. Headed(b)
  <2>1. 3 \in DOMAIN b /\ b[3] = "blank" /\ \A j \in 2 .. 3 - 1 : b[j] = "field"
    BY <1>2
  <2> QED
    BY <1>1, <1>2, <2>1 DEF Headed
<1> QED
  BY <1>1, <1>5, <1>6, <1>7

LEMMA LongHeads ==
  ASSUME NEW c \in Statuses, NEW f \in Seq({"field"}), NEW s, s = <<c>> \o f \o <<"blank">>
  PROVE  Proper(s) /\ Headed(s) /\ s[1] = c
<1>1. PICK n : n = Len(f) + 2
  OBVIOUS
<1>2. /\ n \in Nat /\ n >= 2 /\ Len(s) = n /\ s[1] = c /\ DOMAIN s = 1 .. n /\ s # <<>>
      /\ \A k \in 2 .. n - 1 : s[k] = f[k - 1]
      /\ s[n] = "blank"
  BY <1>1
<1>3. \A k \in 2 .. n - 1 : f[k - 1] \in {"field"}
  BY <1>1
<1>4. c \in Tokens /\ "field" \in Tokens /\ "blank" \in Tokens
  BY DEF Tokens
<1>5. <<c>> \in Seq(Tokens) /\ <<"blank">> \in Seq(Tokens) /\ f \in Seq(Tokens)
  BY <1>4
<1>6. s \in Seq(Tokens)
  BY <1>5
<1>7. c \notin {"field", "blank", "body", "message"} /\ {"field", "blank"} \cap Statuses = {}
  BY DEF Statuses
<1>8. \A k \in 1 .. n : (k = 1 /\ s[k] = c) \/ (k # 1 /\ s[k] \in {"field", "blank"})
  BY <1>2, <1>3
<1>9. Proper(s)
  BY <1>2, <1>6, <1>7, <1>8 DEF Proper
<1>10. n \in DOMAIN s /\ \A j \in 2 .. n - 1 : s[j] = "field"
  BY <1>2, <1>3
<1>11. Headed(s)
  BY <1>2, <1>10 DEF Headed
<1> QED
  BY <1>2, <1>9, <1>11

(* What is thrown and where a page goes on.                                *)
LEMMA FoundIs ==
  ASSUME NEW n \in Nat
  PROVE  Proper(Found(n)) /\ Headed(Found(n)) /\ Found(n)[1] = "302"
<1>1. [k \in 1 .. n |-> "field"] \in Seq({"field"}) /\ "302" \in Statuses
  BY DEF Statuses
<1> QED
  BY <1>1, LongHeads DEF Found

LEMMA CatchIs ==
  ASSUME NEW c \in Statuses, Catch(c)
  PROVE  \E s : /\ Write(s, "kill")
                /\ Proper(s) /\ Headed(s) /\ s[1] = c
<1>1. PICK f : f = IF c = "401" THEN <<"field">> ELSE <<>>
  OBVIOUS
<1>2. f \in Seq({"field"})
  <2>1. <<>> \in Seq({"field"}) /\ <<"field">> \in Seq({"field"})
    OBVIOUS
  <2> QED
    BY <1>1, <2>1
<1>3. PICK s : s = <<c>> \o f \o <<"blank">>
  OBVIOUS
<1>4. Write(s, "kill")
  BY <1>1, <1>3 DEF Catch
<1> QED
  BY <1>2, <1>3, <1>4, LongHeads

LEMMA LinesAre ==
  ASSUME request \in Requests
  PROVE  /\ Len(Lines) \in Nat /\ Len(Lines) >= 2 /\ Len(Lines) = Len(request.headers) + 2
         /\ Lines[1] = request.size /\ Head(Lines) = request.size
         /\ \A k \in 2 .. Len(Lines) - 1 : /\ k - 1 \in DOMAIN request.headers
                                           /\ Lines[k] = request.headers[k - 1]
                                           /\ Lines[k] \in Nat \ {0}
         /\ Lines[Len(Lines)] = 0
         /\ request.size \in Nat \ {0} /\ request.what \in Whats
<1>1. /\ request.headers \in Seq(Nat \ {0}) /\ request.size \in Nat \ {0}
      /\ request.what \in Whats
  BY HttpAssumption
<1>2. PICK h, n, s : h = request.headers /\ n = Len(h) /\ s = request.size
  OBVIOUS
<1>3. PICK l : l = <<s>> \o h \o <<0>>
  OBVIOUS
<1>4. /\ l = Lines /\ Len(l) = n + 2 /\ n \in Nat /\ l[1] = s /\ Head(l) = s
      /\ \A k \in 2 .. n + 1 : l[k] = h[k - 1]
      /\ l[n + 2] = 0
  BY <1>1, <1>2, <1>3 DEF Lines
<1>5. \A k \in 2 .. n + 1 : k - 1 \in 1 .. n /\ k - 1 \in DOMAIN h /\ h[k - 1] \in Nat \ {0}
  BY <1>1, <1>2
<1> QED
  BY <1>1, <1>2, <1>4, <1>5

(* What readLine leaves of a long line has the same remainder.             *)
LEMMA SameRest ==
  ASSUME NEW n \in Nat, NEW m \in Nat \ {0}, n >= m
  PROVE  (n - m) % m = n % m
<1>1. PICK q, r : q = n \div m /\ r = n % m
  OBVIOUS
<1>2. q \in Nat /\ r \in 0 .. m - 1 /\ n = m * q + r
  BY <1>1
<1>3. n - m = m * (q - 1) + r
  BY <1>2
<1> QED
  BY <1>1, <1>2, <1>3

-----------------------------------------------------------------------------
(* What the answer is at each point: one that is written begins with a     *)
(* whole head, nothing else has been begun before it, and what ends        *)
(* without one has a reason.                                               *)
ReplyInv ==
  /\ Proper(Reply)
  /\ pc # "write" => todo = <<>>
  /\ pc \in Early => out = <<>>
  /\ pc = "write" => Headed(Reply)
  /\ pc \in {"open", "close file", "send"} \/ (pc = "write" /\ then = "close file") => Headed(out)
  /\ pc \in {"kill", "closed"} /\ peer = "prompt" /\ ~Unanswered => Headed(out)

(* Which requests get how far.                                             *)
RequestInv ==
  /\ pc \in Early \ {"request"} =>
       /\ HasProtocol /\ request.what \notin {"rtsp", "method"}
       /\ request.what # "path" => allowed
  /\ pc = "file" => request.what \in Files
  /\ pc = "command" => request.what \in Commands
  /\ pc \in {"stream", "wait"} => request.what = "stream"
  /\ pc \in {"open", "close file"} \/ (pc = "write" /\ then \in {"open", "close file"}) =>
       request.what \in Pages
  /\ pc = "write" => then \in {"kill", "open", "close file", "send"}
  /\ pc \in Early => done = 0

(* The file and the writes to its page that failed.                        *)
FileInv ==
  /\ pc \in Early \cup {"open"} \/ (pc = "write" /\ then = "open") => failed = 0
  /\ file = "open" =>
       \/ /\ pc = "write" /\ then = "close file"
          /\ \/ todo = <<>>
             \/ todo = <<"body">> /\ failed = 0
             \/ todo = <<"message">> /\ failed = 1 /\ request.what = "template"
       \/ pc = "close file"
       \/ pc \in {"kill", "closed"} /\ request.what = "template" /\ failed = 2

(* The headers have been read to their end.                                *)
Behind == line > Len(Lines)

(* Who is reading what.                                                    *)
FitInv ==
  /\ pc = "request" => line = 1 /\ left = request.size
  /\ pc = "headers" =>
       /\ line \in 2 .. Len(Lines)
       /\ line = Len(Lines) => left = 0
       /\ line # Len(Lines) => left \in Nat \ {0} /\ Fits(left, HeaderMax)
  /\ pc \in {"file", "command", "stream", "wait", "open", "close file", "send"} => Behind
  /\ pc = "write" /\ then # "kill" => Behind
  /\ Reply # <<>> /\ Reply[1] \notin {"400", "503"} => Behind
  /\ done = 1 => Behind

LineInv ==
  /\ 1 <= line /\ line <= sent + 1 /\ sent <= Len(Lines)
  /\ lost => pc = "closed" /\ ~Behind
  /\ LinesFit => FitInv

HttpInv == HttpType /\ ReplyInv /\ RequestInv /\ FileInv /\ LineInv

-----------------------------------------------------------------------------
(* The steps. What stays of a request while it is answered.                *)
SameRequest == UNCHANGED <<request, allowed, active, peer, file, lost>>

LEMMA RequestStays ==
  ASSUME request' = request
  PROVE  Lines' = Lines /\ HasProtocol' = HasProtocol /\ LinesFit' = LinesFit
BY DEF Lines, HasProtocol, LinesFit, Fits

(* Who gets no answer gets none any more.                                  *)
LEMMA StillUnanswered ==
  ASSUME request' = request, allowed' = allowed, out' = out, active' = active \/ active' = FALSE
  PROVE  Unanswered => Unanswered'
BY RequestStays DEF Unanswered

(* A point before the answer is left for a head ...                        *)
LEMMA Answers ==
  ASSUME HttpInv, pc \in Early, SameRequest,
         NEW s, NEW n \in {"kill", "open", "send"}, Write(s, n), Proper(s), Headed(s),
         n = "open" => request.what \in Pages,
         sent' = sent /\ line' \in Nat /\ left' \in Int /\ 1 <= line' /\ line' <= sent + 1,
         chan' = chan /\ waits' \in 0 .. WaitMax /\ done' \in 0 .. 1,
         LinesFit => line' > Len(Lines) \/ (n = "kill" /\ s[1] \in {"400", "503"} /\ done' = 0)
  PROVE  HttpInv'
<1>1. /\ todo' = s /\ then' = n /\ pc' = "write" /\ out' = out /\ failed' = failed
      /\ request' = request /\ allowed' = allowed /\ active' = active /\ peer' = peer /\ file' = file /\ lost' = lost
  BY DEF Write, SameRequest
<1>2. /\ out = <<>> /\ s \in Seq(Tokens) /\ pc # "closed" /\ failed = 0 /\ file # "open"
  BY DEF HttpInv, ReplyInv, FileInv, Early, Proper
<1>3. Reply' = s
  BY <1>1, <1>2, Beginning DEF Reply
<1>4. HttpType'
  BY <1>1, <1>2 DEF HttpInv, HttpType
<1>5. ReplyInv'
  <2>1. pc' = "write" /\ then' # "close file" /\ pc' \notin Early
    BY <1>1 DEF Early
  <2>2. Proper(Reply)' /\ Headed(Reply)'
    BY <1>3 DEF Proper, Headed
  <2> QED
    BY <2>1, <2>2 DEF ReplyInv
<1>6. RequestInv'
  BY <1>1 DEF RequestInv, Early
<1>7. FileInv'
  BY <1>1, <1>2 DEF FileInv, Early
<1>8. LineInv'
  <2>1. Lines' = Lines /\ (LinesFit' = LinesFit)
    BY <1>1, RequestStays
  <2>2. ~lost /\ sent <= Len(Lines)
    BY <1>2 DEF HttpInv, LineInv
  <2>3. ASSUME LinesFit PROVE FitInv'
    BY <1>1, <1>3, <2>1, <2>3 DEF FitInv, Behind
  <2> QED
    BY <1>1, <2>1, <2>2, <2>3 DEF LineInv
<1> QED
  BY <1>4, <1>5, <1>6, <1>7, <1>8 DEF HttpInv

(* ... or for another one ...                                              *)
LEMMA GoesOn ==
  ASSUME HttpInv, pc \in Early, SameRequest, UNCHANGED writing, UNCHANGED done,
         pc' \in Early, pc' # "request", RequestInv',
         sent' = sent /\ line' \in Nat /\ left' \in Int /\ 1 <= line' /\ line' <= sent + 1,
         chan' = chan /\ waits' \in 0 .. WaitMax,
         LinesFit => IF pc' = "headers"
                       THEN /\ line' \in 2 .. Len(Lines)
                            /\ line' = Len(Lines) => left' = 0
                            /\ line' # Len(Lines) => left' \in Nat \ {0} /\ Fits(left', HeaderMax)
                       ELSE line' > Len(Lines)
  PROVE  HttpInv'
<1>1. /\ todo' = todo /\ then' = then /\ out' = out /\ failed' = failed /\ done' = done
      /\ request' = request /\ allowed' = allowed /\ active' = active /\ peer' = peer /\ file' = file /\ lost' = lost
  BY DEF writing, SameRequest
<1>2. /\ out = <<>> /\ todo = <<>> /\ pc # "closed" /\ failed = 0 /\ file # "open" /\ done = 0
  BY DEF HttpInv, ReplyInv, FileInv, RequestInv, Early
<1>3. Reply' = <<>> /\ Reply = <<>>
  BY <1>1, <1>2, Beginning DEF Reply, Tokens
<1>4. HttpType'
  BY <1>1 DEF HttpInv, HttpType
<1>5. ReplyInv'
  <2>1. pc' \notin {"write", "open", "close file", "send", "kill", "closed"}
    BY DEF Early
  <2>2. Proper(Reply)
    BY DEF HttpInv, ReplyInv
  <2>3. Proper(Reply)'
    BY <1>3, <2>2 DEF Proper
  <2> QED
    BY <1>1, <1>2, <2>1, <2>3 DEF ReplyInv
<1>6. FileInv'
  BY <1>1, <1>2 DEF FileInv, Early
<1>7. LineInv'
  <2>1. Lines' = Lines /\ (LinesFit' = LinesFit)
    BY <1>1, RequestStays
  <2>2. ~lost /\ sent <= Len(Lines)
    BY <1>2 DEF HttpInv, LineInv
  <2>3. ASSUME LinesFit PROVE FitInv'
    <3>1. Fits(left, HeaderMax)' <=> Fits(left', HeaderMax)
      BY DEF Fits
    <3>2. pc' \notin {"write", "request"}
      BY DEF Early
    <3>3. pc' \in {"file", "command", "stream", "wait", "open", "close file", "send"} => Behind'
      BY <2>1, <2>3 DEF Behind
    <3>4. pc' = "headers" =>
            /\ line' \in 2 .. Len(Lines')
            /\ line' = Len(Lines') => left' = 0
            /\ line' # Len(Lines') => left' \in Nat \ {0} /\ Fits(left', HeaderMax)
      BY <2>1, <2>3
    <3>5. Reply' = <<>> /\ done' # 1
      BY <1>1, <1>2, <1>3
    <3> QED
      BY <3>1, <3>2, <3>3, <3>4, <3>5 DEF FitInv
  <2> QED
    BY <1>1, <2>1, <2>2, <2>3 DEF LineInv
<1> QED
  BY <1>4, <1>5, <1>6, <1>7 DEF HttpInv

(* ... or, for a reason, for nothing.                                      *)
LEMMA Ends ==
  ASSUME HttpInv, pc \in Early, SameRequest, Aborted, UNCHANGED done,
         peer # "prompt" \/ Unanswered,
         sent' = sent /\ line' \in Nat /\ left' \in Int /\ 1 <= line' /\ line' <= sent + 1,
         chan' = chan /\ waits' = waits
  PROVE  HttpInv'
<1>1. /\ todo' = todo /\ then' = then /\ out' = out /\ failed' = failed /\ done' = done
      /\ request' = request /\ allowed' = allowed /\ active' = active /\ peer' = peer /\ file' = file /\ lost' = lost
      /\ pc' = "kill"
  BY DEF writing, SameRequest, Aborted
<1>2. /\ out = <<>> /\ todo = <<>> /\ pc # "closed" /\ failed = 0 /\ file # "open" /\ done = 0
  BY DEF HttpInv, ReplyInv, FileInv, RequestInv, Early
<1>3. Reply' = <<>> /\ Reply = <<>>
  BY <1>1, <1>2, Beginning DEF Reply, Tokens
<1>4. HttpType'
  BY <1>1 DEF HttpInv, HttpType
<1>5. ReplyInv'
  <2>1. Proper(Reply)
    BY DEF HttpInv, ReplyInv
  <2>2. Proper(Reply)'
    BY <1>3, <2>1 DEF Proper
  <2>3. Unanswered => Unanswered'
    BY <1>1, StillUnanswered
  <2> QED
    BY <1>1, <1>2, <2>2, <2>3 DEF ReplyInv, Early
<1>6. RequestInv'
  BY <1>1 DEF RequestInv, Early
<1>7. FileInv'
  BY <1>1, <1>2 DEF FileInv, Early
<1>8. LineInv'
  <2>1. Lines' = Lines /\ (LinesFit' = LinesFit)
    BY <1>1, RequestStays
  <2>2. ~lost /\ sent <= Len(Lines)
    BY <1>2 DEF HttpInv, LineInv
  <2>3. FitInv'
    BY <1>1, <1>2, <1>3 DEF FitInv
  <2> QED
    BY <1>1, <2>1, <2>2, <2>3 DEF LineInv
<1> QED
  BY <1>4, <1>5, <1>6, <1>7, <1>8 DEF HttpInv

-----------------------------------------------------------------------------
(* Reading.                                                                *)
LEMMA ReadLineIs ==
  ASSUME HttpInv, NEW max \in Nat \ {0, 1}, ReadLine(max)
  PROVE  /\ sent' = sent /\ line <= sent /\ sent <= Len(Lines)
         /\ line' \in Nat /\ left' \in Int /\ 1 <= line' /\ line' <= sent + 1
         /\ left + 2 <= max => /\ line' = line + 1
                               /\ line < Len(Lines) => left' = Lines[line + 1]
         /\ left + 2 > max => line' = line /\ left' = left - max
<1>1. /\ request \in Requests /\ sent \in Nat /\ line \in Nat /\ left \in Int
      /\ 1 <= line /\ line <= sent + 1 /\ sent <= Len(Lines)
  BY DEF HttpInv, HttpType, LineInv
<1>2. /\ line <= sent /\ sent' = sent
      /\ IF left + 2 - max <= 0
           THEN /\ line' = line + 1
                /\ left' = IF line < Len(Lines) THEN Lines[line + 1] ELSE -1
           ELSE left' = left - max /\ line' = line
  BY DEF ReadLine
<1>3. line < Len(Lines) => Lines[line + 1] \in Int
  <2>1. /\ Len(Lines) \in Nat /\ Lines[Len(Lines)] = 0
        /\ \A k \in 2 .. Len(Lines) - 1 : Lines[k] \in Nat \ {0}
    BY <1>1, LinesAre
  <2> QED
    BY <1>1, <2>1
<1> QED
  BY <1>1, <1>2, <1>3

LEMMA GotIs ==
  ASSUME left \in Int, NEW max \in Nat \ {0, 1}
  PROVE  Got(max) > 0 <=> left > 0
<1>1. PICK m : m = Max({left, 0})
  OBVIOUS
<1>2. m = IF left < 0 THEN 0 ELSE left
  BY <1>1, MaxOfTwo
<1>3. Min({max, m}) \in {max, m} /\ Min({max, m}) <= m
  BY <1>2, MinOfTwo
<1>4. Got(max) = Min({max, m})
  BY <1>1 DEF Got
<1> QED
  BY <1>2, <1>3, <1>4

LEMMA ReadRequestStep ==
  ASSUME HttpInv, ReadRequest
  PROVE  HttpInv'
<1>1. /\ pc = "request" /\ pc \in Early /\ SameRequest
      /\ chan' = chan /\ waits' = waits /\ done' = done
      /\ ReadLine(RequestMax) /\ RequestMax \in Nat \ {0, 1}
  BY HttpAssumption DEF ReadRequest, Early, SameRequest
<1>2. /\ sent' = sent /\ sent <= Len(Lines) /\ line' \in Nat /\ left' \in Int
      /\ 1 <= line' /\ line' <= sent + 1
      /\ left + 2 <= RequestMax => /\ line' = line + 1
                                   /\ line < Len(Lines) => left' = Lines[line + 1]
  BY <1>1, ReadLineIs
<1>3. /\ request \in Requests /\ waits' \in 0 .. WaitMax /\ done = 0 /\ done' \in 0 .. 1
      /\ allowed \in BOOLEAN /\ peer' = peer /\ request' = request /\ allowed' = allowed /\ active' = active
  BY <1>1 DEF HttpInv, HttpType, RequestInv, SameRequest
<1>4. CASE ~HasProtocol
  <2>1. Aborted
    BY <1>4 DEF ReadRequest
  <2>2. Unanswered
    BY <1>4 DEF Unanswered
  <2> QED
    BY <1>1, <1>2, <2>1, <2>2, Ends
<1>5. ASSUME NEW c \in {"400", "503"}, Catch(c) PROVE HttpInv'
  <2>1. PICK s : Write(s, "kill") /\ Proper(s) /\ Headed(s) /\ s[1] = c
    BY <1>5, CatchIs DEF Statuses
  <2> QED
    BY <1>1, <1>2, <1>3, <2>1, Answers
<1>6. CASE /\ HasProtocol /\ request.what \notin {"rtsp", "method"}
           /\ request.what # "path" => allowed
           /\ pc' = "headers" /\ UNCHANGED writing
  <2>1. pc' \in Early /\ pc' # "request"
    BY <1>6 DEF Early
  <2>2. HasProtocol' = HasProtocol
    BY <1>3, RequestStays
  <2>3. RequestInv'
    BY <1>1, <1>3, <1>6, <2>2 DEF RequestInv
  <2>4. /\ Len(Lines) >= 2 /\ Lines[Len(Lines)] = 0 /\ Len(Lines) = Len(request.headers) + 2
        /\ Len(Lines) \in Nat /\ request.headers \in Seq(Nat \ {0})
        /\ \A k \in 2 .. Len(Lines) - 1 : /\ k - 1 \in DOMAIN request.headers
                                          /\ Lines[k] = request.headers[k - 1]
                                          /\ Lines[k] \in Nat \ {0}
    BY <1>3, LinesAre, HttpAssumption
  <2>5. ASSUME LinesFit
        PROVE  /\ line' \in 2 .. Len(Lines)
               /\ line' = Len(Lines) => left' = 0
               /\ line' # Len(Lines) => left' \in Nat \ {0} /\ Fits(left', HeaderMax)
    <3>1. line = 1 /\ left = request.size /\ request.size + 2 <= RequestMax
      BY <1>1, <2>5 DEF HttpInv, LineInv, FitInv, LinesFit
    <3>2. line' = 2 /\ left' = Lines[2]
      BY <1>2, <2>4, <3>1
    <3>3. ASSUME Len(Lines) # 2
          PROVE  Lines[2] \in Nat \ {0} /\ Fits(Lines[2], HeaderMax)
      <4>1. /\ 2 - 1 \in DOMAIN request.headers /\ Lines[2] = request.headers[2 - 1]
            /\ Lines[2] \in Nat \ {0}
        BY <2>4, <3>3
      <4> QED
        BY <2>5, <4>1 DEF LinesFit
    <3> QED
      BY <2>4, <3>2, <3>3
  <2> QED
    BY <1>1, <1>2, <1>3, <1>6, <2>1, <2>3, <2>5, GoesOn
<1> QED
  <2>1. request.what \in Whats
    BY <1>3, LinesAre
  <2>2. \/ Catch("400") \/ Catch("503")
        \/ /\ request.what \notin {"rtsp", "method"}
           /\ request.what # "path" => allowed
           /\ pc' = "headers" /\ UNCHANGED writing
        \/ ~HasProtocol
    BY <2>1 DEF ReadRequest, Whats
  <2> QED
    BY <1>4, <1>5, <1>6, <2>2

LEMMA NextHeaderStep ==
  ASSUME HttpInv, NextHeader
  PROVE  HttpInv'
<1>1. /\ pc = "headers" /\ pc \in Early /\ pc \in Early \ {"request"} /\ SameRequest
      /\ chan' = chan /\ waits' = waits /\ done' = done
      /\ ReadLine(HeaderMax) /\ HeaderMax \in Nat \ {0, 1}
      /\ IF Got(HeaderMax) > 0 THEN UNCHANGED <<pc, writing>> ELSE AfterHeaders
  BY HttpAssumption DEF NextHeader, Early, SameRequest
<1>2. /\ sent' = sent /\ sent <= Len(Lines) /\ line <= sent /\ line' \in Nat /\ left' \in Int
      /\ 1 <= line' /\ line' <= sent + 1
      /\ left + 2 <= HeaderMax => /\ line' = line + 1
                                  /\ line < Len(Lines) => left' = Lines[line + 1]
      /\ left + 2 > HeaderMax => line' = line /\ left' = left - HeaderMax
  BY <1>1, ReadLineIs
<1>3. /\ request \in Requests /\ waits' \in 0 .. WaitMax /\ done = 0 /\ done' \in 0 .. 1
      /\ request' = request /\ allowed' = allowed /\ active' = active /\ left \in Int /\ sent \in Nat
      /\ HasProtocol /\ request.what \notin {"rtsp", "method"}
      /\ request.what # "path" => allowed
  BY <1>1 DEF HttpInv, HttpType, RequestInv, SameRequest
<1>4. Got(HeaderMax) > 0 <=> left > 0
  BY <1>1, <1>3, GotIs
<1>5. HasProtocol' = HasProtocol
  BY <1>3, RequestStays
<1>6. LinesFit => /\ line \in 2 .. Len(Lines)
                  /\ line = Len(Lines) => left = 0
                  /\ line # Len(Lines) => left \in Nat \ {0} /\ Fits(left, HeaderMax)
  BY <1>1 DEF HttpInv, LineInv, FitInv
<1>7. /\ Len(Lines) \in Nat /\ Lines[Len(Lines)] = 0 /\ Len(Lines) = Len(request.headers) + 2
      /\ \A k \in 2 .. Len(Lines) - 1 : /\ k - 1 \in DOMAIN request.headers
                                        /\ Lines[k] = request.headers[k - 1]
                                        /\ Lines[k] \in Nat \ {0}
      /\ request.what \in Whats
  BY <1>3, LinesAre
<1>8. CASE Got(HeaderMax) > 0
  <2>1. pc' = "headers" /\ UNCHANGED writing /\ pc' \in Early /\ pc' # "request"
    BY <1>1, <1>8
  <2>2. RequestInv'
    BY <1>1, <1>3, <1>5, <2>1 DEF RequestInv
  <2>3. ASSUME LinesFit
        PROVE  /\ line' \in 2 .. Len(Lines)
               /\ line' = Len(Lines) => left' = 0
               /\ line' # Len(Lines) => left' \in Nat \ {0} /\ Fits(left', HeaderMax)
    <3>1. line \in 2 .. Len(Lines) - 1 /\ left \in Nat \ {0} /\ Fits(left, HeaderMax)
      BY <1>4, <1>6, <1>7, <1>8, <2>3
    <3>2. CASE left + 2 <= HeaderMax
      <4>1. line' = line + 1 /\ left' = Lines[line + 1]
        BY <1>2, <3>1, <3>2
      <4>2. ASSUME line + 1 # Len(Lines)
            PROVE  Lines[line + 1] \in Nat \ {0} /\ Fits(Lines[line + 1], HeaderMax)
        <5>1. /\ line + 1 - 1 \in DOMAIN request.headers
              /\ Lines[line + 1] = request.headers[line + 1 - 1]
              /\ Lines[line + 1] \in Nat \ {0}
          BY <1>7, <3>1, <4>2
        <5> QED
          BY <2>3, <5>1 DEF LinesFit
      <4> QED
        BY <1>7, <3>1, <4>1, <4>2
    <3>3. CASE left + 2 > HeaderMax
      <4>1. line' = line /\ left' = left - HeaderMax
        BY <1>2, <3>3
      <4>2. left % HeaderMax \notin {0, HeaderMax - 1}
        BY <3>1 DEF Fits
      <4>3. left # HeaderMax /\ left # HeaderMax - 1
        <5>1. HeaderMax % HeaderMax = 0 /\ (HeaderMax - 1) % HeaderMax = HeaderMax - 1
          BY <1>1
        <5> QED
          BY <4>2, <5>1
      <4>4. left - HeaderMax \in Nat \ {0} /\ left >= HeaderMax
        BY <1>1, <3>1, <3>3, <4>3
      <4>5. (left - HeaderMax) % HeaderMax = left % HeaderMax
        BY <1>1, <3>1, <4>4, SameRest
      <4>6. Fits(left - HeaderMax, HeaderMax)
        BY <4>2, <4>5 DEF Fits
      <4> QED
        BY <3>1, <4>1, <4>4, <4>6
    <3> QED
      BY <1>1, <3>1, <3>2, <3>3
  <2> QED
    BY <1>1, <1>2, <1>3, <2>1, <2>2, <2>3, GoesOn
<1>9. CASE ~(Got(HeaderMax) > 0)
  <2>1. LinesFit => line' > Len(Lines)
    BY <1>1, <1>2, <1>4, <1>6, <1>7, <1>9
  <2>2. CASE request.what = "path"
    <3>1. Write(Found(1), "kill")
      BY <1>1, <1>9, <2>2 DEF AfterHeaders, Files, Pages, Commands
    <3>2. Proper(Found(1)) /\ Headed(Found(1))
      BY FoundIs
    <3> QED
      BY <1>1, <1>2, <1>3, <2>1, <3>1, <3>2, Answers
  <2>3. CASE request.what # "path"
    <3>1. /\ pc' \in {"file", "command", "stream"} /\ UNCHANGED writing
          /\ pc' = "file" => request.what \in Files
          /\ pc' = "command" => request.what \in Commands
          /\ pc' = "stream" => request.what = "stream"
      BY <1>1, <1>3, <1>7, <1>9, <2>3 DEF AfterHeaders, Whats, Files, Pages, Commands
    <3>2. pc' \in Early /\ pc' # "request" /\ pc' # "headers"
      BY <3>1 DEF Early
    <3>3. RequestInv'
      BY <1>1, <1>3, <1>5, <2>3, <3>1 DEF RequestInv
    <3> QED
      BY <1>1, <1>2, <1>3, <2>1, <3>1, <3>2, <3>3, GoesOn
  <2> QED
    BY <2>2, <2>3
<1> QED
  BY <1>8, <1>9

LEMMA SilenceStep ==
  ASSUME HttpInv, TimedOut \/ ClosedOnRead
  PROVE  HttpInv'
<1>1. /\ pc \in Early /\ SameRequest /\ peer # "prompt"
      /\ chan' = chan /\ waits' = waits /\ done' = done /\ Aborted
      /\ sent' = sent /\ line' = line /\ left' = left
  BY DEF TimedOut, ClosedOnRead, Early, SameRequest, reading
<1>2. line \in Nat /\ left \in Int /\ 1 <= line /\ line <= sent + 1
  BY DEF HttpInv, HttpType, LineInv
<1> QED
  BY <1>1, <1>2, Ends

-----------------------------------------------------------------------------
(* The handshakes.                                                         *)
LEMMA HandshakeCMDStep ==
  ASSUME HttpInv, HandshakeCMD
  PROVE  HttpInv'
<1>1. /\ pc = "command" /\ pc \in Early /\ SameRequest
      /\ chan' = chan /\ waits' = waits
      /\ sent' = sent /\ line' = line /\ left' = left
      /\ done' = done + (IF request.what = "other" THEN 0 ELSE 1)
  BY DEF HandshakeCMD, Early, SameRequest, reading
<1>2. /\ line \in Nat /\ left \in Int /\ 1 <= line /\ line <= sent + 1
      /\ waits' \in 0 .. WaitMax /\ done = 0
      /\ LinesFit => line > Len(Lines)
  BY <1>1 DEF HttpInv, HttpType, LineInv, FitInv, RequestInv, Behind
<1>3. done' \in 0 .. 1
  BY <1>1, <1>2
<1>4. ASSUME NEW s, Write(s, "kill"), Proper(s), Headed(s)
      PROVE  HttpInv'
  BY <1>1, <1>2, <1>3, <1>4, Answers
<1>5. /\ Proper(Found(1)) /\ Headed(Found(1)) /\ Proper(Found(2)) /\ Headed(Found(2))
      /\ Proper(<<"404", "blank">>) /\ Headed(<<"404", "blank">>)
      /\ Proper(<<"200", "blank">>) /\ Headed(<<"200", "blank">>)
  BY FoundIs, Heads DEF Statuses
<1>6. \/ Write(Found(1), "kill") \/ Write(Found(2), "kill")
      \/ Write(<<"404", "blank">>, "kill") \/ Write(<<"200", "blank">>, "kill")
  BY DEF HandshakeCMD
<1> QED
  BY <1>4, <1>5, <1>6

LEMMA HandshakeLocalFileStep ==
  ASSUME HttpInv, HandshakeLocalFile
  PROVE  HttpInv'
<1>1. /\ pc = "file" /\ pc \in Early /\ SameRequest
      /\ chan' = chan /\ waits' = waits /\ done' = done
      /\ sent' = sent /\ line' = line /\ left' = left
  BY DEF HandshakeLocalFile, Early, SameRequest, reading
<1>2. /\ line \in Nat /\ left \in Int /\ 1 <= line /\ line <= sent + 1
      /\ waits' \in 0 .. WaitMax /\ done' \in 0 .. 1
      /\ LinesFit => line > Len(Lines)
      /\ request.what \in Files /\ (request.what # "path" => allowed)
  BY <1>1 DEF HttpInv, HttpType, LineInv, FitInv, RequestInv, Behind, Early
<1>3. CASE request.what \in Pages
  <2>1. Write(<<"200", "field", "blank">>, "open")
    BY <1>3 DEF HandshakeLocalFile
  <2>2. Proper(<<"200", "field", "blank">>) /\ Headed(<<"200", "field", "blank">>)
    BY Heads DEF Statuses
  <2> QED
    BY <1>1, <1>2, <1>3, <2>1, <2>2, Answers
<1>4. CASE request.what \notin Pages
  <2>1. Aborted
    BY <1>4 DEF HandshakeLocalFile, Aborted
  <2>2. Unanswered
    BY <1>2, <1>4 DEF Files, Unanswered
  <2> QED
    BY <1>1, <1>2, <2>1, <2>2, Ends
<1> QED
  BY <1>3, <1>4

LEMMA HandshakeStreamStep ==
  ASSUME HttpInv, HandshakeStream
  PROVE  HttpInv'
<1>1. /\ pc = "stream" /\ pc \in Early /\ SameRequest
      /\ chan' = chan /\ waits' = waits /\ done' = done
      /\ sent' = sent /\ line' = line /\ left' = left
  BY DEF HandshakeStream, Early, SameRequest, reading
<1>2. /\ line \in Nat /\ left \in Int /\ 1 <= line /\ line <= sent + 1
      /\ waits' \in 0 .. WaitMax /\ done' \in 0 .. 1 /\ done = 0
      /\ LinesFit => line > Len(Lines)
      /\ request' = request /\ allowed' = allowed /\ active' = active
      /\ HasProtocol /\ request.what = "stream" /\ allowed
  BY <1>1 DEF HttpInv, HttpType, LineInv, FitInv, RequestInv, Behind, Early, SameRequest
<1>3. CASE Catch("503")
  <2>1. PICK s : Write(s, "kill") /\ Proper(s) /\ Headed(s) /\ s[1] = "503"
    BY <1>3, CatchIs DEF Statuses
  <2> QED
    BY <1>1, <1>2, <2>1, Answers
<1>4. CASE pc' = "wait" /\ UNCHANGED writing
  <2>1. pc' \in Early /\ pc' # "request" /\ pc' # "headers"
    BY <1>4 DEF Early
  <2>2. HasProtocol' = HasProtocol
    BY <1>2, RequestStays
  <2>3. RequestInv'
    BY <1>1, <1>2, <1>4, <2>2 DEF RequestInv
  <2> QED
    BY <1>1, <1>2, <1>4, <2>1, <2>3, GoesOn
<1> QED
  BY <1>3, <1>4 DEF HandshakeStream

LEMMA WaitReadyStep ==
  ASSUME HttpInv, WaitReady
  PROVE  HttpInv'
<1>1. /\ pc = "wait" /\ pc \in Early /\ SameRequest
      /\ chan' = chan /\ done' = done
      /\ sent' = sent /\ line' = line /\ left' = left
  BY DEF WaitReady, Early, SameRequest, reading
<1>2. /\ line \in Nat /\ left \in Int /\ 1 <= line /\ line <= sent + 1
      /\ waits \in 0 .. WaitMax /\ done' \in 0 .. 1 /\ done = 0 /\ WaitMax \in Nat
      /\ chan \in {"none", "busy", "playing", "closing"}
      /\ LinesFit => line > Len(Lines)
      /\ request' = request /\ allowed' = allowed /\ active' = active
      /\ HasProtocol /\ request.what = "stream" /\ allowed
  BY <1>1, HttpAssumption
  DEF HttpInv, HttpType, LineInv, FitInv, RequestInv, Behind, Early, SameRequest
<1>3. \/ \E c \in {"503", "404"} : Catch(c) /\ UNCHANGED waits
      \/ Write(StreamHead, "send") /\ UNCHANGED waits
      \/ waits < WaitMax /\ waits' = waits + 1 /\ UNCHANGED <<pc, writing>>
      \/ ~active /\ Aborted /\ UNCHANGED waits
  <2>1. CASE waits = WaitMax
    BY <1>2, <2>1 DEF WaitReady
  <2>2. CASE waits < WaitMax /\ chan = "none"
    BY <1>2, <2>2 DEF WaitReady
  <2>3. CASE waits < WaitMax /\ chan = "playing" /\ active
    BY <1>2, <2>3 DEF WaitReady
  <2>4. CASE waits < WaitMax /\ chan \in {"busy", "closing"} /\ active
    BY <1>2, <2>4 DEF WaitReady
  <2>5. CASE waits < WaitMax /\ chan # "none" /\ ~active
    BY <1>2, <2>5 DEF WaitReady
  <2> QED
    BY <1>2, <2>1, <2>2, <2>3, <2>4, <2>5
<1>4. ASSUME NEW c \in {"503", "404"}, Catch(c), UNCHANGED waits
      PROVE  HttpInv'
  <2>1. PICK s : Write(s, "kill") /\ Proper(s) /\ Headed(s) /\ s[1] = c
    BY <1>4, CatchIs DEF Statuses
  <2> QED
    BY <1>1, <1>2, <1>4, <2>1, Answers
<1>5. CASE Write(StreamHead, "send") /\ UNCHANGED waits
  <2>1. Proper(StreamHead) /\ Headed(StreamHead)
    BY Heads DEF StreamHead, Statuses
  <2> QED
    BY <1>1, <1>2, <1>5, <2>1, Answers
<1>6. CASE waits < WaitMax /\ waits' = waits + 1 /\ UNCHANGED <<pc, writing>>
  <2>1. pc' = "wait" /\ pc' \in Early /\ pc' # "request" /\ pc' # "headers"
    BY <1>1, <1>6 DEF Early
  <2>2. HasProtocol' = HasProtocol
    BY <1>2, RequestStays
  <2>3. RequestInv'
    BY <1>1, <1>2, <2>1, <2>2 DEF RequestInv
  <2> QED
    BY <1>1, <1>2, <1>6, <2>1, <2>3, GoesOn
<1>7. CASE ~active /\ Aborted /\ UNCHANGED waits
  <2>1. Unanswered
    BY <1>1, <1>2, <1>7 DEF Unanswered, HttpInv, ReplyInv
  <2> QED
    BY <1>1, <1>2, <1>7, <2>1, Ends
<1> QED
  BY <1>3, <1>4, <1>5, <1>6, <1>7

-----------------------------------------------------------------------------
(* The page, the stream and the end.                                       *)
LEMMA OpenFileStep ==
  ASSUME HttpInv, OpenFile
  PROVE  HttpInv'
<1>1. /\ pc = "open" /\ pc' = "write" /\ then' = "close file" /\ out' = out /\ failed' = failed
      /\ request' = request /\ allowed' = allowed /\ active' = active /\ peer' = peer
      /\ chan' = chan /\ waits' = waits /\ done' = done /\ lost' = lost
      /\ sent' = sent /\ line' = line /\ left' = left
      /\ \/ file' = "open" /\ todo' = <<"body">>
         \/ file' = file /\ todo' = IF request.what = "template" THEN <<"message">> ELSE <<>>
  BY DEF OpenFile, Write, reading
<1>2. /\ todo = <<>> /\ Headed(out) /\ Proper(Reply) /\ failed = 0 /\ file # "open"
      /\ request.what \in Pages /\ out \in Seq(Tokens)
  BY <1>1 DEF HttpInv, HttpType, ReplyInv, FileInv, RequestInv
<1>3. Reply = out
  BY <1>2, Beginning DEF Reply
<1>4. todo' = <<>> \/ todo' = <<"body">> \/ todo' = <<"message">>
  BY <1>1
<1>5. todo' \in Seq(Tokens) /\ Proper(out \o todo') /\ Headed(out \o todo')
      /\ (out \o todo' # <<>> /\ (out \o todo')[1] = out[1])
  <2>1. Proper(out)
    BY <1>2, <1>3
  <2>2. out # <<>> /\ <<>> \in Seq(Tokens)
    BY <1>2 DEF Headed
  <2>3. CASE todo' = <<>>
    BY <1>2, <2>1, <2>2, <2>3, Beginning
  <2>4. ASSUME NEW x \in {"body", "message"}, todo' = <<x>>
        PROVE  todo' \in Seq(Tokens) /\ Proper(out \o todo') /\ Headed(out \o todo')
               /\ (out \o todo' # <<>> /\ (out \o todo')[1] = out[1])
    <3>1. <<x>> \in Seq(Tokens) /\ Proper(out \o <<x>>) /\ Headed(out \o <<x>>)
      BY <1>2, <2>1, WithBody
    <3> QED
      BY <1>2, <2>2, <2>4, <3>1, Beginning
  <2> QED
    BY <1>4, <2>3, <2>4
<1>6. Reply' = out \o todo'
  BY <1>1 DEF Reply
<1>7. HttpType'
  BY <1>1, <1>5 DEF HttpInv, HttpType
<1>8. ReplyInv'
  <2>1. Proper(Reply)' /\ Headed(Reply)'
    BY <1>5, <1>6, ReplyIs
  <2>2. Headed(out)'
    BY <1>1, <1>2 DEF Headed
  <2> QED
    BY <1>1, <2>1, <2>2 DEF ReplyInv, Early
<1>9. RequestInv'
  BY <1>1, <1>2 DEF RequestInv, Early
<1>10. FileInv'
  BY <1>1, <1>2 DEF FileInv, Early
<1>11. LineInv'
  <2>1. Lines' = Lines /\ (LinesFit' = LinesFit)
    BY <1>1, RequestStays
  <2>2. 1 <= line /\ line <= sent + 1 /\ sent <= Len(Lines) /\ ~lost
    BY <1>1 DEF HttpInv, LineInv
  <2>3. ASSUME LinesFit PROVE FitInv'
    <3>1. line > Len(Lines)
      BY <1>1, <2>3 DEF HttpInv, LineInv, FitInv, Behind
    <3>2. Behind'
      BY <1>1, <2>1, <3>1 DEF Behind
    <3> QED
      BY <1>1, <3>2 DEF FitInv
  <2> QED
    BY <1>1, <2>1, <2>2, <2>3 DEF LineInv
<1> QED
  BY <1>7, <1>8, <1>9, <1>10, <1>11 DEF HttpInv

LEMMA SendRawChannelStep ==
  ASSUME HttpInv, SendRawChannel
  PROVE  HttpInv'
<1>1. /\ pc = "send"
      /\ request' = request /\ allowed' = allowed /\ active' = active /\ peer' = peer
      /\ chan' = chan /\ waits' = waits /\ done' = done /\ lost' = lost /\ file' = file
      /\ sent' = sent /\ line' = line /\ left' = left
      /\ out' = out /\ failed' = failed
      /\ \/ pc' = "kill" /\ todo' = todo /\ then' = then
         \/ pc' = "write" /\ todo' = <<"body">> /\ then' = "send"
  BY DEF SendRawChannel, Write, reading, writing
<1>2. todo = <<>> /\ Headed(out) /\ Proper(Reply) /\ file # "open" /\ out \in Seq(Tokens)
  BY <1>1 DEF HttpInv, HttpType, ReplyInv, FileInv, Early
<1>3. Reply = out
  BY <1>2, Beginning DEF Reply
<1>4. <<"body">> \in Seq(Tokens) /\ Proper(out \o <<"body">>) /\ Headed(out \o <<"body">>)
  BY <1>2, <1>3, WithBody
<1>5. Reply' = out \o todo' /\ (todo' = <<>> \/ todo' = <<"body">>)
  BY <1>1, <1>2 DEF Reply
<1>6. HttpType'
  BY <1>1, <1>4 DEF HttpInv, HttpType
<1>7. ReplyInv'
  <2>1. Proper(Reply)' /\ Headed(Reply)'
    <3>1. Reply' = out \/ Reply' = out \o <<"body">>
      BY <1>2, <1>5, Beginning
    <3> QED
      BY <1>2, <1>3, <1>4, <3>1, ReplyIs
  <2>2. Headed(out)'
    BY <1>1, <1>2 DEF Headed
  <2> QED
    BY <1>1, <1>2, <2>1, <2>2 DEF ReplyInv, Early
<1>8. RequestInv'
  BY <1>1 DEF RequestInv, Early
<1>9. FileInv'
  BY <1>1, <1>2 DEF FileInv, Early
<1>10. LineInv'
  <2>1. Lines' = Lines /\ (LinesFit' = LinesFit)
    BY <1>1, RequestStays
  <2>2. 1 <= line /\ line <= sent + 1 /\ sent <= Len(Lines) /\ ~lost
    BY <1>1 DEF HttpInv, LineInv
  <2>3. ASSUME LinesFit PROVE FitInv'
    <3>1. line > Len(Lines)
      BY <1>1, <2>3 DEF HttpInv, LineInv, FitInv, Behind
    <3>2. Behind'
      BY <1>1, <2>1, <3>1 DEF Behind
    <3> QED
      BY <1>1, <3>2 DEF FitInv
  <2> QED
    BY <1>1, <2>1, <2>2, <2>3 DEF LineInv
<1> QED
  BY <1>6, <1>7, <1>8, <1>9, <1>10 DEF HttpInv

(* What closes the file or the socket leaves the answer as it is.          *)
LEMMA ClosingStep ==
  ASSUME HttpInv, CloseFile \/ Kill
  PROVE  HttpInv'
<1>1. /\ request' = request /\ allowed' = allowed /\ active' = active /\ peer' = peer
      /\ chan' = chan /\ waits' = waits /\ done' = done
      /\ sent' = sent /\ line' = line /\ left' = left
      /\ out' = out /\ failed' = failed /\ todo' = todo /\ then' = then
      /\ \/ /\ pc = "close file" /\ pc' = "kill" /\ lost' = lost
            /\ file' = IF file = "open" THEN "closed" ELSE file
         \/ pc = "kill" /\ pc' = "closed" /\ file' = file
  BY DEF CloseFile, Kill, reading, writing
<1>2. lost' \in BOOLEAN /\ (lost' => lost \/ (pc = "kill" /\ line <= sent))
  <2>1. lost \in BOOLEAN /\ line \in Nat /\ sent \in Nat
    BY DEF HttpInv, HttpType
  <2>2. CASE CloseFile
    BY <2>1, <2>2 DEF CloseFile
  <2>3. CASE Kill
    <3>1. CASE line > sent
      BY <2>1, <2>3, <3>1 DEF Kill, Silent
    <3>2. CASE line <= sent
      <4>1. lost' \in {lost, TRUE} /\ pc = "kill"
        BY <2>1, <2>3, <3>2 DEF Kill, Silent
      <4> QED
        BY <2>1, <3>2, <4>1
    <3> QED
      BY <2>1, <3>1, <3>2
  <2> QED
    BY <2>2, <2>3
<1>3. todo = <<>> /\ Proper(Reply) /\ (pc = "close file" => Headed(out))
  BY <1>1 DEF HttpInv, ReplyInv
<1>4. Reply' = Reply
  BY <1>1 DEF Reply
<1>5. HttpType'
  BY <1>1, <1>2 DEF HttpInv, HttpType
<1>6. ReplyInv'
  <2>1. Proper(Reply)'
    BY <1>3, <1>4, ReplyIs
  <2>2. (Unanswered => Unanswered') /\ (Headed(out) => Headed(out)')
    BY <1>1, StillUnanswered, OutIs
  <2>3. pc \in {"kill", "closed"} /\ peer = "prompt" /\ ~Unanswered => Headed(out)
    BY DEF HttpInv, ReplyInv
  <2> QED
    BY <1>1, <1>3, <2>1, <2>2, <2>3 DEF ReplyInv, Early
<1>7. RequestInv'
  BY <1>1 DEF RequestInv, Early
<1>8. FileInv'
  BY <1>1 DEF HttpInv, FileInv, Early
<1>9. LineInv'
  <2>1. Lines' = Lines /\ (LinesFit' = LinesFit)
    BY <1>1, RequestStays
  <2>2. /\ 1 <= line /\ line <= sent + 1 /\ sent <= Len(Lines) /\ ~lost
        /\ line \in Nat /\ sent \in Nat /\ Len(Lines) \in Nat
    BY <1>1, LinesAre DEF HttpInv, LineInv, HttpType
  <2>3. (lost => pc = "closed" /\ ~Behind)'
    <3>1. lost' => pc' = "closed" /\ line <= sent
      BY <1>1, <1>2, <2>2
    <3>2. line <= sent => ~(line > Len(Lines))
      BY <2>2
    <3>3. Behind' <=> line > Len(Lines)
      BY <1>1, <2>1 DEF Behind
    <3> QED
      BY <3>1, <3>2, <3>3
  <2>4. ASSUME LinesFit PROVE FitInv'
    <3>1. /\ Reply # <<>> /\ Reply[1] \notin {"400", "503"} => line > Len(Lines)
          /\ done = 1 => line > Len(Lines)
      BY <1>1, <2>4 DEF HttpInv, LineInv, FitInv, Behind
    <3>2. line > Len(Lines) => Behind'
      BY <1>1, <2>1 DEF Behind
    <3> QED
      BY <1>1, <1>4, <3>1, <3>2 DEF FitInv
  <2> QED
    BY <1>1, <2>1, <2>2, <2>3, <2>4 DEF LineInv
<1> QED
  BY <1>5, <1>6, <1>7, <1>8, <1>9 DEF HttpInv

-----------------------------------------------------------------------------
(* Writing. What moves from todo to out stays part of the reply.           *)
LEMMA SentStep ==
  ASSUME HttpInv, Sent
  PROVE  HttpInv'
<1>1. /\ request' = request /\ allowed' = allowed /\ active' = active /\ peer' = peer /\ file' = file
      /\ chan' = chan /\ waits' = waits /\ done' = done /\ lost' = lost
      /\ sent' = sent /\ line' = line /\ left' = left
      /\ then' = then /\ failed' = failed /\ pc = "write"
      /\ \/ todo = <<>> /\ pc' = then /\ todo' = todo /\ out' = out
         \/ todo # <<>> /\ pc' = pc /\ todo' = Tail(todo) /\ out' = Append(out, Head(todo))
  BY DEF Sent, reading
<1>2. /\ todo \in Seq(Tokens) /\ out \in Seq(Tokens) /\ Proper(Reply) /\ Headed(Reply)
      /\ then \in {"kill", "open", "close file", "send"}
      /\ then = "close file" => Headed(out)
  BY <1>1 DEF HttpInv, HttpType, ReplyInv, RequestInv
<1>3. /\ todo' \in Seq(Tokens) /\ out' \in Seq(Tokens) /\ out' \o todo' = out \o todo
      /\ Headed(out) => Headed(out')
  <2>1. CASE todo = <<>>
    BY <1>1, <1>2, <2>1
  <2>2. CASE todo # <<>>
    BY <1>1, <1>2, <2>2, Moves
  <2> QED
    BY <2>1, <2>2
<1>4. Reply' = Reply
  BY <1>3 DEF Reply
<1>5. todo = <<>> => Headed(out)
  BY <1>2, Beginning DEF Reply
<1>6. HttpType'
  BY <1>1, <1>2, <1>3 DEF HttpInv, HttpType
<1>7. ReplyInv'
  <2>1. Proper(Reply)' /\ Headed(Reply)'
    BY <1>2, <1>4, ReplyIs
  <2>2. Headed(out) => Headed(out)'
    BY <1>3, OutIs
  <2> QED
    BY <1>1, <1>2, <1>5, <2>1, <2>2 DEF ReplyInv, Early
<1>8. RequestInv'
  BY <1>1, <1>2 DEF HttpInv, RequestInv, Early
<1>9. FileInv'
  <2>1. /\ then = "open" => failed = 0
        /\ file = "open" =>
             /\ then = "close file"
             /\ \/ todo = <<>>
                \/ todo = <<"body">> /\ failed = 0
                \/ todo = <<"message">> /\ failed = 1 /\ request.what = "template"
    BY <1>1 DEF HttpInv, FileInv
  <2>2. todo = <<"body">> \/ todo = <<"message">> => todo # <<>> /\ Tail(todo) = <<>>
    <3>1. todo = <<"body">> \/ todo = <<"message">> => todo # <<>> /\ Len(todo) = 1
      OBVIOUS
    <3> QED
      BY <1>2, <3>1, Moves
  <2> QED
    BY <1>1, <1>2, <2>1, <2>2 DEF FileInv, Early
<1>10. LineInv'
  <2>1. Lines' = Lines /\ (LinesFit' = LinesFit)
    BY <1>1, RequestStays
  <2>2. 1 <= line /\ line <= sent + 1 /\ sent <= Len(Lines) /\ ~lost
    BY <1>1 DEF HttpInv, LineInv
  <2>3. ASSUME LinesFit PROVE FitInv'
    <3>1. /\ Reply # <<>> /\ Reply[1] \notin {"400", "503"} => line > Len(Lines)
          /\ done = 1 => line > Len(Lines)
          /\ then # "kill" => line > Len(Lines)
      BY <1>1, <2>3 DEF HttpInv, LineInv, FitInv, Behind
    <3>2. line > Len(Lines) => Behind'
      BY <1>1, <2>1 DEF Behind
    <3> QED
      BY <1>1, <1>2, <1>4, <3>1, <3>2 DEF FitInv
  <2> QED
    BY <1>1, <2>1, <2>2, <2>3 DEF LineInv
<1> QED
  BY <1>6, <1>7, <1>8, <1>9, <1>10 DEF HttpInv

(* A write that fails leaves what was written, or has the message of       *)
(* writeTemplate behind it.                                                *)
LEMMA NotSentStep ==
  ASSUME HttpInv, NotSent
  PROVE  HttpInv'
<1>1. /\ request' = request /\ allowed' = allowed /\ active' = active /\ peer' = peer /\ file' = file
      /\ chan' = chan /\ waits' = waits /\ done' = done /\ lost' = lost
      /\ sent' = sent /\ line' = line /\ left' = left
      /\ then' = then /\ failed' = failed + 1 /\ out' = out
      /\ pc = "write" /\ todo # <<>> /\ peer # "prompt"
      /\ pc' \in {"write", "kill"} /\ (pc' = "write" => then = "close file")
  BY DEF NotSent, reading
<1>2. \/ /\ then = "close file" /\ request.what = "template" /\ Head(todo) = "body"
          /\ todo' = <<"message">> /\ pc' = pc
       \/ /\ then = "close file" /\ request.what = "raw"
          /\ todo' = <<>> /\ pc' = pc
       \/ /\ ~(then = "close file" /\ request.what = "template" /\ Head(todo) = "body")
          /\ ~(then = "close file" /\ request.what = "raw")
          /\ todo' = <<>> /\ pc' = "kill"
  BY DEF NotSent, reading
<1>3. failed' \in Nat /\ (failed = 0 => failed' = 1) /\ (failed = 1 => failed' = 2)
  <2>1. failed \in Nat
    BY DEF HttpInv, HttpType
  <2>2. failed' = failed + 1
    BY DEF NotSent
  <2> QED
    BY <2>1, <2>2
<1>4. /\ todo \in Seq(Tokens) /\ out \in Seq(Tokens) /\ Proper(Reply) /\ Headed(Reply)
      /\ then \in {"kill", "open", "close file", "send"}
      /\ then = "close file" => Headed(out) /\ request.what \in Pages
  BY <1>1 DEF HttpInv, HttpType, ReplyInv, RequestInv
<1>5. Proper(out) /\ out \o <<>> = out
  BY <1>4, Beginning DEF Reply
<1>6. out # <<>> => Reply # <<>> /\ Reply[1] = out[1]
  BY <1>4, Beginning DEF Reply
<1>7. /\ todo' \in Seq(Tokens) /\ Proper(out \o todo')
      /\ then = "close file" => Headed(out \o todo')
      /\ out # <<>> => (out \o todo') # <<>> /\ (out \o todo')[1] = out[1]
      /\ out = <<>> => out \o todo' = <<>>
  <2>1. CASE todo' = <<>>
    <3>1. out \o todo' = out /\ todo' \in Seq(Tokens)
      BY <1>5, <2>1, EmptySeq
    <3> QED
      BY <1>4, <1>5, <3>1
  <2>2. CASE todo' = <<"message">> /\ then = "close file"
    <3>1. Headed(out)
      BY <1>4, <2>2
    <3>2. <<"message">> \in Seq(Tokens) /\ Proper(out \o <<"message">>) /\ Headed(out \o <<"message">>)
      BY <1>5, <3>1, WithBody
    <3>3. out # <<>>
      BY <3>1 DEF Headed
    <3> QED
      BY <1>4, <2>2, <3>2, <3>3, Beginning
  <2> QED
    BY <1>2, <2>1, <2>2
<1>8. Reply' = out \o todo'
  BY <1>1 DEF Reply
<1>9. HttpType'
  <2>1. failed' \in Nat
    BY <1>3
  <2>2. todo' \in Seq(Tokens)
    BY <1>7
  <2>3. pc' \in {"write", "kill"}
    BY <1>1
  <2> QED
    BY <1>1, <2>1, <2>2, <2>3 DEF HttpInv, HttpType
<1>10. ReplyInv'
  <2>1. Proper(Reply)'
    BY <1>7, <1>8, ReplyIs
  <2>2. then = "close file" => Headed(out)' /\ Headed(Reply)'
    BY <1>1, <1>4, <1>7, <1>8, ReplyIs, OutIs
  <2>3. pc' = "write" => then = "close file"
    BY <1>1
  <2> QED
    BY <1>1, <1>2, <2>1, <2>2, <2>3 DEF ReplyInv, Early
<1>11. RequestInv'
  BY <1>1, <1>4 DEF RequestInv, Early
<1>12. FileInv'
  <2>1. file = "open" =>
          /\ then = "close file"
          /\ \/ todo = <<"body">> /\ failed = 0
             \/ todo = <<"message">> /\ failed = 1 /\ request.what = "template"
    BY <1>1 DEF HttpInv, FileInv
  <2>2. /\ todo = <<"body">> => Head(todo) = "body"
        /\ todo = <<"message">> => Head(todo) = "message"
    OBVIOUS
  <2>3. /\ pc' \in {"write", "kill"} /\ (pc' = "write" => then' = "close file")
        /\ file' = "open" =>
             \/ /\ pc' = "write" /\ then' = "close file"
                /\ todo' = <<>> \/ (todo' = <<"message">> /\ failed' = 1 /\ request.what = "template")
             \/ pc' = "kill" /\ request.what = "template" /\ failed' = 2
    <3>1. /\ pc' \in {"write", "kill"} /\ then' = then /\ file' = file
          /\ pc' = "write" => then = "close file"
      BY <1>1
    <3>2. then = "close file" => request.what = "template" \/ request.what = "raw"
      BY <1>4 DEF Pages
    <3>3. CASE file = "open" /\ todo = <<"body">> /\ failed = 0
      <4>1. Head(todo) = "body" /\ failed' = 1 /\ then = "close file"
        BY <1>3, <2>1, <2>2, <3>3
      <4>2. CASE request.what = "template"
        BY <1>1, <1>2, <3>3, <4>1, <4>2
      <4>3. CASE request.what = "raw"
        BY <1>1, <1>2, <3>3, <4>1, <4>3
      <4> QED
        BY <3>2, <4>1, <4>2, <4>3
    <3>4. CASE file = "open" /\ todo = <<"message">> /\ failed = 1 /\ request.what = "template"
      BY <1>1, <1>2, <1>3, <2>2, <3>4
    <3> QED
      BY <2>1, <3>1, <3>3, <3>4
  <2> QED
    BY <1>1, <2>3 DEF FileInv, Early
<1>13. LineInv'
  <2>1. Lines' = Lines /\ (LinesFit' = LinesFit)
    BY <1>1, RequestStays
  <2>2. 1 <= line /\ line <= sent + 1 /\ sent <= Len(Lines) /\ ~lost
    BY <1>1 DEF HttpInv, LineInv
  <2>3. ASSUME LinesFit PROVE FitInv'
    <3>1. /\ Reply # <<>> /\ Reply[1] \notin {"400", "503"} => line > Len(Lines)
          /\ done = 1 => line > Len(Lines)
          /\ then # "kill" => line > Len(Lines)
      BY <1>1, <2>3 DEF HttpInv, LineInv, FitInv, Behind
    <3>2. line > Len(Lines) => Behind'
      BY <1>1, <2>1 DEF Behind
    <3>3. Reply' # <<>> => Reply # <<>> /\ Reply'[1] = Reply[1]
      BY <1>6, <1>7, <1>8
    <3> QED
      BY <1>1, <1>4, <3>1, <3>2, <3>3 DEF FitInv
  <2> QED
    BY <1>1, <2>1, <2>2, <2>3 DEF LineInv
<1> QED
  BY <1>9, <1>10, <1>11, <1>12, <1>13 DEF HttpInv

-----------------------------------------------------------------------------
(* The peer and the other servents.                                        *)
LEMMA OthersStep ==
  ASSUME HttpInv, Send \/ Slow \/ PeerCloses \/ ChannelChanges \/ Shutdown \/ UNCHANGED httpVars
  PROVE  HttpInv'
<1>1. /\ request' = request /\ allowed' = allowed /\ pc' = pc
      /\ (active' = active \/ active' = FALSE)
      /\ waits' = waits /\ done' = done /\ file' = file
      /\ line' = line /\ left' = left
      /\ then' = then /\ todo' = todo /\ out' = out /\ failed' = failed
  BY DEF Send, Slow, PeerCloses, ChannelChanges, Shutdown, httpVars, reading, writing
<1>2. /\ peer' \in {"prompt", "slow", "closed"} /\ (peer' = "prompt" => peer = "prompt")
      /\ chan' \in {"none", "busy", "playing", "closing"}
  <2>1. peer \in {"prompt", "slow", "closed"} /\ chan \in {"none", "busy", "playing", "closing"}
    BY DEF HttpInv, HttpType
  <2> QED
    BY <2>1 DEF Send, Slow, PeerCloses, ChannelChanges, Shutdown, httpVars
<1>3. \/ sent' = sent /\ lost' = lost
      \/ /\ sent < Len(Lines) /\ sent' = sent + 1
         /\ lost' \in IF pc = "closed" THEN {lost, TRUE} ELSE {lost}
  BY DEF Send, Slow, PeerCloses, ChannelChanges, Shutdown, httpVars, reading
<1>4. /\ request \in Requests /\ sent \in Nat /\ line \in Nat /\ lost \in BOOLEAN
      /\ 1 <= line /\ line <= sent + 1 /\ sent <= Len(Lines)
      /\ (lost => pc = "closed" /\ ~Behind)
  BY DEF HttpInv, HttpType, LineInv
<1>5. Len(Lines) \in Nat
  BY <1>4, LinesAre
<1>6. /\ sent' \in Nat /\ lost' \in BOOLEAN /\ line <= sent' + 1 /\ sent' <= Len(Lines)
      /\ (lost' => pc = "closed" /\ ~(line > Len(Lines)))
  <2>1. CASE sent' = sent /\ lost' = lost
    BY <1>4, <1>5, <2>1 DEF Behind
  <2>2. CASE /\ sent < Len(Lines) /\ sent' = sent + 1
             /\ lost' \in IF pc = "closed" THEN {lost, TRUE} ELSE {lost}
    <3>1. sent' \in Nat /\ line <= sent' + 1 /\ sent' <= Len(Lines) /\ ~(line > Len(Lines))
      BY <1>4, <1>5, <2>2
    <3>2. lost' \in BOOLEAN /\ (lost' => pc = "closed")
      <4>1. CASE pc = "closed"
        BY <1>4, <2>2, <4>1
      <4>2. CASE pc # "closed"
        BY <1>4, <2>2, <4>2
      <4> QED
        BY <4>1, <4>2
    <3> QED
      BY <3>1, <3>2
  <2> QED
    BY <1>3, <2>1, <2>2
<1>7. Lines' = Lines /\ (HasProtocol' = HasProtocol) /\ (LinesFit' = LinesFit)
  BY <1>1, RequestStays
<1>8. Reply' = Reply
  BY <1>1 DEF Reply
<1>9. HttpType'
  BY <1>1, <1>2, <1>6 DEF HttpInv, HttpType
<1>10. ReplyInv'
  <2>1. /\ Proper(Reply) /\ (pc # "write" => todo = <<>>) /\ (pc \in Early => out = <<>>)
        /\ pc = "write" => Headed(Reply)
        /\ pc \in {"open", "close file", "send"} \/ (pc = "write" /\ then = "close file") => Headed(out)
        /\ pc \in {"kill", "closed"} /\ peer = "prompt" /\ ~Unanswered => Headed(out)
    BY DEF HttpInv, ReplyInv
  <2>2. Proper(Reply)' /\ (Headed(Reply) => Headed(Reply)') /\ (Headed(out) => Headed(out)')
    BY <1>1, <1>8, <2>1, ReplyIs, OutIs
  <2>3. Unanswered => Unanswered'
    BY <1>1, StillUnanswered
  <2> QED
    BY <1>1, <1>2, <2>1, <2>2, <2>3 DEF ReplyInv
<1>11. RequestInv'
  BY <1>1, <1>7 DEF HttpInv, RequestInv
<1>12. FileInv'
  BY <1>1 DEF HttpInv, FileInv
<1>13. LineInv'
  <2>1. Behind' <=> line > Len(Lines)
    BY <1>1, <1>7 DEF Behind
  <2>2. ASSUME LinesFit PROVE FitInv'
    <3>1. FitInv /\ (Behind <=> line > Len(Lines))
      BY <2>2 DEF HttpInv, LineInv, Behind
    <3>2. Fits(left, HeaderMax)' <=> Fits(left, HeaderMax)
      BY <1>1 DEF Fits
    <3> QED
      BY <1>1, <1>7, <1>8, <2>1, <3>1, <3>2 DEF FitInv
  <2> QED
    BY <1>1, <1>4, <1>6, <1>7, <2>1, <2>2 DEF LineInv
<1> QED
  BY <1>9, <1>10, <1>11, <1>12, <1>13 DEF HttpInv

LEMMA HttpStart ==
  ASSUME HttpInit
  PROVE  HttpInv
<1>1. /\ request \in Requests /\ allowed \in BOOLEAN /\ active = TRUE
      /\ peer = "prompt" /\ sent = 0
      /\ line = 1 /\ left = Head(Lines) /\ pc = "request" /\ then = "closed"
      /\ todo = <<>> /\ out = <<>> /\ chan \in {"none", "busy", "playing", "closing"}
      /\ waits = 0 /\ done = 0 /\ file = "none" /\ failed = 0 /\ lost = FALSE
  BY DEF HttpInit
<1>2. /\ Len(Lines) \in Nat /\ Len(Lines) >= 2 /\ left = request.size /\ left \in Int
      /\ WaitMax \in Nat
  BY <1>1, LinesAre, HttpAssumption
<1>3. <<>> \in Seq(Tokens) /\ Reply = <<>> /\ Proper(Reply)
  <2>1. <<>> \in Seq(Tokens) /\ Len(<<>>) = 0
    BY EmptySeq
  <2>2. Reply = <<>>
    BY <1>1, <2>1, ConcatEmptySeq DEF Reply
  <2> QED
    BY <2>1, <2>2 DEF Proper
<1>4. HttpType
  <2>1. 0 \in 0 .. WaitMax /\ 0 \in 0 .. 1
    BY <1>2
  <2>2. sent \in Nat /\ line \in Nat /\ failed \in Nat /\ pc \in Early
    BY <1>1 DEF Early
  <2> QED
    BY <1>1, <1>2, <1>3, <2>1, <2>2 DEF HttpType
<1>5. ReplyInv
  BY <1>1, <1>3 DEF ReplyInv
<1>6. RequestInv /\ FileInv
  BY <1>1 DEF RequestInv, FileInv, Early
<1>7. LineInv
  BY <1>1, <1>2, <1>3 DEF LineInv, FitInv, Behind
<1> QED
  BY <1>4, <1>5, <1>6, <1>7 DEF HttpInv

(* What is written, read and done of a request at every point of its       *)
(* connection, whatever its lines, the buffers, the peer and the channel   *)
(* are (incomingProc, handshakeHTTP and what they call).                   *)
THEOREM HttpInductive == HttpSpec => []HttpInv
<1>1. HttpInit => HttpInv
  BY HttpStart
<1>2. ASSUME HttpInv, [HttpNext]_httpVars PROVE HttpInv'
  <2>1. CASE UNCHANGED httpVars
    BY <1>2, <2>1, OthersStep
  <2>2. CASE HttpNext
    BY <1>2, <2>2, ReadRequestStep, NextHeaderStep, SilenceStep, HandshakeCMDStep,
       HandshakeLocalFileStep, HandshakeStreamStep, WaitReadyStep, OpenFileStep, ClosingStep,
       SendRawChannelStep, SentStep, NotSentStep, OthersStep
    DEF HttpNext, Server
  <2> QED
    BY <1>2, <2>1, <2>2
<1> QED
  BY <1>1, <1>2, PTL DEF HttpSpec

(* The peer never gets two status lines, or a body before the head; unless *)
(* it falls silent or closes it gets a whole head, for all but a line that *)
(* hides its protocol, a file of an unknown suffix and a stream that is    *)
(* waited for when the application quits; a reset takes away only          *)
(* refusals; a command runs at most once, after the headers; the file      *)
(* stays open only when the message of writeTemplate failed as well        *)
(* (servent.cpp:622-653, 683-684, html.cpp:245-263).                       *)
THEOREM OneWholeAnswer == HttpSpec => []Replies
<1>1. ASSUME HttpInv PROVE Replies
  <2>1. /\ Proper(Reply) /\ out \in Seq(Tokens) /\ todo \in Seq(Tokens)
        /\ (pc # "write" => todo = <<>>) /\ done \in 0 .. 1 /\ lost \in BOOLEAN
    BY <1>1 DEF HttpInv, HttpType, ReplyInv
  <2>2. /\ Proper(out) /\ DOMAIN out = 1 .. Len(out) /\ Len(out) \in Nat
        /\ pc # "write" => Reply = out
    BY <2>1, Beginning, LenProperties DEF Reply
  <2>3. out # <<>> => Head(out) = out[1] /\ Reply # <<>> /\ Reply[1] = out[1]
    BY <2>1, Beginning DEF Reply
  <2>4. Headed(out) => HasHead
    BY <2>3 DEF Headed, HasHead
  <2>5. \A k \in 2 .. Len(out) : out[k] \notin Statuses
    BY <2>2 DEF Proper
  <2>6. ASSUME NEW k \in DOMAIN out, out[k] \in {"body", "message"} PROVE HasHead
    <3>1. PICK j \in 1 .. k - 1 : out[j] = "blank" /\ \A i \in 2 .. j - 1 : out[i] = "field"
      BY <2>2, <2>6 DEF Proper
    <3>2. out[1] \in Statuses /\ out # <<>> /\ j \in DOMAIN out
      BY <2>1, <2>2, <2>6, <3>1, EmptySeq DEF Proper
    <3> QED
      BY <2>3, <3>1, <3>2 DEF HasHead
  <2>7. done <= 1
    BY <2>1
  <2>8. done = 1 /\ LinesFit => line > Len(Lines)
    BY <1>1 DEF HttpInv, LineInv, FitInv, Behind
  <2>9. ASSUME pc = "closed", peer = "prompt", ~Unanswered
        PROVE  /\ HasHead
               /\ LinesFit /\ Head(out) \notin {"400", "503"} => ~lost
    <3>1. Headed(out)
      BY <1>1, <2>9 DEF HttpInv, ReplyInv
    <3>2. out # <<>>
      BY <3>1 DEF Headed
    <3>3. ASSUME LinesFit, Head(out) \notin {"400", "503"} PROVE ~lost
      <4>1. Behind
        BY <1>1, <2>3, <3>2, <3>3 DEF HttpInv, LineInv, FitInv
      <4> QED
        BY <1>1, <4>1 DEF HttpInv, LineInv
    <3> QED
      BY <2>4, <3>1, <3>3
  <2>10. pc = "closed" /\ file = "open" => request.what = "template" /\ failed = 2
    BY <1>1 DEF HttpInv, FileInv
  <2> QED
    BY <2>5, <2>6, <2>7, <2>8, <2>9, <2>10 DEF Replies
<1> QED
  BY <1>1, HttpInductive, PTL
=============================================================================
