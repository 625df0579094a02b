----------------------------- MODULE FatVolume -----------------------------
(***************************************************************************)
(* ff.cpp as the ramfs worker uses it: one FAT16 volume in memory, one     *)
(* sector per cluster, short names, no file locks. The worker is the only  *)
(* caller, so that every call of the library is one action.                *)
(*                                                                         *)
(* The volume is a record: `fat' the table, `last' the last cluster that   *)
(* was allocated, `disk' the sectors of the clusters. disk[0] is the root  *)
(* directory, which lies outside the clusters. A sector holds SS units of  *)
(* a file or PerSector slots of a directory. The sector window win[]       *)
(* of the library is written back before it moves; cells are read and      *)
(* written through it as if it were not there.                             *)
(*                                                                         *)
(* A writer and a deleter keep out of each other's way as the mux thread   *)
(* of a channel does (SegmentWindow): nobody creates or deletes a path     *)
(* that is open for writing. Readers are not considerate.                  *)
(***************************************************************************)
EXTENDS Integers, Sequences, FiniteSets, SequencesExt, FiniteSetsExt

CONSTANTS
    Dirs, Names, Paths,      \* Paths \subseteq Dirs \X Names
    Handles,                 \* addresses of FIL objects
    MaxMade,                 \* bound: files and directories created
    NFat,                    \* n_fatent: clusters are 2 .. NFat - 1
    NRoot,                   \* n_rootdir
    SS,                      \* units of a file in a sector
    PerSector,               \* directory slots in a sector
    WriteSizes, ReadSizes,   \* units of one call
    MaxUnits                 \* bound: units given to one writer

ASSUME VolumeConstants ==
    /\ Paths \subseteq Dirs \X Names
    /\ NFat \in Nat /\ NFat > 3
    /\ NRoot \in Nat \ {0}
    /\ SS \in Nat \ {0}
    /\ PerSector \in Nat /\ PerSector > 2
    /\ WriteSizes \subseteq Nat \ {0} /\ ReadSizes \subseteq Nat \ {0}
    /\ MaxUnits \in Nat /\ MaxMade \in Nat

VARIABLES
    vol,   \* the volume
    fp,    \* the file objects
    made,  \* history: how many files and directories were created
    store  \* history: the files the volume stands for, see FileStore

vars == <<vol, fp, made, store>>

Clusters == 2 .. NFat - 1
EOC == NFat                       \* any value from n_fatent on ends a chain

Zero    == [kind |-> "zero"]      \* never used: ends a directory
Deleted == [kind |-> "deleted"]   \* DDE
Dot     == [kind |-> "dot"]
Entry(name, dir, clust, size) ==
    [kind |-> "entry", name |-> name, dir |-> dir, clust |-> clust, size |-> size]
Unit(ver, k) == [kind |-> "data", ver |-> ver, pos |-> k]
NoSlot == <<>>
NoUnits == [i \in 0 .. SS - 1 |-> Zero]
BlankTable == [i \in 0 .. PerSector - 1 |-> Zero]

-----------------------------------------------------------------------------
(* The table and its chains.                                               *)

GetFat(v, c) == IF c \in Clusters THEN v.fat[c] ELSE 1

(* Where k steps along the table lead from c.                              *)
Walk(v, c) ==
    LET at[k \in 0 .. NFat] == IF k = 0 THEN c ELSE GetFat(v, at[k - 1])
    IN  at

(* The clusters from c on, up to a last link or a free cluster; a cycle    *)
(* would be walked again, to NFat steps.                                   *)
Chain(v, c) ==
    LET n == Min({NFat} \cup {k \in 0 .. NFat : Walk(v, c)[k] \notin Clusters})
    IN  [k \in 1 .. n |-> Walk(v, c)[k - 1]]

ClustersOf(v, c) == ToSet(Chain(v, c))

RemoveChain_Mut(v, c) ==
    [v EXCEPT !.fat = [d \in Clusters |-> IF d = c THEN 0 ELSE v.fat[d]]]

RemoveChain(v, c) ==
    [v EXCEPT !.fat = [d \in Clusters |->
                         IF d \in ClustersOf(v, c) THEN 0 ELSE v.fat[d]]]

FreeAfter_NoWrap(v, scl) ==
    LET free == {c \in Clusters : v.fat[c] = 0 /\ c > scl}
    IN  IF free = {} THEN 0 ELSE Min(free)

(* The first free cluster after scl, round the table, scl itself last.     *)
FreeAfter(v, scl) ==
    LET free == {c \in Clusters : v.fat[c] = 0}
        turn(c) == IF c > scl THEN c - scl ELSE c + NFat - scl
    IN  IF free = {} THEN 0
        ELSE CHOOSE c \in free : \A d \in free : turn(c) <= turn(d)

(* A cluster to follow c, or for a new chain if c = 0: 0 if there is none, *)
(* 1 if c is in no chain.                                                  *)
CreateChain(v, c) ==
    LET next == GetFat(v, c)
        scl  == IF c # 0 THEN c ELSE IF v.last \in 1 .. NFat - 1 THEN v.last ELSE 1
        ncl  == FreeAfter(v, scl)
        linked == [d \in Clusters |->
                     CASE d = c -> ncl [] d = ncl -> EOC [] OTHER -> v.fat[d]]
    IN  CASE c # 0 /\ next < 2    -> [v |-> v, cl |-> 1]
          [] c # 0 /\ next < NFat -> [v |-> v, cl |-> next]
          [] OTHER -> IF ncl = 0 THEN [v |-> v, cl |-> 0]
                      ELSE [v |-> [v EXCEPT !.fat = linked, !.last = ncl], cl |-> ncl]

-----------------------------------------------------------------------------
(* Directories: dcl is the first cluster of one, 0 for the root.           *)

Slots(v, dcl) ==
    IF dcl = 0 THEN [k \in 1 .. NRoot |-> <<0, k - 1>>]
    ELSE LET chain == Chain(v, dcl)
         IN  [k \in 1 .. Len(chain) * PerSector |->
                <<chain[((k - 1) \div PerSector) + 1], (k - 1) % PerSector>>]

At(v, slot) == v.disk[slot[1]][slot[2]]
Put(v, slot, cell) == [v EXCEPT !.disk[slot[1]][slot[2]] = cell]

IsEntry(cell) == cell.kind = "entry"

(* dir_find: the slot of a name, NoSlot if the end comes first.            *)
Find(v, dcl, name) ==
    LET slots == Slots(v, dcl)
        stops == {k \in DOMAIN slots :
                    LET cell == At(v, slots[k]) IN
                    cell = Zero \/ (IsEntry(cell) /\ cell.name = name)}
    IN  IF stops = {} \/ At(v, slots[Min(stops)]) = Zero THEN NoSlot
        ELSE slots[Min(stops)]

(* dir_alloc: the first slot that is blank or deleted; a directory that    *)
(* has none grows by a cluster of zeros, the root does not grow.           *)
Alloc(v, dcl) ==
    LET slots == Slots(v, dcl)
        blank == {k \in DOMAIN slots : At(v, slots[k]) \in {Zero, Deleted}}
        grown == CreateChain(v, IF dcl = 0 THEN 0 ELSE slots[Len(slots)][1])
    IN  IF blank # {} THEN [v |-> v, slot |-> slots[Min(blank)]]
        ELSE IF dcl = 0 \/ grown.cl < 2 THEN [v |-> v, slot |-> NoSlot]
        ELSE [v |-> [grown.v EXCEPT !.disk[grown.cl] = BlankTable], slot |-> <<grown.cl, 0>>]

(* follow_path for "/d/n": FR_NO_PATH or FR_NO_FILE are NoSlot.            *)
Lookup(v, p) ==
    LET d == Find(v, 0, p[1]) IN
    IF d = NoSlot THEN NoSlot ELSE Find(v, At(v, d).clust, p[2])

-----------------------------------------------------------------------------
(* File objects. `slot' is dir_sect and dir_ptr; `dsect' the cluster whose *)
(* sector is in `buf'. History: path, ver, the units given to a writer     *)
(* (fed), the units of the last read (seen), and whether the path was      *)
(* created or deleted under a reader (stale).                              *)
Closed == [mode |-> "closed", slot |-> NoSlot, sclust |-> 0, clust |-> 0,
           fptr |-> 0, fsize |-> 0, buf |-> NoUnits, dsect |-> 0,
           dirty |-> FALSE, error |-> FALSE,
           path |-> <<>>, ver |-> 0, fed |-> 0, seen |-> <<>>, stale |-> FALSE]

Writers == {h \in Handles : fp[h].mode = "write"}
Readers == {h \in Handles : fp[h].mode = "read"}

(* Nobody writes to the path.                                              *)
Unshared(p) == \A h \in Writers : fp[h].path # p

Disturb(p) ==
    [h \in Handles |-> IF h \in Readers /\ fp[h].path = p
                       THEN [fp[h] EXCEPT !.stale = TRUE] ELSE fp[h]]

-----------------------------------------------------------------------------
(* The volume as a store of files.                                         *)

ChainUnits(v, c, n) ==
    LET chain == Chain(v, c)
    IN  [k \in 1 .. n |-> IF k > Len(chain) * SS THEN Zero
                          ELSE v.disk[chain[((k - 1) \div SS) + 1]][(k - 1) % SS]]

FileAt(v, p) ==
    LET slot == Lookup(v, p)
    IN  IF slot = NoSlot THEN <<[kind |-> "none"]>>
        ELSE ChainUnits(v, At(v, slot).clust, At(v, slot).size)

(* What a writer has in the file: its chain, and its buffer over it.       *)
WrittenBy(v, f) ==
    LET units == ChainUnits(v, f.sclust, f.fptr)
    IN  [k \in 1 .. f.fptr |->
            IF f.dirty /\ (k - 1) \div SS = (f.fptr - 1) \div SS
            THEN f.buf[(k - 1) % SS] ELSE units[k]]

OpenAs(v, f) ==
    [mode |-> f.mode, path |-> f.path, ver |-> f.ver, fed |-> f.fed,
     data |-> IF f.mode = "write" THEN WrittenBy(v, f) ELSE <<>>,
     pos  |-> IF f.mode = "read" THEN f.fptr ELSE 0,
     len  |-> IF f.mode = "read" THEN f.fsize ELSE 0,
     seen |-> f.seen, stale |-> f.stale]

StoreOf(v, f) ==
    [dirs  |-> {d \in Dirs : Find(v, 0, d) # NoSlot},
     files |-> [p \in Paths |-> FileAt(v, p)],
     hs    |-> [h \in Handles |-> OpenAs(v, f[h])]]

-----------------------------------------------------------------------------
Init ==
    /\ vol = [fat  |-> [c \in Clusters |-> 0], last |-> 0,
              disk |-> [c \in Clusters \cup {0} |->
                          IF c = 0 THEN [i \in 0 .. NRoot - 1 |-> Zero] ELSE NoUnits]]
    /\ fp = [h \in Handles |-> Closed]
    /\ made = 0
    /\ store = StoreOf(vol, fp)

(* f_mkdir: the cluster first, then the entry; if the entry cannot be      *)
(* made the cluster is given back.                                         *)
Mkdir(d) ==
    /\ made < MaxMade
    /\ made' = made + 1
    /\ Find(vol, 0, d) = NoSlot
    /\ LET dcl == CreateChain(vol, 0)
           table == [dcl.v EXCEPT !.disk[dcl.cl] =
                        [BlankTable EXCEPT ![0] = Dot, ![1] = Dot]]
           a == Alloc(table, 0)
       IN  /\ dcl.cl > 1
           /\ vol' = IF a.slot = NoSlot THEN RemoveChain(table, dcl.cl)
                     ELSE Put(a.v, a.slot, Entry(d, TRUE, dcl.cl, 0))
    /\ UNCHANGED fp

(* f_unlink of a directory: refused unless it is empty after the dots.     *)
Empty(v, dcl) ==
    LET slots == Slots(v, dcl)
        stops == {k \in 3 .. Len(slots) : At(v, slots[k]) # Deleted}
    IN  stops # {} => At(v, slots[Min(stops)]) = Zero

Rmdir(d) ==
    /\ LET slot == Find(vol, 0, d) IN
       /\ slot # NoSlot
       /\ Empty(vol, At(vol, slot).clust)
       /\ vol' = RemoveChain(Put(vol, slot, Deleted), At(vol, slot).clust)
    /\ UNCHANGED <<fp, made>>

(* f_unlink of a file, by the chain in its entry.                          *)
Unlink(p) ==
    /\ Unshared(p)
    /\ LET slot == Lookup(vol, p) IN
       /\ slot # NoSlot
       /\ vol' = RemoveChain(Put(vol, slot, Deleted), At(vol, slot).clust)
    /\ fp' = Disturb(p)
    /\ UNCHANGED made

(* f_open with FA_CREATE_ALWAYS | FA_WRITE. A file of that name is cut to  *)
(* nothing and its first cluster is the next to be allocated.              *)
OpenWrite(h, p) ==
    /\ fp[h].mode = "closed"
    /\ made < MaxMade
    /\ made' = made + 1
    /\ Unshared(p)
    /\ LET d     == Find(vol, 0, p[1])
           dcl   == At(vol, d).clust
           found == Find(vol, dcl, p[2])
           reg   == IF found = NoSlot THEN Alloc(vol, dcl)
                    ELSE [v |-> vol, slot |-> found]
           old   == IF found = NoSlot THEN 0 ELSE At(vol, found).clust
           cut   == Put(reg.v, reg.slot, Entry(p[2], FALSE, 0, 0))
       IN  /\ d # NoSlot
           /\ reg.slot # NoSlot
           /\ vol' = IF old = 0 THEN cut
                     ELSE [RemoveChain(cut, old) EXCEPT !.last = old - 1]
           /\ fp' = [Disturb(p) EXCEPT ![h] =
                       [Closed EXCEPT !.mode = "write", !.slot = reg.slot,
                                      !.path = p, !.ver = made + 1]]

(* f_open with FA_OPEN_EXISTING | FA_READ.                                 *)
OpenRead(h, p) ==
    /\ fp[h].mode = "closed"
    /\ LET slot == Lookup(vol, p) IN
       /\ slot # NoSlot
       /\ fp' = [fp EXCEPT ![h] =
                   [Closed EXCEPT !.mode = "read", !.slot = slot, !.path = p,
                                  !.sclust = At(vol, slot).clust,
                                  !.fsize = At(vol, slot).size]]
    /\ UNCHANGED <<vol, made>>

-----------------------------------------------------------------------------
(* Units that one pass of the loop of f_write or f_read moves: those left, *)
(* or those up to the end of the sector.                                   *)
Pass(f, left) == Min({left, SS - (f.fptr % SS)})

(* Cells of `old' from cell i on replaced by the units s.                  *)
Patch(old, i, s) ==
    [c \in 0 .. SS - 1 |-> IF c \in i .. i + Len(s) - 1 THEN s[c - i + 1] ELSE old[c]]

(* The dirty sector of a file object goes to the disk.                     *)
Flush(v, f) ==
    IF f.dirty THEN [v EXCEPT !.disk[f.dsect] = f.buf] ELSE v

(* One pass of f_write: `left' units are not yet written, `done' are, in   *)
(* this call and before. After a break or an abort nothing is left to do.  *)
WriteTurn(st) ==
    LET f    == st.f
        len  == Pass(f, st.left)
        src  == [i \in 1 .. len |-> Unit(f.ver, st.done + i)]
        edge == f.fptr % SS = 0
        cl   == CASE f.fptr = 0 /\ f.sclust # 0 -> [v |-> st.v, cl |-> f.sclust]
                  [] f.fptr = 0 /\ f.sclust = 0 -> CreateChain(st.v, 0)
                  [] OTHER                      -> CreateChain(st.v, f.clust)
        here == [f EXCEPT !.clust = cl.cl, !.dirty = FALSE,
                          !.sclust = IF f.fptr = 0 THEN cl.cl ELSE @]
        v    == Flush(cl.v, f)
        went == [st EXCEPT !.done = @ + len, !.left = @ - len]
    IN  IF st.left = 0 THEN st
        ELSE IF ~edge THEN
            [went EXCEPT !.f = [f EXCEPT !.buf = Patch(@, f.fptr % SS, src),
                                         !.dirty = TRUE, !.fptr = @ + len]]
        ELSE IF cl.cl = 0 THEN [st EXCEPT !.left = 0]
        ELSE IF cl.cl = 1 THEN [st EXCEPT !.left = 0, !.f.error = TRUE]
        ELSE IF len = SS THEN
            [went EXCEPT !.v = [v EXCEPT !.disk[cl.cl] = Patch(NoUnits, 0, src)],
                         !.f = [here EXCEPT !.fptr = @ + len]]
        ELSE
            [went EXCEPT !.v = v,
                         !.f = [here EXCEPT !.buf = Patch(NoUnits, 0, src), !.dsect = cl.cl,
                                            !.dirty = TRUE, !.fptr = @ + len]]

(* Its loop: every pass moves a unit, so that n of them are enough for n.  *)
WriteLoop(h, n) ==
    LET pass[k \in 0 .. n] ==
            IF k = 0 THEN [v |-> vol, f |-> fp[h], done |-> fp[h].fed, left |-> n]
            ELSE WriteTurn(pass[k - 1])
    IN  pass[n]

(* f_write: a full volume ends the loop, and the call succeeds.            *)
Write_Mut(h, n) ==
    /\ h \in Writers
    /\ fp[h].fed + n <= MaxUnits
    /\ IF fp[h].error THEN UNCHANGED <<vol, fp, made>>
       ELSE LET st == WriteLoop(h, n)
            IN  /\ vol' = st.v
                /\ fp' = [fp EXCEPT ![h] =
                            [st.f EXCEPT !.fed = @ + n,
                                         !.fsize = Max({@, fp[h].fptr + n})]]
                /\ UNCHANGED made

Write(h, n) ==
    /\ h \in Writers
    /\ fp[h].fed + n <= MaxUnits
    /\ IF fp[h].error THEN UNCHANGED <<vol, fp, made>>
       ELSE LET st == WriteLoop(h, n)
            IN  /\ vol' = st.v
                /\ fp' = [fp EXCEPT ![h] =
                            [st.f EXCEPT !.fed = @ + n,
                                         !.fsize = Max({@, st.f.fptr})]]
                /\ UNCHANGED made

(* One pass of f_read; the cluster is taken from the table when the        *)
(* position reaches its edge, never before.                                *)
ReadTurn(st) ==
    LET f    == st.f
        len  == Pass(f, st.left)
        edge == f.fptr % SS = 0
        cl   == IF f.fptr = 0 THEN f.sclust ELSE GetFat(vol, f.clust)
        load == IF edge /\ f.dsect # cl THEN vol.disk[cl] ELSE f.buf
        pick(b) == [i \in 1 .. len |-> b[(f.fptr % SS) + i - 1]]
        went == [st EXCEPT !.left = @ - len]
    IN  IF st.left = 0 THEN st
        ELSE IF edge /\ cl \notin Clusters THEN [st EXCEPT !.left = 0, !.f.error = TRUE]
        ELSE IF edge /\ len = SS THEN
            [went EXCEPT !.f = [f EXCEPT !.clust = cl, !.fptr = @ + len],
                         !.out = @ \o pick(vol.disk[cl])]
        ELSE
            [went EXCEPT !.f = [f EXCEPT !.clust = IF edge THEN cl ELSE @, !.buf = load,
                                         !.dsect = IF edge THEN cl ELSE @,
                                         !.fptr = @ + len],
                         !.out = @ \o pick(load)]

ReadLoop(h, n) ==
    LET pass[k \in 0 .. n] ==
            IF k = 0 THEN [f |-> fp[h], out |-> <<>>, left |-> n]
            ELSE ReadTurn(pass[k - 1])
    IN  pass[n]

(* f_read; the worker drops what a failed call has read.                   *)
Read(h, n) ==
    /\ h \in Readers
    /\ ~fp[h].error
    /\ LET st == ReadLoop(h, Min({n, fp[h].fsize - fp[h].fptr}))
       IN  fp' = [fp EXCEPT ![h] = [st.f EXCEPT !.seen =
                                      IF st.f.error THEN <<>> ELSE st.out]]
    /\ UNCHANGED <<vol, made>>

(* f_close of a written file: f_sync writes the last sector and then the   *)
(* size and the first cluster into the entry found at open.                *)
CloseWrite_Mut(h) ==
    /\ h \in Writers
    /\ vol' = Put(vol, fp[h].slot,
                  [At(vol, fp[h].slot) EXCEPT !.size = fp[h].fsize,
                                              !.clust = fp[h].sclust])
    /\ fp' = [fp EXCEPT ![h] = Closed]
    /\ UNCHANGED made

CloseWrite(h) ==
    /\ h \in Writers
    /\ LET v == Flush(vol, fp[h]) IN
       vol' = Put(v, fp[h].slot,
                  [At(v, fp[h].slot) EXCEPT !.size = fp[h].fsize,
                                            !.clust = fp[h].sclust])
    /\ fp' = [fp EXCEPT ![h] = Closed]
    /\ UNCHANGED made

CloseRead(h) ==
    /\ h \in Readers
    /\ fp' = [fp EXCEPT ![h] = Closed]
    /\ UNCHANGED <<vol, made>>

Call ==
    \/ \E d \in Dirs : Mkdir(d) \/ Rmdir(d)
    \/ \E p \in Paths : Unlink(p)
    \/ \E h \in Handles :
         \/ \E p \in Paths : OpenWrite(h, p) \/ OpenRead(h, p)
         \/ \E n \in WriteSizes : Write(h, n)
         \/ \E n \in ReadSizes : Read(h, n)
         \/ CloseWrite(h) \/ CloseRead(h)

Next == Call /\ store' = StoreOf(vol', fp')

Spec == Init /\ [][Next]_vars

-----------------------------------------------------------------------------
(* Properties.                                                             *)

FileObject ==
    [mode : {"closed", "read", "write"}, slot : {NoSlot} \cup ((Clusters \cup {0}) \X Nat),
     sclust : Clusters \cup {0}, clust : Clusters \cup {0, EOC}, fptr : 0 .. MaxUnits,
     fsize : 0 .. MaxUnits, buf : {NoUnits}, dsect : Clusters \cup {0}, dirty : BOOLEAN,
     error : BOOLEAN, path : {<<>>} \cup Paths, ver : 0 .. MaxMade, fed : 0 .. MaxUnits,
     seen : {<<>>}, stale : BOOLEAN]

(* Of a file object all but the units it holds: who reads a file that is   *)
(* gone may hold part of a directory.                                      *)
TypeOK ==
    /\ vol.fat \in [Clusters -> Clusters \cup {0, EOC}]
    /\ vol.last \in 0 .. NFat - 1
    /\ DOMAIN vol.disk = Clusters \cup {0}
    /\ \A h \in Handles :
         [fp[h] EXCEPT !.buf = NoUnits, !.seen = <<>>] \in FileObject

DirSlots == {<<0, i>> : i \in 0 .. NRoot - 1}
LiveDirs(v) == {s \in DirSlots : IsEntry(At(v, s))}
FilesIn(v, dcl) == {s \in ToSet(Slots(v, dcl)) : IsEntry(At(v, s))}
LiveFiles(v) == UNION {FilesIn(v, At(v, d).clust) : d \in LiveDirs(v)}

(* Who owns a chain: a directory or a file by its entry, or a writer that  *)
(* has not been closed, by its address.                                    *)
ChainsOf(v, f) ==
    {<<s, At(v, s).clust>> : s \in LiveDirs(v) \cup LiveFiles(v)}
        \cup {<< <<h>>, f[h].sclust>> : h \in {h \in Handles : f[h].mode = "write"}}
Chains == ChainsOf(vol, fp)

(* No cluster belongs to two chains, and each chain ends. create_chain,    *)
(* remove_chain and the reuse of slots and clusters leave no file inside   *)
(* another one, whatever the order of opens, closes and deletes.           *)
NoCrossLink ==
    /\ \A o \in Chains : o[2] # 0 =>
         LET chain == Chain(vol, o[2]) IN
         chain # <<>> /\ IsInjective(chain) /\ vol.fat[chain[Len(chain)]] = EOC
    /\ \A o1, o2 \in Chains :
         o1 # o2 => ClustersOf(vol, o1[2]) \cap ClustersOf(vol, o2[2]) = {}

(* No cluster is lost: what the table says is taken belongs to a           *)
(* directory, a file or an open writer. A volume that lost clusters would  *)
(* fill up, as channels create and delete segments for ever.               *)
NoLostClusters ==
    {c \in Clusters : vol.fat[c] # 0} = UNION {ClustersOf(vol, o[2]) : o \in Chains}

(* A well-typed volume whose chains are apart and hold all that is taken   *)
(* (ff.cpp:923-1026).                                                      *)
VolumeSound == TypeOK /\ NoCrossLink /\ NoLostClusters

(* Only the reader of a path that was deleted or created again under it    *)
(* gets an error; a writer never does.                                     *)
ErrorsOnlyStale == \A h \in Handles : fp[h].error => h \in Readers /\ fp[h].stale

(* f_write takes fewer units than it is given only when no cluster is left *)
(* (the worker does not look at the count, ramdisk.cpp:713).               *)
Dropped(h) == fp[h].fed - fp[h].fptr
ShortOnlyWhenFull ==
    [][\A h \in Writers : fp'[h].mode = "write" /\ fp'[h].fed - fp'[h].fptr > Dropped(h)
          => \A c \in Clusters : vol'.fat[c] # 0]_vars
-----------------------------------------------------------------------------
Store == INSTANCE FileStore WITH dirs <- store.dirs, files <- store.files, hs <- store.hs

(* The volume implements the store: what a reader gets is what the last    *)
(* writer of the path was able to write, up to the path being deleted or   *)
(* created again; nobody else's units, no old ones, none out of order.     *)
ImplementsStore == Store!Spec
=============================================================================
