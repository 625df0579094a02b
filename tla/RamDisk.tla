------------------------------ MODULE RamDisk ------------------------------
(***************************************************************************)
(* The disk in memory under the ramfs: ramdisk_init and ramdisk_destory of *)
(* ramdisk.cpp, the disk driver there, and what they call in ff.cpp:       *)
(* f_mount, f_mkfs, and chk_mounted, which mounts the volume when the      *)
(* first request comes in.                                                 *)
(*                                                                         *)
(* One thread runs all of it. Memory is a set of blocks, named by the      *)
(* address malloc returned, and any of the four things ramdisk_init asks   *)
(* the system for may be refused. The program has one SECTOR_NUMS and      *)
(* makes the volume with au = 1; f_mkfs takes others, and so does this.    *)
(*                                                                         *)
(* A boot sector is the record of the numbers f_mkfs stores in it.         *)
(***************************************************************************)
EXTENDS Integers, FiniteSets, FiniteSetsExt

CONSTANTS
    Disks,          \* values of SECTOR_NUMS
    Units,          \* the au given to f_mkfs, in bytes
    ObjectBases,    \* where malloc may put the FATFS object
    BufferBases,    \* where malloc may put the sectors
    QueueBases,     \* where malloc may put the message queue
    MaxInits        \* bound: calls of ramdisk_init

ASSUME DiskAssumption ==
    /\ Disks \subseteq Nat /\ Units \subseteq Nat /\ MaxInits \in Nat
    /\ ObjectBases \cup BufferBases \cup QueueBases \subseteq Nat \ {0}
    /\ ObjectBases \cap BufferBases = {}
    /\ QueueBases \cap (ObjectBases \cup BufferBases) = {}

VARIABLES
    disk,     \* SECTOR_NUMS and au of this build
    stage,       \* where ramdisk_init is; "on" after it, "off" without it
    heap,     \* the addresses of the allocated blocks
    m_ramfs,  \* p_fatfs and the byte before it, p_buffer, p_align, h_msgq
    mounted,  \* FatFs[0]
    boot,     \* the volume boot record, at the partition's first sector
    fs,       \* the FATFS object
    result,   \* what the last f_mkfs or chk_mounted returned
    inits     \* calls of ramdisk_init so far

vars == <<disk, stage, heap, m_ramfs, mounted, boot, fs, result, inits>>

Null == 0
SECTOR_SIZE == 512
SECTOR_SAFE == 1024
PerSector == SECTOR_SIZE \div 32   \* directory entries in a sector

Blank == [fmt |-> "none"]
Unmounted == [fs_type |-> "none"]
NoRam == [p_fatfs |-> Null, pad |-> 0, p_buffer |-> Null, p_align |-> Null,
          h_msgq |-> Null]

(* ALIGN_PTR and the two functions on top of it: the byte before an aligned *)
(* block says how far it lies from the start of what malloc returned.       *)
AlignPtr(p, a) == ((p + a - 1) \div a) * a

AlignMalloc(p, a) == IF AlignPtr(p, a) = p THEN p + a ELSE AlignPtr(p, a)

AlignFree(ptr, pad) == ptr - pad

-----------------------------------------------------------------------------
(* f_mkfs.                                                                 *)

MIN_FAT16 == 4086
MIN_FAT32 == 65526
N_ROOTDIR == 512
N_FATS == 1
B_VOL == 63                        \* behind a partition table

PowerOf2(n) == n = 0 \/ \E k \in 0 .. 30 : n = 2 ^ k

FatType(clusters) ==
    IF clusters >= MIN_FAT32 THEN "FAT32"
    ELSE IF clusters >= MIN_FAT16 THEN "FAT16" ELSE "FAT12"

(* vst and cst: the allocation unit for a volume of that many megabytes.    *)
AutoUnit(vs) ==
    LET vst == <<1024, 512, 256, 128, 64, 32, 16, 8, 4, 2, 0>>
        cst == <<32768, 16384, 8192, 4096, 2048, 16384, 8192, 4096, 2048, 1024, 512>>
    IN  cst[Min({i \in 1 .. 11 : vs >= vst[i]})]

SectorsPerCluster(n_vol, au) ==
    LET sectors == (IF au = 0 THEN AutoUnit(n_vol \div 2000) ELSE au) \div SECTOR_SIZE
    IN  Min({128, Max({1, sectors})})

SectorsOf(bytes) == (bytes + SECTOR_SIZE - 1) \div SECTOR_SIZE

(* Offsets and sizes of the parts of a volume of n_vol sectors.             *)
Plan(n_vol, csize) ==
    LET n_clst == n_vol \div csize
        fmt    == FatType(n_clst)
        n_fat  == SectorsOf(CASE fmt = "FAT32" -> n_clst * 4 + 8
                              [] fmt = "FAT16" -> n_clst * 2 + 4
                              [] fmt = "FAT12" -> (n_clst * 3 + 1) \div 2 + 3)
        n_rsv  == IF fmt = "FAT32" THEN 32 ELSE 1
        n_dir  == IF fmt = "FAT32" THEN 0 ELSE N_ROOTDIR \div PerSector
    IN  [fmt |-> fmt, n_rsv |-> n_rsv, n_fat |-> n_fat, n_dir |-> n_dir,
         system |-> n_rsv + n_fat * N_FATS + n_dir]

TooSmall_Mut(n_vol, csize) == FALSE

(* The volume has no room for one cluster, or so few that its type changes. *)
TooSmall(n_vol, csize) ==
    LET p == Plan(n_vol, csize)
    IN  \/ n_vol < p.system + csize
        \/ LET n_clst == (n_vol - p.system) \div csize
           IN  \/ p.fmt = "FAT16" /\ n_clst < MIN_FAT16
               \/ p.fmt = "FAT32" /\ n_clst < MIN_FAT32

(* The numbers as they fit the fields: words and bytes.                     *)
BootRecord(n_vol, csize) ==
    LET p    == Plan(n_vol, csize)
        wide == p.fmt = "FAT32"
    IN  [fmt       |-> p.fmt,
         SecPerClus |-> csize % 256,
         RsvdSecCnt |-> p.n_rsv % 65536,
         NumFATs    |-> N_FATS,
         RootEntCnt |-> IF wide THEN 0 ELSE N_ROOTDIR,
         TotSec16   |-> IF n_vol < 65536 THEN n_vol ELSE 0,
         TotSec32   |-> IF n_vol < 65536 THEN 0 ELSE n_vol,
         FATSz16    |-> IF wide THEN 0 ELSE p.n_fat % 65536,
         FATSz32    |-> IF wide THEN p.n_fat ELSE 0,
         RootClus   |-> IF wide THEN 2 ELSE 0,
         Free_Count |-> IF wide THEN (n_vol - p.system) \div csize - 1 ELSE 0]

(* disk_write and disk_read refuse what lies beyond the last sector.        *)
OnDisk(sector) == sector < disk.sectors

(* The last sector f_mkfs writes: the end of the root directory.            *)
LastWritten(n_vol, csize) ==
    LET p == Plan(n_vol, csize)
    IN  B_VOL + p.system - 1 + (IF p.fmt = "FAT32" THEN csize ELSE 0)

MkfsResult ==
    LET n_vol == disk.sectors - B_VOL
        csize == SectorsPerCluster(n_vol, disk.au)
    IN  CASE ~PowerOf2(disk.au)       -> "INVALID_PARAMETER"
          [] mounted = Null           -> "NOT_ENABLED"
          [] disk.sectors < 128       -> "DISK_ERR"
          [] TooSmall(n_vol, csize)   -> "MKFS_ABORTED"
          [] ~OnDisk(LastWritten(n_vol, csize)) -> "DISK_ERR"
          [] OTHER                    -> "OK"

-----------------------------------------------------------------------------
(* chk_mounted: the object that a boot record makes, or why there is none.  *)

FatBytes(fmt, entries) ==
    CASE fmt = "FAT32" -> entries * 4
      [] fmt = "FAT16" -> entries * 2
      [] fmt = "FAT12" -> (entries * 3) \div 2 + (entries % 2)

SystemSectors(b, fasize) == b.RsvdSecCnt + fasize + b.RootEntCnt \div PerSector

Mounted(b) ==
    LET fsize  == IF b.FATSz16 # 0 THEN b.FATSz16 ELSE b.FATSz32
        tsect  == IF b.TotSec16 # 0 THEN b.TotSec16 ELSE b.TotSec32
        fasize == fsize * b.NumFATs
        sysect == SystemSectors(b, fasize)
        nclst  == (tsect - sysect) \div b.SecPerClus
        fmt    == FatType(nclst)
        wide   == fmt = "FAT32"
        valid  == /\ b.NumFATs \in {1, 2}
                  /\ b.SecPerClus # 0 /\ PowerOf2(b.SecPerClus)
                  /\ b.RootEntCnt % PerSector = 0
                  /\ b.RsvdSecCnt # 0
                  /\ tsect >= sysect
                  /\ nclst # 0
                  /\ wide <=> b.RootEntCnt = 0
                  /\ fsize >= SectorsOf(FatBytes(fmt, nclst + 2))
    IN  IF b.fmt = "none" \/ ~valid THEN Unmounted
        ELSE [fs_type   |-> fmt,
              csize     |-> b.SecPerClus,
              n_fatent  |-> nclst + 2,
              n_rootdir |-> b.RootEntCnt,
              fsize     |-> fsize,
              fatbase   |-> B_VOL + b.RsvdSecCnt,
              dirbase   |-> IF wide THEN b.RootClus ELSE B_VOL + b.RsvdSecCnt + fasize,
              database  |-> B_VOL + sysect,
              last_clust |-> IF wide THEN 2 ELSE 0]

(* clust2sect, for a cluster that is on the volume.                         *)
Clust2Sect(c) == (c - 2) * fs.csize + fs.database

-----------------------------------------------------------------------------
Init ==
    /\ disk \in [sectors : Disks, au : Units]
    /\ stage = "off"
    /\ heap = {}
    /\ m_ramfs = NoRam
    /\ mounted = Null
    /\ boot = Blank
    /\ fs = Unmounted
    /\ result = "none"
    /\ inits = 0

(* ramdisk_init clears m_ramfs.                                             *)
Begin ==
    /\ stage = "off" /\ inits < MaxInits
    /\ inits' = inits + 1
    /\ m_ramfs' = NoRam
    /\ stage' = "object"
    /\ UNCHANGED <<disk, heap, mounted, boot, fs, result>>

AllocateObject ==
    /\ stage = "object"
    /\ \E p \in ObjectBases :
          LET ptr == AlignMalloc(p, 4)
          IN  /\ heap' = heap \cup {p}
              /\ m_ramfs' = [m_ramfs EXCEPT !.p_fatfs = ptr, !.pad = ptr - p]
    /\ stage' = "buffer"
    /\ UNCHANGED <<disk, mounted, boot, fs, result, inits>>

(* The buffer is cleared.                                                   *)
AllocateBuffer ==
    /\ stage = "buffer"
    /\ \E p \in BufferBases :
          /\ heap' = heap \cup {p}
          /\ m_ramfs' = [m_ramfs EXCEPT !.p_buffer = p,
                                        !.p_align = AlignPtr(p, SECTOR_SIZE)]
    /\ boot' = Blank
    /\ stage' = "queue"
    /\ UNCHANGED <<disk, mounted, fs, result, inits>>

CreateQueue ==
    /\ stage = "queue"
    /\ \E p \in QueueBases :
          /\ heap' = heap \cup {p}
          /\ m_ramfs' = [m_ramfs EXCEPT !.h_msgq = p]
    /\ stage' = "mutex"
    /\ UNCHANGED <<disk, mounted, boot, fs, result, inits>>

(* The mutex, then f_mount, which only registers the object.                *)
Mount ==
    /\ stage = "mutex"
    /\ mounted' = m_ramfs.p_fatfs
    /\ fs' = Unmounted
    /\ stage' = "mkfs"
    /\ UNCHANGED <<disk, heap, m_ramfs, boot, result, inits>>

(* What malloc or pthread_mutex_init refuses.                               *)
Refused ==
    /\ stage \in {"object", "buffer", "queue", "mutex"}
    /\ stage' = "oom"
    /\ UNCHANGED <<disk, heap, m_ramfs, mounted, boot, fs, result, inits>>

(* f_mkfs, then the worker's thread.                                        *)
Mkfs ==
    /\ stage = "mkfs"
    /\ result' = MkfsResult
    /\ fs' = Unmounted
    /\ IF MkfsResult = "OK"
         THEN LET n_vol == disk.sectors - B_VOL
              IN  /\ boot' = BootRecord(n_vol, SectorsPerCluster(n_vol, disk.au))
                  /\ stage' = "on"
         ELSE stage' = "oom" /\ UNCHANGED boot
    /\ UNCHANGED <<disk, heap, m_ramfs, mounted, inits>>

(* The first request.                                                       *)
ChkMounted ==
    /\ stage = "on" /\ fs.fs_type = "none" /\ result = "OK"
    /\ fs' = Mounted(boot)
    /\ result' = IF fs'.fs_type = "none" THEN "NO_FILESYSTEM" ELSE "MOUNTED"
    /\ UNCHANGED <<disk, stage, heap, m_ramfs, mounted, boot, inits>>

(* What the error exit and ramdisk_destory both do: unmount, which clears   *)
(* the object while it is still there, then free.                           *)
Freed == {p \in {m_ramfs.p_buffer, m_ramfs.h_msgq} : p # Null}
         \cup (IF m_ramfs.p_fatfs = Null THEN {}
               ELSE {AlignFree(m_ramfs.p_fatfs, m_ramfs.pad)})

Release ==
    /\ mounted' = Null
    /\ fs' = IF mounted = Null THEN fs ELSE Unmounted
    /\ heap' = heap \ Freed
    /\ m_ramfs' = NoRam
    /\ boot' = Blank
    /\ stage' = "off"

Oom_Mut ==
    /\ stage = "oom"
    /\ heap' = heap \ Freed
    /\ m_ramfs' = NoRam
    /\ boot' = Blank
    /\ stage' = "off"
    /\ UNCHANGED <<disk, mounted, fs, result, inits>>

Oom == stage = "oom" /\ Release /\ UNCHANGED <<disk, result, inits>>

Destroy == stage = "on" /\ Release /\ UNCHANGED <<disk, result, inits>>

Next ==
    \/ Begin \/ AllocateObject \/ AllocateBuffer \/ CreateQueue
    \/ Mount \/ Refused \/ Mkfs \/ ChkMounted \/ Oom \/ Destroy

Spec == Init /\ [][Next]_vars

-----------------------------------------------------------------------------
(* A volume that f_mkfs has made can be mounted, as what it was made as,    *)
(* and what ff.cpp then computes stays in place: the FAT holds an entry for *)
(* every cluster, FAT, root directory and clusters do not overlap, the last *)
(* cluster ends on the disk, and the disk lies inside its buffer (f_mkfs    *)
(* and chk_mounted each compute the layout, ff.cpp:2120-2180, 3842-3880).   *)
LayoutSound ==
    /\ result # "NO_FILESYSTEM"
    /\ fs.fs_type # "none" =>
         /\ fs.fs_type = boot.fmt
         /\ fs.csize = SectorsPerCluster(disk.sectors - B_VOL, disk.au)
         /\ FatBytes(fs.fs_type, fs.n_fatent) <= fs.fsize * SECTOR_SIZE
         /\ LET root == IF fs.fs_type = "FAT32" THEN fs.database ELSE fs.dirbase
            IN  /\ B_VOL < fs.fatbase
                /\ fs.fatbase + fs.fsize <= root
                /\ root + fs.n_rootdir \div PerSector <= fs.database
         /\ fs.fs_type = "FAT32" => fs.dirbase \in 2 .. fs.n_fatent - 1
         /\ OnDisk(Clust2Sect(fs.n_fatent - 1) + fs.csize - 1)
    /\ m_ramfs.p_align # Null =>
         /\ m_ramfs.p_align >= m_ramfs.p_buffer
         /\ m_ramfs.p_align + disk.sectors * SECTOR_SIZE
              <= m_ramfs.p_buffer + disk.sectors * SECTOR_SIZE + SECTOR_SAFE

(* Whichever step of ramdisk_init is refused, and after ramdisk_destory,    *)
(* nothing stays allocated and no freed object stays mounted; what is       *)
(* freed is what malloc returned, so that the disk can be set up again      *)
(* (ramdisk.cpp:229-257, 259-300).                                          *)
NothingLeft ==
    /\ stage = "off" => heap = {} /\ mounted = Null
    /\ mounted # Null => mounted = m_ramfs.p_fatfs
    /\ Freed \subseteq heap
=============================================================================
