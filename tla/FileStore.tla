----------------------------- MODULE FileStore -----------------------------
(***************************************************************************)
(* What the ramfs worker expects of the volume under it: directories and   *)
(* files by path; a file being written is private to its handle until it   *)
(* is closed and then replaces what the path held; a reader is given the   *)
(* file as it was when opened, unless the path is deleted or created again *)
(* under it, after which it may be given anything (_FS_LOCK is 0).         *)
(*                                                                         *)
(* A file is a sequence of units, fractions of a sector; the k-th unit    *)
(* written to the n-th object made is Unit(n, k). A write may come out    *)
(* short, and says so only in a count that the worker does not look at.    *)
(***************************************************************************)
EXTENDS Naturals, Sequences

CONSTANTS
    Dirs,        \* directories in the root, one per channel
    Paths,       \* pairs of a directory and a name
    Handles,     \* the file objects of ramfs
    MaxMade,     \* bound: files and directories created
    WriteSizes,  \* units of one f_write
    ReadSizes    \* units of one f_read

VARIABLES
    dirs,    \* the directories that exist
    files,   \* the content of each path, NoFile if there is none
    hs,      \* the open files
    made     \* how many files and directories were created

svars == <<dirs, files, hs, made>>

NoFile == <<[kind |-> "none"]>>
Unit(ver, k) == [kind |-> "data", ver |-> ver, pos |-> k]

(* mode; the path; the units a writer has in the file, and how many it was *)
(* given; a reader's position, the length it saw at open, and the units of *)
(* its last read; whether the path changed under it.                       *)
Idle == [mode |-> "closed", path |-> <<>>, ver |-> 0, data |-> <<>>, fed |-> 0,
         pos |-> 0, len |-> 0, seen |-> <<>>, stale |-> FALSE]

Disturb(p) ==
    [h \in Handles |->
        IF hs[h].mode = "read" /\ hs[h].path = p
        THEN [hs[h] EXCEPT !.stale = TRUE] ELSE hs[h]]

Init ==
    /\ dirs = {}
    /\ files = [p \in Paths |-> NoFile]
    /\ hs = [h \in Handles |-> Idle]
    /\ made = 0

MakeDir(d) ==
    /\ made < MaxMade
    /\ made' = made + 1
    /\ d \notin dirs
    /\ dirs' \in {dirs \cup {d}, dirs}       \* there may be no room for it
    /\ UNCHANGED <<files, hs>>

RemoveDir(d) ==
    /\ d \in dirs
    /\ \A p \in Paths : p[1] = d => files[p] = NoFile
    /\ dirs' = dirs \ {d}
    /\ UNCHANGED <<files, hs, made>>

Create(h, p) ==
    /\ made < MaxMade
    /\ made' = made + 1
    /\ hs[h].mode = "closed"
    /\ p[1] \in dirs
    /\ files' = [files EXCEPT ![p] = <<>>]
    /\ hs' = [Disturb(p) EXCEPT ![h] =
                [Idle EXCEPT !.mode = "write", !.path = p, !.ver = made + 1]]
    /\ UNCHANGED dirs

AppendUnits(h, n) ==
    /\ hs[h].mode = "write"
    /\ \E k \in 0 .. n :
         hs' = [hs EXCEPT
                 ![h].data = @ \o [i \in 1 .. k |->
                                     Unit(hs[h].ver, hs[h].fed + i)],
                 ![h].fed = @ + n]
    /\ UNCHANGED <<dirs, files, made>>

Commit(h) ==
    /\ hs[h].mode = "write"
    /\ files' = [files EXCEPT ![hs[h].path] = hs[h].data]
    /\ hs' = [hs EXCEPT ![h] = Idle]
    /\ UNCHANGED <<dirs, made>>

Open(h, p) ==
    /\ hs[h].mode = "closed"
    /\ files[p] # NoFile
    /\ hs' = [hs EXCEPT ![h] = [Idle EXCEPT !.mode = "read", !.path = p,
                                            !.len = Len(files[p])]]
    /\ UNCHANGED <<dirs, files, made>>

AtMost(a, b) == IF a <= b THEN a ELSE b

Read(h, n) ==
    /\ hs[h].mode = "read"
    /\ ~hs[h].stale
    /\ hs' = [hs EXCEPT ![h].seen = SubSeq(files[hs[h].path], hs[h].pos + 1,
                                           AtMost(hs[h].pos + n, hs[h].len)),
                        ![h].pos = AtMost(@ + n, hs[h].len)]
    /\ UNCHANGED <<dirs, files, made>>

(* Of a path that changed: any units, or none.                             *)
ReadStale(h) ==
    /\ hs[h].mode = "read"
    /\ hs[h].stale
    /\ \E k \in hs[h].pos .. hs[h].len :
         hs' = [hs EXCEPT ![h].pos = k, ![h].seen = hs'[h].seen]
    /\ UNCHANGED <<dirs, files, made>>

Release(h) ==
    /\ hs[h].mode = "read"
    /\ hs' = [hs EXCEPT ![h] = Idle]
    /\ UNCHANGED <<dirs, files, made>>

Delete(p) ==
    /\ files[p] # NoFile
    /\ files' = [files EXCEPT ![p] = NoFile]
    /\ hs' = Disturb(p)
    /\ UNCHANGED <<dirs, made>>

Next ==
    \/ \E d \in Dirs : MakeDir(d) \/ RemoveDir(d)
    \/ \E h \in Handles :
         \/ \E p \in Paths : Create(h, p) \/ Open(h, p)
         \/ \E n \in WriteSizes : AppendUnits(h, n)
         \/ \E n \in ReadSizes : Read(h, n)
         \/ Commit(h) \/ ReadStale(h) \/ Release(h)
    \/ \E p \in Paths : Delete(p)

Spec == Init /\ [][Next]_svars
=============================================================================
