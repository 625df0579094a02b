# A TLA+ model of dvbcaster

dvbcaster receives transport-stream packets from a DVB demultiplexer, cuts
them into segment files on a FAT volume in memory, and serves the segments to
HTTP clients. The program is multi-threaded C++; nearly everything that is hard
in it is hard because of the threads. This directory models its threads, the
data they share and the order of their steps, checks the models with TLC, and
proves what can be proved of them, for every value of their parameters, with
TLAPS.

Line numbers below and in `PROJECT.json` are those of the files in `src/src`.

## The system

    DVB driver --skydvb_filter_fn--> ByteFifo --> mux thread (Channel::stream)
                                                     | ramfs_fopen/fwrite/fclose/fdelete
                                                     v
    main thread: DVBCAST_Init/Quit             ramfs queue --> ramfs worker --> FatFs --> RAM
                                                     ^
                                                     | ramfs_fopen/fread/fclose
    accept thread --> servents (one thread per client): sendRawChannel --> sockets
                              | startservice, stopservice
                              v
                          ChanMgr / Channel

### Components

| Component | State | Operations | Threads that meet there |
|---|---|---|---|
| Byte fifo, `buffer.cpp` | `writep`, `readp`, `bsize`, the bytes | put, get, peek, skip, fill levels, new, release | filter callback and mux thread; ramfs client and ramfs worker; no lock, no barrier |
| Ramfs, `ramdisk.cpp` | message ring, file handles (FIL, semaphore, fifo, result), the worker's `m_file` slots, `thread_active` | fopen, fclose, fread, fwrite, fdelete, fmkdir, frmdir, init, destory, the worker loop | mux threads and servents as clients, one worker; the ring is filled under a mutex and emptied without it |
| Channels, `channel.cpp` | channel list; per channel status, service, id, thread, `m_stream`, `m_segment`; two globals for the callback | createChannel, findChannel, startStream, stopStream, close, reset, quit, stream | servents that start and stop services, mux threads, filter callback, main thread at quit |
| Segment window, `channel.cpp` and `servent.cpp` | `seg_index`, packet count, first and last PCR, the files; the servent's `rSegIndex` | rotate, delete, follow, read | one mux thread, its readers, the ramfs worker |
| Servents, `servent.cpp`, `servmgr.cpp` | servent list; per servent status, type, socket, thread; limits, filters | allocServent, initServer, initIncoming, kill, abort, reset, handshakes, numStreams, numActiveOnPort, quit | the manager thread, the accept thread, one thread per client |
| Packetiser, `channel.cpp:77-180`, `365-413`, `dvbpsi.cpp` (the head of a segment) | PAT/PMT sections, continuity counters, block chains | section generation, PES to TS | mux thread only |
| FatFs, `ff.cpp` | FAT, directories, the sector window, file objects | f_open, f_read, f_write, f_close, f_unlink, f_mkdir, f_mount, f_mkfs | ramfs worker only |
| RAM disk, `ramdisk.cpp` | the buffer, the FATFS object, the queue's memory | ramdisk_init, ramdisk_destory, disk_read, disk_write, disk_ioctl | main thread, ramfs worker |
| Templates, `html.cpp` (`xml.cpp` is unused) | position in the file, nesting of the calls | writeTemplate, readTemplate, readIf, readLoop, readCmd | a servent |
| HTTP, `http.cpp`, `rtsp.cpp`, the handshakes of `servent.cpp` | the request, what is read of it, what was answered | nextHeader, handshakeHTTP, handshakeCMD, handshakeLocalFile, handshakeStream | a servent and its peer |
| Cookies, `http.cpp` | cookie list; a cookie per servent | CookieList::add, contains, remove | servents, without a lock |
| Streams and sockets, `stream.cpp`, `usocket.cpp`, `socket.cpp` | socket, totals | readLine, read, write, checkTimeout, close | their owner and, through kill/abort, others |
| Strings, ids, hosts, threads, `sys.cpp`, `usys.cpp` | thread flags, WLock | conversions, GnuID, startThread, endThread | all |

### What is hard, and what correctness means

* **Byte fifo.** Two threads read each other's index without a lock and decide
  on a value that is out of date at once. Correct: it is a queue of `bsize - 1`
  bytes (`Implements`); no put touches an unread byte (`NoOverwrite`); what lies
  between the indices is the stream (`InOrder`); full never looks empty
  (`FullNeverEmpty`).
* **Ramfs.** Handles are raw pointers in a queue, in the worker's slots and in
  the clients; `malloc` gives addresses again; the queue can be full; a close
  can fail; the service can be destroyed under everybody. Correct: no dangling
  handle, one answer per request, every byte accepted is handed to `f_write`, a
  short read comes at the end of the file or after a failed `f_read`, everybody is
  answered while the service runs.
* **Channels.** Three locking regimes for one object: `ChanMgr::lock`
  (createChannel), `Channel::lock` (startStream, stopStream, close) and none
  (callback, findChannel, quit). Correct: one channel per service, one thread
  per channel, nobody uses a released fifo, a stopped channel comes free.
* **Segment window.** Writer and readers share only a counter and files that
  are deleted without asking. Correct: a reader reads whole segments; the disk
  and a segment stay bounded; a reader makes progress.
* **Servents.** Unlocked walks along a list that grows at its head and whose
  members are freed and used again, sockets read while they are deleted, limits
  tested long before they are used. Correct: a servent and its socket belong to
  one thread until that thread is done with them (`SocketsSound`, `FreeIsIdle`);
  the limits hold as far as the tests can make them (`IncomingBounded`,
  `LimitHonoured`); a server comes to listen; who is told to stop stops, unless
  it is waiting for a ramfs that has been destroyed.

* **Volume.** The table, the directories and the open files are three views of
  one thing, changed one after the other, with nobody looking at locks and a
  disk that fills up. Correct: each cluster belongs to one chain and is never
  lost (`VolumeSound`); files hold what was written to them (`ImplementsStore`);
  only who reads a file that is gone gets errors (`ErrorsOnlyStale`); bytes are
  dropped only when the volume is full (`ShortOnlyWhenFull`).
* **Disk.** Two functions compute one layout, and `ramdisk_init` can fail at
  five places (`LayoutSound`, `NothingLeft`).
* **A connection.** Exceptions are thrown from any depth and end in one answer
  (`Replies`); a peer may be silent at any point (`ConnectionEnds`); pages are
  interpreted by functions that call each other (`Rendered`); sessions are
  shared without a lock (`SessionKept`).

Every hazard, at its line, is in `PROJECT.json` under `hazards`.

## The modules

| Module | What it is | Built on |
|---|---|---|
| `ByteQueue` | what the fifo promises: a bounded queue of numbered bytes | |
| `ByteFifo` | `buffer.cpp`: each call split into check, copy and store of the index | refines `ByteQueue` |
| `ByteFifo_proofs`, `RamFs_proofs`, `ChannelManager_proofs`, `SegmentWindow_proofs`, `Servents_proofs`, `FatVolume_proofs` | theorems about the module of that name | that module |
| `FatVolumeStore_proofs` | the theorem that `FatVolume` implements `FileStore` | `FatVolume_proofs` |
| `Parts_proofs` | theorems about `RamDisk`, `HttpExchange` and `Sessions` | these three |
| `RamFs` | `ramdisk.cpp`: clients, queue, worker | uses a fifo as its fill level, which `ByteFifo` justifies |
| `ChannelManager` | `channel.cpp`: list, life of a channel, callback | |
| `FileStore` | what the worker expects of the volume: files by path, private until closed | |
| `FatVolume` | `ff.cpp`: table, chains, directories, file objects | refines `FileStore` |
| `RamDisk` | `ramdisk_init`, `ramdisk_destory`, the driver, `f_mount`, `f_mkfs`, `chk_mounted` | makes the volume that `FatVolume` starts from |
| `SegmentWindow` | `Channel::stream` and `Servent::sendRawChannel` over the files | uses the ramfs worker as a fifo of requests, which `RamFs` justifies |
| `Servents` | `servent.cpp`, `servmgr.cpp`: the manager, the server, the clients, quit | |
| `TsPackets` | the tables at the head of a segment: `channel.cpp` and `dvbpsi.cpp` | |
| `HttpExchange` | one connection: the handshakes of `servent.cpp` over `http.cpp`, `stream.cpp`, `usocket.cpp` | the part of `Servents` it calls `Serve` and `RequestStream`, in detail |
| `Templates` | `HTML::writeTemplate`, the step `HttpExchange` calls the body of a page | |
| `Sessions` | `CookieList`, login and logout | the step `HttpExchange` calls login and logout |
| `MCParts` | one run for the parts that share no state with other threads: `TsPackets`, `RamDisk`, `Templates`, `HttpExchange`, `Sessions` | extends `RamDisk`, `HttpExchange`, `Sessions`; instances of the other two |
| `MCByteFifoPair` | one run for the fifo with ordered and with reordered stores | `ByteFifo` |
| `MC...` | values and symmetry for TLC | the module of that name |

### ByteFifo

`writep`, `readp`, `buf` are the fields of `buffer_fifo_t`; `prod` and `cons`
are the locals of the call in progress (`u32Writep`, `u32Readp`, `size`) and
its program counter. `PutCheck` is lines 179-204, `PutCopy` the memcpy's,
`PutPublish` the store of `writep`; `GetCheck`, `GetCopy`, `GetAdvance` are the
same of get and skip, `PeekReturn` the end of a peek, including the branch that
moves `readp` (line 317). The k-th byte of the stream has the value k, so that
loss, repetition and disorder are visible. The constant `Ordered` tells whether
the store of an index may take effect before the copy (`PutPublishEarly`,
`PutCopyLate`, `GetAdvanceEarly`, `GetCopyLate`): the source has no barrier and
the target is an ARM set-top box. A refused call changes nothing and is a
stuttering step.

### RamFs

`queue` is the ring of `msgq_*`; `fop[h]` is the `ramfs_fileop_t` at address
`h`, with `sem` the semaphore, `fifo` the fill level and the history counters
`disk` and `user`; `slots` is `m_file`. A client call is one action up to its
`sem_wait` (`Open`, `WriteRequest`, `ReadRequest`, `CloseRequest`), one action
from there (`...Return`), or one action when the fifo suffices (`WriteFast`,
`ReadFast`); the worker's actions are its drain of one block, its step to the
next slot, and one per request. `CloseRefused` is `ramfs_fclose` with the queue
full, after which both callers drop the handle.

FatFs is what the worker sees of it; `FatVolume` has its inside. The worker ignores
`bw`: what a full volume leaves out of a write (`VolumeMayFill`, `Written`) is gone,
and `lost` counts it. It ignores the error of `f_read` as well (lines 806-818): a
file deleted under its reader (`ReadMayFail`) ends the turn after whole blocks, the
answer is `FR_OK`, and `failed` keeps that every later `f_read` fails
(`FA__ERROR`). `ReadAhead` has the three ends of a turn without an error: 64 blocks,
the end of the file, and the room in the cache, to which the last block is clipped
(lines 799-804), so that its put cannot fail.

`msgq_recvmsg` runs without the mutex; the ring has one producer at a time and
one consumer, as `ByteFifo` has, so its two operations are atomic here.

### ChannelManager

`chan[c]` has the status, the service and `thread.active`; `stream[c]` the two
`ts_stream_t`; `lock`, `closing`, `mux` where the lock, a `close()` and the mux
thread are; `input` the globals `pMuxAudioInput` and `pMuxVideoInput`;
`callback` the driver's call in progress; `live` the fifos not released.
`createChannel` is one action, for it holds `ChanMgr::lock`. `startStream` is
split at each store the callback can see, and `close` at the release, the
service id, the streams and the status: `createChannel` reads the last two
without `Channel::lock`. `WLock` is recursive, so the `close()` on the error
exit of `startStream` runs under the lock the admin holds already.

The callback reads the global input pointer three times: to test it, for the
type, and for the fifo. The makefile's flag is `-o0`, which names the output
file and leaves the compiler at its default, no optimisation, so the three
reads are three loads. Between any two of them `startStream` may store the
pointers (lines 277, 291), its error exit may clear them (307-308), and `stopStream`
may clear the `h_filter` of the stream they name (336).
`Fed`, `CallbackMatches` and `CallbackTakes` are these loads.

### SegmentWindow

`mux` has the fields of `m_segment`; `files[s]` tells whether segment `s` does
not exist, is being written, or is closed; `queue` the ramfs requests in order,
with the delete among them, which nobody waits for. `Round` is one pass over
the streams with the decision at its end; packets and PCR values are chosen
freely. `Window` is the jump of a reader that is too far behind. A reader's
`lag` counts the rotations since it found the segment it reads (saturating just
above `Slack`), its `run` the run of the channel it found it in. `Disconnect`
is a client that hangs up.

### Servents

The list is `count`: a new servent goes to its head, so that a walk is a
countdown. `sv[i]` has the status, type, `sock` and `thread.active` of servent
`i`; `live` the `ClientSocket`s not deleted; `private[c]` what `isPrivate` says
of the peer. A socket and the thread started for it share a name: `thr[c]` is
where that thread is, its servent, and its walk in `numStreams`, one step per
status read and one per host read. `mgr` and `quit` are the manager thread and
the application's thread in `ServMgr::quit`.

`allocServent` and `numActiveOnPort` also walk without excluding those who free
servents, but one thread at a time calls them and nobody else makes a servent
busy or active; their results are those of one moment (or of any free servent),
and they are one step here. `kill()` is three: the status and the flag, the
socket, and the reset with `S_FREE`. A `kill()` by the thread that failed to
start another one is part of that thread's step: nobody else knows the servent.

The content of a request is abstract: a client asks for a stream, or for
anything else, which ends in `kill()`. The channel it waits for is there or
not at any moment; `ChannelManager` has its life.

A stream is between two calls of the ramfs ("stream"), inside one (`ReadSegment`:
"ramfs"), or in the close of its last segment (`CloseSegment`: "fclose"). These
calls wait on a semaphore without a timeout, and `QuitRamfs`, the end of
`DVBCAST_Quit` (dvbcast.cpp:53-62), destroys the service as soon as the walk of
`ServMgr::quit` is over. A call made before that is answered only if the worker
was serving it: `Answer` may then happen, but `Answered`, the part that is
fair, ends with the service. A call made afterwards finds no queue and returns.

### TsPackets

`getDvbPsi` with all it calls, one action per section, per packet of `PEStoTS`
and per packet written. `pes`, `new_pes`, `cc` are the locals of `PEStoTS`,
`chain` is the `buffer_chain_t`. Bytes are numbers, so that header bits,
lengths and stuffing are those of the code; only the CRC is a parameter, any
function of the bytes it covers. A failed allocation has the effect it has in
the code: no tables, a table without its program or a stream, a table cut
short, or a null pointer that is read (`crashed`). The second half of the
module is a receiver written from ISO 13818-1, against which the bytes are
checked.

### FileStore and FatVolume

The worker is the only caller of `ff.cpp`, so that a call is one action and the
volume one record: `fat` the table, `last` the hint `last_clust`, `disk` the
sectors of the clusters and, under 0, the root directory. `fp` are the file
objects, with the fields of `FIL` that matter, and `buf` and `dsect` the sector
each of them keeps (`_FS_TINY` is 0): data reach the disk when the next sector
begins or the file is closed, and that is where `ImplementsStore` could fail.
`WriteTurn` and `ReadTurn` are one pass of the loops of f_write and f_read, which
move up to a sector (`Pass`); `WriteLoop` and `ReadLoop` repeat them until nothing
is left. `Walk` follows the table, `Chain` is the walk up to its end.
`CreateChain`, `RemoveChain`, `Slots`, `Find`, `Alloc` are the functions of those
names.

A file is a sequence of units, half a sector each, which carry the number of the
file they were written to: nothing written to one file passes for another. One
sector is one cluster, as `au` = 1 makes it in the program. The sector window
and the packing of table entries into bytes are abstracted: the window is
written back before it moves (`move_window`), so that with one caller a cell has
one value. `Unshared` is the discipline of the mux thread, which closes a
segment before it opens or deletes it again; readers observe none.

`FileStore` is the promise: a writer's file is private until closed, then
replaces what the path held; a reader gets the file as it was opened, until the
path is deleted or created again, and after that anything; a write may be short.
`ImplementsStore` maps chains, entries and open buffers to it.

### RamDisk

`stage` is the step `ramdisk_init` is at, and every one may be refused; `heap` has
the addresses malloc gave, at every distance from an aligned one. A boot sector
is a record with fields of the widths on disk; `MkfsResult`, `Plan` and
`BootRecord` are f_mkfs, `Mounted` is chk_mounted reading the record back.
f_mkfs is modelled for any size of disk and any `au`; the program has 24576
sectors and 1.

### Templates

The recursion of readTemplate, readIf, readLoop and readCmd is a stack,
`templates`, of the templates in progress: whether each writes, what for, and
whether an else branch would. `eof` is `feof`: true only after a read that found
nothing, whose character is then arbitrary (`ReadChar`), since readChar returns a
variable that was never written. `writeVariable` is empty in the source, so that
conditions are false and loops run zero times; what a page should show
(`Rendering`) is defined from the nesting of its blocks, without a stack.

### HttpExchange

One servent thread and its peer. `line` and `left` say how much of which line
was read, as `readLine` takes at most the length of its buffer and leaves the
rest; `todo` is what an answer still has to write, `out` what was written, as
tokens: a status, a field, the blank line, a piece of a body. The peer is
prompt, has fallen silent, or has closed; a write or a read then fails. `Kill`
closes the socket: if lines are unread the kernel resets the connection, and the
answer may be `lost`. `HandshakeStream` and `WaitReady` are the test and the
loop of 20 sleeps (`WaitMax`), with the channel changing under them. `Shutdown` is
`ServMgr::quit` clearing `thread.active`, which the loop tests in each pass (line
683) and then leaves without an answer, and which ends `SendRawChannel`. The
branch that answers 401 is left out: handshakeAuth returns true in every case
(line 385).

### Sessions

One action per request, and in the list one per slot read or written where a
step of another thread makes a difference: `Scan` is the walk of
`CookieList::add` up to the store, `Compare` and `ClearSlot` the two halves of a
pass of `remove`. `clock` is taken modulo `Wrap` as `getTime` is.

## The runs

| Run | Question | Bounds |
|---|---|---|
| `fifo_queue` | Is the fifo a queue, with gets, peeks and skips, and what can reordered stores do to the bytes? | buffer of 5 bytes, blocks of 1 to 3, requests of 1 and 3: every pair of index positions, every wrap, full and empty; 12 bytes go more than twice round. A second fifo, of 4 bytes, with `Ordered = FALSE` |
| `fifo_peekloss` | Does a peek leave the bytes? **No**, see findings | 5 bytes, blocks of 1 and 3 |
| `ramfs_files` | Do two mux threads lose a byte that the volume had room for, or get refused? | 2 writers, 2 slots, a volume that may be full at any write, blocks of 2, caches of 5, chunks of 3: neither divides the other, so partial blocks, full caches and retried writes occur; the queue holds two messages per client |
| `ramfs_hostile` | Do handles stay sound, and is everybody answered, when everything fails? | a writer and a reader, 2 addresses, a queue of one message, files of 0 to 6 bytes in chunks of 2, blocks of 2, 3 to a turn, and a cache of 5, so that a turn ends at the room, at the end of the file or at an `f_read` that fails, and a rest that is less than a chunk stays in the cache; failing closes, quit |
| `fat_volume` | Is the volume a store of files? | 4 clusters of one sector with 2 units; one slot in the root, so that a second directory finds it full; 3 slots in a sector of a directory, two of which are the dots, so that a second file makes it grow; two names; two file objects, each a writer or a reader; 4 files and directories made, 3 units each. The volume fills up, chains are cut and clusters used again |
| `channel_admins` | Two servents, two services, every failure and quit | 2 channels, 4 fifos |
| `channel_stop` | Does a stopped channel come free, and is the callback safe? | 1 admin, 2 services |
| `channel_leak` | Does a free channel keep no fifo? **It does keep them**, see findings | 1 admin, 1 service |
| `segment_follow` | Do readers read whole segments, are disk and segments bounded, does a reader get on? | the window of the code (4 and 2), 9 segments, 2 runs of the channel, PCR 0 and 2 with a duration of 1 |
| `servents_clients` | Do the limits hold, is a free servent idle, does a server come up? | 2 clients at a time and a third while another is in `kill()`, one stream; two failing starts |
| `servents_quit` | Does every thread keep its socket, and end when told, while the application quits? | 2 clients, 2 servers (the old one in `kill()`), no failing start, which `servents_clients` has; the ramfs destroyed at the end of the walk |
| `parts` | The parts on their own, one per behaviour | see below |

`parts` asks the questions of five modules that share no variable, so that the
initial state chooses which of them runs and the others rest.

* `TsPackets`: does a receiver learn the right tables, and never wrong ones? All
  sets of 5 streams, two failures; a payload of 11 bytes, which puts the end of
  a section 0, 1, 2 and more bytes before the end of a packet.
* `RamDisk`: 19 sizes, among them those around the changes from FAT12 to FAT16
  and FAT32, around 65536 sectors and the smallest disk; 12 allocation units;
  two rounds of init and destory with every refusal.
* `Templates`: every page of up to five blocks and texts, and every sequence of
  up to three characters, which covers the escapes that are broken.
* `HttpExchange`: every kind of request, with and without permission, and lines
  of every length around those of the two buffers; a peer that is silent or
  gone at any point.
* `Sessions`: two servents, two browsers, a list of two, three logins over a
  restart of the clock.

Why the bounds are enough. The fifo has no behaviour that depends on more than
the two positions, the wrap and the fill level, and the proofs cover all sizes.
Ramfs handles interact only through the queue, the slots and reused addresses;
two clients and two addresses give all of: both in the queue, one waiting
behind the other, a slot taken by the other, an address freed and given again.
Two channels, two services and two admins give every race of one start with
one stop and of two starts; a third admin only repeats what one of them did
before. Nine segments are more than twice the window, and readers do not
interact with each other: they write nothing the mux thread reads. Two
clients at a time give a stream and a walk that counts it, with a third servent
that is freed, used again or new under the walk; the quit needs one client
before its walk, one after, and a second server. A cluster of a full volume has
three futures, to stay, to be freed and to be another file's; four clusters, of
which a directory takes one or two, give each, with chains of one and two
clusters, and the wrap of the search. The lists of disks and of lines have
every value at which a comparison of the code changes its result.

Tightness. `ReadsWhole` speaks of a reader that has fallen at most `Slack`
rotations behind since it found its segment, in the run of the channel in which
it found it. Both conditions are needed: without the first TLC shows a reader
in a deleted file, without the second a restarted channel that rewrites a file
of its previous run under a reader. That is what the code does; the property
states how slow a client may be before it happens.
`Bounded` counts `SegmentNum` files per run because the rmdir at the end of
a run fails on a directory that is not empty, and that bound is reached.
`CallbackFifoLive` holds only
because of the leak `StopReleasesFifos` shows: with the leak repaired alone
(the mutant `Releases_Mut`) TLC finds the callback in a released fifo.
`StopFreesChannel` is for one admin: a second one can stop a channel between
its `createChannel` and `startStream`, and it then stays closing for ever.
`LimitHonoured` speaks of the streams that were there throughout the count:
clients that pass the test together, or that ask before their channel exists
(line 669 skips the test), really exceed `maxDirect`. `ShutdownEnds` is about
threads whose flag was cleared: a client accepted after the server passed its
own test, or a server the manager was about to start, is missed by the walk of
`quit` and runs on. It excepts the threads that are `Stranded`: streams inside a
call of the ramfs when `DVBCAST_Quit` destroys it really wait for ever.
`FlushedOnClose` and `ShortReadAtEnd` say what the worker does to the bytes, whose
errors it does not look at: a full volume leaves a hole in a segment whose close
succeeds, and a reader whose segment was deleted gets less than the file had. What
they claim is that nothing is missing for another reason.
`WeakDamage` says how far the damage of reordered stores goes: a byte that is read
too early, or kept too long, belongs to the turn before or after at the same place,
and the put in progress repairs its own place only.
`ImplementsStore` and `ErrorsOnlyStale` except readers whose path was deleted or
created again: these really may get an error or the units of another file.
`Replies` excepts, by name, the requests it is not true of: a line so long that
the protocol does not fit the buffer (no answer), a file with a suffix the code
does not know (no answer), a client that waits for its stream when the application quits
(line 683: no answer), lines that end at the end of the buffer (the headers
then end early), and refusals sent before the headers were read (a reset may
take them). `SessionKept` excepts a slot that was filled between a thread's walk
and its store, and a clock that restarted. `Rendered` allows for one character
behind the end of a page.

Several invariants are conjunctions of named parts: `VolumeSound`, `HandlesSound`, `ServicesSound`, `Bounded`, `SocketsSound`,
`HeadSound` each start with the `TypeOK` of their module.

Deadlock is checked where the system cannot stop (`ChannelManager`). The other
configurations switch the check off: the fifo stops at its bound `MaxBytes`,
the volume, the parts and the head of a segment come to an end,
ramfs clients may be finished or destroyed, a channel may be off for good.

### Fairness

* `RamFs`: weak fairness of the worker, a thread that blocks only in bounded
  sleeps, and of a client's return from `sem_wait` once the semaphore is
  posted. No client is assumed ever to call.
* `ChannelManager`: weak fairness of each mux thread and of each command in
  progress; none of commands, callback or quit.
* `Servents`: weak fairness of the manager and of each thread. A server polls;
  a client's wait for its channel is 20 sleeps, and each read or write on a
  socket has a timeout (30 s, 3 s while streaming). The wait of a stream in the
  ramfs has none: its end is fair only while the ramfs is there, which is what
  `Answered` of `RamFs` shows, and not once it is destroyed. A client that sends header
  lines without end is assumed away: no count of lines stops it. Nobody has to
  connect, hang up or quit.
* `SegmentWindow`: weak fairness of the ramfs worker and of each reader; none
  of the mux thread, which depends on the DVB input, of stop, or of a client
  that hangs up.

* `HttpExchange`: weak fairness of the servent's thread (select returns after
  its timeout) and of a peer as long as it is prompt; nothing of a peer that is
  slow or gone.

### Findings

* `buffer_fifoPeek` moves `readp` in one of its three branches (line 317). The
  fifo stays consistent (`InOrder` and `Implements` hold with peeks in
  `fifo_queue`), but the bytes looked
  at are gone (`PeekKeepsBytes` fails).
* `Channel::close`: the commented-out call after `if (m_stream[i].h_filter)`
  (lines 199-203) makes the release of the fifo conditional on a filter that
  `stopStream` has already cleared (`StopReleasesFifos` fails).

## The proofs

`ByteFifo_proofs` holds for every buffer size, all sets of block sizes and
requests, from the named assumptions on the constants in `ByteFifo`.

* The indices (`Invariance`, hence `TypeCorrect` and `NeverFull`), for ordered
  and reordered accesses. `FullNeverEmpty` is not inductive: after a put has
  checked, nothing in it says that the room is still there. `ProdInv` records
  what the check established and shows it stable under the consumer: the room
  can only grow, and the branch the put takes on its stale `readp` is the one a
  fresh one would give. `ConsInv` is the same of a get. The arithmetic of one
  step round the ring is in `AdvanceWrite`, `AdvanceRead` and `LevelSlot`.
* The bytes (`DataInvariance`, hence `StreamInOrder`, `CopyCorrect` and
  `WritesAreDisjoint`), for ordered accesses. `DInv` adds to the above what
  lies behind `writep` between copy and store (`Written`) and what has been
  copied out (`CopiedOutRight`).
* `Refinement`: with ordered accesses, `Spec => Implements`. The mapping takes
  the bytes between the indices for the queue; checks and copies are stutters,
  `PutPublish` is the queue's put, `GetAdvance` its get or skip, `PeekReturn`
  its peek, which may keep the bytes it shows or drop them.

`RamFs_proofs` holds for any number of mux threads, servents and handle
addresses, any length of the queue and any sizes of cache, block and chunk.

* `Inductive`, hence `HandlesAreSound` and `AnsweredOnce`, with failing closes,
  a full queue and quit. Neither property is inductive: a message in the queue
  says nothing of who waits for it. `IInv` adds that a handle is in at most one
  of the queue, the worker's hands and its semaphore (`MsgInv`), that whoever
  owns it is at the call the message names (`OwnerInv`), what each client's
  handle is at each call (`ClientInv`), and that a slot holds an open file of a
  writer, once (`SlotInv`).
* `ReadsToTheEnd`: a short read is at the end of the file, or has all that was
  read before an `f_read` failed, if one turn of the worker and the cache can hold
  a chunk (`Chunk <= Rounds * Block`, `Chunk <= Cache`; the program reads 188
  bytes, a turn up to 64 KiB into a cache of 65 KiB). `ReadInv` follows the
  bytes from file to cache to reader.
* `QueueInductive`, hence `NothingRefused`: no request is refused if the queue
  is longer than what the clients can have sent at a time (`Room`). The
  invariant numbers the messages of the queue, so that two of one client
  differ, and the count follows from an injection.
* `CalmInductive`, hence `WritersAreRegistered`, `FlushedWhenClosed` and
  `WritesAccepted`, under `Calm`: no failing close, no quit, `Room`, and not more
  writers than slots. The volume may be full: `Accounted` says that each byte is
  cached, written, or left out by an `f_write`, the last only if `VolumeMayFill`.
  These are the hypotheses under which the run `ramfs_files` checks the same.
  They are needed: a close that f_close refuses
  leaves an open file without a slot, and one that the full queue refuses keeps
  its slot for good.

`ChannelManager_proofs` holds for any number of servents, services, channels
and fifos.

* `Inductive`, hence `ServicesAreSound`, `OneMux` and `FifosLive`, with every
  failure and quit. The list, the lock and the life of a channel depend on each
  other: `OneMuxPerChannel` needs that a command holding `Channel::lock` is
  the only one and finds no thread (`AdminInv`), which needs that a channel being
  closed is not free until the end of `close` (`CloseInv`) and loses its service
  before its status (`ServiceInv`). `FifoInv` says that a fifo which a stream
  names is live, except between release and the clearing of the streams.
* `CallbackSafe`: the filter callback puts into a live fifo, with no failing
  start and no quit (`~MayFail`, `~MayQuit`), the setting of the run
  `channel_stop`. The reason is `CalmInv`: only a channel whose filters
  are cleared already is closed, and such a close releases nothing.

`SegmentWindow_proofs` holds for any window, any durations and PCR, and any
number of readers.

* `Inductive`, hence `BoundsKept` and `WholeReads`. What is on disk depends on
  deletes that nobody waits for: `DiskInv` counts the files outside the window
  and finds, for the one that has just left it, the delete in the queue;
  `DeleteInv` says which segment a delete can name; `ReaderInv` says that a
  reader in time is inside the window, with no delete for its segment under way.

`Servents_proofs` holds for any limits and any number of servents and
connections, with failing starts and quit.

* `Inductive`, hence `SocketsAreSound`, `FreeServentsAreIdle`, `ClientsBounded`
  and the action property `StreamsLimited`. `Base` ties a servent, its thread
  and its socket together at every line of the thread (`ThreadOK`, `ServentOK`,
  `OneThread`). `BoundInv` adds that a server about to accept still has room, as
  nobody else makes a servent active. `LimitInv` follows the walk of
  `numStreams`: a stream that lasted throughout has been counted once passed,
  because new servents go to the head of the list, behind the walk.

`FatVolume_proofs` holds for any number of clusters, slots in the root and in a
sector, units in a sector, paths and file objects, and calls of any size, from
`VolumeConstants`.

* `Inductive`, hence `VolumeIsSound`, `ErrorsAreStale` and the action property
  `ShortIsFull`. None of the three is inductive: what a call does to the table it
  does by way of a slot or of a cluster number it has kept since an earlier call,
  and only the tree says that these still are what they were. `IInv` has five
  parts. `Tree`: every entry of the root leads to a directory, whose chain ends,
  whose slots are the two dots, then files, then blanks, and which shares no
  cluster with another one; without it a slot might be a unit of a file.
  `Apart`: the chains of all owners (entries and open writers) end, are apart,
  and hold all that is taken, which is what VolumeSound says. `Fits`: no file is
  longer than its chain, so that a reader inside the file is inside the chain.
  `Opened`: a writer's entry is a blank file of its path, it stands on the last
  cluster of its chain, and its sector is in it, so that create_chain never
  finds its cluster outside a chain; a reader that is not stale stands in the
  chain of its entry. `Counted`: a writer has no more in its file than it was
  given. TLC checked these parts on the states of the run `fat_volume` before
  they were proved.
* A chain is where a recursive function leads. `ChainIs` says that a sequence the
  table links up to a last cluster is the chain, whatever was the way to know
  it; `SoundAway`, `ApartNew`, `ApartNext` and `ApartCut` follow, which say what
  an allocation, a continuation and a removal do to all chains at once. They need
  induction over the steps, for one set at a time (`CountUp`).
* f_write and f_read are proved pass by pass (`WriteTurnKeeps`, `ReachedTurn`): a
  pass in the middle of a call leaves a volume and a file object that satisfy the
  invariant, and `WriteLoopIs`, `ReadLoopIs` count the passes.

`FatVolumeStore_proofs` holds for the same constants and proves the refinement,
`VolumeImplements`: `Spec => ImplementsStore`.

* `IInv` says where chains and entries are; `Content` adds what is in them. `Named`:
  no name is twice in the root or in a directory, and in the root nothing follows
  a blank slot, so that `dir_find` finds what is there (`LookupFinds`); what f_mkdir
  and f_open do with the first slot they find keeps it. `Filled`: a file consists
  of units that were written, all of them. `Tended`: a writer stands in or right
  behind the last sector of its chain, and inside a sector that one is dirty in
  its buffer, for which `create_chain` and the flush at the edge are needed; a
  reader that was not disturbed has a sector of its own file in its buffer, the
  one it stands in. Neither holds of a reader whose path went away, and the store
  promises it nothing.
* Who else is affected is one lemma, `ContentKept`: a call that changes one entry
  and writes to no sector of another owner (`Intact`) leaves all other files and
  open files to the store what they were. Each call is then shown to be of that
  kind, and to do to its own file what the store says: `MkdirContent`,
  `RmdirContent`, `UnlinkContent`, `CutContent` and `CloseContent`.
* f_write and f_read again go pass by pass. `OwnWrite` and `Moved` say that a pass
  appends the next units, to the buffer or to the disk, and `TwoParts` that the
  passes together append a beginning of what was given; `FetchingTurn` and
  `PiecePiece` say the same of what f_read collects. `WriteContent` and
  `ReadContent` are the calls.
* `MkdirStores` to `ReadStores` turn this into steps of `FileStore`, one lemma per
  call. The units that a volume without room did not take are the choice of
  `AppendUnits`, the entry that found the root full that of `MakeDir`.

`Parts_proofs` holds for any sizes of disk, any `au` and any addresses of
malloc, as `DiskAssumption` has them.

* `RamInductive`, hence `DiskGivenBack`: `m_ramfs` is filled in the order of
  `ramdisk_init`, and the byte before an aligned object leads back to its
  block.
* `DiskInductive`, hence `VolumeLaidOut`: whatever f_mkfs makes is mounted by
  chk_mounted, with the same type and size of clusters, and lies on the disk.
  The FAT type is computed twice, from the number of clusters before and after
  the tables are taken off; f_mkfs refuses the sizes where the two would differ
  (`Planned`, `MountedAsMade`), and the proof shows that it refuses enough. It
  rests on every allocation unit being a power of two, which `AutoUnitPower` and
  `SizesArePowers` establish by cases.

It holds for any number of threads, browsers and slots, and for any
requests and sizes of the two buffers for a line, as `SessionsAssumption` and
`HttpAssumption` have them.

* `SessionsInductive`, hence `OnlyWaysToLoseASession`, which states `SessionKept`. The
  step from "the slot taken is the oldest" to "the list was full" needs that an
  empty slot has the time 0 and a session, before the clock restarts, a greater
  one (`Dated`), for the list and for what every thread has read of it; that
  of the logout needs that a servent's cookie is of its own browser.
* `HttpInductive`, hence `OneWholeAnswer`, which states `Replies`. It speaks of
  the reply, what is written with what is about to be: `ReplyInv` says at which
  points it is empty, begun, or has a whole head, and that who ends without one is
  `Unanswered`, which stays true once it is (`StillUnanswered`), `RequestInv` which
  requests get there, `FileInv` how many writes have failed by then. A reset takes no
  answer away once the headers were read: `LineInv` follows the lines, and needs
  that what `readLine` leaves of a line that is too long has the same remainder
  (`SameRest`), so that only the blank line looks like the end of the headers.

Only model-checked:

* Liveness under fairness (`StopFreesChannel`, `ConnectionEnds` and the others) and
  everything that needs `ENABLED`.
* `WeakDamage`, about the bytes under reordered stores, of a second instance that
  exists only in the run; the indices under reordered stores are proved
  (`NeverFull`).
* `TsPackets` and `Templates`: `HeadSound`, `Decodable` and `Rendered` compare
  sequences that a recursion over the data builds (`FlattenSeq`, `SetToSortSeq`,
  the receiver's `StreamsOf`): facts about them need induction over data.

## Plan

Done: the model of all the components below, twelve runs, the proofs of the
invariants of `ByteFifo`, `RamFs`, `ChannelManager`, `SegmentWindow`, `Servents`,
`FatVolume`, `RamDisk`, `HttpExchange` and `Sessions`, and of both refinements,
`ByteFifo` of `ByteQueue` and `FatVolume` of `FileStore`.

Next: `TsPackets`, that every packet is whole (`WholePacket`). What a packet is
filled from comes out of `SetToSortSeq` and `FlattenSeq`; that these give
sequences, and of which length, has to be proved of sets and of sequences by
`CountUp` first.

## Not modelled

* The resynchronisation of stream packets (`channel.cpp:484-505`) over a fifo
  from which blocks are missing; descriptors and further sections of
  `dvbpsi.cpp`, which the program does not add.
* `xml.cpp`, the tag writers of `html.cpp`, the response reader and basic
  authentication of `http.cpp`, the connecting side of `usocket.cpp`: nothing in
  the program calls them. In `ff.cpp`: seek, truncate, rename, stat, directory
  listing, labels, formatted output and long names, unused or not compiled; the
  packing of table entries into the bytes of a sector.
* The conversions of `sys.cpp`, apart from what is named above: functions of
  their argument that no property tells apart.
* `F_RENAME` and `F_SIZE` of the ramfs, which have no sender.
* The use of the freed message queue and mutex after `ramdisk_destory` is
  undefined behaviour and is represented by nothing happening. A peer that sends
  a byte now and then holds its servent for ever; `HttpExchange` has peers that
  are prompt or silent.
* The content of the packets, apart from the PCR, is abstract everywhere.

`PROJECT.json` gives the state of each component.
