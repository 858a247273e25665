# HazardShield: a TLA+ model of the on-access scanner

HazardShield is an on-access virus scanner for Windows: a file system
minifilter (`src/HzrFilter`) that intercepts opens, writes, section requests
and cleanups, and a service (`src/HsCore/HsService`, over the ClamAV wrapper in
`src/HsCore/HsCore`) that scans what the filter asks it to. Next to them are a
reader of raw NTFS volumes and the Process Hacker library the service is built
on, whose locks, threads and objects are the concurrent code of the user side.
This directory holds specifications of these parts, the TLC configurations that
check them, and proofs for TLAPS.

## 1. Inventory

| Component | Source | State | Operations | Talks to |
|---|---|---|---|---|
| On-access scanner | `HzrFilter/HzrFilter.c`, `Context.c`, `Utility.c` | per stream: `HS_STREAM_CONTEXT` (`Flags`, `ScanLock`); per handle: `PrefetchOpen`; per volume: `CacheTable`, `CacheLock`, `CacheSupported` | `HsPostCreate`, `HsPreWrite`, `HsPreSetInformation`, `HsPreFsControl`, `HsPreAcquireForSectionSynchronization`, `HsPreCleanup`, context cleanups | the scan port, through `HsFilterScanFile`; the file system |
| Scan port | `HzrFilter.c` (`HsFilterScanFile`), `Communication.c`, `Context.c` | `NextScanContextId`, `ScanContextList` of contexts on callers' stacks, their `SectionContext`, `ClientPort` | scan a file, connect, disconnect, query a name, create a section | filter manager; the service |
| Service workers | `HsService/KhsUser.c` | port handle, completion port, `HsFileScanRoutine`, one `HS_DRIVER_NOTIFICATION` per worker's stack | connect, start, worker loop, disconnect | the port; the scan routine |
| Service life cycle | `HsService/Service.c`, `main.c` | `ServiceStatus`, `Scanner`, `ScannerLock` | start, stop, `ScanRoutine` | service control manager; workers |
| Scanner wrapper | `HsCore/Scanner.c` | `HS_SCANNER` (engine, number of signatures) | create, load, compile, scan a buffer, delete | ClamAV |
| Process protection, driver life cycle | `Protect.c`, `HzrFilter.c` (`DriverEntry`, `HsFilterUnload`), `Communication.c` | `ProtectedProcesses` under its lock, the two registration flags, `ServerPort`, `ClientProcess` | load, unload, protect, unprotect, object callback, process notification | object manager, process manager |
| NTFS reader | `HsCore/Ntfs.c`, `Ntfs.h` | `NTFS_VOLUME` (geometry, data runs of the MFT) | open and free a volume, read a record, patch the update sequence, decode data runs, collect attributes, read streams, walk indexes | a sector reader; not called by the service yet |
| Queued lock | `phlib/queuedlock.c` | one word: bits, shared owners or the head of a list of wait blocks on waiters' stacks | acquire, try, release (exclusive, shared), optimize, wake | keyed event; used by the service's `ScannerLock` and by the library |
| Fast lock | `phlib/fastlock.c` | one word of counters, two semaphores made on demand | acquire, try, release (exclusive, shared) | |
| Events, one-time initialization | `phlib/sync.c` | set bit, reference count, a kernel event made on demand | set, wait, begin, end | |
| Wake event, call with timeout | `phlib/queuedlock.c`, `hndlinfo.c` | list of wait blocks; pool of threads with start and completed events | queue, set, wait; call, terminate | system calls that may hang |
| Work queue, rundown protection | `phlib/workqueue.c`, `sync.c` | list, semaphore, counts of threads and items, protection count | queue, run, wait, delete | free lists; the deferred deletion of objects |
| Objects, pools, free lists | `phlib/ref.c`, `basesup.c` | reference counts, per-thread pools, a to-free list, a list of free blocks | create, reference, dereference, defer, drain | work queue |
| Rest of the library | `HsCore/phlib` | | strings, containers, native calls, controls | |
| User interface | `HazardShieldUI` | an empty window | | |

What is hard here, and what correctness means for each part:

* **On-access scanner.** Callbacks of different handles run concurrently; only
  `ScanLock` and interlocked bit operations order them, and `ScanLock` is held
  while the thread is outside the driver. Verdicts outlive what they are about,
  in `Flags` and in the cache. Correct: one scan of a stream at a time; a stream
  trusted as clean is clean; nothing is refused, deleted or cached as infected
  unless the service said so of that file; a request the verdict condemns is
  refused; the lock is always given back.
* **Scan port and service.** The scan context lives on a stack and is reached
  from another process by number; buffers change hands between workers; the
  service may stop, crash and come back at any point; a send or a receive may fail
  with the port open; there is no timeout. Correct: each call gets one outcome, about its own file; contexts, sections
  and buffers are not used outside their scan; a caller returns.
* **Protection.** Connections race with the steps of `DriverEntry`, exits with
  the registration of the notification, and addresses of processes are used
  again. The two connection callbacks make several stores each, without a lock,
  and overlap. Correct: a client is out of reach from the end of its connect, and
  what was granted to it, an entry in the table and the exemption of its own section
  requests, never goes to a later process at its address.
* **NTFS reader.** The volume is in use: records are rewritten and sectors fail
  while they are read. Offsets are signed, relative and of varying width, and
  lists lead from record to record. Correct: the record asked for is the one
  read, or none; a stream or file that is reported belongs to what was asked,
  once, and none is left out without a failure.
* **Locks and events of the library.** Lock-free words, wait blocks on stacks,
  kernel objects made by whoever waits first. Correct: they implement a
  reader-writer lock, or one initialization; nobody touches a block or handle
  that is gone; no wake-up is lost.
* **Work queue, calls with a timeout.** Threads come and go by timeouts while
  items arrive and the queue is deleted; a terminated thread may have been about
  to answer. Correct: an item ends once; counts are true; nothing is used after
  its owner has gone; a late answer is nobody's answer.
* **Objects.** The last reference can be dropped by any thread, at once, from a
  pool or in another thread. Correct: what is referenced exists, and what is not
  is deleted, once.

The hazards, each at its line with the properties that watch it, are listed in
`PROJECT.json`.

## 2. Modules

| Module | Content |
|---|---|
| `StreamScan` | the minifilter callbacks, contexts and cache |
| `ScanPort` | `HsFilterScanFile`, the port, the workers, start and stop of the service |
| `ScanPortProofs` | inductive invariant and theorems of `ScanPort`, the refinement included |
| `ScanCall` | abstract specification of a scan call, implemented by `ScanPort` |
| `Protector` | driver life cycle, client, protected processes |
| `Ntfs` | the NTFS reader over a volume that changes |
| `HazardShieldProofs` | inductive invariants and theorems of `StreamScan`, `Protector` and `Ntfs` |
| `ReaderWriterLock` | abstract specification of a lock with two modes, implemented by the next two |
| `QueuedLock` | the queued lock, one interlocked operation at a time |
| `QueuedLockProofs` | inductive invariant and theorems of `QueuedLock`, the refinement included |
| `FastLock` | the fast lock and its semaphores |
| `FastLockProofs` | inductive invariant and theorems of `FastLock`, the refinement included |
| `InitOnce` | `PH_INITONCE` over `PH_EVENT` |
| `InitOnceProofs` | inductive invariant and theorems of `InitOnce` |
| `WakeEvent`, `CallWithTimeout` | the wake event; the pool of threads, its client |
| `CallWithTimeoutProofs` | inductive invariant and theorems of `CallWithTimeout` and the wake event in it |
| `WorkQueue` | the work queue with rundown protection |
| `WorkQueueProofs` | inductive invariant and theorems of `WorkQueue` |
| `Objects` | reference counts, auto-dereference pools, deferred deletion, the free list |
| `ObjectsProofs` | inductive invariant and theorems of `Objects` |
| `MC...` | model values, volumes and symmetry for TLC |

`StreamScan`, `Protector` and `Ntfs` share no state. Their definitions have different
names (`ProtectorInit`, `NtfsNext`, ...) so that one proof module can extend all three.

An operator whose name ends in `_` and a lower-case word is a mutant: the
definition it is named after, changed the way a bug would change it. No
specification uses one; each shows that a property can fail.

### StreamScan

A *file object* is a handle together with the one thread that uses it. `pc`
says where that thread can be overtaken, `on` the stream it is open on, `word`
the flags it carries (the `Flags` of a context not yet attached, or the
`ResponseFlags` of a scan), `infected` its local of that name, `image` how its
last section request ended. `attached`, `flags` and `scanLock` are the stream
contexts, `cache` the `CacheTable`, `doomed` the streams with their disposition
set to delete. Flag words are sets of bits.

Steps follow the accesses to shared state:

* `HsPostCreate` looks for the context (`HsPostCreateFound`,
  `HsPostCreateNotFound`), asks the cache (`HsGetFileCacheStatus`, `CachedFlags`)
  and attaches (`HsPostCreateSetContext`, keep-if-exists). Opens without a
  context and opens by the prefetcher are `HsPostCreateSkip` and
  `HsPostCreatePrefetch`. An open of a stream whose context says `INFECTED` is
  cancelled and changes nothing, so it is the absence of a step.
* `HsPreWrite`, `HsPreSetInformation` and `HsPreFsControl` mark and pass on;
  the file system performs the operation later (`WriteLands`). What they do not
  mark is `LetThrough`.
* `HsPreAcquireForSectionSynchronization` leads into `HsFilterScanStream`:
  `AcquireScanLock`, then `ServiceScans`, `ServiceGivesUp` or
  `HsFilterScanFileFails`, then `SetScanned`, `ClearModified`, `SetInfected`,
  `SetDelete`, one interlocked operation each, and `ReleaseScanLock`.
* `HsPreCleanup` reads the flags, `HsSyncCache` stores a verdict,
  `HsPreCleanupDispose` deletes on demand.

`blind`, `examined` and `reported` are history: no guard reads them. `examined`
is what the last scan of a stream looked at. `blind` collects the streams whose
flags may say "scanned, unmodified" of content nobody looked at; there are four
ways in, each visible in one action: a verdict from the cache
(`HsPostCreateSetContext`), a modification that is let through unmarked
(`LetThrough`), and, when `MODIFIED` is cleared (`ClearModified`), a service that
did not scan, or a write marked before and landing after the service looked.
The safety properties hold outside these windows, and the run `stream_race`
shows that one of them is real.

Section requests that are not for execution (`SectionKind`, lines 478 and 479), those
of a prefetcher's file object and the service's own (`ClientProcess`) pass through. The response
flag `DELETE` is part of the driver's interface; the present `ScanRoutine` never
sends it.

### ScanPort and ScanCall

`ScanPort` follows one scan across the port: the caller (`kpc`), the list of
contexts, the filter manager's queue and the completion port, the workers
(`wpc`), the service's control thread (`svc`). A message buffer is named after
the worker on whose stack it lives; `buffer[w]` is the one worker `w` holds,
which after the first round may be any. A lookup of a context
(`HspGetScanContextSynchronized`) and its use (`QueryFileName`,
`CreateSection`) are separate steps, as in the code the
lock is released in between.

Whatever fails, fails on any error, as the code handles it. `FltSendMessage` may
return an error with the port open, before the message is queued or while its
sender waits (`SendFails`, `FltSendMessageFails`); the message then still reaches the
service, and the context on the sender's stack goes. `failed` is history, the scans
to which this happened. `FilterGetMessage` and the wait on the completion port may
fail with the port open (`ReceiveFails`), the second with or without a receive of
some worker being lost; the worker leaves its loop, and the buffer on its stack is
gone (`Gone`). A worker that then reads it is in `fault`, as is one that calls
`HsFileScanRoutine` after it was set to `NULL`, and the process ends
(`ServiceFaults`). A command that uses a context whose caller has left makes the
driver `corrupt`, after which the model ends.

`ScanCall` says what the caller may rely on: a call is asked, settled once with
an outcome that fits its own file, and returns; a closing port fails any set of
open calls together. `CallSpec` is the refinement: `phase` is computed from
`kpc`, `file` and `outcome` are the variables of that name.

`StreamScan` uses `HsFilterScanFile` at exactly this interface: `ServiceScans`
and `ServiceGivesUp` are the outcomes "infected" or "clean",
`HsFilterScanFileFails` is "failed".

### Protector

`load` is how far `DriverEntry` or `HsFilterUnload` has come. Clients connect as soon
as the port exists, which is before the table is initialised and before exits are
notified. The connection callbacks are followed store by store: `HspFilterPortConnect`
sets `ClientProcess` and takes the port's one connection (`peer`), and `ProtectClient`
is the call of `HsProtectProcess` that follows, for whatever `ClientProcess` is by then
(`connect` says which of the two has been done). `HspFilterPortDisconnect` frees the
port, and `ClearClientProcess` sets `ClientProcess` to `NULL` later, so that a client
that connects in between loses its pointer and `NULL` is entered in its place. The
insertion may fail.

`broken` stands for the use of the table before it is initialised, and is final. The
histories say what the properties are about: `admitted` are the processes that
connected in this life, `unlisted` the clients without an entry, `missed` the processes
in the table that exited unnoticed, `reach` the handles with rights that somebody
opened on a process since its connect was complete and the object callback was
registered. None of them is read by a guard. A thread in a callback keeps its process
from exiting (`InCallback`).

### Ntfs

A volume is given by its geometry, the extents of the table, its records and
index blocks, and what each sector holds. The variables are the reader's list of
runs, the last answer, and what the outside does to the volume: one record or
block may be *torn* (its first sector is new, the others are old) and one sector
unreadable, at any time between calls. Each exported function is an action;
`NtfsGetDataRuns`, `FindRun`, `Named`, `NtfsReadFileAttributes` and
`NtfsWalkIndexEntries` are its algorithms. Loops over a list are written with the
running sums of its sizes (`Sums`) and the place where the loop stops (`UpTo`). The
two recursions, from record to record and from index block to index block, are
functions of the depth: a path longer than there are records or blocks has come
back to one of them, and gives `Hang` or `NoEnd`.

`WellFormed` is the assumption on a volume, and says what the reader takes for
granted: records take several sectors and no extent cuts one, those read without
the runs are in the first extent, and record 0 encodes the extents and has no
attribute list. `FilesAreWellFormed` is the one on files: a stream that is not
resident has runs that encode its extents and lies there, streams have names of
their own, only a base record has an attribute list, which names records of its
file, and every extension record with data is in it. `IndexesAreWellFormed` is the one
on directories: the index allocation is made of whole blocks, and the entries of the
root and of each block are in order, what is below an entry before its file. A stream
is one attribute with an id of its own: NTFS may split the runs of a large stream over
several attributes that differ in `StartVCN` (`Ntfs.h:170`), which the reader does not
put together, and asserts that it has the first (`Ntfs.c:420`); such files are left
out. So are indexes that lead to a block twice, where the second visit would find the
update sequence already patched in the buffer (`Ntfs.c:195`), and directories whose
root indexes something else than names (`Ntfs.c:587`). For these
a volume also says which extents an attribute has (`extents`), which sectors an index
allocation has (`index`) and which files are below a block (`under`); nothing the
reader does uses them. TLC evaluates the three for the volumes of the run.
Memory past the end of an attribute list, which the walk can reach, is a choice
(`Junk`): nothing, an entry of size 0 (the walk never ends, status `hung`), or an
entry that names a record. A failed read frees the wrong pointer (status
`corrupt`). Both are final. The properties define what should come out from the
layout and the ownership of sectors, without the decoded runs.

### QueuedLock, FastLock and ReaderWriterLock

`QueuedLock` has the lock word (bits, count, head) and the wait block of each
thread; a thread's locals are `value` (the word it last read, for its
compare-exchange), `cur` and the place `pc`. Every interlocked operation and
every visit of a foreign block is a step; a failed compare-exchange reads the
word again. Spinning is the state in which the block's bit is still set. `WaitersAreServed`
says that no waiter is forgotten: while somebody waits and nobody owns the lock or
works on the list, a thread `Attends` to it, be it one that acquires, one that wakes,
or one that has released and has yet to find the word as it left it.
`FastLock` keeps the counters of its word as a record, and a thread creates,
stores or closes a semaphore in separate steps. The result of `NtCreateSemaphore` is
not looked at, and a handle that was never written would be stored: a creation that
fails ends the model (`failed`). `MaxCount` stands for the ten
bits of a counter. `LockSpec` maps a thread of either to idle, asking or owning
in `ReaderWriterLock`. A thread that gives up shared ownership still owns it in
the steps until it has counted itself out.

### InitOnce, WakeEvent, CallWithTimeout

`InitOnce` follows threads through `PhBeginInitOnce`: one gets to initialize, sets
the event and drops its reference; the others reference, create or find the
kernel event, check again, sleep, and drop theirs. Handles are named after the
thread that created them. Waits may time out (`Timeouts`); such a thread asks
again. `WakeEvent` has the state of the event and the steps inside its functions;
`CallWithTimeout` extends it, as its pool is the client with the race the code's
comment explains. A query context is named after its caller, so that a routine
that works for a caller who has returned can be seen. When a thread finds
`Routine` gone between its test and its call, the process ends (`fault`).

### WorkQueue

A producer is named after its item; a nested item is queued by another one while
it runs. Regions under `QueueLock` and `StateLock` are steps, with `stateLock` kept
as a variable since `PhpCreateWorkQueueThread` counts its thread after creating
it. `permits` is the semaphore. `condition` is the list of sleeping waiters.
`PhDeleteWorkQueue` is used as it must be: when no client queues any more
(`ClientsAreOut`), though items and threads may be anywhere.

### Objects

An object is named after its block. `held` counts the references of each thread,
`pools` those in its pools; `Uses` names each of them, so that they can be counted.
`table` is a client's look-up table of pointers
without references, with the mutex that the documentation of
`PhReferenceObjectSafe` asks for. Objects of the table may be deleted by deferral like
others. Pushing to the to-free list, reading its head
and queueing the routine are separate steps, as are the test of the free list's
`Count`, the push or pop, and the update of `Count`.

`RefCount` shares its storage with the link of the to-free list (`refp.h:45-55`). A
look-up of an object that waits for its deletion fails, as it should, only while that
link is `NULL`; otherwise (`Linked`) it counts the link up and succeeds
(`PhReferenceObjectSafeOfLink`). The list is broken then (`corrupt`), and the model
ends.

## 3. Runs

All instances are explored completely. `HS_MIN_FILE_SCAN_SIZE` and
`HS_MAX_FILE_SCAN_SIZE` are 2 and 4 instead of 64 and 52428800; only the order of
sizes matters.

| Run | Instance | Shows |
|---|---|---|
| `stream_threads` | two file objects, one stream, cache | `ScanLockExclusive`, `InfectedIsScanned`, `TrustedStreamIsClean`, `ConsequencesWereReported`, `MappedImageIsClean`, `ScanLockIsReleased` |
| `port_service` | two callers, two workers, two files, two scans; the service stops, crashes, restarts and may fail to start, sends and receives may fail | `BufferHasOneUser`, `WorkersAreServed` (`WaitersHaveBuffers`, `FaultIsOnGoneBuffer`), `ScanOwnsItsContext` (`ContextInUseIsListed`, `AnsweredScanKeepsNoSection`), `CallSpec`, `ScanReturns` |
| `protector_clients` | three processes, which connect at any time; the table's memory and `ObRegisterCallbacks` may fail | `ClientIsOutOfReach`, `ExemptIsClient`, `TableHoldsClients` |
| `queued_lock` | three threads, each a reader and a writer | `ListInv` (`TypeOK`, `TraversingBitIsHeld`, `WaitersAreServed`), `BlockInUseIsAlive`, `LockSpec`, `EveryAskIsGranted` |
| `fast_lock` | four threads, each a reader and a writer, a semaphore that may fail | `WordInv` (`TypeOK`, `EventsAreKept`, `WakingIsOneThread`), `LockSpec`, `EveryAskIsGranted` |
| `init_once` | four threads, timeouts | `InitializedOnce`, `EventInv` (`TypeOK`, `SleeperWillBeWoken`), `EveryCallReturns` |
| `call_timeout` | three callers, one context, creation may fail | `WaitInv` (`TypeOK`, `QueuedBlockIsLive`), `RoutineHasItsCaller`, `SuccessIsOwnAnswer`, `EveryCallReturns` |
| `work_queue` | three items, one of them nested, three threads (two at a time), two waiters, minimum 0 or 1, creation may fail | `QueueInv` (`TypeOK`, `PermitForEveryItem`, `CountsAreTrue`), `EndInv` (`QueueOutlivesThreads`, `ItemEndsOnce`), `QueueIsServed` (`EveryItemEnds`, `SomeWaitReturns`), `DeleteReturns` |
| `objects` | two blocks (both deferrable, one in a table), two threads, one routine, two references, one pool, two queued routines | `ReferenceInv` (`ReferencedObjectIsAlive`, `ReferencesAreCounted`, `ListedObjectIsStored`), `ObjectIsDeletedOnce`, `FreeListInv` (`TypeOK`, `CountFollowsList`), `UnreferencedObjectIsDeleted` |
| `ntfs` | three volumes: a fragmented table, lists in and outside their records, another file system | `RecordsAreFound` (`NtfsTypeOK`, `RunsAreTheLayout`, `RecordIsTheOneAsked`), `StreamsBelongToFile`, `StreamsAreComplete`, `FilesAreInOrder` |
| `stream_race` | two file objects, no cache | violation: a write during a scan goes unscanned |
| `objects_defer` | two deferrable objects, two threads | violation: a deferred object is not deleted |

The names in parentheses are the parts a property is the conjunction of. Where
`TypeOK` is one of them it carries some weight: in `FastLock` it says that no counter
of the packed word carries into its neighbour, in `QueuedLock` that the shared
counts stay within the number of threads. The types of `StreamScan`, `ScanPort` and
`Protector` are theorems by themselves (section 5); those of the other modules with
proofs are part of their inductive invariants.

Why the bounds suffice. Every race in `StreamScan` is between two threads on one
stream, or between a stream and its cache entry; the theorems cover the general
case, several streams that share an entry included. In `ScanPort` a mix-up needs
two callers and two workers; `MaxScanId` (the only bound on behaviour, in the
guard of `HsFilterScanFile`) is 2, so that each caller scans once or one of them
twice and meets the leftovers of its first scan; the theorems have no bound.
`Protector` needs the client, another process that opens it or connects next, and one
more to take over an address. In `QueuedLock` three threads give an owner, a waiter in the list and
one that arrives, optimizes or wakes, in all combinations of modes, and a list of
two blocks with an owner, the smallest in which the last block is not the first.
`FastLock` adds a fourth, for two waiters of one kind behind an owner with another
arriving. `InitOnce`: one thread that initializes, one that creates the event, one
that loses the race to store it, one that finds it. `CallWithTimeout`: with one
context, a holder, a sleeper and a thread that cancels its wait.
`WorkQueue`: an item may arrive, be nested and be left over; the third thread
takes the place of one that left. `Objects`: `MaxReferences`, `MaxPools` and
`MaxItems` bound the references to one object, the depth of the stack of pools and
the routines that are queued; two threads share an object, one of its references may
be pooled, and one routine may be queued while another runs. `MaximumCount` is 1, so
that two threads pass the test of `Count` and both push. The volumes of `Ntfs` put the table
before and after itself on the disk, with a record in each extent.

The deadlock check is off where the system may stop: a bound that ends the run
(`ScanPort`, `Objects`), a machine or process that has stopped (`Protector`,
`FastLock`, `CallWithTimeout`, `Ntfs`), or work that is done (`InitOnce`, `WorkQueue`). Symmetry
is never declared in a run with a liveness property.

**Fairness.** `StreamScan`: a thread inside the driver keeps running
(`WF` of `Continue`), which includes that `FltSendMessage` returns. `ScanPort`
shows where that comes from: callers, workers, control thread and filter manager
are weakly fair, as any runnable thread is scheduled; nothing is assumed of the
service's connecting, stopping or crashing, nor of an error; a process that has
faulted ends. `ScanReturns` excepts, besides `corrupt`, one state, `Stranded`: the code
ignores the results of `KhsStartFiltering` and `CreateThread`, and no worker that left
its loop is replaced; with no worker a caller does wait until the service stops. In the library's
modules each thread is weakly fair inside an operation, owners give locks back
and items come to an end; nobody is made to start an operation, a routine under
a timeout may hang for ever, and a wait need not time out. No fairness among the
waiters of a lock or semaphore is assumed, so `EveryAskIsGranted` and
`CallWithTimeout`'s `EveryCallReturns` are about the time when nobody asks any more.

## 4. Findings

Each violation run states a comment of the source as a property and shows that
the code does otherwise; `PROJECT.json` quotes the lines. `stream_race`: `MODIFIED`
is cleared after the scan instead of before it. `objects_defer`:
`PhpDeferDeleteObject` looks at the list before it pushes, and the deletion routine
can empty the list in between.

Other places where the models keep what the code does, and a property is
restricted by a named condition or a choice is left open for it:

* the size test of `HsFilterScanStream` joins with `&&` what `||` was meant for
  (`OutsideScanRange` holds of no size); a file cached as infected starts with
  `Flags` 0, as `&=` stands for `|=` (`CachedFlags`); a modification does not remove
  the cache entry (`blind`);
* when `FltSendMessage` fails, with the port open or because it closes, a caller's
  scan context goes away under a command that uses it (`corrupt`, and `failed` in
  `ContextInUseIsListed`), and a section made for that scan is not released (`outcome`
  in `AnsweredScanKeepsNoSection`);
* a worker leaves its loop on any error of a receive, another worker's included, and
  its stack goes with the buffer another may be reading; after the port is closed
  the scan routine may be gone while a worker calls it (`fault`, and `connected` in
  `FaultIsOnGoneBuffer`); with no worker left the service stays connected (`Stranded`);
* the port is opened before the protector is ready, so that the table may be used
  before it is initialised (`broken`) and an exit missed (`missed`, for which
  `TableHoldsClients` allows); a client gets no entry for want of memory, or since the
  end of an earlier connection overwrote `ClientProcess` (`unlisted`, excepted by
  `ClientIsOutOfReach`);
* a creation of a semaphore that fails goes unnoticed (`failed` in `FastLock`);
* a look-up of an object on the to-free list may succeed, where the comment of
  `PhReferenceObjectSafe` has it fail (`corrupt` in `Objects`);
* `PhfSetEvent` may read a handle of NULL before a waiter stores one, which the last
  user then does not close; a kernel event is leaked (`ClearHandle`);
* an item queued while the last threads of a queue with minimum 0 time out stays
  until another is queued (`Abandoned`); an empty queue wakes one of several
  waiters (`SomeWaitReturns`), and they return while the last items run;
* `CallRoutine` may find `Routine` gone (`fault`);
* a record at the end of an extent is looked for in the wrong place
  (`AtExtentEnd`); an attribute list is walked to the size of its header, short of
  its end (`ListIsReached`) or past it (`Junk`; `RunsPast` when the walk takes what it
  finds there for an entry); a failed read frees the wrong
  pointer (`corrupt`); index blocks that do not check are passed over in silence.

Seen in code the models leave out: a wait on a wake event that times out sets the
event, and then waits in `NtReleaseKeyedEvent` for somebody to sleep on its own
block; a second wait for rundown protection takes the address of the first one's
block for a count; a sparse run is read at the place of the run before it; the
number of a record is multiplied by its sectors in 32 bits.

## 5. Proofs

Each proof module has an inductive invariant, the conjunction of the types and a
few named parts; one lemma per part (`LockStep`, `CountStep`, ...) that goes
through the actions of `Next`; the theorem `Invariance`; and the theorems that
follow from it. Every safety property of the passing runs is proved. The invariants
have been checked with TLC on the instances of section 3 first. These are all the
assumptions on constants:

| Module | Assumption |
|---|---|
| `StreamScan` | the client's file objects are file objects, every stream has a file, every content a size, `Infectious` are contents, the least scanned size is below the greatest, `None` is no file object, stream or content |
| `ScanPort` | the workers are finitely many, `Infected` are files, `MaxScanId` is a number, `None` is no caller, worker or file |
| `Protector` | `Nobody` is no process |
| `Ntfs` | the `Volumes`, their files and their indexes are well-formed (section 2), `MFT_RECORD_USER` is a number, `NoRecord` is none |
| `QueuedLock` | the threads are finitely many, readers and writers are threads, `None` is no thread |
| `FastLock` | the threads are finitely many, and no more than a counter of the word holds, which the code does not check (1023) |
| `InitOnce` | the threads are finitely many, `None` is none of them |
| `CallWithTimeout` | `None` is no thread or context |
| `WorkQueue` | the workers are finitely many, nested items are items, minimum and maximum are numbers, `None` is no item or worker |
| `Objects` | what is in the table or deferred are objects, no thread is a deleter, `MaxReferences` is not 0, it and the other bounds are numbers, `None` is no object |

What the properties except, by the names of section 4, the theorems except too.

### Driver, service and NTFS reader

Of `StreamScan`, `HazardShieldProofs` proves for any number of file objects, streams, files and
contents that it has its types and satisfies each safety property of the
run `stream_threads`. None of them is inductive. The invariant `IInv` adds

* `LockInv`: a thread between acquire and release is the owner `scanLock` names,
  and the context it uses stays attached. This is where keep-if-exists matters;
* `FlagInv`: which bits and local flags are possible at which point;
* `ContentInv`: a trusted stream still holds what was examined, with no write
  on its way;
* `VerdictInv`: an infectious verdict moves from the answer to `Flags` and to
  the local `infected` without a gap but the one `AnswerHalfApplied` names;
* `ReportInv`: every place an adverse bit can be in goes back to a report.

`MappedImageIsClean` is an action property and follows from `IInv` at the step
that releases the lock.

Of `Protector`, with no assumption on when clients connect and what fails, it is
proved that the table holds nobody but clients, past or present, and those whose exit
was missed; that a client is out of reach from the end of its connect unless it has no
entry; and that `ClientProcess` never exempts a later process at a client's address.
`LoadInv` says what each stage of loading has set up, and `ClientInv` that
`ClientProcess` is the process connected or one whose disconnect is still under way,
which therefore has not exited. `Protection` is the step between them: a client whose
connect is complete is in the table (`ClientIsListed`).

`ScanPortProofs` proves for any number of callers, workers, files and scans, with
stops, crashes and failing starts, the types, each safety invariant of the run and
that `ScanPort` implements `ScanCall`. `BufferHasOneUser` and the refinement need
`PortInv`, which adds to the types

* `IdInv`: a call under way has a scan id of its own, and every message, queued,
  completed or being handled, carries an id given out before. Without it a new
  call could be taken for the one a late reply is about;
* `BufferInv`: each buffer is with the filter manager, in the completion port or
  with one worker, and a worker not yet created has left its buffer nowhere;
* `ServiceInv`: while the port is open no worker meets a freed scanner. This
  rests on the order of `HspServiceCleanup`, which closes the port first;
* `AnswerInv`: an infected answer that can still reach a caller is about an
  infected file.

`WorkersAreServed` has two halves. `FaultIsOnGoneBuffer` needs `LifeInv`, that the routine
is set while the port is open and there are workers to call it. `WaitersHaveBuffers` is
kept by every step from `PortInv`, by counting: a worker posts a buffer before it sleeps,
a completion that takes a buffer wakes a sleeper, and a lost receive ends one, for any
finite number of workers. `ScanOwnsItsContext` needs
`MessageInv`, that a message is in one place and its sender waits for the answer or has
failed, and `LentInv`, that a command has the context of its own scan, unless the
sender has failed, and that the context of a scan that can still be answered knows its
section. Without `MessageInv` two workers could handle one scan, and one of them could
make a section after the other had answered.

In the refinement `HsFilterScanFile` maps to `Ask`, a failing `FltSendMessage` and
a reply that finds its caller to `Settle`, `KhsDisconnect` and `ServiceExits` to
`Disconnect` of the callers that wait, `RemoveScanContext` to `Return`; all other
steps are hidden from the caller. `MaxScanId` is arbitrary but `NextScanContextId`
does not wrap around in the model (in the code it is a 64-bit counter).

Of `Ntfs`, `RecordsFound` is proved for any well-formed volumes (section 2), with tables of any
number of extents in any order on the disk: the runs that are decoded when a
volume is opened are the extents of its table, and a read of a record gives that
record, or none when it is torn or a sector of it cannot be read. The invariant is
inductive as it stands; the work is in what the loops compute. The library's
induction theorems take a predicate, which the provers cannot instantiate, so
`Induction` states the principle for sets of numbers and follows from the fact that
`<` is well founded. With it `SumsDef` and `FlattenJoins` say what running sums and
`FlattenSeq` are. Then

* `SignExtendDef`: an offset of 1 to 8 bytes that was written as a signed number is
  read back;
* `RunsAreDecoded`: adding the offsets up gives the first cluster of each extent;
* `RunIsFound`: the lookup stops at the extent a record is in, unless the record
  starts where an extent ends, which is where the code has `<=` for `<`;
* `RecordIsRead`: the update sequence of the sectors matches just when they are all
  of one record that is not being rewritten;
* `OwnAttribute`: of a record without a list, the first data attribute that is
  collected is one of the record's own.

`StreamsBelong` and `StreamsComplete` are about the call for the streams of a file.
Both are of the last answer alone, so the invariant is their conjunction with
`RecordsAreFound`, and the argument is again about what the loops compute:

* `LevelsDef` and `CollectAttributesDef`: the recursion from record to record is
  a collection over the levels below it, and a collection puts together what each
  attribute of the record gives;
* `NamedDef`: the records a list names are those of its entries up to the end of
  the list, each once, however often it names them;
* `ExtensionGives`: an extension record gives its own data and nothing from below,
  for it has no list;
* `ListGives` and `FileGives`: the lists of a file give data of its records, no
  stream twice, and a fault or a hang where a read or the walk fails; without
  those, all of it, which needs that every extension record with data is in the list;
* `AttributeIsRead` and `StreamIsRead`: the runs of an attribute lead to its sectors,
  in their order, as far as they can be read;
* `StreamsAreGiven`: what reaches the client stops at the first fault.

`FilesInOrder` is about the call for the files of a directory. Like the others it is of
the last answer alone; together they are `NtfsIInv`. `Walked` says what the walk of
some entries or of a block gives: the files below, in order, all of them if every block
is whole, or a walk that does not end (`NoEnd`), which the call answers with `hung`.

* `IndexIsFound`: the root and the allocation that are collected are those of the
  directory, in whichever of its records they are;
* `AllocationIsRead` and `BlockIsFound`: what is read of the allocation are the index's
  sectors from its start, so that the block at a cluster is the one the entry leads to,
  or none, when it is torn or what was read is too short;
* `PartsInOrder`, `SubNodeIsWalked` and `EntriesAreWalked`: sequences for parts that
  follow each other join to one for the whole, so that walks of the blocks below some
  entries make one of the entries;
* `IndexIsWalked`: by induction over levels this holds for an index of any depth;
* `FilesAreGiven`: and so for what the call gives, if there is an allocation or no
  entry needs one.

### Library

`QueuedLockProofs` proves `ListInv`, `BlockInUseIsAlive` and that `QueuedLock`
implements `ReaderWriterLock`, for any finite number of threads. The module does not
keep the order of the wait blocks, which are linked by pointers, so the invariant
`ListIInv` says that there is a description that fits: a set `Q` of the blocks in the
list, a number `N` for each block that grows from the last one, numbered `lo`, to the
head, the number `mark` of the first block that knows the last one, and for each
block that was taken off the thread `H` that will wake it. Every step has a lemma
that names the description that fits afterwards. The parts are

* `OwnerInv` and `WordInv`: what the bits and the count say of the threads that own
  the lock, and of those on the way out;
* `ListLinks`: `Next` leads from each block to the one with the number below,
  `Previous` back as far as the list was optimized, and `Last` to the last block;
* `MultiInv` and `ReadInv`: with several shared owners the last block is the first
  that was pushed and has their number, and a releaser's copy of the head still
  leads to it;
* `TravInv`: one thread has the traversing bit, and what it has linked stays linked,
  although other threads push and release meanwhile;
* `WaitInv` and `WakeInv`: a block in use is in the list or with one waker, and the
  batch of a waker is linked up to its end.

That only blocks of waiting threads are visited follows from `ReadInv`, `TravInv` and
`WakeInv`. `WaitersAreServed` is proved with the invariant before and after a step
(`ServedInv`): whoever takes the owned or the traversing bit away must see to the
waiters or leave the bit to a thread that will, and `OwnersMove` sorts the steps by
what they do to the owners. In the refinement (`LockStep`) an acquisition is a
`Grant`, whether by the first exchange, after sleep or in competition with sleepers;
the step in which an owner is no longer counted, in the word or in the last block,
or clears the owned bit is a `Release`; pushing, optimizing and waking are hidden.

`FastLockProofs` proves `WordInv` and that `FastLock` implements
`ReaderWriterLock`. `OwnerInv` makes `SharedOwners` the number of threads that own
the lock shared, has an exclusive owner alone, and keeps the lock unowned while
the waking bit is set. `WaiterInv` counts each waiter once: in the word, as a
release that some thread still has to do, or in the semaphore. A count a thread is
about to release is a set of units (`Units`), for one release may wake many. It is
what keeps the counters from borrowing from their neighbours. In the refinement an
acquisition is a `Grant`, and so is `TakeOver`: that the thread woken last finds
no owner rests on `OwnerInv` and on the waking bit being one thread. A release is
a `Release` when the word changes; what follows, waking the others, is hidden.

`InitOnceProofs` proves that one thread initializes and that `SleeperWillBeWoken`.
`CountInv` makes the reference count the initializer's reference and those of the
threads inside, `OnceInv` orders the stages of the initialization, and `HandleInv`
says when the kernel event may be closed: as long as it is not set, or somebody
sleeps on it, every thread about to sleep has the handle that the event has, and
nobody is closing one. This covers the thread that loses the race to store its
event, and the one that arrives as the last reference goes.

`CallWithTimeoutProofs` proves the module with the wake event it extends.
`BlockInv` says that a block is in one list at most, that of the event or the one
its popper walks, and that its thread has yet to test again, waits, or gives up
its wait and still waits for the unblock, which is the solution the comment in
`PhfSetWakeEvent` describes. `ContextInv` follows a context through a call: at
rest, with a thread that has not begun (`Born`), in the call (`InCall`), over
(`Over`). From `InCall` it follows that the completed event is set after the
answer and reset before the next start, so that `SuccessIsOwnAnswer`.

`WorkQueueProofs` proves both invariants of the run for any finite number of
threads. `CountInv` ties the four counters, `CurrentThreads`, `BusyCount`, the
permits of the semaphore and the references of the rundown protection, to the
numbers of threads at each place; it is linear arithmetic over cardinalities that
a step changes by 1. `ThreadInv` says that `StateLock` has at most one thread in
it that is not counted yet. `DeleteInv` orders the steps of `PhDeleteWorkQueue`,
and `ItemInv` has each item in the list or with one thread until it is destroyed.

`ObjectsProofs` proves the invariants of the run for any number of objects,
threads and routines, with pools of any depth and length, and with any objects both in
the table and deferred; `ReferencesAreSafe` is about the states before a look-up takes a
link for a count. `CountInv` says that the
references to each object, held and pooled, are finite and as many as `RefCount`;
moving one from a thread to a pool, and draining a pool, in which the others move
up, are bijections between sets of `Uses`. `PlaceInv` keeps a block in one place:
in use, in the free list, in the to-free list, in the batch of one routine, or in
the hands of one actor. `ExistInv` and `ListInv` count what exists and the updates
of `Count` under way. `UNION` and `Cardinality` carry these arguments; nothing in
them is recursive.

### Only model-checked

Liveness: fairness and `ENABLED` are outside the prover. The two
violations are traces, which TLC finds.

## 6. Not modelled

ClamAV, the filter manager, the file system and the object manager beyond what
the driver sees of them; registry, names, logging and message layouts; the empty
user interface. The memory manager's later use of a file object that has been
cleaned up is represented by other open file objects on the stream.

Of the library: conditions are modelled by their promise in `WorkQueue` and not on
the queued lock's list; `PhfResetEvent` and the barrier, which nothing uses; waits
on a wake event with a timeout, which no caller asks for; handle table, callbacks,
file pool, containers, strings. The bulk of the repository, some 90,000 of
100,000 lines, is this library's controls and dialogs (`treenew.c`, `support.c`),
its wrappers of native calls (`native.c`) and headers that declare the Windows
interface. They hold no protocol of their own and the product does not use them,
so the part of all source lines that the models cover stays small; of the driver,
the service, the NTFS reader and the library's synchronization it is most.

Of the NTFS reader: sparse runs, streams split over several attributes, an attribute
list in record 0, and volumes
corrupt in other ways than unreadable or torn sectors.

## 7. Plan

1. Done: `StreamScan`, `ScanPort` over `ScanCall`, `Protector`, with proofs; `Ntfs`;
   the library's locks, events, calls with timeouts, work queue and objects.
2. Done: theorems for every safety property of the runs and for the three refinements.
3. Next: a composition of `StreamScan` and `ScanPort` on one stream, so that the
   service's loss is seen by the flags.
