------------------------------ MODULE StreamScan ------------------------------
(***************************************************************************)
(* The on-access scanning of HzrFilter: the stream contexts with their     *)
(* Flags word and ScanLock, the per-volume cache of verdicts keyed by file *)
(* reference number, and the minifilter callbacks that use them            *)
(* (HzrFilter/HzrFilter.c, HzrFilter/Context.c).                           *)
(*                                                                         *)
(* A file object stands for a handle together with the one thread that     *)
(* uses it, so the callbacks of one file object are sequential and those   *)
(* of two file objects interleave.  An action is the code between two      *)
(* accesses to state that another thread can see: RtlInterlockedSetBits    *)
(* and RtlInterlockedClearBits are one step each, a section under a push   *)
(* lock is one step unless the thread leaves the driver inside it.         *)
(*                                                                         *)
(* The scan itself (HsFilterScanFile and the service behind the port) is   *)
(* here one step that looks at the content and one that brings the answer. *)
(***************************************************************************)
EXTENDS Naturals

CONSTANTS
  FileObject,        \* file objects, each with the thread that uses it
  ClientFileObject,  \* those opened by GlobalData.ClientProcess, the service
  Stream,            \* the streams of one volume
  FileId,            \* 64-bit file reference numbers, the keys of CacheTable
  IdOf,              \* the file a stream belongs to
  CacheSupported,    \* HS_INSTANCE_CONTEXT.CacheSupported of the volume
  Content,           \* what a stream can hold
  Infectious,        \* the content the engine reports as a virus
  SizeOf,            \* length in bytes of a content
  HS_MIN_FILE_SCAN_SIZE,
  HS_MAX_FILE_SCAN_SIZE,
  OpenKind,          \* kinds of open the instance issues
  InfoClass,         \* information classes the instance issues
  FsControlCode,     \* file system control codes the instance issues
  SectionKind,       \* kinds of section requests the instance issues
  None               \* NULL

ASSUME ConstantsAssumption ==
  /\ ClientFileObject \subseteq FileObject
  /\ IdOf \in [Stream -> FileId]
  /\ CacheSupported \in BOOLEAN
  /\ Infectious \subseteq Content
  /\ SizeOf \in [Content -> Nat]
  /\ HS_MIN_FILE_SCAN_SIZE \in Nat
  /\ HS_MAX_FILE_SCAN_SIZE \in Nat
  /\ HS_MIN_FILE_SCAN_SIZE < HS_MAX_FILE_SCAN_SIZE
  /\ None \notin FileObject \cup Stream \cup Content

VARIABLES
  pc,        \* where the thread of a file object is
  on,        \* the stream a file object is open on
  prefetch,  \* file objects with HS_STREAMHANDLE_CONTEXT.PrefetchOpen set
  word,      \* the flags word a thread carries: the Flags of a context not
             \* attached yet, or the ResponseFlags of its scan
  infected,  \* file objects for which the local "infected" of HsPostCreate or
             \* of HsPreAcquireForSectionSynchronization is TRUE
  image,     \* how the last section request ended
  attached,  \* streams that have a stream context
  flags,     \* HS_STREAM_CONTEXT.Flags
  scanLock,  \* owner of HS_STREAM_CONTEXT.ScanLock
  cache,     \* CacheTable: the verdict stored for a file
  doomed,    \* streams whose disposition is DeleteFile
  content,   \* what the stream holds now
  examined,  \* history: what the last scan of the stream looked at
  blind,     \* history: streams whose Flags may say scanned and unmodified of
             \* a content no scan looked at
  reported   \* history: streams the service has reported infected

local == <<on, prefetch, word, infected, image>>
store == <<cache, doomed>>
hist  == <<examined, blind, reported>>
vars  == <<pc, on, prefetch, word, infected, image, attached, flags, scanLock,
           cache, doomed, content, examined, blind, reported>>

Flag == {"INFECTED", "DELETE", "MODIFIED", "SCANNED"}

\* HS_RESPONSE_FLAG_INFECTED and HS_RESPONSE_FLAG_DELETE.
ResponseFlag == {"INFECTED", "DELETE"}

\* The points at which a thread can be overtaken.
Idle     == {"closed", "open"}
Creating == {"lookup", "attach"}
Holding  == {"scan", "reply", "clear", "infect", "delete", "release"}
Cleaning == {"sync", "dispose"}
Location == Idle \cup Creating \cup {"write", "lock"} \cup Holding \cup Cleaning

Goto(fo, to) == pc' = [pc EXCEPT ![fo] = to]

\* A stream with a write that has passed the filter and not yet landed.
PendingWrite(s) == \E fo \in FileObject : pc[fo] = "write" /\ on[fo] = s

-----------------------------------------------------------------------------
(***************************************************************************)
(* HsPostCreate.                                                           *)
(***************************************************************************)

\* Opens HsPostCreate leaves alone (stack file objects, paging files) and
\* opens for which no context could be allocated: a handle, no context.
HsPostCreateSkip(fo, s) ==
  /\ "Skipped" \in OpenKind
  /\ pc[fo] = "closed" /\ s \notin doomed
  /\ Goto(fo, "open")
  /\ on' = [on EXCEPT ![fo] = s]
  /\ UNCHANGED <<prefetch, word, infected, image, attached, flags, scanLock,
                 store, content, hist>>

\* A prefetcher open: only the stream handle context is set.
HsPostCreatePrefetch(fo, s) ==
  /\ "Prefetch" \in OpenKind
  /\ pc[fo] = "closed" /\ s \notin doomed
  /\ Goto(fo, "open")
  /\ on' = [on EXCEPT ![fo] = s]
  /\ prefetch' = prefetch \cup {fo}
  /\ UNCHANGED <<word, infected, image, attached, flags, scanLock,
                 store, content, hist>>

\* FltGetStreamContext found a context: its INFECTED bit decides, and an
\* infected stream is cancelled with STATUS_VIRUS_INFECTED.
HsPostCreateFound(fo, s) ==
  /\ "Ordinary" \in OpenKind
  /\ pc[fo] = "closed" /\ s \notin doomed
  /\ s \in attached
  /\ "INFECTED" \notin flags[s]
  /\ Goto(fo, "open")
  /\ on' = [on EXCEPT ![fo] = s]
  /\ UNCHANGED <<prefetch, word, infected, image, attached, flags, scanLock,
                 store, content, hist>>

\* STATUS_NOT_FOUND: a context is allocated and the cache asked.
HsPostCreateNotFound(fo, s) ==
  /\ "Ordinary" \in OpenKind
  /\ pc[fo] = "closed" /\ s \notin doomed
  /\ s \notin attached
  /\ Goto(fo, "lookup")
  /\ on' = [on EXCEPT ![fo] = s]
  /\ UNCHANGED <<prefetch, word, infected, image, attached, flags, scanLock,
                 store, content, hist>>

\* Mutant: the bit is assigned instead of added.
CachedFlags_assigned(verdict) ==
  IF verdict = "infected" THEN {"INFECTED"} ELSE {"SCANNED"}

\* The Flags of a new context for a file with a cached verdict: SCANNED, and
\* for an infected one "Flags &= HS_STREAM_FLAG_INFECTED".
CachedFlags(verdict) ==
  IF verdict = "infected" THEN {"SCANNED"} \cap {"INFECTED"} ELSE {"SCANNED"}

\* HsGetFileCacheStatus under CacheLock, and the initial Flags it leads to.
\* Where the volume has no cache, or HsGetFileId64 fails, or there is no
\* entry, Flags stay 0.
HsGetFileCacheStatus(fo) ==
  LET verdict == cache[IdOf[on[fo]]] IN
  /\ pc[fo] = "lookup"
  /\ Goto(fo, "attach")
  /\ \/ /\ CacheSupported /\ verdict # "none"
        /\ word' = [word EXCEPT ![fo] = CachedFlags(verdict)]
        /\ infected' = IF verdict = "infected" THEN infected \cup {fo}
                       ELSE infected \ {fo}
     \/ UNCHANGED <<word, infected>>
  /\ UNCHANGED <<on, prefetch, image, attached, flags, scanLock, store,
                 content, hist>>

\* Mutant: FLT_SET_CONTEXT_REPLACE_IF_EXISTS.
HsPostCreateSetContext_replaces(fo) ==
  LET s == on[fo] IN
  /\ pc[fo] = "attach"
  /\ attached' = attached \cup {s}
  /\ flags' = [flags EXCEPT ![s] = word[fo]]
  /\ scanLock' = [scanLock EXCEPT ![s] = None]
  /\ blind' = IF "SCANNED" \in word[fo] THEN blind \cup {s} ELSE blind \ {s}
  /\ Goto(fo, IF fo \in infected THEN "closed" ELSE "open")
  /\ on' = [on EXCEPT ![fo] = IF fo \in infected THEN None ELSE s]
  /\ word' = [word EXCEPT ![fo] = {}]
  /\ infected' = infected \ {fo}
  /\ UNCHANGED <<prefetch, image, store, content, examined, reported>>

\* FltSetStreamContext with FLT_SET_CONTEXT_KEEP_IF_EXISTS: the context that
\* is attached first stays and this thread's copy is released, as it is when
\* the call fails.  A cached infected verdict cancels the open.
HsPostCreateSetContext(fo) ==
  LET s == on[fo] IN
  /\ pc[fo] = "attach"
  /\ \/ /\ s \notin attached
        /\ attached' = attached \cup {s}
        /\ flags' = [flags EXCEPT ![s] = word[fo]]
        /\ scanLock' = [scanLock EXCEPT ![s] = None]
        /\ blind' = IF "SCANNED" \in word[fo] THEN blind \cup {s} ELSE blind \ {s}
     \/ UNCHANGED <<attached, flags, scanLock, blind>>
  /\ Goto(fo, IF fo \in infected THEN "closed" ELSE "open")
  /\ on' = [on EXCEPT ![fo] = IF fo \in infected THEN None ELSE s]
  /\ word' = [word EXCEPT ![fo] = {}]
  /\ infected' = infected \ {fo}
  /\ UNCHANGED <<prefetch, image, store, content, examined, reported>>

-----------------------------------------------------------------------------
(***************************************************************************)
(* Modification.  The pre-operation callback marks the context, if there   *)
(* is one, before the file system performs the operation.                  *)
(***************************************************************************)

\* Mutant: the bit is not set again on a context that has been scanned.
MarkModified_unscanned(s) ==
  /\ flags' = [flags EXCEPT ![s] =
                 IF s \in attached /\ "SCANNED" \notin @ THEN @ \cup {"MODIFIED"} ELSE @]
  /\ UNCHANGED blind

\* HsSetStreamContextFlags(..., HS_STREAM_FLAG_MODIFIED).
MarkModified(s) ==
  /\ flags' = [flags EXCEPT ![s] = IF s \in attached THEN @ \cup {"MODIFIED"} ELSE @]
  /\ UNCHANGED blind

\* An operation the callbacks let through unmarked.
LetThrough(s) ==
  /\ blind' = blind \cup {s}
  /\ UNCHANGED flags

HsPreWrite(fo) ==
  /\ pc[fo] = "open"
  /\ MarkModified(on[fo])
  /\ Goto(fo, "write")
  /\ UNCHANGED <<local, attached, scanLock, store, content, examined, reported>>

\* Only a change of the end of file or of the valid data length is marked.
HsPreSetInformation(fo) ==
  /\ pc[fo] = "open"
  /\ \E class \in InfoClass :
       IF class \in {"EndOfFile", "ValidDataLength"}
         THEN MarkModified(on[fo])
         ELSE LetThrough(on[fo])
  /\ Goto(fo, "write")
  /\ UNCHANGED <<local, attached, scanLock, store, content, examined, reported>>

HsPreFsControl(fo) ==
  /\ pc[fo] = "open"
  /\ \E code \in FsControlCode :
       IF code \in {"OffloadWrite", "WriteRawEncrypted", "SetZeroData"}
         THEN MarkModified(on[fo])
         ELSE LetThrough(on[fo])
  /\ Goto(fo, "write")
  /\ UNCHANGED <<local, attached, scanLock, store, content, examined, reported>>

\* The file system performs the operation the filter has passed on.
WriteLands(fo, c) ==
  /\ pc[fo] = "write"
  /\ content' = [content EXCEPT ![on[fo]] = c]
  /\ Goto(fo, "open")
  /\ UNCHANGED <<local, attached, flags, scanLock, store, hist>>

-----------------------------------------------------------------------------
(***************************************************************************)
(* HsPreAcquireForSectionSynchronization and HsFilterScanStream: a request *)
(* for an executable section.                                              *)
(***************************************************************************)

HsIsPrefetchContextPresent(fo) == fo \in prefetch

\* Requests the callback does not look into ("Other": the bit PAGE_EXECUTE is
\* not in PageProtection, or SyncType is not SyncTypeCreateSection), those of
\* prefetchers and of the client, and streams without a context: the request
\* passes through.
SectionPassesThrough(fo) ==
  /\ pc[fo] = "open"
  /\ \/ "Other" \in SectionKind
     \/ /\ "Execute" \in SectionKind
        /\ \/ HsIsPrefetchContextPresent(fo)
           \/ fo \in ClientFileObject
           \/ on[fo] \notin attached
  /\ image' = [image EXCEPT ![fo] = "mapped"]
  /\ UNCHANGED <<pc, on, prefetch, word, infected, attached, flags, scanLock,
                 store, content, hist>>

\* The size test at the head of HsFilterScanStream.
OutsideScanRange(size) ==
  size < HS_MIN_FILE_SCAN_SIZE /\ size > HS_MAX_FILE_SCAN_SIZE

\* FltGetStreamContext succeeded: HsGetFileSize and the size test, whose
\* STATUS_FILE_TOO_LARGE passes the request through.
HsPreAcquireForSectionSynchronization(fo) ==
  LET tooLarge == OutsideScanRange(SizeOf[content[on[fo]]]) IN
  /\ "Execute" \in SectionKind
  /\ pc[fo] = "open"
  /\ ~HsIsPrefetchContextPresent(fo)
  /\ fo \notin ClientFileObject
  /\ on[fo] \in attached
  /\ Goto(fo, IF tooLarge THEN "open" ELSE "lock")
  /\ image' = [image EXCEPT ![fo] = IF tooLarge THEN "mapped" ELSE "none"]
  /\ UNCHANGED <<on, prefetch, word, infected, attached, flags, scanLock,
                 store, content, hist>>

\* The test that a stream has to be scanned.
NeedsScan(s) == "MODIFIED" \in flags[s] \/ "SCANNED" \notin flags[s]

\* Mutant: the branch that does not scan leaves *Infected alone.
AcquireScanLock_forgets(fo) ==
  LET s == on[fo] IN
  /\ pc[fo] = "lock"
  /\ scanLock[s] = None
  /\ scanLock' = [scanLock EXCEPT ![s] = fo]
  /\ Goto(fo, IF NeedsScan(s) THEN "scan" ELSE "release")
  /\ UNCHANGED <<local, attached, flags, store, content, hist>>

\* FltAcquirePushLockExclusive on ScanLock, and the test under it.
AcquireScanLock(fo) ==
  LET s == on[fo] IN
  /\ pc[fo] = "lock"
  /\ scanLock[s] = None
  /\ scanLock' = [scanLock EXCEPT ![s] = fo]
  /\ IF NeedsScan(s)
       THEN /\ Goto(fo, "scan")
            /\ UNCHANGED infected
       ELSE /\ Goto(fo, "release")
            /\ infected' = IF "INFECTED" \in flags[s] THEN infected \cup {fo}
                           ELSE infected \ {fo}
  /\ UNCHANGED <<on, prefetch, word, image, attached, flags, store, content, hist>>

\* Mutant: an early return that skips FltReleasePushLock.
HsFilterScanFileFails_returns(fo) ==
  /\ pc[fo] = "scan"
  /\ Goto(fo, "open")
  /\ UNCHANGED <<local, attached, flags, scanLock, store, content, hist>>

\* HsFilterScanFile fails: no name, or FltSendMessage returned an error.  The
\* Flags stay as they are and the request passes through.
HsFilterScanFileFails(fo) ==
  /\ pc[fo] = "scan"
  /\ Goto(fo, "release")
  /\ UNCHANGED <<local, attached, flags, scanLock, store, content, hist>>

\* The service maps the file and scans it.  It may ask for the deletion of a
\* file it reports infected.
ServiceScans(fo) ==
  LET s == on[fo] IN
  /\ pc[fo] = "scan"
  /\ examined' = [examined EXCEPT ![s] = content[s]]
  /\ IF content[s] \in Infectious
       THEN /\ \E extra \in SUBSET {"DELETE"} :
                 word' = [word EXCEPT ![fo] = {"INFECTED"} \cup extra]
            /\ reported' = reported \cup {s}
       ELSE UNCHANGED <<word, reported>>
  /\ Goto(fo, "reply")
  /\ UNCHANGED <<on, prefetch, infected, image, attached, flags, scanLock,
                 store, content, blind>>

\* The service could not scan the file and answers with no flags.
ServiceGivesUp(fo) ==
  /\ pc[fo] = "scan"
  /\ examined' = [examined EXCEPT ![on[fo]] = None]
  /\ Goto(fo, "reply")
  /\ UNCHANGED <<local, attached, flags, scanLock, store, content, blind, reported>>

\* RtlInterlockedSetBits(HS_STREAM_FLAG_SCANNED).
SetScanned(fo) ==
  /\ pc[fo] = "reply"
  /\ flags' = [flags EXCEPT ![on[fo]] = @ \cup {"SCANNED"}]
  /\ Goto(fo, "clear")
  /\ UNCHANGED <<local, attached, scanLock, store, content, hist>>

\* The bits that remain to be set once MODIFIED is cleared.
AfterClear(response) ==
  IF "INFECTED" \in response THEN "infect"
  ELSE IF "DELETE" \in response THEN "delete" ELSE "release"

\* RtlInterlockedClearBits(HS_STREAM_FLAG_MODIFIED).  Whatever was marked up
\* to here counts as scanned: the history variable blind records whether the
\* content differs from the one looked at, or is about to.
ClearModified(fo) ==
  LET s == on[fo] IN
  /\ pc[fo] = "clear"
  /\ flags' = [flags EXCEPT ![s] = @ \ {"MODIFIED"}]
  /\ blind' = IF examined[s] # content[s] \/ PendingWrite(s)
                THEN blind \cup {s} ELSE blind \ {s}
  /\ Goto(fo, AfterClear(word[fo]))
  /\ UNCHANGED <<local, attached, scanLock, store, content, examined, reported>>

\* RtlInterlockedSetBits(HS_STREAM_FLAG_INFECTED).
SetInfected(fo) ==
  /\ pc[fo] = "infect"
  /\ flags' = [flags EXCEPT ![on[fo]] = @ \cup {"INFECTED"}]
  /\ infected' = infected \cup {fo}
  /\ Goto(fo, IF "DELETE" \in word[fo] THEN "delete" ELSE "release")
  /\ UNCHANGED <<on, prefetch, word, image, attached, scanLock, store, content, hist>>

\* RtlInterlockedSetBits(HS_STREAM_FLAG_DELETE).
SetDelete(fo) ==
  /\ pc[fo] = "delete"
  /\ flags' = [flags EXCEPT ![on[fo]] = @ \cup {"DELETE"}]
  /\ Goto(fo, "release")
  /\ UNCHANGED <<local, attached, scanLock, store, content, hist>>

\* FltReleasePushLock on ScanLock; the request completes with
\* STATUS_VIRUS_INFECTED or passes through.
ReleaseScanLock(fo) ==
  /\ pc[fo] = "release"
  /\ scanLock' = [scanLock EXCEPT ![on[fo]] = None]
  /\ image' = [image EXCEPT ![fo] = IF fo \in infected THEN "refused" ELSE "mapped"]
  /\ infected' = infected \ {fo}
  /\ word' = [word EXCEPT ![fo] = {}]
  /\ Goto(fo, "open")
  /\ UNCHANGED <<on, prefetch, attached, flags, store, content, hist>>

-----------------------------------------------------------------------------
(***************************************************************************)
(* HsPreCleanup, HsSyncCache, HsDeleteFile.                                *)
(***************************************************************************)

\* The file object is gone.
Close(fo) ==
  /\ Goto(fo, "closed")
  /\ on' = [on EXCEPT ![fo] = None]
  /\ image' = [image EXCEPT ![fo] = "none"]

\* A prefetcher's file object stops being one; a stream without a context
\* needs nothing.
HsPreCleanupSkip(fo) ==
  /\ pc[fo] = "open"
  /\ fo \in prefetch \/ on[fo] \notin attached
  /\ prefetch' = prefetch \ {fo}
  /\ Close(fo)
  /\ UNCHANGED <<word, infected, attached, flags, scanLock, store, content, hist>>

\* The two flags that decide whether the cache is updated.
HsPreCleanup(fo) ==
  LET s == on[fo] IN
  /\ pc[fo] = "open"
  /\ fo \notin prefetch /\ s \in attached
  /\ Goto(fo, IF "SCANNED" \in flags[s] /\ "MODIFIED" \notin flags[s]
                THEN "sync" ELSE "dispose")
  /\ UNCHANGED <<local, attached, flags, scanLock, store, content, hist>>

\* Mutant: the SCANNED bit read in place of INFECTED.
HsSyncCache_scanned(fo) ==
  LET s == on[fo] IN
  /\ pc[fo] = "sync"
  /\ Goto(fo, "dispose")
  /\ \/ /\ CacheSupported
        /\ cache' = [cache EXCEPT ![IdOf[s]] =
                       IF "SCANNED" \in flags[s] THEN "infected" ELSE "clean"]
     \/ UNCHANGED cache
  /\ UNCHANGED <<local, attached, flags, scanLock, doomed, content, hist>>

\* HsSyncCache under CacheLock: the entry is inserted or found, and takes the
\* INFECTED bit as it is now.  Without a cache, a file id or memory for the
\* entry nothing is stored.
HsSyncCache(fo) ==
  LET s == on[fo] IN
  /\ pc[fo] = "sync"
  /\ Goto(fo, "dispose")
  /\ \/ /\ CacheSupported
        /\ cache' = [cache EXCEPT ![IdOf[s]] =
                       IF "INFECTED" \in flags[s] THEN "infected" ELSE "clean"]
     \/ UNCHANGED cache
  /\ UNCHANGED <<local, attached, flags, scanLock, doomed, content, hist>>

\* HsDeleteFile, whose result is ignored, and the end of the cleanup.
HsPreCleanupDispose(fo) ==
  LET s == on[fo] IN
  /\ pc[fo] = "dispose"
  /\ doomed' \in IF "DELETE" \in flags[s] THEN {doomed, doomed \cup {s}} ELSE {doomed}
  /\ Close(fo)
  /\ UNCHANGED <<prefetch, word, infected, attached, flags, scanLock, cache,
                 content, hist>>

-----------------------------------------------------------------------------
(***************************************************************************)
(* The end of a context.                                                   *)
(***************************************************************************)

Unused(s) == \A fo \in FileObject : on[fo] # s

\* The file system gives up a stream no file object refers to;
\* HspStreamContextCleanup deletes its lock.
HspStreamContextCleanup(s) ==
  /\ s \in attached /\ Unused(s)
  /\ attached' = attached \ {s}
  /\ flags' = [flags EXCEPT ![s] = {}]
  /\ blind' = blind \ {s}
  /\ UNCHANGED <<pc, local, scanLock, store, content, examined, reported>>

\* The volume is dismounted and mounted again: the stream contexts go, and
\* HspInstanceContextCleanup empties the cache.
HspInstanceContextCleanup ==
  /\ attached = {} /\ \A s \in Stream : Unused(s)
  /\ cache' = [f \in FileId |-> "none"]
  /\ UNCHANGED <<pc, local, attached, flags, scanLock, doomed, content, hist>>

-----------------------------------------------------------------------------
Init ==
  /\ pc = [fo \in FileObject |-> "closed"]
  /\ on = [fo \in FileObject |-> None]
  /\ prefetch = {}
  /\ word = [fo \in FileObject |-> {}]
  /\ infected = {}
  /\ image = [fo \in FileObject |-> "none"]
  /\ attached = {}
  /\ flags = [s \in Stream |-> {}]
  /\ scanLock = [s \in Stream |-> None]
  /\ cache = [f \in FileId |-> "none"]
  /\ doomed = {}
  /\ content \in [Stream -> Content]
  /\ examined = [s \in Stream |-> None]
  /\ blind = {}
  /\ reported = {}

\* What the thread of a file object does inside the driver or the file system
\* once it has started an operation.
Continue(fo) ==
  \/ HsGetFileCacheStatus(fo)
  \/ HsPostCreateSetContext(fo)
  \/ \E c \in Content : WriteLands(fo, c)
  \/ AcquireScanLock(fo)
  \/ HsFilterScanFileFails(fo)
  \/ ServiceScans(fo)
  \/ ServiceGivesUp(fo)
  \/ SetScanned(fo)
  \/ ClearModified(fo)
  \/ SetInfected(fo)
  \/ SetDelete(fo)
  \/ ReleaseScanLock(fo)
  \/ HsSyncCache(fo)
  \/ HsPreCleanupDispose(fo)

\* The operations an application starts.
Start(fo) ==
  \/ \E s \in Stream :
       \/ HsPostCreateSkip(fo, s)
       \/ HsPostCreatePrefetch(fo, s)
       \/ HsPostCreateFound(fo, s)
       \/ HsPostCreateNotFound(fo, s)
  \/ HsPreWrite(fo)
  \/ HsPreSetInformation(fo)
  \/ HsPreFsControl(fo)
  \/ SectionPassesThrough(fo)
  \/ HsPreAcquireForSectionSynchronization(fo)
  \/ HsPreCleanupSkip(fo)
  \/ HsPreCleanup(fo)

Next ==
  \/ \E fo \in FileObject : Start(fo) \/ Continue(fo)
  \/ \E s \in Stream : HspStreamContextCleanup(s)
  \/ HspInstanceContextCleanup

Spec == Init /\ [][Next]_vars

\* A thread inside the driver keeps running, and FltSendMessage returns: the
\* service answers or the port is closed.
Fairness == \A fo \in FileObject : WF_vars(Continue(fo))

FairSpec == Spec /\ Fairness

-----------------------------------------------------------------------------
(***************************************************************************)
(* Properties.                                                             *)
(***************************************************************************)

\* The types of the state: in particular a verdict or an answer reaches Flags
\* only as bits of the Flags word.
TypeOK ==
  /\ pc \in [FileObject -> Location]
  /\ on \in [FileObject -> Stream \cup {None}]
  /\ prefetch \in SUBSET FileObject
  /\ word \in [FileObject -> SUBSET Flag]
  /\ infected \in SUBSET FileObject
  /\ image \in [FileObject -> {"none", "mapped", "refused"}]
  /\ attached \in SUBSET Stream
  /\ flags \in [Stream -> SUBSET Flag]
  /\ scanLock \in [Stream -> FileObject \cup {None}]
  /\ cache \in [FileId -> {"none", "clean", "infected"}]
  /\ doomed \in SUBSET Stream
  /\ content \in [Stream -> Content]
  /\ examined \in [Stream -> Content \cup {None}]
  /\ blind \in SUBSET Stream
  /\ reported \in SUBSET Stream

\* The scan of a stream is in progress in at most one thread: between the
\* acquisition and the release of ScanLock the bits of Flags belong to one
\* answer of the service.  It rests on every thread using the one context
\* that is attached, whoever lost the race to attach it.
ScanLockExclusive ==
  \A f, g \in FileObject :
    (pc[f] \in Holding /\ pc[g] \in Holding /\ on[f] = on[g]) => f = g

\* "A file cannot be infected and not scanned" (the comment that excuses
\* HsFilterScanStream from testing INFECTED before it decides to scan): in
\* every state another callback can observe, INFECTED comes with SCANNED.
InfectedIsScanned ==
  \A s \in Stream : "INFECTED" \in flags[s] => "SCANNED" \in flags[s]

\* The scan of s is between the answer and the last bit of it.
AnswerHalfApplied(s) ==
  \E fo \in FileObject : on[fo] = s /\ pc[fo] \in {"clear", "infect"}

\* What the bits of Flags are trusted for.  A context that says scanned, not
\* modified and not infected stands for content the engine does not report,
\* outside the windows recorded in blind: a verdict taken from the cache, a
\* service that answered without scanning, a modification no callback marks,
\* and a write that was marked before the answer cleared MODIFIED and landed
\* after the service had looked.
TrustedStreamIsClean ==
  \A s \in Stream :
    (/\ s \in attached
     /\ flags[s] \cap {"SCANNED", "MODIFIED", "INFECTED"} = {"SCANNED"}
     /\ s \notin blind
     /\ ~AnswerHalfApplied(s))
    => content[s] \notin Infectious

\* Every adverse consequence goes back to a report of the service on that
\* very file: the INFECTED and DELETE bits, a refused section, a cached
\* infected verdict, a deletion.
ConsequencesWereReported ==
  /\ \A s \in Stream : flags[s] \cap ResponseFlag # {} => s \in reported
  /\ \A fo \in FileObject : image[fo] = "refused" => on[fo] \in reported
  /\ \A f \in FileId :
       cache[f] = "infected" => \E s \in reported : IdOf[s] = f
  /\ doomed \subseteq reported

\* A request for an executable section that completes after the scanner was
\* asked is let through only on clean content, whatever other threads did
\* since the flags were read: with SCANNED set, MODIFIED clear and none of the
\* windows recorded in blind, infectious content ends in STATUS_VIRUS_INFECTED.
MappedImageIsClean ==
  [][\A fo \in FileObject :
       LET s == on[fo] IN
       (/\ pc[fo] = "release" /\ pc'[fo] = "open"
        /\ flags[s] \cap {"SCANNED", "MODIFIED"} = {"SCANNED"}
        /\ s \notin blind
        /\ content[s] \in Infectious)
       => image'[fo] = "refused"]_vars

\* A section request never leaves ScanLock behind: whatever the scan came to,
\* the lock of a stream is free again and again.
ScanLockIsReleased == \A s \in Stream : []<>(scanLock[s] = None)

-----------------------------------------------------------------------------
(***************************************************************************)
(* What comments of HzrFilter.c say and the code does not do.              *)
(***************************************************************************)

\* "Only scan the file if it hasn't already been scanned, or if it has been
\* modified": a request answered from the flags concerns the content the last
\* scan looked at.
ModifiedStreamIsRescanned ==
  [][\A fo \in FileObject :
       LET s == on[fo] IN
       (pc[fo] = "lock" /\ pc'[fo] = "release" /\ examined[s] # None)
       => content[s] = examined[s]]_vars

=============================================================================
