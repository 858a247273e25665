------------------------------- MODULE ScanPort -------------------------------
(***************************************************************************)
(* A scan across the communication port: HsFilterScanFile with the list of *)
(* scan contexts (HzrFilter/HzrFilter.c), the port callbacks               *)
(* (HzrFilter/Communication.c), the worker threads of the service          *)
(* (HsCore/HsService/KhsUser.c) and the service's start and stop           *)
(* (HsCore/HsService/Service.c, with HsCore/HsCore/Scanner.c).             *)
(*                                                                         *)
(* The filter manager and the I/O completion port are external: a message  *)
(* waits in the port until a buffer is posted with FilterGetMessage, the   *)
(* completion goes to whichever worker asks first, and the reply wakes the *)
(* sender.  When the service's handle of the port is closed every waiting  *)
(* sender fails and every posted buffer is cancelled.                      *)
(*                                                                         *)
(* A scan context lives on the stack of its caller, a message buffer on    *)
(* the stack of the worker it is named after.  Either may be used after    *)
(* its thread has left: a worker that reads such a buffer, or calls a NULL *)
(* pointer, faults, and the process of the service ends; a command that    *)
(* uses such a context leaves the driver corrupt, and the model ends.      *)
(***************************************************************************)
EXTENDS Naturals, Sequences, FiniteSets

CONSTANTS
  Caller,         \* threads of the driver that scan
  Worker,         \* worker threads, and their message buffers
  File,           \* files
  Infected,       \* the files the engine reports
  MaxScanId,      \* bound on NextScanContextId
  None            \* NULL

ASSUME ConstantsAssumption ==
  /\ IsFiniteSet(Worker)
  /\ Infected \subseteq File
  /\ MaxScanId \in Nat
  /\ None \notin Caller \cup Worker \cup File

VARIABLES
  \* the driver
  kpc,         \* where a caller is in HsFilterScanFile
  file,        \* scanContext.FileObject
  scanId,      \* scanContext.ScanId
  nextId,      \* GlobalData.NextScanContextId
  scanList,    \* GlobalData.ScanContextList: callers whose context is in it
  section,     \* callers with scanContext.SectionContext set
  sections,    \* scan ids whose section context has not been released
  outcome,     \* what FltSendMessage returned
  failed,      \* the scan ids whose FltSendMessage has failed (history)
  corrupt,     \* a command has used a scan context that was gone
  \* the port
  connected,   \* GlobalData.ClientPort and HsKhsPortHandle are valid
  queue,       \* scan ids of the messages no buffer has taken
  posted,      \* buffers waiting for a message
  completed,   \* buffers with a message, in the completion port
  \* the service
  svc,         \* where the control thread of the service is
  routine,     \* HsFileScanRoutine is set
  scanner,     \* ServiceData.Scanner
  wpc,         \* where a worker is
  buffer,      \* the "notification" of a worker
  message,     \* the ScanId in a buffer
  context,     \* the scan context a worker looked up for a command
  response     \* responseFlags of a worker

driver  == <<kpc, file, scanId, nextId, scanList, section, sections, outcome,
             failed, corrupt>>
port    == <<connected, queue, posted, completed>>
control == <<svc, routine, scanner>>
worker  == <<wpc, buffer, message, context, response>>
vars    == <<kpc, file, scanId, nextId, scanList, section, sections, outcome,
             failed, corrupt, connected, queue, posted, completed, svc,
             routine, scanner, wpc, buffer, message, context, response>>

Go(w, to) == wpc' = [wpc EXCEPT ![w] = to]

-----------------------------------------------------------------------------
(***************************************************************************)
(* HsFilterScanFile.                                                       *)
(***************************************************************************)

\* The context is filled in and inserted under ScanContextListLock.
HsFilterScanFile(c, f) ==
  /\ kpc[c] = "idle"
  /\ nextId < MaxScanId
  /\ nextId' = nextId + 1
  /\ scanId' = [scanId EXCEPT ![c] = nextId']
  /\ file' = [file EXCEPT ![c] = f]
  /\ section' = section \ {c}
  /\ scanList' = scanList \cup {c}
  /\ kpc' = [kpc EXCEPT ![c] = "send"]
  /\ UNCHANGED <<sections, outcome, failed, corrupt, port, control, worker>>

\* FltSendMessage returns an error.
SendFails(c) ==
  /\ kpc' = [kpc EXCEPT ![c] = "remove"]
  /\ outcome' = [outcome EXCEPT ![c] = "failed"]
  /\ failed' = failed \cup {scanId[c]}

\* FltSendMessage without a timeout: the message is queued, or there is no
\* client or no memory.
FltSendMessage(c) ==
  /\ kpc[c] = "send"
  /\ \/ /\ connected
        /\ kpc' = [kpc EXCEPT ![c] = "wait"]
        /\ queue' = Append(queue, scanId[c])
        /\ UNCHANGED <<outcome, failed>>
     \/ SendFails(c) /\ UNCHANGED queue
  /\ UNCHANGED <<file, scanId, nextId, scanList, section, sections, corrupt,
                 connected, posted, completed, control, worker>>

\* The calling thread is terminated while it waits.  Its message may still be
\* delivered, and the service may be at work on it.
FltSendMessageFails(c) ==
  /\ kpc[c] = "wait"
  /\ SendFails(c)
  /\ UNCHANGED <<file, scanId, nextId, scanList, section, sections, corrupt,
                 port, control, worker>>

\* Mutant: the object is not dereferenced.
HsReleaseSectionContext_missing(c) == UNCHANGED sections

\* The section object is given up.
HsReleaseSectionContext(c) == sections' = sections \ {scanId[c]}

\* After a success the section, if the service asked for one, is released.
ScanAnswered(c) ==
  /\ kpc[c] = "answered"
  /\ IF c \in section THEN HsReleaseSectionContext(c) ELSE UNCHANGED sections
  /\ kpc' = [kpc EXCEPT ![c] = "remove"]
  /\ UNCHANGED <<file, scanId, nextId, scanList, section, outcome,
                 failed, corrupt, port, control, worker>>

\* RemoveEntryList under ScanContextListLock, and the return that ends the
\* life of the context.
RemoveScanContext(c) ==
  /\ kpc[c] = "remove"
  /\ scanList' = scanList \ {c}
  /\ kpc' = [kpc EXCEPT ![c] = "idle"]
  /\ file' = [file EXCEPT ![c] = None]
  /\ scanId' = [scanId EXCEPT ![c] = 0]
  /\ section' = section \ {c}
  /\ outcome' = [outcome EXCEPT ![c] = "none"]
  /\ UNCHANGED <<nextId, sections, failed, corrupt, port, control, worker>>

-----------------------------------------------------------------------------
(***************************************************************************)
(* The filter manager (external).                                          *)
(***************************************************************************)

\* A queued message fills a posted buffer.
DeliverMessage(b) ==
  /\ b \in posted /\ queue # << >>
  /\ message' = [message EXCEPT ![b] = Head(queue)]
  /\ queue' = Tail(queue)
  /\ posted' = posted \ {b}
  /\ completed' = completed \cup {b}
  /\ UNCHANGED <<driver, connected, control, wpc, buffer, context, response>>

\* The handle of the port is closed: FltSendMessage fails in every waiting
\* thread, and HspFilterPortDisconnect sets ClientPort to NULL.
PortCloses ==
  /\ connected' = FALSE
  /\ kpc' = [c \in Caller |-> IF kpc[c] = "wait" THEN "remove" ELSE kpc[c]]
  /\ outcome' = [c \in Caller |-> IF kpc[c] = "wait" THEN "failed" ELSE outcome[c]]
  /\ failed' = failed \cup {scanId[c] : c \in {d \in Caller : kpc[d] = "wait"}}
  /\ queue' = << >>
  /\ posted' = {}

-----------------------------------------------------------------------------
(***************************************************************************)
(* KhspUserScanWorker.                                                     *)
(***************************************************************************)

\* The stack of a worker is gone once it has returned.
Gone(w) == wpc[w] = "exited"

\* Mutant: the result is not looked at.
FilterGetMessage_unchecked(w) ==
  /\ wpc[w] = "get"
  /\ \/ /\ connected /\ ~Gone(buffer[w])
        /\ posted' = posted \cup {buffer[w]}
     \/ UNCHANGED posted
  /\ buffer' = [buffer EXCEPT ![w] = None]
  /\ Go(w, "dequeue")
  /\ UNCHANGED <<driver, connected, queue, completed, control, message,
                 context, response>>

\* FilterGetMessage posts the buffer; if it fails, because the port is closed,
\* the buffer cannot be written, or for want of memory, the worker returns.
FilterGetMessage(w) ==
  /\ wpc[w] = "get"
  /\ \/ /\ connected /\ ~Gone(buffer[w])
        /\ posted' = posted \cup {buffer[w]}
        /\ buffer' = [buffer EXCEPT ![w] = None]
        /\ Go(w, "dequeue")
     \/ /\ Go(w, "exited")
        /\ UNCHANGED <<posted, buffer>>
  /\ UNCHANGED <<driver, connected, queue, completed, control, message,
                 context, response>>

\* Mutant: the worker goes on with the buffer of its own.
GetQueuedCompletionStatus_own(w, b) ==
  /\ wpc[w] = "dequeue" /\ b \in completed
  /\ completed' = completed \ {b}
  /\ buffer' = [buffer EXCEPT ![w] = w]
  /\ Go(w, "check")
  /\ UNCHANGED <<driver, connected, queue, posted, control, message, context,
                 response>>

\* Any worker gets any completed buffer.
GetQueuedCompletionStatus(w, b) ==
  /\ wpc[w] = "dequeue" /\ b \in completed
  /\ completed' = completed \ {b}
  /\ buffer' = [buffer EXCEPT ![w] = b]
  /\ Go(w, "check")
  /\ UNCHANGED <<driver, connected, queue, posted, control, message, context,
                 response>>

\* The wait ends with an error once the port is closed.
WorkerReturns(w) ==
  /\ wpc[w] = "dequeue" /\ ~connected
  /\ Go(w, "exited")
  /\ UNCHANGED <<driver, port, control, buffer, message, context, response>>

\* With the port open a receive may fail, or the wait itself: the worker that
\* is told so returns.
ReceiveFails(w) ==
  /\ wpc[w] = "dequeue" /\ connected
  /\ \/ \E b \in posted : posted' = posted \ {b}
     \/ UNCHANGED posted
  /\ Go(w, "exited")
  /\ UNCHANGED <<driver, connected, queue, completed, control, buffer, message,
                 context, response>>

\* Mutants: responseFlags stays uninitialised; a message that cannot be handled
\* is not answered.
NoFlags_stale(w) ==
  /\ \E any \in {"clean", "infected"} : response' = [response EXCEPT ![w] = any]
  /\ Go(w, "reply")

NoFlags_continue(w) ==
  /\ UNCHANGED response
  /\ Go(w, "get")

\* The answer without flags: the callback is gone, a command failed, the file
\* is protected by Windows, or it could not be read or scanned.
NoFlags(w) ==
  /\ response' = [response EXCEPT ![w] = "clean"]
  /\ Go(w, "reply")

\* KhspHandleScanMessage reads the message, on a stack that must still be
\* there, and KhspHandleScanPeOpen tests HsFileScanRoutine.
KhspHandleScanPeOpen(w) ==
  /\ wpc[w] = "check"
  /\ \/ Gone(buffer[w]) /\ Go(w, "fault") /\ UNCHANGED response
     \/ ~Gone(buffer[w]) /\ routine /\ Go(w, "query") /\ UNCHANGED response
     \/ ~Gone(buffer[w]) /\ ~routine /\ NoFlags(w)
  /\ UNCHANGED <<driver, port, control, buffer, message, context>>

\* The contexts in the list with the id of the worker's message.
Listed(w) == {c \in scanList : scanId[c] = message[buffer[w]]}

\* HspGetScanContextSynchronized: the pointer outlives the lock it was found
\* under.  A command on a closed port or for an unknown id fails.
HspGetScanContextSynchronized(w, from, to) ==
  /\ wpc[w] = from
  /\ \/ /\ connected
        /\ \E c \in Listed(w) : context' = [context EXCEPT ![w] = c]
        /\ Go(w, to)
        /\ UNCHANGED response
     \/ /\ ~connected \/ Listed(w) = {}
        /\ NoFlags(w)
        /\ UNCHANGED context
  /\ UNCHANGED <<driver, port, control, buffer, message>>

\* The two commands the service sends about a scan.
KhspQueryFileName(w) == HspGetScanContextSynchronized(w, "query", "copy")

KhspCreateSectionForDataScan(w) == HspGetScanContextSynchronized(w, "open", "create")

\* The context a worker's command works on is still that of its scan.
ContextIsThere(w) ==
  context[w] \in scanList /\ scanId[context[w]] = message[buffer[w]]

\* What the command reads and writes is on the stack of a call that has
\* returned.
UseGoneContext(w) ==
  /\ ~ContextIsThere(w)
  /\ corrupt' = TRUE
  /\ UNCHANGED <<wpc, context, response>>

\* HsCmdQueryFileName copies the name out of the context, or fails.
QueryFileName(w) ==
  /\ wpc[w] = "copy"
  /\ \/ UseGoneContext(w)
     \/ /\ ContextIsThere(w)
        /\ context' = [context EXCEPT ![w] = None]
        /\ (Go(w, "call") /\ UNCHANGED response) \/ NoFlags(w)
        /\ UNCHANGED corrupt
  /\ UNCHANGED <<kpc, file, scanId, nextId, scanList, section, sections, outcome,
                 failed, port, control, buffer, message>>

\* HsFileScanRoutine is read again and called, NULL or not, and skips files
\* protected by Windows.
ScanRoutine(w) ==
  /\ wpc[w] = "call"
  /\ \/ routine /\ Go(w, "open") /\ UNCHANGED response
     \/ routine /\ NoFlags(w)
     \/ ~routine /\ Go(w, "fault") /\ UNCHANGED response
  /\ UNCHANGED <<driver, port, control, buffer, message, context>>

\* The section is stored in the context, which must not have one yet.
HspHandleCmdCreateSectionForDataScan(w) ==
  /\ context[w] \notin section
  /\ section' = section \cup {context[w]}
  /\ sections' = sections \cup {message[buffer[w]]}

\* HsCmdCreateSectionForDataScan makes a section and hands its handle back, or
\* fails.  When only the copy of the handle fails, the section stays in the
\* context.
CreateSection(w) ==
  /\ wpc[w] = "create"
  /\ \/ UseGoneContext(w) /\ UNCHANGED <<section, sections>>
     \/ /\ ContextIsThere(w)
        /\ context' = [context EXCEPT ![w] = None]
        /\ HspHandleCmdCreateSectionForDataScan(w)
        /\ (Go(w, "scan") /\ UNCHANGED response) \/ NoFlags(w)
        /\ UNCHANGED corrupt
     \/ /\ ContextIsThere(w)
        /\ context' = [context EXCEPT ![w] = None]
        /\ NoFlags(w)
        /\ UNCHANGED <<section, sections, corrupt>>
  /\ UNCHANGED <<kpc, file, scanId, nextId, scanList, outcome, failed, port,
                 control, buffer, message>>

\* The file behind the section a worker has mapped.
Mapped(w) == {file[c] : c \in {d \in Caller : scanId[d] = message[buffer[w]]}}

\* MapViewOfFile and HsScanBuffer, either of which may fail, and KhsCloseFile.
\* A scanner that HsDeleteScanner has freed may report anything, or fault.
HsScanBuffer(w) ==
  /\ wpc[w] = "scan"
  /\ \/ /\ scanner = "ready"
        /\ response' = [response EXCEPT ![w] =
                          IF Mapped(w) \cap Infected # {} THEN "infected" ELSE "clean"]
        /\ Go(w, "reply")
     \/ /\ scanner # "ready"
        /\ \E any \in {"clean", "infected"} : response' = [response EXCEPT ![w] = any]
        /\ Go(w, "reply")
     \/ scanner # "ready" /\ Go(w, "fault") /\ UNCHANGED response
     \/ NoFlags(w)
  /\ UNCHANGED <<driver, port, control, buffer, message, context>>

\* The caller that waits for the answer to a message.
Waiting(i) == {c \in Caller : kpc[c] = "wait" /\ scanId[c] = i}

\* FilterReplyMessage wakes the sender; its result is ignored.  What is left in
\* the buffer and in responseFlags is not read again.
KhspFilterReplyMessage(w) ==
  LET awake == IF connected THEN Waiting(message[buffer[w]]) ELSE {} IN
  /\ wpc[w] = "reply"
  /\ \/ Gone(buffer[w]) /\ Go(w, "fault") /\ UNCHANGED <<kpc, outcome, message, response>>
     \/ /\ ~Gone(buffer[w])
        /\ kpc' = [c \in Caller |-> IF c \in awake THEN "answered" ELSE kpc[c]]
        /\ outcome' = [c \in Caller |-> IF c \in awake THEN response[w] ELSE outcome[c]]
        /\ message' = [message EXCEPT ![buffer[w]] = 0]
        /\ response' = [response EXCEPT ![w] = "clean"]
        /\ Go(w, "get")
  /\ UNCHANGED <<file, scanId, nextId, scanList, section, sections, failed,
                 corrupt, port, control, buffer, context>>

-----------------------------------------------------------------------------
(***************************************************************************)
(* The control thread of the service.                                      *)
(***************************************************************************)

\* HspServiceInit: HspFilterPortConnect makes the caller the client.  If the
\* connection fails the service runs without one.
KhsConnect ==
  /\ svc = "down" /\ ~connected
  /\ \/ connected' = TRUE /\ svc' = "loading"
     \/ svc' = "running" /\ UNCHANGED connected
  /\ UNCHANGED <<driver, queue, posted, completed, routine, scanner, worker>>

\* HsInit and HspLoadClamAV.
HspLoadClamAV ==
  /\ svc = "loading"
  /\ scanner' = "ready"
  /\ svc' = "starting"
  /\ UNCHANGED <<driver, port, routine, worker>>

\* KhsStartFiltering sets the routine and creates the completion port.  Its
\* result is ignored: the service runs in any case.
KhsStartFiltering ==
  /\ svc = "starting"
  /\ routine' = TRUE
  /\ \/ svc' = "spawning"
     \/ svc' = "running"
  /\ UNCHANGED <<driver, port, scanner, worker>>

\* CreateThread, whose result is not looked at.
CreateThread(w) ==
  /\ svc = "spawning" /\ wpc[w] = "unborn"
  /\ \/ Go(w, "get")
     \/ Go(w, "exited")
  /\ buffer' = [buffer EXCEPT ![w] = w]
  /\ UNCHANGED <<driver, port, control, message, context, response>>

ServiceRunning ==
  /\ svc = "spawning" /\ \A w \in Worker : wpc[w] # "unborn"
  /\ svc' = "running"
  /\ UNCHANGED <<driver, port, routine, scanner, worker>>

\* Mutant: the routine is forgotten before the port is closed.
KhsDisconnect_late ==
  /\ svc = "running"
  /\ routine' = FALSE
  /\ svc' = "closing"
  /\ UNCHANGED <<driver, port, scanner, worker>>

\* SERVICE_CONTROL_STOP, HspServiceCleanup: KhsDisconnect closes the port.
KhsDisconnect ==
  /\ svc = "running"
  /\ PortCloses
  /\ svc' = "closing"
  /\ UNCHANGED <<file, scanId, nextId, scanList, section, sections, corrupt,
                 completed, routine, scanner, worker>>

\* It closes the completion port and forgets the routine.
ForgetRoutine ==
  /\ svc = "closing"
  /\ completed' = {}
  /\ routine' = FALSE
  /\ svc' = "deleting"
  /\ UNCHANGED <<driver, connected, queue, posted, scanner, worker>>

\* HsDeleteScanner, without ScannerLock.
HsDeleteScanner ==
  /\ svc = "deleting"
  /\ scanner' = "freed"
  /\ svc' = "stopped"
  /\ UNCHANGED <<driver, port, routine, worker>>

\* The process ends.  Threads leave the kernel before the handles of the
\* process are closed.
ServiceExits ==
  /\ svc # "down"
  /\ \A w \in Worker : wpc[w] \notin {"copy", "create"}
  /\ PortCloses
  /\ completed' = {}
  /\ svc' = "down"
  /\ routine' = FALSE
  /\ scanner' = "none"
  /\ wpc' = [w \in Worker |-> "unborn"]
  /\ buffer' = [w \in Worker |-> None]
  /\ message' = [w \in Worker |-> 0]
  /\ response' = [w \in Worker |-> "clean"]
  /\ UNCHANGED <<file, scanId, nextId, scanList, section, sections, corrupt,
                 context>>

\* The access violation of a worker is handled by nobody.
ServiceFaults ==
  /\ \E w \in Worker : wpc[w] = "fault"
  /\ ServiceExits

-----------------------------------------------------------------------------
Init ==
  /\ kpc = [c \in Caller |-> "idle"]
  /\ file = [c \in Caller |-> None]
  /\ scanId = [c \in Caller |-> 0]
  /\ nextId = 0
  /\ scanList = {}
  /\ section = {}
  /\ sections = {}
  /\ outcome = [c \in Caller |-> "none"]
  /\ failed = {}
  /\ corrupt = FALSE
  /\ connected = FALSE
  /\ queue = << >>
  /\ posted = {}
  /\ completed = {}
  /\ svc = "down"
  /\ routine = FALSE
  /\ scanner = "none"
  /\ wpc = [w \in Worker |-> "unborn"]
  /\ buffer = [w \in Worker |-> None]
  /\ message = [w \in Worker |-> 0]
  /\ context = [w \in Worker |-> None]
  /\ response = [w \in Worker |-> "clean"]

\* The rest of a call once it is made.
CallerStep(c) ==
  \/ FltSendMessage(c)
  \/ ScanAnswered(c)
  \/ RemoveScanContext(c)

WorkerStep(w) ==
  \/ FilterGetMessage(w)
  \/ \E b \in Worker : GetQueuedCompletionStatus(w, b)
  \/ WorkerReturns(w)
  \/ KhspHandleScanPeOpen(w)
  \/ KhspQueryFileName(w)
  \/ QueryFileName(w)
  \/ ScanRoutine(w)
  \/ KhspCreateSectionForDataScan(w)
  \/ CreateSection(w)
  \/ HsScanBuffer(w)
  \/ KhspFilterReplyMessage(w)

\* The control thread goes on without being asked to.
ControlStep ==
  \/ HspLoadClamAV
  \/ KhsStartFiltering
  \/ \E w \in Worker : CreateThread(w)
  \/ ServiceRunning
  \/ ForgetRoutine
  \/ HsDeleteScanner

Next ==
  /\ ~corrupt
  /\ \/ \E c \in Caller :
          (\E f \in File : HsFilterScanFile(c, f)) \/ CallerStep(c) \/ FltSendMessageFails(c)
     \/ \E b \in Worker : DeliverMessage(b)
     \/ \E w \in Worker : WorkerStep(w) \/ ReceiveFails(w)
     \/ KhsConnect
     \/ ControlStep
     \/ KhsDisconnect
     \/ ServiceExits

Spec == Init /\ [][Next]_vars

\* Threads that can run do, the filter manager delivers, and a process that has
\* faulted ends.  Nothing is assumed of KhsConnect, of a stop, of an exit or of
\* an error.
Fairness ==
  /\ \A c \in Caller : WF_vars(~corrupt /\ CallerStep(c))
  /\ \A w \in Worker : WF_vars(~corrupt /\ WorkerStep(w))
  /\ WF_vars(~corrupt /\ \E b \in Worker : DeliverMessage(b))
  /\ WF_vars(~corrupt /\ ControlStep)
  /\ WF_vars(~corrupt /\ ServiceFaults)

FairSpec == Spec /\ Fairness

-----------------------------------------------------------------------------
(***************************************************************************)
(* Properties.                                                             *)
(***************************************************************************)

Outcomes == {"none", "failed", "clean", "infected"}

\* The types of the state.
TypeOK ==
  /\ kpc \in [Caller -> {"idle", "send", "wait", "answered", "remove"}]
  /\ file \in [Caller -> File \cup {None}]
  /\ scanId \in [Caller -> 0 .. MaxScanId]
  /\ nextId \in 0 .. MaxScanId
  /\ scanList \in SUBSET Caller
  /\ section \in SUBSET Caller
  /\ sections \in SUBSET (1 .. MaxScanId)
  /\ outcome \in [Caller -> Outcomes]
  /\ failed \in SUBSET (0 .. MaxScanId)
  /\ corrupt \in BOOLEAN
  /\ connected \in BOOLEAN
  /\ queue \in Seq(1 .. MaxScanId)
  /\ posted \in SUBSET Worker
  /\ completed \in SUBSET Worker
  /\ svc \in {"down", "loading", "starting", "spawning", "running", "closing",
              "deleting", "stopped"}
  /\ routine \in BOOLEAN
  /\ scanner \in {"none", "ready", "freed"}
  /\ wpc \in [Worker -> {"unborn", "get", "dequeue", "check", "query", "copy",
                         "call", "open", "create", "scan", "reply", "exited",
                         "fault"}]
  /\ buffer \in [Worker -> Worker \cup {None}]
  /\ message \in [Worker -> 0 .. MaxScanId]
  /\ context \in [Worker -> Caller \cup {None}]
  /\ response \in [Worker -> {"clean", "infected"}]

\* The message buffers change hands between the workers, and each stays with
\* one: no two workers read one buffer, and none reads a buffer the filter
\* manager is free to fill.
BufferHasOneUser ==
  \A v, w \in Worker :
    buffer[w] # None =>
      /\ buffer[w] \notin posted \cup completed
      /\ v # w => buffer[v] # buffer[w]

\* "FltSendMessage waits for a response, so by this point the user-application
\* will be done with the scan context": unless FltSendMessage has failed, the
\* context that a command works on is in the list, and is that of the scan the
\* command is about.  Nothing else leads to the use of a context that is gone.
ContextInUseIsListed ==
  /\ \A w \in Worker :
       context[w] # None /\ message[buffer[w]] \notin failed => ContextIsThere(w)
  /\ corrupt => failed # {}

\* "HsReleaseSectionContext does not need to be called here, as it will still
\* be called in HsFilterScanFile": an answered scan that leaves the list has
\* given up its section, and no command still under way makes another.
AnsweredScanKeepsNoSection ==
  \A c \in Caller :
    kpc[c] = "remove" /\ outcome[c] # "failed" => scanId[c] \notin sections

\* What the driver lends the service for a scan, the context on the caller's
\* stack and the section, stays for the commands of the scan and ends with it,
\* whenever the port is closed, so long as FltSendMessage does not fail.
ScanOwnsItsContext == ContextInUseIsListed /\ AnsweredScanKeepsNoSection

\* While the port is open, of the workers asleep on the completion port none is
\* without a buffer that a message can wake it with: whichever receives fail
\* and whichever workers leave, what is lost takes a worker with it.
WaitersHaveBuffers ==
  connected =>
    Cardinality({w \in Worker : wpc[w] = "dequeue"}) <= Cardinality(posted \cup completed)

\* HsFileScanRoutine is tested, a file name is fetched from the driver, and the
\* pointer is read again for the call; buffers pass from stack to stack.  While
\* the port is open a worker faults on one thing only: a buffer on the stack of
\* a worker that has left its loop.
FaultIsOnGoneBuffer ==
  \A w \in Worker : wpc[w] = "fault" /\ connected => Gone(buffer[w])

\* The service keeps what its workers need while the port is open.
WorkersAreServed == WaitersHaveBuffers /\ FaultIsOnGoneBuffer

\* Where a call is, to its caller: it is answered when FltSendMessage returns.
PhaseOf(at) ==
  CASE at = "idle" -> "idle"
    [] at \in {"send", "wait"} -> "asked"
    [] at \in {"answered", "remove"} -> "done"

Phase == [c \in Caller |-> PhaseOf(kpc[c])]

\* HsFilterScanFile keeps the promise of ScanCall: the answer that comes back
\* across the port, through buffers the workers exchange, is the answer to
\* this call.
Call == INSTANCE ScanCall WITH phase <- Phase

CallSpec == Call!Spec

\* KhsStartFiltering failed, which HspServiceInit ignores, or every worker has
\* left its loop: the service stays connected and none of its threads will ever
\* receive a message.
Stranded ==
  /\ connected /\ svc = "running"
  /\ \A w \in Worker : wpc[w] \in {"unborn", "exited"}

\* FltSendMessage has no timeout: a caller in it returns all the same, because
\* the workers answer or the port is closed, unless no worker is left or the
\* driver is corrupt.
ScanReturns ==
  \A c \in Caller : kpc[c] = "wait" ~> (kpc[c] = "idle" \/ Stranded \/ corrupt)

=============================================================================
