---------------------------- MODULE ScanPortProofs ----------------------------
(***************************************************************************)
(* The message buffers of the workers keep one user each, what a worker or *)
(* a command uses outlives its use, and the exchange across the port       *)
(* implements ScanCall, for any number of callers, workers and files and   *)
(* any life of the service.                                                *)
(***************************************************************************)
EXTENDS ScanPort, FiniteSetTheorems, TLAPS

\* A worker that handles the message in its buffer.
Handling == {"check", "query", "copy", "call", "open", "create", "scan", "reply"}

\* Scan ids are given out once: a call under way has one of its own, and every
\* message is about a call made before.
IdInv ==
  /\ \A c \in Caller : kpc[c] = "idle" => scanId[c] = 0
  /\ \A c \in Caller : kpc[c] # "idle" => scanId[c] \in 1 .. nextId
  /\ \A c, d \in Caller : (scanId[c] = scanId[d] /\ scanId[c] # 0) => c = d
  /\ \A i \in 1 .. Len(queue) : queue[i] \in 1 .. nextId
  /\ \A b \in completed : message[b] \in 1 .. nextId
  /\ \A w \in Worker :
       wpc[w] \in Handling => message[buffer[w]] \in 1 .. nextId

\* Where the buffers are: with the filter manager, in the completion port, or
\* with one worker.
BufferInv ==
  /\ BufferHasOneUser
  /\ posted \cap completed = {}
  /\ \A w \in Worker :
       /\ wpc[w] = "unborn" =>
            /\ w \notin posted \cup completed
            /\ \A v \in Worker : buffer[v] # w
       /\ wpc[w] \in {"unborn", "dequeue"} => buffer[w] = None
       /\ wpc[w] \in Handling \cup {"get", "fault"} => buffer[w] # None
       /\ wpc[w] \in {"copy", "create"} => context[w] # None

\* While the service is connected its workers have a scanner that is loaded.
ServiceInv ==
  /\ svc \in {"down", "loading", "starting"} => \A w \in Worker : wpc[w] = "unborn"
  /\ connected => svc \in {"loading", "starting", "spawning", "running"}
  /\ (connected /\ svc \in {"starting", "spawning", "running"}) => scanner = "ready"

\* An infected answer on its way is about an infected file.
AnswerInv ==
  \A w \in Worker, c \in Caller :
    (/\ connected /\ wpc[w] = "reply" /\ response[w] = "infected"
     /\ scanId[c] = message[buffer[w]])
    => file[c] \in Infected

PortInv == TypeOK /\ IdInv /\ BufferInv /\ ServiceInv /\ AnswerInv

\* The routine is set while there are workers to call it, what a worker has
\* faulted on is gone, and a closed port has left nothing in the queue.
LifeInv ==
  /\ svc = "spawning" => routine
  /\ (connected /\ svc = "running") => routine
  /\ FaultIsOnGoneBuffer
  /\ ~connected => queue = << >>
  /\ svc = "down" => completed = {}

\* Buffers with a message that has not been answered.
Carrying == completed \cup {buffer[w] : w \in {v \in Worker : wpc[v] \in Handling}}

\* A caller whose FltSendMessage has failed.
Failed(c) == kpc[c] = "remove" /\ outcome[c] = "failed"

\* A message is in one place, and its sender waits for the answer or has failed.
MessageInv ==
  /\ \A b, d \in Carrying : message[b] = message[d] => b = d
  /\ \A k \in 1 .. Len(queue), b \in Carrying : queue[k] # message[b]
  /\ \A j, k \in 1 .. Len(queue) : queue[j] = queue[k] => j = k
  /\ \A c \in Caller, k \in 1 .. Len(queue) :
       scanId[c] = queue[k] => kpc[c] = "wait" \/ Failed(c)
  /\ \A c \in Caller, b \in Carrying :
       scanId[c] = message[b] => kpc[c] = "wait" \/ Failed(c)
  /\ \A c \in Caller : kpc[c] = "wait" => connected
  /\ \A c \in Caller : kpc[c] = "answered" => outcome[c] # "failed"
  /\ \A c \in Caller : Failed(c) => scanId[c] \in failed

\* The list has the contexts of the calls under way.  A command holds a context
\* only while it runs, and it is that of its scan unless the sender has failed.
\* The section of a scan that can still be answered is known to its context.
LentInv ==
  /\ scanList = {c \in Caller : kpc[c] # "idle"}
  /\ \A w \in Worker : context[w] # None => wpc[w] \in {"copy", "create"}
  /\ \A w \in Worker :
       context[w] # None =>
         \/ message[buffer[w]] \in failed
         \/ scanId[context[w]] = message[buffer[w]]
  /\ corrupt => failed # {}
  /\ \A i \in sections : i <= nextId
  /\ \A c \in Caller :
       (kpc[c] \in {"send", "wait", "answered"} /\ scanId[c] \in sections) => c \in section
  /\ AnsweredScanKeepsNoSection

-----------------------------------------------------------------------------
(***************************************************************************)
(* The steps that preserve it.                                             *)
(***************************************************************************)

\* A message goes to the end of the queue.
LEMMA AppendToQueue ==
  ASSUME NEW S, NEW q \in Seq(S), NEW x \in S
  PROVE  /\ Append(q, x) \in Seq(S)
         /\ \A i \in 1 .. Len(Append(q, x)) :
              IF i \in 1 .. Len(q) THEN Append(q, x)[i] = q[i] ELSE Append(q, x)[i] = x
  OBVIOUS

\* A failed send, and a closed port, keep the types of the calls.
LEMMA FailureTypes ==
  ASSUME TypeOK
  PROVE  /\ \A c \in Caller : SendFails(c) =>
              /\ kpc' \in [Caller -> {"idle", "send", "wait", "answered", "remove"}]
              /\ outcome' \in [Caller -> Outcomes]
              /\ failed' \in SUBSET (0 .. MaxScanId)
         /\ PortCloses =>
              /\ kpc' \in [Caller -> {"idle", "send", "wait", "answered", "remove"}]
              /\ outcome' \in [Caller -> Outcomes]
              /\ failed' \in SUBSET (0 .. MaxScanId)
              /\ queue' \in Seq(1 .. MaxScanId)
              /\ posted' \in SUBSET Worker
              /\ connected' \in BOOLEAN
<1>1. ASSUME NEW c \in Caller, SendFails(c)
      PROVE  /\ kpc' \in [Caller -> {"idle", "send", "wait", "answered", "remove"}]
             /\ outcome' \in [Caller -> Outcomes]
             /\ failed' \in SUBSET (0 .. MaxScanId)
  BY <1>1 DEF TypeOK, SendFails, Outcomes
<1>2. ASSUME PortCloses
      PROVE  /\ kpc' \in [Caller -> {"idle", "send", "wait", "answered", "remove"}]
             /\ outcome' \in [Caller -> Outcomes]
             /\ failed' \in SUBSET (0 .. MaxScanId)
             /\ queue' \in Seq(1 .. MaxScanId)
             /\ posted' \in SUBSET Worker
             /\ connected' \in BOOLEAN
  <2>1. kpc' \in [Caller -> {"idle", "send", "wait", "answered", "remove"}]
    BY <1>2 DEF TypeOK, PortCloses
  <2>2. outcome' \in [Caller -> Outcomes]
    BY <1>2 DEF TypeOK, PortCloses, Outcomes
  <2>3. failed' \in SUBSET (0 .. MaxScanId)
    <3>1. {scanId[c] : c \in {d \in Caller : kpc[d] = "wait"}} \subseteq 0 .. MaxScanId
      BY DEF TypeOK
    <3>2. failed \subseteq 0 .. MaxScanId
      BY DEF TypeOK
    <3> QED
      BY <1>2, <3>1, <3>2 DEF PortCloses
  <2>4. << >> \in Seq(1 .. MaxScanId)
    OBVIOUS
  <2>5. queue' = << >> /\ posted' = {} /\ connected' = FALSE
    BY <1>2 DEF PortCloses
  <2> QED
    BY <2>1, <2>2, <2>3, <2>4, <2>5
<1> QED
  BY <1>1, <1>2

\* Every step keeps the types; ids stay below the bound.
LEMMA TypeStep ==
  TypeOK /\ IdInv /\ BufferInv /\ [Next]_vars => TypeOK'
<1> SUFFICES ASSUME TypeOK, IdInv, BufferInv, [Next]_vars PROVE TypeOK'
  OBVIOUS
<1> USE ConstantsAssumption DEF TypeOK, IdInv, BufferInv, Outcomes, Handling,
      driver, port, control, worker, Go
<1>1. ASSUME NEW c \in Caller, NEW f \in File, HsFilterScanFile(c, f)
      PROVE  TypeOK'
  BY <1>1 DEF HsFilterScanFile
<1>2. ASSUME NEW c \in Caller, FltSendMessage(c) PROVE TypeOK'
  <2>1. scanId[c] \in 1 .. MaxScanId
    BY <1>2 DEF FltSendMessage, SendFails
  <2>2. CASE kpc' = [kpc EXCEPT ![c] = "wait"] /\ queue' = Append(queue, scanId[c])
             /\ UNCHANGED <<outcome, failed>>
    <3>1. queue' = Append(queue, scanId[c])
      BY <2>2
    <3>2. queue' \in Seq(1 .. MaxScanId)
      <4>1. queue \in Seq(1 .. MaxScanId)
        OBVIOUS
      <4> HIDE DEF TypeOK, IdInv, BufferInv
      <4> QED
        BY <2>1, <3>1, <4>1, AppendToQueue
    <3> QED
      BY <1>2, <2>2, <3>2 DEF FltSendMessage, SendFails
  <2>3. CASE SendFails(c) /\ UNCHANGED queue
    BY <1>2, <2>3, FailureTypes DEF FltSendMessage
  <2> QED
    BY <1>2, <2>2, <2>3 DEF FltSendMessage
<1>3. ASSUME NEW c \in Caller, ScanAnswered(c) PROVE TypeOK'
  BY <1>3 DEF ScanAnswered, HsReleaseSectionContext
<1>4. ASSUME NEW c \in Caller, RemoveScanContext(c) PROVE TypeOK'
  BY <1>4 DEF RemoveScanContext
<1>5. ASSUME NEW b \in Worker, DeliverMessage(b) PROVE TypeOK'
  BY <1>5 DEF DeliverMessage
<1>6. ASSUME NEW w \in Worker, FilterGetMessage(w) PROVE TypeOK'
  <2>1. buffer[w] \in Worker
    BY <1>6 DEF FilterGetMessage
  <2>2. CASE posted' = posted \cup {buffer[w]} /\ buffer' = [buffer EXCEPT ![w] = None]
    <3>1. posted' = posted \cup {buffer[w]} /\ buffer' = [buffer EXCEPT ![w] = None]
      BY <2>2
    <3>2. posted' \in SUBSET Worker
      BY <2>1, <3>1
    <3>3. buffer' \in [Worker -> Worker \cup {None}]
      BY <3>1
    <3> QED
      <4>1. wpc' \in [Worker -> {"unborn", "get", "dequeue", "check", "query", "copy", "call",
                                 "open", "create", "scan", "reply", "exited", "fault"}]
        BY <1>6 DEF FilterGetMessage
      <4> QED
        BY <1>6, <3>2, <3>3, <4>1 DEF FilterGetMessage
  <2>3. CASE UNCHANGED <<posted, buffer>>
    BY <1>6, <2>3 DEF FilterGetMessage
  <2> QED
    BY <1>6, <2>2, <2>3 DEF FilterGetMessage
<1>7. ASSUME NEW w \in Worker, NEW b \in Worker, GetQueuedCompletionStatus(w, b)
      PROVE  TypeOK'
  <2>1. buffer' \in [Worker -> Worker \cup {None}]
    BY <1>7 DEF GetQueuedCompletionStatus
  <2>2. wpc' \in [Worker -> {"unborn", "get", "dequeue", "check", "query", "copy",
                            "call", "open", "create", "scan", "reply", "exited", "fault"}]
    BY <1>7 DEF GetQueuedCompletionStatus
  <2>3. completed' \in SUBSET Worker
    BY <1>7 DEF GetQueuedCompletionStatus
  <2> QED
    BY <1>7, <2>1, <2>2, <2>3 DEF GetQueuedCompletionStatus
<1>8. ASSUME NEW w \in Worker, WorkerReturns(w) PROVE TypeOK'
  BY <1>8 DEF WorkerReturns
<1>9. ASSUME NEW w \in Worker, KhspHandleScanPeOpen(w) PROVE TypeOK'
  <2>1. wpc' \in [Worker -> {"unborn", "get", "dequeue", "check", "query", "copy",
                            "call", "open", "create", "scan", "reply", "exited", "fault"}]
    <3>1. \E to \in {"query", "reply", "fault"} : wpc' = [wpc EXCEPT ![w] = to]
      BY <1>9 DEF KhspHandleScanPeOpen, NoFlags
    <3> QED
      BY <3>1
  <2>2. response' = [response EXCEPT ![w] = "clean"] \/ response' = response
    BY <1>9 DEF KhspHandleScanPeOpen, NoFlags
  <2>3. response' \in [Worker -> {"clean", "infected"}]
    BY <2>2
  <2> QED
    BY <1>9, <2>1, <2>3 DEF KhspHandleScanPeOpen
<1>10. ASSUME NEW w \in Worker, KhspQueryFileName(w) PROVE TypeOK'
  <2>1. context' \in [Worker -> Caller \cup {None}]
    <3>1. \/ \E c \in Caller : context' = [context EXCEPT ![w] = c]
          \/ UNCHANGED context
      BY <1>10 DEF KhspQueryFileName, HspGetScanContextSynchronized, Listed
    <3>2. ASSUME NEW c \in Caller, context' = [context EXCEPT ![w] = c]
          PROVE  context' \in [Worker -> Caller \cup {None}]
      BY <3>2
    <3>3. CASE UNCHANGED context
      BY <3>3
    <3> QED
      BY <3>1, <3>2, <3>3
  <2>2. /\ \E to \in {"copy", "reply"} : wpc' = [wpc EXCEPT ![w] = to]
        /\ response' = response \/ \E r \in {"clean", "infected"} : response' = [response EXCEPT ![w] = r]
    BY <1>10 DEF KhspQueryFileName, HspGetScanContextSynchronized, NoFlags, Go
  <2>3. wpc' \in [Worker -> {"unborn", "get", "dequeue", "check", "query", "copy",
                            "call", "open", "create", "scan", "reply", "exited", "fault"}]
    BY <2>2
  <2>4. response' \in [Worker -> {"clean", "infected"}]
    BY <2>2
  <2> QED
    BY <1>10, <2>1, <2>3, <2>4 DEF KhspQueryFileName, HspGetScanContextSynchronized
<1>11. ASSUME NEW w \in Worker, QueryFileName(w) PROVE TypeOK'
  BY <1>11 DEF QueryFileName, UseGoneContext, NoFlags
<1>12. ASSUME NEW w \in Worker, ScanRoutine(w) PROVE TypeOK'
  BY <1>12 DEF ScanRoutine, NoFlags
<1>13. ASSUME NEW w \in Worker, KhspCreateSectionForDataScan(w) PROVE TypeOK'
  <2>1. context' \in [Worker -> Caller \cup {None}]
    <3>1. \/ \E c \in Caller : context' = [context EXCEPT ![w] = c]
          \/ UNCHANGED context
      BY <1>13 DEF KhspCreateSectionForDataScan, HspGetScanContextSynchronized, Listed
    <3>2. ASSUME NEW c \in Caller, context' = [context EXCEPT ![w] = c]
          PROVE  context' \in [Worker -> Caller \cup {None}]
      BY <3>2
    <3>3. CASE UNCHANGED context
      BY <3>3
    <3> QED
      BY <3>1, <3>2, <3>3
  <2>2. /\ \E to \in {"create", "reply"} : wpc' = [wpc EXCEPT ![w] = to]
        /\ response' = response \/ \E r \in {"clean", "infected"} : response' = [response EXCEPT ![w] = r]
    BY <1>13 DEF KhspCreateSectionForDataScan, HspGetScanContextSynchronized, NoFlags, Go
  <2>3. wpc' \in [Worker -> {"unborn", "get", "dequeue", "check", "query", "copy",
                            "call", "open", "create", "scan", "reply", "exited", "fault"}]
    BY <2>2
  <2>4. response' \in [Worker -> {"clean", "infected"}]
    BY <2>2
  <2> QED
    BY <1>13, <2>1, <2>3, <2>4 DEF KhspCreateSectionForDataScan, HspGetScanContextSynchronized
<1>14. ASSUME NEW w \in Worker, CreateSection(w) PROVE TypeOK'
  <2>1. context[w] \in Caller /\ message[buffer[w]] \in 1 .. MaxScanId
    BY <1>14 DEF CreateSection, UseGoneContext
  <2>2. section' \in SUBSET Caller /\ sections' \in SUBSET (1 .. MaxScanId)
    BY <1>14, <2>1 DEF CreateSection, UseGoneContext, HspHandleCmdCreateSectionForDataScan
  <2> QED
    BY <1>14, <2>2 DEF CreateSection, UseGoneContext, NoFlags
<1>15. ASSUME NEW w \in Worker, HsScanBuffer(w) PROVE TypeOK'
  <2>1. response' \in [Worker -> {"clean", "infected"}]
    BY <1>15 DEF HsScanBuffer, NoFlags
  <2>2. \E to \in {"reply", "fault"} : wpc' = [wpc EXCEPT ![w] = to]
    BY <1>15 DEF HsScanBuffer, NoFlags
  <2> QED
    BY <1>15, <2>1, <2>2 DEF HsScanBuffer
<1>16. ASSUME NEW w \in Worker, KhspFilterReplyMessage(w) PROVE TypeOK'
  <2>1. \E to \in {"get", "fault"} : wpc' = [wpc EXCEPT ![w] = to]
    BY <1>16 DEF KhspFilterReplyMessage
  <2>2. wpc' \in [Worker -> {"unborn", "get", "dequeue", "check", "query", "copy", "call",
                             "open", "create", "scan", "reply", "exited", "fault"}]
    BY <2>1
  <2>3. /\ message' \in [Worker -> 0 .. MaxScanId]
        /\ response' \in [Worker -> {"clean", "infected"}]
    <3>1. \/ UNCHANGED <<message, response>>
          \/ /\ message' = [message EXCEPT ![buffer[w]] = 0]
             /\ response' = [response EXCEPT ![w] = "clean"]
      BY <1>16 DEF KhspFilterReplyMessage
    <3>2. /\ message \in [Worker -> 0 .. MaxScanId] /\ 0 \in 0 .. MaxScanId
          /\ response \in [Worker -> {"clean", "infected"}]
      OBVIOUS
    <3> HIDE DEF TypeOK, IdInv, BufferInv
    <3>3. [message EXCEPT ![buffer[w]] = 0] \in [Worker -> 0 .. MaxScanId]
      BY <3>2, Zenon
    <3>4. [response EXCEPT ![w] = "clean"] \in [Worker -> {"clean", "infected"}]
      BY <3>2
    <3> QED
      BY <3>1, <3>2, <3>3, <3>4
  <2>4. /\ kpc' \in [Caller -> {"idle", "send", "wait", "answered", "remove"}]
        /\ outcome' \in [Caller -> Outcomes]
    BY <1>16 DEF KhspFilterReplyMessage
  <2> QED
    BY <1>16, <2>2, <2>3, <2>4 DEF KhspFilterReplyMessage
<1>17. CASE KhsConnect
  BY <1>17 DEF KhsConnect
<1>18. CASE HspLoadClamAV
  BY <1>18 DEF HspLoadClamAV
<1>19. CASE KhsStartFiltering
  BY <1>19 DEF KhsStartFiltering
<1>20. ASSUME NEW w \in Worker, CreateThread(w) PROVE TypeOK'
  BY <1>20 DEF CreateThread
<1>21. CASE ServiceRunning
  BY <1>21 DEF ServiceRunning
<1>22. CASE KhsDisconnect
  <2>1. PortCloses
    BY <1>22 DEF KhsDisconnect
  <2> QED
    BY <1>22, <2>1, FailureTypes DEF KhsDisconnect
<1>23. CASE ForgetRoutine
  BY <1>23 DEF ForgetRoutine
<1>24. CASE HsDeleteScanner
  BY <1>24 DEF HsDeleteScanner
<1>25. CASE ServiceExits
  <2>1. PortCloses
    BY <1>25 DEF ServiceExits
  <2>2. /\ buffer' \in [Worker -> Worker \cup {None}]
        /\ message' \in [Worker -> 0 .. MaxScanId]
    BY <1>25 DEF ServiceExits
  <2> QED
    BY <1>25, <2>1, <2>2, FailureTypes DEF ServiceExits
<1>26. CASE UNCHANGED vars
  BY <1>26 DEF vars
<1>27. ASSUME NEW c \in Caller, FltSendMessageFails(c) PROVE TypeOK'
  BY <1>27, FailureTypes DEF FltSendMessageFails
<1>28. ASSUME NEW w \in Worker, ReceiveFails(w) PROVE TypeOK'
  BY <1>28 DEF ReceiveFails
<1> QED
  BY <1>1, <1>2, <1>3, <1>4, <1>5, <1>6, <1>7, <1>8, <1>9, <1>10, <1>11, <1>12, <1>13,
     <1>14, <1>15, <1>16, <1>17, <1>18, <1>19, <1>20, <1>21, <1>22, <1>23, <1>24, <1>25,
     <1>26, <1>27, <1>28
     DEF Next, CallerStep, WorkerStep, ControlStep

\* A new call takes an id no message and no other call has.
LEMMA IdStep ==
  TypeOK /\ IdInv /\ BufferInv /\ [Next]_vars => IdInv'
<1> SUFFICES ASSUME TypeOK, IdInv, BufferInv, [Next]_vars PROVE IdInv'
  OBVIOUS
<1> USE ConstantsAssumption DEF TypeOK, IdInv, BufferInv, BufferHasOneUser,
      Handling, driver, port, control, worker, Go
<1>1. ASSUME NEW c \in Caller, NEW f \in File, HsFilterScanFile(c, f)
      PROVE  IdInv'
  BY <1>1 DEF HsFilterScanFile
<1>2. ASSUME NEW c \in Caller, FltSendMessage(c) PROVE IdInv'
  <2>1. scanId[c] \in 1 .. nextId
    BY <1>2 DEF FltSendMessage, SendFails
  <2>2. \A i \in 1 .. Len(queue') : queue'[i] \in 1 .. nextId
    <3>1. CASE queue' = Append(queue, scanId[c])
      <4>1. queue' = Append(queue, scanId[c])
        BY <3>1
      <4>2. queue \in Seq(1 .. MaxScanId) /\ scanId[c] \in 1 .. MaxScanId
        BY <2>1
      <4>3. \A i \in 1 .. Len(queue) : queue[i] \in 1 .. nextId
        OBVIOUS
      <4> HIDE DEF TypeOK, IdInv, BufferInv
      <4> QED
        BY <2>1, <4>1, <4>2, <4>3, AppendToQueue
    <3>2. CASE UNCHANGED queue
      BY <3>2
    <3> QED
      BY <1>2, <3>1, <3>2 DEF FltSendMessage
  <2> QED
    BY <1>2, <2>1, <2>2 DEF FltSendMessage, SendFails
<1>3. ASSUME NEW c \in Caller, ScanAnswered(c) PROVE IdInv'
  BY <1>3 DEF ScanAnswered, HsReleaseSectionContext
<1>4. ASSUME NEW c \in Caller, RemoveScanContext(c) PROVE IdInv'
  BY <1>4 DEF RemoveScanContext
<1>5. ASSUME NEW b \in Worker, DeliverMessage(b) PROVE IdInv'
  BY <1>5 DEF DeliverMessage
<1>6. ASSUME NEW w \in Worker, FilterGetMessage(w) PROVE IdInv'
  BY <1>6 DEF FilterGetMessage
<1>7. ASSUME NEW w \in Worker, NEW b \in Worker, GetQueuedCompletionStatus(w, b)
      PROVE  IdInv'
  BY <1>7 DEF GetQueuedCompletionStatus
<1>8. ASSUME NEW w \in Worker, WorkerReturns(w) PROVE IdInv'
  BY <1>8 DEF WorkerReturns
<1>9. ASSUME NEW w \in Worker, KhspHandleScanPeOpen(w) PROVE IdInv'
  BY <1>9 DEF KhspHandleScanPeOpen, NoFlags
<1>10. ASSUME NEW w \in Worker, KhspQueryFileName(w) PROVE IdInv'
  BY <1>10 DEF KhspQueryFileName,
      HspGetScanContextSynchronized, NoFlags, Listed
<1>11. ASSUME NEW w \in Worker, QueryFileName(w) PROVE IdInv'
  BY <1>11 DEF QueryFileName, UseGoneContext, NoFlags
<1>12. ASSUME NEW w \in Worker, ScanRoutine(w) PROVE IdInv'
  BY <1>12 DEF ScanRoutine, NoFlags
<1>13. ASSUME NEW w \in Worker, KhspCreateSectionForDataScan(w) PROVE IdInv'
  BY <1>13 DEF KhspCreateSectionForDataScan,
      HspGetScanContextSynchronized, NoFlags, Listed
<1>14. ASSUME NEW w \in Worker, CreateSection(w) PROVE IdInv'
  BY <1>14 DEF CreateSection, UseGoneContext, NoFlags,
      HspHandleCmdCreateSectionForDataScan
<1>15. ASSUME NEW w \in Worker, HsScanBuffer(w) PROVE IdInv'
  BY <1>15 DEF HsScanBuffer, NoFlags, Mapped
<1>16. ASSUME NEW w \in Worker, KhspFilterReplyMessage(w) PROVE IdInv'
  <2>1. /\ \A v \in Worker : v # w => wpc'[v] = wpc[v]
        /\ wpc[w] = "reply" /\ wpc'[w] \in {"get", "fault"}
        /\ UNCHANGED <<nextId, scanId, queue, completed, buffer>>
    BY <1>16 DEF KhspFilterReplyMessage
  <2>2. \A v \in Worker : v # w /\ wpc[v] \in Handling => buffer[v] # buffer[w]
    OBVIOUS
  <2>3. \A b \in Worker : b # buffer[w] => message'[b] = message[b]
    BY <1>16 DEF KhspFilterReplyMessage
  <2>4. \A c \in Caller : kpc[c] = "idle" <=> kpc'[c] = "idle"
    BY <1>16 DEF KhspFilterReplyMessage, Waiting
  <2>5. \A b \in completed : b # buffer[w] /\ b \in Worker
    BY <2>1
  <2>6. \A v \in Worker :
          wpc'[v] \in Handling => wpc[v] \in Handling /\ buffer[v] # buffer[w] /\ buffer[v] \in Worker
    BY <2>1, <2>2
  <2>7. IdInv
    OBVIOUS
  <2> HIDE DEF TypeOK, BufferInv, BufferHasOneUser, Handling
  <2> QED
    BY <2>1, <2>3, <2>4, <2>5, <2>6, <2>7
<1>17. CASE KhsConnect
  BY <1>17 DEF KhsConnect
<1>18. CASE HspLoadClamAV
  BY <1>18 DEF HspLoadClamAV
<1>19. CASE KhsStartFiltering
  BY <1>19 DEF KhsStartFiltering
<1>20. ASSUME NEW w \in Worker, CreateThread(w) PROVE IdInv'
  BY <1>20 DEF CreateThread
<1>21. CASE ServiceRunning
  BY <1>21 DEF ServiceRunning
<1>22. CASE KhsDisconnect
  BY <1>22 DEF KhsDisconnect, PortCloses
<1>23. CASE ForgetRoutine
  BY <1>23 DEF ForgetRoutine
<1>24. CASE HsDeleteScanner
  BY <1>24 DEF HsDeleteScanner
<1>25. CASE ServiceExits
  BY <1>25 DEF ServiceExits, PortCloses
<1>26. CASE UNCHANGED vars
  BY <1>26 DEF vars
<1>27. ASSUME NEW c \in Caller, FltSendMessageFails(c) PROVE IdInv'
  BY <1>27 DEF FltSendMessageFails, SendFails
<1>28. ASSUME NEW w \in Worker, ReceiveFails(w) PROVE IdInv'
  BY <1>28 DEF ReceiveFails
<1> QED
  BY <1>1, <1>2, <1>3, <1>4, <1>5, <1>6, <1>7, <1>8, <1>9, <1>10, <1>11, <1>12, <1>13,
     <1>14, <1>15, <1>16, <1>17, <1>18, <1>19, <1>20, <1>21, <1>22, <1>23, <1>24, <1>25,
     <1>26, <1>27, <1>28
     DEF Next, CallerStep, WorkerStep, ControlStep

\* A buffer passes from a worker to the filter manager, to the completion port
\* and to the worker that asks first.
LEMMA BufferStep ==
  TypeOK /\ BufferInv /\ ServiceInv /\ [Next]_vars => BufferInv'
<1> SUFFICES ASSUME TypeOK, BufferInv, ServiceInv, [Next]_vars PROVE BufferInv'
  OBVIOUS
<1> USE ConstantsAssumption DEF TypeOK, BufferInv, BufferHasOneUser, ServiceInv,
      Handling, driver, port, control, worker, Go
<1>1. ASSUME NEW c \in Caller, NEW f \in File, HsFilterScanFile(c, f)
      PROVE  BufferInv'
  BY <1>1 DEF HsFilterScanFile
<1>2. ASSUME NEW c \in Caller, FltSendMessage(c) PROVE BufferInv'
  BY <1>2 DEF FltSendMessage, SendFails
<1>3. ASSUME NEW c \in Caller, ScanAnswered(c) PROVE BufferInv'
  BY <1>3 DEF ScanAnswered, HsReleaseSectionContext
<1>4. ASSUME NEW c \in Caller, RemoveScanContext(c) PROVE BufferInv'
  BY <1>4 DEF RemoveScanContext
<1>5. ASSUME NEW b \in Worker, DeliverMessage(b) PROVE BufferInv'
  BY <1>5 DEF DeliverMessage
<1>6. ASSUME NEW w \in Worker, FilterGetMessage(w) PROVE BufferInv'
  <2>1. CASE /\ posted' = posted \cup {buffer[w]}
             /\ buffer' = [buffer EXCEPT ![w] = None]
             /\ wpc' = [wpc EXCEPT ![w] = "dequeue"]
    <3>1. buffer[w] \in Worker /\ buffer[w] \notin posted \cup completed
      BY <1>6 DEF FilterGetMessage
    <3>2. /\ posted' = posted \cup {buffer[w]}
          /\ buffer' = [buffer EXCEPT ![w] = None]
          /\ wpc' = [wpc EXCEPT ![w] = "dequeue"]
          /\ UNCHANGED <<completed, context>>
      BY <1>6, <2>1 DEF FilterGetMessage
    <3>3. buffer'[w] = None /\ \A v \in Worker : v # w => buffer'[v] = buffer[v]
      BY <3>2
    <3>4. ASSUME NEW v \in Worker, buffer'[v] # None
          PROVE  v # w /\ buffer[v] # buffer[w] /\ buffer[v] \notin posted' \cup completed
      BY <3>1, <3>2, <3>3, <3>4
    <3>5. BufferHasOneUser'
      BY <3>2, <3>3, <3>4
    <3>6. (posted \cap completed = {})'
      BY <3>1, <3>2
    <3>7. wpc'[w] = "dequeue" /\ \A v \in Worker : v # w => wpc'[v] = wpc[v]
      BY <3>2
    <3>8. \A v \in Worker : wpc'[v] = "unborn" => v # buffer[w] /\ v # w
      BY <3>1, <3>7
    <3> QED
      BY <1>6, <3>2, <3>3, <3>5, <3>6, <3>7, <3>8 DEF FilterGetMessage
  <2>2. CASE UNCHANGED <<posted, buffer>> /\ wpc' = [wpc EXCEPT ![w] = "exited"]
    BY <1>6, <2>2 DEF FilterGetMessage
  <2> QED
    BY <1>6, <2>1, <2>2 DEF FilterGetMessage
<1>7. ASSUME NEW w \in Worker, NEW b \in Worker, GetQueuedCompletionStatus(w, b)
      PROVE  BufferInv'
  BY <1>7 DEF GetQueuedCompletionStatus
<1>8. ASSUME NEW w \in Worker, WorkerReturns(w) PROVE BufferInv'
  BY <1>8 DEF WorkerReturns
<1>9. ASSUME NEW w \in Worker, KhspHandleScanPeOpen(w) PROVE BufferInv'
  BY <1>9 DEF KhspHandleScanPeOpen, NoFlags
<1>10. ASSUME NEW w \in Worker, KhspQueryFileName(w) PROVE BufferInv'
  BY <1>10 DEF KhspQueryFileName,
      HspGetScanContextSynchronized, NoFlags, Listed
<1>11. ASSUME NEW w \in Worker, QueryFileName(w) PROVE BufferInv'
  BY <1>11 DEF QueryFileName, UseGoneContext, NoFlags
<1>12. ASSUME NEW w \in Worker, ScanRoutine(w) PROVE BufferInv'
  BY <1>12 DEF ScanRoutine, NoFlags
<1>13. ASSUME NEW w \in Worker, KhspCreateSectionForDataScan(w) PROVE BufferInv'
  BY <1>13 DEF KhspCreateSectionForDataScan,
      HspGetScanContextSynchronized, NoFlags, Listed
<1>14. ASSUME NEW w \in Worker, CreateSection(w) PROVE BufferInv'
  BY <1>14 DEF CreateSection, UseGoneContext, NoFlags,
      HspHandleCmdCreateSectionForDataScan
<1>15. ASSUME NEW w \in Worker, HsScanBuffer(w) PROVE BufferInv'
  BY <1>15 DEF HsScanBuffer, NoFlags, Mapped
<1>16. ASSUME NEW w \in Worker, KhspFilterReplyMessage(w) PROVE BufferInv'
  BY <1>16 DEF KhspFilterReplyMessage, Waiting
<1>17. CASE KhsConnect
  BY <1>17 DEF KhsConnect
<1>18. CASE HspLoadClamAV
  BY <1>18 DEF HspLoadClamAV
<1>19. CASE KhsStartFiltering
  BY <1>19 DEF KhsStartFiltering
<1>20. ASSUME NEW w \in Worker, CreateThread(w) PROVE BufferInv'
  BY <1>20 DEF CreateThread
<1>21. CASE ServiceRunning
  BY <1>21 DEF ServiceRunning
<1>22. CASE KhsDisconnect
  BY <1>22 DEF KhsDisconnect, PortCloses
<1>23. CASE ForgetRoutine
  BY <1>23 DEF ForgetRoutine
<1>24. CASE HsDeleteScanner
  BY <1>24 DEF HsDeleteScanner
<1>25. CASE ServiceExits
  BY <1>25 DEF ServiceExits, PortCloses
<1>26. CASE UNCHANGED vars
  BY <1>26 DEF vars
<1>27. ASSUME NEW c \in Caller, FltSendMessageFails(c) PROVE BufferInv'
  BY <1>27 DEF FltSendMessageFails, SendFails
<1>28. ASSUME NEW w \in Worker, ReceiveFails(w) PROVE BufferInv'
  BY <1>28 DEF ReceiveFails
<1> QED
  BY <1>1, <1>2, <1>3, <1>4, <1>5, <1>6, <1>7, <1>8, <1>9, <1>10, <1>11, <1>12, <1>13,
     <1>14, <1>15, <1>16, <1>17, <1>18, <1>19, <1>20, <1>21, <1>22, <1>23, <1>24, <1>25,
     <1>26, <1>27, <1>28
     DEF Next, CallerStep, WorkerStep, ControlStep

\* The port is closed before the scanner is freed, and opened before there are
\* workers.
LEMMA ServiceStep ==
  TypeOK /\ ServiceInv /\ [Next]_vars => ServiceInv'
<1> SUFFICES ASSUME TypeOK, ServiceInv, [Next]_vars PROVE ServiceInv'
  OBVIOUS
<1> USE ConstantsAssumption DEF TypeOK, ServiceInv, driver, port, control, worker, Go
<1>1. ASSUME NEW c \in Caller, NEW f \in File, HsFilterScanFile(c, f)
      PROVE  ServiceInv'
  BY <1>1 DEF HsFilterScanFile
<1>2. ASSUME NEW c \in Caller, FltSendMessage(c) PROVE ServiceInv'
  BY <1>2 DEF FltSendMessage, SendFails
<1>3. ASSUME NEW c \in Caller, ScanAnswered(c) PROVE ServiceInv'
  BY <1>3 DEF ScanAnswered, HsReleaseSectionContext
<1>4. ASSUME NEW c \in Caller, RemoveScanContext(c) PROVE ServiceInv'
  BY <1>4 DEF RemoveScanContext
<1>5. ASSUME NEW b \in Worker, DeliverMessage(b) PROVE ServiceInv'
  BY <1>5 DEF DeliverMessage
<1>6. ASSUME NEW w \in Worker, FilterGetMessage(w) PROVE ServiceInv'
  BY <1>6 DEF FilterGetMessage
<1>7. ASSUME NEW w \in Worker, NEW b \in Worker, GetQueuedCompletionStatus(w, b)
      PROVE  ServiceInv'
  BY <1>7 DEF GetQueuedCompletionStatus
<1>8. ASSUME NEW w \in Worker, WorkerReturns(w) PROVE ServiceInv'
  BY <1>8 DEF WorkerReturns
<1>9. ASSUME NEW w \in Worker, KhspHandleScanPeOpen(w) PROVE ServiceInv'
  BY <1>9 DEF KhspHandleScanPeOpen, NoFlags
<1>10. ASSUME NEW w \in Worker, KhspQueryFileName(w) PROVE ServiceInv'
  BY <1>10 DEF KhspQueryFileName,
      HspGetScanContextSynchronized, NoFlags, Listed
<1>11. ASSUME NEW w \in Worker, QueryFileName(w) PROVE ServiceInv'
  BY <1>11 DEF QueryFileName, UseGoneContext, NoFlags
<1>12. ASSUME NEW w \in Worker, ScanRoutine(w) PROVE ServiceInv'
  BY <1>12 DEF ScanRoutine, NoFlags
<1>13. ASSUME NEW w \in Worker, KhspCreateSectionForDataScan(w)
      PROVE  ServiceInv'
  BY <1>13 DEF KhspCreateSectionForDataScan,
      HspGetScanContextSynchronized, NoFlags, Listed
<1>14. ASSUME NEW w \in Worker, CreateSection(w) PROVE ServiceInv'
  BY <1>14 DEF CreateSection, UseGoneContext, NoFlags,
      HspHandleCmdCreateSectionForDataScan
<1>15. ASSUME NEW w \in Worker, HsScanBuffer(w) PROVE ServiceInv'
  BY <1>15 DEF HsScanBuffer, NoFlags, Mapped
<1>16. ASSUME NEW w \in Worker, KhspFilterReplyMessage(w) PROVE ServiceInv'
  BY <1>16 DEF KhspFilterReplyMessage, Waiting
<1>17. CASE KhsConnect
  BY <1>17 DEF KhsConnect
<1>18. CASE HspLoadClamAV
  BY <1>18 DEF HspLoadClamAV
<1>19. CASE KhsStartFiltering
  BY <1>19 DEF KhsStartFiltering
<1>20. ASSUME NEW w \in Worker, CreateThread(w) PROVE ServiceInv'
  BY <1>20 DEF CreateThread
<1>21. CASE ServiceRunning
  BY <1>21 DEF ServiceRunning
<1>22. CASE KhsDisconnect
  BY <1>22 DEF KhsDisconnect, PortCloses
<1>23. CASE ForgetRoutine
  BY <1>23 DEF ForgetRoutine
<1>24. CASE HsDeleteScanner
  BY <1>24 DEF HsDeleteScanner
<1>25. CASE ServiceExits
  BY <1>25 DEF ServiceExits, PortCloses
<1>26. CASE UNCHANGED vars
  BY <1>26 DEF vars
<1>27. ASSUME NEW c \in Caller, FltSendMessageFails(c) PROVE ServiceInv'
  BY <1>27 DEF FltSendMessageFails, SendFails
<1>28. ASSUME NEW w \in Worker, ReceiveFails(w) PROVE ServiceInv'
  BY <1>28 DEF ReceiveFails
<1> QED
  BY <1>1, <1>2, <1>3, <1>4, <1>5, <1>6, <1>7, <1>8, <1>9, <1>10, <1>11, <1>12, <1>13,
     <1>14, <1>15, <1>16, <1>17, <1>18, <1>19, <1>20, <1>21, <1>22, <1>23, <1>24, <1>25,
     <1>26, <1>27, <1>28
     DEF Next, CallerStep, WorkerStep, ControlStep

\* Only the scan of the file a message is about makes an infected answer.
LEMMA AnswerStep ==
  PortInv /\ [Next]_vars => AnswerInv'
<1> SUFFICES ASSUME PortInv, [Next]_vars PROVE AnswerInv'
  OBVIOUS
<1> USE ConstantsAssumption DEF PortInv, TypeOK, IdInv, BufferInv,
      BufferHasOneUser, ServiceInv, AnswerInv, Handling, driver, port, control, worker, Go
<1>1. ASSUME NEW c \in Caller, NEW f \in File, HsFilterScanFile(c, f)
      PROVE  AnswerInv'
  BY <1>1 DEF HsFilterScanFile
<1>2. ASSUME NEW c \in Caller, FltSendMessage(c) PROVE AnswerInv'
  BY <1>2 DEF FltSendMessage, SendFails
<1>3. ASSUME NEW c \in Caller, ScanAnswered(c) PROVE AnswerInv'
  BY <1>3 DEF ScanAnswered, HsReleaseSectionContext
<1>4. ASSUME NEW c \in Caller, RemoveScanContext(c) PROVE AnswerInv'
  BY <1>4 DEF RemoveScanContext
<1>5. ASSUME NEW b \in Worker, DeliverMessage(b) PROVE AnswerInv'
  BY <1>5 DEF DeliverMessage
<1>6. ASSUME NEW w \in Worker, FilterGetMessage(w) PROVE AnswerInv'
  <2>1. \A v \in Worker : wpc'[v] = "reply" =>
          wpc[v] = "reply" /\ buffer'[v] = buffer[v]
    BY <1>6 DEF FilterGetMessage
  <2> QED
    BY <1>6, <2>1 DEF FilterGetMessage
<1>7. ASSUME NEW w \in Worker, NEW b \in Worker, GetQueuedCompletionStatus(w, b)
      PROVE  AnswerInv'
  BY <1>7 DEF GetQueuedCompletionStatus
<1>8. ASSUME NEW w \in Worker, WorkerReturns(w) PROVE AnswerInv'
  BY <1>8 DEF WorkerReturns
<1>9. ASSUME NEW w \in Worker, KhspHandleScanPeOpen(w) PROVE AnswerInv'
  <2>1. /\ UNCHANGED <<connected, scanId, file, message, buffer>>
        /\ \A v \in Worker : wpc'[v] = "reply" /\ response'[v] = "infected" =>
                             wpc[v] = "reply" /\ response[v] = "infected"
    BY <1>9 DEF KhspHandleScanPeOpen, NoFlags
  <2> QED
    BY <2>1
<1>10. ASSUME NEW w \in Worker, KhspQueryFileName(w) PROVE AnswerInv'
  BY <1>10 DEF KhspQueryFileName,
      HspGetScanContextSynchronized, NoFlags, Listed
<1>11. ASSUME NEW w \in Worker, QueryFileName(w) PROVE AnswerInv'
  BY <1>11 DEF QueryFileName, UseGoneContext, NoFlags
<1>12. ASSUME NEW w \in Worker, ScanRoutine(w) PROVE AnswerInv'
  BY <1>12 DEF ScanRoutine, NoFlags
<1>13. ASSUME NEW w \in Worker, KhspCreateSectionForDataScan(w) PROVE AnswerInv'
  BY <1>13 DEF KhspCreateSectionForDataScan,
      HspGetScanContextSynchronized, NoFlags, Listed
<1>14. ASSUME NEW w \in Worker, CreateSection(w) PROVE AnswerInv'
  BY <1>14 DEF CreateSection, UseGoneContext, NoFlags,
      HspHandleCmdCreateSectionForDataScan
<1>15. ASSUME NEW w \in Worker, HsScanBuffer(w) PROVE AnswerInv'
  <2>1. ASSUME NEW c \in Caller, connected, response'[w] = "infected",
               scanId[c] = message[buffer[w]]
        PROVE  file[c] \in Infected
    <3>1. scanner = "ready"
      BY <1>15, <2>1 DEF HsScanBuffer
    <3>2. Mapped(w) \cap Infected # {}
      BY <1>15, <2>1, <3>1 DEF HsScanBuffer, NoFlags
    <3>3. PICK d \in Caller : scanId[d] = message[buffer[w]] /\ file[d] \in Infected
      BY <3>2 DEF Mapped
    <3>4. message[buffer[w]] # 0
      BY <1>15 DEF HsScanBuffer
    <3> QED
      BY <2>1, <3>3, <3>4
  <2>2. \A v \in Worker : v # w => wpc'[v] = wpc[v] /\ response'[v] = response[v]
    BY <1>15 DEF HsScanBuffer, NoFlags
  <2> QED
    BY <1>15, <2>1, <2>2 DEF HsScanBuffer
<1>16. ASSUME NEW w \in Worker, KhspFilterReplyMessage(w) PROVE AnswerInv'
  BY <1>16 DEF KhspFilterReplyMessage, Waiting
<1>17. CASE KhsConnect
  BY <1>17 DEF KhsConnect
<1>18. CASE HspLoadClamAV
  BY <1>18 DEF HspLoadClamAV
<1>19. CASE KhsStartFiltering
  BY <1>19 DEF KhsStartFiltering
<1>20. ASSUME NEW w \in Worker, CreateThread(w) PROVE AnswerInv'
  BY <1>20 DEF CreateThread
<1>21. CASE ServiceRunning
  BY <1>21 DEF ServiceRunning
<1>22. CASE KhsDisconnect
  BY <1>22 DEF KhsDisconnect, PortCloses
<1>23. CASE ForgetRoutine
  BY <1>23 DEF ForgetRoutine
<1>24. CASE HsDeleteScanner
  BY <1>24 DEF HsDeleteScanner
<1>25. CASE ServiceExits
  BY <1>25 DEF ServiceExits, PortCloses
<1>26. CASE UNCHANGED vars
  BY <1>26 DEF vars
<1>27. ASSUME NEW c \in Caller, FltSendMessageFails(c) PROVE AnswerInv'
  BY <1>27 DEF FltSendMessageFails, SendFails
<1>28. ASSUME NEW w \in Worker, ReceiveFails(w) PROVE AnswerInv'
  BY <1>28 DEF ReceiveFails
<1> QED
  BY <1>1, <1>2, <1>3, <1>4, <1>5, <1>6, <1>7, <1>8, <1>9, <1>10, <1>11, <1>12, <1>13,
     <1>14, <1>15, <1>16, <1>17, <1>18, <1>19, <1>20, <1>21, <1>22, <1>23, <1>24, <1>25,
     <1>26, <1>27, <1>28
     DEF Next, CallerStep, WorkerStep, ControlStep

\* The invariant holds before the driver makes its first call.
LEMMA InitInv == Init => PortInv
<1> SUFFICES ASSUME Init PROVE PortInv
  OBVIOUS
<1> USE ConstantsAssumption DEF Init, Handling
<1>1. TypeOK
  <2>1. queue \in Seq(1 .. MaxScanId)
    OBVIOUS
  <2>2. /\ kpc \in [Caller -> {"idle", "send", "wait", "answered", "remove"}]
        /\ file \in [Caller -> File \cup {None}]
        /\ scanId \in [Caller -> 0 .. MaxScanId]
        /\ outcome \in [Caller -> Outcomes]
    BY DEF Outcomes
  <2>3. /\ wpc \in [Worker -> {"unborn", "get", "dequeue", "check", "query", "copy",
                            "call", "open", "create", "scan", "reply", "exited", "fault"}]
        /\ buffer \in [Worker -> Worker \cup {None}]
        /\ message \in [Worker -> 0 .. MaxScanId]
        /\ context \in [Worker -> Caller \cup {None}]
        /\ response \in [Worker -> {"clean", "infected"}]
    OBVIOUS
  <2>4. nextId \in 0 .. MaxScanId
    OBVIOUS
  <2> QED
    BY <2>1, <2>2, <2>3, <2>4 DEF TypeOK
<1>2. IdInv
  BY DEF IdInv
<1>3. BufferInv
  BY DEF BufferInv, BufferHasOneUser
<1>4. ServiceInv /\ AnswerInv
  BY DEF ServiceInv, AnswerInv
<1> QED
  BY <1>1, <1>2, <1>3, <1>4 DEF PortInv

\* The port and the service keep the inductive invariant.
THEOREM Invariance == Spec => []PortInv
<1>1. PortInv /\ [Next]_vars => PortInv'
  BY TypeStep, IdStep, BufferStep, ServiceStep, AnswerStep DEF PortInv
<1> QED
  BY InitInv, <1>1, PTL DEF Spec

\* Every variable of the port and the service keeps its type.
THEOREM TypeCorrect == Spec => []TypeOK
<1>1. PortInv => TypeOK
  BY DEF PortInv
<1> QED
  BY <1>1, Invariance, PTL

\* No two workers ever read one message buffer, and none reads a buffer the
\* filter manager is free to fill, whatever the life of the service.
THEOREM BuffersAreExclusive == Spec => []BufferHasOneUser
<1>1. PortInv => BufferHasOneUser
  BY DEF PortInv, BufferInv
<1> QED
  BY <1>1, Invariance, PTL

-----------------------------------------------------------------------------
(***************************************************************************)
(* What the driver lends the service, and what the workers use.            *)
(***************************************************************************)

\* The steps of a worker from the check of its message to the answer.
CommandStep(w) ==
  \/ KhspHandleScanPeOpen(w)
  \/ KhspQueryFileName(w)
  \/ QueryFileName(w)
  \/ ScanRoutine(w)
  \/ KhspCreateSectionForDataScan(w)
  \/ CreateSection(w)
  \/ HsScanBuffer(w)

\* Between the two a worker keeps its message or faults, and nobody else moves.
LEMMA CommandMoves ==
  ASSUME TypeOK, NEW w \in Worker, CommandStep(w)
  PROVE  /\ \A v \in Worker : wpc'[v] \in Handling => wpc[v] \in Handling
         /\ \A v \in Worker : wpc'[v] = "exited" <=> wpc[v] = "exited"
         /\ \A v \in Worker : wpc'[v] = "dequeue" <=> wpc[v] = "dequeue"
         /\ \A v \in Worker : v # w => wpc'[v] = wpc[v]
         /\ UNCHANGED <<kpc, file, scanId, nextId, scanList, outcome, failed, port,
                        control, buffer, message>>
         /\ Carrying' \subseteq Carrying
<1>1. PICK to \in Handling \cup {"fault"} :
        /\ wpc[w] \in Handling
        /\ wpc' = [wpc EXCEPT ![w] = to]
        /\ UNCHANGED <<kpc, file, scanId, nextId, scanList, outcome, failed, port,
                       control, buffer, message>>
  <2> USE DEF driver, Go, NoFlags, Handling, TypeOK
  <2>1. CASE KhspHandleScanPeOpen(w)
    BY <2>1 DEF KhspHandleScanPeOpen
  <2>2. CASE KhspQueryFileName(w)
    BY <2>2 DEF KhspQueryFileName, HspGetScanContextSynchronized
  <2>3. CASE QueryFileName(w)
    <3>1. CASE UseGoneContext(w)
      <4>1. wpc' = [wpc EXCEPT ![w] = "copy"]
        BY <2>3, <3>1 DEF QueryFileName, UseGoneContext
      <4> QED
        BY <2>3, <4>1 DEF QueryFileName
    <3>2. CASE ~UseGoneContext(w)
      BY <2>3, <3>2 DEF QueryFileName
    <3> QED
      BY <3>1, <3>2
  <2>4. CASE ScanRoutine(w)
    BY <2>4 DEF ScanRoutine
  <2>5. CASE KhspCreateSectionForDataScan(w)
    BY <2>5 DEF KhspCreateSectionForDataScan, HspGetScanContextSynchronized
  <2>6. CASE CreateSection(w)
    <3>1. CASE UseGoneContext(w)
      <4>1. wpc' = [wpc EXCEPT ![w] = "create"]
        BY <2>6, <3>1 DEF CreateSection, UseGoneContext
      <4> QED
        BY <2>6, <4>1 DEF CreateSection
    <3>2. CASE ~UseGoneContext(w)
      BY <2>6, <3>2 DEF CreateSection
    <3> QED
      BY <3>1, <3>2
  <2>7. CASE HsScanBuffer(w)
    BY <2>7 DEF HsScanBuffer
  <2> QED
    BY <2>1, <2>2, <2>3, <2>4, <2>5, <2>6, <2>7 DEF CommandStep
<1>2. /\ \A v \in Worker : wpc'[v] \in Handling => wpc[v] \in Handling
      /\ \A v \in Worker : wpc'[v] = "exited" <=> wpc[v] = "exited"
      /\ \A v \in Worker : wpc'[v] = "dequeue" <=> wpc[v] = "dequeue"
      /\ \A v \in Worker : v # w => wpc'[v] = wpc[v]
  BY <1>1 DEF TypeOK, Handling
<1>3. Carrying' \subseteq Carrying
  <2>1. completed' = completed /\ buffer' = buffer
    BY <1>1 DEF port
  <2> QED
    BY <1>2, <2>1 DEF Carrying
<1> QED
  BY <1>1, <1>2, <1>3

\* A command finds a context that is gone only after its sender has failed.
LEMMA GoneMeansFailed ==
  ASSUME PortInv, MessageInv, LentInv, NEW w \in Worker, context[w] # None,
         message[buffer[w]] \notin failed
  PROVE  ContextIsThere(w)
<1>1. context[w] \in Caller /\ scanId[context[w]] = message[buffer[w]]
  BY DEF PortInv, TypeOK, LentInv
<1>2. buffer[w] \in Carrying
  BY DEF LentInv, Carrying, Handling
<1>3. kpc[context[w]] = "wait" \/ Failed(context[w])
  BY <1>1, <1>2 DEF MessageInv
<1>4. kpc[context[w]] = "wait"
  BY <1>1, <1>3 DEF MessageInv
<1> QED
  BY <1>1, <1>4 DEF LentInv, ContextIsThere

\* A buffer that is no longer read disturbs no message.
LEMMA FewerCarry ==
  ASSUME MessageInv, Carrying' \subseteq Carrying,
         UNCHANGED <<kpc, scanId, outcome, failed, connected, queue, message>>
  PROVE  MessageInv'
  BY DEF MessageInv, Failed

\* A worker without a context moves, and disturbs no context that is lent.
LEMMA OthersKeepContexts ==
  ASSUME TypeOK, LentInv, NEW w \in Worker, wpc[w] \notin {"copy", "create"},
         \A v \in Worker : v # w => wpc'[v] = wpc[v] /\ buffer'[v] = buffer[v],
         UNCHANGED <<kpc, scanId, nextId, scanList, section, sections, outcome,
                     failed, corrupt, message, context>>
  PROVE  LentInv'
<1>1. context[w] = None
  BY DEF LentInv
<1>2. \A v \in Worker : context'[v] # None =>
        v # w /\ context'[v] = context[v] /\ wpc'[v] = wpc[v] /\ buffer'[v] = buffer[v]
  BY <1>1
<1> QED
  BY <1>2 DEF LentInv, AnsweredScanKeepsNoSection

\* A lookup lends the context of the message, or nothing.
LEMMA LookupLends ==
  ASSUME TypeOK, LentInv, NEW w \in Worker, NEW from \in {"query", "open"},
         NEW to \in {"copy", "create"}, HspGetScanContextSynchronized(w, from, to)
  PROVE  LentInv'
<1>1. /\ wpc[w] = from
      /\ UNCHANGED <<kpc, scanId, nextId, scanList, section, sections, outcome,
                     failed, corrupt, message, buffer>>
  BY DEF HspGetScanContextSynchronized, driver, port
<1>2. CASE context' = context /\ wpc' = [wpc EXCEPT ![w] = "reply"]
  <2>1. \A v \in Worker : v # w => wpc'[v] = wpc[v] /\ buffer'[v] = buffer[v]
    BY <1>1, <1>2 DEF TypeOK
  <2> QED
    BY <1>1, <1>2, <2>1, OthersKeepContexts
<1>3. ASSUME NEW c \in Listed(w), context' = [context EXCEPT ![w] = c],
             wpc' = [wpc EXCEPT ![w] = to]
      PROVE  LentInv'
  <2>1. context'[w] = c /\ scanId[c] = message[buffer[w]] /\ wpc'[w] = to
    BY <1>3 DEF Listed, TypeOK
  <2>2. \A v \in Worker : v # w => context'[v] = context[v] /\ wpc'[v] = wpc[v]
    BY <1>3 DEF TypeOK
  <2> QED
    BY <1>1, <2>1, <2>2 DEF LentInv, AnsweredScanKeepsNoSection
<1> QED
  BY <1>2, <1>3 DEF HspGetScanContextSynchronized, NoFlags, Go

\* While the port is open only a buffer whose worker has left makes one fault.
LEMMA CommandFaults ==
  ASSUME TypeOK, BufferInv, ServiceInv, LifeInv, NEW w \in Worker, CommandStep(w)
  PROVE  /\ buffer[w] \in Worker
         /\ wpc'[w] = "fault" /\ connected => Gone(buffer[w])
<1>1. wpc[w] \in Handling
  BY DEF CommandStep, KhspHandleScanPeOpen, KhspQueryFileName, QueryFileName, ScanRoutine,
    KhspCreateSectionForDataScan, HspGetScanContextSynchronized, CreateSection, HsScanBuffer,
    Handling
<1>2. buffer[w] \in Worker
  BY <1>1 DEF TypeOK, BufferInv
<1>3. ASSUME wpc'[w] = "fault", connected PROVE Gone(buffer[w])
  <2>1. svc \in {"spawning", "running"}
    BY <1>1, <1>3 DEF ServiceInv, Handling, TypeOK
  <2>2. routine /\ scanner = "ready"
    BY <1>3, <2>1 DEF ServiceInv, LifeInv
  <2>3. \A to : wpc' = [wpc EXCEPT ![w] = to] => wpc'[w] = to
    BY DEF TypeOK
  <2> USE DEF NoFlags, Go
  <2>4. CASE KhspHandleScanPeOpen(w)
    BY <1>3, <2>2, <2>3, <2>4 DEF KhspHandleScanPeOpen
  <2>5. CASE KhspQueryFileName(w)
    BY <1>3, <2>3, <2>5 DEF KhspQueryFileName, HspGetScanContextSynchronized
  <2>6. CASE KhspCreateSectionForDataScan(w)
    BY <1>3, <2>3, <2>6 DEF KhspCreateSectionForDataScan, HspGetScanContextSynchronized
  <2>7. CASE QueryFileName(w)
    BY <1>3, <2>3, <2>7 DEF QueryFileName, UseGoneContext
  <2>8. CASE CreateSection(w)
    BY <1>3, <2>3, <2>8 DEF CreateSection, UseGoneContext
  <2>9. CASE ScanRoutine(w)
    BY <1>3, <2>2, <2>3, <2>9 DEF ScanRoutine
  <2>10. CASE HsScanBuffer(w)
    BY <1>3, <2>2, <2>3, <2>10 DEF HsScanBuffer
  <2> QED
    BY <2>4, <2>5, <2>6, <2>7, <2>8, <2>9, <2>10 DEF CommandStep
<1> QED
  BY <1>2, <1>3

\* The use of a context that is gone follows a send that has failed.
LEMMA GoneKeepsLoans ==
  ASSUME PortInv, MessageInv, LentInv, NEW w \in Worker, context[w] # None, UseGoneContext(w),
         UNCHANGED <<kpc, scanId, nextId, scanList, section, sections, outcome, failed, message,
                     buffer>>
  PROVE  LentInv'
<1>1. failed # {}
  BY GoneMeansFailed DEF UseGoneContext
<1>2. UNCHANGED <<wpc, context>>
  BY DEF UseGoneContext
<1> QED
  BY <1>1, <1>2 DEF LentInv, AnsweredScanKeepsNoSection

\* The control thread sets the routine before it creates workers, and closes
\* the port before it forgets it; a worker that has left does not come back.
LEMMA LifeStep ==
  PortInv /\ LifeInv /\ [Next]_vars => LifeInv'
<1> SUFFICES ASSUME PortInv, LifeInv, [Next]_vars PROVE LifeInv'
  OBVIOUS
<1> USE ConstantsAssumption DEF PortInv, TypeOK, BufferInv, BufferHasOneUser, ServiceInv,
      LifeInv, FaultIsOnGoneBuffer, Gone, Handling, driver, port, control, worker, Go
<1>1. ASSUME NEW c \in Caller, NEW f \in File, HsFilterScanFile(c, f) PROVE LifeInv'
  BY <1>1 DEF HsFilterScanFile
<1>2. ASSUME NEW c \in Caller, FltSendMessage(c) PROVE LifeInv'
  BY <1>2 DEF FltSendMessage, SendFails
<1>3. ASSUME NEW c \in Caller, ScanAnswered(c) PROVE LifeInv'
  BY <1>3 DEF ScanAnswered, HsReleaseSectionContext
<1>4. ASSUME NEW c \in Caller, RemoveScanContext(c) PROVE LifeInv'
  BY <1>4 DEF RemoveScanContext
<1>5. ASSUME NEW b \in Worker, DeliverMessage(b) PROVE LifeInv'
  BY <1>5 DEF DeliverMessage
<1>6. ASSUME NEW w \in Worker, FilterGetMessage(w) PROVE LifeInv'
  <2>1. \A v \in Worker :
          /\ wpc[v] = "exited" => wpc'[v] = "exited"
          /\ wpc'[v] = "fault" => (wpc[v] = "fault" /\ buffer'[v] = buffer[v])
    BY <1>6 DEF FilterGetMessage
  <2>2. UNCHANGED <<connected, queue, completed, svc, routine>>
    BY <1>6 DEF FilterGetMessage
  <2>3. \A v \in Worker : wpc[v] = "fault" /\ connected => buffer[v] \in Worker
    BY DEF FaultIsOnGoneBuffer
  <2> QED
    BY <2>1, <2>2, <2>3
<1>7. ASSUME NEW w \in Worker, NEW b \in Worker, GetQueuedCompletionStatus(w, b)
      PROVE  LifeInv'
  BY <1>7 DEF GetQueuedCompletionStatus
<1>8. ASSUME NEW w \in Worker, WorkerReturns(w) PROVE LifeInv'
  BY <1>8 DEF WorkerReturns
<1>9. ASSUME NEW w \in Worker, CommandStep(w) PROVE LifeInv'
  <2>1. /\ \A v \in Worker : wpc'[v] = "exited" <=> wpc[v] = "exited"
        /\ \A v \in Worker : v # w => wpc'[v] = wpc[v]
        /\ UNCHANGED <<connected, queue, posted, completed, svc, routine, buffer>>
    <3>1. TypeOK
      OBVIOUS
    <3> HIDE DEF PortInv, TypeOK, BufferInv, BufferHasOneUser, ServiceInv, LifeInv, Handling
    <3> QED
      BY <1>9, <3>1, CommandMoves
  <2>2. /\ buffer[w] \in Worker
        /\ wpc'[w] = "fault" /\ connected => Gone(buffer[w])
    <3>1. TypeOK /\ BufferInv /\ ServiceInv /\ LifeInv
      OBVIOUS
    <3> HIDE DEF PortInv, TypeOK, BufferInv, BufferHasOneUser, ServiceInv, LifeInv, Gone
    <3> QED
      BY <1>9, <3>1, CommandFaults
  <2>3. ASSUME NEW v \in Worker, wpc'[v] = "fault", connected PROVE wpc'[buffer[v]] = "exited"
    <3>1. CASE v = w
      BY <2>1, <2>2, <2>3, <3>1
    <3>2. CASE v # w
      <4>1. wpc[v] = "fault" /\ buffer[v] \in Worker
        BY <2>1, <2>3, <3>2
      <4> QED
        BY <2>1, <2>3, <4>1
    <3> QED
      BY <3>1, <3>2
  <2> QED
    BY <2>1, <2>3
<1>10. ASSUME NEW w \in Worker, KhspFilterReplyMessage(w) PROVE LifeInv'
  BY <1>10 DEF KhspFilterReplyMessage, Waiting
<1>11. CASE KhsConnect
  BY <1>11 DEF KhsConnect
<1>12. CASE HspLoadClamAV
  BY <1>12 DEF HspLoadClamAV
<1>13. CASE KhsStartFiltering
  BY <1>13 DEF KhsStartFiltering
<1>14. ASSUME NEW w \in Worker, CreateThread(w) PROVE LifeInv'
  BY <1>14 DEF CreateThread
<1>15. CASE ServiceRunning
  BY <1>15 DEF ServiceRunning
<1>16. CASE KhsDisconnect
  BY <1>16 DEF KhsDisconnect, PortCloses
<1>17. CASE ForgetRoutine
  BY <1>17 DEF ForgetRoutine
<1>18. CASE HsDeleteScanner
  BY <1>18 DEF HsDeleteScanner
<1>19. CASE ServiceExits
  BY <1>19 DEF ServiceExits, PortCloses
<1>20. CASE UNCHANGED vars
  BY <1>20 DEF vars
<1>21. ASSUME NEW c \in Caller, FltSendMessageFails(c) PROVE LifeInv'
  BY <1>21 DEF FltSendMessageFails, SendFails
<1>22. ASSUME NEW w \in Worker, ReceiveFails(w) PROVE LifeInv'
  BY <1>22 DEF ReceiveFails
<1> QED
  BY <1>1, <1>2, <1>3, <1>4, <1>5, <1>6, <1>7, <1>8, <1>9, <1>10, <1>11, <1>12, <1>13,
     <1>14, <1>15, <1>16, <1>17, <1>18, <1>19, <1>20, <1>21, <1>22
     DEF Next, CallerStep, WorkerStep, ControlStep, CommandStep

\* A message moves from the queue to a buffer, and from there to the worker that
\* answers it, once.
LEMMA MessageStep ==
  PortInv /\ LifeInv /\ MessageInv /\ [Next]_vars => MessageInv'
<1> SUFFICES ASSUME PortInv, LifeInv, MessageInv, [Next]_vars PROVE MessageInv'
  OBVIOUS
<1> USE ConstantsAssumption DEF PortInv, TypeOK, IdInv, BufferInv, BufferHasOneUser,
      ServiceInv, LifeInv, MessageInv, Carrying, Failed, Handling, driver, port, control,
      worker, Go
<1>1. ASSUME NEW c \in Caller, NEW f \in File, HsFilterScanFile(c, f)
      PROVE  MessageInv'
  BY <1>1 DEF HsFilterScanFile
<1>2. ASSUME NEW c \in Caller, FltSendMessage(c) PROVE MessageInv'
  <2> DEFINE i == scanId[c]
  <2>1. /\ i \in 1 .. nextId /\ kpc[c] = "send"
        /\ \A b \in Carrying : i # message[b]
        /\ \A k \in 1 .. Len(queue) : i # queue[k]
    BY <1>2 DEF FltSendMessage, SendFails
  <2>2. \A d \in Caller : d # c => scanId[d] # i
    BY <2>1
  <2>3. UNCHANGED <<scanId, connected, message, completed, buffer, wpc>>
    BY <1>2 DEF FltSendMessage, SendFails
  <2>4. Carrying' = Carrying
    BY <2>3
  <2>5. CASE /\ connected /\ queue' = Append(queue, i)
             /\ kpc' = [kpc EXCEPT ![c] = "wait"] /\ UNCHANGED <<outcome, failed>>
    <3>1. /\ connected /\ queue' = Append(queue, i)
          /\ kpc' = [kpc EXCEPT ![c] = "wait"] /\ UNCHANGED <<outcome, failed>>
      BY <2>5
    <3>2. queue \in Seq(1 .. MaxScanId) /\ i \in 1 .. MaxScanId
      BY <2>1
    <3>3. /\ Len(queue') = Len(queue) + 1
          /\ \A k \in 1 .. Len(queue') : k \in 1 .. Len(queue) \/ k = Len(queue) + 1
          /\ \A k \in 1 .. Len(queue) : queue'[k] = queue[k]
          /\ queue'[Len(queue) + 1] = i
      <4> HIDE DEF PortInv, TypeOK, IdInv, BufferInv, ServiceInv, LifeInv, MessageInv, i
      <4> QED
        BY <3>1, <3>2
    <3>4. \A d \in Caller : kpc'[d] = IF d = c THEN "wait" ELSE kpc[d]
      BY <3>1
    <3>5. MessageInv
      OBVIOUS
    <3> HIDE DEF PortInv, TypeOK, IdInv, BufferInv, BufferHasOneUser, ServiceInv, LifeInv,
          Carrying, i
    <3> QED
      BY <2>1, <2>2, <2>3, <2>4, <2>5, <3>1, <3>2, <3>3, <3>4, <3>5
  <2>6. CASE SendFails(c) /\ UNCHANGED queue
    <3>1. \A d \in Caller : d # c => kpc'[d] = kpc[d] /\ outcome'[d] = outcome[d]
      BY <2>6 DEF SendFails
    <3>2. kpc'[c] = "remove" /\ outcome'[c] = "failed"
      BY <2>6 DEF SendFails
    <3>3. failed' = failed \cup {i} /\ UNCHANGED queue
      BY <2>6 DEF SendFails
    <3>4. MessageInv
      OBVIOUS
    <3> HIDE DEF PortInv, TypeOK, IdInv, BufferInv, BufferHasOneUser, ServiceInv, LifeInv,
          Carrying
    <3> QED
      BY <2>1, <2>2, <2>3, <2>4, <3>1, <3>2, <3>3, <3>4
  <2> QED
    BY <1>2, <2>5, <2>6 DEF FltSendMessage
<1>3. ASSUME NEW c \in Caller, ScanAnswered(c) PROVE MessageInv'
  <2>1. /\ kpc[c] = "answered" /\ kpc'[c] = "remove"
        /\ \A d \in Caller : d # c => kpc'[d] = kpc[d]
        /\ UNCHANGED <<scanId, outcome, failed, connected, queue, message>>
        /\ Carrying' = Carrying
    BY <1>3 DEF ScanAnswered
  <2>2. outcome[c] # "failed" /\ MessageInv
    BY <2>1
  <2> HIDE DEF PortInv, TypeOK, IdInv, BufferInv, BufferHasOneUser, ServiceInv, LifeInv,
        Carrying
  <2> QED
    BY <2>1, <2>2
<1>4. ASSUME NEW c \in Caller, RemoveScanContext(c) PROVE MessageInv'
  BY <1>4 DEF RemoveScanContext
<1>5. ASSUME NEW b \in Worker, DeliverMessage(b) PROVE MessageInv'
  <2> DEFINE i == Head(queue)
  <2>1. /\ queue # << >> /\ queue \in Seq(1 .. MaxScanId) /\ queue' = Tail(queue)
        /\ b \in posted /\ b \notin Carrying /\ connected
        /\ message' = [message EXCEPT ![b] = i]
        /\ completed' = completed \cup {b}
        /\ UNCHANGED <<kpc, scanId, outcome, failed, connected, buffer, wpc>>
    BY <1>5 DEF DeliverMessage
  <2>2. Carrying' = Carrying \cup {b}
    BY <2>1
  <2>3. /\ i = queue[1] /\ 1 \in 1 .. Len(queue)
        /\ \A k \in 1 .. Len(queue') : /\ queue'[k] = queue[k + 1]
                                       /\ k + 1 \in 1 .. Len(queue) /\ k + 1 # 1
        /\ \A j, k \in 1 .. Len(queue') : j + 1 = k + 1 => j = k
    <3> HIDE DEF PortInv, TypeOK, IdInv, BufferInv, ServiceInv, LifeInv, MessageInv
    <3> QED
      BY <2>1
  <2>4. message \in [Worker -> 0 .. MaxScanId] /\ MessageInv
    OBVIOUS
  <2>5. \A d \in Carrying : message'[d] = message[d]
    BY <2>1
  <2>6. message'[b] = i
    BY <2>1, <2>4
  <2> HIDE DEF PortInv, TypeOK, IdInv, BufferInv, BufferHasOneUser, ServiceInv, LifeInv,
        Carrying, i
  <2> QED
    BY <2>1, <2>2, <2>3, <2>4, <2>5, <2>6
<1>6. ASSUME NEW w \in Worker, FilterGetMessage(w) PROVE MessageInv'
  <2>1. /\ Carrying' \subseteq Carrying
        /\ UNCHANGED <<kpc, scanId, outcome, failed, connected, queue, message>>
    BY <1>6 DEF FilterGetMessage
  <2>2. MessageInv
    OBVIOUS
  <2> QED
    BY <2>1, <2>2, FewerCarry
<1>7. ASSUME NEW w \in Worker, NEW b \in Worker, GetQueuedCompletionStatus(w, b)
      PROVE  MessageInv'
  <2>1. /\ Carrying' \subseteq Carrying
        /\ UNCHANGED <<kpc, scanId, outcome, failed, connected, queue, message>>
    BY <1>7 DEF GetQueuedCompletionStatus
  <2>2. MessageInv
    OBVIOUS
  <2> QED
    BY <2>1, <2>2, FewerCarry
<1>8. ASSUME NEW w \in Worker, WorkerReturns(w) PROVE MessageInv'
  <2>1. /\ Carrying' \subseteq Carrying
        /\ UNCHANGED <<kpc, scanId, outcome, failed, connected, queue, message>>
    BY <1>8 DEF WorkerReturns
  <2>2. MessageInv
    OBVIOUS
  <2> QED
    BY <2>1, <2>2, FewerCarry
<1>9. ASSUME NEW w \in Worker, CommandStep(w) PROVE MessageInv'
  <2>1. TypeOK /\ MessageInv
    OBVIOUS
  <2> HIDE DEF PortInv, TypeOK, IdInv, BufferInv, BufferHasOneUser, ServiceInv, LifeInv,
        Handling, Carrying
  <2>2. /\ UNCHANGED <<kpc, scanId, outcome, failed, connected, queue, message>>
        /\ Carrying' \subseteq Carrying
    BY <1>9, <2>1, CommandMoves
  <2> QED
    BY <2>1, <2>2, FewerCarry
<1>10. ASSUME NEW w \in Worker, KhspFilterReplyMessage(w) PROVE MessageInv'
  <2>1. CASE Gone(buffer[w])
    <3>1. /\ Carrying' \subseteq Carrying
          /\ UNCHANGED <<kpc, scanId, outcome, failed, connected, queue, message>>
      BY <1>10, <2>1 DEF KhspFilterReplyMessage
    <3>2. MessageInv
      OBVIOUS
    <3> QED
      BY <3>1, <3>2, FewerCarry
  <2>2. CASE ~Gone(buffer[w])
    <3>1. /\ buffer[w] \in Carrying
          /\ \A b \in Carrying' : b \in Carrying /\ b # buffer[w] /\ message'[b] = message[b]
          /\ UNCHANGED <<scanId, failed, connected, queue>>
      BY <1>10, <2>2 DEF KhspFilterReplyMessage
    <3>2. \A c \in Caller :
            \/ UNCHANGED <<kpc[c], outcome[c]>>
            \/ /\ connected /\ scanId[c] = message[buffer[w]]
               /\ kpc[c] = "wait" /\ kpc'[c] = "answered" /\ outcome'[c] # "failed"
      <4>1. /\ kpc' = [c \in Caller |->
                       IF connected /\ c \in Waiting(message[buffer[w]]) THEN "answered" ELSE kpc[c]]
            /\ outcome' = [c \in Caller |->
                       IF connected /\ c \in Waiting(message[buffer[w]]) THEN response[w]
                                                                     ELSE outcome[c]]
        BY <1>10, <2>2 DEF KhspFilterReplyMessage
      <4>2. response[w] # "failed"
        OBVIOUS
      <4> HIDE DEF PortInv, TypeOK, IdInv, BufferInv, BufferHasOneUser, ServiceInv, LifeInv,
            MessageInv, Carrying, Failed, Handling
      <4> QED
        BY <4>1, <4>2 DEF Waiting
    <3>3. MessageInv
      OBVIOUS
    <3> HIDE DEF PortInv, TypeOK, IdInv, BufferInv, BufferHasOneUser, ServiceInv, LifeInv,
          Carrying
    <3> QED
      BY <3>1, <3>2, <3>3
  <2> QED
    BY <2>1, <2>2
<1>11. CASE KhsConnect
  BY <1>11 DEF KhsConnect
<1>12. CASE HspLoadClamAV
  BY <1>12 DEF HspLoadClamAV
<1>13. CASE KhsStartFiltering
  BY <1>13 DEF KhsStartFiltering
<1>14. ASSUME NEW w \in Worker, CreateThread(w) PROVE MessageInv'
  <2>1. /\ Carrying' \subseteq Carrying
        /\ UNCHANGED <<kpc, scanId, outcome, failed, connected, queue, message>>
    BY <1>14 DEF CreateThread
  <2>2. MessageInv
    OBVIOUS
  <2> QED
    BY <2>1, <2>2, FewerCarry
<1>15. CASE ServiceRunning
  BY <1>15 DEF ServiceRunning
<1>16. CASE KhsDisconnect
  BY <1>16 DEF KhsDisconnect, PortCloses
<1>17. CASE ForgetRoutine
  <2>1. /\ Carrying' \subseteq Carrying
        /\ UNCHANGED <<kpc, scanId, outcome, failed, connected, queue, message>>
    BY <1>17 DEF ForgetRoutine
  <2>2. MessageInv
    OBVIOUS
  <2> QED
    BY <2>1, <2>2, FewerCarry
<1>18. CASE HsDeleteScanner
  BY <1>18 DEF HsDeleteScanner
<1>19. CASE ServiceExits
  BY <1>19 DEF ServiceExits, PortCloses
<1>20. CASE UNCHANGED vars
  BY <1>20 DEF vars
<1>21. ASSUME NEW c \in Caller, FltSendMessageFails(c) PROVE MessageInv'
  <2>1. /\ kpc[c] = "wait"
        /\ \A d \in Caller : d # c => kpc'[d] = kpc[d] /\ outcome'[d] = outcome[d]
        /\ kpc'[c] = "remove" /\ outcome'[c] = "failed"
        /\ failed' = failed \cup {scanId[c]}
        /\ UNCHANGED <<scanId, connected, queue, message>> /\ Carrying' = Carrying
    BY <1>21 DEF FltSendMessageFails, SendFails
  <2>2. MessageInv
    OBVIOUS
  <2> HIDE DEF PortInv, TypeOK, IdInv, BufferInv, BufferHasOneUser, ServiceInv, LifeInv,
        Carrying
  <2> QED
    BY <2>1, <2>2
<1>22. ASSUME NEW w \in Worker, ReceiveFails(w) PROVE MessageInv'
  <2>1. /\ Carrying' \subseteq Carrying
        /\ UNCHANGED <<kpc, scanId, outcome, failed, connected, queue, message>>
    BY <1>22 DEF ReceiveFails
  <2>2. MessageInv
    OBVIOUS
  <2> QED
    BY <2>1, <2>2, FewerCarry
<1> QED
  BY <1>1, <1>2, <1>3, <1>4, <1>5, <1>6, <1>7, <1>8, <1>9, <1>10, <1>11, <1>12, <1>13,
     <1>14, <1>15, <1>16, <1>17, <1>18, <1>19, <1>20, <1>21, <1>22
     DEF Next, CallerStep, WorkerStep, ControlStep, CommandStep

\* The sender stays in the list while a command uses its context, because it
\* waits for the answer that comes after the command.
LEMMA LentStep ==
  PortInv /\ LifeInv /\ MessageInv /\ LentInv /\ [Next]_vars => LentInv'
<1> SUFFICES ASSUME PortInv, LifeInv, MessageInv, LentInv, [Next]_vars PROVE LentInv'
  OBVIOUS
<1> USE ConstantsAssumption DEF PortInv, TypeOK, IdInv, BufferInv, BufferHasOneUser,
      ServiceInv, LifeInv, MessageInv, LentInv, AnsweredScanKeepsNoSection, Carrying, Failed,
      Handling, driver, port, control, worker, Go
<1>1. ASSUME NEW c \in Caller, NEW f \in File, HsFilterScanFile(c, f) PROVE LentInv'
  BY <1>1 DEF HsFilterScanFile
<1>2. ASSUME NEW c \in Caller, FltSendMessage(c) PROVE LentInv'
  <2>1. /\ kpc[c] = "send"
        /\ \A d \in Caller : d # c => (kpc'[d] = kpc[d] /\ outcome'[d] = outcome[d])
        /\ kpc'[c] = "wait" \/ (kpc'[c] = "remove" /\ outcome'[c] = "failed")
        /\ failed \subseteq failed'
    BY <1>2 DEF FltSendMessage, SendFails
  <2>2. UNCHANGED <<scanId, nextId, scanList, section, sections, corrupt, wpc, buffer, message,
                    context>>
    BY <1>2 DEF FltSendMessage
  <2>3. LentInv
    OBVIOUS
  <2> HIDE DEF PortInv, TypeOK, IdInv, BufferInv, BufferHasOneUser, ServiceInv, LifeInv,
        MessageInv, Carrying, Failed, Handling
  <2> QED
    BY <2>1, <2>2, <2>3
<1>3. ASSUME NEW c \in Caller, ScanAnswered(c) PROVE LentInv'
  BY <1>3 DEF ScanAnswered, HsReleaseSectionContext
<1>4. ASSUME NEW c \in Caller, RemoveScanContext(c) PROVE LentInv'
  BY <1>4 DEF RemoveScanContext
<1>5. ASSUME NEW b \in Worker, DeliverMessage(b) PROVE LentInv'
  BY <1>5 DEF DeliverMessage
<1>6. ASSUME NEW w \in Worker, FilterGetMessage(w) PROVE LentInv'
  <2>1. /\ TypeOK /\ LentInv /\ wpc[w] \notin {"copy", "create"}
        /\ \A v \in Worker : v # w => wpc'[v] = wpc[v] /\ buffer'[v] = buffer[v]
        /\ UNCHANGED <<kpc, scanId, nextId, scanList, section, sections, outcome,
                       failed, corrupt, message, context>>
    BY <1>6 DEF FilterGetMessage
  <2> HIDE DEF PortInv, TypeOK, IdInv, BufferInv, ServiceInv, LifeInv, MessageInv, LentInv
  <2> QED
    BY <2>1, OthersKeepContexts
<1>7. ASSUME NEW w \in Worker, NEW b \in Worker, GetQueuedCompletionStatus(w, b)
      PROVE  LentInv'
  BY <1>7 DEF GetQueuedCompletionStatus
<1>8. ASSUME NEW w \in Worker, WorkerReturns(w) PROVE LentInv'
  BY <1>8 DEF WorkerReturns
<1>9. ASSUME NEW w \in Worker, KhspHandleScanPeOpen(w) PROVE LentInv'
  <2>1. /\ TypeOK /\ LentInv /\ wpc[w] \notin {"copy", "create"}
        /\ \A v \in Worker : v # w => wpc'[v] = wpc[v] /\ buffer'[v] = buffer[v]
        /\ UNCHANGED <<kpc, scanId, nextId, scanList, section, sections, outcome,
                       failed, corrupt, message, context>>
    BY <1>9 DEF KhspHandleScanPeOpen, NoFlags
  <2> HIDE DEF PortInv, TypeOK, IdInv, BufferInv, ServiceInv, LifeInv, MessageInv, LentInv
  <2> QED
    BY <2>1, OthersKeepContexts
<1>10. ASSUME NEW w \in Worker, KhspQueryFileName(w) PROVE LentInv'
  <2>1. /\ TypeOK /\ LentInv
        /\ HspGetScanContextSynchronized(w, "query", "copy")
    BY <1>10 DEF KhspQueryFileName
  <2> HIDE DEF PortInv, TypeOK, IdInv, BufferInv, ServiceInv, LifeInv, MessageInv, LentInv
  <2> QED
    BY <2>1, LookupLends
<1>11. ASSUME NEW w \in Worker, QueryFileName(w) PROVE LentInv'
  <2>1. context[w] # None /\ PortInv /\ MessageInv /\ LentInv
    BY <1>11 DEF QueryFileName
  <2>2. UNCHANGED <<kpc, scanId, nextId, scanList, section, sections, outcome, failed, message,
                    buffer>>
    BY <1>11 DEF QueryFileName
  <2>3. CASE UseGoneContext(w)
    <3> HIDE DEF PortInv, TypeOK, IdInv, BufferInv, ServiceInv, LifeInv, MessageInv, LentInv
    <3> QED
      BY <2>1, <2>2, <2>3, GoneKeepsLoans
  <2>4. CASE /\ context' = [context EXCEPT ![w] = None] /\ UNCHANGED corrupt
             /\ \E to \in {"call", "reply"} : wpc' = [wpc EXCEPT ![w] = to]
    <3>1. context'[w] = None /\ \A v \in Worker : v # w =>
            wpc'[v] = wpc[v] /\ context'[v] = context[v]
      BY <2>4
    <3> HIDE DEF PortInv, TypeOK, IdInv, BufferInv, BufferHasOneUser, ServiceInv, LifeInv,
          MessageInv, Carrying, Failed, Handling
    <3> QED
      BY <2>1, <2>2, <2>4, <3>1
  <2> QED
    BY <1>11, <2>3, <2>4 DEF QueryFileName, NoFlags
<1>12. ASSUME NEW w \in Worker, ScanRoutine(w) PROVE LentInv'
  <2>1. /\ TypeOK /\ LentInv /\ wpc[w] \notin {"copy", "create"}
        /\ \A v \in Worker : v # w => wpc'[v] = wpc[v] /\ buffer'[v] = buffer[v]
        /\ UNCHANGED <<kpc, scanId, nextId, scanList, section, sections, outcome,
                       failed, corrupt, message, context>>
    BY <1>12 DEF ScanRoutine, NoFlags
  <2> HIDE DEF PortInv, TypeOK, IdInv, BufferInv, ServiceInv, LifeInv, MessageInv, LentInv
  <2> QED
    BY <2>1, OthersKeepContexts
<1>13. ASSUME NEW w \in Worker, KhspCreateSectionForDataScan(w) PROVE LentInv'
  <2>1. /\ TypeOK /\ LentInv
        /\ HspGetScanContextSynchronized(w, "open", "create")
    BY <1>13 DEF KhspCreateSectionForDataScan
  <2> HIDE DEF PortInv, TypeOK, IdInv, BufferInv, ServiceInv, LifeInv, MessageInv, LentInv
  <2> QED
    BY <2>1, LookupLends
<1>14. ASSUME NEW w \in Worker, CreateSection(w) PROVE LentInv'
  <2>1. context[w] # None /\ PortInv /\ MessageInv /\ LentInv
    BY <1>14 DEF CreateSection
  <2>2. UNCHANGED <<kpc, scanId, nextId, scanList, outcome, failed, message, buffer>>
    BY <1>14 DEF CreateSection
  <2>3. CASE UseGoneContext(w) /\ UNCHANGED <<section, sections>>
    <3> HIDE DEF PortInv, TypeOK, IdInv, BufferInv, ServiceInv, LifeInv, MessageInv, LentInv
    <3> QED
      BY <2>1, <2>2, <2>3, GoneKeepsLoans
  <2>4. CASE /\ ContextIsThere(w)
             /\ context' = [context EXCEPT ![w] = None] /\ UNCHANGED corrupt
             /\ \E to \in {"scan", "reply"} : wpc' = [wpc EXCEPT ![w] = to]
             /\ \/ UNCHANGED <<section, sections>>
                \/ /\ section' = section \cup {context[w]}
                   /\ sections' = sections \cup {message[buffer[w]]}
    <3>1. context'[w] = None /\ \A v \in Worker : v # w =>
            wpc'[v] = wpc[v] /\ context'[v] = context[v]
      BY <2>4
    <3>2. /\ context[w] \in Caller /\ scanId[context[w]] = message[buffer[w]]
          /\ message[buffer[w]] \in 1 .. nextId /\ buffer[w] \in Carrying
      BY <1>14, <2>4 DEF ContextIsThere, CreateSection
    <3>3. \A c \in Caller : scanId[c] = message[buffer[w]] => c = context[w]
      BY <3>2
    <3>4. kpc[context[w]] = "wait" \/ Failed(context[w])
      BY <3>2
    <3> HIDE DEF PortInv, TypeOK, IdInv, BufferInv, BufferHasOneUser, ServiceInv, LifeInv,
          MessageInv, Carrying, Handling
    <3>5. CASE UNCHANGED <<section, sections>>
      BY <2>1, <2>2, <2>4, <3>1, <3>5
    <3>6. CASE /\ section' = section \cup {context[w]}
               /\ sections' = sections \cup {message[buffer[w]]}
      BY <2>1, <2>2, <2>4, <3>1, <3>2, <3>3, <3>4, <3>6
    <3> QED
      BY <2>4, <3>5, <3>6
  <2> QED
    BY <1>14, <2>3, <2>4 DEF CreateSection, NoFlags, HspHandleCmdCreateSectionForDataScan
<1>15. ASSUME NEW w \in Worker, HsScanBuffer(w) PROVE LentInv'
  <2>1. /\ TypeOK /\ LentInv /\ wpc[w] \notin {"copy", "create"}
        /\ \A v \in Worker : v # w => wpc'[v] = wpc[v] /\ buffer'[v] = buffer[v]
        /\ UNCHANGED <<kpc, scanId, nextId, scanList, section, sections, outcome,
                       failed, corrupt, message, context>>
    BY <1>15 DEF HsScanBuffer, NoFlags
  <2> HIDE DEF PortInv, TypeOK, IdInv, BufferInv, ServiceInv, LifeInv, MessageInv, LentInv
  <2> QED
    BY <2>1, OthersKeepContexts
<1>16. ASSUME NEW w \in Worker, KhspFilterReplyMessage(w) PROVE LentInv'
  <2>1. /\ \A v \in Worker : v # w => wpc'[v] = wpc[v]
        /\ wpc[w] = "reply" /\ wpc'[w] \in {"get", "fault"}
        /\ UNCHANGED <<scanId, nextId, scanList, section, sections, failed, corrupt, context,
                       buffer>>
    BY <1>16 DEF KhspFilterReplyMessage
  <2>2. \A b \in Worker : b # buffer[w] => message'[b] = message[b]
    BY <1>16 DEF KhspFilterReplyMessage
  <2>3. \A v \in Worker : context[v] # None =>
          v # w /\ buffer[v] \in Worker /\ buffer[v] # buffer[w]
    BY <2>1
  <2>4. \A c \in Caller :
          \/ UNCHANGED <<kpc[c], outcome[c]>>
          \/ kpc[c] = "wait" /\ kpc'[c] = "answered"
    BY <1>16 DEF KhspFilterReplyMessage, Waiting
  <2>5. LentInv
    OBVIOUS
  <2> HIDE DEF PortInv, TypeOK, IdInv, BufferInv, BufferHasOneUser, ServiceInv, LifeInv,
        MessageInv, Carrying, Failed, Handling
  <2> QED
    BY <2>1, <2>2, <2>3, <2>4, <2>5
<1>17. CASE KhsConnect
  BY <1>17 DEF KhsConnect
<1>18. CASE HspLoadClamAV
  BY <1>18 DEF HspLoadClamAV
<1>19. CASE KhsStartFiltering
  BY <1>19 DEF KhsStartFiltering
<1>20. ASSUME NEW w \in Worker, CreateThread(w) PROVE LentInv'
  BY <1>20 DEF CreateThread
<1>21. CASE ServiceRunning
  BY <1>21 DEF ServiceRunning
<1>22. CASE KhsDisconnect
  BY <1>22 DEF KhsDisconnect, PortCloses
<1>23. CASE ForgetRoutine
  BY <1>23 DEF ForgetRoutine
<1>24. CASE HsDeleteScanner
  BY <1>24 DEF HsDeleteScanner
<1>25. CASE ServiceExits
  BY <1>25 DEF ServiceExits, PortCloses
<1>26. CASE UNCHANGED vars
  BY <1>26 DEF vars
<1>27. ASSUME NEW c \in Caller, FltSendMessageFails(c) PROVE LentInv'
  BY <1>27 DEF FltSendMessageFails, SendFails
<1>28. ASSUME NEW w \in Worker, ReceiveFails(w) PROVE LentInv'
  <2>1. /\ TypeOK /\ LentInv /\ wpc[w] \notin {"copy", "create"}
        /\ \A v \in Worker : v # w => wpc'[v] = wpc[v] /\ buffer'[v] = buffer[v]
        /\ UNCHANGED <<kpc, scanId, nextId, scanList, section, sections, outcome,
                       failed, corrupt, message, context>>
    BY <1>28 DEF ReceiveFails
  <2> HIDE DEF PortInv, TypeOK, IdInv, BufferInv, ServiceInv, LifeInv, MessageInv, LentInv
  <2> QED
    BY <2>1, OthersKeepContexts
<1> QED
  BY <1>1, <1>2, <1>3, <1>4, <1>5, <1>6, <1>7, <1>8, <1>9, <1>10, <1>11, <1>12, <1>13,
     <1>14, <1>15, <1>16, <1>17, <1>18, <1>19, <1>20, <1>21, <1>22, <1>23, <1>24, <1>25,
     <1>26, <1>27, <1>28
     DEF Next, CallerStep, WorkerStep, ControlStep

\* Nothing is lent and no message is under way before the first call.
LEMMA InitLent == Init => LifeInv /\ MessageInv /\ LentInv
<1> SUFFICES ASSUME Init PROVE LifeInv /\ MessageInv /\ LentInv
  OBVIOUS
<1>1. LifeInv
  BY ConstantsAssumption DEF Init, LifeInv, FaultIsOnGoneBuffer
<1>2. Carrying = {} /\ Len(queue) = 0
  BY DEF Init, Carrying, Handling
<1>3. MessageInv
  BY <1>2 DEF Init, MessageInv, Failed
<1>4. LentInv
  BY ConstantsAssumption DEF Init, LentInv, AnsweredScanKeepsNoSection
<1> QED
  BY <1>1, <1>3, <1>4

\* The life of the service, the way of a message and what is lent for it are
\* kept together.
THEOREM LentInvariance == Spec => [](PortInv /\ LifeInv /\ MessageInv /\ LentInv)
<1> DEFINE IInv == PortInv /\ LifeInv /\ MessageInv /\ LentInv
<1>1. IInv /\ [Next]_vars => IInv'
  BY TypeStep, IdStep, BufferStep, ServiceStep, AnswerStep, LifeStep, MessageStep, LentStep
     DEF PortInv
<1>2. Init => IInv
  BY InitInv, InitLent
<1> QED
  BY <1>1, <1>2, PTL DEF Spec

-----------------------------------------------------------------------------
(***************************************************************************)
(* The workers that wait.                                                  *)
(***************************************************************************)

Waiters == {w \in Worker : wpc[w] = "dequeue"}

Supply == posted \cup completed

\* Fewer waiters on no fewer buffers are still served.
LEMMA FewerWait ==
  ASSUME TypeOK', WaitersHaveBuffers, connected' => connected,
         Waiters' \subseteq Waiters, Supply \subseteq Supply'
  PROVE  WaitersHaveBuffers'
<1>1. IsFiniteSet(Supply') /\ IsFiniteSet(Waiters)
  <2>1. Supply' \subseteq Worker /\ Waiters \subseteq Worker
    BY DEF TypeOK, Supply, Waiters
  <2> QED
    BY <2>1, ConstantsAssumption, FS_Subset
<1>2. Cardinality(Supply) <= Cardinality(Supply') /\ Cardinality(Waiters') <= Cardinality(Waiters)
  BY <1>1, FS_Subset
<1>3. IsFiniteSet(Supply) /\ IsFiniteSet(Waiters')
  BY <1>1, FS_Subset
<1>4. /\ Cardinality(Supply) \in Nat /\ Cardinality(Supply') \in Nat
      /\ Cardinality(Waiters) \in Nat /\ Cardinality(Waiters') \in Nat
  BY <1>1, <1>3, FS_CardinalityType
<1>5. /\ WaitersHaveBuffers <=> (connected => Cardinality(Waiters) <= Cardinality(Supply))
      /\ WaitersHaveBuffers' <=> (connected' => Cardinality(Waiters') <= Cardinality(Supply'))
  BY DEF WaitersHaveBuffers, Waiters, Supply
<1> QED
  BY <1>2, <1>4, <1>5

\* A worker that posts a buffer waits for one more, a worker that takes a buffer
\* waits no longer, and so does one that is told of a failed receive.
LEMMA WaitersStep ==
  PortInv /\ TypeOK' /\ WaitersHaveBuffers /\ [Next]_vars => WaitersHaveBuffers'
<1> SUFFICES ASSUME PortInv, TypeOK', WaitersHaveBuffers, [Next]_vars
             PROVE  WaitersHaveBuffers'
  OBVIOUS
<1>0. TypeOK /\ Waiters \subseteq Worker /\ Supply \subseteq Worker
  BY DEF PortInv, TypeOK, Waiters, Supply
<1>1. IsFiniteSet(Waiters) /\ IsFiniteSet(Supply)
  BY <1>0, ConstantsAssumption, FS_Subset
<1>2. Cardinality(Waiters) \in Nat /\ Cardinality(Supply) \in Nat
  BY <1>1, FS_CardinalityType
<1>3. /\ WaitersHaveBuffers <=> (connected => Cardinality(Waiters) <= Cardinality(Supply))
      /\ WaitersHaveBuffers' <=> (connected' => Cardinality(Waiters') <= Cardinality(Supply'))
  BY DEF WaitersHaveBuffers, Waiters, Supply
<1>4. ASSUME connected' => connected, Waiters' \subseteq Waiters, Supply \subseteq Supply'
      PROVE  WaitersHaveBuffers'
  BY <1>4, FewerWait
<1>5. ASSUME NEW w \in Waiters, NEW b \in Supply, Waiters' = Waiters \ {w},
             Supply' = Supply \ {b}, UNCHANGED connected
      PROVE  WaitersHaveBuffers'
  <2>1. /\ Cardinality(Waiters') = Cardinality(Waiters) - 1
        /\ Cardinality(Supply') = Cardinality(Supply) - 1
    BY <1>1, <1>5, FS_RemoveElement
  <2> QED
    BY <1>2, <1>3, <1>5, <2>1
<1>6. ASSUME NEW w \in Worker, FilterGetMessage(w) PROVE WaitersHaveBuffers'
  <2>1. CASE /\ wpc' = [wpc EXCEPT ![w] = "dequeue"]
             /\ posted' = posted \cup {buffer[w]}
    <3>1. wpc[w] = "get" /\ UNCHANGED <<connected, completed>>
      BY <1>6 DEF FilterGetMessage
    <3>2. buffer[w] \notin Supply /\ w \notin Waiters
      BY <3>1 DEF Waiters, Supply, PortInv, BufferInv, BufferHasOneUser
    <3>3. Waiters' = Waiters \cup {w} /\ Supply' = Supply \cup {buffer[w]}
      BY <1>0, <2>1, <3>1 DEF Waiters, Supply, TypeOK
    <3>4. /\ Cardinality(Waiters') = Cardinality(Waiters) + 1
          /\ Cardinality(Supply') = Cardinality(Supply) + 1
      BY <1>1, <3>2, <3>3, FS_AddElement
    <3> QED
      BY <1>2, <1>3, <3>1, <3>4
  <2>2. CASE wpc' = [wpc EXCEPT ![w] = "exited"] /\ UNCHANGED posted
    <3>1. UNCHANGED <<connected, completed>>
      BY <1>6 DEF FilterGetMessage
    <3>2. Waiters' \subseteq Waiters /\ Supply' = Supply
      BY <1>0, <2>2, <3>1 DEF Waiters, Supply, TypeOK
    <3> QED
      BY <1>4, <3>1, <3>2
  <2> QED
    BY <1>6, <2>1, <2>2 DEF FilterGetMessage, Go
<1>7. ASSUME NEW w \in Worker, NEW b \in Worker, GetQueuedCompletionStatus(w, b)
      PROVE  WaitersHaveBuffers'
  <2>1. /\ wpc[w] = "dequeue" /\ b \in completed /\ wpc' = [wpc EXCEPT ![w] = "check"]
        /\ completed' = completed \ {b} /\ UNCHANGED <<posted, connected>>
    BY <1>7 DEF GetQueuedCompletionStatus, Go
  <2>2. w \in Waiters /\ b \in Supply /\ Waiters' = Waiters \ {w}
    BY <1>0, <2>1 DEF Waiters, Supply, TypeOK
  <2>3. Supply' = Supply \ {b}
    BY <2>1 DEF Supply, PortInv, BufferInv
  <2> QED
    BY <1>5, <2>1, <2>2, <2>3
<1>8. ASSUME NEW w \in Worker, ReceiveFails(w) PROVE WaitersHaveBuffers'
  <2>1. /\ wpc[w] = "dequeue" /\ wpc' = [wpc EXCEPT ![w] = "exited"]
        /\ UNCHANGED <<completed, connected>>
    BY <1>8 DEF ReceiveFails, Go
  <2>2. w \in Waiters /\ Waiters' = Waiters \ {w}
    BY <1>0, <2>1 DEF Waiters, TypeOK
  <2>3. CASE UNCHANGED posted
    BY <1>4, <2>1, <2>2, <2>3 DEF Supply
  <2>4. ASSUME NEW b \in posted, posted' = posted \ {b} PROVE WaitersHaveBuffers'
    <3>1. b \in Supply /\ Supply' = Supply \ {b}
      BY <2>1, <2>4 DEF Supply, PortInv, BufferInv
    <3> QED
      BY <1>5, <2>1, <2>2, <3>1
  <2> QED
    BY <1>8, <2>3, <2>4 DEF ReceiveFails
<1>9. ASSUME NEW b \in Worker, DeliverMessage(b) PROVE WaitersHaveBuffers'
  <2>1. /\ b \in posted /\ posted' = posted \ {b} /\ completed' = completed \cup {b}
        /\ UNCHANGED <<wpc, connected>>
    BY <1>9 DEF DeliverMessage
  <2>2. Supply' = Supply /\ Waiters' = Waiters
    BY <2>1 DEF Supply, Waiters
  <2> QED
    BY <1>4, <2>1, <2>2
<1>10. ASSUME NEW w \in Worker, CommandStep(w) PROVE WaitersHaveBuffers'
  <2>1. /\ \A v \in Worker : wpc'[v] = "dequeue" <=> wpc[v] = "dequeue"
        /\ UNCHANGED <<connected, posted, completed>>
    BY <1>0, <1>10, CommandMoves DEF port
  <2>2. Supply' = Supply /\ Waiters' = Waiters
    BY <2>1 DEF Supply, Waiters
  <2> QED
    BY <1>4, <2>1, <2>2
<1>11. ASSUME NEW w \in Worker, WorkerReturns(w) \/ KhspFilterReplyMessage(w) \/ CreateThread(w)
       PROVE  WaitersHaveBuffers'
  <2>1. UNCHANGED <<connected, posted, completed>>
    BY <1>11 DEF WorkerReturns, KhspFilterReplyMessage, CreateThread, port
  <2>2. \E to \in {"exited", "fault", "get"} : wpc' = [wpc EXCEPT ![w] = to]
    BY <1>11 DEF WorkerReturns, KhspFilterReplyMessage, CreateThread, Go
  <2>3. Supply' = Supply /\ Waiters' \subseteq Waiters
    BY <1>0, <2>1, <2>2 DEF Supply, Waiters, TypeOK
  <2> QED
    BY <1>4, <2>1, <2>3
<1>12. CASE KhsConnect
  <2>1. svc = "down" /\ UNCHANGED <<wpc, posted, completed>>
    BY <1>12 DEF KhsConnect, worker
  <2>2. Waiters = {} /\ Waiters' = {}
    BY <2>1 DEF Waiters, PortInv, ServiceInv
  <2>3. Supply' = Supply
    BY <2>1 DEF Supply
  <2>4. Cardinality({}) = 0
    BY FS_EmptySet
  <2> QED
    BY <1>2, <1>3, <2>2, <2>3, <2>4
<1>13. CASE KhsDisconnect \/ ServiceExits
  BY <1>3, <1>13 DEF KhsDisconnect, ServiceExits, PortCloses
<1>14. CASE ForgetRoutine
  BY <1>3, <1>14 DEF ForgetRoutine, PortInv, ServiceInv
<1>15. CASE UNCHANGED <<connected, posted, completed, wpc>>
  <2>1. Supply' = Supply /\ Waiters' = Waiters
    BY <1>15 DEF Supply, Waiters
  <2> QED
    BY <1>4, <1>15, <2>1
<1>16. ASSUME NEW c \in Caller,
              \/ \E f \in File : HsFilterScanFile(c, f)
              \/ CallerStep(c)
              \/ FltSendMessageFails(c)
       PROVE  UNCHANGED <<connected, posted, completed, wpc>>
  BY <1>16 DEF HsFilterScanFile, CallerStep, FltSendMessage, FltSendMessageFails, ScanAnswered,
    RemoveScanContext, port, worker
<1>17. CASE HspLoadClamAV \/ KhsStartFiltering \/ ServiceRunning \/ HsDeleteScanner
  <2>1. UNCHANGED <<connected, posted, completed, wpc>>
    BY <1>17 DEF HspLoadClamAV, KhsStartFiltering, ServiceRunning, HsDeleteScanner, port, worker
  <2> QED
    BY <1>15, <2>1
<1>18. CASE UNCHANGED vars
  BY <1>15, <1>18 DEF vars
<1> QED
  BY <1>6, <1>7, <1>8, <1>9, <1>10, <1>11, <1>12, <1>13, <1>14, <1>15, <1>16, <1>17, <1>18
     DEF Next, WorkerStep, ControlStep, CommandStep

\* While the port is open no sleeping worker is left without a buffer that can
\* wake it, whichever receives fail and whichever workers leave, and no worker
\* faults on anything but a buffer whose worker has left: not on the routine it
\* is about to call, nor on the scanner.
THEOREM WorkersCanBeWoken == Spec => []WorkersAreServed
<1>1. Init => WaitersHaveBuffers
  BY DEF Init, WaitersHaveBuffers
<1>2. PortInv /\ WaitersHaveBuffers /\ [Next]_vars => WaitersHaveBuffers'
  BY TypeStep, WaitersStep DEF PortInv
<1>3. Spec => []WaitersHaveBuffers
  BY <1>1, <1>2, Invariance, PTL DEF Spec
<1>4. LifeInv /\ WaitersHaveBuffers => WorkersAreServed
  BY DEF LifeInv, WorkersAreServed
<1> QED
  BY <1>3, <1>4, LentInvariance, PTL

\* Unless its FltSendMessage has failed, the context a command works on is that
\* of its own scan and is still in the list; the driver is never corrupt before
\* a send has failed; and an answered scan leaves no section behind: for any
\* number of scans and workers, and whenever the port is closed.
THEOREM ContextsAreKept == Spec => []ScanOwnsItsContext
<1>1. PortInv /\ MessageInv /\ LentInv => ScanOwnsItsContext
  <2> SUFFICES ASSUME PortInv, MessageInv, LentInv PROVE ScanOwnsItsContext
    OBVIOUS
  <2>1. ASSUME NEW w \in Worker, context[w] # None, message[buffer[w]] \notin failed
        PROVE  ContextIsThere(w)
    BY <2>1, GoneMeansFailed
  <2> QED
    BY <2>1 DEF ScanOwnsItsContext, ContextInUseIsListed, LentInv
<1> QED
  BY <1>1, LentInvariance, PTL

-----------------------------------------------------------------------------
(***************************************************************************)
(* The refinement.                                                         *)
(***************************************************************************)

\* A caller that moves on, and no other, changes the phase of its call.
LEMMA PhaseMoves ==
  ASSUME TypeOK, NEW c \in Caller, NEW to, kpc' = [kpc EXCEPT ![c] = to]
  PROVE  Phase' = [Phase EXCEPT ![c] = PhaseOf(to)]
<1>1. kpc'[c] = to /\ \A d \in Caller : d # c => kpc'[d] = kpc[d]
  BY DEF TypeOK
<1>2. Phase' = [d \in Caller |-> PhaseOf(kpc'[d])]
  BY DEF Phase
<1>3. Phase \in [Caller -> {Phase[d] : d \in Caller}]
  BY DEF Phase
<1>4. \A d \in Caller : Phase'[d] = IF d = c THEN PhaseOf(to) ELSE Phase[d]
  <2>1. Phase'[c] = PhaseOf(to)
    BY <1>1, <1>2
  <2>2. ASSUME NEW d \in Caller, d # c PROVE Phase'[d] = Phase[d]
    <3>1. kpc'[d] = kpc[d]
      BY <1>1, <2>2
    <3> QED
      BY <1>2, <3>1 DEF Phase
  <2> QED
    BY <2>1, <2>2
<1> QED
  BY <1>2, <1>3, <1>4

\* What a caller does not see is a stuttering step of its call.
LEMMA CallStutters ==
  ASSUME UNCHANGED <<kpc, file, outcome>>
  PROVE  UNCHANGED Call!vars
  BY DEF Call!vars, Phase

\* When the port is closed the calls that wait fail together.
LEMMA PortClosesForCalls ==
  ASSUME TypeOK, PortCloses, UNCHANGED file
  PROVE  Call!Next
<1> DEFINE calls == {c \in Caller : kpc[c] = "wait"}
<1>1. \A c \in calls : Phase[c] = "asked"
  BY DEF Phase, PhaseOf
<1>2. Phase' = [c \in Caller |-> IF c \in calls THEN "done" ELSE Phase[c]]
  <2>1. \A c \in Caller : kpc'[c] = IF c \in calls THEN "remove" ELSE kpc[c]
    BY DEF PortCloses
  <2>2. \A c \in Caller :
          PhaseOf(kpc'[c]) = IF c \in calls THEN "done" ELSE PhaseOf(kpc[c])
    <3>1. ASSUME NEW c \in calls PROVE PhaseOf(kpc'[c]) = "done"
      <4>1. kpc'[c] = "remove"
        BY <2>1, <3>1
      <4> QED
        BY <4>1 DEF PhaseOf
    <3>2. ASSUME NEW c \in Caller, c \notin calls PROVE kpc'[c] = kpc[c]
      BY <2>1, <3>2
    <3> HIDE DEF calls
    <3> QED
      BY <3>1, <3>2
  <2> QED
    BY <2>2 DEF Phase
<1>3. outcome' = [c \in Caller |-> IF c \in calls THEN "failed" ELSE outcome[c]]
  BY DEF PortCloses
<1>4. calls \in SUBSET Caller
  OBVIOUS
<1>5. Call!Disconnect(calls)
  BY <1>1, <1>2, <1>3 DEF Call!Disconnect
<1> HIDE DEF calls
<1> QED
  BY <1>4, <1>5 DEF Call!Next

\* A reply wakes the caller that waits for it, with an answer about its file.
LEMMA ReplySettlesCall ==
  ASSUME PortInv, NEW w \in Worker, KhspFilterReplyMessage(w)
  PROVE  Call!Next \/ UNCHANGED Call!vars
<1>0. CASE Gone(buffer[w])
  <2>1. UNCHANGED <<kpc, file, outcome>>
    BY <1>0 DEF KhspFilterReplyMessage
  <2> QED
    BY <2>1, CallStutters
<1> SUFFICES ASSUME ~Gone(buffer[w]) PROVE Call!Next \/ UNCHANGED Call!vars
  BY <1>0
<1> DEFINE awake == IF connected THEN Waiting(message[buffer[w]]) ELSE {}
<1>1. /\ kpc' = [c \in Caller |-> IF c \in awake THEN "answered" ELSE kpc[c]]
      /\ outcome' = [c \in Caller |-> IF c \in awake THEN response[w] ELSE outcome[c]]
      /\ UNCHANGED file
      /\ wpc[w] = "reply"
  BY DEF KhspFilterReplyMessage
<1>2. CASE awake = {}
  <2>1. UNCHANGED <<kpc, outcome>>
    BY <1>1, <1>2 DEF PortInv, TypeOK
  <2> QED
    BY <1>1, <2>1, CallStutters
<1>3. ASSUME NEW c \in awake PROVE Call!Next
  <2>1. connected /\ c \in Caller /\ kpc[c] = "wait" /\ scanId[c] = message[buffer[w]]
    BY <1>3 DEF Waiting
  <2>2. awake = {c}
    <3>1. message[buffer[w]] # 0
      BY <1>1 DEF PortInv, IdInv, Handling
    <3>2. \A d \in awake : d \in Caller /\ scanId[d] = message[buffer[w]]
      BY DEF Waiting
    <3> QED
      BY <1>3, <2>1, <3>1, <3>2 DEF PortInv, IdInv
  <2> HIDE DEF awake
  <2>3. kpc' = [kpc EXCEPT ![c] = "answered"]
    BY <1>1, <2>1, <2>2 DEF PortInv, TypeOK
  <2>4. outcome' = [outcome EXCEPT ![c] = response[w]]
    BY <1>1, <2>1, <2>2 DEF PortInv, TypeOK
  <2>5. Phase[c] = "asked" /\ Phase' = [Phase EXCEPT ![c] = "done"]
    BY <2>1, <2>3, PhaseMoves DEF PortInv, Phase, PhaseOf
  <2>6. response[w] \in Call!Outcome(file[c])
    <3>1. response[w] \in {"clean", "infected"}
      BY DEF PortInv, TypeOK
    <3>2. response[w] = "infected" => file[c] \in Infected
      BY <1>1, <2>1 DEF PortInv, AnswerInv
    <3> QED
      BY <3>1, <3>2 DEF Call!Outcome
  <2>7. Call!Settle(c)
    BY <1>1, <2>4, <2>5, <2>6 DEF Call!Settle
  <2> QED
    BY <2>1, <2>7 DEF Call!Next
<1> QED
  BY <1>2, <1>3

\* A failed send settles its call.
LEMMA FailureSettlesCall ==
  ASSUME TypeOK, NEW c \in Caller, SendFails(c), Phase[c] = "asked", UNCHANGED file
  PROVE  Call!Next
<1>1. Phase' = [Phase EXCEPT ![c] = "done"]
  BY PhaseMoves DEF SendFails, PhaseOf
<1>2. Call!Settle(c)
  BY <1>1 DEF SendFails, Call!Settle, Call!Outcome
<1> QED
  BY <1>2 DEF Call!Next

\* Every step of the port is a step of the calls or hidden from them.
LEMMA RefinementStep ==
  PortInv /\ [Next]_vars => [Call!Next]_(Call!vars)
<1> SUFFICES ASSUME PortInv, [Next]_vars PROVE Call!Next \/ UNCHANGED Call!vars
  OBVIOUS
<1>0. TypeOK
  BY DEF PortInv
<1>1. ASSUME NEW c \in Caller, NEW f \in File, HsFilterScanFile(c, f)
      PROVE  Call!Next
  <2>1. Phase[c] = "idle" /\ Phase' = [Phase EXCEPT ![c] = "asked"]
    BY <1>0, <1>1, PhaseMoves DEF HsFilterScanFile, Phase, PhaseOf
  <2>2. Call!Ask(c, f)
    BY <1>1, <2>1 DEF HsFilterScanFile, Call!Ask
  <2> QED
    BY <2>2 DEF Call!Next
<1>2. ASSUME NEW c \in Caller, FltSendMessage(c)
      PROVE  Call!Next \/ UNCHANGED Call!vars
  <2>1. Phase[c] = "asked"
    BY <1>2 DEF FltSendMessage, SendFails, Phase, PhaseOf
  <2>2. CASE kpc' = [kpc EXCEPT ![c] = "wait"] /\ UNCHANGED outcome
    <3>1. Phase' = [Phase EXCEPT ![c] = "asked"]
      BY <1>0, <2>2, PhaseMoves DEF PhaseOf
    <3>2. Phase' = Phase
      BY <2>1, <3>1 DEF Phase
    <3> QED
      BY <1>2, <2>2, <3>2 DEF FltSendMessage, SendFails, Call!vars
  <2>3. CASE SendFails(c)
    BY <1>0, <1>2, <2>1, <2>3, FailureSettlesCall DEF FltSendMessage
  <2> QED
    BY <1>2, <2>2, <2>3 DEF FltSendMessage
<1>3. ASSUME NEW c \in Caller, ScanAnswered(c) PROVE UNCHANGED Call!vars
  <2>1. Phase[c] = "done" /\ Phase' = [Phase EXCEPT ![c] = "done"]
    BY <1>0, <1>3, PhaseMoves DEF ScanAnswered, Phase, PhaseOf
  <2>2. Phase' = Phase
    BY <2>1 DEF Phase
  <2> QED
    BY <1>3, <2>2 DEF ScanAnswered, Call!vars
<1>4. ASSUME NEW c \in Caller, RemoveScanContext(c) PROVE Call!Next
  <2>1. Phase[c] = "done" /\ Phase' = [Phase EXCEPT ![c] = "idle"]
    BY <1>0, <1>4, PhaseMoves DEF RemoveScanContext, Phase, PhaseOf
  <2>2. Call!Return(c)
    BY <1>4, <2>1 DEF RemoveScanContext, Call!Return
  <2> QED
    BY <2>2 DEF Call!Next
<1>5. ASSUME NEW b \in Worker, DeliverMessage(b) PROVE UNCHANGED Call!vars
  BY <1>5, CallStutters DEF DeliverMessage, driver
<1>6. ASSUME NEW w \in Worker,
             \/ FilterGetMessage(w)
             \/ \E b \in Worker : GetQueuedCompletionStatus(w, b)
             \/ WorkerReturns(w)
             \/ KhspHandleScanPeOpen(w)
             \/ KhspQueryFileName(w)
             \/ QueryFileName(w)
             \/ ScanRoutine(w)
             \/ KhspCreateSectionForDataScan(w)
             \/ CreateSection(w)
             \/ HsScanBuffer(w)
      PROVE  UNCHANGED Call!vars
  <2>1. UNCHANGED <<kpc, file, outcome>>
    BY <1>6 DEF FilterGetMessage, GetQueuedCompletionStatus, WorkerReturns,
      KhspHandleScanPeOpen, KhspQueryFileName, KhspCreateSectionForDataScan,
      HspGetScanContextSynchronized, QueryFileName, ScanRoutine, CreateSection,
      HsScanBuffer, driver
  <2> QED
    BY <2>1, CallStutters
<1>7. ASSUME NEW w \in Worker, KhspFilterReplyMessage(w)
      PROVE  Call!Next \/ UNCHANGED Call!vars
  BY <1>7, ReplySettlesCall
<1>8. CASE KhsConnect \/ ControlStep
  <2>1. UNCHANGED <<kpc, file, outcome>>
    BY <1>8 DEF KhsConnect, ControlStep, HspLoadClamAV, KhsStartFiltering,
      CreateThread, ServiceRunning, ForgetRoutine, HsDeleteScanner, driver
  <2> QED
    BY <2>1, CallStutters
<1>9. CASE KhsDisconnect
  BY <1>0, <1>9, PortClosesForCalls DEF KhsDisconnect
<1>10. CASE ServiceExits
  BY <1>0, <1>10, PortClosesForCalls DEF ServiceExits
<1>11. CASE UNCHANGED vars
  BY <1>11, CallStutters DEF vars
<1>12. ASSUME NEW c \in Caller, FltSendMessageFails(c) PROVE Call!Next
  <2>1. Phase[c] = "asked" /\ SendFails(c) /\ UNCHANGED file
    BY <1>12 DEF FltSendMessageFails, Phase, PhaseOf
  <2> QED
    BY <1>0, <2>1, FailureSettlesCall
<1>13. ASSUME NEW w \in Worker, ReceiveFails(w) PROVE UNCHANGED Call!vars
  BY <1>13, CallStutters DEF ReceiveFails, driver
<1> QED
  BY <1>1, <1>2, <1>3, <1>4, <1>5, <1>6, <1>7, <1>8, <1>9, <1>10, <1>11,
     <1>12, <1>13
     DEF Next, CallerStep, WorkerStep

\* HsFilterScanFile keeps the promise of ScanCall: every call has one outcome,
\* about the file of that very call, however many callers and workers share
\* the port and whenever the service stops, crashes and comes back.
THEOREM PortImplementsCalls == Spec => CallSpec
<1>1. Init => Call!Init
  BY DEF Init, Call!Init, Phase, PhaseOf
<1> QED
  BY <1>1, RefinementStep, Invariance, PTL DEF Spec, CallSpec, Call!Spec

=============================================================================
