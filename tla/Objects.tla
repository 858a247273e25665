-------------------------------- MODULE Objects ---------------------------------
(***************************************************************************)
(* The object manager of the support library (phlib/ref.c): reference      *)
(* counts, deletion at once or in a worker thread, auto-dereference pools, *)
(* and the free list that storage comes from (phlib/basesup.c).            *)
(*                                                                         *)
(* An object is named after its block of storage, so a block that is used  *)
(* again is an object again.  The client is the one PhReferenceObjectSafe  *)
(* is documented for: a table of pointers without references, protected by *)
(* a mutex that the delete procedure takes to remove its object.           *)
(***************************************************************************)
EXTENDS Integers, Sequences, FiniteSets

CONSTANTS
  Object,         \* blocks of storage
  Listed,         \* objects that may be in the client's table
  Deferrable,     \* objects that may be deleted in a worker thread
  Thread,         \* threads of the client
  Deleter,        \* threads of the global work queue
  MaximumCount,   \* FreeList->MaximumCount
  MaxReferences,  \* bound on RefCount
  MaxPools,       \* bound on the pools of a thread
  MaxItems,       \* no deletion is deferred while so many work items are queued
  None            \* NULL

ASSUME ObjectsAssumption ==
  /\ Listed \subseteq Object /\ Deferrable \subseteq Object
  /\ MaximumCount \in Nat /\ MaxReferences \in Nat \ {0} /\ MaxPools \in Nat
  /\ MaxItems \in Nat
  /\ None \notin Object
  /\ Thread \cap Deleter = {}

Actor == Thread \cup Deleter

VARIABLES
  refCount,    \* RefCount of an object
  number,      \* ObjectType->NumberOfObjects
  table,       \* the client's table
  held,        \* references a thread has to an object
  pools,       \* the auto-dereference pools of a thread, the current one last
  closing,     \* threads inside PhDeleteAutoPool
  freeList,    \* FreeList->ListHead
  count,       \* FreeList->Count
  deferList,   \* PhObjectDeferDeleteListHead, the newest first
  pending,     \* queued work items: PhpDeferDeleteObjectRoutine
  batch,       \* what a routine has flushed from the list
  pc,          \* where an actor is
  object,      \* the object it works on
  sawEmpty,    \* threads for which oldFirstEntry is NULL
  missed,      \* an object was pushed on an empty list without a work item
  corrupt      \* a link of the to-free list was counted up as if it were RefCount

vars == <<refCount, number, table, held, pools, closing, freeList, count,
          deferList, pending, batch, pc, object, sawEmpty, missed, corrupt>>

references == <<refCount, held, pools, closing>>
storage    == <<freeList, count>>
deferral   == <<deferList, pending, batch, sawEmpty, missed>>

Elements(s) == {s[k] : k \in 1 .. Len(s)}

Work(a, place, o) ==
  /\ pc' = [pc EXCEPT ![a] = place]
  /\ object' = [object EXCEPT ![a] = o]

\* Blocks that are allocated: objects, and blocks on their way to or from the
\* free list.
InUse == {o \in Object : refCount[o] > 0} \cup Elements(deferList)
           \cup (UNION {Elements(batch[d]) : d \in Deleter})
           \cup {object[a] : a \in {b \in Actor : pc[b] \notin {"idle", "next", "increment"}}}

-----------------------------------------------------------------------------
(***************************************************************************)
(* PhCreateObject and the free list.                                       *)
(***************************************************************************)

\* PhAllocateFromFreeList pops a block, or takes a new one from the heap.
PhAllocateFromFreeList(t, o) ==
  /\ pc[t] = "idle"
  /\ \/ /\ freeList # << >> /\ o = Head(freeList)
        /\ freeList' = Tail(freeList)
        /\ Work(t, "decrement", o)
     \/ /\ freeList = << >> /\ o \notin InUse
        /\ Work(t, "create", o)
        /\ UNCHANGED freeList
  /\ UNCHANGED <<count, references, deferral, number, table>>

\* Count is decremented after the pop.
DecrementCount(t) ==
  /\ pc[t] = "decrement"
  /\ count' = count - 1
  /\ Work(t, "create", object[t])
  /\ UNCHANGED <<freeList, references, deferral, number, table>>

\* The rest of PhCreateObject.  The client may put the object into its table.
PhCreateObject(t) ==
  /\ pc[t] = "create"
  /\ number' = number + 1
  /\ refCount' = [refCount EXCEPT ![object[t]] = 1]
  /\ held' = [held EXCEPT ![t][object[t]] = 1]
  /\ table' = table \cup ({object[t]} \cap Listed)
  /\ Work(t, "idle", None)
  /\ UNCHANGED <<pools, closing, storage, deferral>>

-----------------------------------------------------------------------------
(***************************************************************************)
(* References.                                                             *)
(***************************************************************************)

\* A thread takes another reference, and hands it to any thread.
PhReferenceObject(t, o) ==
  /\ pc[t] = "idle" /\ held[t][o] > 0 /\ refCount[o] < MaxReferences
  /\ refCount' = [refCount EXCEPT ![o] = @ + 1]
  /\ \E u \in Thread : held' = [held EXCEPT ![u][o] = @ + 1]
  /\ UNCHANGED <<pools, closing, storage, deferral, number, table, pc, object>>

\* Mutant: the count is incremented whatever it is.
PhReferenceObjectSafe_plain(t, o) ==
  /\ pc[t] = "idle" /\ o \in table /\ refCount[o] < MaxReferences
  /\ refCount' = [refCount EXCEPT ![o] = @ + 1]
  /\ held' = [held EXCEPT ![t][o] = @ + 1]
  /\ UNCHANGED <<pools, closing, storage, deferral, number, table, pc, object>>

\* A lookup in the table, with the mutex held; an object whose count is 0 is
\* being destroyed, and nothing happens.
PhReferenceObjectSafe(t, o) ==
  /\ pc[t] = "idle" /\ o \in table /\ refCount[o] < MaxReferences
  /\ refCount[o] # 0
  /\ refCount' = [refCount EXCEPT ![o] = @ + 1]
  /\ held' = [held EXCEPT ![t][o] = @ + 1]
  /\ UNCHANGED <<pools, closing, storage, deferral, number, table, pc, object>>

\* RefCount and DeferDeleteListEntry.Next share their storage.  An object that
\* waits for its deletion has a link there, which is NULL, a count of 0, only at
\* the end of a list; the routine has read the link of the object it deletes.
Linked(o) ==
  \/ \E s \in {deferList} \cup {batch[d] : d \in Deleter} :
       \E k \in 1 .. Len(s) - 1 : s[k] = o
  \/ \E d \in Deleter : pc[d] = "delete" /\ object[d] = o /\ batch[d] # << >>

\* PhReferenceObjectSafe takes a link for a count: it succeeds on an object that
\* is being destroyed, and the link points elsewhere.
PhReferenceObjectSafeOfLink(t, o) ==
  /\ ~corrupt
  /\ pc[t] = "idle" /\ o \in table /\ Linked(o)
  /\ corrupt' = TRUE
  /\ UNCHANGED <<references, storage, deferral, number, table, pc, object>>

\* A reference is given up; the last one leads to "place".
Dereferenced(a, o, place) ==
  /\ refCount' = [refCount EXCEPT ![o] = @ - 1]
  /\ IF refCount[o] = 1 THEN Work(a, place, o) ELSE UNCHANGED <<pc, object>>

\* Mutant: the count is decremented, and read again to see whether it is 0.
PhDereferenceObject_reread(t, o) ==
  \/ /\ pc[t] = "idle" /\ held[t][o] > 0
     /\ held' = [held EXCEPT ![t][o] = @ - 1]
     /\ refCount' = [refCount EXCEPT ![o] = @ - 1]
     /\ Work(t, "reread", o)
     /\ UNCHANGED <<pools, closing, storage, deferral, number, table>>
  \/ /\ pc[t] = "reread" /\ o = object[t]
     /\ IF refCount[o] = 0 THEN Work(t, "delete", o) ELSE Work(t, "idle", None)
     /\ UNCHANGED <<references, storage, deferral, number, table>>

PhDereferenceObject(t, o) ==
  /\ pc[t] = "idle" /\ held[t][o] > 0
  /\ held' = [held EXCEPT ![t][o] = @ - 1]
  /\ Dereferenced(t, o, "delete")
  /\ UNCHANGED <<pools, closing, storage, deferral, number, table>>

PhDereferenceObjectDeferDelete(t, o) ==
  /\ pc[t] = "idle" /\ o \in Deferrable /\ held[t][o] > 0 /\ pending < MaxItems
  /\ held' = [held EXCEPT ![t][o] = @ - 1]
  /\ Dereferenced(t, o, "peek")
  /\ UNCHANGED <<pools, closing, storage, deferral, number, table>>

-----------------------------------------------------------------------------
(***************************************************************************)
(* Auto-dereference pools.                                                 *)
(***************************************************************************)

PhInitializeAutoPool(t) ==
  /\ pc[t] = "idle" /\ Len(pools[t]) < MaxPools
  /\ pools' = [pools EXCEPT ![t] = Append(@, << >>)]
  /\ UNCHANGED <<refCount, held, closing, storage, deferral, number, table, pc, object>>

\* The reference moves to the current pool.
PhAutoDereferenceObject(t, o) ==
  LET current == Len(pools[t]) IN
  /\ pc[t] = "idle" /\ held[t][o] > 0 /\ current > 0
  /\ held' = [held EXCEPT ![t][o] = @ - 1]
  /\ pools' = [pools EXCEPT ![t][current] = Append(@, o)]
  /\ UNCHANGED <<refCount, closing, storage, deferral, number, table, pc, object>>

PhDeleteAutoPool(t) ==
  /\ pc[t] = "idle" /\ pools[t] # << >>
  /\ closing' = closing \cup {t}
  /\ Work(t, "next", None)
  /\ UNCHANGED <<refCount, held, pools, storage, deferral, number, table>>

\* PhDrainAutoPool dereferences one object after the other; then the pool is
\* taken off the stack.
PhDrainAutoPool(t) ==
  LET current == Len(pools[t])
      pool    == pools[t][current] IN
  /\ pc[t] = "next" /\ t \in closing
  /\ IF pool # << >>
       THEN /\ pools' = [pools EXCEPT ![t][current] = Tail(pool)]
            /\ Dereferenced(t, Head(pool), "delete")
            /\ UNCHANGED closing
       ELSE /\ pools' = [pools EXCEPT ![t] = SubSeq(@, 1, current - 1)]
            /\ closing' = closing \ {t}
            /\ Work(t, "idle", None)
            /\ UNCHANGED refCount
  /\ UNCHANGED <<held, storage, deferral, number, table>>

-----------------------------------------------------------------------------
(***************************************************************************)
(* PhpFreeObject.                                                          *)
(***************************************************************************)

\* The delete procedure takes the client's mutex.
DeleteProcedure(a) ==
  /\ pc[a] = "delete"
  /\ number' = number - 1
  /\ table' = table \ {object[a]}
  /\ Work(a, "store", object[a])
  /\ UNCHANGED <<references, storage, deferral>>

\* Where an actor goes when an object is freed.
Resume(a) == IF a \in Deleter \cup closing THEN "next" ELSE "idle"

\* PhFreeToFreeList looks at Count: the block is kept or given back to the heap.
\* Count is a ULONG: below 0 it is a large number.
PhFreeToFreeList(a) ==
  /\ pc[a] = "store"
  /\ IF count \in 0 .. MaximumCount - 1
       THEN Work(a, "keep", object[a])
       ELSE Work(a, Resume(a), None)
  /\ UNCHANGED <<storage, references, deferral, number, table>>

\* A block that is kept is pushed, whatever others have pushed since the look,
PushFree(a) ==
  /\ pc[a] = "keep"
  /\ freeList' = <<object[a]>> \o freeList
  /\ Work(a, "increment", object[a])
  /\ UNCHANGED <<count, references, deferral, number, table>>

\* Mutant: Count is not kept.
IncrementCount_missing(a) ==
  /\ pc[a] = "increment"
  /\ Work(a, Resume(a), None)
  /\ UNCHANGED <<storage, references, deferral, number, table>>

\* and counted.
IncrementCount(a) ==
  /\ pc[a] = "increment"
  /\ count' = count + 1
  /\ Work(a, Resume(a), None)
  /\ UNCHANGED <<freeList, references, deferral, number, table>>

-----------------------------------------------------------------------------
(***************************************************************************)
(* Deferred deletion.                                                      *)
(***************************************************************************)

\* PhpDeferDeleteObject looks at the list,
PhpDeferDeleteObject(t) ==
  /\ pc[t] = "peek"
  /\ sawEmpty' = IF deferList = << >> THEN sawEmpty \cup {t} ELSE sawEmpty \ {t}
  /\ Work(t, "push", object[t])
  /\ UNCHANGED <<references, storage, number, table, deferList, pending, batch, missed>>

\* and pushes the object.
PushDeferred(t) ==
  /\ pc[t] = "push"
  /\ deferList' = <<object[t]>> \o deferList
  /\ missed' = (missed \/ (deferList = << >> /\ t \notin sawEmpty))
  /\ Work(t, IF t \in sawEmpty THEN "queue" ELSE "idle", None)
  /\ UNCHANGED <<references, storage, number, table, pending, batch, sawEmpty>>

\* "Was the to-free list empty before? If so, we need to queue a work item."
QueueRoutine(t) ==
  /\ pc[t] = "queue"
  /\ pending' = pending + 1
  /\ Work(t, "idle", None)
  /\ UNCHANGED <<references, storage, number, table, deferList, batch, sawEmpty, missed>>

\* Mutant: the routine leaves the list as it is.
PhpDeferDeleteObjectRoutine_reads(d) ==
  /\ pc[d] = "idle" /\ pending > 0
  /\ pending' = pending - 1
  /\ batch' = [batch EXCEPT ![d] = deferList]
  /\ Work(d, "next", None)
  /\ UNCHANGED <<references, storage, number, table, deferList, sawEmpty, missed>>

\* A thread of the work queue runs PhpDeferDeleteObjectRoutine, which flushes
\* the list,
PhpDeferDeleteObjectRoutine(d) ==
  /\ pc[d] = "idle" /\ pending > 0
  /\ pending' = pending - 1
  /\ batch' = [batch EXCEPT ![d] = deferList]
  /\ deferList' = << >>
  /\ Work(d, "next", None)
  /\ UNCHANGED <<references, storage, number, table, sawEmpty, missed>>

\* and frees its objects.
NextDeferred(d) ==
  /\ pc[d] = "next" /\ d \in Deleter
  /\ IF batch[d] # << >>
       THEN /\ Work(d, "delete", Head(batch[d]))
            /\ batch' = [batch EXCEPT ![d] = Tail(@)]
       ELSE Work(d, "idle", None) /\ UNCHANGED batch
  /\ UNCHANGED <<references, storage, number, table, deferList, pending, sawEmpty, missed>>

-----------------------------------------------------------------------------
Init ==
  /\ refCount = [o \in Object |-> 0] /\ number = 0
  /\ table = {}
  /\ held = [t \in Thread |-> [o \in Object |-> 0]]
  /\ pools = [t \in Thread |-> << >>] /\ closing = {}
  /\ freeList = << >> /\ count = 0
  /\ deferList = << >> /\ pending = 0
  /\ batch = [d \in Deleter |-> << >>]
  /\ pc = [a \in Actor |-> "idle"]
  /\ object = [a \in Actor |-> None]
  /\ sawEmpty = {} /\ missed = FALSE /\ corrupt = FALSE

\* Nothing is known of what the program does with a corrupt list.
Intact == ~corrupt /\ UNCHANGED corrupt

\* What a client may call.
ClientCall(t) ==
  /\ Intact
  /\ \/ PhInitializeAutoPool(t)
     \/ PhDeleteAutoPool(t)
     \/ \E o \in Object :
          \/ PhAllocateFromFreeList(t, o)
          \/ PhReferenceObject(t, o)
          \/ PhReferenceObjectSafe(t, o)
          \/ PhDereferenceObject(t, o)
          \/ PhDereferenceObjectDeferDelete(t, o)
          \/ PhAutoDereferenceObject(t, o)

\* The steps inside the calls.
ThreadStep(t) ==
  /\ Intact
  /\ \/ DecrementCount(t)
     \/ PhCreateObject(t)
     \/ PhDrainAutoPool(t)
     \/ PhpDeferDeleteObject(t)
     \/ PushDeferred(t)
     \/ QueueRoutine(t)

FreeStep(a) ==
  /\ Intact
  /\ \/ DeleteProcedure(a)
     \/ PhFreeToFreeList(a)
     \/ PushFree(a)
     \/ IncrementCount(a)

DeleterStep(d) ==
  /\ Intact
  /\ \/ PhpDeferDeleteObjectRoutine(d)
     \/ NextDeferred(d)

Next ==
  \/ \E t \in Thread : ClientCall(t) \/ ThreadStep(t)
  \/ \E a \in Actor : FreeStep(a)
  \/ \E d \in Deleter : DeleterStep(d)
  \/ \E t \in Thread, o \in Object : PhReferenceObjectSafeOfLink(t, o)

Spec == Init /\ [][Next]_vars

\* A call that has begun goes on, and the work queue runs its items.
Fairness ==
  /\ \A t \in Thread : WF_vars(ThreadStep(t) \/ FreeStep(t))
  /\ \A d \in Deleter : WF_vars(DeleterStep(d) \/ FreeStep(d))

FairSpec == Spec /\ Fairness

-----------------------------------------------------------------------------
(***************************************************************************)
(* Properties.                                                             *)
(***************************************************************************)

\* The types of the state.
TypeOK ==
  /\ refCount \in [Object -> 0 .. MaxReferences] /\ number \in Nat
  /\ table \subseteq Listed
  /\ held \in [Thread -> [Object -> Nat]]
  /\ pools \in [Thread -> Seq(Seq(Object))] /\ closing \subseteq Thread
  /\ freeList \in Seq(Object) /\ count \in Int
  /\ deferList \in Seq(Object) /\ pending \in Nat
  /\ batch \in [Deleter -> Seq(Object)]
  /\ pc \in [Actor -> {"idle", "decrement", "create", "delete", "store", "keep",
                       "increment", "next", "peek", "push", "queue"}]
  /\ object \in [Actor -> Object \cup {None}]
  /\ sawEmpty \subseteq Thread /\ missed \in BOOLEAN /\ corrupt \in BOOLEAN

\* The references to an object, h those that threads have and ps those in their
\* pools: <<t, 0, k>> is one of thread t itself, <<t, p, k>> entry k of its pool p.
Uses(h, ps, o) ==
  (UNION {{<<t, 0, k>> : k \in 1 .. h[t][o]} : t \in Thread}) \cup
  (UNION {UNION {{<<t, p, k>> : k \in {j \in 1 .. Len(ps[t][p]) : ps[t][p][j] = o}} :
                   p \in 1 .. Len(ps[t])} : t \in Thread})

\* An object some thread may still use, through a reference of its own or one
\* in a pool, is not on its way to the free list: no actor deletes it, it does
\* not wait for its deletion, and its storage is not free.
ReferencedObjectIsAlive ==
  \A o \in Object :
    Uses(held, pools, o) # {} =>
      /\ o \notin Elements(freeList) \cup Elements(deferList)
      /\ \A d \in Deleter : o \notin Elements(batch[d])
      /\ \A a \in Actor : object[a] = o =>
           pc[a] \notin {"decrement", "create", "delete", "store", "keep", "peek", "push"}

\* Every reference is counted: the count of an object is the number of those the
\* threads and their pools have.
ReferencesAreCounted ==
  \A o \in Object : refCount[o] = Cardinality(Uses(held, pools, o))

\* The objects that exist: those with references and those that a thread or a
\* routine is about to delete.
Existing ==
  {o \in Object : refCount[o] > 0} \cup Elements(deferList)
    \cup (UNION {Elements(batch[d]) : d \in Deleter})
    \cup {object[a] : a \in {b \in Actor : pc[b] \in {"delete", "peek", "push"}}}

\* The client's table has no dangling pointers: what PhReferenceObjectSafe is
\* called on is an object, alive or being destroyed, at once or by a routine.
ListedObjectIsStored == table \subseteq Existing

\* Nobody can reach an object that is gone: neither by a reference, counted in
\* RefCount, nor by a pointer in the table, until PhReferenceObjectSafe is called
\* on an object with others behind it on the to-free list, which it should refuse
\* and does not.
ReferenceInv ==
  ~corrupt => ReferencedObjectIsAlive /\ ReferencesAreCounted /\ ListedObjectIsStored

\* NumberOfObjects is their number: no object is deleted twice, whichever of two
\* threads gives up the last reference and whether or not that is deferred.
ObjectIsDeletedOnce == number = Cardinality(Existing)

\* Count is updated after the list, without a lock, and wraps below 0; it is off
\* by the operations under way and by nothing else, so the free list never
\* grows or stays small for good.
CountFollowsList ==
  Len(freeList) = count + Cardinality({a \in Actor : pc[a] = "increment"})
                        - Cardinality({a \in Actor : pc[a] = "decrement"})

\* The free list and its counter, which no lock protects.
FreeListInv == TypeOK /\ CountFollowsList

Unreferenced(o) == o \in Existing /\ refCount[o] = 0

\* When the last pool of a thread is gone so are the references in it, and an
\* object nobody refers to is deleted in the end, deferred or not, unless a
\* deferral has missed the flush of the list or a look-up has broken it.
UnreferencedObjectIsDeleted ==
  \A o \in Object : Unreferenced(o) ~> (~Unreferenced(o) \/ missed \/ corrupt)

\* "The object will be freed in a worker thread if its reference count reaches
\* 0."
DeferredObjectIsDeleted ==
  \A o \in Object : o \in Elements(deferList) ~> o \notin Elements(deferList)

=============================================================================
