------------------------- MODULE HazardShieldProofs ----------------------------
(***************************************************************************)
(* The safety properties of three of HazardShield's own components, which  *)
(* share no state: those of StreamScan, for any number of file objects,    *)
(* streams, files and contents; those of Protector, for any number of      *)
(* processes; and those of Ntfs about records, data streams and            *)
(* directories, for any well-formed volumes.                               *)
(***************************************************************************)
EXTENDS StreamScan, Protector, Ntfs, WellFoundedInduction, FiniteSetTheorems, TLAPS

-----------------------------------------------------------------------------
(***************************************************************************)
(* The inductive invariant.                                                *)
(***************************************************************************)

\* A file object is open on a stream or closed.
OpenInv == \A fo \in FileObject : pc[fo] = "closed" <=> on[fo] = None

TypeInv == TypeOK /\ OpenInv

\* Who holds ScanLock, and that a thread past the point where it looked the
\* context up keeps it attached.
LockInv ==
  /\ \A fo \in FileObject :
       pc[fo] \in {"lock"} \cup Holding \cup Cleaning => on[fo] \in attached
  /\ \A fo \in FileObject : pc[fo] \in Holding => scanLock[on[fo]] = fo
  /\ \A s \in Stream : scanLock[s] # None =>
       on[scanLock[s]] = s /\ pc[scanLock[s]] \in Holding

\* The bits of Flags as a scan goes on, and what the flags word and the local
\* "infected" of a thread may hold where.
FlagInv ==
  /\ \A s \in Stream : s \notin attached => flags[s] = {}
  /\ \A fo \in FileObject :
       /\ word[fo] # {} =>
            pc[fo] \in {"attach", "reply", "clear", "infect", "delete", "release"}
       /\ fo \in infected => pc[fo] \in {"attach", "delete", "release"}
       /\ pc[fo] = "attach" => word[fo] \subseteq {"SCANNED"}
       /\ pc[fo] = "infect" => "INFECTED" \in word[fo]
       /\ pc[fo] = "delete" => "DELETE" \in word[fo]
  /\ \A fo \in FileObject :
       pc[fo] \in {"scan", "reply"} => NeedsScan(on[fo])
  /\ \A fo \in FileObject :
       pc[fo] \in {"clear", "infect", "delete"} => "SCANNED" \in flags[on[fo]]

\* The context of s vouches for its content.
Trusted(s) ==
  /\ s \in attached
  /\ "SCANNED" \in flags[s]
  /\ "MODIFIED" \notin flags[s]
  /\ s \notin blind

\* Some thread is at one of the given points with s.
Busy(s, where) == \E fo \in FileObject : on[fo] = s /\ pc[fo] \in where

\* A trusted stream still holds what the last scan looked at, with no write
\* on its way.
ContentInv ==
  \A s \in Stream :
    Trusted(s) /\ ~Busy(s, {"clear"}) =>
      examined[s] = content[s] /\ ~PendingWrite(s)

\* An infectious content that was looked at is in the answer, then in Flags
\* and in the local "infected".
VerdictInv ==
  /\ \A fo \in FileObject :
       (pc[fo] \in {"reply", "clear", "infect"} /\ examined[on[fo]] \in Infectious)
       => "INFECTED" \in word[fo]
  /\ \A s \in Stream :
       (Trusted(s) /\ ~Busy(s, {"clear", "infect"}) /\ examined[s] \in Infectious)
       => "INFECTED" \in flags[s]
  /\ \A fo \in FileObject :
       (/\ pc[fo] \in {"delete", "release"} /\ Trusted(on[fo])
        /\ examined[on[fo]] \in Infectious)
       => fo \in infected

\* Where the adverse bits travel.
ReportInv ==
  /\ ConsequencesWereReported
  /\ \A fo \in FileObject :
       word[fo] \cap ResponseFlag # {} => on[fo] \in reported
  /\ \A fo \in FileObject :
       (fo \in infected /\ pc[fo] # "attach") => on[fo] \in reported
  /\ \A fo \in FileObject :
       pc[fo] \in Creating \cup {"closed"} => image[fo] # "refused"

IInv ==
  /\ TypeInv
  /\ LockInv
  /\ FlagInv
  /\ InfectedIsScanned
  /\ ContentInv
  /\ VerdictInv
  /\ ReportInv

-----------------------------------------------------------------------------
(***************************************************************************)
(* The steps that preserve it.                                             *)
(***************************************************************************)

\* A thread inside a callback works on a stream: HsPostCreate names it and
\* HsPreCleanup gives it up.
LEMMA OpenOnStream ==
  ASSUME TypeInv
  PROVE  \A fo \in FileObject : pc[fo] # "closed" => on[fo] \in Stream
BY DEF TypeInv, TypeOK, OpenInv

\* Every callback keeps the types, and opens or closes a file object as a whole.
LEMMA TypeStep ==
  TypeInv /\ [Next]_vars => TypeInv'
<1> SUFFICES ASSUME TypeInv, [Next]_vars PROVE TypeInv'
  OBVIOUS
<1> USE ConstantsAssumption, OpenOnStream
    DEF TypeInv, TypeOK, OpenInv, Location, Idle, Creating, Holding, Cleaning,
      Flag, ResponseFlag, local, store, hist, Goto
<1>1. ASSUME NEW fo \in FileObject, Start(fo) \/ Continue(fo)
      PROVE  TypeInv'
  <2>1. ASSUME NEW s \in Stream, HsPostCreateSkip(fo, s) PROVE TypeInv'
    BY <2>1 DEF HsPostCreateSkip
  <2>2. ASSUME NEW s \in Stream, HsPostCreatePrefetch(fo, s) PROVE TypeInv'
    BY <2>2 DEF HsPostCreatePrefetch
  <2>3. ASSUME NEW s \in Stream, HsPostCreateFound(fo, s) PROVE TypeInv'
    BY <2>3 DEF HsPostCreateFound
  <2>4. ASSUME NEW s \in Stream, HsPostCreateNotFound(fo, s) PROVE TypeInv'
    BY <2>4 DEF HsPostCreateNotFound
  <2>5. CASE HsGetFileCacheStatus(fo)
    BY <2>5 DEF HsGetFileCacheStatus, CachedFlags
  <2>6. CASE HsPostCreateSetContext(fo)
    BY <2>6 DEF HsPostCreateSetContext
  <2>7. CASE HsPreWrite(fo)
    BY <2>7 DEF HsPreWrite, MarkModified
  <2>8. CASE HsPreSetInformation(fo)
    BY <2>8 DEF HsPreSetInformation, MarkModified, LetThrough
  <2>9. CASE HsPreFsControl(fo)
    BY <2>9 DEF HsPreFsControl, MarkModified, LetThrough
  <2>10. ASSUME NEW c \in Content, WriteLands(fo, c) PROVE TypeInv'
    BY <2>10 DEF WriteLands
  <2>11. CASE SectionPassesThrough(fo)
    BY <2>11 DEF SectionPassesThrough
  <2>12. CASE HsPreAcquireForSectionSynchronization(fo)
    BY <2>12 DEF HsPreAcquireForSectionSynchronization
  <2>13. CASE AcquireScanLock(fo)
    BY <2>13 DEF AcquireScanLock
  <2>14. CASE HsFilterScanFileFails(fo)
    BY <2>14 DEF HsFilterScanFileFails
  <2>15. CASE ServiceScans(fo)
    <3>1. reported' \in SUBSET Stream
      BY <2>15 DEF ServiceScans
    <3>2. ASSUME NEW extra \in SUBSET {"DELETE"},
                 word' = [word EXCEPT ![fo] = {"INFECTED"} \cup extra]
          PROVE  word' \in [FileObject -> SUBSET Flag]
      <4>1. {"INFECTED"} \cup extra \in SUBSET Flag
        OBVIOUS
      <4> QED
        BY <3>2, <4>1
    <3>3. word' \in [FileObject -> SUBSET Flag]
      BY <2>15, <3>2 DEF ServiceScans
    <3> QED
      BY <2>15, <3>1, <3>3 DEF ServiceScans
  <2>16. CASE ServiceGivesUp(fo)
    BY <2>16 DEF ServiceGivesUp
  <2>17. CASE SetScanned(fo)
    BY <2>17 DEF SetScanned
  <2>18. CASE ClearModified(fo)
    BY <2>18 DEF ClearModified, AfterClear
  <2>19. CASE SetInfected(fo)
    BY <2>19 DEF SetInfected
  <2>20. CASE SetDelete(fo)
    BY <2>20 DEF SetDelete
  <2>21. CASE ReleaseScanLock(fo)
    BY <2>21 DEF ReleaseScanLock
  <2>22. CASE HsPreCleanupSkip(fo)
    BY <2>22 DEF HsPreCleanupSkip, Close
  <2>23. CASE HsPreCleanup(fo)
    BY <2>23 DEF HsPreCleanup
  <2>24. CASE HsSyncCache(fo)
    BY <2>24 DEF HsSyncCache
  <2>25. CASE HsPreCleanupDispose(fo)
    BY <2>25 DEF HsPreCleanupDispose, Close
  <2> QED
    BY <1>1, <2>1, <2>2, <2>3, <2>4, <2>5, <2>6, <2>7, <2>8, <2>9, <2>10,
      <2>11, <2>12, <2>13, <2>14, <2>15, <2>16, <2>17, <2>18, <2>19, <2>20,
      <2>21, <2>22, <2>23, <2>24, <2>25 DEF Start, Continue
<1>2. ASSUME NEW s \in Stream, HspStreamContextCleanup(s) PROVE TypeInv'
  BY <1>2 DEF HspStreamContextCleanup, Unused
<1>3. CASE HspInstanceContextCleanup
  BY <1>3 DEF HspInstanceContextCleanup, Unused
<1>4. CASE UNCHANGED vars
  BY <1>4 DEF vars
<1> QED
  BY <1>1, <1>2, <1>3, <1>4 DEF Next

\* ScanLock passes from hand to hand; attaching and tearing down a context
\* happen only when nobody holds it.
LEMMA LockStep ==
  TypeInv /\ LockInv /\ [Next]_vars => LockInv'
<1> SUFFICES ASSUME TypeInv, LockInv, [Next]_vars PROVE LockInv'
  OBVIOUS
<1> USE ConstantsAssumption, OpenOnStream
    DEF TypeInv, TypeOK, OpenInv, LockInv, Location, Idle, Creating, Holding,
      Cleaning, Flag, ResponseFlag, local, store, hist, Goto
<1>1. ASSUME NEW fo \in FileObject, Start(fo) \/ Continue(fo)
      PROVE  LockInv'
  <2>1. ASSUME NEW s \in Stream, HsPostCreateSkip(fo, s) PROVE LockInv'
    BY <2>1 DEF HsPostCreateSkip
  <2>2. ASSUME NEW s \in Stream, HsPostCreatePrefetch(fo, s) PROVE LockInv'
    BY <2>2 DEF HsPostCreatePrefetch
  <2>3. ASSUME NEW s \in Stream, HsPostCreateFound(fo, s) PROVE LockInv'
    BY <2>3 DEF HsPostCreateFound
  <2>4. ASSUME NEW s \in Stream, HsPostCreateNotFound(fo, s) PROVE LockInv'
    BY <2>4 DEF HsPostCreateNotFound
  <2>5. CASE HsGetFileCacheStatus(fo)
    BY <2>5 DEF HsGetFileCacheStatus, CachedFlags
  <2>6. CASE HsPostCreateSetContext(fo)
    BY <2>6 DEF HsPostCreateSetContext
  <2>7. CASE HsPreWrite(fo)
    BY <2>7 DEF HsPreWrite, MarkModified
  <2>8. CASE HsPreSetInformation(fo)
    BY <2>8 DEF HsPreSetInformation, MarkModified, LetThrough
  <2>9. CASE HsPreFsControl(fo)
    BY <2>9 DEF HsPreFsControl, MarkModified, LetThrough
  <2>10. ASSUME NEW c \in Content, WriteLands(fo, c) PROVE LockInv'
    BY <2>10 DEF WriteLands
  <2>11. CASE SectionPassesThrough(fo)
    BY <2>11 DEF SectionPassesThrough
  <2>12. CASE HsPreAcquireForSectionSynchronization(fo)
    BY <2>12 DEF HsPreAcquireForSectionSynchronization
  <2>13. CASE AcquireScanLock(fo)
    BY <2>13 DEF AcquireScanLock
  <2>14. CASE HsFilterScanFileFails(fo)
    BY <2>14 DEF HsFilterScanFileFails
  <2>15. CASE ServiceScans(fo)
    BY <2>15 DEF ServiceScans
  <2>16. CASE ServiceGivesUp(fo)
    BY <2>16 DEF ServiceGivesUp
  <2>17. CASE SetScanned(fo)
    BY <2>17 DEF SetScanned
  <2>18. CASE ClearModified(fo)
    BY <2>18 DEF ClearModified, AfterClear
  <2>19. CASE SetInfected(fo)
    BY <2>19 DEF SetInfected
  <2>20. CASE SetDelete(fo)
    BY <2>20 DEF SetDelete
  <2>21. CASE ReleaseScanLock(fo)
    BY <2>21 DEF ReleaseScanLock
  <2>22. CASE HsPreCleanupSkip(fo)
    BY <2>22 DEF HsPreCleanupSkip, Close
  <2>23. CASE HsPreCleanup(fo)
    BY <2>23 DEF HsPreCleanup
  <2>24. CASE HsSyncCache(fo)
    BY <2>24 DEF HsSyncCache
  <2>25. CASE HsPreCleanupDispose(fo)
    BY <2>25 DEF HsPreCleanupDispose, Close
  <2> QED
    BY <1>1, <2>1, <2>2, <2>3, <2>4, <2>5, <2>6, <2>7, <2>8, <2>9, <2>10,
      <2>11, <2>12, <2>13, <2>14, <2>15, <2>16, <2>17, <2>18, <2>19, <2>20,
      <2>21, <2>22, <2>23, <2>24, <2>25 DEF Start, Continue
<1>2. ASSUME NEW s \in Stream, HspStreamContextCleanup(s) PROVE LockInv'
  BY <1>2 DEF HspStreamContextCleanup, Unused
<1>3. CASE HspInstanceContextCleanup
  BY <1>3 DEF HspInstanceContextCleanup, Unused
<1>4. CASE UNCHANGED vars
  BY <1>4 DEF vars
<1> QED
  BY <1>1, <1>2, <1>3, <1>4 DEF Next

\* Only the holder of ScanLock ends the need for a scan.
LEMMA FlagStep ==
  TypeInv /\ LockInv /\ FlagInv /\ [Next]_vars => FlagInv'
<1> SUFFICES ASSUME TypeInv, LockInv, FlagInv, [Next]_vars PROVE FlagInv'
  OBVIOUS
<1> USE ConstantsAssumption, OpenOnStream
    DEF TypeInv, TypeOK, OpenInv, LockInv, FlagInv, NeedsScan, Location, Idle,
      Creating, Holding, Cleaning, Flag, ResponseFlag, local, store, hist,
      Goto
<1>1. ASSUME NEW fo \in FileObject, Start(fo) \/ Continue(fo)
      PROVE  FlagInv'
  <2>1. ASSUME NEW s \in Stream, HsPostCreateSkip(fo, s) PROVE FlagInv'
    BY <2>1 DEF HsPostCreateSkip
  <2>2. ASSUME NEW s \in Stream, HsPostCreatePrefetch(fo, s) PROVE FlagInv'
    BY <2>2 DEF HsPostCreatePrefetch
  <2>3. ASSUME NEW s \in Stream, HsPostCreateFound(fo, s) PROVE FlagInv'
    BY <2>3 DEF HsPostCreateFound
  <2>4. ASSUME NEW s \in Stream, HsPostCreateNotFound(fo, s) PROVE FlagInv'
    BY <2>4 DEF HsPostCreateNotFound
  <2>5. CASE HsGetFileCacheStatus(fo)
    BY <2>5 DEF HsGetFileCacheStatus, CachedFlags
  <2>6. CASE HsPostCreateSetContext(fo)
    BY <2>6 DEF HsPostCreateSetContext
  <2>7. CASE HsPreWrite(fo)
    BY <2>7 DEF HsPreWrite, MarkModified
  <2>8. CASE HsPreSetInformation(fo)
    BY <2>8 DEF HsPreSetInformation, MarkModified, LetThrough
  <2>9. CASE HsPreFsControl(fo)
    BY <2>9 DEF HsPreFsControl, MarkModified, LetThrough
  <2>10. ASSUME NEW c \in Content, WriteLands(fo, c) PROVE FlagInv'
    BY <2>10 DEF WriteLands
  <2>11. CASE SectionPassesThrough(fo)
    BY <2>11 DEF SectionPassesThrough
  <2>12. CASE HsPreAcquireForSectionSynchronization(fo)
    BY <2>12 DEF HsPreAcquireForSectionSynchronization
  <2>13. CASE AcquireScanLock(fo)
    BY <2>13 DEF AcquireScanLock
  <2>14. CASE HsFilterScanFileFails(fo)
    BY <2>14 DEF HsFilterScanFileFails
  <2>15. CASE ServiceScans(fo)
    BY <2>15 DEF ServiceScans
  <2>16. CASE ServiceGivesUp(fo)
    BY <2>16 DEF ServiceGivesUp
  <2>17. CASE SetScanned(fo)
    BY <2>17 DEF SetScanned
  <2>18. CASE ClearModified(fo)
    BY <2>18 DEF ClearModified, AfterClear
  <2>19. CASE SetInfected(fo)
    BY <2>19 DEF SetInfected
  <2>20. CASE SetDelete(fo)
    BY <2>20 DEF SetDelete
  <2>21. CASE ReleaseScanLock(fo)
    BY <2>21 DEF ReleaseScanLock
  <2>22. CASE HsPreCleanupSkip(fo)
    BY <2>22 DEF HsPreCleanupSkip, Close
  <2>23. CASE HsPreCleanup(fo)
    BY <2>23 DEF HsPreCleanup
  <2>24. CASE HsSyncCache(fo)
    BY <2>24 DEF HsSyncCache
  <2>25. CASE HsPreCleanupDispose(fo)
    BY <2>25 DEF HsPreCleanupDispose, Close
  <2> QED
    BY <1>1, <2>1, <2>2, <2>3, <2>4, <2>5, <2>6, <2>7, <2>8, <2>9, <2>10,
      <2>11, <2>12, <2>13, <2>14, <2>15, <2>16, <2>17, <2>18, <2>19, <2>20,
      <2>21, <2>22, <2>23, <2>24, <2>25 DEF Start, Continue
<1>2. ASSUME NEW s \in Stream, HspStreamContextCleanup(s) PROVE FlagInv'
  BY <1>2 DEF HspStreamContextCleanup, Unused
<1>3. CASE HspInstanceContextCleanup
  BY <1>3 DEF HspInstanceContextCleanup, Unused
<1>4. CASE UNCHANGED vars
  BY <1>4 DEF vars
<1> QED
  BY <1>1, <1>2, <1>3, <1>4 DEF Next

\* SCANNED is set before INFECTED and no callback clears it.
LEMMA InfectedStep ==
  TypeInv /\ LockInv /\ FlagInv /\ InfectedIsScanned /\ [Next]_vars =>
    InfectedIsScanned'
<1> SUFFICES ASSUME TypeInv, LockInv, FlagInv, InfectedIsScanned, [Next]_vars
  PROVE InfectedIsScanned'
  OBVIOUS
<1> USE ConstantsAssumption, OpenOnStream
    DEF TypeInv, TypeOK, OpenInv, LockInv, FlagInv, InfectedIsScanned,
      Location, Idle, Creating, Holding, Cleaning, Flag, ResponseFlag, local,
      store, hist, Goto
<1>1. ASSUME NEW fo \in FileObject, Start(fo) \/ Continue(fo)
      PROVE  InfectedIsScanned'
  <2>1. ASSUME NEW s \in Stream, HsPostCreateSkip(fo, s) PROVE InfectedIsScanned'
    BY <2>1 DEF HsPostCreateSkip
  <2>2. ASSUME NEW s \in Stream, HsPostCreatePrefetch(fo, s) PROVE InfectedIsScanned'
    BY <2>2 DEF HsPostCreatePrefetch
  <2>3. ASSUME NEW s \in Stream, HsPostCreateFound(fo, s) PROVE InfectedIsScanned'
    BY <2>3 DEF HsPostCreateFound
  <2>4. ASSUME NEW s \in Stream, HsPostCreateNotFound(fo, s) PROVE InfectedIsScanned'
    BY <2>4 DEF HsPostCreateNotFound
  <2>5. CASE HsGetFileCacheStatus(fo)
    BY <2>5 DEF HsGetFileCacheStatus, CachedFlags
  <2>6. CASE HsPostCreateSetContext(fo)
    BY <2>6 DEF HsPostCreateSetContext
  <2>7. CASE HsPreWrite(fo)
    BY <2>7 DEF HsPreWrite, MarkModified
  <2>8. CASE HsPreSetInformation(fo)
    BY <2>8 DEF HsPreSetInformation, MarkModified, LetThrough
  <2>9. CASE HsPreFsControl(fo)
    BY <2>9 DEF HsPreFsControl, MarkModified, LetThrough
  <2>10. ASSUME NEW c \in Content, WriteLands(fo, c) PROVE InfectedIsScanned'
    BY <2>10 DEF WriteLands
  <2>11. CASE SectionPassesThrough(fo)
    BY <2>11 DEF SectionPassesThrough
  <2>12. CASE HsPreAcquireForSectionSynchronization(fo)
    BY <2>12 DEF HsPreAcquireForSectionSynchronization
  <2>13. CASE AcquireScanLock(fo)
    BY <2>13 DEF AcquireScanLock
  <2>14. CASE HsFilterScanFileFails(fo)
    BY <2>14 DEF HsFilterScanFileFails
  <2>15. CASE ServiceScans(fo)
    BY <2>15 DEF ServiceScans
  <2>16. CASE ServiceGivesUp(fo)
    BY <2>16 DEF ServiceGivesUp
  <2>17. CASE SetScanned(fo)
    BY <2>17 DEF SetScanned
  <2>18. CASE ClearModified(fo)
    BY <2>18 DEF ClearModified, AfterClear
  <2>19. CASE SetInfected(fo)
    BY <2>19 DEF SetInfected
  <2>20. CASE SetDelete(fo)
    BY <2>20 DEF SetDelete
  <2>21. CASE ReleaseScanLock(fo)
    BY <2>21 DEF ReleaseScanLock
  <2>22. CASE HsPreCleanupSkip(fo)
    BY <2>22 DEF HsPreCleanupSkip, Close
  <2>23. CASE HsPreCleanup(fo)
    BY <2>23 DEF HsPreCleanup
  <2>24. CASE HsSyncCache(fo)
    BY <2>24 DEF HsSyncCache
  <2>25. CASE HsPreCleanupDispose(fo)
    BY <2>25 DEF HsPreCleanupDispose, Close
  <2> QED
    BY <1>1, <2>1, <2>2, <2>3, <2>4, <2>5, <2>6, <2>7, <2>8, <2>9, <2>10,
      <2>11, <2>12, <2>13, <2>14, <2>15, <2>16, <2>17, <2>18, <2>19, <2>20,
      <2>21, <2>22, <2>23, <2>24, <2>25 DEF Start, Continue
<1>2. ASSUME NEW s \in Stream, HspStreamContextCleanup(s) PROVE InfectedIsScanned'
  BY <1>2 DEF HspStreamContextCleanup, Unused
<1>3. CASE HspInstanceContextCleanup
  BY <1>3 DEF HspInstanceContextCleanup, Unused
<1>4. CASE UNCHANGED vars
  BY <1>4 DEF vars
<1> QED
  BY <1>1, <1>2, <1>3, <1>4 DEF Next

\* A modification takes a stream out of trust before it lands.
LEMMA ContentStep ==
  TypeInv /\ LockInv /\ FlagInv /\ ContentInv /\ [Next]_vars => ContentInv'
<1> SUFFICES ASSUME TypeInv, LockInv, FlagInv, ContentInv, [Next]_vars PROVE
  ContentInv'
  OBVIOUS
<1> USE ConstantsAssumption, OpenOnStream
    DEF TypeInv, TypeOK, OpenInv, LockInv, FlagInv, ContentInv, Trusted, Busy,
      PendingWrite, NeedsScan, Location, Idle, Creating, Holding, Cleaning,
      Flag, ResponseFlag, local, store, hist, Goto
<1>1. ASSUME NEW fo \in FileObject, Start(fo) \/ Continue(fo)
      PROVE  ContentInv'
  <2>1. ASSUME NEW s \in Stream, HsPostCreateSkip(fo, s) PROVE ContentInv'
    BY <2>1 DEF HsPostCreateSkip
  <2>2. ASSUME NEW s \in Stream, HsPostCreatePrefetch(fo, s) PROVE ContentInv'
    BY <2>2 DEF HsPostCreatePrefetch
  <2>3. ASSUME NEW s \in Stream, HsPostCreateFound(fo, s) PROVE ContentInv'
    BY <2>3 DEF HsPostCreateFound
  <2>4. ASSUME NEW s \in Stream, HsPostCreateNotFound(fo, s) PROVE ContentInv'
    BY <2>4 DEF HsPostCreateNotFound
  <2>5. CASE HsGetFileCacheStatus(fo)
    BY <2>5 DEF HsGetFileCacheStatus, CachedFlags
  <2>6. CASE HsPostCreateSetContext(fo)
    BY <2>6 DEF HsPostCreateSetContext
  <2>7. CASE HsPreWrite(fo)
    BY <2>7 DEF HsPreWrite, MarkModified
  <2>8. CASE HsPreSetInformation(fo)
    BY <2>8 DEF HsPreSetInformation, MarkModified, LetThrough
  <2>9. CASE HsPreFsControl(fo)
    BY <2>9 DEF HsPreFsControl, MarkModified, LetThrough
  <2>10. ASSUME NEW c \in Content, WriteLands(fo, c) PROVE ContentInv'
    BY <2>10 DEF WriteLands
  <2>11. CASE SectionPassesThrough(fo)
    BY <2>11 DEF SectionPassesThrough
  <2>12. CASE HsPreAcquireForSectionSynchronization(fo)
    BY <2>12 DEF HsPreAcquireForSectionSynchronization
  <2>13. CASE AcquireScanLock(fo)
    BY <2>13 DEF AcquireScanLock
  <2>14. CASE HsFilterScanFileFails(fo)
    BY <2>14 DEF HsFilterScanFileFails
  <2>15. CASE ServiceScans(fo)
    BY <2>15 DEF ServiceScans
  <2>16. CASE ServiceGivesUp(fo)
    BY <2>16 DEF ServiceGivesUp
  <2>17. CASE SetScanned(fo)
    BY <2>17 DEF SetScanned
  <2>18. CASE ClearModified(fo)
    BY <2>18 DEF ClearModified, AfterClear
  <2>19. CASE SetInfected(fo)
    BY <2>19 DEF SetInfected
  <2>20. CASE SetDelete(fo)
    BY <2>20 DEF SetDelete
  <2>21. CASE ReleaseScanLock(fo)
    BY <2>21 DEF ReleaseScanLock
  <2>22. CASE HsPreCleanupSkip(fo)
    BY <2>22 DEF HsPreCleanupSkip, Close
  <2>23. CASE HsPreCleanup(fo)
    BY <2>23 DEF HsPreCleanup
  <2>24. CASE HsSyncCache(fo)
    BY <2>24 DEF HsSyncCache
  <2>25. CASE HsPreCleanupDispose(fo)
    BY <2>25 DEF HsPreCleanupDispose, Close
  <2> QED
    BY <1>1, <2>1, <2>2, <2>3, <2>4, <2>5, <2>6, <2>7, <2>8, <2>9, <2>10,
      <2>11, <2>12, <2>13, <2>14, <2>15, <2>16, <2>17, <2>18, <2>19, <2>20,
      <2>21, <2>22, <2>23, <2>24, <2>25 DEF Start, Continue
<1>2. ASSUME NEW s \in Stream, HspStreamContextCleanup(s) PROVE ContentInv'
  BY <1>2 DEF HspStreamContextCleanup, Unused
<1>3. CASE HspInstanceContextCleanup
  BY <1>3 DEF HspInstanceContextCleanup, Unused
<1>4. CASE UNCHANGED vars
  BY <1>4 DEF vars
<1> QED
  BY <1>1, <1>2, <1>3, <1>4 DEF Next

\* The answer of the service reaches Flags and the caller.
LEMMA VerdictStep ==
  TypeInv /\ LockInv /\ FlagInv /\ ContentInv /\ VerdictInv /\ [Next]_vars =>
    VerdictInv'
<1> SUFFICES ASSUME TypeInv, LockInv, FlagInv, ContentInv, VerdictInv,
  [Next]_vars PROVE VerdictInv'
  OBVIOUS
<1> USE ConstantsAssumption, OpenOnStream
    DEF TypeInv, TypeOK, OpenInv, LockInv, FlagInv, ContentInv, VerdictInv,
      Trusted, Busy, PendingWrite, NeedsScan, Location, Idle, Creating,
      Holding, Cleaning, Flag, ResponseFlag, local, store, hist, Goto
<1>1. ASSUME NEW fo \in FileObject, Start(fo) \/ Continue(fo)
      PROVE  VerdictInv'
  <2>1. ASSUME NEW s \in Stream, HsPostCreateSkip(fo, s) PROVE VerdictInv'
    BY <2>1 DEF HsPostCreateSkip
  <2>2. ASSUME NEW s \in Stream, HsPostCreatePrefetch(fo, s) PROVE VerdictInv'
    BY <2>2 DEF HsPostCreatePrefetch
  <2>3. ASSUME NEW s \in Stream, HsPostCreateFound(fo, s) PROVE VerdictInv'
    BY <2>3 DEF HsPostCreateFound
  <2>4. ASSUME NEW s \in Stream, HsPostCreateNotFound(fo, s) PROVE VerdictInv'
    BY <2>4 DEF HsPostCreateNotFound
  <2>5. CASE HsGetFileCacheStatus(fo)
    BY <2>5 DEF HsGetFileCacheStatus, CachedFlags
  <2>6. CASE HsPostCreateSetContext(fo)
    BY <2>6 DEF HsPostCreateSetContext
  <2>7. CASE HsPreWrite(fo)
    BY <2>7 DEF HsPreWrite, MarkModified
  <2>8. CASE HsPreSetInformation(fo)
    BY <2>8 DEF HsPreSetInformation, MarkModified, LetThrough
  <2>9. CASE HsPreFsControl(fo)
    BY <2>9 DEF HsPreFsControl, MarkModified, LetThrough
  <2>10. ASSUME NEW c \in Content, WriteLands(fo, c) PROVE VerdictInv'
    BY <2>10 DEF WriteLands
  <2>11. CASE SectionPassesThrough(fo)
    BY <2>11 DEF SectionPassesThrough
  <2>12. CASE HsPreAcquireForSectionSynchronization(fo)
    BY <2>12 DEF HsPreAcquireForSectionSynchronization
  <2>13. CASE AcquireScanLock(fo)
    BY <2>13 DEF AcquireScanLock
  <2>14. CASE HsFilterScanFileFails(fo)
    BY <2>14 DEF HsFilterScanFileFails
  <2>15. CASE ServiceScans(fo)
    BY <2>15 DEF ServiceScans
  <2>16. CASE ServiceGivesUp(fo)
    BY <2>16 DEF ServiceGivesUp
  <2>17. CASE SetScanned(fo)
    BY <2>17 DEF SetScanned
  <2>18. CASE ClearModified(fo)
    BY <2>18 DEF ClearModified, AfterClear
  <2>19. CASE SetInfected(fo)
    BY <2>19 DEF SetInfected
  <2>20. CASE SetDelete(fo)
    BY <2>20 DEF SetDelete
  <2>21. CASE ReleaseScanLock(fo)
    BY <2>21 DEF ReleaseScanLock
  <2>22. CASE HsPreCleanupSkip(fo)
    BY <2>22 DEF HsPreCleanupSkip, Close
  <2>23. CASE HsPreCleanup(fo)
    BY <2>23 DEF HsPreCleanup
  <2>24. CASE HsSyncCache(fo)
    BY <2>24 DEF HsSyncCache
  <2>25. CASE HsPreCleanupDispose(fo)
    BY <2>25 DEF HsPreCleanupDispose, Close
  <2> QED
    BY <1>1, <2>1, <2>2, <2>3, <2>4, <2>5, <2>6, <2>7, <2>8, <2>9, <2>10,
      <2>11, <2>12, <2>13, <2>14, <2>15, <2>16, <2>17, <2>18, <2>19, <2>20,
      <2>21, <2>22, <2>23, <2>24, <2>25 DEF Start, Continue
<1>2. ASSUME NEW s \in Stream, HspStreamContextCleanup(s) PROVE VerdictInv'
  BY <1>2 DEF HspStreamContextCleanup, Unused
<1>3. CASE HspInstanceContextCleanup
  BY <1>3 DEF HspInstanceContextCleanup, Unused
<1>4. CASE UNCHANGED vars
  BY <1>4 DEF vars
<1> QED
  BY <1>1, <1>2, <1>3, <1>4 DEF Next

\* An adverse bit is only ever copied.
LEMMA ReportStep ==
  TypeInv /\ LockInv /\ FlagInv /\ ReportInv /\ [Next]_vars => ReportInv'
<1> SUFFICES ASSUME TypeInv, LockInv, FlagInv, ReportInv, [Next]_vars PROVE
  ReportInv'
  OBVIOUS
<1> USE ConstantsAssumption, OpenOnStream
    DEF TypeInv, TypeOK, OpenInv, LockInv, FlagInv, ReportInv,
      ConsequencesWereReported, Location, Idle, Creating, Holding, Cleaning,
      Flag, ResponseFlag, local, store, hist, Goto
<1>1. ASSUME NEW fo \in FileObject, Start(fo) \/ Continue(fo)
      PROVE  ReportInv'
  <2>1. ASSUME NEW s \in Stream, HsPostCreateSkip(fo, s) PROVE ReportInv'
    BY <2>1 DEF HsPostCreateSkip
  <2>2. ASSUME NEW s \in Stream, HsPostCreatePrefetch(fo, s) PROVE ReportInv'
    BY <2>2 DEF HsPostCreatePrefetch
  <2>3. ASSUME NEW s \in Stream, HsPostCreateFound(fo, s) PROVE ReportInv'
    BY <2>3 DEF HsPostCreateFound
  <2>4. ASSUME NEW s \in Stream, HsPostCreateNotFound(fo, s) PROVE ReportInv'
    BY <2>4 DEF HsPostCreateNotFound
  <2>5. CASE HsGetFileCacheStatus(fo)
    BY <2>5 DEF HsGetFileCacheStatus, CachedFlags
  <2>6. CASE HsPostCreateSetContext(fo)
    BY <2>6 DEF HsPostCreateSetContext
  <2>7. CASE HsPreWrite(fo)
    BY <2>7 DEF HsPreWrite, MarkModified
  <2>8. CASE HsPreSetInformation(fo)
    BY <2>8 DEF HsPreSetInformation, MarkModified, LetThrough
  <2>9. CASE HsPreFsControl(fo)
    BY <2>9 DEF HsPreFsControl, MarkModified, LetThrough
  <2>10. ASSUME NEW c \in Content, WriteLands(fo, c) PROVE ReportInv'
    BY <2>10 DEF WriteLands
  <2>11. CASE SectionPassesThrough(fo)
    BY <2>11 DEF SectionPassesThrough
  <2>12. CASE HsPreAcquireForSectionSynchronization(fo)
    BY <2>12 DEF HsPreAcquireForSectionSynchronization
  <2>13. CASE AcquireScanLock(fo)
    BY <2>13 DEF AcquireScanLock
  <2>14. CASE HsFilterScanFileFails(fo)
    BY <2>14 DEF HsFilterScanFileFails
  <2>15. CASE ServiceScans(fo)
    BY <2>15 DEF ServiceScans
  <2>16. CASE ServiceGivesUp(fo)
    BY <2>16 DEF ServiceGivesUp
  <2>17. CASE SetScanned(fo)
    BY <2>17 DEF SetScanned
  <2>18. CASE ClearModified(fo)
    BY <2>18 DEF ClearModified, AfterClear
  <2>19. CASE SetInfected(fo)
    BY <2>19 DEF SetInfected
  <2>20. CASE SetDelete(fo)
    BY <2>20 DEF SetDelete
  <2>21. CASE ReleaseScanLock(fo)
    BY <2>21 DEF ReleaseScanLock
  <2>22. CASE HsPreCleanupSkip(fo)
    BY <2>22 DEF HsPreCleanupSkip, Close
  <2>23. CASE HsPreCleanup(fo)
    BY <2>23 DEF HsPreCleanup
  <2>24. CASE HsSyncCache(fo)
    BY <2>24 DEF HsSyncCache
  <2>25. CASE HsPreCleanupDispose(fo)
    BY <2>25 DEF HsPreCleanupDispose, Close
  <2> QED
    BY <1>1, <2>1, <2>2, <2>3, <2>4, <2>5, <2>6, <2>7, <2>8, <2>9, <2>10,
      <2>11, <2>12, <2>13, <2>14, <2>15, <2>16, <2>17, <2>18, <2>19, <2>20,
      <2>21, <2>22, <2>23, <2>24, <2>25 DEF Start, Continue
<1>2. ASSUME NEW s \in Stream, HspStreamContextCleanup(s) PROVE ReportInv'
  BY <1>2 DEF HspStreamContextCleanup, Unused
<1>3. CASE HspInstanceContextCleanup
  BY <1>3 DEF HspInstanceContextCleanup, Unused
<1>4. CASE UNCHANGED vars
  BY <1>4 DEF vars
<1> QED
  BY <1>1, <1>2, <1>3, <1>4 DEF Next

-----------------------------------------------------------------------------
(***************************************************************************)
(* The theorems.                                                           *)
(***************************************************************************)

\* The driver starts with every file closed and no context attached.
LEMMA InitInv == Init => IInv
<1> SUFFICES ASSUME Init PROVE IInv
  OBVIOUS
<1> USE ConstantsAssumption DEF Init
<1>1. TypeInv
  BY DEF TypeInv, TypeOK, OpenInv, Location, Idle, Flag
<1>2. LockInv /\ FlagInv
  BY DEF LockInv, FlagInv, Holding, Cleaning
<1>3. InfectedIsScanned /\ ContentInv /\ VerdictInv
  BY DEF InfectedIsScanned, ContentInv, VerdictInv, Trusted
<1>4. ReportInv
  BY DEF ReportInv, ConsequencesWereReported, ResponseFlag
<1> QED
  BY <1>1, <1>2, <1>3, <1>4 DEF IInv

\* The invariant is inductive.
LEMMA NextInv == IInv /\ [Next]_vars => IInv'
BY TypeStep, LockStep, FlagStep, InfectedStep, ContentStep, VerdictStep,
   ReportStep DEF IInv

\* Every reachable state of the scanner satisfies the inductive invariant.
THEOREM Invariance == Spec => []IInv
BY InitInv, NextInv, PTL DEF Spec

\* Every variable of the scanner keeps its type.
THEOREM TypeCorrect == Spec => []TypeOK
<1>1. IInv => TypeOK
  BY DEF IInv, TypeInv
<1> QED
  BY <1>1, Invariance, PTL

\* At most one thread is inside the scan of a stream (HsFilterScanStream).
THEOREM ScanExclusion == Spec => []ScanLockExclusive
<1>1. IInv => ScanLockExclusive
  BY DEF IInv, LockInv, ScanLockExclusive
<1> QED
  BY <1>1, Invariance, PTL

\* The comment of HsFilterScanStream holds of every context: infected implies
\* scanned.
THEOREM InfectedImpliesScanned == Spec => []InfectedIsScanned
<1>1. IInv => InfectedIsScanned
  BY DEF IInv
<1> QED
  BY <1>1, Invariance, PTL

\* A context whose Flags are trusted stands for clean content.
THEOREM TrustIsSound == Spec => []TrustedStreamIsClean
<1>1. IInv => TrustedStreamIsClean
  <2> SUFFICES ASSUME IInv, NEW s \in Stream,
                      s \in attached,
                      flags[s] \cap {"SCANNED", "MODIFIED", "INFECTED"} = {"SCANNED"},
                      s \notin blind, ~AnswerHalfApplied(s)
               PROVE  content[s] \notin Infectious
    BY DEF TrustedStreamIsClean
  <2>1. Trusted(s) /\ "INFECTED" \notin flags[s]
    BY DEF Trusted
  <2>2. ~Busy(s, {"clear"}) /\ ~Busy(s, {"clear", "infect"})
    BY DEF Busy, AnswerHalfApplied
  <2>3. examined[s] = content[s]
    BY <2>1, <2>2 DEF IInv, ContentInv
  <2>4. examined[s] \notin Infectious
    BY <2>1, <2>2 DEF IInv, VerdictInv
  <2> QED
    BY <2>3, <2>4
<1> QED
  BY <1>1, Invariance, PTL

\* Refusals, deletions and cached infections go back to a report.
THEOREM ConsequencesAreJustified == Spec => []ConsequencesWereReported
<1>1. IInv => ConsequencesWereReported
  BY DEF IInv, ReportInv
<1> QED
  BY <1>1, Invariance, PTL

\* No executable section of infectious content gets past a scan that the
\* flags say is current.
THEOREM EnforcementIsSound == Spec => MappedImageIsClean
<1> DEFINE A == \A fo \in FileObject :
                  LET s == on[fo] IN
                  (/\ pc[fo] = "release" /\ pc'[fo] = "open"
                   /\ flags[s] \cap {"SCANNED", "MODIFIED"} = {"SCANNED"}
                   /\ s \notin blind
                   /\ content[s] \in Infectious)
                  => image'[fo] = "refused"
<1>1. IInv /\ [Next]_vars => [A]_vars
  <2> SUFFICES ASSUME IInv, Next, NEW fo \in FileObject,
                      pc[fo] = "release", pc'[fo] = "open",
                      flags[on[fo]] \cap {"SCANNED", "MODIFIED"} = {"SCANNED"},
                      on[fo] \notin blind, content[on[fo]] \in Infectious
               PROVE  image'[fo] = "refused"
    BY DEF A
  <2>1. on[fo] \in Stream /\ scanLock[on[fo]] = fo /\ Trusted(on[fo])
    BY OpenOnStream DEF IInv, LockInv, Trusted, Holding
  <2>2. ~Busy(on[fo], {"clear"}) /\ ~Busy(on[fo], {"clear", "infect"})
    BY <2>1 DEF IInv, LockInv, Busy, Holding
  <2>3. fo \in infected
    BY <2>1, <2>2 DEF IInv, ContentInv, VerdictInv
  <2>4. ReleaseScanLock(fo)
    BY DEF IInv, TypeInv, TypeOK, Next, Start, Continue, Goto, Close, local,
           HsPostCreateSkip, HsPostCreatePrefetch, HsPostCreateFound,
           HsPostCreateNotFound, HsGetFileCacheStatus,
           HsPostCreateSetContext, HsPreWrite, HsPreSetInformation,
           HsPreFsControl, WriteLands, SectionPassesThrough,
           HsPreAcquireForSectionSynchronization, AcquireScanLock,
           HsFilterScanFileFails, ServiceScans, ServiceGivesUp,
           SetScanned, ClearModified, SetInfected, SetDelete,
           ReleaseScanLock, HsPreCleanupSkip, HsPreCleanup,
           HsSyncCache, HsPreCleanupDispose, HspStreamContextCleanup,
           HspInstanceContextCleanup
  <2> QED
    BY <2>3, <2>4 DEF IInv, TypeInv, TypeOK, ReleaseScanLock
<1> QED
  BY <1>1, Invariance, PTL DEF MappedImageIsClean, Spec

-----------------------------------------------------------------------------
(***************************************************************************)
(* The protection of the client, for any number of processes: whenever it  *)
(* connects, and whether memory for its entry is there or not.             *)
(***************************************************************************)

\* Every step of the driver and of the processes keeps the types.
LEMMA ProtectorTypeStep ==
  ProtectorTypeOK /\ [ProtectorNext]_protectorVars => ProtectorTypeOK'
<1> SUFFICES ASSUME ProtectorTypeOK, [ProtectorNext]_protectorVars
             PROVE  ProtectorTypeOK'
  OBVIOUS
<1> USE ProtectorAssumption DEF ProtectorTypeOK, driver, connection, histories
<1>1. CASE CreatePort
  BY <1>1 DEF CreatePort
<1>2. CASE InitializeTable
  BY <1>2 DEF InitializeTable
<1>3. CASE RegisterObCallback
  BY <1>3 DEF RegisterObCallback
<1>4. CASE ObRegisterCallbacksFails
  BY <1>4 DEF ObRegisterCallbacksFails
<1>5. CASE RegisterProcessNotify
  BY <1>5 DEF RegisterProcessNotify
<1>6. CASE HsFilterUnload
  BY <1>6 DEF HsFilterUnload
<1>7. CASE FltUnregisterFilter
  BY <1>7 DEF FltUnregisterFilter
<1>8. CASE UnregisterProcessNotify
  BY <1>8 DEF UnregisterProcessNotify
<1>9. CASE HsUnRegisterProtector
  BY <1>9 DEF HsUnRegisterProtector
<1>10. CASE ProtectClient
  BY <1>10 DEF ProtectClient, HsProtectProcess
<1>11. CASE HspFilterPortDisconnect
  BY <1>11 DEF HspFilterPortDisconnect
<1>12. ASSUME NEW p \in Process, HspFilterPortConnect(p) PROVE ProtectorTypeOK'
  BY <1>12 DEF HspFilterPortConnect
<1>13. ASSUME NEW p \in Process, ClearClientProcess(p) PROVE ProtectorTypeOK'
  BY <1>13 DEF ClearClientProcess
<1>14. ASSUME NEW p \in Process, ProcessStarts(p) PROVE ProtectorTypeOK'
  BY <1>14 DEF ProcessStarts, InCallback
<1>15. ASSUME NEW p \in Process, HsCreateProcessNotifyEx(p) PROVE ProtectorTypeOK'
  BY <1>15 DEF HsCreateProcessNotifyEx, HsUnProtectProcess, InCallback
<1>16. ASSUME NEW p \in Process, NEW q \in Process, HspObPreCallback(q, p)
       PROVE  ProtectorTypeOK'
  BY <1>16 DEF HspObPreCallback
<1>17. CASE UNCHANGED protectorVars
  BY <1>17 DEF protectorVars
<1> QED
  BY <1>1, <1>2, <1>3, <1>4, <1>5, <1>6, <1>7, <1>8, <1>9, <1>10, <1>11, <1>12, <1>13,
     <1>14, <1>15, <1>16, <1>17
     DEF ProtectorNext

\* The driver starts unloaded, with every variable of its type.
THEOREM ProtectorTypeCorrect == ProtectorSpec => []ProtectorTypeOK
<1>1. ProtectorInit => ProtectorTypeOK
  BY DEF ProtectorInit, ProtectorTypeOK
<1> QED
  BY <1>1, ProtectorTypeStep, PTL DEF ProtectorSpec

-----------------------------------------------------------------------------
\* Where the driver is decides what is set up, and whether there can be a
\* client.
LoadInv ==
  /\ load \in {"tabled", "observing", "loaded"} => ready
  /\ load \in {"observing", "loaded"} => observing
  /\ observing => ready /\ load \notin {"unloaded", "listening", "tabled", "failed"}
  /\ load \in {"unloaded", "closing", "unhooking", "unprotecting"} => ~serverPort
  /\ load \in {"unloaded", "unhooking", "unprotecting"} => peer = Nobody /\ closing = {}
  /\ load \in {"unloaded", "listening"} => ~ready
  /\ load = "listening" /\ connect = "done" => broken

\* ClientProcess names the process that is connected, or one that is about to
\* set it to NULL; these have connected and not exited, or are exiting.
ClientInv ==
  /\ client # Nobody => client = peer \/ client \in closing
  /\ connect = "protect" => client \in {peer, Nobody} /\ peer \in alive
  /\ peer \in alive => peer \in admitted
  /\ load # "closing" => closing \cap alive \subseteq admitted

\* LoadInv and ClientInv hold together of whatever the driver has come to.
StageInv == ProtectorTypeOK /\ LoadInv /\ ClientInv

\* "Marks a process as protected" (Protect.c:155): from the end of its connect,
\* a client that runs is in the table, unless no entry could be made for it.
ClientIsListed ==
  connect = "done" /\ ready /\ peer \in alive => peer \in table \cup unlisted

\* Each stage of loading finds what the one before has set up; a callback of
\* the port keeps its process from exiting.
LEMMA StageStep == StageInv /\ [ProtectorNext]_protectorVars => StageInv'
<1> SUFFICES ASSUME StageInv, [ProtectorNext]_protectorVars
             PROVE  LoadInv' /\ ClientInv'
  BY ProtectorTypeStep DEF StageInv
<1> DEFINE Goal == LoadInv /\ ClientInv
<1> USE ProtectorAssumption
    DEF StageInv, ProtectorTypeOK, LoadInv, ClientInv, driver, connection, histories
<1>1. CASE CreatePort
  BY <1>1 DEF CreatePort
<1>2. CASE InitializeTable
  BY <1>2 DEF InitializeTable
<1>3. CASE RegisterObCallback
  BY <1>3 DEF RegisterObCallback
<1>4. CASE ObRegisterCallbacksFails
  BY <1>4 DEF ObRegisterCallbacksFails
<1>5. CASE RegisterProcessNotify
  BY <1>5 DEF RegisterProcessNotify
<1>6. CASE HsFilterUnload
  BY <1>6 DEF HsFilterUnload
<1>7. CASE FltUnregisterFilter
  BY <1>7 DEF FltUnregisterFilter
<1>8. CASE UnregisterProcessNotify
  BY <1>8 DEF UnregisterProcessNotify
<1>9. CASE HsUnRegisterProtector
  BY <1>9 DEF HsUnRegisterProtector
<1>10. CASE ProtectClient
  <2>1. /\ connect = "protect" /\ connect' = "done"
        /\ ~ready => broken'
        /\ ready => broken' = broken
        /\ UNCHANGED <<load, serverPort, ready, observing, alive, peer, closing, client, admitted>>
    BY <1>10 DEF ProtectClient
  <2> QED
    BY <2>1
<1>11. CASE HspFilterPortDisconnect
  BY <1>11 DEF HspFilterPortDisconnect
<1>12. ASSUME NEW p \in Process, HspFilterPortConnect(p) PROVE Goal'
  BY <1>12 DEF HspFilterPortConnect
<1>13. ASSUME NEW p \in Process, ClearClientProcess(p) PROVE Goal'
  BY <1>13 DEF ClearClientProcess
<1>14. ASSUME NEW p \in Process, ProcessStarts(p) PROVE Goal'
  BY <1>14 DEF ProcessStarts, InCallback
<1>15. ASSUME NEW p \in Process, HsCreateProcessNotifyEx(p) PROVE Goal'
  BY <1>15 DEF HsCreateProcessNotifyEx, HsUnProtectProcess, InCallback
<1>16. ASSUME NEW p \in Process, NEW q \in Process, HspObPreCallback(q, p)
       PROVE  Goal'
  BY <1>16 DEF HspObPreCallback
<1>17. CASE UNCHANGED protectorVars
  BY <1>17 DEF protectorVars
<1> QED
  BY <1>1, <1>2, <1>3, <1>4, <1>5, <1>6, <1>7, <1>8, <1>9, <1>10, <1>11, <1>12, <1>13,
     <1>14, <1>15, <1>16, <1>17
     DEF ProtectorNext

\* A process leaves the table as it exits, or is recorded as one whose exit was
\* missed.
LEMMA TableStep ==
  StageInv /\ TableHoldsClients /\ [ProtectorNext]_protectorVars => TableHoldsClients'
<1> SUFFICES ASSUME StageInv, TableHoldsClients, [ProtectorNext]_protectorVars
             PROVE  TableHoldsClients'
  OBVIOUS
<1> USE ProtectorAssumption
    DEF StageInv, ProtectorTypeOK, LoadInv, ClientInv, TableHoldsClients, driver,
        connection, histories
<1>1. CASE CreatePort
  BY <1>1 DEF CreatePort
<1>2. CASE InitializeTable
  BY <1>2 DEF InitializeTable
<1>3. CASE RegisterObCallback
  BY <1>3 DEF RegisterObCallback
<1>4. CASE ObRegisterCallbacksFails
  BY <1>4 DEF ObRegisterCallbacksFails
<1>5. CASE RegisterProcessNotify
  BY <1>5 DEF RegisterProcessNotify
<1>6. CASE HsFilterUnload
  BY <1>6 DEF HsFilterUnload
<1>7. CASE FltUnregisterFilter
  BY <1>7 DEF FltUnregisterFilter
<1>8. CASE UnregisterProcessNotify
  BY <1>8 DEF UnregisterProcessNotify
<1>9. CASE HsUnRegisterProtector
  BY <1>9 DEF HsUnRegisterProtector
<1>10. CASE ProtectClient
  BY <1>10 DEF ProtectClient, HsProtectProcess
<1>11. CASE HspFilterPortDisconnect
  BY <1>11 DEF HspFilterPortDisconnect
<1>12. ASSUME NEW p \in Process, HspFilterPortConnect(p) PROVE TableHoldsClients'
  BY <1>12 DEF HspFilterPortConnect
<1>13. ASSUME NEW p \in Process, ClearClientProcess(p) PROVE TableHoldsClients'
  BY <1>13 DEF ClearClientProcess
<1>14. ASSUME NEW p \in Process, ProcessStarts(p) PROVE TableHoldsClients'
  BY <1>14 DEF ProcessStarts, InCallback
<1>15. ASSUME NEW p \in Process, HsCreateProcessNotifyEx(p) PROVE TableHoldsClients'
  BY <1>15 DEF HsCreateProcessNotifyEx, HsUnProtectProcess, InCallback
<1>16. ASSUME NEW p \in Process, NEW q \in Process, HspObPreCallback(q, p)
       PROVE  TableHoldsClients'
  BY <1>16 DEF HspObPreCallback
<1>17. CASE UNCHANGED protectorVars
  BY <1>17 DEF protectorVars
<1> QED
  BY <1>1, <1>2, <1>3, <1>4, <1>5, <1>6, <1>7, <1>8, <1>9, <1>10, <1>11, <1>12, <1>13,
     <1>14, <1>15, <1>16, <1>17
     DEF ProtectorNext

\* Nothing takes a client that runs out of the table, and the object callback
\* finds it there.
LEMMA ProtectionStep ==
  StageInv /\ ClientIsListed /\ ClientIsOutOfReach /\ [ProtectorNext]_protectorVars
  => ClientIsListed' /\ ClientIsOutOfReach'
<1> SUFFICES ASSUME StageInv, ClientIsListed, ClientIsOutOfReach,
                    [ProtectorNext]_protectorVars
             PROVE  ClientIsListed' /\ ClientIsOutOfReach'
  OBVIOUS
<1> DEFINE Goal == ClientIsListed /\ ClientIsOutOfReach
<1> USE ProtectorAssumption
    DEF StageInv, ProtectorTypeOK, LoadInv, ClientInv, ClientIsListed,
        ClientIsOutOfReach, driver, connection, histories
<1>1. CASE CreatePort
  BY <1>1 DEF CreatePort
<1>2. ASSUME InitializeTable, ~broken PROVE Goal'
  BY <1>2 DEF InitializeTable
<1>3. CASE RegisterObCallback
  BY <1>3 DEF RegisterObCallback
<1>4. CASE ObRegisterCallbacksFails
  BY <1>4 DEF ObRegisterCallbacksFails
<1>5. CASE RegisterProcessNotify
  BY <1>5 DEF RegisterProcessNotify
<1>6. CASE HsFilterUnload
  BY <1>6 DEF HsFilterUnload
<1>7. CASE FltUnregisterFilter
  BY <1>7 DEF FltUnregisterFilter
<1>8. CASE UnregisterProcessNotify
  BY <1>8 DEF UnregisterProcessNotify
<1>9. CASE HsUnRegisterProtector
  BY <1>9 DEF HsUnRegisterProtector
<1>10. CASE ProtectClient
  BY <1>10 DEF ProtectClient, HsProtectProcess
<1>11. CASE HspFilterPortDisconnect
  BY <1>11 DEF HspFilterPortDisconnect
<1>12. ASSUME NEW p \in Process, HspFilterPortConnect(p) PROVE Goal'
  BY <1>12 DEF HspFilterPortConnect
<1>13. ASSUME NEW p \in Process, ClearClientProcess(p) PROVE Goal'
  BY <1>13 DEF ClearClientProcess
<1>14. ASSUME NEW p \in Process, ProcessStarts(p) PROVE Goal'
  BY <1>14 DEF ProcessStarts, InCallback
<1>15. ASSUME NEW p \in Process, HsCreateProcessNotifyEx(p) PROVE Goal'
  BY <1>15 DEF HsCreateProcessNotifyEx, HsUnProtectProcess, InCallback
<1>16. ASSUME NEW p \in Process, NEW q \in Process, HspObPreCallback(q, p)
       PROVE  Goal'
  BY <1>16 DEF HspObPreCallback, Stripped
<1>17. CASE UNCHANGED protectorVars
  BY <1>17 DEF protectorVars
<1> QED
  BY <1>1, <1>2, <1>3, <1>4, <1>5, <1>6, <1>7, <1>8, <1>9, <1>10, <1>11, <1>12, <1>13,
     <1>14, <1>15, <1>16, <1>17
     DEF ProtectorNext

\* The driver starts unloaded, with an empty table and nobody connected.
LEMMA ProtectorInitInv ==
  ProtectorInit => /\ StageInv /\ TableHoldsClients
                   /\ ClientIsListed /\ ClientIsOutOfReach
  BY ProtectorAssumption
     DEF ProtectorInit, StageInv, ProtectorTypeOK, LoadInv, ClientInv,
         TableHoldsClients, ClientIsListed, ClientIsOutOfReach

\* The table never protects a later process at the address of an earlier
\* client, unless that one exited before exits were notified.
THEOREM TableIsCurrent == ProtectorSpec => []TableHoldsClients
  BY ProtectorInitInv, StageStep, TableStep, PTL DEF ProtectorSpec

\* A client that runs and has connected is in the table, at any stage at which
\* the table can be used, unless no entry could be made for it.
THEOREM Protection == ProtectorSpec => []ClientIsListed
  BY ProtectorInitInv, StageStep, ProtectionStep, PTL DEF ProtectorSpec

\* HspObPreCallback strips every handle that another process gets on a client
\* with an entry, from the end of its connect to its exit.
THEOREM OutOfReach == ProtectorSpec => []ClientIsOutOfReach
  BY ProtectorInitInv, StageStep, ProtectionStep, PTL DEF ProtectorSpec

\* Whatever connections begin and end in each other's way, the process that
\* HsPreAcquireForSectionSynchronization exempts is one that connected.
THEOREM Exemption == ProtectorSpec => []ExemptIsClient
<1>1. StageInv => ExemptIsClient
  BY ProtectorAssumption DEF StageInv, ProtectorTypeOK, LoadInv, ClientInv, ExemptIsClient
<1> QED
  BY <1>1, ProtectorInitInv, StageStep, PTL DEF ProtectorSpec

-----------------------------------------------------------------------------
(***************************************************************************)
(* Ntfs.  Most of what the reader does is a loop over a list, so the       *)
(* proofs need induction over its length.  The library states that over    *)
(* predicates; here it is a lemma about sets of numbers, from the fact     *)
(* that < is well founded.                                                 *)
(***************************************************************************)

\* A set of numbers that is not empty has a least one.
LEMMA LeastNat ==
  ASSUME NEW T \in SUBSET Nat, T # {}
  PROVE  \E n \in T : \A m \in T : n <= m
<1> DEFINE R == {p \in Nat \X Nat : p[1] < p[2]}
<1>1. IsWellFoundedOn(R, Nat)
  BY NatLessThanWellFounded DEF OpToRel
<1>2. PICK x \in T : \A y \in T : <<y, x>> \notin R
  BY <1>1, WFMin
<1>3. ASSUME NEW y \in T PROVE x <= y
  <2>1. <<y, x>> \in Nat \X Nat /\ <<y, x>> \notin R
    BY <1>2
  <2>2. ~(y < x)
    BY <2>1
  <2>3. x \in Nat /\ y \in Nat
    OBVIOUS
  <2> HIDE DEF R
  <2> QED
    BY <2>2, <2>3
<1> QED
  BY <1>3

\* A set with 0, and with the successor of each of its numbers, has all numbers.
LEMMA Induction ==
  ASSUME NEW T, 0 \in T, \A n \in Nat : n \in T => n + 1 \in T
  PROVE  Nat \subseteq T
<1> DEFINE F == {n \in Nat : n \notin T}
<1>1. SUFFICES ASSUME F # {} PROVE FALSE
  OBVIOUS
<1>2. PICK n \in F : \A m \in F : n <= m
  <2> HIDE DEF F
  <2>1. F \in SUBSET Nat
    BY DEF F
  <2> QED
    BY <1>1, <2>1, LeastNat
<1>3. n \in Nat /\ n # 0 /\ n \notin T
  OBVIOUS
<1>4. n - 1 \in Nat /\ n - 1 \notin F
  BY <1>2, <1>3
<1>5. n - 1 \in T
  BY <1>4
<1>6. (n - 1) + 1 \in T
  BY <1>4, <1>5
<1> QED
  BY <1>3, <1>6

\* A running sum starts at 0 and adds one number after the other.
LEMMA SumsDef ==
  ASSUME NEW s, Len(s) \in Nat, \A i \in 1 .. Len(s) : s[i] \in Int
  PROVE  /\ Sums(s)[0] = 0
         /\ \A i \in 1 .. Len(s) : Sums(s)[i] = Sums(s)[i - 1] + s[i]
         /\ \A i \in 0 .. Len(s) : Sums(s)[i] \in Int
<1> DEFINE IsSum(f, n) == f = [i \in 0 .. n |-> IF i = 0 THEN 0 ELSE f[i - 1] + s[i]]
           T == {n \in Nat : n <= Len(s) => \E f : IsSum(f, n)}
<1>1. 0 \in T
  <2>1. IsSum([i \in 0 .. 0 |-> 0], 0)
    OBVIOUS
  <2> QED
    BY <2>1
<1>2. ASSUME NEW n \in Nat, n \in T PROVE n + 1 \in T
  <2> SUFFICES ASSUME n + 1 <= Len(s) PROVE \E f : IsSum(f, n + 1)
    OBVIOUS
  <2>1. PICK f : IsSum(f, n)
    BY <1>2
  <2> DEFINE g == [i \in 0 .. n + 1 |-> IF i <= n THEN f[i] ELSE f[n] + s[n + 1]]
  <2>2. ASSUME NEW i \in 0 .. n + 1 PROVE g[i] = IF i = 0 THEN 0 ELSE g[i - 1] + s[i]
    <3>1. CASE i <= n
      <4>1. i \in 0 .. n /\ (i # 0 => i - 1 \in 0 .. n + 1 /\ i - 1 <= n)
        BY <3>1
      <4>2. g[i] = f[i] /\ (i # 0 => g[i - 1] = f[i - 1])
        BY <4>1
      <4>3. f[i] = IF i = 0 THEN 0 ELSE f[i - 1] + s[i]
        BY <2>1, <4>1
      <4> QED
        BY <4>2, <4>3
    <3>2. CASE ~(i <= n)
      <4>1. i = n + 1 /\ i # 0 /\ n \in 0 .. n + 1 /\ i - 1 = n
        BY <3>2
      <4> QED
        BY <4>1
    <3> QED
      BY <3>1, <3>2
  <2>3. IsSum(g, n + 1)
    <3> HIDE DEF g
    <3>1. g = [i \in 0 .. n + 1 |-> g[i]]
      BY DEF g
    <3> QED
      BY <2>2, <3>1
  <2> QED
    BY <2>3
<1>3. Len(s) \in T
  <2> HIDE DEF T
  <2> QED
    BY <1>1, <1>2, Induction
<1>4. PICK f : IsSum(f, Len(s))
  BY <1>3
<1>5. IsSum(Sums(s), Len(s))
  BY <1>4 DEF Sums
<1> DEFINE r == Sums(s)
<1>6. /\ r[0] = 0
      /\ \A i \in 1 .. Len(s) : r[i] = r[i - 1] + s[i]
  <2>1. ASSUME NEW i \in 0 .. Len(s) PROVE r[i] = IF i = 0 THEN 0 ELSE r[i - 1] + s[i]
    <3> HIDE DEF r
    <3> QED
      BY <1>5 DEF r
  <2> HIDE DEF r
  <2> QED
    BY <2>1
<1> HIDE DEF r
<1> DEFINE U == {n \in Nat : n <= Len(s) => r[n] \in Int}
<1>7. Nat \subseteq U
  <2>1. 0 \in U
    BY <1>6
  <2>2. ASSUME NEW n \in Nat, n \in U PROVE n + 1 \in U
    <3> SUFFICES ASSUME n + 1 <= Len(s) PROVE r[n + 1] \in Int
      OBVIOUS
    <3>1. r[n] \in Int /\ n + 1 \in 1 .. Len(s)
      BY <2>2
    <3>2. r[n + 1] = r[n] + s[n + 1]
      BY <1>6, <3>1
    <3> QED
      BY <3>1, <3>2
  <2> HIDE DEF U
  <2> QED
    BY <2>1, <2>2, Induction
<1>8. \A i \in 0 .. Len(s) : r[i] \in Int
  BY <1>7
<1> QED
  BY <1>6, <1>8 DEF r

\* Sums of natural numbers grow.
LEMMA SumsGrow ==
  ASSUME NEW s, Len(s) \in Nat, \A i \in 1 .. Len(s) : s[i] \in Nat
  PROVE  /\ \A i \in 0 .. Len(s) : Sums(s)[i] \in Nat
         /\ \A i, j \in 0 .. Len(s) : i <= j => Sums(s)[i] <= Sums(s)[j]
<1> DEFINE r == Sums(s)
<1>1. /\ r[0] = 0
      /\ \A i \in 1 .. Len(s) : r[i] = r[i - 1] + s[i]
      /\ \A i \in 0 .. Len(s) : r[i] \in Int
  BY SumsDef
<1> HIDE DEF r
<1> DEFINE T == {n \in Nat : n <= Len(s) => r[n] \in Nat /\ \A i \in 0 .. n : r[i] <= r[n]}
<1>2. Nat \subseteq T
  <2>1. 0 \in T
    BY <1>1
  <2>2. ASSUME NEW n \in Nat, n \in T PROVE n + 1 \in T
    <3> SUFFICES ASSUME n + 1 <= Len(s)
                 PROVE  r[n + 1] \in Nat /\ \A i \in 0 .. n + 1 : r[i] <= r[n + 1]
      OBVIOUS
    <3>1. r[n] \in Nat /\ \A i \in 0 .. n : r[i] <= r[n]
      BY <2>2
    <3>2. n + 1 \in 1 .. Len(s) /\ s[n + 1] \in Nat
      OBVIOUS
    <3>3. r[n + 1] = r[n] + s[n + 1]
      BY <1>1, <3>2
    <3>4. r[n + 1] \in Nat /\ r[n] <= r[n + 1]
      BY <3>1, <3>2, <3>3
    <3>5. ASSUME NEW i \in 0 .. n + 1 PROVE r[i] <= r[n + 1]
      <4>1. CASE i = n + 1
        BY <4>1, <3>4
      <4>2. CASE i # n + 1
        <5>1. i \in 0 .. n /\ r[i] \in Int
          BY <4>2, <1>1, <3>2
        <5> QED
          BY <5>1, <3>1, <3>4
      <4> QED
        BY <4>1, <4>2
    <3> QED
      BY <3>4, <3>5
  <2> HIDE DEF T
  <2> QED
    BY <2>1, <2>2, Induction
<1>3. ASSUME NEW i \in 0 .. Len(s) PROVE r[i] \in Nat
  BY <1>2
<1>4. ASSUME NEW i \in 0 .. Len(s), NEW j \in 0 .. Len(s), i <= j PROVE r[i] <= r[j]
  <2>1. j \in T /\ i \in 0 .. j
    BY <1>2, <1>4
  <2> QED
    BY <2>1
<1> QED
  BY <1>3, <1>4 DEF r

\* The least element.
LEMMA MinDef ==
  ASSUME NEW S \in SUBSET Nat, S # {}
  PROVE  Min(S) \in S /\ \A x \in S : Min(S) <= x
  BY LeastNat DEF Min

\* "all" is what the first m sequences give one after the other: the elements of
\* each follow those of the ones before, and there are no others.
Joins(S, ss, at, all, m) ==
  /\ all \in Seq(S) /\ Len(all) = at[m]
  /\ \A i \in 1 .. m : \A k \in 1 .. Len(ss[i]) : all[at[i - 1] + k] = ss[i][k]
  /\ \A p \in 1 .. at[m] : \E i \in 1 .. m : \E k \in 1 .. Len(ss[i]) : p = at[i - 1] + k

\* The lengths of the sequences, added up.
Starts(ss) == Sums([i \in 1 .. Len(ss) |-> Len(ss[i])])

\* Each sequence starts where the one before ends.
LEMMA StartsDef ==
  ASSUME NEW S, NEW ss \in Seq(Seq(S))
  PROVE  /\ Starts(ss)[0] = 0
         /\ \A i \in 1 .. Len(ss) : /\ ss[i] \in Seq(S) /\ Len(ss[i]) \in Nat
                                    /\ Starts(ss)[i] = Starts(ss)[i - 1] + Len(ss[i])
         /\ \A i \in 0 .. Len(ss) : Starts(ss)[i] \in Nat
         /\ \A i, j \in 0 .. Len(ss) : i <= j => Starts(ss)[i] <= Starts(ss)[j]
<1> DEFINE lens == [i \in 1 .. Len(ss) |-> Len(ss[i])]
<1>1. Len(ss) \in Nat /\ \A i \in 1 .. Len(ss) : ss[i] \in Seq(S) /\ Len(ss[i]) \in Nat
  OBVIOUS
<1>2. Len(lens) = Len(ss) /\ \A i \in 1 .. Len(ss) : lens[i] = Len(ss[i])
  BY <1>1
<1>3. Starts(ss) = Sums(lens)
  BY DEF Starts
<1> HIDE DEF lens
<1>4. /\ \A i \in 1 .. Len(lens) : lens[i] \in Nat /\ lens[i] \in Int
      /\ Len(lens) \in Nat
  BY <1>1, <1>2
<1> QED
  BY <1>1, <1>2, <1>3, <1>4, SumsDef, SumsGrow

\* The elements of s \o t.
LEMMA Concatenation ==
  ASSUME NEW S, NEW s \in Seq(S), NEW t \in Seq(S)
  PROVE  /\ s \o t \in Seq(S) /\ Len(s \o t) = Len(s) + Len(t)
         /\ \A i \in 1 .. Len(s) : (s \o t)[i] = s[i]
         /\ \A i \in 1 .. Len(t) : (s \o t)[Len(s) + i] = t[i]
  OBVIOUS

\* The k-th of n places after a is one of the first m, if those n are.
LEMMA Within ==
  ASSUME NEW a \in Nat, NEW b \in Nat, NEW n \in Nat, NEW m \in Nat, b = a + n, b <= m,
         NEW k \in 1 .. n
  PROVE  a + k \in 1 .. m
  OBVIOUS

\* One sequence more.
LEMMA JoinsNext ==
  ASSUME NEW S, NEW ss \in Seq(Seq(S)), NEW m \in Nat, m + 1 <= Len(ss),
         NEW all, Joins(S, ss, Starts(ss), all, m)
  PROVE  Joins(S, ss, Starts(ss), all \o ss[m + 1], m + 1)
<1> DEFINE at == Starts(ss)
           h  == m + 1
           n  == Len(ss)
<1>1. /\ \A i \in 1 .. n : ss[i] \in Seq(S) /\ Len(ss[i]) \in Nat /\ at[i] = at[i - 1] + Len(ss[i])
      /\ \A i \in 0 .. n : at[i] \in Nat
      /\ \A i, j \in 0 .. n : i <= j => at[i] <= at[j]
  BY StartsDef
<1>2. h \in 1 .. n /\ h - 1 = m /\ m \in 0 .. n /\ h \in Nat /\ n \in Nat
  OBVIOUS
<1>3. /\ all \in Seq(S) /\ Len(all) = at[m]
      /\ \A i \in 1 .. m : \A k \in 1 .. Len(ss[i]) : all[at[i - 1] + k] = ss[i][k]
      /\ \A p \in 1 .. at[m] : \E i \in 1 .. m : \E k \in 1 .. Len(ss[i]) : p = at[i - 1] + k
  BY DEF Joins
<1> DEFINE new == ss[h]
           w   == all \o new
<1> HIDE DEF at, h, n, new
<1>4. /\ new \in Seq(S) /\ Len(new) \in Nat /\ at[m] \in Nat /\ at[h] = at[m] + Len(new)
  BY <1>1, <1>2 DEF new
<1>5. w \in Seq(S) /\ Len(w) = at[h]
  <2>1. all \in Seq(S) /\ Len(all) = at[m]
    BY <1>3
  <2>2. w \in Seq(S) /\ Len(w) = Len(all) + Len(new)
    BY <2>1, <1>4, Concatenation
  <2> HIDE DEF w
  <2> QED
    BY <2>1, <2>2, <1>4
<1>6. /\ \A q \in 1 .. at[m] : w[q] = all[q]
      /\ \A k \in 1 .. Len(new) : w[at[m] + k] = new[k]
  <2>1. all \in Seq(S) /\ Len(all) = at[m]
    BY <1>3
  <2>2. all \in Seq(S) /\ new \in Seq(S)
    BY <1>4, <2>1
  <2>3. /\ \A i \in 1 .. Len(all) : w[i] = all[i]
        /\ \A i \in 1 .. Len(new) : w[Len(all) + i] = new[i]
    BY <2>2
  <2> HIDE DEF w
  <2> QED
    BY <2>1, <2>2, <2>3
<1> HIDE DEF w
<1>7. ASSUME NEW i \in 1 .. h, NEW k \in 1 .. Len(ss[i]) PROVE w[at[i - 1] + k] = ss[i][k]
  <2>1. CASE i = h
    BY <2>1, <1>2, <1>6 DEF new
  <2>2. CASE i # h
    <3>1. i \in 1 .. m /\ i \in 1 .. n /\ i - 1 \in 0 .. n /\ i \in 0 .. n /\ i <= m
      BY <2>2, <1>2
    <3>2. /\ at[i - 1] \in Nat /\ at[i] \in Nat /\ at[i] = at[i - 1] + Len(ss[i])
          /\ at[i] <= at[m] /\ Len(ss[i]) \in Nat
      BY <3>1, <1>1, <1>2
    <3>3. at[i - 1] + k \in 1 .. at[m]
      BY <3>2, <1>4, Within
    <3> QED
      BY <3>1, <3>3, <1>3, <1>6
  <2> QED
    BY <2>1, <2>2
<1>8. ASSUME NEW p \in 1 .. at[h]
      PROVE  \E i \in 1 .. h : \E k \in 1 .. Len(ss[i]) : p = at[i - 1] + k
  <2>1. CASE p <= at[m]
    <3>1. p \in 1 .. at[m]
      BY <2>1, <1>4
    <3>2. PICK i \in 1 .. m : \E k \in 1 .. Len(ss[i]) : p = at[i - 1] + k
      BY <3>1, <1>3
    <3>3. i \in 1 .. h
      BY <1>2
    <3> QED
      BY <3>2, <3>3
  <2>2. CASE ~(p <= at[m])
    <3>1. p - at[m] \in 1 .. Len(new) /\ p = at[m] + (p - at[m])
      BY <2>2, <1>4
    <3>2. h \in 1 .. h /\ h - 1 = m /\ ss[h] = new
      BY <1>2 DEF new
    <3> QED
      BY <3>1, <3>2
  <2> QED
    BY <2>1, <2>2
<1> QED
  BY <1>5, <1>7, <1>8 DEF Joins, w, at, new, h

\* The recursive function in FlattenSeq.
LEMMA FlattenExists ==
  ASSUME NEW ss, NEW n \in Nat, n = Len(ss), n # 0
  PROVE  \E f : f = [i \in 1 .. n |-> IF i = 1 THEN ss[i] ELSE f[i - 1] \o ss[i]]
<1> DEFINE Flat(f, m) == f = [i \in 1 .. m |-> IF i = 1 THEN ss[i] ELSE f[i - 1] \o ss[i]]
           T == {m \in Nat : \E f : Flat(f, m)}
<1>1. 0 \in T
  <2>1. Flat([i \in 1 .. 0 |-> << >>], 0)
    OBVIOUS
  <2> QED
    BY <2>1
<1>2. ASSUME NEW m \in Nat, m \in T PROVE m + 1 \in T
  <2>1. PICK f : Flat(f, m)
    BY <1>2
  <2> DEFINE g == [i \in 1 .. m + 1 |-> IF i <= m THEN f[i] ELSE
                                         IF i = 1 THEN ss[i] ELSE f[i - 1] \o ss[i]]
  <2>2. ASSUME NEW i \in 1 .. m + 1 PROVE g[i] = IF i = 1 THEN ss[i] ELSE g[i - 1] \o ss[i]
    <3>1. CASE i <= m
      <4>1. i \in 1 .. m /\ (i # 1 => i - 1 \in 1 .. m + 1 /\ i - 1 <= m)
        BY <3>1
      <4>2. g[i] = f[i] /\ (i # 1 => g[i - 1] = f[i - 1])
        BY <4>1
      <4>3. f[i] = IF i = 1 THEN ss[i] ELSE f[i - 1] \o ss[i]
        BY <2>1, <4>1
      <4> HIDE DEF g
      <4> QED
        BY <4>2, <4>3
    <3>2. CASE ~(i <= m)
      <4>1. i # 1 => i - 1 \in 1 .. m + 1 /\ i - 1 <= m
        BY <3>2
      <4>2. /\ g[i] = IF i = 1 THEN ss[i] ELSE f[i - 1] \o ss[i]
            /\ i # 1 => g[i - 1] = f[i - 1]
        BY <3>2, <4>1
      <4> HIDE DEF g
      <4> QED
        BY <4>2
    <3> QED
      BY <3>1, <3>2
  <2>3. g = [i \in 1 .. m + 1 |-> g[i]]
    OBVIOUS
  <2> HIDE DEF g
  <2>4. Flat(g, m + 1)
    BY <2>2, <2>3
  <2>5. m + 1 \in Nat
    OBVIOUS
  <2> HIDE DEF Flat
  <2> QED
    BY <2>4, <2>5
<1>3. n \in T
  <2> HIDE DEF T
  <2> QED
    BY <1>1, <1>2, Induction
<1> QED
  BY <1>3

\* What FlattenSeq gives.
LEMMA FlattenJoins ==
  ASSUME NEW S, NEW ss \in Seq(Seq(S))
  PROVE  Joins(S, ss, Starts(ss), FlattenSeq(ss), Len(ss))
<1> DEFINE n  == Len(ss)
           at == Starts(ss)
<1>1. n \in Nat /\ at[0] = 0
  BY StartsDef
<1>2. Joins(S, ss, at, << >>, 0)
  BY <1>1 DEF Joins
<1>3. CASE n = 0
  <2>1. ss = << >>
    BY <1>3
  <2>2. FlattenSeq(ss) = << >>
    BY <1>3, <2>1 DEF FlattenSeq
  <2> QED
    BY <1>2, <1>3, <2>2
<1>4. CASE n # 0
  <2> DEFINE c == CHOOSE f : f = [i \in 1 .. n |-> IF i = 1 THEN ss[i] ELSE f[i - 1] \o ss[i]]
  <2>1. FlattenSeq(ss) = c[n]
    BY <1>4, Zenon DEF FlattenSeq
  <2>2. c = [i \in 1 .. n |-> IF i = 1 THEN ss[i] ELSE c[i - 1] \o ss[i]]
    BY <1>1, <1>4, FlattenExists, Zenon
  <2> HIDE DEF c, n, at
  <2>3. \A i \in 1 .. n : c[i] = IF i = 1 THEN ss[i] ELSE c[i - 1] \o ss[i]
    BY <2>2
  <2> DEFINE T == {m \in Nat : m + 1 <= n => Joins(S, ss, at, c[m + 1], m + 1)}
  <2>4. 0 \in T
    <3>1. 1 \in 1 .. n /\ 0 + 1 = 1 /\ 0 + 1 <= n
      BY <1>1, <1>4
    <3>2. c[0 + 1] = << >> \o ss[0 + 1]
      <4>1. c[1] = ss[1] /\ ss[1] \in Seq(S)
        BY <2>3, <3>1 DEF n
      <4> QED
        BY <4>1, <3>1
    <3>3. Joins(S, ss, at, << >> \o ss[0 + 1], 0 + 1)
      BY <1>2, <3>1, JoinsNext DEF at, n
    <3> QED
      BY <3>2, <3>3
  <2>5. ASSUME NEW m \in Nat, m \in T PROVE m + 1 \in T
    <3> SUFFICES ASSUME (m + 1) + 1 <= n PROVE Joins(S, ss, at, c[(m + 1) + 1], (m + 1) + 1)
      BY <2>5
    <3>1. /\ m + 1 \in Nat /\ m + 1 <= n /\ (m + 1) + 1 \in 1 .. n
          /\ (m + 1) + 1 # 1 /\ ((m + 1) + 1) - 1 = m + 1
      BY <1>1
    <3>2. Joins(S, ss, at, c[m + 1], m + 1)
      BY <2>5, <3>1
    <3>3. c[(m + 1) + 1] = c[m + 1] \o ss[(m + 1) + 1]
      BY <2>3, <3>1
    <3>4. Joins(S, ss, at, c[m + 1] \o ss[(m + 1) + 1], (m + 1) + 1)
      BY <3>1, <3>2, JoinsNext DEF at, n
    <3> QED
      BY <3>3, <3>4
  <2>6. n - 1 \in T
    <3> HIDE DEF T
    <3>1. Nat \subseteq T
      BY <2>4, <2>5, Induction
    <3> QED
      BY <1>1, <1>4, <3>1
  <2>7. (n - 1) + 1 = n /\ n <= n
    BY <1>1
  <2>8. Joins(S, ss, at, c[n], n)
    BY <2>6, <2>7
  <2> QED
    BY <2>1, <2>8 DEF n, at
<1> QED
  BY <1>3, <1>4

-----------------------------------------------------------------------------

\* Products are natural numbers: a leaf of its own, away from other arithmetic.
LEMMA Product ==
  ASSUME NEW a \in Nat, NEW b \in Nat
  PROVE  a * b \in Nat
  OBVIOUS

\* An offset of 1 to 8 bytes is read back as the distance that was written.
LEMMA SignExtendDef ==
  ASSUME NEW d \in Int, NEW bytes \in 1 .. 8,
         -(2 ^ (8 * bytes)) <= 2 * d, 2 * d < 2 ^ (8 * bytes)
  PROVE  SignExtend(d % 2 ^ (8 * bytes), bytes) = d
<1> DEFINE V == 2 ^ (8 * bytes)
<1>1. V \in Int
  <2>1. 8 * bytes \in Nat
    OBVIOUS
  <2> QED
    BY <2>1
<1> HIDE DEF V
<1>2. -V <= 2 * d /\ 2 * d < V
  BY DEF V
<1>3. V \in Nat /\ V > 0
  BY <1>1, <1>2
<1>4. /\ d >= 0 => d % V = d /\ 2 * (d % V) < V
      /\ d < 0 => d % V = d + V /\ 2 * (d % V) >= V
  BY <1>2, <1>3
<1>5. SignExtend(d % V, bytes) = IF 2 * (d % V) >= V THEN (d % V) - V ELSE (d % V)
  BY DEF SignExtend, V
<1>6. d % V \in Int
  BY <1>2, <1>3, <1>4
<1>7. SignExtend(d % V, bytes) = d
  BY <1>3, <1>4, <1>5, <1>6
<1> QED
  BY <1>7 DEF V

\* The extents follow each other.
LEMMA ExtentDef ==
  ASSUME NEW v, WellFormed(v)
  PROVE  /\ Extent(v)[0] = 0
         /\ \A i \in 1 .. Len(v.layout) : Extent(v)[i] = Extent(v)[i - 1] + v.layout[i][2] * v.spc
         /\ \A i \in 0 .. Len(v.layout) : Extent(v)[i] \in Nat
         /\ \A i, j \in 0 .. Len(v.layout) : i <= j => Extent(v)[i] <= Extent(v)[j]
<1> DEFINE n == Len(v.layout)
           s == [i \in 1 .. n |-> v.layout[i][2] * v.spc]
<1>1. n \in Nat /\ v.spc \in Nat /\ \A i \in 1 .. n : v.layout[i][2] \in Nat
  BY DEF WellFormed
<1>2. Len(s) = n /\ \A i \in 1 .. n : s[i] = v.layout[i][2] * v.spc
  BY <1>1
<1>3. \A i \in 1 .. n : v.layout[i][2] * v.spc \in Nat
  BY <1>1, Product
<1>4. Extent(v) = Sums(s)
  BY DEF Extent, Before
<1> HIDE DEF s, n
<1>5. Len(s) \in Nat /\ \A i \in 1 .. Len(s) : s[i] \in Nat /\ s[i] \in Int
  BY <1>1, <1>2, <1>3
<1>6. /\ Sums(s)[0] = 0
      /\ \A i \in 1 .. n : Sums(s)[i] = Sums(s)[i - 1] + s[i]
      /\ \A i \in 0 .. n : Sums(s)[i] \in Nat
      /\ \A i, j \in 0 .. n : i <= j => Sums(s)[i] <= Sums(s)[j]
  BY <1>2, <1>5, SumsDef, SumsGrow
<1> QED
  BY <1>2, <1>4, <1>6 DEF n

\* Decoding gives back what was encoded, relative, signed and of any width.
LEMMA RunsAreDecoded ==
  ASSUME NEW attribute, NEW extents, Len(extents) \in Nat,
         \A i \in 1 .. Len(extents) : extents[i][1] \in Nat /\ extents[i][2] \in Nat,
         Encodes(extents, attribute.runs)
  PROVE  NtfsGetDataRuns(attribute) = AsRuns(volume, extents)
<1> DEFINE code == attribute.runs
           n == Len(extents)
           First(i) == extents[i][1]
           offsets == [i \in 1 .. n |-> SignExtend(code[i].offset, code[i].offsetBytes)]
           at == Sums(offsets)
<1>1. /\ n \in Nat /\ Len(code) = n
      /\ \A i \in 1 .. n : First(i) \in Nat /\ extents[i][2] \in Nat
  BY DEF Encodes
<1>2. ASSUME NEW i \in 1 .. n
      PROVE  /\ code[i].lengthBytes \in 1 .. 8 /\ code[i].offsetBytes \in 1 .. 8
             /\ code[i].length = extents[i][2]
             /\ offsets[i] = First(i) - (IF i = 1 THEN 0 ELSE First(i - 1))
  <2> DEFINE d == First(i) - (IF i = 1 THEN 0 ELSE First(i - 1))
             b == code[i].offsetBytes
  <2>1. /\ code[i].lengthBytes \in 1 .. 8 /\ b \in 1 .. 8
        /\ code[i].length = extents[i][2]
        /\ -(2 ^ (8 * b)) <= 2 * d /\ 2 * d < 2 ^ (8 * b)
        /\ code[i].offset = d % 2 ^ (8 * b)
    BY <1>1 DEF Encodes
  <2>2. d \in Int
    <3>1. i # 1 => i - 1 \in 1 .. n
      BY <1>1
    <3> QED
      BY <1>1, <3>1
  <2>3. offsets[i] = SignExtend(code[i].offset, b)
    OBVIOUS
  <2> HIDE DEF d, b, offsets
  <2>4. SignExtend(code[i].offset, b) = d
    BY <2>1, <2>2, SignExtendDef
  <2> QED
    BY <2>1, <2>3, <2>4 DEF d, b
<1>3. Len(offsets) = n
  BY <1>1
<1> HIDE DEF offsets
<1>4. \A i \in 1 .. n : offsets[i] \in Int
  <2> TAKE i \in 1 .. n
  <2>1. /\ First(i) \in Nat /\ (i # 1 => First(i - 1) \in Nat)
        /\ offsets[i] = First(i) - (IF i = 1 THEN 0 ELSE First(i - 1))
    <3>1. i # 1 => i - 1 \in 1 .. n
      BY <1>1
    <3> QED
      BY <1>1, <1>2, <3>1
  <2> HIDE DEF First
  <2> QED
    BY <2>1
<1>5. /\ at[0] = 0 /\ \A i \in 1 .. n : at[i] = at[i - 1] + offsets[i]
      /\ \A i \in 0 .. n : at[i] \in Int
  BY <1>1, <1>3, <1>4, SumsDef
<1> HIDE DEF at, First
<1> DEFINE T == {m \in Nat : m + 1 <= n => at[m + 1] = First(m + 1)}
<1>6. \A i \in 1 .. n : at[i] = First(i)
  <2>1. 0 \in T
    <3> SUFFICES ASSUME 1 <= n PROVE at[0 + 1] = First(0 + 1)
      OBVIOUS
    <3>1. 1 \in 1 .. n /\ 1 - 1 = 0 /\ 0 + 1 = 1
      BY <1>1
    <3>2. at[1] = at[1 - 1] + offsets[1] /\ offsets[1] = First(1) - 0 /\ First(1) \in Nat
      BY <3>1, <1>1, <1>2, <1>5
    <3> QED
      BY <3>1, <3>2, <1>5
  <2>2. ASSUME NEW m \in Nat, m \in T PROVE m + 1 \in T
    <3> SUFFICES ASSUME (m + 1) + 1 <= n PROVE at[(m + 1) + 1] = First((m + 1) + 1)
      OBVIOUS
    <3> DEFINE h == (m + 1) + 1
    <3>1. h \in 1 .. n /\ h # 1 /\ h - 1 = m + 1 /\ m + 1 \in 1 .. n
      BY <1>1
    <3>2. at[m + 1] = First(m + 1)
      BY <2>2, <3>1
    <3> HIDE DEF h
    <3>3. at[h] = at[m + 1] + offsets[h] /\ offsets[h] = First(h) - First(m + 1)
      BY <3>1, <1>2, <1>5
    <3>4. First(h) \in Nat /\ First(m + 1) \in Nat
      BY <3>1, <1>1
    <3>5. at[h] = First(h)
      BY <3>2, <3>3, <3>4
    <3> QED
      BY <3>5 DEF h
  <2> HIDE DEF T
  <2>3. Nat \subseteq T
    BY <2>1, <2>2, Induction
  <2>4. ASSUME NEW i \in 1 .. n PROVE at[i] = First(i)
    <3>1. i - 1 \in T /\ (i - 1) + 1 = i /\ i <= n
      BY <2>3, <1>1
    <3> QED
      BY <3>1 DEF T
  <2> QED
    BY <2>4
<1>7. \A i \in 1 .. n : ~(code[i].lengthBytes \notin 1 .. 8 \/ code[i].offsetBytes > 8 \/ at[i] < 0)
  <2> TAKE i \in 1 .. n
  <2>1. /\ code[i].lengthBytes \in 1 .. 8 /\ code[i].offsetBytes \in 1 .. 8
        /\ at[i] = First(i) /\ First(i) \in Nat
    BY <1>1, <1>2, <1>6
  <2> HIDE DEF code
  <2> QED
    BY <2>1
<1>8. NtfsGetDataRuns(attribute) =
        [i \in 1 .. n |-> [SectorOffset |-> at[i] * volume.spc,
                           LengthInSectors |-> code[i].length * volume.spc]]
  BY <1>1, <1>7 DEF NtfsGetDataRuns, UpTo, at, offsets
<1> QED
  BY <1>2, <1>6, <1>8 DEF AsRuns, First

\* The lookup finds a record in its extent, unless it starts where one ends.
LEMMA RunIsFound ==
  ASSUME WellFormed(volume), NEW n \in Ids(volume), NEW e \in 1 .. Len(volume.layout),
         LiesIn(volume, n, e),
         \A i \in 1 .. Len(volume.layout) : n * SectorCount(volume) # Extent(volume)[i]
  PROVE  FindRun(Layout(volume), n * SectorCount(volume)) = StartIn(volume, n, e)
<1> DEFINE runs == Layout(volume)
           N    == Len(volume.layout)
           lens == [i \in 1 .. Len(runs) |-> runs[i].LengthInSectors]
           x    == Extent(volume)
           rel  == n * SectorCount(volume)
<1>1. /\ N \in Nat /\ Len(runs) = N
      /\ \A i \in 1 .. N : /\ runs[i].LengthInSectors = volume.layout[i][2] * volume.spc
                          /\ runs[i].SectorOffset = volume.layout[i][1] * volume.spc
  BY DEF WellFormed, Layout, AsRuns
<1>2. Sums(lens) = x
  <2>1. lens = [i \in 1 .. N |-> volume.layout[i][2] * volume.spc]
    BY <1>1
  <2> QED
    BY <2>1 DEF Extent, Before
<1>3. rel \in Nat /\ n \in Nat
  <2>1. n \in Nat /\ SectorCount(volume) \in Nat
    BY DEF Ids, WellFormed
  <2> QED
    BY <2>1, Product
<1>4. /\ \A i \in 1 .. N : x[i] = x[i - 1] + runs[i].LengthInSectors
      /\ \A i \in 0 .. N : x[i] \in Nat
      /\ \A i, j \in 0 .. N : i <= j => x[i] <= x[j]
  BY <1>1, ExtentDef
<1>5. x[e - 1] <= rel /\ rel < x[e] /\ e - 1 \in 0 .. N
  <2>1. x[e - 1] <= rel /\ (n + 1) * SectorCount(volume) <= x[e]
    BY DEF LiesIn
  <2>2. SectorCount(volume) \in Nat /\ SectorCount(volume) >= 2
    BY DEF WellFormed
  <2>3. (n + 1) * SectorCount(volume) = rel + SectorCount(volume)
    BY <1>3, <2>2
  <2>4. x[e] \in Nat
    BY <1>1, <1>4
  <2> HIDE DEF rel, x
  <2> QED
    BY <1>1, <1>3, <2>1, <2>2, <2>3, <2>4
<1>6. \A i \in 1 .. N : rel # x[i]
  OBVIOUS
<1> DEFINE fits == {i \in 1 .. N : rel - x[i - 1] <= runs[i].LengthInSectors}
<1>7. FindRun(runs, rel) =
        IF fits = {} THEN -1 ELSE runs[Min(fits)].SectorOffset + (rel - x[Min(fits) - 1])
  <2>1. FindRun(runs, rel) =
          LET f == {i \in 1 .. Len(runs) : rel - Sums(lens)[i - 1] <= runs[i].LengthInSectors}
          IN IF f = {} THEN -1 ELSE runs[Min(f)].SectorOffset + (rel - Sums(lens)[Min(f) - 1])
    BY DEF FindRun
  <2> HIDE DEF lens, runs, x, rel
  <2> QED
    BY <1>1, <1>2, <2>1
<1>8. StartIn(volume, n, e) = runs[e].SectorOffset + (rel - x[e - 1])
  BY <1>1 DEF StartIn
<1> HIDE DEF runs, lens, x, rel
<1>9. \A i \in 1 .. N : i \in fits <=> rel <= x[i]
  <2> TAKE i \in 1 .. N
  <2>1. x[i] = x[i - 1] + runs[i].LengthInSectors /\ x[i] \in Nat /\ x[i - 1] \in Nat
    BY <1>1, <1>4
  <2>2. x[i] - x[i - 1] = runs[i].LengthInSectors
    <3>1. CASE runs[i].LengthInSectors \in Int
      BY <2>1, <3>1
    <3>2. runs[i].LengthInSectors \in Nat
      <4>1. volume.layout[i][2] \in Nat /\ volume.spc \in Nat
        BY DEF WellFormed
      <4> QED
        BY <1>1, <4>1, Product
    <3> QED
      BY <3>1, <3>2
  <2>3. i \in fits <=> rel - x[i - 1] <= x[i] - x[i - 1]
    BY <2>2
  <2> HIDE DEF fits
  <2> QED
    BY <1>3, <2>1, <2>3
<1>10. e \in fits
  <2>1. x[e] \in Nat /\ rel <= x[e]
    BY <1>1, <1>3, <1>4, <1>5
  <2> QED
    BY <1>9, <2>1
<1>11. ASSUME NEW i \in fits PROVE e <= i
  <2>1. i \in 1 .. N /\ rel <= x[i] /\ rel # x[i]
    BY <1>6, <1>9
  <2>2. SUFFICES ASSUME ~(e <= i) PROVE FALSE
    OBVIOUS
  <2>3. i <= e - 1 /\ i \in 0 .. N
    BY <1>1, <2>1, <2>2
  <2>4. x[i] <= x[e - 1] /\ x[i] \in Nat /\ x[e - 1] \in Nat
    BY <1>4, <1>5, <2>3
  <2> QED
    BY <1>3, <1>5, <2>1, <2>4
<1>12. Min(fits) = e
  <2>1. fits \in SUBSET Nat /\ fits # {}
    BY <1>1, <1>10
  <2>2. Min(fits) \in fits /\ Min(fits) <= e
    BY <1>10, <2>1, MinDef
  <2>3. e <= Min(fits) /\ Min(fits) \in Nat /\ e \in Nat
    BY <1>1, <1>11, <2>1, <2>2
  <2> HIDE DEF fits
  <2> QED
    BY <2>2, <2>3
<1> QED
  <2>1. fits # {}
    BY <1>10
  <2> HIDE DEF fits
  <2> QED
    BY <2>1, <1>7, <1>8, <1>12 DEF runs, rel

\* A read of the sectors of a record gives it, if it is whole.
LEMMA RecordIsRead ==
  ASSUME WellFormed(volume), bad \subseteq DOMAIN volume.disk, NEW n \in Nat, NEW at \in Nat,
         IsAt(volume, n, at), NEW runs,
         at = IF n <= MFT_RECORD_USER THEN MftStartSector(volume) + n * SectorCount(volume)
                                      ELSE FindRun(runs, n * SectorCount(volume))
  PROVE  ReadRecord(runs, n) = IF Whole(<<"rec", n>>) THEN n ELSE NoRecord
<1> DEFINE size    == SectorCount(volume)
           sectors == NtfsReadSector(at, size)
           owner   == <<"rec", n>>
<1>1. size \in Nat /\ size >= 2
  BY DEF WellFormed
<1> HIDE DEF size
<1>2. /\ at .. at + size - 1 \subseteq DOMAIN volume.disk
      /\ \A s \in DOMAIN volume.disk : volume.disk[s].owner = owner <=> s \in at .. at + size - 1
      /\ \A s \in at .. at + size - 1 : volume.disk[s].part = s - at
  BY DEF IsAt, size
<1>3. Place(owner) = at .. at + size - 1
  <2> HIDE DEF owner
  <2> QED
    BY <1>2 DEF Place
<1>4. Readable(at, size) <=> Place(owner) \cap bad = {}
  BY <1>2, <1>3 DEF Readable
<1>5. ASSUME NEW k \in 1 .. size
      PROVE  sectors[k].owner = owner /\ sectors[k].part = k - 1
  <2>1. at + k - 1 \in at .. at + size - 1 /\ (at + k - 1) - at = k - 1
    BY <1>1
  <2>2. sectors[k] = volume.disk[at + k - 1]
    BY DEF NtfsReadSector
  <2> HIDE DEF owner, sectors
  <2> QED
    BY <1>2, <2>1, <2>2
<1>6. Len(sectors) = size /\ 1 \in 1 .. size /\ 2 \in 1 .. size
  BY <1>1 DEF NtfsReadSector
<1>7. /\ sectors[1].owner[1] = "rec" /\ sectors[1].part = 0 /\ sectors[1].owner[2] = n
  BY <1>5, <1>6
<1>8. NtfsPatchUpdateSequence(sectors) <=> owner \notin torn
  <2> HIDE DEF sectors
  <2>1. owner[1] = "rec"
    OBVIOUS
  <2> HIDE DEF owner
  <2>2. CASE owner \in torn
    <3>1. /\ sectors[1].owner = owner /\ sectors[1].part = 0
          /\ sectors[2].owner = owner /\ sectors[2].part = 1
      BY <1>5, <1>6
    <3>2. Usn(sectors[1]) = "new" /\ Usn(sectors[2]) = "old"
      BY <2>1, <2>2, <3>1 DEF Usn
    <3> QED
      BY <1>6, <2>2, <3>2 DEF NtfsPatchUpdateSequence
  <2>3. CASE owner \notin torn
    <3>1. \A k \in 1 .. size : Usn(sectors[k]) = "old"
      BY <1>5, <2>1, <2>3 DEF Usn
    <3> QED
      BY <1>6, <2>3, <3>1 DEF NtfsPatchUpdateSequence
  <2> QED
    BY <2>2, <2>3
<1>9. at >= 0
  OBVIOUS
<1>10. ReadRecord(runs, n) =
        IF at >= 0 /\ Readable(at, size)
          THEN IF /\ sectors[1].owner[1] = "rec" /\ sectors[1].part = 0
                  /\ NtfsPatchUpdateSequence(sectors)
                 THEN sectors[1].owner[2] ELSE NoRecord
          ELSE NoRecord
  BY DEF ReadRecord, RecordAt, RecordIn, size
<1> HIDE DEF sectors, owner
<1>11. Whole(owner) <=> owner \notin torn /\ Place(owner) \cap bad = {}
  BY DEF Whole
<1> QED
  BY <1>4, <1>7, <1>8, <1>9, <1>10, <1>11 DEF owner

\* What the assumption says of the volume that is read.
LEMMA VolumeFacts ==
  ASSUME volume \in Volumes
  PROVE  /\ WellFormed(volume) /\ 0 \in Ids(volume) /\ Ids(volume) \subseteq Nat
         /\ MFT_RECORD_USER \in Nat /\ NoRecord \notin Int
         /\ FilesAreWellFormed(volume) /\ IndexesAreWellFormed(volume)
<1>1. /\ WellFormed(volume) /\ FilesAreWellFormed(volume) /\ IndexesAreWellFormed(volume)
      /\ MFT_RECORD_USER \in Nat /\ NoRecord \notin Int
  BY VolumesAssumption
<1>2. 0 \in Ids(volume) /\ Ids(volume) \subseteq Nat
  BY <1>1 DEF WellFormed, Ids
<1> QED
  BY <1>1, <1>2

\* The first sector of a record, where its extent puts it.
LEMMA StartIsNatural ==
  ASSUME WellFormed(volume), NEW n \in Ids(volume), NEW e \in 1 .. Len(volume.layout),
         LiesIn(volume, n, e)
  PROVE  StartIn(volume, n, e) \in Nat
<1>1. volume.layout[e][1] * volume.spc \in Nat
  <2>1. volume.layout[e][1] \in Nat /\ volume.spc \in Nat
    BY DEF WellFormed
  <2> QED
    BY <2>1, Product
<1>2. n * SectorCount(volume) \in Nat
  <2>1. n \in Nat /\ SectorCount(volume) \in Nat
    BY DEF WellFormed, Ids
  <2> QED
    BY <2>1, Product
<1>3. Extent(volume)[e - 1] \in Nat /\ Extent(volume)[e - 1] <= n * SectorCount(volume)
  <2>1. e - 1 \in 0 .. Len(volume.layout)
    BY DEF WellFormed
  <2> QED
    BY <2>1, ExtentDef DEF LiesIn
<1> QED
  BY <1>1, <1>2, <1>3 DEF StartIn

\* Reading record n gives n or nothing, whichever way it is found.
LEMMA RecordsAreRead ==
  ASSUME WellFormed(volume), bad \subseteq DOMAIN volume.disk, MFT_RECORD_USER \in Nat,
         NEW n \in Ids(volume), NEW runs,
         n <= MFT_RECORD_USER \/ (runs = Layout(volume) /\ ~AtExtentEnd(n))
  PROVE  ReadRecord(runs, n) = IF Whole(<<"rec", n>>) THEN n ELSE NoRecord
<1>1. n \in Nat
  BY DEF Ids
<1>2. CASE n <= MFT_RECORD_USER
  <2>1. LiesIn(volume, n, 1) /\ 1 \in 1 .. Len(volume.layout)
    BY <1>2 DEF WellFormed
  <2> DEFINE at == StartIn(volume, n, 1)
  <2>2. at = MftStartSector(volume) + n * SectorCount(volume)
    <3>1. Extent(volume)[1 - 1] = 0
      BY ExtentDef
    <3>2. n * SectorCount(volume) \in Nat
      <4>1. SectorCount(volume) \in Nat
        BY DEF WellFormed
      <4> QED
        BY <1>1, <4>1, Product
    <3> QED
      BY <3>1, <3>2 DEF StartIn, MftStartSector
  <2>3. IsAt(volume, n, at) /\ at \in Nat
    BY <2>1, StartIsNatural DEF WellFormed
  <2> HIDE DEF at
  <2> QED
    BY <1>1, <1>2, <2>2, <2>3, RecordIsRead
<1>3. CASE ~(n <= MFT_RECORD_USER)
  <2>1. PICK e \in 1 .. Len(volume.layout) : LiesIn(volume, n, e)
    BY DEF WellFormed
  <2> DEFINE at == StartIn(volume, n, e)
  <2>2. \A i \in 1 .. Len(volume.layout) : n * SectorCount(volume) # Extent(volume)[i]
    BY <1>1, <1>3 DEF AtExtentEnd
  <2>3. at = FindRun(runs, n * SectorCount(volume))
    BY <1>3, <2>1, <2>2, RunIsFound
  <2>4. IsAt(volume, n, at) /\ at \in Nat
    BY <2>1, StartIsNatural DEF WellFormed
  <2> HIDE DEF at
  <2> QED
    BY <1>1, <1>3, <2>3, <2>4, RecordIsRead
<1> QED
  BY <1>2, <1>3

\* Of a record without a list, what is found first is an attribute of the record.
LEMMA OwnAttribute ==
  ASSUME NEW runs, NEW mask, NEW junk, NEW type, NEW m,
         Len(volume.rec[m].attributes) \in Nat,
         \A i \in 1 .. Len(volume.rec[m].attributes) : volume.rec[m].attributes[i].type # "list",
         NEW all, all = NtfsReadFileAttributes(runs, m, mask, junk), Has(all, type)
  PROVE  \E i \in 1 .. Len(volume.rec[m].attributes) :
            /\ NtfsFindFirstAttribute(all, type) = volume.rec[m].attributes[i]
            /\ volume.rec[m].attributes[i].type = type
<1> DEFINE attributes == volume.rec[m].attributes
           n  == Len(attributes)
           S  == {attributes[i] : i \in 1 .. n}
           ss == [i \in 1 .. n |-> IF attributes[i].type \in mask THEN <<attributes[i]>> ELSE << >>]
<1>1. all = FlattenSeq(ss)
  BY Zenon DEF NtfsReadFileAttributes, CollectAttributes
<1>2. n \in Nat /\ Len(ss) = n
  OBVIOUS
<1>3. ss \in Seq(Seq(S))
  <2> DEFINE Z == Seq(S)
  <2>1. \A i \in 1 .. n : ss[i] \in Z
    <3> TAKE i \in 1 .. n
    <3>1. attributes[i] \in S
      OBVIOUS
    <3> HIDE DEF S
    <3>2. <<attributes[i]>> \in Seq(S) /\ << >> \in Seq(S)
      BY <3>1
    <3> QED
      BY <3>2
  <2>2. ss = [i \in 1 .. n |-> ss[i]]
    OBVIOUS
  <2> HIDE DEF Z, ss, n
  <2>3. ss \in Seq(Z)
    BY <1>2, <2>1, <2>2
  <2> QED
    BY <2>3 DEF Z
<1>4. Joins(S, ss, Starts(ss), all, n)
  <2> HIDE DEF ss, S, n
  <2> QED
    BY <1>1, <1>2, <1>3, FlattenJoins
<1> DEFINE found == {i \in 1 .. Len(all) : all[i].type = type}
<1>5. found # {}
  BY DEF Has
<1>6. Min(found) \in found
  <2>1. found \in SUBSET Nat
    OBVIOUS
  <2> HIDE DEF found
  <2> QED
    BY <1>5, <2>1, MinDef
<1>7. all[Min(found)] \in S /\ all[Min(found)].type = type
  <2>1. all \in Seq(S)
    BY <1>4 DEF Joins
  <2> HIDE DEF S
  <2> QED
    BY <1>6, <2>1
<1>8. NtfsFindFirstAttribute(all, type) = all[Min(found)]
  <2>1. SelectInSeq(all, LAMBDA a : a.type = type) = Min(found)
    BY <1>5 DEF SelectInSeq
  <2>2. Min(found) # 0
    BY <1>6
  <2> HIDE DEF found
  <2> QED
    BY <2>1, <2>2 DEF NtfsFindFirstAttribute
<1> QED
  BY <1>7, <1>8

\* Before a volume is opened there are no runs and no answer.
LEMMA RecordsInit ==
  ASSUME NtfsInit
  PROVE  RecordsAreFound
<1> USE DEF NtfsInit
<1>1. volume \in Volumes
  OBVIOUS
<1>2. Len(mftDataRuns) = 0
  OBVIOUS
<1>3. NtfsTypeOK
  BY <1>1, <1>2, VolumeFacts DEF NtfsTypeOK, NoAnswer, Junk
<1> QED
  BY <1>3 DEF RecordsAreFound, RunsAreTheLayout, RecordIsTheOneAsked, NoAnswer

\* The runs of the table are numbers of sectors.
LEMMA RunsHaveTypes ==
  ASSUME WellFormed(volume), NEW runs, runs = << >> \/ runs = Layout(volume)
  PROVE  \A i \in 1 .. Len(runs) : runs[i].SectorOffset \in Nat /\ runs[i].LengthInSectors \in Nat
<1>1. CASE runs = << >>
  BY <1>1
<1>2. CASE runs = Layout(volume)
  <2>1. \A i \in 1 .. Len(volume.layout) :
           volume.layout[i][1] * volume.spc \in Nat /\ volume.layout[i][2] * volume.spc \in Nat
    <3>1. /\ volume.spc \in Nat
          /\ \A i \in 1 .. Len(volume.layout) : volume.layout[i][1] \in Nat /\ volume.layout[i][2] \in Nat
      BY DEF WellFormed
    <3> QED
      BY <3>1, Product
  <2>2. Len(runs) = Len(volume.layout)
    BY <1>2 DEF Layout, AsRuns, WellFormed
  <2> QED
    BY <1>2, <2>1, <2>2 DEF Layout, AsRuns
<1> QED
  BY <1>1, <1>2

\* A volume is opened with the runs of its table.
LEMMA InitVolumeFinds ==
  ASSUME RecordsAreFound, NtfsInitVolume, volume \in Volumes
  PROVE  status' = "open" => mftDataRuns' = Layout(volume)
<1> SUFFICES ASSUME status' = "open" PROVE mftDataRuns' = Layout(volume)
  OBVIOUS
<1> DEFINE mft   == ReadRecord(<< >>, 0)
           data  == NtfsReadFileAttributes(<< >>, mft, {"data"}, NoEntry)
           first == NtfsFindFirstAttribute(data, "data")
<1>1. mft # NoRecord /\ Has(data, "data") /\ mftDataRuns' = NtfsGetDataRuns(first)
  <2> DEFINE all == IF mft = NoRecord THEN << >> ELSE data
  <2>1. Has(all, "data") /\ mftDataRuns' = NtfsGetDataRuns(NtfsFindFirstAttribute(all, "data"))
    BY DEF NtfsInitVolume, Calls
  <2>2. ~Has(<< >>, "data")
    BY DEF Has
  <2> HIDE DEF mft, data
  <2> QED
    BY <2>1, <2>2
<1>2. mft = 0
  <2>1. bad \subseteq DOMAIN volume.disk
    BY DEF RecordsAreFound, NtfsTypeOK
  <2>2. mft = IF Whole(<<"rec", 0>>) THEN 0 ELSE NoRecord
    BY <2>1, VolumeFacts, RecordsAreRead
  <2> HIDE DEF mft
  <2> QED
    BY <1>1, <2>2
<1>3. /\ Len(volume.rec[0].attributes) \in Nat
      /\ \A i \in 1 .. Len(volume.rec[0].attributes) :
           /\ volume.rec[0].attributes[i].type # "list"
           /\ volume.rec[0].attributes[i].type = "data" => Encodes(volume.layout, volume.rec[0].attributes[i].runs)
  BY VolumeFacts DEF WellFormed
<1>4. PICK i \in 1 .. Len(volume.rec[0].attributes) :
        first = volume.rec[0].attributes[i] /\ volume.rec[0].attributes[i].type = "data"
  <2>1. data = NtfsReadFileAttributes(<< >>, 0, {"data"}, NoEntry)
    BY <1>2
  <2> HIDE DEF data
  <2> QED
    BY <1>1, <1>3, <2>1, OwnAttribute
<1>5. Encodes(volume.layout, first.runs)
  BY <1>3, <1>4
<1> HIDE DEF first
<1>6. NtfsGetDataRuns(first) = AsRuns(volume, volume.layout)
  <2>1. /\ Len(volume.layout) \in Nat
        /\ \A e \in 1 .. Len(volume.layout) : volume.layout[e][1] \in Nat /\ volume.layout[e][2] \in Nat
    BY VolumeFacts DEF WellFormed
  <2> QED
    BY <1>5, <2>1, RunsAreDecoded
<1> QED
  BY <1>1, <1>6 DEF Layout

\* The answers of calls, and what a call leaves alone.
LEMMA RecordsStep ==
  ASSUME RecordsAreFound, [NtfsNext]_ntfsVars
  PROVE  RecordsAreFound'
<1>1. volume \in Volumes
  BY DEF RecordsAreFound, NtfsTypeOK
<1>2. /\ WellFormed(volume) /\ 0 \in Ids(volume) /\ Ids(volume) \subseteq Nat
      /\ MFT_RECORD_USER \in Nat /\ NoRecord \notin Nat
  BY <1>1, VolumeFacts
<1> USE DEF RecordsAreFound
\* A call of another kind than a read of a record.
<1>3. ASSUME volume' = volume, bad' = bad,
             status' \in {"closed", "open", "hung", "corrupt"},
             status' = "open" => mftDataRuns' = Layout(volume),
             status' # "open" => mftDataRuns' \in {<< >>, Layout(volume), mftDataRuns},
             status' = "closed" => mftDataRuns' = << >>,
             answer'.call \in {"none", "init", "streams", "files"},
             answer'.n \in Ids(volume), answer'.ok \in BOOLEAN, answer'.junk \in Junk
      PROVE  RecordsAreFound'
  <2>1. \A i \in 1 .. Len(mftDataRuns') :
           mftDataRuns'[i].SectorOffset \in Nat /\ mftDataRuns'[i].LengthInSectors \in Nat
    BY <1>2, <1>3, RunsHaveTypes DEF NtfsTypeOK
  <2>2. NtfsTypeOK'
    BY <1>3, <2>1 DEF NtfsTypeOK, Junk
  <2>3. RunsAreTheLayout'
    BY <1>3 DEF RunsAreTheLayout, Layout, AsRuns
  <2>4. RecordIsTheOneAsked'
    BY <1>3 DEF RecordIsTheOneAsked
  <2> QED
    BY <2>2, <2>3, <2>4
<1>4. CASE NtfsInitVolume
  <2>1. status' = "open" => mftDataRuns' = Layout(volume)
    BY <1>1, <1>4, InitVolumeFinds
  <2>2. /\ volume' = volume /\ bad' = bad
        /\ status' = "open" \/ (status' = status /\ mftDataRuns' = mftDataRuns)
        /\ status = "closed"
        /\ answer'.call = "init" /\ answer'.n = 0 /\ answer'.ok \in BOOLEAN
        /\ answer'.junk = NoEntry
    BY <1>4 DEF NtfsInitVolume, Calls, Answer
  <2>3. answer'.junk \in Junk
    BY <2>2 DEF Junk
  <2> QED
    BY <1>2, <1>3, <2>1, <2>2, <2>3 DEF NtfsTypeOK
<1>5. ASSUME NEW n \in Ids(volume), NtfsReadFileRecord(n)
      PROVE  RecordsAreFound'
  <2> DEFINE found == ReadRecord(mftDataRuns, n)
  <2>1. /\ volume' = volume /\ torn' = torn /\ bad' = bad /\ status' = status /\ mftDataRuns' = mftDataRuns
        /\ status = "open"
        /\ answer' = [call |-> "record", n |-> n, junk |-> NoEntry, ok |-> found # NoRecord,
                      out |-> <<found>>]
    BY <1>5 DEF NtfsReadFileRecord, Calls, Answer
  <2>2. NoEntry \in Junk
    BY DEF Junk
  <2> HIDE DEF found
  <2>3. NtfsTypeOK'
    BY <2>1, <2>2 DEF NtfsTypeOK, Junk
  <2>4. RunsAreTheLayout'
    BY <2>1 DEF RunsAreTheLayout, Layout, AsRuns
  <2>5. ~AtExtentEnd(n) => found = IF Whole(<<"rec", n>>) THEN n ELSE NoRecord
    <3>1. mftDataRuns = Layout(volume) /\ bad \subseteq DOMAIN volume.disk
      BY <2>1 DEF RunsAreTheLayout, NtfsTypeOK
    <3> QED
      BY <1>2, <3>1, RecordsAreRead DEF found
  <2>6. RecordIsTheOneAsked'
    <3>1. AtExtentEnd(n)' <=> AtExtentEnd(n)
      BY <2>1 DEF AtExtentEnd
    <3>2. Whole(<<"rec", n>>)' <=> Whole(<<"rec", n>>)
      BY <2>1 DEF Whole, Place
    <3>3. n # NoRecord
      BY <1>2
    <3>4. SUFFICES ASSUME ~AtExtentEnd(n)
                   PROVE  /\ found # NoRecord <=> Whole(<<"rec", n>>)
                          /\ found # NoRecord => <<found>> = <<n>>
      BY <2>1, <3>1, <3>2 DEF RecordIsTheOneAsked, AtExtentEnd, Whole, Place
    <3> QED
      BY <2>5, <3>3, <3>4
  <2> QED
    BY <2>3, <2>4, <2>6
<1>6. ASSUME NEW n \in Ids(volume), NEW junk \in Junk,
             NtfsReadFileDataStreams(n, junk) \/ NtfsEnumSubFiles(n, junk)
      PROVE  RecordsAreFound'
  <2>1. /\ volume' = volume /\ bad' = bad /\ mftDataRuns' = mftDataRuns /\ status = "open"
        /\ status' \in {"open", "hung", "corrupt"}
        /\ answer'.call \in {"streams", "files"} /\ answer'.n = n /\ answer'.junk = junk
        /\ answer'.ok \in BOOLEAN
    <3>1. CASE NtfsReadFileDataStreams(n, junk)
      BY <3>1 DEF NtfsReadFileDataStreams, Calls, Answer
    <3>2. CASE NtfsEnumSubFiles(n, junk)
      <4> DEFINE all   == IF IsDirectory(n) THEN FileAttributes(n, {"root", "alloc"}, junk) ELSE << >>
                 files == IF Has(all, "root") /\ ~MeetsNull(all) THEN WalkIndex(all) ELSE << >>
                 hung  == Has(all, "hang") \/ Contains(files, NoEnd)
                 fails == ~Has(all, "hang") /\ (Has(all, "fault") \/ MeetsNull(all))
                 shown == status' = "open" /\ Has(all, "root")
      <4>1. /\ volume' = volume /\ bad' = bad /\ mftDataRuns' = mftDataRuns /\ status = "open"
            /\ status' = CASE hung -> "hung" [] fails -> "corrupt" [] OTHER -> "open"
            /\ answer' = IF shown
                 THEN [call |-> "files", n |-> n, junk |-> junk, ok |-> TRUE, out |-> files]
                 ELSE [call |-> "files", n |-> n, junk |-> junk, ok |-> FALSE, out |-> << >>]
        BY <3>2, Zenon DEF NtfsEnumSubFiles, Calls, Answer
      <4> HIDE DEF all, files, hung, fails, shown
      <4> QED
        BY <4>1
    <3> QED
      BY <1>6, <3>1, <3>2
  <2>2. mftDataRuns = Layout(volume)
    BY <2>1 DEF RunsAreTheLayout
  <2> QED
    BY <1>3, <2>1, <2>2
<1>7. CASE NtfsFreeVolume
  <2>1. /\ volume' = volume /\ bad' = bad /\ status' = "closed" /\ mftDataRuns' = << >>
        /\ answer' = answer /\ answer = NoAnswer
    BY <1>7 DEF NtfsFreeVolume, Calls
  <2>2. /\ answer'.call = "none" /\ answer'.n = 0 /\ answer'.ok = FALSE /\ answer'.junk \in Junk
    BY <2>1 DEF NoAnswer, Junk
  <2> QED
    BY <1>2, <1>3, <2>1, <2>2
<1>8. CASE TakeAnswer \/ VolumeChanges \/ UNCHANGED ntfsVars
  <2>1. CASE UNCHANGED ntfsVars
    BY <2>1 DEF ntfsVars, NtfsTypeOK, RunsAreTheLayout, RecordIsTheOneAsked, Layout, AsRuns, AtExtentEnd,
       Whole, Place, Junk
  <2>2. CASE TakeAnswer
    <3>1. /\ volume' = volume /\ bad' = bad /\ status' = status /\ mftDataRuns' = mftDataRuns
          /\ answer' = NoAnswer
      BY <2>2 DEF TakeAnswer
    <3>2. answer'.call = "none" /\ answer'.n = 0 /\ answer'.ok = FALSE /\ answer'.junk \in Junk
      BY <3>1 DEF NoAnswer, Junk
    <3> QED
      BY <1>2, <1>3, <3>1, <3>2 DEF NtfsTypeOK, RunsAreTheLayout
  <2>3. CASE VolumeChanges
    <3>1. /\ volume' = volume /\ status' = status /\ mftDataRuns' = mftDataRuns
          /\ answer' = answer /\ answer = NoAnswer /\ bad' \subseteq DOMAIN volume.disk
      BY <2>3 DEF VolumeChanges
    <3>2. answer.call = "none"
      BY <3>1 DEF NoAnswer
    <3>3. NtfsTypeOK'
      BY <3>1 DEF NtfsTypeOK, Junk
    <3>4. RunsAreTheLayout'
      BY <3>1 DEF RunsAreTheLayout, Layout, AsRuns
    <3> QED
      BY <3>1, <3>2, <3>3, <3>4 DEF RecordIsTheOneAsked
  <2> QED
    BY <1>8, <2>1, <2>2, <2>3
<1> QED
  BY <1>4, <1>5, <1>6, <1>7, <1>8 DEF NtfsNext

\* In every well-formed volume, wherever the table is on the disk, a client that asks
\* for a record gets that record, or none when it is being rewritten or cannot be
\* read, except for one at the end of an extent.
THEOREM RecordsFound == NtfsSpec => []RecordsAreFound
<1>1. NtfsInit => RecordsAreFound
  BY RecordsInit
<1>2. RecordsAreFound /\ [NtfsNext]_ntfsVars => RecordsAreFound'
  BY RecordsStep
<1> QED
  BY <1>1, <1>2, PTL DEF NtfsSpec

-----------------------------------------------------------------------------
(***************************************************************************)
(* What is collected of the data of a file.                                *)
(***************************************************************************)

\* Two attributes are of one stream.
SameStream(a, b) == a.type = "data" /\ b.type = "data" /\ a.id = b.id

\* Each stream once,
Distinct(s) == \A p, q \in 1 .. Len(s) : SameStream(s[p], s[q]) => p = q

\* and none in both of two sequences.
Apart(s, t) == \A p \in 1 .. Len(s), q \in 1 .. Len(t) : ~SameStream(s[p], t[q])

\* The attributes of record m with a type in the mask.
Wanted(m, mask) == {a \in Attributes(m) : a.type \in mask}

\* What a walk may collect: attributes of records, and the two marks of what goes wrong.
Items == (UNION {Attributes(m) : m \in Ids(volume)}) \cup {Hang, Fault}

\* Attributes of the records R, and signs of what went wrong.
From(s, R, mask) ==
  /\ s \in Seq(Items)
  /\ \A p \in 1 .. Len(s) : s[p] \in {Hang, Fault} \/ \E r \in R : s[p] \in Wanted(r, mask)

\* All of the attributes of the records R.
Covers(s, R, mask) ==
  \A r \in R : \A a \in Wanted(r, mask) : \E p \in 1 .. Len(s) : s[p] = a

\* Every element of the sequences is in their concatenation, and no other.
LEMMA FlattenElements ==
  ASSUME NEW S, NEW ss \in Seq(Seq(S))
  PROVE  /\ FlattenSeq(ss) \in Seq(S)
         /\ \A p \in 1 .. Len(FlattenSeq(ss)) :
              \E i \in 1 .. Len(ss) : \E k \in 1 .. Len(ss[i]) :
                p = Starts(ss)[i - 1] + k /\ FlattenSeq(ss)[p] = ss[i][k]
         /\ \A i \in 1 .. Len(ss) : \A k \in 1 .. Len(ss[i]) :
              \E p \in 1 .. Len(FlattenSeq(ss)) : FlattenSeq(ss)[p] = ss[i][k]
<1> DEFINE all == FlattenSeq(ss)
           at  == Starts(ss)
           n   == Len(ss)
<1>1. Joins(S, ss, at, all, n)
  BY FlattenJoins
<1>2. /\ n \in Nat
      /\ \A i \in 1 .. n : ss[i] \in Seq(S) /\ Len(ss[i]) \in Nat /\ at[i] = at[i - 1] + Len(ss[i])
      /\ \A i \in 0 .. n : at[i] \in Nat
      /\ \A i, j \in 0 .. n : i <= j => at[i] <= at[j]
  BY StartsDef
<1> HIDE DEF all, at, n
<1>3. /\ all \in Seq(S) /\ Len(all) = at[n]
      /\ \A i \in 1 .. n : \A k \in 1 .. Len(ss[i]) : all[at[i - 1] + k] = ss[i][k]
      /\ \A p \in 1 .. at[n] : \E i \in 1 .. n : \E k \in 1 .. Len(ss[i]) : p = at[i - 1] + k
  BY <1>1 DEF Joins
<1>4. ASSUME NEW i \in 1 .. n, NEW k \in 1 .. Len(ss[i])
      PROVE  \E p \in 1 .. Len(all) : all[p] = ss[i][k]
  <2>1. i - 1 \in 0 .. n /\ i \in 0 .. n /\ n \in 0 .. n /\ i <= n
    BY <1>2
  <2>2. at[i - 1] \in Nat /\ at[i] \in Nat /\ at[n] \in Nat /\ Len(ss[i]) \in Nat
        /\ at[i] = at[i - 1] + Len(ss[i]) /\ at[i] <= at[n]
    BY <1>2, <2>1
  <2>3. at[i - 1] + k \in 1 .. at[n]
    BY <2>2, Within
  <2> QED
    BY <1>3, <2>3
<1>5. ASSUME NEW p \in 1 .. Len(all)
      PROVE  \E i \in 1 .. n : \E k \in 1 .. Len(ss[i]) : p = at[i - 1] + k /\ all[p] = ss[i][k]
  <2>1. p \in 1 .. at[n]
    BY <1>3
  <2>2. PICK i \in 1 .. n : \E k \in 1 .. Len(ss[i]) : p = at[i - 1] + k
    BY <1>3, <2>1
  <2>3. PICK k \in 1 .. Len(ss[i]) : p = at[i - 1] + k
    BY <2>2
  <2>4. all[p] = ss[i][k]
    BY <1>3, <2>3
  <2> QED
    BY <2>3, <2>4
<1> QED
  BY <1>3, <1>4, <1>5 DEF all, at, n

\* Sequences with each stream once, and no stream in two of them.
LEMMA FlattenDistinct ==
  ASSUME NEW S, NEW ss \in Seq(Seq(S)),
         \A i \in 1 .. Len(ss) : Distinct(ss[i]),
         \A i, j \in 1 .. Len(ss) : i # j => Apart(ss[i], ss[j])
  PROVE  Distinct(FlattenSeq(ss))
<1> DEFINE all == FlattenSeq(ss)
<1>1. ASSUME NEW p \in 1 .. Len(all), NEW q \in 1 .. Len(all), SameStream(all[p], all[q])
      PROVE  p = q
  <2>1. PICK i \in 1 .. Len(ss) : \E k \in 1 .. Len(ss[i]) :
               p = Starts(ss)[i - 1] + k /\ all[p] = ss[i][k]
    BY FlattenElements
  <2>2. PICK j \in 1 .. Len(ss) : \E l \in 1 .. Len(ss[j]) :
               q = Starts(ss)[j - 1] + l /\ all[q] = ss[j][l]
    BY FlattenElements
  <2>3. PICK k \in 1 .. Len(ss[i]) : p = Starts(ss)[i - 1] + k /\ all[p] = ss[i][k]
    BY <2>1
  <2>4. PICK l \in 1 .. Len(ss[j]) : q = Starts(ss)[j - 1] + l /\ all[q] = ss[j][l]
    BY <2>2
  <2>5. SameStream(ss[i][k], ss[j][l])
    BY <1>1, <2>3, <2>4
  <2>6. i = j
    BY <2>5 DEF Apart
  <2>7. k = l
    BY <2>5, <2>6 DEF Distinct
  <2> QED
    BY <2>3, <2>4, <2>6, <2>7
<1> QED
  BY <1>1 DEF Distinct

\* A stream has one attribute, in one record.
LEMMA DataIsNamed ==
  ASSUME volume \in Volumes, NEW m \in Ids(volume), NEW r \in Ids(volume),
         NEW a \in Attributes(m), NEW b \in Attributes(r), SameStream(a, b)
  PROVE  m = r
<1>1. PICK i \in 1 .. Len(volume.rec[m].attributes) : a = volume.rec[m].attributes[i]
  BY DEF Attributes
<1>2. PICK j \in 1 .. Len(volume.rec[r].attributes) : b = volume.rec[r].attributes[j]
  BY DEF Attributes
<1>3. a.type = "data" /\ b.type = "data" /\ a.id = b.id
  BY DEF SameStream
<1> QED
  BY <1>1, <1>2, <1>3, VolumeFacts DEF FilesAreWellFormed

\* Streams of different records are different.
LEMMA RecordsApart ==
  ASSUME volume \in Volumes, NEW R \in SUBSET Ids(volume), NEW Q \in SUBSET Ids(volume),
         R \cap Q = {}, NEW mask, NEW s, NEW t, From(s, R, mask), From(t, Q, mask)
  PROVE  Apart(s, t)
<1>1. SUFFICES ASSUME NEW p \in 1 .. Len(s), NEW q \in 1 .. Len(t), SameStream(s[p], t[q])
               PROVE  FALSE
  BY DEF Apart
<1>2. s[p] \notin {Hang, Fault} /\ t[q] \notin {Hang, Fault}
  BY <1>1 DEF SameStream, Hang, Fault
<1>3. PICK r \in R : s[p] \in Attributes(r)
  BY <1>2 DEF From, Wanted
<1>4. PICK x \in Q : t[q] \in Attributes(x)
  BY <1>2 DEF From, Wanted
<1>5. r = x
  BY <1>1, <1>3, <1>4, DataIsNamed
<1> QED
  BY <1>5

\* A record without a list gives its own attributes.
LEMMA OwnData ==
  ASSUME volume \in Volumes, NEW m \in Ids(volume), NEW mask, NEW ss \in Seq(Seq(Items)),
         Len(ss) = Len(volume.rec[m].attributes),
         \A i \in 1 .. Len(ss) :
           ss[i] = IF volume.rec[m].attributes[i].type \in mask THEN <<volume.rec[m].attributes[i]>> ELSE << >>
  PROVE  From(FlattenSeq(ss), {m}, mask) /\ Distinct(FlattenSeq(ss)) /\ Covers(FlattenSeq(ss), {m}, mask)
<1> DEFINE attributes == volume.rec[m].attributes
           all == FlattenSeq(ss)
<1>0. /\ all \in Seq(Items)
      /\ \A p \in 1 .. Len(all) : \E i \in 1 .. Len(ss) : \E k \in 1 .. Len(ss[i]) : all[p] = ss[i][k]
      /\ \A i \in 1 .. Len(ss) : \A k \in 1 .. Len(ss[i]) : \E p \in 1 .. Len(all) : all[p] = ss[i][k]
  BY FlattenElements
<1>1. ASSUME NEW i \in 1 .. Len(ss)
      PROVE  /\ \A k \in 1 .. Len(ss[i]) :
                  k = 1 /\ ss[i][k] = attributes[i] /\ attributes[i].type \in mask
             /\ attributes[i].type \in mask => 1 \in 1 .. Len(ss[i]) /\ ss[i][1] = attributes[i]
  <2> DEFINE a == attributes[i]
  <2>1. ss[i] = IF a.type \in mask THEN <<a>> ELSE << >>
    OBVIOUS
  <2> DEFINE s == ss[i]
  <2> HIDE DEF a, s
  <2>2. /\ \A k \in 1 .. Len(s) : k = 1 /\ s[k] = a /\ a.type \in mask
        /\ a.type \in mask => 1 \in 1 .. Len(s) /\ s[1] = a
    <3>1. CASE a.type \in mask
      <4>1. s = <<a>>
        BY <2>1, <3>1 DEF s
      <4> QED
        BY <3>1, <4>1
    <3>2. CASE a.type \notin mask
      <4>1. s = << >>
        BY <2>1, <3>2 DEF s
      <4> QED
        BY <3>2, <4>1
    <3> QED
      BY <3>1, <3>2
  <2> QED
    BY <2>2 DEF a, s
<1> HIDE DEF all
<1>2. Distinct(all)
  <2>1. \A i \in 1 .. Len(ss) : Distinct(ss[i])
    BY <1>1 DEF Distinct
  <2>2. ASSUME NEW i \in 1 .. Len(ss), NEW j \in 1 .. Len(ss), i # j PROVE Apart(ss[i], ss[j])
    <3>1. SUFFICES ASSUME NEW k \in 1 .. Len(ss[i]), NEW l \in 1 .. Len(ss[j]),
                          SameStream(ss[i][k], ss[j][l])
                   PROVE  FALSE
      BY DEF Apart
    <3>2. SameStream(attributes[i], attributes[j])
      BY <1>1, <3>1
    <3>3. FilesAreWellFormed(volume)
      BY VolumeFacts
    <3>4. SameStream(attributes[i], attributes[j]) => i = j
      BY <3>3 DEF SameStream, FilesAreWellFormed
    <3> QED
      BY <2>2, <3>2, <3>4
  <2> QED
    BY <2>1, <2>2, FlattenDistinct DEF all
<1>3. From(all, {m}, mask)
  <2>1. all \in Seq(Items)
    BY <1>0
  <2>2. ASSUME NEW p \in 1 .. Len(all) PROVE all[p] \in Wanted(m, mask)
    <3>1. PICK i \in 1 .. Len(ss) : \E k \in 1 .. Len(ss[i]) : all[p] = ss[i][k]
      BY <1>0
    <3>2. all[p] = attributes[i] /\ attributes[i].type \in mask
      BY <1>1, <3>1
    <3> QED
      BY <3>2 DEF Wanted, Attributes
  <2> QED
    BY <2>1, <2>2 DEF From
<1>4. Covers(all, {m}, mask)
  <2>1. ASSUME NEW a \in Wanted(m, mask) PROVE \E p \in 1 .. Len(all) : all[p] = a
    <3>1. PICK i \in 1 .. Len(ss) : a = attributes[i] /\ attributes[i].type \in mask
      BY DEF Wanted, Attributes
    <3>2. 1 \in 1 .. Len(ss[i]) /\ ss[i][1] = a
      BY <1>1, <3>1
    <3>3. \E p \in 1 .. Len(all) : all[p] = ss[i][1]
      BY <1>0, <3>2, Zenon
    <3> QED
      BY <3>2, <3>3, Zenon
  <2> QED
    BY <2>1 DEF Covers
<1> QED
  BY <1>2, <1>3, <1>4 DEF all

\* How far the walk of a list goes.
LEMMA ReachedDef ==
  ASSUME NEW list, Len(list.entries) \in Nat
  PROVE  Reached(list) \in 0 .. Len(list.entries)
<1> DEFINE n      == Len(list.entries)
           failed == {i \in 1 .. n : Ends(list)[i] >= list.size}
<1>1. Reached(list) = IF failed = {} THEN n ELSE Min(failed) - 1
  BY DEF Reached, UpTo
<1>2. failed # {} => Min(failed) \in failed
  <2>1. failed \in SUBSET Nat
    OBVIOUS
  <2> HIDE DEF failed
  <2> QED
    BY <2>1, MinDef
<1>3. failed # {} => Min(failed) \in 1 .. n
  BY <1>2
<1> HIDE DEF failed
<1> QED
  BY <1>1, <1>3

\* One entry more of a list.
Extended(s, e, own, mask) ==
  IF IsWanted(e, own, mask) /\ ~Contains(s, e.record) THEN Append(s, e.record) ELSE s

\* The records that a list names: all of those that are wanted, each once.
NamesOf(s, entries, m, own, mask, R) ==
  /\ s \in Seq(R)
  /\ \A k \in 1 .. Len(s) : \E i \in 1 .. m : IsWanted(entries[i], own, mask) /\ s[k] = entries[i].record
  /\ \A k, l \in 1 .. Len(s) : s[k] = s[l] => k = l
  /\ \A i \in 1 .. m : IsWanted(entries[i], own, mask) =>
       \E k \in 1 .. Len(s) : s[k] = entries[i].record

\* One entry further.
LEMMA NamesOfNext ==
  ASSUME NEW R, NEW entries, NEW n \in Nat, \A i \in 1 .. n : entries[i].record \in R,
         NEW own, NEW mask, NEW m \in Nat, m + 1 <= n,
         NEW s, NamesOf(s, entries, m, own, mask, R)
  PROVE  NamesOf(Extended(s, entries[m + 1], own, mask), entries, m + 1, own, mask, R)
<1> DEFINE e == entries[m + 1]
           w == IsWanted(e, own, mask) /\ ~Contains(s, e.record)
           t == Extended(s, e, own, mask)
<1>1. m + 1 \in 1 .. n /\ \A i \in 1 .. m + 1 : i \in 1 .. m \/ i = m + 1
  OBVIOUS
<1>2. e.record \in R
  BY <1>1
<1> HIDE DEF e
<1>3. /\ s \in Seq(R)
      /\ \A k \in 1 .. Len(s) : \E i \in 1 .. m : IsWanted(entries[i], own, mask) /\ s[k] = entries[i].record
      /\ \A k, l \in 1 .. Len(s) : s[k] = s[l] => k = l
      /\ \A i \in 1 .. m : IsWanted(entries[i], own, mask) =>
           \E k \in 1 .. Len(s) : s[k] = entries[i].record
  BY DEF NamesOf
<1>4. Len(s) \in Nat
  BY <1>3
<1>5. CASE w
  <2>1. t = Append(s, e.record)
    BY <1>5 DEF Extended
  <2>2. /\ t \in Seq(R) /\ Len(t) = Len(s) + 1 /\ t[Len(s) + 1] = e.record
        /\ \A k \in 1 .. Len(s) : t[k] = s[k]
    BY <1>2, <1>3, <2>1
  <2> HIDE DEF t
  <2>3. \A k \in 1 .. Len(t) : k \in 1 .. Len(s) \/ k = Len(s) + 1
    BY <1>4, <2>2
  <2>4. \A k \in 1 .. Len(s) : k \in 1 .. Len(t) /\ s[k] # e.record
    BY <1>4, <1>5, <2>2 DEF Contains
  <2>5. IsWanted(e, own, mask) /\ m + 1 \in 1 .. m + 1 /\ Len(s) + 1 \in 1 .. Len(t)
    BY <1>4, <1>5, <2>2
  <2>6. \A i \in 1 .. m : i \in 1 .. m + 1
    OBVIOUS
  <2>7. \A k \in 1 .. Len(t) :
           \E i \in 1 .. m + 1 : IsWanted(entries[i], own, mask) /\ t[k] = entries[i].record
    BY <1>3, <2>2, <2>3, <2>5, <2>6 DEF e
  <2>8. \A k, l \in 1 .. Len(t) : t[k] = t[l] => k = l
    BY <1>3, <2>2, <2>3, <2>4
  <2>9. ASSUME NEW i \in 1 .. m + 1, IsWanted(entries[i], own, mask)
        PROVE  \E k \in 1 .. Len(t) : t[k] = entries[i].record
    <3>1. CASE i = m + 1
      BY <2>2, <2>5, <3>1 DEF e
    <3>2. CASE i \in 1 .. m
      <4>1. PICK k \in 1 .. Len(s) : s[k] = entries[i].record
        BY <1>3, <2>9, <3>2
      <4> QED
        BY <2>2, <2>4, <4>1
    <3> QED
      BY <1>1, <3>1, <3>2
  <2> QED
    BY <2>2, <2>7, <2>8, <2>9 DEF NamesOf, t, e
<1>6. CASE ~w
  <2>1. t = s
    BY <1>6 DEF Extended
  <2> HIDE DEF t
  <2>2. IsWanted(e, own, mask) => \E k \in 1 .. Len(s) : s[k] = e.record
    BY <1>6 DEF Contains
  <2>3. \A i \in 1 .. m : i \in 1 .. m + 1
    OBVIOUS
  <2>4. \A i \in 1 .. m + 1 : IsWanted(entries[i], own, mask) =>
           \E k \in 1 .. Len(s) : s[k] = entries[i].record
    BY <1>1, <1>3, <2>2 DEF e
  <2>5. \A k \in 1 .. Len(s) :
           \E i \in 1 .. m + 1 : IsWanted(entries[i], own, mask) /\ s[k] = entries[i].record
    BY <1>3, <2>3
  <2> QED
    BY <1>3, <2>1, <2>4, <2>5 DEF NamesOf, t, e
<1> QED
  BY <1>5, <1>6

\* The records that a list names: those of the entries that are wanted, up to the
\* first entry that is not in the list any more.
LEMMA NamedDef ==
  ASSUME NEW list, Len(list.entries) \in Nat, NEW own, NEW mask, NEW R,
         \A i \in 1 .. Len(list.entries) : list.entries[i].record \in R
  PROVE  NamesOf(Named(list, own, mask), list.entries, Reached(list), own, mask, R)
<1> DEFINE n == Reached(list)
           entries == list.entries
           IsNames(f, m) == f = [i \in 0 .. m |-> IF i = 0 THEN << >>
                                                  ELSE Extended(f[i - 1], entries[i], own, mask)]
           T == {m \in Nat : \E f : IsNames(f, m)}
<1>1. n \in Nat /\ n <= Len(entries)
  BY ReachedDef
<1>2. 0 \in T
  <2>1. IsNames([i \in 0 .. 0 |-> << >>], 0)
    OBVIOUS
  <2> QED
    BY <2>1
<1>3. ASSUME NEW m \in Nat, m \in T PROVE m + 1 \in T
  <2>1. PICK f : IsNames(f, m)
    BY <1>3
  <2> DEFINE g == [i \in 0 .. m + 1 |-> IF i <= m THEN f[i] ELSE Extended(f[m], entries[m + 1], own, mask)]
  <2>2. ASSUME NEW i \in 0 .. m + 1
        PROVE  g[i] = IF i = 0 THEN << >> ELSE Extended(g[i - 1], entries[i], own, mask)
    <3>1. CASE i <= m
      <4>1. i \in 0 .. m /\ (i # 0 => i - 1 \in 0 .. m + 1 /\ i - 1 <= m)
        BY <3>1
      <4>2. g[i] = f[i] /\ (i # 0 => g[i - 1] = f[i - 1])
        BY <4>1
      <4>3. f[i] = IF i = 0 THEN << >> ELSE Extended(f[i - 1], entries[i], own, mask)
        BY <2>1, <4>1
      <4> HIDE DEF g
      <4> QED
        BY <4>2, <4>3
    <3>2. CASE ~(i <= m)
      <4>1. i = m + 1 /\ i # 0 /\ m \in 0 .. m + 1 /\ i - 1 = m
        BY <3>2
      <4> QED
        BY <4>1
    <3> QED
      BY <3>1, <3>2
  <2>3. g = [i \in 0 .. m + 1 |-> g[i]]
    OBVIOUS
  <2> HIDE DEF g
  <2>4. IsNames(g, m + 1)
    BY <2>2, <2>3
  <2>5. m + 1 \in Nat
    OBVIOUS
  <2> HIDE DEF IsNames
  <2> QED
    BY <2>4, <2>5
<1>4. PICK f : IsNames(f, n)
  <2>1. n \in T
    <3> HIDE DEF T
    <3> QED
      BY <1>1, <1>2, <1>3, Induction
  <2> QED
    BY <2>1
<1> DEFINE c == CHOOSE h : IsNames(h, n)
<1>5. IsNames(c, n)
  BY <1>4
<1>6. Named(list, own, mask) = c[n]
  BY DEF Named, Extended
<1> HIDE DEF c
<1>7. c[0] = << >> /\ \A i \in 1 .. n : c[i] = Extended(c[i - 1], entries[i], own, mask)
  <2>1. \A i \in 0 .. n : c[i] = IF i = 0 THEN << >> ELSE Extended(c[i - 1], entries[i], own, mask)
    BY <1>5
  <2>2. 0 \in 0 .. n /\ \A i \in 1 .. n : i \in 0 .. n /\ i # 0
    BY <1>1
  <2> QED
    BY <2>1, <2>2
<1> HIDE DEF n
<1> DEFINE U == {m \in Nat : m <= n => NamesOf(c[m], entries, m, own, mask, R)}
<1>8. 0 \in U
  <2>1. NamesOf(<< >>, entries, 0, own, mask, R)
    BY DEF NamesOf
  <2>2. NamesOf(c[0], entries, 0, own, mask, R)
    BY <1>7, <2>1
  <2> QED
    BY <2>2
<1>9. ASSUME NEW m \in Nat, m \in U PROVE m + 1 \in U
  <2>1. SUFFICES ASSUME m + 1 <= n PROVE NamesOf(c[m + 1], entries, m + 1, own, mask, R)
    OBVIOUS
  <2>2. m <= n /\ m + 1 \in 1 .. n /\ (m + 1) - 1 = m /\ m + 1 <= Len(entries)
    BY <1>1, <2>1
  <2>3. NamesOf(c[m], entries, m, own, mask, R)
    BY <1>9, <2>2
  <2>4. c[m + 1] = Extended(c[m], entries[m + 1], own, mask)
    BY <1>7, <2>2
  <2>5. NamesOf(Extended(c[m], entries[m + 1], own, mask), entries, m + 1, own, mask, R)
    BY <2>2, <2>3, NamesOfNext
  <2> QED
    BY <2>4, <2>5
<1>10. n \in U
  <2> HIDE DEF U
  <2> QED
    BY <1>1, <1>8, <1>9, Induction
<1> QED
  BY <1>6, <1>10 DEF n

\* What a collection has below it: collections from other records.
AreLevels(below, runs, mask, junk) ==
  \A r \in Ids(volume) : \E b : below[r] = CollectAttributes(b, runs, r, mask, junk)

\* A collection is made over levels.
LEMMA LevelsDef ==
  ASSUME volume \in Volumes, NEW runs, NEW m, NEW mask, NEW junk
  PROVE  \E below :
           /\ NtfsReadFileAttributes(runs, m, mask, junk) = CollectAttributes(below, runs, m, mask, junk)
           /\ AreLevels(below, runs, mask, junk)
<1> DEFINE records == DOMAIN volume.rec
           C == Cardinality(records)
           Step(b) == [r \in records |-> CollectAttributes(b, runs, r, mask, junk)]
           Is(f, n) == f = [d \in 0 .. n |-> [r \in records |->
                              IF d = 0 THEN <<Hang>> ELSE CollectAttributes(f[d - 1], runs, r, mask, junk)]]
           T == {n \in Nat : \E f : Is(f, n)}
<1>1. C \in Nat /\ C # 0 /\ Ids(volume) \subseteq records
  <2>1. IsFiniteSet(records) /\ Ids(volume) \subseteq records /\ records # {}
    BY VolumeFacts DEF FilesAreWellFormed
  <2> QED
    BY <2>1, FS_CardinalityType, FS_EmptySet
<1>2. 0 \in T
  <2>1. Is([d \in 0 .. 0 |-> [r \in records |-> <<Hang>>]], 0)
    OBVIOUS
  <2> QED
    BY <2>1
<1>3. ASSUME NEW n \in Nat, n \in T PROVE n + 1 \in T
  <2>1. PICK f : Is(f, n)
    BY <1>3
  <2> DEFINE g == [d \in 0 .. n + 1 |-> IF d <= n THEN f[d] ELSE Step(f[n])]
             Level(h, d) == [r \in records |-> IF d = 0 THEN <<Hang>>
                               ELSE CollectAttributes(h[d - 1], runs, r, mask, junk)]
  <2>2. ASSUME NEW d \in 0 .. n + 1 PROVE g[d] = Level(g, d)
    <3>1. CASE d <= n
      <4>1. d \in 0 .. n /\ (d # 0 => d - 1 \in 0 .. n + 1 /\ d - 1 <= n)
        BY <3>1
      <4>2. g[d] = f[d] /\ (d # 0 => g[d - 1] = f[d - 1])
        BY <4>1
      <4>3. f[d] = Level(f, d)
        BY <2>1, <4>1
      <4> HIDE DEF g
      <4> QED
        BY <4>2, <4>3
    <3>2. CASE ~(d <= n)
      <4>1. d = n + 1 /\ d # 0 /\ n \in 0 .. n + 1 /\ d - 1 = n
        BY <3>2
      <4>2. g[d] = Step(f[n]) /\ g[d - 1] = f[n]
        BY <4>1
      <4> HIDE DEF g
      <4> QED
        BY <4>1, <4>2
    <3> QED
      BY <3>1, <3>2
  <2>3. g = [d \in 0 .. n + 1 |-> g[d]]
    OBVIOUS
  <2> HIDE DEF g
  <2>4. g = [d \in 0 .. n + 1 |-> Level(g, d)]
    <3> HIDE DEF Level
    <3> QED
      BY <2>2, <2>3
  <2>5. Is(g, n + 1)
    BY <2>4
  <2>6. n + 1 \in Nat
    OBVIOUS
  <2> HIDE DEF Is
  <2> QED
    BY <2>5, <2>6
<1>4. PICK f : Is(f, C)
  <2>1. C \in T
    <3> HIDE DEF T, C
    <3> QED
      BY <1>1, <1>2, <1>3, Induction
  <2> QED
    BY <2>1
<1> DEFINE level == CHOOSE h : Is(h, C)
<1>5. Is(level, C)
  BY <1>4
<1>6. NtfsReadFileAttributes(runs, m, mask, junk) = CollectAttributes(level[C], runs, m, mask, junk)
  BY DEF NtfsReadFileAttributes
<1> HIDE DEF level, C
<1>7. C \in 0 .. C
  BY <1>1
<1>8. level[C] = [r \in records |-> IF C = 0 THEN <<Hang>>
                                    ELSE CollectAttributes(level[C - 1], runs, r, mask, junk)]
  BY <1>5, <1>7
<1>9. \A r \in records : level[C][r] = CollectAttributes(level[C - 1], runs, r, mask, junk)
  BY <1>1, <1>8
<1> QED
  BY <1>1, <1>6, <1>9 DEF AreLevels

\* No list of record m is walked into a record past its end.
Harmless(m, junk) ==
  \/ junk \in {NoEntry, EmptyEntry}
  \/ \A i \in 1 .. Len(volume.rec[m].attributes) :
       volume.rec[m].attributes[i].type = "list" => ~RunsOver(volume.rec[m].attributes[i])

LEMMA JunkIsHarmless ==
  ASSUME Ids(volume) \subseteq Nat, NEW n, NEW junk \in Junk, ~RunsPast(n, junk)
  PROVE  Harmless(n, junk)
<1>1. CASE junk >= 0
  <2>1. \A a \in Attributes(n) : ~(a.type = "list" /\ RunsOver(a))
    BY <1>1 DEF RunsPast
  <2> QED
    BY <2>1 DEF Harmless, Attributes
<1>2. CASE ~(junk >= 0)
  <2>1. junk \in {NoEntry, EmptyEntry}
    BY <1>2 DEF Junk
  <2> QED
    BY <2>1 DEF Harmless
<1> QED
  BY <1>1, <1>2

\* What the walk of a list gives past its end, if no record lies there.
Past(list, junk) == IF RunsOver(list) /\ junk = EmptyEntry THEN <<Hang>> ELSE << >>

\* What a list gives,
FromList(below, runs, m, mask, junk, list) ==
  LET named == Named(list, m, mask)
  IN IF ~AttributeIsReadable(list) THEN <<Fault>>
     ELSE FlattenSeq([k \in 1 .. Len(named) |-> Given(below, ReadRecord(runs, named[k]))])
            \o Past(list, junk)

\* and each attribute of a record.
FromAttribute(below, runs, m, mask, junk, a) ==
  CASE a.type = "list" -> FromList(below, runs, m, mask, junk, a)
    [] a.type \in mask -> <<a>>
    [] OTHER -> << >>

\* A record whose attributes are collected gives, of each attribute, its part.
LEMMA CollectAttributesDef ==
  ASSUME NEW below, NEW runs, NEW m, NEW mask, NEW junk, Harmless(m, junk)
  PROVE  CollectAttributes(below, runs, m, mask, junk) =
           FlattenSeq([i \in 1 .. Len(volume.rec[m].attributes) |->
                         FromAttribute(below, runs, m, mask, junk, volume.rec[m].attributes[i])])
<1> DEFINE Over(list) ==
             CASE ~RunsOver(list) \/ junk = NoEntry -> << >>
               [] RunsOver(list) /\ junk = EmptyEntry -> <<Hang>>
               [] OTHER -> IF junk = m \/ Contains(Named(list, m, mask), junk) THEN << >>
                           ELSE Given(below, ReadRecord(runs, junk))
           List(list) ==
             IF ~AttributeIsReadable(list) THEN <<Fault>>
             ELSE FlattenSeq([k \in 1 .. Len(Named(list, m, mask)) |->
                                Given(below, ReadRecord(runs, Named(list, m, mask)[k]))]) \o Over(list)
           One(a) == CASE a.type = "list" -> List(a)
                       [] a.type \in mask -> <<a>>
                       [] OTHER -> << >>
           attributes == volume.rec[m].attributes
<1>1. CollectAttributes(below, runs, m, mask, junk)
        = FlattenSeq([i \in 1 .. Len(attributes) |-> One(attributes[i])])
  BY DEF CollectAttributes
<1>2. ASSUME NEW list, junk \in {NoEntry, EmptyEntry} \/ ~RunsOver(list)
      PROVE  Over(list) = Past(list, junk)
  BY <1>2 DEF Past, NoEntry, EmptyEntry
<1> HIDE DEF Over
<1>3. ASSUME NEW i \in 1 .. Len(attributes)
      PROVE  One(attributes[i]) = FromAttribute(below, runs, m, mask, junk, attributes[i])
  <2>1. attributes[i].type = "list" => junk \in {NoEntry, EmptyEntry} \/ ~RunsOver(attributes[i])
    BY DEF Harmless
  <2> DEFINE a == attributes[i]
  <2> HIDE DEF attributes, a
  <2>2. a.type = "list" => Over(a) = Past(a, junk)
    BY <1>2, <2>1 DEF a
  <2>3. One(a) = FromAttribute(below, runs, m, mask, junk, a)
    BY <2>2 DEF FromAttribute, FromList
  <2> QED
    BY <2>3 DEF a
<1> HIDE DEF One
<1> QED
  BY <1>1, <1>3

\* The data of some records, put together.
LEMMA FlattenFrom ==
  ASSUME NEW R, NEW mask, NEW ss, Len(ss) \in Nat, ss = [i \in 1 .. Len(ss) |-> ss[i]],
         \A i \in 1 .. Len(ss) : From(ss[i], R, mask)
  PROVE  ss \in Seq(Seq(Items)) /\ From(FlattenSeq(ss), R, mask)
<1>1. \A i \in 1 .. Len(ss) : ss[i] \in Seq(Items)
  BY DEF From
<1>2. ss \in Seq(Seq(Items))
  <2> DEFINE T == Seq(Items)
  <2>1. \A i \in 1 .. Len(ss) : ss[i] \in T
    BY <1>1
  <2> HIDE DEF T
  <2>2. ss \in Seq(T)
    BY <2>1
  <2> QED
    BY <2>2 DEF T
<1> DEFINE all == FlattenSeq(ss)
<1>3. /\ all \in Seq(Items)
      /\ \A p \in 1 .. Len(all) : \E i \in 1 .. Len(ss) : \E k \in 1 .. Len(ss[i]) : all[p] = ss[i][k]
  BY <1>2, FlattenElements
<1> HIDE DEF all
<1>4. ASSUME NEW p \in 1 .. Len(all)
      PROVE  all[p] \in {Hang, Fault} \/ \E r \in R : all[p] \in Wanted(r, mask)
  <2>1. PICK i \in 1 .. Len(ss) : \E k \in 1 .. Len(ss[i]) : all[p] = ss[i][k]
    BY <1>3
  <2> QED
    BY <2>1 DEF From
<1>5. From(all, R, mask)
  BY <1>3, <1>4 DEF From
<1> QED
  BY <1>2, <1>5 DEF all

\* A record without a list gives its own data, whatever is below it.
LEMMA RecordGives ==
  ASSUME volume \in Volumes, NEW r \in Ids(volume),
         \A i \in 1 .. Len(volume.rec[r].attributes) : volume.rec[r].attributes[i].type # "list",
         NEW below, NEW runs, NEW mask, NEW junk,
         NEW s, s = CollectAttributes(below, runs, r, mask, junk)
  PROVE  From(s, {r}, mask) /\ Distinct(s) /\ Covers(s, {r}, mask)
<1> DEFINE attributes == volume.rec[r].attributes
           Of(i) == FromAttribute(below, runs, r, mask, junk, attributes[i])
           ss == [i \in 1 .. Len(attributes) |-> Of(i)]
<1>1. s = FlattenSeq(ss)
  <2>1. Harmless(r, junk)
    BY DEF Harmless
  <2> QED
    BY <2>1, CollectAttributesDef
<1>2. Len(attributes) \in Nat
  BY VolumeFacts DEF FilesAreWellFormed, RecordIsWellFormed
<1>3. ASSUME NEW i \in 1 .. Len(attributes)
      PROVE  /\ Of(i) = IF attributes[i].type \in mask THEN <<attributes[i]>> ELSE << >>
             /\ attributes[i] \in Items
  <2> DEFINE a == attributes[i]
  <2>1. a \in Items
    BY DEF Items, Attributes
  <2>2. a.type # "list"
    OBVIOUS
  <2>3. Of(i) = FromAttribute(below, runs, r, mask, junk, a)
    OBVIOUS
  <2> HIDE DEF a, Of
  <2>4. Of(i) = IF a.type \in mask THEN <<a>> ELSE << >>
    BY <2>2, <2>3 DEF FromAttribute
  <2> QED
    BY <2>1, <2>4 DEF a
<1>4. \A i \in 1 .. Len(attributes) : Of(i) \in Seq(Items)
  <2>1. SUFFICES ASSUME NEW i \in 1 .. Len(attributes) PROVE Of(i) \in Seq(Items)
    OBVIOUS
  <2> DEFINE a == attributes[i]
  <2> HIDE DEF Of, attributes
  <2>2. Of(i) = (IF attributes[i].type \in mask THEN <<attributes[i]>> ELSE << >>) /\ attributes[i] \in Items
    BY <1>3, <2>1
  <2>3. CASE attributes[i].type \in mask
    BY <2>2, <2>3
  <2>4. CASE attributes[i].type \notin mask
    BY <2>2, <2>4
  <2> QED
    BY <2>3, <2>4
<1> HIDE DEF Of
<1>5. ss \in Seq(Seq(Items)) /\ Len(ss) = Len(attributes)
  <2> DEFINE T == Seq(Items)
  <2> HIDE DEF T, attributes
  <2>1. \A i \in 1 .. Len(attributes) : Of(i) \in T
    BY <1>4 DEF T
  <2>2. ss \in Seq(T) /\ Len(ss) = Len(attributes)
    BY <1>2, <2>1
  <2> QED
    BY <2>2 DEF T
<1>6. \A i \in 1 .. Len(ss) : ss[i] = IF attributes[i].type \in mask THEN <<attributes[i]>> ELSE << >>
  BY <1>3, <1>5
<1> HIDE DEF ss
<1> QED
  BY <1>1, <1>5, <1>6, OwnData

\* A sign of what went wrong, if any, after the data.
LEMMA PastKeeps ==
  ASSUME NEW R, NEW mask, NEW s, From(s, R, mask), Distinct(s), NEW list, NEW junk
  PROVE  LET t == s \o Past(list, junk) IN
         From(t, R, mask) /\ Distinct(t) /\ (\A p \in 1 .. Len(s) : p \in 1 .. Len(t) /\ t[p] = s[p])
<1> DEFINE t == s \o Past(list, junk)
<1>1. s \in Seq(Items) /\ Len(s) \in Nat
  BY DEF From
<1>2. CASE Past(list, junk) = << >>
  <2>1. t = s
    BY <1>1, <1>2
  <2> QED
    BY <1>1, <2>1
<1>3. CASE Past(list, junk) # << >>
  <2>1. t = s \o <<Hang>>
    BY <1>3 DEF Past
  <2>2. Hang \in Items
    BY DEF Items
  <2>3. /\ t \in Seq(Items) /\ Len(t) = Len(s) + 1 /\ t[Len(s) + 1] = Hang
        /\ \A p \in 1 .. Len(s) : t[p] = s[p]
    <3> HIDE DEF Items
    <3>1. t = Append(s, Hang)
      BY <1>1, <2>1, <2>2
    <3> QED
      BY <1>1, <2>2, <3>1
  <2>4. \A p \in 1 .. Len(t) : p \in 1 .. Len(s) \/ t[p] = Hang
    BY <1>1, <2>3
  <2>5. \A x : ~SameStream(x, Hang) /\ ~SameStream(Hang, x)
    BY DEF SameStream, Hang
  <2>6. Distinct(t)
    BY <2>3, <2>4, <2>5 DEF Distinct
  <2>7. From(t, R, mask)
    BY <2>3, <2>4 DEF From
  <2>8. \A p \in 1 .. Len(s) : p \in 1 .. Len(t)
    BY <1>1, <2>3
  <2> QED
    BY <2>3, <2>6, <2>7, <2>8
<1> QED
  BY <1>2, <1>3

\* The extension records of a file.
Others(m) == Records(m) \ {m}

\* What is below an extension record is its data, if the record is whole.
LEMMA ExtensionGives ==
  ASSUME volume \in Volumes, bad \subseteq DOMAIN volume.disk, NEW m \in Ids(volume), Ordinary(m),
         NEW r \in Others(m), NEW mask, NEW junk, NEW below, NEW b,
         below[r] = CollectAttributes(b, Layout(volume), r, mask, junk),
         NEW s, s = Given(below, ReadRecord(Layout(volume), r))
  PROVE  From(s, {r}, mask) /\ Distinct(s) /\ (Whole(<<"rec", r>>) => Covers(s, {r}, mask))
<1>1. r \in Ids(volume) /\ volume.rec[r].base = m /\ m # 0 /\ ~AtExtentEnd(r)
  BY DEF Others, Records, Ordinary
<1>2. WellFormed(volume) /\ MFT_RECORD_USER \in Nat /\ NoRecord \notin Nat /\ Ids(volume) \subseteq Nat
      /\ FilesAreWellFormed(volume)
  BY VolumeFacts
<1>3. ReadRecord(Layout(volume), r) = IF Whole(<<"rec", r>>) THEN r ELSE NoRecord
  BY <1>1, <1>2, RecordsAreRead
<1>4. \A i \in 1 .. Len(volume.rec[r].attributes) : volume.rec[r].attributes[i].type # "list"
  BY <1>1, <1>2 DEF FilesAreWellFormed, RecordIsWellFormed
<1>5. From(below[r], {r}, mask) /\ Distinct(below[r]) /\ Covers(below[r], {r}, mask)
  BY <1>1, <1>4, RecordGives
<1>6. r # NoRecord
  BY <1>1, <1>2
<1>7. CASE Whole(<<"rec", r>>)
  <2>1. s = below[r]
    BY <1>3, <1>6, <1>7 DEF Given
  <2> QED
    BY <1>5, <2>1
<1>8. CASE ~Whole(<<"rec", r>>)
  <2>1. s = << >>
    BY <1>3, <1>8 DEF Given
  <2> QED
    BY <1>8, <2>1 DEF From, Distinct
<1> QED
  BY <1>7, <1>8

\* A list that cannot be read gives no data.
LEMMA OnlyFault ==
  ASSUME NEW R, NEW mask, NEW s, s = <<Fault>>
  PROVE  From(s, R, mask) /\ Distinct(s) /\ \E p \in 1 .. Len(s) : s[p] = Fault
<1>1. Fault \in Items /\ ~SameStream(Fault, Fault)
  BY DEF Items, SameStream, Fault
<1>2. s \in Seq(Items) /\ 1 \in 1 .. Len(s) /\ s[1] = Fault /\ \A p \in 1 .. Len(s) : p = 1
  BY <1>1
<1> QED
  BY <1>1, <1>2 DEF From, Distinct

\* A list gives data of the extension records, each stream once; and all of it, if
\* the list can be read and is walked to its end and the records are whole.
LEMMA ListGives ==
  ASSUME volume \in Volumes, bad \subseteq DOMAIN volume.disk, NEW m \in Ids(volume), Ordinary(m),
         NEW l \in 1 .. Len(volume.rec[m].attributes), volume.rec[m].attributes[l].type = "list",
         NEW mask, NEW junk, NEW below,
         AreLevels(below, Layout(volume), mask, junk)
  PROVE  LET list == volume.rec[m].attributes[l]
             s    == FromList(below, Layout(volume), m, mask, junk, list) IN
         /\ From(s, Others(m), mask) /\ Distinct(s)
         /\ ~AttributeIsReadable(list) => \E p \in 1 .. Len(s) : s[p] = Fault
         /\ /\ mask = {"data"} /\ AttributeIsReadable(list) /\ Reached(list) = Len(list.entries)
            /\ \A r \in Records(m) : Whole(<<"rec", r>>)
            => Covers(s, Others(m), mask)
<1> DEFINE list == volume.rec[m].attributes[l]
           s == FromList(below, Layout(volume), m, mask, junk, list)
           named == Named(list, m, mask)
           Of(k) == Given(below, ReadRecord(Layout(volume), named[k]))
           ss == [k \in 1 .. Len(named) |-> Of(k)]
<1>1. /\ volume.rec[m].base = 0 /\ Len(list.entries) \in Nat
      /\ \A j \in 1 .. Len(list.entries) : list.entries[j].record \in Records(m)
  <2>1. RecordIsWellFormed(volume, m)
    BY VolumeFacts DEF FilesAreWellFormed
  <2> QED
    BY <2>1 DEF RecordIsWellFormed, Records
<1>2. NamesOf(named, list.entries, Reached(list), m, mask, Records(m))
  BY <1>1, NamedDef
<1>3. Reached(list) \in 0 .. Len(list.entries)
  BY <1>1, ReachedDef
<1> HIDE DEF named
<1>4. Len(named) \in Nat /\ \A k \in 1 .. Len(named) : named[k] \in Others(m)
  <2>1. named \in Seq(Records(m))
    BY <1>2 DEF NamesOf
  <2>2. \A k \in 1 .. Len(named) : named[k] # m
    BY <1>2 DEF NamesOf, IsWanted
  <2> QED
    BY <2>1, <2>2 DEF Others
<1>5. ASSUME NEW k \in 1 .. Len(named)
      PROVE  /\ From(Of(k), {named[k]}, mask) /\ Distinct(Of(k))
             /\ Whole(<<"rec", named[k]>>) => Covers(Of(k), {named[k]}, mask)
  <2>1. named[k] \in Others(m) /\ named[k] \in Ids(volume)
    BY <1>4 DEF Others, Records
  <2>2. PICK b : below[named[k]] = CollectAttributes(b, Layout(volume), named[k], mask, junk)
    BY <2>1 DEF AreLevels
  <2> QED
    BY <2>1, <2>2, ExtensionGives
<1> HIDE DEF Of
<1>6. Len(ss) = Len(named) /\ (\A k \in 1 .. Len(ss) : ss[k] = Of(k)) /\ ss = [k \in 1 .. Len(ss) |-> ss[k]]
  BY <1>4
<1> HIDE DEF ss
<1>7. ss \in Seq(Seq(Items)) /\ From(FlattenSeq(ss), Others(m), mask)
  <2>1. \A k \in 1 .. Len(ss) : From(ss[k], Others(m), mask)
    BY <1>4, <1>5, <1>6 DEF From
  <2> QED
    BY <1>4, <1>6, <2>1, FlattenFrom
<1>8. Distinct(FlattenSeq(ss))
  <2>1. \A k \in 1 .. Len(ss) : Distinct(ss[k])
    BY <1>5, <1>6
  <2>2. ASSUME NEW j \in 1 .. Len(ss), NEW k \in 1 .. Len(ss), j # k PROVE Apart(ss[j], ss[k])
    <3>1. named[j] # named[k]
      BY <1>2, <1>6, <2>2 DEF NamesOf
    <3>2. From(ss[j], {named[j]}, mask) /\ From(ss[k], {named[k]}, mask)
      BY <1>5, <1>6
    <3>3. {named[j]} \in SUBSET Ids(volume) /\ {named[k]} \in SUBSET Ids(volume)
      BY <1>4, <1>6 DEF Others, Records
    <3> QED
      BY <3>1, <3>2, <3>3, RecordsApart
  <2> QED
    BY <1>7, <2>1, <2>2, FlattenDistinct
<1>9. CASE ~AttributeIsReadable(list)
  <2>1. s = <<Fault>>
    BY <1>9 DEF FromList
  <2> QED
    BY <1>9, <2>1, OnlyFault
<1>10. CASE AttributeIsReadable(list)
  <2> DEFINE t == FlattenSeq(ss)
  <2>1. s = t \o Past(list, junk)
    BY <1>10 DEF FromList, ss, Of, named
  <2> HIDE DEF t
  <2>0. From(t, Others(m), mask) /\ Distinct(t)
    BY <1>7, <1>8 DEF t
  <2>2. /\ From(s, Others(m), mask) /\ Distinct(s)
        /\ \A p \in 1 .. Len(t) : p \in 1 .. Len(s) /\ s[p] = t[p]
    BY <2>0, <2>1, PastKeeps
  <2>3. ASSUME mask = {"data"}, Reached(list) = Len(list.entries), \A r \in Records(m) : Whole(<<"rec", r>>),
               NEW r \in Others(m), NEW a \in Wanted(r, mask)
        PROVE  \E p \in 1 .. Len(s) : s[p] = a
    <3>1. r \in Ids(volume) /\ r \in Records(m) /\ r # m /\ volume.rec[r].base = m /\ m # 0
      BY DEF Others, Records, Ordinary
    <3>2. \E i \in 1 .. Len(volume.rec[r].attributes) : volume.rec[r].attributes[i].type = "data"
      BY <2>3 DEF Wanted, Attributes
    <3>3. FilesAreWellFormed(volume)
      BY VolumeFacts
    <3>4. IsListed(volume, r)
      BY <3>1, <3>2, <3>3 DEF FilesAreWellFormed
    <3>5. PICK i \in 1 .. Len(volume.rec[m].attributes) :
             /\ volume.rec[m].attributes[i].type = "list"
             /\ \E j \in 1 .. Len(volume.rec[m].attributes[i].entries) :
                  /\ volume.rec[m].attributes[i].entries[j].record = r
                  /\ volume.rec[m].attributes[i].entries[j].type = "data"
      BY <3>1, <3>4 DEF IsListed
    <3>6. i = l
      BY <3>3, <3>5 DEF FilesAreWellFormed, RecordIsWellFormed
    <3>7. PICK j \in 1 .. Len(list.entries) : list.entries[j].record = r /\ list.entries[j].type = "data"
      BY <3>5, <3>6
    <3>8. IsWanted(list.entries[j], m, mask)
      BY <2>3, <3>1, <3>7 DEF IsWanted
    <3>9. PICK k \in 1 .. Len(named) : named[k] = r
      BY <1>2, <2>3, <3>7, <3>8 DEF NamesOf
    <3>10. Covers(ss[k], {r}, mask)
      BY <1>5, <1>6, <2>3, <3>1, <3>9
    <3>11. PICK q \in 1 .. Len(ss[k]) : ss[k][q] = a
      BY <3>10 DEF Covers
    <3>12. \A x \in 1 .. Len(ss) : \A y \in 1 .. Len(ss[x]) : \E p \in 1 .. Len(t) : t[p] = ss[x][y]
      BY <1>7, FlattenElements DEF t
    <3>13. k \in 1 .. Len(ss)
      BY <1>6
    <3>14. \E p \in 1 .. Len(t) : t[p] = a
      BY <3>11, <3>12, <3>13
    <3> QED
      BY <2>2, <3>14
  <2>4. mask = {"data"} /\ Reached(list) = Len(list.entries) /\ (\A r \in Records(m) : Whole(<<"rec", r>>))
          => Covers(s, Others(m), mask)
    BY <2>3 DEF Covers
  <2> QED
    BY <1>10, <2>2, <2>4
<1> QED
  BY <1>9, <1>10

\* A sequence of at most one element.
LEMMA Single ==
  ASSUME NEW P \in BOOLEAN, NEW a, NEW s, s = IF P THEN <<a>> ELSE << >>
  PROVE  \A p \in 1 .. Len(s) : p = 1 /\ s[p] = a
<1>1. CASE P
  <2>1. s = <<a>>
    BY <1>1
  <2> QED
    BY <2>1
<1>2. CASE ~P
  <2>1. s = << >>
    BY <1>2
  <2> QED
    BY <2>1
<1> QED
  BY <1>1, <1>2

\* What is collected for a file is its data, each stream once; and all of it, when
\* nothing failed, the lists are walked to their ends and the records are whole.
LEMMA FileGives ==
  ASSUME volume \in Volumes, bad \subseteq DOMAIN volume.disk, NEW m \in Ids(volume), Ordinary(m),
         NEW mask, "list" \notin mask, NEW junk, Harmless(m, junk),
         NEW s, s = NtfsReadFileAttributes(Layout(volume), m, mask, junk)
  PROVE  /\ From(s, Records(m), mask) /\ Distinct(s)
         /\ /\ mask = {"data"} /\ \A p \in 1 .. Len(s) : s[p] # Fault
            /\ ListIsReached(m) /\ \A r \in Records(m) : Whole(<<"rec", r>>)
            => Covers(s, Records(m), mask)
<1>1. PICK below :
        /\ s = CollectAttributes(below, Layout(volume), m, mask, junk)
        /\ AreLevels(below, Layout(volume), mask, junk)
  BY LevelsDef
<1> DEFINE attributes == volume.rec[m].attributes
           Of(i) == FromAttribute(below, Layout(volume), m, mask, junk, attributes[i])
           ss == [i \in 1 .. Len(attributes) |-> Of(i)]
<1>2. s = FlattenSeq(ss)
  <2>1. CollectAttributes(below, Layout(volume), m, mask, junk) = FlattenSeq(ss)
    BY CollectAttributesDef
  <2> HIDE DEF ss
  <2> QED
    BY <1>1, <2>1
<1>3. /\ Len(attributes) \in Nat
      /\ \A i, j \in 1 .. Len(attributes) :
           attributes[i].type = "list" /\ attributes[j].type = "list" => i = j
      /\ \A i, j \in 1 .. Len(attributes) : SameStream(attributes[i], attributes[j]) => i = j
  <2>1. FilesAreWellFormed(volume)
    BY VolumeFacts
  <2>2. RecordIsWellFormed(volume, m)
    BY <2>1 DEF FilesAreWellFormed
  <2>3. \A i, j \in 1 .. Len(attributes) : SameStream(attributes[i], attributes[j]) => i = j
    BY <2>1 DEF FilesAreWellFormed, SameStream
  <2>4. Len(attributes) \in Nat
        /\ \A i, j \in 1 .. Len(attributes) :
             attributes[i].type = "list" /\ attributes[j].type = "list" => i = j
    BY <2>2 DEF RecordIsWellFormed
  <2> QED
    BY <2>3, <2>4
<1>4. m \in Records(m) /\ Others(m) \subseteq Records(m) /\ m \notin Others(m) /\ Records(m) \subseteq Ids(volume)
      /\ \A r \in Records(m) : r = m \/ r \in Others(m)
  BY DEF Records, Others
<1>5. ASSUME NEW i \in 1 .. Len(attributes), attributes[i].type # "list"
      PROVE  /\ Of(i) = IF attributes[i].type \in mask THEN <<attributes[i]>> ELSE << >>
             /\ From(Of(i), {m}, mask) /\ Distinct(Of(i))
  <2> DEFINE a == attributes[i]
  <2>1. attributes[i] \in Items /\ (attributes[i].type \in mask => attributes[i] \in Wanted(m, mask))
    BY DEF Items, Attributes, Wanted
  <2>2. Of(i) = FromAttribute(below, Layout(volume), m, mask, junk, attributes[i])
    OBVIOUS
  <2> HIDE DEF Of
  <2>3. Of(i) = IF attributes[i].type \in mask THEN <<attributes[i]>> ELSE << >>
    BY <1>5, <2>2 DEF FromAttribute
  <2> HIDE DEF attributes
  <2>4. From(Of(i), {m}, mask) /\ Distinct(Of(i))
    <3>1. CASE attributes[i].type \in mask
      <4>1. Of(i) = <<attributes[i]>>
        BY <2>3, <3>1
      <4>2. \A p \in 1 .. Len(Of(i)) : p = 1 /\ Of(i)[p] = attributes[i]
        BY <4>1
      <4>3. Of(i) \in Seq(Items)
        BY <2>1, <4>1
      <4> QED
        BY <2>1, <3>1, <4>2, <4>3 DEF From, Distinct
    <3>2. CASE attributes[i].type \notin mask
      <4>1. Of(i) = << >>
        BY <2>3, <3>2
      <4> QED
        BY <4>1 DEF From, Distinct
    <3> QED
      BY <3>1, <3>2
  <2> QED
    BY <2>3, <2>4
<1>6. ASSUME NEW i \in 1 .. Len(attributes), attributes[i].type = "list"
      PROVE  /\ From(Of(i), Others(m), mask) /\ Distinct(Of(i))
             /\ ~AttributeIsReadable(attributes[i]) => \E p \in 1 .. Len(Of(i)) : Of(i)[p] = Fault
             /\ /\ mask = {"data"}
                /\ AttributeIsReadable(attributes[i]) /\ Reached(attributes[i]) = Len(attributes[i].entries)
                /\ \A r \in Records(m) : Whole(<<"rec", r>>)
                => Covers(Of(i), Others(m), mask)
  <2>1. Of(i) = FromList(below, Layout(volume), m, mask, junk, attributes[i])
    BY <1>6 DEF FromAttribute
  <2> HIDE DEF Of
  <2>2. volume.rec[m].attributes[i].type = "list"
    BY <1>6
  <2>3. AreLevels(below, Layout(volume), mask, junk)
    BY <1>1
  <2>4. LET list == volume.rec[m].attributes[i]
            t    == FromList(below, Layout(volume), m, mask, junk, list) IN
        /\ From(t, Others(m), mask) /\ Distinct(t)
        /\ ~AttributeIsReadable(list) => \E p \in 1 .. Len(t) : t[p] = Fault
        /\ /\ mask = {"data"} /\ AttributeIsReadable(list) /\ Reached(list) = Len(list.entries)
           /\ \A r \in Records(m) : Whole(<<"rec", r>>)
           => Covers(t, Others(m), mask)
    BY <2>2, <2>3, ListGives
  <2> QED
    BY <2>1, <2>4
<1> HIDE DEF Of
<1>7. Len(ss) = Len(attributes) /\ (\A i \in 1 .. Len(ss) : ss[i] = Of(i)) /\ ss = [i \in 1 .. Len(ss) |-> ss[i]]
  BY <1>3
<1> HIDE DEF ss
<1>8. \A i \in 1 .. Len(ss) :
        /\ Distinct(ss[i])
        /\ IF attributes[i].type = "list" THEN From(ss[i], Others(m), mask) ELSE From(ss[i], {m}, mask)
  BY <1>5, <1>6, <1>7
<1>9. ss \in Seq(Seq(Items)) /\ From(FlattenSeq(ss), Records(m), mask)
  <2>1. \A i \in 1 .. Len(ss) : From(ss[i], Records(m), mask)
    BY <1>4, <1>8 DEF From
  <2> QED
    BY <1>3, <1>7, <2>1, FlattenFrom
<1>10. Distinct(FlattenSeq(ss))
  <2>1. ASSUME NEW i \in 1 .. Len(ss), NEW j \in 1 .. Len(ss), i # j PROVE Apart(ss[i], ss[j])
    <3>1. {m} \in SUBSET Ids(volume) /\ Others(m) \in SUBSET Ids(volume)
          /\ {m} \cap Others(m) = {} /\ Others(m) \cap {m} = {}
      BY <1>4
    <3>2. CASE attributes[i].type = "list" \/ attributes[j].type = "list"
      <4>1. \/ From(ss[i], Others(m), mask) /\ From(ss[j], {m}, mask)
            \/ From(ss[i], {m}, mask) /\ From(ss[j], Others(m), mask)
        BY <1>3, <1>7, <1>8, <2>1, <3>2
      <4> QED
        BY <3>1, <4>1, RecordsApart
    <3>3. CASE attributes[i].type # "list" /\ attributes[j].type # "list"
      <4>1. /\ ss[i] = IF attributes[i].type \in mask THEN <<attributes[i]>> ELSE << >>
            /\ ss[j] = IF attributes[j].type \in mask THEN <<attributes[j]>> ELSE << >>
        BY <1>5, <1>7, <3>3
      <4>2. ~SameStream(attributes[i], attributes[j])
        BY <1>3, <1>7, <2>1
      <4> HIDE DEF attributes
      <4>3. \A p \in 1 .. Len(ss[i]) : ss[i][p] = attributes[i]
        BY <4>1, Single
      <4>4. \A p \in 1 .. Len(ss[j]) : ss[j][p] = attributes[j]
        BY <4>1, Single
      <4> QED
        BY <4>2, <4>3, <4>4 DEF Apart
    <3> QED
      BY <3>2, <3>3
  <2> QED
    BY <1>8, <1>9, <2>1, FlattenDistinct
<1>11. \A i \in 1 .. Len(ss) : \A k \in 1 .. Len(ss[i]) : \E p \in 1 .. Len(s) : s[p] = ss[i][k]
  <2> DEFINE all == FlattenSeq(ss)
  <2>1. ss \in Seq(Seq(Items))
    BY <1>9
  <2>2. \A i \in 1 .. Len(ss) : \A k \in 1 .. Len(ss[i]) : \E p \in 1 .. Len(all) : all[p] = ss[i][k]
    BY <2>1, FlattenElements
  <2> HIDE DEF all
  <2>3. s = all
    BY <1>2 DEF all
  <2> QED
    BY <2>2, <2>3
<1>12. ASSUME mask = {"data"}, \A p \in 1 .. Len(s) : s[p] # Fault, ListIsReached(m),
              \A r \in Records(m) : Whole(<<"rec", r>>), NEW r \in Records(m), NEW a \in Wanted(r, mask)
       PROVE  \E p \in 1 .. Len(s) : s[p] = a
  <2>1. CASE r = m
    <3>1. PICK i \in 1 .. Len(attributes) : a = attributes[i] /\ attributes[i].type \in mask
      BY <2>1 DEF Wanted, Attributes
    <3>2. ss[i] = <<a>> /\ i \in 1 .. Len(ss)
      BY <1>5, <1>7, <3>1
    <3>3. 1 \in 1 .. Len(ss[i]) /\ ss[i][1] = a
      <4> DEFINE t == ss[i]
      <4>1. t = <<a>>
        BY <3>2
      <4> HIDE DEF t
      <4>2. 1 \in 1 .. Len(t) /\ t[1] = a
        BY <4>1
      <4> QED
        BY <4>2 DEF t
    <3> QED
      BY <1>11, <3>2, <3>3
  <2>2. CASE r # m
    <3>1. r \in Others(m) /\ r \in Ids(volume) /\ volume.rec[r].base = m /\ m # 0
      BY <2>2 DEF Others, Records, Ordinary
    <3>2. \E j \in 1 .. Len(volume.rec[r].attributes) : volume.rec[r].attributes[j].type = "data"
      BY <1>12 DEF Wanted, Attributes
    <3>3. IsListed(volume, r)
      BY <3>1, <3>2, VolumeFacts DEF FilesAreWellFormed
    <3>4. PICK i \in 1 .. Len(attributes) : attributes[i].type = "list"
      BY <3>1, <3>3 DEF IsListed
    <3>5. Reached(attributes[i]) = Len(attributes[i].entries)
      BY <1>12, <3>4 DEF ListIsReached, Attributes
    <3>6. AttributeIsReadable(attributes[i])
      <4>1. SUFFICES ASSUME ~AttributeIsReadable(attributes[i]) PROVE FALSE
        OBVIOUS
      <4>2. \E p \in 1 .. Len(ss[i]) : ss[i][p] = Fault
        BY <1>6, <1>7, <3>4, <4>1
      <4> QED
        BY <1>7, <1>12, <1>11, <4>2
    <3>7. Covers(ss[i], Others(m), mask)
      BY <1>6, <1>7, <1>12, <3>4, <3>5, <3>6
    <3>8. PICK k \in 1 .. Len(ss[i]) : ss[i][k] = a
      BY <3>1, <3>7 DEF Covers
    <3> QED
      BY <1>7, <1>11, <3>8
  <2> QED
    BY <2>1, <2>2
<1> QED
  BY <1>2, <1>9, <1>10, <1>12 DEF Covers

\* A loop over n elements that ends at the first that fails.
LEMMA FirstFailure ==
  ASSUME NEW n \in Nat, NEW failed \in SUBSET (1 .. n),
         NEW m, m = IF failed = {} THEN n ELSE Min(failed) - 1
  PROVE  m \in 0 .. n /\ \A i \in 1 .. m : i \in 1 .. n /\ i \notin failed
<1>1. CASE failed = {}
  BY <1>1
<1>2. CASE failed # {}
  <2>1. failed \in SUBSET Nat
    OBVIOUS
  <2>2. Min(failed) \in failed /\ \A x \in failed : Min(failed) <= x
    BY <1>2, <2>1, MinDef
  <2>3. m = Min(failed) - 1 /\ Min(failed) \in 1 .. n
    BY <1>2, <2>2
  <2> QED
    BY <2>2, <2>3
<1> QED
  BY <1>1, <1>2


\* Running sums of a sequence are those of its beginnings.
LEMMA SumsAgree ==
  ASSUME NEW s, NEW t, Len(s) \in Nat, Len(t) \in Nat, Len(s) <= Len(t),
         \A i \in 1 .. Len(s) : s[i] = t[i], \A i \in 1 .. Len(t) : t[i] \in Int
  PROVE  \A i \in 0 .. Len(s) : Sums(s)[i] = Sums(t)[i]
<1>1. /\ Sums(s)[0] = 0 /\ Sums(t)[0] = 0
      /\ \A i \in 1 .. Len(s) : Sums(s)[i] = Sums(s)[i - 1] + s[i]
      /\ \A i \in 1 .. Len(t) : Sums(t)[i] = Sums(t)[i - 1] + t[i]
  <2>1. \A i \in 1 .. Len(s) : s[i] \in Int
    OBVIOUS
  <2> QED
    BY <2>1, SumsDef
<1> DEFINE U == {n \in Nat : n <= Len(s) => Sums(s)[n] = Sums(t)[n]}
<1>2. 0 \in U
  BY <1>1
<1>3. ASSUME NEW n \in Nat, n \in U PROVE n + 1 \in U
  <2> SUFFICES ASSUME n + 1 <= Len(s) PROVE Sums(s)[n + 1] = Sums(t)[n + 1]
    OBVIOUS
  <2>1. n + 1 \in 1 .. Len(s) /\ n + 1 \in 1 .. Len(t) /\ Sums(s)[n] = Sums(t)[n] /\ (n + 1) - 1 = n
    BY <1>3
  <2> QED
    BY <1>1, <2>1
<1>4. Nat \subseteq U
  <2> HIDE DEF U
  <2> QED
    BY <1>2, <1>3, Induction
<1> QED
  BY <1>4

\* What is read of an attribute is what the disk holds of it, up to the first run that
\* cannot be read; all of it when they all can.
LEMMA AttributeIsRead ==
  ASSUME volume \in Volumes, NEW a, NEW written, Holds(volume, a, written)
  PROVE  LET buffer == NtfsReadNonResidentAttributeData(a)
             runs   == NtfsGetDataRuns(a) IN
         /\ \E S : buffer \in Seq(S)
         /\ \A p \in 1 .. Len(buffer) : p <= Len(written) => buffer[p] = written[p]
         /\ runs = AsRuns(volume, a.extents)
         /\ (\A i \in 1 .. Len(runs) : RunIsReadable(runs[i]))
              => Len(buffer) = Before(volume, a.extents)[Len(a.extents)]
<1> DEFINE extents == a.extents
           at == Before(volume, extents)
           runs == AsRuns(volume, extents)
           start(i) == extents[i][1] * volume.spc
           length(i) == extents[i][2] * volume.spc
           unread == {i \in 1 .. Len(runs) : ~RunIsReadable(runs[i])}
           m == IF unread = {} THEN Len(runs) ELSE Min(unread) - 1
           Of(i) == NtfsReadSector(runs[i].SectorOffset, runs[i].LengthInSectors)
           ss == [i \in 1 .. m |-> Of(i)]
           all == FlattenSeq(ss)
           S == {volume.disk[x] : x \in Int}
<1>1. volume.spc \in Nat
  BY VolumeFacts DEF WellFormed
<1>2. /\ Len(extents) \in Nat
      /\ \A i \in 1 .. Len(extents) : extents[i][1] \in Nat /\ extents[i][2] \in Nat
      /\ Encodes(extents, a.runs)
      /\ Len(written) \in Nat
  BY DEF Holds
<1>3. \A i \in 1 .. Len(extents) : \A k \in 1 .. length(i) :
        at[i - 1] + k <= Len(written) => volume.disk[start(i) + k - 1] = written[at[i - 1] + k]
  BY DEF Holds
<1>4. NtfsGetDataRuns(a) = runs
  BY <1>2, RunsAreDecoded
<1> HIDE DEF extents
<1>5. /\ Len(runs) = Len(extents)
      /\ \A i \in 1 .. Len(extents) : /\ runs[i].SectorOffset = start(i)
                                      /\ runs[i].LengthInSectors = length(i)
                                      /\ length(i) \in Nat /\ start(i) \in Nat
  BY <1>1, <1>2, Product DEF AsRuns
<1>6. NtfsReadNonResidentAttributeData(a) = all
  BY <1>4 DEF NtfsReadNonResidentAttributeData, NtfsReadDataRuns, UpTo
<1> HIDE DEF runs, at
<1>7. m \in 0 .. Len(extents) /\ ((\A i \in 1 .. Len(runs) : RunIsReadable(runs[i])) => m = Len(extents))
  <2>1. unread \in SUBSET (1 .. Len(runs)) /\ Len(runs) \in Nat
    BY <1>2, <1>5
  <2>2. (\A i \in 1 .. Len(runs) : RunIsReadable(runs[i])) => unread = {}
    OBVIOUS
  <2> HIDE DEF unread
  <2>3. m \in 0 .. Len(runs)
    BY <2>1, FirstFailure
  <2> QED
    BY <1>5, <2>2, <2>3
<1> HIDE DEF m, unread
<1>8. m \in Nat /\ m <= Len(extents) /\ \A i \in 1 .. m : i \in 1 .. Len(extents)
  BY <1>2, <1>7
<1>9. ASSUME NEW i \in 1 .. m
      PROVE  /\ Of(i) \in Seq(S) /\ Len(Of(i)) = length(i)
             /\ \A k \in 1 .. length(i) : Of(i)[k] = volume.disk[start(i) + k - 1]
  <2>1. Of(i) = [k \in 1 .. length(i) |-> volume.disk[start(i) + k - 1]]
    BY <1>5, <1>8 DEF NtfsReadSector
  <2>2. length(i) \in Nat /\ start(i) \in Nat
    BY <1>5, <1>8
  <2> DEFINE b == start(i)
             n == length(i)
  <2> HIDE DEF Of, b, n
  <2>3. n \in Nat /\ b \in Nat /\ Of(i) = [k \in 1 .. n |-> volume.disk[b + k - 1]]
    BY <2>1, <2>2 DEF b, n
  <2>4. \A k \in 1 .. n : volume.disk[b + k - 1] \in S
    BY <2>3
  <2> HIDE DEF S
  <2>5. Of(i) \in Seq(S) /\ Len(Of(i)) = n /\ \A k \in 1 .. n : Of(i)[k] = volume.disk[b + k - 1]
    BY <2>3, <2>4
  <2> QED
    BY <2>5 DEF b, n
<1> HIDE DEF Of, S
<1>10. Len(ss) = m /\ ss \in Seq(Seq(S)) /\ \A i \in 1 .. m : ss[i] = Of(i)
  <2> DEFINE T == Seq(S)
  <2>1. \A i \in 1 .. m : Of(i) \in T
    BY <1>9
  <2> HIDE DEF T
  <2>2. ss \in Seq(T) /\ Len(ss) = m
    BY <1>8, <2>1
  <2> QED
    BY <2>2 DEF T
<1> HIDE DEF ss
<1>11. \A i \in 0 .. m : Starts(ss)[i] = at[i]
  <2> DEFINE s == [i \in 1 .. Len(ss) |-> Len(ss[i])]
             t == [i \in 1 .. Len(extents) |-> extents[i][2] * volume.spc]
  <2>1. Len(s) = m /\ Len(t) = Len(extents) /\ \A i \in 1 .. m : s[i] = t[i]
    BY <1>2, <1>8, <1>9, <1>10
  <2>2. \A i \in 1 .. Len(t) : t[i] \in Int
    BY <1>5
  <2>3. Sums(s) = Starts(ss) /\ Sums(t) = at
    BY DEF Starts, Before, at
  <2> HIDE DEF s, t
  <2>4. \A i \in 0 .. Len(s) : Sums(s)[i] = Sums(t)[i]
    BY <1>2, <1>8, <2>1, <2>2, SumsAgree
  <2> QED
    BY <2>1, <2>3, <2>4
<1>12. Joins(S, ss, Starts(ss), all, m)
  BY <1>10, FlattenJoins
<1> HIDE DEF all, start, length
<1>13. /\ all \in Seq(S) /\ Len(all) = at[m]
       /\ \A i \in 1 .. m : \A k \in 1 .. length(i) : all[at[i - 1] + k] = ss[i][k]
       /\ \A p \in 1 .. at[m] : \E i \in 1 .. m : \E k \in 1 .. length(i) : p = at[i - 1] + k
  <2>1. \A i \in 1 .. m : Len(ss[i]) = length(i) /\ Starts(ss)[i - 1] = at[i - 1] /\ Starts(ss)[i] = at[i]
    BY <1>8, <1>9, <1>10, <1>11
  <2>2. Starts(ss)[m] = at[m]
    BY <1>8, <1>11
  <2> QED
    <3>1. /\ all \in Seq(S) /\ Len(all) = Starts(ss)[m]
          /\ \A i \in 1 .. m : \A k \in 1 .. Len(ss[i]) : all[Starts(ss)[i - 1] + k] = ss[i][k]
          /\ \A p \in 1 .. Starts(ss)[m] :
               \E i \in 1 .. m : \E k \in 1 .. Len(ss[i]) : p = Starts(ss)[i - 1] + k
      BY <1>12 DEF Joins
    <3>2. \A i \in 1 .. m : \A k \in 1 .. length(i) : all[at[i - 1] + k] = ss[i][k]
      BY <2>1, <3>1
    <3>3. \A p \in 1 .. at[m] : \E i \in 1 .. m : \E k \in 1 .. length(i) : p = at[i - 1] + k
      BY <2>1, <2>2, <3>1
    <3> QED
      BY <2>2, <3>1, <3>2, <3>3
<1>14. \A i \in 0 .. m : at[i] \in Nat
  <2>1. \A i \in 0 .. m : Starts(ss)[i] \in Nat
    BY <1>10, StartsDef
  <2> QED
    BY <1>11, <2>1
<1>15. ASSUME NEW p \in 1 .. Len(all), p <= Len(written)
       PROVE  all[p] = written[p]
  <2>1. PICK i \in 1 .. m : \E k \in 1 .. length(i) : p = at[i - 1] + k
    BY <1>13
  <2>2. PICK k \in 1 .. length(i) : p = at[i - 1] + k
    BY <2>1
  <2>3. all[p] = ss[i][k]
    BY <1>13, <2>2
  <2>4. ss[i][k] = volume.disk[start(i) + k - 1]
    BY <1>9, <1>10
  <2>5. i \in 1 .. Len(extents) /\ at[i - 1] + k <= Len(written)
    BY <1>8, <1>15, <2>2
  <2>6. volume.disk[start(i) + k - 1] = written[at[i - 1] + k]
    BY <1>3, <2>5 DEF start, length
  <2> QED
    BY <2>2, <2>3, <2>4, <2>6
<1> QED
  <2>1. \E T : all \in Seq(T)
    BY <1>13
  <2>2. (\A i \in 1 .. Len(runs) : RunIsReadable(runs[i])) => Len(all) = at[Len(extents)]
    BY <1>7, <1>13
  <2> QED
    BY <1>4, <1>6, <1>15, <2>1, <2>2, Zenon DEF at, extents, runs

\* The data of a stream that can be read is what the disk holds of it.
LEMMA StreamIsRead ==
  ASSUME volume \in Volumes, NEW m \in Ids(volume), m # 0,
         NEW a \in Wanted(m, {"data"}), AttributeIsReadable(a)
  PROVE  DataStream(a).id = a.id /\ IsContent(a, DataStream(a).data)
<1>1. CASE a.resident
  BY <1>1 DEF DataStream, IsContent
<1>2. CASE ~a.resident
  <2> DEFINE buffer == NtfsReadNonResidentAttributeData(a)
  <2>1. a.sectors \in Nat /\ Holds(volume, a, StreamContent(a))
    <3>1. PICK i \in 1 .. Len(volume.rec[m].attributes) : a = volume.rec[m].attributes[i] /\ a.type = "data"
      BY DEF Wanted, Attributes
    <3>2. RecordIsWellFormed(volume, m)
      BY VolumeFacts DEF FilesAreWellFormed
    <3> QED
      BY <1>2, <3>1, <3>2 DEF RecordIsWellFormed
  <2>2. Len(StreamContent(a)) = a.sectors
    BY <2>1 DEF StreamContent
  <2>3. a.sectors <= Before(volume, a.extents)[Len(a.extents)]
    BY <2>1, <2>2 DEF Holds
  <2>4. PICK S : buffer \in Seq(S)
    BY <2>1, AttributeIsRead
  <2>5. \A p \in 1 .. Len(buffer) : p <= a.sectors => buffer[p] = StreamContent(a)[p]
    BY <2>1, <2>2, AttributeIsRead
  <2>6. Len(buffer) = Before(volume, a.extents)[Len(a.extents)]
    BY <1>2, <2>1, AttributeIsRead DEF AttributeIsReadable
  <2> HIDE DEF buffer
  <2>7. SubSeq(buffer, 1, a.sectors) = StreamContent(a)
    <3> DEFINE n == a.sectors
               c == StreamContent(a)
    <3>1. n \in Nat /\ n <= Len(buffer) /\ c = [k \in 1 .. n |-> c[k]]
      <4>1. c = [k \in 1 .. n |-> c[k]]
        BY DEF StreamContent
      <4> QED
        BY <2>1, <2>3, <2>6, <4>1
    <3>2. /\ Len(buffer) \in Nat
          /\ \A p \in 1 .. Len(buffer) : p <= n => buffer[p] = c[p]
      BY <2>4, <2>5
    <3> HIDE DEF n, c
    <3>3. \A k \in 1 .. n : k \in 1 .. Len(buffer) /\ buffer[k] = c[k]
      BY <3>1, <3>2
    <3>4. SubSeq(buffer, 1, n) = [k \in 1 .. n |-> buffer[1 + k - 1]]
      BY <2>4, <3>1
    <3>5. \A k \in 1 .. n : 1 + k - 1 = k
      OBVIOUS
    <3>6. \A k \in 1 .. n : buffer[1 + k - 1] = c[k]
      BY <3>3, <3>5
    <3>7. SubSeq(buffer, 1, n) = [k \in 1 .. n |-> c[k]]
      BY <3>4, <3>6
    <3> QED
      BY <3>1, <3>7 DEF n, c
  <2>8. DataStream(a) = [id |-> a.id, data |-> SubSeq(buffer, 1, a.sectors)]
    BY <1>2, Zenon DEF DataStream, buffer
  <2>9. DataStream(a) = [id |-> a.id, data |-> StreamContent(a)]
    BY <2>7, <2>8, Zenon
  <2>10. DataStream(a).id = a.id /\ DataStream(a).data = StreamContent(a)
    BY <2>9
  <2> QED
    BY <1>2, <2>10, Zenon DEF IsContent
<1> QED
  BY <1>1, <1>2

\* What a call gives the client of a file: its streams, none twice, each with its data;
\* and all of them, when nothing failed, the lists are walked to their ends and the
\* records are whole.
LEMMA StreamsAreGiven ==
  ASSUME volume \in Volumes, bad \subseteq DOMAIN volume.disk, mftDataRuns = Layout(volume),
         NEW n \in Ids(volume), Ordinary(n), NEW junk, Harmless(n, junk),
         NEW all, all = FileAttributes(n, {"data"}, junk), ~Has(all, "hang"),
         NEW given, given = UpTo(Len(all), LAMBDA i : all[i].type = "fault" \/ ~AttributeIsReadable(all[i]))
  PROVE  /\ Len(all) \in Nat /\ given \in 0 .. Len(all)
         /\ \A i \in 1 .. given : \E a \in StreamsOf(n) :
              DataStream(all[i]).id = a.id /\ IsContent(a, DataStream(all[i]).data)
         /\ \A i, j \in 1 .. given : DataStream(all[i]).id = DataStream(all[j]).id => i = j
         /\ given = Len(all) /\ ListIsReached(n) /\ (\A r \in Records(n) : Whole(<<"rec", r>>))
              => {DataStream(all[i]).id : i \in 1 .. given} = {a.id : a \in StreamsOf(n)}
<1>1. /\ WellFormed(volume) /\ MFT_RECORD_USER \in Nat /\ NoRecord \notin Nat /\ Ids(volume) \subseteq Nat
      /\ n \in Records(n) /\ Records(n) \subseteq Ids(volume) /\ 0 \notin Records(n) /\ ~AtExtentEnd(n)
  <2>1. /\ WellFormed(volume) /\ MFT_RECORD_USER \in Nat /\ NoRecord \notin Nat /\ Ids(volume) \subseteq Nat
        /\ volume.rec[0].base = 0
    BY VolumeFacts DEF FilesAreWellFormed
  <2>2. n # 0 /\ n \in Records(n) /\ Records(n) \subseteq Ids(volume) /\ ~AtExtentEnd(n)
    BY DEF Ordinary, Records
  <2>3. 0 \notin Records(n)
    BY <2>1, <2>2 DEF Records
  <2> QED
    BY <2>1, <2>2, <2>3
<1>2. ReadRecord(mftDataRuns, n) = IF Whole(<<"rec", n>>) THEN n ELSE NoRecord
  BY <1>1, RecordsAreRead
<1>3. /\ From(all, Records(n), {"data"}) /\ Distinct(all)
      /\ /\ \A p \in 1 .. Len(all) : all[p] # Fault
         /\ ListIsReached(n) /\ \A r \in Records(n) : Whole(<<"rec", r>>)
         => Covers(all, Records(n), {"data"})
  <2>1. CASE Whole(<<"rec", n>>)
    <3>1. all = NtfsReadFileAttributes(Layout(volume), n, {"data"}, junk)
      BY <1>1, <1>2, <2>1 DEF FileAttributes
    <3> QED
      BY <3>1, FileGives
  <2>2. CASE ~Whole(<<"rec", n>>)
    <3>1. all = << >>
      BY <1>2, <2>2 DEF FileAttributes
    <3> QED
      BY <1>1, <2>2, <3>1 DEF From, Distinct
  <2> QED
    BY <2>1, <2>2
<1>4. Len(all) \in Nat
  BY <1>3 DEF From
<1>5. /\ given \in 0 .. Len(all)
      /\ \A i \in 1 .. given : all[i].type # "fault" /\ AttributeIsReadable(all[i])
  <2> DEFINE failed == {i \in 1 .. Len(all) : all[i].type = "fault" \/ ~AttributeIsReadable(all[i])}
  <2>1. given = IF failed = {} THEN Len(all) ELSE Min(failed) - 1
    BY DEF UpTo
  <2>2. failed \in SUBSET (1 .. Len(all))
    OBVIOUS
  <2>3. \A i \in 1 .. Len(all) : i \notin failed => all[i].type # "fault" /\ AttributeIsReadable(all[i])
    OBVIOUS
  <2> HIDE DEF failed
  <2>4. given \in 0 .. Len(all) /\ \A i \in 1 .. given : i \in 1 .. Len(all) /\ i \notin failed
    BY <1>4, <2>1, <2>2, FirstFailure
  <2> QED
    BY <2>3, <2>4
<1>99. Hang.type = "hang" /\ Fault.type = "fault"
  BY DEF Hang, Fault
<1>6. ASSUME NEW i \in 1 .. given
      PROVE  \E r \in Records(n) : all[i] \in Wanted(r, {"data"})
  <2>1. i \in 1 .. Len(all)
    BY <1>4, <1>5
  <2>2. all[i] # Hang /\ all[i] # Fault
    BY <1>99, <1>5, <2>1 DEF Has
  <2> QED
    BY <1>3, <2>1, <2>2 DEF From
<1>7. ASSUME NEW i \in 1 .. given
      PROVE  /\ all[i] \in StreamsOf(n) /\ all[i].type = "data"
             /\ DataStream(all[i]).id = all[i].id /\ IsContent(all[i], DataStream(all[i]).data)
  <2>1. PICK r \in Records(n) : all[i] \in Wanted(r, {"data"})
    BY <1>6
  <2>2. r \in Ids(volume) /\ r # 0
    BY <1>1
  <2>3. all[i] \in StreamsOf(n) /\ all[i].type = "data"
    BY <2>1 DEF StreamsOf, Wanted
  <2> QED
    BY <1>5, <2>1, <2>2, <2>3, StreamIsRead
<1>8. ASSUME NEW i \in 1 .. given, NEW j \in 1 .. given, DataStream(all[i]).id = DataStream(all[j]).id
      PROVE  i = j
  <2>1. SameStream(all[i], all[j])
    BY <1>7, <1>8 DEF SameStream
  <2>2. i \in 1 .. Len(all) /\ j \in 1 .. Len(all)
    BY <1>4, <1>5
  <2> QED
    BY <1>3, <2>1, <2>2 DEF Distinct
<1>9. ASSUME given = Len(all), ListIsReached(n), \A r \in Records(n) : Whole(<<"rec", r>>)
      PROVE  {DataStream(all[i]).id : i \in 1 .. given} = {a.id : a \in StreamsOf(n)}
  <2>1. \A p \in 1 .. Len(all) : all[p] # Fault
    BY <1>99, <1>5, <1>9
  <2>2. Covers(all, Records(n), {"data"})
    BY <1>3, <1>9, <2>1
  <2>3. ASSUME NEW a \in StreamsOf(n)
        PROVE  \E i \in 1 .. given : DataStream(all[i]).id = a.id
    <3>1. PICK r \in Records(n) : a \in Wanted(r, {"data"})
      BY DEF StreamsOf, Wanted
    <3>2. PICK i \in 1 .. Len(all) : all[i] = a
      BY <2>2, <3>1 DEF Covers
    <3> QED
      BY <1>7, <1>9, <3>2
  <2>4. \A i \in 1 .. given : \E a \in StreamsOf(n) : DataStream(all[i]).id = a.id
    BY <1>7
  <2> DEFINE I(i) == DataStream(all[i]).id
             S == StreamsOf(n)
  <2>5. \A i \in 1 .. given : I(i) \in {a.id : a \in S}
    BY <2>4
  <2>6. \A a \in S : a.id \in {I(i) : i \in 1 .. given}
    BY <2>3
  <2> HIDE DEF I, S
  <2>7. {I(i) : i \in 1 .. given} = {a.id : a \in S}
    BY <2>5, <2>6
  <2> QED
    BY <2>7 DEF I, S
<1> QED
  BY <1>4, <1>5, <1>7, <1>8, <1>9

\* The answers of the call for the streams of a file.
LEMMA StreamsStep ==
  ASSUME RecordsAreFound, StreamsBelongToFile, StreamsAreComplete, [NtfsNext]_ntfsVars
  PROVE  StreamsBelongToFile' /\ StreamsAreComplete'
<1>1. volume \in Volumes /\ bad \subseteq DOMAIN volume.disk /\ Ids(volume) \subseteq Nat
  BY VolumeFacts DEF RecordsAreFound, NtfsTypeOK
\* Any other answer.
<1>2. ASSUME answer'.call # "streams"
      PROVE  StreamsBelongToFile' /\ StreamsAreComplete'
  BY <1>2 DEF StreamsBelongToFile, StreamsAreComplete
<1>3. ASSUME NEW n \in Ids(volume), NEW junk \in Junk, NtfsReadFileDataStreams(n, junk)
      PROVE  StreamsBelongToFile' /\ StreamsAreComplete'
  <2> DEFINE all == FileAttributes(n, {"data"}, junk)
             given == UpTo(Len(all), LAMBDA i : all[i].type = "fault" \/ ~AttributeIsReadable(all[i]))
             hung == Has(all, "hang")
             out == IF hung THEN << >> ELSE [i \in 1 .. given |-> DataStream(all[i])]
  <2>1. /\ volume' = volume /\ torn' = torn /\ bad' = bad /\ status = "open"
        /\ status' = CASE hung -> "hung" [] given # Len(all) -> "corrupt" [] OTHER -> "open"
        /\ answer' = [call |-> "streams", n |-> n, junk |-> junk, ok |-> FALSE, out |-> out]
    BY <1>3, Zenon DEF NtfsReadFileDataStreams, Calls, Answer
  <2>2. mftDataRuns = Layout(volume)
    BY <2>1 DEF RecordsAreFound, RunsAreTheLayout
  <2>3. ~RunsPast(n, junk) => Harmless(n, junk)
    BY <1>1, JunkIsHarmless
  <2>4. ~RunsPast(n, junk) /\ Ordinary(n) /\ ~hung =>
          /\ Len(all) \in Nat /\ given \in 0 .. Len(all)
          /\ \A i \in 1 .. given : \E a \in StreamsOf(n) :
               DataStream(all[i]).id = a.id /\ IsContent(a, DataStream(all[i]).data)
          /\ \A i, j \in 1 .. given : DataStream(all[i]).id = DataStream(all[j]).id => i = j
          /\ given = Len(all) /\ ListIsReached(n) /\ (\A r \in Records(n) : Whole(<<"rec", r>>))
               => {DataStream(all[i]).id : i \in 1 .. given} = {a.id : a \in StreamsOf(n)}
    BY <1>1, <2>2, <2>3, StreamsAreGiven
  <2> HIDE DEF all, given, hung
  <2>5. /\ hung => Len(out) = 0
        /\ given \in Nat /\ ~hung => Len(out) = given /\ \A i \in 1 .. given : out[i] = DataStream(all[i])
    <3>1. CASE hung
      BY <3>1
    <3>2. CASE ~hung
      <4>1. out = [i \in 1 .. given |-> DataStream(all[i])]
        BY <3>2
      <4> HIDE DEF out
      <4> QED
        BY <3>2, <4>1
    <3> QED
      BY <3>1, <3>2
  <2> HIDE DEF out
  <2>6. ~RunsPast(n, junk) /\ Ordinary(n) =>
          /\ \A i \in 1 .. Len(out) : \E a \in StreamsOf(n) : out[i].id = a.id /\ IsContent(a, out[i].data)
          /\ \A i, j \in 1 .. Len(out) : out[i].id = out[j].id => i = j
    BY <2>4, <2>5
  <2>7. ~RunsPast(n, junk) /\ status' = "open" /\ Ordinary(n) /\ ListIsReached(n)
          /\ (\A r \in Records(n) : Whole(<<"rec", r>>))
          => {out[i].id : i \in 1 .. Len(out)} = {a.id : a \in StreamsOf(n)}
    <3>1. SUFFICES ASSUME ~RunsPast(n, junk), status' = "open", Ordinary(n), ListIsReached(n),
                          \A r \in Records(n) : Whole(<<"rec", r>>)
                   PROVE  {out[i].id : i \in 1 .. Len(out)} = {a.id : a \in StreamsOf(n)}
      OBVIOUS
    <3>2. ~hung /\ given = Len(all)
      BY <2>1, <3>1
    <3>3. Len(out) = given /\ \A i \in 1 .. given : out[i] = DataStream(all[i])
      BY <2>4, <2>5, <3>1, <3>2
    <3>4. {DataStream(all[i]).id : i \in 1 .. given} = {a.id : a \in StreamsOf(n)}
      BY <2>4, <3>1, <3>2
    <3>5. {out[i].id : i \in 1 .. given} = {DataStream(all[i]).id : i \in 1 .. given}
      BY <3>3
    <3> QED
      BY <3>3, <3>4, <3>5, Zenon
  <2>8. (Ordinary(n)' <=> Ordinary(n)) /\ (RunsPast(n, junk)' <=> RunsPast(n, junk))
    BY <2>1 DEF Ordinary, Records, AtExtentEnd, RunsPast, Attributes
  <2>9. StreamsOf(n)' = StreamsOf(n)
    BY <2>1 DEF StreamsOf, Records, Attributes
  <2>10. (ListIsReached(n)' <=> ListIsReached(n)) /\ Records(n)' = Records(n)
    BY <2>1 DEF ListIsReached, Attributes, Records
  <2>11. \A x : Whole(x)' <=> Whole(x)
    BY <2>1 DEF Whole, Place
  <2>12. answer'.call = "streams" /\ answer'.n = n /\ answer'.junk = junk /\ answer'.out = out
    BY <2>1
  <2>13. StreamsBelongToFile'
    BY <2>6, <2>8, <2>9, <2>12 DEF StreamsBelongToFile
  <2>14. StreamsAreComplete'
    BY <2>7, <2>8, <2>9, <2>10, <2>11, <2>12 DEF StreamsAreComplete
  <2> QED
    BY <2>13, <2>14
<1>4. CASE NtfsInitVolume
  BY <1>2, <1>4 DEF NtfsInitVolume, Answer
<1>5. ASSUME NEW n \in Ids(volume), NtfsReadFileRecord(n) PROVE answer'.call # "streams"
  BY <1>5 DEF NtfsReadFileRecord, Answer
<1>6. ASSUME NEW n \in Ids(volume), NEW junk \in Junk, NtfsEnumSubFiles(n, junk)
      PROVE  answer'.call # "streams"
  <2>1. answer'.call = "files"
    BY <1>6 DEF NtfsEnumSubFiles, Answer
  <2> QED
    BY <2>1
<1>7. CASE NtfsFreeVolume \/ VolumeChanges \/ TakeAnswer
  <2>1. answer' = NoAnswer
    BY <1>7 DEF NtfsFreeVolume, VolumeChanges, TakeAnswer, Calls
  <2> QED
    BY <1>2, <2>1 DEF NoAnswer
<1>8. CASE UNCHANGED ntfsVars
  <2>1. /\ volume' = volume /\ torn' = torn /\ bad' = bad /\ status' = status /\ answer' = answer
    BY <1>8 DEF ntfsVars
  <2>2. (Ordinary(answer.n)' <=> Ordinary(answer.n)) /\ (RunsPast(answer.n, answer.junk)' <=> RunsPast(answer.n, answer.junk))
    BY <2>1 DEF Ordinary, Records, AtExtentEnd, RunsPast, Attributes
  <2>3. StreamsOf(answer.n)' = StreamsOf(answer.n)
    BY <2>1 DEF StreamsOf, Records, Attributes
  <2>4. (ListIsReached(answer.n)' <=> ListIsReached(answer.n)) /\ Records(answer.n)' = Records(answer.n)
    BY <2>1 DEF ListIsReached, Attributes, Records
  <2>5. \A x : Whole(x)' <=> Whole(x)
    BY <2>1 DEF Whole, Place
  <2>6. StreamsBelongToFile'
    BY <2>1, <2>2, <2>3 DEF StreamsBelongToFile
  <2>7. StreamsAreComplete'
    BY <2>1, <2>2, <2>3, <2>4, <2>5 DEF StreamsAreComplete
  <2> QED
    BY <2>6, <2>7
<1> QED
  BY <1>2, <1>3, <1>4, <1>5, <1>6, <1>7, <1>8 DEF NtfsNext

-----------------------------------------------------------------------------
(***************************************************************************)
(* What a walk of an index gives.                                          *)
(***************************************************************************)

\* Every index block is whole.
BlocksAreWhole == \A b \in DOMAIN volume.blk : Whole(<<"blk", b>>)

\* A walk over "files": it does not end, or gives files of them, in order, and all
\* of them if every block is whole.
Walked(out, files) ==
  /\ out \in Seq(Int \cup {NoRecord})
  /\ \/ \E p \in 1 .. Len(out) : out[p] = NoEnd
     \/ /\ \A p \in 1 .. Len(out) : out[p] \in files \cup {NoRecord}
        /\ \A p, q \in 1 .. Len(out) :
             p < q /\ out[p] # NoRecord /\ out[q] # NoRecord => out[p] < out[q]
        /\ BlocksAreWhole => \A f \in files : \E p \in 1 .. Len(out) : out[p] = f

\* A file after those before it.
LEMMA FileAfter ==
  ASSUME NEW files \in SUBSET Nat, NEW out, Walked(out, files),
         NEW f \in Nat \cup {NoRecord}, \A x \in files : f # NoRecord => x < f
  PROVE  Walked(out \o <<f>>, files \cup ({f} \ {NoRecord}))
<1> DEFINE S == Int \cup {NoRecord}
           s == out \o <<f>>
<1>1. out \in Seq(S) /\ Len(out) \in Nat /\ f \in S
  BY DEF Walked
<1>2. /\ s \in Seq(S) /\ Len(s) = Len(out) + 1 /\ s[Len(out) + 1] = f
      /\ \A p \in 1 .. Len(out) : s[p] = out[p]
  <2> HIDE DEF S
  <2>1. s = Append(out, f)
    BY <1>1
  <2> QED
    BY <1>1, <2>1
<1>3. \A p \in 1 .. Len(s) : p \in 1 .. Len(out) \/ (p = Len(out) + 1 /\ s[p] = f)
  BY <1>1, <1>2
<1>4. \A p \in 1 .. Len(out) : p \in 1 .. Len(s)
  BY <1>1, <1>2
<1>5. Len(out) + 1 \in 1 .. Len(s)
  BY <1>1, <1>2
<1> HIDE DEF s
<1>6. CASE \E p \in 1 .. Len(out) : out[p] = NoEnd
  <2>1. \E p \in 1 .. Len(s) : s[p] = NoEnd
    BY <1>2, <1>4, <1>6
  <2> QED
    BY <1>2, <2>1 DEF Walked, s
<1>7. CASE ~\E p \in 1 .. Len(out) : out[p] = NoEnd
  <2>1. /\ \A p \in 1 .. Len(out) : out[p] \in files \cup {NoRecord}
        /\ \A p, q \in 1 .. Len(out) :
             p < q /\ out[p] # NoRecord /\ out[q] # NoRecord => out[p] < out[q]
        /\ BlocksAreWhole => \A x \in files : \E p \in 1 .. Len(out) : out[p] = x
    BY <1>7 DEF Walked
  <2>2. \A p \in 1 .. Len(s) : s[p] \in files \cup ({f} \ {NoRecord}) \cup {NoRecord}
    BY <1>2, <1>3, <2>1
  <2>3. ASSUME NEW p \in 1 .. Len(s), NEW q \in 1 .. Len(s),
               p < q, s[p] # NoRecord, s[q] # NoRecord
        PROVE  s[p] < s[q]
    <3>1. p \in 1 .. Len(out)
      BY <1>1, <1>2, <2>3
    <3>2. CASE q \in 1 .. Len(out)
      BY <1>2, <2>1, <2>3, <3>1, <3>2
    <3>3. CASE s[q] = f
      <4>1. s[p] \in files
        BY <1>2, <2>1, <2>3, <3>1
      <4> QED
        BY <2>3, <3>3, <4>1
    <3> QED
      BY <1>3, <3>2, <3>3
  <2>4. BlocksAreWhole => \A x \in files \cup ({f} \ {NoRecord}) : \E p \in 1 .. Len(s) : s[p] = x
    BY <1>2, <1>4, <1>5, <2>1
  <2> QED
    BY <1>2, <2>2, <2>3, <2>4 DEF Walked, s
<1> QED
  BY <1>6, <1>7

\* The k-th place after a is not before one of the n places after b, if those come
\* before a.
LEMMA NotBefore ==
  ASSUME NEW a \in Nat, NEW b \in Nat, NEW c \in Nat, NEW n \in Nat, c = b + n, c <= a,
         NEW k \in Nat, 1 <= k, NEW l \in Nat, l <= n
  PROVE  ~(a + k < b + l)
  OBVIOUS

\* Walks over parts that follow each other.
LEMMA PartsInOrder ==
  ASSUME NEW n \in Nat, NEW ss, NEW parts, ss = [i \in 1 .. n |-> ss[i]],
         \A i \in 1 .. n : Walked(ss[i], parts[i]) /\ parts[i] \in SUBSET Nat,
         \A i, j \in 1 .. n : i < j => \A x \in parts[i], y \in parts[j] : x < y
  PROVE  Walked(FlattenSeq(ss), UNION {parts[i] : i \in 1 .. n})
<1> DEFINE S == Int \cup {NoRecord}
           all == FlattenSeq(ss)
           at == Starts(ss)
           files == UNION {parts[i] : i \in 1 .. n}
<1>1. ss \in Seq(Seq(S)) /\ Len(ss) = n
  <2> DEFINE T == Seq(S)
  <2>1. \A i \in 1 .. n : ss[i] \in T
    BY DEF Walked
  <2> HIDE DEF T
  <2>2. ss \in Seq(T) /\ Len(ss) = n
    BY <2>1
  <2> QED
    BY <2>2 DEF T
<1> HIDE DEF S
<1>2. /\ all \in Seq(S)
      /\ \A p \in 1 .. Len(all) : \E i \in 1 .. n : \E k \in 1 .. Len(ss[i]) :
           p = at[i - 1] + k /\ all[p] = ss[i][k]
      /\ \A i \in 1 .. n : \A k \in 1 .. Len(ss[i]) : \E p \in 1 .. Len(all) : all[p] = ss[i][k]
  <2>1. /\ all \in Seq(S)
        /\ \A p \in 1 .. Len(all) : \E i \in 1 .. Len(ss) : \E k \in 1 .. Len(ss[i]) :
             p = at[i - 1] + k /\ all[p] = ss[i][k]
        /\ \A i \in 1 .. Len(ss) : \A k \in 1 .. Len(ss[i]) : \E p \in 1 .. Len(all) : all[p] = ss[i][k]
    BY <1>1, FlattenElements
  <2> HIDE DEF all, at
  <2> QED
    BY <1>1, <2>1
<1>3. /\ \A i \in 1 .. n : Len(ss[i]) \in Nat /\ at[i] = at[i - 1] + Len(ss[i])
      /\ \A i \in 0 .. n : at[i] \in Nat
      /\ \A i, j \in 0 .. n : i <= j => at[i] <= at[j]
  BY <1>1, StartsDef
<1> HIDE DEF all, at
<1>4. CASE \E i \in 1 .. n : \E k \in 1 .. Len(ss[i]) : ss[i][k] = NoEnd
  <2>1. PICK i \in 1 .. n : \E k \in 1 .. Len(ss[i]) : ss[i][k] = NoEnd
    BY <1>4
  <2>2. PICK k \in 1 .. Len(ss[i]) : ss[i][k] = NoEnd
    BY <2>1
  <2>3. \E p \in 1 .. Len(all) : all[p] = NoEnd
    BY <1>2, <2>2
  <2> QED
    BY <1>2, <2>3 DEF Walked, S, all
<1>5. CASE ~\E i \in 1 .. n : \E k \in 1 .. Len(ss[i]) : ss[i][k] = NoEnd
  <2>1. ASSUME NEW i \in 1 .. n
        PROVE  /\ \A k \in 1 .. Len(ss[i]) : ss[i][k] \in parts[i] \cup {NoRecord}
               /\ \A k, l \in 1 .. Len(ss[i]) :
                    k < l /\ ss[i][k] # NoRecord /\ ss[i][l] # NoRecord => ss[i][k] < ss[i][l]
               /\ BlocksAreWhole => \A f \in parts[i] : \E k \in 1 .. Len(ss[i]) : ss[i][k] = f
    BY <1>5 DEF Walked
  <2>2. ASSUME NEW p \in 1 .. Len(all) PROVE all[p] \in files \cup {NoRecord}
    <3>1. PICK i \in 1 .. n : \E k \in 1 .. Len(ss[i]) : p = at[i - 1] + k /\ all[p] = ss[i][k]
      BY <1>2
    <3>2. PICK k \in 1 .. Len(ss[i]) : all[p] = ss[i][k]
      BY <3>1
    <3>3. all[p] \in parts[i] \cup {NoRecord}
      BY <2>1, <3>2
    <3> QED
      BY <3>3
  <2>3. ASSUME NEW p \in 1 .. Len(all), NEW q \in 1 .. Len(all),
               p < q, all[p] # NoRecord, all[q] # NoRecord
        PROVE  all[p] < all[q]
    <3>1. PICK i \in 1 .. n : \E k \in 1 .. Len(ss[i]) : p = at[i - 1] + k /\ all[p] = ss[i][k]
      BY <1>2
    <3>2. PICK k \in 1 .. Len(ss[i]) : p = at[i - 1] + k /\ all[p] = ss[i][k]
      BY <3>1
    <3>3. PICK j \in 1 .. n : \E l \in 1 .. Len(ss[j]) : q = at[j - 1] + l /\ all[q] = ss[j][l]
      BY <1>2
    <3>4. PICK l \in 1 .. Len(ss[j]) : q = at[j - 1] + l /\ all[q] = ss[j][l]
      BY <3>3
    <3>5. ~(j < i)
      <4>1. SUFFICES ASSUME j < i PROVE FALSE
        OBVIOUS
      <4>2. /\ j \in 0 .. n /\ i - 1 \in 0 .. n /\ j - 1 \in 0 .. n /\ j <= i - 1
            /\ at[j] = at[j - 1] + Len(ss[j]) /\ Len(ss[j]) \in Nat
        BY <1>3, <4>1
      <4>3. at[j] <= at[i - 1] /\ at[j] \in Nat /\ at[i - 1] \in Nat /\ at[j - 1] \in Nat
        BY <1>3, <4>2
      <4>4. p = at[i - 1] + k /\ k \in Nat /\ 1 <= k
        BY <1>3, <3>2
      <4>5. q = at[j - 1] + l /\ l \in Nat /\ l <= Len(ss[j])
        BY <1>3, <3>4
      <4>6. p < q
        BY <2>3
      <4>7. ~(at[i - 1] + k < at[j - 1] + l)
        BY <4>2, <4>3, <4>4, <4>5, NotBefore
      <4> QED
        BY <4>4, <4>5, <4>6, <4>7, Zenon
    <3>6. CASE i = j
      <4>1. k < l
        BY <1>3, <2>3, <3>2, <3>4, <3>6
      <4>2. ss[i][k] # NoRecord /\ ss[i][l] # NoRecord /\ l \in 1 .. Len(ss[i])
        BY <2>3, <3>2, <3>4, <3>6
      <4>3. ss[i][k] < ss[i][l]
        BY <2>1, <4>1, <4>2
      <4> QED
        BY <3>2, <3>4, <3>6, <4>3
    <3>7. CASE i < j
      <4>1. ss[i][k] \in parts[i] /\ ss[j][l] \in parts[j]
        BY <2>1, <2>3, <3>2, <3>4
      <4>2. ss[i][k] < ss[j][l]
        BY <3>7, <4>1
      <4> QED
        BY <3>2, <3>4, <4>2
    <3> QED
      BY <3>5, <3>6, <3>7
  <2>4. BlocksAreWhole => \A f \in files : \E p \in 1 .. Len(all) : all[p] = f
    <3>1. SUFFICES ASSUME BlocksAreWhole, NEW f \in files PROVE \E p \in 1 .. Len(all) : all[p] = f
      OBVIOUS
    <3>2. PICK i \in 1 .. n : f \in parts[i]
      OBVIOUS
    <3>3. PICK k \in 1 .. Len(ss[i]) : ss[i][k] = f
      BY <2>1, <3>1, <3>2
    <3> QED
      BY <1>2, <3>3
  <2> HIDE DEF files
  <2>5. Walked(all, files)
    BY <1>2, <2>2, <2>3, <2>4 DEF Walked, S
  <2> QED
    BY <2>5 DEF all, files
<1> QED
  BY <1>4, <1>5

\* The index blocks that the entries of a directory lead to are in order.
IsMadeOfBlocks(index) ==
  /\ Len(index) \in Nat
  /\ \A p \in 1 .. Len(index) :
       \E b \in DOMAIN volume.blk :
         index[p].owner = <<"blk", b>> /\ IsOrdered(volume, index, volume.blk[b], volume.under[b])

\* What was read of an index: a part from its start, or all, if every block is whole.
IsReadOf(buffer, index) ==
  /\ \E S : buffer \in Seq(S)
  /\ \A p \in 1 .. Len(buffer) : p <= Len(index) => buffer[p] = index[p]
  /\ BlocksAreWhole => Len(index) <= Len(buffer)

\* The sub-node of an entry is the block it leads to, or none is found there; it is
\* found when every block is whole.
LEMMA BlockIsFound ==
  ASSUME volume \in Volumes, NEW index, IsMadeOfBlocks(index), NEW buffer, IsReadOf(buffer, index),
         NEW c, IsBlock(volume, index, c)
  PROVE  LET b == LeadOf(volume, index, c) IN
         /\ b \in DOMAIN volume.blk /\ IsOrdered(volume, index, volume.blk[b], volume.under[b])
         /\ BlockAt(buffer, c) \in {b, NoRecord}
         /\ BlocksAreWhole => BlockAt(buffer, c) = b
<1> DEFINE b       == LeadOf(volume, index, c)
           owner   == <<"blk", b>>
           from    == c * volume.spc
           size    == BlockSectors(volume)
           sectors == SubSeq(buffer, from + 1, from + size)
<1>1. /\ size \in Nat \ {0} /\ from \in Nat /\ from + size <= Len(index) /\ Len(index) \in Nat
      /\ \A k \in 1 .. size : index[from + k] = [owner |-> owner, part |-> k - 1]
  BY VolumeFacts DEF IndexesAreWellFormed, IsBlock, IsMadeOfBlocks
<1>2. BlockAt(buffer, c) =
        IF from + size <= Len(buffer) /\ NtfsPatchUpdateSequence(sectors)
          THEN sectors[1].owner[2] ELSE NoRecord
  BY DEF BlockAt
<1>3. owner[1] = "blk" /\ owner[2] = b
  OBVIOUS
<1> HIDE DEF b, from, size, sectors
<1>4. b \in DOMAIN volume.blk /\ IsOrdered(volume, index, volume.blk[b], volume.under[b])
  <2>1. from + 1 \in 1 .. Len(index) /\ index[from + 1].owner = owner
    <3>1. 1 \in 1 .. size /\ from + 1 \in 1 .. Len(index)
      BY <1>1
    <3>2. index[from + 1] = [owner |-> owner, part |-> 1 - 1]
      BY <1>1, <3>1
    <3> QED
      BY <3>1, <3>2
  <2>2. PICK x \in DOMAIN volume.blk : /\ index[from + 1].owner = <<"blk", x>>
                                       /\ IsOrdered(volume, index, volume.blk[x], volume.under[x])
    BY <2>1 DEF IsMadeOfBlocks
  <2>3. x = b
    BY <2>1, <2>2
  <2> QED
    BY <2>2, <2>3
<1>5. BlocksAreWhole => owner \notin torn
  BY <1>4 DEF BlocksAreWhole, Whole
<1> HIDE DEF owner
<1>6. CASE from + size <= Len(buffer)
  <2>1. PICK S : buffer \in Seq(S)
    BY DEF IsReadOf
  <2>2. Len(sectors) = size /\ \A k \in 1 .. size : sectors[k] = buffer[from + k]
    <3>1. sectors = [k \in 1 .. size |-> buffer[(from + 1) + k - 1]]
      BY <1>1, <1>6, <2>1 DEF sectors
    <3>2. \A k \in 1 .. size : (from + 1) + k - 1 = from + k
      BY <1>1
    <3> QED
      BY <1>1, <3>1, <3>2
  <2>3. ASSUME NEW k \in 1 .. size
        PROVE  sectors[k].owner = owner /\ sectors[k].part = k - 1
    <3>1. from + k \in 1 .. Len(buffer) /\ from + k <= Len(index)
      BY <1>1, <1>6, <2>1
    <3>2. buffer[from + k] = index[from + k]
      BY <3>1 DEF IsReadOf
    <3>3. index[from + k] = [owner |-> owner, part |-> k - 1]
      BY <1>1
    <3>4. sectors[k] = [owner |-> owner, part |-> k - 1]
      BY <2>2, <3>2, <3>3
    <3> QED
      BY <3>4
  <2>4. 1 \in 1 .. size
    BY <1>1
  <2>5. sectors[1].owner[2] = b
    BY <1>3, <2>3, <2>4
  <2>6. owner \notin torn => NtfsPatchUpdateSequence(sectors)
    <3>1. SUFFICES ASSUME owner \notin torn PROVE NtfsPatchUpdateSequence(sectors)
      OBVIOUS
    <3>2. \A k \in 1 .. size : Usn(sectors[k]) = "old"
      BY <1>3, <2>3, <3>1 DEF Usn
    <3> QED
      BY <2>2, <2>4, <3>2 DEF NtfsPatchUpdateSequence
  <2> QED
    BY <1>2, <1>4, <1>5, <1>6, <2>5, <2>6 DEF b
<1>7. CASE ~(from + size <= Len(buffer))
  <2>1. PICK S : buffer \in Seq(S)
    BY DEF IsReadOf
  <2>2. ~(Len(index) <= Len(buffer))
    BY <1>1, <1>7, <2>1
  <2>3. ~BlocksAreWhole
    BY <2>2 DEF IsReadOf
  <2> QED
    BY <1>2, <1>4, <1>7, <2>3 DEF b
<1> QED
  BY <1>6, <1>7

\* The walks of blocks in order.
AreWalked(below, index) ==
  \A b \in DOMAIN volume.blk :
    IsOrdered(volume, index, volume.blk[b], volume.under[b]) => Walked(below[b], volume.under[b])

\* Without blocks to walk there are no files.
LEMMA NothingWalked ==
  ASSUME NEW files, files = {} \/ ~BlocksAreWhole
  PROVE  Walked(<< >>, files)
  BY DEF Walked

\* The walk of a sub-node.
LEMMA SubNodeIsWalked ==
  ASSUME volume \in Volumes, NEW index, IsMadeOfBlocks(index), NEW buffer, IsReadOf(buffer, index),
         NEW below, AreWalked(below, index),
         NEW entry, entry.sub # NoRecord => IsBlock(volume, index, entry.sub)
  PROVE  Walked(SubNode(below, entry, buffer), Below(volume, index, entry))
<1>1. CASE entry.sub = NoRecord
  <2>1. SubNode(below, entry, buffer) = << >> /\ Below(volume, index, entry) = {}
    BY <1>1 DEF SubNode, Given, Below
  <2> QED
    BY <2>1, NothingWalked
<1>2. CASE entry.sub # NoRecord
  <2> DEFINE b == LeadOf(volume, index, entry.sub)
             found == BlockAt(buffer, entry.sub)
  <2>1. /\ b \in DOMAIN volume.blk /\ IsOrdered(volume, index, volume.blk[b], volume.under[b])
        /\ found \in {b, NoRecord}
        /\ BlocksAreWhole => found = b
    BY <1>2, BlockIsFound
  <2>2. Below(volume, index, entry) = volume.under[b]
    BY <1>2 DEF Below
  <2>3. SubNode(below, entry, buffer) = IF found = NoRecord THEN << >> ELSE below[found]
    BY <1>2 DEF SubNode, Given
  <2>4. b # NoRecord
    BY <2>1, VolumeFacts DEF IndexesAreWellFormed
  <2> HIDE DEF b, found
  <2>5. CASE found = NoRecord
    BY <2>1, <2>2, <2>3, <2>4, <2>5, NothingWalked
  <2>6. CASE found = b
    BY <2>1, <2>2, <2>3, <2>4, <2>6 DEF AreWalked
  <2> QED
    BY <2>1, <2>5, <2>6
<1> QED
  BY <1>1, <1>2

\* Entries in order give their files in order.
LEMMA EntriesAreWalked ==
  ASSUME NEW index, NEW entries, NEW files, IsOrdered(volume, index, entries, files),
         NEW below, NEW buffer,
         \A i \in 1 .. Len(entries) :
           Walked(SubNode(below, entries[i], buffer), Below(volume, index, entries[i]))
  PROVE  Walked(WalkEntries(below, entries, buffer), files)
<1> DEFINE n == Len(entries)
           File(i) == {entries[i].file} \ {NoRecord}
           Part(i) == Below(volume, index, entries[i]) \cup File(i)
           parts == [i \in 1 .. n |-> Part(i)]
           Of(i) == SubNode(below, entries[i], buffer) \o <<entries[i].file>>
           ss == [i \in 1 .. n |-> Of(i)]
<1>1. /\ n \in Nat /\ files \subseteq Nat
      /\ files = UNION {Part(i) : i \in 1 .. n}
      /\ \A i, j \in 1 .. n : i < j => \A x \in Part(i), y \in Part(j) : x < y
      /\ \A i \in 1 .. n : \A x \in Below(volume, index, entries[i]) :
           entries[i].file # NoRecord => x < entries[i].file
  BY DEF IsOrdered
<1>2. WalkEntries(below, entries, buffer) = FlattenSeq(ss)
  BY DEF WalkEntries
<1>3. ASSUME NEW i \in 1 .. n
      PROVE  /\ Below(volume, index, entries[i]) \in SUBSET Nat /\ Part(i) \in SUBSET Nat
             /\ entries[i].file \in Nat \cup {NoRecord}
  <2> HIDE DEF Part
  <2>1. Part(i) \subseteq Nat
    BY <1>1
  <2> QED
    BY <2>1 DEF Part
<1>4. ASSUME NEW i \in 1 .. n PROVE Walked(Of(i), Part(i))
  BY <1>1, <1>3, FileAfter
<1> HIDE DEF Of, Part
<1>5. /\ ss = [i \in 1 .. n |-> ss[i]]
      /\ \A i \in 1 .. n : ss[i] = Of(i) /\ parts[i] = Part(i)
  OBVIOUS
<1> HIDE DEF ss, parts, n
<1>6. Walked(FlattenSeq(ss), UNION {parts[i] : i \in 1 .. n})
  <2>1. \A i \in 1 .. n : Walked(ss[i], parts[i]) /\ parts[i] \in SUBSET Nat
    BY <1>3, <1>4, <1>5
  <2>2. \A i, j \in 1 .. n : i < j => \A x \in parts[i], y \in parts[j] : x < y
    BY <1>1, <1>5
  <2> QED
    BY <1>1, <1>5, <2>1, <2>2, PartsInOrder
<1>7. files = UNION {parts[i] : i \in 1 .. n}
  BY <1>1, <1>5
<1> QED
  BY <1>2, <1>6, <1>7

\* The walks of blocks from walks one level further down.
LEMMA NextLevelIsWalked ==
  ASSUME volume \in Volumes, NEW index, IsMadeOfBlocks(index), NEW buffer, IsReadOf(buffer, index),
         NEW below, AreWalked(below, index), NEW entries, NEW files,
         IsOrdered(volume, index, entries, files)
  PROVE  Walked(WalkEntries(below, entries, buffer), files)
<1>1. ASSUME NEW i \in 1 .. Len(entries)
      PROVE  Walked(SubNode(below, entries[i], buffer), Below(volume, index, entries[i]))
  <2>1. entries[i].sub # NoRecord => IsBlock(volume, index, entries[i].sub)
    BY DEF IsOrdered
  <2> QED
    BY <2>1, SubNodeIsWalked
<1> QED
  BY <1>1, EntriesAreWalked

\* What the recursion over index blocks has below it.
AreBlockLevels(level, depth, buffer) ==
  \A d \in 0 .. depth : \A b \in DOMAIN volume.blk :
    level[d][b] = IF d = 0 THEN <<NoEnd>> ELSE WalkEntries(level[d - 1], volume.blk[b], buffer)

\* The walk of an index is made over levels.
LEMMA BlockLevels ==
  ASSUME volume \in Volumes, NEW entries, NEW buffer
  PROVE  \E level :
           /\ NtfsWalkIndexEntries(entries, buffer)
                = WalkEntries(level[Cardinality(DOMAIN volume.blk)], entries, buffer)
           /\ Cardinality(DOMAIN volume.blk) \in Nat
           /\ AreBlockLevels(level, Cardinality(DOMAIN volume.blk), buffer)
<1> DEFINE blocks == DOMAIN volume.blk
           C == Cardinality(blocks)
           Level(h, d) == [b \in blocks |-> IF d = 0 THEN <<NoEnd>>
                                            ELSE WalkEntries(h[d - 1], volume.blk[b], buffer)]
           Is(f, n) == f = [d \in 0 .. n |-> Level(f, d)]
           T == {n \in Nat : \E f : Is(f, n)}
<1>1. C \in Nat
  BY VolumeFacts, FS_CardinalityType DEF IndexesAreWellFormed
<1>2. 0 \in T
  <2>1. Is([d \in 0 .. 0 |-> [b \in blocks |-> <<NoEnd>>]], 0)
    OBVIOUS
  <2> QED
    BY <2>1
<1>3. ASSUME NEW n \in Nat, n \in T PROVE n + 1 \in T
  <2>1. PICK f : Is(f, n)
    BY <1>3
  <2> DEFINE next == [b \in blocks |-> WalkEntries(f[n], volume.blk[b], buffer)]
             g == [d \in 0 .. n + 1 |-> IF d <= n THEN f[d] ELSE next]
  <2>2. ASSUME NEW d \in 0 .. n + 1 PROVE g[d] = Level(g, d)
    <3>1. CASE d <= n
      <4>1. d \in 0 .. n /\ (d # 0 => d - 1 \in 0 .. n + 1 /\ d - 1 <= n)
        BY <3>1
      <4>2. g[d] = f[d] /\ (d # 0 => g[d - 1] = f[d - 1])
        BY <4>1
      <4>3. f[d] = Level(f, d)
        BY <2>1, <4>1
      <4> HIDE DEF g
      <4> QED
        BY <4>2, <4>3
    <3>2. CASE ~(d <= n)
      <4>1. d = n + 1 /\ d # 0 /\ n \in 0 .. n + 1 /\ d - 1 = n
        BY <3>2
      <4>2. g[d] = next /\ g[d - 1] = f[n]
        BY <4>1
      <4> HIDE DEF g
      <4> QED
        BY <4>1, <4>2
    <3> QED
      BY <3>1, <3>2
  <2>3. g = [d \in 0 .. n + 1 |-> g[d]]
    OBVIOUS
  <2> HIDE DEF g
  <2>4. g = [d \in 0 .. n + 1 |-> Level(g, d)]
    <3> HIDE DEF Level
    <3> QED
      BY <2>2, <2>3
  <2>5. Is(g, n + 1)
    BY <2>4
  <2>6. n + 1 \in Nat
    OBVIOUS
  <2> HIDE DEF Is
  <2> QED
    BY <2>5, <2>6
<1>4. PICK f : Is(f, C)
  <2>1. C \in T
    <3> HIDE DEF T, C
    <3> QED
      BY <1>1, <1>2, <1>3, Induction
  <2> QED
    BY <2>1
<1> DEFINE level == CHOOSE h : Is(h, C)
<1>5. Is(level, C)
  BY <1>4
<1>6. NtfsWalkIndexEntries(entries, buffer) = WalkEntries(level[C], entries, buffer)
  BY DEF NtfsWalkIndexEntries
<1> HIDE DEF level
<1>7. \A d \in 0 .. C : \A b \in blocks :
        level[d][b] = IF d = 0 THEN <<NoEnd>> ELSE WalkEntries(level[d - 1], volume.blk[b], buffer)
  <2> DEFINE L(d) == Level(level, d)
  <2>1. level = [d \in 0 .. C |-> L(d)]
    BY <1>5
  <2> HIDE DEF C, L
  <2>2. \A d \in 0 .. C : level[d] = L(d)
    BY <2>1
  <2>3. \A d : \A b \in blocks :
          L(d)[b] = IF d = 0 THEN <<NoEnd>> ELSE WalkEntries(level[d - 1], volume.blk[b], buffer)
    BY DEF L
  <2> QED
    BY <2>2, <2>3
<1> QED
  BY <1>1, <1>6, <1>7 DEF AreBlockLevels

\* However deep the index is, the walk of entries in order gives their files in order.
LEMMA IndexIsWalked ==
  ASSUME volume \in Volumes, NEW index, IsMadeOfBlocks(index), NEW buffer, IsReadOf(buffer, index),
         NEW entries, NEW files, IsOrdered(volume, index, entries, files)
  PROVE  Walked(NtfsWalkIndexEntries(entries, buffer), files)
<1> DEFINE C == Cardinality(DOMAIN volume.blk)
<1>1. PICK level :
        /\ NtfsWalkIndexEntries(entries, buffer) = WalkEntries(level[C], entries, buffer)
        /\ C \in Nat
        /\ AreBlockLevels(level, C, buffer)
  BY BlockLevels
<1> HIDE DEF C
<1> DEFINE T == {d \in Nat : d <= C => AreWalked(level[d], index)}
<1>2. 0 \in T
  <2>1. ASSUME NEW b \in DOMAIN volume.blk PROVE Walked(level[0][b], volume.under[b])
    <3>1. level[0][b] = <<NoEnd>>
      BY <1>1 DEF AreBlockLevels
    <3>2. <<NoEnd>> \in Seq(Int \cup {NoRecord}) /\ 1 \in 1 .. Len(<<NoEnd>>) /\ <<NoEnd>>[1] = NoEnd
      BY DEF NoEnd
    <3> QED
      BY <3>1, <3>2 DEF Walked
  <2> QED
    BY <2>1 DEF AreWalked
<1>3. ASSUME NEW d \in Nat, d \in T PROVE d + 1 \in T
  <2>1. SUFFICES ASSUME d + 1 <= C PROVE AreWalked(level[d + 1], index)
    OBVIOUS
  <2>2. d + 1 \in 0 .. C /\ d + 1 # 0 /\ (d + 1) - 1 = d
    BY <1>1, <2>1
  <2>3. AreWalked(level[d], index)
    BY <1>1, <1>3, <2>1
  <2>4. ASSUME NEW b \in DOMAIN volume.blk, IsOrdered(volume, index, volume.blk[b], volume.under[b])
        PROVE  Walked(level[d + 1][b], volume.under[b])
    <3>1. level[d + 1][b] = WalkEntries(level[d], volume.blk[b], buffer)
      BY <1>1, <2>2 DEF AreBlockLevels
    <3> QED
      BY <2>3, <2>4, <3>1, NextLevelIsWalked
  <2> QED
    BY <2>4 DEF AreWalked
<1>4. C \in T
  <2> HIDE DEF T
  <2> QED
    BY <1>1, <1>2, <1>3, Induction
<1>5. AreWalked(level[C], index)
  BY <1>1, <1>4
<1> QED
  BY <1>1, <1>5, NextLevelIsWalked

\* The first attribute of a type is one of that type.
LEMMA FirstIsFound ==
  ASSUME NEW all, Len(all) \in Nat, NEW type, Has(all, type)
  PROVE  \E p \in 1 .. Len(all) : NtfsFindFirstAttribute(all, type) = all[p] /\ all[p].type = type
<1> DEFINE found == {i \in 1 .. Len(all) : all[i].type = type}
<1>1. found # {} /\ found \in SUBSET Nat /\ \A i \in found : i \in 1 .. Len(all) /\ all[i].type = type
  BY DEF Has
<1>2. SelectInSeq(all, LAMBDA a : a.type = type) = Min(found)
  BY <1>1 DEF SelectInSeq
<1> HIDE DEF found
<1>3. Min(found) \in found
  BY <1>1, MinDef
<1>4. Min(found) # 0
  BY <1>1, <1>3
<1> QED
  BY <1>1, <1>2, <1>3, <1>4 DEF NtfsFindFirstAttribute

\* Before an extent ends, less than all of them is passed.
LEMMA BeforeDef ==
  ASSUME volume \in Volumes, NEW extents, Len(extents) \in Nat,
         \A i \in 1 .. Len(extents) : extents[i][2] \in Nat
  PROVE  LET at == Before(volume, extents) IN
         \A i \in 1 .. Len(extents) :
           /\ at[i - 1] \in Nat /\ at[i] = at[i - 1] + extents[i][2] * volume.spc
           /\ at[i] <= at[Len(extents)] /\ at[Len(extents)] \in Nat
<1> DEFINE n == Len(extents)
           s == [i \in 1 .. n |-> extents[i][2] * volume.spc]
<1>1. volume.spc \in Nat
  BY VolumeFacts DEF WellFormed
<1>2. Len(s) = n /\ \A i \in 1 .. n : s[i] = extents[i][2] * volume.spc
  OBVIOUS
<1>3. \A i \in 1 .. n : extents[i][2] * volume.spc \in Nat
  BY <1>1, Product
<1>4. Before(volume, extents) = Sums(s)
  BY DEF Before
<1> HIDE DEF s, n
<1>5. Len(s) \in Nat /\ \A i \in 1 .. Len(s) : s[i] \in Nat /\ s[i] \in Int
  BY <1>2, <1>3 DEF n
<1>6. /\ \A i \in 1 .. n : Sums(s)[i] = Sums(s)[i - 1] + s[i]
      /\ \A i \in 0 .. n : Sums(s)[i] \in Nat
      /\ \A i, j \in 0 .. n : i <= j => Sums(s)[i] <= Sums(s)[j]
  BY <1>2, <1>5, SumsDef, SumsGrow
<1>7. \A i \in 1 .. n : i - 1 \in 0 .. n /\ i \in 0 .. n /\ n \in 0 .. n /\ i <= n
  BY <1>2, <1>5
<1> QED
  BY <1>2, <1>4, <1>6, <1>7 DEF n

\* The allocation of an index is read to its end, when every block is whole.
LEMMA AllocationIsRead ==
  ASSUME volume \in Volumes, NEW index, IsMadeOfBlocks(index), NEW a, Holds(volume, a, index),
         Len(index) = Before(volume, a.extents)[Len(a.extents)]
  PROVE  IsReadOf(NtfsReadNonResidentAttributeData(a), index)
<1> DEFINE buffer  == NtfsReadNonResidentAttributeData(a)
           runs    == NtfsGetDataRuns(a)
           extents == a.extents
           at      == Before(volume, extents)
           start(i)  == extents[i][1] * volume.spc
           length(i) == extents[i][2] * volume.spc
<1>1. /\ \E S : buffer \in Seq(S)
      /\ \A p \in 1 .. Len(buffer) : p <= Len(index) => buffer[p] = index[p]
      /\ runs = AsRuns(volume, extents)
      /\ (\A i \in 1 .. Len(runs) : RunIsReadable(runs[i])) => Len(buffer) = at[Len(extents)]
  BY AttributeIsRead
<1>2. /\ Len(extents) \in Nat
      /\ \A i \in 1 .. Len(extents) : extents[i][1] \in Nat /\ extents[i][2] \in Nat
      /\ \A i \in 1 .. Len(extents) : \A k \in 1 .. length(i) :
           at[i - 1] + k <= Len(index) =>
             start(i) + k - 1 \in DOMAIN volume.disk
               /\ volume.disk[start(i) + k - 1] = index[at[i - 1] + k]
  BY DEF Holds
<1> HIDE DEF buffer, extents
<1>3. \A i \in 1 .. Len(extents) : /\ at[i - 1] \in Nat /\ at[i] = at[i - 1] + length(i)
                                   /\ at[i] <= Len(index) /\ Len(index) \in Nat
  BY <1>2, BeforeDef DEF extents
<1>4. Len(runs) = Len(extents) /\ \A i \in 1 .. Len(extents) : runs[i].SectorOffset = start(i)
                                     /\ runs[i].LengthInSectors = length(i)
  BY <1>1, <1>2 DEF AsRuns
<1>5. \A i \in 1 .. Len(extents) : start(i) \in Nat /\ length(i) \in Nat
  BY <1>2, Product, VolumeFacts DEF WellFormed
<1> HIDE DEF runs, at, start, length
<1>6. ASSUME BlocksAreWhole, NEW i \in 1 .. Len(extents)
      PROVE  RunIsReadable(runs[i])
  <2>1. ASSUME NEW s \in start(i) .. start(i) + length(i) - 1
        PROVE  s \in DOMAIN volume.disk /\ s \notin bad
    <3> DEFINE k == s - start(i) + 1
    <3>1. k \in 1 .. length(i) /\ s = start(i) + k - 1
      BY <1>5
    <3>2. at[i - 1] + k \in 1 .. Len(index)
      <4>1. k \in Nat /\ 1 <= k /\ k <= length(i)
        BY <1>5, <3>1
      <4>2. /\ at[i - 1] \in Nat /\ at[i] = at[i - 1] + length(i) /\ length(i) \in Nat
            /\ at[i] <= Len(index) /\ Len(index) \in Nat
        BY <1>3, <1>5
      <4>3. at[i] \in Nat
        BY <4>2
      <4> HIDE DEF k
      <4> QED
        BY <4>1, <4>2, <4>3, Within
    <3> HIDE DEF k
    <3>3. s \in DOMAIN volume.disk /\ volume.disk[s] = index[at[i - 1] + k]
      <4>1. at[i - 1] + k <= Len(index)
        BY <1>3, <3>2
      <4> QED
        BY <1>2, <3>1, <4>1 DEF start, length, at
    <3>4. PICK b \in DOMAIN volume.blk : index[at[i - 1] + k].owner = <<"blk", b>>
      BY <3>2 DEF IsMadeOfBlocks
    <3>5. s \in Place(<<"blk", b>>)
      BY <3>3, <3>4 DEF Place
    <3>6. Place(<<"blk", b>>) \cap bad = {}
      BY <1>6 DEF BlocksAreWhole, Whole
    <3> QED
      BY <3>3, <3>5, <3>6
  <2> QED
    BY <1>4, <2>1 DEF RunIsReadable, Readable
<1>7. BlocksAreWhole => Len(buffer) = Len(index)
  <2>1. Len(index) = at[Len(extents)]
    BY DEF at, extents
  <2> QED
    BY <1>1, <1>4, <1>6, <2>1 DEF runs, at, extents
<1>8. Len(index) \in Nat
  BY DEF IsMadeOfBlocks
<1> QED
  BY <1>1, <1>7, <1>8 DEF IsReadOf, buffer

\* What a call for the files of a directory has to walk: the entries of its root and,
\* if there is an allocation, what was read of that.
LEMMA IndexIsFound ==
  ASSUME volume \in Volumes, bad \subseteq DOMAIN volume.disk, mftDataRuns = Layout(volume),
         NEW n \in Ids(volume), Ordinary(n), IsDirectory(n), NEW junk, Harmless(n, junk)
  PROVE  LET all   == FileAttributes(n, {"root", "alloc"}, junk)
             index == volume.rec[n].index IN
         /\ Has(all, "root") =>
              IsOrdered(volume, index, NtfsFindFirstAttribute(all, "root").entries, FilesOf(n))
         /\ Has(all, "alloc") =>
              /\ IsMadeOfBlocks(index)
              /\ IsReadOf(NtfsReadNonResidentAttributeData(NtfsFindFirstAttribute(all, "alloc")), index)
<1> DEFINE mask  == {"root", "alloc"}
           all   == FileAttributes(n, mask, junk)
           index == volume.rec[n].index
<1>1. /\ WellFormed(volume) /\ MFT_RECORD_USER \in Nat
      /\ n \in Records(n) /\ ~AtExtentEnd(n)
  BY VolumeFacts DEF Ordinary, Records
<1>2. ReadRecord(mftDataRuns, n) = n /\ "dir" \in volume.rec[n].flags
  <2>1. ReadRecord(mftDataRuns, n) = IF Whole(<<"rec", n>>) THEN n ELSE NoRecord
    BY <1>1, RecordsAreRead
  <2>2. ReadRecord(mftDataRuns, n) # NoRecord /\ "dir" \in volume.rec[ReadRecord(mftDataRuns, n)].flags
    BY DEF IsDirectory
  <2> QED
    BY <2>1, <2>2
<1>3. From(all, Records(n), mask)
  <2>1. n # NoRecord
    BY VolumeFacts
  <2>2. all = NtfsReadFileAttributes(Layout(volume), n, mask, junk)
    BY <1>2, <2>1 DEF FileAttributes
  <2>3. "list" \notin mask
    OBVIOUS
  <2> HIDE DEF mask, all
  <2> QED
    BY <2>2, <2>3, FileGives
<1> HIDE DEF all
<1>4. Len(all) \in Nat
  BY <1>3 DEF From
<1>5. IndexIsWellFormed(volume, n)
  BY <1>2, VolumeFacts DEF IndexesAreWellFormed
\* An attribute that is found is one of the file.
<1>6. ASSUME NEW type \in mask, Has(all, type)
      PROVE  \E r \in Records(n) : \E i \in 1 .. Len(volume.rec[r].attributes) :
               /\ NtfsFindFirstAttribute(all, type) = volume.rec[r].attributes[i]
               /\ volume.rec[r].attributes[i].type = type
  <2>1. PICK p \in 1 .. Len(all) : NtfsFindFirstAttribute(all, type) = all[p] /\ all[p].type = type
    BY <1>4, <1>6, FirstIsFound
  <2>2. all[p] # Hang /\ all[p] # Fault
    BY <2>1 DEF Hang, Fault
  <2>3. PICK r \in Records(n) : all[p] \in Wanted(r, mask)
    BY <1>3, <2>2 DEF From
  <2> QED
    BY <2>1, <2>3 DEF Wanted, Attributes
<1>7. ASSUME Has(all, "root")
      PROVE  IsOrdered(volume, index, NtfsFindFirstAttribute(all, "root").entries, FilesOf(n))
  <2>1. PICK r \in Records(n) : \E i \in 1 .. Len(volume.rec[r].attributes) :
          /\ NtfsFindFirstAttribute(all, "root") = volume.rec[r].attributes[i]
          /\ volume.rec[r].attributes[i].type = "root"
    BY <1>6, <1>7
  <2>2. PICK i \in 1 .. Len(volume.rec[r].attributes) :
          /\ NtfsFindFirstAttribute(all, "root") = volume.rec[r].attributes[i]
          /\ volume.rec[r].attributes[i].type = "root"
    BY <2>1
  <2>3. r \in Ids(volume) /\ (r = n \/ volume.rec[r].base = n)
    BY DEF Records
  <2>4. IsOrdered(volume, index, volume.rec[r].attributes[i].entries, FilesOf(n))
    BY <1>5, <2>2, <2>3 DEF IndexIsWellFormed, FilesOf
  <2> QED
    BY <2>2, <2>4
<1>8. ASSUME Has(all, "alloc")
      PROVE  /\ IsMadeOfBlocks(index)
             /\ IsReadOf(NtfsReadNonResidentAttributeData(NtfsFindFirstAttribute(all, "alloc")), index)
  <2>1. PICK r \in Records(n) : \E i \in 1 .. Len(volume.rec[r].attributes) :
          /\ NtfsFindFirstAttribute(all, "alloc") = volume.rec[r].attributes[i]
          /\ volume.rec[r].attributes[i].type = "alloc"
    BY <1>6, <1>8
  <2>2. PICK i \in 1 .. Len(volume.rec[r].attributes) :
          /\ NtfsFindFirstAttribute(all, "alloc") = volume.rec[r].attributes[i]
          /\ volume.rec[r].attributes[i].type = "alloc"
    BY <2>1
  <2>3. r \in Ids(volume) /\ (r = n \/ volume.rec[r].base = n)
    BY DEF Records
  <2> DEFINE a == volume.rec[r].attributes[i]
  <2>4. Holds(volume, a, index) /\ Len(index) = Before(volume, a.extents)[Len(a.extents)]
    BY <1>5, <2>2, <2>3 DEF IndexIsWellFormed
  <2>5. IsMadeOfBlocks(index)
    <3>1. Len(index) \in Nat
      BY <2>4, Zenon DEF Holds
    <3> QED
      BY <1>5, <3>1, Zenon DEF IndexIsWellFormed, IsMadeOfBlocks
  <2>6. NtfsFindFirstAttribute(all, "alloc") = a
    BY <2>2
  <2> HIDE DEF a, index
  <2> QED
    BY <2>4, <2>5, <2>6, AllocationIsRead
<1> QED
  BY <1>7, <1>8 DEF all

\* What a call gives of a directory that it can walk: its files, in order.
LEMMA FilesAreGiven ==
  ASSUME volume \in Volumes, bad \subseteq DOMAIN volume.disk, mftDataRuns = Layout(volume),
         NEW n \in Ids(volume), Ordinary(n), IsDirectory(n), NEW junk, Harmless(n, junk),
         Has(FileAttributes(n, {"root", "alloc"}, junk), "root"),
         ~MeetsNull(FileAttributes(n, {"root", "alloc"}, junk))
  PROVE  /\ FilesOf(n) \subseteq Nat
         /\ Walked(WalkIndex(FileAttributes(n, {"root", "alloc"}, junk)), FilesOf(n))
<1> DEFINE all     == FileAttributes(n, {"root", "alloc"}, junk)
           index   == volume.rec[n].index
           entries == NtfsFindFirstAttribute(all, "root").entries
<1>1. /\ IsOrdered(volume, index, entries, FilesOf(n))
      /\ Has(all, "alloc") =>
           /\ IsMadeOfBlocks(index)
           /\ IsReadOf(NtfsReadNonResidentAttributeData(NtfsFindFirstAttribute(all, "alloc")), index)
  BY IndexIsFound
<1>2. Has(all, "root") /\ ~MeetsNull(all)
  OBVIOUS
<1>3. FilesOf(n) \subseteq Nat
  BY <1>1, Zenon DEF IsOrdered
<1> HIDE DEF all
<1>4. CASE Has(all, "alloc")
  <2>1. WalkIndex(all) = NtfsWalkIndexEntries(entries,
          NtfsReadNonResidentAttributeData(NtfsFindFirstAttribute(all, "alloc")))
    BY <1>4 DEF WalkIndex
  <2> HIDE DEF entries, index
  <2>2. Walked(NtfsWalkIndexEntries(entries,
          NtfsReadNonResidentAttributeData(NtfsFindFirstAttribute(all, "alloc"))), FilesOf(n))
    BY <1>1, <1>4, IndexIsWalked
  <2> QED
    BY <1>3, <2>1, <2>2 DEF all
<1>5. CASE ~Has(all, "alloc")
  <2>1. WalkIndex(all) = NtfsWalkIndexEntries(entries, << >>)
    BY <1>5 DEF WalkIndex
  <2>2. \A i \in 1 .. Len(entries) : entries[i].sub = NoRecord
    BY <1>2, <1>5 DEF MeetsNull
  <2> HIDE DEF entries, index
  <2>3. PICK level : NtfsWalkIndexEntries(entries, << >>)
                       = WalkEntries(level[Cardinality(DOMAIN volume.blk)], entries, << >>)
    BY BlockLevels
  <2> DEFINE below == level[Cardinality(DOMAIN volume.blk)]
  <2>4. ASSUME NEW i \in 1 .. Len(entries)
        PROVE  Walked(SubNode(below, entries[i], << >>), Below(volume, index, entries[i]))
    <3>1. SubNode(below, entries[i], << >>) = << >> /\ Below(volume, index, entries[i]) = {}
      BY <2>2 DEF SubNode, Given, Below
    <3> QED
      BY <3>1, NothingWalked
  <2> HIDE DEF below
  <2>5. Walked(WalkEntries(below, entries, << >>), FilesOf(n))
    BY <1>1, <2>4, EntriesAreWalked
  <2> QED
    BY <1>3, <2>1, <2>3, <2>5 DEF all, below
<1> QED
  BY <1>4, <1>5

\* The answers of the call for the files of a directory.
LEMMA FilesStep ==
  ASSUME RecordsAreFound, FilesAreInOrder, [NtfsNext]_ntfsVars
  PROVE  FilesAreInOrder'
<1>1. volume \in Volumes /\ bad \subseteq DOMAIN volume.disk /\ Ids(volume) \subseteq Nat
  BY VolumeFacts DEF RecordsAreFound, NtfsTypeOK
\* Any other answer.
<1>2. ASSUME answer'.call # "files" \/ ~answer'.ok
      PROVE  FilesAreInOrder'
  BY <1>2 DEF FilesAreInOrder
<1>3. ASSUME NEW n \in Ids(volume), NEW junk \in Junk, NtfsEnumSubFiles(n, junk)
      PROVE  FilesAreInOrder'
  <2> DEFINE wanted == FileAttributes(n, {"root", "alloc"}, junk)
             all    == IF IsDirectory(n) THEN wanted ELSE << >>
             files  == IF Has(all, "root") /\ ~MeetsNull(all) THEN WalkIndex(all) ELSE << >>
  <2>1. /\ volume' = volume /\ torn' = torn /\ bad' = bad /\ status = "open"
        /\ status' = CASE Has(all, "hang") \/ Contains(files, NoEnd) -> "hung"
                       [] ~Has(all, "hang") /\ (Has(all, "fault") \/ MeetsNull(all)) -> "corrupt"
                       [] OTHER -> "open"
        /\ IF status' = "open" /\ Has(all, "root")
             THEN answer' = [call |-> "files", n |-> n, junk |-> junk, ok |-> TRUE, out |-> files]
             ELSE answer' = [call |-> "files", n |-> n, junk |-> junk, ok |-> FALSE, out |-> << >>]
    BY <1>3, Zenon DEF NtfsEnumSubFiles, Calls, Answer
  <2> DEFINE hung    == Has(all, "hang") \/ Contains(files, NoEnd)
             corrupt == ~Has(all, "hang") /\ (Has(all, "fault") \/ MeetsNull(all))
  <2>2. status' = "open" => ~hung /\ ~corrupt
    <3> HIDE DEF hung, corrupt
    <3>1. status' = CASE hung -> "hung" [] corrupt -> "corrupt" [] OTHER -> "open"
      BY <2>1, Zenon DEF hung, corrupt
    <3> QED
      BY <3>1
  <2>3. CASE ~(status' = "open" /\ Has(all, "root"))
    <3>1. ~answer'.ok
      BY <2>1, <2>3
    <3> QED
      BY <1>2, <3>1
  <2>4. CASE status' = "open" /\ Has(all, "root")
    <3>1. answer'.call = "files" /\ answer'.n = n /\ answer'.junk = junk /\ answer'.out = files
      BY <2>1, <2>4
    <3>2. ~Contains(files, NoEnd) /\ ~MeetsNull(all)
      BY <2>2, <2>4, Zenon DEF hung, corrupt
    <3>3. IsDirectory(n) /\ all = wanted
      <4>1. ~Has(<< >>, "root")
        BY DEF Has
      <4> QED
        BY <2>4, <4>1
    <3>4. files = WalkIndex(wanted) /\ Has(wanted, "root") /\ ~MeetsNull(wanted)
      BY <2>4, <3>2, <3>3
    <3>5. ~RunsPast(n, junk) /\ Ordinary(n) => FilesOf(n) \subseteq Nat /\ Walked(files, FilesOf(n))
      <4>1. mftDataRuns = Layout(volume)
        BY <2>1 DEF RecordsAreFound, RunsAreTheLayout
      <4>2. ~RunsPast(n, junk) => Harmless(n, junk)
        BY <1>1, JunkIsHarmless
      <4> QED
        BY <1>1, <3>3, <3>4, <4>1, <4>2, FilesAreGiven
    <3> HIDE DEF all, wanted, files
    <3>6. \A p \in 1 .. Len(files) : files[p] # NoEnd
      BY <3>2 DEF Contains
    <3>7. (Ordinary(n)' <=> Ordinary(n)) /\ (RunsPast(n, junk)' <=> RunsPast(n, junk))
      BY <2>1 DEF Ordinary, Records, AtExtentEnd, RunsPast, Attributes
    <3>8. BlocksAreWhole' <=> BlocksAreWhole
      BY <2>1 DEF BlocksAreWhole, Whole, Place
    <3>9. FilesOf(n)' = FilesOf(n)
      BY <2>1 DEF FilesOf
    <3>10. ASSUME ~RunsPast(n, junk), Ordinary(n)
           PROVE  LET given == {i \in 1 .. Len(files) : files[i] # NoRecord} IN
                  /\ \A i \in given : files[i] \in FilesOf(n)
                  /\ \A i, j \in given : i < j => files[i] < files[j]
                  /\ BlocksAreWhole => \A f \in FilesOf(n) : \E i \in given : files[i] = f
      <4>1. /\ \A p \in 1 .. Len(files) : files[p] \in FilesOf(n) \cup {NoRecord}
            /\ \A p, q \in 1 .. Len(files) :
                 p < q /\ files[p] # NoRecord /\ files[q] # NoRecord => files[p] < files[q]
            /\ BlocksAreWhole => \A f \in FilesOf(n) : \E p \in 1 .. Len(files) : files[p] = f
        BY <3>5, <3>6, <3>10 DEF Walked
      <4>2. NoRecord \notin FilesOf(n)
        BY <1>1, <3>5, <3>10, VolumeFacts
      <4> QED
        BY <4>1, <4>2
    <3> QED
      BY <3>1, <3>7, <3>8, <3>9, <3>10 DEF FilesAreInOrder, BlocksAreWhole
  <2> QED
    BY <2>3, <2>4
<1>4. CASE NtfsInitVolume
  BY <1>2, <1>4 DEF NtfsInitVolume, Answer
<1>5. ASSUME NEW n \in Ids(volume), NtfsReadFileRecord(n) PROVE answer'.call # "files"
  BY <1>5 DEF NtfsReadFileRecord, Answer
<1>6. ASSUME NEW n \in Ids(volume), NEW junk \in Junk, NtfsReadFileDataStreams(n, junk)
      PROVE  answer'.call # "files"
  <2>1. answer'.call = "streams"
    BY <1>6 DEF NtfsReadFileDataStreams, Answer
  <2> QED
    BY <2>1
<1>7. CASE NtfsFreeVolume \/ VolumeChanges \/ TakeAnswer
  <2>1. answer' = NoAnswer
    BY <1>7 DEF NtfsFreeVolume, VolumeChanges, TakeAnswer, Calls
  <2> QED
    BY <1>2, <2>1 DEF NoAnswer
<1>8. CASE UNCHANGED ntfsVars
  <2>1. volume' = volume /\ torn' = torn /\ bad' = bad /\ answer' = answer
    BY <1>8 DEF ntfsVars
  <2>2. (Ordinary(answer.n)' <=> Ordinary(answer.n)) /\ (RunsPast(answer.n, answer.junk)' <=> RunsPast(answer.n, answer.junk))
    BY <2>1 DEF Ordinary, Records, AtExtentEnd, RunsPast, Attributes
  <2>3. FilesOf(answer.n)' = FilesOf(answer.n)
    BY <2>1 DEF FilesOf
  <2>4. \A x : Whole(x)' <=> Whole(x)
    BY <2>1 DEF Whole, Place
  <2> QED
    BY <2>1, <2>2, <2>3, <2>4 DEF FilesAreInOrder
<1> QED
  BY <1>2, <1>3, <1>4, <1>5, <1>6, <1>7, <1>8 DEF NtfsNext

\* The four properties of the reader.
NtfsIInv == RecordsAreFound /\ StreamsBelongToFile /\ StreamsAreComplete /\ FilesAreInOrder

\* They hold in every state.
LEMMA NtfsInvariance == NtfsSpec => []NtfsIInv
<1>1. NtfsInit => NtfsIInv
  BY RecordsInit DEF NtfsIInv, NtfsInit, NoAnswer, StreamsBelongToFile, StreamsAreComplete,
     FilesAreInOrder
<1>2. NtfsIInv /\ [NtfsNext]_ntfsVars => NtfsIInv'
  BY RecordsStep, StreamsStep, FilesStep DEF NtfsIInv
<1> QED
  BY <1>1, <1>2, PTL DEF NtfsSpec

\* In every well-formed volume, a client is given streams of the file it asked for and
\* of no other, none of them twice, each with the data the disk holds of it, whichever
\* records and sectors are being rewritten or fail meanwhile: unless the walk of an
\* attribute list runs over its end into what looks like a record's number.
THEOREM StreamsBelong == NtfsSpec => []StreamsBelongToFile
<1>1. NtfsIInv => StreamsBelongToFile
  BY DEF NtfsIInv
<1> QED
  BY <1>1, NtfsInvariance, PTL

\* When nothing fails, it is given all of them, if the attribute list is walked to
\* its end.
THEOREM StreamsComplete == NtfsSpec => []StreamsAreComplete
<1>1. NtfsIInv => StreamsAreComplete
  BY DEF NtfsIInv
<1> QED
  BY <1>1, NtfsInvariance, PTL

\* The files of a directory are given in the order of its index, none of another and
\* none twice; and all of them when every record and block of the index is whole,
\* however deep the index and wherever its blocks are on the disk.
THEOREM FilesInOrder == NtfsSpec => []FilesAreInOrder
<1>1. NtfsIInv => FilesAreInOrder
  BY DEF NtfsIInv
<1> QED
  BY <1>1, NtfsInvariance, PTL

=============================================================================
