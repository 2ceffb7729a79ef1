---------------------- MODULE UserHistoryStorageProofs ----------------------
(***************************************************************************)
(* Proofs about UserHistoryStorage, for any set of entries and any size of  *)
(* dic_, with every interleaving of the main thread and the syncer, failed  *)
(* loads, saves and removals, evictions, crashes and restarts.              *)
(***************************************************************************)
EXTENDS UserHistoryStorage, TLAPS

\* What the syncer's copy and the flag say at each of the syncer's steps: the
\* copy differs from what it was taken from in the missed entries only.
SnapshotInv ==
  /\ syncer \in {"copy", "write", "saved"} => needs_sync
  /\ Saving => proto \ dic \subseteq missed /\ dic \ proto \subseteq missed
  /\ Saving => proto \ dic \subseteq erased
  /\ syncer = "saved" => proto \ file \subseteq missed /\ file \ proto \subseteq missed
  /\ syncer = "populate" => file \subseteq proto /\ proto \ file \subseteq missed

\* Clear finds its flag reset only by a syncer it raced, and a syncer
\* interrupted by the destructor is the only one it does not find finished.
PhaseInv ==
  /\ MainHoldsLock =>
       /\ dic = {} /\ erased = Entries
       /\ needs_sync \/ (missed = Entries /\ syncer \in {"exit", "none"})
       /\ Saving => missed = Entries
  /\ canceled => main \in {"closing", "closed"}
  /\ main = "closing" /\ ~canceled => syncer = "none"
  /\ main = "closed" => syncer = "none"

\* Unset, the flag means that memory and disk agree but for what was missed or
\* left unread, except while a load is on its way or was interrupted; what is
\* on disk and not in memory was erased or left unread.
AgreementInv ==
  /\ ~needs_sync /\ ~canceled =>
       /\ syncer # "populate" => dic \ file \subseteq missed
       /\ syncer \notin {"load", "populate"}
            => file \ dic \subseteq missed \cup unread
  /\ (needs_sync \/ ~canceled) /\ syncer \notin {"load", "populate"}
       => file \ dic \subseteq erased \cup unread

\* A history that was cleared undisturbed is empty, the syncer's copy too.
ClearInv ==
  cleared = "yes" => /\ dic = {} /\ file = {}
                     /\ Saving \/ syncer = "populate" => proto = {}

IInv == TypeOK /\ SnapshotInv /\ PhaseInv /\ AgreementInv /\ ClearInv

-----------------------------------------------------------------------------
\* Every action keeps the types.
LEMMA TypeStep == TypeOK /\ [Next]_vars => TypeOK'
<1> SUFFICES ASSUME TypeOK, [Next]_vars PROVE TypeOK'
  OBVIOUS
<1> USE DEF TypeOK, SyncerSteps, MainSteps, ghosts
<1>1. CASE UNCHANGED vars
  BY <1>1 DEF vars
<1>2. CASE Syncer
  BY <1>2 DEF Syncer, SyncerTo, SaveBegins, SaveCopies, SaveWrites, SaveFails,
              SaveEnds, LoadReads, LoadFails, LoadPopulates, SyncerExits
<1>3. CASE Main
  <2>1. CASE \E new \in SUBSET Entries : Finish(new)
    BY <2>1 DEF Finish, Edits
  <2>2. CASE \E e \in Entries : AddHistoryEntry(e) \/ ClearHistoryEntry(e)
    BY <2>2 DEF AddHistoryEntry, ClearHistoryEntry, Edits
  <2>3. CASE \E back, again \in SUBSET Entries : Revert(back, again)
    BY <2>3 DEF Revert, Edits
  <2>4. CASE \E unused \in SUBSET Entries : ClearUnusedHistory(unused)
    BY <2>4 DEF ClearUnusedHistory, AsyncSave, Edits
  <2>5. CASE \E then \in {"idle", "waiting"} : Sync(then) \/ Reload(then)
    BY <2>5 DEF Sync, Reload, AsyncSave
  <2>6. CASE WaitReturns \/ Clear \/ ClearSave \/ ClearUnlink
    BY <2>6 DEF WaitReturns, Clear, ClearSave, ClearUnlink, Cleared
  <2>7. CASE CloseBegins \/ CloseSaves
    BY <2>7 DEF CloseBegins, CloseSaves, IsSyncerRunning
  <2> QED
    BY <1>3, <2>1, <2>2, <2>3, <2>4, <2>5, <2>6, <2>7 DEF Main
<1>4. CASE CrashOrRestart
  BY <1>4 DEF CrashOrRestart, Constructed
<1> QED
  BY <1>1, <1>2, <1>3, <1>4 DEF Next

\* Type correctness of the storage.
THEOREM TypeCorrect == Spec => []TypeOK
<1>1. Init => TypeOK
  BY DEF Init, TypeOK, SyncerSteps, MainSteps
<1> QED
  BY <1>1, TypeStep, PTL DEF Spec

-----------------------------------------------------------------------------
\* The syncer's steps keep the inductive invariant.
LEMMA SyncerStep == IInv /\ Syncer => IInv'
<1> SUFFICES ASSUME IInv, Syncer PROVE IInv'
  OBVIOUS
<1>1. TypeOK'
  BY TypeStep DEF IInv, Next
<1> USE DEF IInv, TypeOK, SnapshotInv, PhaseInv, AgreementInv, ClearInv,
            SyncerTo, MainHoldsLock, Saving
<1>2. CASE SaveBegins
  BY <1>1, <1>2 DEF SaveBegins
<1>3. CASE SaveCopies
  BY <1>1, <1>3 DEF SaveCopies
<1>4. CASE SaveWrites
  BY <1>1, <1>4 DEF SaveWrites
<1>5. CASE SaveFails
  BY <1>1, <1>5 DEF SaveFails
<1>6. CASE SaveEnds
  BY <1>1, <1>6 DEF SaveEnds
<1>7. CASE LoadReads
  BY <1>1, <1>7 DEF LoadReads
<1>8. CASE LoadFails
  BY <1>1, <1>8 DEF LoadFails
<1>9. CASE LoadPopulates
  BY <1>1, <1>9 DEF LoadPopulates
<1>10. CASE SyncerExits
  BY <1>1, <1>10 DEF SyncerExits
<1> QED
  BY <1>2, <1>3, <1>4, <1>5, <1>6, <1>7, <1>8, <1>9, <1>10 DEF Syncer

\* So do the main thread's edits, those that race the syncer included.
LEMMA EditStep ==
  ASSUME IInv,
         \/ \E new \in SUBSET Entries : Finish(new)
         \/ \E e \in Entries : AddHistoryEntry(e) \/ ClearHistoryEntry(e)
         \/ \E back, again \in SUBSET Entries : Revert(back, again)
         \/ \E unused \in SUBSET Entries : ClearUnusedHistory(unused)
  PROVE  IInv'
<1>1. TypeOK'
  BY TypeStep DEF IInv, Next, Main
<1> USE DEF IInv, TypeOK, SnapshotInv, PhaseInv, AgreementInv, ClearInv,
            MainHoldsLock, IsSyncerRunning, Saving, Edits
<1>2. CASE \E new \in SUBSET Entries : Finish(new)
  BY <1>1, <1>2 DEF Finish
<1>3. CASE \E e \in Entries : AddHistoryEntry(e)
  BY <1>1, <1>3 DEF AddHistoryEntry
<1>4. CASE \E e \in Entries : ClearHistoryEntry(e)
  BY <1>1, <1>4 DEF ClearHistoryEntry
<1>5. CASE \E back, again \in SUBSET Entries : Revert(back, again)
  BY <1>1, <1>5 DEF Revert
<1>6. CASE \E unused \in SUBSET Entries : ClearUnusedHistory(unused)
  BY <1>1, <1>6 DEF ClearUnusedHistory, AsyncSave
<1> QED
  BY <1>2, <1>3, <1>4, <1>5, <1>6

\* And its other steps.
LEMMA MainStep == IInv /\ Main => IInv'
<1> SUFFICES ASSUME IInv, Main PROVE IInv'
  OBVIOUS
<1>1. TypeOK'
  BY TypeStep DEF IInv, Next
<1> USE DEF ghosts, MainHoldsLock, IsSyncerRunning, Saving
<1> USE DEF IInv, TypeOK, SnapshotInv, PhaseInv, AgreementInv, ClearInv
<1>2. CASE \E then \in {"idle", "waiting"} : Sync(then)
  BY <1>1, <1>2 DEF Sync, AsyncSave
<1>3. CASE \E then \in {"idle", "waiting"} : Reload(then)
  BY <1>1, <1>3 DEF Reload
<1>4. CASE WaitReturns
  BY <1>1, <1>4 DEF WaitReturns
<1>5. CASE Clear
  BY <1>1, <1>5 DEF Clear, Raced
<1>6. CASE ClearSave
  BY <1>1, <1>6, EntriesAssumption DEF ClearSave, Cleared
<1>7. CASE ClearUnlink
  BY <1>1, <1>7, EntriesAssumption DEF ClearUnlink, Raced, Cleared
<1>8. CASE CloseBegins
  BY <1>1, <1>8 DEF CloseBegins
<1>9. CASE CloseSaves
  BY <1>1, <1>9 DEF CloseSaves
<1> QED
  BY EditStep, <1>2, <1>3, <1>4, <1>5, <1>6, <1>7, <1>8, <1>9 DEF Main

\* IInv is inductive, crashes and restarts included.
LEMMA Inductive == IInv /\ [Next]_vars => IInv'
<1> SUFFICES ASSUME IInv, [Next]_vars PROVE IInv'
  OBVIOUS
<1>1. CASE UNCHANGED vars
  BY <1>1 DEF vars, IInv, TypeOK, SnapshotInv, PhaseInv, AgreementInv,
              ClearInv, MainHoldsLock, Saving
<1>2. CASE CrashOrRestart
  BY <1>2, TypeStep DEF Next, CrashOrRestart, Constructed, IInv, TypeOK,
     SnapshotInv, PhaseInv, AgreementInv, ClearInv, MainHoldsLock, Saving
<1> QED
  BY <1>1, <1>2, SyncerStep, MainStep DEF Next

LEMMA InvariantHolds == Spec => []IInv
<1>1. Init => IInv
  BY DEF Init, IInv, TypeOK, SyncerSteps, MainSteps, SnapshotInv, PhaseInv,
         AgreementInv, ClearInv, MainHoldsLock, Saving
<1> QED
  BY <1>1, Inductive, PTL DEF Spec

-----------------------------------------------------------------------------
\* An unset needs_sync_ over a resting syncer means that the file has exactly
\* the entries in memory, but for those edited under a save and those a failed
\* load left in the file.
THEOREM CleanIsSaved == Spec => []CleanMeansSaved
<1>1. IInv => CleanMeansSaved
  BY DEF IInv, AgreementInv, CleanMeansSaved, IsSyncerRunning
<1> QED
  BY <1>1, InvariantHolds, PTL

\* A history cleared while the syncer had no copy stays cleared, in memory and
\* on disk.
THEOREM ClearIsFinal == Spec => []ClearedStaysCleared
<1>1. IInv => ClearedStaysCleared
  BY DEF IInv, ClearInv, ClearedStaysCleared
<1> QED
  BY <1>1, InvariantHolds, PTL

\* No step, a crash or an interrupted load among them, takes an entry off the
\* disk that was not deleted or evicted, left unread by a failed load or
\* edited under a save.
THEOREM DiskIsSafe == Spec => DiskLosesOnlyErased
<1>1. IInv /\ [Next]_vars
        => [file \ file' \subseteq erased \cup unread \cup missed]_vars
  <2> SUFFICES ASSUME IInv, Next
               PROVE  file \ file' \subseteq erased \cup unread \cup missed
    BY DEF vars
  <2>1. CASE UNCHANGED file
    BY <2>1
  <2>2. CASE SaveWrites
    BY <2>2 DEF SaveWrites, IInv, SnapshotInv, AgreementInv, Saving
  <2>3. CASE ClearUnlink
    BY <2>3 DEF ClearUnlink, IInv, TypeOK, PhaseInv, MainHoldsLock
  <2>4. CASE CloseSaves
    BY <2>4 DEF CloseSaves, IInv, AgreementInv, IsSyncerRunning
  <2>5. Next => UNCHANGED file \/ SaveWrites \/ ClearUnlink \/ CloseSaves
    BY DEF Next, Syncer, SaveBegins, SaveCopies, SaveFails, SaveEnds,
           LoadReads, LoadFails, LoadPopulates, SyncerExits, Main, Finish,
           AddHistoryEntry, ClearHistoryEntry, Revert, ClearUnusedHistory,
           Sync, Reload, WaitReturns, Clear, ClearSave, CloseBegins,
           CrashOrRestart
  <2> QED
    BY <2>1, <2>2, <2>3, <2>4, <2>5
<1> QED
  BY <1>1, InvariantHolds, PTL DEF Spec, DiskLosesOnlyErased
=============================================================================
