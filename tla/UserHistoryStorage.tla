------------------------- MODULE UserHistoryStorage -------------------------
(***************************************************************************)
(* The learnt user history and its file.  The server's main thread edits    *)
(* the in-memory entries and starts the syncer thread, which saves them to  *)
(* disk or loads them from disk; both share dic_, the needs_sync_ flag and  *)
(* the file.  mutex_ protects dic_ only: the file is read and written, and  *)
(* needs_sync_ is reset after a save, outside the lock.  An entry is "in"   *)
(* dic_ or the file when it is there and not marked removed; which entries  *)
(* are marked is not kept, so that an insertion may evict an entry although *)
(* fewer than kLruCacheSize are in, and a save may write no entry.          *)
(***************************************************************************)
EXTENDS Naturals, FiniteSets

CONSTANTS
  Entries,             \* key/value pairs the user may commit
  kLruCacheSize        \* how many entries dic_ holds

ASSUME EntriesAssumption == Entries # {} /\ kLruCacheSize \in Nat \ {0}

VARIABLES
  dic,           \* dic_
  file,          \* the entries of history.db
  needs_sync,    \* needs_sync_
  canceled,      \* canceled_
  syncer,        \* where the task of task_manager_ is; "none" when not running
  proto,         \* the syncer's copy of the entries
  main,          \* what the main thread is in the middle of
  unselected,    \* what the last Finish removed, as revert_cache_ keeps it
  erased,        \* ghost: entries deleted or evicted and not entered again
  missed,        \* ghost: entries changed since the syncer's last copy of the
                 \* entries or of the file, while it still worked on that copy
  unread,        \* ghost: entries of the file that a failed load left unread
  cleared        \* ghost: "yes" after a Clear, "raced" after one during which
                 \* the syncer had a copy; "no" when something was entered

ghosts == <<erased, missed, unread, cleared>>
vars == <<dic, file, needs_sync, canceled, syncer, proto, main, unselected,
          erased, missed, unread, cleared>>

SyncerSteps ==
  {"none", "save", "copy", "write", "saved", "load", "populate", "exit"}

MainSteps ==
  {"idle", "waiting", "clear_save", "clear_unlink", "closing", "closed"}

-----------------------------------------------------------------------------
\* The constructor: nothing in memory, AsyncLoad scheduled.
Constructed ==
  /\ dic' = {} /\ unselected' = {}
  /\ needs_sync' = FALSE
  /\ canceled' = FALSE
  /\ syncer' = "load"
  /\ proto' = {}
  /\ main' = "idle"

Init ==
  /\ file \in {f \in SUBSET Entries : Cardinality(f) <= kLruCacheSize}
  /\ dic = {} /\ needs_sync = FALSE /\ canceled = FALSE
  /\ syncer = "load" /\ proto = {}
  /\ main = "idle" /\ unselected = {}
  /\ erased = {} /\ missed = {} /\ unread = {} /\ cleared = "no"

IsSyncerRunning == syncer # "none"

\* Clear keeps the lock over its own Save.
MainHoldsLock == main \in {"clear_save", "clear_unlink"}

\* The syncer has copied the entries and has not yet reset the flag.
Saving == syncer \in {"write", "saved"}

-----------------------------------------------------------------------------
\* The main thread's edits.  Each one holds the lock and sets needs_sync_; only
\* Finish and Revert ask IsSyncerInCriticalSection before.

\* The entries of changed are edited now.
Edits(changed) ==
  /\ needs_sync' = TRUE
  /\ missed' = IF Saving THEN missed \cup changed ELSE missed

\* UserHistoryPredictor::Finish inserts the entries of the committed result,
\* each of which may evict another, and MaybeRemoveUnselectedHistory marks
\* those as removed that were shown often and seldom chosen.  It returns early
\* while the syncer is running: IsSyncerInCriticalSection is called without
\* the lock held, so it is IsSyncerRunning, during the file I/O too.
Finish(new) ==
  /\ main = "idle"
  /\ ~IsSyncerRunning
  /\ \E evicted, removed \in SUBSET (dic \cup new) :
       /\ evicted \cap removed = {}
       /\ Cardinality(evicted) <= Cardinality(new)
       /\ Cardinality((dic \cup new) \ evicted) <= kLruCacheSize
       /\ dic' = ((dic \cup new) \ evicted) \ removed
       /\ unselected' = removed
       /\ erased' = (erased \ new) \cup evicted \cup removed
  /\ Edits({})
  /\ cleared' = IF new = {} THEN cleared ELSE "no"
  /\ UNCHANGED <<file, canceled, syncer, proto, main, unread>>

\* AddHistoryEntry (ADD_USER_HISTORY) and MaybeProcessPartialRevertEntry.
AddHistoryEntry(e) ==
  /\ main = "idle"
  /\ \E evicted \in SUBSET (dic \ {e}) :
       /\ Cardinality(evicted) <= 1
       /\ Cardinality((dic \cup {e}) \ evicted) <= kLruCacheSize
       /\ dic' = (dic \cup {e}) \ evicted
       /\ erased' = (erased \ {e}) \cup evicted
       /\ Edits({e} \cup evicted)
  /\ cleared' = "no"
  /\ UNCHANGED <<file, canceled, syncer, proto, main, unselected, unread>>

\* ClearHistoryEntry: MutableLookup sets needs_sync_ also for no match.
ClearHistoryEntry(e) ==
  /\ main = "idle"
  /\ dic' = dic \ {e}
  /\ erased' = erased \cup {e}
  /\ Edits({e})
  /\ UNCHANGED <<file, canceled, syncer, proto, main, unselected, unread,
                 cleared>>

\* UserHistoryPredictor::Revert restores the entries of the last commit to
\* what they were before it: freq 0 for one that was new, in again for one
\* that Finish removed (unless it was evicted since).
Revert(back, again) ==
  /\ main = "idle"
  /\ ~IsSyncerRunning
  /\ back \subseteq dic /\ again \subseteq unselected
  /\ dic' = (dic \ back) \cup again
  /\ Cardinality(dic') <= kLruCacheSize
  /\ erased' = (erased \cup back) \ again
  /\ Edits({})
  /\ cleared' = IF again = {} THEN cleared ELSE "no"
  /\ UNCHANGED <<file, canceled, syncer, proto, main, unselected, unread>>

-----------------------------------------------------------------------------
\* Starting and awaiting the syncer.

\* Mutant: the test of needs_sync_ inverted.
AsyncSave_Inverted(dirty) ==
  syncer' = IF ~dirty /\ ~IsSyncerRunning THEN "save" ELSE syncer
\* AsyncSave, with the value needs_sync_ has when it is called.
AsyncSave(dirty) ==
  syncer' = IF dirty /\ ~IsSyncerRunning THEN "save" ELSE syncer

\* ClearUnusedHistory: Erase (which does nothing for no keys), AsyncSave.
ClearUnusedHistory(unused) ==
  /\ main = "idle"
  /\ unused \subseteq dic
  /\ dic' = dic \ unused
  /\ IF unused = {} THEN UNCHANGED <<needs_sync, missed>> ELSE Edits(unused)
  /\ AsyncSave(needs_sync')
  /\ erased' = erased \cup unused
  /\ UNCHANGED <<file, canceled, proto, main, unselected, unread, cleared>>

\* DeleteSession and Cleanup sync and go on; SyncData and Shutdown wait.
Sync(then) ==
  /\ main = "idle"
  /\ AsyncSave(needs_sync)
  /\ main' = then
  /\ UNCHANGED <<dic, file, needs_sync, canceled, proto, unselected, ghosts>>

\* UserHistoryPredictor::Reload: Wait, then AsyncLoad.
Reload(then) ==
  /\ main = "idle"
  /\ ~IsSyncerRunning
  /\ syncer' = "load"
  /\ main' = then
  /\ UNCHANGED <<dic, file, needs_sync, canceled, proto, unselected, ghosts>>

\* Mutant: Wait also waits for needs_sync_ to be reset.
WaitReturns_Flag ==
  /\ main = "waiting"
  /\ ~IsSyncerRunning /\ ~needs_sync
  /\ main' = "idle"
  /\ UNCHANGED <<dic, file, needs_sync, canceled, syncer, proto, unselected,
                 ghosts>>

WaitReturns ==
  /\ main = "waiting"
  /\ ~IsSyncerRunning
  /\ main' = "idle"
  /\ UNCHANGED <<dic, file, needs_sync, canceled, syncer, proto, unselected,
                 ghosts>>

-----------------------------------------------------------------------------
\* Clear (CLEAR_USER_PREDICTION): empties dic_ and calls Save with the lock
\* held.  What the syncer has copied from dic_ or from the file is in its way.
Raced == Saving \/ syncer = "populate"

Clear ==
  /\ main = "idle"
  /\ dic' = {} /\ unselected' = {}
  /\ needs_sync' = TRUE
  /\ main' = "clear_save"
  /\ erased' = Entries
  /\ missed' = IF Raced THEN Entries ELSE {}
  /\ UNCHANGED <<file, canceled, syncer, proto, unread, cleared>>

Cleared == cleared' = IF missed' = {} THEN "yes" ELSE "raced"

\* Mutant: Clear sees that nothing needs saving and skips its Save.
ClearSave_Skips ==
  /\ main = "clear_save"
  /\ main' = "idle"
  /\ UNCHANGED <<dic, file, needs_sync, canceled, syncer, proto, unselected,
                 erased, missed, unread>>
  /\ Cleared

\* Save's first test, of a flag the syncer may have reset meanwhile.
ClearSave ==
  /\ main = "clear_save"
  /\ UNCHANGED <<dic, file, needs_sync, canceled, syncer, proto, unselected,
                 erased, missed, unread>>
  /\ IF needs_sync
     THEN main' = "clear_unlink" /\ UNCHANGED cleared
     ELSE main' = "idle" /\ Cleared

\* There is nothing to write: the file is removed, if it can be, and
\* needs_sync_ stays set.
ClearUnlink ==
  /\ main = "clear_unlink"
  /\ main' = "idle"
  /\ missed' = IF Raced THEN Entries ELSE missed
  /\ \/ file' = {} /\ unread' = {} /\ Cleared
     \/ UNCHANGED <<file, unread>> /\ cleared' = "no"
  /\ UNCHANGED <<dic, needs_sync, canceled, syncer, proto, unselected, erased>>

-----------------------------------------------------------------------------
\* The syncer thread: Save.

SyncerTo(step) ==
  /\ syncer' = step
  /\ UNCHANGED <<canceled, main, unselected, erased, cleared>>

SaveBegins ==
  /\ syncer = "save"
  /\ SyncerTo(IF needs_sync THEN "copy" ELSE "exit")
  /\ UNCHANGED <<dic, file, needs_sync, proto, missed, unread>>

SaveCopies ==
  /\ syncer = "copy"
  /\ ~MainHoldsLock
  /\ proto' = dic /\ missed' = {}
  /\ SyncerTo("write")
  /\ UNCHANGED <<dic, file, needs_sync, unread>>

\* With nothing in dic_ the file is removed and needs_sync_ left alone; entries
\* that are all marked removed are written.
SaveWrites ==
  /\ syncer = "write"
  /\ file' = proto /\ unread' = {}
  /\ SyncerTo("saved") \/ (proto = {} /\ SyncerTo("exit"))
  /\ UNCHANGED <<dic, needs_sync, proto, missed>>

\* Mutant: needs_sync_ is reset although the write failed.
SaveFails_Resets ==
  /\ syncer = "write"
  /\ needs_sync' = FALSE
  /\ SyncerTo("exit")
  /\ UNCHANGED <<dic, file, proto, missed, unread>>

\* EncryptedStringStorage::Save or the removal failed; the old file is intact.
SaveFails ==
  /\ syncer = "write"
  /\ SyncerTo("exit")
  /\ UNCHANGED <<dic, file, needs_sync, proto, missed, unread>>

SaveEnds ==
  /\ syncer = "saved"
  /\ needs_sync' = FALSE
  /\ SyncerTo("exit")
  /\ UNCHANGED <<dic, file, proto, missed, unread>>

-----------------------------------------------------------------------------
\* The syncer thread: Load.

LoadReads ==
  /\ syncer = "load"
  /\ proto' = file /\ missed' = {}
  /\ SyncerTo("populate")
  /\ UNCHANGED <<dic, file, needs_sync, unread>>

\* There is no file, or it cannot be read, decrypted or parsed: Load returns
\* before it touches dic_ and needs_sync_.
LoadFails ==
  /\ syncer = "load"
  /\ unread' = file \ dic
  /\ SyncerTo("exit")
  /\ UNCHANGED <<dic, file, needs_sync, proto, missed>>

\* Mutant: an interrupted load leaves its incomplete entries to be saved.
LoadPopulates_Dirty ==
  /\ syncer = "populate"
  /\ ~MainHoldsLock
  /\ \/ dic' = proto /\ ~canceled /\ needs_sync' = FALSE
     \/ dic' \in SUBSET proto /\ canceled /\ needs_sync' = TRUE
  /\ SyncerTo("exit")
  /\ unread' = {}
  /\ UNCHANGED <<file, proto, missed>>

\* Clears dic_ and fills it under one lock; a cancellation by the destructor
\* stops the loop after any number of entries.
LoadPopulates ==
  /\ syncer = "populate"
  /\ ~MainHoldsLock
  /\ \/ dic' = proto
     \/ canceled /\ dic' \in SUBSET proto
  /\ needs_sync' = FALSE
  /\ SyncerTo("exit")
  /\ unread' = {}
  /\ UNCHANGED <<file, proto, missed>>

SyncerExits ==
  /\ syncer = "exit"
  /\ SyncerTo("none")
  /\ UNCHANGED <<dic, file, needs_sync, proto, missed, unread>>

-----------------------------------------------------------------------------
\* The destructor: cancel and await a running syncer, then Save.

CloseBegins ==
  /\ main = "idle"
  /\ main' = "closing"
  /\ canceled' = IsSyncerRunning
  /\ UNCHANGED <<dic, file, needs_sync, syncer, proto, unselected, ghosts>>

\* Save: the entries are written, or no entry is left and the file removed, or
\* either fails.
CloseSaves ==
  /\ main = "closing"
  /\ ~IsSyncerRunning
  /\ main' = "closed"
  /\ \/ UNCHANGED <<file, needs_sync, unread>>
     \/ needs_sync /\ file' = dic /\ unread' = {} /\ needs_sync' = FALSE
     \/ needs_sync /\ dic = {} /\ file' = {} /\ unread' = {} /\ UNCHANGED needs_sync
  /\ UNCHANGED <<dic, canceled, syncer, proto, unselected, erased, missed,
                 cleared>>

\* The process dies, at any moment, or a closed one is started again.
CrashOrRestart ==
  /\ Constructed
  /\ missed' = {} /\ unread' = {}
  /\ UNCHANGED <<file, erased, cleared>>

-----------------------------------------------------------------------------
Syncer ==
  \/ SaveBegins \/ SaveCopies \/ SaveWrites \/ SaveFails \/ SaveEnds
  \/ LoadReads \/ LoadFails \/ LoadPopulates
  \/ SyncerExits

Main ==
  \/ \E new \in SUBSET Entries : Finish(new)
  \/ \E e \in Entries : AddHistoryEntry(e)
  \/ \E e \in Entries : ClearHistoryEntry(e)
  \/ \E back, again \in SUBSET Entries : Revert(back, again)
  \/ \E unused \in SUBSET Entries : ClearUnusedHistory(unused)
  \/ \E then \in {"idle", "waiting"} : Sync(then)
  \/ \E then \in {"idle", "waiting"} : Reload(then)
  \/ WaitReturns
  \/ Clear
  \/ ClearSave
  \/ ClearUnlink
  \/ CloseBegins
  \/ CloseSaves

Next == Syncer \/ Main \/ CrashOrRestart

Spec == Init /\ [][Next]_vars

\* The syncer thread runs; the main thread finishes what it is in; the watch
\* dog's Cleanup keeps syncing; a disk that fails does not fail for ever.
Fairness ==
  /\ WF_vars(Syncer)
  /\ SF_vars(SaveWrites)
  /\ WF_vars(WaitReturns) /\ WF_vars(ClearSave \/ ClearUnlink)
  /\ WF_vars(CloseSaves)
  /\ SF_vars(Sync("idle"))

FairSpec == Spec /\ Fairness

-----------------------------------------------------------------------------
\* Every variable holds a value of its type.
TypeOK ==
  /\ dic \subseteq Entries /\ file \subseteq Entries /\ proto \subseteq Entries
  /\ needs_sync \in BOOLEAN /\ canceled \in BOOLEAN
  /\ syncer \in SyncerSteps /\ main \in MainSteps
  /\ unselected \subseteq Entries
  /\ erased \subseteq Entries /\ missed \subseteq Entries /\ unread \subseteq Entries
  /\ cleared \in {"no", "raced", "yes"}

\* With the syncer at rest and needs_sync_ unset, in a storage that serves or
\* has closed, the file holds exactly the entries in memory: no save, failed
\* save, load, reload or restart leaves the flag unset over entries that
\* differ.  Two things do: edits while the syncer works on its copy, whose
\* flag it then resets, and entries that a failed load left in the file.
CleanMeansSaved ==
  (~IsSyncerRunning /\ ~canceled /\ ~needs_sync)
    => dic \ file \subseteq missed /\ file \ dic \subseteq missed \cup unread

\* The destructor leaves nothing unsaved, unless a save or a load has failed:
\* "Call Saves() just in case as the internal data may be updated while syncer
\* thread is running" (user_history_storage.cc).  Stated for a file that has
\* entries; a Clear that races the syncer, after which every entry is missed,
\* is ClearIsBlocking's.
CloseSavesUpdates ==
  (main = "closed" /\ ~canceled /\ ~needs_sync /\ unread = {}
     /\ file # {} /\ missed # Entries) => dic = file

\* An entry leaves the file only if it was deleted or evicted: neither a crash,
\* nor a load canceled by the destructor ("When AsyncLoad is canceled, dic_ has
\* incomplete data, so must not be synced"), nor a failed save drops one.  The
\* exceptions are the entries of a file that could not be loaded, over which
\* the next save writes, and one deleted before the syncer's copy and entered
\* again after it.
DiskLosesOnlyErased == [][file \ file' \subseteq erased \cup unread \cup missed]_vars

\* Once Clear has returned and nothing was entered since, no entry comes back
\* in memory or on disk, if the syncer had no copy of them while it ran and
\* the file could be removed.
ClearedStaysCleared == cleared = "yes" => dic = {} /\ file = {}

\* The same whatever the syncer was doing: "Clears the storage and internal
\* data. This method is blocking." (user_history_storage.h).
ClearIsBlocking ==
  (cleared # "no" /\ ~IsSyncerRunning /\ main = "idle") => dic = {} /\ file = {}

\* Every entry in memory gets to disk, unless it goes from memory again (the
\* user deletes it, a reload drops it, the process ends) or was entered while
\* the syncer saved a copy without it: the periodic sync is never refused for
\* good.
LearntReachesDisk ==
  \A e \in Entries :
    e \in dic ~> (e \in file \/ e \notin dic \/ e \in missed \/ main = "closed")

\* Whatever the callers edit and whenever, a command that waits for the
\* syncer, clears the history or closes the storage gets to its end: the
\* single command loop of the server is never left waiting.
CommandLoopReturns == main # "idle" ~> main \in {"idle", "closed"}

=============================================================================
