# Mozkey-date: a TLA+ verification of the conversion server

Mozkey-date is a fork of the Japanese input method Mozc that adds conversion
by a local language model (Zenz). This directory holds TLA+ models of the
parts whose correctness depends on the order of events: the table of sessions,
the session with its converter and its undo, the asynchronous Zenz conversion
and the feedback learnt from it, the learnt user history with its background
saves, the loading of new language data, the watch dog, and the client library
that restarts a server and restores its session. TLC checks them on small
instances; TLAPS proves the central invariants for every instance.

Paths below are relative to `src/src/`.

## 1. Inventory

| Component | State | Operations | Interaction | What makes it correct |
|---|---|---|---|---|
| `SessionHandler` (`session/session_handler.cc`) | LRU map of sessions, configuration, key map, request, times of emptiness, cleanup and creation | `EvalCommand`: create, delete, keys and commands, `SET_CONFIG`, `SET_REQUEST`, `RELOAD`, `SHUTDOWN`, `CLEANUP`, engine reload | one command at a time from IPC; calls `Session`, `Engine`, `ConfigHandler`; `CLEANUP` comes from the watch dog thread through IPC | the table is a bounded LRU map; sessions share the current settings and engine; a server in use is not stopped; dead clients are reclaimed |
| `Session` (`session/session.cc`) | IME state, composer, converter, undo contexts, output | some 100 key and session commands | owns an `EngineConverter`; every command runs in one go | session and converter agree; committed text is handed out; Undo deletes what was committed |
| `EngineConverter` (`engine/engine_converter.cc`) | state, segments, focus, indices, suggestions, result | suggest, predict, convert, resize, commit | called by `Session`; asks the conversion engine | segments cover the composition; no assertion fails |
| `Session`, Zenz (`session/session.cc`) | pending and visible conversion and suggestion, generations | schedule, poll, apply, select, commit, cancel | asks the client for delayed callbacks; polls `ZenzConversionService` | an answer is shown for its own request only; no conversion outlives its state; polling is neither lost nor endless; a commit takes effect |
| `ZenzConversionService` (`session/zenz_conversion_service.cc`) | one request slot, one result slot, a worker | `Submit`, `CancelPending`, `TakeResult`, `WorkerLoop` | a worker thread calls the Zenz client | the latest request is served |
| `Session`, feedback (`session/session.cc`) | one pending record: accepted or rejected, the value, the final value | set, observe, confirm, discard | every key and commit; writes to the store | only what the user kept or replaced is learnt |
| `ZenzFeedbackStore` (`session/zenz_feedback_store.cc`) | a file of records, a cache of it in each process | append, decide, rank, delete, import, clear | the server and the configuration dialog, without a lock | look-ups follow the file; a rewrite loses nothing |
| `UserHistoryStorage` (`prediction/user_history_storage.cc`) | LRU dictionary, `needs_sync_`, the encrypted file | insert, look-up, erase, `AsyncSave`, `AsyncLoad`, `Clear`, destructor | a syncer thread at a time; `UserHistoryPredictor` calls it from the command thread | memory and disk agree when the flag says so; nothing is lost or resurrected |
| `DataLoader`, `Engine` (`engine/data_loader.cc`, `engine/engine.cc`) | requests by priority, failed requests, the current one, the response waiting for the engine | register, build, report, adopt | a loader thread; `SessionHandler` registers and adopts | failed data stays out, no downgrade, the loop ends |
| `LruCache` (`storage/lru_cache.h`) | element blocks, free list, LRU list, table | insert, look-up, erase, evict | used by the session table and by the history | every element is on one list; it is a bounded LRU map |
| `SessionWatchDog` (`session/session_watch_dog.cc`) | samples of the CPU load, a client | a thread that sends `CLEANUP`, pings and kills | IPC to its own process | cleanup goes on; a hung server is killed, a busy one spared |
| `Client` (`client/client.cc`) | session id, server status, journal of inputs | start the server, check its version, ensure a session, retry with playback | IPC | the user's composition survives a restart; calls return |
| composer, lattice search, dictionaries, rewriters, text checks of Zenz | text | computations over text | called by `Session` and `EngineConverter` | section 6 |
| renderer, GUIs, front ends, IPC | platform objects | I/O | processes | section 6 |

What is hard here: two background threads that share data with the command
thread under flags instead of locks (syncer, loader); a worker whose running
inference cannot be cancelled and whose answers travel through one slot;
polling that depends on callbacks the client sends later; time-outs computed
from a wall clock that may jump; two processes that rewrite one file; a client
whose server may die between any two of its calls; and the sheer number of
session handlers, each of which must leave the converter, the undo contexts,
the asynchronous state and the pending feedback in order. `PROJECT.json`
lists each of these hazards at its line.

## 2. Modules

| Module | Models | Checked by | Proved in |
|---|---|---|---|
| `SessionHandler` | the command loop | `MCSessionHandler` | `SessionHandlerProofs` |
| `LruMap` | abstract: a bounded map with an order of use | `MCLruCache`, `MCSessionHandler` | `LruCacheProofs`, `SessionHandlerProofs` |
| `LruCache` | blocks, free list and pointers of the container | `MCLruCache` | `LruCacheProofs` |
| `EngineConverter` | a session's converter, as operators | `MCSession` | `SessionProofs` |
| `Session` | a session over its converter; extends `EngineConverter` | `MCSession` | `SessionProofs` |
| `ZenzConversion` | `Session`'s Zenz requests, `ZenzConversionService`, the client's callbacks | `MCZenzConversion` | `ZenzConversionProofs` |
| `ZenzFeedback` | the pending feedback record of a session | `MCZenzFeedback` | `ZenzFeedbackProofs` |
| `ZenzFeedbackStore` | the feedback file and its caches in two processes | `MCZenzFeedbackStore` | |
| `UserHistoryStorage` | the history, its syncer thread, its file | `MCUserHistoryStorage` | `UserHistoryStorageProofs` |
| `DataLoader` | the loader and the engine's adoption | `MCDataLoader` | `DataLoaderProofs` |
| `SessionWatchDog` | the watch dog thread and a command loop that may hang | `MCSessionWatchDog` | |
| `Client` | the client library and a server that may die | `MCClient` | `ClientProofs` |
| `KeyLists` | lists of keys without some of them; used by `LruMap` and `SessionHandler` | | `SessionHandlerProofs` |
| `Sums` | the sum of a sequence; used by `EngineConverter` and `SessionWatchDog` | | `SessionProofs` |

Two refinements are checked and proved. `LruCache` implements `LruMap` (`ImplementsLruMap`):
the mapping reads the order off the linked list and the values off the table.
`SessionHandler`'s table implements `LruMap` too (`TableIsLruMap`): the handler
evicts, touches and erases sessions the way such a map may. So the handler is
modelled over the abstract map while the container is shown to provide it.

Operators whose names end in `_Something` and whose comment begins with
"Mutant" are faulty variants of the definition that follows them. They are
used only to see that the properties notice such faults.

### SessionHandler

Every command is one action, because `EvalCommand` runs commands one after
the other. A session is the record of what the handler reads of it: the
settings it was given, the engine its converter came from, its two times and
whether its application is alive. `UpdateSessions` is the operator that hands
the current configuration, key map, table and request to all sessions; it is
part of `CreateSession`, `SetConfig`, `SetRequest`, `Reload` and (through
`MaybeUpdateConfig`) of `SendKey`. `CreateSession` is the whole handler: the
minimum interval, the eviction of the least recently used session,
`MaybeReloadEngine` (which may replace the engine only when no session is
left), the insertion, `UpdateSessions`, and the reset of the empty time.
`Cleanup` computes the suspend time, removes what has expired and may shut the
server down. `ClockMoves` sets the clock to any time, also back.
`LoaderDone` is what `DataLoader` does from here: a response becomes ready.

### ZenzConversion

The state is the IME state, the reading (`key`), and for conversions and
suggestions alike a generation, a pending request and a visible candidate; the
service's slots `request`, `result`, `running`; and the set of callbacks the
client holds. A response is identified with the request it answers, so that
a candidate carries the request whose answer it shows. The converter may fail
or offer nothing, and the checks of an answer (validator, adoption, privacy,
feedback) may refuse any: both are disjuncts.

One action stands for each group of handlers with the same effect on this
state. The helpers take a number of increments because the code increments
the generation in each of several nested calls (`CancelPendingZenzConversion`,
`ClearZenzConversionState`, the dispatcher's last `ClearZenzConversionState`):
the model keeps the exact number, as two counters that share one result slot
can meet. `Deliver` is the client's part (the Windows front end chains
callbacks in `win32/tip/tip_edit_session.cc`); callbacks may be arbitrarily
late and in any order.

A key may be bound to several commands (`Convert|ConvertNext`). Each is a step;
`more` says that the key has another. What `SendKeyConversionState` does before
the first command and `SendKey` after the last is done once, and only the last
command's output reaches the client: a callback in an earlier one is lost
(`AccumulateCommandOutput`). `dropped` remembers such callbacks and `sequenced`
that there was such a key, for the properties.

Left out: the DIRECT state and switching the IME off, undo (both are in
`Session`), password fields, `CommitHead`, more than one Zenz candidate.

### UserHistoryStorage

`dic` and `file` are sets of entries, `dic` of at most `kLruCacheSize`: an
insertion into a full one evicts the oldest. Which entry that is, and which are
kept as removed ones, is not modelled; any entry may be it. `Finish` is the
whole handler, with `MaybeRemoveUnselectedHistory`; `Revert` undoes the last
one. The syncer is a program counter over the
steps of `Save` (test, copy under the lock, write, reset the flag) and `Load`
(read, populate under the lock). The main thread edits, syncs, reloads, waits,
clears and closes; `Clear` is three steps that hold the lock, since `Save`
inside it tests a flag the syncer may reset. A write, a removal of the file and a
load may fail: a file that cannot be read or parsed leaves `dic_` empty and the
flag unset (`LoadFails`), and the next save writes over it. The process may die
at any step.

`Finish` and `Revert` return early while the syncer runs; `AddHistoryEntry`,
`ClearHistoryEntry`, `ClearUnusedHistory` and `Clear` do not ask, and run beside
it at any of its steps. Four history variables say what such steps cost:
`erased` (deleted or evicted entries), `missed` (entries changed since the copy
the syncer works on was taken), `unread` (entries that a failed load left in the
file) and `cleared` (whether there was a `Clear`, whether the syncer had a copy
during it, and whether something was entered since).
### DataLoader

`RegisterRequest` is atomic under the mutex; the rest of
`StartNewDataBuildTask` (notify, test `IsRunning`, schedule) is a second step.
The loader's thread is a program counter over `StartReloadLoop`, with
`exit` as the time between its last look at the list and the moment its future
is ready. A build may fail.

### LruCache

The state is one record of arrays indexed by element number, so that the
private methods (`PushLRUHead`, `RemoveFromLRU`, `Evict`, `PopFreeList`,
`AddBlock`) are operators from caches to caches, composed as the public methods
compose them. Elements are recycled with their old key and value, as in the
code: `LearnEntry` and `AddHistoryEntry` are the two ways the history uses
`Insert` and then writes through the pointer it got. The latter does not clear
an element it gets for a new key; `added` remembers the keys for which that
happened. A failed `CHECK` is
recorded in a field.

### EngineConverter and Session

Texts are lengths. A converter is a record (state, lengths of the segments,
focus, number of candidate indices, suggestions kept, whether the segments have
candidates, result not yet taken, whether all assertions held), and each method
of `engine_converter.cc` is an operator that returns the set of outcomes over
every answer of the engine: any segmentation, any failure. `Session` composes
them: each action is one key or command with all it calls, including `Suggest`
after an edit and the output, which takes the result. `Suggest` may succeed,
find nothing, or be suppressed by the client before it reaches the converter.
`undo_contexts` keeps with each context how much was committed since (`since`),
which is what the document would have to lose for an undo, and whether some of
that has no copy in `output()` (`unsaved`): `Undo` knows of the rest only.

The build has its assertions on. One that fails ends the server (`Reply` gives
no answer) and the client starts a new session (`Restart`).

Six steps of the code part session and converter: a reverse conversion or a
transliteration that fails, a suggestion that is suppressed over an active
converter, a partial commit whose follow-up suggestions fail, `REQUEST_NWP` and
`UndoOrRewind` without an undo context during a conversion. The model takes them
all. The field `strayed` is set by them and reset when the session is at rest
again, with nothing composed, converted or waiting (`AtRest`). The properties say
what holds at all times and what holds unless the session has strayed; the
further configurations of section 3 show that the second kind needs the
exception.

Left out: field types, input modes, mixed conversion (`mixed_conversion`), the
client's text and revision (`OnStartComposition`), the candidate list, history
segments, and the learning that `ZenzConversion`, `ZenzFeedback` and
`UserHistoryStorage` model.

### ZenzFeedback

A session seen from its pending feedback record. Every handler that sets
(`SetPendingZenzFeedbackAccepted`, `...Rejected`), observes, confirms or
discards the record is an action; of the converter only the text it would
commit is kept, of undo the contexts, of Zenz that its answer may come while it
is awaited. A value that the privacy filter refuses (`Private`) sets no record,
and an older one stays pending (`MayRecord`). `kept` and `since` are history
variables: Zenz's values that were committed and not taken back since the last
text, and the first two texts committed since Zenz's value was left.

### ZenzFeedbackStore

The file is a bag of records, `writes` its modification time. The server
appends; the dialog appends, deletes entries, imports and clears. A look-up or
rewrite takes the file's stamp first and reads the file later (`BeginLoad`,
`EndLoad`), so the other process may write in between; a rewrite replaces the
file in another step. `Decide` and `GetRankedCandidates` are translated with
their weights and thresholds; `Preferred` states the rules of the dialog
independently of them. The code does this on Windows; elsewhere the store's
functions do nothing.

### SessionWatchDog

The thread is a program counter over the wait, the samples, the decision, the
`CLEANUP` call, the reset and the pings. The command loop may hang and recover
at any time; the destructor may stop the thread in any wait. The gap between
two decisions is any of a set, negative when the clock was set back.

### Client

Each IPC call is a step, and between steps the server may crash, be started by
another application (of an older, the same or a newer version), or drop the
session. `EnsureConnection`, `EnsureSession`, `CheckVersionOrRestartServer` and
the two trials of `EnsureCallCommand` are the program counter. An input is its
number and what it does to the composition, so that a session is the sequence
of the inputs it shows, and playing the journal back can be compared with it.

## 3. Runs

| Run | Question | Result |
|---|---|---|
| `handler` | Do sessions keep the current settings and engine; is the table a bounded LRU map; is the empty time right; are dead applications' sessions reclaimed, with a clock that jumps? | holds with the default flags |
| `lru` | Are the lists and the table consistent; does a key's value hold its own data; is every method an operation of `LruMap`? | holds; own data but for what `AddHistoryEntry` added |
| `session` | Do session and converter agree; do the segments cover the composition; do the assertions hold; is every result handed out; does Undo delete what was committed? | holds, in part unless strayed |
| `zenz` | Does a shown conversion answer its own request; is a pending request polled; does none outlive its state; does `SUBMIT` take effect on a highlighted suggestion; does polling end? | holds; the first two but for keys of several commands |
| `feedback` | Is an acceptance written only for what was committed and kept, a rejection only for what was replaced? | holds |
| `feedback_punctuation` | Does punctuation over Zenz's conversion commit that value and the mark? | violated |
| `feedback_store` | Do look-ups in either process follow the file and the dialog's rules; does a rewrite keep the other records? | holds, but for an import that could not open the file |
| `history` | Do memory and disk agree; is nothing lost or resurrected; does what is learnt reach the disk; does every wait end? | holds, but for missed and unread entries |
| `history_clear` | Is `Clear` final also beside a running syncer? | violated |
| `loader` | Is failed data kept out; is data never downgraded; does the engine get what the loader says is loaded; does the loop end? | holds |
| `watchdog` | Is a busy machine spared; does cleanup go on after time-outs; is a hung server killed; does stopping end the thread? | holds |
| `client` | Is the session in a server of the right version; does playback restore what the journal says; does the journal cover the session; does every call return? | holds |

The type invariants of `LruCache`, `SessionHandler`, `Client`,
`SessionWatchDog` and `Session` are the first conjunct of an invariant of their
run; those of all but `SessionWatchDog` are proved with it. The
type invariants of `UserHistoryStorage`, `DataLoader`, `ZenzConversion` and
`ZenzFeedback` have theorems of their own.

The two violated runs are disagreements between the code and what its comments
and headers say; `findings` in `PROJECT.json` quotes both sides.

* `history_clear`: a load has read the file, `Clear` empties the dictionary and
  unlinks the file, the load populates the dictionary from what it read. A
  save that has copied the entries brings the file back in the same way.
* `feedback_punctuation`: `InsertCharacter` commits Mozc's conversion first
  (`session/session.cc:4310`), and `CommitStringDirectly` appends Zenz's value
  and the mark to the same result (`:4800`): the text is entered twice.

### Further configurations

Where the code does less than its documents say, the properties of the runs say
what it does do, and name the exception: `missed` and `unread` entries, `added`
keys, `dropped` callbacks, `sequenced` keys, a session that `strayed`, text that
is `unsaved`, a `blind` import. The models take the steps that lead there. These
configurations check what the document says, without the exception; TLC finds
each violated within a minute. They are not among the runs of `PROJECT.json`.

| Configuration | Property | What TLC finds |
|---|---|---|
| `MCSessionHandlerRestricted` | `CleanupSparesServerInUse`: "shutdown server if there is no active session" (`session/session_handler.cc:582`) | Creating a session sets the empty time to `InfinitePast`, and `Cleanup` takes the distance from it for idle time (`:646`): with the time-out of `--restricted`, the first `Cleanup` shuts a server in use down. |
| `MCLruCacheAdd` | `NewEntryIsClear`: "`entry` might be reused from the heap, so explicitly clear" (`prediction/user_history_predictor.cc:1929`) | `AddHistoryEntry` gets a recycled element for a new key and keeps the evicted entry's frequency and successors (`:583`). |
| `MCSessionModes` | `ModesAgree`: "no character is typed yet", "Mode to select words" (`docs/configurations.md:51`, `:56`) | A reverse conversion fails and leaves its reading in Precomposition (`session/session.cc:2549`); a failed transliteration (`:4975`) or `REQUEST_NWP` (`:1395`) leaves a Conversion without a conversion. |
| `MCSessionSuggestions` | `SuggestionsFitComposition`: `suppress_suggestion` turns the "suggestion feature" off (`protocol/commands.proto:541`) | A suppressed suggestion does not reach the converter (`session/session.cc:4901`), which goes on showing those of the composition before the edit. |
| `MCSessionAssertions` | `AssertionsHold`: `DCHECK(CheckState(...))` (`engine/engine_converter.cc:1282` and others) | After a step that takes the converter out of a conversion the next key of that mode fails the assertion. |
| `MCSessionResult` | `NoResultWaits`: "Copy the previous output for Undo." (`session/session.cc:2748`) | A part of the composition is committed and the suggestions for the rest fail: the output has no result, which waits for another command or is dropped. |
| `MCSessionUndoZenz` | `UndoDeletesCommitted`: "Undos the commitment" (`session/session.h:146`) | `CommitZenzSuggestion` pushes an undo context and commits past `output()` (`session/session.cc:4952`): Undo leaves the text in the document, or deletes the length of an older result. |
| `MCZenzConversionSequence` | `AnswersAreKeptApart`: "Session will drop it by generation" (`session/zenz_conversion_service.cc:117`) | A key of several commands advances the suggestions' generation more often than the conversions', and a running suggestion's answer is taken for that of the conversion with the same generation. |
| `MCZenzConversionCallback` | `ConversionIsPolled`: "the session keeps polling" (`session/session.cc:198`) | `Convert` followed by another command on the same key: the second output replaces the one with the callback (`:1148`), and nobody polls. |
| `MCZenzFeedbackStoreImport` | `ImportAppendKeepsRecords`: the test `ImportAppendKeepsExistingRecords` (`session/zenz_feedback_store_test.cc:720`) | An import in append mode that cannot open the file takes it for empty and replaces it (`session/zenz_feedback_store.cc:1323`). |
| `MCUserHistoryStorageClose` | `CloseSavesUpdates`: "Call Saves() just in case as the internal data may be updated while syncer thread is running" (`prediction/user_history_storage.cc:95`) | An edit between the syncer's copy and its reset of `needs_sync_` (`:232`) is taken for saved, and the destructor does not write it. |

`MCSessionUndo` is the other way round: it checks `UndoRestoresDocument` with two
undo contexts, one under the other, over compositions of two characters; it holds,
and takes some four minutes.

### Known deviations

Besides the above, met while modelling, by TLC on other instances or by
reading; the models contain the steps unless noted, and the properties are
stated so as to say what does hold.

* `engine/data_loader.cc:240`: the loop finds nothing pending and breaks, a
  request is registered, and nobody restarts the thread that still counts as
  running: the request waits for the next one. `LoaderComesToRest` says only
  that the loop ends.
* `session/session.cc:3793`: the suggestions' and the conversions' generations
  share one result slot. Type, convert, cancel: the suggestion for the same
  reading may get the number of the cancelled conversion and take its answer.
  `ConversionIsOwnAnswer` holds for conversions; section 4 says why.
* `session/session.cc:4114`: a late answer is shown over a candidate the user
  has clicked (the comment at `:2208` says otherwise).
* `session/session.cc:4654`: `SUBMIT` does nothing in CONVERSION while a
  suggestion is still marked as selected (highlight it, then transliterate).
  `SubmitTakesEffect` is stated outside CONVERSION.
* `session/session_watch_dog.cc:218`: the average of the last samples sums all
  of them and divides by two. It errs to the safe side: `BusyMachineIsSpared`
  holds, but a quiet machine may go without cleanup.
* `client/client.cc:764`: an older server is met with `BROKEN_MESSAGE` where the
  comment speaks of `SERVER_VERSION_MISMATCH`; and a failure noticed by a call
  outside a session leaves a journal that is not reset, which is why
  `JournalCoversSession` compares it as a suffix.
* `session/session.cc:3149`, feedback: a reading committed in parts is judged
  by its last part only, although the comment says partial commits must not
  count; a reconversion or a zero-query commit before the next text
  overwrites the observed final value; neither the reconversion of an accepted
  text nor the application's own undo discards the acceptance; switching the
  IME off by a key records a rejection where `TURN_OFF_IME` records an
  acceptance; `MaybeApplyZenzFeedbackConversion` shows a learnt value without
  asking `Decide`.
* `prediction/user_history_storage.cc:134`: the entries of a file that cannot be
  read or parsed are written over by the next save. `CleanMeansSaved` and
  `DiskLosesOnlyErased` name them (`unread`).
* `session/zenz_feedback_store.cc:1313`: records the server appends during a
  rewrite by the dialog are lost. `RewriteKeepsRecords` speaks of the records
  that were there when the rewrite began.

### Bounds

* `SessionHandler` (`handler`): three session ids over a maximum of two sessions, so that
  eviction, reuse of an id and refusal happen; two key maps and two requests;
  clock readings on both sides of each time-out; one engine replacement.
* `LruCache`: capacities 1, 2 and 3 with four keys and up to two blocks, so
  that a cache is a single block, grows by blocks, and evicts. The keys are
  symmetric: no method compares them with anything but each other.
* `Session`: compositions of up to three characters (three segments, the middle
  one in focus) and one undo context, so that every second commit purges one;
  two contexts, one under the other, are `MCSessionUndo`'s. Zero query
  suggestions are on; one that is suppressed leaves what a client without them
  has. The engine may answer anything within these lengths. The theorems have
  no bound and allow either setting.
* `ZenzConversion`: readings of one character (too short for Zenz) and of two;
  `MaxGeneration = 6` lets a user convert, cancel, and convert or be suggested
  to again while the first inference runs; `MaxPoll = 2` gives a poll that
  repeats and one that gives up; three callbacks at a time. The bounds
  restrict the user's actions only, never the client's or the worker's.
* `ZenzFeedback`: three values, so that Mozc's and Zenz's agree or differ and
  one is private (two and none in the violated run); one undo context; nothing
  else is bounded. The theorems have no bound.
* `ZenzFeedbackStore`: one correction in two classes that share feedback and in
  a sensitive one; reasons of three weights; thresholds 0 to 2; files of up to
  four records, two writes by either process, which is what a stale cache or a
  lost record takes.
* `UserHistoryStorage`: two entries in a dictionary of two (evictions happen
  already there, since entries marked as removed take room); nothing else is
  bounded. The theorems have no bound.
* `DataLoader`: four requests (urgent, two of equal priority, low), five
  registrations.
* `SessionWatchDog`: an interval of 30 seconds, that is six samples of which
  three loads are possible (idle, between the limits, full).
* `Client`: four inputs over a journal of three, so that it overflows; two
  faults, so that one strikes during the recovery from the other.

### Fairness

* `handler`: weak fairness of `Cleanup`, which the watch dog sends at an
  interval (`CleanupGoesOn` of run `watchdog`).
* `watchdog`: the thread runs; strong fairness of the decision to send (the
  machine is not busy for ever) and of a served `CLEANUP` (a server that
  answers is not too slow for ever).
* `client`: the calling thread runs: each IPC call returns, at the latest by
  its time-out.
* `history`: the syncer thread runs; the main thread finishes `Wait`, `Clear`
  and the destructor; `Sync` is strongly fair because every `CLEANUP` and
  `DELETE_SESSION` calls it; and a disk that can be written again and again
  is written once.
* `loader`: both threads run.
* `zenz`: strong fairness of the client's callbacks (a session runs one
  command at a time, so that they wait for a key to end), weak fairness of
  the end of a key's commands, and none of the worker, so that an inference
  may hang.

`CHECK_DEADLOCK FALSE` is used where the model may stop: registrations in
`DataLoader` and generations in `ZenzConversion` are bounded, the client may be
destroyed, the watch dog stopped.

## 4. Theorems

### UserHistoryStorageProofs

`TypeCorrect`, `CleanIsSaved`, `ClearIsFinal` and `DiskIsSafe` hold for any set
of entries, any size of the dictionary and every edit beside the syncer, failed
loads, writes and removals, evictions, crashes and restarts included; they
assume nothing but `EntriesAssumption`. They rest on one inductive invariant
`IInv` of five parts: the types; `SnapshotInv` (the copy the syncer holds
differs from the dictionary it was taken from, or the file it was read from, in
`missed` entries only); `PhaseInv` (which steps of the main thread can coincide
with which steps of the syncer; in the midst of `Clear` the flag is set, or a
syncer that `Clear` raced has reset it); `AgreementInv` (with the flag unset,
dictionary and file differ in `missed` and `unread` entries only, except while a
load has yet to finish; what only the file holds was erased or left unread);
`ClearInv` (what was cleared undisturbed is empty, the syncer's copy too).
`CleanMeansSaved` alone is not inductive: it says nothing of the states in which
the syncer is at work, from which the interesting steps are taken.

### ZenzConversionProofs

`TypeCorrect` and `RequestsKeepToTheirState` hold for every set of readings and
every bound, by `BaseInv` (types, the property itself, and: no pending request
is newer than its counter). `ConversionAnswersItsRequest` says that a shown
conversion answers its own request, or, once a key ran several commands, that of
a suggestion with its generation and reading. Its invariant `IInv` adds the
property and, until a key runs several commands, `GenerationInv` and
`ServiceInv`: outside CONVERSION the suggestions' counter is not ahead of
the conversions', in CONVERSION it is ahead by at most one; and anything in
the service with the number of the pending conversion is its request. That
is why conversions are safe from the confusion that suggestions are open to:
scheduling a conversion adds two to a counter that is already the larger one, so
its number is new to the service, while a suggestion's number may be an old one
of the conversions. The theorem assumes
`~zero_query_suggestion` (desktop clients): a zero query suggestion
increments the suggestions' counter once more per commit and lets it overtake.

`PendingIsAskedFor` and `SubmitHasEffect` need neither the generations nor the
hypothesis on zero query: they hold for every client. Their invariant
`ScreenInv` adds two parts to `BaseInv`. `CallbackInv`: a pending conversion has
its callback with the client or among the dropped ones, or the reading has
become shorter than its key, in which case its answer would be refused; a
pending suggestion is for the reading at hand and has its callback. `SuggestionInv`: outside CONVERSION, with
something typed, the suggestion on screen is for the reading at hand. The first
is needed because a callback is consumed by the step that may schedule the next one; the second
because `CommitZenzSuggestion` compares the reading again when the key arrives.

Each handler is first summarised (`Summary`: what it may do to the
conversion, the suggestion and the service), so that the invariants are proved
for a few summaries and not for every handler.

### DataLoaderProofs

`TypeCorrect`, `FailureIsFinal`, `EngineGetsCurrentData` and
`DataIsNeverDowngraded` hold for every set of requests and every assignment of
priorities. `IInv` adds two facts to the types and to `FailedIsGone`.
`PickedInv`: what the loader's thread works on stays registered and pending
until that thread reports on it, and is at least as urgent as the current
data; the current data stays registered. It is needed because the main thread
may register other requests at any step of a build, and carries the priority
compared when the request was picked to the moment it becomes current.
`ResponseInv`: the modules that wait for the engine, or that it runs, are the
current ones, except between the callback and `ReportLoadSuccess`, when the
response is already the new one; the engine does not look then, because
`IsRunning` is still true.

### ZenzFeedbackProofs

`TypeCorrect`, `AcceptanceIsKept` and `RejectionIsReplaced` hold for any values
and any depth of undo. Both properties speak of the step that writes a record,
so the invariant must know about the record while it waits: `AcceptedIsKept`
(the value of a pending acceptance is among those committed and not taken back)
and `Fits` (the final value of a pending rejection is the only text committed
since, or there were several). Every command is first reduced to its `Summary`:
which record is pending next, which one it confirms, and that a rejection is
either new, untouched while Zenz's value stays, or closed by the first text the
command commits. `IInv` adds the types and that only a suggestion that is shown
is picked.

### ClientProofs

`SessionOnCurrentServerHolds`, `PlaybackRestoresHolds` and
`JournalCoversSessionHolds` hold for any journal length, any number of inputs and
any number of faults. `ServerInv` (the types, the property, and that what is being
sent is one of the application's inputs) carries the first: a session is only
kept after the version of the server that answered has been checked, and it dies
with its server. `JournalInv` carries the other
two. `FreshSession`: before playback the server's session is empty.
`RetryAfterLoss`: the second trial starts from a session known to be lost.
`PlaybackFollows`: in the midst of playback the session shows what the inputs
played so far give. `JournalHolds`: outside of playback the composition is a suffix
of what the journal gives, as long as the journal is not full. `PlaybackRestores`
alone is not inductive, because it speaks of the end of playback only. What a
journal shows is a recursive function over its prefixes; the lemmas about it are
proved by induction on the length.

### SessionHandlerProofs

`SessionsShareSettingsHolds`, `SessionsUseCurrentEngineHolds` and
`EmptyTimeTracksEmptinessHolds` hold for any number of sessions, key maps,
requests and clock readings, under the assumptions on the flags that
`SessionHandler` states. They rest on one invariant, `HandlerInv`, which adds
`SettingsAreCurrent` (the handler has adopted the shared configuration, and its
key map is that configuration's) and `ListMatchesMap` (the order of use lists
every session of the table, once). Without the latter nothing says that the
evicted session is one that exists, and both the engine's replacement and the
empty time depend on the table having become empty.

`TableIsLruMapHolds` is the refinement. `TableStep` classifies every step: a
session is used, created (with the eviction of the last one if the table is
full), a set of sessions is erased, or the table is left alone. Each is shown to be
an action of `LruMap` or a stuttering step, and every command to be one of them.

### SessionProofs

`StatesAgreeHolds`, `SegmentsCoverHolds`, `ChecksHoldAlways`,
`ResultIsHandedOutHolds` and `UndoRestoresDocumentHolds` hold for compositions of
any length, any depth of undo, any answers of the engine, with and without zero
query, and over every step of `Next`: those that part session and converter, the
assertions they may fail and the restart are among them. The only assumption is
`SessionAssumption` on the constants' types. The invariant is `SessionInv`:

* `Agreed(context)`: a converter that is active has the focus on a segment and an
  index for each; a CONVERSION's segments are non-empty and have as many
  characters as the composition; SUGGESTION and PREDICTION have one segment,
  with as many characters unless strayed (`Shaped`); a focused candidate means
  that the session is in CONVERSION; unless strayed, the converse, and no
  composition outside one.
* `Quiet(context)`: no result waits, unless strayed; and the assertions have
  held, unless strayed.
* `StackOK(undo_contexts, context.output)`: every undo context is itself
  `Settled` (both of the above, and no assertion failed), and what was committed
  since it was pushed is what the context above it has put out, unless some of
  it has no copy there.

`StackOK` is what Undo needs: it makes an old context the current one, so an
invariant about the current context alone is not inductive. `Shaped` has to hold of
a strayed session as well, since it is what brings it back to rest without
harm: a reset must be safe (`Usable`), and a suggestion may be asked for while an
older one is shown (`Ready`). A command answers with a context that is sound or
whose server has ended (`Fine`). The proof follows the code: a lemma for each
method of the converter (what it keeps of the segments and the result), for the
pushes and pops of the stack, and for each command.

### LruCacheProofs

`ListsAreConsistentHolds`, `EntryHoldsOwnDataHolds` and `ImplementsLruMapHolds`
hold for any set of keys, any number of blocks and any capacity that these
blocks can reach. `CapacityAssumption` says what that means: `MaxBlocks` blocks, each
twice as large as the one before, hold at least the capacity, and the first
block of a larger cache leaves an element for each of the others. The caches of the code
(at most 128 elements in a single block; 10000 in up to ten blocks from 64 on)
meet it. None of them restricts the callers: `EntryHoldsOwnData` names the
keys that `AddHistoryEntry` put in as new ones, and
`MCLruCacheAdd` (section 3) shows why.

`ListsAreConsistent` reads the lists off the pointers, and following pointers
says nothing about what a write to one of them does. The invariant `CacheInv`
instead says that there are two injective sequences of elements, those in use
and the free ones, with (`Shape`):

* `Lists`: `next` follows each of them to its end, `prev` goes back along the
  first, head and tail are its ends, `prev` is null on the second;
* `Cover`: no element is in both, and together they are as many as were allocated;
* `Indexed`: the table leads from each key to the one element in use that
  carries it;
* `Blocks`: the blocks that are left can still reach `max_elements`
  (`Reaches`, by the doubling of sizes and the even split of what remains). Without
  it a cache could run out of blocks before it is full, and evict too early;
* no `CHECK` has failed.

Each private method is one lemma that says which two sequences describe the cache
after it: `RemoveFromLRU` takes an element out of the middle of the first,
`PushFreeList` puts it in front of the second, `AddBlock` puts a block there, and
so on. `Insert` then has three outcomes: the key had an element, and gets that
same element back (`Renewed`, which is why a learnt entry keeps its data); a free
element is taken (`Added`); or the last element in use is recycled (`Replaced`).
`Clear` is an induction over the list it walks while it rewrites its pointers,
which is right because the iterator has read `next` before.
Last, what `LruList` and `FreeList` compute is shown to be these sequences, which
gives `ListsAreConsistent`. For the refinement the keys along the first sequence are
the order of `LruMap`, and each outcome is one of its actions: `Renewed` and a
look-up move a key to the front, `Added` and `Replaced` insert one, the latter
dropping the last, `Erase` and `Clear` drop one or all.

### Induction

A fact about a recursive function over the prefixes of a sequence (`Sums`,
`Rest`, what a journal shows) is proved from the least-element principle for sets
of natural numbers, applied to the set of lengths at which it fails. `SelectSeq` and
the folds of the library give the provers nothing to start from; the modules
with proofs use recursive functions in their place. That such a function exists
is itself a lemma (`Iteration` in `LruCacheProofs`), since the library's theorem on
recursive definitions takes an operator.

### Only model-checked

Liveness (`DeadApplicationsReclaimed`, `LearntReachesDisk`,
`CommandLoopReturns`, `LoaderComesToRest`, `PollingEnds`, `CleanupGoesOn`,
`HungServerIsKilled`, `StopEndsThread`, `CallReturns`) is beyond TLAPS.
Of the safety properties these are not proved: `BusyMachineIsSpared` of
`SessionWatchDog`, `LookupsAgree` and `RewriteKeepsRecords` of
`ZenzFeedbackStore` (bags, whose folds give the provers nothing to start
from).

## 5. Plan

1. `ZenzFeedbackStore`: `RewriteKeepsRecords` for any records.
2. `EngineReload`: `DataLoader` and two instances of `UserHistoryStorage`, for
   what is learnt while new modules are built; an action property for
   unsaved edits at `Reload`.
3. The user dictionary's reload thread, and the learning of segments that
   follows an accepted conversion.

## 6. Not modelled

The repository has some 208,000 lines of implementation, of which most are
tables, text processing, dialogs and platform code; the models cover about a
third of the 23,700 lines of the files they touch and 4 % of the whole.

* Text: composition (`composer/`), the lattice search (`converter/`),
  dictionaries, prediction ranking and rewriters, the validator, adoption and
  privacy checks of Zenz. They are computations over Japanese text and
  generated data whose correctness is in that data; where a modelled
  component calls them, any answer is allowed.
* Platform I/O: IPC, pipes and sockets to the Zenz scorer, front ends,
  renderer, dialogs. The models allow what they may do to the components: a
  call that fails, hangs or comes late, a callback in any order.
* `ConfigHandler` and configuration files, field types and input modes of a
  session, statistics and logging.

The components in `PROJECT.json` give the reason for each.
