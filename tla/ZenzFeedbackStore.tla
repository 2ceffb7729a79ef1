-------------------------- MODULE ZenzFeedbackStore --------------------------
(***************************************************************************)
(* ZenzFeedbackStore (session/zenz_feedback_store.cc): what users accepted *)
(* and rejected of Zenz's corrections, in one file that two processes use  *)
(* without a lock.  The server appends records and looks corrections up;   *)
(* the configuration dialog lists, blocks, deletes, imports and clears.    *)
(* Each process caches the records under the stamp the file had before it  *)
(* was read.  The order of the records does not matter to any look-up, so  *)
(* that the file is a bag of them; a file without records is like one that *)
(* is not there.  A look-up or a rewrite takes several steps, between      *)
(* which the other process may write.                                      *)
(***************************************************************************)
EXTENDS Integers, Bags, FiniteSets, FiniteSetsExt

CONSTANTS
  Keys, Values,
  Classes,      \* context classes in use
  Reasons,      \* reasons of rejections in use
  Thresholds,   \* of the auto-block policy; 0 is a policy that is off
  InitialFiles, \* what the file may hold at first
  MaxRecords,   \* an append to a file of this size fails
  MaxWrites     \* bound on the writes of a behaviour

SharedClasses == {"empty", "japanese_only", "japanese_with_punctuation",
                  "mixed_japanese_ascii", "symbol_or_other", "legacy"}
KnownClasses == SharedClasses \cup {"ascii_or_digit", "sensitive_like"}
HardReasons == {"hard_reject", "user_hard_reject", "manual_hard_reject",
                "explicit_hard_reject"}

\* IsSafeFeedbackRecord lets nothing else into the file.
Record ==
  [action : {"accepted"}, key : Keys, context_class : Classes,
   value : Values, reason : {""}] \cup
  [action : {"rejected"}, key : Keys, context_class : Classes,
   value : Values, reason : Reasons]

ASSUME FeedbackAssumption ==
  /\ Classes \subseteq KnownClasses
  /\ \A f \in InitialFiles : IsABag(f) /\ BagToSet(f) \subseteq Record
  /\ Thresholds \subseteq Nat /\ MaxRecords \in Nat /\ MaxWrites \in Nat

VARIABLES
  file,     \* the records on disk
  writes,   \* the time of the last write
  cache,    \* g_feedback_records_cache of each process
  pc,       \* what each process is doing with the store
  stamp,    \* the stamp LoadFeedbackRecords has taken, of each process
  op,       \* the operation of the dialog that is under way
  records,  \* the records that operation has loaded
  before    \* history: the file when it began

vars == <<file, writes, cache, pc, stamp, op, records, before>>

Process == {"server", "dialog"}
NoCache == [valid |-> FALSE, stamp |-> 0, records |-> EmptyBag]
NoOp == [name |-> "none"]

-----------------------------------------------------------------------------
\* Weights and counts.
kAcceptThreshold == 1
kAcceptedFeedbackWeight == 1000

RejectWeightForReason(reason) ==
  CASE reason \in HardReasons -> 2000
    [] reason = "space_revert_zenz_to_mozc" -> 150
    [] reason = "predict_after_zenz" -> 200
    [] OTHER -> 400

\* LoadCounts and MergeCounts: the counts of the chosen records.
Counts(f, chosen) ==
  LET Number(S) == MapThenSumSet(LAMBDA r : CopiesIn(r, f), S)
      rejected == {r \in chosen : r.action = "rejected"}
      hard == {r \in rejected : r.reason \in HardReasons}
      accepted == Number(chosen \ rejected) IN
    [accepted |-> accepted,
     auto_block_rejected |-> Number(rejected \ hard),
     total_score |-> kAcceptedFeedbackWeight * accepted
       - MapThenSumSet(LAMBDA r : CopiesIn(r, f) * RejectWeightForReason(r.reason),
                       rejected),
     hard_rejected |-> hard # {}]

\* IsPromotionCompatibleContextClass, IsDecisionCompatibleContextClass: the
\* two have the same body.
IsCompatible(requested, recorded) ==
  \/ requested = recorded
  \/ /\ "sensitive_like" \notin {requested, recorded}
     /\ {requested, recorded} \subseteq SharedClasses

Exact(f, k, c, v) ==
  Counts(f, {r \in BagToSet(f) : r.key = k /\ r.value = v /\ r.context_class = c})
Aggregated(f, k, c, v) ==
  Counts(f, {r \in BagToSet(f) :
               r.key = k /\ r.value = v /\ IsCompatible(c, r.context_class)})

IsRejectCountDominant(n) == n.auto_block_rejected > n.accepted
IsAutoBlockedByPolicy(n, threshold) ==
  threshold > 0 /\ n.auto_block_rejected >= threshold

BuildDecisionFromCounts(n) ==
  IF n.hard_rejected THEN "reject"
  ELSE IF n.accepted >= kAcceptThreshold /\ n.total_score > 0 THEN "prefer"
  ELSE "neutral"

\* Decide, with ApplyRejectDominanceDecision and ApplyAutoBlockDecision.
Decide(f, k, c, v, threshold) ==
  LET decision == BuildDecisionFromCounts(Aggregated(f, k, c, v))
      exact == Exact(f, k, c, v)
      dominated == IF decision = "prefer" /\ IsRejectCountDominant(exact)
                   THEN "neutral" ELSE decision IN
    IF Aggregated(f, k, c, v).hard_rejected THEN dominated
    ELSE IF IsAutoBlockedByPolicy(exact, threshold) THEN "reject" ELSE dominated

\* GetRankedCandidates, without the order.
GetRankedCandidates(f, k, c, threshold) ==
  {v \in {r.value : r \in BagToSet(f)} :
     LET n == Aggregated(f, k, c, v)
         exact == Exact(f, k, c, v) IN
       ~ \/ n.hard_rejected
         \/ IsAutoBlockedByPolicy(exact, threshold)
         \/ IsRejectCountDominant(exact)
         \/ n.accepted < kAcceptThreshold
         \/ n.total_score <= 0}

-----------------------------------------------------------------------------
\* Mutant: the stamp is the size of the file.
Stamp_SizeOnly == BagCardinality(file)

\* GetFeedbackFileStamp: the clock moves between two writes, so that every
\* write gives the file another time.
Stamp == IF file = EmptyBag THEN 0 ELSE writes

Init ==
  /\ file \in InitialFiles
  /\ writes = 1
  /\ cache = [p \in Process |-> NoCache]
  /\ pc = [p \in Process |-> "idle"]
  /\ stamp = [p \in Process |-> 0]
  /\ op = NoOp /\ records = EmptyBag /\ before = EmptyBag

Written(f) ==
  /\ writes < MaxWrites
  /\ file' = f /\ writes' = writes + 1

\* AppendRecord, by the server or by the dialog's button that blocks an entry.
Append(p, r) ==
  /\ pc[p] = "idle"
  /\ r.reason \in HardReasons <=> p = "dialog"
  /\ BagCardinality(file) < MaxRecords
  /\ Written(file (+) SetToBag({r}))
  /\ cache' = [cache EXCEPT ![p] = NoCache]
  /\ UNCHANGED <<pc, stamp, op, records, before>>

\* LoadFeedbackRecords takes the stamp first ...
BeginLoad(p) ==
  /\ pc[p] = "idle"
  /\ pc' = [pc EXCEPT ![p] = "loading"]
  /\ stamp' = [stamp EXCEPT ![p] = Stamp]
  /\ UNCHANGED <<file, writes, cache>>

\* Decide, GetRankedCandidates, ListEntries and ExportToFile only look up.
LookUp(p) ==
  /\ BeginLoad(p)
  /\ UNCHANGED <<op, records, before>>

\* DeleteEntry, and ImportFromFile in append mode, rewrite what they load.
Rewrite(o) ==
  /\ BeginLoad("dialog")
  /\ op' = o /\ before' = file
  /\ UNCHANGED records

\* ... and then returns the cached records or reads the file's.
Cached(p) == cache[p].valid /\ cache[p].stamp = stamp[p]

Loaded(p, f, outcome) ==
  IF p = "dialog" /\ op # NoOp
  THEN pc' = [pc EXCEPT ![p] = outcome] /\ records' = f
  ELSE pc' = [pc EXCEPT ![p] = "idle"] /\ UNCHANGED records

\* A file that was not there when the stamp was taken is not looked for.
EndLoad(p) ==
  /\ pc[p] = "loading"
  /\ IF Cached(p) THEN Loaded(p, cache[p].records, "loaded") /\ UNCHANGED cache
     ELSE LET f == IF stamp[p] = 0 THEN EmptyBag ELSE file IN
            /\ Loaded(p, f, "loaded")
            /\ cache' = [cache EXCEPT ![p] = [valid |-> TRUE, stamp |-> stamp[p],
                                              records |-> f]]
  /\ UNCHANGED <<file, writes, stamp, op, before>>

\* The file cannot be opened: no record is returned and none cached, and the
\* operation goes on ("blind").
LoadFails(p) ==
  /\ pc[p] = "loading" /\ ~Cached(p) /\ stamp[p] # 0
  /\ Loaded(p, EmptyBag, "blind")
  /\ UNCHANGED <<file, writes, cache, stamp, op, before>>

-----------------------------------------------------------------------------
\* Mutant: every context's records of the pair are deleted.
IsEntry_AnyContext(r, o) == r.key = o.key /\ r.value = o.value

IsEntry(r, o) ==
  r.key = o.key /\ r.value = o.value /\ r.context_class = o.context_class

\* The records that go back to the file.
Edited ==
  IF op.name = "delete"
  THEN LET kept == {r \in BagToSet(records) : ~IsEntry(r, op)}
       IN  [r \in kept |-> records[r]]
  ELSE records (+) op.imported

Finish ==
  /\ pc' = [pc EXCEPT !["dialog"] = "idle"]
  /\ op' = NoOp /\ records' = EmptyBag /\ before' = EmptyBag
  /\ UNCHANGED stamp

\* WriteFeedbackRecordsAtomically: the temporary file takes the file's place.
Replace ==
  /\ pc["dialog"] \in {"loaded", "blind"}
  /\ Edited # records
  /\ Written(Edited)
  /\ cache' = [cache EXCEPT !["dialog"] = NoCache]
  /\ Finish

\* There is nothing to delete, or a write or the replacement fails and leaves
\* the file as it was.
KeepFile ==
  /\ pc["dialog"] \in {"loaded", "blind"}
  /\ Finish
  /\ UNCHANGED <<file, writes, cache>>

\* ClearAll, and ImportFromFile in replace mode.
Overwrite(f) ==
  /\ pc["dialog"] = "idle"
  /\ Written(f)
  /\ cache' = [cache EXCEPT !["dialog"] = NoCache]
  /\ UNCHANGED <<pc, stamp, op, records, before>>

DeleteEntry(k, c, v) ==
  Rewrite([name |-> "delete", key |-> k, context_class |-> c, value |-> v])

Import(f) == Rewrite([name |-> "import", imported |-> f])

Next ==
  \/ \E p \in Process : \/ \E r \in Record : Append(p, r)
                        \/ LookUp(p) \/ EndLoad(p) \/ LoadFails(p)
  \/ \E k \in Keys, c \in Classes, v \in Values : DeleteEntry(k, c, v)
  \/ \E f \in InitialFiles \ {EmptyBag} : Import(f)
  \/ \E f \in InitialFiles : Overwrite(f)
  \/ Replace \/ KeepFile

Spec == Init /\ [][Next]_vars
-----------------------------------------------------------------------------
\* What a look-up of process p that begins now works on.
Visible(p) ==
  IF cache[p].valid /\ cache[p].stamp = Stamp THEN cache[p].records ELSE file

\* The dialog's rules for a correction with the state "preferred", in terms
\* of the records of the file: those of the classes that share their feedback
\* with c hold no block and more acceptance than rejection by weight, and in
\* class c itself rejections neither outnumber acceptances nor reach the
\* threshold.  Sensitive contexts share with no other.
Preferred(k, c, v, threshold) ==
  LET pool == IF c \in SharedClasses THEN SharedClasses ELSE {c}
      Number(P(_)) == MapThenSumSet(LAMBDA r : CopiesIn(r, file),
        {r \in BagToSet(file) : r.key = k /\ r.value = v /\ P(r)})
      rejections == Number(LAMBDA r : /\ r.context_class = c
                                      /\ r.action = "rejected"
                                      /\ r.reason \notin HardReasons)
      acceptances == Number(LAMBDA r : /\ r.context_class = c
                                       /\ r.action = "accepted")
      Weighed(w) == Number(LAMBDA r : /\ r.context_class \in pool
                                      /\ r.action = "rejected"
                                      /\ RejectWeightForReason(r.reason) = w) IN
    /\ Weighed(2000) = 0
    /\ 20 * Number(LAMBDA r : r.context_class \in pool /\ r.action = "accepted")
         > 3 * Weighed(150) + 4 * Weighed(200) + 8 * Weighed(400)
    /\ rejections <= acceptances
    /\ threshold = 0 \/ rejections < threshold

\* Both look-ups, through either process's cache, follow the file's records:
\* the fast path offers exactly what Decide prefers ("sensitive_like ->
\* normal context is still forbidden" included), whatever the other process
\* wrote since the cache was filled.
LookupsAgree ==
  \A p \in Process, k \in Keys, c \in Classes, t \in Thresholds :
    LET preferred == {v \in Values : Preferred(k, c, v, t)} IN
      /\ GetRankedCandidates(Visible(p), k, c, t) = preferred
      /\ {v \in Values : Decide(Visible(p), k, c, v, t) = "prefer"} = preferred

\* No record that was in the file when the rewrite began is lost by it, except
\* those of the entry it deletes.
KeepsRecords ==
  \A r \in BagToSet(before) :
    (op.name = "delete" /\ r.key = op.key /\ r.value = op.value
       /\ r.context_class = op.context_class)
      \/ CopiesIn(r, file') >= CopiesIn(r, before)

\* A rewrite by the dialog never puts an old copy of the file back: whatever
\* the caches hold, it keeps what was there when it began.  The one exception
\* is an append import that could not open the file, which replaces it; what
\* the server appends while a rewrite goes on may be lost too.
RewriteKeepsRecords ==
  [][Replace => KeepsRecords
       \/ (op.name = "import" /\ pc["dialog"] = "blind")]_vars

\* Importing in append mode keeps what the file held: the dialog's choice is
\* called "add to existing data", and a test ImportAppendKeepsExistingRecords.
ImportAppendKeepsRecords ==
  [][Replace /\ op.name = "import" => KeepsRecords]_vars
=============================================================================
