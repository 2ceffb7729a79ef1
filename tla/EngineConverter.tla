--------------------------- MODULE EngineConverter ---------------------------
(***************************************************************************)
(* The converter of one session (engine_converter.cc) as operators on its  *)
(* state: what each method does to it, for every answer of the conversion  *)
(* engine.  Texts are lengths: a segment is the length of its key, the     *)
(* result that of its value.  The candidate list, its focus and its        *)
(* visibility are left out; so are history segments, and the client's      *)
(* preceding text and revision from which they are made anew.  The build   *)
(* has its assertions on: one that fails ends the server.                  *)
(***************************************************************************)
EXTENDS Integers, Sequences, SequencesExt, Sums

-----------------------------------------------------------------------------
States == {"COMPOSITION", "SUGGESTION", "PREDICTION", "CONVERSION"}
Active == States \ {"COMPOSITION"}
Focused == {"PREDICTION", "CONVERSION"}   \* a candidate has the focus

\* The ways to cut a key of n characters into segments.
Splits(n) ==
  {s \in UNION {[1 .. k -> 1 .. n] : k \in 0 .. n} : Total(s) = n}

NewConverter ==
  [state |-> "COMPOSITION", segments |-> <<>>, segment_index |-> 0,
   selected |-> 0,         \* size of selected_candidate_indices_
   previous |-> <<>>,      \* previous_suggestions_, empty or one segment
   candidates |-> TRUE,    \* the segments have candidates
   result |-> 0,           \* length of the result not yet taken, 0: none
   checked |-> TRUE]       \* every DCHECK and CHECK has held

\* DCHECK(CheckState(...)) fails: the method goes no further.
Aborted(c) == [c EXCEPT !.checked = FALSE]

ResetResult(c) == [c EXCEPT !.result = 0]

\* PopOutput hands the result out.  It lists the candidates: the ids of the
\* list shown must be candidates of the segment.
PopOutput(c) ==
  IF c.state = "SUGGESTION" /\ ~c.candidates THEN Aborted(c) ELSE ResetResult(c)

\* Segments that are left in COMPOSITION are not looked at and count as none.
ResetState(c) ==
  [NewConverter EXCEPT !.result = c.result, !.checked = c.checked]

\* Enters a state with new segments: InitializeSelectedCandidateIndices gives
\* each its index.
Entered(c, state, segments) ==
  [c EXCEPT !.state = state, !.segments = segments, !.segment_index = 0,
            !.selected = Len(segments), !.candidates = TRUE]

Cancel(c) ==
  IF c.state \notin Active THEN Aborted(c)
  ELSE ResetState(ResetResult(c))

Reset(c) ==
  IF c.state = "COMPOSITION" THEN ResetResult(c) ELSE ResetState(ResetResult(c))

-----------------------------------------------------------------------------
(***************************************************************************)
(* Methods that ask the engine: the set of their outcomes, each the state  *)
(* and whether they return true.                                           *)
(***************************************************************************)
Yes(c) == [conv |-> c, ok |-> TRUE]
No(c) == [conv |-> c, ok |-> FALSE]

Convert(c, key) ==
  IF c.state = "PREDICTION" THEN {No(Aborted(c))}
  ELSE {No(ResetState(c))}
         \cup {Yes(Entered(c, "CONVERSION", s)) : s \in Splits(key) \ {<<>>}}

\* Suggestions replace the former ones, also when there are none.
Suggest(c, key) ==
  LET d == ResetState(c)
  IN  IF c.state \in Focused THEN {No(Aborted(c))}
      ELSE {No(d),
            Yes([Entered(d, "SUGGESTION", <<key>>) EXCEPT !.previous = <<key>>])}

\* The suggestions shown serve as they are; without any, the first prediction
\* can fail.
Predict(c, key) ==
  LET d == ResetResult(c)
  IN  IF c.previous # <<>> THEN {Yes(Entered(d, "PREDICTION", c.previous))}
      ELSE {Yes(Entered(d, "PREDICTION", <<key>>)),
            No(ResetState(d))}

\* ResizeSegment: the focused segment gets the width, what follows is cut
\* anew.  The set of new segments, empty if the width is not possible.
Resized(c, width) ==
  LET i == c.segment_index
      rest == Total(SubSeq(c.segments, i + 1, Len(c.segments))) - width
  IN  IF width <= 0 \/ rest < 0 THEN {}
      ELSE {Append(SubSeq(c.segments, 1, i), width) \o s : s \in Splits(rest)}

ResizeSegmentWidth(c, delta) ==
  LET d == ResetResult(c)
  IN  IF c.state \notin Focused THEN {Aborted(c)}
      ELSE IF c.state = "PREDICTION" THEN {c}
      ELSE {d} \cup {[d EXCEPT !.segments = s, !.selected = Len(s)] :
                       s \in Resized(d, d.segments[d.segment_index + 1] + delta)}

\* ConvertToTransliteration, ConvertToHalfWidth and SwitchKanaType: one
\* segment, if the engine agrees.  SwitchKanaType keeps the indices.
ConvertToTransliteration(c, key) ==
  LET d == IF c.state = "PREDICTION" THEN Cancel(c) ELSE c
      Joined(e) == {e, [e EXCEPT !.segments = <<key>>],
                    [e EXCEPT !.segments = <<key>>, !.selected = 1]}
  IN  IF d.state = "CONVERSION" THEN {Yes(d)}
      ELSE UNION {IF r.ok THEN {Yes(e) : e \in Joined(r.conv)} ELSE {r} :
                    r \in Convert(d, key)}

-----------------------------------------------------------------------------
(***************************************************************************)
(* Committing.  A value has one character for each segment, or as many as  *)
(* its key.                                                                *)
(***************************************************************************)
\* CommitSegmentsSize(n): CHECK_LE(n, selected_candidate_indices_.size())
CommitSegmentsSize(c, n) ==
  [c EXCEPT !.checked = @ /\ n <= c.selected,
            !.selected = IF n <= @ THEN @ - n ELSE 0]

Values(segments) ==
  {Len(segments)} \cup ({Total(segments)} \ {0})

\* A candidate that is a command changes a setting instead: Cancel.
Commit(c) ==
  LET d == ResetResult(c)
      e == CommitSegmentsSize(d, IF c.state = "PREDICTION" THEN 1
                                 ELSE Len(c.segments))
  IN  IF c.state \notin Focused THEN {Aborted(c)}
      ELSE {Cancel(d)} \cup {ResetState([e EXCEPT !.result = v]) :
                               v \in Values(c.segments)}

\* Mutant: the focus is not moved with the segments.
CommitSegments_KeepsFocus(c, n) ==
  LET d == ResetResult(c)
      head == SubSeq(c.segments, 1, n)
      e == [CommitSegmentsSize(d, n) EXCEPT !.segments = SubSeq(@, n + 1, Len(@))]
  IN  IF Len(c.segments) <= n \/ c.state \notin Focused
      THEN {[conv |-> x, consumed |-> 0] : x \in Commit(c)}
      ELSE {[conv |-> Cancel(d), consumed |-> 0]}
             \cup {[conv |-> [e EXCEPT !.result = v], consumed |-> Total(head)] :
                     v \in Values(head)}

\* CommitSegmentsInternal, for the first n segments: outcomes with the
\* number of characters of the key consumed, 0 if all were committed.
CommitSegments(c, n) ==
  LET d == ResetResult(c)
      head == SubSeq(c.segments, 1, n)
      e == [CommitSegmentsSize(d, n) EXCEPT
              !.segments = SubSeq(@, n + 1, Len(@)),
              !.segment_index = IF @ > n THEN @ - n ELSE 0]
  IN  IF Len(c.segments) <= n \/ c.state \notin Focused
      THEN {[conv |-> x, consumed |-> 0] : x \in Commit(c)}
      ELSE {[conv |-> Cancel(d), consumed |-> 0]}
             \cup {[conv |-> [e EXCEPT !.result = v], consumed |-> Total(head)] :
                     v \in Values(head)}

CommitPreedit(c, key) ==
  ResetState([CommitSegmentsSize(c, 0) EXCEPT !.result = key])

\* CommitSuggestionInternal: a suggestion for a part of the key (zero query
\* only) leaves a segment for the rest, without candidates.
CommitSuggestion(c, key, zero_query) ==
  LET d == ResetResult(c)
      e == CommitSegmentsSize(d, 1)
  IN  IF c.state # "SUGGESTION" \/ ~c.candidates
      THEN {[conv |-> Aborted(c), ok |-> FALSE, consumed |-> 0]}
      ELSE {[conv |-> ResetState(d), ok |-> FALSE, consumed |-> 0]}
             \cup {[conv |-> ResetState([e EXCEPT !.result = v]), ok |-> TRUE,
                    consumed |-> key] : v \in Values(c.segments)}
             \cup {[conv |-> [e EXCEPT !.segments = <<key - k>>, !.selected = 1,
                                       !.candidates = FALSE, !.result = k],
                    ok |-> TRUE, consumed |-> k] :
                     k \in {k \in 1 .. key - 1 :
                              zero_query /\ k < Total(c.segments)}}

\* The id may be unknown.
CommitSuggestionById(c, key, zero_query) ==
  {[conv |-> c, ok |-> FALSE, consumed |-> 0]}
    \cup CommitSuggestion(c, key, zero_query)

-----------------------------------------------------------------------------
\* CandidateNext, Prev, their pages and the moves by position: only the
\* focus changes.
CandidateMove(c) == IF c.state \in Focused THEN ResetResult(c) ELSE Aborted(c)

\* CandidateNext at the end of predictions that began as suggestions:
\* MaybeExpandPrediction predicts for the composition as it is.
CandidateNext(c, key) ==
  LET d == CandidateMove(c)
  IN  {d} \cup IF c.state = "PREDICTION" /\ c.previous # <<>>
               THEN {Entered(d, "PREDICTION", <<key>>)} ELSE {}

\* CandidateMoveToId: a suggestion becomes a prediction first.
CandidateMoveToId(c, key) ==
  IF c.state = "SUGGESTION" THEN {CandidateMove(r.conv) : r \in Predict(c, key)}
  ELSE {CandidateMove(c)}

\* SegmentFocusRight, Left, Last and LeftEdge, by the index they ask for.
SegmentFocusInternal(c, index) ==
  IF c.state \notin Focused THEN Aborted(c)
  ELSE IF c.state = "PREDICTION" THEN c
  ELSE [ResetResult(c) EXCEPT !.segment_index = index]

SegmentFocusRight(c) ==
  SegmentFocusInternal(c, IF c.segment_index + 1 >= Len(c.segments) THEN 0
                          ELSE c.segment_index + 1)

SegmentFocusLeft(c) ==
  SegmentFocusInternal(c, IF c.segment_index <= 0 THEN Len(c.segments) - 1
                          ELSE c.segment_index - 1)

SegmentFocusLast(c) == SegmentFocusInternal(c, Len(c.segments) - 1)

SegmentFocusLeftEdge(c) == SegmentFocusInternal(c, 0)
=============================================================================
