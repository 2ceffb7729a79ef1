---------------------------- MODULE ZenzFeedback ----------------------------
(***************************************************************************)
(* What a session (session/session.cc) reports to ZenzFeedbackStore.  A    *)
(* conversion by Zenz is shown over Mozc's own.  Committing it makes an    *)
(* acceptance pending, leaving it for a candidate of Mozc's a rejection;   *)
(* a pending record is written by the next text, and dropped by a key or   *)
(* a command that takes the text back.  The session is seen here from the  *)
(* record: of the converter only what it would commit is kept (modules     *)
(* Session and EngineConverter have the rest), of Zenz only that its       *)
(* answer may come while it is awaited (module ZenzConversion).            *)
(***************************************************************************)
EXTENDS Integers, Sequences, SequencesExt

CONSTANTS
  Values,   \* conversions of the reading, by Mozc or by Zenz
  Private,  \* those the privacy filter keeps out of the records
  NoValue,
  MaxUndo   \* kMultipleUndoMaxSize

ASSUME FeedbackAssumption ==
  /\ NoValue \notin Values /\ Private \subseteq Values /\ MaxUndo \in Nat \ {0}
  /\ Values \cap {"head", "rest", "reading", "mark", "space"} = {}

VARIABLES
  state,      \* of the ImeContext
  mozc,       \* what Mozc's converter would commit
  whole,      \* is the composer's reading the one Zenz was given
  undo,       \* undo_contexts_
  learning,   \* UseZenzFeedbackLearning(config)
  waiting,    \* pending_zenz_conversion_.pending
  zenz,       \* zenz_conversion_value_
  selected,   \* zenz_conversion_selected_
  suggestion, \* zenz_suggestion_visible_value_
  picked,     \* zenz_suggestion_selected_
  pending,    \* pending_zenz_feedback_
  written,    \* the record the last command wrote
  result,     \* the texts the last command committed
  kept,       \* history: Zenz's values committed since the last text, not taken back
  since       \* history: the texts committed since Zenz's value was left

context == <<state, mozc, whole, undo>>
overlay == <<zenz, selected>>
suggest == <<suggestion, picked>>
vars == <<context, learning, waiting, overlay, suggest, pending, written,
          result, kept, since>>

NoFeedback == [action |-> "none"]
Texts == Values \cup {"head", "rest", "reading", "mark", "space"}

Init ==
  /\ state = "precomposition" /\ mozc = "reading" /\ whole = FALSE /\ undo = <<>>
  /\ learning \in BOOLEAN /\ waiting = FALSE
  /\ zenz = NoValue /\ selected = TRUE
  /\ suggestion = NoValue /\ picked = FALSE
  /\ pending = NoFeedback /\ written = NoFeedback
  /\ result = <<>> /\ kept = {} /\ since = <<>>

-----------------------------------------------------------------------------
\* The pending record.
HasZenzConversionCandidate == zenz # NoValue /\ whole /\ state = "conversion"
HasVisibleZenzConversion == selected /\ HasZenzConversionCandidate

\* EvaluateZenzConversionKeyPrivacy and EvaluateZenzConversionValuePrivacy.  A
\* refusal leaves an older pending record where it is.
MayRecord(v) == learning /\ v \notin Private

SetPendingZenzFeedbackAccepted(p, v) ==
  IF MayRecord(v) THEN [action |-> "accepted", value |-> v] ELSE p

\* None of the reasons a session gives is one of a hard rejection.
SetPendingZenzFeedbackRejected(p) ==
  IF MayRecord(zenz) /\ HasVisibleZenzConversion
  THEN [action |-> "rejected", value |-> zenz, final |-> NoValue] ELSE p

\* ObservePendingZenzFeedbackCommittedResult, when Output sends text to the
\* client and the session has come to state `to`.
Observe(p, to, text) ==
  IF p.action = "rejected" /\ to = "precomposition"
  THEN [p EXCEPT !.final = text] ELSE p

\* Mutant: the value that was committed in the end is not looked at.
Confirm_AnyFinal(p) ==
  IF ~learning \/ p.action = "none" THEN NoFeedback
  ELSE [action |-> p.action, value |-> p.value]

\* ConfirmPendingZenzFeedback: the record it writes.
Confirm(p) ==
  IF \/ ~learning \/ p.action = "none"
     \/ p.action = "rejected" /\ p.final \in {NoValue, p.value}
  THEN NoFeedback ELSE [action |-> p.action, value |-> p.value]

DiscardPendingZenzFeedback == pending' = NoFeedback /\ written' = NoFeedback
Holds(p) == pending' = p /\ written' = NoFeedback
Writes(p) == pending' = NoFeedback /\ written' = Confirm(p)

-----------------------------------------------------------------------------
\* Parts of the commands.
ClearZenzConversionState == zenz' = NoValue /\ selected' = TRUE /\ waiting' = FALSE
NoSuggestion == suggestion' = NoValue /\ picked' = FALSE
Goes(to) == state' = to /\ mozc' = "reading" /\ whole' = FALSE

PushUndoContext ==
  LET pushed == Append(undo, [state |-> state, mozc |-> mozc, whole |-> whole]) IN
    IF Len(pushed) > MaxUndo THEN Tail(pushed) ELSE pushed

\* The pending record when a key that is neither text, Enter nor a move
\* between candidates leaves Zenz's conversion (SendKeyConversionState).
Left(p) == SetPendingZenzFeedbackRejected(p)
LeaveOverlay ==
  /\ waiting' = FALSE
  /\ IF HasVisibleZenzConversion THEN zenz' = NoValue /\ selected' = TRUE
     ELSE UNCHANGED overlay

-----------------------------------------------------------------------------
\* Text.

\* What InsertCharacter writes first: HandlePendingZenzFeedbackForKeyEvent, or
\* the confirmation after it has committed Mozc's conversion.
BeforeInsert == IF state = "conversion" THEN Observe(pending, "precomposition", mozc)
                ELSE pending
CommittedBeforeInsert == IF state = "conversion" THEN <<mozc>> ELSE <<>>

\* InsertCharacter of a letter.
InsertCharacter ==
  /\ state # "direct"
  /\ Writes(BeforeInsert)
  /\ result' = CommittedBeforeInsert
  /\ Goes("composition") /\ undo' = <<>>
  /\ ClearZenzConversionState /\ NoSuggestion
  /\ kept' = {}
  /\ UNCHANGED learning

\* InsertCharacter of a space that is not converted (DIRECT_INPUT).
InsertSpace ==
  /\ state # "direct"
  /\ Writes(BeforeInsert)
  /\ IF state = "composition" THEN result' = <<>> /\ Goes("composition")
     ELSE result' = Append(CommittedBeforeInsert, "space") /\ Goes("precomposition")
  /\ undo' = <<>> /\ kept' = {}
  /\ ClearZenzConversionState /\ NoSuggestion
  /\ UNCHANGED learning

\* InsertCharacter of a mark that commits (CanDirectCommitAfterPunctuation).
\* Over Zenz's conversion Mozc's is committed first, as before any character,
\* and CommitStringDirectly appends Zenz's to it.
InsertPunctuation ==
  /\ state # "direct"
  /\ Goes("precomposition") /\ undo' = <<>>
  /\ IF HasVisibleZenzConversion
     THEN /\ written' = Confirm(BeforeInsert)
          /\ pending' = SetPendingZenzFeedbackAccepted(NoFeedback, zenz)
          /\ result' = <<mozc, zenz, "mark">>
          /\ kept' = {zenz}
     ELSE /\ Writes(BeforeInsert)
          /\ result' = Append(CommittedBeforeInsert, "mark")
          /\ kept' = {}
  /\ ClearZenzConversionState /\ NoSuggestion
  /\ UNCHANGED learning

\* MaybeSelectCandidate: in a conversion a letter may be the shortcut of a
\* candidate, and so may Space, an arrow or a click (MoveZenzConversionCandidate,
\* SelectCandidateInternal, which also opens Mozc's suggestions).
MoveToMozcCandidate(v) ==
  /\ state # "direct"
  /\ Holds(SetPendingZenzFeedbackRejected(pending))
  /\ state' = "conversion" /\ mozc' = IF mozc = "rest" THEN mozc ELSE v
  /\ selected' = FALSE /\ picked' = FALSE
  /\ waiting' \in {FALSE, waiting}   \* a key stops the waiting, a click does not
  /\ result' = <<>>
  /\ UNCHANGED <<whole, undo, learning, zenz, suggestion, kept>>

MoveToZenzCandidate ==
  /\ HasZenzConversionCandidate
  /\ Holds(pending)
  /\ selected' = TRUE /\ waiting' \in {FALSE, waiting}
  /\ result' = <<>>
  /\ UNCHANGED <<context, learning, zenz, suggest, kept>>

\* Any other command of a conversion: a segment is moved to, resized, written
\* in other letters.
EditSegment(v) ==
  /\ state = "conversion"
  /\ Holds(Left(pending)) /\ LeaveOverlay
  /\ mozc' = IF mozc = "rest" THEN mozc ELSE v
  /\ result' = <<>>
  /\ UNCHANGED <<state, whole, undo, learning, suggest, kept>>

-----------------------------------------------------------------------------
\* Zenz.

\* ConvertInternal: what was accepted before is shown at once
\* (MaybeApplyZenzFeedbackConversion), or Zenz may be asked.
Convert(m) ==
  /\ state = "composition"
  /\ state' = "conversion" /\ mozc' = m /\ whole' = TRUE
  /\ \/ /\ learning
        /\ zenz' \in Values \ {m} /\ selected' = TRUE /\ waiting' = FALSE
     \/ waiting' \in BOOLEAN /\ UNCHANGED overlay
  /\ Holds(pending) /\ NoSuggestion /\ result' = <<>>
  /\ UNCHANGED <<undo, learning, kept>>

\* PollZenzConversion and ApplyZenzConversionResult: an answer is shown, or
\* the waiting is over.
ApplyZenzConversionResult ==
  /\ waiting /\ waiting' = FALSE
  /\ \/ state = "conversion" /\ whole /\ zenz' \in Values /\ selected' = TRUE
     \/ UNCHANGED overlay
  /\ Holds(pending) /\ result' = <<>>
  /\ UNCHANGED <<context, learning, suggest, kept>>

\* PollZenzSuggestion shows one more suggestion.
ShowSuggestion(v) ==
  /\ state = "composition"
  /\ suggestion' = v /\ picked' = FALSE
  /\ Holds(pending) /\ result' = <<>>
  /\ UNCHANGED <<context, learning, waiting, overlay, kept>>

PickSuggestion ==
  /\ state = "composition" /\ suggestion # NoValue
  /\ picked' = TRUE
  /\ Holds(pending) /\ result' = <<>>
  /\ UNCHANGED <<context, learning, waiting, overlay, suggestion, kept>>

-----------------------------------------------------------------------------
\* Commits.

\* CommitZenzConversionResult, by Enter or by a click (CommitCandidate).
CommitZenzConversionResult ==
  /\ HasZenzConversionCandidate
  /\ Holds(SetPendingZenzFeedbackAccepted(pending, zenz))
  /\ result' = <<zenz>> /\ kept' = kept \cup {zenz}
  /\ Goes("precomposition") /\ ClearZenzConversionState /\ NoSuggestion
  /\ UNCHANGED <<undo, learning>>

CommitZenzSuggestion ==
  /\ state = "composition" /\ suggestion # NoValue
  /\ Holds(SetPendingZenzFeedbackAccepted(pending, suggestion))
  /\ result' = <<suggestion>> /\ kept' = kept \cup {suggestion}
  /\ undo' = PushUndoContext
  /\ Goes("precomposition") /\ NoSuggestion
  /\ UNCHANGED <<learning, waiting, overlay>>

\* CommitInternal.
Commit ==
  /\ state \in {"composition", "conversion"} /\ ~picked /\ ~HasVisibleZenzConversion
  /\ Holds(Observe(pending, "precomposition", mozc))
  /\ result' = <<mozc>> /\ undo' = PushUndoContext
  /\ Goes("precomposition") /\ ClearZenzConversionState /\ NoSuggestion
  /\ UNCHANGED <<learning, kept>>

\* The part of CommitSegment and CommitCandidate that commits the first
\* segments, or all of the text, once the pending record has become p.
CommitSegments(p, text) ==
  /\ undo' = PushUndoContext
  /\ \/ /\ Holds(Observe(p, "precomposition", text)) /\ result' = <<text>>
        /\ Goes("precomposition")
     \/ /\ text # "rest" /\ state # "precomposition"
        /\ Holds(Observe(p, state, "head")) /\ result' = <<"head">>
        /\ mozc' = "rest" /\ whole' = FALSE /\ UNCHANGED state
  /\ UNCHANGED <<learning, kept>>

CommitSegment ==
  /\ state = "conversion"
  /\ CommitSegments(Left(pending), mozc)
  /\ LeaveOverlay /\ UNCHANGED suggest

\* CommitCandidate of one of Mozc's candidates, or of its suggestions, which
\* there may be after a commit too.
CommitCandidate(v) ==
  /\ state # "direct"
  /\ CommitSegments(SetPendingZenzFeedbackRejected(pending),
                    IF mozc = "rest" THEN mozc ELSE v)
  /\ selected' = FALSE
  /\ UNCHANGED <<waiting, zenz, suggest>>

-----------------------------------------------------------------------------
\* Taking back.

\* Mutant: a key the application handles leaves the record.
EchoBack_KeepsFeedback(key) ==
  /\ state = "precomposition"
  /\ Holds(pending)
  /\ undo' = <<>> /\ result' = <<>>
  /\ kept' = IF key \in {"Backspace", "Escape"} THEN {} ELSE kept
  /\ ClearZenzConversionState
  /\ UNCHANGED <<state, mozc, whole, learning, suggest>>

\* EchoBackAndClearUndoContext: a key the application handles.
EchoBack(key) ==
  /\ state = "precomposition"
  /\ IF key \in {"Backspace", "Escape"} THEN DiscardPendingZenzFeedback
     ELSE Holds(pending)
  /\ undo' = <<>> /\ result' = <<>>
  /\ kept' = IF key \in {"Backspace", "Escape"} THEN {} ELSE kept
  /\ ClearZenzConversionState
  /\ UNCHANGED <<state, mozc, whole, learning, suggest>>

\* Backspace and Delete of a composition.
Backspace ==
  /\ state = "composition"
  /\ DiscardPendingZenzFeedback
  /\ \E to \in {"composition", "precomposition"} : Goes(to)
  /\ undo' = <<>> /\ result' = <<>> /\ kept' = {}
  /\ ClearZenzConversionState /\ NoSuggestion
  /\ UNCHANGED learning

ConvertCancel ==
  /\ state = "conversion"
  /\ DiscardPendingZenzFeedback
  /\ Goes("composition") /\ result' = <<>> /\ kept' = {}
  /\ ClearZenzConversionState /\ NoSuggestion
  /\ UNCHANGED <<undo, learning>>

\* EditCancel of a reconversion also puts the text it began with back into the
\* document; that is no new text, and no record is pending then.
Cancel(how) ==
  /\ state # "direct"
  /\ DiscardPendingZenzFeedback
  /\ Goes(IF how = "EditCancelAndIMEOff" THEN "direct" ELSE "precomposition")
  /\ undo' = IF how = "EditCancel" THEN undo ELSE <<>>
  /\ result' = <<>> /\ kept' = {}
  /\ ClearZenzConversionState /\ NoSuggestion
  /\ UNCHANGED learning

\* Undo, which the client sends by itself or at the request of a key
\* (RequestUndo), for which Zenz's conversion is left first.
Undo ==
  /\ state # "direct"
  /\ DiscardPendingZenzFeedback
  /\ IF undo = <<>> THEN UNCHANGED context
     ELSE /\ state' = Last(undo).state /\ mozc' = Last(undo).mozc
          /\ whole' = Last(undo).whole /\ undo' = Front(undo)
  /\ result' = <<>> /\ kept' = {}
  /\ LeaveOverlay \/ UNCHANGED <<waiting, overlay>>
  /\ UNCHANGED <<learning, suggest>>

-----------------------------------------------------------------------------
\* Turning off, and the rest.

\* Mozc's commit that turning off makes, once the pending record has become p.
TurnOff(p) ==
  /\ Goes("direct") /\ undo' = <<>> /\ kept' = {}
  /\ ClearZenzConversionState /\ NoSuggestion
  /\ UNCHANGED learning
  /\ CASE state = "composition" /\ picked ->
            /\ Writes(SetPendingZenzFeedbackAccepted(p, suggestion))
            /\ result' = <<suggestion>>
       [] state \in {"composition", "conversion"} /\ ~picked ->
            /\ Writes(Observe(p, "precomposition", mozc)) /\ result' = <<mozc>>
       [] OTHER -> Writes(p) /\ result' = <<>>

\* IMEOff, by a key, for which Zenz's conversion is left first.
IMEOff == state # "direct" /\ TurnOff(IF state = "conversion" THEN Left(pending) ELSE pending)

\* MakeSureIMEOff, by a command of the client.
MakeSureIMEOff ==
  /\ state # "direct"
  /\ IF HasVisibleZenzConversion
     THEN /\ Goes("direct") /\ undo' = <<>> /\ kept' = {}
          /\ Writes(SetPendingZenzFeedbackAccepted(pending, zenz))
          /\ result' = <<zenz>>
          /\ ClearZenzConversionState /\ NoSuggestion /\ UNCHANGED learning
     ELSE TurnOff(pending)

IMEOn ==
  /\ state = "direct" /\ state' = "precomposition"
  /\ undo' = <<>> /\ Holds(pending) /\ result' = <<>>
  /\ UNCHANGED <<mozc, whole, learning, waiting, overlay, suggest, kept>>

\* ConvertReverse: text of the document is converted again.
ConvertReverse(v) ==
  /\ state \in {"direct", "precomposition"}
  /\ state' = "conversion" /\ mozc' = v /\ whole' \in BOOLEAN /\ undo' = <<>>
  /\ Holds(pending) /\ result' = <<>>
  /\ UNCHANGED <<learning, waiting, overlay, suggest, kept>>

\* SetConfig turns the learning on or off.
SetConfig ==
  /\ learning' \in BOOLEAN /\ undo' = <<>>
  /\ Holds(pending) /\ result' = <<>>
  /\ UNCHANGED <<state, mozc, whole, waiting, overlay, suggest, kept>>

-----------------------------------------------------------------------------
Command ==
  \/ InsertCharacter \/ InsertSpace \/ InsertPunctuation
  \/ \E v \in Values :
       \/ MoveToMozcCandidate(v) \/ EditSegment(v) \/ Convert(v)
       \/ ShowSuggestion(v) \/ CommitCandidate(v) \/ ConvertReverse(v)
  \/ MoveToZenzCandidate \/ ApplyZenzConversionResult \/ PickSuggestion
  \/ CommitZenzConversionResult \/ CommitZenzSuggestion
  \/ Commit \/ CommitSegment
  \/ \E key \in {"Backspace", "Escape", "Left"} : EchoBack(key)
  \/ Backspace \/ ConvertCancel \/ Undo
  \/ \E how \in {"EditCancel", "EditCancelAndIMEOff", "Revert", "ResetContext"} : Cancel(how)
  \/ IMEOff \/ MakeSureIMEOff \/ IMEOn \/ SetConfig

\* The history of a rejection: two texts are as good as more.
Next ==
  /\ Command
  /\ LET left == /\ MayRecord(zenz) /\ HasVisibleZenzConversion /\ ~HasVisibleZenzConversion'
                 /\ zenz \notin Range(result')
         all == (IF left THEN <<>> ELSE since) \o result' IN
       since' = IF Len(all) > 2 THEN SubSeq(all, 1, 2) ELSE all

Spec == Init /\ [][Next]_vars

-----------------------------------------------------------------------------
TypeOK ==
  /\ state \in {"direct", "precomposition", "composition", "conversion"}
  /\ mozc \in Texts /\ whole \in BOOLEAN
  /\ undo \in Seq([state : {"precomposition", "composition", "conversion"}, mozc : Texts, whole : BOOLEAN])
  /\ learning \in BOOLEAN /\ waiting \in BOOLEAN
  /\ {zenz, suggestion} \subseteq Values \cup {NoValue} /\ kept \subseteq Values
  /\ selected \in BOOLEAN /\ picked \in BOOLEAN
  /\ pending \in {NoFeedback} \cup [action : {"accepted"}, value : Values] \cup
       [action : {"rejected"}, value : Values, final : Texts \cup {NoValue}]
  /\ written \in {NoFeedback} \cup [action : {"accepted", "rejected"}, value : Values]
  /\ result \in Seq(Texts) /\ since \in Seq(Texts)

\* An acceptance is written only for a value of Zenz's that was committed and
\* that no Backspace, Escape, cancel, revert or undo has taken back before
\* the next text (the dialog's description of the learning).
AcceptedWasKept ==
  [][written'.action = "accepted" =>
       written'.value \in kept \/ written'.value \in Range(result')]_vars

\* A rejection is written only for a value of Zenz's that was shown and left,
\* once text was committed after it, and not when that text is the same
\* value, chosen from Mozc's candidates.
RejectedWasReplaced ==
  [][written'.action = "rejected" =>
       since' # <<>> /\ since' # <<written'.value>>]_vars

\* Punctuation that commits the visible Zenz conversion commits that value and
\* the mark, as the comment in SendKeyConversionState says.
PunctuationCommitsZenzValue ==
  [][InsertPunctuation /\ HasVisibleZenzConversion =>
       result' = <<zenz, "mark">>]_vars
=============================================================================
