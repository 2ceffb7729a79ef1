------------------------------ MODULE Session ------------------------------
(***************************************************************************)
(* One session (session.cc) over its converter: the state of the input     *)
(* method, the composition, and the contexts kept to undo commits.  A step *)
(* is one key or command, handled in one go by the server's thread.  Texts *)
(* are lengths; field types, input modes, mixed conversion and the learn-  *)
(* ing that ZenzConversion and UserHistoryStorage model are left out.  Six *)
(* steps leave session and converter apart (strayed): what holds of them   *)
(* then, and when they are together again, is stated below.                *)
(***************************************************************************)
EXTENDS EngineConverter

CONSTANTS
  kMultipleUndoMaxSize,
  zero_query,           \* request_.zero_query_suggestion()
  MaxLength             \* bound: characters in a composition

ASSUME SessionAssumption ==
  /\ kMultipleUndoMaxSize \in Nat \ {0} /\ MaxLength \in Nat \ {0}
  /\ zero_query \in BOOLEAN

VARIABLES
  context,         \* context_: state, composition, converter, last output
  undo_contexts    \* undo_contexts_, each with what was committed since

vars == <<context, undo_contexts>>

-----------------------------------------------------------------------------
\* composer: length of the composition; source: that of the text it was made
\* of by reverse conversion; output: that of the result in output(), 0: none.
\* strayed remembers, for the properties, that session and converter parted.
NewContext ==
  [state |-> "PRECOMPOSITION", composer |-> 0, source |-> 0,
   conv |-> NewConverter, output |-> 0, strayed |-> FALSE]

Strayed(x) == [x EXCEPT !.strayed = TRUE]

\* Nothing is composed, converted or waiting: nothing is left to disagree on.
AtRest(x) ==
  /\ x.state \in {"DIRECT", "PRECOMPOSITION"} /\ x.composer = 0
  /\ x.conv.state = "COMPOSITION" /\ x.conv.result = 0

SetSessionState(x, state) ==
  IF state \in {"DIRECT", "PRECOMPOSITION"}
  THEN [x EXCEPT !.state = state, !.composer = 0, !.source = 0]
  ELSE [x EXCEPT !.state = state]

\* Mutant: the converter is cancelled in every state.
SetStateToPrecompositionAndCancel_Always(x) ==
  [SetSessionState(x, "PRECOMPOSITION") EXCEPT !.conv = Cancel(@)]

SetStateToPrecompositionAndCancel(x) ==
  LET y == SetSessionState(x, "PRECOMPOSITION")
  IN  IF x.conv.state = "COMPOSITION" THEN y
      ELSE [y EXCEPT !.conv = Cancel(@)]

\* The outcomes of Suggest; a suppressed one does not reach the converter,
\* which goes on with what it showed before.
Suggested(x) ==
  {[context |-> [x EXCEPT !.conv = r.conv], ok |-> r.ok] :
     r \in Suggest(x.conv, x.composer)}
    \cup {[context |-> [x EXCEPT !.strayed = @ \/ x.conv.state # "COMPOSITION"],
           ok |-> FALSE]}

ZeroQuerySuggested(x) ==
  IF zero_query THEN {r.context : r \in Suggested(x)} ELSE {x}

\* The document of the application is known by the characters committed
\* since each undo context was pushed; unsaved: of some, output() has no
\* copy.  A number that no result has is as good as any other.
Unlike == MaxLength + 1

Typed(u, n, unsaved) ==
  IF u = <<>> \/ n = 0 THEN u
  ELSE [u EXCEPT ![Len(u)].since = IF @ # Unlike /\ @ + n \in 0 .. MaxLength THEN @ + n
                                   ELSE Unlike,
                 ![Len(u)].unsaved = @ \/ unsaved]

PushUndoContext(u, x) ==
  LET pushed == Append(u, [context |-> x, since |-> 0, unsaved |-> FALSE])
  IN  IF Len(pushed) > kMultipleUndoMaxSize THEN Tail(pushed) ELSE pushed

\* The command's answer, with the context it leaves.  None comes when an
\* assertion fails: the server ends, and takes no further command.
Reply(x, u) ==
  /\ context.conv.checked
  /\ IF x.conv.checked
     THEN /\ context' = [x EXCEPT !.strayed = @ /\ ~AtRest(x)]
          /\ undo_contexts' = u
     ELSE /\ context' = [context EXCEPT !.conv = Aborted(@), !.strayed = x.strayed]
          /\ UNCHANGED undo_contexts

\* OutputComposition, OutputKey, OutputMode: a result stays.
OutputComposition(x, u) == Reply(x, u)

\* Output: PopOutput hands out the converter's result.
Output(x, u) ==
  Reply([x EXCEPT !.conv = PopOutput(@)], Typed(u, x.conv.result, TRUE))

\* Mutant: only a result is copied, an output without one is not.
OutputAndSave_ResultOnly(x, u) ==
  Reply([x EXCEPT !.conv = PopOutput(@),
                  !.output = IF x.conv.result = 0 THEN @ ELSE x.conv.result],
        Typed(u, x.conv.result, FALSE))

\* Mutant: the result handed out stays in the converter.
OutputAndSave_KeepsResult(x, u) ==
  Reply([x EXCEPT !.output = x.conv.result], Typed(u, x.conv.result, FALSE))

\* "Copy the previous output for Undo."
OutputAndSave(x, u) ==
  Reply([x EXCEPT !.conv = PopOutput(@), !.output = x.conv.result],
        Typed(u, x.conv.result, FALSE))

SuggestAndOutput(x, u) ==
  \E r \in Suggested(x) : IF r.ok THEN Output(r.context, u)
                          ELSE OutputComposition(r.context, u)

\* CommitStringDirectly: past the converter.
CommitStringDirectly(x, u, n) ==
  \E y \in ZeroQuerySuggested(SetSessionState([x EXCEPT !.conv = Reset(@)],
                                              "PRECOMPOSITION")) :
    Output(y, Typed(u, n, TRUE))

\* The contexts after CommitInternal's commit of the whole composition.
Committed(x) ==
  LET convs == IF x.state = "COMPOSITION"
               THEN {CommitPreedit(x.conv, x.composer)} ELSE Commit(x.conv)
  IN  {SetSessionState([x EXCEPT !.conv = c], "PRECOMPOSITION") : c \in convs}

Init == context = NewContext /\ undo_contexts = <<>>

Composing == context.state = "COMPOSITION"
Converting == context.state = "CONVERSION"
ImeIsOn == context.state # "DIRECT"

-----------------------------------------------------------------------------
(***************************************************************************)
(* Turning on and off, echoing, resetting.                                 *)
(***************************************************************************)
\* IMEOn, MakeSureIMEOn.
IMEOn ==
  /\ ~ImeIsOn
  /\ OutputComposition(SetSessionState(context, "PRECOMPOSITION"), <<>>)

\* CompositionModeHiragana and the others, by EnsureIMEIsOn: the undo
\* contexts stay.
CompositionMode ==
  /\ ~ImeIsOn
  /\ OutputComposition(SetSessionState(context, "PRECOMPOSITION"), undo_contexts)

\* IMEOff, MakeSureIMEOff: what is composed is committed, then the converter
\* is reset.
IMEOff ==
  /\ ImeIsOn
  /\ LET Off(x) == SetSessionState([x EXCEPT !.conv = Reset(@)], "DIRECT")
     IN  IF Composing \/ Converting
         THEN \E x \in Committed(context) : \E y \in ZeroQuerySuggested(x) :
                OutputComposition(
                  Off([y EXCEPT !.output = x.conv.result]),
                  Typed(PushUndoContext(<<>>, context), x.conv.result, FALSE))
         ELSE OutputComposition(Off(context), <<>>)

\* EchoBackAndClearUndoContext: a key for the application; a modifier alone
\* keeps the undo contexts, like EchoBack (MoveCursorTo, RequestUndo).
\* UndoOrRewind without an undo context echoes during a conversion, too, and
\* takes the converter out of it.
EchoBack ==
  /\ ~Composing
  /\ Converting => undo_contexts = <<>>
  /\ \E u \in {<<>>, undo_contexts} :
       OutputComposition([context EXCEPT !.conv = Reset(@),
                                         !.strayed = @ \/ Converting], u)

\* Revert during a composition.  Before one it echoes (EchoBack).
Revert ==
  /\ Composing \/ Converting
  /\ Output(SetStateToPrecompositionAndCancel(context), <<>>)

ResetContext ==
  /\ context.state # "PRECOMPOSITION"
  /\ Output(SetStateToPrecompositionAndCancel([context EXCEPT !.conv = Reset(@)]),
            <<>>)

\* DoNothing takes away zero query suggestions; so does RequestUndo with
\* nothing to undo (EchoBack).
DoNothing ==
  \/ /\ zero_query /\ context.state = "PRECOMPOSITION"
     /\ context.conv.state \in Active
     /\ Output([context EXCEPT !.conv = Reset(@)], undo_contexts)
  \/ (Composing \/ Converting) /\ Output(context, undo_contexts)

\* RequestUndo: the client is to send Undo.
RequestUndo ==
  /\ ImeIsOn /\ (context.state = "PRECOMPOSITION" => undo_contexts # <<>>)
  /\ Output(context, undo_contexts)

-----------------------------------------------------------------------------
(***************************************************************************)
(* Editing the composition.                                                *)
(***************************************************************************)
\* A character commits a conversion first.  It may be committed at once with
\* what precedes it (punctuation, direct input) or start a conversion.
InsertCharacter ==
  /\ ImeIsOn
  /\ \E x \in IF Converting THEN Committed(context) ELSE {context} :
       LET y == [IF Converting
                 THEN [x EXCEPT !.conv = PopOutput(@), !.output = x.conv.result]
                 ELSE x EXCEPT !.composer = @ + 1]
           z == SetSessionState(y, "COMPOSITION")
       IN  /\ y.composer <= MaxLength
           /\ \/ CommitStringDirectly(y, <<>>, y.composer)
              \/ SuggestAndOutput(z, <<>>)
              \/ \E r \in Convert(z.conv, z.composer) :
                   LET w == [z EXCEPT !.conv = r.conv]
                   IN  IF r.ok THEN Output(SetSessionState(w, "CONVERSION"), <<>>)
                       ELSE OutputComposition(w, <<>>)

\* UpdateComposition: handwriting replaces the composition.
UpdateComposition ==
  /\ context.state \in {"PRECOMPOSITION", "COMPOSITION"}
  /\ \E n \in 1 .. MaxLength :
       SuggestAndOutput(SetSessionState([context EXCEPT !.composer = n,
                                                        !.source = 0],
                                        "COMPOSITION"), <<>>)

\* MoveCursorLeft, Right, ToEnd, ToBeginning, MoveCursorTo; the rewinding of
\* UndoOrRewind.
MoveCursor == Composing /\ SuggestAndOutput(context, <<>>)

StopKeyToggling == Composing /\ Output(context, <<>>)

\* Backspace and Delete.
Backspace ==
  /\ Composing
  /\ \E n \in {context.composer, context.composer - 1} \cap Nat :
       LET x == [context EXCEPT !.composer = n]
       IN  IF n = 0 THEN Output(SetStateToPrecompositionAndCancel(x), <<>>)
           ELSE SuggestAndOutput(x, <<>>)

\* EditCancel; what reverse conversion took is given back.
EditCancel ==
  /\ Composing \/ (context.state = "PRECOMPOSITION" /\ context.conv.state \in Active)
  /\ \E x \in IF context.source = 0 THEN {context}
              ELSE ZeroQuerySuggested(
                     SetSessionState([context EXCEPT !.conv = Reset(@)],
                                     "PRECOMPOSITION")) :
       Output(SetStateToPrecompositionAndCancel(x),
              Typed(undo_contexts, context.source, TRUE))

EditCancelAndIMEOff ==
  /\ ImeIsOn
  /\ Output(SetSessionState([context EXCEPT !.conv = Reset(@)], "DIRECT"), <<>>)

-----------------------------------------------------------------------------
(***************************************************************************)
(* Converting.                                                             *)
(***************************************************************************)
\* Convert, ConvertWithoutHistory.
ConvertComposition ==
  /\ Composing
  /\ \E r \in Convert(context.conv, context.composer) :
       LET x == [context EXCEPT !.conv = r.conv]
       IN  IF r.ok THEN Output(SetSessionState(x, "CONVERSION"), undo_contexts)
           ELSE OutputComposition(x, undo_contexts)

\* ConvertToHiragana and the others, SwitchKanaType.  A failure leaves the
\* state of the session alone, also that of a conversion.
Transliterate ==
  /\ Composing \/ Converting
  /\ \E r \in ConvertToTransliteration(context.conv, context.composer) :
       LET x == [context EXCEPT !.conv = r.conv]
       IN  IF r.ok THEN Output(SetSessionState(x, "CONVERSION"), undo_contexts)
           ELSE OutputComposition([x EXCEPT !.strayed = @ \/ Converting],
                                  undo_contexts)

\* PredictAndConvert; during a conversion it is ConvertNext (MoveCandidate).
PredictAndConvert ==
  /\ Composing \/ (context.state = "PRECOMPOSITION"
                   /\ context.conv.state = "SUGGESTION")
  /\ \E r \in Predict(context.conv, context.composer) :
       LET x == [context EXCEPT !.conv = r.conv]
       IN  IF r.ok THEN Output(SetSessionState(x, "CONVERSION"), undo_contexts)
           ELSE OutputComposition(x, undo_contexts)

\* SelectCandidate, HighlightCandidate.
SelectCandidate ==
  /\ ImeIsOn /\ context.conv.state \in Active
  /\ \E c \in CandidateMoveToId(context.conv, context.composer) :
       Output(SetSessionState([context EXCEPT !.conv = c], "CONVERSION"),
              undo_contexts)

\* ConvertNext, ConvertPrev, their pages; the selection by a shortcut key.
MoveCandidate ==
  /\ Converting
  /\ \E c \in CandidateNext(context.conv, context.composer) :
       Output([context EXCEPT !.conv = c], undo_contexts)

\* SegmentFocusRight, Left, Last and LeftEdge.
SegmentFocus ==
  /\ Converting
  /\ \E c \in {SegmentFocusRight(context.conv), SegmentFocusLeft(context.conv),
               SegmentFocusLast(context.conv), SegmentFocusLeftEdge(context.conv)} :
       Output([context EXCEPT !.conv = c], undo_contexts)

\* SegmentWidthExpand, SegmentWidthShrink.
SegmentWidth ==
  /\ Converting
  /\ \E delta \in {1, -1} : \E c \in ResizeSegmentWidth(context.conv, delta) :
       Output([context EXCEPT !.conv = c], undo_contexts)

\* ConvertCancel; DeleteCandidateFromHistory ends in it.
ConvertCancel ==
  /\ Converting
  /\ SuggestAndOutput(SetSessionState([context EXCEPT !.conv = Cancel(@)],
                                      "COMPOSITION"), undo_contexts)

\* ConvertReverse: the application's selected text is read back.  A failed
\* conversion leaves the reading in the composer.
ConvertReverse ==
  /\ context.state \in {"PRECOMPOSITION", "DIRECT"}
  /\ \E n \in 1 .. MaxLength : \E r \in Convert(context.conv, n) :
       LET x == [context EXCEPT !.composer = n, !.source = 1, !.conv = r.conv]
       IN  IF r.ok THEN Output(SetSessionState(x, "CONVERSION"), <<>>)
           ELSE OutputComposition(Strayed(x), <<>>)

-----------------------------------------------------------------------------
(***************************************************************************)
(* Committing.                                                             *)
(***************************************************************************)
CommitInternal ==
  /\ Composing \/ Converting
  /\ \E x \in Committed(context) : \E y \in ZeroQuerySuggested(x) :
       OutputAndSave(y, PushUndoContext(undo_contexts, context))

\* Mutant: the state stays CONVERSION when nothing is left to convert.
CommittedSegments_KeepsState(x) ==
  \E y \in IF x.conv.state \in Active THEN {x} ELSE ZeroQuerySuggested(x) :
    OutputAndSave(y, PushUndoContext(undo_contexts, context))

\* The rest of CommitCandidate and CommitSegment: x is the context after the
\* converter's commit.
CommittedSegments(x) ==
  \E y \in IF x.conv.state \in Active THEN {x}
           ELSE ZeroQuerySuggested(SetSessionState(x, "PRECOMPOSITION")) :
    OutputAndSave(y, PushUndoContext(undo_contexts, context))

\* The commit of the first n segments, by the converter c.
CommitHead(c, n) ==
  \E r \in CommitSegments(c, n) :
    CommittedSegments([context EXCEPT !.conv = r.conv, !.composer = @ - r.consumed])

CommitSegment == Converting /\ CommitHead(context.conv, 1)

\* CommitCandidate during a conversion: up to the focused segment.
CommitFocused ==
  /\ Converting /\ context.conv.state \in Active
  /\ \E c \in CandidateMoveToId(context.conv, context.composer) :
       CommitHead(c, c.segment_index + 1)

\* CommitCandidate outside a conversion.  Without suggestions for the rest of
\* the composition the result waits for another command's output.
CommitCandidate ==
  /\ ImeIsOn /\ ~Converting /\ context.conv.state \in Active
  /\ \E r \in CommitSuggestionById(context.conv, context.composer, zero_query) :
       LET x == [context EXCEPT !.conv = r.conv]
           rest == [x EXCEPT !.composer = @ - r.consumed]
       IN  IF r.ok /\ rest.composer > 0
           THEN \E q \in Suggested(rest) :
                  IF q.ok THEN OutputAndSave(q.context,
                                             PushUndoContext(undo_contexts, context))
                  ELSE OutputComposition(Strayed([q.context EXCEPT !.output = 0]),
                                         PushUndoContext(undo_contexts, context))
           ELSE CommittedSegments(x)

CommitFirstSuggestion ==
  /\ ImeIsOn /\ ~Converting /\ context.conv.state \in Active
  /\ \E r \in CommitSuggestion(context.conv, context.composer, zero_query) :
       \E y \in ZeroQuerySuggested(SetSessionState([context EXCEPT !.conv = r.conv],
                                                   "PRECOMPOSITION")) :
         OutputAndSave(y, PushUndoContext(undo_contexts, context))

\* CommitZenzSuggestion pushes an undo context; output() keeps what an
\* earlier commit left there.
CommitZenzSuggestion ==
  /\ Composing
  /\ \E n \in Values(<<context.composer>>) :
       CommitStringDirectly(context, PushUndoContext(undo_contexts, context), n)

\* CommitZenzConversionResult, CommitRawText.
CommitDirectly ==
  /\ context.composer > 0 /\ (Composing \/ Converting)
  /\ CommitStringDirectly(context, undo_contexts, context.composer)

-----------------------------------------------------------------------------
(***************************************************************************)
(* Undoing, and the suggestions a client asks for.                         *)
(***************************************************************************)
\* What Undo deletes of the application's text: the result in output().
Deletion(x) == x.output

\* Undo: nothing happens if the client cannot delete text.
Undo ==
  /\ ImeIsOn /\ undo_contexts # <<>>
  /\ LET entry == Last(undo_contexts)
     IN  Output(entry.context,
                Typed(Front(undo_contexts), entry.since - Deletion(context),
                      entry.unsaved))

\* REQUEST_NWP asks for suggestions, whatever the state.
RequestNwp ==
  \E r \in Suggest(Reset(context.conv), context.composer) :
    LET x == [context EXCEPT !.conv = r.conv, !.strayed = @ \/ Converting]
    IN  IF r.ok THEN Output(x, undo_contexts)
        ELSE OutputComposition(x, undo_contexts)

-----------------------------------------------------------------------------
\* A failed assertion ended the server; its client asks for a new session.
Restart ==
  /\ ~context.conv.checked
  /\ context' = NewContext /\ undo_contexts' = <<>>

Next ==
  \/ IMEOn \/ CompositionMode \/ IMEOff \/ EchoBack \/ Revert \/ ResetContext
  \/ DoNothing \/ RequestUndo
  \/ InsertCharacter \/ UpdateComposition \/ MoveCursor \/ StopKeyToggling
  \/ Backspace \/ EditCancel \/ EditCancelAndIMEOff
  \/ ConvertComposition \/ Transliterate \/ PredictAndConvert \/ SelectCandidate
  \/ MoveCandidate \/ SegmentFocus \/ SegmentWidth \/ ConvertCancel
  \/ ConvertReverse
  \/ CommitInternal \/ CommitSegment \/ CommitFocused \/ CommitCandidate
  \/ CommitFirstSuggestion \/ CommitZenzSuggestion \/ CommitDirectly
  \/ Undo \/ RequestNwp \/ Restart

Spec == Init /\ [][Next]_vars

-----------------------------------------------------------------------------
Converters ==
  [state : States, segments : Seq(0 .. MaxLength), segment_index : 0 .. MaxLength,
   selected : 0 .. MaxLength, previous : Seq(0 .. MaxLength),
   candidates : BOOLEAN, result : 0 .. MaxLength, checked : BOOLEAN]

Contexts ==
  [state : {"DIRECT", "PRECOMPOSITION", "COMPOSITION", "CONVERSION"},
   composer : 0 .. MaxLength, source : 0 .. 1, conv : Converters,
   output : 0 .. MaxLength, strayed : BOOLEAN]

\* Types, and the bound of the undo stack.
TypeOK ==
  /\ context \in Contexts
  /\ undo_contexts \in Seq([context : Contexts, since : 0 .. Unlike, unsaved : BOOLEAN])
  /\ Len(undo_contexts) <= kMultipleUndoMaxSize

(***************************************************************************)
(* What holds after any sequence of commands and failures of the engine.   *)
(* A part that is lost with a step that strays is claimed until one is     *)
(* taken and again once the session is at rest; configurations of their    *)
(* own show the steps that lose it.                                        *)
(***************************************************************************)
\* Session and converter agree on what goes on: the converter has a focused
\* candidate only while the session converts.  Unless they strayed, it has
\* one all that time, and outside a composition nothing is composed.
StatesAgree ==
  /\ TypeOK
  /\ context.conv.state \in Focused => Converting
  /\ ~context.strayed =>
       /\ Converting => context.conv.state \in Focused
       /\ context.state \in {"DIRECT", "PRECOMPOSITION"} => context.composer = 0

\* The focus is on one of the converter's segments, each has the index of its
\* candidate, and together those of a conversion have the characters of the
\* composition (the session deletes from the composer what the converter
\* says it committed).  So have suggestions and predictions, unless they are
\* older than the composition.
SegmentsCoverComposition ==
  LET c == context.conv
  IN  c.state \in Active =>
        /\ c.segment_index < Len(c.segments)
        /\ c.selected >= Len(c.segments)
        /\ c.state = "CONVERSION" \/ ~context.strayed
             => Total(c.segments) = context.composer

\* The assertions of engine_converter.cc hold, CHECK_LE in CommitSegmentsSize
\* too: the server ends by one only after session and converter strayed.
ChecksHold == context.conv.checked \/ context.strayed

\* A command that commits text hands it out itself: none waits in the
\* converter, to be given out by a later command or lost with it, unless
\* CommitCandidate left it there.
ResultIsHandedOut == context.conv.result = 0 \/ context.strayed

\* Undo deletes from the application exactly what was committed since the
\* context it goes back to was left, unless output() has no copy of some.
UndoRestoresDocument ==
  undo_contexts # <<>> /\ ~Last(undo_contexts).unsaved
    => Last(undo_contexts).since = Deletion(context)

-----------------------------------------------------------------------------
(***************************************************************************)
(* What the documents, comments and assertions say, without exception.     *)
(***************************************************************************)
\* "Precomposition: ... no character is typed yet", "Conversion: Mode to
\* select words": docs/configurations.md.
ModesAgree ==
  context.conv.checked =>
    /\ Converting <=> context.conv.state \in Focused
    /\ context.state \in {"DIRECT", "PRECOMPOSITION"} => context.composer = 0

\* Suggestions are those of the composition, also when the client has turned
\* the "suggestion feature" off (commands.proto).
SuggestionsFitComposition ==
  context.conv.state = "SUGGESTION"
    => Total(context.conv.segments) = context.composer

\* DCHECK(CheckState(...)): the methods are called in the states they expect.
AssertionsHold == context.conv.checked

\* "Copy the previous output for Undo": a commit's output has its result.
NoResultWaits == context.conv.result = 0

\* Undo "undos the commitment": what was committed is deleted.
UndoDeletesCommitted ==
  undo_contexts # <<>> => Last(undo_contexts).since = Deletion(context)
=============================================================================
