--------------------------- MODULE ZenzConversion ---------------------------
(***************************************************************************)
(* The asynchronous Zenz (local language model) conversion of a session:    *)
(* Session schedules a request and asks the client to call back; every      *)
(* callback polls ZenzConversionService, whose worker thread runs one       *)
(* inference at a time.  A conversion is requested by Convert and polled in *)
(* the state CONVERSION, a suggestion is requested while typing and polled  *)
(* in COMPOSITION.  Both use the one request slot and the one result slot   *)
(* of the service, and tell their answers apart by a generation number.     *)
(*                                                                          *)
(* The composer and the converter are abstracted to the reading (key) they  *)
(* leave, a response to the request it answers.  Zenz is enabled and the    *)
(* input field is not a password field.                                     *)
(*                                                                          *)
(* A key may be bound to several commands (`Convert|ConvertNext`), each of   *)
(* which is a step here.  What SendKeyConversionState does before the first *)
(* and SendKey after the last is done once, and only the last command's     *)
(* output, with its callback, reaches the client.                           *)
(***************************************************************************)
EXTENDS Naturals, FiniteSets

CONSTANTS
  Keys,                   \* readings, GetQueryForConversion
  Length,                 \* Length[k]: the number of characters of k
  MaxPoll,                \* max_poll_count
  zero_query_suggestion,  \* Request::zero_query_suggestion
  MaxGeneration,          \* bound: no user operation beyond this generation
  MaxCallbacks            \* bound: callbacks outstanding when the user acts

ASSUME LengthAssumption == Length \in [Keys -> Nat \ {0}]
ASSUME PollAssumption == MaxPoll \in Nat \ {0}
ASSUME ZeroQueryAssumption == zero_query_suggestion \in BOOLEAN
ASSUME BoundAssumption == MaxGeneration \in Nat /\ MaxCallbacks \in Nat

Empty == "empty"          \* the reading of an empty composition
None == [key |-> Empty]   \* no request, result or candidate

ASSUME EmptyAssumption == Empty \notin Keys

VARIABLES
  state,                  \* context_->state()
  key,                    \* context_->composer().GetQueryForConversion()
  conversion_generation,  \* zenz_conversion_generation_
  pending_conversion,     \* pending_zenz_conversion_ (it is always submitted)
  conversion,             \* zenz_conversion_key_, _value_: the candidate
  conversion_selected,    \* zenz_conversion_selected_
  suggestion_generation,  \* zenz_suggestion_generation_
  pending_suggestion,     \* pending_zenz_suggestion_
  suggestion,             \* zenz_suggestion_visible_key_, _value_
  suggestion_selected,    \* zenz_suggestion_selected_
  request, result,        \* latest_request_ and latest_result_ of the service
  running,                \* the request WorkerLoop is working on
  callbacks,              \* client: the callbacks it has yet to send
  more,                   \* ExecuteCommandSequence: another command of the key follows
  dropped,                \* history: the callbacks of what is pending that were in
                          \* an output which a later command of the key replaced
  sequenced               \* history: some key ran several commands

context == <<state, key>>
conversionVars == <<conversion_generation, pending_conversion, conversion,
                    conversion_selected>>
suggestionVars == <<suggestion_generation, pending_suggestion, suggestion,
                    suggestion_selected>>
service == <<request, result, running>>
vars == <<context, conversionVars, suggestionVars, service, callbacks, more,
          dropped, sequenced>>

States == {"PRECOMPOSITION", "COMPOSITION", "CONVERSION"}

\* A request to the service; kind says who made it and is not in the code.
Request(kind, generation, k) ==
  [kind |-> kind, generation |-> generation, key |-> k]

CharsLen(k) == IF k = Empty THEN 0 ELSE Length[k]

\* CharsLen(key) >= kMinimumZenzConversionKeyLength
LongEnough(k) == CharsLen(k) >= 2

Init ==
  /\ state = "PRECOMPOSITION" /\ key = Empty
  /\ conversion_generation = 0 /\ pending_conversion = None
  /\ conversion = None /\ conversion_selected = TRUE
  /\ suggestion_generation = 0 /\ pending_suggestion = None
  /\ suggestion = None /\ suggestion_selected = FALSE
  /\ request = None /\ result = None /\ running = None
  /\ callbacks = {} /\ more = FALSE /\ dropped = {} /\ sequenced = FALSE

-----------------------------------------------------------------------------
\* ZenzConversionService, called by the session.

Submit(r) == request' = r /\ result' = None /\ UNCHANGED running

CancelPending == request' = None /\ result' = None /\ UNCHANGED running

\* Mutant: any result is taken.
TakeResult_AnyGeneration(generation) == result # None

\* TakeResult finds a result of the generation; it empties the slot always.
TakeResult(generation) == result # None /\ result.generation = generation

\* The slot after TakeResult.
Taken == result' = None /\ UNCHANGED <<request, running>>

\* WorkerLoop takes the queued request ...
WorkerTakes ==
  /\ running = None /\ request # None
  /\ running' = request /\ request' = None
  /\ UNCHANGED <<context, conversionVars, suggestionVars, result, callbacks, more>>

\* ... and stores its response, whatever has been queued since.
WorkerStores ==
  /\ running # None
  /\ result' = running /\ running' = None
  /\ UNCHANGED <<context, conversionVars, suggestionVars, request, callbacks, more>>

-----------------------------------------------------------------------------
\* The parts handlers are made of.

Pending == pending_conversion # None

HasZenzConversionCandidate ==
  /\ conversion # None
  /\ state = "CONVERSION"
  /\ conversion.key = key

HasVisibleZenzConversion == conversion_selected /\ HasZenzConversionCandidate

One(condition) == IF condition THEN 1 ELSE 0

\* CancelPendingZenzConversion, called n > 0 times.
CancelPendingZenzConversion(n) ==
  /\ conversion_generation' = conversion_generation + n
  /\ pending_conversion' = None
  /\ CancelPending
  /\ UNCHANGED <<conversion, conversion_selected>>

\* Mutant: the visible conversion is kept.
ClearZenzConversionState_Pending(n) ==
  /\ conversion_generation' = conversion_generation + n
  /\ pending_conversion' = None
  /\ CancelPending
  /\ conversion_selected' = TRUE
  /\ UNCHANGED conversion

\* ClearZenzConversionState, after n - 1 other increments of the generation.
ClearZenzConversionState(n) ==
  /\ conversion_generation' = conversion_generation + n
  /\ pending_conversion' = None
  /\ CancelPending
  /\ conversion' = None
  /\ conversion_selected' = TRUE

\* A command that clears and cancels so many times.
Drops(clears, cancels) ==
  IF clears > 0 THEN ClearZenzConversionState(clears + cancels)
  ELSE IF cancels > 0 THEN CancelPendingZenzConversion(cancels)
  ELSE UNCHANGED <<conversionVars, service>>

\* What SendKeyConversionState does before the first command of a key ...
CancelsBefore == One(~more /\ state = "CONVERSION" /\ Pending)

\* ... that is neither a character nor a move among the candidates.
ClearsBefore == One(~more /\ HasVisibleZenzConversion)

BeforeConversionCommand(n) == Drops(ClearsBefore, CancelsBefore + n)

\* The end of SendKey and SendCommand, for the state s they end in.
ClearsAfter(s) == One(~more' /\ s # "CONVERSION")

\* The same, when the handler did nothing else.
AfterNothing == Drops(ClearsAfter(state), 0)

\* The output asks the client for a callback, if it is the key's last one.
Asks(c) == callbacks' = IF more' THEN callbacks ELSE callbacks \cup {c}

SuggestionCallback(p) ==
  [type |-> "APPLY_ZENZ_SUGGESTION", generation |-> p.generation, key |-> p.key]

ConversionCallback(p) ==
  [type |-> "APPLY_ZENZ_CONVERSION", generation |-> p.generation, key |-> p.key]

\* Mutant: the suggestion on screen stays, with its highlight.
ResetSuggestion_PendingOnly(n) ==
  /\ suggestion_generation' = suggestion_generation + n
  /\ pending_suggestion' = None
  /\ UNCHANGED <<suggestion, suggestion_selected>>

\* The suggestion fields reset, after n increments of the generation.
ResetSuggestion(n) ==
  /\ suggestion_generation' = suggestion_generation + n
  /\ pending_suggestion' = None
  /\ suggestion' = None
  /\ suggestion_selected' = FALSE

\* Suggest and the Output that follows it; SuppressSuggestion, the converter
\* or a privacy check may leave nothing to schedule.
Suggest(k) ==
  \/ ResetSuggestion(1) /\ UNCHANGED callbacks
  \/ /\ LongEnough(k)
     /\ suggestion_generation' = suggestion_generation + 1
     /\ pending_suggestion' = [generation |-> suggestion_generation + 1,
                               key |-> k, submitted |-> FALSE, poll |-> 0]
     /\ suggestion' = None
     /\ suggestion_selected' = FALSE
     /\ Asks(SuggestionCallback(pending_suggestion'))

\* Output, with the session's state and reading it sees: it attaches the
\* callback of a suggestion that is still current and drops any other.
Output(s, k) ==
  IF pending_suggestion = None
  THEN UNCHANGED <<suggestion_generation, pending_suggestion, callbacks>>
  ELSE IF s # "CONVERSION" /\ pending_suggestion.key = k
  THEN /\ Asks(SuggestionCallback(pending_suggestion))
       /\ UNCHANGED <<suggestion_generation, pending_suggestion>>
  ELSE /\ suggestion_generation' = suggestion_generation + 1
       /\ pending_suggestion' = None
       /\ UNCHANGED callbacks

\* CommitStringDirectly and CommitInternal, apart from the conversion.
Committed ==
  /\ state' = "PRECOMPOSITION" /\ key' = Empty
  /\ IF zero_query_suggestion THEN ResetSuggestion(1) /\ UNCHANGED callbacks
     ELSE /\ Output("PRECOMPOSITION", Empty)
          /\ UNCHANGED <<suggestion, suggestion_selected>>

-----------------------------------------------------------------------------
\* Typing and editing.

\* How often InsertCharacter clears: what is pending (unless the key has
\* cancelled it) or visible, a conversion that it commits first, and a
\* composition of one character.
ClearsInserting(k) ==
  One(HasVisibleZenzConversion \/ (Pending /\ CancelsBefore = 0))
    + One(state = "CONVERSION") + One(CharsLen(k) = 1)

\* The reading InsertCharacter may leave: it grows, or it is the same as
\* before while a romaji sequence is incomplete.
Inserted(k) == state = "COMPOSITION" => CharsLen(k) >= CharsLen(key)

InsertCharacter(k) ==
  /\ Inserted(k)
  /\ state' = "COMPOSITION" /\ key' = k
  /\ Suggest(k)
  /\ Drops(ClearsInserting(k) + ClearsAfter("COMPOSITION"), CancelsBefore)

\* InsertCharacter with CanStartAutoConversion: ConvertInternal without Zenz,
\* in which the converter may fail.
InsertAndConvert(k) ==
  /\ Inserted(k)
  /\ state' \in {"CONVERSION", "COMPOSITION"} /\ key' = k
  /\ ResetSuggestion(1) /\ UNCHANGED callbacks
  /\ Drops(ClearsInserting(k) + ClearsAfter(state'), CancelsBefore + 2)

\* InsertCharacter with CanDirectCommitAfterPunctuation or ShouldCommit.
InsertAndCommit(k) ==
  /\ Inserted(k)
  /\ Committed
  /\ Drops(ClearsInserting(k) + ClearsAfter("PRECOMPOSITION"), CancelsBefore)

\* Backspace and Delete.
Backspace ==
  /\ state = "COMPOSITION"
  /\ \/ /\ state' = "PRECOMPOSITION" /\ key' = Empty
        /\ Output("PRECOMPOSITION", Empty)
        /\ UNCHANGED <<suggestion, suggestion_selected>>
     \/ \E k \in Keys : /\ CharsLen(k) <= CharsLen(key)
                        /\ key' = k /\ UNCHANGED state
                        /\ Suggest(k)
  /\ Drops(1 + ClearsAfter(state'), 1)

\* MoveCursorLeft, MoveCursorRight, MoveCursorToBeginning, MoveCursorTo ...
MoveCursor ==
  /\ state = "COMPOSITION"
  /\ Suggest(key)
  /\ AfterNothing
  /\ UNCHANGED context

\* The composition is thrown away.
Cancelled(clears, cancels) ==
  /\ state # "PRECOMPOSITION"
  /\ state' = "PRECOMPOSITION" /\ key' = Empty
  /\ Output("PRECOMPOSITION", Empty)
  /\ Drops(clears + 1 + ClearsAfter("PRECOMPOSITION"), cancels)
  /\ UNCHANGED <<suggestion, suggestion_selected>>

\* The session commands REVERT and RESET_CONTEXT.
Revert == Cancelled(0, 0)

\* The key bound to Cancel, by way of SendKeyConversionState.
EditCancel == Cancelled(ClearsBefore, CancelsBefore)

-----------------------------------------------------------------------------
\* Conversion.

\* MaybeApplyZenzFeedbackConversion shows a value accepted before.
ApplyFeedback ==
  /\ LongEnough(key)
  /\ conversion_generation' = conversion_generation + 2
  /\ pending_conversion' = None
  /\ conversion' = [generation |-> conversion_generation + 2, key |-> key,
                    answer |-> Request("feedback", conversion_generation + 2, key)]
  /\ conversion_selected' = TRUE
  /\ CancelPending
  /\ UNCHANGED callbacks

\* MaybeScheduleZenzConversion: submit, and ask for the first poll.
ScheduleConversion ==
  /\ LongEnough(key)
  /\ conversion_generation' = conversion_generation + 2
  /\ pending_conversion' = [generation |-> conversion_generation + 2,
                            key |-> key, poll |-> 0]
  /\ Submit(Request("conversion", conversion_generation + 2, key))
  /\ Asks(ConversionCallback(pending_conversion'))
  /\ UNCHANGED <<conversion, conversion_selected>>

\* Convert: ConvertInternal with run_zenz.  The converter may fail.
Convert ==
  /\ state = "COMPOSITION"
  /\ ResetSuggestion(1)
  /\ UNCHANGED key
  /\ \/ UNCHANGED <<state, callbacks>> /\ Drops(ClearsAfter(state), 1)
     \/ /\ state' = "CONVERSION"
        /\ \/ CancelPendingZenzConversion(1) /\ UNCHANGED callbacks
           \/ ApplyFeedback
           \/ ScheduleConversion

\* ConvertToTransliteration, and SegmentFocusRight, SegmentWidthExpand, ...:
\* commands that leave the pending suggestion to Output.
ConvertToTransliteration ==
  /\ state # "PRECOMPOSITION"
  /\ state' = "CONVERSION" /\ UNCHANGED key
  /\ BeforeConversionCommand(0)
  /\ Output("CONVERSION", key)
  /\ UNCHANGED <<suggestion, suggestion_selected>>

\* ConvertWithoutHistory, and PredictAndConvert from a composition.
\* The converter may fail.
ConvertWithoutHistory ==
  /\ state # "PRECOMPOSITION"
  /\ \/ /\ state' = "CONVERSION"
        /\ BeforeConversionCommand(1)
        /\ Output("CONVERSION", key)
     \/ /\ Drops(ClearsBefore + ClearsAfter(state), CancelsBefore + 1)
        /\ UNCHANGED <<state, suggestion_generation, pending_suggestion,
                       callbacks>>
  /\ UNCHANGED <<key, suggestion, suggestion_selected>>

\* MoveZenzConversionCandidate, or the converter's own move without a Zenz
\* candidate in the list.
MoveZenzConversionCandidate ==
  conversion_selected' \in IF HasZenzConversionCandidate THEN BOOLEAN
                           ELSE {conversion_selected}

\* PredictAndConvert in CONVERSION, which goes on to ConvertNext.
PredictAndConvert ==
  /\ state = "CONVERSION"
  /\ IF ClearsBefore = 1
     THEN ClearZenzConversionState(CancelsBefore + 2)
     ELSE /\ conversion_generation' = conversion_generation + CancelsBefore + 1
          /\ pending_conversion' = None
          /\ CancelPending
          /\ MoveZenzConversionCandidate
          /\ UNCHANGED conversion
  /\ Output("CONVERSION", key)
  /\ UNCHANGED <<context, suggestion, suggestion_selected>>

\* ConvertReverse, from the text the client has selected.
ConvertReverse(k) ==
  /\ state = "PRECOMPOSITION"
  /\ state' = "CONVERSION" /\ key' = k
  /\ Output("CONVERSION", k)
  /\ UNCHANGED <<conversionVars, service, suggestion, suggestion_selected>>

\* ConvertNext, ConvertPrev, their pages and MaybeSelectCandidate.
MoveCandidate ==
  /\ state = "CONVERSION"
  /\ IF CancelsBefore = 1
     THEN /\ conversion_generation' = conversion_generation + 1
          /\ pending_conversion' = None
          /\ CancelPending
     ELSE UNCHANGED <<conversion_generation, pending_conversion, service>>
  /\ MoveZenzConversionCandidate
  /\ Output("CONVERSION", key)
  /\ UNCHANGED <<context, conversion, suggestion, suggestion_selected>>

ConvertCancel ==
  /\ state = "CONVERSION"
  /\ state' = "COMPOSITION" /\ UNCHANGED key
  /\ Drops(ClearsBefore + 1 + ClearsAfter("COMPOSITION"), CancelsBefore)
  /\ Suggest(key)

-----------------------------------------------------------------------------
\* Candidates and commits.

\* SelectCandidate and HighlightCandidate.
SelectCandidate ==
  \/ /\ HasZenzConversionCandidate
     /\ conversion_selected' = TRUE
     /\ Output(state, key)
     /\ UNCHANGED <<context, conversion_generation, pending_conversion,
                    conversion, suggestion, suggestion_selected, service>>
  \/ /\ suggestion # None /\ suggestion.key = key
     /\ suggestion_selected' = TRUE
     /\ Output(state, key)
     /\ AfterNothing
     /\ UNCHANGED <<context, suggestion>>
  \/ /\ state # "PRECOMPOSITION"
     /\ suggestion_selected' = FALSE
     /\ conversion_selected' = FALSE
     /\ state' = "CONVERSION" /\ UNCHANGED key
     /\ Output("CONVERSION", key)
     /\ UNCHANGED <<conversion_generation, pending_conversion, conversion,
                    suggestion, service>>

\* CommitZenzSuggestion does nothing when the suggestion is not current.
SuggestionIsCurrent ==
  suggestion # None /\ suggestion.key = key /\ state # "CONVERSION"

CommitZenzSuggestion(cancels) ==
  IF SuggestionIsCurrent
  THEN /\ state' = "PRECOMPOSITION" /\ key' = Empty
       /\ ResetSuggestion(1 + One(zero_query_suggestion))
       /\ UNCHANGED callbacks
       /\ Drops(ClearsAfter("PRECOMPOSITION"), cancels)
  ELSE /\ Drops(ClearsAfter(state), cancels)
       /\ UNCHANGED <<context, suggestionVars, callbacks>>

CommitZenzConversionResult(cancels) ==
  /\ HasVisibleZenzConversion
  /\ Committed
  /\ Drops(1 + ClearsAfter("PRECOMPOSITION"), cancels)

CommitInternal(cancels) ==
  IF state = "PRECOMPOSITION"
  THEN AfterNothing /\ UNCHANGED <<context, suggestionVars, callbacks>>
  ELSE Committed /\ Drops(1 + ClearsAfter("PRECOMPOSITION"), cancels)

\* Commit, after the cancellation by the caller.
Commit(cancels) ==
  IF suggestion_selected /\ suggestion # None THEN CommitZenzSuggestion(cancels)
  ELSE IF HasVisibleZenzConversion THEN CommitZenzConversionResult(cancels)
  ELSE CommitInternal(cancels)

\* The session command SUBMIT.
SubmitCommand == Commit(0)

\* The command Commit of a key: SendKeyConversionState cancels what is pending
\* and, if it is the first, commits a visible conversion itself.
CommitKey ==
  IF ClearsBefore = 1 THEN CommitZenzConversionResult(CancelsBefore)
  ELSE Commit(CancelsBefore)

\* CommitCandidate (SUBMIT_CANDIDATE) of one of the converter's candidates;
\* the rest of the reading stays when it covers only a part.
CommitMozcCandidate ==
  \/ /\ state # "PRECOMPOSITION"
     /\ Committed
     /\ ClearZenzConversionState(1)
  \/ /\ state = "COMPOSITION"
     /\ \E k \in Keys : CharsLen(k) < CharsLen(key) /\ key' = k /\ Suggest(k)
     /\ ClearZenzConversionState(1)
     /\ UNCHANGED state
  \/ /\ state = "CONVERSION"
     /\ \E k \in Keys : CharsLen(k) < CharsLen(key) /\ key' = k /\ Output("CONVERSION", k)
     /\ conversion_selected' = FALSE
     /\ UNCHANGED <<state, conversion_generation, pending_conversion,
                    conversion, suggestion, suggestion_selected, service>>

\* CommitFirstSuggestion, and CommitCandidate of a Zenz suggestion.
CommitFirstSuggestion == suggestion # None /\ CommitZenzSuggestion(0)

\* CommitCandidate of a Zenz conversion.
CommitZenzCandidate ==
  HasZenzConversionCandidate /\ Committed /\ ClearZenzConversionState(2)

\* CommitSegment.
CommitSegment ==
  /\ state = "CONVERSION"
  /\ \/ /\ \E k \in Keys :
             CharsLen(k) < CharsLen(key) /\ key' = k /\ Output("CONVERSION", k)
        /\ BeforeConversionCommand(0)
        /\ UNCHANGED <<state, suggestion, suggestion_selected>>
     \/ /\ Committed
        /\ Drops(ClearsBefore + ClearsAfter("PRECOMPOSITION"), CancelsBefore)

\* A command or key without effect of its own (GET_STATUS, an unbound key).
OtherCommand == AfterNothing /\ UNCHANGED <<context, suggestionVars, callbacks>>

-----------------------------------------------------------------------------
\* The callbacks.

IsCurrentZenzConversionCallback(c) ==
  /\ Pending /\ state = "CONVERSION" /\ pending_conversion.key = key
  /\ c = ConversionCallback(pending_conversion)

\* ApplyZenzConversionResult: the answer is shown, or refused (a failed
\* response, another key, the validator, privacy, adoption, feedback).
ApplyZenzConversionResult(c) ==
  /\ \/ /\ result.key = pending_conversion.key
        /\ conversion' = [generation |-> pending_conversion.generation,
                          key |-> pending_conversion.key, answer |-> result]
        /\ conversion_selected' = TRUE
        /\ pending_conversion' = None
        /\ Taken
        /\ UNCHANGED conversion_generation
     \/ CancelPendingZenzConversion(1)
  /\ callbacks' = callbacks \ {c}

\* Mutant: the next callback is not attached.
PollConversion_Silent(c) ==
  \/ /\ pending_conversion.poll + 1 < MaxPoll
     /\ pending_conversion' = [pending_conversion EXCEPT !.poll = @ + 1]
     /\ Taken
     /\ callbacks' = callbacks \ {c}
     /\ UNCHANGED <<conversion_generation, conversion, conversion_selected>>
  \/ CancelPendingZenzConversion(1) /\ callbacks' = callbacks \ {c}

\* Mutant: the polls are not counted.
PollConversion_Endless(c) ==
  /\ Taken
  /\ UNCHANGED <<conversionVars, callbacks>>

\* No answer yet: poll again, unless the time or the polls are used up.
PollConversion(c) ==
  \/ /\ pending_conversion.poll + 1 < MaxPoll
     /\ pending_conversion' = [pending_conversion EXCEPT !.poll = @ + 1]
     /\ Taken
     /\ UNCHANGED <<conversion_generation, conversion, conversion_selected,
                    callbacks>>
  \/ CancelPendingZenzConversion(1) /\ callbacks' = callbacks \ {c}

ApplyZenzConversion(c) ==
  /\ c.type = "APPLY_ZENZ_CONVERSION"
  /\ \/ /\ IsCurrentZenzConversionCallback(c)
        /\ IF TakeResult(pending_conversion.generation)
           THEN ApplyZenzConversionResult(c) ELSE PollConversion(c)
     \/ /\ ~IsCurrentZenzConversionCallback(c)
        /\ AfterNothing
        /\ callbacks' = callbacks \ {c}
  /\ UNCHANGED <<context, suggestionVars>>

IsCurrentZenzSuggestionCallback(c) ==
  /\ pending_suggestion # None /\ state # "CONVERSION"
  /\ pending_suggestion.key = key
  /\ c = SuggestionCallback(pending_suggestion)

\* The first callback, after kZenzSuggestionDebounceMsec, submits.
SubmitSuggestion ==
  /\ ~pending_suggestion.submitted
  /\ pending_suggestion' = [pending_suggestion EXCEPT !.submitted = TRUE]
  /\ Submit(Request("suggestion", pending_suggestion.generation,
                    pending_suggestion.key))
  /\ UNCHANGED <<suggestion, suggestion_selected, callbacks>>

\* The answer is shown, or refused.
ApplyZenzSuggestionResult(c) ==
  /\ pending_suggestion.submitted
  /\ TakeResult(pending_suggestion.generation)
  /\ Taken
  /\ pending_suggestion' = None
  /\ callbacks' = callbacks \ {c}
  /\ \/ /\ result.key = pending_suggestion.key
        /\ suggestion' = [generation |-> pending_suggestion.generation,
                          key |-> pending_suggestion.key, answer |-> result]
        /\ suggestion_selected' = FALSE
     \/ UNCHANGED <<suggestion, suggestion_selected>>

PollSuggestion(c) ==
  /\ pending_suggestion.submitted
  /\ ~TakeResult(pending_suggestion.generation)
  /\ Taken
  /\ \/ /\ pending_suggestion.poll + 1 < MaxPoll
        /\ pending_suggestion' = [pending_suggestion EXCEPT !.poll = @ + 1]
        /\ UNCHANGED callbacks
     \/ pending_suggestion' = None /\ callbacks' = callbacks \ {c}
  /\ UNCHANGED <<suggestion, suggestion_selected>>

ApplyZenzSuggestion(c) ==
  /\ c.type = "APPLY_ZENZ_SUGGESTION"
  /\ \/ /\ IsCurrentZenzSuggestionCallback(c)
        /\ SubmitSuggestion \/ ApplyZenzSuggestionResult(c) \/ PollSuggestion(c)
     \/ /\ ~IsCurrentZenzSuggestionCallback(c)
        /\ callbacks' = callbacks \ {c}
        /\ UNCHANGED <<pending_suggestion, suggestion, suggestion_selected,
                       service>>
  /\ UNCHANGED <<context, conversionVars, suggestion_generation>>

-----------------------------------------------------------------------------
\* The commands of keys, by the part of the keymap most of them belong to.
CompositionKeys ==
  \/ \E k \in Keys : \/ InsertCharacter(k) \/ InsertAndConvert(k)
                     \/ InsertAndCommit(k)
  \/ Backspace \/ MoveCursor \/ EditCancel \/ Convert \/ CommitKey
  \/ CommitFirstSuggestion

ConversionKeys ==
  \/ ConvertToTransliteration \/ ConvertWithoutHistory \/ PredictAndConvert
  \/ MoveCandidate \/ ConvertCancel \/ CommitSegment

\* The session commands.
SessionCommands ==
  \/ \E k \in Keys : ConvertReverse(k)
  \/ Revert \/ SelectCandidate \/ SubmitCommand \/ CommitMozcCandidate
  \/ CommitZenzCandidate

WithinBounds ==
  /\ conversion_generation < MaxGeneration
  /\ suggestion_generation < MaxGeneration
  /\ Cardinality(callbacks) < MaxCallbacks

\* A command of a key, which others may follow, or a session command.
UserActs ==
  \/ /\ more' \in BOOLEAN
     /\ CompositionKeys \/ ConversionKeys \/ OtherCommand
  \/ ~more /\ more' = FALSE /\ SessionCommands

\* The callbacks that what is pending needs and the client does not have.
Unasked ==
  ({ConversionCallback(p) : p \in {pending_conversion} \ {None}}
     \cup {SuggestionCallback(p) : p \in {pending_suggestion} \ {None}})
    \ callbacks

\* The history variables, beside every step.
History ==
  /\ dropped' = IF more' THEN Unasked' ELSE dropped \cap Unasked'
  /\ sequenced' = (sequenced \/ more')

\* While a key has more commands, the session does nothing else.
User == WithinBounds /\ UserActs /\ (more' => WithinBounds') /\ History

Deliver(c) ==
  /\ ~more /\ more' = FALSE
  /\ ApplyZenzConversion(c) \/ ApplyZenzSuggestion(c)

Client == (\E c \in callbacks : Deliver(c)) /\ History

Worker == (WorkerTakes \/ WorkerStores) /\ History

Next == User \/ Client \/ Worker

Spec == Init /\ [][Next]_vars

\* A key's commands come to an end, and the client sends the callbacks it was
\* given: between two keys its timer gets its turn, however fast they come.
\* Nothing is assumed of the worker: an inference may hang.
FairSpec == Spec /\ SF_vars(Client) /\ WF_vars(User /\ more /\ ~more')

-----------------------------------------------------------------------------
Requests == [kind : {"conversion", "suggestion"}, generation : Nat, key : Keys]

Answers == [kind : {"conversion", "suggestion", "feedback"}, generation : Nat,
            key : Keys]

Candidates == [generation : Nat, key : Keys, answer : Answers]

PendingConversions == [generation : Nat, key : Keys, poll : Nat]

PendingSuggestions ==
  [generation : Nat, key : Keys, submitted : BOOLEAN, poll : Nat]

Callbacks == [type : {"APPLY_ZENZ_CONVERSION", "APPLY_ZENZ_SUGGESTION"},
              generation : Nat, key : Keys]

\* Every variable holds a value of its type.
TypeOK ==
  /\ state \in States
  /\ key \in Keys \cup {Empty}
  /\ conversion_generation \in Nat
  /\ pending_conversion \in PendingConversions \cup {None}
  /\ conversion \in Candidates \cup {None}
  /\ conversion_selected \in BOOLEAN
  /\ suggestion_generation \in Nat
  /\ pending_suggestion \in PendingSuggestions \cup {None}
  /\ suggestion \in Candidates \cup {None}
  /\ suggestion_selected \in BOOLEAN
  /\ request \in Requests \cup {None}
  /\ result \in Requests \cup {None}
  /\ running \in Requests \cup {None}
  /\ callbacks \subseteq Callbacks /\ dropped \subseteq Callbacks
  /\ more \in BOOLEAN /\ sequenced \in BOOLEAN

\* What a candidate shows answers the request it was made for (or is a value
\* the user accepted before), not one that was cancelled while the inference
\* was running.
IsOwnAnswer(kind, candidate) ==
  candidate.answer \in {Request(k, candidate.generation, candidate.key) :
                          k \in {kind, "feedback"}}

\* The conversion shown to the user is the answer to its own request,
\* although cancelled inferences run to their end and answers to suggestions
\* go through the same slot: "Session will drop it by generation"
\* (zenz_conversion_service.cc).
AnswersAreKeptApart ==
  conversion # None => IsOwnAnswer("conversion", conversion)

\* The same as far as it holds: only when some key ran several commands, each
\* of which advanced the suggestion's generation, may the answer be that to a
\* suggestion of the same generation and reading.
ConversionIsOwnAnswer ==
  conversion # None =>
    \/ IsOwnAnswer("conversion", conversion)
    \/ sequenced /\ IsOwnAnswer("suggestion", conversion)

\* "the maximum time the session keeps polling the async worker after the
\* request has been submitted" (session.cc): between two keys, the client holds
\* the callback of a submitted conversion that is still wanted.
ConversionIsPolled ==
  ~more /\ pending_conversion # None /\ pending_conversion.key = key
    => ConversionCallback(pending_conversion) \in callbacks

\* The same as far as it holds, and for suggestions: while a request is current
\* the client holds its callback, unless that was in the output of a command
\* which another one of the same key followed.
PendingHasCallback ==
  /\ pending_conversion # None /\ pending_conversion.key = key
       => ConversionCallback(pending_conversion) \in callbacks \cup dropped
  /\ pending_suggestion # None /\ pending_suggestion.key = key
       => SuggestionCallback(pending_suggestion) \in callbacks \cup dropped

\* Each kind of request lives in its own states only: once a key is done, no
\* conversion, pending or shown, outlives the state CONVERSION (typing would
\* resume over it), and no suggestion is ever pending in it.
RequestsFollowState ==
  IF state = "CONVERSION" THEN pending_suggestion = None
  ELSE more \/ (pending_conversion = None /\ conversion = None)

\* SUBMIT has an effect whenever there is a preedit that is being typed: the
\* highlighted suggestion, which Commit would commit, is one that
\* CommitZenzSuggestion accepts ("SUBMIT session command is accepted in any
\* status.  [...] Preedit text becomes empty.", commands.proto).
SubmitTakesEffect ==
  state # "CONVERSION" /\ suggestion_selected /\ suggestion # None /\ key # Empty
    => SuggestionIsCurrent

\* A request that stays current is polled for a bounded time only, also when
\* its inference hangs or its result was dropped from the slot: if there is
\* always one from some time on, it is ever again a new one.  The exception is
\* the one of PendingHasCallback.
PollingEnds ==
  LET Conversion == /\ pending_conversion # None /\ pending_conversion.key = key
                    /\ ConversionCallback(pending_conversion) \notin dropped
      Suggestion == /\ pending_suggestion # None
                    /\ SuggestionCallback(pending_suggestion) \notin dropped
  IN /\ <>[]Conversion =>
          []<><<conversion_generation' # conversion_generation>>_conversion_generation
     /\ <>[]Suggestion =>
          []<><<suggestion_generation' # suggestion_generation>>_suggestion_generation

=============================================================================
