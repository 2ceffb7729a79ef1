------------------------ MODULE ZenzConversionProofs ------------------------
(***************************************************************************)
(* Proofs about ZenzConversion, for any readings and bounds.  A handler is  *)
(* summarised by what it does to the conversion (ConversionQuiet, or a      *)
(* scheduled or learnt conversion), to the suggestion (SuggestionQuiet) and *)
(* to the two generations; the invariants follow from the summaries.        *)
(***************************************************************************)
EXTENDS ZenzConversion, TLAPS

\* Handlers that ask for no conversion only advance the generation and drop
\* what there is.
ConversionQuiet ==
  /\ conversion_generation' \in Nat
  /\ conversion_generation' >= conversion_generation
  /\ pending_conversion' \in {None, pending_conversion}
  /\ conversion' \in {None, conversion}
  /\ conversion_selected' \in BOOLEAN
  /\ request' \in {None, request}
  /\ result' \in {None, result}
  /\ running' = running

\* A step that leaves no conversion behind and advances by at least n.
ConversionGone(n) ==
  /\ ConversionQuiet
  /\ conversion_generation' >= conversion_generation + n
  /\ pending_conversion' = None
  /\ conversion' = None

\* What Output, Suggest and the resets may do to the pending suggestion.
PendingQuiet ==
  /\ suggestion_generation' \in Nat
  /\ suggestion_generation' >= suggestion_generation
  /\ pending_suggestion' \in PendingSuggestions \cup {None}
  /\ pending_suggestion' # None
       => pending_suggestion'.generation <= suggestion_generation'
  /\ callbacks' \subseteq Callbacks

SuggestionQuiet ==
  /\ PendingQuiet
  /\ suggestion' \in {None, suggestion}
  /\ suggestion_selected' \in BOOLEAN

\* The suggestion's generation is not ahead of the conversion's, except by
\* one in CONVERSION, where Output may just have dropped a suggestion.  Every
\* command of a key may advance it, but only the last clears the conversion.
GenerationInv ==
  /\ state # "CONVERSION" => suggestion_generation <= conversion_generation
  /\ suggestion_generation <= conversion_generation + 1

\* Nothing in the service is newer than the session's generations, and what
\* carries the generation of the pending conversion is its request.
RequestOK(r) ==
  r # None =>
    /\ r.kind = "conversion" => r.generation <= conversion_generation
    /\ r.kind = "suggestion" => r.generation <= suggestion_generation
    /\ pending_conversion # None
       /\ r.generation = pending_conversion.generation
         => r = Request("conversion", pending_conversion.generation,
                        pending_conversion.key)

ServiceInv == RequestOK(request) /\ RequestOK(running) /\ RequestOK(result)

PendingInv ==
  /\ pending_suggestion # None
       => pending_suggestion.generation <= suggestion_generation
  /\ pending_conversion # None
       => pending_conversion.generation <= conversion_generation

\* The invariant that holds for every client.
BaseInv == TypeOK /\ RequestsFollowState /\ PendingInv

\* The one that keeps the answers apart, as long as no key runs several
\* commands; the zero query suggestion of mobile clients lets the suggestion's
\* generation overtake as well.
IInv ==
  /\ BaseInv /\ ConversionIsOwnAnswer
  /\ more => sequenced
  /\ ~sequenced => GenerationInv /\ ServiceInv

-----------------------------------------------------------------------------
\* None is no request, candidate or callback.
LEMMA NoneIsNothing ==
  /\ None \notin Requests /\ None \notin Candidates
  /\ None \notin PendingConversions /\ None \notin PendingSuggestions
BY EmptyAssumption DEF None, Requests, Candidates, PendingConversions,
                       PendingSuggestions

LEMMA OneType == ASSUME NEW c PROVE One(c) \in {0, 1}
BY DEF One

\* The handlers' parts.
LEMMA ClearLemma ==
  ASSUME TypeOK, NEW n \in Nat, ClearZenzConversionState(n)
  PROVE  ConversionGone(n)
BY DEF TypeOK, ClearZenzConversionState, CancelPending, ConversionGone,
       ConversionQuiet

LEMMA CancelLemma ==
  ASSUME TypeOK, NEW n \in Nat, CancelPendingZenzConversion(n)
  PROVE  ConversionQuiet /\ conversion_generation' = conversion_generation + n
BY DEF TypeOK, CancelPendingZenzConversion, CancelPending, ConversionQuiet

LEMMA KeptLemma ==
  ASSUME TypeOK, UNCHANGED <<conversionVars, service>>
  PROVE  ConversionQuiet /\ UNCHANGED conversion_generation
BY DEF TypeOK, ConversionQuiet, conversionVars, service

LEMMA DropsLemma ==
  ASSUME TypeOK, NEW c \in Nat, NEW n \in Nat, Drops(c, n)
  PROVE  /\ ConversionQuiet
         /\ conversion_generation' >= conversion_generation + (c + n)
         /\ c > 0 => pending_conversion' = None /\ conversion' = None
<1> DEFINE m == c + n
<1>1. m \in Nat /\ conversion_generation \in Nat
  BY DEF TypeOK
<1>2. CASE c > 0
  <2>1. ClearZenzConversionState(m)
    BY <1>2 DEF Drops
  <2> HIDE DEF m
  <2>2. ConversionGone(m)
    BY <1>1, <2>1, ClearLemma
  <2> QED
    BY <1>2, <2>2 DEF m, ConversionGone
<1>3. CASE ~(c > 0) /\ n > 0
  <2>1. CancelPendingZenzConversion(n) /\ c = 0
    BY <1>3 DEF Drops
  <2> QED
    BY <1>1, <2>1, CancelLemma
<1>4. CASE ~(c > 0) /\ ~(n > 0)
  <2>1. UNCHANGED <<conversionVars, service>> /\ c = 0 /\ n = 0
    BY <1>4 DEF Drops
  <2> QED
    BY <1>1, <2>1, KeptLemma
<1> QED
  BY <1>2, <1>3, <1>4

\* How often a handler clears and cancels around its own work.
LEMMA CountTypes == CancelsBefore \in {0, 1} /\ ClearsBefore \in {0, 1}
BY OneType DEF CancelsBefore, ClearsBefore

LEMMA ClearsAfterType ==
  ASSUME NEW s
  PROVE  /\ ClearsAfter(s) \in {0, 1}
         /\ s # "CONVERSION" => more' \/ ClearsAfter(s) = 1
BY OneType DEF ClearsAfter, One

LEMMA BeforeLemma ==
  ASSUME TypeOK, NEW n \in Nat, BeforeConversionCommand(n)
  PROVE  ConversionQuiet
<1> DEFINE c == ClearsBefore
           a == CancelsBefore + n
<1>1. c \in Nat /\ a \in Nat /\ Drops(c, a)
  BY CountTypes DEF BeforeConversionCommand
<1> HIDE DEF c, a
<1> QED
  BY <1>1, DropsLemma

LEMMA AfterLemma ==
  ASSUME TypeOK, AfterNothing
  PROVE  /\ ConversionQuiet
         /\ state # "CONVERSION" =>
              \/ more'
              \/ pending_conversion' = None /\ conversion' = None
<1> DEFINE c == ClearsAfter(state)
<1>1. /\ c \in Nat /\ (state # "CONVERSION" => more' \/ c > 0)
      /\ Drops(c, 0)
  BY ClearsAfterType DEF AfterNothing
<1> HIDE DEF c
<1> QED
  BY <1>1, DropsLemma

LEMMA ResetLemma ==
  ASSUME TypeOK, NEW n \in Nat, ResetSuggestion(n), UNCHANGED callbacks
  PROVE  /\ SuggestionQuiet
         /\ suggestion_generation' = suggestion_generation + n
         /\ pending_suggestion' = None
<1>1. suggestion_selected' \in BOOLEAN
  BY Zenon DEF ResetSuggestion
<1> QED
  BY <1>1 DEF TypeOK, ResetSuggestion, SuggestionQuiet, PendingQuiet

LEMMA SuggestLemma ==
  ASSUME TypeOK, NEW k \in Keys \cup {Empty}, Suggest(k)
  PROVE  /\ SuggestionQuiet
         /\ suggestion_generation' = suggestion_generation + 1
<1>1. CASE ResetSuggestion(1) /\ UNCHANGED callbacks
  BY <1>1, ResetLemma
<1> DEFINE p == [generation |-> suggestion_generation + 1, key |-> k,
                 submitted |-> FALSE, poll |-> 0]
<1>2. CASE /\ LongEnough(k)
           /\ suggestion_generation' = suggestion_generation + 1
           /\ pending_suggestion' = p
           /\ suggestion' = None
           /\ suggestion_selected' = FALSE
           /\ Asks(SuggestionCallback(p))
  <2>1. k \in Keys
    BY <1>2 DEF LongEnough, CharsLen
  <2>2. /\ p \in PendingSuggestions /\ p.generation = suggestion_generation + 1
        /\ SuggestionCallback(p) \in Callbacks
    BY <2>1 DEF PendingSuggestions, SuggestionCallback, Callbacks, TypeOK
  <2>3. suggestion_selected' \in BOOLEAN
    BY <1>2, Zenon
  <2> HIDE DEF p
  <2> QED
    BY <1>2, <2>2, <2>3 DEF TypeOK, SuggestionQuiet, PendingQuiet, Asks
<1> QED
  BY <1>1, <1>2 DEF Suggest

LEMMA OutputLemma ==
  ASSUME TypeOK, PendingInv, NEW s, NEW k, Output(s, k)
  PROVE  /\ PendingQuiet
         /\ suggestion_generation' <= suggestion_generation + 1
         /\ s = "CONVERSION" => pending_suggestion' = None
         /\ pending_suggestion = None
              => suggestion_generation' = suggestion_generation
<1>1. CASE pending_suggestion = None
  BY <1>1 DEF Output, TypeOK, PendingQuiet
<1>2. CASE /\ pending_suggestion # None
           /\ s # "CONVERSION" /\ pending_suggestion.key = k
  <2>1. SuggestionCallback(pending_suggestion) \in Callbacks
    BY <1>2 DEF TypeOK, SuggestionCallback, Callbacks, PendingSuggestions
  <2> QED
    BY <1>2, <2>1 DEF Output, Asks, TypeOK, PendingQuiet, PendingInv
<1>3. CASE /\ pending_suggestion # None
           /\ ~(s # "CONVERSION" /\ pending_suggestion.key = k)
  BY <1>3 DEF Output, TypeOK, PendingQuiet
<1> QED
  BY <1>1, <1>2, <1>3

LEMMA CommittedLemma ==
  ASSUME TypeOK, PendingInv, Committed
  PROVE  /\ state' = "PRECOMPOSITION" /\ key' = Empty
         /\ SuggestionQuiet
         /\ suggestion_generation' <= suggestion_generation + 1
         /\ ~zero_query_suggestion /\ pending_suggestion = None
              => suggestion_generation' = suggestion_generation
<1>1. CASE zero_query_suggestion
  <2>1. ResetSuggestion(1) /\ UNCHANGED callbacks
    BY <1>1 DEF Committed
  <2> QED
    BY <1>1, <2>1, ResetLemma DEF Committed, TypeOK
<1>2. CASE ~zero_query_suggestion
  <2>1. /\ Output("PRECOMPOSITION", Empty)
        /\ UNCHANGED <<suggestion, suggestion_selected>>
    BY <1>2 DEF Committed
  <2> QED
    BY <1>2, <2>1, OutputLemma DEF Committed, TypeOK, SuggestionQuiet
<1> QED
  BY <1>1, <1>2
-----------------------------------------------------------------------------
\* What a user's operation may do.
Summary ==
  /\ state' \in States /\ key' \in Keys \cup {Empty}
  /\ SuggestionQuiet
  /\ \/ ConversionQuiet
     \/ ApplyFeedback
     \/ /\ ScheduleConversion
        /\ state = "COMPOSITION"
        /\ suggestion_generation' = suggestion_generation + 1
  /\ RequestsFollowState'
  /\ ~zero_query_suggestion /\ ~more' /\ GenerationInv => GenerationInv'

\* The generations, of the conversion (c, then d) and the suggestion (s, t).
LEMMA Behind ==
  ASSUME NEW c \in Nat, NEW d \in Nat, NEW s \in Nat, NEW t \in Nat,
         \/ d >= c + 1 /\ s <= c + 1 /\ t <= s + 1
         \/ d >= c /\ s <= c + 1 /\ t = s
         \/ d >= c /\ s <= c /\ t <= s + 1
         \/ t <= d
  PROVE  t <= d + 1
OBVIOUS

\* An operation that leaves CONVERSION, or stays out of it, leaves nothing of
\* the conversion, and advances its generation enough, unless another command
\* of the key follows.
LEMMA DropsSummary ==
  ASSUME BaseInv, NEW c \in Nat, NEW n \in Nat, Drops(c, n),
         state' \in States, key' \in Keys \cup {Empty}, SuggestionQuiet,
         state' = "CONVERSION" => pending_suggestion' = None /\ n >= 1,
         state' # "CONVERSION" => more' \/ c >= 1,
         suggestion_generation' <= suggestion_generation + 1,
         \/ more' \/ state # "CONVERSION" \/ state' = "CONVERSION" \/ c + n >= 2
         \/ ~zero_query_suggestion => suggestion_generation' = suggestion_generation
  PROVE  Summary
<1>1. /\ ConversionQuiet
      /\ conversion_generation' >= conversion_generation + (c + n)
      /\ c > 0 => pending_conversion' = None /\ conversion' = None
  BY DropsLemma DEF BaseInv
<1>2. RequestsFollowState'
  BY <1>1 DEF RequestsFollowState, States
<1>3. ASSUME ~zero_query_suggestion, ~more', GenerationInv PROVE GenerationInv'
  <2>1. /\ conversion_generation \in Nat /\ conversion_generation' \in Nat
        /\ suggestion_generation \in Nat /\ suggestion_generation' \in Nat
    BY <1>1 DEF ConversionQuiet, SuggestionQuiet, PendingQuiet, BaseInv, TypeOK
  <2>2. \/ state # "CONVERSION" \/ state' = "CONVERSION" \/ c + n >= 2
        \/ suggestion_generation' = suggestion_generation
    BY <1>3
  <2>3. c + n >= 1
    BY <1>3
  <2>4. suggestion_generation' <= conversion_generation' + 1
    <3>1. conversion_generation' >= conversion_generation + 1
      BY <1>1, <2>1, <2>3
    <3>2. suggestion_generation <= conversion_generation + 1
      BY <1>3 DEF GenerationInv
    <3> QED
      BY <2>1, <3>1, <3>2, Behind
  <2>5. ASSUME state' # "CONVERSION"
        PROVE  suggestion_generation' <= conversion_generation'
    <3>1. CASE state # "CONVERSION"
      <4>1. suggestion_generation <= conversion_generation
        BY <1>3, <3>1 DEF GenerationInv
      <4> QED
        BY <1>1, <2>1, <2>3, <4>1
    <3>2. CASE c + n >= 2 \/ suggestion_generation' = suggestion_generation
      <4>1. suggestion_generation <= conversion_generation + 1
        BY <1>3 DEF GenerationInv
      <4> QED
        BY <1>1, <2>1, <2>3, <3>2, <4>1
    <3> QED
      BY <2>2, <2>5, <3>1, <3>2
  <2> QED
    BY <2>4, <2>5 DEF GenerationInv
<1> QED
  BY <1>1, <1>2, <1>3 DEF Summary

LEMMA TypingSummary ==
  ASSUME BaseInv, NEW k \in Keys,
         InsertCharacter(k) \/ InsertAndConvert(k) \/ InsertAndCommit(k)
  PROVE  Summary
<1> USE DEF BaseInv
<1> DEFINE m == ClearsInserting(k)
<1>1. m \in Nat /\ (state = "CONVERSION" => m >= 1)
  BY OneType DEF ClearsInserting, One
<1>2. CASE InsertCharacter(k)
  <2> DEFINE c == m + ClearsAfter("COMPOSITION")
             n == CancelsBefore
  <2>1. /\ Drops(c, n) /\ Suggest(k) /\ state' = "COMPOSITION" /\ key' = k
    BY <1>2 DEF InsertCharacter
  <2> HIDE DEF m
  <2>2. /\ c \in Nat /\ n \in Nat /\ (more' \/ c >= 1)
        /\ state = "CONVERSION" => more' \/ c + n >= 2
    BY <1>1, CountTypes, ClearsAfterType
  <2> HIDE DEF c, n
  <2>3. SuggestionQuiet /\ suggestion_generation' = suggestion_generation + 1
    BY <2>1, SuggestLemma
  <2> QED
    BY <2>1, <2>2, <2>3, DropsSummary DEF States, TypeOK
<1>3. CASE InsertAndConvert(k)
  <2> DEFINE c == m + ClearsAfter(state')
             n == CancelsBefore + 2
  <2>1. /\ Drops(c, n)
        /\ ResetSuggestion(1) /\ UNCHANGED callbacks
        /\ state' \in {"CONVERSION", "COMPOSITION"} /\ key' = k
    BY <1>3 DEF InsertAndConvert
  <2> HIDE DEF m
  <2>2. /\ c \in Nat /\ n \in Nat /\ n >= 1 /\ c + n >= 2
        /\ state' # "CONVERSION" => more' \/ c >= 1
    BY <1>1, CountTypes, ClearsAfterType
  <2> HIDE DEF c, n
  <2>3. /\ SuggestionQuiet /\ pending_suggestion' = None
        /\ suggestion_generation' = suggestion_generation + 1
    BY <2>1, ResetLemma
  <2> QED
    BY <2>1, <2>2, <2>3, DropsSummary DEF States, TypeOK
<1>4. CASE InsertAndCommit(k)
  <2> DEFINE c == m + ClearsAfter("PRECOMPOSITION")
             n == CancelsBefore
  <2>1. Drops(c, n) /\ Committed
    BY <1>4 DEF InsertAndCommit
  <2> HIDE DEF m
  <2>2. /\ c \in Nat /\ n \in Nat /\ (more' \/ c >= 1)
        /\ state = "CONVERSION" => more' \/ c + n >= 2
    BY <1>1, CountTypes, ClearsAfterType
  <2> HIDE DEF c, n
  <2> QED
    BY <2>1, <2>2, CommittedLemma, DropsSummary DEF States, TypeOK
<1> QED
  BY <1>2, <1>3, <1>4

LEMMA EditingSummary ==
  ASSUME BaseInv, Backspace \/ MoveCursor \/ Revert \/ EditCancel
  PROVE  Summary
<1> USE DEF BaseInv
<1>1. CASE Backspace
  <2> DEFINE c == 1 + ClearsAfter(state')
  <2>1. Drops(c, 1) /\ state = "COMPOSITION"
    BY <1>1 DEF Backspace
  <2>2. c \in Nat /\ c >= 1
    BY ClearsAfterType
  <2> HIDE DEF c
  <2>3. CASE /\ state' = "PRECOMPOSITION" /\ key' = Empty
             /\ Output("PRECOMPOSITION", Empty)
             /\ UNCHANGED <<suggestion, suggestion_selected>>
    <3>1. SuggestionQuiet /\ suggestion_generation' <= suggestion_generation + 1
      BY <2>3, OutputLemma DEF SuggestionQuiet, TypeOK
    <3> QED
      BY <2>1, <2>2, <2>3, <3>1, DropsSummary DEF States
  <2>4. ASSUME NEW k \in Keys, key' = k, UNCHANGED state, Suggest(k)
        PROVE  Summary
    <3>1. /\ SuggestionQuiet
          /\ suggestion_generation' = suggestion_generation + 1
      BY <2>4, SuggestLemma
    <3> QED
      BY <2>1, <2>2, <2>4, <3>1, DropsSummary DEF States, TypeOK
  <2> QED
    BY <1>1, <2>3, <2>4 DEF Backspace
<1>2. CASE MoveCursor
  <2> DEFINE c == ClearsAfter(state)
  <2>1. Drops(c, 0) /\ state = "COMPOSITION" /\ UNCHANGED <<state, key>>
    BY <1>2 DEF MoveCursor, AfterNothing, context
  <2>2. c \in Nat /\ (more' \/ c >= 1)
    BY <2>1, ClearsAfterType
  <2> HIDE DEF c
  <2>3. SuggestionQuiet /\ suggestion_generation' = suggestion_generation + 1
    BY <1>2, SuggestLemma DEF MoveCursor, TypeOK
  <2> QED
    BY <2>1, <2>2, <2>3, DropsSummary DEF States, TypeOK
<1>3. ASSUME NEW d \in Nat, NEW n \in Nat, Cancelled(d, n) PROVE Summary
  <2> DEFINE c == d + 1 + ClearsAfter("PRECOMPOSITION")
  <2>1. /\ Drops(c, n) /\ state' = "PRECOMPOSITION" /\ key' = Empty
    BY <1>3 DEF Cancelled
  <2>2. c \in Nat /\ c >= 1 /\ (more' \/ c + n >= 2)
    BY ClearsAfterType
  <2> HIDE DEF c
  <2>3. SuggestionQuiet /\ suggestion_generation' <= suggestion_generation + 1
    BY <1>3, OutputLemma DEF Cancelled, SuggestionQuiet, TypeOK
  <2> QED
    BY <2>1, <2>2, <2>3, DropsSummary DEF States
<1>4. CASE Revert
  BY <1>3, <1>4 DEF Revert
<1>5. CASE EditCancel
  BY <1>3, <1>5, CountTypes DEF EditCancel
<1> QED
  BY <1>1, <1>2, <1>4, <1>5

\* An operation that ends in CONVERSION and asks for nothing.
LEMMA QuietSummary ==
  ASSUME BaseInv, ConversionQuiet, SuggestionQuiet,
         state' = "CONVERSION", key' \in Keys \cup {Empty},
         pending_suggestion' = None,
         suggestion_generation' <= suggestion_generation + 1,
         state = "CONVERSION" => suggestion_generation' = suggestion_generation
  PROVE  Summary
<1>1. RequestsFollowState'
  BY DEF RequestsFollowState
<1>2. /\ conversion_generation \in Nat /\ conversion_generation' \in Nat
      /\ suggestion_generation \in Nat /\ suggestion_generation' \in Nat
      /\ conversion_generation' >= conversion_generation
  BY DEF ConversionQuiet, SuggestionQuiet, PendingQuiet, BaseInv, TypeOK
<1>3. ASSUME GenerationInv PROVE GenerationInv'
  <2>1. \/ /\ suggestion_generation <= conversion_generation + 1
           /\ suggestion_generation' = suggestion_generation
        \/ /\ suggestion_generation <= conversion_generation
           /\ suggestion_generation' <= suggestion_generation + 1
    BY <1>3 DEF GenerationInv
  <2>2. suggestion_generation' <= conversion_generation' + 1
    BY <1>2, <2>1, Behind
  <2> QED
    BY <2>2 DEF GenerationInv
<1> QED
  BY <1>1, <1>3 DEF Summary, States

LEMMA OutputInConversion ==
  ASSUME BaseInv, NEW k, Output("CONVERSION", k),
         suggestion' = suggestion, suggestion_selected' \in BOOLEAN
  PROVE  /\ SuggestionQuiet /\ pending_suggestion' = None
         /\ suggestion_generation' <= suggestion_generation + 1
         /\ state = "CONVERSION"
              => suggestion_generation' = suggestion_generation
BY OutputLemma DEF BaseInv, SuggestionQuiet, RequestsFollowState

\* Conversions without Zenz.
LEMMA ConversionSummary ==
  ASSUME BaseInv,
         \/ ConvertToTransliteration \/ ConvertWithoutHistory
         \/ PredictAndConvert \/ MoveCandidate
         \/ \E k \in Keys : ConvertReverse(k)
  PROVE  Summary
<1> USE DEF BaseInv
<1>1. CASE ConvertToTransliteration
  <2>1. ConversionQuiet
    BY <1>1, BeforeLemma, KeptLemma DEF ConvertToTransliteration
  <2> QED
    BY <1>1, <2>1, OutputInConversion, QuietSummary
    DEF ConvertToTransliteration, TypeOK
<1>2. CASE ConvertWithoutHistory
  <2>1. CASE /\ state' = "CONVERSION" /\ BeforeConversionCommand(1)
             /\ Output("CONVERSION", key)
    <3>1. ConversionQuiet
      BY <2>1, BeforeLemma
    <3> QED
      BY <1>2, <2>1, <3>1, OutputInConversion, QuietSummary
      DEF ConvertWithoutHistory, TypeOK
  <2>2. CASE UNCHANGED <<state, suggestion_generation, pending_suggestion,
                         callbacks>>
             /\ Drops(ClearsBefore + ClearsAfter(state), CancelsBefore + 1)
    <3>1. SuggestionQuiet
      BY <1>2, <2>2 DEF ConvertWithoutHistory, SuggestionQuiet, PendingQuiet,
                        PendingInv, TypeOK
    <3> DEFINE c == ClearsBefore + ClearsAfter(state)
               n == CancelsBefore + 1
    <3>2. c \in Nat /\ n \in Nat /\ (state # "CONVERSION" => more' \/ c >= 1)
      BY CountTypes, ClearsAfterType
    <3>3. Drops(c, n)
      BY <2>2
    <3> HIDE DEF c, n
    <3>4. CASE state = "CONVERSION"
      <4>1. ConversionQuiet
        BY <3>2, <3>3, DropsLemma
      <4> QED
        BY <1>2, <2>2, <3>1, <3>4, <4>1, QuietSummary
        DEF ConvertWithoutHistory, TypeOK, RequestsFollowState
    <3>5. CASE state # "CONVERSION"
      BY <1>2, <2>2, <3>1, <3>2, <3>3, <3>5, DropsSummary
      DEF ConvertWithoutHistory, TypeOK
    <3> QED
      BY <3>4, <3>5
  <2> QED
    BY <1>2, <2>1, <2>2 DEF ConvertWithoutHistory
<1>3. CASE PredictAndConvert
  <2>1. ConversionQuiet
    <3> DEFINE m == CancelsBefore + 2
    <3>1. m \in Nat /\ conversion_generation + CancelsBefore + 1 \in Nat
          /\ conversion_generation + CancelsBefore + 1 >= conversion_generation
      BY CountTypes DEF TypeOK
    <3>2. CASE ClearZenzConversionState(m)
      <4> HIDE DEF m
      <4> QED
        BY <3>1, <3>2, ClearLemma DEF ConversionGone
    <3>3. CASE ~(ClearsBefore = 1)
      <4>1. conversion_selected' \in BOOLEAN
        BY <1>3, <3>3
        DEF PredictAndConvert, MoveZenzConversionCandidate, TypeOK
      <4> QED
        BY <1>3, <3>1, <3>3, <4>1
        DEF PredictAndConvert, ConversionQuiet, CancelPending, TypeOK
    <3> QED
      BY <1>3, <3>2, <3>3 DEF PredictAndConvert
  <2> QED
    BY <1>3, <2>1, OutputInConversion, QuietSummary
    DEF PredictAndConvert, context, TypeOK
<1>4. CASE MoveCandidate
  <2>1. conversion_selected' \in BOOLEAN
    BY <1>4 DEF MoveCandidate, MoveZenzConversionCandidate, TypeOK
  <2>2. ConversionQuiet
    BY <1>4, <2>1 DEF MoveCandidate, ConversionQuiet, CancelPending, service,
                      TypeOK
  <2> QED
    BY <1>4, <2>2, OutputInConversion, QuietSummary
    DEF MoveCandidate, context, TypeOK
<1>5. ASSUME NEW k \in Keys, ConvertReverse(k) PROVE Summary
  <2>1. ConversionQuiet
    BY <1>5, KeptLemma DEF ConvertReverse
  <2> QED
    BY <1>5, <2>1, OutputInConversion, QuietSummary
    DEF ConvertReverse, TypeOK
<1> QED
  BY <1>1, <1>2, <1>3, <1>4, <1>5

\* A handler that did nothing to the reading and nothing to the conversion.
LEMMA AfterSummary ==
  ASSUME BaseInv, AfterNothing, UNCHANGED context, SuggestionQuiet,
         suggestion_generation' <= suggestion_generation + 1,
         state = "CONVERSION" => /\ pending_suggestion' = None
                                 /\ suggestion_generation' = suggestion_generation
  PROVE  Summary
<1>1. CASE state = "CONVERSION"
  BY <1>1, AfterLemma, QuietSummary DEF BaseInv, TypeOK, context
<1>2. CASE state # "CONVERSION"
  <2> DEFINE c == ClearsAfter(state)
  <2>1. Drops(c, 0) /\ UNCHANGED <<state, key>>
    BY DEF AfterNothing, context
  <2>2. c \in Nat /\ (more' \/ c >= 1)
    BY <1>2, ClearsAfterType
  <2> HIDE DEF c
  <2> QED
    BY <1>2, <2>1, <2>2, DropsSummary DEF BaseInv, TypeOK
<1> QED
  BY <1>1, <1>2

LEMMA SuggestionKept ==
  ASSUME BaseInv, UNCHANGED <<suggestionVars, callbacks>>
  PROVE  /\ SuggestionQuiet
         /\ suggestion_generation' = suggestion_generation
         /\ pending_suggestion' = pending_suggestion
BY DEF BaseInv, suggestionVars, SuggestionQuiet, PendingQuiet, PendingInv,
       TypeOK

LEMMA NothingSummary ==
  ASSUME BaseInv, AfterNothing, UNCHANGED <<context, suggestionVars, callbacks>>
  PROVE  Summary
<1>1. UNCHANGED context /\ UNCHANGED <<suggestionVars, callbacks>>
  OBVIOUS
<1>2. /\ suggestion_generation \in Nat
      /\ state = "CONVERSION" => pending_suggestion = None
  BY DEF BaseInv, TypeOK, RequestsFollowState
<1> QED
  BY <1>1, <1>2, SuggestionKept, AfterSummary

\* Committing, with n cancellations.
LEMMA CommittedSummary ==
  ASSUME BaseInv, Committed, NEW c \in Nat, NEW n \in Nat, Drops(c, n),
         more' \/ c >= 1
  PROVE  Summary
<1> USE DEF BaseInv
<1>1. state = "CONVERSION" => pending_suggestion = None
  BY DEF RequestsFollowState
<1> QED
  BY <1>1, CommittedLemma, DropsSummary DEF States

\* The session commands, which no other command follows.
LEMMA CommittedClears ==
  ASSUME BaseInv, Committed, NEW n \in Nat, n >= 1, ClearZenzConversionState(n)
  PROVE  Summary
<1>1. Drops(n, 0)
  BY DEF Drops
<1> QED
  BY <1>1, CommittedSummary

LEMMA ConvertSummary ==
  ASSUME BaseInv, Convert \/ ConvertCancel
  PROVE  Summary
<1> USE DEF BaseInv
<1>1. CASE ConvertCancel
  <2> DEFINE c == ClearsBefore + 1 + ClearsAfter("COMPOSITION")
             n == CancelsBefore
  <2>1. Drops(c, n) /\ Suggest(key) /\ state' = "COMPOSITION" /\ key' = key
    BY <1>1 DEF ConvertCancel
  <2>2. c \in Nat /\ n \in Nat /\ c >= 1 /\ (more' \/ c + n >= 2)
    BY CountTypes, ClearsAfterType
  <2> HIDE DEF c, n
  <2>3. SuggestionQuiet /\ suggestion_generation' = suggestion_generation + 1
    BY <2>1, SuggestLemma DEF TypeOK
  <2> QED
    BY <2>1, <2>2, <2>3, DropsSummary DEF States, TypeOK
<1>2. CASE Convert
  <2>1. /\ ResetSuggestion(1) /\ state = "COMPOSITION" /\ key' = key
    BY <1>2 DEF Convert
  <2>2. CASE UNCHANGED <<state, callbacks>> /\ Drops(ClearsAfter(state), 1)
    <3> DEFINE c == ClearsAfter(state)
    <3>1. c \in Nat /\ (more' \/ c >= 1) /\ Drops(c, 1)
      BY <2>1, <2>2, ClearsAfterType
    <3> HIDE DEF c
    <3>2. SuggestionQuiet /\ suggestion_generation' = suggestion_generation + 1
      BY <2>1, <2>2, ResetLemma
    <3> QED
      BY <2>1, <2>2, <3>1, <3>2, DropsSummary DEF States, TypeOK
  <2>3. CASE /\ state' = "CONVERSION" /\ UNCHANGED callbacks
             /\ CancelPendingZenzConversion(1)
    <3>1. ConversionQuiet
      BY <2>3, CancelLemma
    <3>2. /\ SuggestionQuiet /\ pending_suggestion' = None
          /\ suggestion_generation' = suggestion_generation + 1
      BY <2>1, <2>3, ResetLemma
    <3> QED
      BY <2>1, <2>3, <3>1, <3>2, QuietSummary DEF TypeOK
  <2>4. CASE state' = "CONVERSION" /\ (ApplyFeedback \/ ScheduleConversion)
    <3>1. callbacks' \subseteq Callbacks
      <4>1. CASE ApplyFeedback
        BY <4>1 DEF ApplyFeedback, TypeOK
      <4>2. CASE ScheduleConversion
        <5>1. key \in Keys
          BY <4>2 DEF ScheduleConversion, LongEnough, CharsLen, TypeOK
        <5>2. ConversionCallback(pending_conversion') \in Callbacks
          BY <4>2, <5>1 DEF ScheduleConversion, ConversionCallback, Callbacks,
                            TypeOK
        <5> QED
          BY <4>2, <5>2 DEF ScheduleConversion, Asks, TypeOK
      <4> QED
        BY <2>4, <4>1, <4>2
    <3>2. /\ SuggestionQuiet /\ pending_suggestion' = None
          /\ suggestion_generation' = suggestion_generation + 1
      <4>1. suggestion_selected' \in BOOLEAN
        BY <2>1, Zenon DEF ResetSuggestion
      <4> QED
        BY <2>1, <3>1, <4>1 DEF ResetSuggestion, SuggestionQuiet, PendingQuiet,
                                TypeOK
    <3>3. conversion_generation' = conversion_generation + 2
      BY <2>4 DEF ApplyFeedback, ScheduleConversion
    <3>4. RequestsFollowState'
      BY <2>4, <3>2 DEF RequestsFollowState
    <3>5. ASSUME GenerationInv PROVE GenerationInv'
      <4>1. /\ suggestion_generation <= conversion_generation
            /\ suggestion_generation \in Nat /\ conversion_generation \in Nat
        BY <2>1, <3>5 DEF GenerationInv, TypeOK
      <4> QED
        BY <3>2, <3>3, <4>1 DEF GenerationInv
    <3> QED
      BY <2>1, <2>4, <3>2, <3>4, <3>5 DEF Summary, States, TypeOK
  <2> QED
    BY <1>2, <2>2, <2>3, <2>4 DEF Convert
<1> QED
  BY <1>1, <1>2

LEMMA SelectSummary ==
  ASSUME BaseInv, SelectCandidate \/ OtherCommand
  PROVE  Summary
<1> USE DEF BaseInv
<1>1. CASE OtherCommand
  BY <1>1, NothingSummary DEF OtherCommand
<1>2. CASE /\ HasZenzConversionCandidate
           /\ conversion_selected' = TRUE
           /\ Output(state, key)
           /\ UNCHANGED <<context, conversion_generation, pending_conversion,
                    conversion, suggestion, suggestion_selected, service>>
  <2>1. state = "CONVERSION" /\ UNCHANGED <<state, key>>
    BY <1>2 DEF HasZenzConversionCandidate, context
  <2>2. conversion_selected' \in BOOLEAN
    BY <1>2, Zenon
  <2>3. ConversionQuiet
    BY <1>2, <2>2 DEF ConversionQuiet, service, TypeOK
  <2>4. Output("CONVERSION", key)
    BY <1>2, <2>1
  <2>5. suggestion' = suggestion /\ suggestion_selected' \in BOOLEAN
    BY <1>2 DEF TypeOK
  <2> QED
    BY <2>1, <2>3, <2>4, <2>5, OutputInConversion, QuietSummary DEF TypeOK
<1>3. CASE /\ suggestion # None /\ suggestion.key = key
           /\ suggestion_selected' = TRUE
           /\ Output(state, key)
           /\ AfterNothing
           /\ UNCHANGED <<context, suggestion>>
  <2>1. suggestion_selected' \in BOOLEAN
    BY <1>3, Zenon
  <2>2. /\ PendingQuiet
        /\ suggestion_generation' <= suggestion_generation + 1
        /\ state = "CONVERSION" => /\ pending_suggestion' = None
                                   /\ suggestion_generation' = suggestion_generation
    BY <1>3, OutputLemma DEF RequestsFollowState
  <2>3. SuggestionQuiet
    BY <1>3, <2>1, <2>2 DEF SuggestionQuiet
  <2> QED
    BY <1>3, <2>2, <2>3, AfterSummary
<1>4. CASE /\ state # "PRECOMPOSITION"
           /\ suggestion_selected' = FALSE
           /\ conversion_selected' = FALSE
           /\ state' = "CONVERSION" /\ UNCHANGED key
           /\ Output("CONVERSION", key)
           /\ UNCHANGED <<conversion_generation, pending_conversion, conversion,
                          suggestion, service>>
  <2>1. suggestion_selected' \in BOOLEAN /\ conversion_selected' \in BOOLEAN
    BY <1>4, Zenon
  <2>2. ConversionQuiet
    BY <1>4, <2>1 DEF ConversionQuiet, service, TypeOK
  <2> QED
    BY <1>4, <2>1, <2>2, OutputInConversion, QuietSummary DEF TypeOK
<1> QED
  BY <1>1, <1>2, <1>3, <1>4 DEF SelectCandidate

LEMMA CommitSuggestionSummary ==
  ASSUME BaseInv, NEW n \in Nat, CommitZenzSuggestion(n)
  PROVE  Summary
<1> USE DEF BaseInv
<1>1. CASE SuggestionIsCurrent
  <2> DEFINE m == 1 + One(zero_query_suggestion)
             c == ClearsAfter("PRECOMPOSITION")
  <2>1. /\ m \in Nat /\ (~zero_query_suggestion => m = 1)
        /\ c \in Nat /\ (more' \/ c >= 1)
    BY OneType, ClearsAfterType DEF One
  <2>2. /\ ResetSuggestion(m) /\ UNCHANGED callbacks
        /\ Drops(c, n)
        /\ state' = "PRECOMPOSITION" /\ key' = Empty
        /\ state # "CONVERSION"
    BY <1>1 DEF CommitZenzSuggestion, SuggestionIsCurrent
  <2> HIDE DEF m, c
  <2>3. /\ ConversionQuiet
        /\ conversion_generation' >= conversion_generation + (c + n)
        /\ c > 0 => pending_conversion' = None /\ conversion' = None
    BY <2>1, <2>2, DropsLemma
  <2>4. SuggestionQuiet /\ suggestion_generation' = suggestion_generation + m
    BY <2>1, <2>2, ResetLemma
  <2>5. RequestsFollowState'
    BY <2>1, <2>2, <2>3 DEF RequestsFollowState
  <2>6. ASSUME ~zero_query_suggestion, ~more', GenerationInv PROVE GenerationInv'
    <3>1. /\ suggestion_generation <= conversion_generation
          /\ suggestion_generation \in Nat /\ conversion_generation \in Nat
          /\ suggestion_generation' = suggestion_generation + 1
      BY <2>1, <2>2, <2>4, <2>6 DEF GenerationInv, TypeOK
    <3>2. /\ conversion_generation' \in Nat
          /\ conversion_generation' >= conversion_generation + 1
      BY <2>1, <2>3, <2>6, <3>1 DEF ConversionQuiet
    <3>3. suggestion_generation' \in Nat
      BY <3>1
    <3>4. suggestion_generation' <= conversion_generation'
      BY <3>1, <3>2
    <3>5. suggestion_generation' <= conversion_generation' + 1
      BY <3>1, <3>2, <3>3, <3>4, Behind
    <3> QED
      BY <3>4, <3>5 DEF GenerationInv
  <2> QED
    BY <2>2, <2>3, <2>4, <2>5, <2>6 DEF Summary, States
<1>2. CASE ~SuggestionIsCurrent
  <2> DEFINE c == ClearsAfter(state)
  <2>1. /\ Drops(c, n)
        /\ UNCHANGED context /\ UNCHANGED <<suggestionVars, callbacks>>
    BY <1>2 DEF CommitZenzSuggestion
  <2>2. c \in Nat /\ (state # "CONVERSION" => more' \/ c >= 1)
    BY ClearsAfterType
  <2> HIDE DEF c
  <2>3. /\ SuggestionQuiet
        /\ suggestion_generation' = suggestion_generation
        /\ pending_suggestion' = pending_suggestion
    BY <2>1, SuggestionKept
  <2>4. state' = state /\ key' = key
    BY <2>1 DEF context
  <2>5. CASE state = "CONVERSION"
    <3>1. ConversionQuiet /\ pending_suggestion = None
      BY <2>1, <2>2, <2>5, DropsLemma DEF RequestsFollowState
    <3> QED
      BY <2>3, <2>4, <2>5, <3>1, QuietSummary DEF TypeOK
  <2>6. CASE state # "CONVERSION"
    BY <2>1, <2>2, <2>3, <2>4, <2>6, DropsSummary DEF TypeOK
  <2> QED
    BY <2>5, <2>6
<1> QED
  BY <1>1, <1>2

LEMMA CommitResultSummary ==
  ASSUME BaseInv, NEW n \in Nat, Committed,
         Drops(1 + ClearsAfter("PRECOMPOSITION"), n)
  PROVE  Summary
<1> DEFINE c == 1 + ClearsAfter("PRECOMPOSITION")
<1>1. c \in Nat /\ c >= 1 /\ Drops(c, n)
  BY ClearsAfterType
<1> HIDE DEF c
<1> QED
  BY <1>1, CommittedSummary

LEMMA CommitLemma ==
  ASSUME BaseInv, NEW n \in Nat, Commit(n)
  PROVE  Summary
<1>1. CASE suggestion_selected /\ suggestion # None
  BY <1>1, CommitSuggestionSummary DEF Commit
<1>2. CASE Committed /\ Drops(1 + ClearsAfter("PRECOMPOSITION"), n)
  BY <1>2, CommitResultSummary
<1>3. CASE AfterNothing /\ UNCHANGED <<context, suggestionVars, callbacks>>
  BY <1>3, NothingSummary
<1> QED
  BY <1>1, <1>2, <1>3 DEF Commit, CommitZenzConversionResult, CommitInternal

LEMMA CommitSummary ==
  ASSUME BaseInv, \/ SubmitCommand \/ CommitKey \/ CommitFirstSuggestion
                  \/ CommitSegment
                  \/ ~more' /\ (CommitMozcCandidate \/ CommitZenzCandidate)
  PROVE  Summary
<1> USE DEF BaseInv
<1>1. CASE SubmitCommand
  BY <1>1, CommitLemma DEF SubmitCommand
<1>2. CASE CommitKey
  <2>1. CancelsBefore \in Nat
    BY CountTypes
  <2>2. CASE CommitZenzConversionResult(CancelsBefore)
    BY <2>1, <2>2, CommitResultSummary DEF CommitZenzConversionResult
  <2>3. CASE Commit(CancelsBefore)
    BY <2>1, <2>3, CommitLemma
  <2> QED
    BY <1>2, <2>2, <2>3 DEF CommitKey
<1>3. CASE CommitMozcCandidate /\ ~more'
  <2>1. CASE Committed /\ ClearZenzConversionState(1)
    BY <2>1, CommittedClears
  <2>2. ASSUME NEW k \in Keys, state = "COMPOSITION", UNCHANGED state, key' = k,
               Suggest(k), ClearZenzConversionState(1)
        PROVE  Summary
    <3>1. Drops(1, 0)
      BY <2>2 DEF Drops
    <3>2. SuggestionQuiet /\ suggestion_generation' = suggestion_generation + 1
      BY <2>2, SuggestLemma
    <3> QED
      BY <2>2, <3>1, <3>2, DropsSummary DEF States, TypeOK
  <2>3. ASSUME NEW k \in Keys, state = "CONVERSION", UNCHANGED state, key' = k,
               Output("CONVERSION", k), conversion_selected' = FALSE,
               UNCHANGED <<conversion_generation, pending_conversion, conversion,
                           suggestion, suggestion_selected, service>>
        PROVE  Summary
    <3>1. conversion_selected' \in BOOLEAN
      BY <2>3, Zenon
    <3>2. ConversionQuiet
      BY <2>3, <3>1 DEF ConversionQuiet, service, TypeOK
    <3> QED
      BY <2>3, <3>2, OutputInConversion, QuietSummary DEF TypeOK
  <2> QED
    BY <1>3, <2>1, <2>2, <2>3 DEF CommitMozcCandidate
<1>4. CASE CommitZenzCandidate /\ ~more'
  BY <1>4, CommittedClears DEF CommitZenzCandidate
<1>5. CASE CommitSegment
  <2>1. ASSUME NEW k \in Keys, key' = k, Output("CONVERSION", k),
               BeforeConversionCommand(0), state = "CONVERSION",
               UNCHANGED <<state, suggestion, suggestion_selected>>
        PROVE  Summary
    <3>1. ConversionQuiet
      BY <2>1, BeforeLemma
    <3> QED
      BY <2>1, <3>1, OutputInConversion, QuietSummary DEF TypeOK
  <2> DEFINE c == ClearsBefore + ClearsAfter("PRECOMPOSITION")
             n == CancelsBefore
  <2>2. c \in Nat /\ n \in Nat /\ (more' \/ c >= 1)
    BY CountTypes, ClearsAfterType
  <2>3. CASE Committed /\ Drops(c, n)
    <3> HIDE DEF c, n
    <3> QED
      BY <2>2, <2>3, CommittedSummary
  <2> QED
    BY <1>5, <2>1, <2>3 DEF CommitSegment
<1>6. CASE CommitFirstSuggestion
  BY <1>6, CommitSuggestionSummary DEF CommitFirstSuggestion
<1> QED
  BY <1>1, <1>2, <1>3, <1>4, <1>5, <1>6

LEMMA UserSummary == ASSUME BaseInv, UserActs PROVE Summary
BY TypingSummary, EditingSummary, ConversionSummary, ConvertSummary,
   SelectSummary, CommitSummary
DEF UserActs, CompositionKeys, ConversionKeys, SessionCommands

\* The history variables keep their types.
LEMMA HistoryTypes ==
  ASSUME TypeOK, History,
         pending_conversion' \in PendingConversions \cup {None},
         pending_suggestion' \in PendingSuggestions \cup {None}
  PROVE  dropped' \subseteq Callbacks /\ sequenced' \in BOOLEAN
<1>1. Unasked' \subseteq Callbacks
  BY DEF Unasked, ConversionCallback, SuggestionCallback, PendingConversions,
         PendingSuggestions, Callbacks
<1>2. sequenced' \in BOOLEAN
  BY Zenon DEF History
<1> QED
  BY <1>1, <1>2 DEF History, TypeOK

-----------------------------------------------------------------------------
\* A user's operation keeps the base invariant.
LEMMA UserBase == ASSUME BaseInv, UserActs, History PROVE BaseInv'
<1>1. Summary
  BY UserSummary
<1>2. /\ state' \in States /\ key' \in Keys \cup {Empty}
      /\ suggestion_generation' \in Nat
      /\ pending_suggestion' \in PendingSuggestions \cup {None}
      /\ suggestion' \in Candidates \cup {None}
      /\ suggestion_selected' \in BOOLEAN
      /\ callbacks' \subseteq Callbacks
      /\ pending_suggestion' # None
           => pending_suggestion'.generation <= suggestion_generation'
      /\ RequestsFollowState'
  BY <1>1 DEF Summary, SuggestionQuiet, PendingQuiet, BaseInv, TypeOK
<1>3. /\ conversion_generation' \in Nat
      /\ pending_conversion' \in PendingConversions \cup {None}
      /\ conversion' \in Candidates \cup {None}
      /\ conversion_selected' \in BOOLEAN
      /\ request' \in Requests \cup {None}
      /\ result' \in Requests \cup {None}
      /\ running' \in Requests \cup {None}
      /\ pending_conversion' # None
           => pending_conversion'.generation <= conversion_generation'
  <2>1. CASE ConversionQuiet
    BY <2>1 DEF ConversionQuiet, BaseInv, TypeOK, PendingInv, PendingConversions
  <2>2. CASE ApplyFeedback
    <3>1. key \in Keys
      BY <2>2 DEF ApplyFeedback, LongEnough, CharsLen, BaseInv, TypeOK
    <3>2. conversion' \in Candidates
      BY <2>2, <3>1 DEF ApplyFeedback, Candidates, Answers, Request, BaseInv,
                        TypeOK
    <3>3. conversion_selected' \in BOOLEAN
      BY <2>2, Zenon DEF ApplyFeedback
    <3> QED
      BY <2>2, <3>2, <3>3 DEF ApplyFeedback, CancelPending, BaseInv, TypeOK
  <2>3. CASE ScheduleConversion
    <3>1. key \in Keys
      BY <2>3 DEF ScheduleConversion, LongEnough, CharsLen, BaseInv, TypeOK
    <3>2. /\ pending_conversion' \in PendingConversions
          /\ pending_conversion'.generation = conversion_generation'
          /\ request' \in Requests
      BY <2>3, <3>1 DEF ScheduleConversion, Submit, PendingConversions, Requests,
                        Request, BaseInv, TypeOK
    <3> QED
      BY <2>3, <3>2 DEF ScheduleConversion, Submit, BaseInv, TypeOK
  <2> QED
    BY <1>1, <2>1, <2>2, <2>3 DEF Summary
<1>4. more' \in BOOLEAN
  BY Zenon DEF UserActs
<1>5. dropped' \subseteq Callbacks /\ sequenced' \in BOOLEAN
  BY <1>2, <1>3, HistoryTypes DEF BaseInv
<1> QED
  BY <1>2, <1>3, <1>4, <1>5 DEF BaseInv, TypeOK, PendingInv

\* The worker keeps it.
LEMMA WorkerBase == ASSUME BaseInv, Worker PROVE BaseInv'
<1>1. /\ UNCHANGED <<context, conversionVars, suggestionVars, callbacks, more>>
      /\ request' \in Requests \cup {None} /\ running' \in Requests \cup {None}
      /\ result' \in Requests \cup {None}
  BY DEF Worker, WorkerTakes, WorkerStores, BaseInv, TypeOK
<1>2. dropped' \subseteq Callbacks /\ sequenced' \in BOOLEAN
  BY <1>1, HistoryTypes
  DEF Worker, BaseInv, TypeOK, conversionVars, suggestionVars
<1> QED
  BY <1>1, <1>2 DEF BaseInv, TypeOK, RequestsFollowState, PendingInv, context,
                    conversionVars, suggestionVars

\* A callback of a conversion: it shows the answer, or is quiet.
LEMMA ConversionCallbackLemma ==
  ASSUME BaseInv, NEW c \in callbacks, ApplyZenzConversion(c), ~more'
  PROVE  /\ UNCHANGED <<state, key, suggestionVars>>
         /\ callbacks' \subseteq callbacks
         /\ \/ /\ ConversionQuiet
               /\ state # "CONVERSION"
                    => pending_conversion' = None /\ conversion' = None
            \/ /\ state = "CONVERSION" /\ pending_conversion # None
               /\ \/ /\ conversion' = [generation |-> pending_conversion.generation,
                                       key |-> pending_conversion.key,
                                       answer |-> result]
                     /\ TakeResult(pending_conversion.generation)
                     /\ result.key = pending_conversion.key
                     /\ conversion_selected' = TRUE
                     /\ pending_conversion' = None
                  \/ /\ pending_conversion' =
                           [pending_conversion EXCEPT !.poll = @ + 1]
                     /\ UNCHANGED <<conversion, conversion_selected>>
               /\ Taken
               /\ UNCHANGED conversion_generation
<1> USE DEF BaseInv
<1>1. UNCHANGED <<state, key, suggestionVars>> /\ callbacks' \subseteq callbacks
  BY DEF ApplyZenzConversion, ApplyZenzConversionResult, PollConversion, context
<1>2. CASE AfterNothing
  BY <1>1, <1>2, AfterLemma
<1>3. CASE IsCurrentZenzConversionCallback(c) /\ CancelPendingZenzConversion(1)
  BY <1>1, <1>3, CancelLemma DEF IsCurrentZenzConversionCallback
<1>4. CASE /\ IsCurrentZenzConversionCallback(c)
           /\ ~CancelPendingZenzConversion(1) /\ ~AfterNothing
  BY <1>1, <1>4 DEF ApplyZenzConversion, ApplyZenzConversionResult,
     PollConversion, IsCurrentZenzConversionCallback, Pending
<1> QED
  BY <1>2, <1>3, <1>4 DEF ApplyZenzConversion

LEMMA ConversionCallbackBase ==
  ASSUME BaseInv, NEW c \in callbacks, ApplyZenzConversion(c),
         ~more, more' = FALSE, History
  PROVE  BaseInv'
<1>1. /\ UNCHANGED <<state, key, suggestionVars>>
      /\ callbacks' \subseteq callbacks
  BY ConversionCallbackLemma
<1>2. /\ conversion_generation' \in Nat
      /\ pending_conversion' \in PendingConversions \cup {None}
      /\ conversion' \in Candidates \cup {None}
      /\ conversion_selected' \in BOOLEAN
      /\ request' \in Requests \cup {None}
      /\ result' \in Requests \cup {None}
      /\ running' \in Requests \cup {None}
      /\ pending_conversion' # None
           => pending_conversion'.generation <= conversion_generation'
      /\ state # "CONVERSION"
           => pending_conversion' = None /\ conversion' = None
  <2>1. CASE /\ ConversionQuiet
             /\ state # "CONVERSION"
                  => pending_conversion' = None /\ conversion' = None
    BY <2>1 DEF ConversionQuiet, BaseInv, TypeOK, PendingInv, PendingConversions
  <2>2. CASE /\ state = "CONVERSION" /\ pending_conversion # None
             /\ conversion' = [generation |-> pending_conversion.generation,
                               key |-> pending_conversion.key,
                               answer |-> result]
             /\ TakeResult(pending_conversion.generation)
             /\ conversion_selected' = TRUE
             /\ pending_conversion' = None
             /\ Taken /\ UNCHANGED conversion_generation
    <3>1. conversion' \in Candidates
      BY <2>2 DEF Candidates, Answers, Requests, TakeResult, BaseInv, TypeOK,
                  PendingConversions
    <3>2. conversion_selected' \in BOOLEAN
      BY <2>2, Zenon
    <3> QED
      BY <2>2, <3>1, <3>2 DEF Taken, BaseInv, TypeOK
  <2>3. CASE /\ state = "CONVERSION" /\ pending_conversion # None
             /\ pending_conversion' =
                   [pending_conversion EXCEPT !.poll = @ + 1]
             /\ UNCHANGED <<conversion, conversion_selected>>
             /\ Taken /\ UNCHANGED conversion_generation
    <3>1. /\ pending_conversion' \in PendingConversions
          /\ pending_conversion'.generation = pending_conversion.generation
      BY <2>3 DEF BaseInv, TypeOK, PendingConversions
    <3> QED
      BY <2>3, <3>1 DEF Taken, BaseInv, TypeOK, PendingInv
  <2> QED
    BY <2>1, <2>2, <2>3, ConversionCallbackLemma
<1>3. more' \in BOOLEAN
  BY Zenon
<1>4. dropped' \subseteq Callbacks /\ sequenced' \in BOOLEAN
  BY <1>1, <1>2, HistoryTypes DEF BaseInv, TypeOK, suggestionVars
<1> QED
  BY <1>1, <1>2, <1>3, <1>4 DEF BaseInv, TypeOK, PendingInv,
                                RequestsFollowState, suggestionVars

LEMMA SuggestionCallbackBase ==
  ASSUME BaseInv, NEW c \in callbacks, ApplyZenzSuggestion(c),
         ~more, more' = FALSE, History
  PROVE  BaseInv'
<1>1. /\ UNCHANGED <<state, key, conversionVars, suggestion_generation>>
      /\ callbacks' \subseteq callbacks
  BY DEF ApplyZenzSuggestion, SubmitSuggestion, ApplyZenzSuggestionResult,
         PollSuggestion, context
<1>a. more' \in BOOLEAN
  BY Zenon
<1>b. ASSUME pending_suggestion' \in PendingSuggestions \cup {None}
      PROVE  dropped' \subseteq Callbacks /\ sequenced' \in BOOLEAN
  BY <1>1, <1>b, HistoryTypes DEF BaseInv, TypeOK, conversionVars
<1>2. CASE ~IsCurrentZenzSuggestionCallback(c)
  <2>1. UNCHANGED <<pending_suggestion, suggestion, suggestion_selected, service>>
    BY <1>2 DEF ApplyZenzSuggestion
  <2>2. pending_suggestion' \in PendingSuggestions \cup {None}
    BY <2>1 DEF BaseInv, TypeOK
  <2> QED
    BY <1>1, <1>a, <1>b, <2>1, <2>2 DEF service, conversionVars, BaseInv,
       TypeOK, PendingInv, RequestsFollowState
<1>3. CASE IsCurrentZenzSuggestionCallback(c)
  <2>1. pending_suggestion \in PendingSuggestions /\ state # "CONVERSION"
    BY <1>3 DEF IsCurrentZenzSuggestionCallback, BaseInv, TypeOK
  <2>2. CASE SubmitSuggestion
    <3>1. /\ pending_suggestion' \in PendingSuggestions
          /\ pending_suggestion'.generation = pending_suggestion.generation
          /\ request' \in Requests
      BY <2>1, <2>2 DEF SubmitSuggestion, Submit, PendingSuggestions, Request,
                        Requests
    <3>2. TypeOK'
      BY <1>1, <1>a, <1>b, <2>2, <3>1 DEF SubmitSuggestion, Submit,
                              conversionVars, BaseInv, TypeOK
    <3> QED
      BY <1>1, <2>1, <3>1, <3>2, NoneIsNothing
      DEF conversionVars, BaseInv, PendingInv, RequestsFollowState
  <2>3. CASE ApplyZenzSuggestionResult(c)
    <3>1. suggestion' \in Candidates \cup {None} /\ pending_suggestion' = None
      BY <2>1, <2>3 DEF ApplyZenzSuggestionResult, TakeResult, Candidates,
         Answers, Requests, PendingSuggestions, BaseInv, TypeOK
    <3>2. suggestion_selected' \in BOOLEAN
      BY <2>3, Zenon DEF ApplyZenzSuggestionResult, BaseInv, TypeOK
    <3> QED
      BY <1>1, <1>a, <1>b, <2>1, <2>3, <3>1, <3>2
      DEF ApplyZenzSuggestionResult, Taken, conversionVars, BaseInv, TypeOK,
          PendingInv, RequestsFollowState
  <2>4. CASE PollSuggestion(c)
    <3>1. \/ pending_suggestion' = None
          \/ /\ pending_suggestion' \in PendingSuggestions
             /\ pending_suggestion'.generation = pending_suggestion.generation
      BY <2>1, <2>4 DEF PollSuggestion, PendingSuggestions
    <3>2. TypeOK'
      BY <1>1, <1>a, <1>b, <2>4, <3>1 DEF PollSuggestion, Taken,
                              conversionVars, BaseInv, TypeOK
    <3> QED
      BY <1>1, <2>1, <3>1, <3>2, NoneIsNothing
      DEF conversionVars, BaseInv, PendingInv, RequestsFollowState
  <2> QED
    BY <1>3, <2>2, <2>3, <2>4 DEF ApplyZenzSuggestion
<1> QED
  BY <1>2, <1>3

LEMMA BaseStep == BaseInv /\ [Next]_vars => BaseInv'
<1> SUFFICES ASSUME BaseInv, [Next]_vars PROVE BaseInv'
  OBVIOUS
<1>1. CASE UNCHANGED vars
  BY <1>1 DEF vars, context, conversionVars, suggestionVars, service, BaseInv,
              TypeOK, PendingInv, RequestsFollowState
<1>2. CASE Next
  BY <1>2, UserBase, WorkerBase, ConversionCallbackBase, SuggestionCallbackBase
  DEF Next, User, Client, Deliver
<1> QED
  BY <1>1, <1>2

LEMMA BaseHolds == Spec => []BaseInv
<1>1. Init => BaseInv
  <2> SUFFICES ASSUME Init PROVE BaseInv
    OBVIOUS
  <2>1. suggestion_selected \in BOOLEAN /\ conversion_selected \in BOOLEAN
    BY Zenon DEF Init
  <2>2. TypeOK
    BY <2>1 DEF Init, TypeOK, States
  <2> QED
    BY <2>2 DEF Init, BaseInv, PendingInv, RequestsFollowState
<1> QED
  BY <1>1, BaseStep, PTL DEF Spec

\* Type correctness, for any readings and any number of polls and callbacks.
THEOREM TypeCorrect == Spec => []TypeOK
<1>1. BaseInv => TypeOK
  BY DEF BaseInv
<1> QED
  BY <1>1, BaseHolds, PTL

\* No conversion, pending or shown, outlives the state CONVERSION and no
\* suggestion is pending in it, for every order of keys, commands and
\* callbacks.
THEOREM RequestsKeepToTheirState == Spec => []RequestsFollowState
<1>1. BaseInv => RequestsFollowState
  BY DEF BaseInv
<1> QED
  BY <1>1, BaseHolds, PTL

-----------------------------------------------------------------------------
\* What RequestOK needs of a step for a request that stays where it was.
LEMMA RequestKept ==
  ASSUME NEW r, RequestOK(r), BaseInv,
         conversion_generation' \in Nat, suggestion_generation' \in Nat,
         conversion_generation' >= conversion_generation,
         suggestion_generation' >= suggestion_generation,
         r \in Requests \cup {None},
         \/ pending_conversion' = None
         \/ /\ pending_conversion # None
            /\ pending_conversion'.generation = pending_conversion.generation
            /\ pending_conversion'.key = pending_conversion.key
  PROVE  r # None =>
           /\ r.kind = "conversion" => r.generation <= conversion_generation'
           /\ r.kind = "suggestion" => r.generation <= suggestion_generation'
           /\ pending_conversion' # None
              /\ r.generation = pending_conversion'.generation
                => r = Request("conversion", pending_conversion'.generation,
                               pending_conversion'.key)
<1> SUFFICES ASSUME r # None
             PROVE  /\ r.kind = "conversion" => r.generation <= conversion_generation'
                    /\ r.kind = "suggestion" => r.generation <= suggestion_generation'
                    /\ pending_conversion' # None
                       /\ r.generation = pending_conversion'.generation
                       => r = Request("conversion",
                                      pending_conversion'.generation,
                                      pending_conversion'.key)
  OBVIOUS
<1>1. /\ r.generation \in Nat
      /\ conversion_generation \in Nat /\ suggestion_generation \in Nat
  BY DEF Requests, BaseInv, TypeOK
<1>2. r.kind = "conversion" => r.generation <= conversion_generation'
  BY <1>1 DEF RequestOK
<1>3. r.kind = "suggestion" => r.generation <= suggestion_generation'
  BY <1>1 DEF RequestOK
<1>4. pending_conversion' # None /\ r.generation = pending_conversion'.generation
      => r = Request("conversion", pending_conversion'.generation,
                     pending_conversion'.key)
  BY DEF RequestOK
<1> QED
  BY <1>2, <1>3, <1>4

\* A step that adds no request keeps the service's invariant.
LEMMA ServiceKept ==
  ASSUME BaseInv, ServiceInv,
         conversion_generation' \in Nat, suggestion_generation' \in Nat,
         conversion_generation' >= conversion_generation,
         suggestion_generation' >= suggestion_generation,
         request' \in {None, request}, result' \in {None, result},
         running' = running,
         \/ pending_conversion' = None
         \/ /\ pending_conversion # None
            /\ pending_conversion'.generation = pending_conversion.generation
            /\ pending_conversion'.key = pending_conversion.key
  PROVE  ServiceInv'
<1>1. /\ request \in Requests \cup {None} /\ result \in Requests \cup {None}
      /\ running \in Requests \cup {None}
  BY DEF BaseInv, TypeOK
<1>2. RequestOK(request)'
  BY <1>1, RequestKept DEF ServiceInv, RequestOK
<1>3. RequestOK(result)'
  BY <1>1, RequestKept DEF ServiceInv, RequestOK
<1>4. RequestOK(running)'
  BY <1>1, RequestKept DEF ServiceInv, RequestOK
<1> QED
  BY <1>2, <1>3, <1>4 DEF ServiceInv

\* While no key has run several commands, each step is one whole key, command
\* or callback.
LEMMA Single ==
  ASSUME IInv, History, ~sequenced'
  PROVE  ~sequenced /\ ~more /\ ~more' /\ GenerationInv /\ ServiceInv
BY DEF IInv, History

\* A user's operation keeps the answers apart: the generation of a new
\* conversion is above everything the worker may still answer.
LEMMA UserStep ==
  ASSUME IInv, UserActs, History, ~zero_query_suggestion
  PROVE  IInv'
<1>1. BaseInv' /\ Summary /\ BaseInv
  BY UserBase, UserSummary DEF IInv
<1>2. ConversionIsOwnAnswer'
  <2>1. CASE ConversionQuiet
    BY <2>1 DEF IInv, History, ConversionQuiet, ConversionIsOwnAnswer, IsOwnAnswer
  <2>2. CASE ApplyFeedback
    BY <2>2 DEF ApplyFeedback, ConversionIsOwnAnswer, IsOwnAnswer
  <2>3. CASE ScheduleConversion
    BY <2>3 DEF IInv, History, ScheduleConversion, ConversionIsOwnAnswer,
                IsOwnAnswer
  <2> QED
    BY <1>1, <2>1, <2>2, <2>3 DEF Summary
<1>3. more' => sequenced'
  BY Zenon DEF History
<1>4. ASSUME ~sequenced' PROVE GenerationInv' /\ ServiceInv'
  <2>1. ~more' /\ GenerationInv /\ ServiceInv
    BY <1>4, Single
  <2>2. GenerationInv'
    BY <1>1, <2>1 DEF Summary
  <2>3. /\ conversion_generation \in Nat /\ conversion_generation' \in Nat
        /\ suggestion_generation \in Nat /\ suggestion_generation' \in Nat
        /\ suggestion_generation' >= suggestion_generation
    BY <1>1 DEF BaseInv, TypeOK, Summary, SuggestionQuiet, PendingQuiet
  <2>4. CASE ConversionQuiet
    <3>1. ServiceInv'
      BY <1>1, <2>1, <2>3, <2>4, ServiceKept DEF ConversionQuiet
    <3> QED
      BY <2>2, <3>1
  <2>5. CASE ApplyFeedback
    <3>1. ServiceInv'
      BY <1>1, <2>1, <2>3, <2>5, ServiceKept DEF ApplyFeedback, CancelPending
    <3> QED
      BY <2>2, <3>1
  <2>6. CASE /\ ScheduleConversion
             /\ state = "COMPOSITION"
             /\ suggestion_generation' = suggestion_generation + 1
    <3> DEFINE g == conversion_generation + 2
    <3>1. /\ conversion_generation' = g
          /\ pending_conversion' = [generation |-> g, key |-> key, poll |-> 0]
          /\ request' = Request("conversion", g, key)
          /\ result' = None /\ running' = running
      BY <2>6 DEF ScheduleConversion, Submit
    <3>2. RequestOK(request)'
      BY <2>3, <3>1 DEF RequestOK, Request
    <3>3. RequestOK(result)'
      BY <3>1 DEF RequestOK
    <3>4. RequestOK(running)'
      <4>1. CASE running = None
        BY <3>1, <4>1 DEF RequestOK
      <4>2. CASE running # None
        <5>1. /\ running.generation \in Nat
              /\ running.kind \in {"conversion", "suggestion"}
          BY <1>1, <4>2 DEF BaseInv, TypeOK, Requests
        <5>2. /\ running.kind = "conversion"
                   => running.generation <= conversion_generation
              /\ running.kind = "suggestion"
                   => running.generation <= suggestion_generation
              /\ suggestion_generation <= conversion_generation
          BY <2>1, <2>6, <4>2 DEF ServiceInv, RequestOK, GenerationInv
        <5>3. running.generation <= conversion_generation
          BY <2>3, <5>1, <5>2
        <5>4. running.generation < g /\ running.generation <= g
          BY <2>3, <5>1, <5>3
        <5>5. running.kind = "suggestion"
                => running.generation <= suggestion_generation'
          BY <2>3, <5>1, <5>2
        <5>6. running.generation # g
          BY <2>3, <5>1, <5>4
        <5> HIDE DEF g
        <5> QED
          BY <3>1, <5>4, <5>5, <5>6 DEF RequestOK
      <4> QED
        BY <4>1, <4>2
    <3> QED
      BY <2>2, <3>2, <3>3, <3>4 DEF ServiceInv
  <2> QED
    BY <1>1, <2>4, <2>5, <2>6 DEF Summary
<1> QED
  BY <1>1, <1>2, <1>3, <1>4 DEF IInv

LEMMA WorkerStep == ASSUME IInv, Worker PROVE IInv'
<1>1. BaseInv'
  BY WorkerBase DEF IInv
<1>2. /\ UNCHANGED <<state, conversion_generation, pending_conversion, conversion,
                     suggestion_generation, more>>
      /\ History
  BY DEF Worker, WorkerTakes, WorkerStores, context, conversionVars,
         suggestionVars
<1>3. ConversionIsOwnAnswer' /\ (more' => sequenced')
  BY <1>2 DEF IInv, History, ConversionIsOwnAnswer, IsOwnAnswer
<1>4. ASSUME ~sequenced' PROVE GenerationInv' /\ ServiceInv'
  <2>1. GenerationInv /\ ServiceInv
    BY <1>2, <1>4, Single
  <2>2. GenerationInv'
    BY <1>2, <2>1 DEF GenerationInv
  <2>3. \A r : RequestOK(r) =>
          /\ (request' = r => RequestOK(request)')
          /\ (running' = r => RequestOK(running)')
          /\ (result' = r => RequestOK(result)')
    BY <1>2 DEF RequestOK
  <2>4. RequestOK(None)
    BY DEF RequestOK
  <2>5. CASE WorkerTakes
    BY <2>1, <2>2, <2>3, <2>4, <2>5 DEF WorkerTakes, ServiceInv
  <2>6. CASE WorkerStores
    BY <2>1, <2>2, <2>3, <2>4, <2>6 DEF WorkerStores, ServiceInv
  <2> QED
    BY <2>5, <2>6 DEF Worker
<1> QED
  BY <1>1, <1>3, <1>4 DEF IInv

LEMMA ConversionCallbackStep ==
  ASSUME IInv, NEW c \in callbacks, ApplyZenzConversion(c),
         ~more, more' = FALSE, History
  PROVE  IInv'
<1>1. BaseInv /\ BaseInv'
  BY ConversionCallbackBase DEF IInv
<1>2. /\ UNCHANGED <<state, key, suggestionVars>>
      /\ \/ ConversionQuiet
         \/ /\ pending_conversion # None
            /\ \/ /\ conversion' = [generation |-> pending_conversion.generation,
                                    key |-> pending_conversion.key,
                                    answer |-> result]
                  /\ TakeResult(pending_conversion.generation)
                  /\ result.key = pending_conversion.key
                  /\ pending_conversion' = None
               \/ /\ pending_conversion' =
                        [pending_conversion EXCEPT !.poll = @ + 1]
                  /\ conversion' = conversion
            /\ Taken
            /\ UNCHANGED conversion_generation
  BY <1>1, ConversionCallbackLemma
<1>3. sequenced' = sequenced
  BY <1>1 DEF History, BaseInv, TypeOK
<1>4. /\ conversion_generation \in Nat /\ conversion_generation' \in Nat
      /\ suggestion_generation \in Nat
      /\ suggestion_generation' = suggestion_generation
      /\ conversion_generation' >= conversion_generation
  BY <1>1, <1>2 DEF BaseInv, TypeOK, ConversionQuiet, suggestionVars
<1>5. ASSUME ~sequenced' PROVE GenerationInv' /\ ServiceInv'
  <2>1. GenerationInv /\ ServiceInv
    BY <1>5, Single
  <2>2. GenerationInv'
    <3>1. state # "CONVERSION" => suggestion_generation' <= conversion_generation'
      BY <1>4, <2>1 DEF GenerationInv
    <3>2. suggestion_generation <= conversion_generation + 1
      BY <2>1 DEF GenerationInv
    <3>3. suggestion_generation' <= conversion_generation' + 1
      BY <1>4, <3>2, Behind
    <3> QED
      BY <1>2, <3>1, <3>3 DEF GenerationInv
  <2>3. /\ suggestion_generation' \in Nat
        /\ suggestion_generation' >= suggestion_generation
    BY <1>4
  <2>4. /\ request' \in {None, request} /\ result' \in {None, result}
        /\ running' = running
        /\ \/ pending_conversion' = None
           \/ /\ pending_conversion # None
              /\ pending_conversion'.generation = pending_conversion.generation
              /\ pending_conversion'.key = pending_conversion.key
    <3>1. CASE ConversionQuiet
      BY <3>1 DEF ConversionQuiet
    <3>2. CASE Taken /\ pending_conversion' = None
      BY <3>2 DEF Taken
    <3>3. CASE /\ Taken /\ pending_conversion # None
               /\ pending_conversion' =
                    [pending_conversion EXCEPT !.poll = @ + 1]
      BY <1>1, <3>3 DEF Taken, BaseInv, TypeOK, PendingConversions
    <3> QED
      BY <1>2, <3>1, <3>2, <3>3
  <2> QED
    BY <1>1, <1>4, <2>1, <2>2, <2>3, <2>4, ServiceKept
<1>6. ConversionIsOwnAnswer'
  <2>1. CASE conversion' \in {None, conversion}
    BY <1>3, <2>1 DEF IInv, ConversionIsOwnAnswer, IsOwnAnswer
  <2>2. CASE /\ pending_conversion # None
             /\ conversion' = [generation |-> pending_conversion.generation,
                               key |-> pending_conversion.key,
                               answer |-> result]
             /\ TakeResult(pending_conversion.generation)
             /\ result.key = pending_conversion.key
    <3>1. CASE sequenced
      <4>1. /\ result \in Requests
            /\ result.generation = pending_conversion.generation
        BY <1>1, <2>2 DEF TakeResult, BaseInv, TypeOK
      <4>2. \/ result = Request("conversion", pending_conversion.generation,
                                pending_conversion.key)
            \/ result = Request("suggestion", pending_conversion.generation,
                                pending_conversion.key)
        BY <2>2, <4>1 DEF Requests, Request
      <4> QED
        BY <1>3, <2>2, <3>1, <4>2 DEF ConversionIsOwnAnswer, IsOwnAnswer
    <3>2. CASE ~sequenced
      <4>1. result = Request("conversion", pending_conversion.generation,
                             pending_conversion.key)
        BY <2>2, <3>2 DEF TakeResult, IInv, ServiceInv, RequestOK
      <4> QED
        BY <2>2, <4>1 DEF ConversionIsOwnAnswer, IsOwnAnswer
    <3> QED
      BY <3>1, <3>2
  <2> QED
    BY <1>2, <2>1, <2>2 DEF ConversionQuiet
<1> QED
  BY <1>1, <1>5, <1>6 DEF IInv

LEMMA SuggestionCallbackStep ==
  ASSUME IInv, NEW c \in callbacks, ApplyZenzSuggestion(c),
         ~more, more' = FALSE, History
  PROVE  IInv'
<1>1. BaseInv /\ BaseInv'
  BY SuggestionCallbackBase DEF IInv
<1>2. UNCHANGED <<state, key, conversionVars, suggestion_generation>>
  BY DEF ApplyZenzSuggestion, context
<1>3. ConversionIsOwnAnswer'
  BY <1>2 DEF IInv, History, ConversionIsOwnAnswer, IsOwnAnswer, conversionVars
<1>4. /\ conversion_generation' = conversion_generation
      /\ pending_conversion' = pending_conversion
      /\ conversion_generation \in Nat /\ suggestion_generation \in Nat
  BY <1>1, <1>2 DEF conversionVars, BaseInv, TypeOK
<1>5. ASSUME ~sequenced' PROVE GenerationInv' /\ ServiceInv'
  <2>1. GenerationInv /\ ServiceInv
    BY <1>5, Single
  <2>2. GenerationInv'
    BY <1>2, <1>4, <2>1 DEF GenerationInv
  <2>3. CASE Taken \/ UNCHANGED service
    <3>1. ServiceInv'
      BY <1>1, <1>2, <1>4, <2>1, <2>3, ServiceKept DEF Taken, service
    <3> QED
      BY <2>2, <3>1
  <2>4. CASE IsCurrentZenzSuggestionCallback(c) /\ SubmitSuggestion
    <3>1. /\ request' = Request("suggestion", pending_suggestion.generation,
                                pending_suggestion.key)
          /\ result' = None /\ running' = running
          /\ pending_suggestion.generation <= suggestion_generation
          /\ pending_conversion' = None
      BY <1>1, <1>4, <2>4 DEF SubmitSuggestion, Submit,
         IsCurrentZenzSuggestionCallback, BaseInv, PendingInv,
         RequestsFollowState
    <3>2. RequestOK(request)'
      BY <1>2, <3>1 DEF RequestOK, Request
    <3>3. RequestOK(running)' /\ RequestOK(result)'
      BY <1>2, <1>4, <2>1, <3>1 DEF RequestOK, ServiceInv
    <3> QED
      BY <2>2, <3>2, <3>3 DEF ServiceInv
  <2> QED
    BY <2>3, <2>4 DEF ApplyZenzSuggestion, ApplyZenzSuggestionResult,
                      PollSuggestion
<1> QED
  BY <1>1, <1>3, <1>5 DEF IInv

\* The answer shown is never that of a cancelled inference, for clients
\* without zero query suggestion: while no key has run several commands the
\* two kinds of request are kept apart by their generations, and after one has
\* the answer is still to a request of the same generation and reading.
THEOREM ConversionAnswersItsRequest ==
  ASSUME ~zero_query_suggestion
  PROVE  Spec => []ConversionIsOwnAnswer
<1>1. Init /\ BaseInv => IInv
  BY DEF Init, IInv, GenerationInv, ServiceInv, RequestOK, ConversionIsOwnAnswer
<1>2. IInv /\ [Next]_vars => IInv'
  <2> SUFFICES ASSUME IInv, [Next]_vars PROVE IInv'
    OBVIOUS
  <2>1. CASE UNCHANGED vars
    <3>1. BaseInv'
      BY <2>1, BaseStep DEF IInv
    <3> QED
      BY <2>1, <3>1 DEF vars, context, conversionVars, suggestionVars, service,
         IInv, GenerationInv, ServiceInv, RequestOK, ConversionIsOwnAnswer,
         IsOwnAnswer
  <2>2. CASE Next
    BY <2>2, UserStep, WorkerStep, ConversionCallbackStep, SuggestionCallbackStep
    DEF Next, User, Client, Deliver
  <2> QED
    BY <2>1, <2>2
<1>3. IInv => ConversionIsOwnAnswer
  BY DEF IInv
<1> QED
  BY <1>1, <1>2, <1>3, BaseHolds, PTL DEF Spec

-----------------------------------------------------------------------------
(* The callbacks the client holds, and the suggestion on screen.           *)

\* The client holds the callback, or it was in an output that a later command
\* of the key replaced.
AskedFor(c) == c \in callbacks \cup dropped

\* A pending conversion is asked for, or the reading has become shorter than
\* its key and never grows back to it; a pending suggestion is for the reading
\* at hand and is asked for.
CallbackInv ==
  /\ pending_conversion # None =>
       \/ /\ pending_conversion.key = key
          /\ AskedFor(ConversionCallback(pending_conversion))
       \/ CharsLen(key) < CharsLen(pending_conversion.key)
  /\ pending_suggestion # None =>
       /\ pending_suggestion.key = key
       /\ AskedFor(SuggestionCallback(pending_suggestion))

\* While typing, the suggestion on screen is one for the reading at hand; it
\* may outlive an emptied composition, and a conversion.
SuggestionInv ==
  state # "CONVERSION" /\ key # Empty /\ suggestion # None => suggestion.key = key

ScreenInv == BaseInv /\ CallbackInv /\ SuggestionInv

\* What a user's operation does to the pending suggestion ...
SuggestionHeld ==
  /\ callbacks \subseteq callbacks'
  /\ pending_suggestion' # None =>
       /\ pending_suggestion'.key = key'
       /\ AskedFor(SuggestionCallback(pending_suggestion))'

\* ... to the suggestion on screen ...
ScreenHeld ==
  \/ suggestion' = None
  \/ /\ suggestion' = suggestion
     /\ \/ key' = Empty
        \/ state' = "CONVERSION"
        \/ key' = key /\ state # "CONVERSION"

\* ... and to the pending conversion.
ConversionHeld ==
  \/ pending_conversion' = None
  \/ /\ pending_conversion' = pending_conversion
     /\ key' = key \/ CharsLen(key') < CharsLen(key)
  \/ /\ pending_conversion'.key = key'
     /\ AskedFor(ConversionCallback(pending_conversion))'

Held == SuggestionHeld /\ ScreenHeld /\ ConversionHeld

\* A command that is not the key's last need not ask, and the last one asks
\* for what it schedules.
LEMMA AsksLemma ==
  ASSUME History
  PROVE  /\ pending_suggestion' # None
            /\ (more' \/ SuggestionCallback(pending_suggestion)' \in callbacks')
              => AskedFor(SuggestionCallback(pending_suggestion))'
         /\ pending_conversion' # None
            /\ (more' \/ ConversionCallback(pending_conversion)' \in callbacks')
              => AskedFor(ConversionCallback(pending_conversion))'
<1>1. /\ pending_suggestion' # None =>
           SuggestionCallback(pending_suggestion)' \in Unasked' \cup callbacks'
      /\ pending_conversion' # None =>
           ConversionCallback(pending_conversion)' \in Unasked' \cup callbacks'
  BY DEF Unasked
<1> QED
  BY <1>1 DEF History, AskedFor

\* What was asked for stays so, unless its callback is delivered.
LEMMA AskedLemma ==
  ASSUME History, NEW c, AskedFor(c), c \in callbacks => c \in callbacks',
         \/ pending_suggestion' # None /\ SuggestionCallback(pending_suggestion)' = c
         \/ pending_conversion' # None /\ ConversionCallback(pending_conversion)' = c
  PROVE  c \in callbacks' \cup dropped'
<1>1. c \in Unasked' \cup callbacks'
  BY DEF Unasked
<1> QED
  BY <1>1 DEF History, AskedFor

\* Output attaches the callback of a suggestion it keeps.
LEMMA OutputHolds ==
  ASSUME History, NEW s, NEW k, Output(s, k), key' = k
  PROVE  SuggestionHeld
<1>1. callbacks \subseteq callbacks'
  BY DEF Output, Asks
<1>2. CASE pending_suggestion' = None
  BY <1>1, <1>2 DEF SuggestionHeld
<1>3. CASE pending_suggestion' # None
  <2>1. /\ pending_suggestion' = pending_suggestion /\ pending_suggestion.key = k
        /\ Asks(SuggestionCallback(pending_suggestion))
    BY <1>3 DEF Output
  <2>2. more' \/ SuggestionCallback(pending_suggestion)' \in callbacks'
    BY <2>1 DEF Asks, SuggestionCallback
  <2> QED
    BY <1>1, <1>3, <2>1, <2>2, AsksLemma DEF SuggestionHeld
<1> QED
  BY <1>2, <1>3

\* Suggest attaches the callback of the suggestion it schedules.
LEMMA SuggestHolds ==
  ASSUME History, NEW k, Suggest(k), key' = k
  PROVE  SuggestionHeld /\ suggestion' = None
<1>1. CASE ResetSuggestion(1) /\ UNCHANGED callbacks
  BY <1>1 DEF ResetSuggestion, SuggestionHeld
<1>2. CASE /\ pending_suggestion' = [generation |-> suggestion_generation + 1,
                                     key |-> k, submitted |-> FALSE, poll |-> 0]
           /\ suggestion' = None
           /\ Asks(SuggestionCallback(pending_suggestion'))
  <2>1. /\ callbacks \subseteq callbacks' /\ pending_suggestion'.key = key'
        /\ more' \/ SuggestionCallback(pending_suggestion)' \in callbacks'
    BY <1>2 DEF Asks, SuggestionCallback
  <2> QED
    BY <1>2, <2>1, AsksLemma DEF SuggestionHeld
<1> QED
  BY <1>1, <1>2 DEF Suggest

\* A reset leaves no suggestion.
LEMMA ResetHolds ==
  ASSUME NEW n, ResetSuggestion(n), UNCHANGED callbacks
  PROVE  SuggestionHeld /\ suggestion' = None
BY DEF ResetSuggestion, SuggestionHeld

\* Nothing of the suggestion changes, nor does the reading.
LEMMA KeptHolds ==
  ASSUME History, CallbackInv, UNCHANGED <<key, pending_suggestion, callbacks>>
  PROVE  SuggestionHeld
<1>1. CASE pending_suggestion' = None
  BY <1>1 DEF SuggestionHeld
<1>2. CASE pending_suggestion' # None
  <2> DEFINE c == SuggestionCallback(pending_suggestion)
  <2>1. /\ AskedFor(c) /\ c' = c /\ (c \in callbacks => c \in callbacks')
        /\ pending_suggestion'.key = key'
    BY <1>2 DEF CallbackInv, SuggestionCallback
  <2>2. c \in callbacks' \cup dropped'
    <3> HIDE DEF c
    <3>1. SuggestionCallback(pending_suggestion)' = c
      BY <2>1 DEF c
    <3> QED
      BY <1>2, <2>1, <3>1, AskedLemma
  <2> QED
    BY <2>1, <2>2 DEF SuggestionHeld, AskedFor
<1> QED
  BY <1>1, <1>2

\* A commit.
LEMMA CommittedHolds ==
  ASSUME History, Committed
  PROVE  SuggestionHeld /\ ScreenHeld
<1>1. CASE zero_query_suggestion
  BY <1>1, ResetHolds DEF Committed, ScreenHeld
<1>2. CASE ~zero_query_suggestion
  BY <1>2, OutputHolds DEF Committed, ScreenHeld
<1> QED
  BY <1>1, <1>2

\* The conversion cleared, cancelled, or left alone over the same or a
\* shorter reading.
LEMMA ClearHolds ==
  ASSUME NEW n, ClearZenzConversionState(n) \/ CancelPendingZenzConversion(n)
  PROVE  ConversionHeld
BY DEF ClearZenzConversionState, CancelPendingZenzConversion, ConversionHeld

LEMMA DropsHold ==
  ASSUME NEW c \in Nat, NEW n \in Nat, Drops(c, n),
         \/ c > 0 \/ n > 0 \/ pending_conversion = None
         \/ key' = key \/ CharsLen(key') < CharsLen(key)
  PROVE  ConversionHeld
BY ClearHolds DEF Drops, ConversionHeld, conversionVars

\* What SendKeyConversionState does first.
LEMMA BeforeHolds ==
  ASSUME BeforeConversionCommand(0) \/ BeforeConversionCommand(1),
         key' = key \/ CharsLen(key') < CharsLen(key)
  PROVE  ConversionHeld
BY DropsHold, CountTypes DEF BeforeConversionCommand

\* The end of SendKey and SendCommand.
LEMMA AfterHolds ==
  ASSUME AfterNothing, key' = key
  PROVE  ConversionHeld
BY DropsHold, ClearsAfterType DEF AfterNothing

\* A reading that is thrown away is shorter than any other.
LEMMA EmptyHolds ==
  ASSUME BaseInv, NEW c \in Nat, NEW n \in Nat, Drops(c, n), key' = Empty
  PROVE  ConversionHeld
<1>1. key' = key \/ CharsLen(key') < CharsLen(key)
  BY LengthAssumption DEF CharsLen, BaseInv, TypeOK
<1> QED
  BY <1>1, DropsHold

\* Keys that type, edit or throw away.
LEMMA TypingHolds ==
  ASSUME ScreenInv, History,
         \/ \E k \in Keys : InsertCharacter(k) \/ InsertAndConvert(k) \/ InsertAndCommit(k)
         \/ Backspace \/ MoveCursor \/ Revert \/ EditCancel
  PROVE  Held
<1>a. ASSUME NEW k \in Keys, NEW d \in Nat, NEW n \in Nat,
             Drops(ClearsInserting(k) + d, CancelsBefore + n)
      PROVE  ConversionHeld
  <2> DEFINE c == ClearsInserting(k) + d
             m == CancelsBefore + n
  <2>1. c \in Nat /\ m \in Nat /\ Drops(c, m)
    BY <1>a, OneType, CountTypes DEF ClearsInserting
  <2>2. c > 0 \/ m > 0 \/ pending_conversion = None
    <3>1. CASE CancelsBefore = 0 /\ Pending
      <4>1. ClearsInserting(k) > 0
        BY <3>1, OneType DEF ClearsInserting, One
      <4> QED
        BY <4>1, <2>1, OneType DEF ClearsInserting
    <3>2. CASE CancelsBefore # 0
      BY <3>2, CountTypes
    <3> QED
      BY <3>1, <3>2 DEF Pending
  <2> HIDE DEF c, m
  <2> QED
    BY <2>1, <2>2, DropsHold
<1>1. ASSUME NEW k \in Keys, InsertCharacter(k) PROVE Held
  <2>1. Drops(ClearsInserting(k) + ClearsAfter("COMPOSITION"), CancelsBefore + 0)
    BY <1>1, CountTypes DEF InsertCharacter
  <2>2. ConversionHeld
    BY <1>a, <2>1, ClearsAfterType
  <2> QED
    BY <1>1, <2>2, SuggestHolds DEF InsertCharacter, Held, ScreenHeld
<1>2. ASSUME NEW k \in Keys, InsertAndConvert(k) PROVE Held
  <2>1. ConversionHeld
    BY <1>2, <1>a, ClearsAfterType DEF InsertAndConvert
  <2> QED
    BY <1>2, <2>1, ResetHolds DEF InsertAndConvert, Held, ScreenHeld
<1>3. ASSUME NEW k \in Keys, InsertAndCommit(k) PROVE Held
  <2>1. Drops(ClearsInserting(k) + ClearsAfter("PRECOMPOSITION"), CancelsBefore + 0)
    BY <1>3, CountTypes DEF InsertAndCommit
  <2>2. ConversionHeld
    BY <1>a, <2>1, ClearsAfterType
  <2> QED
    BY <1>3, <2>2, CommittedHolds DEF InsertAndCommit, Held
<1>4. CASE Backspace
  <2> DEFINE c == 1 + ClearsAfter(state')
  <2>a. c \in Nat /\ c > 0 /\ Drops(c, 1)
    BY <1>4, ClearsAfterType DEF Backspace
  <2> HIDE DEF c
  <2>1. ConversionHeld  BY <2>a, DropsHold
  <2>2. CASE /\ key' = Empty /\ Output("PRECOMPOSITION", Empty)
             /\ UNCHANGED <<suggestion, suggestion_selected>>
    BY <2>1, <2>2, OutputHolds DEF Held, ScreenHeld
  <2>3. CASE \E k \in Keys : key' = k /\ Suggest(k)
    BY <2>1, <2>3, SuggestHolds DEF Held, ScreenHeld
  <2> QED  BY <1>4, <2>2, <2>3 DEF Backspace
<1>5. CASE MoveCursor
  BY <1>5, SuggestHolds, AfterHolds DEF MoveCursor, Held, ScreenHeld, context
<1>6. ASSUME NEW d \in Nat, NEW n \in Nat, Cancelled(d, n) PROVE Held
  <2> DEFINE c == d + 1 + ClearsAfter("PRECOMPOSITION")
  <2>1. c \in Nat /\ c > 0 /\ Drops(c, n)
    BY <1>6, ClearsAfterType DEF Cancelled
  <2> HIDE DEF c
  <2>2. ConversionHeld  BY <2>1, DropsHold
  <2> QED
    BY <1>6, <2>2, OutputHolds DEF Cancelled, Held, ScreenHeld
<1> QED
  BY <1>1, <1>2, <1>3, <1>4, <1>5, <1>6, CountTypes DEF Revert, EditCancel

\* Commands over a conversion, and the ones that start it.
LEMMA ConversionHolds ==
  ASSUME ScreenInv, History,
         \/ Convert \/ ConvertToTransliteration \/ ConvertWithoutHistory
         \/ PredictAndConvert \/ MoveCandidate \/ ConvertCancel
         \/ ~more /\ \E k \in Keys : ConvertReverse(k)
  PROVE  Held
<1>1. CASE Convert
  <2>1. CASE UNCHANGED <<state, callbacks>> /\ Drops(ClearsAfter(state), 1)
    <3>1. ConversionHeld
      BY <1>1, <2>1, DropsHold, ClearsAfterType DEF Convert
    <3> QED
      BY <1>1, <2>1, <3>1, ResetHolds DEF Convert, Held, ScreenHeld
  <2>2. CASE CancelPendingZenzConversion(1) /\ UNCHANGED callbacks
    BY <1>1, <2>2, ResetHolds, ClearHolds DEF Convert, Held, ScreenHeld
  <2>3. CASE ApplyFeedback
    BY <1>1, <2>3, ResetHolds DEF Convert, ApplyFeedback, Held, ScreenHeld, ConversionHeld
  <2>4. CASE ScheduleConversion
    <3>1. /\ pending_conversion' = [generation |-> conversion_generation + 2,
                                    key |-> key, poll |-> 0]
          /\ Asks(ConversionCallback(pending_conversion'))
          /\ key' = key /\ pending_suggestion' = None /\ suggestion' = None
      BY <1>1, <2>4 DEF Convert, ScheduleConversion, ResetSuggestion
    <3>2. /\ callbacks \subseteq callbacks' /\ pending_conversion'.key = key'
          /\ more' \/ ConversionCallback(pending_conversion)' \in callbacks'
      BY <3>1 DEF Asks, ConversionCallback
    <3>3. pending_conversion' # None
      BY <3>1, EmptyAssumption DEF None
    <3> QED
      BY <3>1, <3>2, <3>3, AsksLemma
      DEF Held, ScreenHeld, ConversionHeld, SuggestionHeld
  <2> QED  BY <1>1, <2>1, <2>2, <2>3, <2>4 DEF Convert
<1>2. CASE ConvertToTransliteration
  <2>1. SuggestionHeld /\ ScreenHeld
    BY <1>2, OutputHolds DEF ConvertToTransliteration, ScreenHeld
  <2>2. ConversionHeld
    BY <1>2, BeforeHolds DEF ConvertToTransliteration, ConversionHeld, conversionVars
  <2> QED  BY <2>1, <2>2 DEF Held
<1>3. CASE ConvertWithoutHistory
  <2>1. ConversionHeld
    <3>1. CASE BeforeConversionCommand(1)
      BY <1>3, <3>1, BeforeHolds DEF ConvertWithoutHistory
    <3>2. CASE Drops(ClearsBefore + ClearsAfter(state), CancelsBefore + 1)
      <4> DEFINE c == ClearsBefore + ClearsAfter(state)
                 n == CancelsBefore + 1
      <4>1. c \in Nat /\ n \in Nat /\ Drops(c, n)
        BY <3>2, CountTypes, ClearsAfterType
      <4> HIDE DEF c, n
      <4> QED
        BY <1>3, <4>1, DropsHold DEF ConvertWithoutHistory
    <3> QED
      BY <1>3, <3>1, <3>2 DEF ConvertWithoutHistory
  <2>2. SuggestionHeld
    BY <1>3, OutputHolds, KeptHolds DEF ConvertWithoutHistory, ScreenInv
  <2>3. ScreenHeld
    BY <1>3 DEF ConvertWithoutHistory, ScreenHeld
  <2> QED  BY <2>1, <2>2, <2>3 DEF Held
<1>4. CASE PredictAndConvert
  <2>1. SuggestionHeld /\ ScreenHeld
    BY <1>4, OutputHolds DEF PredictAndConvert, ScreenHeld, context
  <2>2. ConversionHeld
    BY <1>4, ClearHolds DEF PredictAndConvert, ConversionHeld
  <2> QED  BY <2>1, <2>2 DEF Held
<1>5. CASE MoveCandidate
  <2>1. SuggestionHeld /\ ScreenHeld
    BY <1>5, OutputHolds DEF MoveCandidate, ScreenHeld, context
  <2>2. ConversionHeld
    BY <1>5 DEF MoveCandidate, ConversionHeld, context
  <2> QED  BY <2>1, <2>2 DEF Held
<1>6. CASE ConvertCancel
  <2> DEFINE c == ClearsBefore + 1 + ClearsAfter("COMPOSITION")
             n == CancelsBefore
  <2>1. c \in Nat /\ n \in Nat /\ Drops(c, n)
    BY <1>6, CountTypes, ClearsAfterType DEF ConvertCancel
  <2> HIDE DEF c, n
  <2>2. ConversionHeld  BY <1>6, <2>1, DropsHold DEF ConvertCancel
  <2> QED
    BY <1>6, <2>2, SuggestHolds DEF ConvertCancel, Held, ScreenHeld
<1>7. ASSUME ~more, NEW k \in Keys, ConvertReverse(k) PROVE Held
  <2>1. SuggestionHeld /\ ScreenHeld
    BY <1>7, OutputHolds DEF ConvertReverse, ScreenHeld
  <2>2. pending_conversion' = None
    BY <1>7 DEF ConvertReverse, ScreenInv, BaseInv, RequestsFollowState, conversionVars
  <2> QED  BY <2>1, <2>2 DEF Held, ConversionHeld
<1> QED
  BY <1>1, <1>2, <1>3, <1>4, <1>5, <1>6, <1>7

\* A handler that only runs the end of SendKey or SendCommand.
LEMMA NothingHolds ==
  ASSUME ScreenInv, History, UNCHANGED <<context, suggestionVars, callbacks>>,
         NEW n \in Nat, Drops(ClearsAfter(state), n)
  PROVE  Held
<1>1. key' = key /\ state' = state /\ pending_suggestion' = pending_suggestion
      /\ suggestion' = suggestion /\ callbacks' = callbacks
  BY DEF context, suggestionVars
<1>2. ConversionHeld  BY <1>1, DropsHold, ClearsAfterType
<1>3. SuggestionHeld  BY <1>1, KeptHolds DEF ScreenInv
<1>4. ScreenHeld  BY <1>1 DEF ScreenHeld
<1> QED  BY <1>2, <1>3, <1>4 DEF Held

\* CommitZenzSuggestion, alone and as a part of Commit.
LEMMA SubmitHolds ==
  ASSUME ScreenInv, History, NEW n \in Nat,
         CommitZenzSuggestion(n) \/ CommitZenzConversionResult(n) \/ Commit(n)
  PROVE  Held
<1> DEFINE c == 1 + ClearsAfter("PRECOMPOSITION")
<1>a. c \in Nat
  BY ClearsAfterType
<1>1. ASSUME CommitZenzSuggestion(n) PROVE Held
  <2>1. CASE SuggestionIsCurrent
    <3>1. ConversionHeld
      BY <1>1, <2>1, EmptyHolds, ClearsAfterType DEF CommitZenzSuggestion, ScreenInv
    <3> QED
      BY <1>1, <2>1, <3>1, ResetHolds DEF CommitZenzSuggestion, Held, ScreenHeld
  <2>2. CASE ~SuggestionIsCurrent
    BY <1>1, <2>2, NothingHolds DEF CommitZenzSuggestion
  <2> QED  BY <2>1, <2>2
<1>2. ASSUME Committed, Drops(c, n) PROVE Held
  <2> HIDE DEF c
  <2>1. ConversionHeld
    BY <1>a, <1>2, EmptyHolds DEF Committed, ScreenInv
  <2> QED
    BY <1>2, <2>1, CommittedHolds DEF Held
<1>3. ASSUME CommitZenzConversionResult(n) PROVE Held
  BY <1>2, <1>3 DEF CommitZenzConversionResult
<1>4. ASSUME CommitInternal(n) PROVE Held
  BY <1>2, <1>4, NothingHolds DEF CommitInternal, AfterNothing
<1> QED
  BY <1>1, <1>3, <1>4 DEF Commit

\* Candidates and commits.
LEMMA CommitHolds ==
  ASSUME ScreenInv, History,
         \/ SelectCandidate \/ SubmitCommand \/ CommitKey \/ CommitMozcCandidate
         \/ CommitZenzCandidate \/ CommitSegment \/ OtherCommand
         \/ CommitFirstSuggestion
  PROVE  Held
<1>1. CASE SelectCandidate
  <2>1. CASE /\ Output(state, key)
             /\ UNCHANGED <<context, conversion_generation, pending_conversion,
                    conversion, suggestion, suggestion_selected, service>>
    BY <2>1, OutputHolds DEF Held, ScreenHeld, ConversionHeld, context
  <2>2. CASE Output(state, key) /\ AfterNothing /\ UNCHANGED <<context, suggestion>>
    BY <2>2, OutputHolds, AfterHolds DEF Held, ScreenHeld, context
  <2>3. CASE /\ state' = "CONVERSION" /\ UNCHANGED key
             /\ Output("CONVERSION", key)
             /\ UNCHANGED <<conversion_generation, pending_conversion, conversion,
                            suggestion, service>>
    BY <2>3, OutputHolds DEF Held, ScreenHeld, ConversionHeld
  <2> QED  BY <1>1, <2>1, <2>2, <2>3 DEF SelectCandidate
<1>2. CASE SubmitCommand
  BY <1>2, SubmitHolds DEF SubmitCommand
<1>3. CASE CommitKey
  <2>1. CancelsBefore \in Nat  BY CountTypes
  <2> QED
    BY <1>3, <2>1, SubmitHolds DEF CommitKey
<1>4. CASE CommitMozcCandidate
  <2>1. CASE Committed /\ ClearZenzConversionState(1)
    BY <2>1, CommittedHolds, ClearHolds DEF Held
  <2>2. CASE /\ \E k \in Keys : key' = k /\ Suggest(k)
             /\ ClearZenzConversionState(1)
    BY <2>2, SuggestHolds, ClearHolds DEF Held, ScreenHeld
  <2>3. CASE /\ state = "CONVERSION"
             /\ \E k \in Keys : /\ CharsLen(k) < CharsLen(key) /\ key' = k
                                /\ Output("CONVERSION", k)
             /\ UNCHANGED <<state, conversion_generation, pending_conversion,
                    conversion, suggestion, suggestion_selected, service>>
    BY <2>3, OutputHolds DEF Held, ScreenHeld, ConversionHeld
  <2> QED  BY <1>4, <2>1, <2>2, <2>3 DEF CommitMozcCandidate
<1>5. CASE CommitZenzCandidate
  BY <1>5, CommittedHolds, ClearHolds DEF CommitZenzCandidate, Held
<1>6. CASE CommitSegment
  <2>1. CASE /\ \E k \in Keys : /\ CharsLen(k) < CharsLen(key) /\ key' = k
                                /\ Output("CONVERSION", k)
             /\ BeforeConversionCommand(0)
             /\ UNCHANGED <<state, suggestion, suggestion_selected>>
    BY <1>6, <2>1, OutputHolds, BeforeHolds DEF CommitSegment, Held, ScreenHeld
  <2> DEFINE c == ClearsBefore + ClearsAfter("PRECOMPOSITION")
             n == CancelsBefore
  <2>2. CASE Committed /\ Drops(c, n)
    <3>1. c \in Nat /\ n \in Nat
      BY CountTypes, ClearsAfterType
    <3> HIDE DEF c, n
    <3>2. ConversionHeld
      BY <2>2, <3>1, EmptyHolds DEF Committed, ScreenInv
    <3> QED
      BY <2>2, <3>2, CommittedHolds DEF Held
  <2> QED  BY <1>6, <2>1, <2>2 DEF CommitSegment
<1>7. CASE OtherCommand
  BY <1>7, NothingHolds DEF OtherCommand, AfterNothing
<1>8. CASE CommitFirstSuggestion
  BY <1>8, SubmitHolds DEF CommitFirstSuggestion
<1> QED
  BY <1>1, <1>2, <1>3, <1>4, <1>5, <1>6, <1>7, <1>8

\* The length of a reading.
LEMMA CharsLenType == \A k \in Keys \cup {Empty} : CharsLen(k) \in Nat
BY LengthAssumption DEF CharsLen

\* A user's operation keeps the invariant.
LEMMA UserScreen == ASSUME ScreenInv, UserActs, History PROVE ScreenInv'
<1>1. BaseInv'
  BY UserBase DEF ScreenInv
<1>2. Held
  BY TypingHolds, ConversionHolds, CommitHolds
  DEF UserActs, CompositionKeys, ConversionKeys, SessionCommands
<1>3. CallbackInv'
  <2>1. pending_conversion' # None =>
          \/ /\ pending_conversion'.key = key'
             /\ AskedFor(ConversionCallback(pending_conversion))'
          \/ CharsLen(key') < CharsLen(pending_conversion'.key)
    <3>1. CASE /\ pending_conversion' = pending_conversion
               /\ pending_conversion # None
               /\ key' = key \/ CharsLen(key') < CharsLen(key)
      <4>1. /\ CharsLen(key) \in Nat /\ CharsLen(key') \in Nat
            /\ CharsLen(pending_conversion.key) \in Nat
        BY <1>1, <3>1, CharsLenType DEF ScreenInv, BaseInv, TypeOK, PendingConversions
      <4>2. CASE key' = key
        <5> DEFINE c == ConversionCallback(pending_conversion)
        <5>1. c' = c /\ (c \in callbacks => c \in callbacks')
          BY <1>2, <3>1 DEF Held, SuggestionHeld, ConversionCallback
        <5>2. ASSUME AskedFor(c) PROVE c \in callbacks' \cup dropped'
          <6> HIDE DEF c
          <6>1. ConversionCallback(pending_conversion)' = c
            BY <5>1 DEF c
          <6> QED  BY <3>1, <5>1, <5>2, <6>1, AskedLemma
        <5>3. \/ pending_conversion.key = key /\ AskedFor(c)
              \/ CharsLen(key) < CharsLen(pending_conversion.key)
          BY <3>1 DEF ScreenInv, CallbackInv
        <5> QED  BY <3>1, <4>2, <5>1, <5>2, <5>3 DEF AskedFor
      <4>3. CASE CharsLen(key') < CharsLen(key)
        <5>1. \/ CharsLen(key) = CharsLen(pending_conversion.key)
              \/ CharsLen(key) < CharsLen(pending_conversion.key)
          BY <3>1 DEF ScreenInv, CallbackInv
        <5>2. CharsLen(key') < CharsLen(pending_conversion.key)
          BY <4>1, <4>3, <5>1
        <5> QED  BY <3>1, <5>2
      <4> QED  BY <3>1, <4>2, <4>3
    <3> QED  BY <1>2, <3>1 DEF Held, ConversionHeld
  <2> QED  BY <1>2, <2>1 DEF CallbackInv, Held, SuggestionHeld
<1>4. SuggestionInv'
  BY <1>2 DEF Held, ScreenHeld, SuggestionInv, ScreenInv
<1> QED
  BY <1>1, <1>3, <1>4 DEF ScreenInv

\* A request that stays pending stays asked for.
LEMMA ConversionAsked ==
  ASSUME History, pending_conversion' # None,
         pending_conversion'.key = pending_conversion.key,
         pending_conversion'.generation = pending_conversion.generation,
         AskedFor(ConversionCallback(pending_conversion)),
         ConversionCallback(pending_conversion) \in callbacks
           => ConversionCallback(pending_conversion) \in callbacks'
  PROVE  AskedFor(ConversionCallback(pending_conversion))'
<1> DEFINE c == ConversionCallback(pending_conversion)
<1>1. c' = c
  BY DEF ConversionCallback
<1>2. c \in callbacks' \cup dropped'
  <2> HIDE DEF c
  <2>1. ConversionCallback(pending_conversion)' = c
    BY <1>1 DEF c
  <2>2. AskedFor(c) /\ (c \in callbacks => c \in callbacks')
    BY DEF c
  <2> QED  BY <2>1, <2>2, AskedLemma
<1> QED
  BY <1>1, <1>2 DEF AskedFor

LEMMA SuggestionAsked ==
  ASSUME History, pending_suggestion' # None,
         pending_suggestion'.key = pending_suggestion.key,
         pending_suggestion'.generation = pending_suggestion.generation,
         AskedFor(SuggestionCallback(pending_suggestion)),
         SuggestionCallback(pending_suggestion) \in callbacks
           => SuggestionCallback(pending_suggestion) \in callbacks'
  PROVE  AskedFor(SuggestionCallback(pending_suggestion))'
<1> DEFINE c == SuggestionCallback(pending_suggestion)
<1>1. c' = c
  BY DEF SuggestionCallback
<1>2. c \in callbacks' \cup dropped'
  <2> HIDE DEF c
  <2>1. SuggestionCallback(pending_suggestion)' = c
    BY <1>1 DEF c
  <2>2. AskedFor(c) /\ (c \in callbacks => c \in callbacks')
    BY DEF c
  <2> QED  BY <2>1, <2>2, AskedLemma
<1> QED
  BY <1>1, <1>2 DEF AskedFor

\* The worker leaves the session alone.
LEMMA WorkerScreen == ASSUME ScreenInv, Worker PROVE ScreenInv'
<1>1. BaseInv'  BY WorkerBase DEF ScreenInv
<1>2. /\ UNCHANGED <<state, key, pending_conversion, pending_suggestion, suggestion,
                     callbacks>>
      /\ History
  BY DEF Worker, WorkerTakes, WorkerStores, context, conversionVars, suggestionVars
<1>3. SuggestionHeld  BY <1>2, KeptHolds DEF ScreenInv
<1>4. pending_conversion # None /\ AskedFor(ConversionCallback(pending_conversion))
        => AskedFor(ConversionCallback(pending_conversion))'
  BY <1>2, ConversionAsked
<1>5. CallbackInv'
  BY <1>2, <1>3, <1>4 DEF ScreenInv, CallbackInv, SuggestionHeld
<1> QED
  BY <1>1, <1>2, <1>5 DEF ScreenInv, SuggestionInv

\* A callback for a conversion: it goes only with its request.
LEMMA ConversionCallbackScreen ==
  ASSUME ScreenInv, NEW c \in callbacks, ApplyZenzConversion(c),
         ~more, more' = FALSE, History
  PROVE  ScreenInv'
<1>1. BaseInv'  BY ConversionCallbackBase DEF ScreenInv
<1>2. UNCHANGED <<state, key, pending_suggestion, suggestion>>
  BY DEF ApplyZenzConversion, context, suggestionVars
<1>3. callbacks' = callbacks \/ callbacks' = callbacks \ {c}
  BY DEF ApplyZenzConversion, ApplyZenzConversionResult, PollConversion
<1>4. pending_suggestion # None => SuggestionCallback(pending_suggestion) # c
  BY DEF ApplyZenzConversion, SuggestionCallback
<1>5. \/ pending_conversion' = None
      \/ /\ pending_conversion' = pending_conversion
         /\ ~IsCurrentZenzConversionCallback(c)
      \/ /\ pending_conversion # None
         /\ pending_conversion' = [pending_conversion EXCEPT !.poll = @ + 1]
         /\ callbacks' = callbacks
  BY DEF ApplyZenzConversion, ApplyZenzConversionResult, PollConversion,
         CancelPendingZenzConversion, AfterNothing, Drops,
         ClearZenzConversionState, conversionVars, IsCurrentZenzConversionCallback, Pending
<1>6. pending_conversion' # None =>
        \/ /\ pending_conversion'.key = key'
           /\ AskedFor(ConversionCallback(pending_conversion))'
        \/ CharsLen(key') < CharsLen(pending_conversion'.key)
  <2>1. CASE pending_conversion' = None  BY <2>1
  <2>2. CASE /\ pending_conversion' = pending_conversion /\ pending_conversion # None
             /\ ~IsCurrentZenzConversionCallback(c)
    <3>1. state = "CONVERSION"
      BY <2>2 DEF ScreenInv, BaseInv, RequestsFollowState
    <3>2. pending_conversion.key = key => ConversionCallback(pending_conversion) # c
      BY <2>2, <3>1 DEF IsCurrentZenzConversionCallback, Pending
    <3> QED  BY <1>2, <1>3, <2>2, <3>2, ConversionAsked DEF ScreenInv, CallbackInv
  <2>3. CASE /\ pending_conversion # None
             /\ pending_conversion' = [pending_conversion EXCEPT !.poll = @ + 1]
             /\ callbacks' = callbacks
    <3>1. /\ pending_conversion'.key = pending_conversion.key
          /\ pending_conversion'.generation = pending_conversion.generation
      BY <2>3 DEF ScreenInv, BaseInv, TypeOK, PendingConversions
    <3>2. pending_conversion' # None
      BY <1>1, <2>3, <3>1, NoneIsNothing DEF BaseInv, TypeOK, ScreenInv,
         PendingConversions
    <3> QED  BY <1>2, <2>3, <3>1, <3>2, ConversionAsked DEF ScreenInv, CallbackInv
  <2> QED  BY <1>5, <2>1, <2>2, <2>3
<1>7. CallbackInv'
  <2>1. pending_suggestion' # None =>
          /\ pending_suggestion'.key = key'
          /\ AskedFor(SuggestionCallback(pending_suggestion))'
    BY <1>2, <1>3, <1>4, SuggestionAsked DEF ScreenInv, CallbackInv
  <2> QED  BY <1>6, <2>1 DEF CallbackInv
<1>8. SuggestionInv'
  BY <1>2 DEF ScreenInv, SuggestionInv
<1> QED
  BY <1>1, <1>7, <1>8 DEF ScreenInv

\* A callback for a suggestion.
LEMMA SuggestionCallbackScreen ==
  ASSUME ScreenInv, NEW c \in callbacks, ApplyZenzSuggestion(c),
         ~more, more' = FALSE, History
  PROVE  ScreenInv'
<1>1. BaseInv'  BY SuggestionCallbackBase DEF ScreenInv
<1>2. UNCHANGED <<state, key, pending_conversion>>
  BY DEF ApplyZenzSuggestion, context, conversionVars
<1>3. callbacks' = callbacks \/ callbacks' = callbacks \ {c}
  BY DEF ApplyZenzSuggestion, SubmitSuggestion, ApplyZenzSuggestionResult,
         PollSuggestion
<1>4. pending_conversion # None => ConversionCallback(pending_conversion) # c
  BY DEF ApplyZenzSuggestion, ConversionCallback
<1>5. \/ pending_suggestion' = None
      \/ /\ pending_suggestion' = pending_suggestion
         /\ ~IsCurrentZenzSuggestionCallback(c)
      \/ /\ pending_suggestion # None
         /\ \/ pending_suggestion' = [pending_suggestion EXCEPT !.submitted = TRUE]
            \/ pending_suggestion' = [pending_suggestion EXCEPT !.poll = @ + 1]
         /\ callbacks' = callbacks
  BY DEF ApplyZenzSuggestion, SubmitSuggestion, ApplyZenzSuggestionResult,
         PollSuggestion, IsCurrentZenzSuggestionCallback
<1>6. pending_suggestion' # None =>
        /\ pending_suggestion'.key = key'
        /\ AskedFor(SuggestionCallback(pending_suggestion))'
  <2>1. CASE pending_suggestion' = None  BY <2>1
  <2>2. CASE /\ pending_suggestion' = pending_suggestion /\ pending_suggestion # None
             /\ ~IsCurrentZenzSuggestionCallback(c)
    <3>1. state # "CONVERSION" /\ pending_suggestion.key = key
      BY <2>2 DEF ScreenInv, BaseInv, RequestsFollowState, CallbackInv
    <3>2. SuggestionCallback(pending_suggestion) # c
      BY <2>2, <3>1 DEF IsCurrentZenzSuggestionCallback
    <3> QED  BY <1>2, <1>3, <2>2, <3>1, <3>2, SuggestionAsked
             DEF ScreenInv, CallbackInv
  <2>3. CASE /\ pending_suggestion # None
             /\ \/ pending_suggestion' = [pending_suggestion EXCEPT !.submitted = TRUE]
                \/ pending_suggestion' = [pending_suggestion EXCEPT !.poll = @ + 1]
             /\ callbacks' = callbacks
    <3>1. /\ pending_suggestion'.key = pending_suggestion.key
          /\ pending_suggestion'.generation = pending_suggestion.generation
      BY <2>3 DEF ScreenInv, BaseInv, TypeOK, PendingSuggestions
    <3> QED  BY <1>2, <2>3, <3>1, SuggestionAsked DEF ScreenInv, CallbackInv
  <2> QED  BY <1>5, <2>1, <2>2, <2>3
<1>7. CallbackInv'
  <2>1. pending_conversion' # None =>
          \/ /\ pending_conversion'.key = key'
             /\ AskedFor(ConversionCallback(pending_conversion))'
          \/ CharsLen(key') < CharsLen(pending_conversion'.key)
    BY <1>2, <1>3, <1>4, ConversionAsked DEF ScreenInv, CallbackInv
  <2> QED  BY <1>6, <2>1 DEF CallbackInv
<1>8. SuggestionInv'
  <2>1. \/ suggestion' = suggestion
        \/ /\ pending_suggestion # None
           /\ suggestion' = [generation |-> pending_suggestion.generation,
                             key |-> pending_suggestion.key, answer |-> result]
    BY DEF ApplyZenzSuggestion, SubmitSuggestion, ApplyZenzSuggestionResult,
           PollSuggestion, IsCurrentZenzSuggestionCallback
  <2> QED  BY <1>2, <2>1 DEF ScreenInv, SuggestionInv, CallbackInv
<1> QED
  BY <1>1, <1>7, <1>8 DEF ScreenInv

\* The invariant holds in every reachable state, for every client.
LEMMA ScreenHolds == Spec => []ScreenInv
<1>1. Init /\ BaseInv => ScreenInv
  BY DEF Init, ScreenInv, CallbackInv, SuggestionInv
<1>2. ScreenInv /\ [Next]_vars => ScreenInv'
  <2> SUFFICES ASSUME ScreenInv, [Next]_vars PROVE ScreenInv'
    OBVIOUS
  <2>1. CASE UNCHANGED vars
    <3>1. BaseInv'  BY <2>1, BaseStep DEF ScreenInv
    <3> QED
      BY <2>1, <3>1 DEF vars, context, conversionVars, suggestionVars, ScreenInv,
         CallbackInv, AskedFor, SuggestionInv, ConversionCallback,
         SuggestionCallback
  <2>2. CASE Next
    BY <2>2, UserScreen, WorkerScreen, ConversionCallbackScreen,
       SuggestionCallbackScreen
    DEF Next, User, Client, Deliver
  <2> QED  BY <2>1, <2>2
<1> QED
  BY <1>1, <1>2, BaseHolds, PTL DEF Spec

\* A current request always has a callback at the client to ask for its
\* answer, whatever keys, commands, late callbacks and inferences come in
\* between, with zero query suggestion or without; the one exception is a
\* callback whose output a later command of the same key replaced.
THEOREM PendingIsAskedFor == Spec => []PendingHasCallback
<1>1. ScreenInv => PendingHasCallback
  <2> SUFFICES ASSUME ScreenInv PROVE PendingHasCallback  OBVIOUS
  <2>1. ASSUME pending_conversion # None, pending_conversion.key = key
        PROVE  AskedFor(ConversionCallback(pending_conversion))
    <3>1. CharsLen(key) \in Nat
      BY CharsLenType DEF ScreenInv, BaseInv, TypeOK
    <3>2. ~(CharsLen(key) < CharsLen(pending_conversion.key))
      BY <2>1, <3>1
    <3> QED  BY <2>1, <3>2 DEF ScreenInv, CallbackInv
  <2> QED  BY <2>1 DEF ScreenInv, CallbackInv, AskedFor, PendingHasCallback
<1> QED
  BY <1>1, ScreenHolds, PTL

\* SUBMIT always has an effect while there is a preedit being typed: the
\* highlighted suggestion that Commit would commit is never one that
\* CommitZenzSuggestion refuses.
THEOREM SubmitHasEffect == Spec => []SubmitTakesEffect
<1>1. ScreenInv => SubmitTakesEffect
  BY DEF ScreenInv, SuggestionInv, SubmitTakesEffect, SuggestionIsCurrent
<1> QED
  BY <1>1, ScreenHolds, PTL
=============================================================================
