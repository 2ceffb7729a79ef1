------------------------- MODULE ZenzFeedbackProofs -------------------------
(***************************************************************************)
(* Proofs about ZenzFeedback, for any values and any depth of undo.  Each  *)
(* command is first reduced to what it does with the pending record        *)
(* (Summary); the two properties follow from the summary and from the      *)
(* inductive invariant IInv.                                               *)
(***************************************************************************)
EXTENDS ZenzFeedback, SequenceTheorems, TLAPS

PendingRecords ==
  {NoFeedback} \cup [action : {"accepted"}, value : Values] \cup
    [action : {"rejected"}, value : Values, final : Texts \cup {NoValue}]
WrittenRecords == {NoFeedback} \cup [action : {"accepted", "rejected"}, value : Values]
UndoContexts ==
  [state : {"precomposition", "composition", "conversion"}, mozc : Texts, whole : BOOLEAN]

\* Only a suggestion that is shown is picked.
PickedIsShown == picked => suggestion # NoValue

\* The value of a pending acceptance is still in the document.
AcceptedIsKept == pending.action = "accepted" => pending.value \in kept

\* The final value of a rejection p is the only text, or one of several, of
\* the texts s.
Fits(p, s) ==
  p.action = "rejected" =>
    p.final = NoValue \/ (Len(s) = 1 /\ s[1] = p.final) \/ Len(s) >= 2

\* The inductive invariant.
IInv == TypeOK /\ PickedIsShown /\ AcceptedIsKept /\ Fits(pending, since)

-----------------------------------------------------------------------------
\* The kinds of record.
LEMMA RecordKinds ==
  ASSUME NEW p \in PendingRecords
  PROVE  \/ p = NoFeedback /\ p.action = "none"
         \/ p.action = "accepted" /\ p.value \in Values
         \/ p.action = "rejected" /\ p.value \in Values /\ p.final \in Texts \cup {NoValue}
  BY DEF PendingRecords, NoFeedback

\* SetPendingZenzFeedbackAccepted makes an acceptance of v or leaves p.
LEMMA AcceptedRecord ==
  ASSUME NEW p \in PendingRecords, NEW v \in Values
  PROVE  LET q == SetPendingZenzFeedbackAccepted(p, v) IN
           /\ q \in PendingRecords
           /\ MayRecord(v) => q.action = "accepted" /\ q.value = v
           /\ ~MayRecord(v) => q = p
  BY DEF SetPendingZenzFeedbackAccepted, PendingRecords

\* SetPendingZenzFeedbackRejected makes a rejection of the visible value,
\* without a final value, or leaves p.
LEMMA RejectedRecord ==
  ASSUME TypeOK, NEW p \in PendingRecords
  PROVE  LET q == SetPendingZenzFeedbackRejected(p) IN
           /\ q \in PendingRecords
           /\ MayRecord(zenz) /\ HasVisibleZenzConversion =>
                q.action = "rejected" /\ q.final = NoValue
           /\ ~(MayRecord(zenz) /\ HasVisibleZenzConversion) => q = p
  BY DEF SetPendingZenzFeedbackRejected, PendingRecords, TypeOK,
         HasVisibleZenzConversion, HasZenzConversionCandidate

\* ObservePendingZenzFeedbackCommittedResult changes the final value only.
LEMMA ObservedRecord ==
  ASSUME NEW p \in PendingRecords, NEW to, NEW text \in Texts
  PROVE  LET q == Observe(p, to, text) IN
           /\ q \in PendingRecords
           /\ q.action = p.action
           /\ p.action = "accepted" => q = p
           /\ to # "precomposition" => q = p
           /\ p.action = "rejected" /\ to = "precomposition" => q.final = text
  BY DEF Observe, PendingRecords, NoFeedback

\* What ConfirmPendingZenzFeedback writes.
LEMMA ConfirmedRecord ==
  ASSUME NEW p \in PendingRecords
  PROVE  /\ Confirm(p) \in WrittenRecords
         /\ Confirm(p).action = "accepted" => p.action = "accepted" /\ Confirm(p).value = p.value
         /\ Confirm(p).action = "rejected" =>
              /\ p.action = "rejected" /\ Confirm(p).value = p.value
              /\ p.final # NoValue /\ p.final # p.value /\ learning
  BY RecordKinds DEF Confirm, WrittenRecords, NoFeedback

\* PushUndoContext keeps a sequence of contexts.
LEMMA PushedUndo ==
  ASSUME TypeOK, state # "direct"
  PROVE  PushUndoContext \in Seq(UndoContexts)
<1> DEFINE c == [state |-> state, mozc |-> mozc, whole |-> whole]
<1>1. c \in UndoContexts /\ undo \in Seq(UndoContexts)
  BY DEF TypeOK, UndoContexts
<1>2. Append(undo, c) \in Seq(UndoContexts) /\ Append(undo, c) # <<>>
  BY <1>1, AppendProperties
<1>3. Tail(Append(undo, c)) \in Seq(UndoContexts)
  BY <1>2, HeadTailProperties
<1> QED BY <1>2, <1>3 DEF PushUndoContext

\* What Undo finds.
LEMMA PoppedUndo ==
  ASSUME TypeOK, undo # <<>>
  PROVE  Last(undo) \in UndoContexts /\ Front(undo) \in Seq(UndoContexts)
<1>1. undo \in Seq(UndoContexts) BY DEF TypeOK, UndoContexts
<1>2. Len(undo) \in Nat \ {0} BY <1>1, EmptySeq
<1>3. \A i \in 1 .. Len(undo) : undo[i] \in UndoContexts BY <1>1, ElementOfSeq
<1>4. SubSeq(undo, 1, Len(undo) - 1) \in Seq(UndoContexts)
  <2>1. \A i \in 1 .. Len(undo) - 1 : undo[i] \in UndoContexts BY <1>2, <1>3
  <2>2. 1 \in Int /\ Len(undo) - 1 \in Int BY <1>2
  <2> QED BY <2>1, <2>2, SubSeqProperties
<1> QED BY <1>2, <1>3, <1>4 DEF Last, Front

\* The history of the texts, t, when r was committed after s.
LEMMA History ==
  ASSUME NEW s \in Seq(Texts), NEW r \in Seq(Texts), NEW t,
         t = IF Len(s \o r) > 2 THEN SubSeq(s \o r, 1, 2) ELSE s \o r
  PROVE  /\ t \in Seq(Texts)
         /\ Len(s) \in Nat /\ Len(r) \in Nat
         /\ Len(s) + Len(r) >= 2 => Len(t) = 2
         /\ Len(s) = 1 /\ Len(r) = 0 => Len(t) = 1 /\ t[1] = s[1]
         /\ Len(s) = 0 /\ Len(r) = 1 => Len(t) = 1 /\ t[1] = r[1]
         /\ Len(s) = 0 /\ Len(r) = 0 => Len(t) = 0
<1>1. /\ s \o r \in Seq(Texts) /\ Len(s \o r) = Len(s) + Len(r)
      /\ \A i \in 1 .. Len(s) + Len(r) :
           (s \o r)[i] = IF i <= Len(s) THEN s[i] ELSE r[i - Len(s)]
  BY ConcatProperties
<1>2. Len(s) \in Nat /\ Len(r) \in Nat BY LenProperties
<1>3. CASE Len(s \o r) > 2
  <2>1. \A u \in Seq(Texts) :
          Len(u) > 2 => SubSeq(u, 1, 2) \in Seq(Texts) /\ Len(SubSeq(u, 1, 2)) = 2
    OBVIOUS
  <2> QED BY <2>1, <1>1, <1>2, <1>3
<1>4. CASE ~(Len(s \o r) > 2)
  BY <1>1, <1>2, <1>4
<1> QED BY <1>3, <1>4

\* What a history of one text f, or of several, becomes.
LEMMA HistoryOf ==
  ASSUME NEW s \in Seq(Texts), NEW r \in Seq(Texts), NEW t, NEW f,
         t = IF Len(s \o r) > 2 THEN SubSeq(s \o r, 1, 2) ELSE s \o r,
         \/ (Len(s) = 1 /\ s[1] = f) \/ Len(s) >= 2
         \/ Len(r) >= 1 /\ r[1] = f
  PROVE  (Len(t) = 1 /\ t[1] = f) \/ Len(t) >= 2
<1>1. /\ Len(s) \in Nat /\ Len(r) \in Nat
      /\ Len(s) + Len(r) >= 2 => Len(t) = 2
      /\ Len(s) = 1 /\ Len(r) = 0 => Len(t) = 1 /\ t[1] = s[1]
      /\ Len(s) = 0 /\ Len(r) = 1 => Len(t) = 1 /\ t[1] = r[1]
  BY History
<1>2. CASE Len(s) + Len(r) >= 2
  BY <1>1, <1>2
<1>3. CASE Len(s) = 1 /\ s[1] = f /\ Len(r) = 0
  BY <1>1, <1>3
<1>4. CASE Len(s) = 0 /\ Len(r) = 1 /\ r[1] = f
  BY <1>1, <1>4
<1> QED BY <1>1, <1>2, <1>3, <1>4

-----------------------------------------------------------------------------
\* The types of all that a command sets.
CommandTypes ==
  /\ state \in {"direct", "precomposition", "composition", "conversion"}
  /\ mozc \in Texts /\ whole \in BOOLEAN /\ undo \in Seq(UndoContexts)
  /\ learning \in BOOLEAN /\ waiting \in BOOLEAN
  /\ zenz \in Values \cup {NoValue} /\ suggestion \in Values \cup {NoValue}
  /\ kept \subseteq Values /\ selected \in BOOLEAN /\ picked \in BOOLEAN
  /\ pending \in PendingRecords /\ written \in WrittenRecords
  /\ result \in Seq(Texts)

\* The type invariant by its parts, now and after a step.
LEMMA TypeParts == TypeOK <=> CommandTypes /\ since \in Seq(Texts)
  BY DEF TypeOK, CommandTypes, PendingRecords, WrittenRecords, UndoContexts

\* The same, primed.
LEMMA TypePartsNext == TypeOK' <=> CommandTypes' /\ since' \in Seq(Texts)
  BY DEF TypeOK, CommandTypes, PendingRecords, WrittenRecords, UndoContexts

\* The texts a command may commit are sequences of texts.
LEMMA ShortTexts ==
  /\ Values \subseteq Texts /\ {"head", "rest", "reading", "mark", "space"} \subseteq Texts
  /\ <<>> \in Seq(Texts)
  /\ \A a \in Texts : <<a>> \in Seq(Texts) /\ Append(<<>>, a) = <<a>>
  /\ \A a, b \in Texts : Append(<<a>>, b) \in Seq(Texts)
  /\ \A a, b, c \in Texts : <<a, b, c>> \in Seq(Texts)
<1>1. Values \subseteq Texts /\ {"head", "rest", "reading", "mark", "space"} \subseteq Texts
  BY DEF Texts
<1>2. <<>> \in Seq(Texts) OBVIOUS
<1>3. \A a \in Texts : <<a>> \in Seq(Texts) OBVIOUS
<1>4. \A a \in Texts : Append(<<>>, a) = <<a>> OBVIOUS
<1>5. \A a, b \in Texts : Append(<<a>>, b) \in Seq(Texts) BY <1>3, AppendProperties
<1>6. \A a, b, c \in Texts : <<a, b, c>> \in Seq(Texts) OBVIOUS
<1> QED BY <1>1, <1>2, <1>3, <1>4, <1>5, <1>6

\* No record is a record.
LEMMA NoFeedbackIsARecord ==
  NoFeedback \in PendingRecords /\ NoFeedback \in WrittenRecords /\ NoFeedback.action = "none"
  BY DEF PendingRecords, WrittenRecords, NoFeedback

\* The record and the texts InsertCharacter begins with.
LEMMA InsertRecord ==
  ASSUME TypeOK
  PROVE  /\ BeforeInsert \in PendingRecords
         /\ CommittedBeforeInsert = IF state = "conversion" THEN <<mozc>> ELSE <<>>
         /\ CommittedBeforeInsert \in Seq(Texts)
         /\ \A a \in Texts : Append(CommittedBeforeInsert, a) \in Seq(Texts)
  BY ShortTexts, TypeParts, ObservedRecord DEF CommandTypes, BeforeInsert, CommittedBeforeInsert

\* A command keeps the types.
LEMMA CommandKeepsTypes ==
  ASSUME TypeOK, PickedIsShown, Command
  PROVE  CommandTypes' /\ PickedIsShown'
<1> USE TypeParts, ShortTexts, NoFeedbackIsARecord, FeedbackAssumption
    DEF CommandTypes, PickedIsShown
<1>1. CASE InsertCharacter
  BY <1>1, InsertRecord, ConfirmedRecord, EmptySeq
  DEF InsertCharacter, Writes, Goes, ClearZenzConversionState, NoSuggestion
<1>2. CASE InsertSpace
  BY <1>2, InsertRecord, ConfirmedRecord, EmptySeq
  DEF InsertSpace, Writes, Goes, ClearZenzConversionState, NoSuggestion
<1>3. CASE InsertPunctuation
  <2>1. CASE HasVisibleZenzConversion
    <3>1. zenz \in Values
      BY <2>1 DEF HasVisibleZenzConversion, HasZenzConversionCandidate
    <3>2. pending' \in PendingRecords /\ written' \in WrittenRecords
      BY <1>3, <2>1, <3>1, InsertRecord, ConfirmedRecord, AcceptedRecord DEF InsertPunctuation
    <3>3. result' = <<mozc, zenz, "mark">> /\ kept' = {zenz}
      BY <1>3, <2>1 DEF InsertPunctuation
    <3>4. mozc \in Texts /\ zenz \in Texts /\ "mark" \in Texts
      BY <3>1
    <3>5. result' \in Seq(Texts) /\ kept' \subseteq Values
      BY <3>1, <3>3, <3>4
    <3> QED BY <1>3, <3>2, <3>5, EmptySeq
         DEF InsertPunctuation, Goes, ClearZenzConversionState, NoSuggestion
  <2>2. CASE ~HasVisibleZenzConversion
    BY <1>3, <2>2, InsertRecord, ConfirmedRecord, EmptySeq
    DEF InsertPunctuation, Writes, Goes, ClearZenzConversionState, NoSuggestion
  <2> QED BY <2>1, <2>2
<1>4. ASSUME NEW v \in Values, MoveToMozcCandidate(v) PROVE CommandTypes' /\ PickedIsShown'
  BY <1>4, RejectedRecord DEF MoveToMozcCandidate, Holds
<1>5. ASSUME NEW v \in Values, EditSegment(v) PROVE CommandTypes' /\ PickedIsShown'
  BY <1>5, RejectedRecord DEF EditSegment, Holds, Left, LeaveOverlay, overlay, suggest
<1>6. ASSUME NEW v \in Values, Convert(v) PROVE CommandTypes' /\ PickedIsShown'
  BY <1>6 DEF Convert, Holds, NoSuggestion, overlay
<1>7. ASSUME NEW v \in Values, ShowSuggestion(v) PROVE CommandTypes' /\ PickedIsShown'
  BY <1>7 DEF ShowSuggestion, Holds, context, overlay
<1>8. ASSUME NEW p \in PendingRecords, NEW text \in Texts, CommitSegments(p, text), state # "direct"
      PROVE  /\ state' \in {"direct", "precomposition", "composition", "conversion"}
             /\ mozc' \in Texts /\ whole' \in BOOLEAN /\ undo' \in Seq(UndoContexts)
             /\ learning' \in BOOLEAN /\ kept' \subseteq Values
             /\ pending' \in PendingRecords /\ written' \in WrittenRecords
             /\ result' \in Seq(Texts)
  <2>1. Observe(p, "precomposition", text) \in PendingRecords
    BY ObservedRecord, <1>8
  <2>2. Observe(p, state, "head") \in PendingRecords
    BY ObservedRecord, <1>8
  <2>3. undo' \in Seq(UndoContexts) /\ learning' \in BOOLEAN /\ kept' \subseteq Values
    BY <1>8, PushedUndo DEF CommitSegments
  <2> QED BY <1>8, <2>1, <2>2, <2>3 DEF CommitSegments, Holds, Goes
<1>9. ASSUME NEW v \in Values, CommitCandidate(v) PROVE CommandTypes' /\ PickedIsShown'
  <2> DEFINE p == SetPendingZenzFeedbackRejected(pending)
             text == IF mozc = "rest" THEN mozc ELSE v
  <2>1. p \in PendingRecords /\ text \in Texts /\ CommitSegments(p, text) /\ state # "direct"
    BY <1>9, RejectedRecord DEF CommitCandidate
  <2> HIDE DEF p, text
  <2> QED BY <1>8, <1>9, <2>1 DEF CommitCandidate, suggest
<1>10. ASSUME NEW v \in Values, ConvertReverse(v) PROVE CommandTypes' /\ PickedIsShown'
  BY <1>10, EmptySeq DEF ConvertReverse, Holds, overlay, suggest
<1>11. CASE MoveToZenzCandidate
  BY <1>11 DEF MoveToZenzCandidate, Holds, context, suggest
<1>12. CASE ApplyZenzConversionResult
  BY <1>12 DEF ApplyZenzConversionResult, Holds, context, overlay, suggest
<1>13. CASE PickSuggestion
  BY <1>13 DEF PickSuggestion, Holds, context, overlay
<1>14. CASE CommitZenzConversionResult
  BY <1>14, AcceptedRecord
  DEF CommitZenzConversionResult, Holds, Goes, ClearZenzConversionState, NoSuggestion,
      HasZenzConversionCandidate
<1>15. CASE CommitZenzSuggestion
  BY <1>15, AcceptedRecord, PushedUndo DEF CommitZenzSuggestion, Holds, Goes, NoSuggestion, overlay
<1>16. CASE Commit
  BY <1>16, ObservedRecord, PushedUndo
  DEF Commit, Holds, Goes, ClearZenzConversionState, NoSuggestion
<1>17. CASE CommitSegment
  <2> DEFINE p == Left(pending)
  <2>1. p \in PendingRecords /\ CommitSegments(p, mozc) /\ state # "direct"
    BY <1>17, RejectedRecord DEF CommitSegment, Left
  <2> HIDE DEF p
  <2> QED BY <1>8, <1>17, <2>1 DEF CommitSegment, LeaveOverlay, overlay, suggest
<1>18. ASSUME NEW key, EchoBack(key) PROVE CommandTypes' /\ PickedIsShown'
  BY <1>18, EmptySeq DEF EchoBack, Holds, DiscardPendingZenzFeedback, ClearZenzConversionState, suggest
<1>19. CASE Backspace
  BY <1>19, EmptySeq
  DEF Backspace, DiscardPendingZenzFeedback, Goes, ClearZenzConversionState, NoSuggestion
<1>20. CASE ConvertCancel
  BY <1>20 DEF ConvertCancel, DiscardPendingZenzFeedback, Goes, ClearZenzConversionState, NoSuggestion
<1>21. CASE Undo
  <2>1. /\ state' \in {"direct", "precomposition", "composition", "conversion"}
        /\ mozc' \in Texts /\ whole' \in BOOLEAN /\ undo' \in Seq(UndoContexts)
    BY <1>21, PoppedUndo DEF Undo, context, UndoContexts
  <2>2. pending' \in PendingRecords /\ written' \in WrittenRecords
    BY <1>21 DEF Undo, DiscardPendingZenzFeedback
  <2>3. zenz' \in Values \cup {NoValue} /\ selected' \in BOOLEAN /\ waiting' \in BOOLEAN
    BY <1>21 DEF Undo, LeaveOverlay, overlay
  <2>4. /\ learning' = learning /\ suggestion' = suggestion /\ picked' = picked
        /\ kept' = {} /\ result' = <<>>
    BY <1>21 DEF Undo, suggest
  <2> QED BY <2>1, <2>2, <2>3, <2>4
<1>22. ASSUME NEW how, Cancel(how) PROVE CommandTypes' /\ PickedIsShown'
  BY <1>22, EmptySeq
  DEF Cancel, DiscardPendingZenzFeedback, Goes, ClearZenzConversionState, NoSuggestion
<1>23. ASSUME NEW p \in PendingRecords, TurnOff(p) PROVE CommandTypes' /\ PickedIsShown'
  <2>1. pending' \in PendingRecords /\ written' \in WrittenRecords /\ result' \in Seq(Texts)
    <3>1. CASE state = "composition" /\ picked
      <4>1. SetPendingZenzFeedbackAccepted(p, suggestion) \in PendingRecords
        BY <1>23, <3>1, AcceptedRecord
      <4>2. result' \in Seq(Texts)
        BY <1>23, <3>1 DEF TurnOff
      <4>3. pending' \in PendingRecords /\ written' \in WrittenRecords
        BY <1>23, <3>1, <4>1, ConfirmedRecord DEF TurnOff, Writes
      <4> QED BY <4>2, <4>3
    <3>2. CASE state \in {"composition", "conversion"} /\ ~picked
      <4>1. Observe(p, "precomposition", mozc) \in PendingRecords
        BY <1>23, ObservedRecord
      <4> QED BY <1>23, <3>2, <4>1, ConfirmedRecord DEF TurnOff, Writes
    <3>3. CASE ~(state = "composition" /\ picked) /\ ~(state \in {"composition", "conversion"} /\ ~picked)
      BY <1>23, <3>3, ConfirmedRecord DEF TurnOff, Writes
    <3> QED BY <3>1, <3>2, <3>3
  <2> QED BY <1>23, <2>1, EmptySeq DEF TurnOff, Goes, ClearZenzConversionState, NoSuggestion
<1>24. CASE IMEOff
  BY <1>24, <1>23, RejectedRecord DEF IMEOff, Left
<1>25. CASE MakeSureIMEOff
  <2>1. CASE HasVisibleZenzConversion
    <3>1. zenz \in Values
      BY <2>1 DEF HasVisibleZenzConversion, HasZenzConversionCandidate
    <3>2. pending' \in PendingRecords /\ written' \in WrittenRecords
      BY <1>25, <2>1, <3>1, AcceptedRecord, ConfirmedRecord DEF MakeSureIMEOff, Writes
    <3>3. undo' = <<>> /\ kept' = {} /\ result' = <<zenz>> /\ learning' = learning
      BY <1>25, <2>1 DEF MakeSureIMEOff
    <3>4. undo' \in Seq(UndoContexts) /\ kept' \subseteq Values /\ result' \in Seq(Texts)
      BY <3>1, <3>3
    <3> QED BY <1>25, <2>1, <3>2, <3>3, <3>4
         DEF MakeSureIMEOff, Goes, ClearZenzConversionState, NoSuggestion
  <2>2. CASE ~HasVisibleZenzConversion
    BY <1>25, <2>2, <1>23 DEF MakeSureIMEOff
  <2> QED BY <2>1, <2>2
<1>26. CASE IMEOn
  BY <1>26, EmptySeq DEF IMEOn, Holds, overlay, suggest
<1>27. CASE SetConfig
  BY <1>27, EmptySeq DEF SetConfig, Holds, overlay, suggest
<1> QED
  BY <1>1, <1>2, <1>3, <1>4, <1>5, <1>6, <1>7, <1>9, <1>10, <1>11, <1>12, <1>13,
     <1>14, <1>15, <1>16, <1>17, <1>18, <1>19, <1>20, <1>21, <1>22, <1>24, <1>25,
     <1>26, <1>27
  DEF Command

-----------------------------------------------------------------------------
\* Zenz's value is left for another text (the history in Next).
IsLeft ==
  /\ MayRecord(zenz) /\ HasVisibleZenzConversion /\ ~HasVisibleZenzConversion'
  /\ zenz \notin Range(result')

\* What a step may have as a rejection q: one it has just made, the one it
\* found, or one whose final value is the first text it commits.
Sound(q) ==
  q.action = "rejected" =>
    \/ q.final = NoValue
    \/ q = pending /\ ~IsLeft
    \/ Len(result') >= 1 /\ result'[1] = q.final

\* What a step may have as an acceptance q to write.
Kept(q) == q.action = "accepted" => q.value \in kept \/ q.value \in Range(result')

\* A command in terms of the record: what is pending next, and which record q
\* it confirms.
Summary ==
  /\ Sound(pending')
  /\ pending'.action = "accepted" => pending'.value \in kept'
  /\ \/ written' = NoFeedback
     \/ \E q \in PendingRecords : written' = Confirm(q) /\ Sound(q) /\ (learning => Kept(q))

\* The text of a short result.
LEMMA ShortRanges ==
  /\ \A a : Len(<<a>>) = 1 /\ <<a>>[1] = a /\ a \in Range(<<a>>)
  /\ \A a, b \in Texts : Len(Append(<<a>>, b)) = 2 /\ Append(<<a>>, b)[1] = a
  /\ \A a, b, c : Len(<<a, b, c>>) = 3 /\ <<a, b, c>>[1] = a /\ b \in Range(<<a, b, c>>)
<1>1. \A a : Len(<<a>>) = 1 /\ <<a>>[1] = a OBVIOUS
<1>2. \A a : a \in Range(<<a>>) BY DEF Range
<1>3. \A a, b \in Texts : Len(Append(<<a>>, b)) = 2 /\ Append(<<a>>, b)[1] = a
  <2>1. \A a \in Texts : <<a>> \in Seq(Texts) BY ShortTexts
  <2> QED BY <1>1, <2>1, AppendProperties
<1>4. \A a, b, c : Len(<<a, b, c>>) = 3 /\ <<a, b, c>>[1] = a OBVIOUS
<1>5. \A a, b, c : b \in Range(<<a, b, c>>) BY DEF Range
<1> QED BY <1>1, <1>2, <1>3, <1>4, <1>5

\* A command that leaves the pending record, and no value of Zenz's.
LEMMA HoldSummary ==
  ASSUME IInv, Holds(pending), kept' = kept, ~IsLeft
  PROVE  Summary
  BY TypeParts, RecordKinds DEF IInv, AcceptedIsKept, Summary, Holds, Sound

\* A command that drops the pending record.
LEMMA DiscardSummary ==
  ASSUME DiscardPendingZenzFeedback
  PROVE  Summary
  BY NoFeedbackIsARecord DEF Summary, DiscardPendingZenzFeedback, Sound

\* A command that leaves Zenz's conversion for Mozc's.
LEMMA RejectSummary ==
  ASSUME IInv, Holds(SetPendingZenzFeedbackRejected(pending)), kept' = kept
  PROVE  Summary
  BY TypeParts, RejectedRecord DEF IInv, CommandTypes, AcceptedIsKept, Summary, Holds, Sound, IsLeft

\* A command that confirms q.
LEMMA WriteSummary ==
  ASSUME NEW q \in PendingRecords, Writes(q), Sound(q), learning => Kept(q)
  PROVE  Summary
  BY NoFeedbackIsARecord DEF Summary, Writes, Sound

\* Every command has a summary.
LEMMA CommandSummary ==
  ASSUME IInv, Command
  PROVE  Summary
<1> USE TypeParts, ShortTexts, NoFeedbackIsARecord, FeedbackAssumption DEF IInv
<1>t. CommandTypes /\ AcceptedIsKept /\ PickedIsShown OBVIOUS
\* What InsertCharacter writes.
<1>i. ASSUME state = "conversion" => Len(result') >= 1 /\ result'[1] = mozc,
             state # "conversion" => ~IsLeft
      PROVE  BeforeInsert \in PendingRecords /\ Sound(BeforeInsert) /\ Kept(BeforeInsert)
  BY <1>i, <1>t, InsertRecord, ObservedRecord, RecordKinds
  DEF CommandTypes, BeforeInsert, Sound, Kept, AcceptedIsKept
<1>n. ASSUME state # "conversion" PROVE ~IsLeft
  BY <1>n DEF IsLeft, HasVisibleZenzConversion, HasZenzConversionCandidate
\* What a step leaves of the record when it leaves Zenz's conversion.
<1>r. LET p == SetPendingZenzFeedbackRejected(pending) IN
        /\ p \in PendingRecords
        /\ p.action = "accepted" => p.value \in kept
        /\ (p.action = "rejected" /\ p.final = NoValue) \/ (p = pending /\ ~IsLeft)
  <2>1. TypeOK /\ pending \in PendingRecords BY <1>t DEF CommandTypes
  <2>2. CASE MayRecord(zenz) /\ HasVisibleZenzConversion
    BY <2>1, <2>2, RejectedRecord
  <2>3. CASE ~(MayRecord(zenz) /\ HasVisibleZenzConversion)
    BY <1>t, <2>1, <2>3, RejectedRecord DEF IsLeft, AcceptedIsKept
  <2> QED BY <2>2, <2>3
<1>1. CASE InsertCharacter
  <2>1. state = "conversion" => Len(result') >= 1 /\ result'[1] = mozc
    <3> SUFFICES ASSUME state = "conversion" PROVE Len(result') >= 1 /\ result'[1] = mozc
      OBVIOUS
    <3>1. result' = <<mozc>> BY <1>1, InsertRecord DEF InsertCharacter
    <3> QED BY <3>1
  <2> QED BY <1>1, <2>1, <1>i, <1>n, WriteSummary DEF InsertCharacter
<1>2. CASE InsertSpace
  <2>1. state = "conversion" => Len(result') >= 1 /\ result'[1] = mozc
    <3> SUFFICES ASSUME state = "conversion" PROVE Len(result') >= 1 /\ result'[1] = mozc
      OBVIOUS
    <3>1. result' = Append(<<mozc>>, "space")
      BY <1>2, InsertRecord DEF InsertSpace
    <3>2. mozc \in Texts /\ "space" \in Texts BY <1>t DEF CommandTypes
    <3>3. Len(Append(<<mozc>>, "space")) = 2 /\ Append(<<mozc>>, "space")[1] = mozc
      BY <3>2, ShortRanges
    <3> QED BY <3>1, <3>3
  <2> QED BY <1>2, <2>1, <1>i, <1>n, WriteSummary DEF InsertSpace
<1>3. CASE InsertPunctuation
  <2>1. state = "conversion" => Len(result') >= 1 /\ result'[1] = mozc
    BY <1>3, <1>t, InsertRecord, ShortRanges DEF InsertPunctuation, CommandTypes
  <2>2. CASE HasVisibleZenzConversion
    <3>1. zenz \in Values
      BY <1>t, <2>2 DEF HasVisibleZenzConversion, HasZenzConversionCandidate, CommandTypes
    <3>2. Sound(pending') /\ (pending'.action = "accepted" => pending'.value \in kept')
      BY <1>3, <2>2, <3>1, AcceptedRecord DEF InsertPunctuation, Sound
    <3> QED BY <1>3, <2>1, <2>2, <3>2, <1>i, <1>n DEF InsertPunctuation, Summary
  <2>3. CASE ~HasVisibleZenzConversion
    BY <1>3, <2>1, <2>3, <1>i, <1>n, WriteSummary DEF InsertPunctuation
  <2> QED BY <2>2, <2>3
<1>4. ASSUME NEW v \in Values, MoveToMozcCandidate(v) PROVE Summary
  BY <1>4, RejectSummary DEF MoveToMozcCandidate
<1>5. ASSUME NEW v \in Values, EditSegment(v) PROVE Summary
  BY <1>5, RejectSummary DEF EditSegment, Left
<1>6. ASSUME NEW v \in Values, Convert(v) PROVE Summary
  BY <1>6, <1>n, HoldSummary DEF Convert
<1>7. ASSUME NEW v \in Values, ShowSuggestion(v) PROVE Summary
  BY <1>7, <1>n, HoldSummary DEF ShowSuggestion
<1>8. ASSUME NEW text \in Texts, CommitSegments(SetPendingZenzFeedbackRejected(pending), text)
      PROVE  Summary
  <2> DEFINE p == SetPendingZenzFeedbackRejected(pending)
  <2>1. /\ p \in PendingRecords
        /\ (p.action = "rejected" /\ p.final = NoValue) \/ (p = pending /\ ~IsLeft)
    BY <1>r
  <2>2. kept' = kept BY <1>8 DEF CommitSegments
  <2>3. p.action = "accepted" => p.value \in kept'
    BY <1>t, <2>1, <2>2 DEF AcceptedIsKept
  <2> HIDE DEF p
  <2>4. CASE Holds(Observe(p, "precomposition", text)) /\ result' = <<text>>
    BY <2>1, <2>3, <2>4, ObservedRecord, ShortRanges DEF Holds, Summary, Sound
  <2>5. CASE state # "precomposition" /\ Holds(Observe(p, state, "head"))
    BY <2>1, <2>3, <2>5, ObservedRecord DEF Holds, Summary, Sound
  <2> QED BY <1>8, <2>4, <2>5 DEF CommitSegments, p
<1>9. ASSUME NEW v \in Values, CommitCandidate(v) PROVE Summary
  BY <1>8, <1>9, <1>t DEF CommitCandidate, CommandTypes
<1>10. ASSUME NEW v \in Values, ConvertReverse(v) PROVE Summary
  BY <1>10, <1>n, HoldSummary DEF ConvertReverse
<1>11. CASE MoveToZenzCandidate
  <2>1. ~IsLeft
    BY <1>11 DEF MoveToZenzCandidate, IsLeft, HasVisibleZenzConversion,
                 HasZenzConversionCandidate, context
  <2> QED BY <1>11, <2>1, HoldSummary DEF MoveToZenzCandidate
<1>12. CASE ApplyZenzConversionResult
  <2>1. ~IsLeft
    BY <1>12 DEF ApplyZenzConversionResult, IsLeft, HasVisibleZenzConversion,
                 HasZenzConversionCandidate, context, overlay
  <2> QED BY <1>12, <2>1, HoldSummary DEF ApplyZenzConversionResult
<1>13. CASE PickSuggestion
  BY <1>13, <1>n, HoldSummary DEF PickSuggestion
<1>14. CASE CommitZenzConversionResult
  <2>1. zenz \in Values /\ pending \in PendingRecords
    BY <1>14, <1>t DEF CommitZenzConversionResult, HasZenzConversionCandidate, CommandTypes
  <2>2. ~IsLeft
    BY <1>14, ShortRanges DEF CommitZenzConversionResult, IsLeft
  <2> QED BY <1>14, <1>t, <2>1, <2>2, AcceptedRecord
       DEF CommitZenzConversionResult, Holds, Summary, Sound, AcceptedIsKept
<1>15. CASE CommitZenzSuggestion
  <2>1. suggestion \in Values /\ pending \in PendingRecords /\ ~IsLeft
    BY <1>15, <1>t, <1>n DEF CommitZenzSuggestion, CommandTypes
  <2> QED BY <1>15, <1>t, <2>1, AcceptedRecord
       DEF CommitZenzSuggestion, Holds, Summary, Sound, AcceptedIsKept
<1>16. CASE Commit
  <2>1. mozc \in Texts /\ pending \in PendingRecords BY <1>t DEF CommandTypes
  <2> QED BY <1>16, <1>t, <2>1, ObservedRecord, ShortRanges
       DEF Commit, Holds, Summary, Sound, AcceptedIsKept
<1>17. CASE CommitSegment
  BY <1>8, <1>17, <1>t DEF CommitSegment, Left, CommandTypes
<1>18. ASSUME NEW key, EchoBack(key) PROVE Summary
  BY <1>18, <1>n, HoldSummary, DiscardSummary DEF EchoBack
<1>19. CASE Backspace
  BY <1>19, DiscardSummary DEF Backspace
<1>20. CASE ConvertCancel
  BY <1>20, DiscardSummary DEF ConvertCancel
<1>21. CASE Undo
  BY <1>21, DiscardSummary DEF Undo
<1>22. ASSUME NEW how, Cancel(how) PROVE Summary
  BY <1>22, DiscardSummary DEF Cancel
<1>23. ASSUME NEW p \in PendingRecords, TurnOff(p),
              p.action = "accepted" => p.value \in kept,
              (p.action = "rejected" /\ p.final = NoValue) \/ (p = pending /\ ~IsLeft)
       PROVE  Summary
  <2>1. CASE state = "composition" /\ picked
    <3> DEFINE q == SetPendingZenzFeedbackAccepted(p, suggestion)
    <3>1. suggestion \in Values BY <1>t, <2>1 DEF CommandTypes, PickedIsShown
    <3>2. q \in PendingRecords /\ Sound(q) /\ (learning => Kept(q))
      BY <1>23, <2>1, <3>1, AcceptedRecord, ShortRanges DEF TurnOff, Sound, Kept
    <3> HIDE DEF q
    <3> QED BY <1>23, <2>1, <3>2, WriteSummary DEF TurnOff, q
  <2>2. CASE state \in {"composition", "conversion"} /\ ~picked
    <3> DEFINE q == Observe(p, "precomposition", mozc)
    <3>1. mozc \in Texts BY <1>t DEF CommandTypes
    <3>2. q \in PendingRecords /\ Sound(q) /\ Kept(q)
      <4>1. result' = <<mozc>> BY <1>23, <2>2 DEF TurnOff
      <4>2. Len(result') >= 1 /\ result'[1] = mozc BY <4>1
      <4> QED BY <1>23, <3>1, <4>2, ObservedRecord DEF Sound, Kept
    <3> HIDE DEF q
    <3> QED BY <1>23, <2>2, <3>2, WriteSummary DEF TurnOff, q
  <2>3. CASE ~(state = "composition" /\ picked) /\ ~(state \in {"composition", "conversion"} /\ ~picked)
    BY <1>23, <2>3, WriteSummary DEF TurnOff, Sound, Kept
  <2> QED BY <2>1, <2>2, <2>3
<1>24. CASE IMEOff
  <2>1. CASE state = "conversion"
    BY <1>23, <1>24, <1>r, <2>1 DEF IMEOff, Left
  <2>2. CASE state # "conversion"
    BY <1>23, <1>24, <1>t, <1>n, <2>2 DEF IMEOff, CommandTypes, AcceptedIsKept
  <2> QED BY <2>1, <2>2
<1>25. CASE MakeSureIMEOff
  <2>1. CASE HasVisibleZenzConversion
    <3> DEFINE q == SetPendingZenzFeedbackAccepted(pending, zenz)
    <3>1. zenz \in Values /\ pending \in PendingRecords
      BY <1>t, <2>1 DEF HasVisibleZenzConversion, HasZenzConversionCandidate, CommandTypes
    <3>2. result' = <<zenz>> /\ Writes(q) BY <1>25, <2>1 DEF MakeSureIMEOff
    <3>3. q \in PendingRecords /\ Sound(q) /\ (learning => Kept(q))
      <4>1. CASE MayRecord(zenz)
        BY <3>1, <3>2, <4>1, AcceptedRecord, ShortRanges DEF Sound, Kept, IsLeft
      <4>2. CASE ~MayRecord(zenz)
        BY <1>t, <3>1, <4>2, AcceptedRecord DEF Sound, Kept, IsLeft, AcceptedIsKept
      <4> QED BY <4>1, <4>2
    <3> HIDE DEF q
    <3> QED BY <3>2, <3>3, WriteSummary
  <2>2. CASE ~HasVisibleZenzConversion
    BY <1>23, <1>25, <1>t, <2>2 DEF MakeSureIMEOff, CommandTypes, AcceptedIsKept, IsLeft
  <2> QED BY <2>1, <2>2
<1>26. CASE IMEOn
  BY <1>26, <1>n, HoldSummary DEF IMEOn
<1>27. CASE SetConfig
  <2>1. ~IsLeft
    BY <1>27 DEF SetConfig, IsLeft, HasVisibleZenzConversion, HasZenzConversionCandidate, overlay
  <2> QED BY <1>27, <2>1, HoldSummary DEF SetConfig
<1> QED
  BY <1>1, <1>2, <1>3, <1>4, <1>5, <1>6, <1>7, <1>9, <1>10, <1>11, <1>12, <1>13,
     <1>14, <1>15, <1>16, <1>17, <1>18, <1>19, <1>20, <1>21, <1>22, <1>24, <1>25,
     <1>26, <1>27
  DEF Command

-----------------------------------------------------------------------------
\* The texts follow a sound rejection: one of them is its final value, or
\* there are several.
LEMMA SoundFits ==
  ASSUME IInv, Next, result' \in Seq(Texts), NEW q \in PendingRecords, Sound(q)
  PROVE  since' \in Seq(Texts) /\ Fits(q, since')
<1> DEFINE s == IF IsLeft THEN <<>> ELSE since
<1>1. since \in Seq(Texts) /\ s \in Seq(Texts)
  BY TypeParts, ShortTexts DEF IInv
<1>2. since' = IF Len(s \o result') > 2 THEN SubSeq(s \o result', 1, 2) ELSE s \o result'
  BY DEF Next, IsLeft
<1> HIDE DEF s
<1>3. since' \in Seq(Texts)
  BY <1>1, <1>2, History
<1>4. Fits(q, since')
  <2> SUFFICES ASSUME q.action = "rejected", q.final # NoValue
               PROVE  (Len(since') = 1 /\ since'[1] = q.final) \/ Len(since') >= 2
    BY DEF Fits
  <2>1. CASE q = pending /\ ~IsLeft
    <3>1. (Len(since) = 1 /\ since[1] = q.final) \/ Len(since) >= 2
      BY <2>1 DEF IInv, Fits
    <3>2. s = since BY <2>1 DEF s
    <3> QED BY <1>1, <1>2, <3>1, <3>2, HistoryOf
  <2>2. CASE Len(result') >= 1 /\ result'[1] = q.final
    BY <1>1, <1>2, <2>2, HistoryOf
  <2> QED BY <2>1, <2>2 DEF Sound
<1> QED BY <1>3, <1>4

\* The invariant holds at first.
LEMMA InitInv == Init => IInv
<1> SUFFICES ASSUME Init PROVE IInv OBVIOUS
<1>1. CommandTypes /\ since \in Seq(Texts)
  BY ShortTexts, NoFeedbackIsARecord, EmptySeq DEF Init, CommandTypes
<1> QED BY <1>1, TypeParts, NoFeedbackIsARecord
     DEF Init, IInv, PickedIsShown, AcceptedIsKept, Fits

\* Every command preserves it: types, then the summary of the command.
LEMMA StepInv == IInv /\ [Next]_vars => IInv'
<1> SUFFICES ASSUME IInv, [Next]_vars PROVE IInv' OBVIOUS
<1>1. CASE Next
  <2>1. Command BY <1>1 DEF Next
  <2>2. CommandTypes' /\ PickedIsShown' BY <2>1, CommandKeepsTypes DEF IInv
  <2>3. Summary BY <2>1, CommandSummary
  <2>4. result' \in Seq(Texts) /\ pending' \in PendingRecords
    BY <2>2 DEF CommandTypes
  <2>5. since' \in Seq(Texts) /\ Fits(pending', since')
    BY <1>1, <2>3, <2>4, SoundFits DEF Summary
  <2> QED BY <2>2, <2>3, <2>5, TypePartsNext DEF IInv, AcceptedIsKept, Summary, Fits
<1>2. CASE UNCHANGED vars
  BY <1>2 DEF vars, context, overlay, suggest, IInv, TypeOK, PickedIsShown, AcceptedIsKept, Fits
<1> QED BY <1>1, <1>2

\* Hence it holds always.
LEMMA Inductive == Spec => []IInv
  BY InitInv, StepInv, PTL DEF Spec

\* The pending record, the candidates shown and the texts committed keep
\* their types through every command (session.cc).
THEOREM TypeCorrect == Spec => []TypeOK
<1>1. IInv => TypeOK BY DEF IInv
<1> QED BY <1>1, Inductive, PTL

\* An acceptance is written only for a value that was committed and not taken
\* back (ConfirmPendingZenzFeedback and every handler that discards).
THEOREM AcceptanceIsKept == Spec => AcceptedWasKept
<1>1. IInv /\ [Next]_vars =>
        [written'.action = "accepted" =>
           written'.value \in kept \/ written'.value \in Range(result')]_vars
  <2> SUFFICES ASSUME IInv, Next, written'.action = "accepted"
               PROVE  written'.value \in kept \/ written'.value \in Range(result')
    OBVIOUS
  <2>1. Summary BY CommandSummary DEF Next
  <2>2. PICK q \in PendingRecords : written' = Confirm(q) /\ (learning => Kept(q))
    BY <2>1, NoFeedbackIsARecord DEF Summary
  <2>3. q.action = "accepted" /\ written'.value = q.value
    BY <2>2, ConfirmedRecord
  <2>4. learning
    BY <2>2, NoFeedbackIsARecord DEF Confirm
  <2> QED BY <2>2, <2>3, <2>4 DEF Kept
<1> QED BY <1>1, Inductive, PTL DEF Spec, AcceptedWasKept

\* A rejection is written only when another text, or more than the rejected
\* value, was committed after Zenz's value was left.
THEOREM RejectionIsReplaced == Spec => RejectedWasReplaced
<1>1. IInv /\ [Next]_vars =>
        [written'.action = "rejected" =>
           since' # <<>> /\ since' # <<written'.value>>]_vars
  <2> SUFFICES ASSUME IInv, Next, written'.action = "rejected"
               PROVE  since' # <<>> /\ since' # <<written'.value>>
    OBVIOUS
  <2>1. Summary BY CommandSummary DEF Next
  <2>2. PICK q \in PendingRecords : written' = Confirm(q) /\ Sound(q)
    BY <2>1, NoFeedbackIsARecord DEF Summary
  <2>3. q.action = "rejected" /\ written'.value = q.value /\ q.final # NoValue /\ q.final # q.value
    BY <2>2, ConfirmedRecord
  <2>4. result' \in Seq(Texts)
    BY CommandKeepsTypes DEF Next, IInv, CommandTypes
  <2>5. Fits(q, since') BY <2>2, <2>4, SoundFits
  <2>6. (Len(since') = 1 /\ since'[1] = q.final) \/ Len(since') >= 2
    BY <2>3, <2>5 DEF Fits
  <2>7. Len(<<>>) = 0 /\ Len(<<q.value>>) = 1 /\ <<q.value>>[1] = q.value OBVIOUS
  <2>8. since' # <<>> BY <2>6, <2>7
  <2>9. since' # <<q.value>>
    <3> SUFFICES ASSUME since' = <<q.value>> PROVE FALSE OBVIOUS
    <3>1. Len(since') = 1 /\ since'[1] = q.value BY <2>7
    <3> QED BY <2>3, <2>6, <3>1
  <2> QED BY <2>3, <2>8, <2>9
<1> QED BY <1>1, Inductive, PTL DEF Spec, RejectedWasReplaced
=============================================================================
