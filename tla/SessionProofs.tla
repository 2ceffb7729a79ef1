---------------------------- MODULE SessionProofs ----------------------------
(***************************************************************************)
(* Proofs about a session and its converter (Session.tla,                  *)
(* EngineConverter.tla), for any length of composition, any depth of undo   *)
(* and with or without zero query suggestions.                             *)
(***************************************************************************)
EXTENDS Session, TLAPS, SequenceTheorems, WellFoundedInduction

-----------------------------------------------------------------------------
(* Induction on the natural numbers, for a set instead of a predicate.     *)

\* A set with 0 that is closed under successor holds every natural number.
LEMMA NatSetInduction ==
  ASSUME NEW S, 0 \in S, \A n \in Nat : n \in S => n + 1 \in S
  PROVE Nat \subseteq S
<1> DEFINE R == {ss \in Nat \X Nat : ss[1] < ss[2]}
<1>1. IsWellFoundedOn(R, Nat)
  <2>1. IsWellFoundedOn(OpToRel(<, Nat), Nat)  BY NatLessThanWellFounded
  <2> QED  BY <2>1 DEF OpToRel
<1>2. SUFFICES ASSUME Nat \ S # {} PROVE FALSE  OBVIOUS
<1>3. PICK x \in Nat \ S : \A y \in Nat \ S : ~ (<<y, x>> \in R)
  <2> HIDE DEF R
  <2> QED  BY <1>1, <1>2, WFMin
<1>4. x # 0  BY <1>3
<1>5. x - 1 \in Nat /\ x = (x - 1) + 1  BY <1>3, <1>4
<1>6. <<x - 1, x>> \in R  BY <1>3, <1>5
<1>7. x - 1 \in S
  <2> HIDE DEF R
  <2> QED  BY <1>3, <1>5, <1>6
<1> QED  BY <1>3, <1>5, <1>7

-----------------------------------------------------------------------------
(* What Sums and Total compute.                                            *)

\* The equation that Sums is the solution of, up to n.
SumsUpTo(f, s, n) ==
  f = [i \in 0 .. n |-> IF i = 0 THEN 0 ELSE f[i - 1] + s[i]]

\* The equation has a solution for each length.
LEMMA SumsExist ==
  ASSUME NEW s, NEW m \in Nat
  PROVE \E f : SumsUpTo(f, s, m)
<1> DEFINE S == {n \in Nat : \E f : SumsUpTo(f, s, n)}
<1>1. 0 \in S
  <2> DEFINE g == [i \in 0 .. 0 |-> 0]
  <2>1. SumsUpTo(g, s, 0)  BY DEF SumsUpTo
  <2> QED  BY <2>1
<1>2. ASSUME NEW n \in Nat, n \in S PROVE n + 1 \in S
  <2>1. PICK f : SumsUpTo(f, s, n)  BY <1>2
  <2> DEFINE g == [i \in 0 .. n + 1 |-> IF i = n + 1 THEN f[n] + s[n + 1] ELSE f[i]]
             e == [i \in 0 .. n + 1 |-> IF i = 0 THEN 0 ELSE g[i - 1] + s[i]]
  <2>2. \A i \in 0 .. n : f[i] = IF i = 0 THEN 0 ELSE f[i - 1] + s[i]
    BY <2>1 DEF SumsUpTo
  <2>3. ASSUME NEW i \in 0 .. n + 1 PROVE g[i] = e[i]
    <3>1. CASE i = 0  BY <3>1, <2>2
    <3>2. CASE i \in 1 .. n
      <4>1. g[i] = f[i] /\ g[i - 1] = f[i - 1]  BY <3>2
      <4>2. f[i] = f[i - 1] + s[i]  BY <3>2, <2>2
      <4>3. e[i] = g[i - 1] + s[i]  BY <3>2
      <4> QED  BY <4>1, <4>2, <4>3
    <3>3. CASE i = n + 1
      <4>1. g[i] = f[n] + s[n + 1] /\ g[i - 1] = f[n]  BY <3>3
      <4>2. e[i] = g[i - 1] + s[i]  BY <3>3
      <4> QED  BY <4>1, <4>2, <3>3
    <3> QED  BY <3>1, <3>2, <3>3
  <2>4. g = e  BY <2>3
  <2>5. SumsUpTo(g, s, n + 1)  BY <2>4 DEF SumsUpTo
  <2> HIDE DEF g
  <2> QED  BY <2>5
<1>3. Nat \subseteq S
  <2> HIDE DEF S
  <2> QED  BY <1>1, <1>2, NatSetInduction
<1> QED  BY <1>3

\* Sums starts at 0 and adds one number at a time.
LEMMA SumsUnfold ==
  ASSUME NEW s, Len(s) \in Nat
  PROVE /\ Sums(s)[0] = 0
        /\ \A i \in 1 .. Len(s) : Sums(s)[i] = Sums(s)[i - 1] + s[i]
<1>1. Sums(s) = CHOOSE f : SumsUpTo(f, s, Len(s))  BY DEF Sums, SumsUpTo
<1>2. SumsUpTo(Sums(s), s, Len(s))  BY <1>1, SumsExist
<1> DEFINE r == Sums(s)
<1> HIDE DEF r
<1>3. r = [i \in 0 .. Len(s) |-> IF i = 0 THEN 0 ELSE r[i - 1] + s[i]]
  BY <1>2 DEF SumsUpTo, r
<1>4. 0 \in 0 .. Len(s) /\ \A i \in 1 .. Len(s) : i \in 0 .. Len(s) /\ i # 0
  OBVIOUS
<1>5. r[0] = 0  BY <1>3, <1>4
<1>6. \A i \in 1 .. Len(s) : r[i] = r[i - 1] + s[i]  BY <1>3, <1>4
<1> QED  BY <1>5, <1>6 DEF r

\* The sums of natural numbers are natural numbers, and at least as many as
\* the numbers if these are positive.
LEMMA SumsType ==
  ASSUME NEW s \in Seq(Nat)
  PROVE /\ \A n \in 0 .. Len(s) : Sums(s)[n] \in Nat
        /\ (\A i \in 1 .. Len(s) : s[i] > 0) => \A n \in 0 .. Len(s) : n <= Sums(s)[n]
<1> DEFINE r == Sums(s)
           P(n) == /\ r[n] \in Nat
                   /\ (\A i \in 1 .. Len(s) : s[i] > 0) => n <= r[n]
           T == {n \in Nat : n <= Len(s) => P(n)}
<1>1. Len(s) \in Nat /\ \A i \in 1 .. Len(s) : s[i] \in Nat
  BY LenProperties, ElementOfSeq
<1>2. r[0] = 0 /\ \A i \in 1 .. Len(s) : r[i] = r[i - 1] + s[i]
  BY <1>1, SumsUnfold
<1> HIDE DEF r
<1>3. 0 \in T  BY <1>2
<1>4. ASSUME NEW n \in Nat, n \in T PROVE n + 1 \in T
  <2>1. SUFFICES ASSUME n + 1 <= Len(s) PROVE P(n + 1)  OBVIOUS
  <2>2. P(n)  BY <1>1, <1>4, <2>1
  <2>3. n + 1 \in 1 .. Len(s) /\ (n + 1) - 1 = n /\ s[n + 1] \in Nat
    BY <1>1, <2>1
  <2>4. r[n + 1] = r[n] + s[n + 1]  BY <1>2, <2>3
  <2> QED  BY <2>2, <2>3, <2>4
<1>5. Nat \subseteq T
  <2> HIDE DEF T
  <2> QED  BY <1>3, <1>4, NatSetInduction
<1>6. \A n \in 0 .. Len(s) : P(n)
  <2> HIDE DEF P
  <2> QED  BY <1>1, <1>5
<1> QED  BY <1>6 DEF r

\* A part of s that t repeats adds the sums of t.
LEMMA SumsShift ==
  ASSUME NEW s \in Seq(Nat), NEW t \in Seq(Nat), NEW k \in 0 .. Len(s),
         k + Len(t) <= Len(s), \A j \in 1 .. Len(t) : t[j] = s[k + j]
  PROVE Sums(s)[k + Len(t)] = Sums(s)[k] + Total(t)
<1> DEFINE r == Sums(s)
           q == Sums(t)
           T == {n \in Nat : n <= Len(t) => r[k + n] = r[k] + q[n]}
<1>1. Len(s) \in Nat /\ Len(t) \in Nat  BY LenProperties
<1>2. r[0] = 0 /\ \A i \in 1 .. Len(s) : r[i] = r[i - 1] + s[i]
  BY <1>1, SumsUnfold
<1>3. q[0] = 0 /\ \A i \in 1 .. Len(t) : q[i] = q[i - 1] + t[i]
  BY <1>1, SumsUnfold
<1>4. /\ \A n \in 0 .. Len(s) : r[n] \in Nat
      /\ \A n \in 0 .. Len(t) : q[n] \in Nat
      /\ \A n \in 1 .. Len(t) : t[n] \in Nat
  BY SumsType, ElementOfSeq
<1> HIDE DEF r, q
<1>5. 0 \in T  BY <1>1, <1>3, <1>4
<1>6. ASSUME NEW n \in Nat, n \in T PROVE n + 1 \in T
  <2>1. SUFFICES ASSUME n + 1 <= Len(t) PROVE r[k + (n + 1)] = r[k] + q[n + 1]
    OBVIOUS
  <2>2. r[k + n] = r[k] + q[n]  BY <1>1, <1>6, <2>1
  <2>3. /\ n + 1 \in 1 .. Len(t) /\ (n + 1) - 1 = n /\ n \in 0 .. Len(t)
        /\ k + (n + 1) \in 1 .. Len(s) /\ (k + (n + 1)) - 1 = k + n
    BY <1>1, <2>1
  <2>4. q[n + 1] = q[n] + t[n + 1]  BY <1>3, <2>3
  <2>5. r[k + (n + 1)] = r[k + n] + t[n + 1]  BY <1>2, <2>3
  <2>6. r[k] \in Nat /\ q[n] \in Nat /\ t[n + 1] \in Nat  BY <1>1, <1>4, <2>3
  <2> DEFINE a == r[k]  b == q[n]  c == t[n + 1]
             x == r[k + (n + 1)]  y == r[k + n]  z == q[n + 1]
  <2>7. /\ a \in Nat /\ b \in Nat /\ c \in Nat
        /\ y = a + b /\ z = b + c /\ x = y + c
    BY <2>2, <2>4, <2>5, <2>6
  <2> HIDE DEF a, b, c, x, y, z
  <2>8. x = a + z  BY <2>7
  <2> QED  BY <2>8 DEF x, a, z
<1>7. Nat \subseteq T
  <2> HIDE DEF T
  <2> QED  BY <1>5, <1>6, NatSetInduction
<1>8. r[k + Len(t)] = r[k] + q[Len(t)]  BY <1>1, <1>7
<1> QED  BY <1>8 DEF Total, r, q

\* The total of natural numbers.
LEMMA TotalType ==
  ASSUME NEW s \in Seq(Nat)
  PROVE /\ Total(s) \in Nat
        /\ (\A i \in 1 .. Len(s) : s[i] > 0) => Len(s) <= Total(s)
<1>1. Len(s) \in 0 .. Len(s)  BY LenProperties
<1> QED  BY <1>1, SumsType DEF Total

\* The total of no number, and of one.
LEMMA TotalSmall ==
  /\ Total(<< >>) = 0
  /\ \A n \in Nat : Total(<<n>>) = n
<1>1. Total(<< >>) = 0
  <2>1. Len(<< >>) = 0  OBVIOUS
  <2>2. Sums(<< >>)[0] = 0  BY <2>1, SumsUnfold
  <2> QED  BY <2>1, <2>2 DEF Total
<1>2. ASSUME NEW n \in Nat PROVE Total(<<n>>) = n
  <2>1. Len(<<n>>) = 1 /\ <<n>>[1] = n  OBVIOUS
  <2> DEFINE s == <<n>>
  <2>2. Len(s) = 1 /\ s[1] = n  BY <2>1
  <2> HIDE DEF s
  <2>3. Sums(s)[0] = 0 /\ Sums(s)[1] = Sums(s)[1 - 1] + s[1]  BY <2>2, SumsUnfold
  <2>4. Total(s) = n  BY <2>2, <2>3 DEF Total
  <2> QED  BY <2>4 DEF s
<1> QED  BY <1>1, <1>2

\* The total of a concatenation.
LEMMA TotalConcat ==
  ASSUME NEW s \in Seq(Nat), NEW t \in Seq(Nat)
  PROVE Total(s \o t) = Total(s) + Total(t)
<1> DEFINE c == s \o t
<1>1. /\ c \in Seq(Nat) /\ Len(c) = Len(s) + Len(t)
      /\ \A i \in 1 .. Len(s) + Len(t) : c[i] = IF i <= Len(s) THEN s[i] ELSE t[i - Len(s)]
      /\ Len(s) \in Nat /\ Len(t) \in Nat
  BY ConcatProperties, LenProperties
<1> HIDE DEF c
<1>2. \A j \in 1 .. Len(s) : s[j] = c[0 + j]  BY <1>1
<1>3. \A j \in 1 .. Len(t) : t[j] = c[Len(s) + j]
  <2>1. ASSUME NEW j \in 1 .. Len(t) PROVE t[j] = c[Len(s) + j]
    <3>1. /\ Len(s) + j \in 1 .. Len(s) + Len(t) /\ ~(Len(s) + j <= Len(s))
          /\ (Len(s) + j) - Len(s) = j
      BY <1>1
    <3> QED  BY <1>1, <3>1
  <2> QED  BY <2>1
<1>4. /\ 0 \in 0 .. Len(c) /\ 0 + Len(s) <= Len(c) /\ 0 + Len(s) = Len(s)
      /\ Len(s) \in 0 .. Len(c) /\ Len(s) + Len(t) <= Len(c)
  BY <1>1
<1>5. Sums(c)[0 + Len(s)] = Sums(c)[0] + Total(s)  BY <1>1, <1>2, <1>4, SumsShift
<1>6. Sums(c)[Len(s) + Len(t)] = Sums(c)[Len(s)] + Total(t)
  BY <1>1, <1>3, <1>4, SumsShift
<1>7. Sums(c)[0] = 0  BY <1>1, SumsUnfold
<1>8. Total(s) \in Nat /\ Total(t) \in Nat  BY TotalType
<1>9. Total(c) = Total(s) + Total(t)  BY <1>1, <1>4, <1>5, <1>6, <1>7, <1>8 DEF Total
<1> QED  BY <1>9 DEF c

\* A list cut in two.
LEMMA TotalCut ==
  ASSUME NEW s \in Seq(Nat), NEW k \in 0 .. Len(s)
  PROVE /\ SubSeq(s, 1, k) \in Seq(Nat) /\ Len(SubSeq(s, 1, k)) = k
        /\ SubSeq(s, k + 1, Len(s)) \in Seq(Nat)
        /\ Len(SubSeq(s, k + 1, Len(s))) = Len(s) - k
        /\ Total(s) = Total(SubSeq(s, 1, k)) + Total(SubSeq(s, k + 1, Len(s)))
<1>1. Len(s) \in Nat /\ \A i \in 1 .. Len(s) : s[i] \in Nat
  BY LenProperties, ElementOfSeq
<1>2. SubSeq(s, 1, k) \in Seq(Nat) /\ Len(SubSeq(s, 1, k)) = k
  <2>1. \A i \in 1 .. k : s[i] \in Nat  BY <1>1
  <2> QED  BY <1>1, <2>1, SubSeqProperties
<1>3. SubSeq(s, k + 1, Len(s)) \in Seq(Nat) /\ Len(SubSeq(s, k + 1, Len(s))) = Len(s) - k
  <2>1. \A i \in k + 1 .. Len(s) : s[i] \in Nat  BY <1>1
  <2> QED  BY <1>1, <2>1, SubSeqProperties
<1>4. SubSeq(s, 1, k) \o SubSeq(s, k + 1, Len(s)) = s
  <2>1. /\ 1 \in 1 .. Len(s) + 1 /\ k \in 1 - 1 .. Len(s) /\ Len(s) \in k .. Len(s)
    BY <1>1
  <2>2. SubSeq(s, 1, k) \o SubSeq(s, k + 1, Len(s)) = SubSeq(s, 1, Len(s))
    BY <2>1, ConcatAdjacentSubSeq
  <2> QED  BY <2>2, SubSeqFull
<1> DEFINE a == SubSeq(s, 1, k)  b == SubSeq(s, k + 1, Len(s))
<1>5. Total(a \o b) = Total(a) + Total(b)
  <2>1. a \in Seq(Nat) /\ b \in Seq(Nat)  BY <1>2, <1>3
  <2> HIDE DEF a, b
  <2> QED  BY <2>1, TotalConcat
<1> QED  BY <1>2, <1>3, <1>4, <1>5

-----------------------------------------------------------------------------
(* The converter.                                                          *)

\* What every command finds and leaves, for a composition of n characters:
\* the segments of a conversion cover it, suggestions and predictions are one
\* segment that covers it unless the session strayed (t), and predictions
\* can be made from the suggestions shown.
Shaped(c, n, t) ==
  /\ c \in Converters
  /\ Len(c.previous) <= 1
  /\ c.state = "COMPOSITION" => c.previous = <<>>
  /\ c.state \in Active => /\ c.segment_index < Len(c.segments)
                           /\ c.selected >= Len(c.segments)
  /\ c.state = "CONVERSION" => /\ Total(c.segments) = n
                               /\ \A i \in 1 .. Len(c.segments) : c.segments[i] > 0
  /\ c.state \in {"SUGGESTION", "PREDICTION"} => /\ Len(c.segments) = 1
                                                 /\ t \/ Total(c.segments) = n
  /\ c.state = "SUGGESTION" => /\ c.previous # <<>>
                               /\ t \/ (c.previous = c.segments /\ c.candidates)

\* A converter whose assertions have held.
ConverterOK(c, n, t) == Shaped(c, n, t) /\ c.checked

\* The same, before the shape of its segments is known.
Sound(c) ==
  /\ c \in Converters /\ c.checked
  /\ Len(c.previous) <= 1
  /\ c.state = "COMPOSITION" => c.previous = <<>>

\* A converter with nothing to show.
Idle(c) == Sound(c) /\ c.state = "COMPOSITION"

\* A converter whose server has ended.
Ended(c) == c \in Converters /\ c.checked = FALSE

\* The types of the fields.
LEMMA Fields ==
  ASSUME NEW c \in Converters
  PROVE /\ c.state \in States /\ c.segments \in Seq(0 .. MaxLength)
        /\ c.segment_index \in 0 .. MaxLength /\ c.selected \in 0 .. MaxLength
        /\ c.previous \in Seq(0 .. MaxLength) /\ c.result \in 0 .. MaxLength
        /\ c.candidates \in BOOLEAN /\ c.checked \in BOOLEAN
BY DEF Converters

\* A converter in its shape is a sound one.
LEMMA OKSound ==
  ASSUME NEW c, NEW n, NEW t, ConverterOK(c, n, t)
  PROVE Sound(c) /\ c \in Converters /\ c.state \in States
BY Fields DEF ConverterOK, Shaped, Sound

\* An idle converter suits any composition.
LEMMA IdleOK ==
  ASSUME NEW c, Idle(c), NEW n, NEW t PROVE ConverterOK(c, n, t)
BY DEF Idle, Sound, ConverterOK, Shaped, Active

\* After the session strayed suggestions may be for any composition.
LEMMA StrayedOK ==
  ASSUME NEW c, NEW n, NEW t, ConverterOK(c, n, t), c.state \notin Focused, NEW m
  PROVE ConverterOK(c, m, TRUE)
BY DEF ConverterOK, Shaped, Focused

\* An assertion fails.
LEMMA AbortedEnded == ASSUME NEW c \in Converters PROVE Ended(Aborted(c))
BY DEF Ended, Aborted, Converters

\* The empty list of segments is one.
LEMMA NoSegments == << >> \in Seq(0 .. MaxLength) /\ Len(<< >>) = 0
BY EmptySeq

\* ResetResult drops the result and nothing else.
LEMMA ResetResultFields ==
  ASSUME NEW c \in Converters
  PROVE /\ ResetResult(c) \in Converters /\ ResetResult(c).result = 0
        /\ ResetResult(c).state = c.state /\ ResetResult(c).segments = c.segments
        /\ ResetResult(c).segment_index = c.segment_index
        /\ ResetResult(c).selected = c.selected
        /\ ResetResult(c).previous = c.previous
        /\ ResetResult(c).candidates = c.candidates
        /\ ResetResult(c).checked = c.checked
BY SessionAssumption DEF ResetResult, Converters

LEMMA ResetResultSound ==
  ASSUME NEW c, Sound(c)
  PROVE /\ Sound(ResetResult(c)) /\ ResetResult(c).result = 0
        /\ ResetResult(c).state = c.state /\ ResetResult(c).segments = c.segments
        /\ ResetResult(c).segment_index = c.segment_index
        /\ ResetResult(c).selected = c.selected
        /\ ResetResult(c).previous = c.previous
<1> DEFINE d == ResetResult(c)
<1>1. /\ d \in Converters /\ d.result = 0 /\ d.state = c.state
      /\ d.segments = c.segments /\ d.segment_index = c.segment_index
      /\ d.selected = c.selected /\ d.previous = c.previous /\ d.checked = c.checked
  BY ResetResultFields DEF Sound
<1> HIDE DEF d
<1>2. Sound(d)  BY <1>1 DEF Sound
<1> QED  BY <1>1, <1>2 DEF d

\* ResetState ends what goes on; the result stays.
LEMMA ResetStateFields ==
  ASSUME NEW c \in Converters
  PROVE /\ ResetState(c) \in Converters /\ ResetState(c).state = "COMPOSITION"
        /\ ResetState(c).result = c.result /\ ResetState(c).previous = <<>>
        /\ ResetState(c).checked = c.checked
<1>1. 0 \in 0 .. MaxLength /\ "COMPOSITION" \in States
  BY SessionAssumption DEF States
<1>2. << >> \in Seq(0 .. MaxLength)  BY NoSegments
<1> QED  BY <1>1, <1>2 DEF ResetState, NewConverter, Converters

LEMMA ResetStateIdle ==
  ASSUME NEW c, Sound(c)
  PROVE Idle(ResetState(c)) /\ ResetState(c).result = c.result
<1> DEFINE d == ResetState(c)
<1>1. /\ d \in Converters /\ d.state = "COMPOSITION" /\ d.result = c.result
      /\ d.previous = <<>> /\ d.checked = c.checked
  BY ResetStateFields DEF Sound
<1> HIDE DEF d
<1>2. Idle(d)  BY <1>1, NoSegments DEF Idle, Sound
<1> QED  BY <1>1, <1>2 DEF d

\* Cancel, which expects an active converter.
LEMMA CancelIdle ==
  ASSUME NEW c, Sound(c), c.state \in Active
  PROVE Idle(Cancel(c)) /\ Cancel(c).result = 0
<1>1. Sound(ResetResult(c)) /\ ResetResult(c).result = 0  BY ResetResultSound
<1> QED  BY <1>1, ResetStateIdle DEF Cancel

\* Reset, in any state.
LEMMA ResetIdle ==
  ASSUME NEW c, Sound(c)
  PROVE Idle(Reset(c)) /\ Reset(c).result = 0
<1>1. /\ Sound(ResetResult(c)) /\ ResetResult(c).result = 0
      /\ ResetResult(c).state = c.state
  BY ResetResultSound
<1> QED  BY <1>1, ResetStateIdle DEF Reset, Idle

\* PopOutput hands the result out, unless the ids shown are no candidates.
LEMMA PopOutputFacts ==
  ASSUME NEW n, NEW t, NEW c, ConverterOK(c, n, t)
  PROVE \/ t /\ Ended(PopOutput(c))
        \/ /\ ConverterOK(PopOutput(c), n, t) /\ PopOutput(c).result = 0
           /\ PopOutput(c).state = c.state
<1>1. c \in Converters  BY OKSound
<1>2. CASE c.state = "SUGGESTION" /\ ~c.candidates
  <2>1. t  BY <1>2 DEF ConverterOK, Shaped
  <2> QED  BY <1>1, <1>2, <2>1, AbortedEnded DEF PopOutput
<1>3. CASE ~(c.state = "SUGGESTION" /\ ~c.candidates)
  <2> DEFINE d == ResetResult(c)
  <2>1. /\ d \in Converters /\ d.result = 0 /\ d.state = c.state
        /\ d.segments = c.segments /\ d.segment_index = c.segment_index
        /\ d.selected = c.selected /\ d.previous = c.previous
        /\ d.candidates = c.candidates /\ d.checked = c.checked
    BY <1>1, ResetResultFields
  <2>2. PopOutput(c) = d  BY <1>3 DEF PopOutput
  <2> HIDE DEF d
  <2>3. ConverterOK(d, n, t)  BY <2>1 DEF ConverterOK, Shaped
  <2> QED  BY <2>1, <2>2, <2>3
<1> QED  BY <1>2, <1>3

\* An ended server stays ended.
LEMMA EndedStays ==
  ASSUME NEW c, Ended(c)
  PROVE Ended(ResetResult(c)) /\ Ended(ResetState(c)) /\ Ended(Reset(c))
        /\ Ended(Aborted(c)) /\ Ended(PopOutput(c))
<1>1. c \in Converters  BY DEF Ended
<1>2. Ended(ResetResult(c))  BY <1>1, ResetResultFields DEF Ended
<1>3. Ended(ResetState(c))  BY <1>1, ResetStateFields DEF Ended
<1>4. Ended(ResetState(ResetResult(c)))
  BY <1>2, ResetStateFields DEF Ended
<1>5. Ended(Aborted(c))  BY <1>1, AbortedEnded
<1> QED  BY <1>2, <1>3, <1>4, <1>5 DEF Reset, PopOutput

\* Segments of a composition of n characters, as the engine cuts it.
LEMMA SplitsFacts ==
  ASSUME NEW n \in 0 .. MaxLength, NEW s \in Splits(n)
  PROVE /\ s \in Seq(0 .. MaxLength) /\ s \in Seq(Nat) /\ Total(s) = n
        /\ \A i \in 1 .. Len(s) : s[i] > 0
        /\ Len(s) \in 0 .. n
        /\ s # << >> => Len(s) \in 1 .. n
<1>1. PICK k \in 0 .. n : s \in [1 .. k -> 1 .. n]  BY DEF Splits
<1>2. Total(s) = n  BY DEF Splits
<1>3. s \in Seq(1 .. n) /\ Len(s) = k  BY <1>1, SessionAssumption
<1>4. 1 .. n \subseteq 0 .. MaxLength /\ 1 .. n \subseteq Nat  BY SessionAssumption
<1>5. s \in Seq(0 .. MaxLength) /\ s \in Seq(Nat)  BY <1>3, <1>4, SeqMonotonic
<1>6. \A i \in 1 .. Len(s) : s[i] > 0  BY <1>1, <1>3
<1>7. s # << >> => Len(s) # 0  BY <1>3, EmptySeq
<1> QED  BY <1>1, <1>2, <1>3, <1>5, <1>6, <1>7, SessionAssumption

\* One segment.
LEMMA OneSegment ==
  ASSUME NEW n \in 0 .. MaxLength
  PROVE /\ <<n>> \in Seq(0 .. MaxLength) /\ Len(<<n>>) = 1 /\ Total(<<n>>) = n
        /\ <<n>>[1] = n /\ <<n>> # <<>>
<1>1. n \in Nat  BY SessionAssumption
<1> QED  BY <1>1, TotalSmall

\* The only segment of a list.
LEMMA OnlySegment ==
  ASSUME NEW s \in Seq(0 .. MaxLength), Len(s) = 1
  PROVE s = <<s[1]>> /\ s[1] \in 0 .. MaxLength /\ Total(s) = s[1]
<1>1. s[1] \in 0 .. MaxLength
  <2>1. 1 \in 1 .. Len(s)  OBVIOUS
  <2> QED  BY <2>1, ElementOfSeq
<1>2. s = <<s[1]>>
  <2>2. Len(<<s[1]>>) = 1 /\ <<s[1]>>[1] = s[1] /\ <<s[1]>> \in Seq(0 .. MaxLength)
    BY <1>1
  <2> QED  BY <2>2, SeqEqual
<1> DEFINE n == s[1]
<1>3. n \in 0 .. MaxLength  BY <1>1
<1> HIDE DEF n
<1>4. Total(<<n>>) = n  BY <1>3, OneSegment
<1> QED  BY <1>1, <1>2, <1>4 DEF n

\* A state entered with new segments.
LEMMA EnteredFields ==
  ASSUME NEW c \in Converters, NEW st \in States, NEW s \in Seq(0 .. MaxLength),
         Len(s) \in 0 .. MaxLength
  PROVE /\ Entered(c, st, s) \in Converters /\ Entered(c, st, s).state = st
        /\ Entered(c, st, s).segments = s /\ Entered(c, st, s).segment_index = 0
        /\ Entered(c, st, s).selected = Len(s)
        /\ Entered(c, st, s).previous = c.previous
        /\ Entered(c, st, s).candidates
        /\ Entered(c, st, s).result = c.result
        /\ Entered(c, st, s).checked = c.checked
<1>1. 0 \in 0 .. MaxLength  BY SessionAssumption
<1> DEFINE d == Entered(c, st, s)
<1>2. /\ d.state = st /\ d.segments = s /\ d.segment_index = 0 /\ d.selected = Len(s)
      /\ d.previous = c.previous /\ d.result = c.result /\ d.checked = c.checked
      /\ d.candidates
  BY DEF Entered, Converters
<1>3. d \in Converters
  <2> DEFINE l == Len(s)
  <2>1. l \in 0 .. MaxLength  OBVIOUS
  <2>2. d = [c EXCEPT !.state = st, !.segments = s, !.segment_index = 0, !.selected = l,
                      !.candidates = TRUE]
    BY DEF Entered
  <2> HIDE DEF l, d
  <2> QED  BY <1>1, <2>1, <2>2 DEF Converters
<1> QED  BY <1>2, <1>3

-----------------------------------------------------------------------------
(* The converter's methods.                                                *)

\* The number of segments fits their field, and so do the lengths of results.
LEMMA ActiveFacts ==
  ASSUME NEW n, NEW t, NEW c, ConverterOK(c, n, t), c.state \in Active
  PROVE /\ Sound(c) /\ c.segments \in Seq(0 .. MaxLength) /\ c.segments \in Seq(Nat)
        /\ Len(c.segments) \in 1 .. MaxLength
        /\ c.segment_index \in 0 .. Len(c.segments) - 1
        /\ c.selected \in Len(c.segments) .. MaxLength
<1>1. /\ Sound(c) /\ c.segments \in Seq(0 .. MaxLength)
      /\ c.segment_index \in 0 .. MaxLength /\ c.selected \in 0 .. MaxLength
  BY Fields, OKSound
<1>2. 0 .. MaxLength \subseteq Nat  BY SessionAssumption
<1>3. c.segments \in Seq(Nat)  BY <1>1, <1>2, SeqMonotonic
<1>4. c.segment_index < Len(c.segments) /\ c.selected >= Len(c.segments)
  BY DEF ConverterOK, Shaped
<1>5. Len(c.segments) \in Nat  BY <1>3, LenProperties
<1> DEFINE l == Len(c.segments)
<1>6. l \in 1 .. MaxLength /\ c.segment_index \in 0 .. l - 1 /\ c.selected \in l .. MaxLength
  <2>1. l \in Nat /\ c.segment_index < l /\ c.selected >= l  BY <1>4, <1>5
  <2> HIDE DEF l
  <2> QED  BY <1>1, <2>1, SessionAssumption
<1> QED  BY <1>1, <1>3, <1>6

\* Those of a conversion are as many as its characters, at most.
LEMMA ConversionFacts ==
  ASSUME NEW n \in 0 .. MaxLength, NEW t, NEW c, ConverterOK(c, n, t),
         c.state = "CONVERSION"
  PROVE Total(c.segments) = n /\ n >= 1 /\ Len(c.segments) <= n
<1>1. c.segments \in Seq(Nat) /\ Len(c.segments) \in 1 .. MaxLength
  BY ActiveFacts DEF Active, States
<1>2. /\ Total(c.segments) = n
      /\ \A i \in 1 .. Len(c.segments) : c.segments[i] > 0
  BY DEF ConverterOK, Shaped
<1>3. Len(c.segments) <= n  BY <1>1, <1>2, TotalType
<1> QED  BY <1>1, <1>2, <1>3, SessionAssumption

\* The length of what is committed fits, too.
LEMMA ActiveTotal ==
  ASSUME NEW n \in 0 .. MaxLength, NEW t, NEW c, ConverterOK(c, n, t),
         c.state \in Active
  PROVE Total(c.segments) \in 0 .. MaxLength
<1>1. CASE c.state = "CONVERSION"  BY <1>1, ConversionFacts
<1>2. CASE c.state # "CONVERSION"
  <2>1. Len(c.segments) = 1 /\ c.segments \in Seq(0 .. MaxLength)
    BY <1>2, ActiveFacts DEF ConverterOK, Shaped, Active, States
  <2> QED  BY <2>1, OnlySegment
<1> QED  BY <1>1, <1>2

\* An active converter in its shape.
LEMMA ActiveOK ==
  ASSUME NEW c, Sound(c), NEW n, NEW t, c.state \in Active,
         c.segment_index < Len(c.segments), c.selected >= Len(c.segments),
         c.state = "CONVERSION" =>
           /\ Total(c.segments) = n
           /\ \A i \in 1 .. Len(c.segments) : c.segments[i] > 0,
         c.state \in {"SUGGESTION", "PREDICTION"} =>
           Len(c.segments) = 1 /\ (t \/ Total(c.segments) = n),
         c.state = "SUGGESTION" =>
           c.previous # <<>> /\ (t \/ (c.previous = c.segments /\ c.candidates))
  PROVE ConverterOK(c, n, t)
BY DEF Sound, ConverterOK, Shaped

\* Convert enters a conversion of the key or fails.
LEMMA ConvertFacts ==
  ASSUME NEW c, Sound(c), c.state # "PREDICTION", NEW t,
         NEW n \in 0 .. MaxLength, NEW r \in Convert(c, n)
  PROVE /\ r.conv.result = c.result
        /\ r.ok => /\ ConverterOK(r.conv, n, t) /\ r.conv.state = "CONVERSION"
                   /\ r.conv.segment_index = 0
        /\ ~r.ok => Idle(r.conv)
<1>2. \/ r = No(ResetState(c))
      \/ \E s \in Splits(n) \ {<<>>} : r = Yes(Entered(c, "CONVERSION", s))
  BY DEF Convert
<1>3. CASE r = No(ResetState(c))
  BY <1>3, ResetStateIdle DEF No
<1>4. ASSUME NEW s \in Splits(n) \ {<<>>}, r = Yes(Entered(c, "CONVERSION", s))
      PROVE /\ r.conv.result = c.result /\ r.ok
            /\ ConverterOK(r.conv, n, t) /\ r.conv.state = "CONVERSION"
            /\ r.conv.segment_index = 0
  <2> DEFINE d == Entered(c, "CONVERSION", s)
  <2>1. /\ s \in Seq(0 .. MaxLength) /\ Total(s) = n /\ Len(s) \in 1 .. n
        /\ \A i \in 1 .. Len(s) : s[i] > 0
    BY <1>4, SplitsFacts
  <2>2. "CONVERSION" \in States /\ Len(s) \in 1 .. MaxLength /\ Len(s) \in 0 .. MaxLength
    BY <2>1, SessionAssumption DEF States
  <2>3. /\ d \in Converters /\ d.state = "CONVERSION" /\ d.segments = s
        /\ d.segment_index = 0 /\ d.selected = Len(s) /\ d.result = c.result
        /\ d.previous = c.previous /\ d.checked = c.checked
    <3>1. c \in Converters  BY DEF Sound
    <3>2. d \in Converters /\ d.state = "CONVERSION" /\ d.segments = s
      BY <2>1, <2>2, <3>1, EnteredFields
    <3>3. d.segment_index = 0 /\ d.selected = Len(s) /\ d.result = c.result
      BY <2>1, <2>2, <3>1, EnteredFields
    <3>4. d.previous = c.previous /\ d.checked = c.checked
      BY <2>1, <2>2, <3>1, EnteredFields
    <3> QED  BY <3>2, <3>3, <3>4
  <2>4. r.conv = d /\ r.ok  BY <1>4 DEF Yes
  <2> HIDE DEF d
  <2>5. Sound(d)  BY <2>3 DEF Sound
  <2>6. ConverterOK(d, n, t)  BY <2>1, <2>2, <2>3, <2>5, ActiveOK DEF Active, States
  <2> QED  BY <2>3, <2>4, <2>6
<1> QED  BY <1>2, <1>3, <1>4

\* A converter that enters a state with one segment.
LEMMA EnteredOne ==
  ASSUME NEW c, Sound(c), NEW p \in 0 .. MaxLength, NEW n, NEW t, t \/ p = n,
         NEW st \in {"SUGGESTION", "PREDICTION"}, st = "SUGGESTION" => c.previous = <<p>>
  PROVE /\ ConverterOK(Entered(c, st, <<p>>), n, t) /\ Entered(c, st, <<p>>).state = st
        /\ Entered(c, st, <<p>>).result = c.result
<1> DEFINE s == <<p>>
           d == Entered(c, st, s)
<1>1. /\ s \in Seq(0 .. MaxLength) /\ Len(s) = 1 /\ Total(s) = p /\ s # <<>>
      /\ st = "SUGGESTION" => c.previous = s
  BY OneSegment
<1> HIDE DEF s
<1>2. st \in States /\ st \in Active /\ Len(s) \in 0 .. MaxLength
  BY <1>1, SessionAssumption DEF States, Active
<1>3. /\ d \in Converters /\ d.state = st /\ d.segments = s
      /\ d.segment_index = 0 /\ d.selected = Len(s) /\ d.result = c.result
      /\ d.previous = c.previous /\ d.checked = c.checked /\ d.candidates
  <2> HIDE DEF d
  <2>1. c \in Converters /\ st \in States  BY <1>2 DEF Sound
  <2>0. s \in Seq(0 .. MaxLength) /\ Len(s) \in 0 .. MaxLength  BY <1>1, <1>2
  <2> DEFINE e == Entered(c, st, s)
  <2>2. /\ e \in Converters /\ e.state = st /\ e.segments = s
        /\ e.segment_index = 0 /\ e.selected = Len(s) /\ e.result = c.result
        /\ e.previous = c.previous /\ e.checked = c.checked /\ e.candidates
    <3>1. e \in Converters /\ e.state = st /\ e.segments = s
      BY ONLY <2>0, <2>1, EnteredFields
    <3>2. e.segment_index = 0 /\ e.selected = Len(s) /\ e.result = c.result
      BY ONLY <2>0, <2>1, EnteredFields
    <3>3. e.previous = c.previous /\ e.checked = c.checked
      BY ONLY <2>0, <2>1, EnteredFields
    <3>4. e.candidates
      BY ONLY <2>0, <2>1, EnteredFields
    <3> QED  BY <3>1, <3>2, <3>3, <3>4
  <2> QED  BY <2>2 DEF d
<1> HIDE DEF d
<1>4. Sound(d)  BY <1>2, <1>3 DEF Sound, Active
<1>5. Len(d.segments) = 1 /\ d.selected = 1 /\ d.segment_index = 0  BY <1>1, <1>3
<1>6. Total(d.segments) = p  BY <1>1, <1>3
<1>7. d.segment_index < Len(d.segments) /\ d.selected >= Len(d.segments)  BY <1>5
<1>8. st = "SUGGESTION" => d.previous # <<>> /\ d.previous = d.segments /\ d.candidates
  BY <1>1, <1>3
<1>9. ConverterOK(d, n, t)
  BY <1>2, <1>3, <1>4, <1>5, <1>6, <1>7, <1>8, ActiveOK
<1> QED  BY <1>3, <1>9 DEF d, s

\* Suggest shows suggestions for the key or nothing.
LEMMA SuggestFacts ==
  ASSUME NEW c, Sound(c), c.state \notin Focused, NEW t,
         NEW n \in 0 .. MaxLength, NEW r \in Suggest(c, n)
  PROVE /\ r.conv.result = c.result
        /\ ConverterOK(r.conv, n, t) /\ r.conv.state \notin Focused
<1> DEFINE d == ResetState(c)
           f == [Entered(d, "SUGGESTION", <<n>>) EXCEPT !.previous = <<n>>]
<1>2. Idle(d) /\ d.result = c.result  BY ResetStateIdle
<1>3. r = No(d) \/ r = Yes(f)  BY DEF Suggest
<1> HIDE DEF d
<1>4. CASE r = No(d)
  BY <1>2, <1>4, IdleOK DEF No, Idle, Focused
<1>5. CASE r = Yes(f)
  <2> DEFINE s == <<n>>
             st == "SUGGESTION"
             g == Entered(d, st, s)
  <2>1. s \in Seq(0 .. MaxLength) /\ Len(s) = 1 /\ Total(s) = n /\ s # <<>>  BY OneSegment
  <2> HIDE DEF s
  <2>2. st \in States /\ Len(s) \in 0 .. MaxLength /\ d \in Converters
    BY <1>2, <2>1, SessionAssumption DEF States, Idle, Sound
  <2>0. s \in Seq(0 .. MaxLength)  BY <2>1
  <2> HIDE DEF st
  <2>3. /\ g \in Converters /\ g.state = st /\ g.segments = s
        /\ g.segment_index = 0 /\ g.selected = Len(s) /\ g.result = d.result
        /\ g.checked = d.checked /\ g.candidates
    <3>1. g \in Converters /\ g.state = st /\ g.segments = s
      BY ONLY <2>0, <2>2, EnteredFields
    <3>2. g.segment_index = 0 /\ g.selected = Len(s) /\ g.result = d.result
      BY ONLY <2>0, <2>2, EnteredFields
    <3>3. g.checked = d.checked
      BY ONLY <2>0, <2>2, EnteredFields
    <3>4. g.candidates
      BY ONLY <2>0, <2>2, EnteredFields
    <3> QED  BY <3>1, <3>2, <3>3, <3>4
  <2> HIDE DEF g
  <2>4. f = [g EXCEPT !.previous = s]  BY DEF g, s, st
  <2> HIDE DEF f
  <2>5. /\ f \in Converters /\ f.state = st /\ f.segments = s
        /\ f.segment_index = 0 /\ f.selected = Len(s) /\ f.result = d.result
        /\ f.checked = d.checked /\ f.candidates /\ f.previous = s
    <3>1. f \in Converters  BY <2>1, <2>3, <2>4 DEF Converters
    <3>2. f.previous = s  BY <2>3, <2>4 DEF Converters
    <3>3. /\ f.state = g.state /\ f.segments = g.segments
          /\ f.segment_index = g.segment_index /\ f.selected = g.selected
          /\ f.result = g.result /\ f.checked = g.checked
          /\ f.candidates = g.candidates
      BY <2>4
    <3>4. f.candidates  BY <2>3, <3>3
    <3> HIDE DEF s, st
    <3> QED  BY <2>3, <3>1, <3>2, <3>3, <3>4
  <2>6. Sound(f)
    <3>1. d.checked  BY <1>2 DEF Idle, Sound
    <3>2. f \in Converters /\ f.checked  BY <2>5, <3>1
    <3>3. f.state # "COMPOSITION"  BY <2>5 DEF st
    <3>4. Len(f.previous) <= 1
      <4>1. Len(f.previous) = 1  BY <2>1, <2>5
      <4> HIDE DEF s
      <4> QED  BY ONLY <4>1
    <3> QED  BY <3>2, <3>3, <3>4 DEF Sound
  <2>7. Len(f.segments) = 1 /\ f.selected = 1 /\ f.segment_index = 0  BY <2>1, <2>5
  <2>8. Total(f.segments) = n  BY <2>1, <2>5
  <2>9. f.segment_index < Len(f.segments) /\ f.selected >= Len(f.segments)  BY <2>7
  <2>10. f.state = "SUGGESTION" /\ f.state \in Active /\ f.state \notin Focused
    BY <2>5 DEF st, Active, States, Focused
  <2>11. f.previous # <<>> /\ f.previous = f.segments /\ f.candidates  BY <2>1, <2>5
  <2>12. ConverterOK(f, n, t)
    BY <2>6, <2>7, <2>8, <2>9, <2>10, <2>11, ActiveOK
  <2> QED  BY <1>2, <1>5, <2>5, <2>10, <2>12 DEF Yes
<1> QED  BY <1>3, <1>4, <1>5

\* A list of at most one segment.
LEMMA LenOne ==
  ASSUME NEW s \in Seq(0 .. MaxLength), s # <<>>, Len(s) <= 1 PROVE Len(s) = 1
<1> DEFINE l == Len(s)
<1>1. (s = <<>>) <=> (l = 0)  BY EmptySeq
<1>2. l \in Nat  BY LenProperties
<1>3. l # 0  BY <1>1, Zenon
<1>4. l <= 1  OBVIOUS
<1> HIDE DEF l
<1>5. l = 1  BY <1>2, <1>3, <1>4
<1> QED  BY <1>5 DEF l

\* Predict fails only without suggestions.
LEMMA PredictFacts ==
  ASSUME NEW n \in 0 .. MaxLength, NEW t, NEW c, ConverterOK(c, n, t),
         c.state \notin Focused, NEW r \in Predict(c, n)
  PROVE /\ r.conv.result = 0
        /\ r.ok => ConverterOK(r.conv, n, t) /\ r.conv.state = "PREDICTION"
        /\ ~r.ok => Idle(r.conv) /\ c.state # "SUGGESTION"
<1> DEFINE d == ResetResult(c)
<1>1. Sound(c)  BY OKSound
<1>2. Sound(d) /\ d.result = 0  BY <1>1, ResetResultSound
<1> HIDE DEF d
<1>3. CASE c.previous # <<>>
  <2>1. r = Yes(Entered(d, "PREDICTION", c.previous))  BY <1>3 DEF Predict, d
  <2> DEFINE p == c.previous[1]
  <2>2. c.previous \in Seq(0 .. MaxLength) /\ Len(c.previous) = 1
    <3>1. c.previous \in Seq(0 .. MaxLength) /\ Len(c.previous) <= 1
      BY <1>1, Fields DEF Sound
    <3> QED  BY <1>3, <3>1, LenOne
  <2>3. c.previous = <<p>> /\ p \in 0 .. MaxLength /\ Total(c.previous) = p
    BY <2>2, OnlySegment
  <2>4. t \/ p = n
    <3>1. c.state = "SUGGESTION"
      BY <1>1, <1>3, OKSound DEF Sound, Focused, States
    <3> QED  BY <2>3, <3>1 DEF ConverterOK, Shaped
  <2> HIDE DEF p
  <2>5. r = Yes(Entered(d, "PREDICTION", <<p>>))  BY <2>1, <2>3
  <2>6. /\ ConverterOK(Entered(d, "PREDICTION", <<p>>), n, t)
        /\ Entered(d, "PREDICTION", <<p>>).state = "PREDICTION"
        /\ Entered(d, "PREDICTION", <<p>>).result = 0
    BY <1>2, <2>3, <2>4, EnteredOne
  <2> QED  BY <2>5, <2>6 DEF Yes
<1>4. CASE c.previous = <<>>
  <2>1. r = Yes(Entered(d, "PREDICTION", <<n>>)) \/ r = No(ResetState(d))
    BY <1>4 DEF Predict, d
  <2>2. /\ ConverterOK(Entered(d, "PREDICTION", <<n>>), n, t)
        /\ Entered(d, "PREDICTION", <<n>>).state = "PREDICTION"
        /\ Entered(d, "PREDICTION", <<n>>).result = 0
    BY <1>2, EnteredOne
  <2>3. Idle(ResetState(d)) /\ ResetState(d).result = 0  BY <1>2, ResetStateIdle
  <2>4. c.state # "SUGGESTION"  BY <1>4 DEF ConverterOK, Shaped
  <2> QED  BY <2>1, <2>2, <2>3, <2>4 DEF Yes, No
<1> QED  BY <1>3, <1>4

\* An ended server shows nothing new.
LEMMA EndedMethods ==
  ASSUME NEW c, Ended(c), NEW n \in 0 .. MaxLength
  PROVE /\ \A r \in Convert(c, n) : Ended(r.conv)
        /\ \A r \in Suggest(c, n) : Ended(r.conv)
<1>1. Ended(Aborted(c)) /\ Ended(ResetState(c))  BY EndedStays
<1>2. ASSUME NEW s \in Splits(n), NEW e, Ended(e), NEW st \in States
      PROVE Ended(Entered(e, st, s))
  <2>1. s \in Seq(0 .. MaxLength) /\ Len(s) \in 0 .. MaxLength
    BY SplitsFacts, SessionAssumption
  <2> QED  BY <1>2, <2>1, EnteredFields DEF Ended
<1>3. ASSUME NEW r \in Convert(c, n) PROVE Ended(r.conv)
  <2>1. "CONVERSION" \in States  BY DEF States
  <2> QED  BY <1>1, <1>2, <1>3, <2>1 DEF Convert, Yes, No
<1>4. ASSUME NEW r \in Suggest(c, n) PROVE Ended(r.conv)
  <2> DEFINE d == ResetState(c)
             s == <<n>>
             st == "SUGGESTION"
             g == Entered(d, st, s)
             f == [g EXCEPT !.previous = s]
  <2>1. r \in {No(Aborted(c)), No(d), Yes(f)}  BY DEF Suggest
  <2>2. s \in Seq(0 .. MaxLength) /\ Len(s) \in 0 .. MaxLength
    BY OneSegment, SessionAssumption
  <2> HIDE DEF s
  <2>3. st \in States /\ d \in Converters /\ d.checked = FALSE
    BY <1>1 DEF States, Ended
  <2> HIDE DEF st, d
  <2>4. g \in Converters /\ g.checked = d.checked
    BY <2>2, <2>3, EnteredFields
  <2> HIDE DEF g
  <2>5. Ended(f)  BY <2>2, <2>3, <2>4 DEF Ended, Converters
  <2> HIDE DEF f
  <2> QED  BY <1>1, <2>1, <2>5 DEF Yes, No, d
<1> QED  BY <1>3, <1>4


\* The segments of a conversion become one, with k indices.
AsOne(c, n, k) == [c EXCEPT !.segments = <<n>>, !.selected = k]

LEMMA JoinedOK ==
  ASSUME NEW n \in 0 .. MaxLength, NEW t, NEW c, ConverterOK(c, n, t),
         c.state = "CONVERSION", c.segment_index = 0, NEW k \in {1, c.selected}
  PROVE /\ ConverterOK(AsOne(c, n, k), n, t) /\ AsOne(c, n, k).state = "CONVERSION"
        /\ AsOne(c, n, k).result = c.result
<1> DEFINE s == <<n>>
           d == AsOne(c, n, k)
<1>1. /\ s \in Seq(0 .. MaxLength) /\ Len(s) = 1 /\ Total(s) = n /\ s[1] = n
  BY OneSegment
<1> HIDE DEF s
<1>2. /\ Sound(c) /\ Len(c.segments) \in 1 .. MaxLength
      /\ c.selected \in Len(c.segments) .. MaxLength
  BY ActiveFacts DEF Active, States
<1>a. n >= 1  BY ConversionFacts
<1>3. k \in 1 .. MaxLength
  <2> DEFINE l == Len(c.segments)
  <2>1. l \in 1 .. MaxLength /\ c.selected \in l .. MaxLength  BY <1>2
  <2> HIDE DEF l
  <2> QED  BY <2>1, SessionAssumption
<1>4. /\ d.state = "CONVERSION" /\ d.segments = s /\ d.segment_index = 0
      /\ d.selected = k /\ d.result = c.result /\ d.previous = c.previous
  BY <1>2 DEF Sound, Converters, s, AsOne
<1>b. d.checked
  <2>1. c.checked  BY <1>2 DEF Sound
  <2>2. d.checked = c.checked  BY <1>2 DEF Sound, Converters, AsOne
  <2> QED  BY <2>1, <2>2
<1>5. d \in Converters
  <2>1. k \in 0 .. MaxLength /\ s \in Seq(0 .. MaxLength) /\ c \in Converters
    BY <1>1, <1>2, <1>3 DEF Sound
  <2>2. d = [c EXCEPT !.segments = s, !.selected = k]  BY DEF s, AsOne
  <2> HIDE DEF d
  <2> QED  BY ONLY <2>1, <2>2 DEF Converters
<1> HIDE DEF d
<1>6. Sound(d)
  <2>1. d.state # "COMPOSITION"  BY <1>4
  <2> QED  BY <1>2, <1>4, <1>5, <1>b, <2>1 DEF Sound
<1>7. Len(d.segments) = 1  BY <1>1, <1>4
<1>8. Total(d.segments) = n  BY <1>1, <1>4
<1>9. \A i \in 1 .. Len(d.segments) : d.segments[i] > 0
  <2>1. d.segments[1] = n  BY <1>1, <1>4
  <2> QED  BY <1>a, <1>7, <2>1
<1>10. d.segment_index < Len(d.segments) /\ d.selected >= Len(d.segments)
  BY <1>3, <1>4, <1>7
<1>c. d.state \in Active  BY <1>4 DEF Active, States
<1>11. ConverterOK(d, n, t)
  BY <1>4, <1>6, <1>8, <1>9, <1>10, <1>c, ActiveOK
<1> QED  BY <1>4, <1>11 DEF d

\* A transliteration is a conversion.
LEMMA TransliterationFacts ==
  ASSUME NEW n \in 0 .. MaxLength, NEW t, NEW c, ConverterOK(c, n, t),
         NEW r \in ConvertToTransliteration(c, n)
  PROVE /\ r.conv.result \in {0, c.result}
        /\ r.ok => ConverterOK(r.conv, n, t) /\ r.conv.state = "CONVERSION"
        /\ ~r.ok => Idle(r.conv)
<1> DEFINE d == IF c.state = "PREDICTION" THEN Cancel(c) ELSE c
           Joined(e) == {e, [e EXCEPT !.segments = <<n>>],
                         [e EXCEPT !.segments = <<n>>, !.selected = 1]}
<1>1. Sound(c) /\ c.state \in States  BY OKSound
<1>a. c.state = "PREDICTION" => Idle(Cancel(c)) /\ Cancel(c).result = 0
  BY <1>1, CancelIdle DEF Active, States
<1>2. /\ Sound(d) /\ d.result \in {0, c.result}
      /\ d.state \in {"COMPOSITION", "SUGGESTION", "CONVERSION"}
  BY <1>1, <1>a DEF Idle, States
<1>3. d.state = "CONVERSION" => d = c
  BY <1>a DEF Idle
<1>4. r \in IF d.state = "CONVERSION" THEN {Yes(d)}
            ELSE UNION {IF q.ok THEN {Yes(e) : e \in Joined(q.conv)} ELSE {q} :
                          q \in Convert(d, n)}
  BY Zenon DEF ConvertToTransliteration
<1> HIDE DEF d, Joined
<1>5. CASE d.state = "CONVERSION"
  <2>1. r = Yes(c) /\ c.state = "CONVERSION"  BY <1>3, <1>4, <1>5
  <2> QED  BY <2>1 DEF Yes
<1>6. CASE d.state # "CONVERSION"
  <2>1. PICK q \in Convert(d, n) :
          r \in IF q.ok THEN {Yes(e) : e \in Joined(q.conv)} ELSE {q}
    BY <1>4, <1>6
  <2>a. d.state # "PREDICTION"  BY <1>2
  <2>2. /\ q.conv.result = d.result
        /\ q.ok => /\ ConverterOK(q.conv, n, t) /\ q.conv.state = "CONVERSION"
                   /\ q.conv.segment_index = 0
        /\ ~q.ok => Idle(q.conv)
    BY <1>2, <2>a, ConvertFacts
  <2>3. CASE ~q.ok  BY <1>2, <2>1, <2>2, <2>3
  <2>4. CASE q.ok
    <3> DEFINE b == q.conv
    <3>1. PICK e \in Joined(b) : r = Yes(e)  BY <2>1, <2>4
    <3>2. /\ ConverterOK(b, n, t) /\ b.state = "CONVERSION" /\ b.segment_index = 0
          /\ b.result = d.result
      BY <2>2, <2>4
    <3> HIDE DEF b
    <3>3. \/ e = b \/ e = [b EXCEPT !.segments = <<n>>]
          \/ e = [b EXCEPT !.segments = <<n>>, !.selected = 1]
      BY <3>1 DEF Joined
    <3>4. [b EXCEPT !.segments = <<n>>] = [b EXCEPT !.segments = <<n>>, !.selected = b.selected]
      BY <3>2 DEF ConverterOK, Shaped, Converters
    <3>5. ConverterOK(e, n, t) /\ e.state = "CONVERSION" /\ e.result = d.result
      <4>1. CASE e = b  BY <3>2, <4>1
      <4>a. ASSUME NEW k \in {1, b.selected}, e = AsOne(b, n, k)
            PROVE ConverterOK(e, n, t) /\ e.state = "CONVERSION" /\ e.result = b.result
        BY <3>2, <4>a, JoinedOK
      <4>2. CASE e = [b EXCEPT !.segments = <<n>>]
        <5>1. e = AsOne(b, n, b.selected)  BY <3>4, <4>2 DEF AsOne
        <5> QED  BY <3>2, <4>a, <5>1
      <4>3. CASE e = [b EXCEPT !.segments = <<n>>, !.selected = 1]
        BY <3>2, <4>a, <4>3 DEF AsOne
      <4> QED  BY <3>3, <4>1, <4>2, <4>3
    <3>6. r.conv = e /\ r.ok  BY <3>1 DEF Yes
    <3> QED  BY <1>2, <3>5, <3>6
  <2> QED  BY <2>3, <2>4
<1> QED  BY <1>5, <1>6

\* Indices are dropped with the segments they are for.
LEMMA SizeFacts ==
  ASSUME NEW c, Sound(c), NEW k \in Nat, k <= c.selected
  PROVE /\ Sound(CommitSegmentsSize(c, k))
        /\ CommitSegmentsSize(c, k).selected = c.selected - k
        /\ CommitSegmentsSize(c, k).state = c.state
        /\ CommitSegmentsSize(c, k).segments = c.segments
        /\ CommitSegmentsSize(c, k).segment_index = c.segment_index
        /\ CommitSegmentsSize(c, k).previous = c.previous
        /\ CommitSegmentsSize(c, k).result = c.result
<1> DEFINE m == c.selected - k
           d == [c EXCEPT !.checked = TRUE, !.selected = m]
<1>1. c.selected \in 0 .. MaxLength /\ c.checked = TRUE  BY Fields DEF Sound
<1>2. m \in 0 .. MaxLength  BY <1>1, SessionAssumption
<1>3. CommitSegmentsSize(c, k) = d
  <2>1. (c.checked /\ k <= c.selected) = TRUE  BY <1>1
  <2> QED  BY <2>1 DEF CommitSegmentsSize
<1> HIDE DEF m
<1>4. /\ d.selected = m /\ d.state = c.state /\ d.segments = c.segments
      /\ d.segment_index = c.segment_index /\ d.previous = c.previous
      /\ d.result = c.result /\ d.checked
  BY DEF Sound, Converters
<1>5. d \in Converters  BY <1>2 DEF Sound, Converters
<1> HIDE DEF d
<1>6. Sound(d)  BY <1>4, <1>5 DEF Sound
<1> QED  BY <1>3, <1>4, <1>6 DEF m

\* A result is set.
LEMMA NewResult ==
  ASSUME NEW c, Sound(c), NEW v \in 0 .. MaxLength
  PROVE /\ Sound([c EXCEPT !.result = v]) /\ [c EXCEPT !.result = v].result = v
        /\ [c EXCEPT !.result = v].state = c.state
        /\ [c EXCEPT !.result = v].segments = c.segments
        /\ [c EXCEPT !.result = v].segment_index = c.segment_index
        /\ [c EXCEPT !.result = v].selected = c.selected
        /\ [c EXCEPT !.result = v].previous = c.previous
<1> DEFINE d == [c EXCEPT !.result = v]
<1>1. /\ d.result = v /\ d.state = c.state /\ d.segments = c.segments
      /\ d.segment_index = c.segment_index /\ d.selected = c.selected
      /\ d.previous = c.previous
  BY DEF Sound, Converters
<1>2. d \in Converters  BY DEF Sound, Converters
<1>3. d.checked
  <2>1. c.checked /\ d.checked = c.checked  BY DEF Sound, Converters
  <2> QED  BY <2>1
<1> HIDE DEF d
<1>4. Sound(d)  BY <1>1, <1>2, <1>3 DEF Sound
<1> QED  BY <1>1, <1>4 DEF d

\* The lengths of the values of segments.
LEMMA ValuesFacts ==
  ASSUME NEW s, Len(s) \in 0 .. MaxLength, Total(s) \in 0 .. MaxLength
  PROVE Values(s) \subseteq 0 .. MaxLength
BY DEF Values

\* A commit of everything leaves nothing.
LEMMA CommitFacts ==
  ASSUME NEW n \in 0 .. MaxLength, NEW t, NEW c, ConverterOK(c, n, t), NEW x \in Commit(c)
  PROVE /\ c.state \in Focused => Idle(x)
        /\ c.state \notin Focused => x = Aborted(c)
<1> SUFFICES ASSUME c.state \in Focused PROVE Idle(x)
  BY DEF Commit
<1> DEFINE d == ResetResult(c)
           k == IF c.state = "PREDICTION" THEN 1 ELSE Len(c.segments)
           e == CommitSegmentsSize(d, k)
<1>0. c.state \in Active  BY DEF Active, States, Focused
<1>1. /\ Sound(c) /\ Len(c.segments) \in 1 .. MaxLength
      /\ c.selected \in Len(c.segments) .. MaxLength
  BY <1>0, ActiveFacts
<1>2. Total(c.segments) \in 0 .. MaxLength  BY <1>0, ActiveTotal
<1>3. x = Cancel(d) \/ \E v \in Values(c.segments) : x = ResetState([e EXCEPT !.result = v])
  BY DEF Commit
<1>4. Sound(d) /\ d.selected = c.selected /\ d.state = c.state
  BY <1>1, ResetResultSound
<1>5. k \in Nat /\ k <= d.selected
  <2> DEFINE l == Len(c.segments)
  <2>1. l \in 1 .. MaxLength /\ d.selected \in l .. MaxLength /\ (k = 1 \/ k = l)
    BY <1>1, <1>4
  <2> HIDE DEF l, k
  <2> QED  BY <2>1, SessionAssumption
<1> HIDE DEF d, k
<1>6. Sound(e)  BY <1>4, <1>5, SizeFacts
<1> HIDE DEF e
<1>7. CASE x = Cancel(d)  BY <1>0, <1>4, <1>7, CancelIdle
<1>8. ASSUME NEW v \in Values(c.segments), x = ResetState([e EXCEPT !.result = v])
      PROVE Idle(x)
  <2>1. v \in 0 .. MaxLength
    <3>1. Len(c.segments) \in 0 .. MaxLength  BY <1>1
    <3> QED  BY <1>2, <3>1, ValuesFacts
  <2>2. Sound([e EXCEPT !.result = v])  BY <1>6, <2>1, NewResult
  <2> QED  BY <1>8, <2>2, ResetStateIdle
<1> QED  BY <1>3, <1>7, <1>8

\* So does a commit of the composition as it is.
LEMMA CommitPreeditFacts ==
  ASSUME NEW c, Sound(c), NEW n \in 0 .. MaxLength
  PROVE Idle(CommitPreedit(c, n))
<1> DEFINE e == CommitSegmentsSize(c, 0)
<1>1. c.selected \in 0 .. MaxLength  BY Fields DEF Sound
<1>2. 0 \in Nat /\ 0 <= c.selected  BY <1>1, SessionAssumption
<1>3. Sound(e)  BY <1>2, SizeFacts
<1> HIDE DEF e
<1>4. Sound([e EXCEPT !.result = n])  BY <1>3, NewResult
<1> QED  BY <1>4, ResetStateIdle DEF CommitPreedit, e

\* A commit of the first k segments leaves the others, of the rest of the key.
LEMMA CommitSegmentsFacts ==
  ASSUME NEW n \in 0 .. MaxLength, NEW t, NEW c, ConverterOK(c, n, t),
         NEW k \in Nat \ {0}, NEW r \in CommitSegments(c, k)
  PROVE /\ r.consumed \in 0 .. n
        /\ \/ c.state \in Focused /\ Idle(r.conv) /\ r.consumed = 0
           \/ c.state \notin Focused /\ r.conv = Aborted(c) /\ r.consumed = 0
           \/ /\ ConverterOK(r.conv, n - r.consumed, t)
              /\ r.conv.state = "CONVERSION" /\ c.state = "CONVERSION"
<1> DEFINE d == ResetResult(c)
           s == c.segments
           head == SubSeq(s, 1, k)
           tail == SubSeq(s, k + 1, Len(s))
           b == CommitSegmentsSize(d, k)
           i == IF c.segment_index > k THEN c.segment_index - k ELSE 0
           e == [b EXCEPT !.segments = tail, !.segment_index = i]
<1>4. CASE Len(s) <= k \/ c.state \notin Focused
  <2>1. PICK x \in Commit(c) : r = [conv |-> x, consumed |-> 0]
    BY <1>4 DEF CommitSegments
  <2>2. /\ c.state \in Focused => Idle(x)
        /\ c.state \notin Focused => x = Aborted(c)
    BY CommitFacts
  <2>3. r.conv = x /\ r.consumed = 0  BY <2>1
  <2> QED  BY <2>2, <2>3, SessionAssumption
<1>5. CASE ~(Len(s) <= k \/ c.state \notin Focused)
  <2>0. c.state \in Active  BY <1>5 DEF Active, States, Focused
  <2>a. /\ Sound(c) /\ Len(s) \in 1 .. MaxLength
        /\ s \in Seq(Nat) /\ s \in Seq(0 .. MaxLength)
        /\ c.segment_index \in 0 .. Len(s) - 1
        /\ c.selected \in Len(s) .. MaxLength
    BY <2>0, ActiveFacts
  <2>b. /\ Sound(d) /\ d.selected = c.selected /\ d.state = c.state /\ d.segments = s
        /\ d.segment_index = c.segment_index
    BY <2>a, ResetResultSound
  <2>1. k \in 0 .. Len(s) /\ k < Len(s) /\ k <= d.selected
    <3> DEFINE l == Len(s)
    <3>1. l \in 1 .. MaxLength /\ ~(l <= k) /\ d.selected \in l .. MaxLength
      BY <1>5, <2>a, <2>b
    <3> HIDE DEF l, d
    <3>2. k \in 0 .. l /\ k < l /\ k <= d.selected  BY <3>1, SessionAssumption
    <3> QED  BY <3>2 DEF l
  <2>2. /\ Sound(b) /\ b.selected = c.selected - k /\ b.state = c.state
        /\ b.segments = s /\ b.segment_index = c.segment_index
    <3> HIDE DEF d
    <3> QED  BY <2>1, <2>b, SizeFacts
  <2>3. \/ r = [conv |-> Cancel(d), consumed |-> 0]
        \/ \E v \in Values(head) :
             r = [conv |-> [e EXCEPT !.result = v], consumed |-> Total(head)]
    <3>1. CommitSegments(c, k) =
            {[conv |-> Cancel(d), consumed |-> 0]}
              \cup {[conv |-> [[b EXCEPT !.segments = SubSeq(@, k + 1, Len(@)),
                                         !.segment_index = IF @ > k THEN @ - k ELSE 0]
                               EXCEPT !.result = v],
                     consumed |-> Total(head)] : v \in Values(head)}
      BY <1>5 DEF CommitSegments
    <3>2. [b EXCEPT !.segments = SubSeq(@, k + 1, Len(@)),
                    !.segment_index = IF @ > k THEN @ - k ELSE 0] = e
      <4> HIDE DEF b
      <4> QED  BY <2>2
    <3> HIDE DEF e, b
    <3> QED  BY <3>1, <3>2
  <2>4. CASE r = [conv |-> Cancel(d), consumed |-> 0]
    <3>1. Idle(Cancel(d))  BY <2>0, <2>b, CancelIdle
    <3> QED  BY <1>5, <2>4, <3>1, SessionAssumption
  <2>5. ASSUME NEW v \in Values(head),
               r = [conv |-> [e EXCEPT !.result = v], consumed |-> Total(head)]
        PROVE /\ r.consumed \in 0 .. n
              /\ ConverterOK(r.conv, n - r.consumed, t)
              /\ r.conv.state = "CONVERSION" /\ c.state = "CONVERSION"
    <3>4. c.state = "CONVERSION"
      <4>1. c.state = "PREDICTION" => Len(s) = 1  BY DEF ConverterOK, Shaped
      <4> DEFINE l == Len(s)
      <4>2. l \in Nat /\ k < l  BY <2>a, <2>1
      <4> HIDE DEF l
      <4>3. l # 1  BY <4>2
      <4> QED  BY <1>5, <4>1, <4>3 DEF l, Focused
    <3>1. /\ head \in Seq(Nat) /\ Len(head) = k /\ tail \in Seq(Nat)
          /\ Len(tail) = Len(s) - k /\ n = Total(head) + Total(tail)
      <4>1. Total(s) = n  BY <3>4, ConversionFacts
      <4> HIDE DEF s
      <4>2. Total(s) = Total(head) + Total(tail)  BY <2>a, <2>1, TotalCut
      <4>3. head \in Seq(Nat) /\ Len(head) = k  BY <2>a, <2>1, TotalCut
      <4>4. tail \in Seq(Nat) /\ Len(tail) = Len(s) - k  BY <2>a, <2>1, TotalCut
      <4> QED  BY <4>1, <4>2, <4>3, <4>4
    <3>2. Total(head) \in Nat /\ Total(tail) \in Nat  BY <3>1, TotalType
    <3>3. Total(head) \in 0 .. n /\ Total(tail) = n - Total(head)
      BY <3>1, <3>2
    <3>5. \A j \in 1 .. Len(s) : s[j] > 0  BY <3>4 DEF ConverterOK, Shaped
    <3>6. \A j \in 1 .. Len(tail) : tail[j] > 0
      <4>1. ASSUME NEW j \in 1 .. Len(tail) PROVE tail[j] > 0
        <5> DEFINE q == Len(s)
                   m == k + 1
        <5>0. q \in Nat /\ s \in Seq(Nat)  BY <2>a
        <5>a. j \in 1 .. q - k  BY <3>1
        <5>b. \A a \in 1 .. q : s[a] > 0  BY <3>5
        <5>c. \A a \in 1 .. q : s[a] \in Nat
          <6> HIDE DEF s
          <6> QED  BY <5>0, ElementOfSeq
        <5>1. q \in Nat /\ j \in 1 .. q - k /\ \A a \in 1 .. q : s[a] > 0 /\ s[a] \in Nat
          BY <5>0, <5>a, <5>b, <5>c
        <5>2. tail = SubSeq(s, m, q)  OBVIOUS
        <5> HIDE DEF q, tail, s
        <5>3. /\ m \in Int /\ q \in Int /\ j \in 1 .. q - m + 1 /\ m + j - 1 \in 1 .. q
              /\ \A a \in m .. q : a \in 1 .. q
          BY <5>1
        <5> HIDE DEF m
        <5>4. \A a \in m .. q : s[a] \in Nat  BY <5>1, <5>3
        <5>5. tail[j] = s[m + j - 1]  BY <5>2, <5>3, <5>4, SubSeqProperties
        <5> QED  BY <5>1, <5>3, <5>5
      <4> QED  BY <4>1
    <3>7. tail \in Seq(0 .. MaxLength)
      <4>0. \A j \in 1 .. Len(s) : s[j] \in 0 .. MaxLength
        <5> HIDE DEF s
        <5> QED  BY <2>a, ElementOfSeq
      <4>1. \A j \in k + 1 .. Len(s) : s[j] \in 0 .. MaxLength
        <5> DEFINE q == Len(s)
        <5>1. q \in Nat /\ \A j \in 1 .. q : s[j] \in 0 .. MaxLength  BY <2>a, <4>0
        <5> HIDE DEF q, s
        <5>2. \A j \in k + 1 .. q : j \in 1 .. q  BY <5>1
        <5>3. \A j \in k + 1 .. q : s[j] \in 0 .. MaxLength  BY ONLY <5>1, <5>2
        <5> QED  BY <5>3 DEF q
      <4> QED  BY <2>a, <2>1, <4>1, SubSeqProperties
    <3>8. i \in 0 .. MaxLength /\ i < Len(s) - k
      <4> DEFINE l == Len(s)
                 j == c.segment_index
      <4>1. l \in 1 .. MaxLength /\ k < l /\ j \in 0 .. l - 1  BY <2>a, <2>1
      <4>2. i = IF j > k THEN j - k ELSE 0  OBVIOUS
      <4> HIDE DEF l, j, i
      <4>3. i \in 0 .. MaxLength /\ i < l - k  BY <4>1, <4>2, SessionAssumption
      <4> QED  BY <4>3 DEF l
    <3>9. v \in 0 .. MaxLength
      <4>1. Len(head) \in 0 .. MaxLength /\ Total(head) \in 0 .. MaxLength
        <5> DEFINE l == Len(s)  a == Len(head)  h == Total(head)
        <5>1. l \in 1 .. MaxLength /\ k \in Nat /\ k < l /\ n \in 0 .. MaxLength
          BY <2>a, <2>1
        <5>2. a = k /\ h \in 0 .. n  BY <3>1, <3>3
        <5> HIDE DEF l, a, h
        <5>3. a \in 0 .. MaxLength /\ h \in 0 .. MaxLength
          BY <5>1, <5>2, SessionAssumption
        <5> QED  BY <5>3 DEF a, h
      <4> HIDE DEF head
      <4> QED  BY <4>1, ValuesFacts
    <3> DEFINE f == [e EXCEPT !.result = v]
    <3>10. /\ Sound(f) /\ f.state = "CONVERSION" /\ f.segments = tail
           /\ f.segment_index = i /\ f.selected = c.selected - k
      <4> HIDE DEF tail, i, b
      <4>1. /\ f.state = b.state /\ f.segments = tail
            /\ f.segment_index = i /\ f.selected = b.selected /\ f.previous = b.previous
        BY <2>2 DEF Sound, Converters
      <4>2. f \in Converters  BY <2>2, <3>7, <3>8, <3>9 DEF Sound, Converters
      <4>3. f.checked
        <5>1. b.checked /\ f.checked = b.checked  BY <2>2 DEF Sound, Converters
        <5> QED  BY <5>1
      <4> HIDE DEF f
      <4>4. Sound(f)  BY <2>2, <4>1, <4>2, <4>3 DEF Sound
      <4> QED  BY <2>2, <3>4, <4>1, <4>4
    <3>11. r.conv = f /\ r.consumed = Total(head)  BY <2>5
    <3>12. Total(f.segments) = n - Total(head)
      <4> HIDE DEF f, tail, head
      <4> QED  BY <3>3, <3>10
    <3>13. Len(f.segments) = Len(s) - k
      <4> HIDE DEF f, tail
      <4> QED  BY <3>1, <3>10
    <3>14. \A j \in 1 .. Len(f.segments) : f.segments[j] > 0
      <4> HIDE DEF f, tail
      <4> QED  BY <3>6, <3>10
    <3> HIDE DEF f, head, tail, i
    <3>15. f.segment_index < Len(f.segments) /\ f.selected >= Len(f.segments)
      <4> DEFINE l == Len(s)  m == Len(f.segments)  x == c.selected
      <4>1. l \in Nat /\ x \in Nat /\ x >= l  BY <2>a
      <4>2. m = l - k  BY <3>13
      <4>3. f.segment_index = i /\ f.selected = x - k  BY <3>10
      <4>4. i < l - k  BY <3>8
      <4> HIDE DEF l, m, x
      <4>5. f.segment_index < m /\ f.selected >= m  BY <4>1, <4>2, <4>3, <4>4
      <4> QED  BY <4>5 DEF m
    <3>16. ConverterOK(f, n - Total(head), t)
      <4>1. f.state \in Active  BY <3>10 DEF Active, States
      <4> QED  BY <3>10, <3>12, <3>14, <3>15, <4>1, ActiveOK
    <3> QED  BY <3>3, <3>4, <3>10, <3>11, <3>16
  <2> QED  BY <2>3, <2>4, <2>5
<1> QED  BY <1>4, <1>5

\* A commit of a suggestion: it fails, is refused, takes the whole key, or a
\* part of it and leaves a segment for the rest.
LEMMA CommitSuggestionFacts ==
  ASSUME NEW n \in 0 .. MaxLength, NEW t, NEW c, ConverterOK(c, n, t),
         c.state = "SUGGESTION", NEW r \in CommitSuggestion(c, n, zero_query)
  PROVE \/ t /\ ~r.ok /\ r.conv = Aborted(c)
        \/ ~r.ok /\ Idle(r.conv) /\ r.conv.result = 0
        \/ r.ok /\ r.consumed = n /\ Idle(r.conv)
        \/ /\ r.ok /\ r.consumed \in 1 .. n - 1 /\ r.conv.state = "SUGGESTION"
           /\ zero_query /\ \A m : ConverterOK(r.conv, m, TRUE)
<1> DEFINE d == ResetResult(c)
           e == CommitSegmentsSize(d, 1)
           g == c.segments
           y == n - 1
           z == zero_query
<1>a. c.state \in Active  BY DEF Active, States
<1>1. Sound(c) /\ c.selected \in 1 .. MaxLength /\ Len(g) = 1
  <2>1. Len(g) = 1  BY DEF ConverterOK, Shaped
  <2> QED  BY <1>a, <2>1, ActiveFacts
<1>b. Total(g) \in 0 .. MaxLength  BY <1>a, ActiveTotal
<1>3. Sound(d) /\ d.selected = c.selected /\ d.state = c.state /\ d.previous = c.previous
  BY <1>1, ResetResultSound
<1>4. \/ ~c.candidates /\ r = [conv |-> Aborted(c), ok |-> FALSE, consumed |-> 0]
      \/ r = [conv |-> ResetState(d), ok |-> FALSE, consumed |-> 0]
      \/ \E v \in Values(g) :
           r = [conv |-> ResetState([e EXCEPT !.result = v]), ok |-> TRUE, consumed |-> n]
      \/ \E k \in 1 .. n - 1 :
           /\ zero_query
           /\ r = [conv |-> [e EXCEPT !.segments = <<n - k>>, !.selected = 1,
                                      !.candidates = FALSE, !.result = k],
                   ok |-> TRUE, consumed |-> k]
  <2>1. CASE ~c.candidates  BY <2>1 DEF CommitSuggestion
  <2>2. CASE c.candidates
    <3>1. r \in {[conv |-> ResetState(d), ok |-> FALSE, consumed |-> 0]}
             \cup {[conv |-> ResetState([e EXCEPT !.result = v]), ok |-> TRUE,
                    consumed |-> n] : v \in Values(g)}
             \cup {[conv |-> [e EXCEPT !.segments = <<n - k>>, !.selected = 1,
                                       !.candidates = FALSE, !.result = k],
                    ok |-> TRUE, consumed |-> k] :
                     k \in {k \in 1 .. n - 1 : zero_query /\ k < Total(g)}}
      BY <2>2 DEF CommitSuggestion
    <3> HIDE DEF d, e, g
    <3> QED  BY <3>1
  <2> QED  BY <2>1, <2>2
<1>c. ResetState(d).result = 0
  <2>1. d.result = 0  BY <1>1, ResetResultSound
  <2> HIDE DEF d
  <2> QED  BY <1>3, <2>1, ResetStateIdle
<1> HIDE DEF d, g
<1>5. Sound(e) /\ e.state = "SUGGESTION" /\ e.previous = c.previous
  <2>1. 1 \in Nat /\ 1 <= d.selected  BY <1>1, <1>3
  <2> QED  BY <1>3, <2>1, SizeFacts
<1> HIDE DEF e
<1>6. CASE r = [conv |-> ResetState(d), ok |-> FALSE, consumed |-> 0]
  BY <1>3, <1>c, <1>6, ResetStateIdle
<1>7. ASSUME NEW v \in Values(g),
             r = [conv |-> ResetState([e EXCEPT !.result = v]), ok |-> TRUE, consumed |-> n]
      PROVE r.ok /\ r.consumed = n /\ Idle(r.conv)
  <2>1. v \in 0 .. MaxLength
    <3>1. 1 \in 0 .. MaxLength  BY SessionAssumption
    <3> QED  BY <1>1, <1>b, <3>1, ValuesFacts
  <2> DEFINE f == [e EXCEPT !.result = v]
  <2>2. Sound(f)  BY <1>5, <2>1, NewResult
  <2>3. r = [conv |-> ResetState(f), ok |-> TRUE, consumed |-> n]  BY <1>7
  <2> HIDE DEF f
  <2>4. Idle(ResetState(f))  BY <2>2, ResetStateIdle
  <2> QED  BY <2>3, <2>4
<1>8. ASSUME zero_query, NEW k \in 1 .. n - 1,
             r = [conv |-> [e EXCEPT !.segments = <<n - k>>, !.selected = 1,
                                     !.candidates = FALSE, !.result = k],
                  ok |-> TRUE, consumed |-> k]
      PROVE /\ r.ok /\ r.consumed \in 1 .. n - 1 /\ r.conv.state = "SUGGESTION"
            /\ zero_query /\ \A m : ConverterOK(r.conv, m, TRUE)
  <2> DEFINE s == <<n - k>>
             f == [e EXCEPT !.segments = s, !.selected = 1, !.candidates = FALSE,
                            !.result = k]
  <2>1. n - k \in 0 .. MaxLength /\ k \in 0 .. MaxLength /\ 1 \in 0 .. MaxLength
    BY SessionAssumption
  <2>2. s \in Seq(0 .. MaxLength) /\ Len(s) = 1
    <3> DEFINE w == n - k
    <3>1. w \in 0 .. MaxLength  BY <2>1
    <3> HIDE DEF w
    <3>2. <<w>> \in Seq(0 .. MaxLength) /\ Len(<<w>>) = 1  BY <3>1, OneSegment
    <3> QED  BY <3>2 DEF w
  <2>3. r = [conv |-> f, ok |-> TRUE, consumed |-> k]  BY <1>8
  <2> HIDE DEF s
  <2>4. f \in Converters  BY <1>5, <2>1, <2>2 DEF Sound, Converters
  <2>5. /\ f.state = "SUGGESTION" /\ f.segments = s /\ f.selected = 1
        /\ f.segment_index = e.segment_index /\ f.previous = c.previous
    BY <1>5 DEF Sound, Converters
  <2>6. f.checked
    <3>1. e.checked /\ f.checked = e.checked  BY <1>5 DEF Sound, Converters
    <3> QED  BY <3>1
  <2>7. e.segment_index = 0
    <3>1. c.segment_index < Len(c.segments) /\ Len(c.segments) = 1
      BY DEF ConverterOK, Shaped, Active, States
    <3>2. c.segment_index \in 0 .. MaxLength  BY <1>1, Fields DEF Sound
    <3>3. e.segment_index = c.segment_index
      <4>1. 1 \in Nat /\ 1 <= d.selected  BY <1>1, <1>3
      <4>2. d.segment_index = c.segment_index  BY <1>1, ResetResultSound DEF d
      <4>3. e.segment_index = d.segment_index  BY <1>3, <4>1, SizeFacts DEF e
      <4> QED  BY <4>2, <4>3
    <3> DEFINE i == c.segment_index  l == Len(c.segments)
    <3>4. i < l /\ l = 1 /\ i \in 0 .. MaxLength  BY <3>1, <3>2
    <3> HIDE DEF i, l
    <3>5. i = 0  BY <3>4, SessionAssumption
    <3> QED  BY <3>3, <3>5 DEF i
  <2> HIDE DEF f
  <2>8. Sound(f)
    <3>1. f.state # "COMPOSITION"  BY <2>5
    <3>2. Len(f.previous) <= 1  BY <2>5 DEF ConverterOK, Shaped
    <3> QED  BY <2>4, <2>6, <3>1, <3>2 DEF Sound
  <2>9. Len(f.segments) = 1 /\ f.segment_index < Len(f.segments)
        /\ f.selected >= Len(f.segments)
    <3>1. Len(f.segments) = 1  BY <2>2, <2>5
    <3>2. f.segment_index = 0 /\ f.selected = 1  BY <2>5, <2>7
    <3> QED  BY <3>1, <3>2
  <2>10. f.previous # <<>>  BY <2>5 DEF ConverterOK, Shaped
  <2>11. ASSUME NEW m PROVE ConverterOK(f, m, TRUE)
    BY <1>a, <2>5, <2>8, <2>9, <2>10, ActiveOK
  <2>12. r.conv = f /\ r.ok /\ r.consumed = k  BY <2>3
  <2> QED  BY <1>8, <2>5, <2>11, <2>12
<1>9. CASE ~c.candidates /\ r = [conv |-> Aborted(c), ok |-> FALSE, consumed |-> 0]
  <2>1. t  BY <1>9 DEF ConverterOK, Shaped
  <2> QED  BY <1>9, <2>1
<1> QED  BY <1>4, <1>6, <1>7, <1>8, <1>9

\* Moves of the focus in the list of candidates.
LEMMA CandidateMoveFacts ==
  ASSUME NEW n, NEW t, NEW c, ConverterOK(c, n, t)
  PROVE /\ c.state \in Focused => /\ ConverterOK(CandidateMove(c), n, t)
                                  /\ CandidateMove(c).result = 0
                                  /\ CandidateMove(c).state = c.state
        /\ c.state \notin Focused => CandidateMove(c) = Aborted(c)
<1> SUFFICES ASSUME c.state \in Focused
             PROVE /\ ConverterOK(CandidateMove(c), n, t)
                   /\ CandidateMove(c).result = 0
                   /\ CandidateMove(c).state = c.state
  BY DEF CandidateMove
<1> DEFINE d == ResetResult(c)
<1>1. CandidateMove(c) = d  BY DEF CandidateMove
<1>2. /\ d \in Converters /\ d.result = 0 /\ d.state = c.state
      /\ d.segments = c.segments /\ d.segment_index = c.segment_index
      /\ d.selected = c.selected /\ d.previous = c.previous
      /\ d.candidates = c.candidates /\ d.checked = c.checked
  BY OKSound, ResetResultFields
<1> HIDE DEF d
<1>3. ConverterOK(d, n, t)  BY <1>2 DEF ConverterOK, Shaped
<1> QED  BY <1>1, <1>2, <1>3

\* The list of predictions is extended at its end.
LEMMA CandidateNextFacts ==
  ASSUME NEW n \in 0 .. MaxLength, NEW t, NEW c, ConverterOK(c, n, t),
         NEW d \in CandidateNext(c, n)
  PROVE /\ c.state \in Focused => /\ ConverterOK(d, n, t) /\ d.result = 0
                                  /\ d.state = c.state
        /\ c.state \notin Focused => d = Aborted(c)
<1> DEFINE b == CandidateMove(c)
<1>1. d = b \/ /\ c.state = "PREDICTION"
               /\ d = Entered(b, "PREDICTION", <<n>>)
  BY DEF CandidateNext
<1>2. CASE d = b  BY <1>2, CandidateMoveFacts
<1>3. CASE c.state = "PREDICTION" /\ d = Entered(b, "PREDICTION", <<n>>)
  <2>1. ConverterOK(b, n, t) /\ b.result = 0 /\ c.state \in Focused
    BY <1>3, CandidateMoveFacts DEF Focused
  <2> HIDE DEF b
  <2>2. Sound(b)  BY <2>1, OKSound
  <2>3. ConverterOK(d, n, t) /\ d.state = "PREDICTION" /\ d.result = b.result
    BY <1>3, <2>2, EnteredOne
  <2> QED  BY <1>3, <2>1, <2>3
<1> QED  BY <1>1, <1>2, <1>3

\* A suggestion becomes a prediction, for which its candidates serve.
LEMMA CandidateMoveToIdFacts ==
  ASSUME NEW n \in 0 .. MaxLength, NEW t, NEW c, ConverterOK(c, n, t),
         c.state \in Active, NEW d \in CandidateMoveToId(c, n)
  PROVE ConverterOK(d, n, t) /\ d.result = 0 /\ d.state \in Focused
<1>1. CASE c.state = "SUGGESTION"
  <2>1. PICK r \in Predict(c, n) : d = CandidateMove(r.conv)
    BY <1>1 DEF CandidateMoveToId
  <2>2. c.state \notin Focused  BY <1>1 DEF Focused
  <2>3. ConverterOK(r.conv, n, t) /\ r.conv.state = "PREDICTION"
    BY <1>1, <2>2, PredictFacts
  <2>4. r.conv.state \in Focused  BY <2>3 DEF Focused
  <2> QED  BY <2>1, <2>3, <2>4, CandidateMoveFacts
<1>2. CASE c.state # "SUGGESTION"
  <2>1. d = CandidateMove(c)  BY <1>2 DEF CandidateMoveToId
  <2>2. c.state \in Focused  BY <1>2 DEF Active, States, Focused
  <2> QED  BY <2>1, <2>2, CandidateMoveFacts
<1> QED  BY <1>1, <1>2

\* The focus moves to another segment.
LEMMA SegmentFocusInternalFacts ==
  ASSUME NEW n \in 0 .. MaxLength, NEW t, NEW c, ConverterOK(c, n, t),
         NEW j \in 0 .. Len(c.segments) - 1, c.state \in Focused
  PROVE /\ ConverterOK(SegmentFocusInternal(c, j), n, t)
        /\ SegmentFocusInternal(c, j).state = c.state
<1>0. c.state \in Active  BY DEF Active, States, Focused
<1>1. Sound(c) /\ Len(c.segments) \in 1 .. MaxLength  BY <1>0, ActiveFacts
<1>3. CASE c.state = "PREDICTION"
  <2>1. SegmentFocusInternal(c, j) = c  BY <1>3 DEF SegmentFocusInternal
  <2> QED  BY <2>1
<1>4. CASE c.state # "PREDICTION"
  <2> DEFINE d == ResetResult(c)
             e == [d EXCEPT !.segment_index = j]
  <2>1. SegmentFocusInternal(c, j) = e  BY <1>4 DEF SegmentFocusInternal
  <2>2. /\ d \in Converters /\ d.state = c.state
        /\ d.segments = c.segments /\ d.selected = c.selected
        /\ d.previous = c.previous /\ d.candidates = c.candidates
        /\ d.checked = c.checked
    BY <1>1, ResetResultFields DEF Sound
  <2> HIDE DEF d
  <2>4. j \in 0 .. MaxLength /\ j < Len(c.segments)
    <3> DEFINE l == Len(c.segments)
    <3>1. l \in 1 .. MaxLength /\ j \in 0 .. l - 1
      BY <1>1
    <3> HIDE DEF l
    <3>2. j \in 0 .. MaxLength /\ j < l  BY <3>1, SessionAssumption
    <3> QED  BY <3>2 DEF l
  <2>5. /\ e.state = d.state /\ e.segments = d.segments
        /\ e.segment_index = j /\ e.selected = d.selected /\ e.previous = d.previous
        /\ e.candidates = d.candidates /\ e.checked = d.checked
    BY <2>2 DEF Converters
  <2>6. e \in Converters  BY <2>2, <2>4 DEF Converters
  <2> HIDE DEF e
  <2>7. /\ e.state = c.state /\ e.segments = c.segments
        /\ e.segment_index = j /\ e.selected = c.selected /\ e.previous = c.previous
        /\ e.candidates = c.candidates /\ e.checked = c.checked
    BY <2>2, <2>5
  <2>8. ConverterOK(e, n, t)  BY <2>4, <2>6, <2>7 DEF ConverterOK, Shaped
  <2> QED  BY <2>1, <2>7, <2>8
<1> QED  BY <1>3, <1>4

\* Right, left, last and left edge.
LEMMA SegmentFocusFacts ==
  ASSUME NEW n \in 0 .. MaxLength, NEW t, NEW c, ConverterOK(c, n, t),
         NEW d \in {SegmentFocusRight(c), SegmentFocusLeft(c), SegmentFocusLast(c),
                    SegmentFocusLeftEdge(c)}
  PROVE /\ c.state \in Focused => ConverterOK(d, n, t) /\ d.state = c.state
        /\ c.state \notin Focused => d = Aborted(c)
<1> DEFINE l == Len(c.segments)
           k == c.segment_index
           a == IF k + 1 >= l THEN 0 ELSE k + 1
           b == IF k <= 0 THEN l - 1 ELSE k - 1
<1>2. d \in {SegmentFocusInternal(c, a), SegmentFocusInternal(c, b),
             SegmentFocusInternal(c, l - 1), SegmentFocusInternal(c, 0)}
  BY DEF SegmentFocusRight, SegmentFocusLeft, SegmentFocusLast, SegmentFocusLeftEdge
<1>3. PICK j \in {a, b, l - 1, 0} : d = SegmentFocusInternal(c, j)
  <2> HIDE DEF a, b, l
  <2> QED  BY <1>2
<1>5. CASE c.state \notin Focused
  BY <1>3, <1>5 DEF SegmentFocusInternal
<1>6. CASE c.state \in Focused
  <2>0. c.state \in Active  BY <1>6 DEF Active, States, Focused
  <2>1. l \in 1 .. MaxLength /\ k \in 0 .. l - 1  BY <2>0, ActiveFacts
  <2>2. j \in 0 .. l - 1
    <3> HIDE DEF l, k
    <3>1. a \in 0 .. l - 1  BY <2>1
    <3>2. b \in 0 .. l - 1  BY <2>1
    <3>3. l - 1 \in 0 .. l - 1 /\ 0 \in 0 .. l - 1  BY <2>1
    <3> HIDE DEF a, b
    <3> QED  BY <1>3, <3>1, <3>2, <3>3
  <2> QED  BY <1>3, <1>6, <2>2, SegmentFocusInternalFacts
<1> QED  BY <1>5, <1>6

\* A resized conversion still covers the composition.
LEMMA ResizedFacts ==
  ASSUME NEW n \in 0 .. MaxLength, NEW a, NEW c, ConverterOK(c, n, a),
         c.state = "CONVERSION", NEW w \in Int, NEW t \in Resized(c, w)
  PROVE /\ t \in Seq(0 .. MaxLength) /\ t \in Seq(Nat) /\ Total(t) = n
        /\ \A j \in 1 .. Len(t) : t[j] > 0
        /\ Len(t) \in 0 .. MaxLength /\ c.segment_index < Len(t)
<1> DEFINE g == c.segments
           i == c.segment_index
           h == SubSeq(g, 1, i)
           z == Total(SubSeq(g, i + 1, Len(g)))
<1>1. /\ g \in Seq(0 .. MaxLength) /\ g \in Seq(Nat) /\ Total(g) = n
      /\ Len(g) \in 1 .. MaxLength /\ i \in 0 .. Len(g) - 1
  BY ActiveFacts, ConversionFacts DEF Active, States
<1>2. \A j \in 1 .. Len(g) : g[j] > 0 /\ g[j] \in 0 .. MaxLength
  <2>1. \A j \in 1 .. Len(g) : g[j] > 0  BY DEF ConverterOK, Shaped
  <2> HIDE DEF g
  <2> QED  BY <1>1, <2>1, ElementOfSeq
<1>3. PICK s \in Splits(z - w) : t = Append(h, w) \o s
  BY DEF Resized
<1>4. ~(w <= 0 \/ z - w < 0)
  BY DEF Resized
<1>5. i \in 0 .. Len(g)
  <2> HIDE DEF g, i
  <2> QED  BY <1>1
<1>6. /\ h \in Seq(Nat) /\ Len(h) = i /\ n = Total(h) + z
      /\ SubSeq(g, i + 1, Len(g)) \in Seq(Nat)
  BY <1>1, <1>5, TotalCut
<1>7. Total(h) \in Nat /\ z \in Nat
  <2>1. SubSeq(g, i + 1, Len(g)) \in Seq(Nat)  BY <1>6
  <2> QED  BY <1>6, <2>1, TotalType
<1>8. \A j \in 1 .. i : h[j] = g[j]
  <2> HIDE DEF g, i
  <2> QED  BY <1>1, <1>5, SubSeqProperties
<1>9. \A j \in 1 .. i : h[j] > 0 /\ h[j] \in 0 .. MaxLength
  <2>1. \A j \in 1 .. i : j \in 1 .. Len(g)
    <3> HIDE DEF g, i
    <3> QED  BY <1>1
  <2> HIDE DEF g, h, i
  <2> QED  BY <1>2, <1>8, <2>1
<1> HIDE DEF h, z
<1>10. w \in 1 .. MaxLength /\ z - w \in 0 .. MaxLength /\ w \in Nat
  BY <1>4, <1>6, <1>7, SessionAssumption
<1>11. /\ s \in Seq(0 .. MaxLength) /\ s \in Seq(Nat) /\ Total(s) = z - w
       /\ \A j \in 1 .. Len(s) : s[j] > 0
  BY <1>10, SplitsFacts
<1> DEFINE p == Append(h, w)
<1>12. /\ p \in Seq(Nat) /\ Len(p) = i + 1 /\ p = h \o <<w>>
       /\ \A j \in 1 .. i : p[j] = h[j]
       /\ p[i + 1] = w
  <2> HIDE DEF i
  <2>1. h \in Seq(Nat) /\ w \in Nat /\ Len(h) = i  BY <1>6, <1>10
  <2>2. Append(h, w) = h \o <<w>>  BY <2>1, AppendIsConcat
  <2>3. /\ p \in Seq(Nat) /\ Len(p) = Len(h) + 1
        /\ \A j \in 1 .. Len(h) : p[j] = h[j]
        /\ p[Len(h) + 1] = w
    BY <2>1, AppendProperties
  <2> QED  BY <2>1, <2>2, <2>3
<1>13. Total(p) = Total(h) + w
  <2>1. <<w>> \in Seq(Nat) /\ Total(<<w>>) = w  BY <1>10, TotalSmall
  <2>2. Total(h \o <<w>>) = Total(h) + Total(<<w>>)  BY <1>6, <2>1, TotalConcat
  <2> QED  BY <1>12, <2>1, <2>2
<1>14. \A j \in 1 .. Len(p) : p[j] > 0 /\ p[j] \in 0 .. MaxLength
  <2> HIDE DEF p
  <2>1. ASSUME NEW j \in 1 .. Len(p) PROVE p[j] > 0 /\ p[j] \in 0 .. MaxLength
    <3>1. j \in 1 .. i \/ j = i + 1
      <4> HIDE DEF i, g
      <4> QED  BY <1>1, <1>12, <2>1
    <3>2. CASE j \in 1 .. i  BY <1>9, <1>12, <3>2
    <3>3. CASE j = i + 1
      <4>1. p[j] = w  BY <1>12, <3>3
      <4> QED  BY <1>10, <4>1
    <3> QED  BY <3>1, <3>2, <3>3
  <2> QED  BY <2>1
<1>15. Total(t) = n
  <2>1. t = p \o s  BY <1>3
  <2> HIDE DEF p
  <2>2. Total(t) = Total(p) + Total(s)  BY <1>11, <1>12, <2>1, TotalConcat
  <2>3. Total(t) = (Total(h) + w) + (z - w)  BY <1>11, <1>13, <2>2
  <2> QED  BY <1>6, <1>7, <1>10, <2>3
<1>16. t = p \o s  BY <1>3
<1> HIDE DEF p
<1>17. /\ t \in Seq(Nat) /\ Len(t) = Len(p) + Len(s)
       /\ Len(p) \in Nat /\ Len(s) \in Nat
       /\ \A j \in 1 .. Len(p) + Len(s) : t[j] = IF j <= Len(p) THEN p[j] ELSE s[j - Len(p)]
  <2>1. p \in Seq(Nat) /\ s \in Seq(Nat)  BY <1>11, <1>12
  <2> QED  BY <1>16, <2>1, ConcatProperties, LenProperties
<1>18. \A j \in 1 .. Len(s) : s[j] > 0 /\ s[j] \in 0 .. MaxLength
  BY <1>11, ElementOfSeq
<1>19. ASSUME NEW j \in 1 .. Len(t) PROVE t[j] > 0 /\ t[j] \in 0 .. MaxLength
  <2>1. CASE j <= Len(p)
    <3>1. t[j] = p[j] /\ j \in 1 .. Len(p)  BY <1>17, <2>1
    <3> QED  BY <1>14, <3>1
  <2>2. CASE ~(j <= Len(p))
    <3>1. t[j] = s[j - Len(p)] /\ j - Len(p) \in 1 .. Len(s)  BY <1>17, <2>2
    <3> QED  BY <1>18, <3>1
  <2> QED  BY <2>1, <2>2
<1>20. t \in Seq(0 .. MaxLength)
  <2>1. t = [j \in 1 .. Len(t) |-> t[j]]  BY <1>17
  <2> DEFINE l == Len(t)
  <2>2. l \in Nat  BY <1>17
  <2>3. t \in [1 .. l -> 0 .. MaxLength]
    <3>1. t = [j \in 1 .. l |-> t[j]] /\ \A j \in 1 .. l : t[j] \in 0 .. MaxLength
      BY <1>19, <2>1
    <3> HIDE DEF l
    <3> QED  BY <3>1
  <2> HIDE DEF l
  <2> QED  BY <2>2, <2>3, SeqDef
<1>21. Len(t) <= n
  BY <1>15, <1>17, <1>19, TotalType
<1>22. Len(t) \in 0 .. MaxLength /\ i < Len(t)
  <2>1. i \in Nat /\ Len(p) = i + 1
    <3> HIDE DEF g, i
    <3> QED  BY <1>1, <1>12
  <2> DEFINE l == Len(t)  m == Len(p)  q == Len(s)
  <2>2. l = m + q /\ m \in Nat /\ q \in Nat /\ m = i + 1 /\ l <= n
    BY <1>17, <1>21, <2>1
  <2> HIDE DEF l, m, q, i
  <2>3. l \in 0 .. MaxLength /\ i < l  BY <2>1, <2>2, SessionAssumption
  <2> QED  BY <2>3 DEF l
<1> QED  BY <1>15, <1>17, <1>19, <1>20, <1>22

\* SegmentWidthExpand and SegmentWidthShrink.
LEMMA ResizeFacts ==
  ASSUME NEW n \in 0 .. MaxLength, NEW t, NEW c, ConverterOK(c, n, t),
         NEW delta \in Int, NEW e \in ResizeSegmentWidth(c, delta)
  PROVE /\ c.state \in Focused => ConverterOK(e, n, t) /\ e.state = c.state
        /\ c.state \notin Focused => e = Aborted(c)
<1> DEFINE d == ResetResult(c)
           w == d.segments[d.segment_index + 1] + delta
<1>1. CASE c.state \notin Focused  BY <1>1 DEF ResizeSegmentWidth
<1>2. CASE c.state \in Focused
  <2>1. CandidateMove(c) = d  BY <1>2 DEF CandidateMove
  <2>2. ConverterOK(d, n, t) /\ d.state = c.state  BY <1>2, <2>1, CandidateMoveFacts
  <2>3. \/ e = c
        \/ c.state # "PREDICTION" /\ e = d
        \/ /\ c.state # "PREDICTION"
           /\ \E s \in Resized(d, w) : e = [d EXCEPT !.segments = s, !.selected = Len(s)]
    BY <1>2 DEF ResizeSegmentWidth
  <2> HIDE DEF d, w
  <2>4. CASE e = c  BY <1>2, <2>4
  <2>5. CASE e = d  BY <1>2, <2>2, <2>5
  <2>6. ASSUME c.state # "PREDICTION", NEW s \in Resized(d, w),
               e = [d EXCEPT !.segments = s, !.selected = Len(s)]
        PROVE ConverterOK(e, n, t) /\ e.state = c.state
    <3>1. d.state = "CONVERSION"  BY <1>2, <2>2, <2>6 DEF Focused
    <3>2. w \in Int
      <4> DEFINE g == d.segments  k == d.segment_index + 1
      <4>1. g \in Seq(Nat) /\ Len(g) \in 1 .. MaxLength /\ d.segment_index \in 0 .. Len(g) - 1
        BY <2>2, <3>1, ActiveFacts DEF Active, States
      <4>2. k \in 1 .. Len(g)
        <5> DEFINE l == Len(g)  i == d.segment_index
        <5>1. l \in 1 .. MaxLength /\ i \in 0 .. l - 1  BY <4>1
        <5> HIDE DEF l, i
        <5>2. i + 1 \in 1 .. l  BY <5>1
        <5> QED  BY <5>2 DEF l, i
      <4> HIDE DEF g, k
      <4>3. g[k] \in Nat  BY <4>1, <4>2, ElementOfSeq
      <4> QED  BY <4>3 DEF g, k, w
    <3>3. /\ s \in Seq(0 .. MaxLength) /\ s \in Seq(Nat) /\ Total(s) = n
          /\ \A j \in 1 .. Len(s) : s[j] > 0
          /\ Len(s) \in 0 .. MaxLength /\ d.segment_index < Len(s)
      BY <2>2, <2>6, <3>1, <3>2, ResizedFacts
    <3> DEFINE l == Len(s)
    <3>4. l \in 0 .. MaxLength /\ e = [d EXCEPT !.segments = s, !.selected = l]
      BY <2>6, <3>3
    <3> HIDE DEF l
    <3>5. Sound(d)  BY <2>2, OKSound
    <3>6. /\ e.state = d.state /\ e.segments = s
          /\ e.segment_index = d.segment_index /\ e.selected = l
          /\ e.previous = d.previous
      BY <3>4, <3>5 DEF Sound, Converters
    <3>7. e \in Converters  BY <3>3, <3>4, <3>5 DEF Sound, Converters
    <3>8. e.checked
      <4>1. d.checked /\ e.checked = d.checked  BY <3>4, <3>5 DEF Sound, Converters
      <4> QED  BY <4>1
    <3>9. Sound(e)  BY <3>1, <3>5, <3>6, <3>7, <3>8 DEF Sound
    <3>10. Total(e.segments) = n /\ Len(e.segments) = l  BY <3>3, <3>6 DEF l
    <3>11. e.segment_index < Len(e.segments) /\ e.selected >= Len(e.segments)
      <4>1. d.segment_index < l  BY <3>3 DEF l
      <4> QED  BY <3>4, <3>6, <3>10, <4>1
    <3>12. \A j \in 1 .. Len(e.segments) : e.segments[j] > 0  BY <3>3, <3>6
    <3>13. e.state = "CONVERSION" /\ e.state \in Active
      BY <3>1, <3>6 DEF Active, States
    <3>14. ConverterOK(e, n, t)
      BY <3>9, <3>10, <3>11, <3>12, <3>13, ActiveOK
    <3> QED  BY <2>2, <3>6, <3>14
  <2> QED  BY <1>2, <2>3, <2>4, <2>5, <2>6
<1> QED  BY <1>1, <1>2

-----------------------------------------------------------------------------
(* Contexts and the undo contexts.                                         *)

\* Session and converter agree on what goes on, as far as they did not stray.
Agreed(x) ==
  /\ x \in Contexts
  /\ Shaped(x.conv, x.composer, x.strayed)
  /\ x.conv.state \in Focused => x.state = "CONVERSION"
  /\ ~x.strayed => /\ x.state = "CONVERSION" => x.conv.state \in Focused
                   /\ x.state \in {"DIRECT", "PRECOMPOSITION"} => x.composer = 0

\* No result waits, unless they strayed.
Quiet(x) == x.strayed \/ x.conv.result = 0

\* A context between the steps of a command, in which a result may wait.
ContextOK(x) == Agreed(x) /\ x.conv.checked

\* A context between two commands.
Settled(x) == ContextOK(x) /\ Quiet(x)

\* An assertion has failed, which takes a session that strayed.
Dead(x) == x \in Contexts /\ Ended(x.conv) /\ x.strayed

\* What a command may answer with.
Fine(x) == Dead(x) \/ ContextOK(x)

Entries == [context : Contexts, since : 0 .. Unlike, unsaved : BOOLEAN]

\* The undo contexts, below a context with this output: what was committed
\* since each was pushed is the output of the one above it.
StackOK(u, out) ==
  /\ u \in Seq(Entries)
  /\ Len(u) <= kMultipleUndoMaxSize
  /\ \A i \in 1 .. Len(u) :
       /\ Settled(u[i].context)
       /\ ~u[i].unsaved =>
            u[i].since = IF i = Len(u) THEN out ELSE u[i + 1].context.output

\* The inductive invariant.
SessionInv ==
  /\ Agreed(context) /\ Quiet(context)
  /\ context.conv.checked \/ context.strayed
  /\ StackOK(undo_contexts, context.output)

\* The types of the fields of a context.
LEMMA ContextFields ==
  ASSUME NEW x \in Contexts
  PROVE /\ x.state \in {"DIRECT", "PRECOMPOSITION", "COMPOSITION", "CONVERSION"}
        /\ x.composer \in 0 .. MaxLength /\ x.source \in 0 .. 1
        /\ x.conv \in Converters /\ x.output \in 0 .. MaxLength
        /\ x.strayed \in BOOLEAN
BY DEF Contexts

\* Another converter state.
LEMMA WithConv ==
  ASSUME NEW x \in Contexts, NEW c \in Converters
  PROVE /\ [x EXCEPT !.conv = c] \in Contexts
        /\ [x EXCEPT !.conv = c].conv = c
        /\ [x EXCEPT !.conv = c].state = x.state
        /\ [x EXCEPT !.conv = c].composer = x.composer
        /\ [x EXCEPT !.conv = c].source = x.source
        /\ [x EXCEPT !.conv = c].output = x.output
        /\ [x EXCEPT !.conv = c].strayed = x.strayed
BY DEF Contexts

\* Another composition.
LEMMA WithComposer ==
  ASSUME NEW x \in Contexts, NEW n \in 0 .. MaxLength
  PROVE /\ [x EXCEPT !.composer = n] \in Contexts
        /\ [x EXCEPT !.composer = n].conv = x.conv
        /\ [x EXCEPT !.composer = n].state = x.state
        /\ [x EXCEPT !.composer = n].composer = n
        /\ [x EXCEPT !.composer = n].source = x.source
        /\ [x EXCEPT !.composer = n].output = x.output
        /\ [x EXCEPT !.composer = n].strayed = x.strayed
BY DEF Contexts

\* Another output.
LEMMA WithOutput ==
  ASSUME NEW x \in Contexts, NEW n \in 0 .. MaxLength
  PROVE /\ [x EXCEPT !.output = n] \in Contexts
        /\ [x EXCEPT !.output = n].conv = x.conv
        /\ [x EXCEPT !.output = n].state = x.state
        /\ [x EXCEPT !.output = n].composer = x.composer
        /\ [x EXCEPT !.output = n].source = x.source
        /\ [x EXCEPT !.output = n].output = n
        /\ [x EXCEPT !.output = n].strayed = x.strayed
BY DEF Contexts

\* Another composition, of a text or not.
LEMMA WithSource ==
  ASSUME NEW x \in Contexts, NEW n \in 0 .. MaxLength, NEW s \in 0 .. 1
  PROVE /\ [x EXCEPT !.composer = n, !.source = s] \in Contexts
        /\ [x EXCEPT !.composer = n, !.source = s].conv = x.conv
        /\ [x EXCEPT !.composer = n, !.source = s].state = x.state
        /\ [x EXCEPT !.composer = n, !.source = s].composer = n
        /\ [x EXCEPT !.composer = n, !.source = s].output = x.output
        /\ [x EXCEPT !.composer = n, !.source = s].strayed = x.strayed
BY DEF Contexts

\* Session and converter part, or do not.
LEMMA WithStrayed ==
  ASSUME NEW x \in Contexts, NEW b \in BOOLEAN
  PROVE /\ [x EXCEPT !.strayed = b] \in Contexts
        /\ [x EXCEPT !.strayed = b].conv = x.conv
        /\ [x EXCEPT !.strayed = b].state = x.state
        /\ [x EXCEPT !.strayed = b].composer = x.composer
        /\ [x EXCEPT !.strayed = b].output = x.output
        /\ [x EXCEPT !.strayed = b].strayed = b
BY DEF Contexts

\* SetSessionState clears the composition outside one.
LEMMA SetFacts ==
  ASSUME NEW x \in Contexts,
         NEW st \in {"DIRECT", "PRECOMPOSITION", "COMPOSITION", "CONVERSION"}
  PROVE /\ SetSessionState(x, st) \in Contexts
        /\ SetSessionState(x, st).conv = x.conv
        /\ SetSessionState(x, st).state = st
        /\ SetSessionState(x, st).output = x.output
        /\ SetSessionState(x, st).strayed = x.strayed
        /\ st \in {"DIRECT", "PRECOMPOSITION"} => SetSessionState(x, st).composer = 0
        /\ st \in {"COMPOSITION", "CONVERSION"} =>
             SetSessionState(x, st).composer = x.composer
<1>1. 0 \in 0 .. MaxLength /\ 0 \in 0 .. 1  BY SessionAssumption
<1>2. CASE st \in {"DIRECT", "PRECOMPOSITION"}
  BY <1>1, <1>2 DEF SetSessionState, Contexts
<1>3. CASE st \notin {"DIRECT", "PRECOMPOSITION"}
  BY <1>3 DEF SetSessionState, Contexts
<1> QED  BY <1>2, <1>3

\* Nothing to undo.
LEMMA EmptyStack == ASSUME NEW out PROVE StackOK(<<>>, out)
<1>1. << >> \in Seq(Entries) /\ Len(<< >>) = 0  BY EmptySeq
<1> QED  BY <1>1, SessionAssumption DEF StackOK

\* Nothing committed.
LEMMA TypedNothing ==
  ASSUME NEW u, NEW d PROVE Typed(u, 0, d) = u /\ \A n : Typed(<<>>, n, d) = <<>>
BY DEF Typed

\* What an undo context says and counts after n more characters were committed.
Either(a, b) == a \/ b
Counted(s, n) == IF s # Unlike /\ s + n \in 0 .. MaxLength THEN s + n ELSE Unlike

\* Only the last undo context counts what is committed.
LEMMA TypedFacts ==
  ASSUME NEW u \in Seq(Entries), u # <<>>, NEW n \in Int, n # 0, NEW d \in BOOLEAN
  PROVE /\ Typed(u, n, d) \in Seq(Entries) /\ Len(Typed(u, n, d)) = Len(u)
        /\ \A i \in 1 .. Len(u) - 1 : Typed(u, n, d)[i] = u[i]
        /\ Typed(u, n, d)[Len(u)].context = u[Len(u)].context
        /\ Typed(u, n, d)[Len(u)].unsaved = Either(u[Len(u)].unsaved, d)
        /\ Typed(u, n, d)[Len(u)].since = Counted(u[Len(u)].since, n)
<1> DEFINE l == Len(u)
           a == u[l]
           s == IF a.since # Unlike /\ a.since + n \in 0 .. MaxLength
                THEN a.since + n ELSE Unlike
           b == a.unsaved \/ d
           e == [[a EXCEPT !.since = s] EXCEPT !.unsaved = b]
           v == [u EXCEPT ![l] = e]
<1>1. l \in Nat /\ l \in 1 .. l /\ u \in [1 .. l -> Entries]
  BY EmptySeq, LenProperties
<1>2. a \in Entries  BY <1>1
<1>3. Typed(u, n, d) = v
  <2> DEFINE u1 == [u EXCEPT ![l].since = s]
  <2>1. Typed(u, n, d) = [u1 EXCEPT ![l].unsaved = @ \/ d]
    BY DEF Typed
  <2>2. u1 \in [1 .. l -> [context : Contexts, since : {s}, unsaved : BOOLEAN] \cup Entries]
        /\ u1 = [u EXCEPT ![l] = [a EXCEPT !.since = s]]
    <3> HIDE DEF s
    <3> QED  BY <1>1, <1>2 DEF Entries
  <2>3. u1[l] = [a EXCEPT !.since = s] /\ u1[l].unsaved = a.unsaved
    <3> HIDE DEF s
    <3> QED  BY <1>1, <1>2, <2>2 DEF Entries
  <2> HIDE DEF u1, s
  <2>4. [u1 EXCEPT ![l].unsaved = @ \/ d] = [u1 EXCEPT ![l] = e]
    BY <2>3
  <2>5. [u1 EXCEPT ![l] = e] = v
    <3> HIDE DEF e
    <3> QED  BY <1>1, <2>2
  <2> QED  BY <2>1, <2>4, <2>5
<1>4. s \in 0 .. Unlike /\ b \in BOOLEAN
  <2>1. a.since \in 0 .. Unlike /\ a.unsaved \in BOOLEAN  BY <1>2 DEF Entries
  <2> HIDE DEF a
  <2> QED  BY <2>1, SessionAssumption DEF Unlike
<1> HIDE DEF s, b
<1>5. e \in Entries /\ e.context = a.context /\ e.since = s /\ e.unsaved = b
  <2> HIDE DEF a
  <2> QED  BY <1>2, <1>4 DEF Entries
<1> HIDE DEF e
<1>6. /\ v \in Seq(Entries) /\ Len(v) = l /\ v[l] = e
      /\ \A i \in 1 .. l - 1 : v[i] = u[i]
  <2>1. v \in [1 .. l -> Entries] /\ v[l] = e /\ \A i \in 1 .. l - 1 : v[i] = u[i]
    <3> HIDE DEF l
    <3> QED  BY <1>1, <1>5
  <2>2. v \in Seq(Entries) /\ Len(v) = l
    <3> HIDE DEF v, l
    <3> QED  BY <1>1, <2>1, SeqDef
  <2> QED  BY <2>1, <2>2
<1> HIDE DEF v
<1> QED  BY <1>3, <1>5, <1>6 DEF b, s, Counted, Either

\* The undo contexts after a commit.
LEMMA TypedStack ==
  ASSUME NEW u, NEW out, StackOK(u, out), NEW n \in Int, n # 0, NEW d \in BOOLEAN,
         NEW new, u # <<>> => d \/ (u[Len(u)].since = 0 /\ n = new /\ n \in 0 .. MaxLength)
  PROVE StackOK(Typed(u, n, d), new)
<1>1. CASE u = <<>>
  BY <1>1, TypedNothing, EmptyStack
<1>2. CASE u # <<>>
  <2> DEFINE l == Len(u)
             v == Typed(u, n, d)
  <2>1. u \in Seq(Entries) /\ l <= kMultipleUndoMaxSize /\ l \in Nat /\ l \in 1 .. l
    BY <1>2, EmptySeq, LenProperties DEF StackOK
  <2>2. /\ v \in Seq(Entries) /\ Len(v) = l /\ \A i \in 1 .. l - 1 : v[i] = u[i]
        /\ v[l].context = u[l].context /\ v[l].unsaved = Either(u[l].unsaved, d)
        /\ v[l].since = Counted(u[l].since, n)
    <3>1. u \in Seq(Entries)  BY <2>1
    <3>2. v \in Seq(Entries) /\ Len(v) = l /\ \A i \in 1 .. l - 1 : v[i] = u[i]
      BY <1>2, <3>1, TypedFacts
    <3>3. v[l].context = u[l].context /\ v[l].unsaved = Either(u[l].unsaved, d)
      BY <1>2, <3>1, TypedFacts
    <3>4. v[l].since = Counted(u[l].since, n)
      BY <1>2, <3>1, TypedFacts
    <3> QED  BY <3>2, <3>3, <3>4
  <2>3. \A i \in 1 .. l : /\ Settled(u[i].context)
                          /\ ~u[i].unsaved =>
                               u[i].since = IF i = l THEN out ELSE u[i + 1].context.output
    BY DEF StackOK
  <2>4. d \/ (u[l].since = 0 /\ n = new /\ n \in 0 .. MaxLength)  BY <1>2
  <2> HIDE DEF v, l
  <2>5. \A i \in 1 .. l : v[i].context = u[i].context
    <3>1. ASSUME NEW i \in 1 .. l PROVE v[i].context = u[i].context
      <4>1. i = l \/ i \in 1 .. l - 1  BY <2>1
      <4> QED  BY <2>2, <4>1
    <3> QED  BY <3>1
  <2>6. ASSUME NEW i \in 1 .. l, ~v[i].unsaved
        PROVE v[i].since = IF i = l THEN new ELSE v[i + 1].context.output
    <3>1. CASE i = l
      <4>1. ~d  BY <2>2, <2>6, <3>1 DEF Either
      <4>2. u[l].since = 0 /\ n = new /\ n \in 0 .. MaxLength  BY <2>4, <4>1
      <4>3. 0 # Unlike /\ 0 + n = n  BY SessionAssumption DEF Unlike
      <4>4. v[l].since = n  BY <2>2, <4>2, <4>3 DEF Counted
      <4> QED  BY <3>1, <4>2, <4>4
    <3>2. CASE i # l
      <4>1. i \in 1 .. l - 1 /\ i + 1 \in 1 .. l  BY <2>1, <3>2
      <4>2. v[i] = u[i]  BY <2>2, <4>1
      <4>3. u[i].since = u[i + 1].context.output  BY <2>3, <2>6, <3>2, <4>2
      <4> QED  BY <2>5, <3>2, <4>1, <4>2, <4>3
    <3> QED  BY <3>1, <3>2
  <2>7. StackOK(v, new)
    <3>1. \A i \in 1 .. l : Settled(v[i].context)  BY <2>3, <2>5
    <3> QED  BY <2>1, <2>2, <2>6, <3>1 DEF StackOK
  <2> QED  BY <2>7 DEF v
<1> QED  BY <1>1, <1>2

\* PushUndoContext adds the context on top and drops the oldest at the limit.
LEMMA PushFacts ==
  ASSUME NEW u \in Seq(Entries), Len(u) <= kMultipleUndoMaxSize, NEW x \in Contexts
  PROVE LET p == PushUndoContext(u, x)
        IN  /\ p \in Seq(Entries) /\ Len(p) \in 1 .. kMultipleUndoMaxSize
            /\ p[Len(p)] = [context |-> x, since |-> 0, unsaved |-> FALSE]
            /\ \E k \in {0, 1} : /\ Len(p) = Len(u) + 1 - k
                                 /\ \A i \in 1 .. Len(p) - 1 : p[i] = u[i + k]
<1> DEFINE e == [context |-> x, since |-> 0, unsaved |-> FALSE]
           q == Append(u, e)
           p == PushUndoContext(u, x)
<1>1. e \in Entries  BY SessionAssumption DEF Entries, Unlike
<1>2. p = IF Len(q) > kMultipleUndoMaxSize THEN Tail(q) ELSE q
  BY DEF PushUndoContext
<1> HIDE DEF e, p
<1>3. /\ q \in Seq(Entries) /\ Len(q) = Len(u) + 1 /\ Len(u) \in Nat
      /\ \A i \in 1 .. Len(u) : q[i] = u[i]
      /\ q[Len(u) + 1] = e
  BY <1>1, AppendProperties, LenProperties
<1> DEFINE l == Len(u)
<1>4. kMultipleUndoMaxSize \in Nat \ {0} /\ l <= kMultipleUndoMaxSize
  BY SessionAssumption
<1>5. CASE ~(Len(q) > kMultipleUndoMaxSize)
  <2>1. p = q  BY <1>2, <1>5
  <2>2. p \in Seq(Entries) /\ Len(p) = l + 1 /\ l \in Nat
    BY <1>3, <2>1
  <2>3. Len(p) \in 1 .. kMultipleUndoMaxSize
    <3>1. Len(p) = Len(q) /\ Len(q) = l + 1  BY <1>3, <2>1
    <3> HIDE DEF l, q
    <3> QED  BY <1>4, <1>5, <2>2, <3>1
  <2>4. p[Len(p)] = e  BY <1>3, <2>1
  <2>5. Len(p) = l + 1 - 0 /\ \A i \in 1 .. Len(p) - 1 : p[i] = u[i + 0]
    <3>1. \A i \in 1 .. l : p[i] = u[i]  BY <1>3, <2>1
    <3> HIDE DEF l
    <3>2. \A i \in 1 .. Len(p) - 1 : i \in 1 .. l /\ i + 0 = i  BY <2>2
    <3> QED  BY <2>2, <3>1, <3>2
  <2> QED  BY <2>2, <2>3, <2>4, <2>5 DEF e, p
<1>6. CASE Len(q) > kMultipleUndoMaxSize
  <2>1. p = Tail(q)  BY <1>2, <1>6
  <2>2. l = kMultipleUndoMaxSize
    <3>1. Len(q) = l + 1 /\ l \in Nat  BY <1>3
    <3> HIDE DEF l, q
    <3> QED  BY <1>4, <1>6, <3>1
  <2>3. q # << >>
    <3>1. Len(q) # 0  BY <1>3
    <3> HIDE DEF q
    <3> QED  BY <3>1
  <2>4. /\ p \in Seq(Entries) /\ Len(p) = Len(q) - 1
        /\ \A i \in 1 .. Len(p) : p[i] = q[i + 1]
    <3>1. q \in Seq(Entries)  BY <1>3
    <3> HIDE DEF q
    <3> QED  BY <2>1, <2>3, <3>1, HeadTailProperties
  <2>5. Len(p) = l /\ l \in Nat \ {0}
    <3>1. Len(p) = (l + 1) - 1 /\ l \in Nat  BY <1>3, <2>4
    <3> HIDE DEF l
    <3> QED  BY <1>4, <2>2, <3>1
  <2>6. p[Len(p)] = e
    <3>1. l \in 1 .. Len(p) /\ q[l + 1] = e  BY <1>3, <2>5
    <3> QED  BY <2>4, <2>5, <3>1
  <2>7. Len(p) = l + 1 - 1 /\ \A i \in 1 .. Len(p) - 1 : p[i] = u[i + 1]
    <3>1. \A i \in 1 .. l : q[i] = u[i]  BY <1>3
    <3> HIDE DEF l, q
    <3>2. \A i \in 1 .. Len(p) - 1 : i \in 1 .. Len(p) /\ i + 1 \in 1 .. l  BY <2>5
    <3> QED  BY <2>4, <2>5, <3>1, <3>2
  <2>8. Len(p) \in 1 .. kMultipleUndoMaxSize
    <3> HIDE DEF l
    <3> QED  BY <2>2, <2>5
  <2> QED  BY <2>4, <2>6, <2>7, <2>8 DEF e, p
<1> QED  BY <1>5, <1>6

\* A pushed context: nothing has been committed since.
LEMMA PushOK ==
  ASSUME NEW x, Settled(x), NEW u, StackOK(u, x.output)
  PROVE /\ StackOK(PushUndoContext(u, x), 0)
        /\ PushUndoContext(u, x) # <<>>
        /\ PushUndoContext(u, x)[Len(PushUndoContext(u, x))].since = 0
<1> DEFINE p == PushUndoContext(u, x)
<1>1. x \in Contexts /\ u \in Seq(Entries) /\ Len(u) <= kMultipleUndoMaxSize
  BY DEF StackOK, Settled, ContextOK, Agreed
<1>2. /\ p \in Seq(Entries) /\ Len(p) \in 1 .. kMultipleUndoMaxSize
      /\ p[Len(p)] = [context |-> x, since |-> 0, unsaved |-> FALSE]
      /\ \E k \in {0, 1} : /\ Len(p) = Len(u) + 1 - k
                           /\ \A i \in 1 .. Len(p) - 1 : p[i] = u[i + k]
  BY <1>1, PushFacts
<1> HIDE DEF p
<1>3. PICK k \in {0, 1} : /\ Len(p) = Len(u) + 1 - k
                          /\ \A i \in 1 .. Len(p) - 1 : p[i] = u[i + k]
  BY <1>2
<1> DEFINE l == Len(p)
           m == Len(u)
<1>4. l \in 1 .. kMultipleUndoMaxSize /\ m \in Nat /\ l = m + 1 - k
  BY <1>1, <1>2, <1>3, LenProperties
<1>5. p[l].context = x /\ p[l].since = 0  BY <1>2
<1>6. \A i \in 1 .. m : /\ Settled(u[i].context)
                        /\ ~u[i].unsaved =>
                             u[i].since = IF i = m THEN x.output ELSE u[i + 1].context.output
  BY DEF StackOK
<1>7. ASSUME NEW i \in 1 .. l
      PROVE /\ Settled(p[i].context)
            /\ ~p[i].unsaved => p[i].since = IF i = l THEN 0 ELSE p[i + 1].context.output
  <2>1. CASE i = l  BY <1>5, <2>1
  <2>2. CASE i # l
    <3> HIDE DEF l, m
    <3>1. i \in 1 .. l - 1 /\ i + k \in 1 .. m /\ (i + k = m <=> i + 1 = l)
      BY <1>4, <2>2, SessionAssumption
    <3>2. p[i] = u[i + k]  BY <1>3, <3>1 DEF l
    <3>3. CASE i + 1 = l
      <4>1. ~u[i + k].unsaved => u[i + k].since = x.output  BY <1>6, <3>1, <3>3
      <4> QED  BY <1>5, <1>6, <2>2, <3>1, <3>2, <3>3, <4>1
    <3>4. CASE i + 1 # l
      <4>1. i + 1 \in 1 .. l - 1 /\ (i + 1) + k = (i + k) + 1
        BY <1>4, <3>1, <3>4, SessionAssumption
      <4>2. p[i + 1] = u[(i + k) + 1]  BY <1>3, <4>1 DEF l
      <4>3. ~u[i + k].unsaved => u[i + k].since = u[(i + k) + 1].context.output
        BY <1>6, <3>1, <3>4
      <4> QED  BY <1>6, <2>2, <3>1, <3>2, <4>2, <4>3
    <3> QED  BY <3>3, <3>4
  <2> QED  BY <2>1, <2>2
<1>8. StackOK(p, 0)
  <2>1. Len(p) <= kMultipleUndoMaxSize
    <3> DEFINE h == Len(p)
    <3>1. h \in 1 .. kMultipleUndoMaxSize  BY <1>2
    <3> HIDE DEF h
    <3>2. h <= kMultipleUndoMaxSize  BY <3>1, SessionAssumption
    <3> QED  BY <3>2 DEF h
  <2> QED  BY <1>2, <1>7, <2>1 DEF StackOK
<1>9. p # <<>>
  <2>1. Len(p) # 0  BY <1>2, SessionAssumption
  <2> QED  BY <2>1
<1> QED  BY <1>5, <1>8, <1>9 DEF p

\* A commit by the converter, with the context before it pushed.
LEMMA PushTypedOK ==
  ASSUME NEW x, Settled(x), NEW u, StackOK(u, x.output), NEW n \in 0 .. MaxLength
  PROVE StackOK(Typed(PushUndoContext(u, x), n, FALSE), n)
<1> DEFINE p == PushUndoContext(u, x)
<1>1. StackOK(p, 0) /\ p # <<>> /\ p[Len(p)].since = 0  BY PushOK
<1> HIDE DEF p
<1>2. CASE n = 0  BY <1>1, <1>2, TypedNothing DEF p
<1>3. CASE n # 0
  <2>1. n \in Int /\ FALSE \in BOOLEAN  BY SessionAssumption
  <2>2. StackOK(Typed(p, n, FALSE), n)  BY <1>1, <1>3, <2>1, TypedStack
  <2> QED  BY <2>2 DEF p
<1> QED  BY <1>2, <1>3

\* A commit past the converter: the last undo context is marked.
LEMMA TypedDirectOK ==
  ASSUME NEW u, NEW out, StackOK(u, out), NEW n \in Int
  PROVE /\ StackOK(Typed(u, n, TRUE), out)
        /\ n # 0 => \A new : StackOK(Typed(u, n, TRUE), new)
<1>1. CASE n = 0  BY <1>1, TypedNothing
<1>2. CASE n # 0
  <2>1. TRUE \in BOOLEAN  OBVIOUS
  <2> QED  BY <1>2, <2>1, TypedStack
<1> QED  BY <1>1, <1>2

\* What Undo goes back to, and what it leaves to undo.
LEMMA UndoOK ==
  ASSUME NEW u, NEW out \in 0 .. MaxLength, StackOK(u, out), u # <<>>
  PROVE /\ Settled(Last(u).context)
        /\ StackOK(Typed(Front(u), Last(u).since - out, Last(u).unsaved),
                   Last(u).context.output)
<1> DEFINE l == Len(u)
           e == u[l]
           f == Front(u)
           n == e.since - out
<1>1. u \in Seq(Entries) /\ l \in Nat \ {0} /\ l <= kMultipleUndoMaxSize /\ l \in 1 .. l
  BY EmptySeq, LenProperties DEF StackOK
<1>2. Last(u) = e  BY DEF Last
<1>3. e \in Entries
  <2> HIDE DEF l
  <2>1. l \in 1 .. Len(u)  BY <1>1 DEF l
  <2> QED  BY <1>1, <2>1, ElementOfSeq
<1>4. \A i \in 1 .. l : /\ Settled(u[i].context)
                        /\ ~u[i].unsaved =>
                             u[i].since = IF i = l THEN out ELSE u[i + 1].context.output
  BY DEF StackOK
<1>5. Settled(e.context) /\ (~e.unsaved => e.since = out)  BY <1>1, <1>4
<1>6. /\ f \in Seq(Entries) /\ Len(f) = l - 1
      /\ \A i \in 1 .. l - 1 : f[i] = u[i]
  <2>1. f = SubSeq(u, 1, l - 1)  BY DEF Front
  <2>2. \A i \in 1 .. l - 1 : u[i] \in Entries  BY <1>1, ElementOfSeq
  <2> DEFINE m == l - 1
  <2>3. m \in Nat  BY <1>1
  <2>4. f = SubSeq(u, 1, m) /\ \A i \in 1 .. m : u[i] \in Entries  BY <2>1, <2>2
  <2> HIDE DEF f, m
  <2>5. /\ f \in Seq(Entries) /\ Len(f) = IF 1 <= m THEN m - 1 + 1 ELSE 0
        /\ \A i \in 1 .. m - 1 + 1 : f[i] = u[1 + i - 1]
    BY <2>3, <2>4, SubSeqProperties
  <2>6. Len(f) = m /\ \A i \in 1 .. m : f[i] = u[i]
    <3>1. \A i \in 1 .. m : i \in 1 .. m - 1 + 1 /\ 1 + i - 1 = i  BY <2>3
    <3> QED  BY <2>3, <2>5, <3>1
  <2> QED  BY <2>5, <2>6 DEF m
<1> HIDE DEF f, l
<1>7. StackOK(f, e.context.output)
  <2>1. ASSUME NEW i \in 1 .. l - 1
        PROVE /\ Settled(f[i].context)
              /\ ~f[i].unsaved => f[i].since = IF i = l - 1 THEN e.context.output
                                              ELSE f[i + 1].context.output
    <3>1. i \in 1 .. l /\ i # l /\ f[i] = u[i]  BY <1>1, <1>6
    <3>2. ~u[i].unsaved => u[i].since = u[i + 1].context.output  BY <1>4, <3>1
    <3>3. CASE i = l - 1
      <4>1. i + 1 = l  BY <1>1, <3>3
      <4>2. u[i + 1] = e  BY <4>1
      <4> QED  BY <1>4, <3>1, <3>2, <3>3, <4>2
    <3>4. CASE i # l - 1
      <4>1. i + 1 \in 1 .. l - 1  BY <1>1, <3>4
      <4> QED  BY <1>4, <1>6, <3>1, <3>2, <3>4, <4>1
    <3> QED  BY <3>3, <3>4
  <2>2. Len(f) <= kMultipleUndoMaxSize  BY <1>1, <1>6, SessionAssumption
  <2> QED  BY <1>6, <2>1, <2>2 DEF StackOK
<1>8. n \in Int /\ e.unsaved \in BOOLEAN /\ e.since \in Int /\ out \in Int
  <2>1. e.since \in 0 .. Unlike /\ e.unsaved \in BOOLEAN  BY <1>3 DEF Entries
  <2> HIDE DEF e
  <2> QED  BY <2>1, SessionAssumption DEF Unlike
<1>9. StackOK(Typed(f, n, e.unsaved), e.context.output)
  <2>1. CASE n = 0  BY <1>7, <2>1, TypedNothing
  <2>2. CASE n # 0
    <3>1. e.since # out
      <4> HIDE DEF e
      <4> QED  BY <1>8, <2>2
    <3>2. e.unsaved = TRUE  BY <1>5, <1>8, <3>1
    <3> HIDE DEF n, e
    <3> QED  BY <1>7, <1>8, <2>2, <3>2, TypedStack
  <2> QED  BY <2>1, <2>2
<1> QED  BY <1>2, <1>5, <1>9 DEF f


-----------------------------------------------------------------------------
(* How commands end.                                                       *)

\* A context whose converter can be reset.
Usable(x) == x \in Contexts /\ (Sound(x.conv) \/ (Ended(x.conv) /\ x.strayed))

\* A context to ask suggestions for, also when those shown are older.
Open(x) ==
  /\ x \in Contexts /\ ConverterOK(x.conv, x.composer, TRUE)
  /\ x.conv.state \notin Focused /\ x.state # "CONVERSION"
  /\ ~x.strayed => (x.state \in {"DIRECT", "PRECOMPOSITION"} => x.composer = 0)

Ready(x) == Open(x) \/ Dead(x)

\* What the invariant says of the context a command finds.
LEMMA InvFacts ==
  ASSUME SessionInv, context.conv.checked
  PROVE /\ Settled(context) /\ ContextOK(context) /\ context \in Contexts
        /\ ConverterOK(context.conv, context.composer, context.strayed)
        /\ Sound(context.conv) /\ context.conv \in Converters /\ Usable(context)
        /\ context.composer \in 0 .. MaxLength /\ context.output \in 0 .. MaxLength
        /\ context.strayed \in BOOLEAN /\ Quiet(context)
        /\ StackOK(undo_contexts, context.output)
<1>1. Settled(context) /\ ContextOK(context) /\ context \in Contexts /\ Quiet(context)
  BY DEF SessionInv, Settled, ContextOK, Agreed
<1>2. ConverterOK(context.conv, context.composer, context.strayed)
  BY <1>1 DEF ContextOK, Agreed, ConverterOK
<1>3. context.conv \in Converters /\ Sound(context.conv)
  BY <1>2, OKSound
<1> QED  BY <1>1, <1>2, <1>3, ContextFields DEF SessionInv, Usable

\* The parts of a context between the steps of a command.
LEMMA OKFacts ==
  ASSUME NEW x, ContextOK(x)
  PROVE /\ x \in Contexts /\ ConverterOK(x.conv, x.composer, x.strayed)
        /\ Sound(x.conv) /\ Usable(x)
        /\ x.composer \in 0 .. MaxLength /\ x.strayed \in BOOLEAN
<1>1. x \in Contexts /\ ConverterOK(x.conv, x.composer, x.strayed)
  BY DEF ContextOK, Agreed, ConverterOK
<1>2. Sound(x.conv)  BY <1>1, OKSound
<1> QED  BY <1>1, <1>2, ContextFields DEF Usable

\* Outside a conversion suggestions may be asked for.
LEMMA OpenContext ==
  ASSUME NEW x, ContextOK(x), x.state # "CONVERSION" PROVE Open(x)
<1>1. x \in Contexts /\ ConverterOK(x.conv, x.composer, x.strayed)  BY OKFacts
<1>2. x.conv.state \notin Focused  BY DEF ContextOK, Agreed
<1>3. ConverterOK(x.conv, x.composer, TRUE)  BY <1>1, <1>2, StrayedOK
<1> QED  BY <1>1, <1>2, <1>3 DEF ContextOK, Agreed, Open

\* A context outside a conversion whose suggestions are up to date.
LEMMA OpenOK ==
  ASSUME NEW x, Open(x), ConverterOK(x.conv, x.composer, x.strayed) PROVE ContextOK(x)
BY DEF Open, ContextOK, Agreed, ConverterOK

\* A context with an idle converter.
LEMMA IdleContext ==
  ASSUME NEW x \in Contexts, Idle(x.conv),
         x.strayed \/ x.state # "CONVERSION",
         x.state \in {"DIRECT", "PRECOMPOSITION"} => x.strayed \/ x.composer = 0
  PROVE /\ ContextOK(x)
        /\ x.state # "CONVERSION" => Open(x)
<1>1. ConverterOK(x.conv, x.composer, x.strayed) /\ ConverterOK(x.conv, x.composer, TRUE)
  BY IdleOK
<1>2. x.conv.state \notin Focused  BY DEF Idle, Focused
<1> QED  BY <1>1, <1>2 DEF ContextOK, Agreed, ConverterOK, Open

\* A command's answer, or the end of the server.
LEMMA ReplyHolds ==
  ASSUME SessionInv, NEW x, NEW u, Dead(x) \/ (Settled(x) /\ StackOK(u, x.output)),
         Reply(x, u)
  PROVE SessionInv'
<1>1. CASE Settled(x) /\ StackOK(u, x.output)
  <2>1. x \in Contexts /\ x.conv.checked /\ Agreed(x) /\ Quiet(x) /\ x.strayed \in BOOLEAN
    BY <1>1, ContextFields DEF Settled, ContextOK, Agreed
  <2> DEFINE b == x.strayed /\ ~AtRest(x)
             y == [x EXCEPT !.strayed = b]
  <2>2. context' = y /\ undo_contexts' = u  BY <2>1 DEF Reply
  <2>3. b \in BOOLEAN  OBVIOUS
  <2>4. b = x.strayed \/ AtRest(x)  BY <2>1
  <2> HIDE DEF b
  <2>6. /\ y \in Contexts /\ y.conv = x.conv /\ y.state = x.state
        /\ y.composer = x.composer /\ y.output = x.output /\ y.strayed = b
    BY <2>1, <2>3, WithStrayed
  <2> HIDE DEF y
  <2>7. Agreed(y) /\ Quiet(y)
    <3>1. CASE b = x.strayed  BY <2>1, <2>6, <3>1 DEF Agreed, Quiet
    <3>2. CASE AtRest(x)
      <4>1. Shaped(x.conv, x.composer, x.strayed)  BY <2>1 DEF Agreed
      <4>2. Shaped(x.conv, x.composer, b)  BY <3>2, <4>1 DEF Shaped, AtRest
      <4> QED  BY <2>6, <3>2, <4>2 DEF Agreed, Quiet, AtRest, Focused
    <3> QED  BY <2>4, <3>1, <3>2
  <2> QED  BY <1>1, <2>1, <2>2, <2>6, <2>7 DEF SessionInv
<1>2. CASE Dead(x)
  <2>1. x.conv.checked = FALSE /\ x.strayed = TRUE
    BY <1>2, ContextFields DEF Dead, Ended
  <2> DEFINE c == Aborted(context.conv)
             w == [context EXCEPT !.conv = c]
             y == [w EXCEPT !.strayed = TRUE]
  <2>2. context' = y /\ undo_contexts' = undo_contexts  BY <2>1 DEF Reply
  <2>3. /\ context \in Contexts
        /\ Shaped(context.conv, context.composer, context.strayed)
        /\ context.conv.state \in Focused => context.state = "CONVERSION"
    BY DEF SessionInv, Agreed
  <2>4. /\ c \in Converters /\ c.state = context.conv.state
        /\ Shaped(c, context.composer, TRUE)
    <3>1. context.conv \in Converters  BY <2>3 DEF Shaped
    <3>2. /\ c \in Converters /\ c.state = context.conv.state
          /\ c.segments = context.conv.segments
          /\ c.segment_index = context.conv.segment_index
          /\ c.selected = context.conv.selected /\ c.previous = context.conv.previous
      BY <3>1 DEF Aborted, Converters
    <3> HIDE DEF c
    <3> QED  BY <2>3, <3>2 DEF Shaped
  <2> HIDE DEF c
  <2>5. /\ w \in Contexts /\ w.conv = c /\ w.state = context.state
        /\ w.composer = context.composer /\ w.output = context.output
    BY <2>3, <2>4, WithConv
  <2> HIDE DEF w
  <2>6. /\ y \in Contexts /\ y.conv = c /\ y.state = context.state
        /\ y.composer = context.composer /\ y.output = context.output
        /\ y.strayed = TRUE
    BY <2>5, WithStrayed
  <2> HIDE DEF y
  <2>7. Agreed(y) /\ Quiet(y)  BY <2>3, <2>4, <2>6 DEF Agreed, Quiet
  <2> QED  BY <2>2, <2>6, <2>7 DEF SessionInv
<1> QED  BY <1>1, <1>2

\* A result is taken by the output.
LEMMA PoppedFacts ==
  ASSUME NEW x, Fine(x)
  PROVE LET y == [x EXCEPT !.conv = PopOutput(@)]
        IN  /\ y \in Contexts /\ (Dead(y) \/ Settled(y))
            /\ y.output = x.output /\ y.state = x.state /\ y.composer = x.composer
<1> DEFINE c == PopOutput(x.conv)
           y == [x EXCEPT !.conv = c]
<1>1. x \in Contexts  BY DEF Fine, Dead, ContextOK, Agreed
<1>2. \/ x.strayed = TRUE /\ Ended(c)
      \/ /\ ConverterOK(c, x.composer, x.strayed) /\ c.result = 0
         /\ c.state = x.conv.state /\ ContextOK(x)
  <2>1. CASE Dead(x)
    <3>1. x.strayed = TRUE  BY <2>1, ContextFields DEF Dead
    <3> QED  BY <2>1, <3>1, EndedStays DEF Dead
  <2>2. CASE ContextOK(x)
    <3>1. ConverterOK(x.conv, x.composer, x.strayed) /\ x.strayed \in BOOLEAN
      BY <2>2, OKFacts
    <3> QED  BY <2>2, <3>1, PopOutputFacts
  <2> QED  BY <2>1, <2>2 DEF Fine
<1> HIDE DEF c
<1>3. c \in Converters  BY <1>2, OKSound DEF Ended
<1>4. /\ y \in Contexts /\ y.conv = c /\ y.state = x.state
      /\ y.composer = x.composer /\ y.output = x.output /\ y.strayed = x.strayed
  BY <1>1, <1>3, WithConv
<1>5. [x EXCEPT !.conv = PopOutput(@)] = y  BY DEF c
<1> HIDE DEF y
<1>6. CASE Ended(c) /\ x.strayed = TRUE  BY <1>4, <1>5, <1>6 DEF Dead
<1>7. CASE /\ ConverterOK(c, x.composer, x.strayed) /\ c.result = 0
           /\ c.state = x.conv.state /\ ContextOK(x)
  <2>1. Settled(y)
    BY <1>4, <1>7 DEF Settled, Quiet, ContextOK, Agreed, ConverterOK
  <2> QED  BY <1>4, <1>5, <2>1
<1> QED  BY <1>2, <1>6, <1>7

\* Output, for any context between the steps of a command.
LEMMA OutputHolds ==
  ASSUME SessionInv, NEW x, Fine(x), NEW u, StackOK(u, x.output), Output(x, u)
  PROVE SessionInv'
<1> DEFINE y == [x EXCEPT !.conv = PopOutput(@)]
           v == Typed(u, x.conv.result, TRUE)
<1>1. (Dead(y) \/ Settled(y)) /\ y.output = x.output  BY PoppedFacts
<1>2. x.conv.result \in Int
  <2>1. x.conv \in Converters
    BY ContextFields DEF Fine, Dead, ContextOK, Agreed
  <2>2. x.conv.result \in 0 .. MaxLength  BY <2>1, Fields
  <2> QED  BY <2>2, SessionAssumption
<1>3. StackOK(v, x.output)  BY <1>2, TypedDirectOK
<1>4. Reply(y, v)  BY DEF Output
<1> HIDE DEF y, v
<1>5. Dead(y) \/ (Settled(y) /\ StackOK(v, y.output))  BY <1>1, <1>3
<1> QED  BY <1>4, <1>5, ReplyHolds

\* OutputComposition, which leaves a result in the converter.
LEMMA OutputCompositionHolds ==
  ASSUME SessionInv, NEW x, Fine(x), Quiet(x), NEW u, StackOK(u, x.output),
         OutputComposition(x, u)
  PROVE SessionInv'
<1>1. Dead(x) \/ (Settled(x) /\ StackOK(u, x.output))  BY DEF Fine, Settled
<1> QED  BY <1>1, ReplyHolds DEF OutputComposition

\* A command that commits by the converter.
LEMMA OutputSaves ==
  ASSUME SessionInv, context.conv.checked, NEW x, Fine(x),
         OutputAndSave(x, PushUndoContext(undo_contexts, context))
  PROVE SessionInv'
<1> DEFINE n == x.conv.result
           p == PushUndoContext(undo_contexts, context)
           v == Typed(p, n, FALSE)
           y == [x EXCEPT !.conv = PopOutput(@)]
           z == [y EXCEPT !.output = n]
<1>1. y \in Contexts /\ (Dead(y) \/ Settled(y))  BY PoppedFacts
<1>2. n \in 0 .. MaxLength
  <2>1. x.conv \in Converters
    BY ContextFields DEF Fine, Dead, ContextOK, Agreed
  <2> QED  BY <2>1, Fields
<1>3. Reply(z, v)  BY DEF OutputAndSave
<1> HIDE DEF n, y
<1>4. StackOK(v, n)  BY <1>2, InvFacts, PushTypedOK
<1>5. /\ z \in Contexts /\ z.conv = y.conv /\ z.state = y.state
      /\ z.composer = y.composer /\ z.output = n /\ z.strayed = y.strayed
  BY <1>1, <1>2, WithOutput
<1> HIDE DEF z, v
<1>6. Dead(y) => Dead(z)  BY <1>5 DEF Dead
<1>7. Settled(y) => Settled(z)
  BY <1>5 DEF Settled, ContextOK, Agreed, Quiet
<1>8. Dead(z) \/ (Settled(z) /\ StackOK(v, z.output))
  BY <1>1, <1>4, <1>5, <1>6, <1>7
<1> QED  BY <1>3, <1>8, ReplyHolds

\* The outcomes of Suggest.
LEMMA SuggestedFacts ==
  ASSUME NEW x, Ready(x), NEW r \in Suggested(x)
  PROVE /\ Fine(r.context) /\ r.context \in Contexts
        /\ r.context.output = x.output
        /\ r.context.conv.result = x.conv.result \/ Dead(r.context)
        /\ Quiet(x) => Quiet(r.context)
<1>1. x \in Contexts /\ x.composer \in 0 .. MaxLength /\ x.strayed \in BOOLEAN
  BY ContextFields DEF Ready, Open, Dead
<1>2. \/ \E q \in Suggest(x.conv, x.composer) :
           r.context = [x EXCEPT !.conv = q.conv]
      \/ r.context = [x EXCEPT !.strayed = @ \/ x.conv.state # "COMPOSITION"]
  BY DEF Suggested
<1>3. ASSUME NEW q \in Suggest(x.conv, x.composer),
             r.context = [x EXCEPT !.conv = q.conv]
      PROVE /\ Fine(r.context) /\ r.context \in Contexts
            /\ r.context.output = x.output
            /\ r.context.conv.result = x.conv.result \/ Dead(r.context)
            /\ Quiet(x) => Quiet(r.context)
  <2> DEFINE d == q.conv
             y == [x EXCEPT !.conv = d]
  <2>1. \/ /\ Open(x) /\ d.result = x.conv.result /\ d.state \notin Focused
           /\ ConverterOK(d, x.composer, x.strayed)
        \/ Dead(x) /\ Ended(d)
    <3>1. CASE Open(x)
      <4>1. Sound(x.conv) /\ x.conv.state \notin Focused
        BY <3>1, OKSound DEF Open
      <4> QED  BY <1>1, <3>1, <4>1, SuggestFacts
    <3>2. CASE Dead(x)  BY <1>1, <3>2, EndedMethods DEF Dead
    <3> QED  BY <3>1, <3>2 DEF Ready
  <2>2. r.context = y  BY <1>3
  <2> HIDE DEF d
  <2>3. d \in Converters  BY <2>1, OKSound DEF Ended
  <2>4. /\ y \in Contexts /\ y.conv = d /\ y.state = x.state
        /\ y.composer = x.composer /\ y.output = x.output /\ y.strayed = x.strayed
    BY <1>1, <2>3, WithConv
  <2> HIDE DEF y
  <2>5. CASE Dead(x) /\ Ended(d)  BY <2>2, <2>4, <2>5 DEF Dead, Fine, Quiet
  <2>6. CASE /\ Open(x) /\ d.result = x.conv.result /\ d.state \notin Focused
             /\ ConverterOK(d, x.composer, x.strayed)
    <3>1. ContextOK(y)  BY <2>4, <2>6 DEF ContextOK, Agreed, ConverterOK, Open
    <3> QED  BY <2>2, <2>4, <2>6, <3>1 DEF Fine, Quiet
  <2> QED  BY <2>1, <2>5, <2>6
<1>4. CASE r.context = [x EXCEPT !.strayed = @ \/ x.conv.state # "COMPOSITION"]
  <2> DEFINE b == x.strayed \/ x.conv.state # "COMPOSITION"
             y == [x EXCEPT !.strayed = b]
  <2>1. r.context = y  BY <1>4
  <2>2. b \in BOOLEAN /\ (x.strayed => b = TRUE) /\ (~b => x.conv.state = "COMPOSITION")
    OBVIOUS
  <2> HIDE DEF b
  <2>3. /\ y \in Contexts /\ y.conv = x.conv /\ y.state = x.state
        /\ y.composer = x.composer /\ y.output = x.output /\ y.strayed = b
    BY <1>1, <2>2, WithStrayed
  <2> HIDE DEF y
  <2>4. CASE Dead(x)  BY <1>1, <2>1, <2>2, <2>3, <2>4 DEF Dead, Fine, Quiet
  <2>5. CASE Open(x)
    <3>1. ConverterOK(x.conv, x.composer, b)
      <4>1. CASE b = TRUE  BY <2>5, <4>1 DEF Open
      <4>2. CASE b = FALSE
        <5>1. Idle(x.conv)  BY <2>2, <2>5, <4>2, OKSound DEF Open, Idle
        <5> QED  BY <5>1, IdleOK
      <4> QED  BY <2>2, <4>1, <4>2
    <3>2. ContextOK(y)
      BY <2>2, <2>3, <2>5, <3>1 DEF ContextOK, Agreed, ConverterOK, Open
    <3> QED  BY <2>1, <2>2, <2>3, <3>2 DEF Fine, Quiet
  <2> QED  BY <2>4, <2>5 DEF Ready
<1> QED  BY <1>2, <1>3, <1>4

\* Suggestions for the next composition, if the client asks for them.
LEMMA ZeroQueryFacts ==
  ASSUME NEW x, Ready(x), zero_query \/ Fine(x), NEW y \in ZeroQuerySuggested(x)
  PROVE /\ Fine(y) /\ y \in Contexts /\ y.output = x.output
        /\ Quiet(x) => Quiet(y)
<1>1. CASE zero_query
  <2>1. PICK r \in Suggested(x) : y = r.context  BY <1>1 DEF ZeroQuerySuggested
  <2> QED  BY <2>1, SuggestedFacts
<1>2. CASE ~zero_query
  <2>1. y = x  BY <1>2 DEF ZeroQuerySuggested
  <2> QED  BY <1>2, <2>1 DEF Ready, Open, Dead
<1> QED  BY <1>1, <1>2

\* A command that ends with suggestions.
LEMMA SuggestAndOutputHolds ==
  ASSUME SessionInv, NEW x, Ready(x), Quiet(x), NEW u, StackOK(u, x.output),
         SuggestAndOutput(x, u)
  PROVE SessionInv'
<1>1. PICK r \in Suggested(x) : Output(r.context, u) \/ OutputComposition(r.context, u)
  BY DEF SuggestAndOutput
<1>2. Fine(r.context) /\ Quiet(r.context) /\ r.context.output = x.output
  BY SuggestedFacts
<1>3. StackOK(u, r.context.output)  BY <1>2
<1> QED  BY <1>1, <1>2, <1>3, OutputHolds, OutputCompositionHolds

\* The converter is reset and the session goes back to PRECOMPOSITION or off.
LEMMA ResetContextFacts ==
  ASSUME NEW x, Usable(x), NEW st \in {"DIRECT", "PRECOMPOSITION"}
  PROVE LET y == SetSessionState([x EXCEPT !.conv = Reset(@)], st)
        IN  /\ y \in Contexts /\ Ready(y) /\ Fine(y) /\ Quiet(y) /\ Usable(y)
            /\ y.output = x.output
<1> DEFINE c == Reset(x.conv)
           w == [x EXCEPT !.conv = c]
           y == SetSessionState(w, st)
<1>1. (Idle(c) /\ c.result = 0) \/ (Ended(c) /\ x.strayed)
  BY ResetIdle, EndedStays DEF Usable
<1> HIDE DEF c
<1>2. c \in Converters  BY <1>1 DEF Idle, Sound, Ended
<1>3. w \in Contexts /\ w.conv = c /\ w.output = x.output /\ w.strayed = x.strayed
  BY <1>2, WithConv DEF Usable
<1> HIDE DEF w
<1>4. /\ y \in Contexts /\ y.conv = c /\ y.output = x.output /\ y.state = st
      /\ y.strayed = x.strayed /\ y.composer = 0
  BY <1>3, SetFacts
<1>5. y = SetSessionState([x EXCEPT !.conv = Reset(@)], st)  BY DEF w, c
<1> HIDE DEF y
<1>6. CASE Idle(c) /\ c.result = 0
  <2>1. ContextOK(y) /\ Open(y)  BY <1>4, <1>6, IdleContext
  <2> QED  BY <1>4, <1>5, <1>6, <2>1 DEF Ready, Fine, Quiet, Usable, Idle
<1>7. CASE Ended(c) /\ x.strayed
  BY <1>4, <1>5, <1>7 DEF Ready, Fine, Quiet, Usable, Dead
<1> QED  BY <1>1, <1>6, <1>7

\* A command that commits past the converter.
LEMMA CommitStringDirectlyHolds ==
  ASSUME SessionInv, NEW x, Usable(x), NEW u, NEW n,
         StackOK(Typed(u, n, TRUE), x.output), CommitStringDirectly(x, u, n)
  PROVE SessionInv'
<1> DEFINE w == SetSessionState([x EXCEPT !.conv = Reset(@)], "PRECOMPOSITION")
<1>1. Ready(w) /\ Fine(w) /\ w.output = x.output  BY ResetContextFacts
<1>2. PICK y \in ZeroQuerySuggested(w) : Output(y, Typed(u, n, TRUE))
  BY DEF CommitStringDirectly
<1> HIDE DEF w
<1>3. Fine(y) /\ y.output = w.output  BY <1>1, <1>2, ZeroQueryFacts
<1>4. StackOK(Typed(u, n, TRUE), y.output)  BY <1>1, <1>3
<1> QED  BY <1>2, <1>3, <1>4, OutputHolds

\* The composition is given up.
LEMMA CancelledFacts ==
  ASSUME NEW x, Usable(x)
  PROVE /\ Fine(SetStateToPrecompositionAndCancel(x))
        /\ SetStateToPrecompositionAndCancel(x).output = x.output
<1> DEFINE y == SetSessionState(x, "PRECOMPOSITION")
           c == Cancel(x.conv)
           z == [y EXCEPT !.conv = c]
<1>1. /\ y \in Contexts /\ y.conv = x.conv /\ y.state = "PRECOMPOSITION"
      /\ y.composer = 0 /\ y.output = x.output /\ y.strayed = x.strayed
  BY SetFacts DEF Usable
<1>2. SetStateToPrecompositionAndCancel(x) = IF x.conv.state = "COMPOSITION" THEN y ELSE z
  BY <1>1 DEF SetStateToPrecompositionAndCancel
<1> HIDE DEF y
<1>3. CASE x.conv.state = "COMPOSITION"
  <2>1. Sound(x.conv) => Fine(y)
    BY <1>1, <1>3, IdleContext DEF Idle, Fine
  <2>2. Ended(x.conv) /\ x.strayed => Fine(y)  BY <1>1 DEF Fine, Dead
  <2> QED  BY <1>1, <1>2, <1>3, <2>1, <2>2 DEF Usable
<1>4. CASE x.conv.state # "COMPOSITION"
  <2>1. x.conv \in Converters  BY DEF Usable, Sound, Ended
  <2>2. x.conv.state \in Active  BY <1>4, <2>1, Fields DEF Active
  <2>3. Idle(c) \/ (Ended(c) /\ x.strayed)
    <3>1. Ended(x.conv) => Ended(c)  BY <2>2, EndedStays DEF Cancel
    <3>2. Sound(x.conv) => Idle(c)  BY <2>2, CancelIdle
    <3> QED  BY <3>1, <3>2 DEF Usable
  <2> HIDE DEF c
  <2>4. c \in Converters  BY <2>3 DEF Idle, Sound, Ended
  <2>5. /\ z \in Contexts /\ z.conv = c /\ z.state = "PRECOMPOSITION" /\ z.composer = 0
        /\ z.output = x.output /\ z.strayed = x.strayed
    BY <1>1, <2>4, WithConv
  <2> HIDE DEF z
  <2>6. Fine(z)
    <3>1. Idle(c) => ContextOK(z)  BY <2>5, IdleContext
    <3> QED  BY <2>3, <2>5, <3>1 DEF Fine, Dead
  <2> QED  BY <1>2, <1>4, <2>5, <2>6
<1> QED  BY <1>3, <1>4

\* CommitInternal's contexts.  The converter must have a focused candidate to
\* commit while the session converts: only a session that strayed has none.
LEMMA CommittedFacts ==
  ASSUME NEW x, ContextOK(x), x.state \in {"COMPOSITION", "CONVERSION"},
         NEW y \in Committed(x)
  PROVE /\ y \in Contexts /\ Ready(y) /\ Fine(y) /\ Usable(y)
        /\ y.output = x.output /\ y.state = "PRECOMPOSITION" /\ y.composer = 0
        /\ y.conv.state \notin Focused \/ Dead(y)
        /\ y.conv.result \in 0 .. MaxLength
<1>1. /\ x \in Contexts /\ ConverterOK(x.conv, x.composer, x.strayed) /\ Sound(x.conv)
      /\ x.composer \in 0 .. MaxLength /\ x.conv \in Converters
  BY OKFacts, ContextFields
<1>2. PICK c \in IF x.state = "COMPOSITION" THEN {CommitPreedit(x.conv, x.composer)}
                 ELSE Commit(x.conv) :
        y = SetSessionState([x EXCEPT !.conv = c], "PRECOMPOSITION")
  BY DEF Committed
<1>3. Idle(c) \/ (Ended(c) /\ x.strayed)
  <2>1. CASE x.state = "COMPOSITION"  BY <1>1, <1>2, <2>1, CommitPreeditFacts
  <2>2. CASE x.state = "CONVERSION"
    <3>1. c \in Commit(x.conv)  BY <1>2, <2>2
    <3>2. x.conv.state \in Focused \/ x.strayed
      BY <2>2 DEF ContextOK, Agreed
    <3>3. x.conv.state \in Focused => Idle(c)  BY <1>1, <3>1, CommitFacts
    <3>4. x.conv.state \notin Focused => c = Aborted(x.conv)
      BY <1>1, <3>1, CommitFacts
    <3> QED  BY <1>1, <3>2, <3>3, <3>4, AbortedEnded
  <2> QED  BY <2>1, <2>2
<1>4. c \in Converters  BY <1>3 DEF Idle, Sound, Ended
<1> DEFINE w == [x EXCEPT !.conv = c]
<1>5. w \in Contexts /\ w.conv = c /\ w.output = x.output /\ w.strayed = x.strayed
  BY <1>1, <1>4, WithConv
<1>6. y = SetSessionState(w, "PRECOMPOSITION")  BY <1>2
<1> HIDE DEF w
<1>7. /\ y \in Contexts /\ y.conv = c /\ y.state = "PRECOMPOSITION" /\ y.composer = 0
      /\ y.output = x.output /\ y.strayed = x.strayed
  BY <1>5, <1>6, SetFacts
<1>8. y.conv.result \in 0 .. MaxLength  BY <1>4, <1>7, Fields
<1>9. CASE Idle(c)
  <2>1. ContextOK(y) /\ Open(y)  BY <1>7, <1>9, IdleContext
  <2> QED  BY <1>7, <1>8, <1>9, <2>1 DEF Ready, Fine, Usable, Idle, Focused
<1>10. CASE Ended(c) /\ x.strayed
  BY <1>7, <1>8, <1>10 DEF Ready, Fine, Usable, Dead
<1> QED  BY <1>3, <1>9, <1>10

\* Whatever a command may answer with can be reset.
LEMMA FineUsable ==
  ASSUME NEW x, Fine(x) PROVE Usable(x) /\ x \in Contexts
BY OKFacts DEF Fine, Dead, Usable

\* A step that strays claims less of the context it leaves.
LEMMA StrayFacts ==
  ASSUME NEW x, Fine(x)
  PROVE Fine(Strayed(x)) /\ Quiet(Strayed(x)) /\ Strayed(x).output = x.output
<1> DEFINE y == [x EXCEPT !.strayed = TRUE]
<1>1. x \in Contexts /\ y = Strayed(x)  BY FineUsable DEF Strayed
<1>2. /\ y \in Contexts /\ y.conv = x.conv /\ y.state = x.state
      /\ y.composer = x.composer /\ y.output = x.output /\ y.strayed = TRUE
  BY <1>1, WithStrayed
<1> HIDE DEF y
<1>3. Dead(x) => Dead(y)  BY <1>2 DEF Dead
<1>4. ASSUME ContextOK(x) PROVE ContextOK(y)
  <2>1. Shaped(x.conv, x.composer, x.strayed)  BY <1>4 DEF ContextOK, Agreed
  <2>2. Shaped(x.conv, x.composer, TRUE)  BY <2>1 DEF Shaped
  <2> QED  BY <1>2, <1>4, <2>2 DEF ContextOK, Agreed
<1> QED  BY <1>1, <1>2, <1>3, <1>4 DEF Fine, Quiet

\* The session's context for a converter with a focused candidate.
LEMMA ConvertingFacts ==
  ASSUME NEW x \in Contexts, NEW d, ConverterOK(d, x.composer, x.strayed),
         d.state \in Focused
  PROVE LET w == [x EXCEPT !.conv = d]
            v == SetSessionState(w, "CONVERSION")
        IN  /\ Fine(v) /\ v.output = x.output
            /\ x.state = "CONVERSION" => Fine(w) /\ w.output = x.output
<1> DEFINE w == [x EXCEPT !.conv = d]
           v == SetSessionState(w, "CONVERSION")
<1>1. d \in Converters  BY OKSound
<1>2. /\ w \in Contexts /\ w.conv = d /\ w.output = x.output /\ w.state = x.state
      /\ w.composer = x.composer /\ w.strayed = x.strayed
  BY <1>1, WithConv
<1> HIDE DEF w
<1>3. /\ v \in Contexts /\ v.conv = d /\ v.output = x.output /\ v.state = "CONVERSION"
      /\ v.composer = x.composer /\ v.strayed = x.strayed
  BY <1>2, SetFacts
<1> HIDE DEF v
<1>4. Fine(v)  BY <1>3 DEF Fine, ContextOK, Agreed, ConverterOK
<1>5. x.state = "CONVERSION" => Fine(w)
  BY <1>2 DEF Fine, ContextOK, Agreed, ConverterOK
<1> QED  BY <1>2, <1>3, <1>4, <1>5 DEF v, w

\* The session's context for a converter that has become idle.
LEMMA FailedFacts ==
  ASSUME NEW x, ContextOK(x), NEW d, Idle(d), NEW b \in BOOLEAN,
         b <=> x.strayed \/ x.state = "CONVERSION"
  PROVE LET y == [[x EXCEPT !.conv = d] EXCEPT !.strayed = b]
        IN  /\ Fine(y) /\ y.output = x.output
            /\ d.result \in {0, x.conv.result} /\ Quiet(x) => Quiet(y)
<1> DEFINE w == [x EXCEPT !.conv = d]
           y == [w EXCEPT !.strayed = b]
<1>1. x \in Contexts /\ d \in Converters  BY OKFacts DEF Idle, Sound
<1>2. /\ w \in Contexts /\ w.conv = d /\ w.output = x.output /\ w.state = x.state
      /\ w.composer = x.composer
  BY <1>1, WithConv
<1> HIDE DEF w
<1>3. /\ y \in Contexts /\ y.conv = d /\ y.output = x.output /\ y.state = x.state
      /\ y.composer = x.composer /\ y.strayed = b
  BY <1>2, WithStrayed
<1> HIDE DEF y
<1>4. ContextOK(y)
  <2>1. y.strayed \/ y.state # "CONVERSION"  BY <1>3
  <2>2. y.state \in {"DIRECT", "PRECOMPOSITION"} => y.strayed \/ y.composer = 0
    BY <1>3 DEF ContextOK, Agreed
  <2> QED  BY <1>3, <2>1, <2>2, IdleContext
<1>5. d.result \in {0, x.conv.result} /\ Quiet(x) => Quiet(y)  BY <1>3 DEF Quiet
<1> QED  BY <1>3, <1>4, <1>5 DEF Fine, w, y

\* Outside a conversion nothing needs to be remembered for that.
LEMMA FailedOutside ==
  ASSUME NEW x, ContextOK(x), x.state # "CONVERSION", NEW d, Idle(d)
  PROVE LET w == [x EXCEPT !.conv = d]
        IN  /\ Fine(w) /\ w.output = x.output
            /\ d.result \in {0, x.conv.result} /\ Quiet(x) => Quiet(w)
<1> DEFINE w == [x EXCEPT !.conv = d]
<1>1. x \in Contexts /\ d \in Converters  BY OKFacts DEF Idle, Sound
<1>2. /\ w \in Contexts /\ w.conv = d /\ w.output = x.output /\ w.state = x.state
      /\ w.composer = x.composer /\ w.strayed = x.strayed
  BY <1>1, WithConv
<1> HIDE DEF w
<1>3. ContextOK(w)
  <2>1. w.state \in {"DIRECT", "PRECOMPOSITION"} => w.strayed \/ w.composer = 0
    BY <1>2 DEF ContextOK, Agreed
  <2> QED  BY <1>2, <2>1, IdleContext
<1>4. d.result \in {0, x.conv.result} /\ Quiet(x) => Quiet(w)  BY <1>2 DEF Quiet
<1> QED  BY <1>2, <1>3, <1>4 DEF Fine, w

\* An assertion fails in a session that strayed.
LEMMA DeadContext ==
  ASSUME NEW x \in Contexts, x.strayed, NEW d, Ended(d)
  PROVE Fine([x EXCEPT !.conv = d]) /\ [x EXCEPT !.conv = d].output = x.output
<1>1. d \in Converters  BY DEF Ended
<1> QED  BY <1>1, WithConv DEF Fine, Dead

\* A context of a composition, whatever its length.
LEMMA ComposingFacts ==
  ASSUME NEW x, Fine(x), x.state # "CONVERSION", Quiet(x),
         NEW y \in Contexts, y.conv = x.conv, y.strayed = x.strayed
  PROVE LET z == SetSessionState(y, "COMPOSITION")
        IN  /\ z \in Contexts /\ Ready(z) /\ Quiet(z) /\ Usable(y)
            /\ z.conv = y.conv /\ z.output = y.output
            /\ z.composer = y.composer /\ z.state = "COMPOSITION"
<1> DEFINE z == SetSessionState(y, "COMPOSITION")
<1>1. /\ z \in Contexts /\ z.conv = y.conv /\ z.output = y.output
      /\ z.composer = y.composer /\ z.state = "COMPOSITION" /\ z.strayed = y.strayed
  BY SetFacts
<1> HIDE DEF z
<1>2. Dead(x) => Dead(z)  BY <1>1 DEF Dead
<1>3. ContextOK(x) => Open(z)
  <2>1. ContextOK(x) => Open(x)  BY OpenContext
  <2>2. Open(x) => ConverterOK(z.conv, z.composer, TRUE)
    BY <1>1, StrayedOK DEF Open
  <2> QED  BY <1>1, <2>1, <2>2 DEF Open
<1>4. Usable(x)  BY FineUsable
<1> QED  BY <1>1, <1>2, <1>3, <1>4 DEF Fine, Ready, Quiet, Usable, z

-----------------------------------------------------------------------------
(* The commands.                                                           *)

\* Turning the input method on.
LEMMA IMEOnHolds ==
  ASSUME SessionInv, IMEOn \/ CompositionMode PROVE SessionInv'
<1> DEFINE y == SetSessionState(context, "PRECOMPOSITION")
<1>1. context.conv.checked
  BY DEF IMEOn, CompositionMode, OutputComposition, Reply
<1>2. /\ context \in Contexts /\ Quiet(context) /\ ContextOK(context)
      /\ StackOK(undo_contexts, context.output)
  BY <1>1, InvFacts
<1>3. context.state = "DIRECT"  BY DEF IMEOn, CompositionMode, ImeIsOn
<1>4. /\ y \in Contexts /\ y.conv = context.conv /\ y.state = "PRECOMPOSITION"
      /\ y.composer = 0 /\ y.output = context.output /\ y.strayed = context.strayed
  BY <1>2, SetFacts
<1>5. OutputComposition(y, <<>>) \/ OutputComposition(y, undo_contexts)
  BY DEF IMEOn, CompositionMode
<1> HIDE DEF y
<1>6. Fine(y) /\ Quiet(y)
  <2>1. context.conv.state \notin Focused  BY <1>2, <1>3 DEF ContextOK, Agreed
  <2>2. ConverterOK(context.conv, context.composer, context.strayed)
    BY <1>2, OKFacts
  <2>3. ConverterOK(y.conv, y.composer, y.strayed)
    <3>1. CASE context.strayed = TRUE
      BY <1>4, <2>1, <2>2, <3>1, StrayedOK
    <3>2. CASE context.strayed # TRUE
      <4>1. context.composer = 0
        BY <1>2, <1>3, <3>2, ContextFields DEF ContextOK, Agreed
      <4> QED  BY <1>4, <2>2, <4>1
    <3> QED  BY <3>1, <3>2
  <2> QED  BY <1>2, <1>4, <2>1, <2>3 DEF Fine, ContextOK, Agreed, ConverterOK, Quiet
<1>7. StackOK(<<>>, y.output) /\ StackOK(undo_contexts, y.output)
  BY <1>2, <1>4, EmptyStack
<1> QED  BY <1>5, <1>6, <1>7, OutputCompositionHolds

\* Turning it off.
LEMMA IMEOffHolds ==
  ASSUME SessionInv, IMEOff PROVE SessionInv'
<1> DEFINE Off(x) == SetSessionState([x EXCEPT !.conv = Reset(@)], "DIRECT")
<1>1. context.conv.checked  BY DEF IMEOff, OutputComposition, Reply
<1>2. /\ context \in Contexts /\ ContextOK(context) /\ Settled(context)
      /\ Usable(context)
  BY <1>1, InvFacts
<1>3. CASE Composing \/ Converting
  <2>1. PICK x \in Committed(context) : \E y \in ZeroQuerySuggested(x) :
          OutputComposition(
            Off([y EXCEPT !.output = x.conv.result]),
            Typed(PushUndoContext(<<>>, context), x.conv.result, FALSE))
    BY <1>3 DEF IMEOff
  <2> DEFINE n == x.conv.result
  <2>2. PICK y \in ZeroQuerySuggested(x) :
          OutputComposition(Off([y EXCEPT !.output = n]),
                            Typed(PushUndoContext(<<>>, context), n, FALSE))
    BY <2>1
  <2>3. Ready(x) /\ Fine(x) /\ n \in 0 .. MaxLength
    BY <1>2, <1>3, CommittedFacts DEF Composing, Converting
  <2> HIDE DEF n
  <2>4. Usable(y) /\ y \in Contexts  BY <2>3, ZeroQueryFacts, FineUsable
  <2> DEFINE w == [y EXCEPT !.output = n]
             z == Off(w)
             p == Typed(PushUndoContext(<<>>, context), n, FALSE)
  <2>5. OutputComposition(z, p)  BY <2>2
  <2>6. /\ w \in Contexts /\ w.conv = y.conv /\ w.output = n
        /\ w.strayed = y.strayed
    BY <2>3, <2>4, WithOutput
  <2> HIDE DEF w
  <2>7. Fine(z) /\ Quiet(z) /\ z.output = n
    <3>1. Usable(w)  BY <2>4, <2>6 DEF Usable
    <3> QED  BY <2>6, <3>1, ResetContextFacts
  <2>8. StackOK(p, n)
    BY <1>2, <2>3, EmptyStack, PushTypedOK
  <2> HIDE DEF z, p
  <2>9. StackOK(p, z.output)  BY <2>7, <2>8
  <2> QED  BY <2>5, <2>7, <2>9, OutputCompositionHolds
<1>4. CASE ~(Composing \/ Converting)
  <2> DEFINE z == Off(context)
  <2>1. OutputComposition(z, <<>>)  BY <1>4 DEF IMEOff
  <2>2. Fine(z) /\ Quiet(z)  BY <1>2, ResetContextFacts
  <2> HIDE DEF z
  <2> QED  BY <2>1, <2>2, EmptyStack, OutputCompositionHolds
<1> QED  BY <1>3, <1>4

\* A key for the application.
LEMMA EchoBackHolds ==
  ASSUME SessionInv, EchoBack PROVE SessionInv'
<1> DEFINE c == Reset(context.conv)
           b == context.strayed \/ Converting
           y == [context EXCEPT !.conv = Reset(@), !.strayed = @ \/ Converting]
           z == [[context EXCEPT !.conv = c] EXCEPT !.strayed = b]
<1>1. PICK u \in {<<>>, undo_contexts} : OutputComposition(y, u)
  BY DEF EchoBack
<1>2. context.conv.checked  BY <1>1 DEF OutputComposition, Reply
<1>3. /\ context \in Contexts /\ ContextOK(context) /\ Quiet(context)
      /\ Sound(context.conv) /\ StackOK(undo_contexts, context.output)
  BY <1>2, InvFacts
<1>4. Idle(c) /\ c.result = 0  BY <1>3, ResetIdle
<1>5. y = z  OBVIOUS
<1>6. b \in BOOLEAN /\ (b <=> context.strayed \/ context.state = "CONVERSION")
  BY DEF Converting
<1> HIDE DEF b, c
<1>7. Fine(z) /\ z.output = context.output /\ Quiet(z)
  BY <1>3, <1>4, <1>6, FailedFacts
<1> HIDE DEF y, z
<1>8. StackOK(u, y.output)  BY <1>1, <1>3, <1>5, <1>7, EmptyStack
<1> QED  BY <1>1, <1>5, <1>7, <1>8, OutputCompositionHolds

\* Commands that show what there is, or take suggestions away.
LEMMA DoNothingHolds ==
  ASSUME SessionInv, DoNothing \/ RequestUndo \/ StopKeyToggling PROVE SessionInv'
<1> DEFINE c == Reset(context.conv)
           y == [context EXCEPT !.conv = c]
<1>1. \/ context.state # "CONVERSION" /\ Output(y, undo_contexts)
      \/ Output(context, undo_contexts) \/ Output(context, <<>>)
  BY DEF DoNothing, RequestUndo, StopKeyToggling
<1>2. context.conv.checked  BY <1>1 DEF Output, Reply
<1>3. /\ ContextOK(context) /\ Sound(context.conv)
      /\ StackOK(undo_contexts, context.output)
  BY <1>2, InvFacts
<1>4. Idle(c)  BY <1>3, ResetIdle
<1> HIDE DEF c
<1>5. context.state # "CONVERSION" => Fine(y) /\ y.output = context.output
  BY <1>3, <1>4, FailedOutside
<1> HIDE DEF y
<1>6. Fine(context)  BY <1>3 DEF Fine
<1>7. CASE Output(context, undo_contexts)  BY <1>3, <1>6, <1>7, OutputHolds
<1>8. CASE Output(context, <<>>)  BY <1>6, <1>8, EmptyStack, OutputHolds
<1>9. CASE context.state # "CONVERSION" /\ Output(y, undo_contexts)
  <2>1. StackOK(undo_contexts, y.output)  BY <1>3, <1>5, <1>9
  <2> QED  BY <1>5, <1>9, <2>1, OutputHolds
<1> QED  BY <1>1, <1>7, <1>8, <1>9

\* Giving up what is composed.
LEMMA RevertHolds ==
  ASSUME SessionInv, Revert \/ ResetContext PROVE SessionInv'
<1>1. context.conv.checked  BY DEF Revert, ResetContext, Output, Reply
<1>2. context \in Contexts /\ Sound(context.conv) /\ Usable(context)
  BY <1>1, InvFacts
<1> DEFINE c == Reset(context.conv)
           w == [context EXCEPT !.conv = c]
<1>3. Idle(c)  BY <1>2, ResetIdle
<1> HIDE DEF c
<1>4. c \in Converters /\ Sound(c)  BY <1>3 DEF Idle, Sound
<1>5. w \in Contexts /\ w.conv = c  BY <1>2, <1>4, WithConv
<1>6. [context EXCEPT !.conv = Reset(@)] = w  BY DEF c
<1> HIDE DEF w
<1>7. Usable(w)  BY <1>4, <1>5 DEF Usable
<1>8. \E x \in {context, w} : Output(SetStateToPrecompositionAndCancel(x), <<>>)
  BY <1>6 DEF Revert, ResetContext
<1>9. \A x \in {context, w} : Fine(SetStateToPrecompositionAndCancel(x))
  BY <1>2, <1>7, CancelledFacts
<1> QED  BY <1>8, <1>9, EmptyStack, OutputHolds

\* Convert, from any context but one with predictions.
LEMMA ConvertedFacts ==
  ASSUME NEW x \in Contexts,
         (Sound(x.conv) /\ x.conv.state # "PREDICTION") \/ Dead(x),
         NEW r \in Convert(x.conv, x.composer)
  PROVE LET w == [x EXCEPT !.conv = r.conv]
            v == SetSessionState(w, "CONVERSION")
        IN  /\ r.ok => Fine(v) /\ v.output = x.output
            /\ ~r.ok /\ x.state = "COMPOSITION" =>
                 /\ Fine(w) /\ w.output = x.output
                 /\ Quiet(x) => Quiet(w)
            /\ ~r.ok => Fine(Strayed(w)) /\ Quiet(Strayed(w))
<1> DEFINE d == r.conv
           w == [x EXCEPT !.conv = d]
           v == SetSessionState(w, "CONVERSION")
<1>1. /\ x.composer \in 0 .. MaxLength /\ x.strayed \in BOOLEAN  BY ContextFields
<1>2. \/ /\ d.result = x.conv.result
         /\ r.ok => ConverterOK(d, x.composer, x.strayed) /\ d.state = "CONVERSION"
         /\ ~r.ok => Idle(d)
      \/ Ended(d) /\ x.strayed
  <2>1. CASE Dead(x)
    <3>1. Ended(d) /\ x.strayed  BY <1>1, <2>1, EndedMethods DEF Dead
    <3> QED  BY <3>1
  <2>2. CASE Sound(x.conv) /\ x.conv.state # "PREDICTION"
    <3> DEFINE t == x.strayed  n == x.composer
    <3>1. t \in BOOLEAN /\ n \in 0 .. MaxLength /\ r \in Convert(x.conv, n)
      BY <1>1
    <3> HIDE DEF t, n
    <3>2. /\ d.result = x.conv.result
          /\ r.ok => ConverterOK(d, n, t) /\ d.state = "CONVERSION"
          /\ ~r.ok => Idle(d)
      BY <2>2, <3>1, ConvertFacts
    <3> QED  BY <3>2 DEF t, n
  <2> QED  BY <2>1, <2>2
<1> HIDE DEF d
<1>3. CASE Ended(d) /\ x.strayed
  <2>1. d \in Converters  BY <1>3 DEF Ended
  <2>2. /\ w \in Contexts /\ w.conv = d /\ w.output = x.output
        /\ w.strayed = x.strayed
    BY <2>1, WithConv
  <2> HIDE DEF w
  <2>3. v \in Contexts /\ v.conv = d /\ v.output = x.output /\ v.strayed = x.strayed
    BY <2>2, SetFacts
  <2> HIDE DEF v
  <2>4. Fine(v) /\ Fine(w) /\ Quiet(w)  BY <1>3, <2>2, <2>3 DEF Fine, Dead, Quiet
  <2> QED  BY <2>2, <2>3, <2>4, StrayFacts DEF d, w, v
<1>4. ASSUME r.ok, ConverterOK(d, x.composer, x.strayed), d.state = "CONVERSION"
      PROVE Fine(v) /\ v.output = x.output
  <2>1. d.state \in Focused  BY <1>4 DEF Focused
  <2> QED  BY <1>4, <2>1, ConvertingFacts
<1>5. ASSUME ~r.ok, Idle(d), d.result = x.conv.result
      PROVE /\ x.state = "COMPOSITION" => /\ Fine(w) /\ w.output = x.output
                                          /\ Quiet(x) => Quiet(w)
            /\ Fine(Strayed(w)) /\ Quiet(Strayed(w))
  <2>1. d \in Converters  BY <1>5 DEF Idle, Sound
  <2>2. /\ w \in Contexts /\ w.conv = d /\ w.output = x.output
        /\ w.strayed = x.strayed /\ w.state = x.state
    BY <2>1, WithConv
  <2> HIDE DEF w
  <2>3. x.state = "COMPOSITION" => Fine(w)
    BY <1>5, <2>2, IdleContext DEF Fine
  <2> DEFINE y == [w EXCEPT !.strayed = TRUE]
  <2>4. y = Strayed(w)  BY DEF Strayed
  <2>5. y \in Contexts /\ y.conv = d /\ y.strayed = TRUE  BY <2>2, WithStrayed
  <2> HIDE DEF y
  <2>6. Fine(y) /\ Quiet(y)  BY <1>5, <2>5, IdleContext DEF Fine, Quiet
  <2>7. Quiet(x) => Quiet(w)  BY <1>5, <2>2 DEF Quiet
  <2> QED  BY <2>2, <2>3, <2>4, <2>6, <2>7
<1> HIDE DEF w, v
<1>6. CASE /\ d.result = x.conv.result
           /\ r.ok => ConverterOK(d, x.composer, x.strayed) /\ d.state = "CONVERSION"
           /\ ~r.ok => Idle(d)
  BY <1>4, <1>5, <1>6 DEF d, w, v
<1> QED  BY <1>2, <1>3, <1>6

\* What a character is added to: the composition, or nothing once the
\* conversion is committed.
LEMMA InsertedFacts ==
  ASSUME SessionInv, context.conv.checked,
         NEW x \in IF Converting THEN Committed(context) ELSE {context},
         NEW w, w = IF Converting
                    THEN [x EXCEPT !.conv = PopOutput(@), !.output = x.conv.result]
                    ELSE x
  PROVE w \in Contexts /\ Fine(w) /\ w.state # "CONVERSION" /\ Quiet(w)
<1>1. ContextOK(context) /\ Quiet(context) /\ context \in Contexts  BY InvFacts
<1>2. CASE ~Converting  BY <1>1, <1>2 DEF Fine, Converting
<1>3. CASE Converting
  <2> DEFINE n == x.conv.result
             y == [x EXCEPT !.conv = PopOutput(@)]
             z == [y EXCEPT !.output = n]
  <2>1. Fine(x) /\ x.state = "PRECOMPOSITION" /\ n \in 0 .. MaxLength
    BY <1>1, <1>3, CommittedFacts DEF Converting
  <2>2. y \in Contexts /\ (Dead(y) \/ Settled(y)) /\ y.state = x.state
    BY <2>1, PoppedFacts
  <2>3. w = z  BY <1>3
  <2> HIDE DEF n, y
  <2>4. /\ z \in Contexts /\ z.conv = y.conv /\ z.state = y.state
        /\ z.composer = y.composer /\ z.strayed = y.strayed
    BY <2>1, <2>2, WithOutput
  <2> HIDE DEF z
  <2>5. Dead(y) => Dead(z) /\ Quiet(z)  BY <2>4 DEF Dead, Quiet
  <2>6. Settled(y) => ContextOK(z) /\ Quiet(z)
    BY <2>4 DEF Settled, ContextOK, Agreed, Quiet
  <2> QED  BY <2>1, <2>2, <2>3, <2>4, <2>5, <2>6 DEF Fine
<1> QED  BY <1>2, <1>3

\* A character is typed.
LEMMA InsertCharacterHolds ==
  ASSUME SessionInv, InsertCharacter PROVE SessionInv'
<1>1. PICK x \in IF Converting THEN Committed(context) ELSE {context} :
       LET y == [IF Converting
                 THEN [x EXCEPT !.conv = PopOutput(@), !.output = x.conv.result]
                 ELSE x EXCEPT !.composer = @ + 1]
           z == SetSessionState(y, "COMPOSITION")
       IN  /\ y.composer <= MaxLength
           /\ \/ CommitStringDirectly(y, <<>>, y.composer)
              \/ SuggestAndOutput(z, <<>>)
              \/ \E r \in Convert(z.conv, z.composer) :
                   LET w == [z EXCEPT !.conv = r.conv]
                   IN  IF r.ok THEN Output(SetSessionState(w, "CONVERSION"), <<>>)
                       ELSE OutputComposition(w, <<>>)
  BY DEF InsertCharacter
<1> DEFINE w == IF Converting
                THEN [x EXCEPT !.conv = PopOutput(@), !.output = x.conv.result]
                ELSE x
           y == [w EXCEPT !.composer = @ + 1]
           z == SetSessionState(y, "COMPOSITION")
<1>2. /\ y.composer <= MaxLength
      /\ \/ CommitStringDirectly(y, <<>>, y.composer)
         \/ SuggestAndOutput(z, <<>>)
         \/ \E r \in Convert(z.conv, z.composer) :
              IF r.ok
              THEN Output(SetSessionState([z EXCEPT !.conv = r.conv], "CONVERSION"), <<>>)
              ELSE OutputComposition([z EXCEPT !.conv = r.conv], <<>>)
  BY <1>1
<1>3. context.conv.checked
  BY <1>2 DEF CommitStringDirectly, SuggestAndOutput, Output, OutputComposition, Reply
<1>4. w \in Contexts /\ Fine(w) /\ w.state # "CONVERSION" /\ Quiet(w)
  BY <1>1, <1>3, InsertedFacts
<1> HIDE DEF w
<1>5. y \in Contexts /\ y.conv = w.conv /\ y.strayed = w.strayed
  <2> DEFINE n == w.composer + 1
  <2>1. w.composer \in 0 .. MaxLength  BY <1>4, ContextFields
  <2>2. n \in Nat /\ y = [w EXCEPT !.composer = n]  BY <2>1, SessionAssumption
  <2>3. y.composer = n  BY <1>4, <2>2 DEF Contexts
  <2>4. n \in 0 .. MaxLength
    <3>1. n <= MaxLength  BY <1>2, <2>3
    <3> HIDE DEF n
    <3> QED  BY <2>2, <3>1, SessionAssumption
  <2> HIDE DEF n
  <2> QED  BY <1>4, <2>2, <2>4, WithComposer
<1> HIDE DEF y
<1>6. /\ z \in Contexts /\ Ready(z) /\ Quiet(z) /\ Usable(y)
      /\ z.state = "COMPOSITION"
  BY <1>4, <1>5, ComposingFacts
<1> HIDE DEF z
<1>7. CASE CommitStringDirectly(y, <<>>, y.composer)
  <2>1. StackOK(Typed(<<>>, y.composer, TRUE), y.output)
    BY TypedNothing, EmptyStack
  <2> QED  BY <1>6, <1>7, <2>1, CommitStringDirectlyHolds
<1>8. CASE SuggestAndOutput(z, <<>>)
  BY <1>6, <1>8, EmptyStack, SuggestAndOutputHolds
<1>9. ASSUME NEW r \in Convert(z.conv, z.composer),
             IF r.ok
             THEN Output(SetSessionState([z EXCEPT !.conv = r.conv], "CONVERSION"), <<>>)
             ELSE OutputComposition([z EXCEPT !.conv = r.conv], <<>>)
      PROVE SessionInv'
  <2> DEFINE d == [z EXCEPT !.conv = r.conv]
             v == SetSessionState(d, "CONVERSION")
  <2>1. (Sound(z.conv) /\ z.conv.state # "PREDICTION") \/ Dead(z)
    BY <1>6, OKSound DEF Ready, Open, Focused
  <2>2. (r.ok => Fine(v)) /\ (~r.ok => Fine(d) /\ Quiet(d))
    BY <1>6, <1>9, <2>1, ConvertedFacts
  <2>3. IF r.ok THEN Output(v, <<>>) ELSE OutputComposition(d, <<>>)  BY <1>9
  <2> HIDE DEF d, v
  <2> QED  BY <2>2, <2>3, EmptyStack, OutputHolds, OutputCompositionHolds
<1> QED  BY <1>2, <1>7, <1>8, <1>9

\* Handwriting, moves of the cursor.
LEMMA UpdateCompositionHolds ==
  ASSUME SessionInv, UpdateComposition \/ MoveCursor PROVE SessionInv'
<1>1. context.conv.checked
  BY DEF UpdateComposition, MoveCursor, SuggestAndOutput, Output, OutputComposition, Reply
<1>2. /\ context \in Contexts /\ ContextOK(context) /\ Quiet(context)
  BY <1>1, InvFacts
<1>3. context.state # "CONVERSION"  BY DEF UpdateComposition, MoveCursor, Composing
<1>4. CASE UpdateComposition
  <2>1. PICK n \in 1 .. MaxLength :
          SuggestAndOutput(SetSessionState([context EXCEPT !.composer = n, !.source = 0],
                                           "COMPOSITION"), <<>>)
    BY <1>4 DEF UpdateComposition
  <2> DEFINE x == [context EXCEPT !.composer = n, !.source = 0]
             z == SetSessionState(x, "COMPOSITION")
  <2>2. n \in 0 .. MaxLength /\ 0 \in 0 .. 1  BY SessionAssumption
  <2>3. x \in Contexts /\ x.conv = context.conv /\ x.strayed = context.strayed
    BY <1>2, <2>2 DEF Contexts
  <2>4. SuggestAndOutput(z, <<>>)  BY <2>1
  <2> HIDE DEF x
  <2>5. Ready(z) /\ Quiet(z)
    BY <1>2, <1>3, <2>3, ComposingFacts DEF Fine
  <2> HIDE DEF z
  <2> QED  BY <2>4, <2>5, EmptyStack, SuggestAndOutputHolds
<1>5. CASE MoveCursor
  <2>1. Ready(context)  BY <1>2, <1>3, OpenContext DEF Ready
  <2> QED  BY <1>2, <1>5, <2>1, EmptyStack, SuggestAndOutputHolds DEF MoveCursor
<1> QED  BY <1>4, <1>5

\* A character is deleted.
LEMMA BackspaceHolds ==
  ASSUME SessionInv, Backspace PROVE SessionInv'
<1>1. PICK n \in {context.composer, context.composer - 1} \cap Nat :
        LET x == [context EXCEPT !.composer = n]
        IN  IF n = 0 THEN Output(SetStateToPrecompositionAndCancel(x), <<>>)
            ELSE SuggestAndOutput(x, <<>>)
  BY DEF Backspace
<1> DEFINE x == [context EXCEPT !.composer = n]
<1>2. IF n = 0 THEN Output(SetStateToPrecompositionAndCancel(x), <<>>)
      ELSE SuggestAndOutput(x, <<>>)
  BY <1>1
<1>3. context.conv.checked
  BY <1>2 DEF SuggestAndOutput, Output, OutputComposition, Reply
<1>4. /\ context \in Contexts /\ ContextOK(context) /\ Quiet(context)
      /\ Usable(context) /\ context.composer \in 0 .. MaxLength
  BY <1>3, InvFacts
<1>5. context.state = "COMPOSITION"  BY DEF Backspace, Composing
<1>6. n \in 0 .. MaxLength  BY <1>1, <1>4, SessionAssumption
<1>7. /\ x \in Contexts /\ x.conv = context.conv /\ x.state = "COMPOSITION"
      /\ x.composer = n /\ x.strayed = context.strayed
  BY <1>4, <1>5, <1>6, WithComposer
<1> HIDE DEF x
<1>8. Usable(x) /\ Quiet(x)  BY <1>4, <1>7 DEF Usable, Quiet
<1>9. CASE n = 0
  <2>1. Fine(SetStateToPrecompositionAndCancel(x))  BY <1>8, CancelledFacts
  <2> QED  BY <1>2, <1>9, <2>1, EmptyStack, OutputHolds
<1>10. CASE n # 0
  <2>1. Open(context)  BY <1>4, <1>5, OpenContext
  <2>2. Open(x)  BY <1>7, <2>1, StrayedOK DEF Open
  <2> QED  BY <1>2, <1>8, <1>10, <2>2, EmptyStack, SuggestAndOutputHolds DEF Ready
<1> QED  BY <1>9, <1>10

\* The composition is cancelled; a text read back is given back.
LEMMA EditCancelHolds ==
  ASSUME SessionInv, EditCancel PROVE SessionInv'
<1> DEFINE w == SetSessionState([context EXCEPT !.conv = Reset(@)], "PRECOMPOSITION")
           u == Typed(undo_contexts, context.source, TRUE)
<1>1. PICK x \in IF context.source = 0 THEN {context} ELSE ZeroQuerySuggested(w) :
        Output(SetStateToPrecompositionAndCancel(x), u)
  BY DEF EditCancel
<1>2. context.conv.checked  BY <1>1 DEF Output, Reply
<1>3. /\ context \in Contexts /\ Usable(context)
      /\ StackOK(undo_contexts, context.output)
  BY <1>2, InvFacts
<1>4. StackOK(u, context.output)
  <2>1. context.source \in Int  BY <1>3, ContextFields
  <2> QED  BY <1>3, <2>1, TypedDirectOK
<1>5. Ready(w) /\ Fine(w) /\ w.output = context.output
  BY <1>3, ResetContextFacts
<1> HIDE DEF w, u
<1>6. Usable(x) /\ x.output = context.output
  <2>1. CASE context.source = 0  BY <1>1, <1>3, <2>1
  <2>2. CASE context.source # 0
    <3>1. Fine(x) /\ x.output = w.output
      BY <1>1, <1>5, <2>2, ZeroQueryFacts
    <3> QED  BY <1>5, <3>1, FineUsable
  <2> QED  BY <2>1, <2>2
<1> DEFINE z == SetStateToPrecompositionAndCancel(x)
<1>7. Fine(z) /\ z.output = context.output  BY <1>6, CancelledFacts
<1>8. Output(z, u)  BY <1>1
<1> HIDE DEF z
<1>9. StackOK(u, z.output)  BY <1>4, <1>7
<1> QED  BY <1>7, <1>8, <1>9, OutputHolds

\* So is it when the input method is turned off.
LEMMA EditCancelAndIMEOffHolds ==
  ASSUME SessionInv, EditCancelAndIMEOff PROVE SessionInv'
<1> DEFINE w == SetSessionState([context EXCEPT !.conv = Reset(@)], "DIRECT")
<1>1. Output(w, <<>>)  BY DEF EditCancelAndIMEOff
<1>2. context.conv.checked  BY <1>1 DEF Output, Reply
<1>3. Usable(context)  BY <1>2, InvFacts
<1>4. Fine(w)  BY <1>3, ResetContextFacts
<1> HIDE DEF w
<1> QED  BY <1>1, <1>4, EmptyStack, OutputHolds

\* A conversion from the composition.
LEMMA ConvertCompositionHolds ==
  ASSUME SessionInv, ConvertComposition PROVE SessionInv'
<1>1. PICK r \in Convert(context.conv, context.composer) :
        LET x == [context EXCEPT !.conv = r.conv]
        IN  IF r.ok THEN Output(SetSessionState(x, "CONVERSION"), undo_contexts)
            ELSE OutputComposition(x, undo_contexts)
  BY DEF ConvertComposition
<1> DEFINE w == [context EXCEPT !.conv = r.conv]
           v == SetSessionState(w, "CONVERSION")
<1>2. IF r.ok THEN Output(v, undo_contexts) ELSE OutputComposition(w, undo_contexts)
  BY <1>1
<1>3. context.conv.checked  BY <1>2 DEF Output, OutputComposition, Reply
<1>4. /\ ContextOK(context) /\ Quiet(context) /\ context \in Contexts
      /\ Sound(context.conv) /\ StackOK(undo_contexts, context.output)
  BY <1>3, InvFacts
<1>5. context.state = "COMPOSITION"  BY DEF ConvertComposition, Composing
<1>6. context.conv.state # "PREDICTION"  BY <1>4, <1>5 DEF ContextOK, Agreed, Focused
<1>7. /\ r.ok => Fine(v) /\ v.output = context.output
      /\ ~r.ok => Fine(w) /\ Quiet(w) /\ w.output = context.output
  BY <1>4, <1>5, <1>6, ConvertedFacts
<1> HIDE DEF w, v
<1>8. /\ r.ok => StackOK(undo_contexts, v.output)
      /\ ~r.ok => StackOK(undo_contexts, w.output)
  BY <1>4, <1>7
<1> QED  BY <1>2, <1>7, <1>8, OutputHolds, OutputCompositionHolds

\* A conversion to kana or letters.
LEMMA TransliterateHolds ==
  ASSUME SessionInv, Transliterate PROVE SessionInv'
<1> DEFINE b == context.strayed \/ Converting
<1>1. PICK r \in ConvertToTransliteration(context.conv, context.composer) :
        LET x == [context EXCEPT !.conv = r.conv]
        IN  IF r.ok THEN Output(SetSessionState(x, "CONVERSION"), undo_contexts)
            ELSE OutputComposition([x EXCEPT !.strayed = @ \/ Converting], undo_contexts)
  BY DEF Transliterate
<1> DEFINE d == r.conv
           w == [context EXCEPT !.conv = d]
           v == SetSessionState(w, "CONVERSION")
           y == [w EXCEPT !.strayed = @ \/ Converting]
           z == [[context EXCEPT !.conv = d] EXCEPT !.strayed = b]
<1>2. /\ r.ok => Output(v, undo_contexts)
      /\ ~r.ok => OutputComposition(y, undo_contexts)
  BY <1>1
<1>3. context.conv.checked  BY <1>2 DEF Output, OutputComposition, Reply
<1>4. /\ ContextOK(context) /\ Quiet(context) /\ context \in Contexts
      /\ StackOK(undo_contexts, context.output) /\ context.composer \in 0 .. MaxLength
      /\ ConverterOK(context.conv, context.composer, context.strayed)
      /\ context.strayed \in BOOLEAN
  BY <1>3, InvFacts
<1>5. /\ d.result \in {0, context.conv.result}
      /\ r.ok => /\ ConverterOK(d, context.composer, context.strayed)
                 /\ d.state = "CONVERSION"
      /\ ~r.ok => Idle(d)
  <2> DEFINE t == context.strayed  n == context.composer
  <2>1. t \in BOOLEAN /\ n \in 0 .. MaxLength /\ ConverterOK(context.conv, n, t)
        /\ r \in ConvertToTransliteration(context.conv, n)
    BY <1>1, <1>4
  <2> HIDE DEF t, n
  <2>2. /\ d.result \in {0, context.conv.result}
        /\ r.ok => ConverterOK(d, n, t) /\ d.state = "CONVERSION"
        /\ ~r.ok => Idle(d)
    BY <2>1, TransliterationFacts
  <2> QED  BY <2>2 DEF t, n
<1> HIDE DEF d
<1>6. CASE r.ok
  <2>1. Fine(v) /\ v.output = context.output
    BY <1>4, <1>5, <1>6, ConvertingFacts DEF Focused
  <2> HIDE DEF v
  <2>2. StackOK(undo_contexts, v.output)  BY <1>4, <2>1
  <2> QED  BY <1>2, <1>6, <2>1, <2>2, OutputHolds
<1>7. CASE ~r.ok
  <2>1. y = z
    <3>1. w.strayed = context.strayed
      <4>1. d \in Converters  BY <1>5, <1>7 DEF Idle, Sound
      <4> QED  BY <1>4, <4>1, WithConv
    <3> HIDE DEF w
    <3>2. y = [w EXCEPT !.strayed = b]  BY <3>1
    <3> QED  BY <3>2 DEF w
  <2>2. b \in BOOLEAN /\ (b <=> context.strayed \/ context.state = "CONVERSION")
    BY DEF Converting
  <2> HIDE DEF b, y
  <2>3. Fine(z) /\ z.output = context.output /\ Quiet(z)
    BY <1>4, <1>5, <1>7, <2>2, FailedFacts
  <2> HIDE DEF z
  <2>4. StackOK(undo_contexts, y.output)  BY <1>4, <2>1, <2>3
  <2> QED  BY <1>2, <1>7, <2>1, <2>3, <2>4, OutputCompositionHolds
<1> QED  BY <1>6, <1>7

\* A prediction.
LEMMA PredictAndConvertHolds ==
  ASSUME SessionInv, PredictAndConvert PROVE SessionInv'
<1>1. PICK r \in Predict(context.conv, context.composer) :
        LET x == [context EXCEPT !.conv = r.conv]
        IN  IF r.ok THEN Output(SetSessionState(x, "CONVERSION"), undo_contexts)
            ELSE OutputComposition(x, undo_contexts)
  BY DEF PredictAndConvert
<1> DEFINE d == r.conv
           w == [context EXCEPT !.conv = d]
           v == SetSessionState(w, "CONVERSION")
<1>2. /\ r.ok => Output(v, undo_contexts)
      /\ ~r.ok => OutputComposition(w, undo_contexts)
  BY <1>1
<1>3. context.conv.checked  BY <1>2 DEF Output, OutputComposition, Reply
<1>4. /\ ContextOK(context) /\ context \in Contexts /\ Quiet(context)
      /\ StackOK(undo_contexts, context.output) /\ context.composer \in 0 .. MaxLength
      /\ ConverterOK(context.conv, context.composer, context.strayed)
  BY <1>3, InvFacts
<1>5. context.state # "CONVERSION"  BY DEF PredictAndConvert, Composing
<1>6. context.conv.state \notin Focused  BY <1>4, <1>5 DEF ContextOK, Agreed
<1>7. /\ d.result = 0
      /\ r.ok => /\ ConverterOK(d, context.composer, context.strayed)
                 /\ d.state = "PREDICTION"
      /\ ~r.ok => Idle(d)
  <2> DEFINE t == context.strayed  n == context.composer
  <2>1. /\ n \in 0 .. MaxLength /\ ConverterOK(context.conv, n, t)
        /\ r \in Predict(context.conv, n)
    BY <1>1, <1>4
  <2> HIDE DEF t, n
  <2>2. /\ d.result = 0
        /\ r.ok => ConverterOK(d, n, t) /\ d.state = "PREDICTION"
        /\ ~r.ok => Idle(d)
    BY <1>6, <2>1, PredictFacts
  <2> QED  BY <2>2 DEF t, n
<1> HIDE DEF d
<1>8. CASE r.ok
  <2>1. Fine(v) /\ v.output = context.output
    BY <1>4, <1>7, <1>8, ConvertingFacts DEF Focused
  <2> HIDE DEF v
  <2>2. StackOK(undo_contexts, v.output)  BY <1>4, <2>1
  <2> QED  BY <1>2, <1>8, <2>1, <2>2, OutputHolds
<1>9. CASE ~r.ok
  <2>1. Fine(w) /\ w.output = context.output /\ Quiet(w)
    BY <1>4, <1>5, <1>7, <1>9, FailedOutside
  <2> HIDE DEF w
  <2>2. StackOK(undo_contexts, w.output)  BY <1>4, <2>1
  <2> QED  BY <1>2, <1>9, <2>1, <2>2, OutputCompositionHolds
<1> QED  BY <1>8, <1>9

\* A candidate is selected.
LEMMA SelectCandidateHolds ==
  ASSUME SessionInv, SelectCandidate PROVE SessionInv'
<1>1. PICK d \in CandidateMoveToId(context.conv, context.composer) :
        Output(SetSessionState([context EXCEPT !.conv = d], "CONVERSION"), undo_contexts)
  BY DEF SelectCandidate
<1>2. context.conv.checked  BY <1>1 DEF Output, Reply
<1>3. /\ context \in Contexts
      /\ ConverterOK(context.conv, context.composer, context.strayed)
      /\ StackOK(undo_contexts, context.output) /\ context.composer \in 0 .. MaxLength
  BY <1>2, InvFacts
<1>4. context.conv.state \in Active  BY DEF SelectCandidate
<1>5. ConverterOK(d, context.composer, context.strayed) /\ d.state \in Focused
  <2> DEFINE t == context.strayed  n == context.composer
  <2>1. /\ n \in 0 .. MaxLength /\ ConverterOK(context.conv, n, t)
        /\ d \in CandidateMoveToId(context.conv, n)
    BY <1>1, <1>3
  <2> HIDE DEF t, n
  <2>2. ConverterOK(d, n, t) /\ d.state \in Focused
    BY <1>4, <2>1, CandidateMoveToIdFacts
  <2> QED  BY <2>2 DEF t, n
<1> DEFINE v == SetSessionState([context EXCEPT !.conv = d], "CONVERSION")
<1>6. Fine(v) /\ v.output = context.output  BY <1>3, <1>5, ConvertingFacts
<1>7. Output(v, undo_contexts)  BY <1>1
<1> HIDE DEF v
<1>8. StackOK(undo_contexts, v.output)  BY <1>3, <1>6
<1> QED  BY <1>6, <1>7, <1>8, OutputHolds

\* Moves during a conversion.  They assert a focused candidate.
LEMMA MovesHold ==
  ASSUME SessionInv, MoveCandidate \/ SegmentFocus \/ SegmentWidth PROVE SessionInv'
<1>1. context.conv.checked
  BY DEF MoveCandidate, SegmentFocus, SegmentWidth, Output, Reply
<1> DEFINE t == context.strayed  n == context.composer
<1>2. /\ context \in Contexts /\ ConverterOK(context.conv, n, t)
      /\ ContextOK(context) /\ context.conv \in Converters
      /\ StackOK(undo_contexts, context.output) /\ n \in 0 .. MaxLength
  BY <1>1, InvFacts
<1>3. context.state = "CONVERSION"
  BY DEF MoveCandidate, SegmentFocus, SegmentWidth, Converting
<1>4. context.conv.state \in Focused \/ t  BY <1>2, <1>3 DEF ContextOK, Agreed
<1> HIDE DEF t, n
<1>5. PICK d : /\ context.conv.state \in Focused =>
                    ConverterOK(d, n, t) /\ d.state = context.conv.state
               /\ context.conv.state \notin Focused => d = Aborted(context.conv)
               /\ Output([context EXCEPT !.conv = d], undo_contexts)
  <2>1. CASE MoveCandidate
    <3>1. PICK d \in CandidateNext(context.conv, n) :
            Output([context EXCEPT !.conv = d], undo_contexts)
      BY <2>1 DEF MoveCandidate, n
    <3>2. /\ context.conv.state \in Focused =>
               ConverterOK(d, n, t) /\ d.state = context.conv.state
          /\ context.conv.state \notin Focused => d = Aborted(context.conv)
      BY <1>2, CandidateNextFacts
    <3> QED  BY <3>1, <3>2
  <2>2. CASE SegmentFocus
    <3>1. PICK d \in {SegmentFocusRight(context.conv), SegmentFocusLeft(context.conv),
                      SegmentFocusLast(context.conv), SegmentFocusLeftEdge(context.conv)} :
            Output([context EXCEPT !.conv = d], undo_contexts)
      BY <2>2 DEF SegmentFocus
    <3>2. /\ context.conv.state \in Focused =>
               ConverterOK(d, n, t) /\ d.state = context.conv.state
          /\ context.conv.state \notin Focused => d = Aborted(context.conv)
      BY <1>2, SegmentFocusFacts
    <3> QED  BY <3>1, <3>2
  <2>3. CASE SegmentWidth
    <3>1. PICK delta \in {1, -1} : \E d \in ResizeSegmentWidth(context.conv, delta) :
            Output([context EXCEPT !.conv = d], undo_contexts)
      BY <2>3 DEF SegmentWidth
    <3>2. PICK d \in ResizeSegmentWidth(context.conv, delta) :
            Output([context EXCEPT !.conv = d], undo_contexts)
      BY <3>1
    <3>3. /\ context.conv.state \in Focused =>
               ConverterOK(d, n, t) /\ d.state = context.conv.state
          /\ context.conv.state \notin Focused => d = Aborted(context.conv)
      <4>1. delta \in Int  OBVIOUS
      <4> QED  BY <1>2, <4>1, ResizeFacts
    <3> QED  BY <3>2, <3>3
  <2> QED  BY <2>1, <2>2, <2>3
<1> DEFINE w == [context EXCEPT !.conv = d]
<1>6. Fine(w) /\ w.output = context.output
  <2>1. CASE context.conv.state \in Focused
    BY <1>2, <1>3, <1>5, <2>1, ConvertingFacts DEF t, n
  <2>2. CASE context.conv.state \notin Focused
    <3>1. Ended(d)  BY <1>2, <1>5, <2>2, AbortedEnded
    <3> QED  BY <1>2, <1>4, <2>2, <3>1, DeadContext DEF t
  <2> QED  BY <2>1, <2>2
<1>7. Output(w, undo_contexts)  BY <1>5
<1> HIDE DEF w
<1>8. StackOK(undo_contexts, w.output)  BY <1>2, <1>6
<1> QED  BY <1>6, <1>7, <1>8, OutputHolds

\* Back from the conversion to the composition.
LEMMA ConvertCancelHolds ==
  ASSUME SessionInv, ConvertCancel PROVE SessionInv'
<1> DEFINE d == Cancel(context.conv)
           w == [context EXCEPT !.conv = d]
           z == SetSessionState(w, "COMPOSITION")
<1>1. SuggestAndOutput(z, undo_contexts)  BY DEF ConvertCancel
<1>2. context.conv.checked
  BY <1>1 DEF SuggestAndOutput, Output, OutputComposition, Reply
<1>3. /\ context \in Contexts /\ Sound(context.conv) /\ ContextOK(context)
      /\ context.conv \in Converters /\ StackOK(undo_contexts, context.output)
  BY <1>2, InvFacts
<1>4. (Idle(d) /\ d.result = 0) \/ (Ended(d) /\ context.strayed)
  <2>1. CASE context.conv.state \in Active  BY <1>3, <2>1, CancelIdle
  <2>2. CASE context.conv.state \notin Active
    <3>1. Ended(d)  BY <1>3, <2>2, AbortedEnded DEF Cancel
    <3>2. context.conv.state \notin Focused
      BY <2>2 DEF Active, Focused, States
    <3>3. context.strayed
      BY <1>3, <3>2 DEF ConvertCancel, Converting, ContextOK, Agreed
    <3> QED  BY <3>1, <3>3
  <2> QED  BY <2>1, <2>2
<1> HIDE DEF d
<1>5. d \in Converters  BY <1>4 DEF Idle, Sound, Ended
<1>6. /\ w \in Contexts /\ w.conv = d /\ w.output = context.output
      /\ w.strayed = context.strayed
  BY <1>3, <1>5, WithConv
<1> HIDE DEF w
<1>7. /\ z \in Contexts /\ z.conv = d /\ z.output = context.output
      /\ z.state = "COMPOSITION" /\ z.strayed = context.strayed
  BY <1>6, SetFacts
<1> HIDE DEF z
<1>8. Ready(z) /\ Quiet(z)
  <2>1. Idle(d) => Open(z)  BY <1>7, IdleContext
  <2> QED  BY <1>4, <1>7, <2>1 DEF Ready, Dead, Quiet
<1>9. StackOK(undo_contexts, z.output)  BY <1>3, <1>7
<1> QED  BY <1>1, <1>8, <1>9, SuggestAndOutputHolds

\* A text of the application is read back.
LEMMA ConvertReverseHolds ==
  ASSUME SessionInv, ConvertReverse PROVE SessionInv'
<1>1. PICK n \in 1 .. MaxLength : \E r \in Convert(context.conv, n) :
        LET x == [context EXCEPT !.composer = n, !.source = 1, !.conv = r.conv]
        IN  IF r.ok THEN Output(SetSessionState(x, "CONVERSION"), <<>>)
            ELSE OutputComposition(Strayed(x), <<>>)
  BY DEF ConvertReverse
<1>2. PICK r \in Convert(context.conv, n) :
        LET x == [context EXCEPT !.composer = n, !.source = 1, !.conv = r.conv]
        IN  IF r.ok THEN Output(SetSessionState(x, "CONVERSION"), <<>>)
            ELSE OutputComposition(Strayed(x), <<>>)
  BY <1>1
<1> DEFINE y == [context EXCEPT !.composer = n, !.source = 1]
           w == [y EXCEPT !.conv = r.conv]
           v == SetSessionState(w, "CONVERSION")
<1>3. IF r.ok THEN Output(v, <<>>) ELSE OutputComposition(Strayed(w), <<>>)
  BY <1>2
<1>4. context.conv.checked  BY <1>3 DEF Output, OutputComposition, Reply
<1>5. context \in Contexts /\ Sound(context.conv) /\ ContextOK(context)
  BY <1>4, InvFacts
<1>6. context.conv.state # "PREDICTION"
  BY <1>5 DEF ConvertReverse, ContextOK, Agreed, Focused
<1>7. y \in Contexts /\ y.conv = context.conv /\ y.composer = n
  <2>1. n \in 0 .. MaxLength /\ 1 \in 0 .. 1  BY SessionAssumption
  <2> QED  BY <1>5, <2>1 DEF Contexts
<1> HIDE DEF y
<1>8. /\ r.ok => Fine(v)
      /\ ~r.ok => Fine(Strayed(w)) /\ Quiet(Strayed(w))
  <2>1. r \in Convert(y.conv, y.composer)  BY <1>2, <1>7
  <2>2. Sound(y.conv) /\ y.conv.state # "PREDICTION"  BY <1>5, <1>6, <1>7
  <2> QED  BY <1>7, <2>1, <2>2, ConvertedFacts
<1> HIDE DEF w, v
<1> QED  BY <1>3, <1>8, EmptyStack, OutputHolds, OutputCompositionHolds

\* The whole composition is committed.
LEMMA CommitInternalHolds ==
  ASSUME SessionInv, CommitInternal PROVE SessionInv'
<1>1. PICK x \in Committed(context) : \E y \in ZeroQuerySuggested(x) :
        OutputAndSave(y, PushUndoContext(undo_contexts, context))
  BY DEF CommitInternal
<1>2. PICK y \in ZeroQuerySuggested(x) :
        OutputAndSave(y, PushUndoContext(undo_contexts, context))
  BY <1>1
<1>3. context.conv.checked  BY <1>2 DEF OutputAndSave, Reply
<1>4. ContextOK(context)  BY <1>3, InvFacts
<1>5. Ready(x) /\ Fine(x)
  BY <1>4, CommittedFacts DEF CommitInternal, Composing, Converting
<1>6. Fine(y)  BY <1>5, ZeroQueryFacts
<1> QED  BY <1>2, <1>3, <1>6, OutputSaves

\* The end of CommitSegment and CommitCandidate: what is left is shown, or
\* nothing is left.
LEMMA CommittedSegmentsHolds ==
  ASSUME SessionInv, context.conv.checked, NEW x \in Contexts,
         Dead(x) \/ (Sound(x.conv) /\ (x.conv.state \in Active => ContextOK(x))),
         CommittedSegments(x)
  PROVE SessionInv'
<1> DEFINE w == SetSessionState(x, "PRECOMPOSITION")
<1>1. PICK y \in IF x.conv.state \in Active THEN {x} ELSE ZeroQuerySuggested(w) :
        OutputAndSave(y, PushUndoContext(undo_contexts, context))
  BY DEF CommittedSegments
<1>2. Fine(y)
  <2>1. CASE x.conv.state \in Active  BY <1>1, <2>1 DEF Fine
  <2>2. CASE x.conv.state \notin Active
    <3>1. x.conv \in Converters  BY DEF Dead, Ended, Sound
    <3>2. x.conv.state = "COMPOSITION"  BY <2>2, <3>1, Fields DEF Active
    <3>3. /\ w \in Contexts /\ w.conv = x.conv /\ w.state = "PRECOMPOSITION"
          /\ w.composer = 0 /\ w.strayed = x.strayed
      BY SetFacts
    <3> HIDE DEF w
    <3>4. Dead(x) => Dead(w)  BY <3>3 DEF Dead
    <3>5. Sound(x.conv) => ContextOK(w) /\ Open(w)
      BY <3>2, <3>3, IdleContext DEF Idle
    <3>6. Ready(w) /\ Fine(w)  BY <3>4, <3>5 DEF Ready, Fine
    <3> QED  BY <1>1, <2>2, <3>6, ZeroQueryFacts
  <2> QED  BY <2>1, <2>2
<1> QED  BY <1>1, <1>2, OutputSaves

\* The first k segments are committed, by a converter with a focused
\* candidate unless they strayed.
LEMMA CommitHeadHolds ==
  ASSUME SessionInv, context.conv.checked, Converting, NEW c,
         ConverterOK(c, context.composer, context.strayed),
         c.state \in Focused \/ context.strayed,
         NEW k \in Nat \ {0}, CommitHead(c, k)
  PROVE SessionInv'
<1> DEFINE n == context.composer  t == context.strayed
<1>1. /\ context \in Contexts /\ ContextOK(context) /\ n \in 0 .. MaxLength
      /\ ConverterOK(c, n, t) /\ t \in BOOLEAN
  BY InvFacts
<1>2. PICK r \in CommitSegments(c, k) :
        CommittedSegments([context EXCEPT !.conv = r.conv, !.composer = @ - r.consumed])
  BY DEF CommitHead
<1> DEFINE d == r.conv
           m == n - r.consumed
           w == [context EXCEPT !.conv = d]
           x == [w EXCEPT !.composer = m]
<1> HIDE DEF n, t
<1>3. /\ r.consumed \in 0 .. n
      /\ \/ Idle(d)
         \/ c.state \notin Focused /\ d = Aborted(c)
         \/ ConverterOK(d, m, t) /\ d.state = "CONVERSION"
  BY <1>1, CommitSegmentsFacts
<1>4. Idle(d) \/ (Ended(d) /\ t) \/ (ConverterOK(d, m, t) /\ d.state = "CONVERSION")
  <2>1. c \in Converters  BY <1>1, OKSound
  <2>2. c.state \notin Focused => t  BY DEF t
  <2> QED  BY <1>3, <2>1, <2>2, AbortedEnded
<1>5. m \in 0 .. MaxLength  BY <1>1, <1>3, SessionAssumption
<1>6. d \in Converters  BY <1>4, OKSound DEF Idle, Sound, Ended
<1>7. CommittedSegments(x)
  <2>1. x = [context EXCEPT !.conv = r.conv, !.composer = @ - r.consumed]
    BY <1>1, <1>6 DEF Contexts, n
  <2> QED  BY <1>2, <2>1
<1> HIDE DEF d, m
<1>8. w \in Contexts /\ w.conv = d /\ w.state = context.state /\ w.strayed = t
  BY <1>1, <1>6, WithConv DEF t
<1> HIDE DEF w
<1>9. /\ x \in Contexts /\ x.conv = d /\ x.state = "CONVERSION" /\ x.composer = m
      /\ x.strayed = t
  BY <1>5, <1>8, WithComposer DEF Converting
<1> HIDE DEF x
<1>10. Dead(x) \/ (Sound(x.conv) /\ (x.conv.state \in Active => ContextOK(x)))
  <2>1. CASE Idle(d)  BY <1>9, <2>1 DEF Idle, Active
  <2>2. CASE Ended(d) /\ t  BY <1>9, <2>2 DEF Dead
  <2>3. CASE ConverterOK(d, m, t) /\ d.state = "CONVERSION"
    <3>1. ContextOK(x)  BY <1>9, <2>3 DEF ContextOK, Agreed, ConverterOK, Focused
    <3> QED  BY <1>9, <2>3, <3>1, OKSound
  <2> QED  BY <1>4, <2>1, <2>2, <2>3
<1> QED  BY <1>7, <1>9, <1>10, CommittedSegmentsHolds

\* The first segment, or those up to the focus, are committed.
LEMMA CommitSegmentHolds ==
  ASSUME SessionInv, CommitSegment \/ CommitFocused PROVE SessionInv'
<1>1. context.conv.checked /\ Converting
  BY DEF CommitSegment, CommitFocused, CommitHead, CommittedSegments, OutputAndSave, Reply
<1>2. /\ ContextOK(context) /\ context.composer \in 0 .. MaxLength
      /\ ConverterOK(context.conv, context.composer, context.strayed)
  BY <1>1, InvFacts
<1>3. CASE CommitSegment
  <2>1. context.conv.state \in Focused \/ context.strayed
    BY <1>1, <1>2 DEF Converting, ContextOK, Agreed
  <2> QED  BY <1>1, <1>2, <1>3, <2>1, CommitHeadHolds DEF CommitSegment
<1>4. CASE CommitFocused
  <2>1. PICK c \in CandidateMoveToId(context.conv, context.composer) :
          CommitHead(c, c.segment_index + 1)
    BY <1>4 DEF CommitFocused
  <2>2. ConverterOK(c, context.composer, context.strayed) /\ c.state \in Focused
    <3> DEFINE n == context.composer  t == context.strayed
    <3>1. /\ context.conv.state \in Active /\ n \in 0 .. MaxLength
          /\ ConverterOK(context.conv, n, t) /\ c \in CandidateMoveToId(context.conv, n)
      BY <1>2, <1>4, <2>1 DEF CommitFocused
    <3> HIDE DEF n, t
    <3>2. ConverterOK(c, n, t) /\ c.state \in Focused
      BY <3>1, CandidateMoveToIdFacts
    <3> QED  BY <3>2 DEF n, t
  <2>3. c.segment_index + 1 \in Nat \ {0}
    <3>1. c.segment_index \in 0 .. MaxLength  BY <2>2, OKSound, Fields
    <3> QED  BY <3>1, SessionAssumption
  <2> QED  BY <1>1, <2>1, <2>2, <2>3, CommitHeadHolds
<1> QED  BY <1>3, <1>4

\* Outside a conversion only suggestions are shown.
LEMMA SuggestionFacts ==
  ASSUME SessionInv, context.conv.checked, ~Converting, context.conv.state \in Active
  PROVE context.conv.state = "SUGGESTION" /\ Open(context)
<1>1. ContextOK(context)  BY InvFacts
<1>2. Open(context)  BY <1>1, OpenContext DEF Converting
<1> QED  BY <1>2 DEF Open, Active, Focused, States

\* A suggestion is committed by its id.
LEMMA CommitCandidateHolds ==
  ASSUME SessionInv, CommitCandidate PROVE SessionInv'
<1> DEFINE n == context.composer  t == context.strayed
           p == PushUndoContext(undo_contexts, context)
<1>1. PICK r \in CommitSuggestionById(context.conv, n, zero_query) :
        LET x == [context EXCEPT !.conv = r.conv]
            rest == [x EXCEPT !.composer = @ - r.consumed]
        IN  IF r.ok /\ rest.composer > 0
            THEN \E q \in Suggested(rest) :
                   IF q.ok THEN OutputAndSave(q.context, p)
                   ELSE OutputComposition(Strayed([q.context EXCEPT !.output = 0]), p)
            ELSE CommittedSegments(x)
  BY DEF CommitCandidate
<1> DEFINE d == r.conv
           k == r.consumed
           x == [context EXCEPT !.conv = d]
           rest == [x EXCEPT !.composer = @ - k]
<1>2. IF r.ok /\ rest.composer > 0
      THEN \E q \in Suggested(rest) :
             IF q.ok THEN OutputAndSave(q.context, p)
             ELSE OutputComposition(Strayed([q.context EXCEPT !.output = 0]), p)
      ELSE CommittedSegments(x)
  BY <1>1
<1>3. context.conv.checked
  BY <1>2 DEF CommittedSegments, OutputAndSave, OutputComposition, Reply
<1>4. /\ context \in Contexts /\ ContextOK(context) /\ Sound(context.conv)
      /\ n \in 0 .. MaxLength /\ ConverterOK(context.conv, n, t)
      /\ context.conv \in Converters /\ t \in BOOLEAN /\ Settled(context)
      /\ StackOK(undo_contexts, context.output)
  BY <1>3, InvFacts
<1>5. context.conv.state = "SUGGESTION" /\ Open(context)
  BY <1>3, SuggestionFacts DEF CommitCandidate
<1>6. \/ k = 0 /\ ~r.ok /\ d = context.conv
      \/ t /\ ~r.ok /\ d = Aborted(context.conv)
      \/ Idle(d) /\ (~r.ok \/ k = n)
      \/ /\ r.ok /\ k \in 1 .. n - 1 /\ d.state = "SUGGESTION"
         /\ \A m : ConverterOK(d, m, TRUE)
  <2>1. \/ r = [conv |-> context.conv, ok |-> FALSE, consumed |-> 0]
        \/ r \in CommitSuggestion(context.conv, n, zero_query)
    BY DEF CommitSuggestionById
  <2> HIDE DEF n, t
  <2>2. CASE r \in CommitSuggestion(context.conv, n, zero_query)
    BY <1>4, <1>5, <2>2, CommitSuggestionFacts
  <2>3. CASE r = [conv |-> context.conv, ok |-> FALSE, consumed |-> 0]
    <3>1. r.conv = context.conv /\ r.ok = FALSE /\ r.consumed = 0  BY <2>3
    <3> QED  BY <3>1
  <2> QED  BY <2>1, <2>2, <2>3
<1> HIDE DEF d, k, n, t
<1>7. \/ d = context.conv \/ Idle(d) \/ (Ended(d) /\ t)
      \/ \A m : ConverterOK(d, m, TRUE)
  BY <1>4, <1>6, AbortedEnded
<1>8. d \in Converters
  BY <1>4, <1>7, OKSound DEF Idle, Sound, Ended
<1>9. /\ x \in Contexts /\ x.conv = d /\ x.composer = n /\ x.state = context.state
      /\ x.strayed = t
  BY <1>4, <1>8, WithConv DEF n, t
<1>10. r.ok /\ rest.composer > 0 =>
         k \in 1 .. n - 1 /\ d.state = "SUGGESTION" /\ \A m : ConverterOK(d, m, TRUE)
  <2>1. ASSUME k = n PROVE ~(rest.composer > 0)
    <3>1. rest.composer = n - k  BY <1>9 DEF Contexts
    <3> QED  BY <1>4, <2>1, <3>1, SessionAssumption
  <2> QED  BY <1>6, <2>1
<1>11. k \in 1 .. n - 1 => /\ rest \in Contexts /\ rest.conv = d /\ rest.composer = n - k
                           /\ rest.state = context.state /\ rest.strayed = t
  <2>1. k \in 1 .. n - 1 => n - k \in 0 .. MaxLength  BY <1>4, SessionAssumption
  <2>2. rest = [x EXCEPT !.composer = n - k]  BY <1>9
  <2> HIDE DEF x, rest
  <2> QED  BY <1>9, <2>1, <2>2, WithComposer
<1> HIDE DEF x, rest
<1>12. CASE r.ok /\ rest.composer > 0
  <2>1. /\ k \in 1 .. n - 1 /\ d.state = "SUGGESTION"
        /\ \A m : ConverterOK(d, m, TRUE)
    BY <1>10, <1>12
  <2>2. Open(rest)
    <3>1. ~t => context.state \notin {"DIRECT", "PRECOMPOSITION"}
      <4>1. n # 0  BY <1>4, <2>1, SessionAssumption
      <4> QED  BY <1>5, <4>1 DEF Open, n, t
    <3>2. context.state # "CONVERSION"  BY <1>5 DEF Open
    <3>3. d.state \notin Focused  BY <2>1 DEF Focused
    <3>4. ConverterOK(d, n - k, TRUE)  BY <2>1
    <3> QED  BY <1>11, <2>1, <3>1, <3>2, <3>3, <3>4 DEF Open
  <2>3. PICK q \in Suggested(rest) :
          IF q.ok THEN OutputAndSave(q.context, p)
          ELSE OutputComposition(Strayed([q.context EXCEPT !.output = 0]), p)
    BY <1>2, <1>12
  <2>4. Fine(q.context) /\ q.context \in Contexts  BY <2>2, SuggestedFacts DEF Ready
  <2>5. CASE q.ok  BY <1>3, <2>3, <2>4, <2>5, OutputSaves
  <2>6. CASE ~q.ok
    <3> DEFINE y == q.context
               z == [y EXCEPT !.output = 0]
    <3>1. OutputComposition(Strayed(z), p)  BY <2>3, <2>6
    <3> HIDE DEF y
    <3>2. Fine(y) /\ y \in Contexts  BY <2>4 DEF y
    <3>3. /\ z \in Contexts /\ z.conv = y.conv /\ z.state = y.state
          /\ z.composer = y.composer /\ z.output = 0 /\ z.strayed = y.strayed
      <4>1. 0 \in 0 .. MaxLength  BY SessionAssumption
      <4> QED  BY <3>2, <4>1 DEF Contexts
    <3> HIDE DEF z
    <3>4. Fine(z)
      BY <3>2, <3>3 DEF Fine, Dead, ContextOK, Agreed
    <3>5. Fine(Strayed(z)) /\ Quiet(Strayed(z)) /\ Strayed(z).output = 0
      BY <3>3, <3>4, StrayFacts
    <3>6. StackOK(p, 0)  BY <1>4, PushOK
    <3> HIDE DEF p
    <3>7. StackOK(p, Strayed(z).output)  BY <3>5, <3>6
    <3> QED  BY <3>1, <3>5, <3>7, OutputCompositionHolds
  <2> QED  BY <2>5, <2>6
<1>13. CASE ~(r.ok /\ rest.composer > 0)
  <2>1. CommittedSegments(x)  BY <1>2, <1>13
  <2>2. ~(r.ok /\ k \in 1 .. n - 1)
    <3>1. k \in 1 .. n - 1 => n - k > 0  BY <1>4, SessionAssumption
    <3> QED  BY <1>11, <1>13, <3>1
  <2>3. d = context.conv \/ Idle(d) \/ (Ended(d) /\ t)
    BY <1>4, <1>6, <2>2, AbortedEnded
  <2>4. Dead(x) \/ (Sound(x.conv) /\ (x.conv.state \in Active => ContextOK(x)))
    <3>1. CASE d = context.conv
      <4>1. ContextOK(x)
        BY <1>4, <1>9, <3>1 DEF ContextOK, Agreed, n, t
      <4> QED  BY <1>4, <1>9, <3>1, <4>1
    <3>2. CASE Idle(d)  BY <1>9, <3>2 DEF Idle, Active
    <3>3. CASE Ended(d) /\ t  BY <1>9, <3>3 DEF Dead
    <3> QED  BY <2>3, <3>1, <3>2, <3>3
  <2> QED  BY <1>3, <1>9, <2>1, <2>4, CommittedSegmentsHolds
<1> QED  BY <1>12, <1>13

\* The first suggestion is committed.
LEMMA CommitFirstSuggestionHolds ==
  ASSUME SessionInv, CommitFirstSuggestion PROVE SessionInv'
<1> DEFINE n == context.composer  t == context.strayed
<1>1. PICK r \in CommitSuggestion(context.conv, n, zero_query) :
        \E y \in ZeroQuerySuggested(SetSessionState([context EXCEPT !.conv = r.conv],
                                                    "PRECOMPOSITION")) :
          OutputAndSave(y, PushUndoContext(undo_contexts, context))
  BY DEF CommitFirstSuggestion
<1> DEFINE d == r.conv
           x == [context EXCEPT !.conv = d]
           w == SetSessionState(x, "PRECOMPOSITION")
<1>2. PICK y \in ZeroQuerySuggested(w) :
        OutputAndSave(y, PushUndoContext(undo_contexts, context))
  BY <1>1
<1>3. context.conv.checked  BY <1>2 DEF OutputAndSave, Reply
<1>4. /\ context \in Contexts /\ n \in 0 .. MaxLength /\ ConverterOK(context.conv, n, t)
      /\ context.conv \in Converters
  BY <1>3, InvFacts
<1>5. context.conv.state = "SUGGESTION"
  BY <1>3, SuggestionFacts DEF CommitFirstSuggestion
<1> HIDE DEF n, t
<1>6. \/ t /\ Ended(d)
      \/ Idle(d)
      \/ /\ d.state = "SUGGESTION" /\ zero_query
         /\ \A m : ConverterOK(d, m, TRUE)
  <2>1. d = Aborted(context.conv) => Ended(d)  BY <1>4, AbortedEnded
  <2> HIDE DEF d
  <2>2. \/ t /\ d = Aborted(context.conv)
        \/ Idle(d)
        \/ /\ d.state = "SUGGESTION" /\ zero_query
           /\ \A m : ConverterOK(d, m, TRUE)
    BY <1>1, <1>4, <1>5, CommitSuggestionFacts DEF d
  <2> QED  BY <2>1, <2>2
<1> HIDE DEF d
<1>7. d \in Converters  BY <1>6, OKSound DEF Ended, Idle, Sound
<1>8. x \in Contexts /\ x.conv = d /\ x.strayed = t  BY <1>4, <1>7, WithConv DEF t
<1> HIDE DEF x
<1>9. /\ w \in Contexts /\ w.conv = d /\ w.state = "PRECOMPOSITION" /\ w.composer = 0
      /\ w.strayed = t
  BY <1>8, SetFacts
<1> HIDE DEF w
<1>10. Ready(w) /\ (zero_query \/ Fine(w))
  <2>1. CASE t /\ Ended(d)  BY <1>9, <2>1 DEF Ready, Fine, Dead
  <2>2. CASE Idle(d)
    <3>1. ContextOK(w) /\ Open(w)  BY <1>9, <2>2, IdleContext
    <3> QED  BY <3>1 DEF Ready, Fine
  <2>3. CASE d.state = "SUGGESTION" /\ zero_query /\ \A m : ConverterOK(d, m, TRUE)
    <3>1. Open(w)  BY <1>9, <2>3 DEF Open, Focused
    <3> QED  BY <2>3, <3>1 DEF Ready
  <2> QED  BY <1>6, <2>1, <2>2, <2>3
<1>11. Fine(y)  BY <1>2, <1>10, ZeroQueryFacts
<1> QED  BY <1>2, <1>3, <1>11, OutputSaves

\* A text is committed past the converter.
LEMMA CommitDirectlyHolds ==
  ASSUME SessionInv, CommitZenzSuggestion \/ CommitDirectly PROVE SessionInv'
<1>1. context.conv.checked
  BY DEF CommitZenzSuggestion, CommitDirectly, CommitStringDirectly, Output, Reply
<1>2. /\ context \in Contexts /\ Usable(context) /\ Settled(context)
      /\ context.composer \in 0 .. MaxLength /\ StackOK(undo_contexts, context.output)
  BY <1>1, InvFacts
<1>3. CASE CommitDirectly
  <2>1. CommitStringDirectly(context, undo_contexts, context.composer)
    BY <1>3 DEF CommitDirectly
  <2>2. context.composer \in Int  BY <1>2, SessionAssumption
  <2>3. StackOK(Typed(undo_contexts, context.composer, TRUE), context.output)
    BY <1>2, <2>2, TypedDirectOK
  <2> QED  BY <1>2, <2>1, <2>3, CommitStringDirectlyHolds
<1>4. CASE CommitZenzSuggestion
  <2> DEFINE p == PushUndoContext(undo_contexts, context)
  <2>1. PICK n \in Values(<<context.composer>>) : CommitStringDirectly(context, p, n)
    BY <1>4 DEF CommitZenzSuggestion
  <2>2. n \in Int /\ n # 0
    <3>1. Len(<<context.composer>>) = 1 /\ Total(<<context.composer>>) = context.composer
      BY <1>2, OneSegment
    <3>2. n = 1 \/ (n = context.composer /\ n # 0)  BY <3>1 DEF Values
    <3> QED  BY <1>2, <3>2, SessionAssumption
  <2>3. StackOK(p, 0)  BY <1>2, PushOK
  <2> HIDE DEF p
  <2>4. StackOK(Typed(p, n, TRUE), context.output)  BY <2>2, <2>3, TypedDirectOK
  <2> QED  BY <1>2, <2>1, <2>4, CommitStringDirectlyHolds
<1> QED  BY <1>3, <1>4

\* Undo.
LEMMA UndoHolds ==
  ASSUME SessionInv, Undo PROVE SessionInv'
<1> DEFINE e == Last(undo_contexts)
           x == e.context
           u == Typed(Front(undo_contexts), e.since - context.output, e.unsaved)
<1>1. undo_contexts # <<>> /\ Output(x, u)  BY DEF Undo, Deletion
<1>2. context.conv.checked  BY <1>1 DEF Output, Reply
<1>3. context.output \in 0 .. MaxLength /\ StackOK(undo_contexts, context.output)
  BY <1>2, InvFacts
<1>4. Settled(x) /\ StackOK(u, x.output)  BY <1>1, <1>3, UndoOK
<1> HIDE DEF x, u
<1>5. Fine(x)  BY <1>4 DEF Settled, Fine
<1> QED  BY <1>1, <1>4, <1>5, OutputHolds

\* A client asks for suggestions.
LEMMA RequestNwpHolds ==
  ASSUME SessionInv, RequestNwp PROVE SessionInv'
<1> DEFINE c == Reset(context.conv)
           b == context.strayed \/ Converting
           n == context.composer
<1>1. PICK r \in Suggest(c, n) :
        LET x == [context EXCEPT !.conv = r.conv, !.strayed = @ \/ Converting]
        IN  IF r.ok THEN Output(x, undo_contexts)
            ELSE OutputComposition(x, undo_contexts)
  BY DEF RequestNwp
<1> DEFINE d == r.conv
           w == [context EXCEPT !.conv = d]
           y == [w EXCEPT !.strayed = b]
<1>2. Output(y, undo_contexts) \/ OutputComposition(y, undo_contexts)
  BY <1>1
<1>3. context.conv.checked  BY <1>2 DEF Output, OutputComposition, Reply
<1>4. /\ context \in Contexts /\ Sound(context.conv) /\ ContextOK(context)
      /\ n \in 0 .. MaxLength /\ StackOK(undo_contexts, context.output)
  BY <1>3, InvFacts
<1>5. Sound(c) /\ c.state \notin Focused /\ c.result = 0
  BY <1>4, ResetIdle DEF Idle, Focused
<1> HIDE DEF c, n, b
<1>6. d.result = 0 /\ ConverterOK(d, n, b) /\ d.state \notin Focused
  BY <1>1, <1>4, <1>5, SuggestFacts
<1> HIDE DEF d
<1>7. d \in Converters  BY <1>6, OKSound
<1>8. /\ w \in Contexts /\ w.conv = d /\ w.output = context.output
      /\ w.state = context.state /\ w.composer = n
  BY <1>4, <1>7, WithConv DEF n
<1> HIDE DEF w
<1>9. b \in BOOLEAN /\ (b <=> context.strayed \/ context.state = "CONVERSION")
  BY DEF b, Converting
<1>10. /\ y \in Contexts /\ y.conv = d /\ y.output = context.output
       /\ y.state = context.state /\ y.composer = n /\ y.strayed = b
  BY <1>8, <1>9, WithStrayed
<1> HIDE DEF y
<1>11. Fine(y) /\ Quiet(y)
  <2>1. ~b => (y.state \in {"DIRECT", "PRECOMPOSITION"} => y.composer = 0)
    BY <1>4, <1>9, <1>10 DEF ContextOK, Agreed, n
  <2>2. ~b => y.state # "CONVERSION"  BY <1>9, <1>10
  <2>3. ContextOK(y)
    BY <1>6, <1>10, <2>1, <2>2 DEF ContextOK, Agreed, ConverterOK
  <2> QED  BY <1>6, <1>10, <2>3 DEF Fine, Quiet
<1>12. StackOK(undo_contexts, y.output)  BY <1>4, <1>10
<1> QED  BY <1>2, <1>11, <1>12, OutputHolds, OutputCompositionHolds

-----------------------------------------------------------------------------
(* The theorems.                                                           *)

\* A new session.
LEMMA NewFacts == Settled(NewContext) /\ NewContext.output = 0
<1> DEFINE c == NewConverter
           x == NewContext
<1>1. 0 \in 0 .. MaxLength /\ 0 \in 0 .. 1  BY SessionAssumption
<1>2. Idle(c) /\ c.result = 0
  BY <1>1, NoSegments DEF NewConverter, Idle, Sound, Converters, States
<1>3. NewContext = [state |-> "PRECOMPOSITION", composer |-> 0, source |-> 0,
                    conv |-> c, output |-> 0, strayed |-> FALSE]
  BY DEF NewContext
<1> HIDE DEF c, x
<1>4. c \in Converters  BY <1>2 DEF Idle, Sound
<1>5. /\ x \in Contexts /\ x.state = "PRECOMPOSITION" /\ x.composer = 0
      /\ x.conv = c /\ x.output = 0 /\ x.strayed = FALSE
  BY <1>1, <1>3, <1>4 DEF Contexts, x
<1>6. ContextOK(x)  BY <1>2, <1>5, IdleContext
<1> QED  BY <1>2, <1>5, <1>6 DEF Settled, Quiet, x

LEMMA InitHolds == ASSUME Init PROVE SessionInv
BY NewFacts, EmptyStack DEF Init, SessionInv, Settled, ContextOK

LEMMA RestartHolds == ASSUME Restart PROVE SessionInv'
BY NewFacts, EmptyStack DEF Restart, SessionInv, Settled, ContextOK

\* Every command keeps the invariant.
LEMMA NextHolds ==
  ASSUME SessionInv, [Next]_vars PROVE SessionInv'
<1>1. CASE UNCHANGED vars  BY <1>1 DEF vars, SessionInv
<1>2. CASE IMEOn \/ CompositionMode  BY <1>2, IMEOnHolds
<1>3. CASE IMEOff  BY <1>3, IMEOffHolds
<1>4. CASE EchoBack  BY <1>4, EchoBackHolds
<1>5. CASE Revert \/ ResetContext  BY <1>5, RevertHolds
<1>6. CASE DoNothing \/ RequestUndo \/ StopKeyToggling  BY <1>6, DoNothingHolds
<1>7. CASE InsertCharacter  BY <1>7, InsertCharacterHolds
<1>8. CASE UpdateComposition \/ MoveCursor  BY <1>8, UpdateCompositionHolds
<1>9. CASE Backspace  BY <1>9, BackspaceHolds
<1>10. CASE EditCancel  BY <1>10, EditCancelHolds
<1>11. CASE EditCancelAndIMEOff  BY <1>11, EditCancelAndIMEOffHolds
<1>12. CASE ConvertComposition  BY <1>12, ConvertCompositionHolds
<1>13. CASE Transliterate  BY <1>13, TransliterateHolds
<1>14. CASE PredictAndConvert  BY <1>14, PredictAndConvertHolds
<1>15. CASE SelectCandidate  BY <1>15, SelectCandidateHolds
<1>16. CASE MoveCandidate \/ SegmentFocus \/ SegmentWidth  BY <1>16, MovesHold
<1>17. CASE ConvertCancel  BY <1>17, ConvertCancelHolds
<1>18. CASE ConvertReverse  BY <1>18, ConvertReverseHolds
<1>19. CASE CommitInternal  BY <1>19, CommitInternalHolds
<1>20. CASE CommitSegment \/ CommitFocused  BY <1>20, CommitSegmentHolds
<1>21. CASE CommitCandidate  BY <1>21, CommitCandidateHolds
<1>22. CASE CommitFirstSuggestion  BY <1>22, CommitFirstSuggestionHolds
<1>23. CASE CommitZenzSuggestion \/ CommitDirectly  BY <1>23, CommitDirectlyHolds
<1>24. CASE Undo  BY <1>24, UndoHolds
<1>25. CASE RequestNwp  BY <1>25, RequestNwpHolds
<1>26. CASE Restart  BY <1>26, RestartHolds
<1> QED
  BY <1>1, <1>2, <1>3, <1>4, <1>5, <1>6, <1>7, <1>8, <1>9, <1>10, <1>11, <1>12,
     <1>13, <1>14, <1>15, <1>16, <1>17, <1>18, <1>19, <1>20, <1>21, <1>22, <1>23,
     <1>24, <1>25, <1>26
  DEF Next

\* The invariant holds after any sequence of commands and failures.
THEOREM SessionIsSound == Spec => []SessionInv
<1>1. Init => SessionInv  BY InitHolds
<1>2. SessionInv /\ [Next]_vars => SessionInv'  BY NextHolds
<1> QED  BY <1>1, <1>2, PTL DEF Spec

\* Session and converter agree on what goes on, as far as they did not stray,
\* and the undo contexts keep their bound (SetSessionState, PushUndoContext).
THEOREM StatesAgreeHolds == Spec => []StatesAgree
<1>1. SessionInv => StatesAgree
  BY DEF SessionInv, Agreed, StackOK, StatesAgree, TypeOK, Converting, Entries
<1> QED  BY <1>1, SessionIsSound, PTL

\* The segments cover the composition (CommitSegmentsInternal and the
\* deletions from the composer), those of a conversion after any command.
THEOREM SegmentsCoverHolds == Spec => []SegmentsCoverComposition
<1>1. SessionInv => SegmentsCoverComposition
  <2> SUFFICES ASSUME SessionInv, context.conv.state \in Active
               PROVE /\ context.conv.segment_index < Len(context.conv.segments)
                     /\ context.conv.selected >= Len(context.conv.segments)
                     /\ context.conv.state = "CONVERSION" \/ ~context.strayed
                          => Total(context.conv.segments) = context.composer
    BY DEF SegmentsCoverComposition
  <2>1. Shaped(context.conv, context.composer, context.strayed)
    BY DEF SessionInv, Agreed
  <2>2. context.conv.state \in {"SUGGESTION", "PREDICTION", "CONVERSION"}
    BY DEF Active, States
  <2> QED  BY <2>1, <2>2 DEF Shaped
<1> QED  BY <1>1, SessionIsSound, PTL

\* No DCHECK or CHECK of engine_converter.cc fails but after a step that
\* strayed.
THEOREM ChecksHoldAlways == Spec => []ChecksHold
<1>1. SessionInv => ChecksHold  BY DEF SessionInv, ChecksHold
<1> QED  BY <1>1, SessionIsSound, PTL

\* No result waits in the converter between two commands (PopOutput), but
\* that which CommitCandidate leaves.
THEOREM ResultIsHandedOutHolds == Spec => []ResultIsHandedOut
<1>1. SessionInv => ResultIsHandedOut
  BY DEF SessionInv, Quiet, ResultIsHandedOut
<1> QED  BY <1>1, SessionIsSound, PTL

\* Undo deletes what was committed since its context was left (Session::Undo),
\* unless output() has no copy of some of it.
THEOREM UndoRestoresDocumentHolds == Spec => []UndoRestoresDocument
<1>1. SessionInv => UndoRestoresDocument
  <2> SUFFICES ASSUME SessionInv, undo_contexts # <<>>, ~Last(undo_contexts).unsaved
               PROVE Last(undo_contexts).since = Deletion(context)
    BY DEF UndoRestoresDocument
  <2>1. undo_contexts \in Seq(Entries)  BY DEF SessionInv, StackOK
  <2>2. Len(undo_contexts) \in 1 .. Len(undo_contexts)
    BY <2>1, EmptySeq, LenProperties
  <2> QED  BY <2>2 DEF SessionInv, StackOK, Last, Deletion
<1> QED  BY <1>1, SessionIsSound, PTL
=============================================================================
