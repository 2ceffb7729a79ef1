---------------------------- MODULE ClientProofs ----------------------------
(***************************************************************************)
(* Proofs about the client library (Client.tla), for every length of the   *)
(* journal, every number of inputs and faults.                             *)
(***************************************************************************)
EXTENDS Client, TLAPS, SequenceTheorems, WellFoundedInduction

-----------------------------------------------------------------------------
(* Induction on the natural numbers, for a set instead of a predicate.     *)

\* A set with 0 that is closed under successor holds every natural number.
LEMMA NatSetInduction ==
  ASSUME NEW S, 0 \in S, \A n \in Nat : n \in S => n + 1 \in S
  PROVE Nat \subseteq S
<1> DEFINE R == {ss \in Nat \X Nat : ss[1] < ss[2]}
<1>1. IsWellFoundedOn(R, Nat)
  <2>1. IsWellFoundedOn(OpToRel(<, Nat), Nat)  BY NatLessThanWellFounded
  <2> QED  BY <2>1 DEF OpToRel
<1>2. SUFFICES ASSUME Nat \ S # {} PROVE FALSE  OBVIOUS
<1>3. PICK x \in Nat \ S : \A y \in Nat \ S : ~ (<<y, x>> \in R)
  <2> HIDE DEF R
  <2> QED  BY <1>1, <1>2, WFMin
<1>4. x # 0  BY <1>3
<1>5. x - 1 \in Nat /\ x = (x - 1) + 1  BY <1>3, <1>4
<1>6. <<x - 1, x>> \in R  BY <1>3, <1>5
<1>7. x - 1 \in S
  <2> HIDE DEF R
  <2> QED  BY <1>3, <1>5, <1>6
<1> QED  BY <1>3, <1>5, <1>7

-----------------------------------------------------------------------------
(* What Shown and Composition compute.                                     *)

\* Compositions are sequences of the numbers of keys.
Text == Seq(1 .. MaxInputs)

\* The equation that Shown is the solution of, up to n.
ShownUpTo(f, h, n) ==
  f = [i \in 0 .. n |-> IF i = 0 THEN << >> ELSE Applied(f[i - 1], h[i])]

\* The equation has a solution for each length.
LEMMA ShownExists ==
  ASSUME NEW h, NEW m \in Nat
  PROVE \E f : ShownUpTo(f, h, m)
<1> DEFINE S == {n \in Nat : \E f : ShownUpTo(f, h, n)}
<1>1. 0 \in S
  <2> DEFINE g == [i \in 0 .. 0 |-> << >>]
  <2>1. ShownUpTo(g, h, 0)  BY DEF ShownUpTo
  <2> QED  BY <2>1
<1>2. ASSUME NEW n \in Nat, n \in S PROVE n + 1 \in S
  <2>1. PICK f : ShownUpTo(f, h, n)  BY <1>2
  <2> DEFINE g == [i \in 0 .. n + 1 |->
                     IF i = n + 1 THEN Applied(f[n], h[n + 1]) ELSE f[i]]
             e == [i \in 0 .. n + 1 |->
                     IF i = 0 THEN << >> ELSE Applied(g[i - 1], h[i])]
  <2>2. \A i \in 0 .. n : f[i] = IF i = 0 THEN << >> ELSE Applied(f[i - 1], h[i])
    BY <2>1 DEF ShownUpTo
  <2>3. ASSUME NEW i \in 0 .. n + 1 PROVE g[i] = e[i]
    <3>1. CASE i = 0  BY <3>1, <2>2
    <3>2. CASE i \in 1 .. n
      <4>1. g[i] = f[i] /\ g[i - 1] = f[i - 1]  BY <3>2
      <4>2. f[i] = Applied(f[i - 1], h[i])  BY <3>2, <2>2
      <4>3. e[i] = Applied(g[i - 1], h[i])  BY <3>2
      <4> QED  BY <4>1, <4>2, <4>3
    <3>3. CASE i = n + 1
      <4>1. g[i] = Applied(f[n], h[n + 1]) /\ g[i - 1] = f[n]  BY <3>3
      <4>2. e[i] = Applied(g[i - 1], h[i])  BY <3>3
      <4> QED  BY <4>1, <4>2, <3>3
    <3> QED  BY <3>1, <3>2, <3>3
  <2>4. g = e  BY <2>3
  <2>5. ShownUpTo(g, h, n + 1)  BY <2>4 DEF ShownUpTo
  <2> HIDE DEF g
  <2> QED  BY <2>5
<1>3. Nat \subseteq S
  <2> HIDE DEF S
  <2> QED  BY <1>1, <1>2, NatSetInduction
<1> QED  BY <1>3

\* Shown starts with no text and applies one input at a time.
LEMMA ShownUnfolds ==
  ASSUME NEW h, Len(h) \in Nat
  PROVE /\ Shown(h)[0] = << >>
        /\ \A i \in 1 .. Len(h) : Shown(h)[i] = Applied(Shown(h)[i - 1], h[i])
<1>1. Shown(h) = CHOOSE f : ShownUpTo(f, h, Len(h))  BY DEF Shown, ShownUpTo
<1>2. ShownUpTo(Shown(h), h, Len(h))  BY <1>1, ShownExists
<1> QED  BY <1>2 DEF ShownUpTo

\* An input turns a composition into a composition.
LEMMA AppliedType ==
  ASSUME NEW c \in Text, NEW input \in Input \cup {CheckVersion}
  PROVE Applied(c, input) \in Text
<1>1. CASE input \in Input
  <2> DEFINE N == 1 .. MaxInputs
  <2>1. input.n \in N  BY <1>1 DEF Input
  <2>2. << >> \in Seq(N) /\ c \in Seq(N)  BY EmptySeq DEF Text
  <2>3. Append(c, input.n) \in Seq(N)
    <3> HIDE DEF N
    <3> QED  BY <2>1, <2>2, AppendProperties
  <2> QED  BY <2>2, <2>3 DEF Applied, Text
<1>2. CASE input = CheckVersion
  BY <1>2 DEF Applied, CheckVersion
<1> QED  BY <1>1, <1>2

\* What a session shows is a composition.
LEMMA ShownType ==
  ASSUME NEW h \in Seq(Input)
  PROVE \A i \in 0 .. Len(h) : Shown(h)[i] \in Text
<1> DEFINE S == {n \in Nat : n <= Len(h) => Shown(h)[n] \in Text}
<1>0. Len(h) \in Nat  BY LenProperties
<1>1. 0 \in S
  <2>1. << >> \in Seq(1 .. MaxInputs)  BY EmptySeq
  <2> QED  BY <1>0, <2>1, ShownUnfolds DEF Text
<1>2. ASSUME NEW n \in Nat, n \in S PROVE n + 1 \in S
  <2>1. SUFFICES ASSUME n + 1 <= Len(h) PROVE Shown(h)[n + 1] \in Text  OBVIOUS
  <2>2. Shown(h)[n] \in Text  BY <1>0, <1>2, <2>1
  <2>3. h[n + 1] \in Input  BY <1>0, <2>1, ElementOfSeq
  <2>4. Shown(h)[n + 1] = Applied(Shown(h)[n], h[n + 1])
    <3>1. n + 1 \in 1 .. Len(h) /\ (n + 1) - 1 = n  BY <1>0, <2>1
    <3> QED  BY <1>0, <3>1, ShownUnfolds
  <2> QED  BY <2>2, <2>3, <2>4, AppliedType
<1>3. Nat \subseteq S
  <2> HIDE DEF S
  <2> QED  BY <1>1, <1>2, NatSetInduction
<1> QED  BY <1>0, <1>3

\* What is shown after the first inputs does not depend on the later ones.
LEMMA ShownAppend ==
  ASSUME NEW h \in Seq(Input), NEW input \in Input
  PROVE \A i \in 0 .. Len(h) : Shown(Append(h, input))[i] = Shown(h)[i]
<1> DEFINE k == Append(h, input)
           S == {n \in Nat : n <= Len(h) => Shown(k)[n] = Shown(h)[n]}
<1>0. /\ Len(h) \in Nat /\ Len(k) = Len(h) + 1 /\ k \in Seq(Input)
      /\ \A i \in 1 .. Len(h) : k[i] = h[i]
  BY LenProperties, AppendProperties
<1> HIDE DEF k
<1>1. 0 \in S  BY <1>0, ShownUnfolds
<1>2. ASSUME NEW n \in Nat, n \in S PROVE n + 1 \in S
  <2>1. SUFFICES ASSUME n + 1 <= Len(h) PROVE Shown(k)[n + 1] = Shown(h)[n + 1]
    OBVIOUS
  <2>2. /\ n + 1 \in 1 .. Len(h) /\ n + 1 \in 1 .. Len(k) /\ (n + 1) - 1 = n
        /\ Shown(k)[n] = Shown(h)[n]
    BY <1>0, <1>2, <2>1
  <2>3. Len(k) \in Nat  BY <1>0
  <2>4. Shown(h)[n + 1] = Applied(Shown(h)[n], h[n + 1])
    BY <1>0, <2>2, ShownUnfolds
  <2>5. Shown(k)[n + 1] = Applied(Shown(k)[n], k[n + 1])
    BY <2>3, <2>2, ShownUnfolds
  <2> QED  BY <1>0, <2>2, <2>4, <2>5
<1>3. Nat \subseteq S
  <2> HIDE DEF S
  <2> QED  BY <1>1, <1>2, NatSetInduction
<1> QED  BY <1>0, <1>3 DEF k

\* The empty journal shows nothing; one more input is applied to what the
\* journal shows.
LEMMA CompositionOf ==
  /\ Composition(<< >>) = << >>
  /\ \A h \in Seq(Input) : Composition(h) \in Text
  /\ \A h \in Seq(Input), input \in Input :
       Composition(Append(h, input)) = Applied(Composition(h), input)
<1>1. Composition(<< >>) = << >>
  <2>1. Len(<< >>) = 0  OBVIOUS
  <2> QED  BY <2>1, ShownUnfolds DEF Composition
<1>2. ASSUME NEW h \in Seq(Input) PROVE Composition(h) \in Text
  <2>1. Len(h) \in 0 .. Len(h)  BY LenProperties
  <2> QED  BY <2>1, ShownType DEF Composition
<1>3. ASSUME NEW h \in Seq(Input), NEW input \in Input
      PROVE Composition(Append(h, input)) = Applied(Composition(h), input)
  <2> DEFINE k == Append(h, input)
  <2>1. /\ Len(h) \in Nat /\ Len(k) = Len(h) + 1 /\ k[Len(k)] = input
    BY LenProperties, AppendProperties
  <2>2. Len(k) \in Nat /\ Len(k) \in 1 .. Len(k) /\ Len(k) - 1 = Len(h)
    BY <2>1
  <2>3. Shown(k)[Len(k)] = Applied(Shown(k)[Len(h)], input)
    <3> HIDE DEF k
    <3>1. Shown(k)[Len(k)] = Applied(Shown(k)[Len(k) - 1], k[Len(k)])
      BY <2>2, ShownUnfolds
    <3> QED  BY <3>1, <2>1, <2>2
  <2>4. Shown(k)[Len(h)] = Shown(h)[Len(h)]
    <3>1. Len(h) \in 0 .. Len(h)  BY <2>1
    <3> QED  BY <3>1, ShownAppend
  <2> HIDE DEF k
  <2>5. Composition(k) = Applied(Composition(h), input)
    BY <2>3, <2>4 DEF Composition
  <2> QED  BY <2>5 DEF k
<1> QED  BY <1>1, <1>2, <1>3

-----------------------------------------------------------------------------
(* Suffixes.                                                               *)

\* s is a suffix of t iff their ends agree, counted from the end.
LEMMA SuffixByIndex ==
  ASSUME NEW s \in Text, NEW t \in Text
  PROVE IsSuffix(s, t) <=>
          /\ Len(s) <= Len(t)
          /\ \A i \in 1 .. Len(s) : s[Len(s) - i + 1] = t[Len(t) - i + 1]
<1>1. Len(s) \in Nat /\ Len(t) \in Nat  BY LenProperties DEF Text
<1>2. /\ Len(Reverse(s)) = Len(s) /\ Len(Reverse(t)) = Len(t)
      /\ \A i \in 1 .. Len(s) : Reverse(s)[i] = s[Len(s) - i + 1]
      /\ \A i \in 1 .. Len(t) : Reverse(t)[i] = t[Len(t) - i + 1]
  BY <1>1 DEF Reverse
<1>3. SUFFICES ASSUME Len(s) <= Len(t)
      PROVE SubSeq(Reverse(s), 1, Len(s)) = SubSeq(Reverse(t), 1, Len(s)) <=>
              \A i \in 1 .. Len(s) : Reverse(s)[i] = Reverse(t)[i]
  <2> DEFINE p == Reverse(s) q == Reverse(t)
  <2>1. IsSuffix(s, t) <=>
          Len(p) <= Len(q) /\ SubSeq(p, 1, Len(p)) = SubSeq(q, 1, Len(p))
    BY DEF IsSuffix, IsPrefix
  <2>2. CASE Len(s) <= Len(t)
    <3>1. \A i \in 1 .. Len(s) : i \in 1 .. Len(t)  BY <1>1, <2>2
    <3>2. IsSuffix(s, t) <=> \A i \in 1 .. Len(s) : p[i] = q[i]
      BY <1>2, <1>3, <2>1, <2>2
    <3> HIDE DEF p, q
    <3>3. \A i \in 1 .. Len(s) : /\ p[i] = s[Len(s) - i + 1]
                                 /\ q[i] = t[Len(t) - i + 1]
      BY <1>2, <3>1 DEF p, q
    <3> QED  BY <2>2, <3>2, <3>3
  <2>3. CASE ~(Len(s) <= Len(t))
    BY <1>2, <2>1, <2>3
  <2> QED  BY <2>2, <2>3
<1>4. /\ SubSeq(Reverse(s), 1, Len(s)) = [i \in 1 .. Len(s) |-> Reverse(s)[i]]
      /\ SubSeq(Reverse(t), 1, Len(s)) = [i \in 1 .. Len(s) |-> Reverse(t)[i]]
  <2>1. \A i \in 1 .. Len(s) : 1 + i - 1 = i  BY <1>1
  <2>2. 1 .. (Len(s) - 1) + 1 = 1 .. Len(s)  BY <1>1
  <2> QED  BY <1>1, <2>1, <2>2
<1> QED  BY <1>4

\* The suffixes that the calls produce: nothing, everything, and a suffix
\* with one more key at the end of both.
LEMMA SuffixOf ==
  /\ \A t \in Text : IsSuffix(<< >>, t) /\ IsSuffix(t, t)
  /\ \A s, t \in Text, n \in 1 .. MaxInputs :
       IsSuffix(s, t) => IsSuffix(Append(s, n), Append(t, n))
<1>1. ASSUME NEW t \in Text PROVE IsSuffix(<< >>, t)
  <2>1. << >> \in Text /\ Len(t) \in Nat /\ Len(<< >>) = 0
    BY EmptySeq, LenProperties DEF Text
  <2> QED  BY <2>1, SuffixByIndex
<1>2. ASSUME NEW t \in Text PROVE IsSuffix(t, t)
  <2>1. Len(t) \in Nat  BY LenProperties DEF Text
  <2> QED  BY <2>1, SuffixByIndex
<1>3. ASSUME NEW s \in Text, NEW t \in Text, NEW n \in 1 .. MaxInputs,
             IsSuffix(s, t)
      PROVE IsSuffix(Append(s, n), Append(t, n))
  <2> DEFINE N == 1 .. MaxInputs
  <2>0. s \in Seq(N) /\ t \in Seq(N) /\ n \in N  BY DEF Text
  <2> HIDE DEF N
  <2>1. /\ Len(s) \in Nat /\ Len(t) \in Nat
        /\ Append(s, n) \in Seq(N) /\ Append(t, n) \in Seq(N)
        /\ Len(Append(s, n)) = Len(s) + 1 /\ Len(Append(t, n)) = Len(t) + 1
        /\ \A i \in 1 .. Len(s) : Append(s, n)[i] = s[i]
        /\ \A i \in 1 .. Len(t) : Append(t, n)[i] = t[i]
        /\ Append(s, n)[Len(s) + 1] = n /\ Append(t, n)[Len(t) + 1] = n
    BY <2>0, LenProperties, AppendProperties
  <2>2. /\ Len(s) <= Len(t)
        /\ \A i \in 1 .. Len(s) : s[Len(s) - i + 1] = t[Len(t) - i + 1]
    BY <1>3, SuffixByIndex
  <2> DEFINE a == Append(s, n) b == Append(t, n)
  <2>3. ASSUME NEW i \in 1 .. Len(a) PROVE a[Len(a) - i + 1] = b[Len(b) - i + 1]
    <3>1. CASE i = 1
      <4>1. Len(a) - i + 1 = Len(s) + 1 /\ Len(b) - i + 1 = Len(t) + 1
        BY <3>1, <2>1
      <4> QED  BY <4>1, <2>1
    <3>2. CASE i \in 2 .. Len(s) + 1
      <4> DEFINE j == i - 1
      <4>1. /\ j \in 1 .. Len(s) /\ Len(s) - j + 1 \in 1 .. Len(s)
            /\ Len(t) - j + 1 \in 1 .. Len(t)
            /\ Len(a) - i + 1 = Len(s) - j + 1 /\ Len(b) - i + 1 = Len(t) - j + 1
        BY <3>2, <2>1, <2>2
      <4> HIDE DEF j
      <4>2. a[Len(s) - j + 1] = s[Len(s) - j + 1]  BY <4>1, <2>1
      <4>3. b[Len(t) - j + 1] = t[Len(t) - j + 1]  BY <4>1, <2>1
      <4>4. s[Len(s) - j + 1] = t[Len(t) - j + 1]  BY <4>1, <2>2
      <4> QED  BY <4>1, <4>2, <4>3, <4>4, Zenon
    <3>3. i = 1 \/ i \in 2 .. Len(s) + 1  BY <2>3, <2>1
    <3> QED  BY <3>1, <3>2, <3>3
  <2>4. a \in Text /\ b \in Text /\ Len(a) <= Len(b)
    BY <2>1, <2>2 DEF Text, N
  <2> HIDE DEF a, b
  <2>5. IsSuffix(a, b)  BY <2>3, <2>4, SuffixByIndex
  <2> QED  BY <2>5 DEF a, b
<1> QED  BY <1>1, <1>2, <1>3

-----------------------------------------------------------------------------
(* Types, and the server that holds the session.                           *)

\* The input being sent is one of the application's, from EnsureSession to the
\* end of EnsureCallCommand.
OpIsInput ==
  pc \in {"ensure", "set_request", "playback", "call"} => op \in Input

\* The inductive invariant of SessionOnCurrentServer.
ServerInv == SessionOnCurrentServer /\ OpIsInput

\* Another server in a result changes nothing else of it.
LEMMA CallFields ==
  ASSUME NEW s, NEW r \in Call(s), NEW v
  PROVE LET q == [r EXCEPT !.server = v]
        IN  q.cost = r.cost /\ q.protocol = r.protocol /\ q.server = v
<1> DEFINE Res == [ok : {r.ok}, status : {r.status}, protocol : {r.protocol},
                   server : {r.server}, session : {r.session}, cost : {r.cost}]
<1>1. r \in Res  BY DEF Call, Result
<1> QED  BY <1>1

\* What any result of Call tells, whatever became of the request.
LEMMA CallResult ==
  ASSUME ServerInv, NEW s \in Text \cup {Lost}, NEW r \in Call(s)
  PROVE /\ r.ok \in BOOLEAN /\ r.status \in Statuses
        /\ r.protocol \in {"older", "same", "newer"}
        /\ r.server \in Versions \cup {"down"}
        /\ r.session \in Text \cup {Lost} /\ r.cost \in {0, 1}
        /\ r.session \in {s, session, Lost}
        /\ r.status = "OK" => server_status = "OK"
        /\ r.ok => /\ r.session = s /\ r.status = server_status
                   /\ r.server = server /\ r.server \in {"older", "same"}
        /\ ~r.ok => r.status # "OK" \/ (r.protocol # "same" /\ r.session = Lost)
        /\ (s # Lost => session # Lost) /\ r.session # Lost => r.server = "same"
<1>1. /\ server_status \in Statuses
      /\ server_protocol_version \in {"older", "same", "newer"}
      /\ server \in Versions \cup {"down"} /\ session \in Text \cup {Lost}
      /\ session # Lost => server = "same"
  BY DEF ServerInv, SessionOnCurrentServer, TypeOK, Text
<1>2. CASE server_status \in Dead
  <2>1. r = Result(FALSE, server_status, server_protocol_version, server, session, 0)
    BY <1>2 DEF Call
  <2>2. /\ r.ok = FALSE /\ r.status = server_status /\ r.server = server
        /\ r.protocol = server_protocol_version /\ r.session = session /\ r.cost = 0
    BY <2>1 DEF Result
  <2> QED  BY <1>1, <1>2, <2>2 DEF Dead
<1>3. CASE server_status \notin Dead /\ server = "down"
  <2> DEFINE status == IF server_status = "UNKNOWN" THEN "UNKNOWN" ELSE "SHUTDOWN"
  <2>1. r = Result(FALSE, status, "same", server, session, 0)
    BY <1>3 DEF Call
  <2>2. /\ r.ok = FALSE /\ r.status = status /\ r.server = server
        /\ r.protocol = "same" /\ r.session = session /\ r.cost = 0
    BY <2>1 DEF Result
  <2> QED  BY <1>1, <1>3, <2>2 DEF Statuses
<1>4. CASE server_status \notin Dead /\ server # "down" /\ ProtocolOf(server) # "same"
  <2>1. r = Result(FALSE, server_status, ProtocolOf(server), server, session, 0)
    BY <1>4 DEF Call
  <2>2. /\ r.ok = FALSE /\ r.status = server_status /\ r.server = server
        /\ r.protocol = ProtocolOf(server) /\ r.session = session /\ r.cost = 0
    BY <2>1 DEF Result
  <2> QED  BY <1>1, <1>4, <2>2 DEF ProtocolOf
<1>5. CASE server_status \notin Dead /\ server # "down" /\ ProtocolOf(server) = "same"
  <2>1. server \in {"older", "same"}  BY <1>1, <1>5 DEF ProtocolOf, Versions
  <2>2. \/ r = Result(TRUE, server_status, "same", server, s, 0)
        \/ r = Result(FALSE, "SHUTDOWN", "same", "down", Lost, 1)
        \/ r = Result(FALSE, "BROKEN_MESSAGE", "same", server, s, 1)
        \/ \E status \in {"SHUTDOWN", "TIMEOUT"}, after \in {session, s} :
             r = Result(FALSE, status, "same", server, after, 1)
    <3> DEFINE A == {Result(TRUE, server_status, "same", server, s, 0),
                     Result(FALSE, "SHUTDOWN", "same", "down", Lost, 1),
                     Result(FALSE, "BROKEN_MESSAGE", "same", server, s, 1)}
               B == {Result(FALSE, "SHUTDOWN", "same", server, after, 1) :
                       after \in {session, s}}
               C == {Result(FALSE, "TIMEOUT", "same", server, after, 1) :
                       after \in {session, s}}
    <3>1. Call(s) = A \cup B \cup C  BY <1>5 DEF Call
    <3>2. r \in A \/ r \in B \/ r \in C
      <4> HIDE DEF A, B, C
      <4> QED  BY <3>1
    <3> QED  BY <3>2
  <2>3. CASE r = Result(TRUE, server_status, "same", server, s, 0)
    <3>1. /\ r.ok = TRUE /\ r.status = server_status /\ r.server = server
          /\ r.protocol = "same" /\ r.session = s /\ r.cost = 0
      BY <2>3 DEF Result
    <3> QED  BY <1>1, <2>1, <3>1
  <2>4. CASE r = Result(FALSE, "SHUTDOWN", "same", "down", Lost, 1)
    <3>1. /\ r.ok = FALSE /\ r.status = "SHUTDOWN" /\ r.server = "down"
          /\ r.protocol = "same" /\ r.session = Lost /\ r.cost = 1
      BY <2>4 DEF Result
    <3> QED  BY <1>1, <3>1 DEF Statuses
  <2>5. ASSUME NEW status \in {"SHUTDOWN", "TIMEOUT", "BROKEN_MESSAGE"},
               NEW after \in {session, s},
               r = Result(FALSE, status, "same", server, after, 1)
        PROVE /\ r.ok = FALSE /\ r.status \in {"SHUTDOWN", "TIMEOUT", "BROKEN_MESSAGE"}
              /\ r.server = server /\ r.protocol = "same"
              /\ r.session \in {session, s} /\ r.cost = 1
    BY <2>5 DEF Result
  <2>6. CASE \E status \in {"SHUTDOWN", "TIMEOUT", "BROKEN_MESSAGE"},
                after \in {session, s} :
               r = Result(FALSE, status, "same", server, after, 1)
    <3>1. /\ r.ok = FALSE /\ r.status \in {"SHUTDOWN", "TIMEOUT", "BROKEN_MESSAGE"}
          /\ r.server = server /\ r.protocol = "same"
          /\ r.session \in {session, s} /\ r.cost = 1
      BY <2>5, <2>6
    <3>2. r.status \in Statuses /\ r.status # "OK"  BY <3>1 DEF Statuses, Dead
    <3> QED  BY <1>1, <3>1, <3>2
  <2> QED  BY <2>2, <2>3, <2>4, <2>6
<1> QED  BY <1>2, <1>3, <1>4, <1>5

\* The session after an input is a composition or Lost, and a lost session
\* stays lost.
LEMMA AfterType ==
  ASSUME TypeOK, NEW input \in Input \cup {CheckVersion}
  PROVE After(input) \in Text \cup {Lost} /\ (After(input) # Lost => session # Lost)
<1>1. session \in Text \cup {Lost}  BY DEF TypeOK, Text
<1> QED  BY <1>1, AppliedType DEF After

\* Take leaves the types of what it changes.
LEMMA TakeType ==
  ASSUME TypeOK, NEW r, Take(r), r.cost \in {0, 1},
         r.protocol \in {"older", "same", "newer"},
         r.server \in Versions \cup {"down"}
  PROVE /\ faults' \in 0 .. MaxFaults
        /\ server_protocol_version' \in {"older", "same", "newer"}
        /\ server' = r.server /\ server' \in Versions \cup {"down"}
  BY ClientAssumption DEF TypeOK, Take

\* EnsureConnection's effect on the server, whatever it returns.
LEMMA ConnectionResult ==
  ASSUME TypeOK, NEW up \in BOOLEAN, EnsureConnection(up)
  PROVE /\ server_status' \in Statuses /\ faults' \in 0 .. MaxFaults
        /\ server' \in Versions \cup {"down"}
        /\ server # "down" => server' = server
        /\ server_status' = "OK" => server_status = "OK"
        /\ up => server_status' \in {"OK", "INVALID_SESSION"}
        /\ server_status # "OK" => server_status' # "OK"
  BY ClientAssumption
  DEF TypeOK, EnsureConnection, StartServer, Statuses, Dead, Versions

\* EnterCall and EnterPlayback leave the types of what they change.
LEMMA EnterCallType ==
  ASSUME TypeOK, EnterCall
  PROVE /\ history_inputs' \in Seq(Input) /\ Len(history_inputs') <= MaxPlayBackSize
        /\ play' \in 0 .. MaxPlayBackSize
        /\ pc' \in {"call", "playback"}
        /\ history_inputs' \in {history_inputs, << >>}
<1>1. << >> \in Seq(Input) /\ Len(<< >>) = 0 /\ MaxPlayBackSize \in Nat
  BY ClientAssumption, EmptySeq
<1>2. CASE UNCHANGED <<history_inputs, play>> /\ pc' = "call"
  BY <1>2 DEF TypeOK
<1>3. CASE EnterPlayback
  <2>1. CASE history_inputs' = << >> /\ pc' = "call" /\ play' = play
    BY <1>1, <2>1 DEF TypeOK
  <2>2. CASE UNCHANGED history_inputs /\ pc' = "playback" /\ play' = 0
    BY <1>1, <2>2 DEF TypeOK
  <2> QED  BY <1>3, <2>1, <2>2 DEF EnterPlayback
<1> QED  BY <1>2, <1>3 DEF EnterCall

\* PushHistory keeps the journal within its limit.
LEMMA PushedType ==
  ASSUME TypeOK, NEW input \in Input
  PROVE /\ Pushed(input) \in Seq(Input) /\ Len(Pushed(input)) <= MaxPlayBackSize
        /\ Pushed(input) \in {history_inputs, << >>, Append(history_inputs, input)}
<1>1. CASE Len(history_inputs) < MaxPlayBackSize
  <2>1. /\ Append(history_inputs, input) \in Seq(Input)
        /\ Len(Append(history_inputs, input)) = Len(history_inputs) + 1
        /\ Len(history_inputs) \in Nat
    BY AppendProperties, LenProperties DEF TypeOK
  <2> QED  BY <1>1, <2>1, EmptySeq, ClientAssumption DEF Pushed, TypeOK
<1>2. CASE ~(Len(history_inputs) < MaxPlayBackSize)
  BY <1>2, EmptySeq, ClientAssumption DEF Pushed, TypeOK
<1> QED  BY <1>1, <1>2

-----------------------------------------------------------------------------
(* ServerInv, action by action.                                            *)

\* The application's own calls.
LEMMA ApplicationKeepsServer ==
  ASSUME ServerInv, NEW kind \in Kinds,
         \/ SendInput(kind) \/ CheckVersionOrRestartServer \/ CallCommand
         \/ Shutdown \/ Reset \/ Destroy
  PROVE ServerInv'
<1> USE ClientAssumption
<1>0. TypeOK /\ (session # Lost => server = "same") /\ OpIsInput
  BY DEF ServerInv, SessionOnCurrentServer
<1>1. session \in Text \cup {Lost} /\ Lost \in Text \cup {Lost}
  BY <1>0 DEF TypeOK, Text
<1>2. CASE SendInput(kind)
  <2>1. inputs + 1 \in 1 .. MaxInputs  BY <1>0, <1>2 DEF SendInput, TypeOK
  <2>2. op' \in Input  BY <1>2, <2>1 DEF SendInput, Input
  <2>3. TypeOK'
    <3>1. /\ pc' = "ensure" /\ retry' = FALSE /\ inputs' = inputs + 1
          /\ UNCHANGED <<server_status, server_protocol_version, history_inputs,
                         has_id, trial, play, installed, server, session, faults>>
      BY <1>2 DEF SendInput, serverVars
    <3>2. inputs' \in 0 .. MaxInputs  BY <2>1, <3>1
    <3>3. retry' \in BOOLEAN /\ op' \in Input \cup {CheckVersion}  BY <2>2, <3>1
    <3> HIDE DEF Input, CheckVersion
    <3> QED  BY <1>0, <3>1, <3>2, <3>3 DEF TypeOK
  <2> QED  BY <1>0, <1>2, <2>2, <2>3
    DEF SendInput, serverVars, ServerInv, SessionOnCurrentServer, OpIsInput
<1>3. CASE CheckVersionOrRestartServer
  <2>1. TypeOK'
    BY <1>0, <1>3 DEF CheckVersionOrRestartServer, TypeOK, serverVars
  <2> QED  BY <1>0, <1>3, <2>1
    DEF CheckVersionOrRestartServer, serverVars, ServerInv,
        SessionOnCurrentServer, OpIsInput
<1>4. CASE CallCommand
  <2>1. PICK r \in Call(session) :
          Take(r) /\ server_status' = r.status /\ session' = r.session
    BY <1>4 DEF CallCommand
  <2>2. /\ r.status \in Statuses /\ r.session \in Text \cup {Lost}
        /\ r.cost \in {0, 1} /\ r.protocol \in {"older", "same", "newer"}
        /\ r.server \in Versions \cup {"down"}
        /\ r.session # Lost => r.server = "same"
    BY <1>1, CallResult
  <2>3. /\ faults' \in 0 .. MaxFaults
        /\ server_protocol_version' \in {"older", "same", "newer"}
        /\ server' = r.server /\ server' \in Versions \cup {"down"}
    BY <1>0, <2>1, <2>2, TakeType
  <2>4. TypeOK'
    BY <1>0, <1>4, <2>1, <2>2, <2>3 DEF CallCommand, TypeOK, Text
  <2> QED  BY <1>0, <1>4, <2>1, <2>2, <2>3, <2>4
    DEF CallCommand, ServerInv, SessionOnCurrentServer, OpIsInput
<1>5. CASE Shutdown
  <2>1. PICK r \in Call(session) :
          /\ Take([r EXCEPT !.server = IF r.ok THEN "down" ELSE r.server])
          /\ server_status' = r.status
          /\ session' = IF r.ok THEN Lost ELSE r.session
    BY <1>5 DEF Shutdown
  <2>2. /\ r.status \in Statuses /\ r.session \in Text \cup {Lost}
        /\ r.cost \in {0, 1} /\ r.protocol \in {"older", "same", "newer"}
        /\ r.server \in Versions \cup {"down"}
        /\ r.session # Lost => r.server = "same"
    BY <1>1, CallResult
  <2> DEFINE q == [r EXCEPT !.server = IF r.ok THEN "down" ELSE r.server]
  <2>3. /\ q.cost = r.cost /\ q.protocol = r.protocol
        /\ q.server = IF r.ok THEN "down" ELSE r.server
    BY CallFields
  <2>4. Take(q)  BY <2>1
  <2> HIDE DEF q
  <2>5. /\ faults' \in 0 .. MaxFaults
        /\ server_protocol_version' \in {"older", "same", "newer"}
        /\ server' = q.server /\ server' \in Versions \cup {"down"}
    BY <1>0, <2>2, <2>3, <2>4, TakeType
  <2>6. session' \in Text \cup {Lost} /\ (session' # Lost => server' = "same")
    BY <1>1, <2>1, <2>2, <2>3, <2>5
  <2>7. TypeOK'
    BY <1>0, <1>5, <2>1, <2>2, <2>5, <2>6 DEF Shutdown, TypeOK, Text
  <2> QED  BY <1>0, <1>5, <2>6, <2>7
    DEF Shutdown, ServerInv, SessionOnCurrentServer, OpIsInput
<1>6. CASE Reset
  <2>1. TypeOK'  BY <1>0, <1>6 DEF Reset, TypeOK, serverVars, Statuses
  <2> QED  BY <1>0, <1>6, <2>1
    DEF Reset, serverVars, ServerInv, SessionOnCurrentServer, OpIsInput
<1>7. CASE Destroy
  <2>1. CASE has_id
    <3>1. PICK r \in Call(Lost) :
            /\ Take(r) /\ server_status' = r.status /\ session' = r.session
            /\ has_id' = ~r.ok
      BY <1>7, <2>1 DEF Destroy
    <3>2. /\ r.status \in Statuses /\ r.session \in Text \cup {Lost}
          /\ r.cost \in {0, 1} /\ r.protocol \in {"older", "same", "newer"}
          /\ r.server \in Versions \cup {"down"}
          /\ r.session # Lost => r.server = "same"
      BY <1>1, CallResult
    <3>3. /\ faults' \in 0 .. MaxFaults
          /\ server_protocol_version' \in {"older", "same", "newer"}
          /\ server' = r.server /\ server' \in Versions \cup {"down"}
      BY <1>0, <3>1, <3>2, TakeType
    <3>4. TypeOK'
      BY <1>0, <1>7, <3>1, <3>2, <3>3 DEF Destroy, TypeOK, Text
    <3> QED  BY <1>0, <1>7, <3>1, <3>2, <3>3, <3>4
      DEF Destroy, ServerInv, SessionOnCurrentServer, OpIsInput
  <2>2. CASE ~has_id
    <3>1. TypeOK'  BY <1>0, <1>7, <2>2 DEF Destroy, TypeOK
    <3> QED  BY <1>0, <1>7, <2>2, <3>1
      DEF Destroy, ServerInv, SessionOnCurrentServer, OpIsInput
  <2> QED  BY <2>1, <2>2
<1> QED  BY <1>2, <1>3, <1>4, <1>5, <1>6, <1>7

\* A step that does not touch the client's own state, or only its place.
LEMMA WorldKeepsServer ==
  ASSUME ServerInv, ServerCrash \/ OtherClientStarts \/ SessionDropped
  PROVE ServerInv'
<1>0. TypeOK /\ (session # Lost => server = "same") /\ OpIsInput
  BY DEF ServerInv, SessionOnCurrentServer
<1>1. /\ faults' \in 0 .. MaxFaults /\ server' \in Versions \cup {"down"}
      /\ session' \in {session, Lost}
      /\ session' # Lost => server' = "same"
      /\ UNCHANGED <<clientVars, installed, inputs>>
  BY <1>0, ClientAssumption
  DEF ServerCrash, OtherClientStarts, SessionDropped, TypeOK, Versions
<1>2. TypeOK'  BY <1>0, <1>1 DEF TypeOK, clientVars
<1> QED  BY <1>0, <1>1, <1>2
  DEF clientVars, ServerInv, SessionOnCurrentServer, OpIsInput

\* EnsureSession: the id is forgotten when the server was not known to run.
LEMMA EnsureSessionKeepsServer ==
  ASSUME ServerInv, EnsureSession
  PROVE ServerInv'
<1>0. TypeOK /\ (session # Lost => server = "same") /\ OpIsInput
  BY DEF ServerInv, SessionOnCurrentServer
<1>1. op \in Input /\ op' = op
  BY <1>0 DEF EnsureSession, OpIsInput
<1>2. UNCHANGED <<server_protocol_version, op, retry, installed, inputs>>
  BY DEF EnsureSession
<1>3. CASE EnsureConnection(FALSE) /\ pc' = "idle"
           /\ UNCHANGED <<history_inputs, has_id, trial, play, session>>
  <2>1. /\ server_status' \in Statuses /\ faults' \in 0 .. MaxFaults
        /\ server' \in Versions \cup {"down"}
        /\ server # "down" => server' = server
    BY <1>0, <1>3, ConnectionResult
  <2>2. TypeOK'  BY <1>0, <1>2, <1>3, <2>1 DEF TypeOK
  <2> QED  BY <1>0, <1>3, <2>1, <2>2
    DEF ServerInv, SessionOnCurrentServer, OpIsInput
<1>4. CASE EnsureConnection(TRUE) /\ EnterCall /\ UNCHANGED <<has_id, trial, session>>
  <2>1. /\ server_status' \in Statuses /\ faults' \in 0 .. MaxFaults
        /\ server' \in Versions \cup {"down"}
        /\ server # "down" => server' = server
    BY <1>0, <1>4, ConnectionResult
  <2>2. /\ history_inputs' \in Seq(Input) /\ Len(history_inputs') <= MaxPlayBackSize
        /\ play' \in 0 .. MaxPlayBackSize /\ pc' \in {"call", "playback"}
    BY <1>0, <1>4, EnterCallType
  <2>3. TypeOK'  BY <1>0, <1>2, <1>4, <2>1, <2>2 DEF TypeOK
  <2> QED  BY <1>0, <1>1, <1>4, <2>1, <2>3
    DEF ServerInv, SessionOnCurrentServer, OpIsInput
<1>5. CASE EnsureConnection(TRUE) /\ pc' = "create" /\ trial' = 0 /\ has_id' = FALSE
           /\ session' = Lost /\ UNCHANGED <<history_inputs, play>>
  <2>1. /\ server_status' \in Statuses /\ faults' \in 0 .. MaxFaults
        /\ server' \in Versions \cup {"down"}
    BY <1>0, <1>5, ConnectionResult
  <2>2. TypeOK'  BY <1>0, <1>2, <1>5, <2>1 DEF TypeOK
  <2> QED  BY <1>5, <2>2 DEF ServerInv, SessionOnCurrentServer, OpIsInput
<1> QED  BY <1>3, <1>4, <1>5 DEF EnsureSession

\* CreateSession: an id is only taken from an answer of a server that is no
\* older than the client.
LEMMA CreateSessionKeepsServer ==
  ASSUME ServerInv, CreateSession
  PROVE ServerInv'
<1> USE ClientAssumption
<1>0. TypeOK /\ (session # Lost => server = "same") /\ OpIsInput
  BY DEF ServerInv, SessionOnCurrentServer
<1>1. /\ session \in Text \cup {Lost} /\ << >> \in Text \cup {Lost}
  BY <1>0, EmptySeq DEF TypeOK, Text
<1> DEFINE s == IF op = CheckVersion THEN session ELSE << >>
<1>2. PICK r \in Call(s) :
       /\ server_protocol_version' = r.protocol
       /\ server' = r.server
       /\ \/ /\ r.ok /\ ~Outdated(r) /\ op # CheckVersion
             /\ SessionCreated
          \/ /\ ~(r.ok /\ ~Outdated(r) /\ op # CheckVersion)
             /\ faults + r.cost <= MaxFaults /\ faults' = faults + r.cost
             /\ session' = IF op = CheckVersion THEN r.session ELSE Lost
             /\ \/ /\ ~r.ok /\ r.protocol = "newer"
                   /\ server_status' = "VERSION_MISMATCH" /\ pc' = "display"
                \/ /\ Outdated(r) /\ trial > 0
                   /\ server_status' = "BROKEN_MESSAGE" /\ pc' = "display"
                \/ /\ Outdated(r) /\ trial = 0
                   /\ server_status' = r.status /\ pc' = "restart"
                \/ /\ ~Outdated(r) /\ r.protocol # "newer"
                   /\ server_status' = r.status
                   /\ pc' = IF r.ok THEN "idle" ELSE "display"
             /\ UNCHANGED <<has_id, history_inputs, play>>
  BY DEF CreateSession
<1>3. UNCHANGED <<op, retry, trial, installed, inputs>>
  BY DEF CreateSession
<1>4. s \in Text \cup {Lost}  BY <1>1
<1> HIDE DEF s
<1>5. /\ r.ok \in BOOLEAN /\ r.status \in Statuses
      /\ r.protocol \in {"older", "same", "newer"}
      /\ r.server \in Versions \cup {"down"}
      /\ r.session \in Text \cup {Lost} /\ r.cost \in {0, 1}
      /\ r.ok => r.server = server /\ r.server \in {"older", "same"}
      /\ (s # Lost => session # Lost) /\ r.session # Lost => r.server = "same"
  BY <1>2, <1>4, CallResult
<1>6. CASE r.ok /\ ~Outdated(r) /\ op # CheckVersion /\ SessionCreated
  <2>1. server' = "same"  BY <1>2, <1>5, <1>6 DEF Outdated
  <2>2. op \in Input  BY <1>0, <1>6 DEF TypeOK
  <2>3. CASE /\ faults < MaxFaults /\ faults' = faults + 1
             /\ server_status' = "INVALID_SESSION" /\ pc' = "display"
             /\ UNCHANGED <<has_id, session, history_inputs, play>>
    <3>1. TypeOK'  BY <1>0, <1>2, <1>3, <1>5, <2>3 DEF TypeOK, Statuses
    <3> QED  BY <2>1, <2>3, <3>1 DEF ServerInv, SessionOnCurrentServer, OpIsInput
  <2>4. CASE /\ has_id' = TRUE /\ session' = << >> /\ UNCHANGED faults
             /\ pc' = "set_request"
             /\ UNCHANGED <<server_status, history_inputs, play>>
    <3>1. TypeOK'  BY <1>0, <1>1, <1>2, <1>3, <1>5, <2>4 DEF TypeOK, Text
    <3> QED  BY <1>3, <2>1, <2>2, <3>1
      DEF ServerInv, SessionOnCurrentServer, OpIsInput
  <2>5. CASE /\ has_id' = TRUE /\ session' = << >> /\ UNCHANGED faults
             /\ server_status' = "OK" /\ EnterCall
    <3>1. /\ history_inputs' \in Seq(Input) /\ Len(history_inputs') <= MaxPlayBackSize
          /\ play' \in 0 .. MaxPlayBackSize /\ pc' \in {"call", "playback"}
      BY <1>0, <2>5, EnterCallType
    <3>2. TypeOK'
      BY <1>0, <1>1, <1>2, <1>3, <1>5, <2>5, <3>1 DEF TypeOK, Text, Statuses
    <3> QED  BY <1>3, <2>1, <2>2, <3>2
      DEF ServerInv, SessionOnCurrentServer, OpIsInput
  <2> QED  BY <1>6, <2>3, <2>4, <2>5 DEF SessionCreated
<1>7. CASE ~(r.ok /\ ~Outdated(r) /\ op # CheckVersion)
  <2>1. /\ faults + r.cost <= MaxFaults /\ faults' = faults + r.cost
        /\ session' = IF op = CheckVersion THEN r.session ELSE Lost
        /\ server_status' \in {"VERSION_MISMATCH", "BROKEN_MESSAGE", r.status}
        /\ pc' \in {"display", "restart", "idle"}
        /\ UNCHANGED <<has_id, history_inputs, play>>
    BY <1>2, <1>7
  <2>2. server_status' \in Statuses  BY <1>5, <2>1 DEF Statuses, Dead
  <2>3. session' \in Text \cup {Lost} /\ (session' # Lost => server' = "same")
    BY <1>2, <1>5, <2>1 DEF s
  <2>4. faults' \in 0 .. MaxFaults  BY <1>0, <1>5, <2>1 DEF TypeOK
  <2>5. TypeOK'
    BY <1>0, <1>2, <1>3, <1>5, <2>1, <2>2, <2>3, <2>4 DEF TypeOK, Text
  <2> QED  BY <2>1, <2>3, <2>5 DEF ServerInv, SessionOnCurrentServer, OpIsInput
<1> QED  BY <1>2, <1>6, <1>7

\* RestartServer and DisplayError.
LEMMA RestartKeepsServer ==
  ASSUME ServerInv, RestartServer \/ DisplayError
  PROVE ServerInv'
<1>0. TypeOK /\ (session # Lost => server = "same") /\ OpIsInput
  BY DEF ServerInv, SessionOnCurrentServer
<1>1. CASE RestartServer
  <2>1. /\ server' \in Versions \cup {"down"} /\ faults' \in 0 .. MaxFaults
        /\ server_status' \in {"INVALID_SESSION", "BROKEN_MESSAGE", "VERSION_MISMATCH"}
        /\ trial' \in {0, 1} /\ pc' \in {"create", "display"}
    BY <1>0, <1>1, ClientAssumption
    DEF RestartServer, Restarted, StartServer, TypeOK
  <2>2. /\ session' = IF server' = server THEN session ELSE Lost
        /\ UNCHANGED <<server_protocol_version, history_inputs, has_id, op, retry,
                       play, installed, inputs>>
    BY <1>1 DEF RestartServer
  <2>3. TypeOK'  BY <1>0, <2>1, <2>2 DEF TypeOK, Statuses, Dead
  <2> QED  BY <1>0, <2>1, <2>2, <2>3
    DEF ServerInv, SessionOnCurrentServer, OpIsInput
<1>2. CASE DisplayError
  <2>1. /\ server_status' \in Statuses /\ faults' \in 0 .. MaxFaults
        /\ server' \in Versions \cup {"down"}
        /\ server # "down" => server' = server
    BY <1>0, <1>2, ConnectionResult DEF DisplayError
  <2>2. /\ pc' = "idle"
        /\ UNCHANGED <<server_protocol_version, history_inputs, has_id, op, retry,
                       trial, play, installed, session, inputs>>
    BY <1>2 DEF DisplayError
  <2>3. TypeOK'  BY <1>0, <2>1, <2>2 DEF TypeOK
  <2> QED  BY <1>0, <2>1, <2>2, <2>3
    DEF ServerInv, SessionOnCurrentServer, OpIsInput
<1> QED  BY <1>1, <1>2

\* The calls to the session: SET_REQUEST, the playback, the two trials.
LEMMA CallsKeepServer ==
  ASSUME ServerInv, SetRequest \/ PlaybackHistory \/ FirstTrial \/ SecondTrial
  PROVE ServerInv'
<1> USE ClientAssumption
<1>0. TypeOK /\ (session # Lost => server = "same") /\ OpIsInput
  BY DEF ServerInv, SessionOnCurrentServer
<1>1. session \in Text \cup {Lost}  BY <1>0 DEF TypeOK, Text
<1>2. op \in Input /\ op' = op
  BY <1>0 DEF SetRequest, PlaybackHistory, FirstTrial, SecondTrial, OpIsInput
<1>3. ASSUME NEW s \in Text \cup {Lost}, s # Lost => session # Lost,
             NEW r \in Call(s), Take(r), session' = r.session
      PROVE /\ r.ok \in BOOLEAN /\ r.status \in Statuses
            /\ r.protocol \in {"older", "same", "newer"}
            /\ faults' \in 0 .. MaxFaults
            /\ server_protocol_version' \in {"older", "same", "newer"}
            /\ server' \in Versions \cup {"down"}
            /\ session' \in Text \cup {Lost}
            /\ session' # Lost => server' = "same"
  <2>1. /\ r.ok \in BOOLEAN /\ r.status \in Statuses
        /\ r.session \in Text \cup {Lost}
        /\ r.cost \in {0, 1} /\ r.protocol \in {"older", "same", "newer"}
        /\ r.server \in Versions \cup {"down"}
        /\ r.session # Lost => r.server = "same"
    BY <1>3, CallResult
  <2>2. /\ faults' \in 0 .. MaxFaults
        /\ server_protocol_version' \in {"older", "same", "newer"}
        /\ server' = r.server /\ server' \in Versions \cup {"down"}
    BY <1>0, <1>3, <2>1, TakeType
  <2> QED  BY <1>3, <2>1, <2>2
<1>4. CASE SetRequest
  <2>1. PICK r \in Call(session) : Take(r) /\ session' = r.session
    BY <1>4 DEF SetRequest
  <2>2. /\ faults' \in 0 .. MaxFaults
        /\ server_protocol_version' \in {"older", "same", "newer"}
        /\ server' \in Versions \cup {"down"}
        /\ session' \in Text \cup {Lost}
        /\ session' # Lost => server' = "same"
    BY <1>1, <1>3, <2>1
  <2>3. /\ history_inputs' \in Seq(Input) /\ Len(history_inputs') <= MaxPlayBackSize
        /\ play' \in 0 .. MaxPlayBackSize /\ pc' \in {"call", "playback"}
    BY <1>0, <1>4, EnterCallType DEF SetRequest
  <2>4. TypeOK'
    BY <1>0, <1>4, <2>2, <2>3 DEF SetRequest, TypeOK, Text, Statuses
  <2> QED  BY <1>2, <2>2, <2>4 DEF ServerInv, SessionOnCurrentServer, OpIsInput
<1>5. CASE PlaybackHistory
  <2>0. UNCHANGED <<history_inputs, has_id, op, retry, trial, installed, inputs>>
    BY <1>5 DEF PlaybackHistory
  <2>1. CASE /\ pc' = "call"
             /\ UNCHANGED <<server_status, server_protocol_version, play, server,
                            session, faults>>
    <3>1. TypeOK'  BY <1>0, <2>0, <2>1 DEF TypeOK
    <3> QED  BY <1>0, <1>2, <2>1, <3>1
      DEF ServerInv, SessionOnCurrentServer, OpIsInput
  <2>2. CASE /\ play < Len(history_inputs)
             /\ \E r \in Call(After(history_inputs[play + 1])) :
                  /\ Take(r)
                  /\ server_status' = r.status /\ session' = r.session
                  /\ IF r.ok THEN play' = play + 1 /\ UNCHANGED pc
                             ELSE pc' = "call" /\ UNCHANGED play
    <3>1. /\ history_inputs[play + 1] \in Input
          /\ play + 1 \in 0 .. MaxPlayBackSize
      <4>1. /\ Len(history_inputs) \in Nat /\ Len(history_inputs) <= MaxPlayBackSize
            /\ play \in Nat /\ history_inputs \in Seq(Input)
        BY <1>0, LenProperties DEF TypeOK
      <4>2. play + 1 \in 1 .. Len(history_inputs)  BY <2>2, <4>1
      <4> QED  BY <4>1, <4>2, ElementOfSeq
    <3> DEFINE s == After(history_inputs[play + 1])
    <3>2. s \in Text \cup {Lost} /\ (s # Lost => session # Lost)
      BY <1>0, <3>1, AfterType
    <3>3. PICK r \in Call(s) :
            /\ Take(r)
            /\ server_status' = r.status /\ session' = r.session
            /\ IF r.ok THEN play' = play + 1 /\ UNCHANGED pc
                       ELSE pc' = "call" /\ UNCHANGED play
      BY <2>2
    <3> HIDE DEF s
    <3>4. /\ r.status \in Statuses /\ faults' \in 0 .. MaxFaults
          /\ server_protocol_version' \in {"older", "same", "newer"}
          /\ server' \in Versions \cup {"down"}
          /\ session' \in Text \cup {Lost}
          /\ session' # Lost => server' = "same"
      BY <1>3, <3>2, <3>3
    <3>5. pc' \in {"playback", "call"} /\ play' \in 0 .. MaxPlayBackSize
      BY <1>0, <1>5, <3>1, <3>3 DEF PlaybackHistory, TypeOK
    <3>6. TypeOK'
      BY <1>0, <2>0, <3>3, <3>4, <3>5 DEF TypeOK, Text
    <3> QED  BY <1>2, <3>4, <3>6 DEF ServerInv, SessionOnCurrentServer, OpIsInput
  <2> QED  BY <1>5, <2>1, <2>2 DEF PlaybackHistory
<1>6. After(op) \in Text \cup {Lost} /\ (After(op) # Lost => session # Lost)
  BY <1>0, <1>2, AfterType
<1>7. /\ Pushed(op) \in Seq(Input) /\ Len(Pushed(op)) <= MaxPlayBackSize
      /\ << >> \in Seq(Input) /\ Len(<< >>) <= MaxPlayBackSize
  BY <1>0, <1>2, PushedType, EmptySeq
<1>8. CASE FirstTrial
  <2>1. PICK r \in Call(After(op)) :
       LET status == IF r.ok /\ session = Lost THEN "INVALID_SESSION"
                     ELSE Checked(r)
           again == status \in {"SHUTDOWN", "INVALID_SESSION"} IN
         /\ Take(r)
         /\ session' = r.session
         /\ server_status' = status
         /\ retry' = again
         /\ pc' = IF again THEN "ensure" ELSE "idle"
         /\ history_inputs' = IF again \/ status \in Dead THEN history_inputs
                              ELSE Pushed(op)
    BY <1>8 DEF FirstTrial
  <2>2. /\ r.status \in Statuses /\ faults' \in 0 .. MaxFaults
        /\ server_protocol_version' \in {"older", "same", "newer"}
        /\ server' \in Versions \cup {"down"}
        /\ session' \in Text \cup {Lost}
        /\ session' # Lost => server' = "same"
    BY <1>3, <1>6, <2>1
  <2>3. server_status' \in Statuses
    BY <2>1, <2>2 DEF Checked, Statuses, Dead
  <2>4. /\ retry' \in BOOLEAN /\ pc' \in {"ensure", "idle"}
        /\ history_inputs' \in {history_inputs, Pushed(op)}
    BY <2>1
  <2>5. UNCHANGED <<has_id, op, trial, play, installed, inputs>>
    BY <1>8 DEF FirstTrial
  <2>6. history_inputs' \in Seq(Input) /\ Len(history_inputs') <= MaxPlayBackSize
    BY <1>0, <1>7, <2>4 DEF TypeOK
  <2>7. TypeOK'
    BY <1>0, <2>2, <2>3, <2>4, <2>5, <2>6 DEF TypeOK, Text
  <2> QED  BY <1>2, <2>2, <2>7 DEF ServerInv, SessionOnCurrentServer, OpIsInput
<1>9. CASE SecondTrial
  <2>1. PICK r \in Call(After(op)) :
       /\ Take(r)
       /\ session' = r.session
       /\ server_status' = Checked(r)
       /\ history_inputs' = IF r.ok THEN Pushed(op) ELSE << >>
    BY <1>9 DEF SecondTrial
  <2>2. /\ r.status \in Statuses /\ faults' \in 0 .. MaxFaults
        /\ server_protocol_version' \in {"older", "same", "newer"}
        /\ server' \in Versions \cup {"down"}
        /\ session' \in Text \cup {Lost}
        /\ session' # Lost => server' = "same"
    BY <1>3, <1>6, <2>1
  <2>3. server_status' \in Statuses
    BY <2>1, <2>2 DEF Checked, Statuses, Dead
  <2>4. pc' = "idle" /\ UNCHANGED <<has_id, op, retry, trial, play, installed, inputs>>
    BY <1>9 DEF SecondTrial
  <2>5. history_inputs' \in {Pushed(op), << >>}  BY <2>1
  <2>6. history_inputs' \in Seq(Input) /\ Len(history_inputs') <= MaxPlayBackSize
    BY <1>7, <2>5
  <2>7. TypeOK'
    BY <1>0, <2>2, <2>3, <2>4, <2>6 DEF TypeOK, Text
  <2> QED  BY <2>2, <2>4, <2>7 DEF ServerInv, SessionOnCurrentServer, OpIsInput
<1> QED  BY <1>4, <1>5, <1>8, <1>9

\* The initial states.
LEMMA InitServerInv == Init => ServerInv
<1>1. << >> \in Seq(Input) /\ Len(<< >>) = 0  BY EmptySeq
<1>2. 0 \in 0 .. MaxPlayBackSize /\ 0 \in 0 .. MaxInputs /\ 0 \in 0 .. MaxFaults
      /\ 0 <= MaxPlayBackSize
  BY ClientAssumption
<1>3. Init => TypeOK
  <2> HIDE DEF CheckVersion, Lost
  <2> QED  BY <1>1, <1>2 DEF Init, TypeOK, Statuses
<1> QED  BY <1>3 DEF Init, ServerInv, SessionOnCurrentServer, OpIsInput

\* Every step.
LEMMA NextServerInv == ServerInv /\ [Next]_vars => ServerInv'
<1> SUFFICES ASSUME ServerInv, [Next]_vars PROVE ServerInv'  OBVIOUS
<1>1. CASE UNCHANGED vars
  BY <1>1 DEF vars, clientVars, serverVars, ServerInv, SessionOnCurrentServer,
              TypeOK, OpIsInput
<1>2. CASE Next
  <2>1. ASSUME NEW kind \in Kinds, SendInput(kind) PROVE ServerInv'
    BY <2>1, ApplicationKeepsServer
  <2>2. CASE CheckVersionOrRestartServer \/ CallCommand \/ Shutdown \/ Reset \/ Destroy
    <3>1. "key" \in Kinds  BY DEF Kinds
    <3> QED  BY <2>2, <3>1, ApplicationKeepsServer
  <2>3. CASE ServerCrash \/ OtherClientStarts \/ SessionDropped
    BY <2>3, WorldKeepsServer
  <2>4. CASE ClientStep
    BY <2>4, EnsureSessionKeepsServer, CreateSessionKeepsServer,
       RestartKeepsServer, CallsKeepServer DEF ClientStep
  <2> QED  BY <1>2, <2>1, <2>2, <2>3, <2>4 DEF Next
<1> QED  BY <1>1, <1>2

\* A session is only ever held in a server that is no older than the client
\* (CheckVersionOrRestartServerInternal), whatever dies and restarts between
\* the calls of EnsureSession, of the restart and of the playback.
THEOREM SessionOnCurrentServerHolds == Spec => []SessionOnCurrentServer
<1>1. ServerInv => SessionOnCurrentServer  BY DEF ServerInv
<1> QED  BY <1>1, InitServerInv, NextServerInv, PTL DEF Spec

-----------------------------------------------------------------------------
(* The journal and the session.                                            *)

\* A session just created is empty.
FreshSession == pc = "set_request" => session \in {<< >>, Lost}

\* The second trial starts from a session known to be lost.
RetryAfterLoss == pc = "ensure" /\ retry => server_status # "OK"

\* During the playback the session shows the inputs played so far.
PlaybackFollows ==
  pc = "playback" =>
    /\ play <= Len(history_inputs)
    /\ server_status = "OK" /\ session # Lost
         => session = Shown(history_inputs)[play]

\* JournalCoversSession, at every step outside of the playback.
JournalHolds ==
  (pc # "playback" /\ server_status = "OK" /\ session # Lost
     /\ Len(history_inputs) < MaxPlayBackSize)
    => IsSuffix(session, Composition(history_inputs))

\* The inductive invariant of PlaybackRestores and JournalCoversSession.
JournalInv ==
  /\ FreshSession /\ RetryAfterLoss /\ PlaybackFollows
  /\ PlaybackRestores /\ JournalHolds

\* Steps that do not send an input: they keep the journal, and the session
\* unless they lose it.
LEMMA QuietKeepsJournal ==
  ASSUME ServerInv, ServerInv', JournalInv,
         UNCHANGED history_inputs, session' \in {session, Lost},
         server_status' = "OK" => server_status = "OK",
         \/ UNCHANGED <<pc, play, retry, server_status>>
         \/ /\ pc # "playback"
            /\ pc' \notin {"set_request", "playback", "call"}
            /\ ~(pc' = "ensure" /\ retry')
  PROVE JournalInv'
  BY DEF JournalInv, FreshSession, RetryAfterLoss, PlaybackFollows,
         PlaybackRestores, JournalHolds

\* EnterCall from an empty session, or without a retry.
LEMMA EnterCallKeepsJournal ==
  ASSUME ServerInv, ServerInv', JournalInv, EnterCall, UNCHANGED retry,
         \/ session' \in {<< >>, Lost}
         \/ ~retry /\ pc # "playback" /\ session' = session /\ server_status = "OK"
  PROVE JournalInv'
<1>1. /\ TypeOK /\ TypeOK'  BY DEF ServerInv, SessionOnCurrentServer
<1>2. /\ history_inputs \in Seq(Input) /\ Len(history_inputs) \in Nat
      /\ << >> \in Seq(Input) /\ Len(<< >>) = 0
      /\ MaxPlayBackSize \in Nat
  BY <1>1, LenProperties, EmptySeq, ClientAssumption DEF TypeOK
<1>3. /\ Composition(<< >>) = << >> /\ Composition(history_inputs) \in Text
      /\ Shown(history_inputs)[0] = << >> /\ << >> \in Text
  BY <1>2, CompositionOf, ShownUnfolds, EmptySeq DEF Text
<1>4. \A t \in Text : IsSuffix(<< >>, t)  BY SuffixOf
<1>5. CASE session' \in {<< >>, Lost}
  <2>1. CASE ~retry /\ pc' = "call" /\ UNCHANGED <<history_inputs, play>>
    BY <1>3, <1>4, <1>5, <2>1
    DEF JournalInv, FreshSession, RetryAfterLoss, PlaybackFollows,
        PlaybackRestores, JournalHolds
  <2>2. CASE pc' = "call" /\ history_inputs' = << >> /\ UNCHANGED play
    BY <1>3, <1>4, <1>5, <2>2
    DEF JournalInv, FreshSession, RetryAfterLoss, PlaybackFollows,
        PlaybackRestores, JournalHolds
  <2>3. CASE pc' = "playback" /\ play' = 0 /\ UNCHANGED history_inputs
    BY <1>2, <1>3, <1>5, <2>3
    DEF JournalInv, FreshSession, RetryAfterLoss, PlaybackFollows,
        PlaybackRestores, JournalHolds
  <2> QED  BY <2>1, <2>2, <2>3 DEF EnterCall, EnterPlayback
<1>6. CASE ~retry /\ pc # "playback" /\ session' = session /\ server_status = "OK"
  <2>1. pc' = "call" /\ UNCHANGED <<history_inputs, play>>
    BY <1>6 DEF EnterCall
  <2> QED  BY <1>6, <2>1
    DEF JournalInv, FreshSession, RetryAfterLoss, PlaybackFollows,
        PlaybackRestores, JournalHolds
<1> QED  BY <1>5, <1>6

\* An input that the session has served and PushHistory has recorded: what
\* the journal covers, it still covers.
LEMMA PushedCovers ==
  ASSUME TypeOK, NEW input \in Input, session # Lost,
         Len(history_inputs) < MaxPlayBackSize
           => IsSuffix(session, Composition(history_inputs)),
         Len(Pushed(input)) < MaxPlayBackSize
  PROVE IsSuffix(Applied(session, input), Composition(Pushed(input)))
<1>1. /\ session \in Text /\ history_inputs \in Seq(Input)
      /\ Len(history_inputs) \in Nat /\ MaxPlayBackSize \in Nat
      /\ input.kind \in Kinds /\ input.n \in 1 .. MaxInputs
      /\ Len(history_inputs) <= MaxPlayBackSize
  BY LenProperties, ClientAssumption DEF TypeOK, Text, Input
<1>2. /\ Composition(<< >>) = << >> /\ Composition(history_inputs) \in Text
      /\ Composition(Append(history_inputs, input))
           = Applied(Composition(history_inputs), input)
      /\ << >> \in Text
  BY <1>1, CompositionOf, EmptySeq DEF Text
<1>3. CASE input.kind = "echo" \/ ~Consumed(session, input)
  <2>1. Pushed(input) = history_inputs
    BY <1>3 DEF Pushed, Consumed
  <2>2. IsSuffix(session, Composition(history_inputs))  BY <2>1
  <2>3. Applied(session, input) \in {session, << >>}
    BY <1>1, <1>3 DEF Applied, Consumed, Kinds
  <2> QED  BY <1>2, <2>1, <2>2, <2>3, SuffixOf
<1>4. CASE input.kind = "commit_key" /\ Consumed(session, input)
  <2>1. Pushed(input) = << >> /\ Applied(session, input) = << >>
    BY <1>4 DEF Pushed, Applied
  <2> QED  BY <1>2, <2>1, SuffixOf
<1>5. CASE /\ input.kind \in {"key", "commit_command", "test"}
           /\ Consumed(session, input)
  <2>1. Len(history_inputs) < MaxPlayBackSize
    BY <1>1, <1>5 DEF Pushed
  <2>2. Pushed(input) = Append(history_inputs, input)
    BY <1>5, <2>1 DEF Pushed
  <2>3. IsSuffix(session, Composition(history_inputs))  BY <2>1
  <2> DEFINE c == Composition(history_inputs)
  <2>4. IsSuffix(Applied(session, input), Applied(c, input))
    <3> HIDE DEF c
    <3>1. c \in Text /\ IsSuffix(session, c)  BY <1>2, <2>3 DEF c
    <3>2. CASE input.kind = "key"
      <4>1. /\ Applied(session, input) = Append(session, input.n)
            /\ Applied(c, input) = Append(c, input.n)
        BY <3>2 DEF Applied
      <4> QED  BY <1>1, <3>1, <4>1, SuffixOf
    <3>3. CASE input.kind = "commit_command"
      <4>1. Applied(session, input) = << >> /\ Applied(c, input) = << >>
        BY <3>3 DEF Applied
      <4> QED  BY <1>2, <4>1, SuffixOf
    <3>4. CASE input.kind = "test"
      <4>1. Applied(session, input) = session /\ Applied(c, input) = c
        BY <3>4 DEF Applied
      <4> QED  BY <3>1, <4>1
    <3> QED  BY <1>5, <3>2, <3>3, <3>4
  <2> QED  BY <1>2, <2>2, <2>4
<1> QED  BY <1>1, <1>3, <1>4, <1>5 DEF Kinds, Consumed

\* The application's calls and the world.
LEMMA OthersKeepJournal ==
  ASSUME ServerInv, ServerInv', JournalInv, NEW kind \in Kinds,
         \/ SendInput(kind) \/ CheckVersionOrRestartServer \/ CallCommand
         \/ Shutdown \/ Reset \/ Destroy
         \/ ServerCrash \/ OtherClientStarts \/ SessionDropped
  PROVE JournalInv'
<1>1. session \in Text \cup {Lost}
  BY DEF ServerInv, SessionOnCurrentServer, TypeOK, Text
<1>2. CASE SendInput(kind) \/ CheckVersionOrRestartServer \/ Reset
  <2>1. /\ UNCHANGED <<history_inputs, session>>
        /\ server_status' = "OK" => server_status = "OK"
        /\ pc = "idle" /\ pc' \in {"idle", "ensure", "create"}
        /\ pc' = "ensure" => ~retry'
    BY <1>2 DEF SendInput, CheckVersionOrRestartServer, Reset, serverVars
  <2> QED  BY <2>1, QuietKeepsJournal
<1>3. CASE CallCommand \/ Shutdown
  <2>1. PICK r \in Call(session) :
          server_status' = r.status /\ session' \in {r.session, Lost}
    BY <1>3 DEF CallCommand, Shutdown
  <2>2. /\ r.session \in {session, Lost}
        /\ r.status = "OK" => server_status = "OK"
    BY <1>1, CallResult
  <2>3. pc = "idle" /\ pc' = "idle" /\ UNCHANGED history_inputs
    BY <1>3 DEF CallCommand, Shutdown
  <2> QED  BY <2>1, <2>2, <2>3, QuietKeepsJournal
<1>4. CASE Destroy
  <2>1. /\ session' \in {session, Lost}
        /\ server_status' = "OK" => server_status = "OK"
    <3>1. CASE has_id
      <4>1. PICK r \in Call(Lost) : server_status' = r.status /\ session' = r.session
        BY <1>4, <3>1 DEF Destroy
      <4>2. /\ r.session \in {session, Lost}
            /\ r.status = "OK" => server_status = "OK"
        BY <1>1, CallResult
      <4> QED  BY <4>1, <4>2
    <3>2. CASE ~has_id  BY <1>4, <3>2 DEF Destroy
    <3> QED  BY <3>1, <3>2
  <2>2. pc = "idle" /\ pc' = "closed" /\ UNCHANGED history_inputs
    BY <1>4 DEF Destroy
  <2> QED  BY <2>1, <2>2, QuietKeepsJournal
<1>5. CASE ServerCrash \/ OtherClientStarts \/ SessionDropped
  <2>1. /\ UNCHANGED <<history_inputs, pc, play, retry, server_status>>
        /\ session' \in {session, Lost}
    BY <1>5 DEF ServerCrash, OtherClientStarts, SessionDropped, clientVars
  <2> QED  BY <2>1, QuietKeepsJournal
<1> QED  BY <1>2, <1>3, <1>4, <1>5

\* EnsureSession, CreateSession, the restart and SET_REQUEST.
LEMMA EnsureKeepsJournal ==
  ASSUME ServerInv, ServerInv', JournalInv,
         EnsureSession \/ CreateSession \/ RestartServer \/ DisplayError \/ SetRequest
  PROVE JournalInv'
<1>0. TypeOK /\ session \in Text \cup {Lost} /\ << >> \in Text
  BY EmptySeq DEF ServerInv, SessionOnCurrentServer, TypeOK, Text
<1>1. CASE EnsureSession
  <2>1. pc = "ensure" /\ UNCHANGED retry  BY <1>1 DEF EnsureSession
  <2>2. CASE EnsureConnection(FALSE) /\ pc' = "idle"
             /\ UNCHANGED <<history_inputs, session>>
    <3>1. server_status' = "OK" => server_status = "OK"
      BY <1>0, <2>2, ConnectionResult
    <3> QED  BY <2>1, <2>2, <3>1, QuietKeepsJournal
  <2>3. CASE server_status = "OK" /\ EnterCall /\ UNCHANGED session
    <3>1. ~retry  BY <2>1, <2>3 DEF JournalInv, RetryAfterLoss
    <3> QED  BY <2>1, <2>3, <3>1, EnterCallKeepsJournal
  <2>4. CASE EnsureConnection(TRUE) /\ pc' = "create" /\ session' = Lost
             /\ UNCHANGED history_inputs
    <3>1. server_status' = "OK" => server_status = "OK"
      BY <1>0, <2>4, ConnectionResult
    <3> QED  BY <2>1, <2>4, <3>1, QuietKeepsJournal
  <2> QED  BY <1>1, <2>2, <2>3, <2>4 DEF EnsureSession
<1>2. CASE CreateSession
  <2> DEFINE s == IF op = CheckVersion THEN session ELSE << >>
  <2>1. pc = "create" /\ UNCHANGED retry  BY <1>2 DEF CreateSession
  <2>2. PICK r \in Call(s) :
          \/ SessionCreated
          \/ /\ session' = IF op = CheckVersion THEN r.session ELSE Lost
             /\ server_status' \in {"VERSION_MISMATCH", "BROKEN_MESSAGE", r.status}
             /\ pc' \in {"display", "restart", "idle"}
             /\ UNCHANGED history_inputs
    BY <1>2 DEF CreateSession
  <2>3. CASE SessionCreated
    <3>1. CASE /\ server_status' = "INVALID_SESSION" /\ pc' = "display"
               /\ UNCHANGED <<session, history_inputs>>
      BY <2>1, <3>1, QuietKeepsJournal
    <3>2. CASE /\ session' = << >> /\ pc' = "set_request"
               /\ UNCHANGED <<server_status, history_inputs>>
      <4>1. IsSuffix(<< >>, Composition(history_inputs))
        BY <1>0, CompositionOf, SuffixOf DEF TypeOK
      <4> QED  BY <3>2, <4>1
        DEF JournalInv, FreshSession, RetryAfterLoss, PlaybackFollows,
            PlaybackRestores, JournalHolds
    <3>3. CASE session' = << >> /\ EnterCall
      BY <2>1, <3>3, EnterCallKeepsJournal
    <3> QED  BY <2>3, <3>1, <3>2, <3>3 DEF SessionCreated
  <2>4. CASE /\ session' = IF op = CheckVersion THEN r.session ELSE Lost
             /\ server_status' \in {"VERSION_MISMATCH", "BROKEN_MESSAGE", r.status}
             /\ pc' \in {"display", "restart", "idle"}
             /\ UNCHANGED history_inputs
    <3>1. s \in Text \cup {Lost}  BY <1>0
    <3>2. /\ r.session \in {s, session, Lost}
          /\ r.status = "OK" => server_status = "OK"
      <4> HIDE DEF s
      <4> QED  BY <3>1, CallResult
    <3>3. /\ session' \in {session, Lost}
          /\ server_status' = "OK" => server_status = "OK"
      BY <2>4, <3>2
    <3> QED  BY <2>1, <2>4, <3>3, QuietKeepsJournal
  <2> QED  BY <2>2, <2>3, <2>4
<1>3. CASE RestartServer
  <2>1. /\ pc = "restart" /\ pc' \in {"create", "display"}
        /\ session' \in {session, Lost} /\ server_status' # "OK"
        /\ UNCHANGED history_inputs
    BY <1>3 DEF RestartServer, Restarted
  <2> QED  BY <2>1, QuietKeepsJournal
<1>4. CASE DisplayError
  <2>1. server_status' = "OK" => server_status = "OK"
    BY <1>0, <1>4, ConnectionResult DEF DisplayError
  <2>2. pc = "display" /\ pc' = "idle" /\ UNCHANGED <<history_inputs, session>>
    BY <1>4 DEF DisplayError
  <2> QED  BY <2>1, <2>2, QuietKeepsJournal
<1>5. CASE SetRequest
  <2>1. PICK r \in Call(session) : session' = r.session
    BY <1>5 DEF SetRequest
  <2>2. r.session \in {session, Lost}  BY <1>0, CallResult
  <2>3. session \in {<< >>, Lost}
    BY <1>5 DEF SetRequest, JournalInv, FreshSession
  <2>4. EnterCall /\ UNCHANGED retry  BY <1>5 DEF SetRequest
  <2>5. session' \in {<< >>, Lost}  BY <2>1, <2>2, <2>3
  <2> QED  BY <2>4, <2>5, EnterCallKeepsJournal
<1> QED  BY <1>1, <1>2, <1>3, <1>4, <1>5

\* The playback applies the next input of the journal, or ends.
LEMMA PlaybackKeepsJournal ==
  ASSUME ServerInv, ServerInv', JournalInv, PlaybackHistory
  PROVE JournalInv'
<1>0. /\ TypeOK /\ session \in Text \cup {Lost} /\ history_inputs \in Seq(Input)
      /\ Len(history_inputs) \in Nat /\ play \in Nat
  BY LenProperties DEF ServerInv, SessionOnCurrentServer, TypeOK, Text
<1>1. /\ pc = "playback" /\ UNCHANGED <<history_inputs, retry>>
      /\ server_status = "OK" /\ session # Lost
           => session = Shown(history_inputs)[play]
  BY DEF PlaybackHistory, JournalInv, PlaybackFollows
<1>2. CASE /\ play = Len(history_inputs) /\ pc' = "call"
           /\ UNCHANGED <<server_status, session>>
  <2>1. server_status = "OK" /\ session # Lost => session = Composition(history_inputs)
    BY <1>1, <1>2 DEF Composition
  <2>2. IsSuffix(Composition(history_inputs), Composition(history_inputs))
    BY <1>0, CompositionOf, SuffixOf
  <2> QED  BY <1>1, <1>2, <2>1, <2>2
    DEF JournalInv, FreshSession, RetryAfterLoss, PlaybackFollows,
        PlaybackRestores, JournalHolds
<1>3. CASE /\ play < Len(history_inputs)
           /\ \E r \in Call(After(history_inputs[play + 1])) :
                /\ server_status' = r.status /\ session' = r.session
                /\ IF r.ok THEN play' = play + 1 /\ UNCHANGED pc
                           ELSE pc' = "call" /\ UNCHANGED play
  <2>1. play + 1 \in 1 .. Len(history_inputs) /\ (play + 1) - 1 = play
    BY <1>0, <1>3
  <2>2. history_inputs[play + 1] \in Input  BY <1>0, <2>1, ElementOfSeq
  <2> DEFINE input == history_inputs[play + 1]
             s == After(input)
  <2>3. s \in Text \cup {Lost}  BY <1>0, <2>2, AfterType
  <2>4. PICK r \in Call(s) :
          /\ server_status' = r.status /\ session' = r.session
          /\ IF r.ok THEN play' = play + 1 /\ UNCHANGED pc
                     ELSE pc' = "call" /\ UNCHANGED play
    BY <1>3
  <2>5. Shown(history_inputs)[play + 1] = Applied(Shown(history_inputs)[play], input)
    BY <1>0, <2>1, ShownUnfolds
  <2>6. /\ r.ok => r.session = s /\ r.status = server_status
        /\ ~r.ok => r.status # "OK" \/ r.session = Lost
    <3> HIDE DEF s
    <3> QED  BY <2>3, CallResult
  <2>7. CASE r.ok
    <3>1. server_status' = "OK" /\ session' # Lost
            => session' = Shown(history_inputs)[play + 1]
      BY <1>1, <2>4, <2>5, <2>6, <2>7 DEF After
    <3>2. pc' = "playback" /\ play' = play + 1 /\ play' <= Len(history_inputs)
      BY <1>1, <2>1, <2>4, <2>7
    <3> QED  BY <1>1, <3>1, <3>2
      DEF JournalInv, FreshSession, RetryAfterLoss, PlaybackFollows,
          PlaybackRestores, JournalHolds
  <2>8. CASE ~r.ok
    <3>1. pc' = "call" /\ (server_status' # "OK" \/ session' = Lost)
      BY <2>4, <2>6, <2>8
    <3> QED  BY <3>1
      DEF JournalInv, FreshSession, RetryAfterLoss, PlaybackFollows,
          PlaybackRestores, JournalHolds
  <2> QED  BY <2>7, <2>8
<1> QED  BY <1>2, <1>3 DEF PlaybackHistory

\* The user's input: what is served is recorded, or the journal starts anew.
LEMMA TrialsKeepJournal ==
  ASSUME ServerInv, ServerInv', JournalInv, FirstTrial \/ SecondTrial
  PROVE JournalInv'
<1>0. TypeOK /\ session \in Text \cup {Lost} /\ op \in Input
  BY DEF ServerInv, SessionOnCurrentServer, TypeOK, Text, OpIsInput,
         FirstTrial, SecondTrial
<1>1. /\ pc = "call"
      /\ server_status = "OK" /\ session # Lost
           /\ Len(history_inputs) < MaxPlayBackSize
         => IsSuffix(session, Composition(history_inputs))
  BY DEF FirstTrial, SecondTrial, JournalInv, JournalHolds
<1>2. After(op) \in Text \cup {Lost}  BY <1>0, AfterType
<1>3. PICK r \in Call(After(op)) :
        /\ session' = r.session
        /\ pc' \in {"idle", "ensure"}
        /\ pc' = "ensure" => server_status' # "OK"
        /\ server_status' = "OK" => Checked(r) = "OK"
        /\ r.ok /\ session # Lost /\ server_status' = "OK"
             => history_inputs' = Pushed(op)
  BY DEF FirstTrial, SecondTrial, Dead
<1>4. /\ r.status = "OK" => server_status = "OK"
      /\ r.ok => r.session = After(op)
      /\ ~r.ok => r.status # "OK" \/ r.protocol # "same"
  BY <1>2, CallResult
<1>5. server_status' = "OK" => r.ok /\ server_status = "OK"
  BY <1>3, <1>4 DEF Checked
<1>6. SUFFICES ASSUME server_status' = "OK", session' # Lost, pc' = "idle",
                      Len(history_inputs') < MaxPlayBackSize
      PROVE IsSuffix(session', Composition(history_inputs'))
  BY <1>3 DEF JournalInv, FreshSession, RetryAfterLoss, PlaybackFollows,
              PlaybackRestores, JournalHolds
<1>7. session # Lost /\ session' = Applied(session, op)
  BY <1>3, <1>4, <1>5, <1>6 DEF After
<1>8. history_inputs' = Pushed(op)  BY <1>3, <1>5, <1>6, <1>7
<1>9. IsSuffix(Applied(session, op), Composition(Pushed(op)))
  BY <1>0, <1>1, <1>5, <1>6, <1>7, <1>8, PushedCovers
<1> QED  BY <1>7, <1>8, <1>9

\* The initial states.
LEMMA InitJournalInv == Init => JournalInv
  BY DEF Init, JournalInv, FreshSession, RetryAfterLoss, PlaybackFollows,
         PlaybackRestores, JournalHolds

\* Every step.
LEMMA NextJournalInv ==
  ServerInv /\ ServerInv' /\ JournalInv /\ [Next]_vars => JournalInv'
<1> SUFFICES ASSUME ServerInv, ServerInv', JournalInv, [Next]_vars
    PROVE JournalInv'
  OBVIOUS
<1>1. CASE UNCHANGED vars
  <2>1. UNCHANGED <<history_inputs, session, pc, play, retry, server_status>>
    BY <1>1 DEF vars, clientVars, serverVars
  <2> QED  BY <2>1, QuietKeepsJournal
<1>2. CASE Next
  <2>1. ASSUME NEW kind \in Kinds, SendInput(kind) PROVE JournalInv'
    BY <2>1, OthersKeepJournal
  <2>2. CASE \/ CheckVersionOrRestartServer \/ CallCommand \/ Shutdown \/ Reset
             \/ Destroy \/ ServerCrash \/ OtherClientStarts \/ SessionDropped
    <3>1. "key" \in Kinds  BY DEF Kinds
    <3> QED  BY <2>2, <3>1, OthersKeepJournal
  <2>3. CASE ClientStep
    BY <2>3, EnsureKeepsJournal, PlaybackKeepsJournal, TrialsKeepJournal
    DEF ClientStep
  <2> QED  BY <1>2, <2>1, <2>2, <2>3 DEF Next
<1> QED  BY <1>1, <1>2

\* Both invariants together.
LEMMA ClientInvariant == Spec => [](ServerInv /\ JournalInv)
  BY InitServerInv, NextServerInv, InitJournalInv, NextJournalInv, PTL DEF Spec

\* The second trial of EnsureCallCommand finds a restored session that shows
\* exactly what the journal says (PlaybackHistory), whatever died in between.
THEOREM PlaybackRestoresHolds == Spec => []PlaybackRestores
<1>1. JournalInv => PlaybackRestores  BY DEF JournalInv
<1> QED  BY <1>1, ClientInvariant, PTL

\* Between calls, the composition in the server is the end of what playing the
\* journal (PushHistory) back gives, unless the journal is full.
THEOREM JournalCoversSessionHolds == Spec => []JournalCoversSession
<1>1. JournalInv => JournalCoversSession
  BY DEF JournalInv, JournalHolds, JournalCoversSession
<1> QED  BY <1>1, ClientInvariant, PTL
=============================================================================
