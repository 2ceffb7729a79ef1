------------------------ MODULE SessionHandlerProofs ------------------------
(***************************************************************************)
(* Proofs about the command handler (SessionHandler.tla), for any sets of  *)
(* ids, settings and times and any values of the flags.                    *)
(***************************************************************************)
EXTENDS SessionHandler, TLAPS, SequenceTheorems, FiniteSetTheorems,
        WellFoundedInduction

-----------------------------------------------------------------------------
(* Induction on the natural numbers, for a set instead of a predicate.     *)

\* A set with 0 that is closed under successor holds every natural number.
LEMMA NatSetInduction ==
  ASSUME NEW S, 0 \in S, \A n \in Nat : n \in S => n + 1 \in S
  PROVE Nat \subseteq S
<1> DEFINE R == {ss \in Nat \X Nat : ss[1] < ss[2]}
<1>1. IsWellFoundedOn(R, Nat)
  <2>1. IsWellFoundedOn(OpToRel(<, Nat), Nat)  BY NatLessThanWellFounded
  <2> QED  BY <2>1 DEF OpToRel
<1>2. SUFFICES ASSUME Nat \ S # {} PROVE FALSE  OBVIOUS
<1>3. PICK x \in Nat \ S : \A y \in Nat \ S : ~ (<<y, x>> \in R)
  <2> HIDE DEF R
  <2> QED  BY <1>1, <1>2, WFMin
<1>4. x # 0  BY <1>3
<1>5. x - 1 \in Nat /\ x = (x - 1) + 1  BY <1>3, <1>4
<1>6. <<x - 1, x>> \in R  BY <1>3, <1>5
<1>7. x - 1 \in S
  <2> HIDE DEF R
  <2> QED  BY <1>3, <1>5, <1>6
<1> QED  BY <1>3, <1>5, <1>7

-----------------------------------------------------------------------------
(* What Rest and Unlinked compute.                                         *)

\* The equation that Rest is the solution of, up to n.
RestUpTo(f, q, ks, n) ==
  f = [i \in 0 .. n |->
        IF i = 0 THEN << >>
        ELSE IF q[i] \in ks THEN f[i - 1] ELSE Append(f[i - 1], q[i])]

\* One step of the equation.
Keep(c, x, ks) == IF x \in ks THEN c ELSE Append(c, x)

\* The equation has a solution for each length.
LEMMA RestExists ==
  ASSUME NEW q, NEW ks, NEW m \in Nat
  PROVE \E f : RestUpTo(f, q, ks, m)
<1> DEFINE S == {n \in Nat : \E f : RestUpTo(f, q, ks, n)}
<1>1. 0 \in S
  <2> DEFINE g == [i \in 0 .. 0 |-> << >>]
  <2>1. RestUpTo(g, q, ks, 0)  BY DEF RestUpTo
  <2> QED  BY <2>1
<1>2. ASSUME NEW n \in Nat, n \in S PROVE n + 1 \in S
  <2>1. PICK f : RestUpTo(f, q, ks, n)  BY <1>2
  <2> DEFINE g == [i \in 0 .. n + 1 |->
                     IF i = n + 1 THEN Keep(f[n], q[n + 1], ks) ELSE f[i]]
             e == [i \in 0 .. n + 1 |->
                     IF i = 0 THEN << >> ELSE Keep(g[i - 1], q[i], ks)]
  <2>2. \A i \in 0 .. n : f[i] = IF i = 0 THEN << >> ELSE Keep(f[i - 1], q[i], ks)
    BY <2>1 DEF RestUpTo, Keep
  <2>3. ASSUME NEW i \in 0 .. n + 1 PROVE g[i] = e[i]
    <3>1. CASE i = 0  BY <3>1, <2>2
    <3>2. CASE i \in 1 .. n
      <4>1. g[i] = f[i] /\ g[i - 1] = f[i - 1]  BY <3>2
      <4>2. f[i] = Keep(f[i - 1], q[i], ks)  BY <3>2, <2>2
      <4>3. e[i] = Keep(g[i - 1], q[i], ks)  BY <3>2
      <4> QED  BY <4>1, <4>2, <4>3
    <3>3. CASE i = n + 1
      <4>1. g[i] = Keep(f[n], q[n + 1], ks) /\ g[i - 1] = f[n]  BY <3>3
      <4>2. e[i] = Keep(g[i - 1], q[i], ks)  BY <3>3
      <4> QED  BY <4>1, <4>2, <3>3
    <3> QED  BY <3>1, <3>2, <3>3
  <2>4. g = e  BY <2>3
  <2>5. RestUpTo(g, q, ks, n + 1)  BY <2>4 DEF RestUpTo, Keep
  <2> HIDE DEF g
  <2> QED  BY <2>5
<1>3. Nat \subseteq S
  <2> HIDE DEF S
  <2> QED  BY <1>1, <1>2, NatSetInduction
<1> QED  BY <1>3

\* Rest starts with no key and keeps or drops one key at a time.
LEMMA RestUnfolds ==
  ASSUME NEW q, NEW ks, Len(q) \in Nat
  PROVE /\ Rest(q, ks)[0] = << >>
        /\ \A i \in 1 .. Len(q) :
             Rest(q, ks)[i] = IF q[i] \in ks THEN Rest(q, ks)[i - 1]
                              ELSE Append(Rest(q, ks)[i - 1], q[i])
<1>1. Rest(q, ks) = CHOOSE f : RestUpTo(f, q, ks, Len(q))  BY DEF Rest, RestUpTo
<1>2. RestUpTo(Rest(q, ks), q, ks, Len(q))  BY <1>1, RestExists
<1> DEFINE r == Rest(q, ks)
<1> HIDE DEF r
<1>3. r = [i \in 0 .. Len(q) |->
            IF i = 0 THEN << >>
            ELSE IF q[i] \in ks THEN r[i - 1] ELSE Append(r[i - 1], q[i])]
  BY <1>2 DEF RestUpTo, r
<1>4. 0 \in 0 .. Len(q) /\ \A i \in 1 .. Len(q) : i \in 0 .. Len(q) /\ i # 0
  OBVIOUS
<1>5. r[0] = << >>  BY <1>3, <1>4
<1>6. \A i \in 1 .. Len(q) :
        r[i] = IF q[i] \in ks THEN r[i - 1] ELSE Append(r[i - 1], q[i])
  BY <1>3, <1>4
<1> QED  BY <1>5, <1>6 DEF r

\* The keys of a list, and lists that hold no key twice.
Keys(q) == {q[i] : i \in 1 .. Len(q)}
Once(q) == \A i, j \in 1 .. Len(q) : q[i] = q[j] => i = j

\* A key put at the end of a list that does not hold it.
LEMMA AppendKey ==
  ASSUME NEW S, NEW q \in Seq(S), NEW x \in S
  PROVE /\ Append(q, x) \in Seq(S)
        /\ Keys(Append(q, x)) = Keys(q) \cup {x}
        /\ Once(q) /\ x \notin Keys(q) => Once(Append(q, x))
<1>1. /\ Len(q) \in Nat /\ Append(q, x) \in Seq(S)
      /\ Len(Append(q, x)) = Len(q) + 1
      /\ \A i \in 1 .. Len(q) : Append(q, x)[i] = q[i]
      /\ Append(q, x)[Len(q) + 1] = x
  BY LenProperties, AppendProperties
<1>2. 1 .. Len(q) + 1 = (1 .. Len(q)) \cup {Len(q) + 1}  BY <1>1
<1>3. Keys(Append(q, x)) = Keys(q) \cup {x}
  BY <1>1, <1>2 DEF Keys
<1>4. ASSUME Once(q), x \notin Keys(q) PROVE Once(Append(q, x))
  <2> DEFINE a == Append(q, x)
  <2>1. SUFFICES ASSUME NEW i \in 1 .. Len(a), NEW j \in 1 .. Len(a), a[i] = a[j]
        PROVE i = j
    BY DEF Once
  <2>2. \A n \in 1 .. Len(q) : q[n] # x  BY <1>4 DEF Keys
  <2> HIDE DEF a
  <2>3. /\ i \in 1 .. Len(q) \/ i = Len(q) + 1
        /\ j \in 1 .. Len(q) \/ j = Len(q) + 1
    BY <1>1, <1>2 DEF a
  <2> QED  BY <1>1, <1>4, <2>1, <2>2, <2>3 DEF a, Once
<1> QED  BY <1>1, <1>3, <1>4

\* A key put in front of a list that does not hold it.
LEMMA PushKey ==
  ASSUME NEW S, NEW q \in Seq(S), NEW x \in S
  PROVE /\ <<x>> \o q \in Seq(S)
        /\ Len(<<x>> \o q) = Len(q) + 1
        /\ Keys(<<x>> \o q) = Keys(q) \cup {x}
        /\ Once(q) /\ x \notin Keys(q) => Once(<<x>> \o q)
<1> DEFINE a == <<x>> \o q
<1>1. /\ Len(q) \in Nat /\ a \in Seq(S) /\ Len(a) = Len(q) + 1
      /\ a[1] = x
      /\ \A i \in 2 .. Len(q) + 1 : a[i] = q[i - 1]
  <2>1. <<x>> \in Seq(S) /\ Len(<<x>>) = 1 /\ <<x>>[1] = x  OBVIOUS
  <2>2. /\ Len(q) \in Nat /\ a \in Seq(S) /\ Len(a) = 1 + Len(q)
        /\ \A i \in 1 .. 1 + Len(q) : a[i] = IF i <= 1 THEN <<x>>[i] ELSE q[i - 1]
    BY <2>1, LenProperties, ConcatProperties
  <2> HIDE DEF a
  <2> QED  BY <2>1, <2>2
<1> HIDE DEF a
<1>2. \A i \in 1 .. Len(q) : i + 1 \in 2 .. Len(q) + 1 /\ (i + 1) - 1 = i
  BY <1>1
<1>3. Keys(a) = Keys(q) \cup {x}
  <2>1. ASSUME NEW y \in Keys(a) PROVE y \in Keys(q) \cup {x}
    <3>1. PICK i \in 1 .. Len(a) : y = a[i]  BY DEF Keys
    <3>2. i = 1 \/ (i \in 2 .. Len(q) + 1 /\ i - 1 \in 1 .. Len(q))  BY <1>1, <3>1
    <3> QED  BY <1>1, <3>1, <3>2 DEF Keys
  <2>2. x \in Keys(a)
    <3>1. 1 \in 1 .. Len(a)  BY <1>1
    <3> QED  BY <1>1, <3>1 DEF Keys
  <2>3. ASSUME NEW y \in Keys(q) PROVE y \in Keys(a)
    <3>1. PICK i \in 1 .. Len(q) : y = q[i]  BY DEF Keys
    <3>2. i + 1 \in 1 .. Len(a) /\ a[i + 1] = q[i]  BY <1>1, <1>2, <3>1
    <3> QED  BY <3>1, <3>2 DEF Keys
  <2> QED  BY <2>1, <2>2, <2>3
<1>4. ASSUME Once(q), x \notin Keys(q) PROVE Once(a)
  <2>1. SUFFICES ASSUME NEW i \in 1 .. Len(a), NEW j \in 1 .. Len(a), a[i] = a[j]
        PROVE i = j
    BY DEF Once
  <2>2. \A n \in 1 .. Len(q) : q[n] # x  BY <1>4 DEF Keys
  <2>3. /\ i = 1 \/ (i \in 2 .. Len(q) + 1 /\ i - 1 \in 1 .. Len(q) /\ a[i] = q[i - 1])
        /\ j = 1 \/ (j \in 2 .. Len(q) + 1 /\ j - 1 \in 1 .. Len(q) /\ a[j] = q[j - 1])
    BY <1>1, <2>1
  <2>4. CASE i = 1 \/ j = 1  BY <1>1, <2>1, <2>2, <2>3, <2>4
  <2>5. CASE i # 1 /\ j # 1
    <3>1. i - 1 = j - 1  BY <1>4, <2>1, <2>3, <2>5 DEF Once
    <3> QED  BY <2>3, <2>5, <3>1
  <2> QED  BY <2>4, <2>5
<1> QED  BY <1>1, <1>3, <1>4 DEF a

\* The first n keys of a list.
Prefix(q, n) == {q[i] : i \in 1 .. n}

\* What is left of the first n keys.
LEMMA RestFacts ==
  ASSUME NEW S, NEW q \in Seq(S), NEW ks
  PROVE \A n \in 0 .. Len(q) :
          /\ Rest(q, ks)[n] \in Seq(S)
          /\ Keys(Rest(q, ks)[n]) = Prefix(q, n) \ ks
          /\ Once(q) => Once(Rest(q, ks)[n])
          /\ Prefix(q, n) \cap ks = {} => Rest(q, ks)[n] = SubSeq(q, 1, n)
<1> DEFINE r == Rest(q, ks)
           P(n) == /\ r[n] \in Seq(S)
                   /\ Keys(r[n]) = Prefix(q, n) \ ks
                   /\ Once(q) => Once(r[n])
                   /\ Prefix(q, n) \cap ks = {} => r[n] = SubSeq(q, 1, n)
           T == {n \in Nat : n <= Len(q) => P(n)}
<1>0. Len(q) \in Nat /\ \A i \in 1 .. Len(q) : q[i] \in S
  BY LenProperties, ElementOfSeq
<1>1. /\ r[0] = << >>
      /\ \A i \in 1 .. Len(q) : r[i] = IF q[i] \in ks THEN r[i - 1]
                                        ELSE Append(r[i - 1], q[i])
  BY <1>0, RestUnfolds
<1> HIDE DEF r
<1>2. 0 \in T
  <2>1. << >> \in Seq(S) /\ Len(<< >>) = 0  BY EmptySeq
  <2>2. Keys(<< >>) = {} /\ Prefix(q, 0) = {} /\ Once(<< >>)
    BY <2>1 DEF Keys, Prefix, Once
  <2>3. SubSeq(q, 1, 0) = << >>  BY SubSeqEmpty
  <2> QED  BY <1>1, <2>1, <2>2, <2>3
<1>3. ASSUME NEW n \in Nat, n \in T PROVE n + 1 \in T
  <2>1. SUFFICES ASSUME n + 1 <= Len(q) PROVE P(n + 1)  OBVIOUS
  <2>2. P(n)  BY <1>0, <1>3, <2>1
  <2>3. n + 1 \in 1 .. Len(q) /\ (n + 1) - 1 = n /\ q[n + 1] \in S
    BY <1>0, <2>1
  <2>4. Prefix(q, n + 1) = Prefix(q, n) \cup {q[n + 1]}
    <3>1. 1 .. n + 1 = (1 .. n) \cup {n + 1}  OBVIOUS
    <3> QED  BY <3>1 DEF Prefix
  <2>5. CASE q[n + 1] \in ks
    <3>1. r[n + 1] = r[n]  BY <1>1, <2>3, <2>5
    <3> QED  BY <2>2, <2>4, <2>5, <3>1
  <2>6. CASE q[n + 1] \notin ks
    <3>1. r[n + 1] = Append(r[n], q[n + 1])  BY <1>1, <2>3, <2>6
    <3>2. /\ r[n + 1] \in Seq(S)
          /\ Keys(r[n + 1]) = Keys(r[n]) \cup {q[n + 1]}
          /\ Once(r[n]) /\ q[n + 1] \notin Keys(r[n]) => Once(r[n + 1])
      BY <2>2, <2>3, <3>1, AppendKey
    <3>3. Once(q) => q[n + 1] \notin Prefix(q, n)
      <4>1. ASSUME Once(q), NEW i \in 1 .. n, q[i] = q[n + 1] PROVE FALSE
        <5>1. i \in 1 .. Len(q) /\ i # n + 1  BY <1>0, <2>1
        <5> QED  BY <2>3, <4>1, <5>1 DEF Once
      <4> QED  BY <4>1 DEF Prefix
    <3>4. SubSeq(q, 1, n + 1) = Append(SubSeq(q, 1, n), q[n + 1])
      <4>1. \A i \in 1 .. n + 1 : q[i] \in S  BY <1>0, <2>1
      <4>2. \A i \in 1 .. n : q[i] \in S  BY <1>0, <2>1
      <4>3. /\ SubSeq(q, 1, n + 1) \in Seq(S)
            /\ Len(SubSeq(q, 1, n + 1)) = n + 1
            /\ \A i \in 1 .. n + 1 : SubSeq(q, 1, n + 1)[i] = q[i]
        BY <4>1, SubSeqProperties
      <4>4. /\ SubSeq(q, 1, n) \in Seq(S)
            /\ Len(SubSeq(q, 1, n)) = n
            /\ \A i \in 1 .. n : SubSeq(q, 1, n)[i] = q[i]
        BY <4>2, SubSeqProperties
      <4> DEFINE a == SubSeq(q, 1, n + 1) b == SubSeq(q, 1, n)
                 c == Append(b, q[n + 1])
      <4> HIDE DEF a, b
      <4>5. /\ c \in Seq(S) /\ Len(c) = n + 1 /\ c[n + 1] = q[n + 1]
            /\ \A i \in 1 .. n : c[i] = q[i]
        BY <2>3, <4>4, AppendProperties DEF b
      <4> HIDE DEF c
      <4>6. \A i \in 1 .. n + 1 : a[i] = c[i]
        BY <4>3, <4>5 DEF a
      <4>7. a = c  BY <4>3, <4>5, <4>6, SeqEqual DEF a
      <4> QED  BY <4>7 DEF a, b, c
    <3> QED  BY <2>2, <2>4, <2>6, <3>1, <3>2, <3>3, <3>4
  <2> QED  BY <2>5, <2>6
<1>4. Nat \subseteq T
  <2> HIDE DEF T
  <2> QED  BY <1>2, <1>3, NatSetInduction
<1>5. \A n \in 0 .. Len(q) : P(n)
  <2> HIDE DEF P
  <2> QED  BY <1>0, <1>4
<1> QED  BY <1>5 DEF r

\* Unlinking keeps what is not unlinked, once if it was there once.
LEMMA UnlinkedFacts ==
  ASSUME NEW S, NEW q \in Seq(S), NEW ks
  PROVE /\ Unlinked(q, ks) \in Seq(S)
        /\ Keys(Unlinked(q, ks)) = Keys(q) \ ks
        /\ Once(q) => Once(Unlinked(q, ks))
        /\ Keys(q) \cap ks = {} => Unlinked(q, ks) = q
<1>1. Len(q) \in 0 .. Len(q)  BY LenProperties
<1>2. Keys(q) = Prefix(q, Len(q))  BY DEF Keys, Prefix
<1>3. SubSeq(q, 1, Len(q)) = q  BY SubSeqFull
<1> QED  BY <1>1, <1>2, <1>3, RestFacts DEF Unlinked

\* Unlinking the last key takes the end of the list away.
LEMMA UnlinkLast ==
  ASSUME NEW S, NEW q \in Seq(S), Once(q), q # << >>
  PROVE Unlinked(q, {q[Len(q)]}) = SubSeq(q, 1, Len(q) - 1)
<1> DEFINE ks == {q[Len(q)]}
<1>1. Len(q) \in Nat \ {0}  BY EmptySeq
<1>2. Len(q) \in 1 .. Len(q) /\ Len(q) - 1 \in 0 .. Len(q)  BY <1>1
<1>3. Prefix(q, Len(q) - 1) \cap ks = {}
  <2>1. \A i \in 1 .. Len(q) - 1 : i \in 1 .. Len(q) /\ i # Len(q)  BY <1>1
  <2> QED  BY <1>2, <2>1 DEF Prefix, Once
<1>4. Rest(q, ks)[Len(q)] = Rest(q, ks)[Len(q) - 1]
  BY <1>1, <1>2, RestUnfolds
<1>5. Rest(q, ks)[Len(q) - 1] = SubSeq(q, 1, Len(q) - 1)
  BY <1>2, <1>3, RestFacts
<1> QED  BY <1>4, <1>5 DEF Unlinked

\* Only the keys of the list matter.
LEMMA UnlinkSame ==
  ASSUME NEW S, NEW q \in Seq(S), NEW ks
  PROVE Unlinked(q, ks) = Unlinked(q, ks \cap Keys(q))
<1> DEFINE r == Rest(q, ks)
           t == Rest(q, ks \cap Keys(q))
           T == {n \in Nat : n <= Len(q) => r[n] = t[n]}
<1>1. Len(q) \in Nat  BY LenProperties
<1>2. /\ r[0] = << >>
      /\ \A i \in 1 .. Len(q) : r[i] = IF q[i] \in ks THEN r[i - 1]
                                        ELSE Append(r[i - 1], q[i])
  BY <1>1, RestUnfolds
<1>3. /\ t[0] = << >>
      /\ \A i \in 1 .. Len(q) : t[i] = IF q[i] \in ks \cap Keys(q) THEN t[i - 1]
                                        ELSE Append(t[i - 1], q[i])
  BY <1>1, RestUnfolds
<1>4. \A i \in 1 .. Len(q) : q[i] \in ks <=> q[i] \in ks \cap Keys(q)
  BY DEF Keys
<1> HIDE DEF r, t
<1>5. 0 \in T  BY <1>2, <1>3
<1>6. ASSUME NEW n \in Nat, n \in T PROVE n + 1 \in T
  <2>1. SUFFICES ASSUME n + 1 <= Len(q) PROVE r[n + 1] = t[n + 1]  OBVIOUS
  <2>2. r[n] = t[n]  BY <1>1, <1>6, <2>1
  <2>3. n + 1 \in 1 .. Len(q) /\ (n + 1) - 1 = n  BY <1>1, <2>1
  <2> QED  BY <1>2, <1>3, <1>4, <2>2, <2>3
<1>7. Nat \subseteq T
  <2> HIDE DEF T
  <2> QED  BY <1>5, <1>6, NatSetInduction
<1>8. r[Len(q)] = t[Len(q)]  BY <1>1, <1>7
<1> QED  BY <1>8 DEF Unlinked, r, t

\* A list that holds no key twice is as long as its set of keys.
LEMMA OnceLength ==
  ASSUME NEW S, NEW q \in Seq(S), Once(q)
  PROVE IsFiniteSet(Keys(q)) /\ Cardinality(Keys(q)) = Len(q)
<1>1. Len(q) \in Nat /\ DOMAIN q = 1 .. Len(q) /\ q \in [1 .. Len(q) -> S]
  BY LenProperties
<1>2. q \in Bijection(1 .. Len(q), Keys(q))
  BY <1>1 DEF Once, Keys, Bijection, Injection, Surjection, IsInjective
<1>3. ExistsBijection(1 .. Len(q), Keys(q))
  BY <1>2 DEF ExistsBijection
<1> QED  BY <1>1, <1>3, FS_CountingElements, FS_NatBijection

-----------------------------------------------------------------------------
(* The inductive invariant.                                                *)

\* UpdateSessions has adopted the shared config, and the key map is that
\* config's: the reason why a key map that is not rebuilt is never stale.
SettingsAreCurrent == config = shared_config /\ key_map = config.key_map

\* The list of use and the map hold the same sessions, each once.
ListMatchesMap ==
  Keys(lru) = Live /\ Once(lru) /\ Len(lru) <= MaxSessions

HandlerInv ==
  /\ SessionsShareSettings
  /\ SettingsAreCurrent
  /\ SessionsUseCurrentEngine
  /\ EmptyTimeTracksEmptiness
  /\ ListMatchesMap

\* A map of sessions that all run on engine data e.
SessionsOn(s, e) == s \in [DOMAIN s -> {x \in Session : x.engine = e}]

\* The limit on the number of sessions is at least 2.
LEMMA Limit == MaxSessions \in Nat /\ MaxSessions >= 2
  BY FlagsAssumption DEF MaxSessions, Clamp

\* A settings record that fits its config.
LEMMA SettingsType ==
  ASSUME NEW c \in Configs, NEW r \in Requests
  PROVE c.key_map \in KeyMaps /\ SettingsOf(c, c.key_map, r) \in Settings
  BY DEF Configs, Settings, SettingsOf

\* UpdateSessions gives every session the settings of config and request.
LEMMA UpdateShares ==
  ASSUME config \in Configs, key_map = config.key_map,
         NEW s, NEW e, SessionsOn(s, e),
         NEW c \in Configs, NEW r \in Requests, UpdateSessions(s, c, r)
  PROVE /\ config' = c /\ request' = r /\ key_map' = c.key_map
        /\ DOMAIN sessions' = DOMAIN s /\ SessionsOn(sessions', e)
        /\ \A id \in DOMAIN s :
             sessions'[id].settings = SettingsOf(c, c.key_map, r)
<1>1. config' = c /\ request' = r  BY DEF UpdateSessions
<1>2. key_map' = c.key_map
  BY DEF UpdateSessions, SameKeyMapManagerApplicable
<1> DEFINE v == SettingsOf(c, c.key_map, r)
<1>3. sessions' = [id \in DOMAIN s |-> [s[id] EXCEPT !.settings = v]]
  BY <1>2 DEF UpdateSessions
<1>4. v \in Settings  BY SettingsType
<1> HIDE DEF v
<1>5. ASSUME NEW id \in DOMAIN s
      PROVE /\ [s[id] EXCEPT !.settings = v] \in Session
            /\ [s[id] EXCEPT !.settings = v].settings = v
            /\ [s[id] EXCEPT !.settings = v].engine = e
  <2>1. s[id] \in Session /\ s[id].engine = e  BY DEF SessionsOn
  <2> QED  BY <1>4, <2>1 DEF Session
<1>6. DOMAIN sessions' = DOMAIN s  BY <1>3
<1>7. SessionsOn(sessions', e)  BY <1>3, <1>5, <1>6 DEF SessionsOn
<1>8. \A id \in DOMAIN s : sessions'[id].settings = v  BY <1>3, <1>5
<1> QED  BY <1>1, <1>2, <1>6, <1>7, <1>8 DEF v

\* The invariant in the form the steps use.
LEMMA InvFacts ==
  ASSUME HandlerInv
  PROVE /\ TypeOK /\ SessionsOn(sessions, engine)
        /\ config = shared_config /\ key_map = config.key_map
        /\ \A id \in Live : sessions[id].settings
                              = SettingsOf(shared_config, shared_config.key_map, request)
        /\ IsFiniteSet(Live) /\ Keys(lru) = Live /\ Once(lru)
        /\ lru \in Seq(SessionIDs) /\ Len(lru) \in Nat
        /\ Len(lru) <= MaxSessions /\ Cardinality(Live) = Len(lru)
        /\ (last_session_empty_time = InfinitePast) <=> (Live # {})
<1>1. /\ TypeOK /\ lru \in Seq(SessionIDs) /\ Once(lru) /\ Keys(lru) = Live
  BY DEF HandlerInv, SessionsShareSettings, TypeOK, ListMatchesMap
<1>2. Len(lru) \in Nat /\ Cardinality(Keys(lru)) = Len(lru)
  BY <1>1, LenProperties, OnceLength
<1>3. SessionsOn(sessions, engine)
  BY <1>1 DEF HandlerInv, SessionsUseCurrentEngine, SessionsOn, TypeOK, Live
<1> QED  BY <1>1, <1>2, <1>3
  DEF HandlerInv, SessionsShareSettings, SettingsAreCurrent, TypeOK,
      EmptyTimeTracksEmptiness, ListMatchesMap

\* What establishes the invariant after a step.
LEMMA InvFrom ==
  ASSUME is_available' \in BOOLEAN,
         Live' \subseteq SessionIDs, IsFiniteSet(Live'),
         SessionsOn(sessions', engine'), lru' \in Seq(SessionIDs),
         config' = shared_config', key_map' = config'.key_map,
         shared_config' \in Configs, request' \in Requests,
         \A id \in Live' : sessions'[id].settings
            = SettingsOf(shared_config', shared_config'.key_map, request'),
         last_session_empty_time' \in Stamps, last_cleanup_time' \in Stamps,
         last_create_session_time' \in Stamps, now' \in Times, engine' \in Nat,
         loader' \in {"idle", "running", "ready"},
         (last_session_empty_time' = InfinitePast) <=> (Live' # {}),
         Keys(lru') = Live', Once(lru'), Len(lru') <= MaxSessions
  PROVE HandlerInv'
<1>1. key_map' \in KeyMaps  BY SettingsType
<1>2. sessions' \in [Live' -> Session] /\ \A id \in Live' : sessions'[id].engine = engine'
  BY DEF SessionsOn, Live
<1> QED  BY <1>1, <1>2
  DEF HandlerInv, SessionsShareSettings, SettingsAreCurrent, TypeOK,
      EmptyTimeTracksEmptiness, ListMatchesMap, SessionsUseCurrentEngine

-----------------------------------------------------------------------------
(* The list of use, operation by operation.                                *)

\* A look-up moves the session to the head.
LEMMA ListMoved ==
  ASSUME HandlerInv, NEW id \in Live, NEW q, q = MovedToHead(lru, id)
  PROVE q \in Seq(SessionIDs) /\ Keys(q) = Live /\ Once(q) /\ Len(q) <= MaxSessions
<1>1. /\ lru \in Seq(SessionIDs) /\ Keys(lru) = Live /\ Once(lru) /\ id \in SessionIDs
      /\ Cardinality(Live) = Len(lru) /\ Len(lru) <= MaxSessions
  BY InvFacts DEF TypeOK
<1> DEFINE u == Unlinked(lru, {id})
<1>2. u \in Seq(SessionIDs) /\ Keys(u) = Live \ {id} /\ Once(u)
  BY <1>1, UnlinkedFacts
<1> HIDE DEF u
<1>3. q = <<id>> \o u  BY DEF MovedToHead, u
<1>4. q \in Seq(SessionIDs) /\ Keys(q) = Keys(u) \cup {id} /\ Once(q)
  BY <1>1, <1>2, <1>3, PushKey
<1>5. Keys(q) = Live  BY <1>2, <1>4
<1>6. Cardinality(Keys(q)) = Len(q)  BY <1>4, OnceLength
<1> QED  BY <1>1, <1>4, <1>5, <1>6

\* Removals.
LEMMA ListErased ==
  ASSUME HandlerInv, NEW ids, NEW q, q = Unlinked(lru, ids)
  PROVE /\ q \in Seq(SessionIDs) /\ Keys(q) = Live \ ids /\ Once(q)
        /\ Len(q) <= MaxSessions
<1>1. /\ lru \in Seq(SessionIDs) /\ Keys(lru) = Live /\ Once(lru)
      /\ Cardinality(Live) = Len(lru) /\ Len(lru) <= MaxSessions
      /\ IsFiniteSet(Live) /\ Len(lru) \in Nat
  BY InvFacts
<1>2. q \in Seq(SessionIDs) /\ Keys(q) = Live \ ids /\ Once(q)
  BY <1>1, UnlinkedFacts
<1>3. Cardinality(Keys(q)) = Len(q) /\ Len(q) \in Nat
  BY <1>2, OnceLength, LenProperties
<1>4. Cardinality(Live \ ids) <= Cardinality(Live)
  <2>1. Live \ ids \in SUBSET Live  OBVIOUS
  <2> QED  BY <1>1, <2>1, FS_Subset
<1> QED  BY <1>1, <1>2, <1>3, <1>4, Limit

\* At the limit one session goes to make room, the least recently used one;
\* below it, none.
LEMMA EvictedFacts ==
  ASSUME HandlerInv, ~(Full /\ lru = << >>)
  PROVE \/ /\ Full /\ lru # << >> /\ Evicted = {lru[Len(lru)]}
           /\ lru[Len(lru)] \in Live /\ Len(lru) = MaxSessions
           /\ Unlinked(lru, Evicted) = SubSeq(lru, 1, Len(lru) - 1)
           /\ Len(Unlinked(lru, Evicted)) = Len(lru) - 1
        \/ /\ ~Full /\ Evicted = {} /\ Len(lru) < MaxSessions
           /\ Unlinked(lru, Evicted) = lru
<1>1. /\ lru \in Seq(SessionIDs) /\ Keys(lru) = Live /\ Once(lru)
      /\ Cardinality(Live) = Len(lru) /\ Len(lru) <= MaxSessions /\ Len(lru) \in Nat
  BY InvFacts
<1>2. Full <=> Len(lru) >= MaxSessions  BY <1>1 DEF Full, Size, Live
<1>3. CASE Full
  <2>1. lru # << >> /\ Evicted = {lru[Len(lru)]}  BY <1>3 DEF Evicted
  <2>2. Len(lru) = MaxSessions  BY <1>1, <1>2, <1>3, Limit
  <2>3. Len(lru) \in 1 .. Len(lru)  BY <1>1, <2>2, Limit
  <2>4. lru[Len(lru)] \in Live  BY <1>1, <2>3 DEF Keys
  <2>5. Unlinked(lru, Evicted) = SubSeq(lru, 1, Len(lru) - 1)
    BY <1>1, <2>1, UnlinkLast
  <2>6. Len(SubSeq(lru, 1, Len(lru) - 1)) = Len(lru) - 1
    <3>1. \A i \in 1 .. Len(lru) - 1 : lru[i] \in SessionIDs
      BY <1>1, ElementOfSeq
    <3> QED  BY <1>1, <2>3, <3>1, SubSeqProperties
  <2> QED  BY <1>3, <2>1, <2>2, <2>4, <2>5, <2>6
<1>4. CASE ~Full
  <2>1. Evicted = {}  BY <1>4 DEF Evicted
  <2>2. Keys(lru) \cap {} = {}  OBVIOUS
  <2>3. Unlinked(lru, {}) = lru  BY <1>1, <2>2, UnlinkedFacts
  <2> QED  BY <1>1, <1>2, <1>4, <2>1, <2>3, Limit
<1> QED  BY <1>3, <1>4

\* A new session enters at the head, within the limit.
LEMMA ListCreated ==
  ASSUME HandlerInv, ~(Full /\ lru = << >>), NEW new \in SessionIDs,
         new \notin Live \ Evicted, NEW q, q = <<new>> \o Unlinked(lru, Evicted)
  PROVE /\ q \in Seq(SessionIDs) /\ Keys(q) = (Live \ Evicted) \cup {new}
        /\ Once(q) /\ Len(q) <= MaxSessions
<1>1. lru \in Seq(SessionIDs) /\ Keys(lru) = Live /\ Once(lru) /\ Len(lru) \in Nat
  BY InvFacts
<1> DEFINE u == Unlinked(lru, Evicted)
<1>2. u \in Seq(SessionIDs) /\ Keys(u) = Live \ Evicted /\ Once(u)
  BY <1>1, UnlinkedFacts
<1>3. Len(u) < MaxSessions
  BY <1>1, EvictedFacts, Limit
<1>4. Len(u) \in Nat  BY <1>2, LenProperties
<1> HIDE DEF u
<1>5. q = <<new>> \o u  BY DEF u
<1>6. /\ q \in Seq(SessionIDs) /\ Len(q) = Len(u) + 1
      /\ Keys(q) = Keys(u) \cup {new} /\ Once(q)
  <2>1. new \notin Keys(u)  BY <1>2
  <2>2. /\ <<new>> \o u \in Seq(SessionIDs) /\ Len(<<new>> \o u) = Len(u) + 1
        /\ Keys(<<new>> \o u) = Keys(u) \cup {new} /\ Once(<<new>> \o u)
    BY <1>2, <2>1, PushKey
  <2> QED  BY <1>5, <2>2
<1> QED  BY <1>2, <1>3, <1>4, <1>6, Limit

-----------------------------------------------------------------------------
(* The invariant, action by action.                                        *)

\* A command to a session sets its time of use and nothing else of it.
LEMMA UsedSessions ==
  ASSUME HandlerInv, NEW id \in Live, NEW s,
         s = [sessions EXCEPT ![id].last_command_time = now]
  PROVE /\ DOMAIN s = Live /\ SessionsOn(s, engine)
        /\ \A x \in Live : s[x].settings = sessions[x].settings
<1>1. SessionsOn(sessions, engine) /\ now \in Stamps
  BY InvFacts DEF TypeOK, Stamps
<1>2. DOMAIN s = Live  BY DEF Live
<1>3. ASSUME NEW x \in Live
      PROVE /\ s[x] \in Session /\ s[x].engine = engine
            /\ s[x].settings = sessions[x].settings
  <2>1. sessions[x] \in Session /\ sessions[x].engine = engine
    BY <1>1 DEF SessionsOn, Live
  <2>2. CASE x # id
    <3>1. s[x] = sessions[x]  BY <2>2 DEF Live
    <3> QED  BY <2>1, <3>1
  <2>3. CASE x = id
    <3>1. s[x] = [sessions[x] EXCEPT !.last_command_time = now]
      BY <2>3 DEF Live
    <3> QED  BY <1>1, <2>1, <3>1 DEF Session
  <2> QED  BY <2>2, <2>3
<1>4. s = [x \in Live |-> s[x]]  BY DEF Live
<1>5. SessionsOn(s, engine)  BY <1>2, <1>3, <1>4 DEF SessionsOn
<1> QED  BY <1>2, <1>3, <1>5

\* SendKey, SendCommand and TestSendKey.
LEMMA UseKeepsInv ==
  ASSUME HandlerInv, NEW id \in SessionIDs, SendKey(id) \/ TestSendKey(id)
  PROVE HandlerInv' /\ id \in Live /\ Live' = Live /\ lru' = MovedToHead(lru, id)
<1> DEFINE s == [sessions EXCEPT ![id].last_command_time = now]
<1>0. /\ TypeOK /\ config = shared_config /\ key_map = config.key_map
      /\ \A x \in Live : sessions[x].settings
                           = SettingsOf(shared_config, shared_config.key_map, request)
      /\ (last_session_empty_time = InfinitePast) <=> (Live # {})
  BY InvFacts
<1>1. /\ id \in Live /\ lru' = MovedToHead(lru, id)
      /\ UNCHANGED <<is_available, timeVars, now, engine, loader>>
  BY DEF SendKey, TestSendKey
<1>2. /\ lru' \in Seq(SessionIDs) /\ Keys(lru') = Live /\ Once(lru')
      /\ Len(lru') <= MaxSessions
  BY <1>1, ListMoved
<1>3. /\ DOMAIN s = Live /\ SessionsOn(s, engine)
      /\ \A x \in Live : s[x].settings = sessions[x].settings
  BY <1>1, UsedSessions
<1> HIDE DEF s
<1>4. /\ shared_config' \in Configs /\ config' = shared_config'
      /\ key_map' = config'.key_map /\ request' \in Requests
      /\ DOMAIN sessions' = Live /\ SessionsOn(sessions', engine)
      /\ \A x \in Live : sessions'[x].settings
                           = SettingsOf(shared_config', shared_config'.key_map, request')
  <2>1. CASE sessions' = s /\ UNCHANGED settingVars
    BY <1>0, <1>3, <2>1 DEF settingVars, TypeOK
  <2>2. ASSUME NEW c \in Configs, shared_config' = c, UpdateSessions(s, c, request)
        PROVE /\ shared_config' \in Configs /\ config' = shared_config'
              /\ key_map' = config'.key_map /\ request' \in Requests
              /\ DOMAIN sessions' = Live /\ SessionsOn(sessions', engine)
              /\ \A x \in Live : sessions'[x].settings
                   = SettingsOf(shared_config', shared_config'.key_map, request')
    <3>1. config \in Configs /\ request \in Requests  BY <1>0 DEF TypeOK
    <3>2. /\ config' = c /\ request' = request /\ key_map' = c.key_map
          /\ DOMAIN sessions' = DOMAIN s /\ SessionsOn(sessions', engine)
          /\ \A x \in DOMAIN s :
               sessions'[x].settings = SettingsOf(c, c.key_map, request)
      BY <1>0, <1>3, <2>2, <3>1, UpdateShares
    <3> QED  BY <1>3, <2>2, <3>1, <3>2
  <2> QED  BY <2>1, <2>2 DEF SendKey, TestSendKey, MaybeUpdateConfig, s
<1>5. Live' = Live  BY <1>4 DEF Live
<1>6. HandlerInv'
  BY <1>0, <1>1, <1>2, <1>4, <1>5, InvFrom DEF TypeOK, timeVars
<1> QED  BY <1>1, <1>5, <1>6

\* CreateSession: with or without eviction, on the old or on a new engine.
LEMMA CreateKeepsInv ==
  ASSUME HandlerInv, NEW new \in SessionIDs, CreateSession(new)
  PROVE /\ HandlerInv' /\ ~(Full /\ lru = << >>) /\ new \notin Live \ Evicted
        /\ Live' = (Live \ Evicted) \cup {new}
        /\ lru' = <<new>> \o Unlinked(lru, Evicted)
<1>0. /\ TypeOK /\ config = shared_config /\ key_map = config.key_map
      /\ SessionsOn(sessions, engine) /\ IsFiniteSet(Live)
  BY InvFacts
<1> DEFINE remaining == Without(sessions, Evicted)
           record == [settings |-> SettingsOf(config, key_map, request),
                      engine |-> engine', create_session_time |-> now,
                      last_command_time |-> InfinitePast,
                      application_alive |-> TRUE]
           s == With(remaining, new, record)
<1>1. /\ ~(Full /\ lru = << >>) /\ last_create_session_time' = now
      /\ new \notin DOMAIN remaining /\ MaybeReloadEngine(remaining)
      /\ lru' = <<new>> \o Unlinked(lru, Evicted)
      /\ UpdateSessions(s, shared_config, request)
      /\ last_session_empty_time' = InfinitePast
      /\ UNCHANGED <<is_available, shared_config, last_cleanup_time, now>>
  BY DEF CreateSession
<1>2. /\ DOMAIN remaining = Live \ Evicted
      /\ \A id \in Live \ Evicted : remaining[id] = sessions[id]
  BY DEF Without, Live
<1>3. IsFiniteSet(Live \ Evicted) /\ IsFiniteSet((Live \ Evicted) \cup {new})
  <2>1. Live \ Evicted \in SUBSET Live  OBVIOUS
  <2>2. IsFiniteSet(Live \ Evicted)  BY <1>0, <2>1, FS_Subset
  <2> QED  BY <2>2, FS_AddElement
<1>4. /\ engine' \in Nat /\ loader' \in {"idle", "running", "ready"}
      /\ Live \ Evicted # {} => engine' = engine
  <2>1. Live \ Evicted # {} => Size(remaining) # 0
    BY <1>2, <1>3, FS_EmptySet DEF Size
  <2> HIDE DEF remaining
  <2> QED  BY <1>0, <1>1, <2>1 DEF MaybeReloadEngine, TypeOK
<1>5. record \in Session /\ record.engine = engine'
  <2>1. SettingsOf(config, key_map, request) \in Settings
    BY <1>0, SettingsType DEF TypeOK
  <2>2. now \in Times /\ InfinitePast \in Stamps  BY <1>0 DEF TypeOK, Stamps
  <2> QED  BY <1>4, <2>1, <2>2 DEF Session
<1> HIDE DEF record
<1>6. DOMAIN s = (Live \ Evicted) \cup {new} /\ SessionsOn(s, engine')
  <2>1. s = [id \in (Live \ Evicted) \cup {new} |->
               IF id = new THEN record ELSE remaining[id]]
    BY <1>2 DEF With
  <2>2. ASSUME NEW id \in Live \ Evicted
        PROVE remaining[id] \in Session /\ remaining[id].engine = engine'
    BY <1>0, <1>2, <1>4 DEF SessionsOn, Live
  <2> HIDE DEF remaining, s
  <2>3. DOMAIN s = (Live \ Evicted) \cup {new}  BY <2>1
  <2> QED  BY <1>5, <2>1, <2>2, <2>3 DEF SessionsOn
<1> HIDE DEF s, remaining
<1>7. /\ config' = shared_config /\ request' = request
      /\ key_map' = shared_config.key_map
      /\ DOMAIN sessions' = DOMAIN s /\ SessionsOn(sessions', engine')
      /\ \A id \in DOMAIN s : sessions'[id].settings
            = SettingsOf(shared_config, shared_config.key_map, request)
  <2>1. config \in Configs /\ shared_config \in Configs /\ request \in Requests
    BY <1>0 DEF TypeOK
  <2> DEFINE e == engine'
  <2>2. SessionsOn(s, e)  BY <1>6
  <2> HIDE DEF e
  <2>3. /\ config' = shared_config /\ request' = request
        /\ key_map' = shared_config.key_map
        /\ DOMAIN sessions' = DOMAIN s /\ SessionsOn(sessions', e)
        /\ \A id \in DOMAIN s : sessions'[id].settings
              = SettingsOf(shared_config, shared_config.key_map, request)
    BY <1>0, <1>1, <2>1, <2>2, UpdateShares
  <2> QED  BY <2>3 DEF e
<1>8. Live' = (Live \ Evicted) \cup {new}  BY <1>6, <1>7 DEF Live
<1>9. new \notin Live \ Evicted  BY <1>1, <1>2
<1>10. /\ lru' \in Seq(SessionIDs) /\ Keys(lru') = (Live \ Evicted) \cup {new}
       /\ Once(lru') /\ Len(lru') <= MaxSessions
  BY <1>1, <1>9, ListCreated
<1>11. HandlerInv'
  <2>1. /\ is_available' \in BOOLEAN /\ shared_config' \in Configs
        /\ request' \in Requests /\ now' \in Times
        /\ last_cleanup_time' \in Stamps /\ last_create_session_time' \in Stamps
        /\ last_session_empty_time' \in Stamps
        /\ Live' \subseteq SessionIDs
    BY <1>0, <1>1, <1>7, <1>8 DEF TypeOK, Stamps
  <2>2. \A id \in Live' : sessions'[id].settings
          = SettingsOf(shared_config', shared_config'.key_map, request')
    BY <1>1, <1>6, <1>7, <1>8
  <2>3. /\ config' = shared_config' /\ key_map' = config'.key_map
        /\ IsFiniteSet(Live') /\ Keys(lru') = Live'
        /\ (last_session_empty_time' = InfinitePast) <=> (Live' # {})
    BY <1>1, <1>3, <1>7, <1>8, <1>10
  <2> QED  BY <1>4, <1>7, <1>10, <2>1, <2>2, <2>3, InvFrom
<1> QED  BY <1>1, <1>8, <1>9, <1>11

\* DeleteSession and Cleanup.
LEMMA EraseKeepsInv ==
  ASSUME HandlerInv, NEW ids, DeleteSessionIDs(ids),
         is_available' \in BOOLEAN, last_cleanup_time' \in Stamps,
         UNCHANGED <<settingVars, last_create_session_time, now, engine, loader>>
  PROVE HandlerInv' /\ Live' = Live \ ids /\ lru' = Unlinked(lru, ids)
<1>0. /\ TypeOK /\ config = shared_config /\ key_map = config.key_map
      /\ SessionsOn(sessions, engine) /\ IsFiniteSet(Live)
      /\ \A id \in Live : sessions[id].settings
                            = SettingsOf(shared_config, shared_config.key_map, request)
      /\ (last_session_empty_time = InfinitePast) <=> (Live # {})
  BY InvFacts
<1>1. /\ sessions' = [id \in Live \ ids |-> sessions[id]] /\ lru' = Unlinked(lru, ids)
      /\ last_session_empty_time' =
           IF /\ ids \cap Live # {} /\ last_session_empty_time = InfinitePast
              /\ Cardinality(Live \ ids) = 0
           THEN now ELSE last_session_empty_time
  BY DEF DeleteSessionIDs, Without, Size, Live
<1>2. Live' = Live \ ids  BY <1>1 DEF Live
<1>3. IsFiniteSet(Live \ ids) /\ (Cardinality(Live \ ids) = 0 <=> Live \ ids = {})
  <2>1. Live \ ids \in SUBSET Live  OBVIOUS
  <2> QED  BY <1>0, <2>1, FS_Subset, FS_EmptySet
<1>4. now \in Times /\ now # InfinitePast
  BY <1>0, ClockAssumption DEF TypeOK, InfinitePast
<1>5. (last_session_empty_time' = InfinitePast) <=> (Live' # {})
  BY <1>0, <1>1, <1>2, <1>3, <1>4
<1>6. last_session_empty_time' \in Stamps  BY <1>0, <1>1, <1>4 DEF TypeOK, Stamps
<1>7. /\ lru' \in Seq(SessionIDs) /\ Keys(lru') = Live \ ids /\ Once(lru')
      /\ Len(lru') <= MaxSessions
  BY <1>1, ListErased
<1>8. SessionsOn(sessions', engine')
  BY <1>0, <1>1, <1>2 DEF SessionsOn, Live
<1>9. HandlerInv'
  <2>1. \A id \in Live' : sessions'[id].settings
          = SettingsOf(shared_config', shared_config'.key_map, request')
    BY <1>0, <1>1, <1>2 DEF settingVars
  <2>2. /\ Live' \subseteq SessionIDs /\ IsFiniteSet(Live')
        /\ config' = shared_config' /\ key_map' = config'.key_map
        /\ shared_config' \in Configs /\ request' \in Requests
        /\ last_create_session_time' \in Stamps /\ now' \in Times /\ engine' \in Nat
        /\ loader' \in {"idle", "running", "ready"}
    BY <1>0, <1>2, <1>3 DEF TypeOK, settingVars
  <2> QED  BY <1>2, <1>5, <1>6, <1>7, <1>8, <2>1, <2>2, InvFrom
<1> QED  BY <1>1, <1>2, <1>9

\* The commands that change the settings: Reload, SetConfig, SetRequest.
LEMMA SettingsKeepInv ==
  ASSUME HandlerInv,
         \/ Reload \/ (\E c \in Configs : SetConfig(c))
         \/ (\E r \in Requests : SetRequest(r))
  PROVE HandlerInv' /\ Live' = Live /\ lru' = lru
<1>0. /\ TypeOK /\ config = shared_config /\ key_map = config.key_map
      /\ SessionsOn(sessions, engine) /\ Keys(lru) = Live /\ Once(lru)
      /\ Len(lru) <= MaxSessions
      /\ (last_session_empty_time = InfinitePast) <=> (Live # {})
  BY InvFacts
<1>1. PICK c \in Configs, r \in Requests :
        shared_config' = c /\ UpdateSessions(sessions, c, r)
  BY <1>0 DEF TypeOK, Reload, SetConfig, SetRequest
<1>2. UNCHANGED <<is_available, lru, timeVars, now, engine, loader>>
  BY DEF Reload, SetConfig, SetRequest
<1>3. /\ config' = c /\ request' = r /\ key_map' = c.key_map
      /\ DOMAIN sessions' = Live /\ SessionsOn(sessions', engine)
      /\ \A id \in Live : sessions'[id].settings = SettingsOf(c, c.key_map, r)
  <2>1. config \in Configs  BY <1>0 DEF TypeOK
  <2> QED  BY <1>0, <1>1, <2>1, UpdateShares DEF Live
<1>4. Live' = Live  BY <1>3 DEF Live
<1>5. HandlerInv'
  BY <1>0, <1>1, <1>2, <1>3, <1>4, InvFrom DEF TypeOK, timeVars
<1> QED  BY <1>2, <1>4, <1>5

\* The steps that leave the sessions' settings and the table alone.
LEMMA OtherStepsKeepInv ==
  ASSUME HandlerInv,
         \/ Shutdown \/ SendEngineReloadRequest \/ LoaderDone
         \/ (\E t \in Times : ClockMoves(t)) \/ UNCHANGED vars
         \/ (\E id \in SessionIDs : ApplicationExit(id))
  PROVE HandlerInv' /\ Live' = Live /\ lru' = lru
<1>0. /\ TypeOK /\ config = shared_config /\ key_map = config.key_map
      /\ SessionsOn(sessions, engine) /\ Keys(lru) = Live /\ Once(lru)
      /\ Len(lru) <= MaxSessions
      /\ \A id \in Live : sessions[id].settings
                            = SettingsOf(shared_config, shared_config.key_map, request)
      /\ (last_session_empty_time = InfinitePast) <=> (Live # {})
  BY InvFacts
<1>1. CASE \/ Shutdown \/ SendEngineReloadRequest \/ LoaderDone
           \/ (\E t \in Times : ClockMoves(t)) \/ UNCHANGED vars
  <2>1. /\ UNCHANGED <<sessions, lru, settingVars, timeVars, engine>>
        /\ is_available' \in BOOLEAN /\ now' \in Times
        /\ loader' \in {"idle", "running", "ready"}
    BY <1>0, <1>1
    DEF Shutdown, SendEngineReloadRequest, LoaderDone, ClockMoves, vars, TypeOK
  <2>2. Live' = Live  BY <2>1 DEF Live
  <2>3. HandlerInv'
    BY <1>0, <2>1, <2>2, InvFrom DEF TypeOK, timeVars, settingVars
  <2> QED  BY <2>1, <2>2, <2>3
<1>2. ASSUME NEW id \in SessionIDs, ApplicationExit(id)
      PROVE HandlerInv' /\ Live' = Live /\ lru' = lru
  <2>1. /\ id \in Live
        /\ sessions' = [sessions EXCEPT ![id].application_alive = FALSE]
        /\ UNCHANGED <<is_available, lru, settingVars, timeVars, now, engine, loader>>
    BY <1>2 DEF ApplicationExit
  <2>2. Live' = Live  BY <2>1 DEF Live
  <2>3. ASSUME NEW x \in Live
        PROVE /\ sessions'[x] \in Session /\ sessions'[x].engine = engine
              /\ sessions'[x].settings = sessions[x].settings
    <3>1. sessions[x] \in Session /\ sessions[x].engine = engine
      BY <1>0 DEF SessionsOn, Live
    <3>2. CASE x # id
      <4>1. sessions'[x] = sessions[x]  BY <2>1, <3>2 DEF Live
      <4> QED  BY <3>1, <4>1
    <3>3. CASE x = id
      <4>1. sessions'[x] = [sessions[x] EXCEPT !.application_alive = FALSE]
        BY <2>1, <3>3 DEF Live
      <4> QED  BY <3>1, <4>1 DEF Session
    <3> QED  BY <3>2, <3>3
  <2>4. sessions' = [x \in Live |-> sessions'[x]]  BY <2>1 DEF Live
  <2>5. SessionsOn(sessions', engine')
    BY <2>1, <2>2, <2>3, <2>4 DEF SessionsOn, Live
  <2>6. HandlerInv'
    BY <1>0, <2>1, <2>2, <2>3, <2>5, InvFrom DEF TypeOK, timeVars, settingVars
  <2> QED  BY <2>1, <2>2, <2>6
<1> QED  BY <1>1, <1>2

\* Init establishes the invariant.
LEMMA InitHandlerInv == Init => HandlerInv
<1> SUFFICES ASSUME Init PROVE HandlerInv  OBVIOUS
<1>1. Live = {} /\ lru = << >>  BY DEF Init, Live
<1>2. IsFiniteSet({}) /\ << >> \in Seq(SessionIDs) /\ Len(<< >>) = 0
  BY FS_EmptySet, EmptySeq
<1>3. Keys(lru) = {} /\ Once(lru)  BY <1>1, <1>2 DEF Keys, Once
<1>4. shared_config.key_map \in KeyMaps  BY DEF Init, Configs
<1>5. sessions \in [Live -> Session]  BY <1>1 DEF Init, Live
<1>6. now # InfinitePast  BY ClockAssumption DEF Init, InfinitePast
<1>7. TypeOK  BY <1>1, <1>2, <1>4, <1>5 DEF TypeOK, Init, Stamps
<1>8. ListMatchesMap  BY <1>1, <1>2, <1>3, Limit DEF ListMatchesMap
<1> QED
  BY <1>1, <1>6, <1>7, <1>8
  DEF HandlerInv, SessionsShareSettings, SettingsAreCurrent, Init,
      SessionsUseCurrentEngine, EmptyTimeTracksEmptiness

\* What a step does to the table of sessions, whatever the command: one
\* session is used, one is created, some go, or nothing changes.
TableStep ==
  \/ \E id \in Live : Live' = Live /\ lru' = MovedToHead(lru, id)
  \/ \E new \in SessionIDs :
       /\ ~(Full /\ lru = << >>)
       /\ new \notin Live \ Evicted
       /\ Live' = (Live \ Evicted) \cup {new}
       /\ lru' = <<new>> \o Unlinked(lru, Evicted)
  \/ \E ids : Live' = Live \ ids /\ lru' = Unlinked(lru, ids)
  \/ Live' = Live /\ lru' = lru

\* Every step keeps the invariant and is one of the four.
LEMMA NextHandlerInv ==
  ASSUME HandlerInv, [Next]_vars PROVE HandlerInv' /\ TableStep
<1>0. TypeOK  BY InvFacts
<1>1. ASSUME NEW id \in SessionIDs, SendKey(id) \/ TestSendKey(id)
      PROVE HandlerInv' /\ TableStep
  BY <1>1, UseKeepsInv DEF TableStep, SendKey, TestSendKey
<1>2. ASSUME NEW id \in SessionIDs, CreateSession(id)
      PROVE HandlerInv' /\ TableStep
  BY <1>2, CreateKeepsInv DEF TableStep, CreateSession
<1>3. ASSUME NEW id \in SessionIDs, DeleteSession(id)
      PROVE HandlerInv' /\ TableStep
  <2>1. /\ DeleteSessionIDs({id})
        /\ is_available' \in BOOLEAN /\ last_cleanup_time' \in Stamps
        /\ UNCHANGED <<settingVars, last_create_session_time, now, engine, loader>>
    BY <1>0, <1>3 DEF DeleteSession, TypeOK
  <2> QED  BY <2>1, EraseKeepsInv DEF TableStep
<1>4. ASSUME Cleanup PROVE HandlerInv' /\ TableStep
  <2> DEFINE ids == {id \in Live : Expired(sessions[id])}
  <2>1. /\ DeleteSessionIDs(ids)
        /\ is_available' \in BOOLEAN /\ last_cleanup_time' \in Stamps
        /\ UNCHANGED <<settingVars, last_create_session_time, now, engine, loader>>
    BY <1>0, <1>4 DEF Cleanup, TypeOK, Stamps
  <2> HIDE DEF ids
  <2> QED  BY <2>1, EraseKeepsInv DEF TableStep
<1>5. ASSUME \/ Reload \/ (\E c \in Configs : SetConfig(c))
             \/ (\E r \in Requests : SetRequest(r))
      PROVE HandlerInv' /\ TableStep
  BY <1>5, SettingsKeepInv DEF TableStep
<1>6. ASSUME \/ Shutdown \/ SendEngineReloadRequest \/ LoaderDone
             \/ (\E t \in Times : ClockMoves(t)) \/ UNCHANGED vars
             \/ (\E id \in SessionIDs : ApplicationExit(id))
      PROVE HandlerInv' /\ TableStep
  BY <1>6, OtherStepsKeepInv DEF TableStep
<1> QED  BY <1>1, <1>2, <1>3, <1>4, <1>5, <1>6 DEF Next

\* The invariant holds in every reachable state.
LEMMA HandlerInvHolds == Spec => []HandlerInv
<1>1. HandlerInv /\ [Next]_vars => HandlerInv'  BY NextHandlerInv
<1> QED  BY InitHandlerInv, <1>1, PTL DEF Spec

-----------------------------------------------------------------------------
\* Every session, however old, runs with the shared config, that config's key
\* map and table, and the last request: after any sequence of commands that
\* set them (SET_CONFIG, SET_REQUEST, RELOAD, a key that changes the config)
\* and of sessions created, evicted and expired in between.
THEOREM SessionsShareSettingsHolds == Spec => []SessionsShareSettings
<1>1. HandlerInv => SessionsShareSettings  BY DEF HandlerInv
<1> QED  BY HandlerInvHolds, <1>1, PTL

\* No session holds a converter of a replaced engine: MaybeReloadEngine in
\* CreateSession runs after the eviction and only replaces an engine that no
\* session uses.
THEOREM SessionsUseCurrentEngineHolds == Spec => []SessionsUseCurrentEngine
<1>1. HandlerInv => SessionsUseCurrentEngine  BY DEF HandlerInv
<1> QED  BY HandlerInvHolds, <1>1, PTL

\* last_session_empty_time_ is a time exactly while no session is left.
THEOREM EmptyTimeTracksEmptinessHolds == Spec => []EmptyTimeTracksEmptiness
<1>1. HandlerInv => EmptyTimeTracksEmptiness  BY DEF HandlerInv
<1> QED  BY HandlerInvHolds, <1>1, PTL

-----------------------------------------------------------------------------
(* The table of sessions implements the abstract LRU map.                  *)

\* The keys the abstract map reads off a list are the keys of the list.
LEMMA TableKeys ==
  ASSUME NEW q \in Seq(SessionIDs) PROVE Table!ToSet(q) = Keys(q)
BY LenProperties DEF Table!ToSet, Keys

\* What the mapped list and the mapped values are, before and after a step.
LEMMA TablePresent ==
  ASSUME HandlerInv PROVE Table!Present = Live
<1>1. lru \in Seq(SessionIDs) /\ Keys(lru) = Live  BY InvFacts
<1> QED  BY <1>1, TableKeys DEF Table!Present

\* A command to a session is a use of its key.
LEMMA UseIsTableStep ==
  ASSUME HandlerInv, NEW id \in Live, Live' = Live, lru' = MovedToHead(lru, id)
  PROVE Table!Use(id)
<1>1. lru' \in Seq(SessionIDs) /\ Keys(lru') = Live  BY ListMoved
<1>2. Table!ToSet(lru') = Live  BY <1>1, TableKeys
<1>3. lru' = <<id>> \o Table!Unlinked(lru, {id})
  BY DEF MovedToHead, Unlinked, Rest, Table!Unlinked, Table!Rest
<1>4. Table!Sets(id)
  <2>1. [x \in Live' |-> 0]
          = [x \in Live |-> IF x = id THEN 0 ELSE [y \in Live |-> 0][x]]
    OBVIOUS
  <2> QED  BY <1>2, <2>1 DEF Table!Sets
<1>5. id \in Table!Present  BY TablePresent
<1> QED  BY <1>3, <1>4, <1>5 DEF Table!Use

\* A new session is an insertion: one that was not there, with or without the
\* eviction of the last, or the evicted one's id drawn again.
LEMMA CreateIsTableStep ==
  ASSUME HandlerInv, NEW new \in SessionIDs, ~(Full /\ lru = << >>),
         new \notin Live \ Evicted, Live' = (Live \ Evicted) \cup {new},
         lru' = <<new>> \o Unlinked(lru, Evicted)
  PROVE Table!Insert(new)
<1> DEFINE others == Unlinked(lru, {new})
           kept == IF Len(others) = MaxSessions THEN SubSeq(others, 1, Len(others) - 1)
                   ELSE others
<1>1. /\ lru \in Seq(SessionIDs) /\ Keys(lru) = Live /\ Once(lru) /\ Len(lru) \in Nat
  BY InvFacts
<1>2. lru' \in Seq(SessionIDs) /\ Keys(lru') = Live'  BY ListCreated
<1>3. Unlinked(lru, Evicted) = kept
  <2>1. CASE ~Full
    <3>1. Evicted = {} /\ Len(lru) < MaxSessions /\ Unlinked(lru, Evicted) = lru
      BY <2>1, EvictedFacts
    <3>2. Keys(lru) \cap {new} = {}  BY <1>1, <3>1
    <3>3. others = lru  BY <1>1, <3>2, UnlinkedFacts
    <3> QED  BY <1>1, <3>1, <3>3, Limit
  <2>2. CASE Full /\ new \notin Live
    <3>1. /\ Len(lru) = MaxSessions
          /\ Unlinked(lru, Evicted) = SubSeq(lru, 1, Len(lru) - 1)
      BY <2>2, EvictedFacts
    <3>2. Keys(lru) \cap {new} = {}  BY <1>1, <2>2
    <3>3. others = lru  BY <1>1, <3>2, UnlinkedFacts
    <3> QED  BY <3>1, <3>3
  <2>3. CASE Full /\ new \in Live
    <3>1. /\ Evicted = {lru[Len(lru)]} /\ Len(lru) = MaxSessions
          /\ Len(Unlinked(lru, Evicted)) = Len(lru) - 1
      BY <2>3, EvictedFacts
    <3>2. Evicted = {new}  BY <2>3, <3>1
    <3>3. others = Unlinked(lru, Evicted)  BY <3>2
    <3> HIDE DEF others
    <3>4. Len(others) # MaxSessions
      <4>1. Len(others) = Len(lru) - 1  BY <3>1, <3>3
      <4> QED  BY <1>1, <3>1, <4>1
    <3> QED  BY <3>3, <3>4
  <2> QED  BY <2>1, <2>2, <2>3
<1>4. lru' = <<new>> \o (IF Len(Table!Unlinked(lru, {new})) = MaxSessions
                        THEN Table!Front(Table!Unlinked(lru, {new}))
                        ELSE Table!Unlinked(lru, {new}))
  <2>1. Table!Unlinked(lru, {new}) = others
    BY DEF Unlinked, Rest, Table!Unlinked, Table!Rest
  <2>2. Table!Front(others) = SubSeq(others, 1, Len(others) - 1)
    BY DEF Table!Front
  <2> QED  BY <1>3, <2>1, <2>2
<1>5. Table!Sets(new)
  <2>1. Table!ToSet(lru') = Live'  BY <1>2, TableKeys
  <2>2. \A x \in Live' : x # new => x \in Live  OBVIOUS
  <2>3. [x \in Live' |-> 0]
          = [x \in Live' |-> IF x = new THEN 0 ELSE [y \in Live |-> 0][x]]
    BY <2>2
  <2> QED  BY <2>1, <2>3 DEF Table!Sets
<1> QED  BY <1>4, <1>5 DEF Table!Insert

\* Deletion and expiry are removals of the keys that were there.
LEMMA EraseIsTableStep ==
  ASSUME HandlerInv, NEW ids, Live' = Live \ ids, lru' = Unlinked(lru, ids)
  PROVE Table!Erase
<1>1. lru \in Seq(SessionIDs) /\ Keys(lru) = Live  BY InvFacts
<1> DEFINE ks == ids \cap Live
<1>2. Unlinked(lru, ids) = Unlinked(lru, ks)
  BY <1>1, UnlinkSame
<1>3. lru' = Table!Unlinked(lru, ks)
  BY <1>2 DEF Unlinked, Rest, Table!Unlinked, Table!Rest
<1>4. [x \in Live' |-> 0] = [x \in Live \ ks |-> [y \in Live |-> 0][x]]
  <2>1. Live \ ids = Live \ ks  OBVIOUS
  <2> QED  BY <2>1
<1>5. ks \in SUBSET Table!Present  BY TablePresent
<1> HIDE DEF ks
<1> QED  BY <1>3, <1>4, <1>5, TablePresent DEF Table!Erase

\* The handler uses session_map_ as a bounded LRU map: every command is one
\* operation of the abstract map or none.  In particular no command but one
\* that creates a session at the limit evicts, and what it evicts is the
\* session used least recently.
THEOREM TableIsLruMapHolds == Spec => TableIsLruMap
<1>1. Init => Table!Init
  <2> SUFFICES ASSUME Init PROVE Table!Init  OBVIOUS
  <2>1. Live = {}  BY DEF Init, Live
  <2>2. [id \in Live |-> 0] = [k \in {} |-> k]  BY <2>1
  <2> QED  BY <2>2, Limit DEF Init, Table!Init
<1>2. HandlerInv /\ [Next]_vars => [Table!Next]_(Table!vars)
  <2> SUFFICES ASSUME HandlerInv, [Next]_vars
               PROVE [Table!Next]_(Table!vars)
    OBVIOUS
  <2>1. TableStep  BY NextHandlerInv
  <2>2. CASE \E id \in Live : Live' = Live /\ lru' = MovedToHead(lru, id)
    <3>1. Live \subseteq SessionIDs  BY InvFacts DEF TypeOK
    <3> QED  BY <2>2, <3>1, UseIsTableStep DEF Table!Next
  <2>3. CASE \E new \in SessionIDs :
               /\ ~(Full /\ lru = << >>)
               /\ new \notin Live \ Evicted
               /\ Live' = (Live \ Evicted) \cup {new}
               /\ lru' = <<new>> \o Unlinked(lru, Evicted)
    BY <2>3, CreateIsTableStep DEF Table!Next
  <2>4. CASE \E ids : Live' = Live \ ids /\ lru' = Unlinked(lru, ids)
    BY <2>4, EraseIsTableStep DEF Table!Next
  <2>5. CASE Live' = Live /\ lru' = lru
    BY <2>5 DEF Table!vars
  <2> QED  BY <2>1, <2>2, <2>3, <2>4, <2>5 DEF TableStep
<1> QED  BY HandlerInvHolds, <1>1, <1>2, PTL DEF Spec, TableIsLruMap, Table!Spec
=============================================================================
