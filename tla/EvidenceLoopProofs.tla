-------------------------- MODULE EvidenceLoopProofs --------------------------
(***************************************************************************)
(* Theorems about EvidenceLoop, for any runs, operators, objects, workloads *)
(* and attempts: what a run leaves behind is backed wherever it ended, what *)
(* was relied on was authorized, and an attempt has one answer.             *)
(***************************************************************************)
EXTENDS EvidenceLoop, FiniteSetTheorems, SequenceTheorems, WellFoundedInduction, TLAPS

-----------------------------------------------------------------------------
(* Lists: what is in a sequence of calls *)

IsList(s) == s \in Seq(ToSet(s))

LEMMA InList ==
    ASSUME NEW s, IsList(s)
    PROVE  /\ Len(s) \in Nat /\ DOMAIN s = 1 .. Len(s)
           /\ \A i \in 1 .. Len(s) : s[i] \in ToSet(s)
           /\ \A c \in ToSet(s) : \E i \in 1 .. Len(s) : s[i] = c
           /\ s = <<>> <=> Len(s) = 0
  BY EmptySeq, LenProperties, SMT DEF IsList, ToSet

LEMMA ListOf ==
    ASSUME NEW s, NEW S, s \in Seq(S)
    PROVE  IsList(s)
  <1>1. Len(s) \in Nat /\ s \in [1 .. Len(s) -> S]
    BY LenProperties
  <1>2. s \in [1 .. Len(s) -> ToSet(s)]
    BY <1>1 DEF ToSet
  <1> QED
    BY <1>1, <1>2, SeqDef DEF IsList

\* A concatenation holds what its parts hold, in that order.
LEMMA ListConcat ==
    ASSUME NEW s, NEW t, IsList(s), IsList(t)
    PROVE  /\ IsList(s \o t) /\ Len(s \o t) = Len(s) + Len(t)
           /\ ToSet(s \o t) = ToSet(s) \cup ToSet(t)
           /\ \A i \in 1 .. Len(s) : (s \o t)[i] = s[i]
           /\ \A i \in 1 .. Len(t) : (s \o t)[Len(s) + i] = t[i]
  <1> DEFINE S == ToSet(s) \cup ToSet(t)
  <1>1. s \in Seq(S) /\ t \in Seq(S)
    BY SeqMonotonic, Zenon DEF IsList
  <1> HIDE DEF S
  <1>2. /\ s \o t \in Seq(S) /\ Len(s \o t) = Len(s) + Len(t)
        /\ \A i \in 1 .. Len(s) + Len(t) : (s \o t)[i] = IF i <= Len(s) THEN s[i] ELSE t[i - Len(s)]
    BY <1>1, ConcatProperties
  <1>3. IsList(s \o t)
    BY <1>2, ListOf
  <1>4. Len(s) \in Nat /\ Len(t) \in Nat
    BY InList
  <1>5. /\ \A i \in 1 .. Len(s) : (s \o t)[i] = s[i]
        /\ \A i \in 1 .. Len(t) : (s \o t)[Len(s) + i] = t[i]
    BY <1>2, <1>4
  <1>6. ToSet(s \o t) \subseteq ToSet(s) \cup ToSet(t)
    <2> SUFFICES ASSUME NEW c \in ToSet(s \o t) PROVE c \in ToSet(s) \cup ToSet(t)
      OBVIOUS
    <2>1. PICK i \in 1 .. Len(s \o t) : (s \o t)[i] = c
      BY <1>3, InList
    <2>2. CASE i <= Len(s)
      BY <2>1, <2>2, <1>2, <1>4, InList
    <2>3. CASE ~(i <= Len(s))
      <3>1. i - Len(s) \in 1 .. Len(t) /\ t[i - Len(s)] = c
        BY <2>1, <2>3, <1>2, <1>4
      <3> QED
        BY <3>1, InList
    <2> QED
      BY <2>2, <2>3
  <1>7. ToSet(s) \cup ToSet(t) \subseteq ToSet(s \o t)
    <2>1. ASSUME NEW c \in ToSet(s) PROVE c \in ToSet(s \o t)
      <3>1. PICK i \in 1 .. Len(s) : s[i] = c
        BY InList
      <3>2. i \in 1 .. Len(s \o t)
        BY <1>2, <1>4
      <3> QED
        BY <3>1, <3>2, <1>3, <1>5, InList
    <2>2. ASSUME NEW c \in ToSet(t) PROVE c \in ToSet(s \o t)
      <3>1. PICK i \in 1 .. Len(t) : t[i] = c
        BY InList
      <3>2. Len(s) + i \in 1 .. Len(s \o t)
        BY <1>2, <1>4
      <3>3. (s \o t)[Len(s) + i] = c
        BY <3>1, <1>5
      <3> QED
        BY <3>2, <3>3, <1>3, InList
    <2> QED
      BY <2>1, <2>2
  <1> QED
    BY <1>2, <1>3, <1>5, <1>6, <1>7

\* Short lists.
LEMMA ListEmpty == IsList(<<>>) /\ ToSet(<<>>) = {}
  <1>1. \A S : <<>> \in Seq(S)
    BY EmptySeq
  <1> QED
    BY <1>1 DEF IsList, ToSet

LEMMA List1 ==
    ASSUME NEW a
    PROVE  IsList(<<a>>) /\ ToSet(<<a>>) = {a} /\ Len(<<a>>) = 1
  <1>1. ToSet(<<a>>) = {a}
    BY DEF ToSet
  <1> QED
    BY <1>1 DEF IsList

LEMMA List2 ==
    ASSUME NEW a, NEW b
    PROVE  IsList(<<a, b>>) /\ ToSet(<<a, b>>) = {a, b} /\ Len(<<a, b>>) = 2
  <1>1. <<a, b>> \in Seq({a, b}) /\ Len(<<a, b>>) = 2 /\ <<a, b>>[1] = a /\ <<a, b>>[2] = b
    OBVIOUS
  <1>2. IsList(<<a, b>>)
    BY <1>1, ListOf
  <1>3. \A i \in 1 .. 2 : i = 1 \/ i = 2
    OBVIOUS
  <1>4. a \in ToSet(<<a, b>>) /\ b \in ToSet(<<a, b>>) /\ \A x \in ToSet(<<a, b>>) : x = a \/ x = b
    BY <1>1, <1>2, <1>3, InList
  <1> QED
    BY <1>1, <1>2, <1>4

LEMMA List3 ==
    ASSUME NEW a, NEW b, NEW c
    PROVE  IsList(<<a, b, c>>) /\ ToSet(<<a, b, c>>) = {a, b, c} /\ Len(<<a, b, c>>) = 3
  <1>1. /\ <<a, b, c>> \in Seq({a, b, c}) /\ Len(<<a, b, c>>) = 3
        /\ <<a, b, c>>[1] = a /\ <<a, b, c>>[2] = b /\ <<a, b, c>>[3] = c
    OBVIOUS
  <1>2. IsList(<<a, b, c>>)
    BY <1>1, ListOf
  <1>3. \A i \in 1 .. 3 : i = 1 \/ i = 2 \/ i = 3
    OBVIOUS
  <1>4. /\ a \in ToSet(<<a, b, c>>) /\ b \in ToSet(<<a, b, c>>) /\ c \in ToSet(<<a, b, c>>)
        /\ \A x \in ToSet(<<a, b, c>>) : x = a \/ x = b \/ x = c
    BY <1>1, <1>2, <1>3, InList
  <1> QED
    BY <1>1, <1>2, <1>4

LEMMA List4 ==
    ASSUME NEW a, NEW b, NEW c, NEW d
    PROVE  IsList(<<a, b, c, d>>) /\ ToSet(<<a, b, c, d>>) = {a, b, c, d}
  <1> DEFINE t == <<a, b, c, d>>
  <1>1. /\ t \in Seq({a, b, c, d}) /\ Len(t) = 4
        /\ t[1] = a /\ t[2] = b /\ t[3] = c /\ t[4] = d
    OBVIOUS
  <1> HIDE DEF t
  <1>2. IsList(t)
    BY <1>1, ListOf
  <1>3. \A i \in 1 .. 4 : i = 1 \/ i = 2 \/ i = 3 \/ i = 4
    OBVIOUS
  <1>4. /\ a \in ToSet(t) /\ b \in ToSet(t) /\ c \in ToSet(t) /\ d \in ToSet(t)
        /\ \A x \in ToSet(t) : x \in {a, b, c, d}
    <2>1. \A x \in ToSet(t) : \E i \in 1 .. 4 : t[i] = x
      BY <1>1, <1>2, InList
    <2>2. \A i \in 1 .. 4 : t[i] \in ToSet(t)
      BY <1>1, <1>2, InList
    <2> QED
      BY <1>1, <1>3, <2>1, <2>2
  <1> QED
    BY <1>1, <1>2, <1>4 DEF t

LEMMA List5 ==
    ASSUME NEW a, NEW b, NEW c, NEW d, NEW e
    PROVE  IsList(<<a, b, c, d, e>>) /\ ToSet(<<a, b, c, d, e>>) = {a, b, c, d, e}
  <1> DEFINE t == <<a, b, c, d, e>>
  <1>1. /\ t \in Seq({a, b, c, d, e}) /\ Len(t) = 5
        /\ t[1] = a /\ t[2] = b /\ t[3] = c /\ t[4] = d /\ t[5] = e
    OBVIOUS
  <1> HIDE DEF t
  <1>2. IsList(t)
    BY <1>1, ListOf
  <1>3. \A i \in 1 .. 5 : i = 1 \/ i = 2 \/ i = 3 \/ i = 4 \/ i = 5
    OBVIOUS
  <1>4. /\ a \in ToSet(t) /\ b \in ToSet(t) /\ c \in ToSet(t) /\ d \in ToSet(t) /\ e \in ToSet(t)
        /\ \A x \in ToSet(t) : x \in {a, b, c, d, e}
    <2>1. \A x \in ToSet(t) : \E i \in 1 .. 5 : t[i] = x
      BY <1>1, <1>2, InList
    <2>2. \A i \in 1 .. 5 : t[i] \in ToSet(t)
      BY <1>1, <1>2, InList
    <2> QED
      BY <1>1, <1>3, <2>1, <2>2
  <1> QED
    BY <1>1, <1>2, <1>4 DEF t

LEMMA List8 ==
    ASSUME NEW a, NEW b, NEW c, NEW d, NEW e, NEW f, NEW g, NEW h
    PROVE  IsList(<<a, b, c, d, e, f, g, h>>) /\ ToSet(<<a, b, c, d, e, f, g, h>>) = {a, b, c, d, e, f, g, h}
  <1> DEFINE t == <<a, b, c, d, e, f, g, h>>
  <1>1. /\ t \in Seq({a, b, c, d, e, f, g, h}) /\ Len(t) = 8
        /\ t[1] = a /\ t[2] = b /\ t[3] = c /\ t[4] = d /\ t[5] = e /\ t[6] = f /\ t[7] = g /\ t[8] = h
    OBVIOUS
  <1> HIDE DEF t
  <1>2. IsList(t)
    BY <1>1, ListOf
  <1>3. \A i \in 1 .. 8 : i = 1 \/ i = 2 \/ i = 3 \/ i = 4 \/ i = 5 \/ i = 6 \/ i = 7 \/ i = 8
    OBVIOUS
  <1>4. /\ a \in ToSet(t) /\ b \in ToSet(t) /\ c \in ToSet(t) /\ d \in ToSet(t) /\ e \in ToSet(t) /\ f \in ToSet(t) /\ g \in ToSet(t) /\ h \in ToSet(t)
        /\ \A x \in ToSet(t) : x \in {a, b, c, d, e, f, g, h}
    <2>1. \A x \in ToSet(t) : \E i \in 1 .. 8 : t[i] = x
      BY <1>1, <1>2, InList
    <2>2. \A i \in 1 .. 8 : t[i] \in ToSet(t)
      BY <1>1, <1>2, InList
    <2> QED
      BY <1>1, <1>3, <2>1, <2>2
  <1> QED
    BY <1>1, <1>2, <1>4 DEF t

\* One more at the end, one less at the front.
LEMMA ListAppend ==
    ASSUME NEW s, NEW x, IsList(s)
    PROVE  /\ IsList(Append(s, x)) /\ Len(Append(s, x)) = Len(s) + 1
           /\ \A i \in 1 .. Len(s) : Append(s, x)[i] = s[i]
           /\ Append(s, x)[Len(s) + 1] = x
  <1>1. s \in Seq(ToSet(s) \cup {x})
    BY SeqMonotonic, Zenon DEF IsList
  <1>2. /\ Append(s, x) \in Seq(ToSet(s) \cup {x}) /\ Len(Append(s, x)) = Len(s) + 1
        /\ \A i \in 1 .. Len(s) : Append(s, x)[i] = s[i]
        /\ Append(s, x)[Len(s) + 1] = x
    BY <1>1, AppendProperties
  <1> QED
    BY <1>2, ListOf

LEMMA ListTail ==
    ASSUME NEW s, IsList(s), s # <<>>
    PROVE  /\ IsList(Tail(s)) /\ Len(Tail(s)) = Len(s) - 1 /\ Head(s) = s[1]
           /\ \A i \in 1 .. Len(s) - 1 : Tail(s)[i] = s[i + 1]
           /\ Head(s) \in ToSet(s) /\ ToSet(Tail(s)) \subseteq ToSet(s)
           /\ ToSet(s) = {Head(s)} \cup ToSet(Tail(s))
  <1>1. /\ Head(s) \in ToSet(s) /\ Tail(s) \in Seq(ToSet(s)) /\ Len(Tail(s)) = Len(s) - 1
        /\ Head(s) = s[1]
        /\ \A i \in 1 .. Len(Tail(s)) : Tail(s)[i] = s[i + 1]
    BY HeadTailProperties, LenProperties, SMT DEF IsList
  <1>2. IsList(Tail(s))
    BY <1>1, ListOf
  <1>3. Len(s) \in Nat \ {0}
    BY InList
  <1>4. ASSUME NEW c \in ToSet(Tail(s)) PROVE c \in ToSet(s)
    <2>1. PICK i \in 1 .. Len(Tail(s)) : Tail(s)[i] = c
      BY <1>2, InList
    <2>2. i + 1 \in 1 .. Len(s) /\ s[i + 1] = c
      BY <2>1, <1>1, <1>3
    <2> QED
      BY <2>2, InList
  <1>5. ASSUME NEW c \in ToSet(s), c # Head(s) PROVE c \in ToSet(Tail(s))
    <2>1. PICK i \in 1 .. Len(s) : s[i] = c
      BY InList
    <2>2. i - 1 \in 1 .. Len(Tail(s)) /\ Tail(s)[i - 1] = c
      BY <2>1, <1>1, <1>3, <1>5
    <2> QED
      BY <2>2, <1>2, InList
  <1> QED
    BY <1>1, <1>2, <1>3, <1>4, <1>5


-----------------------------------------------------------------------------
(* Lists made of lists, and of sets *)

\* Every nonempty set of naturals has a least element.
LEMMA LeastNatural ==
    ASSUME NEW T, T \subseteq Nat, T # {}
    PROVE  \E n \in T : \A m \in T : n <= m
  <1>1. IsWellFoundedOn(OpToRel(<, Nat), Nat)
    BY NatLessThanWellFounded
  <1>2. PICK x \in T : \A y \in T : ~ (<<y, x>> \in OpToRel(<, Nat))
    BY <1>1, WFMin
  <1>3. \A y \in Nat, z \in Nat : y < z => <<y, z>> \in OpToRel(<, Nat)
    BY DEF OpToRel
  <1>4. \A y \in T : ~(y < x)
    BY <1>2, <1>3, Zenon
  <1> QED
    BY <1>4

\* A set that holds 1, and the successor of each of its numbers below N, holds 1 .. N.
LEMMA OneUpTo ==
    ASSUME NEW N \in Nat, NEW P,
           1 \in P, \A n \in 1 .. N : n \in P /\ n < N => n + 1 \in P
    PROVE  1 .. N \subseteq P
  <1> DEFINE T == 1 .. N \ P
  <1> SUFFICES ASSUME T # {} PROVE FALSE
    OBVIOUS
  <1>1. T \subseteq Nat
    OBVIOUS
  <1> HIDE DEF T
  <1>2. PICK n \in T : \A m \in T : n <= m
    BY <1>1, LeastNatural
  <1> USE DEF T
  <1>3. n # 1 /\ n - 1 \in 1 .. N /\ n - 1 < N
    BY <1>2
  <1>4. n - 1 \in P
    BY <1>2, <1>3
  <1> QED
    BY <1>2, <1>3, <1>4

\* f is the table of FlattenSeq up to N: the first n lists after one another.
IsFlattening(f, seqs, N) ==
    f = [i \in 1 .. N |-> IF i = 1 THEN seqs[i] ELSE f[i - 1] \o seqs[i]]

LEMMA FlatteningExists ==
    ASSUME NEW seqs, NEW N \in Nat, N >= 1
    PROVE  \E f : IsFlattening(f, seqs, N)
  <1> DEFINE P == {m \in 1 .. N : \E f : IsFlattening(f, seqs, m)}
  <1>1. 1 \in P
    <2> DEFINE f == [i \in 1 .. 1 |-> seqs[1]]
    <2>1. IsFlattening(f, seqs, 1)
      BY DEF IsFlattening
    <2> HIDE DEF f
    <2> QED
      BY <2>1
  <1>2. \A m \in 1 .. N : m \in P /\ m < N => m + 1 \in P
    <2> SUFFICES ASSUME NEW m \in 1 .. N, m \in P, m < N PROVE m + 1 \in P
      OBVIOUS
    <2>1. PICK f : IsFlattening(f, seqs, m)
      OBVIOUS
    <2> DEFINE g == [i \in 1 .. m + 1 |-> IF i = m + 1 THEN f[m] \o seqs[m + 1] ELSE f[i]]
    <2>2. \A i \in 1 .. m + 1 : g[i] = IF i = 1 THEN seqs[i] ELSE g[i - 1] \o seqs[i]
      <3> TAKE i \in 1 .. m + 1
      <3>1. CASE i = m + 1
        <4>1. i # 1 /\ g[i - 1] = f[m]
          BY <3>1
        <4> QED
          BY <3>1, <4>1
      <3>2. CASE i \in 1 .. m
        <4>1. f[i] = IF i = 1 THEN seqs[i] ELSE f[i - 1] \o seqs[i]
          BY <3>2, <2>1 DEF IsFlattening
        <4>2. g[i] = f[i] /\ (i # 1 => g[i - 1] = f[i - 1])
          BY <3>2
        <4> QED
          BY <4>1, <4>2
      <3> QED
        BY <3>1, <3>2
    <2>3. IsFlattening(g, seqs, m + 1)
      BY <2>2 DEF IsFlattening
    <2> HIDE DEF g
    <2>4. m + 1 \in 1 .. N
      OBVIOUS
    <2> QED
      BY <2>3, <2>4
  <1>3. 1 .. N \subseteq P
    <2> HIDE DEF P
    <2> QED
      BY <1>1, <1>2, OneUpTo
  <1> QED
    BY <1>3

\* FlattenSeq on a list of lists holds what they hold.
LEMMA Flattened ==
    ASSUME NEW n \in Nat, NEW seqs, seqs = [i \in 1 .. n |-> seqs[i]],
           \A i \in 1 .. n : IsList(seqs[i])
    PROVE  /\ IsList(FlattenSeq(seqs))
           /\ ToSet(FlattenSeq(seqs)) = UNION {ToSet(seqs[i]) : i \in 1 .. n}
  <1> DEFINE S == {seqs[i] : i \in 1 .. n}
             f == CHOOSE g : IsFlattening(g, seqs, Len(seqs))
             All(m) == UNION {ToSet(seqs[i]) : i \in 1 .. m}
  <1>1. seqs \in Seq(S) /\ Len(seqs) = n
    <2>1. seqs \in [1 .. n -> S]
      OBVIOUS
    <2>2. seqs \in Seq(S)
      BY <2>1, SeqDef
    <2>3. Len(seqs) \in Nat /\ DOMAIN seqs = 1 .. Len(seqs)
      BY <2>2, LenProperties
    <2>4. 1 .. n = 1 .. Len(seqs)
      BY <2>3
    <2> QED
      BY <2>2, <2>3, <2>4
  <1>2. FlattenSeq(seqs) = IF Len(seqs) = 0 THEN seqs ELSE f[Len(seqs)]
    BY DEF FlattenSeq, IsFlattening
  <1>3. CASE n = 0
    <2>1. seqs = <<>>
      BY <1>1, <1>3, EmptySeq
    <2>2. 1 .. n = {}
      BY <1>3
    <2> QED
      BY <1>1, <1>2, <1>3, <2>1, <2>2, ListEmpty
  <1>4. CASE n # 0
    <2>1. IsFlattening(f, seqs, n)
      <3>0. n >= 1
        BY <1>4
      <3>1. \E g : IsFlattening(g, seqs, n)
        BY <3>0, FlatteningExists
      <3>2. IsFlattening(CHOOSE g : IsFlattening(g, seqs, n), seqs, n)
        BY <3>1
      <3> QED
        BY <3>2, <1>1
    <2> HIDE DEF f
    <2> DEFINE P == {m \in 1 .. n : IsList(f[m]) /\ ToSet(f[m]) = All(m)}
    <2>2. 1 \in P
      <3>1. f[1] = seqs[1] /\ 1 \in 1 .. n
        BY <2>1, <1>4 DEF IsFlattening
      <3>2. {ToSet(seqs[i]) : i \in 1 .. 1} = {ToSet(seqs[1])}
        OBVIOUS
      <3> QED
        BY <3>1, <3>2
    <2>3. \A m \in 1 .. n : m \in P /\ m < n => m + 1 \in P
      <3> SUFFICES ASSUME NEW m \in 1 .. n, m \in P, m < n PROVE m + 1 \in P
        OBVIOUS
      <3>1. m + 1 \in 1 .. n /\ m + 1 # 1 /\ (m + 1) - 1 = m
        OBVIOUS
      <3>2. f[m + 1] = f[m] \o seqs[m + 1]
        BY <2>1, <3>1 DEF IsFlattening
      <3>3. IsList(f[m]) /\ ToSet(f[m]) = All(m) /\ IsList(seqs[m + 1])
        BY <3>1
      <3>4. IsList(f[m + 1]) /\ ToSet(f[m + 1]) = All(m) \cup ToSet(seqs[m + 1])
        <4> HIDE DEF All, P
        <4> QED
          BY <3>2, <3>3, ListConcat
      <3>5. 1 .. m + 1 = 1 .. m \cup {m + 1}
        OBVIOUS
      <3>6. All(m + 1) = All(m) \cup ToSet(seqs[m + 1])
        BY <3>5
      <3> QED
        BY <3>1, <3>4, <3>6
    <2>4. n \in P
      <3>1. 1 .. n \subseteq P
        <4> HIDE DEF P
        <4> QED
          BY <2>2, <2>3, OneUpTo
      <3> QED
        BY <3>1, <1>4
    <2> QED
      BY <1>1, <1>2, <1>4, <2>4
  <1> QED
    BY <1>3, <1>4

\* SetToSeq on a finite set holds its elements.
LEMMA SetAsList ==
    ASSUME NEW S, IsFiniteSet(S)
    PROVE  IsList(SetToSeq(S)) /\ ToSet(SetToSeq(S)) = S
  <1> DEFINE n == Cardinality(S)
             s == SetToSeq(S)
  <1>1. n \in Nat /\ \E f \in [1 .. n -> S] : IsInjective(f)
    BY FS_CardinalityType DEF ExistsBijection, Bijection, Injection
  <1>2. s \in [1 .. n -> S] /\ IsInjective(s)
    BY <1>1 DEF SetToSeq
  <1> HIDE DEF n, s
  <1>3. s \in Injection(1 .. n, S)
    BY <1>2 DEF Injection
  <1>4. Cardinality(1 .. n) = n
    BY <1>1, FS_Interval
  <1>5. s \in Surjection(1 .. n, S)
    BY <1>3, <1>4, FS_Injection DEF n
  <1>6. ToSet(s) = S
    BY <1>2, <1>5 DEF Surjection, ToSet
  <1>7. s \in Seq(S)
    BY <1>1, <1>2, SeqDef
  <1> QED
    BY <1>6, <1>7 DEF IsList, s

-----------------------------------------------------------------------------
(* The inductive invariant *)

Synth(l) == plan[l].kind # "local"

\* What a claim cites: the anchors of the analysis it is made of, which had enough
\* evidence for a claim.
ClaimHolds(o, holds) ==
    \E l \in Loops : \E analysis \in Output(l).analyses :
        /\ o = Of(l, "claim", analysis.analysis) /\ analysis.outcome # "insufficient_evidence"
        /\ holds = AnchorsOf(l, analysis.supporting \cup analysis.contradicting, Output(l).rows)

\* What is true of any revision that is stored, or about to be.
RowOK(o, row) ==
    /\ row.by \in Actors
    /\ Kind(o) = "profile" => row.holds = {"capability"}
    /\ Kind(o) = "node" => row.status = "registered"
    /\ Kind(o) = "protocol" => row.status \in {"draft", "reviewed", "locked"}
    /\ Kind(o) = "matrix" => row.status \in {"draft", "active", "frozen"}
    /\ Kind(o) = "ruling" => row.status \in {"pending", "issued"}
    /\ Kind(o) = "claim" => ClaimHolds(o, row.holds)

BundleSteps == {<<"CREATED", "OFFERED">>, <<"OFFERED", "ACCEPTED">>}

\* A revision that may follow another.
Follows(o, from, to) ==
    \/ Kind(o) \in {"score", "node"} /\ from.status = to.status
    \/ /\ Kind(o) \in DOMAIN Transitions /\ <<from.status, to.status>> \in Transitions[Kind(o)]
       /\ Kind(o) = "score" /\ to.status = "APPROVED" => "approval" \in from.holds
    \/ Kind(o) = "bundle" /\ <<from.status, to.status>> \in BundleSteps

HistoryOK(o) ==
    /\ IsList(store[o])
    /\ \A i \in 1 .. Len(store[o]) :
          /\ RowOK(o, store[o][i])
          /\ i = 1 => store[o][i].status = InitialStatus[Kind(o)]
          /\ i > 1 => Follows(o, store[o][i - 1], store[o][i])

\* Some revision of o has the status.
WasIn(o, status) == \E i \in 1 .. Len(store[o]) : store[o][i].status = status
ScoreApproved(l) == WasIn(Own(l, "score"), "APPROVED")

\* What an actor is about to store still follows from what it has read. Operators
\* create no bundle, matrix, claim, ruling or decision.
Pending(a, o, read, row) ==
    /\ o \in Objects /\ read \in 0 .. Len(store[o]) /\ RowOK(o, row)
    /\ read = 0 => row.status = InitialStatus[Kind(o)]
    /\ read > 0 => Follows(o, store[o][read], row)
    /\ a \notin Loops => /\ Kind(o) \in {"score", "node", "profile", "protocol", "matrix"}
                         /\ Kind(o) = "matrix" => read > 0
CommandOK(a) == cmd[a] # None => Pending(a, cmd[a].o, cmd[a].read, cmd[a].row)

\* The protocol the run has read, as it was; and the lock an assertion needs.
ProtocolRead(l) ==
    /\ run[l].protocol.hash \in 1 .. Len(store[plan[l].protocol])
    /\ run[l].protocol.status = store[plan[l].protocol][run[l].protocol.hash].status
Completes(l) ==
    /\ plan[l] # None
    /\ \E i \in 1 .. Len(store[plan[l].protocol]) :
          store[plan[l].protocol][i].status = "locked" /\ i = plan[l].params.lock
    /\ _require_unique_entry_ids(plan[l].entries)

Asserted == {"claim", "ruling", "matrix", "decision"}
Creating == {"create", "bundle", "seal"}
Storing == Creating \cup {"move", "revise", "register", "advance"}

\* The calls whose revision holds what they were given.
Carries(c) ==
    \/ c.op \in {"bundle", "seal"}
    \/ c.op = "create" /\ Kind(c.o) \in {"claim", "manifest"}

\* What is true of any call of a run that waits for, or has, the outcome.
CallOK(l, outcome, c) ==
    /\ c.op \in Storing \cup {"put", "edge", "read protocol", "require accepted", "execute"}
    /\ c.op \in Storing \cup {"read protocol"} => c.o \in Objects
    /\ c.op = "create" /\ Kind(c.o) \in Asserted => c.o[1] = l /\ Completed(outcome) /\ Synth(l)
    /\ c.op = "create" /\ Kind(c.o) = "claim" => ClaimHolds(c.o, c.arg)
    /\ c.op = "move" /\ Kind(c.o) = "matrix" => c.arg \in {"active", "frozen"}
    /\ c.op = "move" /\ Kind(c.o) = "ruling" => c.arg = "issued"
    /\ c.op \in {"bundle", "advance"} => c.o = Own(l, "bundle")
    /\ c.op = "seal" => /\ c.o = Own(l, "crate") /\ outcome \in Outcomes
                        /\ c.arg = EvidenceCrateSealer_seal(l, outcome).arg
    /\ c.op = "read protocol" => Synth(l) /\ c.o = plan[l].protocol
    /\ c.op = "execute" => outcome = None

\* What a call leaves behind, for good.
Done(l, c) ==
    /\ c.op \in Creating => store[c.o] # <<>>
    /\ Carries(c) => store[c.o][1].holds = c.arg
    /\ c.op \in {"move", "advance"} => WasIn(c.o, c.arg)
    /\ c.op = "put" => c.arg \in artifacts
    /\ c.op = "edge" => <<c.o>> \o c.arg \in edges
    /\ c.op = "read protocol" => ProtocolRead(l)

\* The run has made all its calls up to the execution.
FirstDone(l) ==
    plan[l] # None /\ \A c \in ToSet(FirstCalls(l)) : c.op # "execute" => Done(l, c)

\* What the crate of a run stands on.
Behind(l, outcome) ==
    /\ FirstDone(l)
    /\ \A c \in ToSet(LastCalls(l, outcome)) : c.op # "seal" /\ c.o # Own(l, "crate") => Done(l, c)
    /\ Completed(outcome) /\ Synth(l) => Completes(l)

\* Only the last call of a list may be of the kind; none is.
OpLast(op, s) == \A i, j \in 1 .. Len(s) : i < j => s[i].op # op
HasNo(op, s) == \A c \in ToSet(s) : c.op # op

\* The calls a run has left; those it has not left are made. The execution is the
\* last of the first ones, and after the crate only its edge is written.
CallsOf(l) == IF run[l].outcome = None THEN FirstCalls(l) ELSE LastCalls(l, run[l].outcome)
ScriptOK(l) ==
    LET script == run[l].script
    IN  run[l].state = "running" =>
          /\ IsList(script)
          /\ \A c \in ToSet(script) : CallOK(l, run[l].outcome, c)
          /\ \A c \in ToSet(CallsOf(l)) : c \in ToSet(script) \/ Done(l, c)
          /\ OpLast("execute", script)
          /\ \A i, j \in 1 .. Len(script) :
                i < j /\ script[i].op = "seal" => script[j].op = "edge" /\ script[j].o = Own(l, "crate")

\* What a run is about to store is what its next call asks for.
Asked(l, c, read, row) ==
    /\ c.op \in Storing
    /\ c.op \in Creating => read = 0
    /\ c.op \in {"move", "revise", "advance"} => read > 0
    /\ c.op = "register" => Kind(c.o) = "node"
    /\ c.op = "create" => Kind(c.o) \notin {"bundle", "crate"}
    /\ Carries(c) => row.holds = c.arg
    /\ c.op \in {"move", "advance"} => row.status = c.arg
    /\ c.op = "bundle" => ScoreApproved(l)
PendingOK(l) ==
    cmd[l] # None =>
      /\ run[l].state = "running" /\ run[l].script # <<>> /\ executing[l] = None
      /\ cmd[l].o = Head(run[l].script).o
      /\ Asked(l, Head(run[l].script), cmd[l].read, cmd[l].row)

\* A run's state, its executor's memory and its answers.
RunOK(l) ==
    /\ run[l].state \in {"idle", "running", "returned", "aborted", "dead", "unavailable"}
    /\ run[l].state # "idle" => plan[l] # None
    /\ run[l].outcome \in Outcomes \cup {None}
    /\ run[l].state \in {"idle", "dead", "unavailable"} => run[l].outcome = None /\ executing[l] = None
    /\ executing[l] # None \/ run[l].outcome # None => FirstDone(l)
    /\ run[l].outcome = "completed" /\ Synth(l) => Completes(l)
    /\ executing[l] # None => executing[l].attempt \in Attempts /\ memo[l][executing[l].attempt] = None
    /\ \A k \in Attempts : /\ memo[l][k] \in Outcomes \cup {None}
                           /\ memo[l][k] = "completed" /\ Synth(l) => Completes(l)
    /\ \A x \in answers[l] : x[1] \in Attempts /\ x[2] # None /\ memo[l][x[1]] = x[2]

\* What exists of a run: its bundle only with an approval, its assertions only if it
\* completed, its crate only with all that is behind it.
LeftOK(l) ==
    /\ Exists(Own(l, "bundle")) => ScoreApproved(l)
    /\ \A o \in Objects : o[1] = l /\ Kind(o) \in Asserted /\ Exists(o) =>
          /\ Synth(l) /\ Completes(l)
          /\ run[l].outcome = "completed" \/ run[l].state = "dead"
    /\ Exists(Own(l, "crate")) =>
          \E outcome \in Outcomes :
              /\ store[Own(l, "crate")][1].holds = EvidenceCrateSealer_seal(l, outcome).arg
              /\ Behind(l, outcome)

\* An active score was approved.
ActiveOK(o) == Kind(o) = "score" /\ WasIn(o, "ACTIVE") => WasIn(o, "APPROVED")

\* A lookup still has to read each profile that was accepted when it began, or has
\* found it, or the profile is superseded.
LookupOK(a) ==
    LET pass == lookup[a]
    IN  pass # None =>
          /\ pass.todo \cup pass.found \cup pass.began \subseteq EverAccepted
          /\ \A o \in pass.began : o \in pass.todo \cup pass.found \/ WasIn(o, "superseded")

\* Variables are functions on their domains, and a run's inputs are inputs.
RunShape ==
    /\ run = [l \in Loops |-> run[l]]
    /\ \A l \in Loops : DOMAIN run[l] = {"state", "script", "outcome", "protocol"}
ExecutorShape ==
    /\ memo = [l \in Loops |-> [k \in Attempts |-> memo[l][k]]]
    /\ executing = [l \in Loops |-> executing[l]]
    /\ answers = [l \in Loops |-> answers[l]]
KernelShape ==
    /\ store = [o \in Objects |-> store[o]]
    /\ cmd = [a \in Actors |-> cmd[a]]
LookupShape ==
    /\ lookup = [a \in Lookers |-> lookup[a]]
    /\ \A a \in Lookers : lookup[a] # None => DOMAIN lookup[a] = {"todo", "found", "began"}
PlanShape == \A l \in Loops : plan[l] # None => IsPlan(l, plan[l])
Shape == RunShape /\ ExecutorShape /\ KernelShape /\ LookupShape /\ PlanShape

Histories == \A o \in Objects : HistoryOK(o) /\ ActiveOK(o)
Commands == \A a \in Actors : CommandOK(a)
Runs == \A l \in Loops : RunOK(l) /\ ScriptOK(l) /\ PendingOK(l) /\ LeftOK(l)
Lookups == \A a \in Lookers : LookupOK(a)

IInv == Shape /\ Histories /\ Commands /\ Runs /\ Lookups

-----------------------------------------------------------------------------
(* What the calls up to the execution are *)

AllOK(l, outcome, s) == \A c \in ToSet(s) : CallOK(l, outcome, c)

LEMMA AllOKConcat ==
    ASSUME NEW l, NEW outcome, NEW s, NEW t, IsList(s), IsList(t),
           AllOK(l, outcome, s), AllOK(l, outcome, t)
    PROVE  AllOK(l, outcome, s \o t)
  BY ListConcat, Zenon DEF AllOK

LEMMA OpLastConcat ==
    ASSUME NEW op, NEW s, NEW t, IsList(s), IsList(t), HasNo(op, s), OpLast(op, t)
    PROVE  OpLast(op, s \o t)
  <1> SUFFICES ASSUME NEW i \in 1 .. Len(s \o t), NEW j \in 1 .. Len(s \o t), i < j
               PROVE  (s \o t)[i].op # op
    BY DEF OpLast
  <1>1. Len(s) \in Nat /\ Len(t) \in Nat /\ Len(s \o t) = Len(s) + Len(t)
    BY InList, ListConcat
  <1>2. CASE i <= Len(s)
    <2>1. i \in 1 .. Len(s)
      BY <1>1, <1>2
    <2>2. (s \o t)[i] = s[i] /\ s[i] \in ToSet(s)
      BY <2>1, ListConcat, InList
    <2> QED
      BY <2>2 DEF HasNo
  <1>3. CASE ~(i <= Len(s))
    <2> DEFINE p == i - Len(s)
               q == j - Len(s)
    <2>1. p \in 1 .. Len(t) /\ q \in 1 .. Len(t) /\ p < q /\ Len(s) + p = i
      BY <1>1, <1>3
    <2> HIDE DEF p, q
    <2>2. (s \o t)[Len(s) + p] = t[p]
      BY <2>1, ListConcat
    <2> QED
      BY <2>1, <2>2 DEF OpLast
  <1> QED
    BY <1>2, <1>3

LEMMA HasNoConcat ==
    ASSUME NEW op, NEW s, NEW t, IsList(s), IsList(t), HasNo(op, s), HasNo(op, t)
    PROVE  HasNo(op, s \o t)
  BY ListConcat, Zenon DEF HasNo

LEMMA HasNoIsLast ==
    ASSUME NEW op, NEW s, IsList(s), HasNo(op, s)
    PROVE  OpLast(op, s)
  BY InList DEF OpLast, HasNo

\* The forms a call of a run has.
LEMMA Kinds ==
    ASSUME NEW l
    PROVE  /\ \A kind : Own(l, kind)[1] = l /\ Kind(Own(l, kind)) = kind
           /\ \A kind, i : Of(l, kind, i)[1] = l /\ Kind(Of(l, kind, i)) = kind
  BY DEF Own, Of, Kind

LEMMA OwnObjects ==
    ASSUME NEW l \in Loops
    PROVE  \A kind \in {"score", "profile", "question", "charter", "protocol", "bundle", "matrix",
                        "manifest", "crate"} : Own(l, kind) \in Objects
  BY EvidenceLoopConstants

LEMMA CreateCallOK ==
    ASSUME NEW l, NEW outcome, NEW o \in Objects, Kind(o) \notin Asserted
    PROVE  \A arg : CallOK(l, outcome, Call("create", o, arg))
  BY DEF CallOK, Call, Storing, Creating, Asserted

LEMMA MoveCallOK ==
    ASSUME NEW l, NEW outcome, NEW o \in Objects, NEW to,
           Kind(o) = "matrix" => to \in {"active", "frozen"}, Kind(o) = "ruling" => to = "issued"
    PROVE  CallOK(l, outcome, move(o, to))
  BY DEF CallOK, Call, Storing, Creating, move

LEMMA PlainCallOK ==
    ASSUME NEW l, NEW outcome, NEW o, NEW arg, NEW op \in {"put", "edge", "require accepted"}
    PROVE  CallOK(l, outcome, Call(op, o, arg))
  BY DEF CallOK, Call, Storing, Creating

\* A list of calls up to the execution.
FirstPart(l, s) == IsList(s) /\ AllOK(l, None, s) /\ HasNo("execute", s)

FirstParts(l, s, t) == FirstPart(l, s) /\ FirstPart(l, t)

LEMMA FirstPartConcat ==
    ASSUME NEW l, NEW s, NEW t, FirstParts(l, s, t)
    PROVE  FirstPart(l, s \o t) /\ ToSet(s \o t) = ToSet(s) \cup ToSet(t)
  BY ListConcat, AllOKConcat, HasNoConcat DEF FirstPart, FirstParts

LEMMA FourParts ==
    ASSUME NEW l, NEW a, NEW b, NEW c, NEW d, FirstParts(l, a, b), FirstParts(l, c, d)
    PROVE  /\ FirstPart(l, ((a \o b) \o c) \o d)
           /\ \A x \in {a, b, c, d} : ToSet(x) \subseteq ToSet(((a \o b) \o c) \o d)
  <1> DEFINE ab == a \o b
             abc == ab \o c
  <1>2. FirstPart(l, ab) /\ ToSet(ab) = ToSet(a) \cup ToSet(b)
    BY FirstPartConcat
  <1>3. FirstParts(l, ab, c)
    BY <1>2 DEF FirstParts
  <1>4. FirstPart(l, abc) /\ ToSet(abc) = ToSet(ab) \cup ToSet(c)
    BY <1>3, FirstPartConcat
  <1>5. FirstParts(l, abc, d)
    BY <1>4 DEF FirstParts
  <1>6. FirstPart(l, abc \o d) /\ ToSet(abc \o d) = ToSet(abc) \cup ToSet(d)
    BY <1>5, FirstPartConcat
  <1> QED
    BY <1>2, <1>4, <1>6

LEMMA ScoreCallsAre ==
    ASSUME NEW l \in Loops
    PROVE  FirstPart(l, ScoreCalls(l))
  <1> DEFINE score == Own(l, "score")
             s == <<_build_research_score(l), move(score, "IN_REVIEW"), _add_approval_revision(l)>>
             t == <<move(score, "APPROVED"), move(score, "ACTIVE")>>
  <1>1. score \in Objects /\ Kind(score) = "score"
    BY OwnObjects, Kinds
  <1>2. CallOK(l, None, _build_research_score(l))
    BY <1>1, CreateCallOK DEF _build_research_score, create, Asserted
  <1>3. \A to : CallOK(l, None, move(score, to))
    BY <1>1, MoveCallOK
  <1>4. CallOK(l, None, _add_approval_revision(l))
    BY <1>1 DEF CallOK, Call, Storing, Creating, _add_approval_revision
  <1>5. /\ _build_research_score(l).op = "create" /\ _add_approval_revision(l).op = "revise"
        /\ \A to : move(score, to).op = "move"
    BY DEF _build_research_score, create, Call, _add_approval_revision, move
  <1>6. FirstPart(l, s)
    <2> HIDE DEF score
    <2> QED
      BY <1>2, <1>3, <1>4, <1>5, List3 DEF FirstPart, AllOK, HasNo
  <1>7. FirstPart(l, t)
    <2> HIDE DEF score
    <2> QED
      BY <1>3, <1>5, List2 DEF FirstPart, AllOK, HasNo
  <1>8. FirstPart(l, <<>>)
    BY ListEmpty DEF FirstPart, AllOK, HasNo
  <1>9. ScoreCalls(l) = s \o (IF plan[l].approve THEN t ELSE <<>>)
    BY DEF ScoreCalls
  <1>10. FirstParts(l, s, IF plan[l].approve THEN t ELSE <<>>)
    BY <1>6, <1>7, <1>8 DEF FirstParts
  <1> HIDE DEF s, t
  <1> QED
    BY <1>9, <1>10, FirstPartConcat

\* Offer, acceptance, execution.
LEMMA NegotiationCallsAre ==
    ASSUME NEW l \in Loops
    PROVE  LET s == NegotiationCalls(l)
           IN  /\ IsList(s) /\ AllOK(l, None, s) /\ OpLast("execute", s)
               /\ Call("advance", Own(l, "bundle"), "ACCEPTED") \in ToSet(s)
  <1> DEFINE b == Own(l, "bundle")
             c1 == Call("advance", b, "OFFERED")
             c2 == Call("advance", b, "ACCEPTED")
             c3 == Call("execute", b, None)
  <1>1. b \in Objects
    BY OwnObjects
  <1>2. CallOK(l, None, c1) /\ CallOK(l, None, c2) /\ CallOK(l, None, c3)
    BY <1>1 DEF CallOK, Call, Storing, Creating
  <1>3. NegotiationCalls(l) = <<c1, c2>> \o <<c3>> /\ NegotiationCalls(l) = <<c1, c2, c3>>
    BY DEF NegotiationCalls
  <1>4. c1.op # "execute" /\ c2.op # "execute"
    BY DEF Call
  <1> HIDE DEF b, c1, c2, c3
  <1>5. HasNo("execute", <<c1, c2>>)
    BY <1>4, List2 DEF HasNo
  <1>6. OpLast("execute", <<c3>>)
    <2>1. Len(<<c3>>) = 1
      OBVIOUS
    <2> QED
      BY <2>1 DEF OpLast
  <1>7. OpLast("execute", <<c1, c2>> \o <<c3>>)
    BY <1>5, <1>6, List1, List2, OpLastConcat
  <1>8. IsList(<<c1, c2, c3>>) /\ ToSet(<<c1, c2, c3>>) = {c1, c2, c3}
    BY List3
  <1>9. AllOK(l, None, NegotiationCalls(l))
    BY <1>2, <1>3, <1>8 DEF AllOK
  <1> QED
    BY <1>3, <1>7, <1>8, <1>9 DEF b, c2

\* What a run up to the execution has in any case: only its last call executes, the
\* bundle's inputs are stored, the bundle is accepted, a protocol is read.
FirstFacts(l, s) ==
    /\ IsList(s) /\ AllOK(l, None, s) /\ OpLast("execute", s)
    /\ \E inputs : /\ Call("bundle", Own(l, "bundle"), inputs) \in ToSet(s)
                   /\ \A x \in inputs : Call("put", Own(l, "artifact"), x) \in ToSet(s)
    /\ Call("advance", Own(l, "bundle"), "ACCEPTED") \in ToSet(s)
    /\ Synth(l) => Call("read protocol", plan[l].protocol, None) \in ToSet(s)

\* Some first calls, followed by the negotiation.
LEMMA WithNegotiation ==
    ASSUME NEW l \in Loops, NEW s, FirstPart(l, s), NEW inputs,
           Call("bundle", Own(l, "bundle"), inputs) \in ToSet(s),
           \A x \in inputs : Call("put", Own(l, "artifact"), x) \in ToSet(s),
           Synth(l) => Call("read protocol", plan[l].protocol, None) \in ToSet(s)
    PROVE  FirstFacts(l, s \o NegotiationCalls(l))
  <1> DEFINE t == NegotiationCalls(l)
  <1>1. /\ IsList(t) /\ AllOK(l, None, t) /\ OpLast("execute", t)
        /\ Call("advance", Own(l, "bundle"), "ACCEPTED") \in ToSet(t)
    BY NegotiationCallsAre
  <1> HIDE DEF t
  <1>2. IsList(s \o t) /\ ToSet(s \o t) = ToSet(s) \cup ToSet(t)
    BY <1>1, ListConcat DEF FirstPart
  <1>3. AllOK(l, None, s \o t)
    BY <1>1, AllOKConcat DEF FirstPart
  <1>4. OpLast("execute", s \o t)
    BY <1>1, OpLastConcat DEF FirstPart
  <1>5. FirstFacts(l, s \o t)
    BY <1>1, <1>2, <1>3, <1>4, Zenon DEF FirstFacts
  <1> QED
    BY <1>5 DEF t

\* More first calls before them change nothing of it.
LEMMA BeforeFirst ==
    ASSUME NEW l, NEW s, NEW t, FirstPart(l, s), FirstFacts(l, t)
    PROVE  FirstFacts(l, s \o t)
  <1>1. IsList(s \o t) /\ ToSet(s \o t) = ToSet(s) \cup ToSet(t)
    BY ListConcat DEF FirstPart, FirstFacts
  <1>2. AllOK(l, None, s \o t)
    BY AllOKConcat DEF FirstPart, FirstFacts
  <1>3. OpLast("execute", s \o t)
    BY OpLastConcat DEF FirstPart, FirstFacts
  <1> QED
    BY <1>1, <1>2, <1>3, Zenon DEF FirstFacts

\* The calls all runs make, and their ops.
LEMMA CommonCalls ==
    ASSUME NEW l \in Loops
    PROVE  /\ CallOK(l, None, _build_node_manifest) /\ _build_node_manifest.op = "register"
           /\ \A name : CallOK(l, None, put(l, name)) /\ put(l, name).op = "put"
           /\ \A inputs : LET c == Call("bundle", Own(l, "bundle"), inputs)
                          IN  CallOK(l, None, c) /\ c.op = "bundle"
           /\ \A o, type, target : CallOK(l, None, edge(o, type, target)) /\ edge(o, type, target).op = "edge"
           /\ \A o, to : move(o, to).op = "move"
           /\ \A o : create(o).op = "create"
  <1>1. CallOK(l, None, _build_node_manifest)
    BY EvidenceLoopConstants DEF CallOK, Call, Storing, Creating, _build_node_manifest
  <1>2. \A name : CallOK(l, None, put(l, name))
    BY PlainCallOK DEF put
  <1>3. \A inputs : CallOK(l, None, Call("bundle", Own(l, "bundle"), inputs))
    BY OwnObjects DEF CallOK, Call, Storing, Creating
  <1>4. \A o, type, target : CallOK(l, None, edge(o, type, target))
    BY PlainCallOK DEF edge
  <1>5. /\ _build_node_manifest.op = "register" /\ \A name : put(l, name).op = "put"
        /\ \A inputs : Call("bundle", Own(l, "bundle"), inputs).op = "bundle"
        /\ \A o, type, target : edge(o, type, target).op = "edge"
        /\ \A o, to : move(o, to).op = "move"
        /\ \A o : create(o).op = "create"
    BY DEF _build_node_manifest, put, Call, edge, move, create
  <1> QED
    BY <1>1, <1>2, <1>3, <1>4, <1>5

LEMMA LocalCallsAre ==
    ASSUME NEW l \in Loops, ~Synth(l)
    PROVE  FirstFacts(l, run_local_evidence_loop(l))
  <1> DEFINE b == Call("bundle", Own(l, "bundle"), {<<l, "input">>})
             t == <<_build_node_manifest, put(l, "input"), b>>
             s == ScoreCalls(l) \o t
  <1>1. FirstPart(l, t) /\ ToSet(t) = {_build_node_manifest, put(l, "input"), b}
    <2>1. CallOK(l, None, b) /\ b.op = "bundle"
      BY CommonCalls
    <2> HIDE DEF b
    <2> QED
      BY <2>1, CommonCalls, List3 DEF FirstPart, AllOK, HasNo
  <1>2. run_local_evidence_loop(l) = s \o NegotiationCalls(l)
    BY DEF run_local_evidence_loop, _build_task_bundle
  <1>3. FirstPart(l, ScoreCalls(l))
    BY ScoreCallsAre
  <1> HIDE DEF t
  <1>4. FirstPart(l, s) /\ ToSet(t) \subseteq ToSet(s)
    <2>1. FirstPart(l, s) /\ ToSet(s) = ToSet(ScoreCalls(l)) \cup ToSet(t)
      <3>1. FirstParts(l, ScoreCalls(l), t)
        BY <1>1, <1>3 DEF FirstParts
      <3> QED
        BY <3>1, FirstPartConcat
    <2> QED
      BY <2>1, Zenon
  <1>5. put(l, "input") = Call("put", Own(l, "artifact"), <<l, "input">>)
    BY DEF put
  <1> HIDE DEF s
  <1>6. b \in ToSet(s) /\ \A x \in {<<l, "input">>} : Call("put", Own(l, "artifact"), x) \in ToSet(s)
    BY <1>1, <1>4, <1>5
  <1>7. FirstFacts(l, s \o NegotiationCalls(l))
    BY <1>4, <1>6, WithNegotiation
  <1> QED
    BY <1>2, <1>7

LEMMA SynthesisCallsAre ==
    ASSUME NEW l \in Loops, Synth(l), IsPlan(l, plan[l])
    PROVE  FirstFacts(l, run_synthesis_evidence_loop(l))
  <1> DEFINE more == plan[l].variations # <<>>
             inputs == {<<l, "corpus">>, <<l, "parameters">>, <<l, "protocol">>}
                         \cup (IF plan[l].variations = <<>> THEN {} ELSE {<<l, "variations">>})
             b == Call("bundle", Own(l, "bundle"), inputs)
             r == Call("read protocol", plan[l].protocol, None)
             t == <<_build_node_manifest, r, put(l, "corpus"), put(l, "parameters"), put(l, "protocol")>>
             u == IF plan[l].variations = <<>> THEN <<>> ELSE <<put(l, "variations")>>
             s == ((ScoreCalls(l) \o t) \o u) \o <<b>>
  <1>1. CallOK(l, None, r) /\ r.op = "read protocol"
    BY DEF CallOK, Call, Storing, Creating, IsPlan, Synth
  <1>2. CallOK(l, None, b) /\ b.op = "bundle"
    BY CommonCalls
  <1>3. run_synthesis_evidence_loop(l) = s \o NegotiationCalls(l)
    BY DEF run_synthesis_evidence_loop, _build_synthesis_task_bundle
  <1>4. \A name : put(l, name) = Call("put", Own(l, "artifact"), <<l, name>>)
    BY DEF put
  <1>5. FirstPart(l, t) /\ r \in ToSet(t)
        /\ \A name \in {"corpus", "parameters", "protocol"} : put(l, name) \in ToSet(t)
    <2> HIDE DEF r
    <2>1. IsList(t) /\ ToSet(t) = {_build_node_manifest, r, put(l, "corpus"), put(l, "parameters"), put(l, "protocol")}
      BY List5
    <2>2. FirstPart(l, t)
      <3> HIDE DEF t
      <3> QED
        BY <1>1, <2>1, CommonCalls DEF FirstPart, AllOK, HasNo
    <2> QED
      BY <2>1, <2>2
  <1>6. FirstPart(l, u) /\ (more => put(l, "variations") \in ToSet(u))
    <2>1. FirstPart(l, <<>>)
      BY ListEmpty DEF FirstPart, AllOK, HasNo
    <2>2. FirstPart(l, <<put(l, "variations")>>) /\ put(l, "variations") \in ToSet(<<put(l, "variations")>>)
      BY List1, CommonCalls DEF FirstPart, AllOK, HasNo
    <2> QED
      BY <2>1, <2>2
  <1>7. FirstPart(l, <<b>>) /\ b \in ToSet(<<b>>)
    <2> HIDE DEF b
    <2> QED
      BY <1>2, List1 DEF FirstPart, AllOK, HasNo
  <1>8. FirstPart(l, ScoreCalls(l))
    BY ScoreCallsAre
  <1>9. FirstPart(l, s) /\ ToSet(t) \subseteq ToSet(s) /\ ToSet(u) \subseteq ToSet(s) /\ b \in ToSet(s)
    <2> HIDE DEF t, u, b
    <2> DEFINE first == ScoreCalls(l)
               last == <<b>>
               all == ((first \o t) \o u) \o last
    <2>1. FirstPart(l, s) /\ \A x \in {first, t, u, last} : ToSet(x) \subseteq ToSet(s)
      <3>1. FirstPart(l, t) /\ FirstPart(l, u) /\ FirstPart(l, <<b>>)
        BY <1>5, <1>6, <1>7
      <3>2. FirstParts(l, first, t) /\ FirstParts(l, u, last)
        BY <3>1, <1>8 DEF FirstParts
      <3>3. s = all
        OBVIOUS
      <3> HIDE DEF s, first, last
      <3>4. FirstPart(l, all) /\ \A x \in {first, t, u, last} : ToSet(x) \subseteq ToSet(all)
        BY <3>2, FourParts
      <3> QED
        BY <3>3, <3>4
    <2> HIDE DEF s
    <2> QED
      BY <1>7, <2>1
  <1>10. \A x \in inputs : Call("put", Own(l, "artifact"), x) \in ToSet(s)
    <2> HIDE DEF s, t, u
    <2> QED
      BY <1>4, <1>5, <1>6, <1>9
  <1> HIDE DEF s, t, u, inputs
  <1>11. FirstFacts(l, s \o NegotiationCalls(l))
    BY <1>5, <1>9, <1>10, WithNegotiation
  <1> QED
    BY <1>3, <1>11

LEMMA EstablishCallsAre ==
    ASSUME NEW l \in Loops, Synth(l), IsPlan(l, plan[l])
    PROVE  FirstFacts(l, establish_and_run_synthesis(l))
  <1> DEFINE q == Own(l, "question")
             h == Own(l, "charter")
             p == Own(l, "protocol")
             f == Own(l, "profile")
             t == <<create(q), move(q, "accepted"), create(h), move(h, "accepted"), _write_operationalizes_edge(l),
                    create(p), move(p, "reviewed"), move(p, "locked")>>
             s == ProfileCalls(l) \o t
  <1>1. /\ q \in Objects /\ Kind(q) = "question" /\ h \in Objects /\ Kind(h) = "charter"
        /\ p \in Objects /\ Kind(p) = "protocol" /\ f \in Objects /\ Kind(f) = "profile"
    BY OwnObjects, Kinds
  <1>2. establish_and_run_synthesis(l) = s \o run_synthesis_evidence_loop(l)
    BY DEF establish_and_run_synthesis, _build_question_model, _build_concept_charter, _build_method_protocol
  <1> DEFINE e == _write_operationalizes_edge(l)
  <1>3. CallOK(l, None, e) /\ e.op = "edge"
    BY CommonCalls DEF _write_operationalizes_edge
  <1>4. \A o \in {q, h, p, f} : CallOK(l, None, create(o)) /\ \A to : CallOK(l, None, move(o, to))
    <2> TAKE o \in {q, h, p, f}
    <2> HIDE DEF q, h, p, f
    <2>1. o \in Objects /\ Kind(o) \notin Asserted /\ Kind(o) \notin {"matrix", "ruling"}
      BY <1>1 DEF Asserted
    <2> QED
      BY <2>1, CreateCallOK, MoveCallOK DEF create
  <1>5. FirstPart(l, t)
    <2> HIDE DEF q, h, p, f, e
    <2>1. IsList(t) /\ ToSet(t) = {create(q), move(q, "accepted"), create(h), move(h, "accepted"), e,
                                   create(p), move(p, "reviewed"), move(p, "locked")}
      BY List8 DEF e
    <2> HIDE DEF t
    <2> QED
      BY <1>3, <1>4, <2>1, CommonCalls DEF FirstPart, AllOK, HasNo
  <1>6. FirstPart(l, ProfileCalls(l))
    <2> DEFINE c == Call("require accepted", plan[l].profile, None)
    <2>1. CallOK(l, None, c) /\ c.op = "require accepted"
      BY PlainCallOK DEF Call
    <2>2. ProfileCalls(l) = IF plan[l].profile # None THEN <<c>> ELSE <<create(f), move(f, "accepted")>>
      BY DEF ProfileCalls, _build_method_profile
    <2> HIDE DEF c, f
    <2>3. FirstPart(l, <<c>>)
      <3>1. IsList(<<c>>) /\ ToSet(<<c>>) = {c}
        BY List1
      <3> QED
        BY <2>1, <3>1 DEF FirstPart, AllOK, HasNo
    <2>4. FirstPart(l, <<create(f), move(f, "accepted")>>)
      <3> DEFINE u == <<create(f), move(f, "accepted")>>
      <3>1. IsList(u) /\ ToSet(u) = {create(f), move(f, "accepted")}
        BY List2
      <3> HIDE DEF u
      <3>2. FirstPart(l, u)
        BY <1>4, <3>1, CommonCalls DEF FirstPart, AllOK, HasNo, f
      <3> QED
        BY <3>2 DEF u
    <2> QED
      BY <2>2, <2>3, <2>4
  <1> HIDE DEF t
  <1>7. FirstPart(l, s)
    <2>1. FirstParts(l, ProfileCalls(l), t)
      BY <1>5, <1>6 DEF FirstParts
    <2> QED
      BY <2>1, FirstPartConcat
  <1> HIDE DEF s
  <1>8. FirstFacts(l, s \o run_synthesis_evidence_loop(l))
    BY <1>7, SynthesisCallsAre, BeforeFirst
  <1> QED
    BY <1>2, <1>8

LEMMA FirstCallsAre ==
    ASSUME NEW l \in Loops, IsPlan(l, plan[l])
    PROVE  FirstFacts(l, FirstCalls(l))
  <1>1. CASE plan[l].kind = "local"
    <2>1. FirstCalls(l) = run_local_evidence_loop(l)
      BY <1>1 DEF FirstCalls
    <2> QED
      BY <1>1, <2>1, LocalCallsAre DEF Synth
  <1>2. CASE plan[l].kind = "synthesis"
    <2>1. FirstCalls(l) = run_synthesis_evidence_loop(l)
      BY <1>2 DEF FirstCalls
    <2> QED
      BY <1>2, <2>1, SynthesisCallsAre DEF Synth
  <1>3. CASE plan[l].kind = "establish"
    <2>1. FirstCalls(l) = establish_and_run_synthesis(l)
      BY <1>3 DEF FirstCalls
    <2> QED
      BY <1>3, <2>1, EstablishCallsAre DEF Synth
  <1> QED
    BY <1>1, <1>2, <1>3 DEF IsPlan

-----------------------------------------------------------------------------
(* What the calls after the execution are *)

LEMMA ImageFinite ==
    ASSUME NEW S, IsFiniteSet(S), NEW f
    PROVE  IsFiniteSet({f[x] : x \in S})
  <1> DEFINE T == {f[x] : x \in S}
             g == [x \in S |-> f[x]]
  <1>1. g \in Surjection(S, T)
    BY DEF Surjection
  <1> QED
    BY <1>1, FS_Surjection

\* The rows and the analyses of a synthesis: one row an entry, one result an analysis.
LEMMA OutputIs ==
    ASSUME NEW l \in Loops, Synth(l), IsPlan(l, plan[l])
    PROVE  LET rows == Output(l).rows
               entries == plan[l].entries
           IN  /\ Len(entries) \in Nat /\ DOMAIN entries = 1 .. Len(entries) /\ DOMAIN rows = 1 .. Len(entries)
               /\ \A i \in 1 .. Len(entries) : rows[i].entry = entries[i] /\ entries[i] \in ToSet(entries)
               /\ IsFiniteSet(Output(l).analyses)
               /\ \A analysis \in Output(l).analyses :
                     /\ \E e \in ToSet(entries) : e.analysis = analysis.analysis
                     /\ analysis = _analysis_result_to_dict(analysis.analysis,
                            _group_included_rows_by_analysis(rows, analysis.analysis), plan[l].params)
  <1> DEFINE rows == Output(l).rows
             entries == plan[l].entries
             N == 1 .. Len(entries)
             chosen == {j \in DOMAIN rows : rows[j].included}
             result(a) == _analysis_result_to_dict(a, _group_included_rows_by_analysis(rows, a), plan[l].params)
  <1>1. IsList(entries)
    BY DEF IsPlan, Synth, IsList
  <1>2. Len(entries) \in Nat /\ DOMAIN entries = N
    BY <1>1, InList
  <1>3. /\ rows = _resolve_corpus_rows(entries, plan[l].params, FALSE, {})
        /\ Output(l).analyses = {result(a) : a \in AnalysesOf(rows)}
    BY DEF Output, _run_pipeline
  <1>4. DOMAIN rows = N /\ \A i \in N : rows[i].entry = entries[i]
    <2> DEFINE row(i) == [entry |-> entries[i],
                          included |-> _passes_inclusion_filter(entries[i], plan[l].params.filter),
                          disposition |-> ExtractionDisposition(entries[i], FALSE, {})]
    <2>1. rows = [i \in DOMAIN entries |-> row(i)]
      BY <1>3, Zenon DEF _resolve_corpus_rows
    <2>2. \A i : row(i).entry = entries[i]
      OBVIOUS
    <2> HIDE DEF row, entries, rows
    <2> QED
      BY <1>2, <2>1, <2>2
  <1> HIDE DEF rows
  <1>5. \A i \in N : entries[i] \in ToSet(entries)
    BY <1>1, InList
  <1>6. IsFiniteSet(AnalysesOf(rows)) /\ \A a \in AnalysesOf(rows) : \E e \in ToSet(entries) : e.analysis = a
    <2> DEFINE f == [i \in N |-> entries[i].analysis]
    <2>1. IsFiniteSet(chosen)
      <3>1. IsFiniteSet(N) /\ chosen \subseteq N
        BY <1>2, <1>4, FS_Interval
      <3> QED
        BY <3>1, FS_Subset
    <2>2. AnalysesOf(rows) = {f[i] : i \in chosen}
      <3>1. IncludedEntries(rows) = {rows[i].entry : i \in chosen}
        BY DEF IncludedEntries
      <3>2. AnalysesOf(rows) = {rows[i].entry.analysis : i \in chosen}
        BY <3>1 DEF AnalysesOf
      <3>3. \A i \in chosen : rows[i].entry.analysis = f[i]
        BY <1>4
      <3> HIDE DEF chosen, f
      <3> QED
        BY <3>2, <3>3
    <2>3. \A i \in chosen : f[i] = entries[i].analysis /\ entries[i] \in ToSet(entries)
      BY <1>4, <1>5
    <2> HIDE DEF f, chosen
    <2> QED
      BY <2>1, <2>2, <2>3, ImageFinite
  <1>7. IsFiniteSet(Output(l).analyses)
    <2> DEFINE g == [a \in AnalysesOf(rows) |-> result(a)]
    <2>1. Output(l).analyses = {g[a] : a \in AnalysesOf(rows)}
      BY <1>3
    <2> HIDE DEF g
    <2> QED
      BY <2>1, <1>6, ImageFinite
  <1>8. ASSUME NEW analysis \in Output(l).analyses
        PROVE  /\ \E e \in ToSet(entries) : e.analysis = analysis.analysis
               /\ analysis = result(analysis.analysis)
    <2>1. PICK a \in AnalysesOf(rows) : analysis = result(a)
      BY <1>3
    <2>2. result(a).analysis = a
      BY DEF _analysis_result_to_dict
    <2> QED
      BY <1>6, <2>1, <2>2
  <1> QED
    BY <1>2, <1>4, <1>5, <1>7, <1>8 DEF rows

\* A list of calls before the crate.
LastPart(l, outcome, s) == IsList(s) /\ AllOK(l, outcome, s) /\ HasNo("seal", s)
LastParts(l, outcome, s, t) == LastPart(l, outcome, s) /\ LastPart(l, outcome, t)

LEMMA LastPartConcat ==
    ASSUME NEW l, NEW outcome, NEW s, NEW t, LastParts(l, outcome, s, t)
    PROVE  LastPart(l, outcome, s \o t) /\ ToSet(s \o t) = ToSet(s) \cup ToSet(t)
  BY ListConcat, AllOKConcat, HasNoConcat DEF LastPart, LastParts

LEMMA EmptyPart ==
    ASSUME NEW l, NEW outcome
    PROVE  LastPart(l, outcome, <<>>)
  BY ListEmpty DEF LastPart, AllOK, HasNo

\* After the crate only its edge is written.
CrateLast(l, s) ==
    \A i, j \in 1 .. Len(s) : i < j /\ s[i].op = "seal" => s[j].op = "edge" /\ s[j].o = Own(l, "crate")

LEMMA CrateLastConcat ==
    ASSUME NEW l, NEW s, NEW t, IsList(s), IsList(t), OpLast("seal", s),
           \A c \in ToSet(t) : c.op = "edge" /\ c.o = Own(l, "crate")
    PROVE  CrateLast(l, s \o t)
  <1> SUFFICES ASSUME NEW i \in 1 .. Len(s \o t), NEW j \in 1 .. Len(s \o t), i < j, (s \o t)[i].op = "seal"
               PROVE  (s \o t)[j].op = "edge" /\ (s \o t)[j].o = Own(l, "crate")
    BY DEF CrateLast
  <1>1. Len(s) \in Nat /\ Len(t) \in Nat /\ Len(s \o t) = Len(s) + Len(t)
    BY InList, ListConcat
  <1>2. CASE j <= Len(s)
    <2>1. i \in 1 .. Len(s) /\ j \in 1 .. Len(s)
      BY <1>1, <1>2
    <2>2. (s \o t)[i] = s[i]
      BY <2>1, ListConcat
    <2> QED
      BY <2>1, <2>2 DEF OpLast
  <1>3. CASE ~(j <= Len(s))
    <2> DEFINE q == j - Len(s)
    <2>1. q \in 1 .. Len(t) /\ Len(s) + q = j
      BY <1>1, <1>3
    <2> HIDE DEF q
    <2>2. (s \o t)[Len(s) + q] = t[q] /\ t[q] \in ToSet(t)
      BY <2>1, ListConcat, InList
    <2> QED
      BY <2>1, <2>2
  <1> QED
    BY <1>2, <1>3

\* The ids a synthesis makes of its entries exist.
LEMMA EntryObjects ==
    ASSUME NEW l \in Loops, Synth(l), IsPlan(l, plan[l]), NEW e \in ToSet(plan[l].entries)
    PROVE  /\ \A kind \in {"source", "anchor"} : Of(l, kind, e.id) \in Objects
           /\ \A kind \in {"claim", "ruling", "decision"} : Of(l, kind, e.analysis) \in Objects
  BY DEF IsPlan, Synth

LEMMA RowCallsAre ==
    ASSUME NEW l \in Loops, Synth(l), IsPlan(l, plan[l]), NEW i \in 1 .. Len(plan[l].entries)
    PROVE  LET row == Output(l).rows[i]
           IN  /\ LastPart(l, "completed", RowCalls(l, row))
               /\ row.included /\ row.entry.status = "verified"
                     => create(Of(l, "anchor", row.entry.id)) \in ToSet(RowCalls(l, row))
  <1> DEFINE row == Output(l).rows[i]
             src == create(Of(l, "source", row.entry.id))
             anchor == create(Of(l, "anchor", row.entry.id))
             anchors == IF row.entry.status = "verified" THEN <<anchor>> ELSE <<>>
  <1>1. row.entry \in ToSet(plan[l].entries)
    BY OutputIs
  <1>2. /\ Of(l, "source", row.entry.id) \in Objects /\ Kind(Of(l, "source", row.entry.id)) \notin Asserted
        /\ Of(l, "anchor", row.entry.id) \in Objects /\ Kind(Of(l, "anchor", row.entry.id)) \notin Asserted
    <2> HIDE DEF row
    <2> QED
      BY <1>1, EntryObjects, Kinds DEF Asserted
  <1>3. CallOK(l, "completed", src) /\ CallOK(l, "completed", anchor) /\ src.op = "create" /\ anchor.op = "create"
    <2> HIDE DEF row
    <2> QED
      BY <1>2, CreateCallOK, CommonCalls DEF create
  <1>4. RowCalls(l, row) = IF ~row.included THEN <<>> ELSE <<src>> \o anchors
    BY DEF RowCalls
  <1> HIDE DEF row, src, anchor
  <1>5. LastPart(l, "completed", <<src>>)
    <2>1. IsList(<<src>>) /\ ToSet(<<src>>) = {src}
      BY List1
    <2> QED
      BY <1>3, <2>1 DEF LastPart, AllOK, HasNo
  <1>6. LastPart(l, "completed", anchors) /\ (row.entry.status = "verified" => anchor \in ToSet(anchors))
    <2>1. IsList(<<anchor>>) /\ ToSet(<<anchor>>) = {anchor}
      BY List1
    <2>2. LastPart(l, "completed", <<anchor>>)
      BY <1>3, <2>1 DEF LastPart, AllOK, HasNo
    <2> QED
      BY <2>1, <2>2, EmptyPart
  <1> HIDE DEF anchors
  <1>7. LastParts(l, "completed", <<src>>, anchors)
    BY <1>5, <1>6 DEF LastParts
  <1>8. LastPart(l, "completed", <<src>> \o anchors) /\ ToSet(anchors) \subseteq ToSet(<<src>> \o anchors)
    BY <1>7, LastPartConcat
  <1>9. LastPart(l, "completed", RowCalls(l, row))
    BY <1>4, <1>8, EmptyPart
  <1>10. row.included /\ row.entry.status = "verified" => anchor \in ToSet(RowCalls(l, row))
    BY <1>4, <1>6, <1>8
  <1> QED
    BY <1>9, <1>10 DEF row, anchor

LEMMA AssertCallOK ==
    ASSUME NEW l \in Loops, Synth(l), NEW o \in Objects, o[1] = l, NEW arg,
           Kind(o) = "claim" => ClaimHolds(o, arg)
    PROVE  CallOK(l, "completed", Call("create", o, arg))
  BY DEF CallOK, Call, Storing, Creating, Completed

\* What a claim of an analysis leaves behind.
ClaimCalls(l, analysis, rows) ==
    LET claim == Of(l, "claim", analysis.analysis)
        ruling == Of(l, "ruling", analysis.analysis)
    IN  {Call("create", claim, AnchorsOf(l, analysis.supporting \cup analysis.contradicting, rows)),
         create(ruling), move(ruling, "issued"), edge(claim, "ruled_by", ruling),
         _write_governed_by_protocol_edge(l, claim)}

LEMMA AnalysisCallsAre ==
    ASSUME NEW l \in Loops, Synth(l), IsPlan(l, plan[l]), NEW analysis \in Output(l).analyses
    PROVE  LET s == AnalysisCalls(l, analysis, Output(l).rows)
           IN  /\ LastPart(l, "completed", s)
               /\ IF analysis.outcome = "insufficient_evidence"
                  THEN create(Of(l, "decision", analysis.analysis)) \in ToSet(s)
                  ELSE ClaimCalls(l, analysis, Output(l).rows) \subseteq ToSet(s)
  <1> DEFINE a == analysis.analysis
             rows == Output(l).rows
             claim == Of(l, "claim", a)
             ruling == Of(l, "ruling", a)
             decision == Of(l, "decision", a)
             holds == AnchorsOf(l, analysis.supporting \cup analysis.contradicting, rows)
             first == Call("create", claim, holds)
             m1 == move(claim, "under_review")
             m2 == move(claim, analysis.outcome)
             c1 == create(ruling)
             c2 == move(ruling, "issued")
             c3 == edge(claim, "ruled_by", ruling)
             c4 == _write_governed_by_protocol_edge(l, claim)
             moves == IF analysis.outcome = "supported" THEN <<>> ELSE <<m1, m2>>
             last == <<c1, c2, c3, c4>>
  <1>1. PICK e \in ToSet(plan[l].entries) : e.analysis = a
    BY OutputIs
  <1>2. /\ claim \in Objects /\ Kind(claim) = "claim" /\ claim[1] = l
        /\ ruling \in Objects /\ Kind(ruling) = "ruling" /\ ruling[1] = l
        /\ decision \in Objects /\ Kind(decision) = "decision" /\ decision[1] = l
    <2> HIDE DEF a
    <2> QED
      BY <1>1, EntryObjects, Kinds
  <1>3. analysis.outcome # "insufficient_evidence" => ClaimHolds(claim, holds)
    BY DEF ClaimHolds
  <1>4. AnalysisCalls(l, analysis, rows) =
          IF analysis.outcome = "insufficient_evidence" THEN <<create(decision)>>
          ELSE (<<first>> \o moves) \o last
    BY DEF AnalysisCalls
  <1> HIDE DEF claim, ruling, decision, holds
  <1>5. CallOK(l, "completed", create(decision)) /\ create(decision).op = "create"
    BY <1>2, AssertCallOK, CommonCalls DEF create
  <1>6. analysis.outcome # "insufficient_evidence" => CallOK(l, "completed", first)
    BY <1>2, <1>3, AssertCallOK
  <1>7. first.op = "create"
    BY DEF Call
  <1>8. /\ CallOK(l, "completed", m1) /\ CallOK(l, "completed", m2)
        /\ m1.op = "move" /\ m2.op = "move"
    BY <1>2, MoveCallOK, CommonCalls
  <1>9. /\ CallOK(l, "completed", c1) /\ CallOK(l, "completed", c2)
        /\ CallOK(l, "completed", c3) /\ CallOK(l, "completed", c4)
    <2>1. CallOK(l, "completed", c1)
      BY <1>2, AssertCallOK DEF create
    <2>2. CallOK(l, "completed", c2)
      BY <1>2, MoveCallOK
    <2>3. CallOK(l, "completed", c3) /\ CallOK(l, "completed", c4)
      BY PlainCallOK DEF edge, _write_governed_by_protocol_edge
    <2> QED
      BY <2>1, <2>2, <2>3
  <1>10. c1.op = "create" /\ c2.op = "move" /\ c3.op = "edge" /\ c4.op = "edge"
    BY CommonCalls DEF _write_governed_by_protocol_edge
  <1>11. ClaimCalls(l, analysis, rows) = {first, c1, c2, c3, c4}
    BY DEF ClaimCalls, claim, ruling, holds
  <1> DEFINE dec == create(decision)
  <1> HIDE DEF first, m1, m2, c1, c2, c3, c4, dec
  <1>12. LastPart(l, "completed", <<dec>>) /\ dec \in ToSet(<<dec>>)
    <2>1. IsList(<<dec>>) /\ ToSet(<<dec>>) = {dec}
      BY List1
    <2> QED
      BY <1>5, <2>1 DEF LastPart, AllOK, HasNo, dec
  <1>13. LastPart(l, "completed", moves)
    <2>1. IsList(<<m1, m2>>) /\ ToSet(<<m1, m2>>) = {m1, m2}
      BY List2
    <2>2. LastPart(l, "completed", <<m1, m2>>)
      BY <1>8, <2>1 DEF LastPart, AllOK, HasNo
    <2> QED
      BY <2>2, EmptyPart
  <1>14. LastPart(l, "completed", last) /\ ToSet(last) = {c1, c2, c3, c4}
    <2>1. IsList(last) /\ ToSet(last) = {c1, c2, c3, c4}
      BY List4
    <2> HIDE DEF last
    <2> QED
      BY <1>9, <1>10, <2>1 DEF LastPart, AllOK, HasNo
  <1> HIDE DEF moves, last
  <1>15. ASSUME analysis.outcome # "insufficient_evidence"
         PROVE  /\ LastPart(l, "completed", (<<first>> \o moves) \o last)
                /\ {first, c1, c2, c3, c4} \subseteq ToSet((<<first>> \o moves) \o last)
    <2>1. IsList(<<first>>) /\ ToSet(<<first>>) = {first}
      BY List1
    <2>2. LastPart(l, "completed", <<first>>)
      BY <1>6, <1>7, <1>15, <2>1 DEF LastPart, AllOK, HasNo
    <2> DEFINE s1 == <<first>> \o moves
    <2>3. LastParts(l, "completed", <<first>>, moves)
      BY <1>13, <2>2 DEF LastParts
    <2>4. LastPart(l, "completed", s1) /\ ToSet(s1) = ToSet(<<first>>) \cup ToSet(moves)
      BY <2>3, LastPartConcat
    <2>5. LastParts(l, "completed", s1, last)
      BY <1>14, <2>4 DEF LastParts
    <2> HIDE DEF s1
    <2>6. LastPart(l, "completed", s1 \o last) /\ ToSet(s1 \o last) = ToSet(s1) \cup ToSet(last)
      BY <2>5, LastPartConcat
    <2>7. {first, c1, c2, c3, c4} \subseteq ToSet(s1 \o last)
      BY <1>14, <2>1, <2>4, <2>6
    <2> QED
      BY <2>6, <2>7 DEF s1
  <1>16. LastPart(l, "completed", AnalysisCalls(l, analysis, rows))
    BY <1>4, <1>12, <1>15 DEF dec
  <1>17. IF analysis.outcome = "insufficient_evidence" THEN dec \in ToSet(AnalysisCalls(l, analysis, rows))
         ELSE ClaimCalls(l, analysis, rows) \subseteq ToSet(AnalysisCalls(l, analysis, rows))
    BY <1>4, <1>11, <1>12, <1>15 DEF dec
  <1> QED
    BY <1>16, <1>17 DEF dec, decision

LEMMA MatrixCallsAre ==
    ASSUME NEW l \in Loops, Synth(l)
    PROVE  /\ LastPart(l, "completed", MatrixCalls(l)) /\ create(Own(l, "matrix")) \in ToSet(MatrixCalls(l))
           /\ LastPart(l, "completed", <<move(Own(l, "matrix"), "frozen")>>)
  <1> DEFINE m == Own(l, "matrix")
             c1 == create(m)
             c2 == move(m, "active")
             c3 == _write_governed_by_protocol_edge(l, m)
             c4 == move(m, "frozen")
  <1>1. m \in Objects /\ Kind(m) = "matrix" /\ m[1] = l
    BY OwnObjects, Kinds
  <1>2. MatrixCalls(l) = <<c1, c2, c3>>
    BY DEF MatrixCalls
  <1> HIDE DEF m
  <1>3. CallOK(l, "completed", c1) /\ CallOK(l, "completed", c2) /\ CallOK(l, "completed", c4)
    BY <1>1, AssertCallOK, MoveCallOK DEF create
  <1>4. CallOK(l, "completed", c3)
    BY PlainCallOK DEF edge, _write_governed_by_protocol_edge
  <1>5. c1.op = "create" /\ c2.op = "move" /\ c3.op = "edge" /\ c4.op = "move"
    BY CommonCalls DEF _write_governed_by_protocol_edge
  <1> HIDE DEF c1, c2, c3, c4
  <1>6. IsList(<<c1, c2, c3>>) /\ ToSet(<<c1, c2, c3>>) = {c1, c2, c3}
    BY List3
  <1>7. IsList(<<c4>>) /\ ToSet(<<c4>>) = {c4}
    BY List1
  <1>8. LastPart(l, "completed", <<c4>>)
    BY <1>3, <1>5, <1>7 DEF LastPart, AllOK, HasNo
  <1> DEFINE s == <<c1, c2, c3>>
  <1> HIDE DEF s
  <1>9. LastPart(l, "completed", s) /\ c1 \in ToSet(s)
    BY <1>3, <1>4, <1>5, <1>6 DEF LastPart, AllOK, HasNo, s
  <1> QED
    BY <1>2, <1>8, <1>9 DEF s, c1, c4, m

\* A list of lists, each a part, is a part.
LEMMA PartsFlattened ==
    ASSUME NEW l, NEW outcome, NEW n \in Nat, NEW seqs, seqs = [i \in 1 .. n |-> seqs[i]],
           \A i \in 1 .. n : LastPart(l, outcome, seqs[i])
    PROVE  /\ LastPart(l, outcome, FlattenSeq(seqs))
           /\ \A i \in 1 .. n : ToSet(seqs[i]) \subseteq ToSet(FlattenSeq(seqs))
  <1>1. \A i \in 1 .. n : IsList(seqs[i])
    BY DEF LastPart
  <1>2. /\ IsList(FlattenSeq(seqs))
        /\ ToSet(FlattenSeq(seqs)) = UNION {ToSet(seqs[i]) : i \in 1 .. n}
    BY <1>1, Flattened
  <1> DEFINE s == FlattenSeq(seqs)
  <1> HIDE DEF s
  <1>3. \A c \in ToSet(s) : \E i \in 1 .. n : c \in ToSet(seqs[i])
    BY <1>2 DEF s
  <1>4. \A i \in 1 .. n : ToSet(seqs[i]) \subseteq ToSet(s)
    BY <1>2 DEF s
  <1>5. LastPart(l, outcome, s)
    BY <1>2, <1>3 DEF LastPart, AllOK, HasNo, s
  <1> QED
    BY <1>4, <1>5 DEF s

\* What the persisted output consists of.
Persists(l, s) ==
    /\ \A i \in DOMAIN Output(l).rows : ToSet(RowCalls(l, Output(l).rows[i])) \subseteq ToSet(s)
    /\ \A analysis \in Output(l).analyses : ToSet(AnalysisCalls(l, analysis, Output(l).rows)) \subseteq ToSet(s)
    /\ create(Own(l, "matrix")) \in ToSet(s) /\ move(Own(l, "matrix"), "frozen") \in ToSet(s)

LEMMA PersistIs ==
    ASSUME NEW l \in Loops, Synth(l), IsPlan(l, plan[l])
    PROVE  LastPart(l, "completed", _persist_synthesis_output(l)) /\ Persists(l, _persist_synthesis_output(l))
  <1> DEFINE rows == Output(l).rows
             analyses == SetToSeq(Output(l).analyses)
             rowCalls == [i \in DOMAIN rows |-> RowCalls(l, rows[i])]
             calls1 == [i \in DOMAIN analyses |-> AnalysisCalls(l, analyses[i], rows)]
             freeze == <<move(Own(l, "matrix"), "frozen")>>
             s1 == FlattenSeq(rowCalls)
             s2 == MatrixCalls(l)
             s3 == FlattenSeq(calls1)
             n == Len(plan[l].entries)
             m == Len(analyses)
  <1>1. _persist_synthesis_output(l) = ((s1 \o s2) \o s3) \o freeze
    BY DEF _persist_synthesis_output
  <1>2. n \in Nat /\ DOMAIN rows = 1 .. n
    BY OutputIs
  <1>3. /\ m \in Nat /\ DOMAIN analyses = 1 .. m
        /\ \A i \in 1 .. m : analyses[i] \in Output(l).analyses
        /\ \A analysis \in Output(l).analyses : \E i \in 1 .. m : analyses[i] = analysis
    <2>1. IsList(analyses) /\ ToSet(analyses) = Output(l).analyses
      BY OutputIs, SetAsList
    <2> HIDE DEF analyses
    <2> QED
      BY <2>1, InList
  <1> HIDE DEF analyses, n, m
  <1>4. LastPart(l, "completed", s1) /\ \A i \in 1 .. n : ToSet(RowCalls(l, rows[i])) \subseteq ToSet(s1)
    <2>1. rowCalls = [i \in 1 .. n |-> rowCalls[i]] /\ \A i \in 1 .. n : rowCalls[i] = RowCalls(l, rows[i])
      BY <1>2
    <2>2. \A i \in 1 .. n : LastPart(l, "completed", rowCalls[i])
      BY <2>1, RowCallsAre DEF n
    <2> HIDE DEF rowCalls
    <2>3. LastPart(l, "completed", s1) /\ \A i \in 1 .. n : ToSet(rowCalls[i]) \subseteq ToSet(s1)
      BY <1>2, <2>1, <2>2, PartsFlattened
    <2> QED
      BY <2>1, <2>3
  <1>5. /\ LastPart(l, "completed", s3)
        /\ \A i \in 1 .. m : ToSet(AnalysisCalls(l, analyses[i], rows)) \subseteq ToSet(s3)
    <2>1. calls1 = [i \in 1 .. m |-> calls1[i]] /\ \A i \in 1 .. m : calls1[i] = AnalysisCalls(l, analyses[i], rows)
      BY <1>3
    <2>2. \A i \in 1 .. m : LastPart(l, "completed", calls1[i])
      BY <1>3, <2>1, AnalysisCallsAre
    <2> HIDE DEF calls1
    <2>3. LastPart(l, "completed", s3) /\ \A i \in 1 .. m : ToSet(calls1[i]) \subseteq ToSet(s3)
      BY <1>3, <2>1, <2>2, PartsFlattened
    <2> QED
      BY <2>1, <2>3
  <1>6. LastPart(l, "completed", s2) /\ create(Own(l, "matrix")) \in ToSet(s2) /\ LastPart(l, "completed", freeze)
    BY MatrixCallsAre
  <1>7. ToSet(freeze) = {move(Own(l, "matrix"), "frozen")}
    BY List1
  <1> DEFINE t2 == s1 \o s2
             t3 == t2 \o s3
             t4 == t3 \o freeze
  <1> HIDE DEF s1, s2, s3, freeze
  <1>8. LastParts(l, "completed", s1, s2)
    BY <1>4, <1>6 DEF LastParts
  <1>9. LastPart(l, "completed", t2) /\ ToSet(t2) = ToSet(s1) \cup ToSet(s2)
    BY <1>8, LastPartConcat
  <1>10. LastParts(l, "completed", t2, s3)
    BY <1>5, <1>9 DEF LastParts
  <1> HIDE DEF t2
  <1>11. LastPart(l, "completed", t3) /\ ToSet(t3) = ToSet(t2) \cup ToSet(s3)
    BY <1>10, LastPartConcat
  <1>12. LastParts(l, "completed", t3, freeze)
    BY <1>6, <1>11 DEF LastParts
  <1> HIDE DEF t3
  <1>13. LastPart(l, "completed", t4) /\ ToSet(t4) = ToSet(t3) \cup ToSet(freeze)
    BY <1>12, LastPartConcat
  <1>14. _persist_synthesis_output(l) = t4
    BY <1>1 DEF t4, t3, t2
  <1> HIDE DEF t4
  <1>15. Persists(l, t4)
    <2>1. \A i \in DOMAIN rows : ToSet(RowCalls(l, rows[i])) \subseteq ToSet(t4)
      BY <1>2, <1>4, <1>9, <1>11, <1>13
    <2>2. \A analysis \in Output(l).analyses : ToSet(AnalysisCalls(l, analysis, rows)) \subseteq ToSet(t4)
      <3> TAKE analysis \in Output(l).analyses
      <3>1. PICK i \in 1 .. m : analyses[i] = analysis
        BY <1>3
      <3> QED
        BY <3>1, <1>5, <1>11, <1>13
    <2>3. create(Own(l, "matrix")) \in ToSet(t4) /\ move(Own(l, "matrix"), "frozen") \in ToSet(t4)
      BY <1>6, <1>7, <1>9, <1>11, <1>13
    <2> QED
      BY <2>1, <2>2, <2>3 DEF Persists
  <1> QED
    BY <1>13, <1>14, <1>15

\* What a run has after the execution in any case.
LastFacts(l, outcome, s) ==
    /\ IsList(s) /\ AllOK(l, outcome, s) /\ CrateLast(l, s)
    /\ RunManifestRecorder_record(l, outcome) \in ToSet(s)
    /\ HasOutput(outcome) => put(l, "output") \in ToSet(s)
    /\ Completed(outcome) /\ Synth(l) => Persists(l, s)

LEMMA RecordCallsAre ==
    ASSUME NEW l \in Loops, NEW outcome \in Outcomes
    PROVE  LET s == RecordCalls(l, outcome)
           IN  /\ IsList(s) /\ AllOK(l, outcome, s) /\ OpLast("seal", s)
               /\ RunManifestRecorder_record(l, outcome) \in ToSet(s)
               /\ HasOutput(outcome) => put(l, "output") \in ToSet(s)
  <1> DEFINE r == RunManifestRecorder_record(l, outcome)
             p == put(l, "output")
             c == EvidenceCrateSealer_seal(l, outcome)
             out == IF HasOutput(outcome) THEN <<p>> ELSE <<>>
  <1>1. RecordCalls(l, outcome) = (<<r>> \o out) \o <<c>>
    BY DEF RecordCalls
  <1>2. CallOK(l, outcome, r) /\ r.op = "create"
    <2> DEFINE m == Own(l, "manifest")
    <2>1. m \in Objects /\ Kind(m) \notin Asserted
      BY OwnObjects, Kinds DEF Asserted
    <2> HIDE DEF m
    <2>2. r = Call("create", m, {outcome} \cup (IF HasOutput(outcome) THEN {"output"} ELSE {}))
      BY DEF RunManifestRecorder_record, m
    <2> HIDE DEF r
    <2> QED
      BY <2>1, <2>2, CreateCallOK DEF Call
  <1>3. CallOK(l, outcome, p) /\ p.op = "put"
    BY PlainCallOK, CommonCalls DEF put
  <1>4. CallOK(l, outcome, c) /\ c.op = "seal"
    <2>1. c.op = "seal" /\ c.o = Own(l, "crate")
      BY DEF EvidenceCrateSealer_seal, Call
    <2>2. c.o \in Objects
      BY <2>1, OwnObjects
    <2> HIDE DEF c
    <2>3. CallOK(l, outcome, c)
      BY <2>1, <2>2 DEF CallOK, Storing, Creating, c
    <2> QED
      BY <2>1, <2>3
  <1> HIDE DEF r, p, c
  <1>5. LastPart(l, outcome, <<r>>) /\ r \in ToSet(<<r>>)
    <2>1. IsList(<<r>>) /\ ToSet(<<r>>) = {r}
      BY List1
    <2> QED
      BY <1>2, <2>1 DEF LastPart, AllOK, HasNo
  <1>6. LastPart(l, outcome, out) /\ (HasOutput(outcome) => p \in ToSet(out))
    <2>1. IsList(<<p>>) /\ ToSet(<<p>>) = {p}
      BY List1
    <2>2. LastPart(l, outcome, <<p>>)
      BY <1>3, <2>1 DEF LastPart, AllOK, HasNo
    <2> QED
      BY <2>1, <2>2, EmptyPart
  <1> HIDE DEF out
  <1> DEFINE s == <<r>> \o out
  <1>7. LastParts(l, outcome, <<r>>, out)
    BY <1>5, <1>6 DEF LastParts
  <1>8. LastPart(l, outcome, s) /\ ToSet(s) = ToSet(<<r>>) \cup ToSet(out)
    BY <1>7, LastPartConcat
  <1> HIDE DEF s
  <1>9. IsList(<<c>>) /\ ToSet(<<c>>) = {c} /\ Len(<<c>>) = 1
    BY List1
  <1> DEFINE t == <<c>>
  <1> HIDE DEF t
  <1>10. IsList(t) /\ AllOK(l, outcome, t) /\ OpLast("seal", t)
    BY <1>4, <1>9 DEF AllOK, OpLast, t
  <1>11. IsList(s \o t) /\ ToSet(s \o t) = ToSet(s) \cup ToSet(t)
    BY <1>8, <1>10, ListConcat DEF LastPart
  <1>12. AllOK(l, outcome, s \o t)
    BY <1>8, <1>10, AllOKConcat DEF LastPart
  <1>13. OpLast("seal", s \o t)
    BY <1>8, <1>10, OpLastConcat DEF LastPart
  <1>14. RecordCalls(l, outcome) = s \o t
    BY <1>1 DEF s, t
  <1>15. r \in ToSet(s \o t) /\ (HasOutput(outcome) => p \in ToSet(s \o t))
    BY <1>5, <1>6, <1>8, <1>11
  <1> QED
    BY <1>11, <1>12, <1>13, <1>14, <1>15 DEF r, p

LEMMA LastCallsAre ==
    ASSUME NEW l \in Loops, IsPlan(l, plan[l]), NEW outcome \in Outcomes
    PROVE  LastFacts(l, outcome, LastCalls(l, outcome))
  <1> DEFINE s == RecordCalls(l, outcome)
             p == _persist_synthesis_output(l)
             e == _write_governed_by_protocol_edge(l, Own(l, "crate"))
  <1>1. /\ IsList(s) /\ AllOK(l, outcome, s) /\ OpLast("seal", s)
        /\ RunManifestRecorder_record(l, outcome) \in ToSet(s)
        /\ HasOutput(outcome) => put(l, "output") \in ToSet(s)
    BY RecordCallsAre
  <1>2. LastCalls(l, outcome) = IF Completed(outcome) /\ Synth(l) THEN (p \o s) \o <<e>> ELSE s
    BY DEF LastCalls, Synth
  <1>3. CASE ~(Completed(outcome) /\ Synth(l))
    <2>1. CrateLast(l, s)
      BY <1>1 DEF CrateLast, OpLast
    <2> QED
      BY <1>1, <1>2, <1>3, <2>1 DEF LastFacts
  <1>4. CASE Completed(outcome) /\ Synth(l)
    <2>1. outcome = "completed"
      BY <1>4 DEF Completed
    <2>2. IsList(p) /\ AllOK(l, outcome, p) /\ HasNo("seal", p) /\ Persists(l, p)
      BY <1>4, <2>1, PersistIs DEF LastPart
    <2>3. e.op = "edge" /\ e.o = Own(l, "crate") /\ CallOK(l, outcome, e)
      <3>1. CallOK(l, outcome, e)
        BY PlainCallOK DEF _write_governed_by_protocol_edge, edge
      <3> QED
        BY <3>1 DEF _write_governed_by_protocol_edge, edge, Call
    <2> HIDE DEF s, p, e
    <2>4. IsList(p \o s) /\ ToSet(p \o s) = ToSet(p) \cup ToSet(s)
      BY <1>1, <2>2, ListConcat
    <2>5. AllOK(l, outcome, p \o s) /\ OpLast("seal", p \o s)
      BY <1>1, <2>2, AllOKConcat, OpLastConcat
    <2> DEFINE t == <<e>>
               ps == p \o s
    <2>6. IsList(t) /\ ToSet(t) = {e}
      BY List1
    <2> HIDE DEF t, ps
    <2>7. AllOK(l, outcome, t)
      BY <2>3, <2>6 DEF AllOK
    <2>8. IsList(ps) /\ AllOK(l, outcome, ps) /\ OpLast("seal", ps)
      BY <2>4, <2>5 DEF ps
    <2>9. IsList(ps \o t) /\ ToSet(ps \o t) = ToSet(ps) \cup ToSet(t)
      BY <2>6, <2>8, ListConcat
    <2>10. AllOK(l, outcome, ps \o t)
      BY <2>6, <2>7, <2>8, AllOKConcat
    <2>11. CrateLast(l, ps \o t)
      BY <2>3, <2>6, <2>8, CrateLastConcat
    <2>12. ToSet(p) \subseteq ToSet(ps \o t) /\ ToSet(s) \subseteq ToSet(ps \o t)
      BY <2>4, <2>9 DEF ps
    <2>13. LastCalls(l, outcome) = ps \o t
      BY <1>2, <1>4 DEF ps, t
    <2> DEFINE all == ps \o t
    <2> HIDE DEF all
    <2>14. Persists(l, all)
      BY <2>2, <2>12 DEF Persists, all
    <2>15. LastFacts(l, outcome, all)
      BY <1>1, <2>9, <2>10, <2>11, <2>12, <2>14 DEF LastFacts, all
    <2> QED
      BY <2>13, <2>15 DEF all
  <1> QED
    BY <1>3, <1>4

-----------------------------------------------------------------------------
(* A run's inputs never change, so neither do the calls it is to make *)

LEMMA SameOutput ==
    ASSUME plan' = plan
    PROVE  \A l : Output(l)' = Output(l) /\ (Synth(l)' <=> Synth(l))
  BY Zenon DEF Output, Synth

LEMMA SameFirstCalls ==
    ASSUME plan' = plan
    PROVE  \A l : FirstCalls(l)' = FirstCalls(l)
  <1>1. \A l : ScoreCalls(l)' = ScoreCalls(l)
    BY DEF ScoreCalls
  <1>2. \A l : _build_synthesis_task_bundle(l)' = _build_synthesis_task_bundle(l)
    BY DEF _build_synthesis_task_bundle
  <1>3. \A l : ProfileCalls(l)' = ProfileCalls(l)
    BY DEF ProfileCalls
  <1>4. \A l : run_local_evidence_loop(l)' = run_local_evidence_loop(l)
    BY <1>1, Zenon DEF run_local_evidence_loop
  <1>5. \A l : run_synthesis_evidence_loop(l)' = run_synthesis_evidence_loop(l)
    BY <1>1, <1>2, Zenon DEF run_synthesis_evidence_loop
  <1>6. \A l : establish_and_run_synthesis(l)' = establish_and_run_synthesis(l)
    BY <1>3, <1>5, Zenon DEF establish_and_run_synthesis
  <1> QED
    BY <1>4, <1>5, <1>6, Zenon DEF FirstCalls

LEMMA SameLastCalls ==
    ASSUME plan' = plan
    PROVE  \A l, outcome : LastCalls(l, outcome)' = LastCalls(l, outcome)
  <1>1. \A l, o : _write_governed_by_protocol_edge(l, o)' = _write_governed_by_protocol_edge(l, o)
    BY Zenon DEF _write_governed_by_protocol_edge
  <1>2. \A l : MatrixCalls(l)' = MatrixCalls(l)
    BY <1>1, Zenon DEF MatrixCalls
  <1>3. \A l, analysis, rows : AnalysisCalls(l, analysis, rows)' = AnalysisCalls(l, analysis, rows)
    BY <1>1, Zenon DEF AnalysisCalls
  <1>4. \A l : _persist_synthesis_output(l)' = _persist_synthesis_output(l)
    BY <1>2, <1>3, SameOutput DEF _persist_synthesis_output
  <1> QED
    BY <1>1, <1>4, Zenon DEF LastCalls

LEMMA SameClaims ==
    ASSUME plan' = plan
    PROVE  /\ \A o, holds : ClaimHolds(o, holds)' <=> ClaimHolds(o, holds)
           /\ \A o, row : RowOK(o, row)' <=> RowOK(o, row)
  <1>1. \A o, holds : ClaimHolds(o, holds)' <=> ClaimHolds(o, holds)
    BY SameOutput, Zenon DEF ClaimHolds
  <1>2. \A o, row : RowOK(o, row)' <=> RowOK(o, row)
    BY <1>1, Zenon DEF RowOK
  <1> QED
    BY <1>1, <1>2

LEMMA SameCalls ==
    ASSUME plan' = plan
    PROVE  \A l, outcome, c : CallOK(l, outcome, c)' <=> CallOK(l, outcome, c)
  <1> TAKE l, outcome, c
  <1>1. Synth(l)' <=> Synth(l)
    BY SameOutput
  <1>2. ClaimHolds(c.o, c.arg)' <=> ClaimHolds(c.o, c.arg)
    BY SameClaims
  <1> QED
    BY <1>1, <1>2 DEF CallOK

-----------------------------------------------------------------------------
(* Histories: a stored revision is followed, never changed *)

\* The object's revisions are still there, in their places.
Extends(o) ==
    /\ Len(store[o]) <= Len(store'[o])
    /\ \A i \in 1 .. Len(store[o]) : store'[o][i] = store[o][i]
Grows ==
    /\ plan' = plan /\ artifacts \subseteq artifacts' /\ edges \subseteq edges'
    /\ \A o \in Objects : Extends(o)

\* What Store does, to a pending revision that still follows.
LEMMA StoreIs ==
    ASSUME KernelShape, Histories, Commands, NEW a \in Actors, Store(a)
    PROVE  LET o == cmd[a].o
           IN  /\ o \in Objects /\ cmd[a].read = Len(store[o]) /\ Len(store[o]) \in Nat
               /\ IsList(store'[o]) /\ Len(store'[o]) = Len(store[o]) + 1
               /\ store'[o][Len(store[o]) + 1] = cmd[a].row
               /\ \A i \in 1 .. Len(store[o]) : store'[o][i] = store[o][i]
               /\ \A x \in Objects : x # o => store'[x] = store[x]
               /\ KernelShape' /\ cmd'[a] = None
               /\ \A b \in Actors : b # a => cmd'[b] = cmd[b]
               /\ lookup' = lookup
  <1> DEFINE o == cmd[a].o
             row == cmd[a].row
  <1>1. o \in Objects /\ cmd[a].read = Len(store[o])
    BY DEF Commands, CommandOK, Pending, Store, Fresh
  <1>2. IsList(store[o])
    BY <1>1 DEF Histories, HistoryOK
  <1>3. store' = [store EXCEPT ![o] = Append(store[o], row)] /\ cmd' = [cmd EXCEPT ![a] = None] /\ lookup' = lookup
    BY DEF Store
  <1> HIDE DEF o, row
  <1>4. store'[o] = Append(store[o], row) /\ \A x \in Objects : x # o => store'[x] = store[x]
    BY <1>1, <1>3 DEF KernelShape
  <1>5. cmd'[a] = None /\ \A b \in Actors : b # a => cmd'[b] = cmd[b]
    BY <1>3 DEF KernelShape
  <1>6. KernelShape'
    BY <1>3 DEF KernelShape
  <1>7. Len(store[o]) \in Nat
    BY <1>2, InList
  <1>8. /\ IsList(store'[o]) /\ Len(store'[o]) = Len(store[o]) + 1
        /\ \A i \in 1 .. Len(store[o]) : store'[o][i] = store[o][i]
        /\ store'[o][Len(store[o]) + 1] = row
    BY <1>2, <1>4, ListAppend
  <1> QED
    BY <1>1, <1>3, <1>4, <1>5, <1>6, <1>7, <1>8 DEF o, row

LEMMA StoreExtends ==
    ASSUME KernelShape, Histories, Commands, NEW a \in Actors, Store(a)
    PROVE  \A o \in Objects : Extends(o)
  <1> TAKE x \in Objects
  <1>1. IsList(store[x])
    BY DEF Histories, HistoryOK
  <1>2. Len(store[x]) \in Nat
    BY <1>1, InList
  <1>3. CASE x = cmd[a].o
    BY <1>2, <1>3, StoreIs DEF Extends
  <1>4. CASE x # cmd[a].o
    BY <1>2, <1>4, StoreIs DEF Extends
  <1> QED
    BY <1>3, <1>4

LEMMA SameExtends ==
    ASSUME Histories, store' = store
    PROVE  \A o \in Objects : Extends(o)
  <1> TAKE x \in Objects
  <1>1. Len(store[x]) \in Nat
    BY InList DEF Histories, HistoryOK
  <1> QED
    BY <1>1 DEF Extends

LEMMA WasInKept ==
    ASSUME Histories, NEW o \in Objects, Extends(o), NEW status, WasIn(o, status)
    PROVE  WasIn(o, status)'
  <1>1. PICK i \in 1 .. Len(store[o]) : store[o][i].status = status
    BY DEF WasIn
  <1>2. Len(store[o]) \in Nat
    BY InList DEF Histories, HistoryOK
  <1>3. store'[o][i].status = status
    BY <1>1 DEF Extends
  <1>4. Len(store'[o]) \in Int => i \in 1 .. Len(store'[o])
    BY <1>2 DEF Extends
  <1> QED
    BY <1>1, <1>3, <1>4 DEF WasIn, Extends

\* The new revision is the first, or follows the last one.
LEMMA HistoryKept ==
    ASSUME KernelShape, Histories, Commands, plan' = plan, NEW a \in Actors, Store(a), NEW x \in Objects
    PROVE  HistoryOK(x)' /\ ActiveOK(x)'
  <1>2. HistoryOK(x) /\ ActiveOK(x)
    BY DEF Histories
  <1>3. CASE x # cmd[a].o
    <2>1. store'[x] = store[x]
      BY <1>3, StoreIs
    <2>2. HistoryOK(x)'
      BY <1>2, <2>1, SameClaims DEF HistoryOK, Follows
    <2>3. ActiveOK(x)'
      BY <1>2, <2>1 DEF ActiveOK, WasIn
    <2> QED
      BY <2>2, <2>3
  <1>4. CASE x = cmd[a].o
    <2>0. PICK row, n : row = cmd[a].row /\ n = Len(store[x])
      OBVIOUS
    <2>1. /\ cmd[a].read = n /\ n \in Nat
          /\ IsList(store'[x]) /\ Len(store'[x]) = n + 1 /\ store'[x][n + 1] = row
          /\ \A i \in 1 .. n : store'[x][i] = store[x][i]
      BY <1>4, <2>0, StoreIs
    <2>2. /\ RowOK(x, row) /\ (n = 0 => row.status = InitialStatus[Kind(x)])
          /\ (n > 0 => Follows(x, store[x][n], row))
      BY <1>4, <2>0, <2>1 DEF Commands, CommandOK, Pending, Store
    <2>3. \A i \in 1 .. n + 1 : i \in 1 .. n \/ i = n + 1
      BY <2>1
    <2>4. HistoryOK(x)'
      <3> SUFFICES ASSUME NEW i \in 1 .. n + 1
                   PROVE  /\ RowOK(x, store'[x][i])
                          /\ i = 1 => store'[x][i].status = InitialStatus[Kind(x)]
                          /\ i > 1 => Follows(x, store'[x][i - 1], store'[x][i])
        BY <2>1, SameClaims DEF HistoryOK, Follows
      <3>1. CASE i \in 1 .. n
        <4>1. i > 1 => i - 1 \in 1 .. n
          BY <2>1, <3>1
        <4> QED
          BY <1>2, <2>0, <2>1, <3>1, <4>1 DEF HistoryOK
      <3>2. CASE i = n + 1
        <4>1. (i = 1 <=> n = 0) /\ (i > 1 => n > 0 /\ i - 1 = n /\ n \in 1 .. n)
          BY <2>1, <3>2
        <4> QED
          BY <2>1, <2>2, <3>2, <4>1
      <3> QED
        BY <2>3, <3>1, <3>2
    <2>5. ActiveOK(x)'
      <3> SUFFICES ASSUME Kind(x) = "score", WasIn(x, "ACTIVE")' PROVE WasIn(x, "APPROVED")'
        BY DEF ActiveOK
      <3>1. Extends(x)
        BY StoreExtends
      <3>2. PICK i \in 1 .. n + 1 : store'[x][i].status = "ACTIVE"
        BY <2>1 DEF WasIn
      <3>3. CASE i \in 1 .. n
        <4>1. WasIn(x, "ACTIVE")
          BY <2>0, <2>1, <3>2, <3>3 DEF WasIn
        <4> QED
          BY <4>1, <1>2, <3>1, WasInKept DEF ActiveOK
      <3>4. CASE i = n + 1
        <4>1. row.status = "ACTIVE"
          BY <2>1, <3>2, <3>4
        <4>2. n > 0
          BY <2>1, <2>2, <4>1 DEF InitialStatus
        <4>3. store[x][n].status \in {"ACTIVE", "APPROVED"}
          BY <2>2, <4>1, <4>2 DEF Follows, Transitions, ResearchScoreTransitions
        <4>4. WasIn(x, "ACTIVE") \/ WasIn(x, "APPROVED")
          BY <2>0, <2>1, <4>2, <4>3 DEF WasIn
        <4>5. WasIn(x, "APPROVED")
          BY <4>4, <1>2 DEF ActiveOK
        <4> QED
          BY <4>5, <3>1, WasInKept
      <3> QED
        BY <2>3, <3>2, <3>3, <3>4
    <2> QED
      BY <2>4, <2>5
  <1> QED
    BY <1>3, <1>4

LEMMA SameHistories ==
    ASSUME Histories, plan' = plan, store' = store
    PROVE  Histories'
  <1> SUFFICES ASSUME NEW o \in Objects PROVE HistoryOK(o)' /\ ActiveOK(o)'
    BY DEF Histories
  <1>1. HistoryOK(o) /\ ActiveOK(o)
    BY DEF Histories
  <1>2. HistoryOK(o)'
    BY <1>1, SameClaims DEF HistoryOK, Follows
  <1>3. ActiveOK(o)'
    BY <1>1 DEF ActiveOK, WasIn
  <1> QED
    BY <1>2, <1>3

\* A pending revision that nobody touches still follows what was read.
LEMMA PendingKept ==
    ASSUME Histories, Grows, NEW a, NEW o, NEW read, NEW row, Pending(a, o, read, row)
    PROVE  Pending(a, o, read, row)'
  <1>1. o \in Objects /\ read \in 0 .. Len(store[o]) /\ Extends(o)
    BY DEF Pending, Grows
  <1>2. Len(store[o]) \in Nat
    BY <1>1, InList DEF Histories, HistoryOK
  <1>3. RowOK(o, row)'
    BY SameClaims DEF Grows, Pending
  <1>4. read > 0 => store'[o][read] = store[o][read]
    BY <1>1, <1>2 DEF Extends
  <1>5. Len(store'[o]) \in Int => read \in 0 .. Len(store'[o])
    BY <1>1, <1>2 DEF Extends
  <1> QED
    BY <1>3, <1>4, <1>5 DEF Pending, Follows, Grows

LEMMA CommandKept ==
    ASSUME Histories, Grows, NEW a \in Actors, CommandOK(a), cmd'[a] = cmd[a]
    PROVE  CommandOK(a)'
  <1>1. CASE cmd[a] = None
    BY <1>1 DEF CommandOK
  <1>2. CASE cmd[a] # None
    <2>1. PICK o, read, row : o = cmd[a].o /\ read = cmd[a].read /\ row = cmd[a].row
      OBVIOUS
    <2>2. Pending(a, o, read, row)'
      BY <1>2, <2>1, PendingKept DEF CommandOK
    <2> QED
      BY <1>2, <2>1, <2>2 DEF CommandOK, Pending
  <1> QED
    BY <1>1, <1>2

-----------------------------------------------------------------------------
(* What is done stays done *)

\* A run's reading of its protocol is kept, or is made now.
Steady(l) == run'[l].protocol = run[l].protocol \/ ProtocolRead(l)'

LEMMA StoredKept ==
    ASSUME Histories, Grows, NEW o \in Objects, store[o] # <<>>
    PROVE  store'[o] # <<>> /\ store'[o][1] = store[o][1]
  <1>1. IsList(store[o]) /\ Extends(o)
    BY DEF Histories, HistoryOK, Grows
  <1>2. Len(store[o]) \in Nat /\ Len(store[o]) # 0
    BY <1>1, InList, ListEmpty
  <1>3. store'[o][1] = store[o][1] /\ Len(store'[o]) >= Len(store[o])
    BY <1>1, <1>2 DEF Extends
  <1>4. store'[o] # <<>>
    BY <1>2, <1>3
  <1> QED
    BY <1>3, <1>4

LEMMA ProtocolKept ==
    ASSUME Histories, Grows, NEW l \in Loops, plan[l].protocol \in Objects, Steady(l), ProtocolRead(l)
    PROVE  ProtocolRead(l)'
  <1>1. SUFFICES ASSUME run'[l].protocol = run[l].protocol PROVE ProtocolRead(l)'
    BY DEF Steady
  <1> PICK o, n : o = plan[l].protocol /\ n = run[l].protocol.hash
    OBVIOUS
  <1>2. IsList(store[o]) /\ Extends(o)
    BY DEF Histories, HistoryOK, Grows
  <1>3. Len(store[o]) \in Nat /\ n \in 1 .. Len(store[o]) /\ run[l].protocol.status = store[o][n].status
    BY <1>2, InList DEF ProtocolRead
  <1>4. store'[o][n] = store[o][n] /\ n \in 1 .. Len(store'[o])
    BY <1>2, <1>3 DEF Extends
  <1> QED
    BY <1>1, <1>3, <1>4 DEF ProtocolRead, Grows

LEMMA DoneKept ==
    ASSUME Histories, Grows, NEW l \in Loops, Steady(l), NEW x, NEW c, CallOK(l, x, c), Done(l, c)
    PROVE  Done(l, c)'
  <1>1. c.op \in Storing => c.o \in Objects
    BY DEF CallOK
  <1>2. c.op \in Creating => store'[c.o] # <<>> /\ store'[c.o][1] = store[c.o][1]
    BY <1>1, StoredKept DEF Done, Storing
  <1>3. Carries(c) => store'[c.o][1].holds = c.arg
    BY <1>2 DEF Done, Carries, Creating
  <1>4. c.op \in {"move", "advance"} => WasIn(c.o, c.arg)'
    BY <1>1, WasInKept DEF Done, Storing, Grows
  <1>5. c.op = "read protocol" => ProtocolRead(l)'
    BY ProtocolKept DEF Done, CallOK
  <1> QED
    BY <1>2, <1>3, <1>4, <1>5 DEF Done, Grows, Carries

LEMMA FirstDoneKept ==
    ASSUME Histories, PlanShape, Grows, NEW l \in Loops, Steady(l), FirstDone(l)
    PROVE  FirstDone(l)'
  <1>1. IsPlan(l, plan[l])
    BY DEF PlanShape, FirstDone
  <1>2. \A c \in ToSet(FirstCalls(l)) : CallOK(l, None, c)
    BY <1>1, FirstCallsAre DEF FirstFacts, AllOK
  <1>3. FirstCalls(l)' = FirstCalls(l)
    BY SameFirstCalls DEF Grows
  <1>4. \A c \in ToSet(FirstCalls(l)) : c.op # "execute" => Done(l, c)'
    BY <1>2, DoneKept DEF FirstDone
  <1> QED
    BY <1>3, <1>4 DEF FirstDone, Grows

LEMMA CompletesKept ==
    ASSUME Histories, PlanShape, Grows, NEW l \in Loops, Synth(l), Completes(l)
    PROVE  Completes(l)'
  <1>1. plan[l].protocol \in Objects
    BY DEF PlanShape, Completes, IsPlan, Synth
  <1>2. PICK i \in 1 .. Len(store[plan[l].protocol]) :
            store[plan[l].protocol][i].status = "locked" /\ i = plan[l].params.lock
    BY DEF Completes
  <1> PICK o : o = plan[l].protocol
    OBVIOUS
  <1>3. IsList(store[o]) /\ Extends(o)
    BY <1>1 DEF Histories, HistoryOK, Grows
  <1>4. Len(store[o]) \in Nat
    BY <1>3, InList
  <1>5. store'[o][i] = store[o][i] /\ i \in 1 .. Len(store'[o])
    BY <1>2, <1>3, <1>4 DEF Extends
  <1> QED
    BY <1>2, <1>5 DEF Completes, Grows

LEMMA BehindKept ==
    ASSUME Histories, PlanShape, Grows, NEW l \in Loops, Steady(l),
           NEW outcome \in Outcomes, Behind(l, outcome)
    PROVE  Behind(l, outcome)'
  <1>1. IsPlan(l, plan[l])
    BY DEF PlanShape, FirstDone, Behind
  <1>2. \A c \in ToSet(LastCalls(l, outcome)) : CallOK(l, outcome, c)
    BY <1>1, LastCallsAre DEF LastFacts, AllOK
  <1>3. LastCalls(l, outcome)' = LastCalls(l, outcome)
    BY SameLastCalls DEF Grows
  <1>4. \A c \in ToSet(LastCalls(l, outcome)) :
            c.op # "seal" /\ c.o # Own(l, "crate") => Done(l, c)'
    BY <1>2, DoneKept DEF Behind
  <1>5. FirstDone(l)'
    BY FirstDoneKept DEF Behind
  <1>6. Completed(outcome) /\ Synth(l)' => Completes(l)'
    BY CompletesKept, SameOutput DEF Behind, Grows
  <1> QED
    BY <1>3, <1>4, <1>5, <1>6 DEF Behind

-----------------------------------------------------------------------------
(* What a step keeps of a run *)

\* The run goes on, or ends without a change of outcome.
GoesOn(l) ==
    /\ run'[l].outcome = run[l].outcome
    /\ run'[l].state = run[l].state \/ (run[l].state = "running" /\ run'[l].state \in {"aborted", "returned"})

LEMMA RunKept ==
    ASSUME Histories, PlanShape, Grows, NEW l \in Loops, RunOK(l), Steady(l), GoesOn(l),
           memo'[l] = memo[l], executing'[l] = executing[l], answers'[l] = answers[l]
    PROVE  RunOK(l)'
  <1>1. FirstDone(l) => FirstDone(l)'
    BY FirstDoneKept
  <1>2. Synth(l) /\ Completes(l) => Completes(l)'
    BY CompletesKept
  <1>3. Synth(l)' <=> Synth(l)
    BY SameOutput DEF Grows
  <1>4. plan'[l] = plan[l]
    BY DEF Grows
  <1> QED
    BY <1>1, <1>2, <1>3, <1>4 DEF RunOK, GoesOn

\* The script is as it was, or has lost the call that is now done.
Advances(l) ==
    \/ run'[l].script = run[l].script
    \/ /\ run[l].script # <<>> /\ run'[l].script = Tail(run[l].script)
       /\ \E c : c = Head(run[l].script) /\ Done(l, c)'

LEMMA CallsAre ==
    ASSUME PlanShape, NEW l \in Loops, RunOK(l), run[l].state # "idle"
    PROVE  \A c \in ToSet(CallsOf(l)) : CallOK(l, run[l].outcome, c)
  <1>1. IsPlan(l, plan[l])
    BY DEF PlanShape, RunOK
  <1>2. \A c \in ToSet(FirstCalls(l)) : CallOK(l, None, c)
    BY <1>1, FirstCallsAre DEF FirstFacts, AllOK
  <1>3. \A outcome \in Outcomes : \A c \in ToSet(LastCalls(l, outcome)) : CallOK(l, outcome, c)
    BY <1>1, LastCallsAre DEF LastFacts, AllOK
  <1> QED
    BY <1>2, <1>3 DEF CallsOf, RunOK

LEMMA ScriptKept ==
    ASSUME Histories, PlanShape, Grows, NEW l \in Loops, RunOK(l), ScriptOK(l), Steady(l), GoesOn(l), Advances(l)
    PROVE  ScriptOK(l)'
  <1> SUFFICES ASSUME run'[l].state = "running" PROVE ScriptOK(l)'
    BY DEF ScriptOK
  <1>1. run[l].state = "running"
    BY DEF GoesOn
  <1> PICK s, t, outcome : s = run[l].script /\ t = run'[l].script /\ outcome = run[l].outcome
    OBVIOUS
  <1>2. CallsOf(l)' = CallsOf(l)
    BY SameFirstCalls, SameLastCalls DEF CallsOf, GoesOn, Grows
  <1>3. /\ IsList(s) /\ OpLast("execute", s) /\ CrateLast(l, s)
        /\ \A c \in ToSet(s) : CallOK(l, outcome, c)
        /\ \A c \in ToSet(CallsOf(l)) : c \in ToSet(s) \/ Done(l, c)
    BY <1>1 DEF ScriptOK, CrateLast
  <1>4. \A c \in ToSet(CallsOf(l)) : Done(l, c) => Done(l, c)'
    BY <1>1, CallsAre, DoneKept
  <1>5. CASE t = s
    <2>1. \A c \in ToSet(CallsOf(l)) : c \in ToSet(t) \/ Done(l, c)'
      BY <1>3, <1>4, <1>5
    <2>2. \A c \in ToSet(t) : CallOK(l, outcome, c)'
      BY <1>3, <1>5, SameCalls DEF Grows
    <2> QED
      BY <1>2, <1>3, <1>5, <2>1, <2>2 DEF ScriptOK, GoesOn, CrateLast
  <1>6. CASE s # <<>> /\ t = Tail(s) /\ \A c : c = Head(s) => Done(l, c)'
    <2>1. /\ IsList(t) /\ Len(t) \in Nat /\ Len(s) = Len(t) + 1
          /\ \A i \in 1 .. Len(t) : t[i] = s[i + 1]
          /\ ToSet(t) \subseteq ToSet(s) /\ ToSet(s) \subseteq {Head(s)} \cup ToSet(t)
      BY <1>3, <1>6, ListTail, InList
    <2>2. \A c \in ToSet(CallsOf(l)) : c \in ToSet(t) \/ Done(l, c)'
      BY <1>3, <1>4, <1>6, <2>1
    <2>3. \A c \in ToSet(t) : CallOK(l, outcome, c)'
      BY <1>3, <2>1, SameCalls DEF Grows
    <2>0. \A i, j \in 1 .. Len(t) : i < j => i + 1 \in 1 .. Len(s) /\ j + 1 \in 1 .. Len(s) /\ i + 1 < j + 1
      BY <2>1
    <2>4. OpLast("execute", t)
      BY <1>3, <2>0, <2>1 DEF OpLast
    <2>5. CrateLast(l, t)
      <3> SUFFICES ASSUME NEW i \in 1 .. Len(t), NEW j \in 1 .. Len(t), i < j, t[i].op = "seal"
                   PROVE  t[j].op = "edge" /\ t[j].o = Own(l, "crate")
        BY DEF CrateLast
      <3>1. s[i + 1].op = "seal" /\ t[j] = s[j + 1]
        BY <2>1
      <3>2. i + 1 \in 1 .. Len(s) /\ j + 1 \in 1 .. Len(s) /\ i + 1 < j + 1
        BY <2>0
      <3>3. s[j + 1].op = "edge" /\ s[j + 1].o = Own(l, "crate")
        BY <1>3, <3>1, <3>2 DEF CrateLast
      <3> QED
        BY <3>1, <3>3
    <2> QED
      BY <1>2, <2>1, <2>2, <2>3, <2>4, <2>5 DEF ScriptOK, GoesOn, CrateLast
  <1> QED
    BY <1>5, <1>6 DEF Advances

\* The pending revision is gone, or as it was in a run that stands still.
LEMMA WaitingKept ==
    ASSUME Histories, Grows, NEW l \in Loops, Own(l, "score") \in Objects, PendingOK(l),
           \/ cmd'[l] = None
           \/ /\ cmd'[l] = cmd[l] /\ executing'[l] = executing[l] /\ run'[l].script = run[l].script
              /\ run'[l].state = run[l].state
    PROVE  PendingOK(l)'
  <1>1. ScoreApproved(l) => ScoreApproved(l)'
    BY WasInKept DEF ScoreApproved, Grows
  <1>2. \A c, read, row : Asked(l, c, read, row) => Asked(l, c, read, row)'
    BY <1>1 DEF Asked, Carries
  <1>3. CASE cmd'[l] = None
    BY <1>3 DEF PendingOK
  <1>4. CASE cmd'[l] # None
    <2> PICK c, read, row : c = Head(run[l].script) /\ read = cmd[l].read /\ row = cmd[l].row
      OBVIOUS
    <2>1. Asked(l, c, read, row)'
      BY <1>2, <1>4 DEF PendingOK
    <2> QED
      BY <1>4, <2>1 DEF PendingOK, Asked
  <1> QED
    BY <1>3, <1>4

\* Nothing of what a run asserts or seals is stored now.
NothingNew(l) ==
    \A o \in Objects :
        (o[1] = l /\ Kind(o) \in Asserted) \/ o \in {Own(l, "bundle"), Own(l, "crate")} =>
            (store[o] = <<>> => store'[o] = <<>>)

LEMMA AssertionsKept ==
    ASSUME Histories, PlanShape, Grows, NEW l \in Loops, RunOK(l), LeftOK(l),
           run[l].outcome = "completed" => run'[l].outcome = "completed" \/ run'[l].state = "dead",
           run[l].state = "dead" => run'[l].state = "dead",
           NEW o \in Objects, o[1] = l, Kind(o) \in Asserted, store[o] # <<>>
    PROVE  /\ Synth(l)' /\ Completes(l)'
           /\ run'[l].outcome = "completed" \/ run'[l].state = "dead"
  <1>1. Synth(l) /\ Completes(l) /\ (run[l].outcome = "completed" \/ run[l].state = "dead")
    BY DEF LeftOK, Exists
  <1> QED
    BY <1>1, CompletesKept, SameOutput DEF Grows

LEMMA LeftKept ==
    ASSUME EvidenceLoopConstants, Histories, PlanShape, Grows, NEW l \in Loops, RunOK(l), LeftOK(l), Steady(l),
           run[l].outcome = "completed" => run'[l].outcome = "completed" \/ run'[l].state = "dead",
           run[l].state = "dead" => run'[l].state = "dead", NothingNew(l)
    PROVE  LeftOK(l)'
  <1>1. Own(l, "bundle") \in Objects /\ Own(l, "crate") \in Objects /\ Own(l, "score") \in Objects
    BY OwnObjects
  <1>2. Exists(Own(l, "bundle"))' => ScoreApproved(l)'
    BY <1>1, WasInKept DEF LeftOK, Exists, NothingNew, ScoreApproved, Grows
  <1>3. ASSUME NEW o \in Objects, o[1] = l, Kind(o) \in Asserted, store'[o] # <<>>
        PROVE  /\ Synth(l)' /\ Completes(l)'
               /\ run'[l].outcome = "completed" \/ run'[l].state = "dead"
    <2>1. store[o] # <<>>
      BY <1>3 DEF NothingNew
    <2> QED
      BY <1>3, <2>1, AssertionsKept
  <1>4. Exists(Own(l, "crate"))' =>
          \E outcome \in Outcomes :
              /\ store'[Own(l, "crate")][1].holds = EvidenceCrateSealer_seal(l, outcome).arg
              /\ Behind(l, outcome)'
    <2> SUFFICES ASSUME store'[Own(l, "crate")] # <<>>
                 PROVE  \E outcome \in Outcomes :
                            /\ store'[Own(l, "crate")][1].holds = EvidenceCrateSealer_seal(l, outcome).arg
                            /\ Behind(l, outcome)'
      BY DEF Exists
    <2>1. store[Own(l, "crate")] # <<>>
      BY <1>1 DEF NothingNew
    <2>2. PICK outcome \in Outcomes :
              /\ store[Own(l, "crate")][1].holds = EvidenceCrateSealer_seal(l, outcome).arg
              /\ Behind(l, outcome)
      BY <2>1 DEF LeftOK, Exists
    <2>3. store'[Own(l, "crate")][1] = store[Own(l, "crate")][1]
      BY <1>1, <2>1, StoredKept
    <2> QED
      BY <2>2, <2>3, BehindKept
  <1> QED
    BY <1>2, <1>3, <1>4 DEF LeftOK, Exists, EvidenceCrateSealer_seal

LEMMA LookupKept ==
    ASSUME Histories, Grows, NEW a \in Lookers, LookupOK(a), lookup'[a] = lookup[a]
    PROVE  LookupOK(a)'
  <1>1. ASSUME NEW o \in EverAccepted PROVE o \in EverAccepted'
    <2>1. o \in Objects /\ Kind(o) = "profile" /\ \E i \in DOMAIN store[o] : store[o][i].status = "accepted"
      BY DEF EverAccepted
    <2>2. IsList(store[o]) /\ Extends(o)
      BY <2>1 DEF Histories, HistoryOK, Grows
    <2>3. PICK i \in 1 .. Len(store[o]) : store[o][i].status = "accepted"
      BY <2>1, <2>2, InList
    <2>4. WasIn(o, "accepted")'
      BY <2>1, <2>2, <2>3, WasInKept DEF WasIn
    <2> QED
      BY <2>1, <2>4 DEF EverAccepted, WasIn
  <1>2. \A o \in EverAccepted : WasIn(o, "superseded") => WasIn(o, "superseded")'
    BY WasInKept DEF EverAccepted, Grows
  <1>3. LookupOK(a) /\ lookup[a] # None => lookup[a].began \subseteq EverAccepted
    BY DEF LookupOK
  <1> QED
    BY <1>1, <1>2, <1>3 DEF LookupOK

-----------------------------------------------------------------------------
(* Steps of one run leave the others alone *)

\* The run's record is changed to this, and no other.
Becomes(l, state, script, outcome, protocol) ==
    /\ RunShape'
    /\ run'[l].state = state /\ run'[l].script = script
    /\ run'[l].outcome = outcome /\ run'[l].protocol = protocol
    /\ \A m \in Loops : m # l => run'[m] = run[m]

\* The fields of a run's record that a step sets, and those it does not.
LEMMA RunSet ==
    ASSUME RunShape, NEW l \in Loops, NEW r, run' = [run EXCEPT ![l] = r],
           DOMAIN r = {"state", "script", "outcome", "protocol"}
    PROVE  Becomes(l, r.state, r.script, r.outcome, r.protocol)
  <1>1. run' = [m \in Loops |-> IF m = l THEN r ELSE run[m]]
    BY DEF RunShape
  <1>2. \A m \in Loops : m # l => run'[m] = run[m]
    BY <1>1
  <1>3. run'[l] = r
    BY <1>1
  <1>4. RunShape'
    BY <1>1, <1>2, <1>3 DEF RunShape
  <1> QED
    BY <1>2, <1>3, <1>4 DEF Becomes

LEMMA AdvanceIs ==
    ASSUME RunShape, NEW l \in Loops, Advance(l)
    PROVE  Becomes(l, run[l].state, Tail(run[l].script), run[l].outcome, run[l].protocol)
  <1> PICK t, r : t = Tail(run[l].script) /\ r = [run[l] EXCEPT !.script = t]
    OBVIOUS
  <1>1. run' = [run EXCEPT ![l] = r]
    BY DEF Advance, RunShape
  <1>2. /\ DOMAIN r = {"state", "script", "outcome", "protocol"}
        /\ r.state = run[l].state /\ r.script = t /\ r.outcome = run[l].outcome /\ r.protocol = run[l].protocol
    BY DEF RunShape
  <1> QED
    BY <1>1, <1>2, RunSet

LEMMA EndIs ==
    ASSUME RunShape, NEW l \in Loops, NEW state, End(l, state)
    PROVE  Becomes(l, state, <<>>, run[l].outcome, run[l].protocol)
  <1> PICK r : r = [run[l] EXCEPT !.state = state, !.script = <<>>]
    OBVIOUS
  <1>1. run' = [run EXCEPT ![l] = r]
    BY DEF End, RunShape
  <1>2. /\ DOMAIN r = {"state", "script", "outcome", "protocol"}
        /\ r.state = state /\ r.script = <<>> /\ r.outcome = run[l].outcome /\ r.protocol = run[l].protocol
    BY DEF RunShape
  <1> QED
    BY <1>1, <1>2, RunSet

LEMMA SameRun ==
    ASSUME RunShape, NEW l \in Loops, run' = run
    PROVE  Becomes(l, run[l].state, run[l].script, run[l].outcome, run[l].protocol)
  BY DEF RunShape, Becomes

\* Nothing is changed of a run, its executor and its pending revision.
Quiet(m) ==
    /\ run'[m] = run[m] /\ memo'[m] = memo[m] /\ executing'[m] = executing[m]
    /\ answers'[m] = answers[m] /\ cmd'[m] = cmd[m]

LEMMA Actor == Loops \subseteq Actors /\ Operators \subseteq Actors /\ Loops \cap Operators = {}
  BY EvidenceLoopConstants

\* A step is of this actor alone.
Alone(a) ==
    /\ Shape' /\ lookup' = lookup
    /\ \A b \in Actors : b # a => cmd'[b] = cmd[b]
    /\ \A m \in Loops : m # a => Quiet(m)

LEMMA QuietKept ==
    ASSUME EvidenceLoopConstants, Shape, Histories, Runs, Grows, NEW m \in Loops, Quiet(m), NothingNew(m)
    PROVE  RunOK(m)' /\ ScriptOK(m)' /\ PendingOK(m)' /\ LeftOK(m)'
  <1>1. RunOK(m) /\ ScriptOK(m) /\ PendingOK(m) /\ LeftOK(m) /\ PlanShape
    BY DEF Runs, Shape
  <1>2. Steady(m) /\ GoesOn(m) /\ Advances(m)
    BY DEF Quiet, Steady, GoesOn, Advances
  <1>3. Own(m, "score") \in Objects
    BY OwnObjects
  <1>4. RunOK(m)'
    BY <1>1, <1>2, RunKept DEF Quiet
  <1>5. ScriptOK(m)'
    BY <1>1, <1>2, ScriptKept
  <1>6. PendingOK(m)'
    BY <1>1, <1>3, WaitingKept DEF Quiet
  <1>7. LeftOK(m)'
    BY <1>1, <1>2, LeftKept DEF Quiet
  <1> QED
    BY <1>4, <1>5, <1>6, <1>7

\* What is left to show of a step of one actor.
LEMMA AloneStep ==
    ASSUME EvidenceLoopConstants, IInv, Grows, Histories', NEW a \in Actors, Alone(a), CommandOK(a)',
           \A m \in Loops : m # a => NothingNew(m),
           a \in Loops => RunOK(a)' /\ ScriptOK(a)' /\ PendingOK(a)' /\ LeftOK(a)'
    PROVE  IInv'
  <1>1. Shape /\ Histories /\ Commands /\ Runs /\ Lookups
    BY DEF IInv
  <1>2. Commands'
    <2> SUFFICES ASSUME NEW b \in Actors PROVE CommandOK(b)'
      BY DEF Commands
    <2>1. CASE b = a
      BY <2>1
    <2>2. CASE b # a
      BY <1>1, <2>2, CommandKept DEF Commands, Alone
    <2> QED
      BY <2>1, <2>2
  <1>3. Runs'
    <2> SUFFICES ASSUME NEW m \in Loops PROVE RunOK(m)' /\ ScriptOK(m)' /\ PendingOK(m)' /\ LeftOK(m)'
      BY DEF Runs
    <2>1. CASE m = a
      BY <2>1
    <2>2. CASE m # a
      BY <1>1, <2>2, QuietKept DEF Alone
    <2> QED
      BY <2>1, <2>2
  <1>4. Lookups'
    BY <1>1, LookupKept DEF Lookups, Alone
  <1> QED
    BY <1>2, <1>3, <1>4 DEF IInv, Alone

\* A step that stores nothing.
LEMMA StillStep ==
    ASSUME Histories, plan' = plan, store' = store, artifacts \subseteq artifacts', edges \subseteq edges'
    PROVE  Grows /\ Histories' /\ \A m : NothingNew(m)
  <1>1. Grows
    BY SameExtends DEF Grows
  <1>2. Histories'
    BY SameHistories
  <1>3. \A m : NothingNew(m)
    BY DEF NothingNew
  <1> QED
    BY <1>1, <1>2, <1>3

\* A call of a run that stores nothing: the run advances past it, or ends at it.
LEMMA StillCall ==
    ASSUME EvidenceLoopConstants, IInv, NEW l \in Loops, store' = store, KernelShape', lookup' = lookup,
           cmd'[l] = None, \A b \in Actors : b # l => cmd'[b] = cmd[b],
           plan' = plan, artifacts \subseteq artifacts', edges \subseteq edges', UNCHANGED <<memo, executing, answers>>,
           NEW state, NEW script, NEW protocol, Becomes(l, state, script, run[l].outcome, protocol),
           Steady(l), GoesOn(l), state = "running" => Advances(l)
    PROVE  IInv'
  <1>1. Shape /\ Histories /\ Commands /\ Runs
    BY DEF IInv
  <1>2. Grows /\ Histories' /\ \A m : NothingNew(m)
    BY <1>1, StillStep
  <1>3. RunOK(l) /\ ScriptOK(l) /\ PendingOK(l) /\ LeftOK(l) /\ PlanShape /\ l \in Actors
    BY <1>1 DEF Runs, Shape, EvidenceLoopConstants
  <1>4. Shape'
    BY <1>1, SMT DEF Shape, Becomes, ExecutorShape, LookupShape, PlanShape, IsPlan
  <1>5. Alone(l)
    BY <1>4, Actor DEF Alone, Quiet, Becomes
  <1>6. CommandOK(l)' /\ PendingOK(l)'
    BY DEF CommandOK, PendingOK
  <1>7. RunOK(l)'
    BY <1>2, <1>1, <1>3, RunKept
  <1>8. ScriptOK(l)'
    <2>1. CASE state = "running"
      BY <2>1, <1>1, <1>2, <1>3, ScriptKept
    <2>2. CASE state # "running"
      BY <2>2 DEF Becomes, ScriptOK
    <2> QED
      BY <2>1, <2>2
  <1>9. LeftOK(l)'
    BY <1>1, <1>2, <1>3, LeftKept DEF GoesOn
  <1> QED
    BY <1>2, <1>3, <1>5, <1>6, <1>7, <1>8, <1>9, AloneStep

-----------------------------------------------------------------------------
(* Calls that store no revision *)

LEMMA SameCommands ==
    ASSUME KernelShape, store' = store, cmd' = cmd, NEW l, cmd[l] = None
    PROVE  KernelShape' /\ cmd'[l] = None /\ \A b \in Actors : b # l => cmd'[b] = cmd[b]
  BY DEF KernelShape

LEMMA NextCallIs ==
    ASSUME IInv, NEW l \in Loops, Ready(l)
    PROVE  /\ RunOK(l) /\ ScriptOK(l) /\ RunShape /\ KernelShape /\ PlanShape /\ Histories
           /\ IsList(run[l].script) /\ NextCall(l) \in ToSet(run[l].script)
           /\ CallOK(l, run[l].outcome, NextCall(l))
           /\ run[l].state = "running" /\ run[l].script # <<>> /\ cmd[l] = None /\ executing[l] = None
           /\ NextCall(l) = Head(run[l].script) /\ plan[l] # None
  <1>1. RunOK(l) /\ ScriptOK(l) /\ RunShape /\ KernelShape /\ PlanShape /\ Histories
    BY DEF IInv, Runs, Shape
  <1>2. run[l].state = "running" /\ run[l].script # <<>> /\ cmd[l] = None /\ executing[l] = None
    BY DEF Ready
  <1>3. IsList(run[l].script) /\ \A c \in ToSet(run[l].script) : CallOK(l, run[l].outcome, c)
    BY <1>1, <1>2 DEF ScriptOK
  <1>4. NextCall(l) \in ToSet(run[l].script)
    <2>1. 1 \in 1 .. Len(run[l].script) /\ Head(run[l].script) = run[l].script[1]
      BY <1>2, <1>3, ListTail, InList, ListEmpty
    <2> QED
      BY <1>3, <2>1, InList DEF NextCall
  <1> QED
    BY <1>1, <1>2, <1>3, <1>4 DEF NextCall, RunOK

LEMMA CallEnds ==
    ASSUME IInv, NEW l \in Loops, NEW state \in {"aborted", "returned"}, run[l].state = "running", End(l, state),
           lookup' = lookup, store' = store, KernelShape', cmd'[l] = None, \A b \in Actors : b # l => cmd'[b] = cmd[b],
           UNCHANGED <<plan, artifacts, edges, executorVars>>
    PROVE  IInv'
  <1>1. RunShape
    BY DEF IInv, Shape
  <1>2. Becomes(l, state, <<>>, run[l].outcome, run[l].protocol)
    BY <1>1, EndIs
  <1>3. Steady(l) /\ GoesOn(l)
    BY <1>2 DEF Becomes, Steady, GoesOn
  <1> QED
    BY <1>2, <1>3, StillCall, EvidenceLoopConstants DEF executorVars

LEMMA CallFailsKeeps ==
    ASSUME IInv, NEW l \in Loops, CallFails(l)
    PROVE  IInv'
  <1>1. Ready(l) /\ End(l, "aborted") /\ UNCHANGED <<kernelVars, plan, artifacts, edges, executorVars, calls>>
    BY DEF CallFails
  <1>2. KernelShape' /\ cmd'[l] = None /\ \A b \in Actors : b # l => cmd'[b] = cmd[b]
    BY <1>1, NextCallIs, SameCommands DEF kernelVars
  <1> QED
    BY <1>1, <1>2, NextCallIs, CallEnds DEF kernelVars

LEMMA CallRefusedKeeps ==
    ASSUME IInv, NEW l \in Loops, CallRefused(l)
    PROVE  IInv'
  <1>1. Refuse(l) /\ End(l, "aborted") /\ UNCHANGED <<plan, artifacts, edges, executorVars, calls>>
    BY DEF CallRefused
  <1>2. KernelShape /\ PendingOK(l) /\ l \in Actors
    BY Actor DEF IInv, Shape, Runs
  <1>3. KernelShape' /\ cmd'[l] = None /\ (\A b \in Actors : b # l => cmd'[b] = cmd[b]) /\ lookup' = lookup /\ store' = store
    BY <1>1, <1>2 DEF Refuse, KernelShape
  <1>4. run[l].state = "running"
    BY <1>1, <1>2 DEF Refuse, PendingOK
  <1> QED
    BY <1>1, <1>3, <1>4, CallEnds

LEMMA ReturnKeeps ==
    ASSUME IInv, NEW l \in Loops, Return(l)
    PROVE  IInv'
  <1>1. run[l].state = "running" /\ run[l].script = <<>> /\ End(l, "returned")
        /\ UNCHANGED <<kernelVars, plan, artifacts, edges, executorVars, calls>>
    BY DEF Return
  <1>2. KernelShape /\ PendingOK(l)
    BY DEF IInv, Shape, Runs
  <1>3. cmd[l] = None
    BY <1>1, <1>2 DEF PendingOK
  <1>4. KernelShape' /\ cmd'[l] = None /\ \A b \in Actors : b # l => cmd'[b] = cmd[b]
    BY <1>1, <1>2, <1>3, SameCommands DEF kernelVars
  <1> QED
    BY <1>1, <1>4, CallEnds DEF kernelVars

\* A call that is done at once.
LEMMA CallDone ==
    ASSUME IInv, NEW l \in Loops, Ready(l), Advance(l), UNCHANGED <<kernelVars, plan, executorVars>>,
           artifacts \subseteq artifacts', edges \subseteq edges', NEW c, c = NextCall(l), Done(l, c)'
    PROVE  IInv'
  <1>1. RunShape /\ KernelShape /\ cmd[l] = None /\ run[l].script # <<>> /\ c = Head(run[l].script)
    BY NextCallIs
  <1>2. Becomes(l, run[l].state, Tail(run[l].script), run[l].outcome, run[l].protocol)
    BY <1>1, AdvanceIs
  <1>3. Steady(l) /\ GoesOn(l) /\ Advances(l)
    BY <1>1, <1>2 DEF Becomes, Steady, GoesOn, Advances
  <1>4. KernelShape' /\ cmd'[l] = None /\ \A b \in Actors : b # l => cmd'[b] = cmd[b]
    BY <1>1, SameCommands DEF kernelVars
  <1> QED
    BY <1>2, <1>3, <1>4, StillCall, EvidenceLoopConstants DEF kernelVars, executorVars

LEMMA PutArtifactKeeps ==
    ASSUME IInv, NEW l \in Loops, PutArtifact(l)
    PROVE  IInv'
  <1> PICK c : c = NextCall(l)
    OBVIOUS
  <1>1. /\ Ready(l) /\ c.op = "put" /\ artifacts' = artifacts \cup {c.arg} /\ Advance(l)
        /\ UNCHANGED <<kernelVars, plan, edges, executorVars, calls>>
    BY DEF PutArtifact
  <1>2. Done(l, c)'
    BY <1>1 DEF Done, Creating, Carries
  <1> QED
    BY <1>1, <1>2, CallDone

LEMMA WriteEdgeKeeps ==
    ASSUME IInv, NEW l \in Loops, WriteEdge(l)
    PROVE  IInv'
  <1> PICK c : c = NextCall(l)
    OBVIOUS
  <1>1. /\ Ready(l) /\ c.op = "edge" /\ edges' = edges \cup {<<c.o>> \o c.arg} /\ Advance(l)
        /\ UNCHANGED <<kernelVars, plan, artifacts, executorVars, calls>>
    BY DEF WriteEdge
  <1>2. Done(l, c)'
    BY <1>1 DEF Done, Creating, Carries
  <1> QED
    BY <1>1, <1>2, CallDone

LEMMA ReadProtocolKeeps ==
    ASSUME IInv, NEW l \in Loops, ReadProtocol(l)
    PROVE  IInv'
  <1> PICK c : c = NextCall(l)
    OBVIOUS
  <1>1. /\ Ready(l) /\ c.op \in {"read protocol", "require accepted"} /\ Allowed(l, c)
        /\ UNCHANGED <<kernelVars, plan, artifacts, edges, executorVars, calls>>
    BY DEF ReadProtocol
  <1>2. /\ RunShape /\ KernelShape /\ Histories /\ cmd[l] = None /\ run[l].script # <<>> /\ c = Head(run[l].script)
        /\ CallOK(l, run[l].outcome, c)
    BY <1>1, NextCallIs
  <1>3. CASE c.op = "require accepted"
    <2>1. Advance(l)
      BY <1>3 DEF ReadProtocol
    <2>2. Done(l, c)'
      BY <1>3 DEF Done, Creating, Carries
    <2> QED
      BY <1>1, <2>1, <2>2, CallDone DEF kernelVars
  <1>4. CASE c.op = "read protocol"
    <2>1. c.o \in Objects /\ c.o = plan[l].protocol /\ store[c.o] # <<>>
      BY <1>1, <1>2, <1>4 DEF CallOK, Allowed, Exists
    <2> PICK n, t, p, r : /\ n = Len(store[c.o]) /\ t = Tail(run[l].script)
                          /\ p = [status |-> store[c.o][n].status, hash |-> n, variations |-> plan[l].declared]
                          /\ r = [run[l] EXCEPT !.script = t, !.protocol = p]
      OBVIOUS
    <2>2. n \in Nat /\ n # 0
      BY <1>2, <2>1, InList, ListEmpty DEF Histories, HistoryOK
    <2>3. run' = [run EXCEPT ![l] = r]
      BY <1>2, <1>4 DEF ReadProtocol, RunShape, Latest
    <2>4. /\ DOMAIN r = {"state", "script", "outcome", "protocol"}
          /\ r.state = run[l].state /\ r.script = t /\ r.outcome = run[l].outcome /\ r.protocol = p
      BY <1>2 DEF RunShape
    <2>5. Becomes(l, run[l].state, t, run[l].outcome, p)
      BY <1>2, <2>3, <2>4, RunSet
    <2>6. ProtocolRead(l)'
      <3>1. run'[l].protocol = p /\ p.hash = n /\ p.status = store[c.o][n].status
        BY <2>5 DEF Becomes
      <3>2. store' = store /\ plan'[l].protocol = c.o
        BY <1>1, <2>1 DEF kernelVars
      <3>3. n \in 1 .. Len(store[c.o])
        BY <2>2
      <3> QED
        BY <3>1, <3>2, <3>3 DEF ProtocolRead
    <2>7. Done(l, c)'
      BY <1>4, <2>6 DEF Done, Creating, Carries
    <2>8. Steady(l) /\ GoesOn(l) /\ Advances(l)
      BY <1>2, <2>5, <2>6, <2>7 DEF Becomes, Steady, GoesOn, Advances
    <2>9. KernelShape' /\ cmd'[l] = None /\ \A b \in Actors : b # l => cmd'[b] = cmd[b]
      BY <1>1, <1>2, SameCommands DEF kernelVars
    <2> QED
      BY <1>1, <2>5, <2>8, <2>9, StillCall, EvidenceLoopConstants DEF kernelVars, executorVars
  <1> QED
    BY <1>1, <1>3, <1>4

-----------------------------------------------------------------------------
(* Beginning to store a revision *)

LEMMA LatestIs ==
    ASSUME Histories, NEW o \in Objects, Exists(o)
    PROVE  /\ Len(store[o]) \in Nat \ {0} /\ Len(store[o]) \in 1 .. Len(store[o])
           /\ Latest(o) = store[o][Len(store[o])] /\ RowOK(o, Latest(o))
  <1>1. IsList(store[o]) /\ \A i \in 1 .. Len(store[o]) : RowOK(o, store[o][i])
    BY DEF Histories, HistoryOK
  <1>2. Len(store[o]) \in Nat /\ Len(store[o]) # 0
    BY <1>1, InList, ListEmpty DEF Exists
  <1> QED
    BY <1>1, <1>2 DEF Latest

LEMMA CreateIs ==
    ASSUME Histories, NEW a, NEW o \in Objects, NEW holds, RowOK(o, Revision(InitialStatus[Kind(o)], holds, a)),
           a \in Loops \/ Kind(o) \in {"score", "node", "profile", "protocol"}
    PROVE  Pending(a, o, 0, Revision(InitialStatus[Kind(o)], holds, a))
  <1>1. Len(store[o]) \in Nat
    BY InList DEF Histories, HistoryOK
  <1> QED
    BY <1>1 DEF Pending, Revision

LEMMA MoveIs ==
    ASSUME Histories, NEW a \in Actors, NEW o \in Objects, NEW to, NEW holds,
           Kind(o) \in DOMAIN Transitions, CanMove(o, to, Transitions[Kind(o)]),
           Kind(o) = "score" /\ to = "APPROVED" => "approval" \in Latest(o).holds,
           Kind(o) \in {"profile", "claim"} => holds = Latest(o).holds,
           Kind(o) = "protocol" => to \in {"reviewed", "locked"},
           Kind(o) = "matrix" => to \in {"active", "frozen"},
           Kind(o) = "ruling" => to = "issued",
           a \in Loops \/ Kind(o) \in {"score", "profile", "protocol", "matrix"}
    PROVE  Pending(a, o, Len(store[o]), Revision(to, holds, a)) /\ Len(store[o]) > 0
  <1> PICK n, row : n = Len(store[o]) /\ row = Revision(to, holds, a)
    OBVIOUS
  <1>1. /\ n \in Nat \ {0} /\ Latest(o) = store[o][n] /\ RowOK(o, Latest(o))
        /\ <<Latest(o).status, to>> \in Transitions[Kind(o)]
    BY LatestIs DEF CanMove
  <1>2. row.status = to /\ row.holds = holds /\ row.by = a
    BY DEF Revision
  <1>3. Kind(o) # "node"
    BY DEF Transitions
  <1>4. RowOK(o, row)
    BY <1>1, <1>2, <1>3 DEF RowOK
  <1>5. Follows(o, store[o][n], row)
    BY <1>1, <1>2 DEF Follows
  <1> QED
    BY <1>1, <1>2, <1>4, <1>5 DEF Pending

LEMMA ReviseIs ==
    ASSUME Histories, NEW a \in Actors, NEW o \in Objects, NEW holds, Kind(o) = "score", Exists(o)
    PROVE  Pending(a, o, Len(store[o]), Revision(Latest(o).status, holds, a)) /\ Len(store[o]) > 0
  <1> PICK n, row : n = Len(store[o]) /\ row = Revision(Latest(o).status, holds, a)
    OBVIOUS
  <1>1. n \in Nat \ {0} /\ Latest(o) = store[o][n]
    BY LatestIs
  <1>2. row.status = Latest(o).status /\ row.by = a
    BY DEF Revision
  <1>3. RowOK(o, row)
    BY <1>2 DEF RowOK
  <1>4. Follows(o, store[o][n], row)
    BY <1>1, <1>2 DEF Follows
  <1> QED
    BY <1>1, <1>3, <1>4 DEF Pending

LEMMA RegisterIs ==
    ASSUME Histories, NEW a \in Actors, NEW o \in Objects, NEW holds, Kind(o) = "node"
    PROVE  Pending(a, o, Len(store[o]), Revision("registered", holds, a))
  <1> PICK n, row : n = Len(store[o]) /\ row = Revision("registered", holds, a)
    OBVIOUS
  <1>1. IsList(store[o]) /\ n \in Nat
    BY InList DEF Histories, HistoryOK
  <1>2. row.status = "registered" /\ row.by = a
    BY DEF Revision
  <1>3. RowOK(o, row)
    BY <1>2 DEF RowOK
  <1>4. n = 0 => row.status = InitialStatus[Kind(o)]
    BY <1>2 DEF InitialStatus
  <1>5. n > 0 => Follows(o, store[o][n], row)
    <2> SUFFICES ASSUME n > 0 PROVE Follows(o, store[o][n], row)
      OBVIOUS
    <2>1. n \in 1 .. n
      BY <1>1
    <2>2. RowOK(o, store[o][n])
      BY <2>1 DEF Histories, HistoryOK
    <2> QED
      BY <1>2, <2>2 DEF RowOK, Follows
  <1> QED
    BY <1>1, <1>3, <1>4, <1>5 DEF Pending

LEMMA AdvanceBundleIs ==
    ASSUME Histories, NEW l \in Loops, Own(l, "bundle") \in Objects, Exists(Own(l, "bundle")), NEW to,
           <<Latest(Own(l, "bundle")).status, to>> \in BundleSteps
    PROVE  /\ Pending(l, Own(l, "bundle"), Len(store[Own(l, "bundle")]), Revision(to, {}, l))
           /\ Len(store[Own(l, "bundle")]) > 0
  <1> PICK o, n, row : o = Own(l, "bundle") /\ n = Len(store[o]) /\ row = Revision(to, {}, l)
    OBVIOUS
  <1>1. o \in Objects /\ n \in Nat \ {0} /\ Latest(o) = store[o][n] /\ Kind(o) = "bundle" /\ l \in Actors
    BY LatestIs, Actor DEF Own, Kind
  <1>2. row.status = to /\ row.by = l
    BY DEF Revision
  <1>3. RowOK(o, row)
    BY <1>1, <1>2 DEF RowOK
  <1>4. Follows(o, store[o][n], row)
    BY <1>1, <1>2 DEF Follows
  <1> QED
    BY <1>1, <1>3, <1>4 DEF Pending

LEMMA PermittedIsApproved ==
    ASSUME Histories, NEW l \in Loops, BundlePermitted(l)
    PROVE  ScoreApproved(l)
  <1> PICK o : o = Own(l, "score")
    OBVIOUS
  <1>1. o \in Objects /\ Kind(o) = "score" /\ Exists(o) /\ Latest(o).status \in {"APPROVED", "ACTIVE"}
    BY OwnObjects DEF BundlePermitted, ensure_can_start_work, Own, Kind
  <1>2. WasIn(o, "APPROVED") \/ WasIn(o, "ACTIVE")
    BY <1>1, LatestIs DEF WasIn
  <1>3. ActiveOK(o)
    BY <1>1 DEF Histories
  <1> QED
    BY <1>1, <1>2, <1>3 DEF ActiveOK, ScoreApproved

\* The beginning of a call that asks for the revision, and of an operator's.
LEMMA BeginStep ==
    ASSUME IInv, NEW a \in Actors, NEW o, NEW read, NEW row, Begin(a, o, read, row), Pending(a, o, read, row),
           UNCHANGED <<plan, run, artifacts, edges, executorVars>>,
           a \in Loops => Ready(a) /\ o = NextCall(a).o /\ Asked(a, NextCall(a), read, row)
    PROVE  IInv'
  <1>1. Shape /\ Histories /\ Runs
    BY DEF IInv
  <1>2. cmd' = [cmd EXCEPT ![a] = [o |-> o, read |-> read, row |-> row]] /\ store' = store /\ lookup' = lookup
    BY DEF Begin
  <1>3. Grows /\ Histories' /\ \A m : NothingNew(m)
    BY <1>1, <1>2, StillStep
  <1>4. /\ KernelShape' /\ cmd'[a] = [o |-> o, read |-> read, row |-> row]
        /\ \A b \in Actors : b # a => cmd'[b] = cmd[b]
    BY <1>1, <1>2 DEF Shape, KernelShape
  <1>5. cmd'[a].o = o /\ cmd'[a].read = read /\ cmd'[a].row = row
    BY <1>4
  <1>6. Shape'
    BY <1>1, <1>2, <1>4, SMT DEF Shape, RunShape, ExecutorShape, LookupShape, PlanShape, IsPlan, executorVars
  <1>7. Alone(a)
    BY <1>2, <1>4, <1>6, Actor DEF Alone, Quiet, executorVars
  <1>8. CommandOK(a)'
    <2>1. Pending(a, o, read, row)'
      BY <1>1, <1>3, PendingKept
    <2> QED
      BY <1>5, <2>1 DEF CommandOK, Pending
  <1>9. a \in Loops => RunOK(a)' /\ ScriptOK(a)' /\ PendingOK(a)' /\ LeftOK(a)'
    <2> SUFFICES ASSUME a \in Loops PROVE RunOK(a)' /\ ScriptOK(a)' /\ PendingOK(a)' /\ LeftOK(a)'
      OBVIOUS
    <2>1. RunOK(a) /\ ScriptOK(a) /\ LeftOK(a) /\ PlanShape
      BY <1>1 DEF Runs, Shape
    <2>2. Steady(a) /\ GoesOn(a) /\ Advances(a)
      BY DEF Steady, GoesOn, Advances
    <2>3. RunOK(a)'
      BY <1>1, <1>3, <2>1, <2>2, RunKept DEF executorVars
    <2>4. ScriptOK(a)'
      BY <1>1, <1>3, <2>1, <2>2, ScriptKept
    <2>5. LeftOK(a)'
      BY <1>1, <1>3, <2>1, <2>2, LeftKept, EvidenceLoopConstants
    <2>6. PendingOK(a)'
      <3> PICK c : c = Head(run[a].script)
        OBVIOUS
      <3>1. Asked(a, c, read, row) /\ run[a].state = "running" /\ run[a].script # <<>> /\ executing[a] = None /\ o = c.o
        BY DEF NextCall, Ready
      <3>2. ScoreApproved(a) => ScoreApproved(a)'
        BY <1>2 DEF ScoreApproved, WasIn
      <3>3. Asked(a, c, read, row)'
        BY <3>1, <3>2 DEF Asked, Carries
      <3>4. run' = run /\ executing' = executing
        BY DEF executorVars
      <3> QED
        BY <1>5, <3>1, <3>3, <3>4 DEF PendingOK, Asked
    <2> QED
      BY <2>3, <2>4, <2>5, <2>6
  <1> QED
    BY <1>3, <1>7, <1>8, <1>9, AloneStep, EvidenceLoopConstants

\* What the services of a run ask to be stored.
Begins(l, c) ==
    \E read, row : Begin(l, c.o, read, row) /\ Pending(l, c.o, read, row) /\ Asked(l, c, read, row)

LEMMA CreateBegins ==
    ASSUME Histories, NEW l \in Loops, NEW outcome, NEW c, CallOK(l, outcome, c), c.op \in Creating, NEW holds,
           Create(l, c.o, holds), RowOK(c.o, Revision(InitialStatus[Kind(c.o)], holds, l)),
           c.op = "create" => Kind(c.o) \notin {"bundle", "crate"},
           Carries(c) => holds = c.arg, c.op = "bundle" => ScoreApproved(l)
    PROVE  Begins(l, c)
  <1> PICK row : row = Revision(InitialStatus[Kind(c.o)], holds, l)
    OBVIOUS
  <1>1. c.o \in Objects
    BY DEF CallOK, Storing
  <1>2. Begin(l, c.o, 0, row) /\ row.holds = holds
    BY DEF Create, Revision
  <1>3. Pending(l, c.o, 0, row)
    BY <1>1, CreateIs
  <1>4. Asked(l, c, 0, row)
    BY <1>2 DEF Asked, Creating, Storing
  <1> QED
    BY <1>2, <1>3, <1>4 DEF Begins

LEMMA MoveBegins ==
    ASSUME Histories, NEW l \in Loops, NEW outcome, NEW c, CallOK(l, outcome, c), c.op = "move", NEW holds,
           Allowed(l, c), Kind(c.o) \in DOMAIN Transitions, Move(l, c.o, c.arg, Transitions[Kind(c.o)], holds),
           Kind(c.o) \in {"profile", "claim"} => holds = Latest(c.o).holds,
           Kind(c.o) = "protocol" => c.arg \in {"reviewed", "locked"}
    PROVE  Begins(l, c)
  <1> PICK row, n : row = Revision(c.arg, holds, l) /\ n = Len(store[c.o])
    OBVIOUS
  <1>1. /\ c.o \in Objects
        /\ Kind(c.o) = "matrix" => c.arg \in {"active", "frozen"}
        /\ Kind(c.o) = "ruling" => c.arg = "issued"
    BY DEF CallOK, Storing
  <1>2. Begin(l, c.o, n, row) /\ row.status = c.arg /\ CanMove(c.o, c.arg, Transitions[Kind(c.o)])
    BY DEF Move, Revision
  <1>3. Kind(c.o) = "score" /\ c.arg = "APPROVED" => "approval" \in Latest(c.o).holds
    BY DEF Allowed
  <1>4. Pending(l, c.o, n, row) /\ n > 0
    BY <1>1, <1>2, <1>3, MoveIs, Actor
  <1>5. Asked(l, c, n, row)
    BY <1>2, <1>4 DEF Asked, Creating, Storing, Carries
  <1> QED
    BY <1>2, <1>4, <1>5 DEF Begins

LEMMA StoringCallBegins ==
    ASSUME Histories, NEW l \in Loops, NEW outcome, NEW c, CallOK(l, outcome, c), Allowed(l, c), StoringCall(l, c)
    PROVE  Begins(l, c)
  <1>0. l \in Actors
    BY Actor
  <1>1. CASE c.op = "create" /\ Kind(c.o) \in {"claim", "manifest"} /\ Create(l, c.o, c.arg)
    <2> PICK row : row = Revision(InitialStatus[Kind(c.o)], c.arg, l)
      OBVIOUS
    <2>1. row.by = l /\ row.holds = c.arg
      BY DEF Revision
    <2>2. RowOK(c.o, row)
      BY <1>0, <1>1, <2>1 DEF RowOK, CallOK
    <2> QED
      BY <1>1, <2>2, CreateBegins DEF Creating, Carries
  <1>2. CASE /\ c.op = "create"
             /\ \/ score_create(l, c.o) \/ profile_propose(l, c.o) \/ question_propose(l, c.o)
                \/ charter_propose(l, c.o) \/ protocol_create(l, c.o) \/ matrix_create(l, c.o)
                \/ ruling_create(l, c.o) \/ decision_create(l, c.o) \/ source_create(l, c.o)
                \/ anchor_create(l, c.o)
    <2>1. PICK holds : /\ Create(l, c.o, holds) /\ (Kind(c.o) = "profile" => holds = {"capability"})
                       /\ Kind(c.o) \in {"score", "profile", "question", "charter", "protocol", "matrix",
                                         "ruling", "decision", "source", "anchor"}
      BY <1>2 DEF score_create, profile_propose, question_propose, charter_propose, protocol_create,
                  matrix_create, ruling_create, decision_create, source_create, anchor_create
    <2> PICK row : row = Revision(InitialStatus[Kind(c.o)], holds, l)
      OBVIOUS
    <2>2. row.by = l /\ row.holds = holds /\ row.status = InitialStatus[Kind(c.o)]
      BY DEF Revision
    <2>3. RowOK(c.o, row)
      BY <1>0, <2>1, <2>2 DEF RowOK, InitialStatus
    <2> QED
      BY <1>2, <2>1, <2>3, CreateBegins DEF Creating, Carries
  <1>3. CASE /\ c.op = "move"
             /\ \/ score_transition(l, c.o, c.arg) \/ profile_transition(l, c.o, c.arg)
                \/ question_transition(l, c.o, c.arg) \/ charter_transition(l, c.o, c.arg)
                \/ matrix_transition(l, c.o, c.arg) \/ ruling_transition(l, c.o, c.arg)
                \/ c.arg = "reviewed" /\ protocol_submit_for_review(l, c.o)
                \/ c.arg = "locked" /\ protocol_lock(l, c.o)
                \/ Kind(c.o) = "claim" /\ Move(l, c.o, c.arg, ClaimTransitions, Latest(c.o).holds)
    <2>1. PICK holds : /\ Kind(c.o) \in DOMAIN Transitions /\ Move(l, c.o, c.arg, Transitions[Kind(c.o)], holds)
                       /\ Kind(c.o) \in {"profile", "claim"} => holds = Latest(c.o).holds
                       /\ Kind(c.o) = "protocol" => c.arg \in {"reviewed", "locked"}
      BY <1>3 DEF score_transition, profile_transition, question_transition, charter_transition,
                  matrix_transition, ruling_transition, protocol_submit_for_review, protocol_lock, Transitions
    <2> QED
      BY <1>3, <2>1, MoveBegins
  <1>4. CASE c.op = "revise" /\ score_revise(l, c.o, c.arg)
    <2> PICK row, n : row = Revision(Latest(c.o).status, c.arg, l) /\ n = Len(store[c.o])
      OBVIOUS
    <2>1. Kind(c.o) = "score" /\ Exists(c.o) /\ Begin(l, c.o, n, row) /\ c.o \in Objects
      BY <1>4 DEF score_revise, CallOK, Storing
    <2>2. Pending(l, c.o, n, row) /\ n > 0
      BY <1>0, <2>1, ReviseIs
    <2>3. Asked(l, c, n, row)
      BY <1>4, <2>2 DEF Asked, Creating, Storing, Carries
    <2> QED
      BY <2>1, <2>2, <2>3 DEF Begins
  <1>5. CASE c.op = "register" /\ register(l, c.o, c.arg, {"capability"})
    <2> PICK row, n : row = Revision("registered", {"capability"}, l) /\ n = Len(store[c.o])
      OBVIOUS
    <2>1. Kind(c.o) = "node" /\ Begin(l, c.o, n, row) /\ c.o \in Objects
      BY <1>5 DEF register, CallOK, Storing
    <2>2. Pending(l, c.o, n, row)
      BY <1>0, <2>1, RegisterIs
    <2>3. Asked(l, c, n, row)
      BY <1>5, <2>1 DEF Asked, Creating, Storing, Carries
    <2> QED
      BY <2>1, <2>2, <2>3 DEF Begins
  <1>6. CASE c.op \in {"bundle", "seal"} /\ Create(l, c.o, c.arg)
    <2> PICK row : row = Revision(InitialStatus[Kind(c.o)], c.arg, l)
      OBVIOUS
    <2>0. c.o \in {Own(l, "bundle"), Own(l, "crate")}
      BY <1>6 DEF CallOK
    <2>1. Kind(c.o) \in {"bundle", "crate"} /\ row.by = l
      BY <2>0 DEF Own, Kind, Revision
    <2>2. RowOK(c.o, row)
      BY <1>0, <2>1 DEF RowOK
    <2>3. c.op = "bundle" => ScoreApproved(l)
      BY PermittedIsApproved DEF Allowed
    <2> QED
      BY <1>6, <2>2, <2>3, CreateBegins DEF Creating
  <1>7. CASE c.op = "advance" /\ Begin(l, c.o, Len(store[c.o]), Revision(c.arg, {}, l))
    <2> PICK row, n : row = Revision(c.arg, {}, l) /\ n = Len(store[c.o])
      OBVIOUS
    <2>1. c.o \in Objects /\ c.o = Own(l, "bundle") /\ Exists(c.o) /\ <<Latest(c.o).status, c.arg>> \in BundleSteps
      BY <1>7 DEF Allowed, CallOK, Storing, BundleSteps
    <2>2. Pending(l, c.o, n, row) /\ n > 0
      BY <2>1, AdvanceBundleIs
    <2>3. Asked(l, c, n, row)
      BY <1>7, <2>2 DEF Asked, Creating, Storing, Carries, Revision
    <2> QED
      BY <1>7, <2>2, <2>3 DEF Begins
  <1> QED
    BY <1>1, <1>2, <1>3, <1>4, <1>5, <1>6, <1>7 DEF StoringCall

LEMMA BeginCallKeeps ==
    ASSUME IInv, NEW l \in Loops, BeginCall(l)
    PROVE  IInv'
  <1> PICK c : c = NextCall(l)
    OBVIOUS
  <1>1. Ready(l) /\ Allowed(l, c) /\ StoringCall(l, c) /\ UNCHANGED <<plan, run, artifacts, edges, executorVars>>
    BY DEF BeginCall
  <1>2. CallOK(l, run[l].outcome, c) /\ Histories
    BY <1>1, NextCallIs
  <1>3. PICK read, row : Begin(l, c.o, read, row) /\ Pending(l, c.o, read, row) /\ Asked(l, c, read, row)
    BY <1>1, <1>2, StoringCallBegins DEF Begins
  <1> QED
    BY <1>1, <1>3, BeginStep, Actor

-----------------------------------------------------------------------------
(* Storing it *)

LEMMA KindOfOwn == \A l, kind : Kind(Own(l, kind)) = kind /\ Own(l, kind)[1] = l
  BY DEF Kind, Own

\* What an actor stores for the first time is not of what another run asserts.
LEMMA StoreNothingNew ==
    ASSUME IInv, NEW a \in Actors, Store(a), NEW m \in Loops, m # a
    PROVE  NothingNew(m)
  <1>1. KernelShape /\ Histories /\ Commands /\ Runs
    BY DEF IInv, Shape
  <1> PICK x, read, row, n : x = cmd[a].o /\ read = cmd[a].read /\ row = cmd[a].row /\ n = Len(store[x])
    OBVIOUS
  <1>2. x \in Objects /\ read = n /\ n \in Nat /\ \A y \in Objects : y # x => store'[y] = store[y]
    BY <1>1, StoreIs
  <1>3. cmd[a] # None /\ Pending(a, x, read, row)
    BY <1>1 DEF Store, Commands, CommandOK
  <1> SUFFICES ASSUME store[x] = <<>>, (x[1] = m /\ Kind(x) \in Asserted) \/ x \in {Own(m, "bundle"), Own(m, "crate")}
               PROVE  FALSE
    BY <1>2 DEF NothingNew
  <1>4. read = 0
    BY <1>2, ListEmpty
  <1>5. Kind(x) \in Asserted \cup {"bundle", "crate"}
    BY DEF Own, Kind
  <1>6. a \in Loops
    BY <1>3, <1>4, <1>5 DEF Pending, Asserted
  <1> PICK c : c = Head(run[a].script)
    OBVIOUS
  <1>7. /\ run[a].state = "running" /\ run[a].script # <<>> /\ x = c.o /\ Asked(a, c, read, row)
    BY <1>1, <1>3, <1>6 DEF Runs, PendingOK
  <1>8. CallOK(a, run[a].outcome, c)
    <2>1. IsList(run[a].script) /\ \A d \in ToSet(run[a].script) : CallOK(a, run[a].outcome, d)
      BY <1>1, <1>6, <1>7 DEF Runs, ScriptOK
    <2>2. 1 \in 1 .. Len(run[a].script) /\ c = run[a].script[1]
      BY <1>7, <2>1, ListTail, InList, ListEmpty
    <2> QED
      BY <2>1, <2>2, InList
  <1>9. c.op \in Creating
    BY <1>4, <1>5, <1>7 DEF Asked, Storing, Asserted
  <1>10. CASE c.op = "create"
    <2>1. Kind(x) \notin {"bundle", "crate"}
      BY <1>7, <1>10 DEF Asked
    <2>2. Kind(x) \in Asserted /\ x[1] = a
      BY <1>5, <1>7, <1>8, <1>10, <2>1 DEF CallOK
    <2>3. x[1] = m
      BY <2>1 DEF Own, Kind
    <2> QED
      BY <2>2, <2>3
  <1>11. CASE c.op \in {"bundle", "seal"}
    <2>1. x \in {Own(a, "bundle"), Own(a, "crate")}
      BY <1>7, <1>8, <1>11 DEF CallOK
    <2>2. x[1] = a /\ Kind(x) \notin Asserted
      BY <2>1 DEF Own, Kind, Asserted
    <2>3. x[1] = m
      BY <2>2 DEF Own
    <2> QED
      BY <2>2, <2>3
  <1> QED
    BY <1>9, <1>10, <1>11 DEF Creating

\* The store after a pending revision is stored.
LEMMA StoreGrows ==
    ASSUME IInv, NEW a \in Actors, Store(a), plan' = plan, artifacts' = artifacts, edges' = edges
    PROVE  Grows /\ Histories' /\ \A m \in Loops : m # a => NothingNew(m)
  <1>1. KernelShape /\ Histories /\ Commands
    BY DEF IInv, Shape
  <1>2. Grows
    BY <1>1, StoreExtends DEF Grows
  <1>3. Histories'
    BY <1>1, HistoryKept DEF Histories
  <1> QED
    BY <1>2, <1>3, StoreNothingNew

\* What a run's stored call leaves behind.
LEMMA StoredIsDone ==
    ASSUME IInv, NEW l \in Loops, Store(l), plan' = plan, artifacts' = artifacts, edges' = edges,
           NEW c, c = Head(run[l].script), c.op \in Storing, c.o \in Objects, Asked(l, c, cmd[l].read, cmd[l].row),
           c.o = cmd[l].o
    PROVE  Done(l, c)'
  <1> PICK row, n : row = cmd[l].row /\ n = Len(store[c.o])
    OBVIOUS
  <1>1. /\ cmd[l].read = n /\ n \in Nat /\ IsList(store'[c.o])
        /\ Len(store'[c.o]) = n + 1 /\ store'[c.o][n + 1] = row
    BY StoreIs, Actor DEF IInv, Shape
  <1>2. n + 1 \in 1 .. Len(store'[c.o]) /\ store'[c.o] # <<>>
    BY <1>1, ListEmpty
  <1>3. Carries(c) => store'[c.o][1].holds = c.arg
    <2> SUFFICES ASSUME Carries(c)
                 PROVE  store'[c.o][1].holds = c.arg
      OBVIOUS
    <2>1. c.op \in Creating
      BY DEF Carries, Creating
    <2>2. cmd[l].read = 0 /\ row.holds = c.arg
      BY <2>1 DEF Asked
    <2>3. store'[c.o][1] = row
      BY <1>1, <2>2
    <2> QED
      BY <2>2, <2>3
  <1>4. c.op \in {"move", "advance"} => WasIn(c.o, c.arg)'
    BY <1>1, <1>2 DEF Asked, WasIn
  <1> QED
    BY <1>2, <1>3, <1>4 DEF Done, Storing, Creating, Carries

\* What the run has stored is what it may: its bundle with an approval, assertions
\* if it has completed, its crate with all it stands on.
LEMMA StoreLeaves ==
    ASSUME EvidenceLoopConstants, IInv, Grows, NEW l \in Loops, Store(l), NEW outcome, outcome = run[l].outcome,
           run'[l].outcome = outcome, run[l].state = "running", RunOK(l)', Steady(l), run'[l].state = "running",
           NEW c, c = Head(run[l].script), run[l].script # <<>>, IsList(run[l].script), CallOK(l, outcome, c),
           Asked(l, c, cmd[l].read, cmd[l].row), c.o = cmd[l].o
    PROVE  LeftOK(l)'
  <1> PICK x, row, n : x = cmd[l].o /\ row = cmd[l].row /\ n = Len(store[x])
    OBVIOUS
  <1>1. /\ x \in Objects /\ cmd[l].read = n /\ n \in Nat
        /\ Len(store'[x]) = n + 1 /\ store'[x][n + 1] = row
        /\ \A y \in Objects : y # x => store'[y] = store[y]
    BY StoreIs, Actor DEF IInv, Shape
  <1>2. Histories /\ PlanShape /\ RunOK(l) /\ ScriptOK(l) /\ LeftOK(l)
    BY DEF IInv, Shape, Runs
  <1>5. /\ c.op \in {"bundle", "advance"} => c.o = Own(l, "bundle")
        /\ c.op = "seal" => c.o = Own(l, "crate")
    BY DEF CallOK
  <1>3. CASE n # 0
    <2>1. store[x] # <<>>
      BY <1>1, <1>3, ListEmpty
    <2>2. NothingNew(l)
      BY <1>1, <2>1 DEF NothingNew
    <2> QED
      BY <1>2, <2>2, LeftKept
  <1>4. CASE n = 0
    <2>0. store'[x] # <<>> /\ store'[x][1] = row /\ store[x] = <<>>
      <3>1. IsList(store[x])
        BY <1>1, <1>2 DEF Histories, HistoryOK
      <3>2. store[x] = <<>>
        BY <1>4, <3>1, InList
      <3> QED
        BY <1>1, <1>4, <3>2
    <2>1. Own(l, "bundle") \in Objects /\ Own(l, "crate") \in Objects /\ Own(l, "score") \in Objects
      BY OwnObjects
    <2>2. Exists(Own(l, "bundle"))' => ScoreApproved(l)'
      <3> SUFFICES ASSUME store'[Own(l, "bundle")] # <<>> PROVE ScoreApproved(l)'
        BY DEF Exists
      <3>1. ScoreApproved(l)
        <4>1. CASE x = Own(l, "bundle")
          <5>1. Kind(x) = "bundle"
            BY <4>1 DEF Own, Kind
          <5>2. c.op = "bundle"
            <6>1. c.op \in Creating
              BY <1>1, <1>4, <5>1 DEF Asked, Storing
            <6>2. c.op # "seal"
              BY <1>5, <5>1, KindOfOwn
            <6> QED
              BY <5>1, <6>1, <6>2 DEF Asked, Creating
          <5> QED
            BY <5>2 DEF Asked
        <4>2. CASE x # Own(l, "bundle")
          BY <1>1, <1>2, <2>1, <4>2 DEF LeftOK, Exists
        <4> QED
          BY <4>1, <4>2
      <3> QED
        BY <1>2, <2>1, <3>1, WasInKept DEF ScoreApproved, Grows
    <2>3. ASSUME NEW o \in Objects, o[1] = l, Kind(o) \in Asserted, store'[o] # <<>>
          PROVE  Synth(l)' /\ Completes(l)' /\ (run'[l].outcome = "completed" \/ run'[l].state = "dead")
      <3>1. CASE o = x
        <4>1. c.op \in Creating
          BY <1>1, <1>4, <2>3, <3>1 DEF Asked, Storing, Asserted
        <4>2. c.op = "create"
          BY <1>5, <2>3, <3>1, <4>1, KindOfOwn DEF Asserted, Creating
        <4>3. Completed(outcome) /\ Synth(l)
          BY <2>3, <3>1, <4>2 DEF CallOK
        <4>4. Completes(l)
          BY <1>2, <4>3 DEF RunOK, Completed
        <4> QED
          BY <1>2, <4>3, <4>4, CompletesKept, SameOutput DEF Grows, Completed
      <3>2. CASE o # x
        <4>1. store[o] # <<>>
          BY <1>1, <2>3, <3>2
        <4> QED
          BY <1>2, <2>3, <4>1, AssertionsKept
      <3> QED
        BY <3>1, <3>2
    <2>4. ASSUME store'[Own(l, "crate")] # <<>>
          PROVE  \E out \in Outcomes :
                    /\ store'[Own(l, "crate")][1].holds = EvidenceCrateSealer_seal(l, out).arg
                    /\ Behind(l, out)'
      <3>1. CASE x = Own(l, "crate")
        <4>1. Kind(x) = "crate"
          BY <3>1 DEF Own, Kind
        <4>2. c.op \in Creating
          BY <1>1, <1>4, <4>1 DEF Asked, Storing
        <4>3. c.op = "seal"
          BY <1>5, <4>1, <4>2, KindOfOwn DEF Asked, Creating
        <4>4. outcome \in Outcomes /\ row.holds = EvidenceCrateSealer_seal(l, outcome).arg
          BY <4>3 DEF CallOK, Asked, Carries
        <4>5. Behind(l, outcome)
          <5>1. FirstDone(l)
            BY <1>2, <4>4, EvidenceLoopConstants DEF RunOK
          <5>2. Completed(outcome) /\ Synth(l) => Completes(l)
            BY <1>2 DEF RunOK, Completed
          <5>3. ASSUME NEW d \in ToSet(LastCalls(l, outcome)), d.op # "seal", d.o # Own(l, "crate")
                PROVE  Done(l, d)
            <6>1. d \in ToSet(run[l].script) \/ Done(l, d)
              BY <1>2, <4>4, <5>3, EvidenceLoopConstants DEF ScriptOK, CallsOf
            <6>2. d \notin ToSet(run[l].script)
              <7> SUFFICES ASSUME d \in ToSet(run[l].script) PROVE FALSE
                OBVIOUS
              <7>1. PICK j \in 1 .. Len(run[l].script) : run[l].script[j] = d
                BY InList
              <7>2. c = run[l].script[1] /\ 1 \in 1 .. Len(run[l].script) /\ (j = 1 \/ 1 < j)
                BY <7>1, ListTail, InList
              <7>3. j # 1
                BY <4>3, <5>3, <7>1, <7>2
              <7>4. CrateLast(l, run[l].script)
                BY <1>2 DEF ScriptOK, CrateLast
              <7>5. d.o = Own(l, "crate")
                BY <4>3, <7>1, <7>2, <7>3, <7>4 DEF CrateLast
              <7> QED
                BY <5>3, <7>5
            <6> QED
              BY <6>1, <6>2
          <5> QED
            BY <5>1, <5>2, <5>3 DEF Behind
        <4>6. Behind(l, outcome)'
          BY <1>2, <4>4, <4>5, BehindKept
        <4> QED
          BY <2>0, <3>1, <4>4, <4>6
      <3>2. CASE x # Own(l, "crate")
        <4>1. store[Own(l, "crate")] # <<>> /\ store'[Own(l, "crate")] = store[Own(l, "crate")]
          BY <1>1, <2>1, <2>4, <3>2
        <4>2. PICK out \in Outcomes :
                  store[Own(l, "crate")][1].holds = EvidenceCrateSealer_seal(l, out).arg /\ Behind(l, out)
          BY <1>2, <4>1 DEF LeftOK, Exists
        <4> QED
          BY <1>2, <4>1, <4>2, BehindKept
      <3> QED
        BY <3>1, <3>2
    <2> QED
      BY <2>2, <2>3, <2>4 DEF LeftOK, Exists, EvidenceCrateSealer_seal
  <1> QED
    BY <1>3, <1>4

LEMMA CallStoredKeeps ==
    ASSUME IInv, NEW l \in Loops, CallStored(l)
    PROVE  IInv'
  <1> PICK c : c = Head(run[l].script)
    OBVIOUS
  <1>1. Store(l) /\ Advance(l) /\ UNCHANGED <<plan, artifacts, edges, executorVars>>
    BY DEF CallStored
  <1>2. Shape /\ Histories /\ Commands /\ PlanShape /\ RunShape /\ KernelShape
        /\ RunOK(l) /\ ScriptOK(l) /\ PendingOK(l) /\ l \in Actors
    BY Actor DEF IInv, Runs, Shape
  <1>3. Grows /\ Histories' /\ \A m \in Loops : m # l => NothingNew(m)
    BY <1>1, <1>2, StoreGrows
  <1>4. /\ run[l].state = "running" /\ run[l].script # <<>> /\ cmd[l].o = c.o
        /\ Asked(l, c, cmd[l].read, cmd[l].row) /\ cmd[l] # None
    BY <1>1, <1>2 DEF PendingOK, Store
  <1>5. IsList(run[l].script) /\ CallOK(l, run[l].outcome, c)
    <2>1. IsList(run[l].script) /\ \A d \in ToSet(run[l].script) : CallOK(l, run[l].outcome, d)
      BY <1>2, <1>4 DEF ScriptOK
    <2>2. 1 \in 1 .. Len(run[l].script) /\ c = run[l].script[1]
      BY <1>4, <2>1, ListTail, InList, ListEmpty
    <2> QED
      BY <2>1, <2>2, InList
  <1>6. Becomes(l, run[l].state, Tail(run[l].script), run[l].outcome, run[l].protocol)
    BY <1>1, <1>2, AdvanceIs
  <1>7. Done(l, c)'
    BY <1>1, <1>4, <1>5, StoredIsDone DEF Asked, CallOK
  <1>8. Steady(l) /\ GoesOn(l) /\ Advances(l)
    BY <1>4, <1>6, <1>7 DEF Becomes, Steady, GoesOn, Advances
  <1>9. /\ KernelShape' /\ cmd'[l] = None /\ lookup' = lookup
        /\ \A b \in Actors : b # l => cmd'[b] = cmd[b]
    BY <1>1, <1>2, StoreIs
  <1>10. Shape'
    BY <1>1, <1>2, <1>6, <1>9, SMT DEF Shape, Becomes, ExecutorShape, LookupShape, PlanShape, IsPlan, executorVars
  <1>11. Alone(l)
    BY <1>1, <1>6, <1>9, <1>10, Actor DEF Alone, Quiet, Becomes, executorVars
  <1>12. RunOK(l)'
    BY <1>1, <1>2, <1>3, <1>8, RunKept DEF executorVars
  <1>13. ScriptOK(l)'
    BY <1>2, <1>3, <1>8, ScriptKept
  <1>14. LeftOK(l)'
    BY <1>1, <1>3, <1>4, <1>5, <1>6, <1>8, <1>12, StoreLeaves, EvidenceLoopConstants DEF Becomes
  <1>15. CommandOK(l)' /\ PendingOK(l)'
    BY <1>9 DEF CommandOK, PendingOK
  <1> QED
    BY <1>2, <1>3, <1>11, <1>12, <1>13, <1>14, <1>15, AloneStep, EvidenceLoopConstants

-----------------------------------------------------------------------------
(* The executor *)

\* A step of a run, its executor's memory included, that stores nothing.
LEMMA OwnStep ==
    ASSUME IInv, NEW l \in Loops, UNCHANGED <<store, lookup, plan, artifacts, edges>>,
           RunShape', ExecutorShape', KernelShape', cmd'[l] = None, \A b \in Actors : b # l => cmd'[b] = cmd[b],
           \A m \in Loops : m # l => run'[m] = run[m] /\ memo'[m] = memo[m] /\ executing'[m] = executing[m]
                                     /\ answers'[m] = answers[m],
           Steady(l), run[l].state = "dead" => run'[l].state = "dead",
           run[l].outcome = "completed" => run'[l].outcome = "completed" \/ run'[l].state = "dead",
           RunOK(l)', ScriptOK(l)'
    PROVE  IInv'
  <1>1. Shape /\ Histories /\ RunOK(l) /\ LeftOK(l) /\ PlanShape /\ l \in Actors
    BY Actor DEF IInv, Runs, Shape
  <1>2. Grows /\ Histories' /\ \A m : NothingNew(m)
    BY <1>1, StillStep
  <1>3. Shape'
    BY <1>1, SMT DEF Shape, LookupShape, PlanShape, IsPlan
  <1>4. Alone(l)
    BY <1>3, Actor DEF Alone, Quiet
  <1>5. CommandOK(l)' /\ PendingOK(l)'
    BY DEF CommandOK, PendingOK
  <1>6. LeftOK(l)'
    BY <1>1, <1>2, LeftKept, EvidenceLoopConstants
  <1> QED
    BY <1>1, <1>2, <1>4, <1>5, <1>6, AloneStep, EvidenceLoopConstants

LEMMA AnswerIs ==
    ASSUME ExecutorShape, NEW l \in Loops, NEW k \in Attempts, NEW outcome, Answer(l, k, outcome)
    PROVE  /\ memo'[l][k] = outcome /\ \A j \in Attempts : j # k => memo'[l][j] = memo[l][j]
           /\ answers'[l] = answers[l] \cup {<<k, outcome>>}
           /\ \A m \in Loops : m # l => memo'[m] = memo[m] /\ answers'[m] = answers[m]
           /\ memo' = [m \in Loops |-> [j \in Attempts |-> memo'[m][j]]]
           /\ answers' = [m \in Loops |-> answers'[m]]
  <1>1. memo = [m \in Loops |-> [j \in Attempts |-> memo[m][j]]] /\ answers = [m \in Loops |-> answers[m]]
    BY DEF ExecutorShape
  <1>2. memo' = [memo EXCEPT ![l][k] = outcome] /\ answers' = [answers EXCEPT ![l] = @ \cup {<<k, outcome>>}]
    BY DEF Answer
  <1>3. answers'[l] = answers[l] \cup {<<k, outcome>>} /\ (\A m \in Loops : m # l => answers'[m] = answers[m])
        /\ answers' = [m \in Loops |-> answers'[m]]
    BY <1>1, <1>2
  <1>4. memo' = [m \in Loops |-> IF m = l THEN [j \in Attempts |-> IF j = k THEN outcome ELSE memo[l][j]] ELSE memo[m]]
    BY <1>1, <1>2
  <1>5. /\ memo'[l] = [j \in Attempts |-> IF j = k THEN outcome ELSE memo[l][j]]
        /\ \A m \in Loops : m # l => memo'[m] = memo[m]
    BY <1>4
  <1>6. \A m \in Loops : memo'[m] = [j \in Attempts |-> memo'[m][j]]
    BY <1>1, <1>5
  <1>7. memo' = [m \in Loops |-> [j \in Attempts |-> memo'[m][j]]]
    BY <1>4, <1>6
  <1> QED
    BY <1>3, <1>5, <1>7

\* An answer for an attempt that had none, or the same again.
LEMMA AnswerStep ==
    ASSUME IInv, NEW l \in Loops, NEW k \in Attempts, NEW outcome \in Outcomes, Answer(l, k, outcome),
           memo[l][k] \in {None, outcome}, outcome = "completed" /\ Synth(l) => Completes(l),
           UNCHANGED <<kernelVars, plan, run, artifacts, edges>>, cmd[l] = None,
           executing' = [m \in Loops |-> executing'[m]], executing'[l] = None,
           \A m \in Loops : m # l => executing'[m] = executing[m]
    PROVE  IInv'
  <1>1. /\ ExecutorShape /\ RunShape /\ KernelShape /\ PlanShape /\ Histories /\ RunOK(l) /\ ScriptOK(l)
    BY DEF IInv, Shape, Runs
  <1>2. /\ memo'[l][k] = outcome /\ \A j \in Attempts : j # k => memo'[l][j] = memo[l][j]
        /\ answers'[l] = answers[l] \cup {<<k, outcome>>}
        /\ \A m \in Loops : m # l => memo'[m] = memo[m] /\ answers'[m] = answers[m]
        /\ memo' = [m \in Loops |-> [j \in Attempts |-> memo'[m][j]]]
        /\ answers' = [m \in Loops |-> answers'[m]]
    BY <1>1, AnswerIs
  <1>3. RunShape' /\ ExecutorShape'
    BY <1>1, <1>2 DEF RunShape, ExecutorShape
  <1>4. KernelShape' /\ cmd'[l] = None /\ \A b \in Actors : b # l => cmd'[b] = cmd[b]
    BY <1>1, SameCommands DEF kernelVars
  <1>5. Grows
    BY <1>1, StillStep DEF kernelVars
  <1>6. Steady(l) /\ GoesOn(l) /\ Advances(l)
    BY DEF Steady, GoesOn, Advances
  <1>7. ScriptOK(l)'
    BY <1>1, <1>5, <1>6, ScriptKept
  <1>8. RunOK(l)'
    <2>1. FirstDone(l) => FirstDone(l)'
      BY <1>1, <1>5, <1>6, FirstDoneKept
    <2>2. Synth(l) /\ Completes(l) => Completes(l)'
      BY <1>1, <1>5, CompletesKept
    <2>3. Synth(l)' <=> Synth(l)
      BY SameOutput
    <2>4. \A j \in Attempts : /\ memo'[l][j] \in Outcomes \cup {None}
                              /\ memo'[l][j] = "completed" /\ Synth(l)' => Completes(l)'
      BY <1>1, <1>2, <2>2, <2>3 DEF RunOK
    <2>5. \A x \in answers'[l] : x[1] \in Attempts /\ x[2] # None /\ memo'[l][x[1]] = x[2]
      <3> SUFFICES ASSUME NEW x \in answers'[l] PROVE x[1] \in Attempts /\ x[2] # None /\ memo'[l][x[1]] = x[2]
        OBVIOUS
      <3>1. CASE x = <<k, outcome>>
        BY <1>2, <3>1, EvidenceLoopConstants
      <3>2. CASE x \in answers[l]
        <4>1. x[1] \in Attempts /\ x[2] # None /\ memo[l][x[1]] = x[2]
          BY <1>1, <3>2 DEF RunOK
        <4> QED
          BY <1>2, <4>1
      <3> QED
        BY <1>2, <3>1, <3>2
    <2> QED
      BY <1>1, <2>1, <2>2, <2>3, <2>4, <2>5 DEF RunOK
  <1> QED
    BY <1>2, <1>3, <1>4, <1>6, <1>7, <1>8, OwnStep DEF kernelVars

\* The computation begins, once what it stands on is done.
LEMMA ExecutingStep ==
    ASSUME IInv, NEW l \in Loops, NEW k \in Attempts, memo[l][k] = None, FirstDone(l), NEW missing,
           executing' = [executing EXCEPT ![l] = [attempt |-> k, missing |-> missing]],
           UNCHANGED <<memo, answers>>, UNCHANGED <<kernelVars, plan, run, artifacts, edges>>, cmd[l] = None,
           run[l].state \in {"running", "returned", "aborted"}
    PROVE  IInv'
  <1>1. /\ ExecutorShape /\ RunShape /\ KernelShape /\ PlanShape /\ Histories /\ RunOK(l) /\ ScriptOK(l)
    BY DEF IInv, Shape, Runs
  <1>2. /\ executing'[l] = [attempt |-> k, missing |-> missing]
        /\ \A m \in Loops : m # l => executing'[m] = executing[m]
        /\ ExecutorShape'
    BY <1>1 DEF ExecutorShape
  <1>3. RunShape'
    BY <1>1 DEF RunShape
  <1>4. KernelShape' /\ cmd'[l] = None /\ \A b \in Actors : b # l => cmd'[b] = cmd[b]
    BY <1>1, SameCommands DEF kernelVars
  <1>5. Grows
    BY <1>1, StillStep DEF kernelVars
  <1>6. Steady(l) /\ GoesOn(l) /\ Advances(l)
    BY DEF Steady, GoesOn, Advances
  <1>7. ScriptOK(l)'
    BY <1>1, <1>5, <1>6, ScriptKept
  <1>8. RunOK(l)'
    <2>1. FirstDone(l)'
      BY <1>1, <1>5, <1>6, FirstDoneKept
    <2>2. Synth(l) /\ Completes(l) => Completes(l)'
      BY <1>1, <1>5, CompletesKept
    <2>3. Synth(l)' <=> Synth(l)
      BY SameOutput
    <2>4. executing'[l].attempt = k
      BY <1>2
    <2> QED
      BY <1>1, <2>1, <2>2, <2>3, <2>4 DEF RunOK
  <1> QED
    BY <1>2, <1>3, <1>4, <1>6, <1>7, <1>8, OwnStep DEF kernelVars

\* A run that is to execute has made all its other calls.
LEMMA ExecuteReady ==
    ASSUME IInv, NEW l \in Loops, Ready(l), NextCall(l).op = "execute"
    PROVE  run[l].outcome = None /\ FirstDone(l)
  <1> PICK s : s = run[l].script
    OBVIOUS
  <1>1. /\ RunOK(l) /\ ScriptOK(l) /\ IsList(s) /\ s # <<>> /\ run[l].state = "running"
        /\ CallOK(l, run[l].outcome, Head(s)) /\ Head(s).op = "execute" /\ plan[l] # None
    BY NextCallIs DEF NextCall
  <1>2. run[l].outcome = None
    BY <1>1 DEF CallOK
  <1>3. \A i, j \in 1 .. Len(s) : i < j => s[i].op # "execute"
    BY <1>1 DEF ScriptOK, OpLast
  <1>4. \A j \in 1 .. Len(s) : j = 1 \/ 1 < j
    BY <1>1, InList
  <1>5. Head(s) = s[1] /\ \A j \in 1 .. Len(s) : 1 \in 1 .. Len(s)
    BY <1>1, ListTail, InList
  <1>6. \A j \in 1 .. Len(s) : s[j] = Head(s)
    BY <1>1, <1>3, <1>4, <1>5
  <1>7. \A c \in ToSet(s) : c.op = "execute"
    BY <1>1, <1>6, InList
  <1>8. \A c \in ToSet(FirstCalls(l)) : c \in ToSet(s) \/ Done(l, c)
    BY <1>1, <1>2 DEF ScriptOK, CallsOf
  <1> QED
    BY <1>1, <1>2, <1>7, <1>8 DEF FirstDone

\* What the executor does with the call.
LEMMA ExecuteStep ==
    ASSUME IInv, NEW l \in Loops, NEW k \in Attempts, NEW permitted, NEW cancelled, NEW missing,
           execute(l, k, permitted, cancelled, missing), FirstDone(l), executing[l] = None, cmd[l] = None,
           UNCHANGED <<kernelVars, plan, run, artifacts, edges>>, run[l].state \in {"running", "returned", "aborted"}
    PROVE  IInv'
  <1>1. RunOK(l) /\ ExecutorShape
    BY DEF IInv, Runs, Shape
  <1> PICK denied : denied = Denied(l, permitted, cancelled, missing)
    OBVIOUS
  <1>2. CASE memo[l][k] # None
    <2> PICK outcome : outcome = memo[l][k]
      OBVIOUS
    <2>1. Answer(l, k, outcome) /\ executing' = executing
      BY <1>2 DEF execute
    <2>2. outcome \in Outcomes /\ (outcome = "completed" /\ Synth(l) => Completes(l))
      BY <1>1, <1>2 DEF RunOK
    <2>3. executing' = [m \in Loops |-> executing'[m]]
      BY <1>1, <2>1 DEF ExecutorShape
    <2> QED
      BY <2>1, <2>2, <2>3, AnswerStep
  <1>3. CASE memo[l][k] = None /\ denied # None
    <2>1. Answer(l, k, denied) /\ executing' = executing
      BY <1>3 DEF execute
    <2>2. denied \in {"policy_denied", "cancelled", "failed"}
      BY <1>3 DEF Denied
    <2>3. executing' = [m \in Loops |-> executing'[m]]
      BY <1>1, <2>1 DEF ExecutorShape
    <2>4. denied \in Outcomes /\ denied # "completed"
      BY <2>2 DEF Outcomes
    <2> QED
      BY <1>3, <2>1, <2>3, <2>4, AnswerStep
  <1>4. CASE memo[l][k] = None /\ denied = None
    <2>1. /\ executing' = [executing EXCEPT ![l] = [attempt |-> k, missing |-> missing]]
          /\ UNCHANGED <<memo, answers>>
      BY <1>4 DEF execute
    <2> QED
      BY <1>4, <2>1, ExecutingStep
  <1> QED
    BY <1>2, <1>3, <1>4

LEMMA ExecuteTaskKeeps ==
    ASSUME IInv, NEW l \in Loops, ExecuteTask(l)
    PROVE  IInv'
  <1>1. Ready(l) /\ NextCall(l).op = "execute" /\ UNCHANGED <<kernelVars, plan, artifacts, edges, calls>>
    BY DEF ExecuteTask
  <1>2. /\ FirstDone(l) /\ KernelShape /\ cmd[l] = None /\ executing[l] = None
        /\ run[l].state = "running" /\ plan[l] # None /\ IsPlan(l, plan[l])
    BY <1>1, ExecuteReady, NextCallIs DEF PlanShape
  <1>3. CASE End(l, "aborted") /\ UNCHANGED executorVars
    <2>1. KernelShape' /\ cmd'[l] = None /\ \A b \in Actors : b # l => cmd'[b] = cmd[b]
      BY <1>1, <1>2, SameCommands DEF kernelVars
    <2> QED
      BY <1>1, <1>2, <1>3, <2>1, CallEnds DEF kernelVars
  <1>4. CASE /\ plan[l].attempt >= 1 /\ run' = run
             /\ \E permitted, cancelled \in BOOLEAN : execute(l, plan[l].attempt, permitted, cancelled, plan[l].missing)
    <2>1. plan[l].attempt \in Attempts
      BY <1>2, <1>4 DEF IsPlan
    <2> QED
      BY <1>1, <1>2, <1>4, <2>1, ExecuteStep
  <1>5. plan[l].attempt < 1 \/ plan[l].attempt >= 1
    BY <1>2 DEF IsPlan
  <1> QED
    BY <1>3, <1>4, <1>5 DEF ExecuteTask

LEMMA ReexecuteKeeps ==
    ASSUME IInv, NEW l \in Loops, NEW k \in Attempts, Reexecute(l, k)
    PROVE  IInv'
  <1>1. RunOK(l) /\ PendingOK(l)
    BY DEF IInv, Runs
  <1>2. FirstDone(l) /\ cmd[l] = None /\ executing[l] = None /\ run[l].state \in {"returned", "aborted"}
    BY <1>1 DEF Reexecute, RunOK, PendingOK
  <1> QED
    BY <1>2, ExecuteStep DEF Reexecute

\* The computation completes a synthesis only under the lock.
LEMMA PipelineCompletes ==
    ASSUME IInv, NEW l \in Loops, FirstDone(l), Synth(l),
           PipelineOK(run[l].protocol, plan[l].params, plan[l].variations, plan[l].entries)
    PROVE  Completes(l)
  <1>1. PlanShape /\ Histories
    BY DEF IInv, Shape
  <1>2. plan[l] # None /\ IsPlan(l, plan[l])
    BY <1>1 DEF FirstDone, PlanShape
  <1> PICK p, n, c : p = plan[l].protocol /\ n = run[l].protocol.hash /\ c = Call("read protocol", p, None)
    OBVIOUS
  <1>3. p \in Objects /\ Kind(p) = "protocol"
    BY <1>2 DEF IsPlan, Synth
  <1>4. c \in ToSet(FirstCalls(l)) /\ c.op = "read protocol"
    BY <1>2, FirstCallsAre DEF FirstFacts, Call
  <1>5. ProtocolRead(l)
    BY <1>4 DEF FirstDone, Done
  <1>6. /\ run[l].protocol.status \in _LOCK_SATISFYING_STATUSES /\ n = plan[l].params.lock
        /\ _require_unique_entry_ids(plan[l].entries)
    BY DEF PipelineOK, _check_protocol_lock
  <1>7. n \in 1 .. Len(store[p]) /\ store[p][n].status = run[l].protocol.status
    BY <1>5 DEF ProtocolRead
  <1>8. RowOK(p, store[p][n])
    BY <1>1, <1>3, <1>7 DEF Histories, HistoryOK
  <1>9. store[p][n].status = "locked"
    BY <1>3, <1>6, <1>7, <1>8 DEF RowOK, _LOCK_SATISFYING_STATUSES
  <1> QED
    BY <1>2, <1>6, <1>7, <1>9 DEF Completes

LEMMA WaitEnds ==
    ASSUME IInv, NEW l \in Loops, executing[l] # None, executing' = [executing EXCEPT ![l] = None]
    PROVE  /\ RunOK(l) /\ FirstDone(l) /\ cmd[l] = None /\ executing[l].attempt \in Attempts
           /\ memo[l][executing[l].attempt] = None
           /\ executing' = [m \in Loops |-> executing'[m]] /\ executing'[l] = None
           /\ \A m \in Loops : m # l => executing'[m] = executing[m]
  <1>1. RunOK(l) /\ PendingOK(l) /\ ExecutorShape
    BY DEF IInv, Runs, Shape
  <1>2. FirstDone(l) /\ cmd[l] = None /\ executing[l].attempt \in Attempts /\ memo[l][executing[l].attempt] = None
    BY <1>1 DEF RunOK, PendingOK
  <1>3. /\ executing' = [m \in Loops |-> executing'[m]] /\ executing'[l] = None
        /\ \A m \in Loops : m # l => executing'[m] = executing[m]
    BY <1>1 DEF ExecutorShape
  <1> QED
    BY <1>1, <1>2, <1>3

LEMMA FutureDoneKeeps ==
    ASSUME IInv, NEW l \in Loops, FutureDone(l)
    PROVE  IInv'
  <1>1. /\ executing[l] # None /\ executing' = [executing EXCEPT ![l] = None]
        /\ UNCHANGED <<kernelVars, plan, run, artifacts, edges>>
    BY DEF FutureDone
  <1>2. PICK outcome \in FutureResult(l) : Answer(l, executing[l].attempt, outcome)
    BY DEF FutureDone
  <1>3. FirstDone(l)
    BY <1>1, WaitEnds
  <1>4. outcome \in Outcomes
    BY DEF FutureResult, Outcomes
  <1>5. outcome = "completed" /\ Synth(l) => Completes(l)
    BY <1>3, PipelineCompletes DEF FutureResult, Synth
  <1> QED
    BY <1>1, <1>2, <1>4, <1>5, WaitEnds, AnswerStep

LEMMA FutureTimeoutKeeps ==
    ASSUME IInv, NEW l \in Loops, FutureTimeout(l)
    PROVE  IInv'
  <1>1. /\ executing[l] # None /\ executing' = [executing EXCEPT ![l] = None]
        /\ Answer(l, executing[l].attempt, "timed_out")
        /\ UNCHANGED <<kernelVars, plan, run, artifacts, edges>>
    BY DEF FutureTimeout
  <1>2. "timed_out" \in Outcomes
    BY DEF Outcomes
  <1> QED
    BY <1>1, <1>2, WaitEnds, AnswerStep

-----------------------------------------------------------------------------
(* Starting, taking the result, dying *)

LEMMA TakeResultKeeps ==
    ASSUME IInv, NEW l \in Loops, TakeResult(l)
    PROVE  IInv'
  <1> PICK k, outcome, r : /\ k = plan[l].attempt /\ outcome = memo[l][k]
                           /\ r = [run[l] EXCEPT !.outcome = outcome, !.script = LastCalls(l, outcome)]
    OBVIOUS
  <1>1. /\ Ready(l) /\ NextCall(l).op = "execute" /\ k >= 1 /\ outcome # None
        /\ UNCHANGED <<kernelVars, plan, artifacts, edges, executorVars>>
    BY DEF TakeResult
  <1>2. /\ run[l].outcome = None /\ FirstDone(l) /\ RunOK(l) /\ RunShape /\ KernelShape /\ PlanShape /\ Histories
        /\ run[l].state = "running" /\ cmd[l] = None /\ executing[l] = None /\ plan[l] # None
        /\ ExecutorShape /\ IsPlan(l, plan[l])
    BY <1>1, ExecuteReady, NextCallIs DEF PlanShape, IInv, Shape
  <1>3. k \in Attempts
    BY <1>1, <1>2 DEF IsPlan
  <1>4. outcome \in Outcomes /\ (outcome = "completed" /\ Synth(l) => Completes(l))
    BY <1>1, <1>2, <1>3 DEF RunOK
  <1>5. run' = [run EXCEPT ![l] = r]
    BY <1>2 DEF TakeResult, RunShape
  <1>6. /\ DOMAIN r = {"state", "script", "outcome", "protocol"}
        /\ r.state = run[l].state /\ r.script = LastCalls(l, outcome) /\ r.outcome = outcome
        /\ r.protocol = run[l].protocol
    BY <1>2 DEF RunShape
  <1>7. Becomes(l, run[l].state, LastCalls(l, outcome), outcome, run[l].protocol)
    BY <1>2, <1>5, <1>6, RunSet
  <1>8. KernelShape' /\ cmd'[l] = None /\ \A b \in Actors : b # l => cmd'[b] = cmd[b]
    BY <1>1, <1>2, SameCommands DEF kernelVars
  <1>9. Grows
    BY <1>1, <1>2, StillStep DEF kernelVars
  <1>10. Steady(l)
    BY <1>7 DEF Steady, Becomes
  <1>11. RunOK(l)'
    <2>1. FirstDone(l)'
      BY <1>2, <1>9, <1>10, FirstDoneKept
    <2>2. Synth(l) /\ Completes(l) => Completes(l)'
      BY <1>2, <1>9, CompletesKept
    <2>3. Synth(l)' <=> Synth(l)
      BY <1>1, SameOutput
    <2>4. run'[l].state = "running" /\ run'[l].outcome = outcome
      BY <1>2, <1>7 DEF Becomes
    <2>5. memo' = memo /\ executing' = executing /\ answers' = answers /\ plan' = plan
      BY <1>1 DEF executorVars
    <2> QED
      BY <1>2, <1>4, <2>1, <2>2, <2>3, <2>4, <2>5 DEF RunOK
  <1>12. ScriptOK(l)'
    <2> PICK s : s = LastCalls(l, outcome)
      OBVIOUS
    <2>1. IsList(s) /\ CrateLast(l, s) /\ \A c \in ToSet(s) : CallOK(l, outcome, c)
      BY <1>2, <1>4, LastCallsAre DEF LastFacts, AllOK
    <2>2. run'[l].script = s /\ run'[l].outcome = outcome /\ outcome # None
      BY <1>1, <1>7 DEF Becomes
    <2>3. \A c \in ToSet(s) : c.op # "execute"
      BY <2>1, <2>2 DEF CallOK
    <2>6. \A c \in ToSet(s) : CallOK(l, outcome, c)'
      BY <1>1, <2>1, SameCalls
    <2>4. CallsOf(l)' = s
      BY <1>1, <2>2, SameLastCalls DEF CallsOf
    <2>5. OpLast("execute", s)
      BY <2>1, <2>3, InList DEF OpLast
    <2> QED
      BY <2>1, <2>2, <2>4, <2>5, <2>6 DEF ScriptOK, CrateLast
  <1>15. run[l].state # "dead" /\ run[l].outcome # "completed"
    BY <1>2, EvidenceLoopConstants DEF Outcomes
  <1>13. RunShape' /\ (\A m \in Loops : m # l => run'[m] = run[m]) /\ run'[l].state = "running"
    BY <1>2, <1>7 DEF Becomes
  <1>14. ExecutorShape' /\ \A m \in Loops : memo'[m] = memo[m] /\ executing'[m] = executing[m] /\ answers'[m] = answers[m]
    BY <1>1, <1>2 DEF ExecutorShape, executorVars
  <1> QED
    BY <1>1, <1>2, <1>8, <1>10, <1>11, <1>12, <1>13, <1>14, <1>15, OwnStep DEF kernelVars

LEMMA StartRunKeeps ==
    ASSUME IInv, NEW l \in Loops, StartRun(l)
    PROVE  IInv'
  <1>1. /\ run[l].state = "idle" /\ plan[l] # None
        /\ UNCHANGED <<kernelVars, plan, artifacts, edges, executorVars>>
    BY DEF StartRun
  <1>2. /\ RunOK(l) /\ PendingOK(l) /\ RunShape /\ ExecutorShape /\ KernelShape /\ PlanShape /\ Histories
    BY DEF IInv, Shape, Runs
  <1>3. /\ run[l].outcome = None /\ executing[l] = None /\ cmd[l] = None /\ IsPlan(l, plan[l])
    BY <1>1, <1>2 DEF RunOK, PendingOK, PlanShape
  <1>4. PICK state, script : /\ Becomes(l, state, script, None, run[l].protocol)
                             /\ \/ state = "running" /\ script = FirstCalls(l)
                                \/ state = "unavailable"
    <2>1. CASE run' = [run EXCEPT ![l].state = "running", ![l].script = FirstCalls(l)]
      <3> PICK r : r = [run[l] EXCEPT !.state = "running", !.script = FirstCalls(l)]
        OBVIOUS
      <3>1. run' = [run EXCEPT ![l] = r]
        BY <1>2, <2>1 DEF RunShape
      <3>2. /\ DOMAIN r = {"state", "script", "outcome", "protocol"}
            /\ r.state = "running" /\ r.script = FirstCalls(l) /\ r.outcome = None /\ r.protocol = run[l].protocol
        BY <1>2, <1>3 DEF RunShape
      <3>3. Becomes(l, "running", FirstCalls(l), None, run[l].protocol)
        BY <1>2, <3>1, <3>2, RunSet
      <3> QED
        BY <3>3
    <2>2. CASE run' = [run EXCEPT ![l].state = "unavailable"]
      <3> PICK r : r = [run[l] EXCEPT !.state = "unavailable"]
        OBVIOUS
      <3>1. run' = [run EXCEPT ![l] = r]
        BY <1>2, <2>2 DEF RunShape
      <3>2. /\ DOMAIN r = {"state", "script", "outcome", "protocol"}
            /\ r.state = "unavailable" /\ r.outcome = None /\ r.protocol = run[l].protocol
        BY <1>2, <1>3 DEF RunShape
      <3>3. Becomes(l, "unavailable", r.script, None, run[l].protocol)
        BY <1>2, <3>1, <3>2, RunSet
      <3> QED
        BY <3>3
    <2> QED
      BY <2>1, <2>2 DEF StartRun
  <1>5. KernelShape' /\ cmd'[l] = None /\ \A b \in Actors : b # l => cmd'[b] = cmd[b]
    BY <1>1, <1>2, <1>3, SameCommands DEF kernelVars
  <1>6. Grows
    BY <1>1, <1>2, StillStep DEF kernelVars
  <1>7. Steady(l)
    BY <1>4 DEF Steady, Becomes
  <1>8. RunOK(l)'
    <2>1. Synth(l) /\ Completes(l) => Completes(l)'
      BY <1>2, <1>6, CompletesKept
    <2>2. Synth(l)' <=> Synth(l)
      BY <1>1, SameOutput
    <2>3. run'[l].state \in {"running", "unavailable"} /\ run'[l].outcome = None
      BY <1>4 DEF Becomes
    <2>4. memo' = memo /\ executing' = executing /\ answers' = answers /\ plan' = plan
      BY <1>1 DEF executorVars
    <2> QED
      BY <1>1, <1>2, <1>3, <2>1, <2>2, <2>3, <2>4, EvidenceLoopConstants DEF RunOK
  <1>9. ScriptOK(l)'
    <2> SUFFICES ASSUME run'[l].state = "running" PROVE ScriptOK(l)'
      BY DEF ScriptOK
    <2> PICK s : s = FirstCalls(l)
      OBVIOUS
    <2>1. run'[l].script = s /\ run'[l].outcome = None
      BY <1>4 DEF Becomes
    <2>2. IsList(s) /\ OpLast("execute", s) /\ \A c \in ToSet(s) : CallOK(l, None, c)
      BY <1>3, FirstCallsAre DEF FirstFacts, AllOK
    <2>3. \A c \in ToSet(s) : CallOK(l, None, c)'
      BY <1>1, <2>2, SameCalls
    <2>4. CallsOf(l)' = s
      BY <1>1, <2>1, SameFirstCalls DEF CallsOf
    <2>5. \A c \in ToSet(s) : c.op # "seal"
      BY <2>2, EvidenceLoopConstants DEF CallOK
    <2>6. CrateLast(l, s)
      BY <2>2, <2>5, InList DEF CrateLast
    <2> QED
      BY <2>1, <2>2, <2>3, <2>4, <2>6 DEF ScriptOK, CrateLast
  <1>10. RunShape' /\ \A m \in Loops : m # l => run'[m] = run[m]
    BY <1>4 DEF Becomes
  <1>11. ExecutorShape' /\ \A m \in Loops : memo'[m] = memo[m] /\ executing'[m] = executing[m] /\ answers'[m] = answers[m]
    BY <1>1, <1>2 DEF ExecutorShape, executorVars
  <1>12. run[l].state # "dead" /\ run[l].outcome # "completed"
    BY <1>1, <1>3, EvidenceLoopConstants DEF Outcomes
  <1> QED
    BY <1>1, <1>5, <1>7, <1>8, <1>9, <1>10, <1>11, <1>12, OwnStep DEF kernelVars

LEMMA CrashKeeps ==
    ASSUME IInv, NEW l \in Loops, Crash(l)
    PROVE  IInv'
  <1>1. /\ run[l].state = "running" /\ UNCHANGED <<store, expired, lookup, plan, artifacts, edges, calls>>
        /\ cmd' = [cmd EXCEPT ![l] = None] /\ memo' = [memo EXCEPT ![l] = NoMemory]
        /\ executing' = [executing EXCEPT ![l] = None] /\ answers' = [answers EXCEPT ![l] = {}]
    BY DEF Crash
  <1>2. /\ RunOK(l) /\ RunShape /\ ExecutorShape /\ KernelShape /\ l \in Actors
    BY Actor DEF IInv, Shape, Runs
  <1> PICK r : r = [run[l] EXCEPT !.state = "dead", !.script = <<>>, !.outcome = None]
    OBVIOUS
  <1>3. run' = [run EXCEPT ![l] = r]
    BY <1>2 DEF Crash, RunShape
  <1>4. /\ DOMAIN r = {"state", "script", "outcome", "protocol"}
        /\ r.state = "dead" /\ r.outcome = None /\ r.protocol = run[l].protocol
    BY <1>2 DEF RunShape
  <1>5. Becomes(l, "dead", r.script, None, run[l].protocol)
    BY <1>2, <1>3, <1>4, RunSet
  <1>6. /\ memo'[l] = NoMemory /\ executing'[l] = None /\ answers'[l] = {}
        /\ \A m \in Loops : m # l => memo'[m] = memo[m] /\ executing'[m] = executing[m] /\ answers'[m] = answers[m]
    BY <1>1, <1>2 DEF ExecutorShape
  <1>7. memo' = [m \in Loops |-> memo'[m]] /\ executing' = [m \in Loops |-> executing'[m]]
        /\ answers' = [m \in Loops |-> answers'[m]]
    BY <1>1, <1>2 DEF ExecutorShape
  <1>8. \A m \in Loops : memo'[m] = [j \in Attempts |-> memo'[m][j]]
    BY <1>2, <1>6 DEF ExecutorShape, NoMemory
  <1>9. ExecutorShape'
    BY <1>7, <1>8 DEF ExecutorShape
  <1>10. KernelShape' /\ cmd'[l] = None /\ \A b \in Actors : b # l => cmd'[b] = cmd[b]
    BY <1>1, <1>2 DEF KernelShape
  <1>11. RunOK(l)'
    <2>1. \A k \in Attempts : memo'[l][k] = None
      BY <1>6 DEF NoMemory
    <2>2. run'[l].state = "dead" /\ run'[l].outcome = None /\ plan' = plan
      BY <1>1, <1>5 DEF Becomes
    <2> QED
      BY <1>1, <1>2, <1>6, <2>1, <2>2, EvidenceLoopConstants DEF RunOK, Outcomes
  <1>12. ScriptOK(l)' /\ Steady(l) /\ run'[l].state = "dead" /\ RunShape' /\ \A m \in Loops : m # l => run'[m] = run[m]
    BY <1>5 DEF Becomes, ScriptOK, Steady
  <1> QED
    BY <1>1, <1>6, <1>9, <1>10, <1>11, <1>12, OwnStep

-----------------------------------------------------------------------------
(* The operators, the lookups and the clock *)

\* A step that changes at most the lookups, of all that is looked at here.
LEMMA OtherStep ==
    ASSUME IInv, UNCHANGED <<store, cmd, plan, run, artifacts, edges, memo, executing, answers>>, LookupShape', Lookups'
    PROVE  IInv'
  <1>1. Shape /\ Histories /\ Commands /\ Runs
    BY DEF IInv
  <1>2. Grows /\ Histories' /\ \A m : NothingNew(m)
    BY <1>1, StillStep
  <1>3. Shape'
    BY <1>1, SMT DEF Shape, RunShape, ExecutorShape, KernelShape, PlanShape, IsPlan
  <1>4. Commands'
    BY <1>1, <1>2, CommandKept DEF Commands
  <1>5. \A m \in Loops : Quiet(m)
    BY DEF Quiet
  <1>6. Runs'
    BY <1>1, <1>2, <1>5, QuietKept, EvidenceLoopConstants DEF Runs
  <1> QED
    BY <1>2, <1>3, <1>4, <1>6 DEF IInv

LEMMA SameLookups ==
    ASSUME IInv, UNCHANGED <<store, plan, artifacts, edges, lookup>>
    PROVE  LookupShape' /\ Lookups'
  <1>1. Histories /\ LookupShape /\ Lookups
    BY DEF IInv, Shape
  <1>2. Grows
    BY <1>1, StillStep
  <1>3. LookupShape'
    BY <1>1 DEF LookupShape
  <1> QED
    BY <1>1, <1>2, <1>3, LookupKept DEF Lookups

LEMMA AbandonedThreadEndsKeeps ==
    ASSUME IInv, NEW l \in Loops, AbandonedThreadEnds(l)
    PROVE  IInv'
  BY OtherStep, SameLookups DEF AbandonedThreadEnds, kernelVars

LEMMA ManifestExpiresKeeps ==
    ASSUME IInv, ManifestExpires
    PROVE  IInv'
  BY OtherStep, SameLookups DEF ManifestExpires, Expire, executorVars

LEMMA KernelCallKeeps ==
    ASSUME IInv, NEW a \in Operators, NEW o \in Touched, KernelCall(a, o),
           UNCHANGED <<plan, run, artifacts, edges, executorVars>>
    PROVE  IInv'
  <1> PICK n : n = Len(store[o])
    OBVIOUS
  <1>1. a \in Actors /\ a \notin Loops /\ o \in Objects /\ Histories
    BY Actor, EvidenceLoopConstants DEF IInv
  <1>2. ASSUME NEW to, NEW holds, Move(a, o, to, Transitions[Kind(o)], holds),
               Kind(o) \in {"score", "profile", "protocol", "matrix"},
               Kind(o) = "score" /\ to = "APPROVED" => "approval" \in Latest(o).holds,
               Kind(o) = "profile" => holds = Latest(o).holds,
               Kind(o) = "protocol" => to \in {"reviewed", "locked"},
               Kind(o) = "matrix" => to = "frozen"
        PROVE  IInv'
    <2>1. CanMove(o, to, Transitions[Kind(o)]) /\ Begin(a, o, n, Revision(to, holds, a))
      BY <1>2 DEF Move
    <2>2. Pending(a, o, n, Revision(to, holds, a))
      BY <1>1, <1>2, <2>1, MoveIs DEF Transitions
    <2> QED
      BY <1>1, <2>1, <2>2, BeginStep
  <1>3. CASE \E to \in ScoreTargets : score_transition(a, o, to)
    BY <1>2, <1>3 DEF score_transition, Transitions
  <1>4. CASE \E holds \in SUBSET {"approval"} : score_revise(a, o, holds)
    <2>1. PICK holds \in SUBSET {"approval"} : score_revise(a, o, holds)
      BY <1>4
    <2>2. Kind(o) = "score" /\ Exists(o) /\ Begin(a, o, n, Revision(Latest(o).status, holds, a))
      BY <2>1 DEF score_revise
    <2>3. Pending(a, o, n, Revision(Latest(o).status, holds, a))
      BY <1>1, <2>2, ReviseIs
    <2> QED
      BY <1>1, <2>2, <2>3, BeginStep
  <1>5. CASE \E holds \in SUBSET {"capability"} : register(a, o, Len(store[o]) + 1, holds)
    <2>1. PICK holds \in SUBSET {"capability"} : register(a, o, Len(store[o]) + 1, holds)
      BY <1>5
    <2>2. Kind(o) = "node" /\ Begin(a, o, n, Revision("registered", holds, a))
      BY <2>1 DEF register
    <2>3. Pending(a, o, n, Revision("registered", holds, a))
      BY <1>1, <2>2, RegisterIs
    <2> QED
      BY <1>1, <2>2, <2>3, BeginStep
  <1>6. CASE profile_propose(a, o)
    <2> PICK row : row = Revision(InitialStatus[Kind(o)], {"capability"}, a)
      OBVIOUS
    <2>1. Kind(o) = "profile" /\ Create(a, o, {"capability"}) /\ row.by = a /\ row.holds = {"capability"}
      BY <1>6 DEF profile_propose, Revision
    <2>2. Begin(a, o, 0, row)
      BY <2>1 DEF Create
    <2>3. RowOK(o, row)
      BY <1>1, <2>1 DEF RowOK
    <2>4. Pending(a, o, 0, row)
      BY <1>1, <2>1, <2>3, CreateIs
    <2> QED
      BY <1>1, <2>2, <2>4, BeginStep
  <1>7. CASE profile_accept(a, o) \/ profile_supersede(a, o)
    BY <1>2, <1>7 DEF profile_accept, profile_supersede, profile_transition, Transitions
  <1>8. CASE protocol_submit_for_review(a, o) \/ protocol_lock(a, o)
    BY <1>2, <1>8 DEF protocol_submit_for_review, protocol_lock, Transitions
  <1>9. CASE matrix_freeze(a, o)
    BY <1>2, <1>9 DEF matrix_freeze, matrix_transition, Transitions
  <1> QED
    BY <1>3, <1>4, <1>5, <1>6, <1>7, <1>8, <1>9 DEF KernelCall

LEMMA OperatorStoreKeeps ==
    ASSUME IInv, NEW a \in Operators, Store(a), UNCHANGED <<plan, run, artifacts, edges, executorVars>>
    PROVE  IInv'
  <1>1. a \in Actors /\ a \notin Loops /\ Shape /\ Histories /\ Commands /\ KernelShape
    BY Actor DEF IInv, Shape
  <1>2. Grows /\ Histories' /\ \A m \in Loops : m # a => NothingNew(m)
    BY <1>1, StoreGrows
  <1>3. /\ KernelShape' /\ cmd'[a] = None /\ lookup' = lookup
        /\ \A b \in Actors : b # a => cmd'[b] = cmd[b]
    BY <1>1, StoreIs
  <1>4. Shape'
    BY <1>1, <1>3, SMT DEF Shape, RunShape, ExecutorShape, LookupShape, PlanShape, IsPlan, executorVars
  <1>5. Alone(a)
    BY <1>1, <1>3, <1>4, Actor DEF Alone, Quiet, executorVars
  <1>6. CommandOK(a)'
    BY <1>3 DEF CommandOK
  <1> QED
    BY <1>1, <1>2, <1>5, <1>6, AloneStep, EvidenceLoopConstants

LEMMA OperatorRefuseKeeps ==
    ASSUME IInv, NEW a \in Operators, Refuse(a), UNCHANGED <<plan, run, artifacts, edges, executorVars>>
    PROVE  IInv'
  <1>1. a \in Actors /\ a \notin Loops /\ Shape /\ Histories /\ KernelShape
    BY Actor DEF IInv, Shape
  <1>2. store' = store /\ lookup' = lookup /\ cmd' = [cmd EXCEPT ![a] = None]
    BY DEF Refuse
  <1>3. Grows /\ Histories' /\ \A m : NothingNew(m)
    BY <1>1, <1>2, StillStep
  <1>4. KernelShape' /\ cmd'[a] = None /\ \A b \in Actors : b # a => cmd'[b] = cmd[b]
    BY <1>1, <1>2 DEF KernelShape
  <1>5. Shape'
    BY <1>1, <1>2, <1>4, SMT DEF Shape, RunShape, ExecutorShape, LookupShape, PlanShape, IsPlan, executorVars
  <1>6. Alone(a)
    BY <1>1, <1>2, <1>4, <1>5, Actor DEF Alone, Quiet, executorVars
  <1>7. CommandOK(a)'
    BY <1>4 DEF CommandOK
  <1> QED
    BY <1>1, <1>3, <1>6, <1>7, AloneStep, EvidenceLoopConstants

\* A lookup that only one looker takes a step of.
LEMMA LookupStep ==
    ASSUME IInv, NEW a \in Lookers, UNCHANGED <<store, cmd, expired, plan, run, artifacts, edges, executorVars>>,
           NEW pass, lookup' = [lookup EXCEPT ![a] = pass], LookupOK(a)',
           pass # None => DOMAIN pass = {"todo", "found", "began"}
    PROVE  IInv'
  <1>1. Histories /\ LookupShape /\ Lookups
    BY DEF IInv, Shape
  <1>2. Grows
    BY <1>1, StillStep
  <1>3. lookup'[a] = pass /\ \A b \in Lookers : b # a => lookup'[b] = lookup[b]
    BY <1>1 DEF LookupShape
  <1>4. LookupShape'
    BY <1>1, <1>3 DEF LookupShape
  <1>5. Lookups'
    <2> SUFFICES ASSUME NEW b \in Lookers PROVE LookupOK(b)'
      BY DEF Lookups
    <2>1. CASE b = a
      BY <2>1
    <2>2. CASE b # a
      BY <1>1, <1>2, <1>3, <2>2, LookupKept DEF Lookups
    <2> QED
      BY <2>1, <2>2
  <1> QED
    BY <1>4, <1>5, OtherStep DEF executorVars

LEMMA SameEverAccepted ==
    ASSUME store' = store
    PROVE  EverAccepted' = EverAccepted /\ \A o, status : WasIn(o, status)' <=> WasIn(o, status)
  BY DEF EverAccepted, WasIn

LEMMA AcceptedWasAccepted ==
    ASSUME Histories, NEW o \in Objects, Kind(o) = "profile", Accepted(o)
    PROVE  o \in EverAccepted
  <1>1. Len(store[o]) \in 1 .. Len(store[o]) /\ store[o][Len(store[o])].status = "accepted" /\ IsList(store[o])
    BY LatestIs DEF Accepted, Histories, HistoryOK
  <1>2. Len(store[o]) \in DOMAIN store[o]
    BY <1>1, InList
  <1> QED
    BY <1>1, <1>2 DEF EverAccepted

\* A profile that was accepted stays accepted or is superseded, for good.
LEMMA AcceptedOrSuperseded ==
    ASSUME Histories, NEW o \in EverAccepted
    PROVE  Accepted(o) \/ WasIn(o, "superseded")
  <1>1. o \in Objects /\ Kind(o) = "profile" /\ IsList(store[o]) /\ HistoryOK(o)
    BY DEF EverAccepted, Histories, HistoryOK
  <1> PICK n : n = Len(store[o])
    OBVIOUS
  <1>2. PICK i \in 1 .. n : store[o][i].status = "accepted"
    BY <1>1, InList DEF EverAccepted
  <1>3. n \in Nat /\ n # 0 /\ n \in 1 .. n /\ store[o] # <<>>
    BY <1>1, <1>2, InList
  <1>4. CASE i = n
    <2>1. RowOK(o, store[o][n])
      BY <1>1, <1>3 DEF HistoryOK
    <2>2. "capability" \in store[o][n].holds
      BY <1>1, <2>1 DEF RowOK
    <2> QED
      BY <1>2, <1>3, <1>4, <2>2 DEF Accepted, Exists, Latest
  <1>5. CASE i # n
    <2>1. i + 1 \in 1 .. n /\ i + 1 > 1 /\ (i + 1) - 1 = i
      BY <1>2, <1>3, <1>5
    <2>2. Follows(o, store[o][i], store[o][i + 1])
      BY <1>1, <2>1 DEF HistoryOK
    <2>3. store[o][i + 1].status = "superseded"
      BY <1>1, <1>2, <2>2 DEF Follows, Transitions, MethodProfileTransitions
    <2> QED
      BY <2>1, <2>3 DEF WasIn
  <1> QED
    BY <1>4, <1>5

LEMMA FindKeeps ==
    ASSUME IInv, NEW a \in Lookers, find_accepted_by_capability(a),
           UNCHANGED <<plan, run, artifacts, edges, executorVars>>
    PROVE  IInv'
  <1> PICK pass : pass = [todo |-> EverAccepted, found |-> {}, began |-> {o \in Objects : Kind(o) = "profile" /\ Accepted(o)}]
    OBVIOUS
  <1>1. lookup' = [lookup EXCEPT ![a] = pass] /\ UNCHANGED <<store, cmd, expired>>
    BY DEF find_accepted_by_capability
  <1>2. Histories /\ LookupShape
    BY DEF IInv, Shape
  <1>3. lookup'[a] = pass
    BY <1>1, <1>2 DEF LookupShape
  <1>4. pass.began \subseteq EverAccepted /\ pass.todo = EverAccepted /\ pass.found = {}
    BY <1>2, AcceptedWasAccepted
  <1>5. LookupOK(a)'
    BY <1>1, <1>3, <1>4, SameEverAccepted DEF LookupOK
  <1> QED
    BY <1>1, <1>5, LookupStep

LEMMA KernelLookupKeeps ==
    ASSUME IInv, NEW a \in Lookers, KernelLookup(a), UNCHANGED <<plan, run, artifacts, edges, executorVars>>
    PROVE  IInv'
  <1>1. Histories /\ LookupShape /\ LookupOK(a)
    BY DEF IInv, Shape, Lookups
  <1>2. CASE ReadProfile(a)
    <2>1. PICK o \in lookup[a].todo :
              lookup' = [lookup EXCEPT ![a].todo = @ \ {o}, ![a].found = @ \cup {p \in {o} : Accepted(p)}]
      BY <1>2 DEF ReadProfile
    <2>2. lookup[a] # None /\ UNCHANGED <<store, cmd, expired>>
      BY <1>2 DEF ReadProfile
    <2> PICK old, seen, pass : /\ old = lookup[a] /\ seen = {p \in {o} : Accepted(p)}
                               /\ pass = [old EXCEPT !.todo = @ \ {o}, !.found = @ \cup seen]
      OBVIOUS
    <2>3. DOMAIN old = {"todo", "found", "began"}
      BY <1>1, <2>2 DEF LookupShape
    <2>4. lookup' = [lookup EXCEPT ![a] = pass]
      BY <1>1, <2>1 DEF LookupShape
    <2>5. /\ DOMAIN pass = {"todo", "found", "began"}
          /\ pass.todo = old.todo \ {o} /\ pass.found = old.found \cup seen /\ pass.began = old.began
      BY <2>3
    <2>6. lookup'[a] = pass
      BY <1>1, <2>4 DEF LookupShape
    <2>7. /\ old.todo \cup old.found \cup old.began \subseteq EverAccepted
          /\ \A p \in old.began : p \in old.todo \cup old.found \/ WasIn(p, "superseded")
      BY <1>1, <2>2 DEF LookupOK
    <2>8. o \in EverAccepted /\ (o \in seen \/ WasIn(o, "superseded")) /\ seen \subseteq {o}
      BY <1>1, <2>1, <2>7, AcceptedOrSuperseded
    <2>9. /\ pass.todo \cup pass.found \cup pass.began \subseteq EverAccepted
          /\ \A p \in pass.began : p \in pass.todo \cup pass.found \/ WasIn(p, "superseded")
      BY <2>5, <2>7, <2>8
    <2>10. LookupOK(a)'
      BY <2>2, <2>6, <2>9, SameEverAccepted DEF LookupOK
    <2> QED
      BY <2>2, <2>4, <2>5, <2>10, LookupStep
  <1>3. CASE ReturnProfiles(a)
    <2>1. lookup' = [lookup EXCEPT ![a] = None] /\ UNCHANGED <<store, cmd, expired>>
      BY <1>3 DEF ReturnProfiles
    <2>2. lookup'[a] = None
      BY <1>1, <2>1 DEF LookupShape
    <2>3. LookupOK(a)'
      BY <2>2 DEF LookupOK
    <2> QED
      BY <2>1, <2>3, LookupStep
  <1> QED
    BY <1>2, <1>3 DEF KernelLookup

-----------------------------------------------------------------------------
(* Every step *)

LEMMA NextKeeps ==
    ASSUME IInv, [Next]_vars
    PROVE  IInv'
  <1>1. ASSUME NEW l \in Loops,
               \/ _run_command(l) \/ synthesis_run_command(l) \/ RunStep(l) \/ FutureDone(l)
               \/ AbandonedThreadEnds(l) \/ Crash(l) \/ \E k \in Attempts : Reexecute(l, k)
        PROVE  IInv'
    <2>1. CASE _run_command(l) \/ synthesis_run_command(l)
      BY <2>1, StartRunKeeps DEF _run_command, synthesis_run_command
    <2>2. CASE BeginCall(l) \/ CallStored(l) \/ CallRefused(l) \/ CallFails(l)
      BY <2>2, BeginCallKeeps, CallStoredKeeps, CallRefusedKeeps, CallFailsKeeps
    <2>3. CASE PutArtifact(l) \/ WriteEdge(l) \/ ReadProtocol(l) \/ Return(l)
      BY <2>3, PutArtifactKeeps, WriteEdgeKeeps, ReadProtocolKeeps, ReturnKeeps
    <2>4. CASE ExecuteTask(l) \/ FutureTimeout(l) \/ TakeResult(l)
      BY <2>4, ExecuteTaskKeeps, FutureTimeoutKeeps, TakeResultKeeps
    <2>5. CASE FutureDone(l) \/ AbandonedThreadEnds(l) \/ Crash(l) \/ \E k \in Attempts : Reexecute(l, k)
      BY <2>5, FutureDoneKeeps, AbandonedThreadEndsKeeps, CrashKeeps, ReexecuteKeeps
    <2> QED
      BY <1>1, <2>1, <2>2, <2>3, <2>4, <2>5 DEF RunStep
  <1>2. CASE OperatorCall
    BY <1>2, KernelCallKeeps, FindKeeps DEF OperatorCall
  <1>3. CASE OperatorStep
    BY <1>3, OperatorStoreKeeps, OperatorRefuseKeeps, KernelLookupKeeps DEF OperatorStep
  <1>4. CASE ManifestExpires
    BY <1>4, ManifestExpiresKeeps
  <1>5. CASE UNCHANGED vars
    BY <1>5, OtherStep, SameLookups DEF vars, kernelVars
  <1> QED
    BY <1>1, <1>2, <1>3, <1>4, <1>5 DEF Next

LEMMA InitHolds ==
    ASSUME Init
    PROVE  IInv
  <1>1. PICK w \in Workloads : plan = w.plan
    BY DEF Init
  <1>2. /\ store = [o \in Objects |-> <<>>] /\ cmd = [a \in Actors |-> None] /\ lookup = [a \in Lookers |-> None]
    BY DEF Init, KernelInit
  <1>3. /\ run = [l \in Loops |-> [state |-> "idle", script |-> <<>>, outcome |-> None, protocol |-> None]]
        /\ memo = [l \in Loops |-> NoMemory] /\ executing = [l \in Loops |-> None]
        /\ answers = [l \in Loops |-> {}]
    BY DEF Init
  <1>4. Shape
    <2>1. RunShape
      BY <1>3 DEF RunShape
    <2>2. ExecutorShape
      BY <1>3 DEF ExecutorShape, NoMemory
    <2>3. KernelShape /\ LookupShape
      BY <1>2 DEF KernelShape, LookupShape
    <2>4. PlanShape
      BY <1>1, EvidenceLoopConstants DEF PlanShape
    <2> QED
      BY <2>1, <2>2, <2>3, <2>4 DEF Shape
  <1>5. \A o \in Objects : store[o] = <<>> /\ ~Exists(o)
    BY <1>2 DEF Exists
  <1>6. Histories
    <2> SUFFICES ASSUME NEW o \in Objects PROVE HistoryOK(o) /\ ActiveOK(o)
      BY DEF Histories
    <2>1. IsList(store[o]) /\ Len(store[o]) = 0
      BY <1>5, ListEmpty
    <2> QED
      BY <2>1 DEF HistoryOK, ActiveOK, WasIn
  <1>7. Commands
    BY <1>2 DEF Commands, CommandOK
  <1>8. Lookups
    BY <1>2 DEF Lookups, LookupOK
  <1>9. Runs
    <2> SUFFICES ASSUME NEW l \in Loops PROVE RunOK(l) /\ ScriptOK(l) /\ PendingOK(l) /\ LeftOK(l)
      BY DEF Runs
    <2>1. /\ run[l].state = "idle" /\ run[l].outcome = None /\ executing[l] = None /\ answers[l] = {}
          /\ \A k \in Attempts : memo[l][k] = None
      BY <1>3 DEF NoMemory
    <2>2. cmd[l] = None
      BY <1>2, Actor
    <2>3. RunOK(l)
      BY <2>1, EvidenceLoopConstants DEF RunOK, Outcomes
    <2>4. ScriptOK(l) /\ PendingOK(l)
      BY <2>1, <2>2 DEF ScriptOK, PendingOK
    <2>5. ~Exists(Own(l, "bundle")) /\ ~Exists(Own(l, "crate"))
      BY <1>5, OwnObjects
    <2>6. LeftOK(l)
      BY <1>5, <2>5 DEF LeftOK
    <2> QED
      BY <2>3, <2>4, <2>6
  <1> QED
    BY <1>4, <1>6, <1>7, <1>8, <1>9 DEF IInv

\* The inductive invariant holds of every behaviour: histories follow lifecycles,
\* pending revisions still follow what was read, and a run has done what its script
\* no longer holds.
THEOREM InductiveInvariant == Spec => []IInv
  <1>1. Init => IInv
    BY InitHolds
  <1>2. IInv /\ [Next]_vars => IInv'
    BY NextKeeps
  <1> QED
    BY <1>1, <1>2, PTL DEF Spec

-----------------------------------------------------------------------------
(* What follows of a run's work *)

LEMMA LifecyclesFollow ==
    ASSUME IInv
    PROVE  RevisionsFollowLifecycle /\ ApprovedOnAnApproval
  <1>1. Histories
    BY DEF IInv
  <1>2. ASSUME NEW o \in Objects, NEW i \in 2 .. Len(store[o])
        PROVE  Follows(o, store[o][i - 1], store[o][i])
    <2>1. Len(store[o]) \in Nat
      BY <1>1, InList DEF Histories, HistoryOK
    <2>2. i \in 1 .. Len(store[o]) /\ i > 1
      BY <2>1
    <2> QED
      BY <1>1, <2>2 DEF Histories, HistoryOK
  <1>3. RevisionsFollowLifecycle
    BY <1>2 DEF RevisionsFollowLifecycle, Follows
  <1>4. ApprovedOnAnApproval
    BY <1>2 DEF ApprovedOnAnApproval, Follows
  <1> QED
    BY <1>3, <1>4

\* No status follows that of a superseded profile, which is its last.
LEMMA SupersededIsLast ==
    ASSUME Histories, NEW o \in EverAccepted, WasIn(o, "superseded")
    PROVE  ~Accepted(o)
  <1>1. o \in Objects /\ Kind(o) = "profile" /\ IsList(store[o]) /\ HistoryOK(o)
    BY DEF EverAccepted, Histories, HistoryOK
  <1> PICK n : n = Len(store[o])
    OBVIOUS
  <1>2. PICK i \in 1 .. n : store[o][i].status = "superseded"
    BY DEF WasIn
  <1>3. n \in Nat /\ n \in 1 .. n
    BY <1>1, <1>2, InList
  <1>4. i = n
    <2> SUFFICES ASSUME i # n PROVE FALSE
      OBVIOUS
    <2>1. i + 1 \in 1 .. n /\ i + 1 > 1 /\ (i + 1) - 1 = i
      BY <1>2, <1>3
    <2>2. Follows(o, store[o][i], store[o][i + 1])
      BY <1>1, <2>1 DEF HistoryOK
    <2> QED
      BY <1>1, <1>2, <2>2 DEF Follows, Transitions, MethodProfileTransitions
  <1> QED
    BY <1>2, <1>4 DEF Accepted, Latest

LEMMA LookupsMissNothing ==
    ASSUME IInv
    PROVE  LookupMissesNothing
  <1>1. Histories /\ Lookups
    BY DEF IInv
  <1> SUFFICES ASSUME NEW a \in Lookers, lookup[a] # None, lookup[a].todo = {}
               PROVE  /\ {o \in lookup[a].began : Accepted(o)} \subseteq lookup[a].found
                      /\ lookup[a].found \subseteq EverAccepted
    BY DEF LookupMissesNothing
  <1>2. /\ lookup[a].found \cup lookup[a].began \subseteq EverAccepted
        /\ \A o \in lookup[a].began : o \in lookup[a].found \/ WasIn(o, "superseded")
    BY <1>1 DEF Lookups, LookupOK
  <1>3. \A o \in EverAccepted : Accepted(o) => ~WasIn(o, "superseded")
    BY <1>1, SupersededIsLast
  <1> QED
    BY <1>2, <1>3

LEMMA BundlesAreApproved ==
    ASSUME IInv
    PROVE  BundleNeedsApproval
  <1> SUFFICES ASSUME NEW l \in Loops, Exists(Own(l, "bundle"))
               PROVE  \E i \in DOMAIN store[Own(l, "score")] : store[Own(l, "score")][i].status = "APPROVED"
    BY DEF BundleNeedsApproval
  <1>1. WasIn(Own(l, "score"), "APPROVED")
    BY DEF IInv, Runs, LeftOK, ScoreApproved
  <1>2. IsList(store[Own(l, "score")])
    BY OwnObjects DEF IInv, Histories, HistoryOK
  <1> QED
    BY <1>1, <1>2, InList DEF WasIn

LEMMA AssertionsAreLocked ==
    ASSUME IInv
    PROVE  AssertedUnderTheLock
  <1> SUFFICES ASSUME NEW l \in Loops, Exists(Own(l, "matrix"))
               PROVE  \E i \in DOMAIN store[plan[l].protocol] :
                          store[plan[l].protocol][i].status = "locked" /\ i = plan[l].params.lock
    BY DEF AssertedUnderTheLock
  <1>1. Own(l, "matrix") \in Objects /\ Own(l, "matrix")[1] = l /\ Kind(Own(l, "matrix")) \in Asserted
    BY OwnObjects, KindOfOwn DEF Asserted
  <1>2. Synth(l) /\ Completes(l)
    BY <1>1 DEF IInv, Runs, LeftOK
  <1>3. plan[l].protocol \in Objects
    BY <1>2 DEF IInv, Shape, PlanShape, Completes, IsPlan, Synth
  <1>4. IsList(store[plan[l].protocol])
    BY <1>3 DEF IInv, Histories, HistoryOK
  <1> QED
    BY <1>2, <1>4, InList DEF Completes

LEMMA OneAnswer ==
    ASSUME IInv
    PROVE  OneAnswerPerAttempt
  BY DEF IInv, Runs, RunOK, OneAnswerPerAttempt

LEMMA ShapesFollow ==
    ASSUME IInv
    PROVE  TypeOK
  <1>1. Histories /\ Commands /\ Runs
    BY DEF IInv
  <1>2. ASSUME NEW o \in Objects, NEW i \in DOMAIN store[o]
        PROVE  store[o][i].by \in Actors /\ (i = 1 => store[o][i].status = InitialStatus[Kind(o)])
    <2>1. i \in 1 .. Len(store[o])
      BY <1>1, InList DEF Histories, HistoryOK
    <2> QED
      BY <1>1, <2>1 DEF Histories, HistoryOK, RowOK
  <1>3. ASSUME NEW a \in Actors, cmd[a] # None PROVE cmd[a].o \in Objects /\ cmd[a].read \in Nat
    <2>1. cmd[a].o \in Objects /\ cmd[a].read \in 0 .. Len(store[cmd[a].o])
      BY <1>1, <1>3 DEF Commands, CommandOK, Pending
    <2>2. Len(store[cmd[a].o]) \in Nat
      BY <1>1, <2>1, InList DEF Histories, HistoryOK
    <2> QED
      BY <2>1, <2>2
  <1>4. \A l \in Loops : /\ run[l].state \in {"idle", "running", "returned", "aborted", "dead", "unavailable"}
                         /\ \A k \in Attempts : memo[l][k] \in Outcomes \cup {None}
    BY <1>1 DEF Runs, RunOK
  <1> QED
    BY <1>2, <1>3, <1>4 DEF TypeOK

LEMMA OthersAssertNothing ==
    ASSUME IInv
    PROVE  OnlyCompletedRunsAssert
  <1> SUFFICES ASSUME NEW l \in Loops, run[l].outcome \notin {None, "completed"}, NEW o \in Objects, o[1] = l,
                      Kind(o) \in {"claim", "ruling", "matrix", "decision"}, Exists(o)
               PROVE  FALSE
    BY DEF OnlyCompletedRunsAssert
  <1>1. RunOK(l) /\ LeftOK(l)
    BY DEF IInv, Runs
  <1>2. run[l].outcome = "completed" \/ run[l].state = "dead"
    BY <1>1 DEF LeftOK, Asserted
  <1> QED
    BY <1>1, <1>2 DEF RunOK

\* An object without a lifecycle has one revision.
LEMMA OnlyRevision ==
    ASSUME Histories, NEW o \in Objects, Kind(o) \in {"manifest", "crate"}, Exists(o)
    PROVE  Latest(o) = store[o][1]
  <1> PICK n : n = Len(store[o])
    OBVIOUS
  <1>1. n \in Nat \ {0} /\ n \in 1 .. n /\ Latest(o) = store[o][n] /\ HistoryOK(o)
    BY LatestIs DEF Histories
  <1>2. n > 1 => Follows(o, store[o][n - 1], store[o][n])
    BY <1>1 DEF HistoryOK
  <1>3. ~Follows(o, store[o][n - 1], store[o][n])
    BY DEF Follows, Transitions
  <1>4. ~(n > 1)
    BY <1>2, <1>3, Zenon
  <1>5. n \in Nat /\ n # 0
    BY <1>1
  <1>6. \A m \in Nat : m # 0 /\ ~(m > 1) => m = 1
    OBVIOUS
  <1>7. n = 1
    BY <1>4, <1>5, <1>6, Zenon
  <1> QED
    BY <1>1, <1>7

\* A status that nothing follows is the latest one.
LEMMA LastStatus ==
    ASSUME Histories, NEW o \in Objects, NEW status, WasIn(o, status),
           \A from, row : Follows(o, from, row) /\ RowOK(o, row) => from.status # status
    PROVE  Exists(o) /\ Latest(o).status = status
  <1> PICK n : n = Len(store[o])
    OBVIOUS
  <1>1. IsList(store[o]) /\ HistoryOK(o)
    BY DEF Histories, HistoryOK
  <1>2. PICK i \in 1 .. n : store[o][i].status = status
    BY DEF WasIn
  <1>3. n \in Nat /\ n \in 1 .. n /\ store[o] # <<>>
    BY <1>1, <1>2, InList
  <1>4. i = n
    <2> SUFFICES ASSUME i # n PROVE FALSE
      OBVIOUS
    <2>1. i + 1 \in 1 .. n /\ i + 1 > 1 /\ (i + 1) - 1 = i
      BY <1>2, <1>3
    <2>2. Follows(o, store[o][i], store[o][i + 1]) /\ RowOK(o, store[o][i + 1])
      BY <1>1, <2>1 DEF HistoryOK
    <2> QED
      BY <1>2, <2>2
  <1> QED
    BY <1>2, <1>3, <1>4 DEF Latest, Exists

LEMMA LastStatuses ==
    ASSUME Histories, NEW o \in Objects
    PROVE  /\ Kind(o) = "bundle" /\ WasIn(o, "ACCEPTED") => Exists(o) /\ Latest(o).status = "ACCEPTED"
           /\ Kind(o) = "matrix" /\ WasIn(o, "frozen") => Exists(o) /\ Latest(o).status = "frozen"
           /\ Kind(o) = "ruling" /\ WasIn(o, "issued") => Exists(o) /\ Latest(o).status = "issued"
  <1>1. ASSUME Kind(o) = "bundle" PROVE \A from, row : Follows(o, from, row) => from.status # "ACCEPTED"
    BY <1>1 DEF Follows, Transitions, BundleSteps
  <1>2. ASSUME Kind(o) = "matrix"
        PROVE  \A from, row : Follows(o, from, row) /\ RowOK(o, row) => from.status # "frozen"
    BY <1>2 DEF Follows, Transitions, EvidenceMatrixTransitions, RowOK
  <1>3. ASSUME Kind(o) = "ruling"
        PROVE  \A from, row : Follows(o, from, row) /\ RowOK(o, row) => from.status # "issued"
    BY <1>3 DEF Follows, Transitions, MethodRulingTransitions, RowOK
  <1> QED
    BY <1>1, <1>2, <1>3, LastStatus

\* The crate names one outcome, and everything it stands on is done.
LEMMA CrateIs ==
    ASSUME IInv, NEW l \in Loops, Sealed(l)
    PROVE  /\ OutcomeOf(l) \in Outcomes /\ Behind(l, OutcomeOf(l))
           /\ Latest(Own(l, "crate")).holds = EvidenceCrateSealer_seal(l, OutcomeOf(l)).arg
  <1> PICK o : o = Own(l, "crate")
    OBVIOUS
  <1>1. Histories /\ LeftOK(l) /\ o \in Objects /\ Kind(o) = "crate" /\ Exists(o)
    BY OwnObjects, KindOfOwn DEF IInv, Runs, Sealed
  <1>2. PICK outcome \in Outcomes : /\ store[o][1].holds = EvidenceCrateSealer_seal(l, outcome).arg
                                    /\ Behind(l, outcome)
    BY <1>1 DEF LeftOK
  <1>3. Latest(o).holds = EvidenceCrateSealer_seal(l, outcome).arg
    BY <1>1, <1>2, OnlyRevision
  <1>4. /\ outcome \in Latest(o).holds
        /\ \A other \in Outcomes : other \in Latest(o).holds => other = outcome
    BY <1>3 DEF EvidenceCrateSealer_seal, Call, Outcomes
  <1>5. OutcomeOf(l) = outcome
    BY <1>4 DEF OutcomeOf
  <1> QED
    BY <1>2, <1>3, <1>5

LEMMA CratesAreBacked ==
    ASSUME IInv
    PROVE  CrateIsBacked
  <1> SUFFICES ASSUME NEW l \in Loops, Sealed(l)
               PROVE  /\ Exists(Own(l, "manifest")) /\ OutcomeOf(l) \in Latest(Own(l, "manifest")).holds
                      /\ Exists(Own(l, "bundle")) /\ Latest(Own(l, "bundle")).status = "ACCEPTED"
                      /\ store[Own(l, "bundle")][1].holds \subseteq artifacts
                      /\ "output" \in Latest(Own(l, "crate")).holds => <<l, "output">> \in artifacts
                      /\ OutcomeOf(l) = "completed" <=> "failure" \notin Latest(Own(l, "crate")).holds
    BY DEF CrateIsBacked
  <1> PICK outcome, m, b, c, s, t :
          /\ outcome = OutcomeOf(l) /\ m = Own(l, "manifest") /\ b = Own(l, "bundle") /\ c = Own(l, "crate")
          /\ s = FirstCalls(l) /\ t = LastCalls(l, outcome)
    OBVIOUS
  <1>1. /\ outcome \in Outcomes /\ Behind(l, outcome)
        /\ Latest(c).holds = EvidenceCrateSealer_seal(l, outcome).arg
    BY CrateIs
  <1>2. Histories /\ plan[l] # None /\ IsPlan(l, plan[l])
    BY <1>1 DEF IInv, Shape, PlanShape, Behind, FirstDone
  <1>3. /\ m \in Objects /\ Kind(m) = "manifest" /\ b \in Objects /\ Kind(b) = "bundle"
        /\ c \in Objects /\ Kind(c) = "crate"
    BY OwnObjects, KindOfOwn
  <1>4. FirstFacts(l, s) /\ LastFacts(l, outcome, t)
    BY <1>1, <1>2, FirstCallsAre, LastCallsAre
  <1>5. /\ \A d \in ToSet(s) : d.op # "execute" => Done(l, d)
        /\ \A d \in ToSet(t) : d.op # "seal" /\ d.o # c => Done(l, d)
    BY <1>1 DEF Behind, FirstDone
  <1>6. Exists(m) /\ outcome \in Latest(m).holds
    <2> PICK d : d = RunManifestRecorder_record(l, outcome)
      OBVIOUS
    <2>1. d \in ToSet(t)
      BY <1>4 DEF LastFacts
    <2>2. d.op = "create" /\ d.o = m /\ outcome \in d.arg
      BY DEF RunManifestRecorder_record, Call
    <2>3. Done(l, d)
      BY <1>3, <1>5, <2>1, <2>2
    <2>4. store[m] # <<>> /\ store[m][1].holds = d.arg
      BY <1>3, <2>2, <2>3 DEF Done, Creating, Carries
    <2> QED
      BY <1>2, <1>3, <2>2, <2>4, OnlyRevision DEF Exists
  <1>7. Exists(b) /\ Latest(b).status = "ACCEPTED"
    <2> PICK d : d = Call("advance", b, "ACCEPTED")
      OBVIOUS
    <2>1. d \in ToSet(s)
      BY <1>4 DEF FirstFacts
    <2>2. d.op = "advance" /\ d.o = b /\ d.arg = "ACCEPTED"
      BY DEF Call
    <2>3. WasIn(b, "ACCEPTED")
      BY <1>5, <2>1, <2>2 DEF Done
    <2> QED
      BY <1>2, <1>3, <2>3, LastStatuses
  <1>8. store[b][1].holds \subseteq artifacts
    <2>1. PICK inputs : /\ Call("bundle", b, inputs) \in ToSet(s)
                        /\ \A x \in inputs : Call("put", Own(l, "artifact"), x) \in ToSet(s)
      BY <1>4 DEF FirstFacts
    <2>2. store[b][1].holds = inputs
      <3> PICK d : d = Call("bundle", b, inputs)
        OBVIOUS
      <3>1. d.op = "bundle" /\ d.o = b /\ d.arg = inputs
        BY DEF Call
      <3>2. Done(l, d)
        BY <1>5, <2>1, <3>1
      <3> QED
        BY <3>1, <3>2 DEF Done, Carries
    <2>3. ASSUME NEW x \in inputs PROVE x \in artifacts
      <3> PICK d : d = Call("put", Own(l, "artifact"), x)
        OBVIOUS
      <3>1. d.op = "put" /\ d.arg = x
        BY DEF Call
      <3> QED
        BY <1>5, <2>1, <3>1 DEF Done
    <2> QED
      BY <2>2, <2>3
  <1>9. "output" \in Latest(c).holds => <<l, "output">> \in artifacts
    <2> SUFFICES ASSUME "output" \in Latest(c).holds PROVE <<l, "output">> \in artifacts
      OBVIOUS
    <2> PICK d : d = put(l, "output")
      OBVIOUS
    <2>1. HasOutput(outcome)
      BY <1>1 DEF EvidenceCrateSealer_seal, Call, Outcomes
    <2>2. d \in ToSet(t)
      BY <1>4, <2>1 DEF LastFacts
    <2>3. d.op = "put" /\ d.o = Own(l, "artifact") /\ d.arg = <<l, "output">>
      BY DEF put, Call
    <2>4. d.o # c
      BY <1>3, <2>3, KindOfOwn
    <2> QED
      BY <1>5, <2>2, <2>3, <2>4 DEF Done
  <1>10. outcome = "completed" <=> "failure" \notin Latest(c).holds
    BY <1>1 DEF EvidenceCrateSealer_seal, Call, Outcomes, Completed
  <1> QED
    BY <1>6, <1>7, <1>8, <1>9, <1>10

\* What a claim cites are the anchors of rows the synthesis included and verified.
LEMMA CitedAreAnchored ==
    ASSUME NEW l \in Loops, Synth(l), IsPlan(l, plan[l]), _require_unique_entry_ids(plan[l].entries),
           NEW analysis \in Output(l).analyses,
           NEW anchor \in AnchorsOf(l, analysis.supporting \cup analysis.contradicting, Output(l).rows)
    PROVE  \E i \in DOMAIN Output(l).rows : create(anchor) \in ToSet(RowCalls(l, Output(l).rows[i]))
  <1> PICK rows, entries, group, cited :
          /\ rows = Output(l).rows /\ entries = plan[l].entries
          /\ group = _group_included_rows_by_analysis(rows, analysis.analysis)
          /\ cited = analysis.supporting \cup analysis.contradicting
    OBVIOUS
  <1>1. /\ DOMAIN entries = DOMAIN rows /\ \A i \in DOMAIN rows : rows[i].entry = entries[i]
        /\ analysis = _analysis_result_to_dict(analysis.analysis, group, plan[l].params)
    BY OutputIs
  <1>2. cited \subseteq {e.id : e \in group}
    BY <1>1 DEF _analysis_result_to_dict
  <1>3. group \subseteq IncludedEntries(rows)
    BY DEF _group_included_rows_by_analysis
  <1>4. PICK j \in DOMAIN rows : /\ rows[j].entry.id \in cited /\ rows[j].entry.status = "verified"
                                 /\ anchor = Of(l, "anchor", rows[j].entry.id)
    BY DEF AnchorsOf
  <1>5. PICK e \in IncludedEntries(rows) : e.id = rows[j].entry.id
    BY <1>2, <1>3, <1>4
  <1>6. PICK i \in DOMAIN rows : rows[i].included /\ rows[i].entry = e
    BY <1>5 DEF IncludedEntries
  <1>7. i = j
    BY <1>1, <1>4, <1>5, <1>6 DEF _require_unique_entry_ids
  <1>8. rows[j].included
    BY <1>6, <1>7
  <1> DEFINE a == create(Of(l, "source", rows[j].entry.id))
             b == create(anchor)
  <1>9. RowCalls(l, rows[j]) = <<a>> \o <<b>>
    BY <1>4, <1>8 DEF RowCalls
  <1> HIDE DEF a, b
  <1>10. IsList(<<a>>) /\ IsList(<<b>>) /\ b \in ToSet(<<b>>)
    BY List1
  <1>11. b \in ToSet(<<a>> \o <<b>>)
    BY <1>10, ListConcat
  <1> QED
    BY <1>4, <1>9, <1>11 DEF b

\* An edge is its source and what the call names.
LEMMA EdgeOf ==
    ASSUME NEW o, NEW type, NEW target
    PROVE  <<o>> \o <<type, target>> = <<o, type, target>>
  <1> PICK S : S = {o, type, target}
    OBVIOUS
  <1> PICK s : s = <<o>>
    OBVIOUS
  <1> PICK t : t = <<type, target>>
    OBVIOUS
  <1> PICK u : u = <<o, type, target>>
    OBVIOUS
  <1>1. s \in Seq(S) /\ Len(s) = 1 /\ s[1] = o
    OBVIOUS
  <1>2. t \in Seq(S) /\ Len(t) = 2 /\ t[1] = type /\ t[2] = target
    OBVIOUS
  <1>3. u \in Seq(S) /\ Len(u) = 3 /\ u[1] = o /\ u[2] = type /\ u[3] = target
    OBVIOUS
  <1>4. /\ s \o t \in Seq(S) /\ Len(s \o t) = 3
        /\ \A i \in 1 .. 3 : (s \o t)[i] = IF i <= 1 THEN s[i] ELSE t[i - 1]
    BY <1>1, <1>2, ConcatProperties
  <1>5. (s \o t)[1] = o /\ (s \o t)[2] = type /\ (s \o t)[3] = target
    BY <1>1, <1>2, <1>4
  <1>6. \A i \in 1 .. 3 : i = 1 \/ i = 2 \/ i = 3
    OBVIOUS
  <1>7. \A i \in 1 .. 3 : (s \o t)[i] = u[i]
    BY <1>3, <1>5, <1>6
  <1>8. s \o t = u
    BY <1>3, <1>4, <1>7, SeqEqual
  <1> QED
    BY <1>8

LEMMA CratesAreComplete ==
    ASSUME IInv
    PROVE  CrateIsComplete
  <1> SUFFICES ASSUME NEW l \in Loops, Sealed(l), Synth(l), OutcomeOf(l) = "completed"
               PROVE  /\ Exists(Own(l, "matrix")) /\ Latest(Own(l, "matrix")).status = "frozen"
                      /\ \A analysis \in Output(l).analyses :
                          LET a == analysis.analysis
                              claim == Of(l, "claim", a)
                          IN  IF analysis.outcome = "insufficient_evidence"
                              THEN Exists(Of(l, "decision", a)) /\ ~Exists(claim)
                              ELSE /\ Exists(claim) /\ \A anchor \in Latest(claim).holds : Exists(anchor)
                                   /\ Exists(Of(l, "ruling", a)) /\ Latest(Of(l, "ruling", a)).status = "issued"
                                   /\ <<claim, "ruled_by", Of(l, "ruling", a)>> \in edges
                                   /\ <<claim, "governed_by_protocol", plan[l].protocol>> \in edges
    BY DEF CrateIsComplete, Synth
  <1> PICK t, rows : t = LastCalls(l, "completed") /\ rows = Output(l).rows
    OBVIOUS
  <1>1. "completed" \in Outcomes /\ Behind(l, "completed")
    BY CrateIs
  <1>2. Histories /\ plan[l] # None /\ IsPlan(l, plan[l]) /\ _require_unique_entry_ids(plan[l].entries)
    BY <1>1 DEF IInv, Shape, PlanShape, Behind, FirstDone, Completes, Completed
  <1>3. Persists(l, t) /\ \A d \in ToSet(t) : CallOK(l, "completed", d)
    BY <1>1, <1>2, LastCallsAre DEF LastFacts, AllOK, Completed
  <1>4. \A d \in ToSet(t) : d.op # "seal" /\ d.o # Own(l, "crate") => Done(l, d)
    BY <1>1 DEF Behind
  <1>5. \A o, arg : Call("create", o, arg) \in ToSet(t) /\ Kind(o) # "crate" => Exists(o)
    <2> SUFFICES ASSUME NEW o, NEW arg, Call("create", o, arg) \in ToSet(t), Kind(o) # "crate" PROVE Exists(o)
      OBVIOUS
    <2> PICK d : d = Call("create", o, arg)
      OBVIOUS
    <2>1. d.op = "create" /\ d.o = o
      BY DEF Call
    <2>2. Done(l, d)
      BY <1>4, <2>1, KindOfOwn
    <2> QED
      BY <2>1, <2>2 DEF Done, Creating, Exists
  <1>6. \A o, to : move(o, to) \in ToSet(t) /\ Kind(o) # "crate" => WasIn(o, to)
    <2> SUFFICES ASSUME NEW o, NEW to, move(o, to) \in ToSet(t), Kind(o) # "crate" PROVE WasIn(o, to)
      OBVIOUS
    <2> PICK d : d = move(o, to)
      OBVIOUS
    <2>1. d.op = "move" /\ d.o = o /\ d.arg = to
      BY DEF Call, move
    <2>2. Done(l, d)
      BY <1>4, <2>1, KindOfOwn
    <2> QED
      BY <2>1, <2>2 DEF Done
  <1>7. \A o, type, target : edge(o, type, target) \in ToSet(t) /\ Kind(o) # "crate" => <<o, type, target>> \in edges
    <2> SUFFICES ASSUME NEW o, NEW type, NEW target, edge(o, type, target) \in ToSet(t), Kind(o) # "crate"
                 PROVE  <<o, type, target>> \in edges
      OBVIOUS
    <2> PICK d : d = edge(o, type, target)
      OBVIOUS
    <2>1. d.op = "edge" /\ d.o = o /\ d.arg = <<type, target>>
      BY DEF Call, edge
    <2>2. Done(l, d)
      BY <1>4, <2>1, KindOfOwn
    <2>3. <<o>> \o <<type, target>> = <<o, type, target>>
      BY EdgeOf
    <2> QED
      BY <2>1, <2>2, <2>3 DEF Done
  <1>8. Exists(Own(l, "matrix")) /\ Latest(Own(l, "matrix")).status = "frozen"
    <2>1. Own(l, "matrix") \in Objects /\ Kind(Own(l, "matrix")) = "matrix"
      BY OwnObjects, KindOfOwn
    <2>2. WasIn(Own(l, "matrix"), "frozen")
      BY <1>3, <1>6, <2>1 DEF Persists
    <2> QED
      BY <1>2, <2>1, <2>2, LastStatuses
  <1>9. ASSUME NEW analysis \in Output(l).analyses, NEW a, a = analysis.analysis, NEW claim, claim = Of(l, "claim", a)
        PROVE  IF analysis.outcome = "insufficient_evidence"
               THEN Exists(Of(l, "decision", a)) /\ ~Exists(claim)
               ELSE /\ Exists(claim) /\ \A anchor \in Latest(claim).holds : Exists(anchor)
                    /\ Exists(Of(l, "ruling", a)) /\ Latest(Of(l, "ruling", a)).status = "issued"
                    /\ <<claim, "ruled_by", Of(l, "ruling", a)>> \in edges
                    /\ <<claim, "governed_by_protocol", plan[l].protocol>> \in edges
    <2> PICK ruling, decision, s : /\ ruling = Of(l, "ruling", a) /\ decision = Of(l, "decision", a)
                                   /\ s = AnalysisCalls(l, analysis, rows)
      OBVIOUS
    <2>1. PICK e \in ToSet(plan[l].entries) : e.analysis = a
      BY <1>2, <1>9, OutputIs
    <2>2. /\ claim \in Objects /\ Kind(claim) = "claim" /\ ruling \in Objects /\ Kind(ruling) = "ruling"
          /\ Kind(decision) = "decision"
      BY <1>2, <1>9, <2>1 DEF IsPlan, Synth, Of, Kind
    <2>3. /\ ToSet(s) \subseteq ToSet(t)
          /\ IF analysis.outcome = "insufficient_evidence"
             THEN create(decision) \in ToSet(s) ELSE ClaimCalls(l, analysis, rows) \subseteq ToSet(s)
      BY <1>2, <1>3, <1>9, AnalysisCallsAre DEF Persists
    <2>4. ASSUME Exists(claim)
          PROVE  /\ analysis.outcome # "insufficient_evidence"
                 /\ Latest(claim).holds = AnchorsOf(l, analysis.supporting \cup analysis.contradicting, rows)
      <3>1. ClaimHolds(claim, Latest(claim).holds)
        BY <1>2, <2>2, <2>4, LatestIs DEF RowOK
      <3>2. PICK m \in Loops : \E other \in Output(m).analyses :
                /\ claim = Of(m, "claim", other.analysis) /\ other.outcome # "insufficient_evidence"
                /\ Latest(claim).holds = AnchorsOf(m, other.supporting \cup other.contradicting, Output(m).rows)
        BY <3>1 DEF ClaimHolds
      <3>3. m = l
        BY <1>9, <3>2 DEF Of
      <3>4. PICK other \in Output(l).analyses :
                /\ claim = Of(l, "claim", other.analysis) /\ other.outcome # "insufficient_evidence"
                /\ Latest(claim).holds = AnchorsOf(l, other.supporting \cup other.contradicting, rows)
        BY <3>2, <3>3
      <3>5. other.analysis = a
        BY <1>9, <3>4 DEF Of
      <3>6. other = analysis
        BY <1>2, <1>9, <3>5, OutputIs
      <3> QED
        BY <3>4, <3>6
    <2>5. CASE analysis.outcome = "insufficient_evidence"
      <3>1. Exists(decision)
        BY <1>5, <2>2, <2>3, <2>5 DEF create
      <3> QED
        BY <2>4, <2>5, <3>1
    <2>6. CASE analysis.outcome # "insufficient_evidence"
      <3>1. /\ Call("create", claim, AnchorsOf(l, analysis.supporting \cup analysis.contradicting, rows)) \in ToSet(t)
            /\ create(ruling) \in ToSet(t) /\ move(ruling, "issued") \in ToSet(t)
            /\ edge(claim, "ruled_by", ruling) \in ToSet(t) /\ _write_governed_by_protocol_edge(l, claim) \in ToSet(t)
        BY <1>9, <2>3, <2>6 DEF ClaimCalls
      <3>2. Exists(claim)
        BY <1>5, <2>2, <3>1
      <3>3. Exists(ruling) /\ Latest(ruling).status = "issued"
        BY <1>2, <1>6, <2>2, <3>1, LastStatuses
      <3>4. <<claim, "ruled_by", ruling>> \in edges /\ <<claim, "governed_by_protocol", plan[l].protocol>> \in edges
        BY <1>7, <2>2, <3>1 DEF _write_governed_by_protocol_edge
      <3>5. ASSUME NEW anchor \in Latest(claim).holds PROVE Exists(anchor)
        <4>1. anchor \in AnchorsOf(l, analysis.supporting \cup analysis.contradicting, rows)
          BY <2>4, <3>2
        <4>2. PICK i \in DOMAIN rows : create(anchor) \in ToSet(RowCalls(l, rows[i]))
          BY <1>2, <4>1, CitedAreAnchored
        <4>3. create(anchor) \in ToSet(t)
          BY <1>3, <4>2 DEF Persists
        <4>4. Kind(anchor) = "anchor"
          BY <4>1 DEF AnchorsOf, Of, Kind
        <4> QED
          BY <1>5, <4>3, <4>4 DEF create
      <3> QED
        BY <2>6, <3>2, <3>3, <3>4, <3>5
    <2> QED
      BY <2>5, <2>6
  <1> QED
    BY <1>8, <1>9

-----------------------------------------------------------------------------
(* Theorems *)

\* For any runs, operators, inputs and objects: what a run leaves behind is backed
\* wherever it ended, a sealed crate by everything it names, and a run that did not
\* complete asserts nothing (RunManifestRecorder, EvidenceCrateSealer.seal,
\* _persist_synthesis_output and the order of the loops' calls).
THEOREM RunsAreAlwaysBacked == Spec => []RunsAreBacked
  <1>1. IInv => RunsAreBacked
    BY ShapesFollow, CratesAreBacked, CratesAreComplete, OthersAssertNothing DEF RunsAreBacked
  <1> QED
    BY <1>1, InductiveInvariant, PTL

\* For any runs and operators: approvals, locks and acceptances still hold where they
\* are relied on (ensure_can_start_work, _check_protocol_lock, the services' lifecycle
\* checks and find_accepted_by_capability).
THEOREM WorkIsAlwaysAuthorized == Spec => []WorkIsAuthorized
  <1>1. IInv => WorkIsAuthorized
    BY LifecyclesFollow, LookupsMissNothing, BundlesAreApproved, AssertionsAreLocked DEF WorkIsAuthorized
  <1> QED
    BY <1>1, InductiveInvariant, PTL

\* The safety half of RunsEndWithOneAnswer: the executor never answers one attempt in
\* two ways, whatever its gates say and whenever its timeout strikes (execute).
THEOREM ExecutorAnswersOnce == Spec => []OneAnswerPerAttempt
  <1>1. IInv => OneAnswerPerAttempt
    BY OneAnswer
  <1> QED
    BY <1>1, InductiveInvariant, PTL
=============================================================================
