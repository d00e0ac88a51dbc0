------------------------- MODULE ConversionsProofs -------------------------
(***************************************************************************)
(* The conversions for any input: paths of any length over any segments,   *)
(* texts of any length over any characters, payloads of any length.        *)
(***************************************************************************)
EXTENDS Conversions, SequenceTheorems, WellFoundedInduction, TLAPS

-----------------------------------------------------------------------------
(* Induction, by the least counterexample, over the members of a set. *)

LEMMA Least ==
    ASSUME NEW S \in SUBSET Nat, S # {}
    PROVE  \E m \in S : \A n \in S : m <= n
<1> DEFINE Less == OpToRel(<, Nat)
<1>1. Less = {ss \in Nat \X Nat : ss[1] < ss[2]}
  BY DEF OpToRel
<1>2. PICK m \in S : \A n \in S : <<n, m>> \notin Less
  <2>1. IsWellFoundedOn(Less, Nat)
    BY NatLessThanWellFounded
  <2> HIDE DEF Less
  <2>2. QED
    BY <2>1, WFMin
<1> HIDE DEF Less
<1>3. \A n \in S : ~(n < m)
  BY <1>1, <1>2
<1>4. QED
  BY <1>3

LEMMA Induction ==
    ASSUME NEW n \in Nat, NEW G, 0 \in G, \A i \in 1..n : i - 1 \in G => i \in G
    PROVE  \A i \in 0..n : i \in G
<1> DEFINE Bad == {i \in 0..n : i \notin G}
<1>1. SUFFICES ASSUME Bad # {} PROVE FALSE
  OBVIOUS
<1>2. PICK m \in Bad : \A i \in Bad : m <= i
  <2>1. Bad \in SUBSET Nat
    OBVIOUS
  <2>2. QED
    BY <1>1, <2>1, Least
<1>3. m \in 1..n /\ m - 1 \in 0..n
  BY <1>2
<1>4. m - 1 \notin Bad
  BY <1>2, <1>3
<1>5. QED
  BY <1>2, <1>3, <1>4

\* What holds of the empty sequence, and of a longer one if of what is before
\* its last element, holds of all.
LEMMA SeqInduction ==
    ASSUME NEW T, NEW G, <<>> \in G,
           \A s \in Seq(T), c \in T : s \in G => Append(s, c) \in G
    PROVE  \A s \in Seq(T) : s \in G
<1> SUFFICES ASSUME NEW s \in Seq(T) PROVE s \in G
  OBVIOUS
<1> DEFINE N == {n \in Nat : \A t \in Seq(T) : Len(t) = n => t \in G}
<1>1. 0 \in N
  BY EmptySeq
<1>2. ASSUME NEW n \in 1..Len(s), n - 1 \in N PROVE n \in N
  <2> SUFFICES ASSUME NEW t \in Seq(T), Len(t) = n PROVE t \in G
    OBVIOUS
  <2>1. PICK u \in Seq(T), c \in T : t = Append(u, c)
    <3>1. t # <<>>
      BY EmptySeq
    <3>2. QED
      BY <3>1, SequenceEmptyOrAppend
  <2>2. Len(u) = n - 1
    BY <2>1, AppendProperties
  <2>3. QED
    BY <1>2, <2>1, <2>2
<1>3. \A n \in 0..Len(s) : n \in N
  <2> HIDE DEF N
  <2>1. QED
    BY <1>1, <1>2, Induction, LenProperties
<1>4. QED
  BY <1>3, LenProperties

-----------------------------------------------------------------------------
(* Folds: from the definition of a recursive function to its equations. *)

\* f is the course of a fold with the step F.
IsRun(f, base, F, s) ==
    f[0] = base /\ \A i \in 1..Len(s) : f[i] = F[f[i - 1]][s[i]]

LEMMA RunExists ==
    ASSUME NEW S, NEW T, NEW base \in S, NEW F \in [S -> [T -> S]], NEW s \in Seq(T)
    PROVE  \E f \in [0..Len(s) -> S] : IsRun(f, base, F, s)
<1>0. Len(s) \in Nat /\ \A i \in 1..Len(s) : s[i] \in T
  BY LenProperties, ElementOfSeq
<1> DEFINE Upto(k, f) == f[0] = base /\ \A i \in 1..k : f[i] = F[f[i - 1]][s[i]]
           G == {k \in 0..Len(s) : \E f \in [0..k -> S] : Upto(k, f)}
<1>1. 0 \in G
  <2>1. [i \in 0..0 |-> base] \in [0..0 -> S] /\ Upto(0, [i \in 0..0 |-> base])
    OBVIOUS
  <2>2. 0 \in 0..Len(s)
    BY <1>0
  <2> HIDE DEF Upto
  <2>3. QED
    BY <2>1, <2>2
<1>2. ASSUME NEW k \in 1..Len(s), k - 1 \in G PROVE k \in G
  <2>1. PICK f \in [0..(k - 1) -> S] : Upto(k - 1, f)
    BY <1>2
  <2> DEFINE last == F[f[k - 1]][s[k]]
             g == [i \in 0..k |-> IF i = k THEN last ELSE f[i]]
  <2>2. last \in S
    BY <1>0, <2>1
  <2>3. g \in [0..k -> S]
    BY <1>0, <2>1, <2>2
  <2>4. Upto(k, g)
    <3>1. g[0] = base
      BY <1>0, <2>1
    <3>2. ASSUME NEW i \in 1..k PROVE g[i] = F[g[i - 1]][s[i]]
      <4>1. g[i - 1] = f[i - 1]
        BY <1>0
      <4>2. CASE i = k
        BY <4>1, <4>2
      <4>3. CASE i # k
        <5>1. i \in 1..(k - 1) /\ g[i] = f[i]
          BY <1>0, <4>3
        <5>2. QED
          BY <2>1, <4>1, <5>1
      <4>4. QED
        BY <4>2, <4>3
    <3>3. QED
      BY <3>1, <3>2
  <2>5. k \in 0..Len(s)
    BY <1>0
  <2> HIDE DEF Upto, g
  <2>6. QED
    BY <2>3, <2>4, <2>5
<1>3. Len(s) \in G
  <2> HIDE DEF G
  <2>1. \A i \in 0..Len(s) : i \in G
    BY <1>0, <1>1, <1>2, Induction
  <2>2. Len(s) \in 0..Len(s)
    BY <1>0
  <2>3. QED
    BY <2>1, <2>2
<1>4. QED
  BY <1>3 DEF IsRun

\* Where a fold has a course that F steps through S, R gives it.
GivesRuns(R, base, F, S, T) ==
    /\ base \in S
    /\ F \in [S -> [T -> S]]
    /\ \A s \in Seq(T) : \A f \in [0..Len(s) -> S] : IsRun(f, base, F, s) =>
          \A i \in 0..Len(s) : (i # 0 => R[s][i - 1] \in S /\ s[i] \in T) =>
              R[s][i] = IF i = 0 THEN base ELSE F[R[s][i - 1]][s[i]]

\* X folds sequences over T into S by F.
Folds(X, base, F, S, T) ==
    /\ X[<<>>] = base
    /\ \A s \in Seq(T) : X[s] \in S
    /\ \A s \in Seq(T), c \in T : X[Append(s, c)] = F[X[s]][c]

\* A run written out as the fold's definition writes it.
LEMMA RunIs ==
    ASSUME NEW S, NEW T, NEW base, NEW F, NEW s \in Seq(T),
           NEW f \in [0..Len(s) -> S], IsRun(f, base, F, s)
    PROVE  /\ f = [i \in 0..Len(s) |-> f[i]]
           /\ \A i \in 0..Len(s) : /\ f[i] = IF i = 0 THEN base ELSE F[f[i - 1]][s[i]]
                                   /\ i # 0 => f[i - 1] \in S /\ s[i] \in T
<1>1. ASSUME NEW i \in 0..Len(s), i # 0
      PROVE  i \in 1..Len(s) /\ i - 1 \in 0..Len(s) /\ s[i] \in T
  BY <1>1, LenProperties, ElementOfSeq
<1>2. \A i \in 0..Len(s) : f[i] = IF i = 0 THEN base ELSE F[f[i - 1]][s[i]]
  BY <1>1 DEF IsRun
<1>3. QED
  BY <1>1, <1>2

LEMMA FoldFacts ==
    ASSUME NEW S, NEW T, NEW base, NEW F, NEW R, GivesRuns(R, base, F, S, T)
    PROVE  Folds([s \in Seq(T) |-> R[s][Len(s)]], base, F, S, T)
<1>0. base \in S /\ F \in [S -> [T -> S]]
  BY DEF GivesRuns
<1>1. ASSUME NEW s \in Seq(T)
      PROVE  /\ \A i \in 0..Len(s) : R[s][i] \in S
             /\ R[s][0] = base
             /\ \A i \in 1..Len(s) : R[s][i] = F[R[s][i - 1]][s[i]]
  <2>0. Len(s) \in Nat /\ \A i \in 1..Len(s) : s[i] \in T
    BY LenProperties, ElementOfSeq
  <2>1. /\ R[s][0] = base
        /\ \A i \in 1..Len(s) : R[s][i - 1] \in S => R[s][i] = F[R[s][i - 1]][s[i]]
    <3>1. \A i \in 0..Len(s) : (i # 0 => R[s][i - 1] \in S /\ s[i] \in T) =>
              R[s][i] = IF i = 0 THEN base ELSE F[R[s][i - 1]][s[i]]
      BY <1>0, RunExists DEF GivesRuns
    <3>2. 0 \in 0..Len(s) /\ \A i \in 1..Len(s) : i \in 0..Len(s) /\ i # 0
      BY <2>0
    <3>3. QED
      BY <2>0, <3>1, <3>2
  <2> DEFINE G == {i \in 0..Len(s) : R[s][i] \in S}
  <2>2. \A i \in 0..Len(s) : i \in G
    <3>1. 0 \in G
      BY <1>0, <2>0, <2>1
    <3>2. ASSUME NEW i \in 1..Len(s), i - 1 \in G PROVE i \in G
      <4>1. R[s][i] = F[R[s][i - 1]][s[i]] /\ R[s][i - 1] \in S /\ s[i] \in T
        BY <2>0, <2>1, <3>2
      <4>2. R[s][i] \in S
        BY <1>0, <4>1
      <4>3. QED
        BY <4>2
    <3> HIDE DEF G
    <3>3. QED
      BY <2>0, <3>1, <3>2, Induction
  <2>3. QED
    BY <2>0, <2>1, <2>2
<1>2. ASSUME NEW s \in Seq(T), NEW c \in T
      PROVE  R[Append(s, c)][Len(Append(s, c))] = F[R[s][Len(s)]][c]
  <2> DEFINE t == Append(s, c)
             G == {i \in 0..Len(s) : R[t][i] = R[s][i]}
  <2>1. /\ t \in Seq(T) /\ Len(t) = Len(s) + 1 /\ t[Len(s) + 1] = c
        /\ \A i \in 1..Len(s) : t[i] = s[i]
        /\ Len(s) \in Nat
    BY AppendProperties, LenProperties
  <2> HIDE DEF t
  <2>2. \A i \in 0..Len(s) : i \in G
    <3>1. 0 \in G
      BY <1>1, <2>1
    <3>2. ASSUME NEW i \in 1..Len(s), i - 1 \in G PROVE i \in G
      <4>1. i \in 1..Len(t)
        BY <2>1
      <4>2. R[t][i] = F[R[t][i - 1]][t[i]] /\ R[s][i] = F[R[s][i - 1]][s[i]]
        BY <1>1, <2>1, <4>1
      <4>3. R[t][i - 1] = R[s][i - 1]
        BY <3>2
      <4>4. t[i] = s[i] /\ i \in 0..Len(s)
        BY <2>1
      <4>5. QED
        BY <4>2, <4>3, <4>4
    <3> HIDE DEF G
    <3>3. QED
      BY <2>1, <3>1, <3>2, Induction
  <2>3. /\ Len(t) \in 1..Len(t) /\ Len(t) - 1 = Len(s) /\ Len(s) \in 0..Len(s)
    BY <2>1
  <2>4. R[t][Len(t)] = F[R[t][Len(t) - 1]][t[Len(t)]]
    BY <1>1, <2>1, <2>3
  <2>5. QED
    BY <2>1, <2>2, <2>3, <2>4 DEF t
<1>3. R[<<>>][0] = base
  BY <1>1, EmptySeq
<1>4. \A s \in Seq(T) : R[s][Len(s)] \in S
  BY <1>1, LenProperties
<1>5. QED
  <2> DEFINE X == [s \in Seq(T) |-> R[s][Len(s)]]
  <2>1. /\ X[<<>>] = base
        /\ \A s \in Seq(T) : X[s] \in S
    BY <1>3, <1>4, EmptySeq
  <2>2. ASSUME NEW s \in Seq(T), NEW c \in T PROVE X[Append(s, c)] = F[X[s]][c]
    <3>1. Append(s, c) \in Seq(T)
      BY AppendProperties
    <3>2. QED
      BY <1>2, <3>1
  <2>3. QED
    BY <2>1, <2>2 DEF Folds

\* Sequences one after the other.
LEMMA Flattened ==
    ASSUME NEW T
    PROVE  /\ FlattenSeq(<<>>) = <<>>
           /\ \A s \in Seq(Seq(T)) : FlattenSeq(s) \in Seq(T)
           /\ \A s \in Seq(Seq(T)), t \in Seq(T) :
                 FlattenSeq(Append(s, t)) = FlattenSeq(s) \o t
<1> DEFINE S == Seq(T)
           F == [a \in S |-> [b \in S |-> a \o b]]
           Flat(s) == CHOOSE f : f = [i \in 1..Len(s) |->
                                        IF i = 1 THEN s[i] ELSE f[i - 1] \o s[i]]
           R == [s \in Seq(S) |-> [i \in 0..Len(s) |-> IF i = 0 THEN <<>> ELSE Flat(s)[i]]]
           X == [s \in Seq(S) |-> R[s][Len(s)]]
<1>1. /\ <<>> \in S /\ F \in [S -> [S -> S]]
      /\ \A a, b \in S : F[a][b] = a \o b
  <2>1. \A a, b \in S : a \o b \in S
    BY ConcatProperties
  <2>2. QED
    BY <2>1, EmptySeq
<1>2. ASSUME NEW s \in Seq(S), NEW f \in [0..Len(s) -> S], IsRun(f, <<>>, F, s)
      PROVE  \A i \in 0..Len(s) : (i # 0 => R[s][i - 1] \in S /\ s[i] \in S) =>
                R[s][i] = IF i = 0 THEN <<>> ELSE F[R[s][i - 1]][s[i]]
  <2>0. Len(s) \in Nat /\ \A i \in 1..Len(s) : s[i] \in S
    BY LenProperties, ElementOfSeq
  <2> DEFINE g == [i \in 1..Len(s) |-> f[i]]
  <2>1. g = [i \in 1..Len(s) |-> IF i = 1 THEN s[i] ELSE g[i - 1] \o s[i]]
    <3>1. ASSUME NEW i \in 1..Len(s)
          PROVE  f[i] = IF i = 1 THEN s[i] ELSE g[i - 1] \o s[i]
      <4>1. f[i] = f[i - 1] \o s[i]
        <5>1. f[i - 1] \in S
          <6>1. i - 1 \in 0..Len(s)
            BY <2>0
          <6> HIDE DEF F, S, R
          <6>2. QED
            BY <6>1
        <5>2. f[i] = F[f[i - 1]][s[i]]
          <6> HIDE DEF F, S, R
          <6>1. QED
            BY <1>2 DEF IsRun
        <5>3. QED
          <6> HIDE DEF F, S, R
          <6>1. QED
            BY <1>1, <2>0, <5>1, <5>2
      <4>2. CASE i = 1
        <5>1. f[i - 1] = <<>>
          BY <1>2, <4>2 DEF IsRun
        <5>2. QED
          BY <2>0, <4>1, <4>2, <5>1, ConcatEmptySeq
      <4>3. CASE i # 1
        <5>1. i - 1 \in 1..Len(s)
          BY <2>0, <4>3
        <5>2. QED
          BY <4>1, <4>3, <5>1
      <4>4. QED
        BY <4>2, <4>3
    <3>2. QED
      BY <3>1, Zenon
  <2> HIDE DEF g
  <2>2. Flat(s) = [i \in 1..Len(s) |-> IF i = 1 THEN s[i] ELSE Flat(s)[i - 1] \o s[i]]
    BY <2>1, Zenon
  <2> HIDE DEF Flat
  <2>3. R[s] = [i \in 0..Len(s) |-> IF i = 0 THEN <<>> ELSE Flat(s)[i]]
    OBVIOUS
  <2> HIDE DEF R
  <2>4. R[s][0] = <<>>
    BY <2>0, <2>3
  <2>5. ASSUME NEW i \in 1..Len(s), R[s][i - 1] \in S
        PROVE  R[s][i] = F[R[s][i - 1]][s[i]]
    <3>1. R[s][i] = Flat(s)[i] /\ R[s][i] = IF i = 1 THEN s[i] ELSE Flat(s)[i - 1] \o s[i]
      <4>1. R[s][i] = Flat(s)[i]
        BY <2>0, <2>3
      <4>2. Flat(s)[i] = IF i = 1 THEN s[i] ELSE Flat(s)[i - 1] \o s[i]
        BY <2>2
      <4>3. QED
        BY <4>1, <4>2
    <3>2. F[R[s][i - 1]][s[i]] = R[s][i - 1] \o s[i]
      BY <1>1, <2>0, <2>5
    <3>3. CASE i = 1
      <4>1. <<>> \o s[i] = s[i]
        BY <2>0, ConcatEmptySeq
      <4>2. QED
        <5> HIDE DEF F, S
        <5>1. R[s][i - 1] = <<>>
          BY <2>4, <3>3
        <5>2. QED
          BY <3>1, <3>2, <3>3, <4>1, <5>1
    <3>4. CASE i # 1
      <4>1. R[s][i - 1] = Flat(s)[i - 1]
        BY <2>0, <2>3, <3>4
      <4>2. QED
        BY <3>1, <3>2, <3>4, <4>1
    <3>5. QED
      BY <3>3, <3>4
  <2>6. \A i \in 0..Len(s) : i # 0 => i \in 1..Len(s)
    BY <2>0
  <2>7. QED
    <3> HIDE DEF F, S
    <3>1. QED
      BY <2>4, <2>5, <2>6
<1>3. \A s \in Seq(S) : FlattenSeq(s) = X[s]
  <2> SUFFICES ASSUME NEW s \in Seq(S) PROVE FlattenSeq(s) = X[s]
    OBVIOUS
  <2>1. Len(s) \in Nat /\ (Len(s) = 0 => s = <<>>)
    BY EmptySeq, LenProperties
  <2>2. FlattenSeq(s) = IF Len(s) = 0 THEN s ELSE Flat(s)[Len(s)]
    BY Zenon DEF FlattenSeq
  <2>3. QED
    <3> HIDE DEF Flat
    <3>1. QED
      BY <2>1, <2>2
<1>4. <<>> \in Seq(S) /\ \A s \in Seq(S), t \in S : Append(s, t) \in Seq(S)
  BY EmptySeq, AppendProperties
<1>5. Folds(X, <<>>, F, S, S)
  <2> HIDE DEF F, R, S
  <2>1. GivesRuns(R, <<>>, F, S, S)
    BY <1>1, <1>2 DEF GivesRuns
  <2>2. QED
    BY <2>1, FoldFacts
<1>6. QED
  <2> HIDE DEF F, R, S, X
  <2>1. FlattenSeq(<<>>) = <<>> /\ \A s \in Seq(S) : FlattenSeq(s) \in S
    BY <1>3, <1>4, <1>5 DEF Folds
  <2>2. ASSUME NEW s \in Seq(S), NEW t \in S
        PROVE  FlattenSeq(Append(s, t)) = FlattenSeq(s) \o t
    <3>1. FlattenSeq(Append(s, t)) = F[X[s]][t]
      BY <1>3, <1>4, <1>5 DEF Folds
    <3>2. QED
      BY <1>1, <1>3, <1>5, <3>1 DEF Folds
  <2>3. QED
    BY <2>1, <2>2 DEF S

-----------------------------------------------------------------------------
(* Paths. *)

LEMMA Distinct == Gap # Here /\ Gap # Up /\ Here # Up
BY DEF Gap, Here, Up

LEMMA FrontTyped ==
    ASSUME NEW T, NEW s \in Seq(T), s # <<>>
    PROVE  /\ Front(s) \in Seq(T) /\ Last(s) \in T
           /\ Len(Front(s)) = Len(s) - 1 /\ Len(s) \in Nat \ {0}
           /\ \A i \in 1..(Len(s) - 1) : Front(s)[i] = s[i]
           /\ s = Append(Front(s), Last(s))
<1>1. Len(s) \in Nat \ {0} /\ \A i \in 1..Len(s) : s[i] \in T
  BY EmptySeq, ElementOfSeq
<1>2. Front(s) = SubSeq(s, 1, Len(s) - 1) /\ Last(s) = s[Len(s)]
  BY DEF Front, Last
<1>3. /\ Front(s) \in Seq(T) /\ Len(Front(s)) = Len(s) - 1
      /\ \A i \in 1..(Len(s) - 1) : Front(s)[i] = s[i]
  <2>1. 1 \in Int /\ Len(s) - 1 \in Int /\ \A i \in 1..(Len(s) - 1) : s[i] \in T
    BY <1>1
  <2>2. /\ Front(s) \in Seq(T)
        /\ Len(Front(s)) = IF 1 <= Len(s) - 1 THEN Len(s) - 1 - 1 + 1 ELSE 0
        /\ \A i \in 1..(Len(s) - 1 - 1 + 1) : Front(s)[i] = s[1 + i - 1]
    BY <1>2, <2>1, SubSeqProperties
  <2>3. Len(Front(s)) = Len(s) - 1
    <3>1. Len(Front(s)) = IF 1 <= Len(s) - 1 THEN Len(s) - 1 - 1 + 1 ELSE 0
      BY <2>2
    <3>2. \A n \in Nat \ {0} : (IF 1 <= n - 1 THEN n - 1 - 1 + 1 ELSE 0) = n - 1
      OBVIOUS
    <3>3. QED
      BY <1>1, <3>1, <3>2
  <2>4. ASSUME NEW i \in 1..(Len(s) - 1) PROVE Front(s)[i] = s[i]
    <3>1. i \in 1..(Len(s) - 1 - 1 + 1) /\ 1 + i - 1 = i
      BY <1>1
    <3>2. QED
      BY <2>2, <3>1
  <2>5. QED
    BY <2>2, <2>3, <2>4
<1>4. Last(s) \in T
  BY <1>1, <1>2
<1>5. s = Append(Front(s), Last(s))
  <2>1. /\ Append(Front(s), Last(s)) \in Seq(T)
        /\ Len(Append(Front(s), Last(s))) = Len(Front(s)) + 1
        /\ \A i \in 1..Len(Front(s)) : Append(Front(s), Last(s))[i] = Front(s)[i]
        /\ Append(Front(s), Last(s))[Len(Front(s)) + 1] = Last(s)
    BY <1>3, <1>4, AppendProperties
  <2>2. Len(s) = Len(Append(Front(s), Last(s)))
    BY <1>1, <1>3, <2>1
  <2>3. ASSUME NEW i \in 1..Len(s) PROVE s[i] = Append(Front(s), Last(s))[i]
    BY <1>1, <1>2, <1>3, <2>1
  <2>4. QED
    BY <2>1, <2>2, <2>3, SeqEqual
<1>6. QED
  BY <1>1, <1>3, <1>4, <1>5

LEMMA FrontOfAppend ==
    ASSUME NEW T, NEW s \in Seq(T), NEW c \in T
    PROVE  Front(Append(s, c)) = s /\ Last(Append(s, c)) = c /\ Append(s, c) # <<>>
<1>1. Append(s, c) \in Seq(T) /\ Append(s, c) # <<>>
  BY AppendProperties
<1>2. /\ Front(Append(s, c)) \in Seq(T) /\ Last(Append(s, c)) \in T
      /\ Append(s, c) = Append(Front(Append(s, c)), Last(Append(s, c)))
  BY <1>1, FrontTyped
<1>3. QED
  BY <1>1, <1>2, AppendInjective

LEMMA GoTyped ==
    ASSUME NEW T, NEW dir \in Seq(T), NEW s \in T
    PROVE  Go(dir, s) \in Seq(T)
BY FrontTyped, AppendProperties DEF Go

\* A walk, one segment after the other.
LEMMA WalkFacts ==
    ASSUME NEW T, NEW start \in Seq(T)
    PROVE  /\ WalkFrom(start, <<>>) = start
           /\ \A p \in Seq(T) : WalkFrom(start, p) \in Seq(T)
           /\ \A p \in Seq(T), s \in T :
                 WalkFrom(start, Append(p, s)) = Go(WalkFrom(start, p), s)
<1> DEFINE S == Seq(T)
           F == [dir \in S |-> [s \in T |-> Go(dir, s)]]
           R == [p \in Seq(T) |-> Runs(Go, start, p)]
           X == [p \in Seq(T) |-> R[p][Len(p)]]
<1>1. F \in [S -> [T -> S]] /\ \A dir \in S, s \in T : F[dir][s] = Go(dir, s)
  BY GoTyped
<1>2. ASSUME NEW p \in Seq(T), NEW f \in [0..Len(p) -> S], IsRun(f, start, F, p)
      PROVE  R[p] = [i \in 0..Len(p) |-> IF i = 0 THEN start ELSE Go(R[p][i - 1], p[i])]
  <2>1. f = [i \in 0..Len(p) |-> IF i = 0 THEN start ELSE Go(f[i - 1], p[i])]
    <3> HIDE DEF F, R, S
    <3>1. /\ f = [i \in 0..Len(p) |-> f[i]]
          /\ \A i \in 0..Len(p) : /\ f[i] = IF i = 0 THEN start ELSE F[f[i - 1]][p[i]]
                                  /\ i # 0 => f[i - 1] \in S /\ p[i] \in T
      BY <1>2, RunIs
    <3>2. \A i \in 0..Len(p) : f[i] = IF i = 0 THEN start ELSE Go(f[i - 1], p[i])
      BY <1>1, <3>1
    <3>3. QED
      BY <3>1, <3>2, Zenon
  <2>2. R[p] = Runs(Go, start, p)
    OBVIOUS
  <2> HIDE DEF F, R, S
  <2>3. QED
    BY <2>1, <2>2, Zenon DEF Runs
<1>3. Folds(X, start, F, S, T)
  <2> HIDE DEF F, R
  <2>1. GivesRuns(R, start, F, S, T)
    <3>1. ASSUME NEW p \in Seq(T), NEW f \in [0..Len(p) -> S], IsRun(f, start, F, p),
                 NEW i \in 0..Len(p), i # 0 => R[p][i - 1] \in S /\ p[i] \in T
          PROVE  R[p][i] = IF i = 0 THEN start ELSE F[R[p][i - 1]][p[i]]
      <4>1. R[p][i] = IF i = 0 THEN start ELSE Go(R[p][i - 1], p[i])
        <5>1. R[p] = [j \in 0..Len(p) |-> IF j = 0 THEN start ELSE Go(R[p][j - 1], p[j])]
          BY <1>2, <3>1
        <5>2. QED
          BY <3>1, <5>1
      <4>2. QED
        BY <1>1, <3>1, <4>1
    <3>2. QED
      BY <1>1, <3>1, Zenon DEF GivesRuns
  <2>2. QED
    BY <2>1, FoldFacts
<1>4. \A p \in Seq(T) : WalkFrom(start, p) = X[p]
  BY Zenon DEF Fold, WalkFrom
<1>5. QED
  <2> HIDE DEF F, X
  <2>1. WalkFrom(start, <<>>) = start
    BY <1>3, <1>4, EmptySeq DEF Folds
  <2>2. ASSUME NEW p \in Seq(T), NEW s \in T
        PROVE  WalkFrom(start, Append(p, s)) = Go(WalkFrom(start, p), s)
    <3>1. Append(p, s) \in Seq(T)
      BY AppendProperties
    <3>2. X[p] \in S /\ X[Append(p, s)] = F[X[p]][s]
      BY <1>3 DEF Folds
    <3> HIDE DEF S
    <3>3. QED
      BY <1>1, <1>4, <3>1, <3>2
  <2>3. \A p \in Seq(T) : WalkFrom(start, p) \in Seq(T)
    BY <1>3, <1>4 DEF Folds
  <2>4. QED
    BY <2>1, <2>2, <2>3

LEMMA KeepTyped ==
    ASSUME NEW T, NEW rooted, Up \in T, NEW out \in Seq(T), NEW s \in T
    PROVE  Keep(rooted, out, s) \in Seq(T)
BY FrontTyped, AppendProperties DEF Keep, StepUp

\* What is kept of a path, one segment after the other.
LEMMA KeptFacts ==
    ASSUME NEW T, NEW rooted \in BOOLEAN, Up \in T
    PROVE  /\ Kept(rooted, <<>>) = <<>>
           /\ \A p \in Seq(T) : Kept(rooted, p) \in Seq(T)
           /\ \A p \in Seq(T), s \in T :
                 Kept(rooted, Append(p, s)) = Keep(rooted, Kept(rooted, p), s)
<1> DEFINE S == Seq(T)
           F == [out \in S |-> [s \in T |-> Keep(rooted, out, s)]]
           R == [p \in Seq(T) |-> Runs(LAMBDA out, s : Keep(rooted, out, s), <<>>, p)]
           X == [p \in Seq(T) |-> R[p][Len(p)]]
<1>1. F \in [S -> [T -> S]] /\ \A out \in S, s \in T : F[out][s] = Keep(rooted, out, s)
  BY KeepTyped
<1>2. ASSUME NEW p \in Seq(T), NEW f \in [0..Len(p) -> S], IsRun(f, <<>>, F, p)
      PROVE  R[p] = [i \in 0..Len(p) |-> IF i = 0 THEN <<>> ELSE Keep(rooted, R[p][i - 1], p[i])]
  <2>1. f = [i \in 0..Len(p) |-> IF i = 0 THEN <<>> ELSE Keep(rooted, f[i - 1], p[i])]
    <3> HIDE DEF F, R, S
    <3>1. /\ f = [i \in 0..Len(p) |-> f[i]]
          /\ \A i \in 0..Len(p) : /\ f[i] = IF i = 0 THEN <<>> ELSE F[f[i - 1]][p[i]]
                                  /\ i # 0 => f[i - 1] \in S /\ p[i] \in T
      BY <1>2, RunIs
    <3>2. \A i \in 0..Len(p) : f[i] = IF i = 0 THEN <<>> ELSE Keep(rooted, f[i - 1], p[i])
      BY <1>1, <3>1
    <3>3. QED
      BY <3>1, <3>2, Zenon
  <2>2. R[p] = Runs(LAMBDA out, s : Keep(rooted, out, s), <<>>, p)
    OBVIOUS
  <2> HIDE DEF F, R, S
  <2>3. QED
    BY <2>1, <2>2, Zenon DEF Runs
<1>3. Folds(X, <<>>, F, S, T)
  <2> HIDE DEF F, R
  <2>1. GivesRuns(R, <<>>, F, S, T)
    <3>1. ASSUME NEW p \in Seq(T), NEW f \in [0..Len(p) -> S], IsRun(f, <<>>, F, p),
                 NEW i \in 0..Len(p), i # 0 => R[p][i - 1] \in S /\ p[i] \in T
          PROVE  R[p][i] = IF i = 0 THEN <<>> ELSE F[R[p][i - 1]][p[i]]
      <4>1. R[p][i] = IF i = 0 THEN <<>> ELSE Keep(rooted, R[p][i - 1], p[i])
        <5>1. R[p] = [j \in 0..Len(p) |-> IF j = 0 THEN <<>> ELSE Keep(rooted, R[p][j - 1], p[j])]
          BY <1>2, <3>1
        <5>2. QED
          BY <3>1, <5>1
      <4>2. QED
        BY <1>1, <3>1, <4>1
    <3>2. QED
      BY <1>1, <3>1, EmptySeq, Zenon DEF GivesRuns
  <2>2. QED
    BY <2>1, FoldFacts
<1>4. \A p \in Seq(T) : Kept(rooted, p) = X[p]
  BY Zenon DEF Fold, Kept
<1>5. QED
  <2> HIDE DEF F, X
  <2>1. Kept(rooted, <<>>) = <<>>
    BY <1>3, <1>4, EmptySeq DEF Folds
  <2>2. ASSUME NEW p \in Seq(T), NEW s \in T
        PROVE  Kept(rooted, Append(p, s)) = Keep(rooted, Kept(rooted, p), s)
    <3>1. Append(p, s) \in Seq(T)
      BY AppendProperties
    <3>2. X[p] \in S /\ X[Append(p, s)] = F[X[p]][s]
      BY <1>3 DEF Folds
    <3> HIDE DEF S
    <3>3. QED
      BY <1>1, <1>4, <3>1, <3>2
  <2>3. \A p \in Seq(T) : Kept(rooted, p) \in Seq(T)
    BY <1>3, <1>4 DEF Folds
  <2>4. QED
    BY <2>1, <2>2, <2>3

LEMMA ConcatAppend ==
    ASSUME NEW T, NEW s \in Seq(T), NEW t \in Seq(T), NEW c \in T
    PROVE  s \o Append(t, c) = Append(s \o t, c)
<1>1. <<c>> \in Seq(T) /\ s \o t \in Seq(T)
  BY ConcatProperties
<1>2. Append(t, c) = t \o <<c>> /\ Append(s \o t, c) = (s \o t) \o <<c>>
  BY <1>1, AppendIsConcat
<1>3. QED
  BY <1>1, <1>2, ConcatAssociative

\* Nothing is left to leave out.
Normal(rooted, k) ==
    \A i \in 1..Len(k) :
        /\ k[i] \notin {Gap, Here}
        /\ k[i] = Up => ~rooted /\ \A j \in 1..i : k[j] = Up

LEMMA KeepNormal ==
    ASSUME NEW T, NEW rooted \in BOOLEAN, Up \in T,
           NEW k \in Seq(T), NEW s \in T, Normal(rooted, k)
    PROVE  Normal(rooted, Keep(rooted, k, s))
<1>0. Len(k) \in Nat /\ (k # <<>> => Len(k) \in Nat \ {0})
  BY EmptySeq, LenProperties
<1>1. CASE s \in {Gap, Here}
  BY <1>1 DEF Keep
<1>2. ASSUME NEW c \in T, c \notin {Gap, Here}, c = Up => ~rooted /\ \A j \in 1..Len(k) : k[j] = Up
      PROVE  Normal(rooted, Append(k, c))
  <2>1. /\ Len(Append(k, c)) = Len(k) + 1 /\ Append(k, c)[Len(k) + 1] = c
        /\ \A i \in 1..Len(k) : Append(k, c)[i] = k[i]
    BY AppendProperties
  <2> SUFFICES ASSUME NEW i \in 1..(Len(k) + 1)
               PROVE  /\ Append(k, c)[i] \notin {Gap, Here}
                      /\ Append(k, c)[i] = Up =>
                            ~rooted /\ \A j \in 1..i : Append(k, c)[j] = Up
    BY <2>1 DEF Normal
  <2>2. CASE i = Len(k) + 1
    <3>1. ASSUME NEW j \in 1..i, c = Up PROVE Append(k, c)[j] = Up
      <4>1. j \in 1..Len(k) \/ j = Len(k) + 1
        BY <1>0, <2>2
      <4>2. QED
        BY <1>2, <2>1, <3>1, <4>1
    <3>2. QED
      BY <1>2, <2>1, <2>2, <3>1
  <2>3. CASE i \in 1..Len(k)
    <3>1. \A j \in 1..i : j \in 1..Len(k)
      BY <1>0, <2>3
    <3>2. QED
      BY <2>1, <2>3, <3>1 DEF Normal
  <2>4. i = Len(k) + 1 \/ i \in 1..Len(k)
    BY <1>0
  <2>5. QED
    BY <2>2, <2>3, <2>4
<1>3. CASE s = Up
  <2>1. CASE k # <<>> /\ Last(k) # Up
    <3>1. /\ Len(Front(k)) = Len(k) - 1
          /\ \A i \in 1..(Len(k) - 1) : Front(k)[i] = k[i]
      BY <2>1, FrontTyped
    <3>2. Normal(rooted, Front(k))
      <4>1. \A i \in 1..(Len(k) - 1) : i \in 1..Len(k) /\ \A j \in 1..i : j \in 1..(Len(k) - 1)
        BY <1>0
      <4>2. QED
        BY <3>1, <4>1 DEF Normal
    <3>3. Keep(rooted, k, s) = Front(k)
      BY <1>3, <2>1, Distinct DEF Keep, StepUp
    <3>4. QED
      BY <3>2, <3>3
  <2>2. CASE ~(k # <<>> /\ Last(k) # Up) /\ ~rooted
    <3>1. \A j \in 1..Len(k) : k[j] = Up
      <4>1. CASE k = <<>>
        BY <4>1
      <4>2. CASE k # <<>> /\ Last(k) = Up
        <5>1. Len(k) \in 1..Len(k)
          BY <1>0, <4>2
        <5>2. k[Len(k)] = Up
          BY <4>2 DEF Last
        <5>3. QED
          BY <5>1, <5>2 DEF Normal
      <4>3. QED
        BY <2>2, <4>1, <4>2
    <3>2. Normal(rooted, Append(k, Up))
      BY <1>2, <2>2, <3>1, Distinct
    <3>3. Keep(rooted, k, s) = Append(k, Up)
      BY <1>3, <2>2, Distinct DEF Keep, StepUp
    <3>4. QED
      BY <3>2, <3>3
  <2>3. CASE ~(k # <<>> /\ Last(k) # Up) /\ rooted
    BY <1>3, <2>3, Distinct DEF Keep, StepUp
  <2>4. QED
    BY <2>1, <2>2, <2>3
<1>4. CASE s \notin {Gap, Here, Up}
  BY <1>2, <1>4 DEF Keep
<1>5. QED
  BY <1>1, <1>3, <1>4

\* What is kept is in normal form, and leads where all of it led.
LEMMA KeptLeads ==
    ASSUME NEW T, Up \in T, NEW rooted \in BOOLEAN, NEW start \in Seq(T),
           rooted => start = <<>>
    PROVE  \A p \in Seq(T) : /\ Normal(rooted, Kept(rooted, p))
                            /\ WalkFrom(start, Kept(rooted, p)) = WalkFrom(start, p)
<1> DEFINE G == {p \in Seq(T) : /\ Normal(rooted, Kept(rooted, p))
                                /\ WalkFrom(start, Kept(rooted, p)) = WalkFrom(start, p)}
<1>0. /\ WalkFrom(start, <<>>) = start
      /\ \A p \in Seq(T), s \in T : WalkFrom(start, Append(p, s)) = Go(WalkFrom(start, p), s)
      /\ \A p \in Seq(T) : WalkFrom(start, p) \in Seq(T)
  BY WalkFacts
<1>k. /\ Kept(rooted, <<>>) = <<>>
      /\ \A p \in Seq(T) : Kept(rooted, p) \in Seq(T)
      /\ \A p \in Seq(T), s \in T : Kept(rooted, Append(p, s)) = Keep(rooted, Kept(rooted, p), s)
  BY KeptFacts
<1>1. <<>> \in G
  <2>1. Kept(rooted, <<>>) = <<>> /\ <<>> \in Seq(T)
    BY <1>k, EmptySeq
  <2>2. Normal(rooted, <<>>)
    <3>1. 1..Len(<<>>) = {}
      OBVIOUS
    <3>2. QED
      BY <3>1, Zenon DEF Normal
  <2>3. QED
    BY <2>1, <2>2
<1>2. ASSUME NEW p \in Seq(T), NEW s \in T, p \in G
      PROVE  Append(p, s) \in G
  <2> DEFINE k == Kept(rooted, p)
             w == WalkFrom(start, p)
  <2>1. /\ k \in Seq(T) /\ Kept(rooted, Append(p, s)) = Keep(rooted, k, s)
        /\ Append(p, s) \in Seq(T)
    BY <1>k, AppendProperties
  <2>2. Normal(rooted, k) /\ WalkFrom(start, k) = w /\ w \in Seq(T)
    BY <1>0, <1>2
  <2>3. Normal(rooted, Keep(rooted, k, s))
    BY <2>1, <2>2, KeepNormal
  <2> HIDE DEF k, w
  <2>4. WalkFrom(start, Keep(rooted, k, s)) = Go(w, s)
    <3>0. Len(k) \in Nat /\ (k # <<>> => Len(k) \in 1..Len(k) /\ k[Len(k)] = Last(k))
      <4>1. Len(k) \in Nat /\ (k # <<>> => Len(k) \in Nat \ {0})
        BY <2>1, EmptySeq, LenProperties
      <4>2. QED
        BY <4>1 DEF Last
    <3>1. CASE s \in {Gap, Here}
      BY <2>2, <3>1 DEF Keep, Go
    <3>2. CASE s \notin {Gap, Here, Up}
      BY <1>0, <2>1, <2>2, <3>2 DEF Keep
    <3>3. CASE s = Up
      <4>1. CASE k # <<>> /\ Last(k) # Up
        <5>1. Keep(rooted, k, s) = Front(k)
          BY <3>3, <4>1, Distinct DEF Keep, StepUp
        <5>2. /\ Front(k) \in Seq(T) /\ Last(k) \in T /\ k = Append(Front(k), Last(k))
          BY <2>1, <4>1, FrontTyped
        <5>3. Last(k) \notin {Gap, Here}
          BY <2>2, <3>0, <4>1 DEF Normal
        <5>4. w = Append(WalkFrom(start, Front(k)), Last(k))
          <6>1. PICK f \in Seq(T), z \in T : f = Front(k) /\ z = Last(k) /\ k = Append(f, z)
            BY <5>2
          <6>2. WalkFrom(start, Append(f, z)) = Go(WalkFrom(start, f), z)
            BY <1>0
          <6>3. z \notin {Gap, Here} /\ z # Up
            BY <4>1, <5>3, <6>1
          <6>4. QED
            BY <2>2, <6>1, <6>2, <6>3 DEF Go
        <5>5. Front(w) = WalkFrom(start, Front(k)) /\ w # <<>>
          <6>1. WalkFrom(start, Front(k)) \in Seq(T)
            BY <1>0, <5>2
          <6>2. \A u \in Seq(T), c \in T : Front(Append(u, c)) = u /\ Append(u, c) # <<>>
            BY FrontOfAppend
          <6>3. QED
            BY <5>2, <5>4, <6>1, <6>2, Zenon
        <5>6. QED
          BY <3>3, <5>1, <5>5, Distinct DEF Go
      <4>2. CASE ~(k # <<>> /\ Last(k) # Up) /\ ~rooted
        <5>1. Keep(rooted, k, s) = Append(k, s)
          BY <3>3, <4>2, Distinct DEF Keep, StepUp
        <5>2. QED
          BY <1>0, <2>1, <2>2, <5>1
      <4>3. CASE ~(k # <<>> /\ Last(k) # Up) /\ rooted
        <5>1. k = <<>>
          BY <2>2, <3>0, <4>3 DEF Normal
        <5>2. Keep(rooted, k, s) = k /\ w = <<>>
          BY <1>0, <2>2, <3>3, <4>3, <5>1, Distinct DEF Keep, StepUp
        <5>3. QED
          BY <2>2, <3>3, <5>2, Distinct DEF Go
      <4>4. QED
        BY <4>1, <4>2, <4>3
    <3>4. QED
      BY <3>1, <3>2, <3>3
  <2>5. QED
    BY <1>0, <2>1, <2>3, <2>4 DEF w
<1>3. \A p \in Seq(T) : p \in G
  <2> HIDE DEF G
  <2>1. QED
    BY <1>1, <1>2, SeqInduction
<1>4. QED
  BY <1>3

\* A slash in front changes nothing for who starts at the root.
LEMMA SlashInFront ==
    ASSUME NEW T, Gap \in T, NEW start \in Seq(T)
    PROVE  \A p \in Seq(T) : WalkFrom(start, <<Gap>> \o p) = WalkFrom(start, p)
<1> DEFINE G == {p \in Seq(T) : WalkFrom(start, <<Gap>> \o p) = WalkFrom(start, p)}
<1>0. /\ WalkFrom(start, <<>>) = start
      /\ \A p \in Seq(T), s \in T : WalkFrom(start, Append(p, s)) = Go(WalkFrom(start, p), s)
      /\ \A p \in Seq(T) : WalkFrom(start, p) \in Seq(T)
  BY WalkFacts
<1>1. <<Gap>> \in Seq(T) /\ <<>> \in Seq(T)
  OBVIOUS
<1>2. <<>> \in G
  <2>1. <<Gap>> \o <<>> = Append(<<>>, Gap)
    BY <1>1, ConcatEmptySeq
  <2>2. Go(start, Gap) = start
    BY DEF Go
  <2>3. QED
    BY <1>0, <1>1, <2>1, <2>2
<1>3. ASSUME NEW p \in Seq(T), NEW s \in T, p \in G
      PROVE  Append(p, s) \in G
  <2>1. <<Gap>> \o Append(p, s) = Append(<<Gap>> \o p, s)
    BY <1>1, ConcatAppend
  <2>2. <<Gap>> \o p \in Seq(T) /\ Append(p, s) \in Seq(T)
    BY <1>1, ConcatProperties, AppendProperties
  <2>3. WalkFrom(start, <<Gap>> \o p) = WalkFrom(start, p)
    BY <1>3
  <2>4. /\ WalkFrom(start, Append(<<Gap>> \o p, s)) = Go(WalkFrom(start, <<Gap>> \o p), s)
        /\ WalkFrom(start, Append(p, s)) = Go(WalkFrom(start, p), s)
    BY <1>0, <2>2
  <2>5. QED
    BY <2>1, <2>2, <2>3, <2>4
<1>4. \A p \in Seq(T) : p \in G
  <2> HIDE DEF G
  <2>1. QED
    BY <1>2, <1>3, SeqInduction
<1>5. QED
  BY <1>4

LEMMA SlashBefore ==
    ASSUME NEW T, Gap \in T, NEW p \in Seq(T), p # <<>>
    PROVE  /\ <<Gap>> \o p \in Seq(T) /\ Len(<<Gap>> \o p) = Len(p) + 1
           /\ IsRooted(<<Gap>> \o p) /\ Tail(<<Gap>> \o p) = p
           /\ Last(<<Gap>> \o p) = Last(p)
<1>1. <<Gap>> \in Seq(T) /\ Len(<<Gap>>) = 1 /\ Len(p) \in Nat \ {0}
  BY EmptySeq
<1>2. /\ <<Gap>> \o p \in Seq(T) /\ Len(<<Gap>> \o p) = 1 + Len(p)
      /\ \A i \in 1..(1 + Len(p)) : (<<Gap>> \o p)[i] = IF i <= 1 THEN <<Gap>>[i] ELSE p[i - 1]
  BY <1>1, ConcatProperties
<1>3. (<<Gap>> \o p)[1] = Gap /\ Len(<<Gap>> \o p) = Len(p) + 1 /\ Len(<<Gap>> \o p) > 1
  BY <1>1, <1>2
<1>4. Last(<<Gap>> \o p) = Last(p)
  BY <1>1, <1>2, <1>3 DEF Last
<1>5. Tail(<<Gap>> \o p) = p
  <2> DEFINE q == Tail(<<Gap>> \o p)
  <2>1. <<Gap>> \o p # <<>>
    BY <1>2, <1>1, EmptySeq
  <2>2. /\ q \in Seq(T) /\ Len(q) = Len(<<Gap>> \o p) - 1
        /\ \A i \in 1..Len(q) : q[i] = (<<Gap>> \o p)[i + 1]
    BY <1>2, <2>1, HeadTailProperties
  <2>3. Len(q) = Len(p)
    BY <1>1, <1>2, <2>2
  <2>4. ASSUME NEW i \in 1..Len(q) PROVE q[i] = p[i]
    <3>1. i + 1 \in 1..(1 + Len(p)) /\ ~(i + 1 <= 1) /\ i + 1 - 1 = i
      BY <1>1, <2>3
    <3>2. QED
      BY <1>2, <2>2, <3>1
  <2>5. QED
    BY <2>2, <2>3, <2>4, SeqEqual
<1>6. QED
  BY <1>2, <1>3, <1>4, <1>5 DEF IsRooted

\* path_clean: as rooted as it was, leading where it led, and in its shortest
\* spelling, which is never the empty string.
LEMMA Cleaned ==
    ASSUME NEW T, {Gap, Here, Up} \subseteq T, NEW p \in Seq(T), NEW start \in Seq(T)
    PROVE  /\ Clean(p) \in Seq(T) /\ Clean(p) # <<>> /\ Clean(p) # Empty
           /\ IsRooted(Clean(p)) <=> IsRooted(p)
           /\ Walk(start, Clean(p)) = Walk(start, p)
           /\ Shortest(Clean(p))
<1> DEFINE rooted == IsRooted(p)
           k == Kept(rooted, p)
           from == IF rooted THEN <<>> ELSE start
<1>1. /\ rooted \in BOOLEAN /\ Up \in T /\ Gap \in T /\ Here \in T
      /\ from \in Seq(T) /\ <<>> \in Seq(T)
  BY DEF IsRooted
<1>2. /\ k \in Seq(T) /\ Normal(rooted, k)
      /\ WalkFrom(from, k) = WalkFrom(from, p)
  <2> HIDE DEF rooted
  <2>1. rooted => from = <<>>
    OBVIOUS
  <2> HIDE DEF from
  <2>2. QED
    BY <1>1, <2>1, KeptLeads, KeptFacts
<1>3. Walk(start, p) = WalkFrom(from, k)
  BY <1>2 DEF Walk
<1>4. /\ WalkFrom(from, <<>>) = from
      /\ \A q \in Seq(T), s \in T : WalkFrom(from, Append(q, s)) = Go(WalkFrom(from, q), s)
  <2> HIDE DEF from
  <2>1. QED
    BY <1>1, WalkFacts
<1>5. ASSUME NEW s \in {Gap, Here} PROVE WalkFrom(from, <<s>>) = from
  <2>1. <<s>> = Append(<<>>, s) /\ s \in T
    BY <1>1
  <2>2. Go(from, s) = from
    BY DEF Go
  <2>3. QED
    BY <1>1, <1>4, <2>1, <2>2
<1>6. CASE rooted /\ k = <<>>
  <2>1. Clean(p) = Root
    BY <1>6 DEF Clean
  <2>2. IsRooted(Root) /\ Root \in Seq(T) /\ Root # <<>> /\ Root # Empty
    BY <1>1 DEF Root, Empty, IsRooted
  <2>3. WalkFrom(from, Root) = from
    <3>1. Root = <<Gap>> \o <<Gap>>
      BY DEF Root
    <3>2. WalkFrom(from, <<Gap>> \o <<Gap>>) = WalkFrom(from, <<Gap>>)
      <4>1. <<Gap>> \in Seq(T)
        BY <1>1
      <4> HIDE DEF from
      <4>2. QED
        BY <1>1, <4>1, SlashInFront
    <3>3. QED
      BY <1>5, <3>1, <3>2
  <2>4. Walk(start, Root) = Walk(start, p)
    BY <1>3, <1>4, <1>6, <2>2, <2>3 DEF Walk
  <2>5. QED
    BY <1>6, <2>1, <2>2, <2>4 DEF Shortest
<1>7. CASE rooted /\ k # <<>>
  <2>1. Clean(p) = <<Gap>> \o k
    BY <1>7 DEF Clean
  <2>2. /\ <<Gap>> \o k \in Seq(T) /\ IsRooted(<<Gap>> \o k) /\ Tail(<<Gap>> \o k) = k
        /\ Len(<<Gap>> \o k) = Len(k) + 1
    BY <1>1, <1>2, <1>7, SlashBefore
  <2>3. WalkFrom(from, <<Gap>> \o k) = WalkFrom(from, k)
    <3> HIDE DEF from, k
    <3>1. QED
      BY <1>1, <1>2, SlashInFront
  <2>4. Walk(start, <<Gap>> \o k) = Walk(start, p)
    BY <1>3, <1>7, <2>2, <2>3 DEF Walk
  <2>5. Shortest(<<Gap>> \o k)
    BY <1>2, <1>7, <2>2 DEF Shortest, Normal
  <2>6. <<Gap>> \o k # <<>> /\ <<Gap>> \o k # Empty
    <3>1. Len(<<Gap>> \o k) > 1
      BY <2>2 DEF IsRooted
    <3>2. Len(<<>>) = 0 /\ Len(Empty) = 1
      BY DEF Empty
    <3>3. QED
      BY <3>1, <3>2, SMTT(30)
  <2>7. QED
    BY <1>7, <2>1, <2>2, <2>4, <2>5, <2>6
<1>8. CASE ~rooted /\ k = <<>>
  <2>1. Clean(p) = <<Here>>
    BY <1>8 DEF Clean
  <2>2. ~IsRooted(<<Here>>) /\ <<Here>> \in Seq(T) /\ <<Here>> # <<>> /\ <<Here>> # Empty
    <3>1. Len(<<Here>>) = 1 /\ <<Here>>[1] # <<Gap>>[1]
      BY Distinct
    <3>2. ~IsRooted(<<Here>>) /\ <<Here>> # Empty
      BY <3>1 DEF IsRooted, Empty
    <3>3. QED
      BY <1>1, <3>1, <3>2
  <2>3. Walk(start, <<Here>>) = Walk(start, p)
    BY <1>3, <1>4, <1>5, <1>8, <2>2 DEF Walk
  <2>4. QED
    BY <1>8, <2>1, <2>2, <2>3 DEF Shortest
<1>9. CASE ~rooted /\ k # <<>>
  <2>1. Clean(p) = k
    BY <1>9 DEF Clean
  <2>2. Len(k) \in Nat \ {0}
    BY <1>2, <1>9, EmptySeq
  <2>3. k[1] # Gap
    BY <1>2, <2>2 DEF Normal
  <2>4. ~IsRooted(k) /\ k # Empty
    BY <2>3 DEF IsRooted, Empty
  <2>5. Walk(start, k) = Walk(start, p)
    BY <1>3, <1>9, <2>4 DEF Walk
  <2>6. Shortest(k)
    BY <1>2, <1>9, <2>4 DEF Shortest, Normal
  <2>7. QED
    BY <1>2, <1>9, <2>1, <2>4, <2>5, <2>6
<1>10. QED
  BY <1>6, <1>7, <1>8, <1>9

\* url_join_path's second half.
LEMMA FromTheRoot ==
    ASSUME NEW T, Gap \in T, NEW p \in Seq(T), p # <<>>
    PROVE  /\ FromRoot(p) \in Seq(T) /\ IsRooted(FromRoot(p))
           /\ Walk(<<>>, FromRoot(p)) = Walk(<<>>, p)
<1>1. /\ <<Gap>> \o p \in Seq(T) /\ IsRooted(<<Gap>> \o p)
      /\ WalkFrom(<<>>, <<Gap>> \o p) = WalkFrom(<<>>, p)
  <2>1. <<>> \in Seq(T)
    OBVIOUS
  <2>2. QED
    BY <2>1, SlashBefore, SlashInFront
<1>2. QED
  BY <1>1 DEF FromRoot, Walk

\* path_join: the two paths, one after the other.
LEMMA Joined ==
    ASSUME NEW T, {Gap, Here, Up} \subseteq T, NEW base \in Seq(T), NEW sub \in Seq(T),
           base # <<>>, sub # <<>>
    PROVE  /\ Join(base, sub) \in Seq(T) /\ Join(base, sub) # <<>>
           /\ Join(base, sub) # Empty => Shortest(Join(base, sub))
           /\ IsRooted(base) => IsRooted(Join(base, sub))
           /\ base # Empty => /\ Join(base, sub) # Empty
                             /\ Walk(<<>>, Join(base, sub)) = Walk(<<>>, base \o sub)
<1>0. <<>> \in Seq(T) /\ Empty \in Seq(T) /\ Empty # <<>> /\ ~IsRooted(Empty)
  BY DEF Empty, IsRooted
<1>1. /\ base \o sub \in Seq(T)
      /\ Len(base) \in Nat \ {0} /\ Len(sub) \in Nat \ {0}
      /\ Len(base \o sub) = Len(base) + Len(sub)
      /\ \A i \in 1..Len(base) + Len(sub) : (base \o sub)[i] =
            IF i <= Len(base) THEN base[i] ELSE sub[i - Len(base)]
  BY EmptySeq, ConcatProperties
<1>2. base \o sub # <<>> /\ (base \o sub)[1] = base[1] /\ Len(base \o sub) > 1
  <2>1. Len(base \o sub) > 1 /\ Len(<<>>) = 0
    BY <1>1
  <2>2. 1 \in 1..Len(base) + Len(sub) /\ 1 <= Len(base)
    BY <1>1
  <2>3. QED
    BY <1>1, <2>1, <2>2
<1>3. ASSUME NEW p \in Seq(T), p # <<>>
      PROVE  /\ Clean(p) \in Seq(T) /\ Clean(p) # <<>> /\ Clean(p) # Empty
             /\ IsRooted(Clean(p)) <=> IsRooted(p)
             /\ Walk(<<>>, Clean(p)) = Walk(<<>>, p)
             /\ Shortest(Clean(p))
  BY <1>0, <1>3, Cleaned
<1>4. CASE base = Empty /\ sub = Empty
  BY <1>0, <1>4 DEF Join
<1>5. CASE base = Empty /\ sub # Empty
  <2>1. Join(base, sub) = Clean(sub)
    BY <1>5 DEF Join
  <2>2. QED
    BY <1>0, <1>3, <1>5, <2>1
<1>6. CASE base # Empty /\ sub = Empty
  <2>1. Join(base, sub) = Clean(base)
    BY <1>6 DEF Join
  <2>2. Walk(<<>>, base \o sub) = Walk(<<>>, base)
    <3>1. base \o sub = Append(base, Gap)
      BY <1>6, AppendIsConcat DEF Empty
    <3>2. \A p \in Seq(T), s \in T : WalkFrom(<<>>, Append(p, s)) = Go(WalkFrom(<<>>, p), s)
      <4>1. PICK start \in Seq(T) : start = <<>>
        BY <1>0
      <4>2. \A p \in Seq(T), s \in T : WalkFrom(start, Append(p, s)) = Go(WalkFrom(start, p), s)
        BY WalkFacts
      <4>3. QED
        BY <4>1, <4>2
    <3>3. Gap \in T
      OBVIOUS
    <3>4. WalkFrom(<<>>, base \o sub) = Go(WalkFrom(<<>>, base), Gap)
      BY <3>1, <3>2, <3>3
    <3>5. QED
      BY <3>4 DEF Walk, Go
  <2>3. QED
    BY <1>0, <1>3, <1>6, <2>1, <2>2
<1>7. CASE base # Empty /\ sub # Empty
  <2>1. Join(base, sub) = Clean(base \o sub)
    BY <1>7 DEF Join
  <2>2. IsRooted(base) => IsRooted(base \o sub)
    BY <1>2 DEF IsRooted
  <2>3. QED
    BY <1>1, <1>2, <1>3, <2>1, <2>2
<1>8. QED
  BY <1>4, <1>5, <1>6, <1>7

\* What JoinedPathsLead says of a call, of any paths.
LEMMA JoinLeads ==
    ASSUME NEW T, {Gap, Here, Up} \subseteq T, NEW base \in Seq(T), NEW sub \in Seq(T),
           base # <<>>, sub # <<>>, NEW start \in Seq(T)
    PROVE  /\ Walk(start, Clean(sub)) = Walk(start, sub)
           /\ Shortest(Clean(sub))
           /\ IsRooted(base) => Shortest(UrlPath(base, sub))
           /\ UrlPath(base, sub) # Empty => IsRooted(UrlPath(base, sub))
           /\ base # Empty => Walk(<<>>, UrlPath(base, sub)) = Walk(<<>>, base \o sub)
           /\ Last(SharePath(base, sub)) = Gap /\ IsRooted(SharePath(base, sub))
<1> DEFINE j == Join(base, sub)
<1>1. /\ j \in Seq(T) /\ j # <<>> /\ (j # Empty => Shortest(j))
      /\ IsRooted(base) => IsRooted(j)
      /\ base # Empty => j # Empty /\ Walk(<<>>, j) = Walk(<<>>, base \o sub)
  BY Joined
<1>2. /\ FromRoot(j) \in Seq(T) /\ IsRooted(FromRoot(j))
      /\ Walk(<<>>, FromRoot(j)) = Walk(<<>>, j)
  <2> HIDE DEF j
  <2>1. QED
    BY <1>1, FromTheRoot
<1>3. ~IsRooted(Empty)
  BY DEF IsRooted, Empty
<1>4. Walk(start, Clean(sub)) = Walk(start, sub) /\ Shortest(Clean(sub))
  BY Cleaned
<1>5. Last(SharePath(base, sub)) = Gap /\ IsRooted(SharePath(base, sub))
  <2>1. SharePath(base, sub) = Append(FromRoot(j), Gap)
    BY DEF SharePath
  <2>2. /\ Len(FromRoot(j)) \in Nat /\ Len(FromRoot(j)) > 1 /\ FromRoot(j)[1] = Gap
    BY <1>2, LenProperties DEF IsRooted
  <2> HIDE DEF j
  <2>3. /\ Len(Append(FromRoot(j), Gap)) = Len(FromRoot(j)) + 1
        /\ Append(FromRoot(j), Gap)[Len(FromRoot(j)) + 1] = Gap
        /\ \A i \in 1..Len(FromRoot(j)) : Append(FromRoot(j), Gap)[i] = FromRoot(j)[i]
    BY <1>2, AppendProperties
  <2>4. Append(FromRoot(j), Gap)[1] = Gap
    BY <2>2, <2>3
  <2>5. QED
    BY <2>1, <2>2, <2>3, <2>4 DEF Last, IsRooted
<1>6. UrlPath(base, sub) = IF j = Empty THEN Empty ELSE FromRoot(j)
  BY DEF UrlPath
<1>7. IsRooted(base) => Shortest(UrlPath(base, sub))
  <2> HIDE DEF j
  <2>1. QED
    BY <1>1, <1>3, <1>6 DEF FromRoot
<1>8. QED
  <2> HIDE DEF j
  <2>1. QED
    BY <1>1, <1>2, <1>4, <1>5, <1>6, <1>7

-----------------------------------------------------------------------------
(* Escapes. *)

Clear == [escape |-> FALSE, text |-> <<>>]
Reading(T) == [escape : BOOLEAN, text : Seq(T)]

Closed(meaning, T) == \A c \in T : Meant(meaning, c) \in T

LEMMA EscapeTyped ==
    ASSUME NEW T, NEW meaning, Closed(meaning, T)
    PROVE  /\ Clear \in Reading(T)
           /\ \A r \in Reading(T), c \in T : EscapeRead(meaning, r, c) \in Reading(T)
BY AppendProperties, EmptySeq DEF Clear, Reading, EscapeRead, Closed

\* A reader of escapes, one character after the other.
LEMMA EscapeFacts ==
    ASSUME NEW T, NEW meaning, Closed(meaning, T)
    PROVE  /\ EscapeState(meaning, <<>>) = Clear
           /\ \A p \in Seq(T) : EscapeState(meaning, p) \in Reading(T)
           /\ \A p \in Seq(T), c \in T :
                 EscapeState(meaning, Append(p, c)) = EscapeRead(meaning, EscapeState(meaning, p), c)
<1> DEFINE S == Reading(T)
           F == [r \in S |-> [c \in T |-> EscapeRead(meaning, r, c)]]
           R == [p \in Seq(T) |-> Runs(LAMBDA r, c : EscapeRead(meaning, r, c), Clear, p)]
           X == [p \in Seq(T) |-> R[p][Len(p)]]
<1>1. F \in [S -> [T -> S]] /\ \A r \in S, c \in T : F[r][c] = EscapeRead(meaning, r, c)
  BY EscapeTyped
<1>2. ASSUME NEW p \in Seq(T), NEW f \in [0..Len(p) -> S], IsRun(f, Clear, F, p)
      PROVE  R[p] = [i \in 0..Len(p) |-> IF i = 0 THEN Clear ELSE EscapeRead(meaning, R[p][i - 1], p[i])]
  <2>1. f = [i \in 0..Len(p) |-> IF i = 0 THEN Clear ELSE EscapeRead(meaning, f[i - 1], p[i])]
    <3> HIDE DEF F, R, S
    <3>1. /\ f = [i \in 0..Len(p) |-> f[i]]
          /\ \A i \in 0..Len(p) : /\ f[i] = IF i = 0 THEN Clear ELSE F[f[i - 1]][p[i]]
                                  /\ i # 0 => f[i - 1] \in S /\ p[i] \in T
      BY <1>2, RunIs
    <3>2. \A i \in 0..Len(p) : f[i] = IF i = 0 THEN Clear ELSE EscapeRead(meaning, f[i - 1], p[i])
      BY <1>1, <3>1
    <3>3. QED
      BY <3>1, <3>2, Zenon
  <2>2. R[p] = Runs(LAMBDA r, c : EscapeRead(meaning, r, c), Clear, p)
    OBVIOUS
  <2> HIDE DEF F, R, S
  <2>3. QED
    BY <2>1, <2>2, Zenon DEF Runs
<1>3. Folds(X, Clear, F, S, T)
  <2> HIDE DEF F, R
  <2>1. GivesRuns(R, Clear, F, S, T)
    <3>1. ASSUME NEW p \in Seq(T), NEW f \in [0..Len(p) -> S], IsRun(f, Clear, F, p),
                 NEW i \in 0..Len(p), i # 0 => R[p][i - 1] \in S /\ p[i] \in T
          PROVE  R[p][i] = IF i = 0 THEN Clear ELSE F[R[p][i - 1]][p[i]]
      <4>1. R[p][i] = IF i = 0 THEN Clear ELSE EscapeRead(meaning, R[p][i - 1], p[i])
        <5>1. R[p] = [j \in 0..Len(p) |-> IF j = 0 THEN Clear ELSE EscapeRead(meaning, R[p][j - 1], p[j])]
          BY <1>2, <3>1
        <5>2. QED
          BY <3>1, <5>1
      <4>2. QED
        BY <1>1, <3>1, <4>1
    <3>2. QED
      BY <1>1, <3>1, EscapeTyped, Zenon DEF GivesRuns
  <2>2. QED
    BY <2>1, FoldFacts
<1>4. \A p \in Seq(T) : EscapeState(meaning, p) = X[p]
  BY Zenon DEF Fold, EscapeState, Clear
<1>5. QED
  <2> HIDE DEF F, X
  <2>1. EscapeState(meaning, <<>>) = Clear
    BY <1>3, <1>4, EmptySeq DEF Folds
  <2>2. ASSUME NEW p \in Seq(T), NEW c \in T
        PROVE  EscapeState(meaning, Append(p, c)) = EscapeRead(meaning, EscapeState(meaning, p), c)
    <3>1. Append(p, c) \in Seq(T)
      BY AppendProperties
    <3>2. X[p] \in S /\ X[Append(p, c)] = F[X[p]][c]
      BY <1>3 DEF Folds
    <3> HIDE DEF S
    <3>3. QED
      BY <1>1, <1>4, <3>1, <3>2
  <2>3. \A p \in Seq(T) : EscapeState(meaning, p) \in Reading(T)
    BY <1>3, <1>4 DEF Folds
  <2>4. QED
    BY <2>1, <2>2, <2>3


\* A text in a code that has a sequence for each of its characters.
IsCode(code, T, U) == code \in [T -> Seq(U)]

Coded(code, s) == FlattenSeq([i \in 1..Len(s) |-> code[s[i]]])

LEMMA CodedFacts ==
    ASSUME NEW T, NEW U, NEW code, IsCode(code, T, U)
    PROVE  /\ Coded(code, <<>>) = <<>>
           /\ \A s \in Seq(T) : Coded(code, s) \in Seq(U)
           /\ \A s \in Seq(T), c \in T :
                 Coded(code, Append(s, c)) = Coded(code, s) \o code[c]
<1> DEFINE each(s) == [i \in 1..Len(s) |-> code[s[i]]]
<1>0. code \in [T -> Seq(U)]
  BY DEF IsCode
<1>1. /\ FlattenSeq(<<>>) = <<>>
      /\ \A s \in Seq(Seq(U)) : FlattenSeq(s) \in Seq(U)
      /\ \A s \in Seq(Seq(U)), t \in Seq(U) : FlattenSeq(Append(s, t)) = FlattenSeq(s) \o t
  BY Flattened
<1>2. ASSUME NEW s \in Seq(T)
      PROVE  each(s) \in Seq(Seq(U)) /\ Len(each(s)) = Len(s)
  <2>1. Len(s) \in Nat /\ \A i \in 1..Len(s) : s[i] \in T
    BY LenProperties, ElementOfSeq
  <2>2. \A i \in 1..Len(s) : code[s[i]] \in Seq(U)
    BY <1>0, <2>1
  <2>3. QED
    BY <2>1, <2>2
<1>3. Coded(code, <<>>) = <<>>
  <2>1. each(<<>>) = <<>>
    OBVIOUS
  <2>2. QED
    BY <1>1, <2>1 DEF Coded
<1>4. \A s \in Seq(T) : Coded(code, s) \in Seq(U)
  BY <1>1, <1>2 DEF Coded
<1>5. ASSUME NEW s \in Seq(T), NEW c \in T
      PROVE  Coded(code, Append(s, c)) = Coded(code, s) \o code[c]
  <2>1. /\ Append(s, c) \in Seq(T) /\ Len(Append(s, c)) = Len(s) + 1
        /\ Append(s, c)[Len(s) + 1] = c /\ Len(s) \in Nat
        /\ \A i \in 1..Len(s) : Append(s, c)[i] = s[i]
    BY AppendProperties, LenProperties
  <2>2. code[c] \in Seq(U)
    BY <1>0
  <2>3. each(Append(s, c)) = Append(each(s), code[c])
    <3>1. /\ each(Append(s, c)) \in Seq(Seq(U)) /\ Len(each(Append(s, c))) = Len(s) + 1
          /\ each(s) \in Seq(Seq(U)) /\ Len(each(s)) = Len(s)
      BY <1>2, <2>1
    <3>2. \A i \in 1..(Len(s) + 1) :
            each(Append(s, c))[i] = IF i = Len(s) + 1 THEN code[c] ELSE each(s)[i]
      <4>1. ASSUME NEW i \in 1..(Len(s) + 1), i # Len(s) + 1 PROVE i \in 1..Len(s)
        BY <2>1, <4>1
      <4>2. QED
        BY <2>1, <4>1
    <3> HIDE DEF each
    <3>3. /\ Append(each(s), code[c]) \in Seq(Seq(U))
          /\ Len(Append(each(s), code[c])) = Len(s) + 1
          /\ Append(each(s), code[c])[Len(s) + 1] = code[c]
          /\ \A i \in 1..Len(s) : Append(each(s), code[c])[i] = each(s)[i]
      BY <2>2, <3>1, AppendProperties
    <3>4. ASSUME NEW i \in 1..(Len(s) + 1)
          PROVE  each(Append(s, c))[i] = Append(each(s), code[c])[i]
      <4>1. i = Len(s) + 1 \/ (i # Len(s) + 1 /\ i \in 1..Len(s))
        BY <2>1
      <4>2. QED
        BY <3>2, <3>3, <4>1
    <3>5. QED
      BY <3>1, <3>3, <3>4, SeqEqual
  <2>4. QED
    BY <1>1, <1>2, <2>2, <2>3 DEF Coded
<1>6. QED
  BY <1>3, <1>4, <1>5

Groups(x, y, z) == (x \o y) \o z = x \o (y \o z)

LEMMA Grouped ==
    ASSUME NEW T, NEW x \in Seq(T), NEW y \in Seq(T), NEW z \in Seq(T)
    PROVE  Groups(x, y, z)
BY ConcatAssociative DEF Groups

LEMMA CodedConcat ==
    ASSUME NEW T, NEW U, NEW code, IsCode(code, T, U), NEW s \in Seq(T)
    PROVE  \A t \in Seq(T) : Coded(code, s \o t) = Coded(code, s) \o Coded(code, t)
<1> DEFINE G == {t \in Seq(T) : Coded(code, s \o t) = Coded(code, s) \o Coded(code, t)}
<1>0. /\ Coded(code, <<>>) = <<>>
      /\ \A r \in Seq(T) : Coded(code, r) \in Seq(U)
      /\ \A r \in Seq(T), c \in T : Coded(code, Append(r, c)) = Coded(code, r) \o code[c]
  BY CodedFacts
<1>1. <<>> \in G
  <2>1. <<>> \in Seq(T) /\ s \o <<>> = s
    BY EmptySeq, ConcatEmptySeq
  <2>2. Coded(code, s) \o <<>> = Coded(code, s)
    BY <1>0, ConcatEmptySeq
  <2>3. QED
    BY <1>0, <2>1, <2>2
<1>2. ASSUME NEW t \in Seq(T), NEW c \in T, t \in G
      PROVE  Append(t, c) \in G
  <2>1. s \o Append(t, c) = Append(s \o t, c) /\ s \o t \in Seq(T) /\ Append(t, c) \in Seq(T)
    BY ConcatAppend, ConcatProperties, AppendProperties
  <2>2. Coded(code, s \o Append(t, c)) = (Coded(code, s) \o Coded(code, t)) \o code[c]
    BY <1>0, <1>2, <2>1
  <2>3. code[c] \in Seq(U)
    BY DEF IsCode
  <2>4. Coded(code, s) \in Seq(U) /\ Coded(code, t) \in Seq(U)
    BY <1>0, <1>2
  <2>5. (Coded(code, s) \o Coded(code, t)) \o code[c] = Coded(code, s) \o (Coded(code, t) \o code[c])
    <3>1. PICK x, y, z \in Seq(U) :
             x = Coded(code, s) /\ y = Coded(code, t) /\ z = code[c]
      BY <2>3, <2>4
    <3>2. Groups(x, y, z)
      BY Grouped
    <3>3. (x \o y) \o z = x \o (y \o z)
      BY <3>2 DEF Groups
    <3>4. QED
      BY <3>1, <3>3
  <2>6. QED
    BY <1>0, <1>2, <2>1, <2>2, <2>5
<1>3. \A t \in Seq(T) : t \in G
  <2> HIDE DEF G
  <2>1. QED
    BY <1>1, <1>2, SeqInduction
<1>4. QED
  BY <1>3

\* A code that escapes what needs it reads back.
LEMMA ReadsBack ==
    ASSUME NEW T, NEW U, NEW meaning, Closed(meaning, U), NEW code, IsCode(code, T, U),
           \A c \in T : \/ c \in U /\ c # Backslash /\ code[c] = <<c>>
                       \/ /\ Backslash \in U
                          /\ \E d \in U : code[c] = <<Backslash, d>> /\ Meant(meaning, d) = c
    PROVE  \A s \in Seq(T) : Unescape(Coded(code, s), meaning) = s
<1> DEFINE G == {s \in Seq(T) : EscapeState(meaning, Coded(code, s)) = [escape |-> FALSE, text |-> s]}
<1>0. /\ Coded(code, <<>>) = <<>>
      /\ \A r \in Seq(T) : Coded(code, r) \in Seq(U)
      /\ \A r \in Seq(T), c \in T : Coded(code, Append(r, c)) = Coded(code, r) \o code[c]
  BY CodedFacts
<1>k. /\ EscapeState(meaning, <<>>) = Clear
      /\ \A p \in Seq(U) : EscapeState(meaning, p) \in Reading(U)
      /\ \A p \in Seq(U), c \in U :
            EscapeState(meaning, Append(p, c)) = EscapeRead(meaning, EscapeState(meaning, p), c)
  BY EscapeFacts
<1>1. <<>> \in G
  BY <1>0, <1>k, EmptySeq DEF Clear
<1>2. ASSUME NEW s \in Seq(T), NEW c \in T, s \in G
      PROVE  Append(s, c) \in G
  <2> DEFINE t == Coded(code, s)
  <2>1. /\ t \in Seq(U) /\ Append(s, c) \in Seq(T)
        /\ EscapeState(meaning, t) = [escape |-> FALSE, text |-> s]
        /\ Coded(code, Append(s, c)) = t \o code[c]
    BY <1>0, <1>2, AppendProperties
  <2> HIDE DEF t
  <2>2. CASE c \in U /\ c # Backslash /\ code[c] = <<c>>
    <3>1. t \o code[c] = Append(t, c)
      BY <2>1, <2>2, AppendIsConcat
    <3>2. EscapeState(meaning, Append(t, c)) = EscapeRead(meaning, [escape |-> FALSE, text |-> s], c)
      BY <1>k, <2>1, <2>2
    <3>3. EscapeRead(meaning, [escape |-> FALSE, text |-> s], c) = [escape |-> FALSE, text |-> Append(s, c)]
      BY <2>2 DEF EscapeRead
    <3>4. QED
      BY <2>1, <3>1, <3>2, <3>3
  <2>3. ASSUME NEW d \in U, code[c] = <<Backslash, d>>, Meant(meaning, d) = c, Backslash \in U
        PROVE  Append(s, c) \in G
    <3>1. /\ t \o code[c] = Append(Append(t, Backslash), d)
          /\ Append(t, Backslash) \in Seq(U)
      <4>1. <<Backslash, d>> = Append(<<Backslash>>, d) /\ <<Backslash>> \in Seq(U)
        BY <2>3
      <4>2. t \o Append(<<Backslash>>, d) = Append(t \o <<Backslash>>, d)
        BY <2>1, <4>1, ConcatAppend
      <4>3. t \o <<Backslash>> = Append(t, Backslash) /\ Append(t, Backslash) \in Seq(U)
        BY <2>1, <2>3, AppendIsConcat, AppendProperties
      <4>4. QED
        BY <2>3, <4>1, <4>2, <4>3
    <3>2. EscapeState(meaning, Append(t, Backslash))
            = EscapeRead(meaning, [escape |-> FALSE, text |-> s], Backslash)
      BY <1>k, <2>1, <2>3
    <3>3. EscapeRead(meaning, [escape |-> FALSE, text |-> s], Backslash) = [escape |-> TRUE, text |-> s]
      BY DEF EscapeRead
    <3>4. EscapeState(meaning, Append(Append(t, Backslash), d))
            = EscapeRead(meaning, [escape |-> TRUE, text |-> s], d)
      BY <1>k, <2>3, <3>1, <3>2, <3>3
    <3>5. EscapeRead(meaning, [escape |-> TRUE, text |-> s], d) = [escape |-> FALSE, text |-> Append(s, c)]
      BY <2>3 DEF EscapeRead
    <3>6. QED
      BY <2>1, <3>1, <3>4, <3>5
  <2>4. QED
    BY <2>2, <2>3
<1>3. \A s \in Seq(T) : s \in G
  <2> HIDE DEF G
  <2>1. QED
    BY <1>1, <1>2, SeqInduction
<1>4. QED
  BY <1>3 DEF Unescape

LEMMA OneAndTwo ==
    ASSUME NEW T, NEW c \in T, NEW d \in T
    PROVE  /\ <<c>> \in Seq(T) /\ <<c>> = Append(<<>>, c)
           /\ <<c, d>> \in Seq(T) /\ <<c, d>> = Append(<<c>>, d) /\ <<c, d>> = <<c>> \o <<d>>
<1>1. /\ <<c>> \in Seq(T) /\ <<c>> = Append(<<>>, c)
      /\ <<c, d>> \in Seq(T) /\ <<c, d>> = Append(<<c>>, d)
  OBVIOUS
<1>2. QED
  BY <1>1, AppendIsConcat

LEMMA TwoAppended ==
    ASSUME NEW T, NEW c \in T, NEW d \in T, NEW e, e = <<>>
    PROVE  Append(Append(e, c), d) = <<c, d>>
<1>1. Append(e, c) = <<c>>
  BY OneAndTwo
<1>2. Append(<<c>>, d) = <<c, d>>
  BY OneAndTwo
<1>3. QED
  BY <1>1, <1>2

LEMMA CodedOne ==
    ASSUME NEW T, NEW U, NEW code, IsCode(code, T, U)
    PROVE  \A c \in T : Coded(code, <<c>>) = code[c]
<1> SUFFICES ASSUME NEW c \in T PROVE Coded(code, <<c>>) = code[c]
  OBVIOUS
<1>1. <<>> \in Seq(T) /\ <<c>> = Append(<<>>, c)
  BY OneAndTwo, EmptySeq
<1>2. /\ Coded(code, <<>>) = <<>>
      /\ \A s \in Seq(T), d \in T : Coded(code, Append(s, d)) = Coded(code, s) \o code[d]
  BY CodedFacts
<1>3. code[c] \in Seq(U)
  BY DEF IsCode
<1>4. QED
  BY <1>1, <1>2, <1>3, ConcatEmptySeq

-----------------------------------------------------------------------------
(* JSON. *)

SerdeCode(T) == [c \in T |-> IF c \in {Quote, Backslash} THEN <<Backslash, c>> ELSE <<c>>]
GoCode(T) == [c \in T |-> IF c = "<" THEN <<Backslash, "u003c">> ELSE <<c>>]
JsonCode(T) ==
    [c \in T |-> IF c \in {Quote, Backslash} THEN <<Backslash, c>>
                 ELSE IF c = "<" THEN <<Backslash, "u003c">>
                 ELSE <<c>>]

\* serde_json's escapes and escape_like_go's are those of one code.
LEMMA JsonCoded ==
    ASSUME NEW T
    PROVE  \A s \in Seq(T) : EscapeLikeGo(SerdeEscape(s)) = Coded(JsonCode(T), s)
<1> DEFINE U == T \cup {Backslash, "u003c"}
           serde == SerdeCode(T)
           go == GoCode(U)
           json == JsonCode(T)
           G == {s \in Seq(T) : Coded(go, Coded(serde, s)) = Coded(json, s)}
<1>1. IsCode(serde, T, U) /\ IsCode(go, U, U) /\ IsCode(json, T, U)
  <2>1. \A c, d \in U : <<c>> \in Seq(U) /\ <<c, d>> \in Seq(U)
    BY OneAndTwo
  <2>2. Backslash \in U /\ "u003c" \in U /\ \A c \in T : c \in U
    OBVIOUS
  <2> HIDE DEF U
  <2>3. QED
    BY <2>1, <2>2 DEF SerdeCode, GoCode, JsonCode, IsCode
<1>2. ASSUME NEW s \in Seq(T) PROVE SerdeEscape(s) = Coded(serde, s)
  <2>1. \A i \in 1..Len(s) : s[i] \in T
    BY ElementOfSeq
  <2>2. [i \in 1..Len(s) |-> serde[s[i]]] =
        [i \in 1..Len(s) |-> IF s[i] \in {Quote, Backslash} THEN <<Backslash, s[i]>> ELSE <<s[i]>>]
    BY <2>1 DEF SerdeCode
  <2> HIDE DEF serde
  <2>3. QED
    BY <2>2, Zenon DEF SerdeEscape, Rewrite, Coded
<1>3. ASSUME NEW s \in Seq(U) PROVE EscapeLikeGo(s) = Coded(go, s)
  <2>1. \A i \in 1..Len(s) : s[i] \in U
    BY ElementOfSeq
  <2>2. [i \in 1..Len(s) |-> go[s[i]]] =
        [i \in 1..Len(s) |-> IF s[i] = "<" THEN <<Backslash, "u003c">> ELSE <<s[i]>>]
    BY <2>1 DEF GoCode
  <2> HIDE DEF go
  <2>3. QED
    BY <2>2, Zenon DEF EscapeLikeGo, Rewrite, Coded
<1>4. ASSUME NEW c \in T PROVE Coded(go, serde[c]) = json[c]
  <2>1. \A d \in U : Coded(go, <<d>>) = go[d]
    <3> HIDE DEF go, U, serde, json
    <3>1. QED
      BY <1>1, CodedOne
  <2>2. CASE c \in {Quote, Backslash}
    <3>1. /\ <<Backslash>> \in Seq(U) /\ <<c>> \in Seq(U)
          /\ <<Backslash, c>> = <<Backslash>> \o <<c>>
          /\ serde[c] = <<Backslash, c>> /\ json[c] = <<Backslash, c>>
          /\ Backslash \in U /\ c \in U
      BY <2>2, OneAndTwo DEF SerdeCode, JsonCode
    <3>2. go[Backslash] = <<Backslash>> /\ go[c] = <<c>>
      BY <2>2, <3>1 DEF GoCode, Quote, Backslash
    <3>3. Coded(go, <<Backslash>> \o <<c>>) = Coded(go, <<Backslash>>) \o Coded(go, <<c>>)
      <4> HIDE DEF go, U, serde, json
      <4>1. \A a, b \in Seq(U) : Coded(go, a \o b) = Coded(go, a) \o Coded(go, b)
        BY <1>1, CodedConcat
      <4>2. QED
        BY <3>1, <4>1
    <3> HIDE DEF go, U, serde, json
    <3>4. QED
      BY <2>1, <3>1, <3>2, <3>3
  <2>3. CASE c \notin {Quote, Backslash}
    <3>1. serde[c] = <<c>> /\ c \in U /\ json[c] = go[c]
      BY <2>3 DEF SerdeCode, JsonCode, GoCode
    <3> HIDE DEF go, U, serde, json
    <3>2. QED
      BY <2>1, <3>1
  <2>4. QED
    BY <2>2, <2>3
<1>5. /\ Coded(serde, <<>>) = <<>> /\ Coded(go, <<>>) = <<>> /\ Coded(json, <<>>) = <<>>
      /\ \A s \in Seq(T) : Coded(serde, s) \in Seq(U)
      /\ \A s \in Seq(T), c \in T : /\ Coded(serde, Append(s, c)) = Coded(serde, s) \o serde[c]
                                   /\ Coded(json, Append(s, c)) = Coded(json, s) \o json[c]
  <2> HIDE DEF go, U, serde, json
  <2>1. QED
    BY <1>1, CodedFacts, SMTT(30)
<1>6. <<>> \in G
  <2> HIDE DEF go, U, serde, json
  <2>1. QED
    BY <1>5, EmptySeq
<1>7. ASSUME NEW s \in Seq(T), NEW c \in T, s \in G
      PROVE  Append(s, c) \in G
  <2> HIDE DEF go, U, serde, json
  <2>0. serde[c] \in Seq(U)
    BY <1>1 DEF IsCode
  <2>1. serde[c] \in Seq(U) /\ Coded(serde, s) \in Seq(U) /\ Append(s, c) \in Seq(T)
    BY <1>5, <2>0, AppendProperties
  <2>2. Coded(go, Coded(serde, s) \o serde[c]) = Coded(go, Coded(serde, s)) \o Coded(go, serde[c])
    <3>1. \A a, b \in Seq(U) : Coded(go, a \o b) = Coded(go, a) \o Coded(go, b)
      BY <1>1, CodedConcat
    <3>2. QED
      BY <2>1, <3>1
  <2>3. QED
    BY <1>4, <1>5, <1>7, <2>1, <2>2
<1>8. \A s \in Seq(T) : s \in G
  <2> HIDE DEF G
  <2>1. QED
    BY <1>6, <1>7, SeqInduction
<1>9. QED
  <2> HIDE DEF go, U, serde, json
  <2>1. QED
    BY <1>2, <1>3, <1>5, <1>8 DEF json

\* A name in JSON reads back as it was, without a character of markup.
LEMMA JsonReads ==
    ASSUME NEW T
    PROVE  \A s \in Seq(T) : /\ ReadJson(EscapeLikeGo(SerdeEscape(s))) = s
                            /\ ~Contains(EscapeLikeGo(SerdeEscape(s)), "<")
<1> DEFINE json == JsonCode(T)
           U == (T \cup {Backslash, "u003c", "<"})
           V == (T \cup {Backslash, "u003c"}) \ {"<"}
<1>1. IsCode(json, T, U) /\ IsCode(json, T, V)
  <2>1. \A W : \A c, d \in W : <<c>> \in Seq(W) /\ <<c, d>> \in Seq(W)
    BY OneAndTwo
  <2>2. ASSUME NEW c \in T
        PROVE  \/ json[c] = <<Backslash, c>> /\ c # "<"
               \/ json[c] = <<Backslash, "u003c">>
               \/ json[c] = <<c>> /\ c # "<"
    <3>1. CASE c \in {Quote, Backslash}
      BY <3>1 DEF JsonCode, Quote, Backslash
    <3>2. CASE c = "<"
      BY <3>2 DEF JsonCode, Quote, Backslash
    <3>3. CASE c \notin {Quote, Backslash, "<"}
      BY <3>3 DEF JsonCode
    <3>4. QED
      BY <3>1, <3>2, <3>3
  <2>3. /\ Backslash \in U /\ "u003c" \in U /\ \A c \in T : c \in U
        /\ Backslash \in V /\ "u003c" \in V /\ \A c \in T : c # "<" => c \in V
    BY DEF Backslash
  <2>4. json = [c \in T |-> json[c]]
    BY DEF JsonCode
  <2> HIDE DEF U, V, json
  <2>5. \A c \in T : json[c] \in Seq(U) /\ json[c] \in Seq(V)
    BY <2>1, <2>2, <2>3
  <2>6. QED
    BY <2>4, <2>5 DEF IsCode
<1>2. Closed(JsonMeaning, U)
  BY DEF Meant, JsonMeaning, Closed
<1>3. ASSUME NEW c \in T
      PROVE  \/ c \in U /\ c # Backslash /\ json[c] = <<c>>
             \/ /\ Backslash \in U
                /\ \E d \in U : json[c] = <<Backslash, d>> /\ Meant(JsonMeaning, d) = c
  <2>1. CASE c \in {Quote, Backslash}
    <3>1. json[c] = <<Backslash, c>> /\ c \in U
      BY <2>1 DEF JsonCode
    <3>2. Meant(JsonMeaning, c) = c
      BY <2>1 DEF Meant, JsonMeaning, Quote, Backslash
    <3>3. QED
      BY <3>1, <3>2
  <2>2. CASE c = "<"
    <3>1. json[c] = <<Backslash, "u003c">> /\ "u003c" \in U
      BY <2>2 DEF JsonCode, Quote, Backslash
    <3>2. Meant(JsonMeaning, "u003c") = "<"
      BY DEF Meant, JsonMeaning
    <3>3. QED
      BY <2>2, <3>1, <3>2
  <2>3. CASE c \notin {Quote, Backslash, "<"}
    BY <2>3 DEF JsonCode
  <2>4. QED
    BY <2>1, <2>2, <2>3
<1>4. \A s \in Seq(T) : Unescape(Coded(json, s), JsonMeaning) = s
  <2> HIDE DEF json, U
  <2>1. QED
    BY <1>1, <1>2, <1>3, ReadsBack
<1>5. \A s \in Seq(T) : Coded(json, s) \in Seq(V)
  <2> HIDE DEF json, V
  <2>1. QED
    BY <1>1, CodedFacts
<1>6. \A t \in Seq(V) : ~Contains(t, "<")
  BY ElementOfSeq DEF Contains
<1> HIDE DEF V
<1>7. QED
  BY <1>4, <1>5, <1>6, JsonCoded DEF ReadJson

-----------------------------------------------------------------------------
(* Quoting. *)

QuoteCode == [c \in Bytes |-> Escaped(c)]
QuoteOut == Bytes \cup {"x01", "U000e0001"}

LEMMA QuoteCoded ==
    /\ IsCode(QuoteCode, Bytes, QuoteOut)
    /\ Closed(QuoteMeaning, QuoteOut)
    /\ \A s \in Seq(Bytes) : Rewrite(s, Escaped) = Coded(QuoteCode, s)
    /\ \A c \in Bytes :
          \/ c # Backslash /\ c # Quote /\ QuoteCode[c] = <<c>>
          \/ \E d \in QuoteOut : QuoteCode[c] = <<Backslash, d>> /\ Meant(QuoteMeaning, d) = c
<1>1. ASSUME NEW c \in Bytes
      PROVE  \/ c # Backslash /\ c # Quote /\ QuoteCode[c] = <<c>>
             \/ \E d \in QuoteOut : QuoteCode[c] = <<Backslash, d>> /\ Meant(QuoteMeaning, d) = c
  <2>0. QuoteCode[c] = Escaped(c)
    BY DEF QuoteCode
  <2>1. CASE c \in {Quote, Backslash}
    <3>1. Escaped(c) = <<Backslash, c>>
      BY <2>1 DEF Escaped, Quote, Backslash
    <3>2. Meant(QuoteMeaning, c) = c
      BY <2>1 DEF Meant, QuoteMeaning, Quote, Backslash
    <3>3. QED
      BY <2>0, <3>1, <3>2 DEF QuoteOut
  <2>2. ASSUME NEW d \in QuoteOut, Escaped(c) = <<Backslash, d>>, Meant(QuoteMeaning, d) = c
        PROVE  \E e \in QuoteOut : QuoteCode[c] = <<Backslash, e>> /\ Meant(QuoteMeaning, e) = c
    BY <2>0, <2>2
  <2>3. CASE c = "LF"
    <3>1. Escaped(c) = <<Backslash, "n">> /\ Meant(QuoteMeaning, "n") = c /\ "n" \in QuoteOut
      BY <2>3 DEF Escaped, Meant, QuoteMeaning, QuoteOut, Bytes, Quote, Backslash
    <3>2. QED
      BY <2>2, <3>1
  <2>4. CASE c = "U+0001"
    <3>1. Escaped(c) = <<Backslash, "x01">> /\ Meant(QuoteMeaning, "x01") = c /\ "x01" \in QuoteOut
      BY <2>4 DEF Escaped, Meant, QuoteMeaning, QuoteOut, Bytes, Quote, Backslash
    <3>2. QED
      BY <2>2, <3>1
  <2>5. CASE c = "U+0085"
    <3>1. Escaped(c) = <<Backslash, "u0085">> /\ Meant(QuoteMeaning, "u0085") = c /\ "u0085" \in QuoteOut
      BY <2>5 DEF Escaped, Meant, QuoteMeaning, QuoteOut, Bytes, Quote, Backslash
    <3>2. QED
      BY <2>2, <3>1
  <2>6. CASE c = "U+E0001"
    <3>1. /\ Escaped(c) = <<Backslash, "U000e0001">> /\ Meant(QuoteMeaning, "U000e0001") = c
          /\ "U000e0001" \in QuoteOut
      BY <2>6 DEF Escaped, Meant, QuoteMeaning, QuoteOut, Bytes, Quote, Backslash
    <3>2. QED
      BY <2>2, <3>1
  <2>7. CASE c = "byte 85"
    <3>1. Escaped(c) = <<Backslash, "x85">> /\ Meant(QuoteMeaning, "x85") = c /\ "x85" \in QuoteOut
      BY <2>7 DEF Escaped, Meant, QuoteMeaning, QuoteOut, Bytes, Quote, Backslash
    <3>2. QED
      BY <2>2, <3>1
  <2>8. CASE c \notin {Quote, Backslash, "LF", "U+0001", "U+0085", "U+E0001", "byte 85"}
    <3>1. Escaped(c) = <<c>> /\ c # Backslash /\ c # Quote
      BY <2>8 DEF Escaped
    <3>2. QED
      BY <2>0, <3>1
  <2>9. QED
    BY <2>1, <2>3, <2>4, <2>5, <2>6, <2>7, <2>8
<1>2. IsCode(QuoteCode, Bytes, QuoteOut)
  <2>1. Backslash \in QuoteOut /\ \A c \in Bytes : c \in QuoteOut
    BY DEF QuoteOut, Bytes
  <2>2. \A c, d \in QuoteOut : <<c>> \in Seq(QuoteOut) /\ <<c, d>> \in Seq(QuoteOut)
    BY OneAndTwo
  <2>3. \A c \in Bytes : QuoteCode[c] \in Seq(QuoteOut)
    BY <1>1, <2>1, <2>2
  <2>4. QuoteCode = [c \in Bytes |-> QuoteCode[c]]
    BY DEF QuoteCode
  <2>5. QED
    BY <2>3, <2>4 DEF IsCode
<1>3. Closed(QuoteMeaning, QuoteOut)
  <2>1. \A c \in DOMAIN QuoteMeaning : QuoteMeaning[c] \in QuoteOut
    <3>1. DOMAIN QuoteMeaning = {"n", "x01", "u0085", "x85", "U000e0001"}
      BY DEF QuoteMeaning
    <3>2. /\ QuoteMeaning["n"] = "LF" /\ QuoteMeaning["x01"] = "U+0001"
          /\ QuoteMeaning["u0085"] = "U+0085" /\ QuoteMeaning["x85"] = "byte 85"
          /\ QuoteMeaning["U000e0001"] = "U+E0001"
      BY DEF QuoteMeaning
    <3>3. {"LF", "U+0001", "U+0085", "byte 85", "U+E0001"} \subseteq QuoteOut
      BY DEF QuoteOut, Bytes
    <3>4. QED
      BY <3>1, <3>2, <3>3
  <2>2. QED
    BY <2>1 DEF Closed, Meant
<1>4. ASSUME NEW s \in Seq(Bytes) PROVE Rewrite(s, Escaped) = Coded(QuoteCode, s)
  <2>1. \A i \in 1..Len(s) : s[i] \in Bytes
    BY ElementOfSeq
  <2>2. [i \in 1..Len(s) |-> QuoteCode[s[i]]] = [i \in 1..Len(s) |-> Escaped(s[i])]
    BY <2>1 DEF QuoteCode
  <2>3. QED
    BY <2>2, Zenon DEF Rewrite, Coded
<1>5. QED
  BY <1>1, <1>2, <1>3, <1>4

\* In a code that escapes a quote, no quote comes without a backslash.
LEMMA NoBareQuote ==
    ASSUME NEW T, NEW U, NEW code, IsCode(code, T, U),
           \A c \in T : \/ c # Quote /\ code[c] = <<c>>
                       \/ \E d \in U : code[c] = <<Backslash, d>>
    PROVE  \A s \in Seq(T) : \A i \in 1..Len(Coded(code, s)) :
              Coded(code, s)[i] = Quote => i > 1 /\ Coded(code, s)[i - 1] = Backslash
<1> DEFINE Guarded(t) == \A i \in 1..Len(t) : t[i] = Quote => i > 1 /\ t[i - 1] = Backslash
           G == {s \in Seq(T) : Guarded(Coded(code, s))}
<1>0. /\ Coded(code, <<>>) = <<>>
      /\ \A r \in Seq(T) : Coded(code, r) \in Seq(U)
      /\ \A r \in Seq(T), c \in T : Coded(code, Append(r, c)) = Coded(code, r) \o code[c]
  BY CodedFacts
<1>1. <<>> \in G
  <2>1. Guarded(<<>>)
    OBVIOUS
  <2> HIDE DEF Guarded
  <2>2. QED
    BY <1>0, <2>1, EmptySeq
<1>2. ASSUME NEW s \in Seq(T), NEW c \in T, s \in G
      PROVE  Append(s, c) \in G
  <2>1. Append(s, c) \in Seq(T) /\ Coded(code, Append(s, c)) = Coded(code, s) \o code[c]
    BY <1>0, AppendProperties
  <2>2. PICK t \in Seq(U) : t = Coded(code, s) /\ Guarded(t)
    BY <1>0, <1>2
  <2>3. PICK x \in Seq(U) : x = code[c]
    BY DEF IsCode
  <2>4. /\ t \o x \in Seq(U) /\ Len(t \o x) = Len(t) + Len(x) /\ Len(t) \in Nat /\ Len(x) \in Nat
        /\ \A i \in 1..Len(t) + Len(x) : (t \o x)[i] = IF i <= Len(t) THEN t[i] ELSE x[i - Len(t)]
    BY ConcatProperties, LenProperties
  <2>5. \/ x = <<c>> /\ c # Quote
        \/ \E d \in U : x = <<Backslash, d>>
    BY <2>3
  <2>6. \/ Len(x) = 1 /\ x[1] # Quote
        \/ Len(x) = 2 /\ x[1] = Backslash
    BY <2>5
  <2>7. ASSUME NEW i \in 1..Len(t \o x), (t \o x)[i] = Quote
        PROVE  i > 1 /\ (t \o x)[i - 1] = Backslash
    <3>1. CASE i <= Len(t)
      <4>1. i \in 1..Len(t) /\ t[i] = Quote
        BY <2>4, <2>7, <3>1
      <4>2. i > 1 /\ t[i - 1] = Backslash
        BY <2>2, <4>1
      <4>3. i - 1 \in 1..Len(t) + Len(x) /\ i - 1 <= Len(t)
        BY <2>4, <3>1, <4>2
      <4>4. QED
        BY <2>4, <4>2, <4>3
    <3>2. CASE i > Len(t)
      <4>1. x[i - Len(t)] = Quote /\ (i - Len(t)) \in 1..Len(x)
        BY <2>4, <2>7, <3>2
      <4>2. Quote # Backslash
        BY DEF Quote, Backslash
      <4>3. Len(x) = 2 /\ i = Len(t) + 2 /\ x[1] = Backslash
        BY <2>4, <2>6, <4>1, <4>2
      <4>4. i - 1 = Len(t) + 1 /\ i - 1 \in 1..Len(t) + Len(x) /\ ~(i - 1 <= Len(t)) /\ i > 1
        BY <2>4, <4>3
      <4>5. (t \o x)[i - 1] = x[(i - 1) - Len(t)] /\ (i - 1) - Len(t) = 1
        BY <2>4, <4>4
      <4>6. QED
        BY <4>3, <4>4, <4>5
    <3>3. QED
      BY <2>4, <3>1, <3>2
  <2>8. QED
    BY <2>1, <2>2, <2>3, <2>7
<1>3. \A s \in Seq(T) : s \in G
  <2> HIDE DEF G
  <2>1. QED
    BY <1>1, <1>2, SeqInduction
<1>4. QED
  BY <1>3

\* What lies between two characters.
LEMMA Between ==
    ASSUME NEW U, NEW q \in U, NEW m \in Seq(U)
    PROVE  LET text == <<q>> \o m \o <<q>> IN
           /\ Len(text) = Len(m) + 2
           /\ SubSeq(text, 2, Len(text) - 1) = m
           /\ \A i \in 2..(Len(text) - 1) : i - 1 \in 1..Len(m) /\ text[i] = m[i - 1]
           /\ text[1] = q
<1> DEFINE text == <<q>> \o m \o <<q>>
<1>0. Len(m) \in Nat
  BY LenProperties
<1>1. PICK o \in Seq(U) : o = <<q>> /\ Len(o) = 1 /\ o[1] = q
  <2>1. <<q>> \in Seq(U) /\ Len(<<q>>) = 1 /\ <<q>>[1] = q
    OBVIOUS
  <2>2. QED
    BY <2>1, Zenon
<1>2. /\ o \o m \in Seq(U) /\ Len(o \o m) = 1 + Len(m)
      /\ \A i \in 1..1 + Len(m) : (o \o m)[i] = IF i <= 1 THEN o[i] ELSE m[i - 1]
  BY <1>1, ConcatProperties
<1>3. /\ (o \o m) \o o \in Seq(U) /\ Len((o \o m) \o o) = Len(m) + 2
      /\ \A i \in 1..1 + Len(m) : ((o \o m) \o o)[i] = (o \o m)[i]
  <2>1. /\ (o \o m) \o o \in Seq(U) /\ Len((o \o m) \o o) = Len(o \o m) + Len(o)
        /\ \A i \in 1..Len(o \o m) + Len(o) : ((o \o m) \o o)[i] =
              IF i <= Len(o \o m) THEN (o \o m)[i] ELSE o[i - Len(o \o m)]
    BY <1>2, ConcatProperties
  <2>2. QED
    BY <1>0, <1>1, <1>2, <2>1
<1>4. text = (o \o m) \o o
  BY <1>1
<1> HIDE DEF text
<1>5. text \in Seq(U) /\ Len(text) = Len(m) + 2
  BY <1>3, <1>4
<1>6. \A i \in 2..(Len(text) - 1) : i - 1 \in 1..Len(m) /\ text[i] = m[i - 1]
  <2>1. ASSUME NEW i \in 2..(Len(text) - 1)
        PROVE  i - 1 \in 1..Len(m) /\ i \in 1..1 + Len(m) /\ ~(i <= 1)
    BY <1>0, <1>5
  <2>2. QED
    BY <1>2, <1>3, <1>4, <2>1
<1>7. text[1] = q
  <2>1. 1 \in 1..1 + Len(m)
    BY <1>0
  <2>2. QED
    BY <1>1, <1>2, <1>3, <1>4, <2>1
<1>8. SubSeq(text, 2, Len(text) - 1) = m
  <2>1. /\ SubSeq(text, 2, Len(m) + 1) \in Seq(U) /\ Len(SubSeq(text, 2, Len(m) + 1)) = Len(m)
        /\ \A i \in 1..Len(m) : SubSeq(text, 2, Len(m) + 1)[i] = text[2 + i - 1]
    <3>1. \A i \in 2..(Len(m) + 1) : text[i] \in U
      <4>1. \A i \in 2..(Len(m) + 1) : i \in 1..Len(text)
        BY <1>0, <1>5
      <4>2. QED
        BY <1>5, <4>1, ElementOfSeq
    <3>2. 2 \in Int /\ Len(m) + 1 \in Int
      BY <1>0
    <3>3. /\ SubSeq(text, 2, Len(m) + 1) \in Seq(U)
          /\ Len(SubSeq(text, 2, Len(m) + 1)) = IF 2 <= Len(m) + 1 THEN Len(m) + 1 - 2 + 1 ELSE 0
          /\ \A i \in 1..(Len(m) + 1 - 2 + 1) : SubSeq(text, 2, Len(m) + 1)[i] = text[2 + i - 1]
      BY <3>1, <3>2, SubSeqProperties
    <3>4. Len(m) + 1 - 2 + 1 = Len(m) /\ (IF 2 <= Len(m) + 1 THEN Len(m) + 1 - 2 + 1 ELSE 0) = Len(m)
      BY <1>0
    <3>5. QED
      BY <3>3, <3>4
  <2>2. ASSUME NEW i \in 1..Len(m) PROVE text[2 + i - 1] = m[i]
    <3>1. 2 + i - 1 \in 2..(Len(text) - 1) /\ (2 + i - 1) - 1 = i
      BY <1>0, <1>5
    <3>2. QED
      BY <1>6, <3>1
  <2>3. Len(text) - 1 = Len(m) + 1
    BY <1>0, <1>5
  <2>4. SubSeq(text, 2, Len(m) + 1) = m
    BY <2>1, <2>2, SeqEqual
  <2>5. QED
    BY <2>3, <2>4
<1>9. QED
  BY <1>5, <1>6, <1>7, <1>8 DEF text

\* What QuoteRecoverable says of a call, of any bytes.
LEMMA Quoted ==
    ASSUME NEW s \in Seq(Bytes)
    PROVE  /\ Unquote(GoQuote(s)) = s
           /\ \A i \in 2..(Len(GoQuote(s)) - 1) :
                 GoQuote(s)[i] = Quote => GoQuote(s)[i - 1] = Backslash
<1>1. PICK m \in Seq(QuoteOut) : m = Coded(QuoteCode, s)
  BY QuoteCoded, CodedFacts
<1>2. GoQuote(s) = <<Quote>> \o m \o <<Quote>>
  BY <1>1, QuoteCoded DEF GoQuote
<1>3. Quote \in QuoteOut /\ Backslash \in QuoteOut /\ \A c \in Bytes : c \in QuoteOut
  BY DEF QuoteOut, Bytes
<1>4. /\ Len(GoQuote(s)) = Len(m) + 2
      /\ SubSeq(GoQuote(s), 2, Len(GoQuote(s)) - 1) = m
      /\ \A i \in 2..(Len(GoQuote(s)) - 1) : i - 1 \in 1..Len(m) /\ GoQuote(s)[i] = m[i - 1]
  BY <1>2, <1>3, Between
<1>5. Unescape(m, QuoteMeaning) = s
  <2>1. \A t \in Seq(Bytes) : Unescape(Coded(QuoteCode, t), QuoteMeaning) = t
    BY <1>3, QuoteCoded, ReadsBack
  <2>2. QED
    BY <1>1, <2>1
<1>6. \A i \in 1..Len(m) : m[i] = Quote => i > 1 /\ m[i - 1] = Backslash
  <2>1. \A t \in Seq(Bytes) : \A i \in 1..Len(Coded(QuoteCode, t)) :
           Coded(QuoteCode, t)[i] = Quote => i > 1 /\ Coded(QuoteCode, t)[i - 1] = Backslash
    BY QuoteCoded, NoBareQuote
  <2>2. QED
    BY <1>1, <2>1
<1>7. ASSUME NEW i \in 2..(Len(GoQuote(s)) - 1), GoQuote(s)[i] = Quote
      PROVE  GoQuote(s)[i - 1] = Backslash
  <2>0. Len(m) \in Nat
    BY LenProperties
  <2>1. i - 1 \in 1..Len(m) /\ m[i - 1] = Quote
    BY <1>4, <1>7
  <2>2. i - 1 > 1 /\ m[(i - 1) - 1] = Backslash
    BY <1>6, <2>1
  <2>3. i - 1 \in 2..(Len(GoQuote(s)) - 1)
    BY <1>4, <2>0, <2>2
  <2>4. QED
    BY <1>4, <2>2, <2>3
<1>8. QED
  BY <1>4, <1>5, <1>7 DEF Unquote

-----------------------------------------------------------------------------
(* Reading CSV. *)

At(mode, cell, row, rows) == [mode |-> mode, cell |-> cell, row |-> row, rows |-> rows]

Modes == {"start", "plain", "quoted", "closing"}
Tables(T) == [mode : Modes, cell : Seq(T), row : Seq(Seq(T)), rows : Seq(Seq(Seq(T)))]

\* The characters a file of CSV is written with.
Charset(T, delimiter) ==
    /\ {Quote, "'", "LF", delimiter} \subseteq T
    /\ delimiter \notin LineEnds \cup {Quote}

LEMMA CsvSteps ==
    ASSUME NEW T, NEW delimiter, Charset(T, delimiter),
           NEW x \in Seq(T), NEW w, NEW R
    PROVE  /\ \A c \in T \ {Quote} :
                 CsvRead(delimiter, At("quoted", x, w, R), c) = At("quoted", Append(x, c), w, R)
           /\ CsvRead(delimiter, At("quoted", x, w, R), Quote) = At("closing", x, w, R)
           /\ CsvRead(delimiter, At("closing", x, w, R), Quote) = At("quoted", Append(x, Quote), w, R)
           /\ CsvRead(delimiter, At("start", x, w, R), Quote) = At("quoted", x, w, R)
           /\ \A m \in {"start", "plain", "closing"} :
                 /\ CsvRead(delimiter, At(m, x, w, R), delimiter)
                        = At("start", <<>>, Append(w, x), R)
                 /\ CsvRead(delimiter, At(m, x, w, R), "LF")
                        = At("start", <<>>, <<>>, Append(R, Append(w, x)))
           /\ \A m \in {"start", "plain"} : \A c \in T \ {Quote, delimiter, "LF"} :
                 CsvRead(delimiter, At(m, x, w, R), c) = At("plain", Append(x, c), w, R)
<1>1. \A c \in T \ {Quote} :
         CsvRead(delimiter, At("quoted", x, w, R), c) = At("quoted", Append(x, c), w, R)
  BY DEF At, CsvRead
<1>2. /\ CsvRead(delimiter, At("quoted", x, w, R), Quote) = At("closing", x, w, R)
      /\ CsvRead(delimiter, At("closing", x, w, R), Quote) = At("quoted", Append(x, Quote), w, R)
      /\ CsvRead(delimiter, At("start", x, w, R), Quote) = At("quoted", x, w, R)
  BY DEF At, CsvRead
<1>3. ASSUME NEW m \in {"start", "plain", "closing"}
      PROVE  /\ CsvRead(delimiter, At(m, x, w, R), delimiter)
                    = At("start", <<>>, Append(w, x), R)
             /\ CsvRead(delimiter, At(m, x, w, R), "LF")
                    = At("start", <<>>, <<>>, Append(R, Append(w, x)))
  <2>1. delimiter # Quote /\ delimiter # "LF" /\ Quote # "LF" /\ m # "quoted"
    BY <1>3 DEF Charset, LineEnds, Quote
  <2>2. CsvRead(delimiter, At(m, x, w, R), delimiter) = At("start", <<>>, Append(w, x), R)
    BY <2>1 DEF At, CsvRead
  <2>3. CsvRead(delimiter, At(m, x, w, R), "LF")
                    = At("start", <<>>, <<>>, Append(R, Append(w, x)))
    BY <2>1 DEF At, CsvRead, Blank
  <2>4. QED
    BY <2>2, <2>3
<1>4. ASSUME NEW m \in {"start", "plain"}, NEW c \in T \ {Quote, delimiter, "LF"}
      PROVE  CsvRead(delimiter, At(m, x, w, R), c) = At("plain", Append(x, c), w, R)
  <2>1. m # "quoted" /\ c # Quote /\ c # delimiter /\ c # "LF"
    BY <1>4
  <2>2. CsvRead(delimiter, At(m, x, w, R), c)
            = [At(m, x, w, R) EXCEPT !.mode = "plain", !.cell = Append(@, c)]
    BY <2>1 DEF At, CsvRead
  <2>3. QED
    BY <2>2 DEF At
<1>5. QED
  BY <1>1, <1>2, <1>3, <1>4

LEMMA CsvTyped ==
    ASSUME NEW T, NEW delimiter, Charset(T, delimiter)
    PROVE  /\ Blank \in Tables(T)
           /\ \A r \in Tables(T), c \in T : CsvRead(delimiter, r, c) \in Tables(T)
<1>1. Blank \in Tables(T)
  BY DEF Blank, Tables, Modes
<1>2. ASSUME NEW r \in Tables(T), NEW c \in T PROVE CsvRead(delimiter, r, c) \in Tables(T)
  <2>1. /\ r.mode \in Modes /\ r.cell \in Seq(T) /\ r.row \in Seq(Seq(T))
        /\ r.rows \in Seq(Seq(Seq(T)))
    BY DEF Tables
  <2>2. /\ Append(r.cell, c) \in Seq(T) /\ Append(r.row, r.cell) \in Seq(Seq(T))
        /\ Append(r.rows, Append(r.row, r.cell)) \in Seq(Seq(Seq(T)))
    <3>1. \A S : \A s \in Seq(S), e \in S : Append(s, e) \in Seq(S)
      BY AppendProperties
    <3>2. Append(r.cell, c) \in Seq(T) /\ Append(r.row, r.cell) \in Seq(Seq(T))
      BY <2>1, <3>1
    <3>3. QED
      BY <2>1, <3>1, <3>2
  <2>3. /\ [r EXCEPT !.mode = "closing"] \in Tables(T)
        /\ [r EXCEPT !.cell = Append(@, c)] \in Tables(T)
        /\ [r EXCEPT !.mode = "plain", !.cell = Append(@, c)] \in Tables(T)
        /\ [r EXCEPT !.mode = "start", !.cell = <<>>, !.row = Append(@, r.cell)] \in Tables(T)
        /\ [r EXCEPT !.mode = "quoted",
                     !.cell = IF r.mode = "closing" THEN Append(@, c) ELSE @] \in Tables(T)
    <3>1. \A m \in Modes, x \in Seq(T) : [r EXCEPT !.mode = m, !.cell = x] \in Tables(T)
      BY DEF Tables
    <3>2. \A m \in Modes, x \in Seq(T), w \in Seq(Seq(T)) :
             [r EXCEPT !.mode = m, !.cell = x, !.row = w] \in Tables(T)
      BY DEF Tables
    <3>3. /\ [r EXCEPT !.mode = "closing"] \in Tables(T)
          /\ [r EXCEPT !.cell = Append(@, c)] \in Tables(T)
      BY <2>2 DEF Tables, Modes
    <3>4. /\ "plain" \in Modes /\ "start" \in Modes /\ "quoted" \in Modes
          /\ <<>> \in Seq(T)
      BY DEF Modes
    <3>5. [r EXCEPT !.mode = "plain", !.cell = Append(@, c)] \in Tables(T)
      BY <2>2, <3>1, <3>4
    <3>6. [r EXCEPT !.mode = "start", !.cell = <<>>, !.row = Append(@, r.cell)] \in Tables(T)
      BY <2>2, <3>2, <3>4
    <3>7. [r EXCEPT !.mode = "quoted",
                    !.cell = IF r.mode = "closing" THEN Append(@, c) ELSE @] \in Tables(T)
      <4>1. (IF r.mode = "closing" THEN Append(r.cell, c) ELSE r.cell) \in Seq(T)
        BY <2>1, <2>2
      <4>2. QED
        BY <3>1, <3>4, <4>1
    <3>8. QED
      BY <3>3, <3>5, <3>6, <3>7
  <2>4. [Blank EXCEPT !.rows = Append(r.rows, Append(r.row, r.cell))] \in Tables(T)
    BY <1>1, <2>2 DEF Tables
  <2>5. QED
    BY <2>3, <2>4 DEF CsvRead
<1>3. QED
  BY <1>1, <1>2

\* A reader of CSV, one character after the other.
LEMMA CsvFacts ==
    ASSUME NEW T, NEW delimiter, Charset(T, delimiter)
    PROVE  /\ CsvState(delimiter, <<>>) = Blank
           /\ \A p \in Seq(T) : CsvState(delimiter, p) \in Tables(T)
           /\ \A p \in Seq(T), c \in T :
                 CsvState(delimiter, Append(p, c)) = CsvRead(delimiter, CsvState(delimiter, p), c)
<1> DEFINE S == Tables(T)
           F == [r \in S |-> [c \in T |-> CsvRead(delimiter, r, c)]]
           R == [p \in Seq(T) |-> Runs(LAMBDA r, c : CsvRead(delimiter, r, c), Blank, p)]
           X == [p \in Seq(T) |-> R[p][Len(p)]]
<1>1. F \in [S -> [T -> S]] /\ \A r \in S, c \in T : F[r][c] = CsvRead(delimiter, r, c)
  BY CsvTyped
<1>2. ASSUME NEW p \in Seq(T), NEW f \in [0..Len(p) -> S], IsRun(f, Blank, F, p)
      PROVE  R[p] = [i \in 0..Len(p) |-> IF i = 0 THEN Blank ELSE CsvRead(delimiter, R[p][i - 1], p[i])]
  <2>1. f = [i \in 0..Len(p) |-> IF i = 0 THEN Blank ELSE CsvRead(delimiter, f[i - 1], p[i])]
    <3> HIDE DEF F, R, S
    <3>1. /\ f = [i \in 0..Len(p) |-> f[i]]
          /\ \A i \in 0..Len(p) : /\ f[i] = IF i = 0 THEN Blank ELSE F[f[i - 1]][p[i]]
                                  /\ i # 0 => f[i - 1] \in S /\ p[i] \in T
      BY <1>2, RunIs
    <3>2. \A i \in 0..Len(p) : f[i] = IF i = 0 THEN Blank ELSE CsvRead(delimiter, f[i - 1], p[i])
      BY <1>1, <3>1
    <3>3. QED
      BY <3>1, <3>2, Zenon
  <2>2. R[p] = Runs(LAMBDA r, c : CsvRead(delimiter, r, c), Blank, p)
    OBVIOUS
  <2> HIDE DEF F, R, S
  <2>3. QED
    BY <2>1, <2>2, Zenon DEF Runs
<1>3. Folds(X, Blank, F, S, T)
  <2> HIDE DEF F, R
  <2>1. GivesRuns(R, Blank, F, S, T)
    <3>1. ASSUME NEW p \in Seq(T), NEW f \in [0..Len(p) -> S], IsRun(f, Blank, F, p),
                 NEW i \in 0..Len(p), i # 0 => R[p][i - 1] \in S /\ p[i] \in T
          PROVE  R[p][i] = IF i = 0 THEN Blank ELSE F[R[p][i - 1]][p[i]]
      <4>1. R[p][i] = IF i = 0 THEN Blank ELSE CsvRead(delimiter, R[p][i - 1], p[i])
        <5>1. R[p] = [j \in 0..Len(p) |-> IF j = 0 THEN Blank ELSE CsvRead(delimiter, R[p][j - 1], p[j])]
          BY <1>2, <3>1
        <5>2. QED
          BY <3>1, <5>1
      <4>2. QED
        BY <1>1, <3>1, <4>1
    <3>2. QED
      BY <1>1, <3>1, CsvTyped, Zenon DEF GivesRuns
  <2>2. QED
    BY <2>1, FoldFacts
<1>4. \A p \in Seq(T) : CsvState(delimiter, p) = X[p]
  BY Zenon DEF Fold, CsvState
<1>5. QED
  <2> HIDE DEF F, X
  <2>1. CsvState(delimiter, <<>>) = Blank
    BY <1>3, <1>4, EmptySeq DEF Folds
  <2>2. ASSUME NEW p \in Seq(T), NEW c \in T
        PROVE  CsvState(delimiter, Append(p, c)) = CsvRead(delimiter, CsvState(delimiter, p), c)
    <3>1. Append(p, c) \in Seq(T)
      BY AppendProperties
    <3>2. X[p] \in S /\ X[Append(p, c)] = F[X[p]][c]
      BY <1>3 DEF Folds
    <3> HIDE DEF S
    <3>3. QED
      BY <1>1, <1>4, <3>1, <3>2
  <2>3. \A p \in Seq(T) : CsvState(delimiter, p) \in Tables(T)
    BY <1>3, <1>4 DEF Folds
  <2>4. QED
    BY <2>1, <2>2, <2>3

\* A cell as it is, at the start of a cell.
LEMMA PlainRead ==
    ASSUME NEW T, NEW delimiter, Charset(T, delimiter), NEW p \in Seq(T),
           NEW w, NEW R,
           CsvState(delimiter, p) = At("start", <<>>, w, R)
    PROVE  \A x \in Seq(T \ {Quote, delimiter, "LF"}) :
              \E m \in {"start", "plain"} : CsvState(delimiter, p \o x) = At(m, x, w, R)
<1> DEFINE P == T \ {Quote, delimiter, "LF"}
           G == {x \in Seq(P) : \E m \in {"start", "plain"} :
                                   CsvState(delimiter, p \o x) = At(m, x, w, R)}
<1>1. <<>> \in G
  <2>1. p \o <<>> = p /\ <<>> \in Seq(P)
    BY ConcatEmptySeq, EmptySeq
  <2>2. QED
    BY <2>1
<1>2. ASSUME NEW x \in Seq(P), NEW c \in P, x \in G
      PROVE  Append(x, c) \in G
  <2>1. x \in Seq(T) /\ c \in T /\ Append(x, c) \in Seq(P)
    BY AppendProperties
  <2>2. p \o Append(x, c) = Append(p \o x, c) /\ p \o x \in Seq(T)
    BY <2>1, ConcatAppend, ConcatProperties
  <2>3. PICK m \in {"start", "plain"} : CsvState(delimiter, p \o x) = At(m, x, w, R)
    BY <1>2
  <2>4. CsvState(delimiter, Append(p \o x, c)) = CsvRead(delimiter, At(m, x, w, R), c)
    <3>1. \A q \in Seq(T), e \in T :
             CsvState(delimiter, Append(q, e)) = CsvRead(delimiter, CsvState(delimiter, q), e)
      BY CsvFacts
    <3>2. QED
      BY <2>1, <2>2, <2>3, <3>1
  <2>5. CsvRead(delimiter, At(m, x, w, R), c) = At("plain", Append(x, c), w, R)
    <3>1. \A n \in {"start", "plain"} : \A e \in T \ {Quote, delimiter, "LF"} :
             CsvRead(delimiter, At(n, x, w, R), e) = At("plain", Append(x, e), w, R)
      BY <2>1, CsvSteps
    <3>2. QED
      BY <3>1
  <2>6. CsvState(delimiter, p \o Append(x, c)) = At("plain", Append(x, c), w, R)
    BY <2>2, <2>4, <2>5
  <2>7. QED
    BY <2>1, <2>6
<1>3. \A x \in Seq(P) : x \in G
  <2> HIDE DEF G, P
  <2>1. QED
    BY <1>1, <1>2, SeqInduction
<1>4. QED
  BY <1>3

Doubled(T) == [c \in T |-> IF c = Quote THEN <<c, c>> ELSE <<c>>]

LEMMA Regrouped ==
    ASSUME NEW T, NEW a \in Seq(T), NEW b \in Seq(T), NEW c \in Seq(T)
    PROVE  (a \o b) \o c = a \o (b \o c)
BY ConcatAssociative

LEMMA Within ==
    ASSUME NEW T, NEW P, NEW x \in Seq(T), \A i \in 1..Len(x) : x[i] \in P
    PROVE  x \in Seq(P)
<1>1. PICK n \in Nat : n = Len(x) /\ x = [i \in 1..n |-> x[i]]
  BY LenProperties
<1>2. x \in [1..n -> P]
  BY <1>1
<1>3. QED
  BY <1>1, <1>2

LEMMA DoubledCode ==
    ASSUME NEW T
    PROVE  /\ IsCode(Doubled(T), T, T)
           /\ \A s \in Seq(T) : Rewrite(s, LAMBDA c : IF c = Quote THEN <<c, c>> ELSE <<c>>)
                                    = Coded(Doubled(T), s)
<1>1. IsCode(Doubled(T), T, T)
  <2>1. \A c \in T : <<c>> \in Seq(T) /\ <<c, c>> \in Seq(T)
    BY OneAndTwo
  <2>2. QED
    BY <2>1 DEF IsCode, Doubled
<1>2. ASSUME NEW s \in Seq(T)
      PROVE  Rewrite(s, LAMBDA c : IF c = Quote THEN <<c, c>> ELSE <<c>>) = Coded(Doubled(T), s)
  <2>1. \A i \in 1..Len(s) : s[i] \in T
    BY ElementOfSeq
  <2>2. [i \in 1..Len(s) |-> Doubled(T)[s[i]]] =
        [i \in 1..Len(s) |-> IF s[i] = Quote THEN <<s[i], s[i]>> ELSE <<s[i]>>]
    BY <2>1 DEF Doubled
  <2>3. QED
    BY <2>2, Zenon DEF Rewrite, Coded
<1>3. QED
  BY <1>1, <1>2

\* A cell in quotes, its own doubled.
LEMMA QuotedRead ==
    ASSUME NEW T, NEW delimiter, Charset(T, delimiter), NEW p \in Seq(T),
           NEW w, NEW R,
           CsvState(delimiter, p) = At("start", <<>>, w, R)
    PROVE  \A x \in Seq(T) :
              CsvState(delimiter, Append(Append(p, Quote) \o Coded(Doubled(T), x), Quote))
                  = At("closing", x, w, R)
<1> DEFINE q == Append(p, Quote)
           text(x) == q \o Coded(Doubled(T), x)
           G == {x \in Seq(T) : CsvState(delimiter, text(x)) = At("quoted", x, w, R)}
<1>f. \A t \in Seq(T), e \in T :
         CsvState(delimiter, Append(t, e)) = CsvRead(delimiter, CsvState(delimiter, t), e)
  BY CsvFacts
<1>c. /\ Coded(Doubled(T), <<>>) = <<>>
      /\ \A s \in Seq(T) : Coded(Doubled(T), s) \in Seq(T)
      /\ \A s \in Seq(T), c \in T :
            Coded(Doubled(T), Append(s, c)) = Coded(Doubled(T), s) \o Doubled(T)[c]
  <2>1. IsCode(Doubled(T), T, T)
    BY DoubledCode
  <2>2. QED
    BY <2>1, CodedFacts
<1>q. Quote \in T /\ q \in Seq(T)
  BY AppendProperties DEF Charset
<1>1. <<>> \in G
  <2>1. <<>> \in Seq(T)
    BY EmptySeq
  <2>2. text(<<>>) = q
    BY <1>c, <1>q, ConcatEmptySeq
  <2>3. CsvState(delimiter, q) = CsvRead(delimiter, At("start", <<>>, w, R), Quote)
    BY <1>f, <1>q
  <2>4. CsvRead(delimiter, At("start", <<>>, w, R), Quote) = At("quoted", <<>>, w, R)
    <3>1. PICK e \in Seq(T) : e = <<>>
      BY <2>1
    <3>2. CsvRead(delimiter, At("start", e, w, R), Quote) = At("quoted", e, w, R)
      BY CsvSteps
    <3>3. QED
      BY <3>1, <3>2
  <2>5. QED
    BY <2>1, <2>2, <2>3, <2>4
<1>2. ASSUME NEW x \in Seq(T), NEW c \in T, x \in G
      PROVE  Append(x, c) \in G
  <2>1. Append(x, c) \in Seq(T)
    BY AppendProperties
  <2>2. PICK t \in Seq(T) : t = Coded(Doubled(T), x)
    BY <1>c
  <2>3. q \o t \in Seq(T) /\ CsvState(delimiter, q \o t) = At("quoted", x, w, R)
    <3>1. q \o t \in Seq(T)
      BY <1>q, ConcatProperties
    <3>2. QED
      BY <1>2, <2>2, <3>1
  <2> HIDE DEF q
  <2>4. CASE c # Quote
    <3>1. text(Append(x, c)) = q \o Append(t, c)
      <4>1. Doubled(T)[c] = <<c>> /\ t \o <<c>> = Append(t, c)
        BY <2>4, AppendIsConcat DEF Doubled
      <4>2. QED
        BY <1>c, <2>2, <4>1
    <3>2. q \o Append(t, c) = Append(q \o t, c)
      BY <1>q, ConcatAppend
    <3>3. CsvState(delimiter, Append(q \o t, c)) = CsvRead(delimiter, At("quoted", x, w, R), c)
      BY <1>f, <2>3
    <3>4. CsvRead(delimiter, At("quoted", x, w, R), c) = At("quoted", Append(x, c), w, R)
      <4>1. \A e \in T \ {Quote} :
               CsvRead(delimiter, At("quoted", x, w, R), e) = At("quoted", Append(x, e), w, R)
        BY CsvSteps
      <4>2. QED
        BY <2>4, <4>1
    <3>5. QED
      BY <2>1, <3>1, <3>2, <3>3, <3>4
  <2>5. CASE c = Quote
    <3>1. text(Append(x, c)) = q \o Append(Append(t, Quote), Quote) /\ Append(t, Quote) \in Seq(T)
      <4>1. Doubled(T)[c] = <<Quote, Quote>>
        BY <2>5 DEF Doubled
      <4>2. /\ <<Quote>> \in Seq(T) /\ <<Quote, Quote>> = Append(<<Quote>>, Quote)
        BY <1>q, OneAndTwo
      <4>3. t \o Append(<<Quote>>, Quote) = Append(t \o <<Quote>>, Quote)
        BY <1>q, <4>2, ConcatAppend
      <4>4. t \o <<Quote>> = Append(t, Quote) /\ Append(t, Quote) \in Seq(T)
        BY <1>q, AppendIsConcat, AppendProperties
      <4>5. Coded(Doubled(T), Append(x, c)) = t \o Append(<<Quote>>, Quote)
        BY <1>c, <2>2, <4>1, <4>2
      <4>6. t \o Append(<<Quote>>, Quote) = Append(Append(t, Quote), Quote)
        BY <4>3, <4>4
      <4>7. QED
        BY <4>4, <4>5, <4>6
    <3>2. q \o Append(Append(t, Quote), Quote) = Append(Append(q \o t, Quote), Quote)
      <4>1. q \o Append(Append(t, Quote), Quote) = Append(q \o Append(t, Quote), Quote)
        BY <1>q, <3>1, ConcatAppend
      <4>2. q \o Append(t, Quote) = Append(q \o t, Quote)
        BY <1>q, ConcatAppend
      <4>3. QED
        BY <4>1, <4>2
    <3>3. /\ Append(q \o t, Quote) \in Seq(T)
          /\ CsvState(delimiter, Append(q \o t, Quote))
                = CsvRead(delimiter, At("quoted", x, w, R), Quote)
      BY <1>f, <1>q, <2>3, AppendProperties
    <3>4. /\ CsvRead(delimiter, At("quoted", x, w, R), Quote) = At("closing", x, w, R)
          /\ CsvRead(delimiter, At("closing", x, w, R), Quote)
                = At("quoted", Append(x, Quote), w, R)
      BY CsvSteps
    <3>5. CsvState(delimiter, Append(Append(q \o t, Quote), Quote))
              = CsvRead(delimiter, At("closing", x, w, R), Quote)
      BY <1>f, <1>q, <3>3, <3>4
    <3>6. QED
      BY <2>1, <2>5, <3>1, <3>2, <3>4, <3>5
  <2>6. QED
    BY <2>4, <2>5
<1>3. \A x \in Seq(T) : x \in G
  <2> HIDE DEF G
  <2>1. QED
    BY <1>1, <1>2, SeqInduction
<1>4. ASSUME NEW x \in Seq(T)
      PROVE  CsvState(delimiter, Append(text(x), Quote)) = At("closing", x, w, R)
  <2>1. CsvState(delimiter, text(x)) = At("quoted", x, w, R)
    BY <1>3
  <2>2. text(x) \in Seq(T)
    <3>1. PICK t \in Seq(T) : t = Coded(Doubled(T), x)
      BY <1>c
    <3>2. q \o t \in Seq(T)
      BY <1>q, ConcatProperties
    <3>3. QED
      BY <3>1, <3>2
  <2>3. CsvRead(delimiter, At("quoted", x, w, R), Quote) = At("closing", x, w, R)
    BY CsvSteps
  <2> HIDE DEF text
  <2>4. QED
    BY <1>f, <1>q, <2>1, <2>2, <2>3
<1>5. QED
  BY <1>4

\* A cell as it is written reads back, and brings no character of its own but
\* quotes.
LEMMA WrittenRead ==
    ASSUME NEW T, NEW delimiter, Charset(T, delimiter), NEW p \in Seq(T),
           NEW w, NEW R,
           CsvState(delimiter, p) = At("start", <<>>, w, R),
           NEW x \in Seq(T)
    PROVE  \E m \in {"start", "plain", "closing"} :
              CsvState(delimiter, p \o Written(x, delimiter)) = At(m, x, w, R)
<1>1. CASE \E i \in 1..Len(x) : x[i] \in {delimiter, Quote} \cup LineEnds
  <2>1. Written(x, delimiter) = (<<Quote>> \o Coded(Doubled(T), x)) \o <<Quote>>
    <3>1. Rewrite(x, LAMBDA c : IF c = Quote THEN <<c, c>> ELSE <<c>>) = Coded(Doubled(T), x)
      BY DoubledCode
    <3>2. QED
      BY <1>1, <3>1 DEF Written
  <2>2. PICK t \in Seq(T) : t = Coded(Doubled(T), x)
    BY DoubledCode, CodedFacts
  <2>3. Quote \in T
    BY DEF Charset
  <2>4. p \o ((<<Quote>> \o t) \o <<Quote>>) = Append(Append(p, Quote) \o t, Quote)
    <3>1. PICK o \in Seq(T) : o = <<Quote>>
      BY <2>3, OneAndTwo
    <3>3. o \o t \in Seq(T) /\ p \o o \in Seq(T) /\ (p \o o) \o t \in Seq(T)
      BY ConcatProperties
    <3>4. p \o ((o \o t) \o o) = ((p \o o) \o t) \o o
      <4>1. p \o ((o \o t) \o o) = (p \o (o \o t)) \o o
        BY <3>3, Regrouped, SMTT(30)
      <4>2. p \o (o \o t) = (p \o o) \o t
        BY Regrouped, SMTT(30)
      <4>3. QED
        BY <4>1, <4>2
    <3>5. \A a \in Seq(T) : Append(a, Quote) = a \o o
      BY <2>3, <3>1, AppendIsConcat
    <3>6. QED
      BY <3>1, <3>3, <3>4, <3>5
  <2>5. CsvState(delimiter, Append(Append(p, Quote) \o t, Quote)) = At("closing", x, w, R)
    <3>1. \A y \in Seq(T) :
             CsvState(delimiter, Append(Append(p, Quote) \o Coded(Doubled(T), y), Quote))
                 = At("closing", y, w, R)
      BY QuotedRead
    <3>2. QED
      BY <2>2, <3>1
  <2>6. QED
    BY <2>1, <2>2, <2>4, <2>5
<1>2. CASE ~ \E i \in 1..Len(x) : x[i] \in {delimiter, Quote} \cup LineEnds
  <2>1. Written(x, delimiter) = x
    BY <1>2 DEF Written
  <2>2. x \in Seq(T \ {Quote, delimiter, "LF"})
    <3>1. \A i \in 1..Len(x) : x[i] \in T \ {Quote, delimiter, "LF"}
      BY <1>2, ElementOfSeq DEF LineEnds
    <3>2. QED
      BY <3>1, Within
  <2>3. QED
    BY <2>1, <2>2, PlainRead
<1>3. QED
  BY <1>1, <1>2

-----------------------------------------------------------------------------
(* Writing CSV. *)

LEMMA FlattenTwo ==
    ASSUME NEW V, NEW u \in Seq(V), NEW v \in Seq(V)
    PROVE  FlattenSeq(<<u>>) = u /\ FlattenSeq(<<u, v>>) = u \o v
<1>1. PICK S : S = Seq(V)
  OBVIOUS
<1>2. /\ <<u>> \in Seq(S) /\ <<u>> = Append(<<>>, u)
      /\ <<u, v>> \in Seq(S) /\ <<u, v>> = Append(<<u>>, v) /\ <<>> \in Seq(S)
  BY <1>1, OneAndTwo, EmptySeq
<1>3. /\ FlattenSeq(<<>>) = <<>>
      /\ \A s \in Seq(S), t \in S : FlattenSeq(Append(s, t)) = FlattenSeq(s) \o t
  BY <1>1, Flattened
<1>4. FlattenSeq(<<u>>) = u
  <2>1. <<>> \o u = u
    BY ConcatEmptySeq
  <2>2. QED
    BY <1>1, <1>2, <1>3, <2>1
<1>5. FlattenSeq(<<u, v>>) = u \o v
  BY <1>1, <1>2, <1>3, <1>4
<1>6. QED
  BY <1>4, <1>5

Sane(T) == T \ Hostile

SaneCode(T) == [c \in T |-> IF c \in Hostile THEN <<>> ELSE <<c>>]

LEMMA Sanitized ==
    ASSUME NEW T
    PROVE  \A s \in Seq(T) : Sanitize(s) \in Seq(Sane(T))
<1>1. PICK V : V = T \ Hostile /\ V = Sane(T)
  BY DEF Sane
<1>2. IsCode(SaneCode(T), T, V)
  <2>1. /\ \A c \in V : <<c>> \in Seq(V)
        /\ <<>> \in Seq(V)
    BY OneAndTwo, EmptySeq
  <2>2. \A c \in T : (IF c \in Hostile THEN <<>> ELSE <<c>>) \in Seq(V)
    BY <1>1, <2>1
  <2>3. QED
    BY <2>2 DEF IsCode, SaneCode
<1>3. ASSUME NEW s \in Seq(T) PROVE Sanitize(s) = Coded(SaneCode(T), s)
  <2>1. \A i \in 1..Len(s) : s[i] \in T
    BY ElementOfSeq
  <2>2. [i \in 1..Len(s) |-> SaneCode(T)[s[i]]] =
        [i \in 1..Len(s) |-> IF s[i] \in Hostile THEN <<>> ELSE <<s[i]>>]
    BY <2>1 DEF SaneCode
  <2>3. QED
    BY <2>2, Zenon DEF Sanitize, Rewrite, Coded
<1>4. \A s \in Seq(T) : Coded(SaneCode(T), s) \in Seq(V)
  BY <1>2, CodedFacts
<1>5. QED
  BY <1>1, <1>3, <1>4

Tame(text) == text # <<>> => text[1] \notin Triggers

\* A text in a cell: nothing hostile in it, nothing a spreadsheet evaluates.
LEMMA CellText ==
    ASSUME NEW T, NEW delimiter, Charset(T, delimiter)
    PROVE  \A s \in Seq(T) : CsvText(s) \in Seq(Sane(T)) /\ Tame(CsvText(s))
<1> SUFFICES ASSUME NEW s \in Seq(T)
             PROVE  /\ CsvText(s) \in Seq(Sane(T))
                    /\ CsvText(s) # <<>> => CsvText(s)[1] \notin Triggers
  BY DEF Tame
<1>1. PICK V : V = T \ Hostile /\ V = Sane(T)
  BY DEF Sane
<1>2. PICK t \in Seq(V) : t = Sanitize(s)
  BY <1>1, Sanitized
<1>3. CsvText(s) = IF t # <<>> /\ t[1] \in Triggers THEN <<"'">> \o t ELSE t
  BY <1>2 DEF CsvText, Defused
<1>4. "'" \in V /\ "'" \notin Triggers
  BY <1>1 DEF Hostile, Triggers, Charset
<1>5. PICK o \in Seq(V) : o = <<"'">> /\ Len(o) = 1 /\ o[1] = "'"
  <2>1. <<"'">> \in Seq(V) /\ Len(<<"'">>) = 1 /\ <<"'">>[1] = "'"
    BY <1>4
  <2>2. QED
    BY <2>1, Zenon
<1>6. o \o t \in Seq(V) /\ (o \o t)[1] = "'"
  <2>1. /\ o \o t \in Seq(V) /\ Len(t) \in Nat
        /\ \A i \in 1..Len(o) + Len(t) : (o \o t)[i] = IF i <= Len(o) THEN o[i] ELSE t[i - Len(o)]
    BY ConcatProperties, LenProperties
  <2>2. 1 \in 1..Len(o) + Len(t) /\ 1 <= Len(o)
    BY <1>5, <2>1
  <2>3. QED
    BY <1>5, <2>1, <2>2
<1>7. QED
  BY <1>1, <1>3, <1>4, <1>5, <1>6

LEMMA WrittenTyped ==
    ASSUME NEW V, Quote \in V, NEW delimiter
    PROVE  \A x \in Seq(V) : Written(x, delimiter) \in Seq(V)
<1> SUFFICES ASSUME NEW x \in Seq(V) PROVE Written(x, delimiter) \in Seq(V)
  OBVIOUS
<1>1. Rewrite(x, LAMBDA c : IF c = Quote THEN <<c, c>> ELSE <<c>>) = Coded(Doubled(V), x)
  BY DoubledCode
<1>2. PICK t \in Seq(V) : t = Coded(Doubled(V), x)
  BY DoubledCode, CodedFacts
<1>3. PICK o \in Seq(V) : o = <<Quote>>
  BY OneAndTwo
<1>4. (o \o t) \o o \in Seq(V)
  BY ConcatProperties
<1>5. QED
  BY <1>1, <1>2, <1>3, <1>4 DEF Written

\* A report's row, but for its line end.
Line(a, b, delimiter) ==
    Append(Written(CsvText(a), delimiter), delimiter) \o Written(CsvText(b), delimiter)

LEMMA Pair ==
    ASSUME NEW f, f = [i \in 1..2 |-> f[i]], NEW u, f[1] = u, NEW v, f[2] = v
    PROVE  f = <<u, v>>
OBVIOUS

LEMMA RecordIs ==
    ASSUME NEW T, NEW delimiter, Charset(T, delimiter), NEW a \in Seq(T), NEW b \in Seq(T)
    PROVE  /\ Line(a, b, delimiter) \in Seq((Sane(T)) \cup {delimiter})
           /\ Line(a, b, delimiter) # <<>>
           /\ Record(<<a, b>>, delimiter) = Append(Line(a, b, delimiter), "LF")
<1>1. PICK V : V = (Sane(T)) \cup {delimiter}
  OBVIOUS
<1>2. /\ "'" \in T /\ Quote \in Sane(T) /\ delimiter \in V /\ delimiter \in T
      /\ "LF" \in T /\ Sane(T) \subseteq V /\ V \subseteq T
  BY <1>1 DEF Charset, Hostile, Quote, Sane
<1>3. PICK A \in Seq(V) : A = Written(CsvText(a), delimiter)
  <2>1. Written(CsvText(a), delimiter) \in Seq(Sane(T))
    <3>1. CsvText(a) \in Seq(Sane(T))
      BY CellText
    <3>2. QED
      BY <1>2, <3>1, WrittenTyped
  <2>2. QED
    BY <1>2, <2>1
<1>4. PICK B \in Seq(V) : B = Written(CsvText(b), delimiter)
  <2>1. Written(CsvText(b), delimiter) \in Seq(Sane(T))
    <3>1. CsvText(b) \in Seq(Sane(T))
      BY CellText
    <3>2. QED
      BY <1>2, <3>1, WrittenTyped
  <2>2. QED
    BY <1>2, <2>1
<1>5. /\ Append(A, delimiter) \in Seq(V)
      /\ Append(A, delimiter) \o B \in Seq(V)
      /\ Len(Append(A, delimiter) \o B) = Len(A) + 1 + Len(B)
      /\ Len(A) \in Nat /\ Len(B) \in Nat
  <2>1. Append(A, delimiter) \in Seq(V) /\ Len(Append(A, delimiter)) = Len(A) + 1
    BY <1>2, AppendProperties
  <2>2. QED
    BY <2>1, ConcatProperties, LenProperties
<1>6. Line(a, b, delimiter) = Append(A, delimiter) \o B
  BY <1>3, <1>4 DEF Line
<1>7. Line(a, b, delimiter) # <<>>
  <2>1. Len(Append(A, delimiter) \o B) # 0 /\ Len(<<>>) = 0
    BY <1>5
  <2>2. QED
    BY <1>6, <2>1
<1>8. Record(<<a, b>>, delimiter) = Append(Line(a, b, delimiter), "LF")
  <2> DEFINE cells == [i \in 1..Len(<<a, b>>) |->
                          Written(CsvText(<<a, b>>[i]), delimiter)
                             \o <<IF i = Len(<<a, b>>) THEN "LF" ELSE delimiter>>]
  <2>1. Record(<<a, b>>, delimiter) = FlattenSeq(cells)
    BY Zenon DEF Record
  <2>2. cells = <<A \o <<delimiter>>, B \o <<"LF">>>>
    <3>1. Len(<<a, b>>) = 2 /\ <<a, b>>[1] = a /\ <<a, b>>[2] = b
      OBVIOUS
    <3>2. cells = [i \in 1..2 |-> Written(CsvText(<<a, b>>[i]), delimiter)
                                     \o <<IF i = 2 THEN "LF" ELSE delimiter>>]
      BY <3>1
    <3>3. cells[1] = A \o <<delimiter>>
      BY <1>3, <3>1, <3>2
    <3>4. cells[2] = B \o <<"LF">>
      BY <1>4, <3>1, <3>2
    <3>5. cells = [i \in 1..2 |-> cells[i]]
      BY <3>2
    <3> HIDE DEF cells
    <3>6. QED
      BY <3>3, <3>4, <3>5, Pair
  <2> HIDE DEF cells
  <2>3. A \in Seq(T) /\ B \in Seq(T)
    BY <1>2
  <2>4. PICK u \in Seq(T) : u = A \o <<delimiter>> /\ u = Append(A, delimiter)
    BY <1>2, <2>3, AppendIsConcat, AppendProperties
  <2>5. PICK v \in Seq(T) : v = B \o <<"LF">> /\ v = Append(B, "LF")
    BY <1>2, <2>3, AppendIsConcat, AppendProperties
  <2>6. Record(<<a, b>>, delimiter) = u \o v
    BY <2>1, <2>2, <2>4, <2>5, FlattenTwo
  <2>7. u \o Append(B, "LF") = Append(u \o B, "LF")
    BY <1>2, <2>3, ConcatAppend
  <2>8. QED
    BY <1>6, <2>4, <2>5, <2>6, <2>7
<1>9. QED
  BY <1>1, <1>5, <1>6, <1>7, <1>8

Splices(p, A, d, B, e) ==
    p \o Append(Append(A, d) \o B, e) = Append(Append(p \o A, d) \o B, e)

LEMMA Inserted ==
    ASSUME NEW T, NEW d \in T, NEW e \in T,
           NEW p \in Seq(T), NEW A \in Seq(T), NEW B \in Seq(T)
    PROVE  Splices(p, A, d, B, e)
<1>1. PICK u \in Seq(T) : u = Append(A, d)
  BY AppendProperties
<1>2. p \o u = Append(p \o A, d)
  BY <1>1, ConcatAppend
<1>3. p \o Append(u \o B, e) = Append(p \o (u \o B), e)
  <2>1. u \o B \in Seq(T)
    BY ConcatProperties
  <2>2. QED
    BY <2>1, ConcatAppend
<1>4. p \o (u \o B) = (p \o u) \o B
  BY Regrouped, SMTT(30)
<1>5. QED
  BY <1>1, <1>2, <1>3, <1>4 DEF Splices

\* A file read up to where a row starts.
Fresh(delimiter, p, R) == CsvState(delimiter, p) = At("start", <<>>, <<>>, R)

\* A row reads back as its two cells, after any rows before it.
LEMMA RecordRead ==
    ASSUME NEW T, NEW delimiter, Charset(T, delimiter), NEW a \in Seq(T), NEW b \in Seq(T),
           NEW p \in Seq(T), NEW R, Fresh(delimiter, p, R)
    PROVE  Fresh(delimiter, p \o Record(<<a, b>>, delimiter),
                 Append(R, <<CsvText(a), CsvText(b)>>))
<1>1. "'" \in T /\ Quote \in T /\ delimiter \in T /\ "LF" \in T
  BY DEF Charset
<1>2. PICK x \in Seq(T) : x = CsvText(a)
  <2>1. CsvText(a) \in Seq(Sane(T))
    BY CellText
  <2>2. QED
    BY <2>1 DEF Sane
<1>3. PICK y \in Seq(T) : y = CsvText(b)
  <2>1. CsvText(b) \in Seq(Sane(T))
    BY CellText
  <2>2. QED
    BY <2>1 DEF Sane
<1>4. PICK A \in Seq(T) : A = Written(x, delimiter)
  BY <1>1, WrittenTyped
<1>5. PICK B \in Seq(T) : B = Written(y, delimiter)
  BY <1>1, WrittenTyped
<1>f. \A t \in Seq(T), e \in T :
         CsvState(delimiter, Append(t, e)) = CsvRead(delimiter, CsvState(delimiter, t), e)
  BY CsvFacts
<1>s. \A w, Q : \A z \in Seq(T) : \A m \in {"start", "plain", "closing"} :
         /\ CsvRead(delimiter, At(m, z, w, Q), delimiter) = At("start", <<>>, Append(w, z), Q)
         /\ CsvRead(delimiter, At(m, z, w, Q), "LF")
                = At("start", <<>>, <<>>, Append(Q, Append(w, z)))
  BY CsvSteps
<1>e. PICK e \in Seq(T) : e = <<>>
  BY EmptySeq
<1>6. PICK m \in {"start", "plain", "closing"} :
         CsvState(delimiter, p \o A) = At(m, x, e, R)
  <2>1. CsvState(delimiter, p) = At("start", <<>>, e, R)
    BY <1>e DEF Fresh
  <2>2. QED
    BY <1>4, <2>1, WrittenRead
<1>7. PICK q \in Seq(T) : q = Append(p \o A, delimiter) /\ p \o A \in Seq(T)
  BY <1>1, ConcatProperties, AppendProperties
<1>8. CsvState(delimiter, q) = At("start", <<>>, Append(e, x), R)
  <2>1. CsvState(delimiter, q) = CsvRead(delimiter, At(m, x, e, R), delimiter)
    BY <1>1, <1>f, <1>6, <1>7
  <2>2. QED
    BY <1>s, <2>1
<1>9. PICK n \in {"start", "plain", "closing"} :
         CsvState(delimiter, q \o B) = At(n, y, Append(e, x), R)
  BY <1>5, <1>8, WrittenRead
<1>10. q \o B \in Seq(T) /\ CsvState(delimiter, Append(q \o B, "LF"))
          = At("start", <<>>, <<>>, Append(R, Append(Append(e, x), y)))
  <2>1. q \o B \in Seq(T)
    BY ConcatProperties
  <2>2. CsvState(delimiter, Append(q \o B, "LF"))
            = CsvRead(delimiter, At(n, y, Append(e, x), R), "LF")
    BY <1>1, <1>f, <1>9, <2>1
  <2>3. QED
    BY <1>s, <2>1, <2>2
<1>11. p \o Record(<<a, b>>, delimiter) = Append(q \o B, "LF")
  <2>1. Record(<<a, b>>, delimiter) = Append(Append(A, delimiter) \o B, "LF")
    <3>1. Record(<<a, b>>, delimiter) = Append(Line(a, b, delimiter), "LF")
      BY RecordIs
    <3>2. Line(a, b, delimiter) = Append(A, delimiter) \o B
      BY <1>2, <1>3, <1>4, <1>5, Zenon DEF Line
    <3>3. QED
      BY <3>1, <3>2, Zenon
  <2>2. Splices(p, A, delimiter, B, "LF")
    BY <1>1, Inserted
  <2>3. QED
    BY <1>7, <2>1, <2>2 DEF Splices
<1>12. Append(Append(e, x), y) = <<x, y>>
  BY <1>e, TwoAppended
<1>13. QED
  BY <1>2, <1>3, <1>10, <1>11, <1>12 DEF Fresh

LEMMA Trimmed ==
    ASSUME NEW T, "LF" \in T, NEW X \in Seq(T), X # <<>>, X[Len(X)] \notin LineEnds
    PROVE  TrimEnd(Append(X, "LF"), LineEnds) = X
<1> DEFINE text == Append(X, "LF")
           kept == {i \in 1..Len(text) : text[i] \notin LineEnds}
<1>1. /\ text \in Seq(T) /\ Len(text) = Len(X) + 1 /\ text[Len(X) + 1] = "LF"
      /\ \A i \in 1..Len(X) : text[i] = X[i]
  BY AppendProperties
<1>2. Len(X) \in Nat /\ Len(X) >= 1
  BY EmptySeq, LenProperties
<1> HIDE DEF text
<1>3. Len(X) \in kept
  <2>1. Len(X) \in 1..Len(X) /\ Len(X) \in 1..Len(text)
    BY <1>1, <1>2
  <2>2. QED
    BY <1>1, <2>1
<1>4. \A i \in kept : i \in Nat /\ Len(X) >= i
  <2>1. ASSUME NEW i \in kept PROVE i \in Nat /\ Len(X) >= i
    <3>1. i \in 1..Len(X) + 1 /\ text[i] \notin LineEnds
      BY <1>1
    <3>2. i # Len(X) + 1
      BY <1>1, <3>1 DEF LineEnds
    <3>3. QED
      BY <1>2, <3>1, <3>2
  <2>2. QED
    BY <2>1
<1>5. Max(kept) = Len(X)
  <2> HIDE DEF kept
  <2>1. Max(kept) \in kept /\ \A i \in kept : Max(kept) >= i
    BY <1>3, <1>4 DEF Max
  <2>2. Max(kept) \in Nat /\ Len(X) >= Max(kept) /\ Max(kept) >= Len(X)
    BY <1>3, <1>4, <2>1
  <2>3. QED
    BY <1>2, <2>2
<1>6. SubSeq(text, 1, Len(X)) = X
  <2>1. \A i \in 1..Len(X) : text[i] \in T
    BY <1>1, ElementOfSeq
  <2>2. 1 \in Int /\ Len(X) \in Int
    BY <1>2
  <2>3. /\ SubSeq(text, 1, Len(X)) \in Seq(T)
        /\ Len(SubSeq(text, 1, Len(X))) = IF 1 <= Len(X) THEN Len(X) - 1 + 1 ELSE 0
        /\ \A i \in 1..(Len(X) - 1 + 1) : SubSeq(text, 1, Len(X))[i] = text[1 + i - 1]
    BY <2>1, <2>2, SubSeqProperties
  <2>4. /\ Len(X) - 1 + 1 = Len(X) /\ (IF 1 <= Len(X) THEN Len(X) - 1 + 1 ELSE 0) = Len(X)
        /\ \A i \in 1..Len(X) : 1 + i - 1 = i
    BY <1>2
  <2>5. Len(SubSeq(text, 1, Len(X))) = Len(X)
    BY <2>3, <2>4
  <2>6. \A i \in 1..Len(X) : SubSeq(text, 1, Len(X))[i] = X[i]
    BY <1>1, <2>3, <2>4
  <2>7. QED
    BY <2>3, <2>5, <2>6, SeqEqual
<1>7. TrimEnd(text, LineEnds) = IF kept = {} THEN <<>> ELSE SubSeq(text, 1, Max(kept))
  BY Zenon DEF TrimEnd
<1>8. TrimEnd(text, LineEnds) = X
  <2> HIDE DEF kept
  <2>1. QED
    BY <1>3, <1>5, <1>6, <1>7
<1>9. QED
  BY <1>8 DEF text

\* A file that ends with a row keeps its end.
LEMMA EndsKept ==
    ASSUME NEW T, NEW delimiter, Charset(T, delimiter), NEW a \in Seq(T), NEW b \in Seq(T),
           NEW p \in Seq(T)
    PROVE  /\ p \o Record(<<a, b>>, delimiter) \in Seq(T)
           /\ Append(TrimEnd(p \o Record(<<a, b>>, delimiter), LineEnds), "LF")
                  = p \o Record(<<a, b>>, delimiter)
<1>1. PICK V : V = (T \ Hostile) \cup {delimiter}
  OBVIOUS
<1>2. "LF" \in T /\ V \subseteq T /\ V \cap LineEnds = {}
  BY <1>1 DEF Charset, Hostile, LineEnds
<1>3. PICK Y \in Seq(V) : Y # <<>> /\ Record(<<a, b>>, delimiter) = Append(Y, "LF")
  <2>1. V = Sane(T) \cup {delimiter}
    BY <1>1 DEF Sane
  <2>2. QED
    BY <2>1, RecordIs
<1>4. Y \in Seq(T)
  BY <1>2
<1>5. p \o Append(Y, "LF") = Append(p \o Y, "LF") /\ p \o Y \in Seq(T)
  BY <1>2, <1>4, ConcatAppend, ConcatProperties
<1>6. p \o Y # <<>> /\ (p \o Y)[Len(p \o Y)] \notin LineEnds
  <2>1. /\ Len(p \o Y) = Len(p) + Len(Y) /\ Len(p) \in Nat /\ Len(Y) \in Nat /\ Len(Y) >= 1
        /\ \A i \in 1..Len(p) + Len(Y) : (p \o Y)[i] =
              IF i <= Len(p) THEN p[i] ELSE Y[i - Len(p)]
    BY <1>3, <1>4, ConcatProperties, LenProperties, EmptySeq
  <2>2. /\ Len(p) + Len(Y) \in 1..Len(p) + Len(Y) /\ ~(Len(p) + Len(Y) <= Len(p))
        /\ (Len(p) + Len(Y)) - Len(p) = Len(Y) /\ Len(Y) \in 1..Len(Y)
    BY <2>1
  <2>3. (p \o Y)[Len(p \o Y)] = Y[Len(Y)]
    BY <2>1, <2>2
  <2>4. Y[Len(Y)] \in V
    BY <2>2, ElementOfSeq
  <2>5. Len(p \o Y) # 0
    BY <2>1
  <2>6. QED
    BY <1>2, <2>3, <2>4, <2>5, EmptySeq
<1>7. TrimEnd(Append(p \o Y, "LF"), LineEnds) = p \o Y
  BY <1>2, <1>5, <1>6, Trimmed
<1>8. Append(p \o Y, "LF") \in Seq(T)
  BY <1>2, <1>5, AppendProperties
<1>9. QED
  BY <1>3, <1>5, <1>7, <1>8

Grows(code, T) ==
    /\ Coded(code, <<>>) = <<>>
    /\ \A s \in Seq(T), c \in T : Coded(code, Append(s, c)) = Coded(code, s) \o code[c]

LEMMA CodeGrows ==
    ASSUME NEW T, NEW U, NEW code, IsCode(code, T, U)
    PROVE  Grows(code, T)
BY CodedFacts DEF Grows

Spreads(code, T) ==
    \A s, t \in Seq(T) : Coded(code, s \o t) = Coded(code, s) \o Coded(code, t)

LEMMA CodeSpreads ==
    ASSUME NEW T, NEW U, NEW code, IsCode(code, T, U)
    PROVE  Spreads(code, T)
BY CodedConcat DEF Spreads

SteerCode(T, delimiter) ==
    [c \in T |-> IF c \in Hostile \ {delimiter} THEN <<c>> ELSE <<>>]

\* Of a row, what steers a terminal is its line end.
LEMMA RecordSteers ==
    ASSUME NEW T, NEW delimiter, Charset(T, delimiter), NEW a \in Seq(T), NEW b \in Seq(T)
    PROVE  /\ IsCode(SteerCode(T, delimiter), T, T)
           /\ \A s \in Seq(T) : Steering(s, delimiter) = Coded(SteerCode(T, delimiter), s)
           /\ Coded(SteerCode(T, delimiter), Record(<<a, b>>, delimiter)) = <<"LF">>
<1>1. IsCode(SteerCode(T, delimiter), T, T)
  <2>1. \A c \in T : <<c>> \in Seq(T) /\ <<>> \in Seq(T)
    BY OneAndTwo, EmptySeq
  <2>2. QED
    BY <2>1 DEF IsCode, SteerCode
<1>2. ASSUME NEW s \in Seq(T)
      PROVE  Steering(s, delimiter) = Coded(SteerCode(T, delimiter), s)
  <2>1. \A i \in 1..Len(s) : s[i] \in T
    BY ElementOfSeq
  <2>2. [i \in 1..Len(s) |-> SteerCode(T, delimiter)[s[i]]] =
        [i \in 1..Len(s) |-> IF s[i] \in Hostile \ {delimiter} THEN <<s[i]>> ELSE <<>>]
    BY <2>1 DEF SteerCode
  <2>3. QED
    BY <2>2, Zenon DEF Steering, Rewrite, Coded
<1>3. PICK V : V = (T \ Hostile) \cup {delimiter}
  OBVIOUS
<1>4. /\ "LF" \in T /\ V \subseteq T /\ "LF" \in Hostile \ {delimiter}
      /\ V \cap (Hostile \ {delimiter}) = {}
  BY <1>3 DEF Charset, Hostile, LineEnds
<1>5. PICK Y \in Seq(V) : Record(<<a, b>>, delimiter) = Append(Y, "LF")
  <2>1. V = Sane(T) \cup {delimiter}
    BY <1>3 DEF Sane
  <2>2. QED
    BY <2>1, RecordIs
<1>6. PICK code : code = SteerCode(T, delimiter) /\ IsCode(code, T, T)
  BY <1>1
<1>7. /\ Coded(code, <<>>) = <<>>
      /\ \A s \in Seq(T), c \in T : Coded(code, Append(s, c)) = Coded(code, s) \o code[c]
  <2>1. Grows(code, T)
    BY <1>6, CodeGrows
  <2>2. QED
    BY <2>1 DEF Grows
<1>8. Coded(code, Y) = <<>>
  <2> DEFINE G == {y \in Seq(V) : Coded(code, y) = <<>>}
  <2>1. <<>> \in G
    BY <1>7, EmptySeq
  <2>2. ASSUME NEW y \in Seq(V), NEW c \in V, y \in G PROVE Append(y, c) \in G
    <3>1. y \in Seq(T) /\ c \in T /\ Append(y, c) \in Seq(V)
      BY <1>4, AppendProperties
    <3>2. code[c] = <<>>
      BY <1>4, <1>6, <3>1 DEF SteerCode
    <3>3. Coded(code, Append(y, c)) = <<>> \o <<>>
      BY <1>7, <2>2, <3>1, <3>2
    <3>4. <<>> \o <<>> = <<>>
      OBVIOUS
    <3>5. QED
      BY <3>1, <3>3, <3>4
  <2>3. \A y \in Seq(V) : y \in G
    <3> HIDE DEF G
    <3>1. QED
      BY <2>1, <2>2, SeqInduction
  <2>4. QED
    BY <2>3
<1>9. Coded(code, Append(Y, "LF")) = <<"LF">>
  <2>1. Y \in Seq(T)
    BY <1>4
  <2>2. code["LF"] = <<"LF">>
    BY <1>4, <1>6 DEF SteerCode
  <2>3. Coded(code, Append(Y, "LF")) = <<>> \o <<"LF">>
    BY <1>4, <1>7, <1>8, <2>1, <2>2
  <2>4. <<>> \o <<"LF">> = <<"LF">>
    OBVIOUS
  <2>5. QED
    BY <2>3, <2>4
<1>10. QED
  BY <1>1, <1>2, <1>5, <1>6, <1>9

LEMMA RowsWritten ==
    ASSUME NEW T, NEW delimiter, Charset(T, delimiter), NEW a \in Seq(T), NEW b \in Seq(T)
    PROVE  LET rec == Record(<<a, b>>, delimiter) IN
           /\ rec \in Seq(T)
           /\ CsvRows(<<<<a, b>>>>, delimiter) = rec
           /\ CsvRows(<<<<a, b>>, <<a, b>>>>, delimiter) = rec \o rec
<1>1. PICK row : row = <<a, b>>
  OBVIOUS
<1>2. PICK rec : rec = Record(row, delimiter)
  OBVIOUS
<1>3. \A p \in Seq(T) : /\ p \o rec \in Seq(T)
                       /\ Append(TrimEnd(p \o rec, LineEnds), "LF") = p \o rec
  BY <1>1, <1>2, EndsKept
<1>4. rec \in Seq(T)
  <2>1. Line(a, b, delimiter) \in Seq(Sane(T) \cup {delimiter})
    BY RecordIs
  <2>2. Sane(T) \cup {delimiter} \subseteq T /\ "LF" \in T
    BY DEF Sane, Charset
  <2>3. Append(Line(a, b, delimiter), "LF") \in Seq(T)
    BY <2>1, <2>2, AppendProperties
  <2>4. QED
    BY <1>1, <1>2, <2>3, RecordIs
<1>5. <<>> \o rec = rec /\ <<>> \in Seq(T)
  BY <1>4, ConcatEmptySeq, EmptySeq
<1>6. Rewrite(<<row>>, LAMBDA texts : Record(texts, delimiter)) = rec
  <2> DEFINE each == [i \in 1..Len(<<row>>) |-> Record(<<row>>[i], delimiter)]
  <2>1. Rewrite(<<row>>, LAMBDA texts : Record(texts, delimiter)) = FlattenSeq(each)
    BY Zenon DEF Rewrite
  <2>2. each = <<rec>>
    BY <1>2
  <2>3. FlattenSeq(<<rec>>) = rec
    BY <1>4, FlattenTwo
  <2>4. QED
    BY <2>1, <2>2, <2>3
<1>7. Rewrite(<<row, row>>, LAMBDA texts : Record(texts, delimiter)) = rec \o rec
  <2> DEFINE each == [i \in 1..Len(<<row, row>>) |-> Record(<<row, row>>[i], delimiter)]
  <2>1. Rewrite(<<row, row>>, LAMBDA texts : Record(texts, delimiter)) = FlattenSeq(each)
    BY Zenon DEF Rewrite
  <2>2. each = <<rec, rec>>
    BY <1>2
  <2>3. FlattenSeq(<<rec, rec>>) = rec \o rec
    BY <1>4, FlattenTwo
  <2>4. QED
    BY <2>1, <2>2, <2>3
<1>8. CsvRows(<<row>>, delimiter) = rec
  <2>1. CsvRows(<<row>>, delimiter) = Append(TrimEnd(rec, LineEnds), "LF")
    BY <1>6 DEF CsvRows
  <2>2. Append(TrimEnd(<<>> \o rec, LineEnds), "LF") = <<>> \o rec
    BY <1>3, <1>5
  <2>3. QED
    BY <1>5, <2>1, <2>2
<1>9. CsvRows(<<row, row>>, delimiter) = rec \o rec
  <2>1. CsvRows(<<row, row>>, delimiter) = Append(TrimEnd(rec \o rec, LineEnds), "LF")
    BY <1>7 DEF CsvRows
  <2>2. QED
    BY <1>3, <1>4, <2>1
<1>10. QED
  BY <1>1, <1>2, <1>4, <1>8, <1>9

\* What ReportsAreInert says of the rows, of any texts.
RowsInert(rows, text, cells, delimiter) ==
    /\ text = CsvRows(rows, delimiter)
    /\ ReadCsv(text, delimiter) = [i \in 1..Len(rows) |-> cells]
    /\ Steering(text, delimiter) = [i \in 1..Len(rows) |-> "LF"]

LEMMA OneRow ==
    ASSUME NEW T, NEW delimiter, Charset(T, delimiter), NEW a \in Seq(T), NEW b \in Seq(T)
    PROVE  RowsInert(<<<<a, b>>>>, Record(<<a, b>>, delimiter),
                     <<CsvText(a), CsvText(b)>>, delimiter)
<1>1. PICK rec : rec = Record(<<a, b>>, delimiter)
  OBVIOUS
<1>2. PICK cells : cells = <<CsvText(a), CsvText(b)>>
  OBVIOUS
<1>3. rec \in Seq(T) /\ CsvRows(<<<<a, b>>>>, delimiter) = rec
  BY <1>1, RowsWritten
<1>4. PICK e \in Seq(T) : e = <<>>
  BY EmptySeq
<1>5. Fresh(delimiter, e, e)
  BY <1>4, CsvFacts DEF Fresh, Blank, At
<1>6. Fresh(delimiter, e \o rec, Append(e, cells))
  BY <1>1, <1>2, <1>5, RecordRead
<1>7. e \o rec = rec
  BY <1>3, <1>4, ConcatEmptySeq
<1>8. ReadCsv(rec, delimiter) = Append(e, cells)
  BY <1>6, <1>7 DEF Fresh, At, ReadCsv
<1>9. Steering(rec, delimiter) = <<"LF">>
  BY <1>1, <1>3, RecordSteers
<1>10. /\ Append(e, cells) = [i \in 1..1 |-> cells] /\ <<"LF">> = [i \in 1..1 |-> "LF"]
       /\ Len(<<<<a, b>>>>) = 1
  <2>1. Append(<<>>, cells) = <<cells>>
    BY OneAndTwo
  <2>2. <<cells>> = [i \in 1..1 |-> cells] /\ <<"LF">> = [i \in 1..1 |-> "LF"]
    OBVIOUS
  <2>3. QED
    BY <1>4, <2>1, <2>2
<1>11. QED
  BY <1>1, <1>2, <1>3, <1>8, <1>9, <1>10 DEF RowsInert

LEMMA TwoRows ==
    ASSUME NEW T, NEW delimiter, Charset(T, delimiter), NEW a \in Seq(T), NEW b \in Seq(T)
    PROVE  RowsInert(<<<<a, b>>, <<a, b>>>>,
                     Record(<<a, b>>, delimiter) \o Record(<<a, b>>, delimiter),
                     <<CsvText(a), CsvText(b)>>, delimiter)
<1>1. PICK rec : rec = Record(<<a, b>>, delimiter)
  OBVIOUS
<1>2. PICK cells : cells = <<CsvText(a), CsvText(b)>>
  OBVIOUS
<1>3. /\ rec \in Seq(T) /\ CsvRows(<<<<a, b>>, <<a, b>>>>, delimiter) = rec \o rec
      /\ rec \o rec \in Seq(T)
  BY <1>1, RowsWritten, ConcatProperties
<1>4. PICK e \in Seq(T) : e = <<>>
  BY EmptySeq
<1>5. Fresh(delimiter, e, e)
  BY <1>4, CsvFacts DEF Fresh, Blank, At
<1>6. Fresh(delimiter, e \o rec, Append(e, cells))
  BY <1>1, <1>2, <1>5, RecordRead
<1>7. e \o rec = rec
  BY <1>3, <1>4, ConcatEmptySeq
<1>8. Fresh(delimiter, rec \o rec, Append(Append(e, cells), cells))
  BY <1>1, <1>2, <1>3, <1>6, <1>7, RecordRead
<1>9. ReadCsv(rec \o rec, delimiter) = Append(Append(e, cells), cells)
  <2>1. PICK both : both = Append(Append(e, cells), cells)
    OBVIOUS
  <2>2. Fresh(delimiter, rec \o rec, both)
    BY <1>8, <2>1
  <2>3. ReadCsv(rec \o rec, delimiter) = both
    BY <2>2 DEF Fresh, At, ReadCsv
  <2>4. QED
    BY <2>1, <2>3
<1>10. Steering(rec \o rec, delimiter) = <<"LF", "LF">>
  <2>1. PICK code : code = SteerCode(T, delimiter) /\ IsCode(code, T, T)
    BY RecordSteers
  <2>2. Coded(code, rec) = <<"LF">>
    BY <1>1, <2>1, RecordSteers
  <2>3. Coded(code, rec \o rec) = Coded(code, rec) \o Coded(code, rec)
    <3>1. Spreads(code, T)
      BY <2>1, CodeSpreads
    <3>2. QED
      BY <1>3, <3>1 DEF Spreads
  <2>4. Steering(rec \o rec, delimiter) = Coded(code, rec \o rec)
    BY <1>3, <2>1, RecordSteers
  <2>5. <<"LF">> \o <<"LF">> = <<"LF", "LF">>
    <3>1. \A c : \A S : c \in S => <<c>> \o <<c>> = <<c, c>>
      BY OneAndTwo
    <3>2. "LF" \in T
      BY DEF Charset
    <3>3. QED
      BY <3>1, <3>2
  <2>6. QED
    BY <2>2, <2>3, <2>4, <2>5
<1>11. /\ Append(Append(e, cells), cells) = [i \in 1..2 |-> cells]
       /\ <<"LF", "LF">> = [i \in 1..2 |-> "LF"] /\ Len(<<<<a, b>>, <<a, b>>>>) = 2
  <2>1. Append(<<>>, cells) = <<cells>> /\ Append(<<cells>>, cells) = <<cells, cells>>
    <3>1. PICK S : cells \in S
      BY <1>2, Zenon
    <3>2. QED
      BY <3>1, OneAndTwo
  <2>2. <<cells, cells>> = [i \in 1..2 |-> cells] /\ <<"LF", "LF">> = [i \in 1..2 |-> "LF"]
    OBVIOUS
  <2>3. QED
    BY <1>4, <2>1, <2>2
<1>12. QED
  BY <1>1, <1>2, <1>3, <1>9, <1>10, <1>11 DEF RowsInert

-----------------------------------------------------------------------------
(* The calls. *)

\* A call is one of those there are, and its answer the one for its input.
CallInv ==
    /\ call \in Calls \cup {Upload}
    /\ answer # <<>> => call \in Calls /\ answer = Result

LEMMA CallInvariant == Spec => []CallInv
<1>1. Init => CallInv
  BY DEF Init, CallInv
<1>2. CallInv /\ [Next]_vars => CallInv'
  <2> SUFFICES ASSUME CallInv, [Next]_vars PROVE CallInv'
    OBVIOUS
  <2>1. CASE Evaluate
    <3>1. call' = call /\ call \in Calls /\ answer' = Result
      BY <2>1 DEF Evaluate, CallInv
    <3>2. Calls' = Calls
      BY DEF Calls
    <3>3. Result' = Result
      BY <3>1 DEF Result, Reports
    <3>4. QED
      BY <3>1, <3>2, <3>3, Zenon DEF CallInv
  <2>2. CASE UNCHANGED <<call, answer>>
    <3>1. Result' = Result
      BY <2>2 DEF Result, Reports
    <3>2. QED
      BY <2>2, <3>1, Zenon DEF CallInv
  <2>3. Send \/ Over \/ UNCHANGED vars => UNCHANGED <<call, answer>>
    BY DEF Send, Over, vars
  <2>4. QED
    BY <2>1, <2>2, <2>3 DEF Next
<1>3. QED
  BY <1>1, <1>2, PTL DEF Spec

\* However a path is written and whatever it is joined to, cleaning and joining
\* it changes nowhere it leads, and leaves nothing in it that could be left out.
THEOREM PathsLead == Spec => []JoinedPathsLead
<1>1. CallInv => JoinedPathsLead
  <2> SUFFICES ASSUME CallInv, Answered("join") PROVE JoinedPathsLead
    BY DEF JoinedPathsLead
  <2> DEFINE T == Segments \cup {Gap, Here, Up, "deep"}
  <2>1. call \in [kind : {"join"}, base : Bases, sub : PathTexts] /\ answer = Result
    BY DEF CallInv, Answered, Calls, Upload
  <2>2. /\ call.base \in Seq(Segments) /\ call.base # <<>>
        /\ call.sub \in Seq(Segments) /\ call.sub # <<>>
    <3>1. call.base \in Bases /\ call.sub \in PathTexts
      BY <2>1
    <3>2. PICK n \in 1..MaxSegments : call.sub \in [1..n -> Segments]
      BY <3>1 DEF PathTexts
    <3>3. n \in Nat /\ n >= 1
      BY ConversionsAssumption
    <3>4. call.sub \in Seq(Segments) /\ Len(call.sub) = n
      BY <3>2, <3>3
    <3>5. QED
      BY <3>1, <3>3, <3>4, ConversionsAssumption
  <2>3. call.base \in Seq(T) /\ call.sub \in Seq(T)
    BY <2>2
  <2>4. Deep \in Seq(T)
    BY ConversionsAssumption DEF Deep
  <2>5. answer[1] = Clean(call.sub) /\ answer[2] = UrlPath(call.base, call.sub)
        /\ answer[3] = SharePath(call.base, call.sub)
    BY <2>1 DEF Result
  <2>6. {Gap, Here, Up} \subseteq T
    OBVIOUS
  <2> HIDE DEF T
  <2>7. QED
    BY <2>2, <2>3, <2>4, <2>5, <2>6, JoinLeads DEF JoinedPathsLead
<1>2. QED
  BY <1>1, CallInvariant, PTL

\* Quoted bytes read back as they were, and only the outer quotes are bare.
THEOREM QuotesRecoverable == Spec => []QuoteRecoverable
<1>1. CallInv => QuoteRecoverable
  <2> SUFFICES ASSUME CallInv, Answered("quote") PROVE QuoteRecoverable
    BY DEF QuoteRecoverable
  <2>1. call \in [kind : {"quote"}, bytes : ByteTexts] /\ answer = Result
    BY DEF CallInv, Answered, Calls, Upload
  <2>2. call.bytes \in Seq(Bytes)
    <3>1. PICK n \in 0..MaxText : call.bytes \in [1..n -> Bytes]
      BY <2>1 DEF ByteTexts
    <3>2. n \in Nat
      BY ConversionsAssumption
    <3>3. QED
      BY <3>1, <3>2
  <2>3. answer[1] = GoQuote(call.bytes)
    BY <2>1 DEF Result
  <2>4. QED
    BY <2>2, <2>3, Quoted DEF QuoteRecoverable
<1>2. QED
  BY <1>1, CallInvariant, PTL

\* Whatever a server calls itself and whatever the delimiter, a report stays a
\* row of its own cells, and JSON gives the name back.
THEOREM ReportsInert == Spec => []ReportsAreInert
<1>1. CallInv => ReportsAreInert
  <2> SUFFICES ASSUME CallInv, Answered("report") PROVE ReportsAreInert
    BY DEF ReportsAreInert
  <2>1. /\ call \in [kind : {"report"}, name : WireTexts, ip : Addresses,
                     twice : BOOLEAN, delimiter : Delimiters]
        /\ answer = Result
    BY DEF CallInv, Answered, Calls, Upload
  <2>2. PICK d \in Delimiters : d = call.delimiter
    BY <2>1
  <2> DEFINE T0 == Characters \cup {Quote, "'", "LF", ",", d}
  <2>3. PICK T : T = T0
    OBVIOUS
  <2>4. Charset(T, ",") /\ (d \notin LineEnds => Charset(T, d))
    BY <2>3, ConversionsAssumption DEF Charset, LineEnds, Quote
  <2>5. PICK a \in Seq(T) : a = call.name
    <3>1. PICK n \in 0..MaxText : call.name \in [1..n -> Characters]
      BY <2>1 DEF WireTexts
    <3>2. n \in Nat /\ Characters \subseteq T
      <4>1. n \in Nat
        BY ConversionsAssumption
      <4>2. Characters \subseteq T
        BY <2>3
      <4>3. QED
        BY <4>1, <4>2
    <3>3. call.name \in Seq(T)
      BY <3>1, <3>2
    <3>4. QED
      BY <3>3
  <2>6. PICK b \in Seq(T) : b = call.ip
    <3>1. call.ip \in Seq(Characters) /\ Characters \subseteq T
      <4>1. call.ip \in Seq(Characters)
        BY <2>1, ConversionsAssumption
      <4>2. Characters \subseteq T
        BY <2>3
      <4>3. QED
        BY <4>1, <4>2
    <3>2. QED
      BY <3>1
  <2>7. PICK x : x = CsvText(a)
    OBVIOUS
  <2>8. PICK y : y = CsvText(b)
    OBVIOUS
  <2>9. Tame(x) /\ Tame(y)
    BY <2>4, <2>7, <2>8, CellText
  <2>10. ASSUME d \notin LineEnds PROVE RowsInert(Reports, answer[1], <<x, y>>, d)
    <3>0. Charset(T, d)
      BY <2>4, <2>10
    <3>1. answer[1] = CsvRows(Reports, d)
      BY <2>1, <2>2 DEF Result
    <3>2. PICK one : one = Record(<<a, b>>, d) /\ RowsInert(<<<<a, b>>>>, one, <<x, y>>, d)
      BY <3>0, <2>7, <2>8, OneRow
    <3>3. PICK two : RowsInert(<<<<a, b>>, <<a, b>>>>, two, <<x, y>>, d)
      BY <3>0, <2>7, <2>8, TwoRows
    <3>4. Reports = IF call.twice THEN <<<<a, b>>, <<a, b>>>> ELSE <<<<a, b>>>>
      BY <2>5, <2>6 DEF Reports
    <3>5. one = CsvRows(<<<<a, b>>>>, d) /\ two = CsvRows(<<<<a, b>>, <<a, b>>>>, d)
      BY <3>2, <3>3 DEF RowsInert
    <3>6. QED
      BY <3>1, <3>2, <3>3, <3>4, <3>5
  <2>11. ReadJson(answer[2]) = Sanitize(call.name) /\ ~Contains(answer[2], "<")
    <3>1. Sanitize(a) \in Seq(Sane(T))
      BY Sanitized
    <3>2. answer[2] = EscapeLikeGo(SerdeEscape(Sanitize(a)))
      BY <2>1, <2>5 DEF Result, JsonText
    <3>3. QED
      BY <2>5, <3>1, <3>2, JsonReads
  <2>12. [i \in 1..2 |-> CsvText(Reports[1][i])] = <<x, y>>
    <3>1. Reports[1] = <<a, b>>
      BY <2>5, <2>6 DEF Reports
    <3>2. QED
      BY <2>7, <2>8, <3>1
  <2>13. \A i \in 1..2 : <<x, y>>[i] # <<>> => <<x, y>>[i][1] \notin Triggers
    BY <2>9 DEF Tame
  <2>14. call.delimiter \notin LineEnds =>
            /\ ReadCsv(answer[1], call.delimiter) = [i \in 1..Len(Reports) |-> <<x, y>>]
            /\ Steering(answer[1], call.delimiter) = [i \in 1..Len(Reports) |-> "LF"]
    BY <2>2, <2>10 DEF RowsInert
  <2>15. QED
    BY <2>11, <2>12, <2>13, <2>14, Zenon DEF ReportsAreInert
<1>2. QED
  BY <1>1, CallInvariant, PTL

-----------------------------------------------------------------------------
(* An upload's body. *)

\* What has been handed out of a payload is all that is behind pos.
Handed ==
    /\ payload \in Payloads \cup {Endless}
    /\ counted \in Nat /\ taken = counted
    /\ payload # Endless => pos = taken /\ pos \in 0..payload /\ declared = payload
    /\ payload # Endless /\ ended => pos = payload
    /\ payload = Endless => declared = Endless /\ ~ended

\* Whatever the payload's length and the chunk's, the frames add up to the
\* length declared, and the upload total counts what was taken.
THEOREM LengthKept == Spec => []BodyMatchesLength
<1>0. Payloads \subseteq Nat /\ Chunk \in Nat \ {0}
  BY UploadBodyAssumption
<1>1. Init => Handed
  BY <1>0 DEF Init, BodyInit, Handed, SizeHint, Endless
<1>2. Handed /\ [Next]_vars => Handed'
  <2> SUFFICES ASSUME Handed, [Next]_vars PROVE Handed'
    OBVIOUS
  <2>1. CASE TakeSlice
    BY <1>0, <2>1 DEF TakeSlice, Handed, Lesser, Endless
  <2>2. CASE EndBody
    BY <1>0, <2>2 DEF EndBody, Handed, Endless
  <2>3. CASE TakeFiller
    BY <1>0, <2>3 DEF TakeFiller, Handed
  <2>4. CASE UNCHANGED bodyVars
    BY <2>4 DEF bodyVars, Handed
  <2>5. Evaluate \/ Over \/ UNCHANGED vars => UNCHANGED bodyVars
    BY DEF Evaluate, Over, vars
  <2>6. QED
    BY <2>1, <2>2, <2>3, <2>4, <2>5 DEF Next, Send, BodyNext
<1>3. Handed => BodyMatchesLength
  BY <1>0 DEF Handed, BodyMatchesLength, SizeHint, Endless
<1>4. QED
  BY <1>1, <1>2, <1>3, PTL DEF Spec
=============================================================================
