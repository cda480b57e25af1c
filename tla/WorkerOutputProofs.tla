------------------------ MODULE WorkerOutputProofs -------------------------
(***************************************************************************)
(* A case that ended is reported with what it printed in time, whole and   *)
(* in order, and with nothing else but what cases before it on the same    *)
(* worker left behind: what the channel and the pipe hold is always the    *)
(* rest of what the case printed, and what comes late comes after the end  *)
(* frame.                                                                  *)
(***************************************************************************)
EXTENDS WorkerStreamProofs

(***************************************************************************)
(* Sequences of sequences put end to end.                                  *)
(***************************************************************************)
LEMMA SetInduction ==
  ASSUME NEW S, \A n \in Nat : (\A k \in Nat : k < n => k \in S) => n \in S
  PROVE  Nat \subseteq S
<1>1. ASSUME Nat \ S # {} PROVE FALSE
  <2>1. Nat \ S \subseteq Nat
    OBVIOUS
  <2>2. PICK n : n = Min(Nat \ S)
    OBVIOUS
  <2>3. n \in Nat \ S /\ \A k \in Nat \ S : n <= k
    BY <1>1, <2>1, <2>2, Least
  <2>4. \A k \in Nat : k < n => k \in S
    BY <2>3
  <2> QED
    BY <2>3, <2>4
<1> QED
  BY <1>1

IsJoin(S, s, t, u) ==
  /\ u \in Seq(S) /\ Len(u) = Len(s) + Len(t) /\ Len(s) \in Nat /\ Len(t) \in Nat
  /\ \A i \in 1..Len(s) : u[i] = s[i]
  /\ \A i \in 1..Len(t) : u[Len(s) + i] = t[i]

LEMMA Joined ==
  ASSUME NEW S, NEW s \in Seq(S), NEW t \in Seq(S)
  PROVE  IsJoin(S, s, t, s \o t)
  BY DEF IsJoin

\* The sums of a sequence of sequences, one by one.
Sums(f, g) == f[0] = <<>> /\ \A i \in 1..Len(g) : f[i] = f[i - 1] \o g[i]

LEMMA SumsExist ==
  ASSUME NEW S, NEW g \in Seq(Seq(S))
  PROVE  \E f \in [0..Len(g) -> Seq(S)] : Sums(f, g)
<1>0. Len(g) \in Nat /\ \A i \in 1..Len(g) : g[i] \in Seq(S)
  OBVIOUS
<1> DEFINE P(n) == \E f \in [0..n -> Seq(S)] : f[0] = <<>> /\ \A i \in 1..n : f[i] = f[i - 1] \o g[i]
           T == {n \in Nat : n <= Len(g) => P(n)}
<1>1. ASSUME NEW n \in Nat, \A k \in Nat : k < n => k \in T PROVE n \in T
  <2> SUFFICES ASSUME n <= Len(g) PROVE P(n)
    OBVIOUS
  <2>1. CASE n = 0
    <3>1. PICK f : f = [i \in 0..n |-> <<>>]
      OBVIOUS
    <3>2. f \in [0..n -> Seq(S)] /\ f[0] = <<>> /\ \A i \in 1..n : f[i] = f[i - 1] \o g[i]
      BY <2>1, <3>1
    <3> QED
      BY <3>2, Zenon
  <2>2. CASE n # 0
    <3>1. n - 1 \in Nat /\ n - 1 < n /\ n - 1 <= Len(g)
      BY <1>0, <2>2
    <3>2. PICK e \in [0..(n - 1) -> Seq(S)] :
            e[0] = <<>> /\ \A i \in 1..(n - 1) : e[i] = e[i - 1] \o g[i]
      <4>1. P(n - 1)
        BY <1>1, <3>1
      <4> QED
        BY <4>1, Zenon
    <3>3. PICK f : f = [i \in 0..n |-> IF i = n THEN e[n - 1] \o g[n] ELSE e[i]]
      OBVIOUS
    <3>4. n \in 1..Len(g) /\ n - 1 \in 0..(n - 1)
      BY <1>0, <2>2
    <3>5. g[n] \in Seq(S) /\ e[n - 1] \in Seq(S)
      BY <1>0, <3>2, <3>4
    <3>6. e[n - 1] \o g[n] \in Seq(S)
      BY <3>5, ConcatProperties
    <3>7. \A i \in 0..n : i = n \/ (i # n /\ i \in 0..(n - 1))
      OBVIOUS
    <3>8. \A i \in 0..n : f[i] \in Seq(S)
      BY <3>3, <3>6, <3>7
    <3>9. f \in [0..n -> Seq(S)]
      BY <3>3, <3>8
    <3>10. \A i \in 0..(n - 1) : f[i] = e[i]
      <4>1. \A i \in 0..(n - 1) : i \in 0..n /\ i # n
        BY <3>1
      <4> QED
        BY <3>3, <4>1
    <3>11. 0 \in 0..(n - 1)
      BY <3>1
    <3>12. \A i \in 1..n : f[i] = f[i - 1] \o g[i]
      <4> SUFFICES ASSUME NEW i \in 1..n PROVE f[i] = f[i - 1] \o g[i]
        OBVIOUS
      <4>1. i - 1 \in 0..(n - 1) /\ (i = n \/ i \in 1..(n - 1))
        OBVIOUS
      <4>2. f[i - 1] = e[i - 1]
        BY <3>10, <4>1
      <4>3. CASE i = n
        <5>1. n \in 0..n
          OBVIOUS
        <5>2. f[n] = e[n - 1] \o g[n]
          BY <3>3, <5>1
        <5> QED
          BY <4>2, <4>3, <5>2
      <4>4. CASE i \in 1..(n - 1)
        <5>1. i \in 0..(n - 1)
          BY <4>4
        <5>2. f[i] = e[i] /\ e[i] = e[i - 1] \o g[i]
          BY <3>2, <3>10, <4>4, <5>1
        <5> QED
          BY <4>2, <5>2
      <4> QED
        BY <4>1, <4>3, <4>4
    <3> QED
      BY <3>2, <3>9, <3>10, <3>11, <3>12
  <2> QED
    BY <2>1, <2>2
<1>2. Nat \subseteq T
  <2> HIDE DEF T
  <2> QED BY <1>1, SetInduction
<1> HIDE DEF P
<1>3. P(Len(g))
  BY <1>0, <1>2
<1> QED
  BY <1>3, Zenon DEF P, Sums

Begun(g, h) ==
  /\ Len(g) \in Nat /\ Len(h) \in Nat /\ Len(g) <= Len(h)
  /\ \A i \in 1..Len(g) : h[i] = g[i]

Agree(e, f, g) == \A i \in 0..Len(g) : f[i] = e[i]

LEMMA SumsAgree ==
  ASSUME NEW g, NEW h, NEW e, NEW f, Begun(g, h), Sums(e, g), Sums(f, h)
  PROVE  Agree(e, f, g)
<1> USE DEF Begun
<1> DEFINE T == {n \in Nat : n <= Len(g) => f[n] = e[n]}
<1>1. ASSUME NEW n \in Nat, \A k \in Nat : k < n => k \in T PROVE n \in T
  <2> SUFFICES ASSUME n <= Len(g) PROVE f[n] = e[n]
    OBVIOUS
  <2>1. CASE n = 0
    BY <2>1 DEF Sums
  <2>2. CASE n # 0
    <3>1. n - 1 \in Nat /\ n - 1 < n /\ n - 1 <= Len(g) /\ n \in 1..Len(g) /\ n \in 1..Len(h)
      BY <2>2
    <3>2. f[n - 1] = e[n - 1]
      BY <1>1, <3>1
    <3>3. e[n] = e[n - 1] \o g[n] /\ f[n] = f[n - 1] \o h[n] /\ h[n] = g[n]
      BY <3>1 DEF Sums
    <3> QED
      BY <3>2, <3>3
  <2> QED
    BY <2>1, <2>2
<1>2. Nat \subseteq T
  <2> HIDE DEF T
  <2> QED BY <1>1, SetInduction
<1> QED
  BY <1>2 DEF Agree

\* FlattenSeq is the last of the sums.
LEMMA FlattenSums ==
  ASSUME NEW S, NEW g \in Seq(Seq(S)), NEW f \in [0..Len(g) -> Seq(S)], Sums(f, g)
  PROVE  FlattenSeq(g) = f[Len(g)]
<1>0. Len(g) \in Nat /\ \A i \in 1..Len(g) : g[i] \in Seq(S)
  OBVIOUS
<1>1. CASE Len(g) = 0
  <2>1. g = <<>>
    BY <1>1
  <2>2. FlattenSeq(g) = g
    BY <1>1 DEF FlattenSeq
  <2> QED
    BY <1>1, <2>1, <2>2 DEF Sums
<1>2. CASE Len(g) # 0
  <2> DEFINE Step(F, i) == IF i = 1 THEN g[i] ELSE F[i - 1] \o g[i]
             F == CHOOSE F : F = [i \in 1..Len(g) |-> Step(F, i)]
  <2>1. FlattenSeq(g) = F[Len(g)]
    BY <1>2, Zenon DEF FlattenSeq
  <2>2. PICK h : h = [i \in 1..Len(g) |-> f[i]]
    OBVIOUS
  <2>3. \A i \in 1..Len(g) : h[i] = Step(h, i)
    <3> SUFFICES ASSUME NEW i \in 1..Len(g) PROVE h[i] = Step(h, i)
      OBVIOUS
    <3>1. h[i] = f[i - 1] \o g[i]
      BY <2>2 DEF Sums
    <3>2. CASE i = 1
      <4>1. h[i] = <<>> \o g[i] /\ g[i] \in Seq(S)
        BY <1>0, <3>1, <3>2 DEF Sums
      <4> QED
        BY <3>2, <4>1, ConcatEmptySeq
    <3>3. CASE i # 1
      <4>1. i - 1 \in 1..Len(g)
        BY <1>0, <3>3
      <4> QED
        BY <2>2, <3>1, <3>3, <4>1
    <3> QED
      BY <3>2, <3>3
  <2>4. h = [i \in 1..Len(g) |-> Step(h, i)]
    BY <2>2, <2>3
  <2>5. \E F0 : F0 = [i \in 1..Len(g) |-> Step(F0, i)]
    BY <2>4, Zenon
  <2>6. F = [i \in 1..Len(g) |-> Step(F, i)]
    <3> HIDE DEF Step
    <3> QED BY <2>5, Zenon
  <2> HIDE DEF F
  <2>7. PICK k : k = [i \in 0..Len(g) |-> IF i = 0 THEN <<>> ELSE F[i]]
    OBVIOUS
  <2>8. Sums(k, g)
    <3>1. k[0] = <<>>
      BY <1>0, <2>7
    <3>2. ASSUME NEW i \in 1..Len(g) PROVE k[i] = k[i - 1] \o g[i]
      <4>1. k[i] = Step(F, i)
        <5>1. i \in 0..Len(g) /\ i # 0
          BY <1>0
        <5>2. k[i] = F[i]
          BY <2>7, <5>1
        <5>3. F[i] = Step(F, i)
          BY <2>6, Zenon
        <5> QED
          BY <5>2, <5>3, Zenon
      <4>2. CASE i = 1
        <5>1. k[i] = g[i] /\ k[i - 1] = <<>> /\ g[i] \in Seq(S)
          BY <1>0, <3>1, <4>1, <4>2
        <5> QED
          BY <5>1, ConcatEmptySeq
      <4>3. CASE i # 1
        <5>1. i - 1 \in 0..Len(g) /\ i - 1 # 0
          BY <1>0, <4>3
        <5> QED
          BY <2>7, <4>1, <4>3, <5>1
      <4> QED
        BY <4>2, <4>3
    <3> QED
      BY <3>1, <3>2 DEF Sums
  <2>9. \A i \in 0..Len(g) : f[i] = k[i]
    <3>1. Begun(g, g)
      BY <1>0 DEF Begun
    <3>2. Agree(k, f, g)
      BY <2>8, <3>1, SumsAgree
    <3> QED
      BY <3>2 DEF Agree
  <2>10. Len(g) \in 0..Len(g) /\ k[Len(g)] = F[Len(g)]
    BY <1>0, <1>2, <2>7
  <2> QED
    BY <2>1, <2>9, <2>10
<1> QED
  BY <1>1, <1>2

LEMMA FlattenEmpty == FlattenSeq(<<>>) = <<>>
  BY DEF FlattenSeq

LEMMA FlattenType ==
  ASSUME NEW S, NEW g \in Seq(Seq(S))
  PROVE  FlattenSeq(g) \in Seq(S)
<1>1. PICK f \in [0..Len(g) -> Seq(S)] : Sums(f, g)
  BY SumsExist
<1>2. FlattenSeq(g) = f[Len(g)]
  BY <1>1, FlattenSums
<1>3. Len(g) \in 0..Len(g)
  OBVIOUS
<1> QED
  BY <1>2, <1>3

LEMMA FlattenAppend ==
  ASSUME NEW S, NEW g \in Seq(Seq(S)), NEW x \in Seq(S)
  PROVE  FlattenSeq(Append(g, x)) = FlattenSeq(g) \o x
<1>1. PICK f \in [0..Len(g) -> Seq(S)] : Sums(f, g)
  BY SumsExist
<1>2. FlattenSeq(g) = f[Len(g)]
  BY <1>1, FlattenSums
<1>3. PICK h : h = Append(g, x)
  OBVIOUS
<1>4. /\ h \in Seq(Seq(S)) /\ Len(h) = Len(g) + 1 /\ Len(g) \in Nat
      /\ \A i \in 1..Len(g) : h[i] = g[i]
      /\ h[Len(g) + 1] = x
  BY <1>3
<1>5. PICK k \in [0..Len(h) -> Seq(S)] : Sums(k, h)
  BY <1>4, SumsExist
<1>6. FlattenSeq(h) = k[Len(h)]
  BY <1>4, <1>5, FlattenSums
<1>7. k[Len(g)] = f[Len(g)]
  <2>1. Len(h) \in Nat /\ Len(g) <= Len(h) /\ Len(g) \in 0..Len(g)
    BY <1>4
  <2>2. Begun(g, h)
    BY <1>4, <2>1 DEF Begun
  <2>3. \A i \in 0..Len(g) : k[i] = f[i]
    <3>1. Sums(f, g) /\ Sums(k, h)
      BY <1>1, <1>5
    <3>2. Agree(f, k, g)
      BY <2>2, <3>1, SumsAgree
    <3> QED
      BY <3>2 DEF Agree
  <2> QED
    BY <2>1, <2>3
<1>8. k[Len(h)] = k[Len(g)] \o x
  <2>1. Len(h) \in 1..Len(h) /\ Len(h) - 1 = Len(g)
    BY <1>4
  <2>2. k[Len(h)] = k[Len(h) - 1] \o h[Len(h)]
    BY <1>5, <2>1 DEF Sums
  <2> QED
    BY <1>4, <2>1, <2>2
<1> QED
  BY <1>2, <1>3, <1>6, <1>7, <1>8

Associates(a, b, c) == (a \o b) \o c = a \o (b \o c)

LEMMA Reassociate ==
  ASSUME NEW S, NEW a \in Seq(S), NEW b \in Seq(S), NEW c \in Seq(S)
  PROVE  Associates(a, b, c)
  BY ConcatAssociative DEF Associates

LEMMA FlattenStep ==
  ASSUME NEW S, NEW g \in Seq(Seq(S)), NEW p \in Seq(Seq(S)), NEW x \in Seq(S),
         FlattenSeq(g \o p) = FlattenSeq(g) \o FlattenSeq(p)
  PROVE  FlattenSeq(g \o Append(p, x)) = FlattenSeq(g) \o FlattenSeq(Append(p, x))
<1>1. g \o p \in Seq(Seq(S)) /\ g \o Append(p, x) = Append(g \o p, x)
  OBVIOUS
<1>2. FlattenSeq(Append(g \o p, x)) = FlattenSeq(g \o p) \o x
  BY <1>1, FlattenAppend
<1>3. FlattenSeq(Append(p, x)) = FlattenSeq(p) \o x
  BY FlattenAppend
<1>4. PICK a, b : a = FlattenSeq(g) /\ b = FlattenSeq(p)
  OBVIOUS
<1>5. a \in Seq(S) /\ b \in Seq(S)
  BY <1>4, FlattenType
<1>6. Associates(a, b, x)
  BY <1>5, Reassociate
<1>7. (a \o b) \o x = a \o (b \o x)
  BY <1>6 DEF Associates
<1> QED
  BY <1>1, <1>2, <1>3, <1>4, <1>7

LEMMA FlattenConcat ==
  ASSUME NEW S, NEW g \in Seq(Seq(S)), NEW h \in Seq(Seq(S))
  PROVE  FlattenSeq(g \o h) = FlattenSeq(g) \o FlattenSeq(h)
<1>0. Len(h) \in Nat /\ \A i \in 1..Len(h) : h[i] \in Seq(S)
  OBVIOUS
<1> DEFINE Pre(n) == SubSeq(h, 1, n)
           T == {n \in Nat : n <= Len(h) => FlattenSeq(g \o Pre(n)) = FlattenSeq(g) \o FlattenSeq(Pre(n))}
<1>1. ASSUME NEW n \in Nat, \A k \in Nat : k < n => k \in T PROVE n \in T
  <2> SUFFICES ASSUME n <= Len(h) PROVE FlattenSeq(g \o Pre(n)) = FlattenSeq(g) \o FlattenSeq(Pre(n))
    OBVIOUS
  <2>0. FlattenSeq(g) \in Seq(S)
    BY FlattenType
  <2>1. CASE n = 0
    <3>1. Pre(n) = <<>>
      BY <2>1
    <3>2. g \o Pre(n) = g
      BY <3>1, ConcatEmptySeq
    <3>3. FlattenSeq(g) \o <<>> = FlattenSeq(g)
      BY <2>0, ConcatEmptySeq
    <3> QED
      BY <3>1, <3>2, <3>3, FlattenEmpty
  <2>2. CASE n # 0
    <3>1. n - 1 \in Nat /\ n - 1 < n /\ n - 1 <= Len(h) /\ n \in 1..Len(h)
      BY <1>0, <2>2
    <3>2. PICK p : p = Pre(n - 1)
      OBVIOUS
    <3>3. /\ p \in Seq(Seq(S)) /\ Len(p) = n - 1 /\ \A i \in 1..(n - 1) : p[i] = h[i]
      <4>1. \A i \in 1..(n - 1) : h[i] \in Seq(S)
        BY <1>0, <3>1
      <4> QED
        BY <3>1, <3>2, <4>1, SubSeqProperties
    <3>4. Pre(n) \in Seq(Seq(S)) /\ Len(Pre(n)) = n /\ \A i \in 1..n : Pre(n)[i] = h[i]
      <4>1. \A i \in 1..n : h[i] \in Seq(S)
        BY <1>0, <3>1
      <4> QED
        BY <3>1, <4>1, SubSeqProperties
    <3>5. h[n] \in Seq(S)
      BY <1>0, <3>1
    <3> HIDE DEF Pre
    <3>6. Pre(n) = Append(p, h[n])
      <4>1. /\ Append(p, h[n]) \in Seq(Seq(S)) /\ Len(Append(p, h[n])) = n
            /\ \A i \in 1..(n - 1) : Append(p, h[n])[i] = h[i]
            /\ Append(p, h[n])[n] = h[n]
        BY <3>1, <3>3, <3>5
      <4>2. \A i \in 1..n : Append(p, h[n])[i] = Pre(n)[i]
        <5>1. \A i \in 1..n : i \in 1..(n - 1) \/ i = n
          OBVIOUS
        <5> QED
          BY <3>4, <4>1, <5>1
      <4> QED
        BY <3>4, <4>1, <4>2, SeqEqual
    <3>7. FlattenSeq(g \o p) = FlattenSeq(g) \o FlattenSeq(p)
      BY <1>1, <3>1, <3>2
    <3>8. PICK x : x = h[n]
      OBVIOUS
    <3>9. FlattenSeq(g \o Append(p, x)) = FlattenSeq(g) \o FlattenSeq(Append(p, x))
      BY <3>3, <3>5, <3>7, <3>8, FlattenStep
    <3> QED
      BY <3>6, <3>8, <3>9
  <2> QED
    BY <2>1, <2>2
<1>2. Nat \subseteq T
  <2> HIDE DEF T
  <2> QED BY <1>1, SetInduction
<1>3. Pre(Len(h)) = h
  OBVIOUS
<1> HIDE DEF Pre
<1>4. Len(h) \in T
  BY <1>0, <1>2
<1>5. FlattenSeq(g \o Pre(Len(h))) = FlattenSeq(g) \o FlattenSeq(Pre(Len(h)))
  BY <1>0, <1>4
<1> QED
  BY <1>3, <1>5

LEMMA FlattenNothing ==
  ASSUME NEW S, NEW g \in Seq(Seq(S)), \A i \in 1..Len(g) : g[i] = <<>>
  PROVE  FlattenSeq(g) = <<>>
<1>0. Len(g) \in Nat
  OBVIOUS
<1>1. PICK f : f = [i \in 0..Len(g) |-> <<>>]
  OBVIOUS
<1>2. f \in [0..Len(g) -> Seq(S)] /\ f[Len(g)] = <<>>
  BY <1>0, <1>1
<1>3. Sums(f, g)
  <2>1. f[0] = <<>> /\ \A i \in 1..Len(g) : i - 1 \in 0..Len(g) /\ f[i] = <<>> /\ f[i - 1] = <<>>
    BY <1>0, <1>1
  <2>2. <<>> \o <<>> = <<>>
    OBVIOUS
  <2> QED
    BY <2>1, <2>2 DEF Sums
<1> QED
  BY <1>2, <1>3, FlattenSums

(***************************************************************************)
(* What was printed in time.                                               *)
(***************************************************************************)
Mark(s) == [i \in DOMAIN s |-> IF InTime(s[i]) THEN <<s[i]>> ELSE <<>>]
One(e) == IF InTime(e) THEN <<e>> ELSE <<>>

\* The chunks in time among those of a sequence of lines.
Marks(lines) == [i \in DOMAIN lines |-> Kept(lines[i].chunks)]
Held(lines) == FlattenSeq(Marks(lines))

LEMMA OneType == ASSUME NEW e \in Chunks PROVE One(e) \in Seq(Chunks)
  BY DEF One

LEMMA MarkType ==
  ASSUME NEW s \in Seq(Chunks)
  PROVE  /\ Mark(s) \in Seq(Seq(Chunks)) /\ Len(Mark(s)) = Len(s) /\ Len(s) \in Nat
         /\ \A i \in 1..Len(s) : Mark(s)[i] = One(s[i]) /\ One(s[i]) \in Seq(Chunks)
         /\ Kept(s) = FlattenSeq(Mark(s)) /\ Kept(s) \in Seq(Chunks)
<1>1. Len(s) \in Nat /\ DOMAIN s = 1..Len(s) /\ \A i \in 1..Len(s) : s[i] \in Chunks
  OBVIOUS
<1>2. \A i \in 1..Len(s) : One(s[i]) \in Seq(Chunks)
  BY <1>1, OneType
<1>3. Mark(s) = [i \in 1..Len(s) |-> One(s[i])]
  BY <1>1, Zenon DEF Mark, One
<1>4. Mark(s) \in Seq(Seq(Chunks)) /\ Len(Mark(s)) = Len(s)
  BY <1>1, <1>2, <1>3
<1>5. Kept(s) = FlattenSeq(Mark(s))
  BY DEF Kept, Mark
<1>6. Kept(s) \in Seq(Chunks)
  BY <1>4, <1>5, FlattenType
<1> QED
  BY <1>1, <1>2, <1>3, <1>4, <1>5, <1>6

LEMMA KeptConcat ==
  ASSUME NEW s \in Seq(Chunks), NEW t \in Seq(Chunks)
  PROVE  Kept(s \o t) = Kept(s) \o Kept(t)
<1>1. PICK u : u = s \o t
  OBVIOUS
<1>2. /\ u \in Seq(Chunks) /\ Len(u) = Len(s) + Len(t) /\ Len(s) \in Nat /\ Len(t) \in Nat
      /\ \A i \in 1..Len(s) : u[i] = s[i]
      /\ \A i \in 1..Len(u) : i <= Len(s) \/ (i - Len(s) \in 1..Len(t) /\ u[i] = t[i - Len(s)])
  BY <1>1
<1>3. PICK a, b, c : a = Mark(s) /\ b = Mark(t) /\ c = Mark(u)
  OBVIOUS
<1>4. /\ a \in Seq(Seq(Chunks)) /\ Len(a) = Len(s) /\ \A i \in 1..Len(s) : a[i] = One(s[i])
      /\ b \in Seq(Seq(Chunks)) /\ Len(b) = Len(t) /\ \A i \in 1..Len(t) : b[i] = One(t[i])
      /\ c \in Seq(Seq(Chunks)) /\ Len(c) = Len(u) /\ \A i \in 1..Len(u) : c[i] = One(u[i])
  BY <1>2, <1>3, MarkType
<1>5. /\ a \o b \in Seq(Seq(Chunks)) /\ Len(a \o b) = Len(c)
      /\ \A i \in 1..Len(a) : (a \o b)[i] = a[i]
      /\ \A i \in 1..Len(b) : (a \o b)[Len(a) + i] = b[i]
  <2>0. IsJoin(Seq(Chunks), a, b, a \o b)
    BY <1>4, Joined
  <2>1. /\ a \o b \in Seq(Seq(Chunks)) /\ Len(a \o b) = Len(a) + Len(b)
        /\ \A i \in 1..Len(a) : (a \o b)[i] = a[i]
        /\ \A i \in 1..Len(b) : (a \o b)[Len(a) + i] = b[i]
    BY <2>0, Zenon DEF IsJoin
  <2> QED
    BY <1>2, <1>4, <2>1
<1>6. \A i \in 1..Len(c) : (a \o b)[i] = c[i]
  <2> SUFFICES ASSUME NEW i \in 1..Len(u) PROVE (a \o b)[i] = c[i]
    BY <1>4
  <2>1. CASE i <= Len(s)
    <3>1. i \in 1..Len(s)
      BY <1>2, <2>1
    <3>2. (a \o b)[i] = a[i]
      BY <1>4, <1>5, <3>1
    <3> QED
      BY <1>2, <1>4, <3>1, <3>2
  <2>2. CASE ~(i <= Len(s))
    <3>1. i - Len(s) \in 1..Len(t) /\ u[i] = t[i - Len(s)]
      BY <1>2, <2>2
    <3>2. (a \o b)[i] = b[i - Len(a)]
      <4>1. i - Len(a) \in 1..Len(b) /\ Len(a) + (i - Len(a)) = i
        BY <1>2, <1>4, <3>1
      <4> QED
        BY <1>5, <4>1
    <3> QED
      BY <1>4, <3>1, <3>2
  <2> QED
    BY <2>1, <2>2
<1>7. c = a \o b
  BY <1>4, <1>5, <1>6, SeqEqual
<1>8. FlattenSeq(a \o b) = FlattenSeq(a) \o FlattenSeq(b)
  BY <1>4, FlattenConcat
<1> QED
  BY <1>1, <1>2, <1>3, <1>7, <1>8, MarkType

LEMMA KeptAppend ==
  ASSUME NEW s \in Seq(Chunks), NEW e \in Chunks
  PROVE  Kept(Append(s, e)) = Kept(s) \o One(e)
<1>1. PICK u : u = Append(s, e)
  OBVIOUS
<1>2. /\ u \in Seq(Chunks) /\ Len(u) = Len(s) + 1 /\ Len(s) \in Nat
      /\ u[Len(s) + 1] = e /\ \A i \in 1..Len(s) : u[i] = s[i]
  BY <1>1, Grow
<1>3. PICK a, c, x : a = Mark(s) /\ c = Mark(u) /\ x = One(e)
  OBVIOUS
<1>4. /\ a \in Seq(Seq(Chunks)) /\ Len(a) = Len(s) /\ \A i \in 1..Len(s) : a[i] = One(s[i])
      /\ c \in Seq(Seq(Chunks)) /\ Len(c) = Len(u) /\ \A i \in 1..Len(u) : c[i] = One(u[i])
      /\ x \in Seq(Chunks)
  BY <1>2, <1>3, MarkType, OneType
<1>5. /\ Append(a, x) \in Seq(Seq(Chunks)) /\ Len(Append(a, x)) = Len(a) + 1
      /\ \A i \in 1..Len(a) : Append(a, x)[i] = a[i]
      /\ Append(a, x)[Len(a) + 1] = x
  BY <1>4, Grow
<1>6. \A i \in 1..Len(c) : Append(a, x)[i] = c[i]
  <2>1. \A i \in 1..Len(c) : i \in 1..Len(s) \/ i = Len(s) + 1
    BY <1>2, <1>4
  <2>2. \A i \in 1..Len(s) : i \in 1..Len(u) /\ Append(a, x)[i] = c[i]
    BY <1>2, <1>4, <1>5
  <2>3. Len(s) + 1 \in 1..Len(u)
    BY <1>2
  <2>4. Append(a, x)[Len(s) + 1] = c[Len(s) + 1]
    BY <1>2, <1>3, <1>4, <1>5, <2>3
  <2> QED
    BY <2>1, <2>2, <2>4
<1>7. c = Append(a, x)
  <2>1. Len(Append(a, x)) = Len(c)
    BY <1>2, <1>4, <1>5
  <2> QED
    BY <1>4, <1>5, <1>6, <2>1, SeqEqual
<1>8. FlattenSeq(Append(a, x)) = FlattenSeq(a) \o x
  BY <1>4, FlattenAppend
<1> QED
  BY <1>1, <1>2, <1>3, <1>7, <1>8, MarkType

LEMMA KeptNothing ==
  ASSUME NEW s \in Seq(Chunks), \A i \in 1..Len(s) : ~InTime(s[i])
  PROVE  Kept(s) = <<>>
<1>1. PICK a : a = Mark(s)
  OBVIOUS
<1>2. a \in Seq(Seq(Chunks)) /\ Len(a) = Len(s) /\ \A i \in 1..Len(s) : a[i] = One(s[i])
  BY <1>1, MarkType
<1>3. \A i \in 1..Len(a) : a[i] = <<>>
  BY <1>2 DEF One
<1>4. FlattenSeq(a) = <<>>
  BY <1>2, <1>3, FlattenNothing
<1> QED
  BY <1>1, <1>4, MarkType

LEMMA KeptSplit ==
  ASSUME NEW s \in Seq(Chunks), NEW n \in 0..Len(s)
  PROVE  Kept(s) = Kept(SubSeq(s, 1, n)) \o Kept(SubSeq(s, n + 1, Len(s)))
<1>1. PICK a, b : a = SubSeq(s, 1, n) /\ b = SubSeq(s, n + 1, Len(s))
  OBVIOUS
<1>2. /\ a \in Seq(Chunks) /\ Len(a) = n /\ \A i \in 1..n : a[i] = s[i]
      /\ b \in Seq(Chunks) /\ Len(b) = Len(s) - n /\ Len(s) \in Nat
      /\ \A i \in 1..(Len(s) - n) : b[i] = s[i + n]
  BY <1>1, Cut, Front1
<1>3. /\ a \o b \in Seq(Chunks) /\ Len(a \o b) = Len(s)
      /\ \A i \in 1..n : (a \o b)[i] = a[i]
      /\ \A i \in 1..(Len(s) - n) : (a \o b)[n + i] = b[i]
  <2>0. IsJoin(Chunks, a, b, a \o b)
    BY <1>2, Joined
  <2>1. /\ a \o b \in Seq(Chunks) /\ Len(a \o b) = Len(a) + Len(b)
        /\ \A i \in 1..Len(a) : (a \o b)[i] = a[i]
        /\ \A i \in 1..Len(b) : (a \o b)[Len(a) + i] = b[i]
    BY <2>0, Zenon DEF IsJoin
  <2> QED
    BY <1>2, <2>1
<1>4. \A i \in 1..Len(s) : (a \o b)[i] = s[i]
  <2> SUFFICES ASSUME NEW i \in 1..Len(s) PROVE (a \o b)[i] = s[i]
    OBVIOUS
  <2>1. CASE i <= n
    <3>1. i \in 1..n
      BY <2>1
    <3>2. (a \o b)[i] = a[i]
      BY <1>3, <3>1
    <3> QED
      BY <1>2, <3>1, <3>2
  <2>2. CASE ~(i <= n)
    <3>1. i - n \in 1..(Len(s) - n) /\ (i - n) + n = i /\ n + (i - n) = i
      BY <1>2, <2>2
    <3>2. (a \o b)[i] = b[i - n]
      BY <1>3, <3>1
    <3> QED
      BY <1>2, <3>1, <3>2
  <2> QED
    BY <2>1, <2>2
<1>5. s = a \o b
  BY <1>3, <1>4, SeqEqual
<1>6. Kept(a \o b) = Kept(a) \o Kept(b)
  BY <1>2, KeptConcat
<1> QED
  BY <1>1, <1>5, <1>6

LEMMA MarksType ==
  ASSUME NEW c \in Seq(Lines)
  PROVE  /\ Marks(c) \in Seq(Seq(Chunks)) /\ Len(Marks(c)) = Len(c) /\ Len(c) \in Nat
         /\ \A i \in 1..Len(c) : Marks(c)[i] = Kept(c[i].chunks)
         /\ Held(c) \in Seq(Chunks)
<1>1. Len(c) \in Nat /\ DOMAIN c = 1..Len(c) /\ \A i \in 1..Len(c) : c[i] \in Lines
  OBVIOUS
<1>2. \A i \in 1..Len(c) : c[i].chunks \in Seq(Chunks)
  BY <1>1 DEF Lines
<1>3. \A i \in 1..Len(c) : Kept(c[i].chunks) \in Seq(Chunks)
  BY <1>2, MarkType
<1>4. Marks(c) \in Seq(Seq(Chunks)) /\ Len(Marks(c)) = Len(c)
  BY <1>1, <1>3 DEF Marks
<1>5. \A i \in 1..Len(c) : Marks(c)[i] = Kept(c[i].chunks)
  BY <1>1 DEF Marks
<1>6. Held(c) \in Seq(Chunks)
  BY <1>4, FlattenType DEF Held
<1> QED
  BY <1>1, <1>4, <1>5, <1>6

LEMMA HeldAppend ==
  ASSUME NEW c \in Seq(Lines), NEW l \in Lines
  PROVE  Held(Append(c, l)) = Held(c) \o Kept(l.chunks)
<1>1. PICK d : d = Append(c, l)
  OBVIOUS
<1>2. /\ d \in Seq(Lines) /\ Len(d) = Len(c) + 1 /\ Len(c) \in Nat
      /\ d[Len(c) + 1] = l /\ \A i \in 1..Len(c) : d[i] = c[i]
  BY <1>1, Grow
<1>3. PICK a, b, x : a = Marks(c) /\ b = Marks(d) /\ x = Kept(l.chunks)
  OBVIOUS
<1>4. x \in Seq(Chunks)
  <2>1. l.chunks \in Seq(Chunks)
    BY DEF Lines
  <2> QED
    BY <1>3, <2>1, MarkType
<1>5. /\ a \in Seq(Seq(Chunks)) /\ Len(a) = Len(c) /\ \A i \in 1..Len(c) : a[i] = Kept(c[i].chunks)
      /\ b \in Seq(Seq(Chunks)) /\ Len(b) = Len(d) /\ \A i \in 1..Len(d) : b[i] = Kept(d[i].chunks)
  BY <1>2, <1>3, MarksType
<1>6. /\ Append(a, x) \in Seq(Seq(Chunks)) /\ Len(Append(a, x)) = Len(a) + 1
      /\ \A i \in 1..Len(a) : Append(a, x)[i] = a[i]
      /\ Append(a, x)[Len(a) + 1] = x
  BY <1>4, <1>5, Grow
<1>7. \A i \in 1..Len(b) : Append(a, x)[i] = b[i]
  <2>1. \A i \in 1..Len(b) : i \in 1..Len(c) \/ i = Len(c) + 1
    BY <1>2, <1>5
  <2>2. \A i \in 1..Len(c) : i \in 1..Len(d)
    BY <1>2
  <2>3. \A i \in 1..Len(c) : Append(a, x)[i] = b[i]
    BY <1>2, <1>5, <1>6, <2>2
  <2>4. Len(c) + 1 \in 1..Len(d)
    BY <1>2
  <2>5. Append(a, x)[Len(c) + 1] = b[Len(c) + 1]
    BY <1>2, <1>3, <1>5, <1>6, <2>4
  <2> QED
    BY <2>1, <2>3, <2>5
<1>8. b = Append(a, x)
  <2>1. Len(Append(a, x)) = Len(b)
    BY <1>2, <1>5, <1>6
  <2> QED
    BY <1>5, <1>6, <1>7, <2>1, SeqEqual
<1>9. FlattenSeq(Append(a, x)) = FlattenSeq(a) \o x
  BY <1>4, <1>5, FlattenAppend
<1> QED
  BY <1>1, <1>3, <1>8, <1>9 DEF Held

LEMMA HeldTail ==
  ASSUME NEW c \in Seq(Lines), c # <<>>
  PROVE  Held(c) = Kept(c[1].chunks) \o Held(Tail(c))
<1>1. PICK d : d = Tail(c)
  OBVIOUS
<1>2. /\ c[1] \in Lines /\ d \in Seq(Lines) /\ Len(d) = Len(c) - 1 /\ Len(c) \in Nat \ {0}
      /\ \A i \in 1..(Len(c) - 1) : d[i] = c[i + 1]
  BY <1>1, Shrink
<1>3. PICK a, b, x : a = Marks(c) /\ b = Marks(d) /\ x = Kept(c[1].chunks)
  OBVIOUS
<1>4. x \in Seq(Chunks)
  <2>1. c[1].chunks \in Seq(Chunks)
    BY <1>2 DEF Lines
  <2> QED
    BY <1>3, <2>1, MarkType
<1>5. /\ a \in Seq(Seq(Chunks)) /\ Len(a) = Len(c) /\ \A i \in 1..Len(c) : a[i] = Kept(c[i].chunks)
      /\ b \in Seq(Seq(Chunks)) /\ Len(b) = Len(d) /\ \A i \in 1..Len(d) : b[i] = Kept(d[i].chunks)
  BY <1>2, <1>3, MarksType
<1>6. PICK o : o = Append(<<>>, x)
  OBVIOUS
<1>7. o \in Seq(Seq(Chunks)) /\ Len(o) = 1 /\ o[1] = x
  BY <1>4, <1>6
<1>8. /\ o \o b \in Seq(Seq(Chunks)) /\ Len(o \o b) = Len(a) /\ (o \o b)[1] = x
      /\ \A i \in 1..Len(d) : (o \o b)[1 + i] = b[i]
  <2>0. IsJoin(Seq(Chunks), o, b, o \o b)
    BY <1>5, <1>7, Joined
  <2>1. /\ o \o b \in Seq(Seq(Chunks)) /\ Len(o \o b) = Len(o) + Len(b)
        /\ \A i \in 1..Len(o) : (o \o b)[i] = o[i]
        /\ \A i \in 1..Len(b) : (o \o b)[Len(o) + i] = b[i]
    BY <2>0, Zenon DEF IsJoin
  <2>2. Len(o \o b) = Len(a)
    BY <1>2, <1>5, <1>7, <2>1
  <2>3. 1 \in 1..Len(o)
    BY <1>7
  <2>4. (o \o b)[1] = x
    BY <1>7, <2>1, <2>3
  <2>5. \A i \in 1..Len(d) : (o \o b)[1 + i] = b[i]
    BY <1>5, <1>7, <2>1, Zenon
  <2> QED
    BY <2>1, <2>2, <2>4, <2>5
<1>9. \A i \in 1..Len(a) : (o \o b)[i] = a[i]
  <2> SUFFICES ASSUME NEW i \in 1..Len(c) PROVE (o \o b)[i] = a[i]
    BY <1>5
  <2>1. CASE i = 1
    BY <1>3, <1>5, <1>8, <2>1
  <2>2. CASE i # 1
    <3>1. i - 1 \in 1..(Len(c) - 1) /\ i - 1 \in 1..Len(d) /\ (i - 1) + 1 = i
            /\ 1 + (i - 1) = i
      BY <1>2, <2>2
    <3>2. (o \o b)[i] = b[i - 1]
      BY <1>8, <3>1
    <3>3. d[i - 1] = c[i]
      BY <1>2, <3>1
    <3> QED
      BY <1>5, <3>1, <3>2, <3>3
  <2> QED
    BY <2>1, <2>2
<1>10. a = o \o b
  BY <1>5, <1>8, <1>9, SeqEqual
<1>11. FlattenSeq(o \o b) = FlattenSeq(o) \o FlattenSeq(b)
  BY <1>5, <1>7, FlattenConcat
<1>12. FlattenSeq(o) = x
  <2>1. <<>> \in Seq(Seq(Chunks))
    OBVIOUS
  <2>2. FlattenSeq(o) = FlattenSeq(<<>>) \o x
    BY <1>4, <1>6, <2>1, FlattenAppend
  <2> QED
    BY <1>4, <2>2, FlattenEmpty, ConcatEmptySeq
<1> QED
  BY <1>1, <1>3, <1>10, <1>11, <1>12 DEF Held

LEMMA HeldNothing ==
  ASSUME NEW c \in Seq(Lines), \A i \in 1..Len(c) : Kept(c[i].chunks) = <<>>
  PROVE  Held(c) = <<>>
<1>1. PICK a : a = Marks(c)
  OBVIOUS
<1>2. a \in Seq(Seq(Chunks)) /\ \A i \in 1..Len(a) : a[i] = <<>>
  BY <1>1, MarksType
<1>3. FlattenSeq(a) = <<>>
  BY <1>2, FlattenNothing
<1> QED
  BY <1>1, <1>3 DEF Held

(***************************************************************************)
(* The invariant.                                                          *)
(***************************************************************************)
\* What has been collected, what the channel holds and what the pipe holds.
Through == (Kept(output) \o Held(channel)) \o Kept(pipe)
Due == IF runner = "wait" THEN Kept(printed[next]) ELSE <<>>

\* A case prints nothing before its request is read.
Fresh ==
  \A c \in Case :
    c > next \/ (c = next /\ ~(runner = "wait" /\ stdin = <<>>)) => printed[c] = <<>>

\* Nothing is lost on the way, unless to an error the runner will find before an
\* end frame.
Safe == \A j : InChannel(j, "error") => \E i : InChannel(i, "end")
Flow == Safe => Through = Due

\* Nothing in time follows the end frame.
Closed ==
  /\ \A i : InPipe(i, "end") => \A j \in i..Len(pipe) : ~InTime(pipe[j])
  /\ \A i : InChannel(i, "end") =>
       /\ \A j \in i..Len(channel) : Kept(channel[j].chunks) = <<>>
       /\ \A j \in 1..Len(pipe) : ~InTime(pipe[j])

\* A start frame, which the runner skips, is nothing the case printed.
Skipped == \A i : InChannel(i, "start") => Kept(channel[i].chunks) = <<>>

Attributed ==
  \A i \in 1..Len(results) :
    results[i].status = "ended" => Kept(results[i].output) = Kept(printed[i])

OutInv == Fresh /\ Flow /\ Closed /\ Skipped /\ Attributed

LEMMA StreamTypes ==
  ASSUME IndInv
  PROVE  /\ pipe \in Seq(Chunks) /\ channel \in Seq(Lines) /\ output \in Seq(Chunks)
         /\ printed \in [Case -> Seq(Chunks)]
         /\ Kept(output) \in Seq(Chunks) /\ Held(channel) \in Seq(Chunks)
         /\ Kept(pipe) \in Seq(Chunks) /\ Through \in Seq(Chunks)
<1>1. /\ pipe \in Seq(Chunks) /\ channel \in Seq(Lines) /\ output \in Seq(Chunks)
      /\ printed \in [Case -> Seq(Chunks)]
  BY DEF IndInv, Types
<1>2. PICK o, c, p : o = output /\ c = channel /\ p = pipe
  OBVIOUS
<1>3. Kept(o) \in Seq(Chunks) /\ Held(c) \in Seq(Chunks) /\ Kept(p) \in Seq(Chunks)
  BY <1>1, <1>2, MarkType, MarksType
<1>4. (Kept(o) \o Held(c)) \o Kept(p) \in Seq(Chunks)
  BY <1>3, ConcatProperties
<1> QED
  BY <1>1, <1>2, <1>3, <1>4 DEF Through

\* A chunk put into the pipe.
LEMMA ThroughPut ==
  ASSUME IndInv, NEW e \in Chunks, pipe' = Append(pipe, e), UNCHANGED <<output, channel>>
  PROVE  Through' = Through \o One(e)
<1>1. PICK a, h, p, q : a = Kept(output) /\ h = Held(channel) /\ p = pipe /\ q = One(e)
  OBVIOUS
<1>2. a \in Seq(Chunks) /\ h \in Seq(Chunks) /\ p \in Seq(Chunks) /\ q \in Seq(Chunks)
  BY <1>1, StreamTypes, OneType
<1>3. Kept(Append(p, e)) = Kept(p) \o q
  BY <1>1, <1>2, KeptAppend
<1>4. PICK k : k = Kept(p)
  OBVIOUS
<1>5. k \in Seq(Chunks)
  BY <1>2, <1>4, MarkType
<1>6. a \o h \in Seq(Chunks)
  BY <1>2, ConcatProperties
<1>7. PICK b : b = a \o h
  OBVIOUS
<1>8. Associates(b, k, q)
  BY <1>2, <1>5, <1>6, <1>7, Reassociate
<1>9. Through = b \o k /\ Through' = b \o (k \o q)
  BY <1>1, <1>3, <1>4, <1>7 DEF Through
<1> QED
  BY <1>1, <1>8, <1>9 DEF Associates

\* A line moved from the pipe to the channel.
LEMMA ThroughDrain ==
  ASSUME IndInv, NEW n \in 0..Len(pipe), NEW l \in Lines, l.chunks = SubSeq(pipe, 1, n),
         channel' = Append(channel, l), pipe' = SubSeq(pipe, n + 1, Len(pipe)), UNCHANGED output
  PROVE  Through' = Through
<1>1. PICK a, c, p : a = Kept(output) /\ c = channel /\ p = pipe
  OBVIOUS
<1>2. a \in Seq(Chunks) /\ c \in Seq(Lines) /\ p \in Seq(Chunks)
  BY <1>1, StreamTypes
<1>3. PICK h, k, m : h = Held(c) /\ k = Kept(SubSeq(p, 1, n)) /\ m = Kept(SubSeq(p, n + 1, Len(p)))
  OBVIOUS
<1>4. Held(Append(c, l)) = h \o k
  BY <1>1, <1>2, <1>3, HeldAppend
<1>5. Kept(p) = k \o m
  BY <1>1, <1>2, <1>3, KeptSplit
<1>6. h \in Seq(Chunks) /\ k \in Seq(Chunks) /\ m \in Seq(Chunks)
  <2>1. SubSeq(p, 1, n) \in Seq(Chunks) /\ SubSeq(p, n + 1, Len(p)) \in Seq(Chunks)
    BY <1>1, <1>2, Front1, Cut
  <2> QED
    BY <1>2, <1>3, <2>1, MarkType, MarksType
<1>7. Through = (a \o h) \o (k \o m) /\ Through' = (a \o (h \o k)) \o m
  BY <1>1, <1>3, <1>4, <1>5 DEF Through
<1>8. PICK b : b = a \o h
  OBVIOUS
<1>9. b \in Seq(Chunks)
  BY <1>2, <1>6, <1>8, ConcatProperties
<1>10. Associates(b, k, m) /\ Associates(a, h, k)
  BY <1>2, <1>6, <1>9, Reassociate
<1> QED
  BY <1>7, <1>8, <1>10 DEF Associates

\* A line taken from the channel.
LEMMA ThroughTake ==
  ASSUME IndInv, channel # <<>>, channel' = Tail(channel), UNCHANGED pipe,
         \/ output' = output \o channel[1].chunks
         \/ output' = output /\ Kept(channel[1].chunks) = <<>>
  PROVE  Through' = Through
<1>1. PICK o, c, p, s : o = output /\ c = channel /\ p = Kept(pipe) /\ s = c[1].chunks
  OBVIOUS
<1>2. o \in Seq(Chunks) /\ c \in Seq(Lines) /\ p \in Seq(Chunks) /\ c # <<>>
  BY <1>1, StreamTypes
<1>3. s \in Seq(Chunks) /\ Tail(c) \in Seq(Lines)
  <2>1. c[1] \in Lines /\ Tail(c) \in Seq(Lines)
    BY <1>2, Shrink
  <2> QED
    BY <1>1, <2>1 DEF Lines
<1>4. PICK a, k, t : a = Kept(o) /\ k = Kept(s) /\ t = Held(Tail(c))
  OBVIOUS
<1>5. a \in Seq(Chunks) /\ k \in Seq(Chunks) /\ t \in Seq(Chunks)
  BY <1>2, <1>3, <1>4, MarkType, MarksType
<1>6. Held(c) = k \o t
  BY <1>1, <1>2, <1>4, HeldTail
<1>7. Kept(output') = a \o k
  <2>1. CASE output' = output \o channel[1].chunks
    <3>1. Kept(o \o s) = a \o k
      BY <1>2, <1>3, <1>4, KeptConcat
    <3> QED
      BY <1>1, <2>1, <3>1
  <2>2. CASE output' = output /\ Kept(channel[1].chunks) = <<>>
    <3>1. k = <<>> /\ Kept(output') = a
      BY <1>1, <1>4, <2>2
    <3>2. a \o <<>> = a
      BY <1>5, ConcatEmptySeq
    <3> QED
      BY <3>1, <3>2
  <2> QED
    BY <2>1, <2>2
<1>8. Through = (a \o (k \o t)) \o p /\ Through' = ((a \o k) \o t) \o p
  BY <1>1, <1>4, <1>6, <1>7 DEF Through
<1>9. Associates(a, k, t)
  BY <1>5, Reassociate
<1> QED
  BY <1>8, <1>9 DEF Associates

\* A chunk that is not in time leaves everything as it was.
LEMMA ThroughSame ==
  ASSUME IndInv, NEW e \in Chunks, ~InTime(e), pipe' = Append(pipe, e), UNCHANGED <<output, channel>>
  PROVE  Through' = Through
<1>1. Through' = Through \o One(e) /\ One(e) = <<>>
  BY ThroughPut DEF One
<1>2. Through \o <<>> = Through
  BY StreamTypes, ConcatEmptySeq
<1> QED
  BY <1>1, <1>2

LEMMA NothingKept == Kept(<<>>) = <<>> /\ Held(<<>>) = <<>>
<1>1. <<>> \in Seq(Chunks) /\ <<>> \in Seq(Lines) /\ Len(<<>>) = 0 /\ 1..0 = {}
  OBVIOUS
<1> QED
  BY <1>1, KeptNothing, HeldNothing

LEMMA ResultCases ==
  ASSUME IndInv
  PROVE  /\ next \in Nat /\ next \in 1..(NCases + 1) /\ Len(results) = next - 1
         /\ \A i \in 1..Len(results) : i \in Case /\ i < next
         /\ runner = "wait" => next \in Case
<1>1. NCases \in Nat
  BY StreamAssumption
<1>2. next \in 1..(NCases + 1) /\ Len(results) = next - 1
  BY DEF IndInv, Types
<1>3. \A i \in 1..Len(results) : i \in Case /\ i < next
  BY <1>1, <1>2 DEF Case
<1> QED
  BY <1>1, <1>2, <1>3 DEF IndInv, Requests

(***************************************************************************)
(* The worker's steps.                                                     *)
(***************************************************************************)
LEMMA PutSame ==
  ASSUME IndInv, OutInv, NEW e \in Chunks, ~InTime(e), pipe' = Append(pipe, e),
         UNCHANGED <<output, channel, runner, next, results>>,
         \A c \in Case : Kept(printed'[c]) = Kept(printed[c])
  PROVE  Flow' /\ Closed' /\ Skipped' /\ Attributed'
<1>1. /\ Len(pipe) \in Nat /\ Len(pipe') = Len(pipe) + 1 /\ pipe'[Len(pipe) + 1] = e
      /\ \A i \in 1..Len(pipe) : pipe'[i] = pipe[i]
      /\ \A i, k : InPipe(i, k)' <=> InPipe(i, k) \/ (i = Len(pipe) + 1 /\ e.kind = k)
      /\ \A i, k : InPipe(i, k) => i \in 1..Len(pipe)
  BY PipeGrows
<1>2. \A i, k : InChannel(i, k)' <=> InChannel(i, k)
  BY ChannelSame
<1>3. Flow'
  <2>1. Through' = Through
    BY ThroughSame
  <2>2. Due' = Due
    BY ResultCases DEF Due
  <2> QED
    BY <1>2, <2>1, <2>2 DEF OutInv, Flow, Safe
<1>4. Closed'
  <2>1. \A j \in 1..Len(pipe') : j \in 1..Len(pipe) \/ j = Len(pipe) + 1
    BY <1>1
  <2>2. ASSUME NEW i, InPipe(i, "end")', NEW j \in i..Len(pipe') PROVE ~InTime(pipe'[j])
    <3>1. CASE InPipe(i, "end")
      <4>1. i \in 1..Len(pipe) /\ \A m \in i..Len(pipe) : ~InTime(pipe[m])
        BY <1>1, <3>1 DEF OutInv, Closed
      <4>2. j = Len(pipe) + 1 \/ (j \in i..Len(pipe) /\ j \in 1..Len(pipe))
        BY <1>1, <2>2, <4>1
      <4> QED
        BY <1>1, <4>1, <4>2
    <3>2. CASE i = Len(pipe) + 1
      <4>1. j = Len(pipe) + 1
        BY <1>1, <2>2, <3>2
      <4> QED
        BY <1>1, <4>1
    <3> QED
      BY <1>1, <2>2, <3>1, <3>2
  <2>3. ASSUME NEW i, InChannel(i, "end")
        PROVE  /\ \A j \in i..Len(channel) : Kept(channel[j].chunks) = <<>>
               /\ \A j \in 1..Len(pipe') : ~InTime(pipe'[j])
    <3>1. /\ \A j \in i..Len(channel) : Kept(channel[j].chunks) = <<>>
          /\ \A j \in 1..Len(pipe) : ~InTime(pipe[j])
      BY <2>3 DEF OutInv, Closed
    <3> QED
      BY <1>1, <2>1, <3>1
  <2>4. channel' = channel
    OBVIOUS
  <2> QED
    BY <1>2, <2>2, <2>3, <2>4 DEF Closed
<1>5. Skipped'
  BY <1>2 DEF OutInv, Skipped
<1>6. Attributed'
  BY ResultCases DEF OutInv, Attributed
<1> QED
  BY <1>3, <1>4, <1>5, <1>6

LEMMA WorkerOutput ==
  ASSUME IndInv, OutInv, ReadRun \/ WriteEnd \/ WriteMessage
  PROVE  OutInv'
<1>1. UNCHANGED <<channel, runner, next, output, results, printed>>
  BY DEF ReadRun, WriteEnd, WriteMessage, thread, history
<1>2. PICK e \in Chunks : ~InTime(e) /\ pipe' = Append(pipe, e)
  <2>1. \A c \in Case, n \in {0, 1} :
          /\ Chunk("start", c) \in Chunks /\ ~InTime(Chunk("start", c))
          /\ Chunk("message", c) \in Chunks /\ ~InTime(Chunk("message", c))
          /\ EndFrame(c, n) \in Chunks /\ ~InTime(EndFrame(c, n))
    BY DEF Chunk, EndFrame, Chunks, InTime
  <2>2. CASE ReadRun
    <3>1. current' \in Case
      <4>1. stdin \in Seq(Case \cup {Quit}) /\ stdin # <<>> /\ Head(stdin) # Quit /\ current' = Head(stdin)
        BY <2>2 DEF ReadRun, IndInv, Types
      <4>2. Head(stdin) \in Case \cup {Quit}
        BY <4>1
      <4> QED
        BY <4>1, <4>2
    <3> QED
      BY <2>1, <2>2, <3>1 DEF ReadRun
  <2>3. CASE WriteEnd
    <3>1. current \in Case
      BY <2>3, ResultCases DEF WriteEnd, IndInv, Requests
    <3>2. PICK n \in {0, 1} : pipe' = Append(pipe, EndFrame(current, n))
      BY <2>3, StreamAssumption DEF WriteEnd
    <3> QED
      BY <2>1, <3>1, <3>2
  <2>4. CASE WriteMessage
    <3>1. current \in Case
      <4>1. (runner = "wait" /\ current = next) \/ (next > 1 /\ current = next - 1)
        BY <2>4 DEF WriteMessage, IndInv, Requests
      <4> QED
        BY <4>1, ResultCases, StreamAssumption DEF Case
    <3> QED
      BY <2>1, <2>4, <3>1 DEF WriteMessage
  <2> QED
    BY <2>2, <2>3, <2>4
<1>3. Flow' /\ Closed' /\ Skipped' /\ Attributed'
  BY <1>1, <1>2, PutSame
<1>4. Fresh'
  <2>1. stdin' = stdin \/ stdin # <<>>
    BY DEF ReadRun, WriteEnd, WriteMessage
  <2> QED
    BY <1>1, <2>1 DEF OutInv, Fresh
<1> QED
  BY <1>3, <1>4 DEF OutInv

LEMMA CasePrintsOutput ==
  ASSUME IndInv, OutInv, CasePrints
  PROVE  OutInv'
<1>1. /\ worker = "running" /\ UNCHANGED <<stdin, channel, runner, next, output, results>>
  BY DEF CasePrints, thread
<1>2. runner = "wait" /\ current = next /\ stdin = <<>> /\ next \in Case
  BY <1>1, ResultCases DEF IndInv, Requests
<1>3. PICK e : /\ e.kind # "end" /\ e.kind # "start" /\ e \in Chunks /\ pipe' = Append(pipe, e)
               /\ printed' = [printed EXCEPT ![current] = Append(@, e)]
  <2>1. \A k \in Prints \ LateKinds :
          Chunk(k, next) \in Chunks /\ Chunk(k, next).kind # "end" /\ Chunk(k, next).kind # "start"
    BY <1>2, StreamAssumption DEF Chunk, Chunks, PrintKinds, LateKinds
  <2> QED
    BY <1>2, <2>1 DEF CasePrints
<1>4. PICK n, s : n = next /\ s = printed[next]
  OBVIOUS
<1>5. s \in Seq(Chunks) /\ printed \in [Case -> Seq(Chunks)]
  BY <1>2, <1>4, StreamTypes
<1>6. printed'[n] = Append(s, e) /\ \A c \in Case : c # n => printed'[c] = printed[c]
  BY <1>2, <1>3, <1>4, <1>5
<1>7. /\ \A i : ~InPipe(i, "end") /\ ~InChannel(i, "end")
      /\ \A i : ~InPipe(i, "end")'
      /\ \A i, k : InChannel(i, k)' <=> InChannel(i, k)
  <2>1. \A i : ~InPipe(i, "end") /\ ~InChannel(i, "end")
    BY <1>1 DEF IndInv, Frames, Ended
  <2>2. \A i, k : InPipe(i, k)' <=> InPipe(i, k) \/ (i = Len(pipe) + 1 /\ e.kind = k)
    BY <1>3, PipeGrows
  <2> QED
    BY <1>1, <1>3, <2>1, <2>2, ChannelSame
<1>8. Flow'
  <2>1. Through' = Through \o One(e)
    BY <1>1, <1>3, ThroughPut
  <2>2. Kept(Append(s, e)) = Kept(s) \o One(e)
    BY <1>3, <1>5, KeptAppend
  <2>3. Due = Kept(s) /\ Due' = Kept(s) \o One(e)
    BY <1>1, <1>2, <1>4, <1>6, <2>2 DEF Due
  <2> QED
    BY <1>7, <2>1, <2>3 DEF OutInv, Flow, Safe
<1>9. Closed'
  BY <1>7 DEF Closed
<1>10. Skipped'
  BY <1>1, <1>7 DEF OutInv, Skipped
<1>11. Attributed'
  <2>1. \A i \in 1..Len(results) : i \in Case /\ i # n
    BY <1>4, ResultCases
  <2>2. \A i \in 1..Len(results) : printed'[i] = printed[i]
    BY <1>6, <2>1
  <2> QED
    BY <1>1, <2>2 DEF OutInv, Attributed
<1>12. Fresh'
  BY <1>1, <1>2, <1>4, <1>6, ResultCases DEF OutInv, Fresh, Case
<1> QED
  BY <1>8, <1>9, <1>10, <1>11, <1>12 DEF OutInv

LEMMA StraggleOutput ==
  ASSUME IndInv, OutInv, Straggle
  PROVE  OutInv'
<1>1. UNCHANGED <<stdin, channel, runner, next, output, results>>
  BY DEF Straggle, thread
<1>2. PICK c \in Case, k \in LateKinds :
        /\ c \in completed \/ (c = current /\ worker = "ending")
        /\ pipe' = Append(pipe, Chunk(k, c))
        /\ printed' = [printed EXCEPT ![c] = Append(@, Chunk(k, c))]
  BY MatesFacts DEF Straggle
<1>3. PICK e, s : e = Chunk(k, c) /\ s = printed[c]
  OBVIOUS
<1>4. e \in Chunks /\ ~InTime(e)
  BY <1>3 DEF Chunk, Chunks, PrintKinds, LateKinds, InTime
<1>5. s \in Seq(Chunks) /\ printed \in [Case -> Seq(Chunks)]
  BY <1>3, StreamTypes
<1>6. printed'[c] = Append(s, e) /\ \A d \in Case : d # c => printed'[d] = printed[d]
  BY <1>2, <1>3, <1>5
<1>7. Kept(Append(s, e)) = Kept(s)
  <2>1. Kept(Append(s, e)) = Kept(s) \o One(e) /\ Kept(s) \in Seq(Chunks)
    BY <1>4, <1>5, KeptAppend, MarkType
  <2>2. One(e) = <<>>
    BY <1>4 DEF One
  <2> QED
    BY <2>1, <2>2, ConcatEmptySeq
<1>8. \A d \in Case : Kept(printed'[d]) = Kept(printed[d])
  BY <1>3, <1>6, <1>7
<1>9. Flow' /\ Closed' /\ Skipped' /\ Attributed'
  BY <1>1, <1>2, <1>3, <1>4, <1>8, PutSame
<1>10. ~(c > next) /\ (c = next => runner = "wait" /\ stdin = <<>>)
  <2>0. c \in Nat /\ next \in Nat
    BY ResultCases, StreamAssumption DEF Case
  <2>1. CASE c \in completed
    <3>1. c <= next
      BY <2>1 DEF IndInv, Completed
    <3> QED
      BY <2>0, <2>1, <3>1 DEF IndInv, Completed
  <2>2. CASE c = current /\ worker = "ending"
    <3>1. (runner = "wait" /\ current = next /\ stdin = <<>>) \/ (next > 1 /\ current = next - 1)
      BY <2>2 DEF IndInv, Requests
    <3> QED
      BY <2>0, <2>2, <3>1
  <2> QED
    BY <1>2, <2>1, <2>2
<1>11. Fresh'
  BY <1>1, <1>6, <1>10 DEF OutInv, Fresh
<1> QED
  BY <1>9, <1>11 DEF OutInv

\* Steps that leave the streams, the results and the histories alone.
LEMMA StillOutput ==
  ASSUME IndInv, OutInv, UNCHANGED <<pipe, channel, next, output, results, printed>>,
         Due' = Due, Fresh'
  PROVE  OutInv'
<1>1. /\ \A i, k : InPipe(i, k)' <=> InPipe(i, k)
      /\ \A i, k : InChannel(i, k)' <=> InChannel(i, k)
  BY PipeSame, ChannelSame
<1>2. Through' = Through
  BY DEF Through
<1>3. Flow'
  BY <1>1, <1>2 DEF OutInv, Flow, Safe
<1>4. Closed' /\ Skipped'
  BY <1>1 DEF OutInv, Closed, Skipped
<1>5. Attributed'
  BY DEF OutInv, Attributed
<1> QED
  BY <1>3, <1>4, <1>5 DEF OutInv

LEMMA QuietOutput ==
  ASSUME IndInv, OutInv,
         ReadQuit \/ Dies \/ Hangs \/ DrainEnds \/ SendRun \/ SendQuit \/ UNCHANGED vars
  PROVE  OutInv'
<1>1. UNCHANGED <<pipe, channel, next, output, results, printed>>
  BY DEF ReadQuit, Dies, Hangs, DrainEnds, SendRun, SendQuit, vars, thread, history
<1>2. CASE UNCHANGED <<runner, printed, next>> /\ (stdin' = stdin \/ stdin # <<>>)
  <2>1. Due' = Due
    BY <1>1, <1>2 DEF Due
  <2>2. Fresh'
    BY <1>1, <1>2 DEF OutInv, Fresh
  <2> QED
    BY <1>1, <2>1, <2>2, StillOutput
<1>3. CASE SendRun
  <2>1. /\ runner = "lease" /\ runner' = "wait" /\ next \in Case /\ stdin' # <<>>
        /\ printed' = printed /\ next' = next
    <3>1. runner = "lease" /\ runner' = "wait" /\ next <= NCases /\ stdin' = Append(stdin, next)
      BY <1>3 DEF SendRun
    <3>2. next \in Case
      BY <3>1, ResultCases, StreamAssumption DEF Case
    <3>3. stdin \in Seq(Case \cup {Quit})
      BY DEF IndInv, Types
    <3>4. Append(stdin, next) # <<>>
      <4>1. Len(Append(stdin, next)) = Len(stdin) + 1 /\ Len(stdin) \in Nat
        BY <3>2, <3>3, Grow
      <4> QED
        BY <4>1
    <3> QED
      BY <1>1, <3>1, <3>2, <3>4
  <2>2. printed[next] = <<>>
    BY <2>1 DEF OutInv, Fresh
  <2>3. Due = <<>> /\ Due' = <<>>
    BY <2>1, <2>2, NothingKept DEF Due
  <2>4. Fresh'
    BY <2>1 DEF OutInv, Fresh
  <2> QED
    BY <1>1, <2>3, <2>4, StillOutput
<1>4. CASE SendQuit
  <2>1. runner = "lease" /\ runner' = "stopped" /\ next > NCases /\ printed' = printed /\ next' = next
    BY <1>1, <1>4 DEF SendQuit
  <2>2. Due = <<>> /\ Due' = <<>>
    BY <2>1 DEF Due
  <2>3. Fresh'
    BY <2>1 DEF OutInv, Fresh
  <2> QED
    BY <1>1, <2>2, <2>3, StillOutput
<1> QED
  BY <1>2, <1>3, <1>4 DEF ReadQuit, Dies, Hangs, DrainEnds, vars, thread, history

(***************************************************************************)
(* The drain thread's steps.                                               *)
(***************************************************************************)
\* The first chunks of a pipe with nothing in time are nothing in time.
LEMMA FrontNothing ==
  ASSUME IndInv, NEW n \in 0..Len(pipe), \A j \in 1..Len(pipe) : ~InTime(pipe[j])
  PROVE  Kept(SubSeq(pipe, 1, n)) = <<>>
<1>1. PICK s : s = SubSeq(pipe, 1, n)
  OBVIOUS
<1>2. s \in Seq(Chunks) /\ Len(s) = n /\ \A i \in 1..n : s[i] = pipe[i]
  BY <1>1, StreamTypes, Front1
<1>3. \A i \in 1..n : i \in 1..Len(pipe)
  <2>1. Len(pipe) \in Nat
    BY StreamTypes
  <2> QED
    BY <2>1
<1>4. \A i \in 1..Len(s) : ~InTime(s[i])
  BY <1>2, <1>3 DEF InTime
<1> QED
  BY <1>1, <1>2, <1>4, KeptNothing

LEMMA DrainLine ==
  ASSUME IndInv, OutInv, NEW n \in 0..Len(pipe), NEW l \in Lines,
         channel' = Append(channel, l), pipe' = SubSeq(pipe, n + 1, Len(pipe)),
         UNCHANGED outside,
         (\A j \in 1..Len(pipe) : ~InTime(pipe[j])) => Kept(l.chunks) = <<>>,
         l.kind = "end" => InPipe(1, "end"),
         l.kind = "start" => Kept(l.chunks) = <<>>
  PROVE  Fresh' /\ Closed' /\ Skipped' /\ Attributed' /\ Due' = Due
<1>1. UNCHANGED <<stdin, runner, next, output, results, printed>>
  BY DEF outside, thread
<1>2. /\ Len(pipe) \in Nat /\ Len(pipe') = Len(pipe) - n
      /\ \A i \in 1..Len(pipe') : i + n \in 1..Len(pipe) /\ pipe'[i] = pipe[i + n]
      /\ \A i, k : InPipe(i, k)' => i \in Nat /\ InPipe(i + n, k)
  BY PipeCut
<1>3. /\ Len(channel) \in Nat /\ Len(channel') = Len(channel) + 1
      /\ channel'[Len(channel) + 1] = l
      /\ \A i \in 1..Len(channel) : channel'[i] = channel[i]
      /\ \A i, k : InChannel(i, k)' <=> InChannel(i, k) \/ (i = Len(channel) + 1 /\ l.kind = k)
      /\ \A i, k : InChannel(i, k) => i \in 1..Len(channel)
  BY ChannelGrows
<1>4. Fresh' /\ Due' = Due
  BY <1>1 DEF OutInv, Fresh, Due
<1>5. Attributed'
  BY <1>1 DEF OutInv, Attributed
<1>6. Skipped'
  <2> SUFFICES ASSUME NEW i, InChannel(i, "start")' PROVE Kept(channel'[i].chunks) = <<>>
    BY DEF Skipped
  <2>1. CASE InChannel(i, "start")
    <3>1. channel'[i] = channel[i]
      BY <1>3, <2>1
    <3>2. Kept(channel[i].chunks) = <<>>
      BY <2>1 DEF OutInv, Skipped
    <3> QED
      BY <3>1, <3>2
  <2>2. CASE i = Len(channel) + 1 /\ l.kind = "start"
    BY <1>3, <2>2
  <2> QED
    BY <1>3, <2>1, <2>2
<1>7. \A i \in Nat : InPipe(i, "end") => \A j \in i..Len(pipe) : ~InTime(pipe[j])
  BY DEF OutInv, Closed
<1>8. \A i : InPipe(i, "end")' => \A j \in i..Len(pipe') : ~InTime(pipe'[j])
  <2> SUFFICES ASSUME NEW i, InPipe(i, "end")', NEW j \in i..Len(pipe')
               PROVE  ~InTime(pipe'[j])
    OBVIOUS
  <2>1. i \in 1..Len(pipe') /\ i \in Nat /\ InPipe(i + n, "end")
    BY <1>2 DEF InPipe
  <2>2. j \in 1..Len(pipe') /\ j + n \in (i + n)..Len(pipe) /\ i + n \in Nat
    <3>1. PICK m, p : m = Len(pipe) /\ p = Len(pipe')
      OBVIOUS
    <3>2. m \in Nat /\ n \in 0..m /\ p = m - n /\ i \in 1..p /\ j \in i..p
      BY <1>2, <2>1, <3>1
    <3>3. j \in 1..p /\ j + n \in (i + n)..m /\ i + n \in Nat
      BY <3>2
    <3> QED
      BY <3>1, <3>3
  <2>3. ~InTime(pipe[j + n])
    BY <1>7, <2>1, <2>2
  <2>4. pipe'[j] = pipe[j + n]
    BY <1>2, <2>2
  <2> QED
    BY <2>3, <2>4 DEF InTime
<1>9. ASSUME \A j \in 1..Len(pipe) : ~InTime(pipe[j])
      PROVE  \A j \in 1..Len(pipe') : ~InTime(pipe'[j])
  BY <1>2, <1>9 DEF InTime
<1>10. \A i : InChannel(i, "end")' =>
         /\ \A j \in i..Len(channel') : Kept(channel'[j].chunks) = <<>>
         /\ \A j \in 1..Len(pipe') : ~InTime(pipe'[j])
  <2> SUFFICES ASSUME NEW i, InChannel(i, "end")'
               PROVE  /\ \A j \in i..Len(channel') : Kept(channel'[j].chunks) = <<>>
                      /\ \A j \in 1..Len(pipe') : ~InTime(pipe'[j])
    OBVIOUS
  <2>1. CASE InChannel(i, "end")
    <3>1. /\ i \in 1..Len(channel) /\ \A j \in i..Len(channel) : Kept(channel[j].chunks) = <<>>
          /\ \A j \in 1..Len(pipe) : ~InTime(pipe[j])
      BY <1>3, <2>1 DEF OutInv, Closed
    <3>2. Kept(l.chunks) = <<>>
      BY <3>1
    <3>3. \A j \in i..Len(channel') : j = Len(channel) + 1 \/ (j \in i..Len(channel) /\ j \in 1..Len(channel))
      BY <1>3, <3>1
    <3>4. \A j \in i..Len(channel') : Kept(channel'[j].chunks) = <<>>
      BY <1>3, <3>1, <3>2, <3>3
    <3> QED
      BY <1>9, <3>1, <3>4
  <2>2. CASE i = Len(channel) + 1 /\ l.kind = "end"
    <3>1. InPipe(1, "end")
      BY <2>2
    <3>2. \A j \in 1..Len(pipe) : ~InTime(pipe[j])
      BY <3>1 DEF OutInv, Closed
    <3>3. \A j \in i..Len(channel') : j = Len(channel) + 1
      BY <1>3, <2>2
    <3>4. Kept(l.chunks) = <<>>
      BY <3>2
    <3> QED
      BY <1>3, <1>9, <3>2, <3>3, <3>4
  <2> QED
    BY <1>3, <2>1, <2>2
<1>11. Closed'
  BY <1>8, <1>10 DEF Closed
<1> QED
  BY <1>4, <1>5, <1>6, <1>11

LEMMA DrainOutputs ==
  ASSUME IndInv, OutInv, NEW n \in 0..Len(pipe), NEW l \in Lines, l.chunks = SubSeq(pipe, 1, n),
         channel' = Append(channel, l), pipe' = SubSeq(pipe, n + 1, Len(pipe)),
         UNCHANGED outside, l.kind # "error", reader = "reading",
         l.kind = "end" => InPipe(1, "end"),
         l.kind = "start" => n = 1 /\ InPipe(1, "start")
  PROVE  OutInv'
<1>1. (\A j \in 1..Len(pipe) : ~InTime(pipe[j])) => Kept(l.chunks) = <<>>
  BY FrontNothing
<1>2. l.kind = "start" => Kept(l.chunks) = <<>>
  <2> SUFFICES ASSUME l.kind = "start" PROVE Kept(l.chunks) = <<>>
    OBVIOUS
  <2>1. PICK s : s = SubSeq(pipe, 1, n)
    OBVIOUS
  <2>2. s \in Seq(Chunks) /\ Len(s) = 1 /\ s[1] = pipe[1]
    BY <2>1, StreamTypes, Front1
  <2>3. \A i \in 1..Len(s) : ~InTime(s[i])
    BY <2>2 DEF InPipe, InTime
  <2> QED
    BY <2>1, <2>2, <2>3, KeptNothing
<1>3. Fresh' /\ Closed' /\ Skipped' /\ Attributed' /\ Due' = Due
  BY <1>1, <1>2, DrainLine
<1>4. Through' = Through
  BY ThroughDrain DEF outside, thread
<1>5. Safe
  BY DEF IndInv, Stops, Safe
<1>6. Flow'
  BY <1>3, <1>4, <1>5 DEF OutInv, Flow
<1> QED
  BY <1>3, <1>6 DEF OutInv

LEMMA DrainFrameOutput ==
  ASSUME IndInv, OutInv, DrainFrame
  PROVE  OutInv'
<1>1. PICK n, l : n = Taken /\ l = Line(pipe[1].kind, SubSeq(pipe, 1, n))
  OBVIOUS
<1>2. /\ LineLen = 1 /\ pipe[1].kind \in {"start", "end"}
      /\ n = 1 + pipe[1].len /\ Len(pipe) >= n
      /\ channel' = Append(channel, l) /\ pipe' = SubSeq(pipe, n + 1, Len(pipe))
      /\ UNCHANGED outside /\ reader = "reading"
  BY <1>1 DEF DrainFrame, Send, Control, Taken, outside
<1>3. pipe \in Seq(Chunks) /\ Len(pipe) \in Nat /\ 1 \in 1..Len(pipe)
  BY <1>2, LineLenFacts, StreamTypes
<1>4. /\ pipe[1].len \in {0, 1} /\ (pipe[1].kind = "start" => pipe[1].len = 0)
      /\ InPipe(1, pipe[1].kind)
  BY <1>3, ChunkLens DEF IndInv, Begins, InPipe
<1>5. n \in 0..Len(pipe) /\ (pipe[1].kind = "start" => n = 1)
  BY <1>2, <1>3, <1>4
<1>6. SubSeq(pipe, 1, n) \in Seq(Chunks)
  BY <1>3, <1>5, Front1
<1>7. l \in Lines /\ l.kind = pipe[1].kind /\ l.chunks = SubSeq(pipe, 1, n)
  BY <1>1, <1>2, <1>6 DEF Lines, Line
<1> QED
  BY <1>2, <1>4, <1>5, <1>7, DrainOutputs

LEMMA DrainOutputOutput ==
  ASSUME IndInv, OutInv, DrainOutput
  PROVE  OutInv'
<1>1. PICK n, l : n = LineLen /\ l = Line("output", SubSeq(pipe, 1, n))
  OBVIOUS
<1>2. /\ channel' = Append(channel, l) /\ pipe' = SubSeq(pipe, n + 1, Len(pipe))
      /\ UNCHANGED outside /\ reader = "reading"
  BY <1>1 DEF DrainOutput, Send, outside, history
<1>3. pipe \in Seq(Chunks) /\ n \in 0..Len(pipe)
  BY <1>1, LineLenFacts, StreamTypes
<1>4. SubSeq(pipe, 1, n) \in Seq(Chunks)
  BY <1>3, Front1
<1>5. l \in Lines /\ l.kind = "output" /\ l.chunks = SubSeq(pipe, 1, n)
  BY <1>1, <1>4 DEF Lines, Line
<1> QED
  BY <1>2, <1>3, <1>5, DrainOutputs

LEMMA DrainErrorOutput ==
  ASSUME IndInv, OutInv, DrainError
  PROVE  OutInv'
<1>1. PICK n, l : n = LineLen /\ l = Line("error", <<>>)
  OBVIOUS
<1>2. /\ channel' = Append(channel, l) /\ pipe' = SubSeq(pipe, n + 1, Len(pipe))
      /\ UNCHANGED outside /\ reader = "reading"
  BY <1>1 DEF DrainError, Send, outside, history
<1>3. n \in 0..Len(pipe)
  BY <1>1, LineLenFacts, StreamTypes
<1>4. l \in Lines /\ l.kind = "error" /\ l.chunks = <<>>
  BY <1>1 DEF Lines, Line
<1>5. Kept(l.chunks) = <<>>
  BY <1>4, NothingKept
<1>6. Fresh' /\ Closed' /\ Skipped' /\ Attributed' /\ Due' = Due
  BY <1>2, <1>3, <1>4, <1>5, DrainLine
<1>7. \A i, k : InChannel(i, k)' <=> InChannel(i, k) \/ (i = Len(channel) + 1 /\ k = "error")
  BY <1>2, <1>4, ChannelGrows
<1>8. Flow'
  <2> SUFFICES ASSUME Safe' PROVE Through' = Due'
    BY DEF Flow
  <2>1. PICK i : InChannel(i, "end")
    <3>1. PICK m : m = Len(channel) + 1
      OBVIOUS
    <3>2. InChannel(m, "error")'
      BY <1>7, <3>1
    <3>3. \E i : InChannel(i, "end")'
      BY <3>2 DEF Safe
    <3> QED
      BY <1>7, <3>3
  <2>2. \A j \in 1..Len(pipe) : ~InTime(pipe[j])
    BY <2>1 DEF OutInv, Closed
  <2>3. Safe /\ Due' = Due
    <3>1. Safe
      BY <1>2 DEF IndInv, Stops, Safe
    <3> QED
      BY <1>6, <3>1
  <2>4. PICK a, c, p : a = Kept(output) /\ c = channel /\ p = pipe
    OBVIOUS
  <2>5. a \in Seq(Chunks) /\ c \in Seq(Lines) /\ p \in Seq(Chunks)
    BY <2>4, StreamTypes
  <2>6. Kept(p) = <<>>
    BY <2>2, <2>4, <2>5, KeptNothing
  <2>7. Kept(SubSeq(p, n + 1, Len(p))) = <<>>
    <3>1. PICK q : q = SubSeq(p, n + 1, Len(p))
      OBVIOUS
    <3>2. q \in Seq(Chunks) /\ \A i2 \in 1..Len(q) : i2 + n \in 1..Len(p) /\ q[i2] = p[i2 + n]
      BY <1>2, <1>3, <2>4, <3>1, PipeCut
    <3>3. \A i2 \in 1..Len(q) : ~InTime(q[i2])
      BY <2>2, <2>4, <3>2
    <3> QED
      BY <3>1, <3>2, <3>3, KeptNothing
  <2>8. Held(Append(c, l)) = Held(c) \o <<>>
    BY <1>4, <1>5, <2>5, HeldAppend
  <2>9. Held(c) \in Seq(Chunks)
    BY <2>5, MarksType
  <2>10. Held(Append(c, l)) = Held(c)
    BY <2>8, <2>9, ConcatEmptySeq
  <2>11. Through = (a \o Held(c)) \o <<>> /\ Through' = (a \o Held(c)) \o <<>>
    BY <1>2, <2>4, <2>6, <2>7, <2>10 DEF Through, outside, thread
  <2> QED
    BY <2>3, <2>11 DEF OutInv, Flow
<1> QED
  BY <1>6, <1>8 DEF OutInv

(***************************************************************************)
(* The runner's steps.                                                     *)
(***************************************************************************)
\* A line leaves the channel.
LEMMA TakeLine ==
  ASSUME IndInv, OutInv, channel # <<>>, channel' = Tail(channel), UNCHANGED pipe
  PROVE  Closed' /\ Skipped'
<1>1. /\ channel \in Seq(Lines) /\ Len(channel') = Len(channel) - 1 /\ Len(channel) \in Nat \ {0}
      /\ \A i \in 1..(Len(channel) - 1) : channel'[i] = channel[i + 1]
  BY StreamTypes, Shrink
<1>2. \A i, k : InChannel(i, k)' => i \in Nat \ {0} /\ InChannel(i + 1, k)
                                     /\ channel'[i] = channel[i + 1]
  BY ChannelTail
<1>3. \A i, k : InPipe(i, k)' <=> InPipe(i, k)
  BY PipeSame
<1>4. Skipped'
  BY <1>2 DEF OutInv, Skipped
<1>5. \A i : InPipe(i, "end")' => \A j \in i..Len(pipe') : ~InTime(pipe'[j])
  BY <1>3 DEF OutInv, Closed
<1>6. \A i : InChannel(i, "end")' =>
        /\ \A j \in i..Len(channel') : Kept(channel'[j].chunks) = <<>>
        /\ \A j \in 1..Len(pipe') : ~InTime(pipe'[j])
  <2> SUFFICES ASSUME NEW i, InChannel(i, "end")'
               PROVE  /\ \A j \in i..Len(channel') : Kept(channel'[j].chunks) = <<>>
                      /\ \A j \in 1..Len(pipe') : ~InTime(pipe'[j])
    OBVIOUS
  <2>1. i \in Nat \ {0} /\ InChannel(i + 1, "end")
    BY <1>2
  <2>2. PICK m : m = i + 1
    OBVIOUS
  <2>3. /\ \A j \in m..Len(channel) : Kept(channel[j].chunks) = <<>>
        /\ \A j \in 1..Len(pipe) : ~InTime(pipe[j])
    BY <2>1, <2>2 DEF OutInv, Closed
  <2>4. \A j \in i..Len(channel') : j + 1 \in m..Len(channel) /\ j \in 1..(Len(channel) - 1)
    BY <1>1, <2>1, <2>2
  <2>5. \A j \in i..Len(channel') : Kept(channel'[j].chunks) = <<>>
    BY <1>1, <2>3, <2>4
  <2> QED
    BY <2>3, <2>5
<1>7. Closed'
  BY <1>5, <1>6 DEF Closed
<1> QED
  BY <1>4, <1>7

LEMMA ReceiveLineOutput ==
  ASSUME IndInv, OutInv, ReceiveLine
  PROVE  OutInv'
<1>1. /\ channel # <<>> /\ channel' = Tail(channel)
      /\ UNCHANGED <<stdin, pipe, runner, next, results, printed>>
      /\ \/ Head(channel).kind = "output" /\ output' = output \o Head(channel).chunks
         \/ Head(channel).kind = "start" /\ output' = output
  BY DEF ReceiveLine, Receiving, history
<1>2. /\ Head(channel) = channel[1] /\ InChannel(1, Head(channel).kind)
      /\ \A i, k : InChannel(i, k) => i = 1 \/ (i - 1 \in Nat /\ InChannel(i - 1, k)')
  BY <1>1, ChannelTail
<1>3. Closed' /\ Skipped'
  BY <1>1, TakeLine
<1>4. Through' = Through
  <2>1. \/ output' = output \o channel[1].chunks
        \/ output' = output /\ Kept(channel[1].chunks) = <<>>
    BY <1>1, <1>2 DEF OutInv, Skipped
  <2> QED
    BY <1>1, <2>1, ThroughTake
<1>5. Safe' => Safe
  <2>1. ~InChannel(1, "error")
    BY <1>1, <1>2 DEF InChannel
  <2>2. \A i : InChannel(i, "end")' => InChannel(i + 1, "end")
    BY <1>1, ChannelTail
  <2> QED
    BY <1>2, <2>1, <2>2 DEF Safe
<1>6. Due' = Due
  BY <1>1 DEF Due
<1>7. Flow'
  BY <1>4, <1>5, <1>6 DEF OutInv, Flow
<1>8. Fresh' /\ Attributed'
  BY <1>1 DEF OutInv, Fresh, Attributed
<1> QED
  BY <1>3, <1>7, <1>8 DEF OutInv

\* A case is reported: the cases after it have printed nothing.
LEMMA ReportFresh ==
  ASSUME IndInv, OutInv, next' = next + 1, UNCHANGED printed
  PROVE  Fresh'
<1>1. \A c \in Case : c > next => printed[c] = <<>>
  BY DEF OutInv, Fresh
<1>2. next \in Nat /\ \A c \in Case : c \in Nat
  BY ResultCases, StreamAssumption DEF Case
<1>3. \A c \in Case : c > next' \/ c = next' => c > next
  BY <1>2
<1>4. \A c \in Case : c > next' \/ c = next' => printed'[c] = <<>>
  BY <1>1, <1>3
<1> QED
  BY <1>4 DEF Fresh

LEMMA ReceiveEndOutput ==
  ASSUME IndInv, OutInv, ReceiveEnd
  PROVE  OutInv'
<1>1. PICK r : r = [of |-> next, status |-> "ended", by |-> Head(channel).chunks[1].of,
                    output |-> output]
  OBVIOUS
<1>2. /\ runner = "wait" /\ channel # <<>> /\ Head(channel).kind = "end"
      /\ results' = Append(results, r) /\ next' = next + 1 /\ runner' = "lease" /\ output' = <<>>
      /\ channel' = Tail(channel) /\ UNCHANGED <<stdin, pipe, printed>>
  BY <1>1 DEF ReceiveEnd, Receiving, Report, history
<1>3. /\ channel' \in Seq(Lines) /\ Head(channel) = channel[1] /\ InChannel(1, "end")
  BY <1>2, ChannelTail
<1>4. channel[1].chunks[1].of = next /\ Safe
  BY <1>3 DEF IndInv, Frames, Safe
<1>5. /\ \A j \in 1..Len(channel) : Kept(channel[j].chunks) = <<>>
      /\ \A j \in 1..Len(pipe) : ~InTime(pipe[j])
  BY <1>3 DEF OutInv, Closed
<1>6. next \in Case
  BY <1>2, ResultCases
<1>7. r \in Result /\ r.output = output
  BY <1>1, <1>3, <1>4, <1>6, StreamTypes DEF Result
<1>8. PICK o, c, p, d : o = output /\ c = channel /\ p = pipe /\ d = Tail(channel)
  OBVIOUS
<1>9. /\ o \in Seq(Chunks) /\ c \in Seq(Lines) /\ p \in Seq(Chunks) /\ d \in Seq(Lines)
  BY <1>2, <1>3, <1>8, StreamTypes
<1>10. Held(c) = <<>> /\ Kept(p) = <<>>
  BY <1>5, <1>8, <1>9, HeldNothing, KeptNothing
<1>11. Held(d) = <<>>
  <2>1. Len(d) = Len(c) - 1 /\ Len(c) \in Nat \ {0} /\ \A i \in 1..(Len(c) - 1) : d[i] = c[i + 1]
    BY <1>2, <1>8, <1>9, Shrink
  <2>2. \A i \in 1..Len(d) : i \in 1..(Len(c) - 1) /\ i + 1 \in 1..Len(c)
    BY <2>1
  <2>3. \A i \in 1..Len(d) : Kept(d[i].chunks) = <<>>
    BY <1>5, <1>8, <2>1, <2>2
  <2> QED
    BY <1>9, <2>3, HeldNothing
<1>12. PICK k : k = Kept(o)
  OBVIOUS
<1>13. k \in Seq(Chunks) /\ k \o <<>> = k /\ <<>> \o <<>> = <<>>
  BY <1>9, <1>12, MarkType, ConcatEmptySeq
<1>14. k = Kept(printed[next])
  <2>1. Through = (k \o <<>>) \o <<>>
    BY <1>8, <1>10, <1>12 DEF Through
  <2>2. Through = Kept(printed[next])
    BY <1>2, <1>4 DEF OutInv, Flow, Due
  <2> QED
    BY <1>13, <2>1, <2>2
<1>15. Flow'
  <2>1. Through' = (<<>> \o <<>>) \o <<>> /\ Due' = <<>>
    BY <1>2, <1>8, <1>10, <1>11, NothingKept DEF Through, Due
  <2> QED
    BY <1>13, <2>1 DEF Flow
<1>16. Closed' /\ Skipped'
  BY <1>2, TakeLine
<1>17. Fresh'
  BY <1>2, ReportFresh
<1>18. Attributed'
  <2>1. /\ \A i \in 1..Len(results') : i \in 1..Len(results) \/ i = next
        /\ \A i \in 1..Len(results) : results'[i] = results[i]
        /\ results'[next] = r
    BY <1>2, <1>6, <1>7, Reported
  <2>2. \A i \in 1..Len(results) :
          results[i].status = "ended" => Kept(results[i].output) = Kept(printed[i])
    BY DEF OutInv, Attributed
  <2>3. Kept(r.output) = Kept(printed[next])
    BY <1>7, <1>8, <1>12, <1>14
  <2> QED
    BY <1>2, <2>1, <2>2, <2>3 DEF Attributed
<1> QED
  BY <1>15, <1>16, <1>17, <1>18 DEF OutInv

LEMMA FailsOutput ==
  ASSUME IndInv, OutInv, next \in Case, NEW error \in {"crashed", "overran"}, Fails(error)
  PROVE  OutInv'
<1>1. PICK r : r = [of |-> next, status |-> error, by |-> Quit, output |-> <<>>]
  OBVIOUS
<1>2. /\ results' = Append(results, r) /\ next' = next + 1 /\ runner' = "lease" /\ output' = <<>>
      /\ pipe' = <<>> /\ channel' = <<>> /\ UNCHANGED printed
  BY <1>1 DEF Fails, Report, FreshWorker, history
<1>3. r \in Result /\ r.status # "ended"
  BY <1>1 DEF Result
<1>4. \A i, k : ~InPipe(i, k)' /\ ~InChannel(i, k)'
  BY <1>2 DEF InPipe, InChannel
<1>5. Flow'
  <2>1. Through' = (<<>> \o <<>>) \o <<>> /\ Due' = <<>>
    BY <1>2, NothingKept DEF Through, Due
  <2>2. <<>> \o <<>> = <<>>
    OBVIOUS
  <2> QED
    BY <2>1, <2>2 DEF Flow
<1>6. Closed' /\ Skipped'
  BY <1>4 DEF Closed, Skipped
<1>7. Fresh'
  BY <1>2, ReportFresh
<1>8. Attributed'
  <2>1. /\ \A i \in 1..Len(results') : i \in 1..Len(results) \/ i = next
        /\ \A i \in 1..Len(results) : results'[i] = results[i]
        /\ results'[next] = r
    BY <1>2, <1>3, Reported
  <2> QED
    BY <1>2, <1>3, <2>1 DEF OutInv, Attributed
<1> QED
  BY <1>5, <1>6, <1>7, <1>8 DEF OutInv

LEMMA InitOutput == Init => OutInv
<1> SUFFICES ASSUME Init PROVE OutInv
  OBVIOUS
<1>1. \A i, k : ~InPipe(i, k) /\ ~InChannel(i, k)
  BY DEF Init, InPipe, InChannel
<1>2. Fresh
  BY DEF Init, Fresh
<1>3. Flow
  <2>1. Through = (<<>> \o <<>>) \o <<>> /\ Due = <<>>
    BY NothingKept DEF Init, Through, Due
  <2>2. <<>> \o <<>> = <<>>
    OBVIOUS
  <2> QED
    BY <2>1, <2>2 DEF Flow
<1>4. Closed /\ Skipped
  BY <1>1 DEF Closed, Skipped
<1>5. Attributed
  BY DEF Init, Attributed
<1> QED
  BY <1>2, <1>3, <1>4, <1>5 DEF OutInv

LEMMA NextOutput == IndInv /\ OutInv /\ [Next]_vars => OutInv'
<1> SUFFICES ASSUME IndInv, OutInv, [Next]_vars PROVE OutInv'
  OBVIOUS
<1>1. CASE WorkerStep
  BY <1>1, WorkerOutput, QuietOutput DEF WorkerStep
<1>2. CASE CasePrints \/ Straggle \/ Dies \/ Hangs
  BY <1>2, CasePrintsOutput, StraggleOutput, QuietOutput
<1>3. CASE DrainStep
  BY <1>3, DrainFrameOutput, DrainOutputOutput, DrainErrorOutput, QuietOutput DEF DrainStep
<1>4. CASE RunnerStep
  <2>1. CASE SendFails \/ ReceiveError \/ Disconnected
    BY <2>1, NothingLost, FailsOutput DEF Crash
  <2>2. CASE TimedOut
    BY <2>2, ResultCases, FailsOutput DEF TimedOut
  <2> QED
    BY <1>4, <2>1, <2>2, ReceiveLineOutput, ReceiveEndOutput, QuietOutput DEF RunnerStep
<1>5. CASE Finished \/ UNCHANGED vars
  BY <1>5, QuietOutput DEF Finished
<1> QED
  BY <1>1, <1>2, <1>3, <1>4, <1>5 DEF Next

(***************************************************************************)
(* What else is collected: nothing that a case wrote after its end frame,  *)
(* and nothing of a case another worker ran.                               *)
(***************************************************************************)
NoEnd == \A i : ~InPipe(i, "end") /\ ~InChannel(i, "end")

\* What the case waited for writes from its end frame on.
Later(chunk) == chunk.of = next /\ chunk.kind \notin {"line", "text", "start", "junk"}

OwnOutput ==
  \A j \in 1..Len(output) :
    /\ output[j].of \in Mates(next) /\ output[j].kind # "junk"
    /\ Later(output[j]) => Ended /\ NoEnd

OwnChannel ==
  \A j \in 1..Len(channel) : \A m \in 1..Len(channel[j].chunks) :
    /\ channel[j].chunks[m].of \in Mates(next)
    /\ channel[j].kind = "output" => channel[j].chunks[m].kind # "junk"
    /\ Later(channel[j].chunks[m]) =>
         /\ Ended /\ \A i : ~InPipe(i, "end")
         /\ \A i : InChannel(i, "end") => i <= j

OwnPipe ==
  \A j \in 1..Len(pipe) :
    /\ pipe[j].of \in Mates(next)
    /\ Later(pipe[j]) => Ended /\ \A i : InPipe(i, "end") => i <= j

Sorted(i, chunk) ==
  IF chunk.of = i THEN InTime(chunk) \/ chunk.kind = "start" ELSE chunk.of \in Mates(i)

OwnResults ==
  \A i \in 1..Len(results) : results[i].status = "ended" =>
    \A j \in 1..Len(results[i].output) : Sorted(i, results[i].output[j])

OwnInv == OwnOutput /\ OwnChannel /\ OwnPipe /\ OwnResults

LEMMA OwnStill ==
  ASSUME IndInv, OwnInv, UNCHANGED <<pipe, channel, output, next, results>>, Ended => Ended'
  PROVE  OwnInv'
<1>1. /\ \A i, k : InPipe(i, k)' <=> InPipe(i, k)
      /\ \A i, k : InChannel(i, k)' <=> InChannel(i, k)
      /\ \A c : Mates(c)' = Mates(c)
      /\ \A e : Later(e)' <=> Later(e)
  BY PipeSame, ChannelSame DEF Mates, Later
<1>2. OwnOutput'
  BY <1>1 DEF OwnInv, OwnOutput, NoEnd
<1>3. OwnChannel'
  BY <1>1 DEF OwnInv, OwnChannel
<1>4. OwnPipe'
  BY <1>1 DEF OwnInv, OwnPipe
<1>5. OwnResults'
  BY <1>1 DEF OwnInv, OwnResults, Sorted, InTime
<1> QED
  BY <1>2, <1>3, <1>4, <1>5 DEF OwnInv

\* A chunk put into the pipe, at its end.
LEMMA OwnPut ==
  ASSUME IndInv, OwnInv, NEW e \in Chunks, pipe' = Append(pipe, e),
         UNCHANGED <<channel, output, next, results>>, Ended => Ended',
         e.of \in Mates(next), Later(e) => Ended', e.kind = "end" => ~Ended
  PROVE  OwnInv'
<1>1. /\ Len(pipe) \in Nat /\ Len(pipe') = Len(pipe) + 1 /\ pipe'[Len(pipe) + 1] = e
      /\ \A i \in 1..Len(pipe) : pipe'[i] = pipe[i]
      /\ \A i, k : InPipe(i, k)' <=> InPipe(i, k) \/ (i = Len(pipe) + 1 /\ e.kind = k)
      /\ \A i, k : InPipe(i, k) => i \in 1..Len(pipe)
  BY PipeGrows
<1>2. /\ \A i, k : InChannel(i, k)' <=> InChannel(i, k)
      /\ \A c : Mates(c)' = Mates(c)
      /\ \A f : Later(f)' <=> Later(f)
  BY ChannelSame DEF Mates, Later
<1>3. Ended => \A i : InPipe(i, "end")' <=> InPipe(i, "end")
  BY <1>1
<1>4. OwnOutput'
  BY <1>2, <1>3 DEF OwnInv, OwnOutput, NoEnd
<1>5. OwnChannel'
  BY <1>2, <1>3 DEF OwnInv, OwnChannel
<1>6. OwnPipe'
  <2>1. SUFFICES ASSUME NEW j \in 1..Len(pipe')
                 PROVE  /\ pipe'[j].of \in Mates(next)
                        /\ Later(pipe'[j]) => Ended' /\ \A i : InPipe(i, "end")' => i <= j
    BY <1>2 DEF OwnPipe, Later
  <2>2. j \in 1..Len(pipe) \/ j = Len(pipe) + 1
    BY <1>1
  <2>3. CASE j \in 1..Len(pipe)
    BY <1>1, <1>3, <2>3 DEF OwnInv, OwnPipe
  <2>4. CASE j = Len(pipe) + 1
    BY <1>1, <2>4
  <2> QED
    BY <2>2, <2>3, <2>4
<1>7. OwnResults'
  BY <1>2 DEF OwnInv, OwnResults, Sorted, InTime
<1> QED
  BY <1>4, <1>5, <1>6, <1>7 DEF OwnInv

\* A line moved from the pipe to the channel.
LEMMA OwnDrain ==
  ASSUME IndInv, OwnInv, NEW n \in 0..Len(pipe), NEW l \in Lines,
         channel' = Append(channel, l), pipe' = SubSeq(pipe, n + 1, Len(pipe)),
         UNCHANGED outside,
         \A m \in 1..Len(l.chunks) : m \in 1..n /\ l.chunks[m] = pipe[m],
         l.kind = "output" => \A m \in 1..Len(l.chunks) : l.chunks[m].kind # "junk",
         l.kind = "end" => InPipe(1, "end")
  PROVE  OwnInv'
<1>1. UNCHANGED <<worker, stdin, runner, next, output, results>> /\ n \in Nat
  BY PipeCut DEF outside, thread
<1>2. /\ Len(pipe) \in Nat /\ Len(pipe') = Len(pipe) - n
      /\ \A i \in 1..Len(pipe') : i + n \in 1..Len(pipe) /\ pipe'[i] = pipe[i + n]
      /\ \A i, k : InPipe(i, k)' => i \in Nat \ {0} /\ InPipe(i + n, k)
  BY PipeCut DEF InPipe
<1>3. /\ Len(channel) \in Nat /\ Len(channel') = Len(channel) + 1
      /\ channel'[Len(channel) + 1] = l
      /\ \A i \in 1..Len(channel) : channel'[i] = channel[i]
      /\ \A i, k : InChannel(i, k)' <=> InChannel(i, k) \/ (i = Len(channel) + 1 /\ l.kind = k)
      /\ \A i, k : InChannel(i, k) => i \in 1..Len(channel)
  BY ChannelGrows
<1>4. /\ \A c : Mates(c)' = Mates(c)
      /\ \A f : Later(f)' <=> Later(f)
      /\ Ended' <=> Ended
  BY <1>1 DEF Mates, Later, Ended
<1>5. ASSUME \A i : ~InPipe(i, "end")
      PROVE  \A i : ~InPipe(i, "end")' /\ (InChannel(i, "end")' <=> InChannel(i, "end"))
  BY <1>2, <1>3, <1>5
<1>6. OwnOutput'
  BY <1>1, <1>4, <1>5 DEF OwnInv, OwnOutput, NoEnd
<1>7. OwnChannel'
  <2>1. SUFFICES ASSUME NEW j \in 1..Len(channel'), NEW m \in 1..Len(channel'[j].chunks)
                 PROVE  /\ channel'[j].chunks[m].of \in Mates(next)
                        /\ channel'[j].kind = "output" => channel'[j].chunks[m].kind # "junk"
                        /\ Later(channel'[j].chunks[m]) =>
                             /\ Ended /\ \A i : ~InPipe(i, "end")'
                             /\ \A i : InChannel(i, "end")' => i <= j
    BY <1>1, <1>4 DEF OwnChannel, Later
  <2>2. CASE j \in 1..Len(channel)
    <3>1. /\ channel[j].chunks[m].of \in Mates(next)
          /\ channel[j].kind = "output" => channel[j].chunks[m].kind # "junk"
          /\ Later(channel[j].chunks[m]) =>
               /\ Ended /\ \A i : ~InPipe(i, "end")
               /\ \A i : InChannel(i, "end") => i <= j
      BY <1>3, <2>2 DEF OwnInv, OwnChannel
    <3> QED
      BY <1>3, <1>5, <2>2, <3>1
  <2>3. CASE j = Len(channel) + 1
    <3>1. m \in 1..Len(l.chunks) /\ channel'[j] = l
      BY <1>3, <2>3
    <3>2. m \in 1..n /\ m \in 1..Len(pipe) /\ l.chunks[m] = pipe[m]
      BY <1>2, <3>1
    <3>3. /\ pipe[m].of \in Mates(next)
          /\ Later(pipe[m]) => Ended /\ \A i : InPipe(i, "end") => i <= m
      BY <3>2 DEF OwnInv, OwnPipe
    <3>4. (\A i : InPipe(i, "end") => i <= m) => \A i : ~InPipe(i, "end")'
      <4>1. \A i \in Nat \ {0} : ~(i + n <= m)
        BY <1>1, <3>2
      <4> QED
        BY <1>2, <4>1
    <3>5. \A i : InChannel(i, "end")' => i <= j
      BY <1>3, <2>3
    <3> QED
      BY <3>1, <3>2, <3>3, <3>4, <3>5
  <2> QED
    BY <1>3, <2>2, <2>3
<1>8. OwnPipe'
  <2>1. SUFFICES ASSUME NEW j \in 1..Len(pipe')
                 PROVE  /\ pipe'[j].of \in Mates(next)
                        /\ Later(pipe'[j]) => Ended /\ \A i : InPipe(i, "end")' => i <= j
    BY <1>1, <1>4 DEF OwnPipe, Later
  <2>2. /\ pipe[j + n].of \in Mates(next) /\ pipe'[j] = pipe[j + n]
        /\ Later(pipe[j + n]) => Ended /\ \A i : InPipe(i, "end") => i <= j + n
    BY <1>2 DEF OwnInv, OwnPipe
  <2>3. \A i \in Nat : i + n <= j + n => i <= j
    BY <1>1
  <2> QED
    BY <1>2, <2>2, <2>3
<1>9. OwnResults'
  BY <1>1, <1>4 DEF OwnInv, OwnResults, Sorted, InTime
<1> QED
  BY <1>6, <1>7, <1>8, <1>9 DEF OwnInv

\* A line taken from the channel, collected or skipped.
LEMMA OwnReceiveLine ==
  ASSUME IndInv, OwnInv, ReceiveLine
  PROVE  OwnInv'
<1> PICK s : s = channel[1].chunks
  OBVIOUS
<1>1. /\ channel # <<>> /\ channel' = Tail(channel)
      /\ UNCHANGED <<worker, stdin, pipe, runner, next, results>>
      /\ \/ Head(channel).kind = "output" /\ output' = output \o Head(channel).chunks
         \/ Head(channel).kind = "start" /\ output' = output
  BY DEF ReceiveLine, Receiving
<1>2. /\ channel \in Seq(Lines) /\ output \in Seq(Chunks) /\ Head(channel) = channel[1]
      /\ Len(channel') = Len(channel) - 1 /\ Len(channel) \in Nat \ {0}
      /\ \A i \in 1..(Len(channel) - 1) : channel'[i] = channel[i + 1]
      /\ s \in Seq(Chunks) /\ 1 \in 1..Len(channel)
  <2>1. /\ Head(channel) \in Lines /\ Head(channel) = channel[1]
        /\ Len(channel') = Len(channel) - 1 /\ Len(channel) \in Nat \ {0}
        /\ \A i \in 1..(Len(channel) - 1) : channel'[i] = channel[i + 1]
    BY <1>1, StreamTypes, Shrink
  <2> QED
    BY <2>1, StreamTypes DEF Lines
<1>3. /\ \A i, k : InChannel(i, k)' => i \in Nat \ {0} /\ InChannel(i + 1, k)
      /\ ~InChannel(1, "end")
      /\ \A i, k : InPipe(i, k)' <=> InPipe(i, k)
  BY <1>1, <1>2, ChannelTail, PipeSame DEF InChannel
<1>4. /\ \A c : Mates(c)' = Mates(c)
      /\ \A f : Later(f)' <=> Later(f)
      /\ Ended' <=> Ended
  BY <1>1 DEF Mates, Later, Ended
<1>5. OwnOutput'
  <2>1. NoEnd => NoEnd'
    BY <1>3 DEF NoEnd
  <2>2. ASSUME NEW f, f.of \in Mates(next), f.kind # "junk", Later(f) => Ended /\ NoEnd
        PROVE  /\ f.of \in Mates(next)' /\ f.kind # "junk"
               /\ Later(f)' => Ended' /\ NoEnd'
    BY <1>1, <1>4, <2>1, <2>2
  <2>3. CASE output' = output
    <3>1. \A j \in 1..Len(output) :
            /\ output[j].of \in Mates(next) /\ output[j].kind # "junk"
            /\ Later(output[j]) => Ended /\ NoEnd
      BY DEF OwnInv, OwnOutput
    <3> QED
      BY <1>1, <1>4, <2>1, <2>3, <3>1 DEF OwnOutput, Later
  <2>4. CASE Head(channel).kind = "output" /\ output' = output \o Head(channel).chunks
    <3>1. IsJoin(Chunks, output, s, output \o s)
      BY <1>2, Joined
    <3>2. /\ Len(output') = Len(output) + Len(s) /\ Len(output) \in Nat /\ Len(s) \in Nat
          /\ \A i \in 1..Len(output) : output'[i] = output[i]
          /\ \A i \in 1..Len(s) : output'[Len(output) + i] = s[i]
      BY <1>2, <2>4, <3>1, Zenon DEF IsJoin
    <3>3. \A j \in 1..Len(output') :
            j \in 1..Len(output) \/ (j - Len(output) \in 1..Len(s) /\ Len(output) + (j - Len(output)) = j)
      BY <3>2
    <3>4. \A m \in 1..Len(s) :
            /\ s[m].of \in Mates(next) /\ s[m].kind # "junk"
            /\ Later(s[m]) => Ended /\ NoEnd
      <4>1. \A m \in 1..Len(s) :
              /\ s[m].of \in Mates(next) /\ s[m].kind # "junk"
              /\ Later(s[m]) => /\ Ended /\ \A i : ~InPipe(i, "end")
                                /\ \A i : InChannel(i, "end") => i <= 1
        BY <1>2, <2>4 DEF OwnInv, OwnChannel
      <4>2. (\A i : InChannel(i, "end") => i <= 1) => \A i : ~InChannel(i, "end")
        <5>1. \A i \in 1..Len(channel) : i <= 1 => i = 1
          BY <1>2
        <5> QED
          BY <1>3, <5>1 DEF InChannel
      <4> QED
        BY <4>1, <4>2 DEF NoEnd
    <3>5. \A j \in 1..Len(output) :
            /\ output[j].of \in Mates(next) /\ output[j].kind # "junk"
            /\ Later(output[j]) => Ended /\ NoEnd
      BY DEF OwnInv, OwnOutput
    <3>6. \A j \in 1..Len(output') :
            /\ output'[j].of \in Mates(next) /\ output'[j].kind # "junk"
            /\ Later(output'[j]) => Ended /\ NoEnd
      <4> SUFFICES ASSUME NEW j \in 1..Len(output')
                   PROVE  /\ output'[j].of \in Mates(next) /\ output'[j].kind # "junk"
                          /\ Later(output'[j]) => Ended /\ NoEnd
        OBVIOUS
      <4>1. CASE j \in 1..Len(output)
        BY <3>2, <3>5, <4>1
      <4>2. CASE j - Len(output) \in 1..Len(s) /\ Len(output) + (j - Len(output)) = j
        <5>1. output'[j] = s[j - Len(output)]
          BY <3>2, <4>2
        <5> QED
          BY <3>4, <4>2, <5>1
      <4> QED
        BY <3>3, <4>1, <4>2
    <3> QED
      BY <1>1, <1>4, <2>1, <3>6 DEF OwnOutput, Later
  <2> QED
    BY <1>1, <2>3, <2>4
<1>6. OwnChannel'
  <2>1. SUFFICES ASSUME NEW j \in 1..Len(channel'), NEW m \in 1..Len(channel'[j].chunks)
                 PROVE  /\ channel'[j].chunks[m].of \in Mates(next)
                        /\ channel'[j].kind = "output" => channel'[j].chunks[m].kind # "junk"
                        /\ Later(channel'[j].chunks[m]) =>
                             /\ Ended /\ \A i : ~InPipe(i, "end")'
                             /\ \A i : InChannel(i, "end")' => i <= j
    BY <1>1, <1>4 DEF OwnChannel, Later
  <2>2. j + 1 \in 1..Len(channel) /\ channel'[j] = channel[j + 1]
    BY <1>2
  <2>3. /\ channel[j + 1].chunks[m].of \in Mates(next)
        /\ channel[j + 1].kind = "output" => channel[j + 1].chunks[m].kind # "junk"
        /\ Later(channel[j + 1].chunks[m]) =>
             /\ Ended /\ \A i : ~InPipe(i, "end")
             /\ \A i : InChannel(i, "end") => i <= j + 1
    BY <2>1, <2>2 DEF OwnInv, OwnChannel
  <2>4. (\A i : InChannel(i, "end") => i <= j + 1) => \A i : InChannel(i, "end")' => i <= j
    <3>1. j \in Nat /\ \A i \in Nat : i + 1 <= j + 1 => i <= j
      BY <2>1
    <3> QED
      BY <1>3, <3>1
  <2> QED
    BY <1>3, <2>2, <2>3, <2>4
<1>7. OwnPipe'
  BY <1>1, <1>3, <1>4 DEF OwnInv, OwnPipe
<1>8. OwnResults'
  BY <1>1, <1>4 DEF OwnInv, OwnResults, Sorted, InTime
<1> QED
  BY <1>5, <1>6, <1>7, <1>8 DEF OwnInv

\* With the end frame at the head of the channel nothing later is collected.
LEMMA OwnReceiveEnd ==
  ASSUME IndInv, OwnInv, ReceiveEnd
  PROVE  OwnInv'
<1>1. PICK r : r = [of |-> next, status |-> "ended", by |-> Head(channel).chunks[1].of,
                    output |-> output]
  OBVIOUS
<1>2. /\ runner = "wait" /\ channel # <<>> /\ Head(channel).kind = "end"
      /\ results' = Append(results, r) /\ next' = next + 1 /\ output' = <<>>
      /\ channel' = Tail(channel) /\ UNCHANGED <<pipe, printed>>
  BY <1>1 DEF ReceiveEnd, Receiving, Report, history
<1>3. /\ InChannel(1, "end") /\ channel[1].chunks[1].of = next /\ Head(channel) = channel[1]
      /\ channel \in Seq(Lines) /\ Len(channel') = Len(channel) - 1 /\ Len(channel) \in Nat \ {0}
      /\ \A i \in 1..(Len(channel) - 1) : channel'[i] = channel[i + 1]
  <2>1. InChannel(1, "end") /\ Head(channel) = channel[1]
    BY <1>2, ChannelTail
  <2> QED
    BY <1>2, <2>1, StreamTypes, Shrink DEF IndInv, Frames
<1>4. next \in Case /\ next \in Nat /\ next + 1 # next
  BY <1>2, ResultCases
<1>5. r \in Result /\ r.status = "ended" /\ r.output = output
  BY <1>1, <1>3, <1>4, StreamTypes DEF Result
<1>6. /\ Mates(next) \subseteq Mates(next)' /\ next' \notin Mates(next)
      /\ \A c \in 1..next : Mates(c)' = Mates(c)
  <2>1. next' \notin Mates(next)
    BY <1>2, <1>4 DEF Mates
  <2> QED
    BY <1>2, <1>4, <1>5, <2>1, MatesReported
<1>7. OwnOutput'
  BY <1>2 DEF OwnOutput
<1>8. OwnChannel'
  <2>1. SUFFICES ASSUME NEW j \in 1..Len(channel'), NEW m \in 1..Len(channel'[j].chunks)
                 PROVE  /\ channel'[j].chunks[m].of \in Mates(next)' /\ channel'[j].chunks[m].of # next'
                        /\ channel'[j].kind = "output" => channel'[j].chunks[m].kind # "junk"
    BY DEF OwnChannel, Later
  <2>2. j + 1 \in 1..Len(channel) /\ channel'[j] = channel[j + 1]
    BY <1>3
  <2>3. /\ channel[j + 1].chunks[m].of \in Mates(next)
        /\ channel[j + 1].kind = "output" => channel[j + 1].chunks[m].kind # "junk"
    BY <2>1, <2>2 DEF OwnInv, OwnChannel
  <2> QED
    BY <1>6, <2>2, <2>3
<1>9. OwnPipe'
  <2>1. \A j \in 1..Len(pipe) : pipe[j].of \in Mates(next)
    BY DEF OwnInv, OwnPipe
  <2>2. \A j \in 1..Len(pipe') : pipe'[j].of \in Mates(next)' /\ pipe'[j].of # next'
    BY <1>2, <1>6, <2>1
  <2> QED
    BY <2>2 DEF OwnPipe, Later
<1>10. OwnResults'
  <2>1. /\ \A i \in 1..Len(results') : i \in 1..Len(results) \/ i = next
        /\ \A i \in 1..Len(results) : results'[i] = results[i]
        /\ results'[next] = r
    BY <1>2, <1>4, <1>5, Reported
  <2>2. PICK c : c = next
    OBVIOUS
  <2>3. \A j \in 1..Len(output) : IF output[j].of = c THEN InTime(output[j]) \/ output[j].kind = "start"
                                  ELSE output[j].of \in Mates(c)
    <3>1. \A j \in 1..Len(output) : output[j].of \in Mates(next) /\ output[j].kind # "junk"
                                    /\ ~Later(output[j])
      BY <1>3 DEF OwnInv, OwnOutput, NoEnd
    <3> QED
      BY <2>2, <3>1 DEF Later, InTime
  <2>4. c \in 1..next /\ \A i \in 1..Len(results) : i \in 1..next
    BY <1>4, <2>2, ResultCases
  <2>5. \A i \in 1..Len(results) : results[i].status = "ended" =>
          \A j \in 1..Len(results[i].output) :
            IF results[i].output[j].of = i
            THEN InTime(results[i].output[j]) \/ results[i].output[j].kind = "start"
            ELSE results[i].output[j].of \in Mates(i)
    BY DEF OwnInv, OwnResults, Sorted
  <2>6. ASSUME NEW i \in 1..Len(results'), results'[i].status = "ended"
        PROVE  \A j \in 1..Len(results'[i].output) :
                 IF results'[i].output[j].of = i
                 THEN InTime(results'[i].output[j]) \/ results'[i].output[j].kind = "start"
                 ELSE results'[i].output[j].of \in Mates(i)'
    <3>1. CASE i = c
      <4>1. results'[i].output = output /\ Mates(i)' = Mates(c)
        BY <1>5, <1>6, <2>1, <2>2, <2>4, <3>1
      <4> QED
        BY <2>3, <3>1, <4>1
    <3>2. CASE i \in 1..Len(results)
      <4>1. results'[i] = results[i] /\ Mates(i)' = Mates(i)
        BY <1>6, <2>1, <2>4, <3>2
      <4> QED
        BY <2>5, <2>6, <3>2, <4>1
    <3> QED
      BY <2>1, <2>2, <3>1, <3>2
  <2> QED
    BY <2>6 DEF OwnResults, Sorted, InTime
<1> QED
  BY <1>7, <1>8, <1>9, <1>10 DEF OwnInv

LEMMA OwnFails ==
  ASSUME IndInv, OwnInv, next \in Case, NEW error \in {"crashed", "overran"}, Fails(error)
  PROVE  OwnInv'
<1>1. PICK r : r = [of |-> next, status |-> error, by |-> Quit, output |-> <<>>]
  OBVIOUS
<1>2. /\ results' = Append(results, r) /\ next' = next + 1 /\ output' = <<>>
      /\ pipe' = <<>> /\ channel' = <<>> /\ UNCHANGED printed
  BY <1>1 DEF Fails, Report, FreshWorker, history
<1>3. r \in Result /\ r.status # "ended"
  BY <1>1 DEF Result
<1>4. OwnOutput' /\ OwnChannel' /\ OwnPipe'
  BY <1>2 DEF OwnOutput, OwnChannel, OwnPipe
<1>5. OwnResults'
  <2>1. /\ \A i \in 1..Len(results') : i \in 1..Len(results) \/ i = next
        /\ \A i \in 1..Len(results) : results'[i] = results[i]
        /\ results'[next] = r
    BY <1>2, <1>3, Reported
  <2>2. \A i \in 1..Len(results) : Mates(i)' = Mates(i)
    <3>1. \A i \in 1..Len(results) : i \in 1..next
      BY ResultCases
    <3> QED
      BY <1>2, <1>3, <3>1, MatesReported
  <2>3. ASSUME NEW i \in 1..Len(results'), results'[i].status = "ended"
        PROVE  i \in 1..Len(results) /\ results'[i] = results[i]
    BY <1>3, <2>1, <2>3
  <2>4. \A i \in 1..Len(results) : results[i].status = "ended" =>
          \A j \in 1..Len(results[i].output) :
            IF results[i].output[j].of = i
            THEN InTime(results[i].output[j]) \/ results[i].output[j].kind = "start"
            ELSE results[i].output[j].of \in Mates(i)
    BY DEF OwnInv, OwnResults, Sorted
  <2>5. ASSUME NEW i \in 1..Len(results'), results'[i].status = "ended"
        PROVE  \A j \in 1..Len(results'[i].output) :
                 IF results'[i].output[j].of = i
                 THEN InTime(results'[i].output[j]) \/ results'[i].output[j].kind = "start"
                 ELSE results'[i].output[j].of \in Mates(i)'
    BY <2>2, <2>3, <2>4, <2>5
  <2> QED
    BY <2>5 DEF OwnResults, Sorted, InTime
<1> QED
  BY <1>4, <1>5 DEF OwnInv

\* The worker's writes: a case writes in time before its end frame, and anything
\* else from then on.
LEMMA OwnWrites ==
  ASSUME IndInv, OwnInv, ReadRun \/ CasePrints \/ WriteEnd \/ WriteMessage \/ Straggle
  PROVE  OwnInv'
<1>1. UNCHANGED <<channel, runner, next, output, results>>
  BY DEF ReadRun, CasePrints, WriteEnd, WriteMessage, Straggle, thread, history
<1>2. next \in Case => next \in Mates(next)
  BY MatesFacts
<1>3. CASE ReadRun
  <2>1. /\ worker = "idle" /\ stdin # <<>> /\ Head(stdin) # Quit /\ current' = Head(stdin)
        /\ pipe' = Append(pipe, Chunk("start", current'))
    BY <1>3 DEF ReadRun
  <2>2. runner = "wait" /\ stdin = <<next>> /\ next \in Case
    <3>1. stdin \in Seq(Case \cup {Quit})
      BY DEF IndInv, Types
    <3>2. 1 \in 1..Len(stdin) /\ stdin[1] = Head(stdin)
      BY <2>1, <3>1
    <3> QED
      BY <2>1, <3>2 DEF IndInv, Requests
  <2>3. PICK e : e = Chunk("start", next)
    OBVIOUS
  <2>4. e \in Chunks /\ e.of = next /\ e.kind = "start" /\ pipe' = Append(pipe, e)
    BY <2>1, <2>2, <2>3 DEF Chunk, Chunks
  <2>5. ~Ended
    BY <2>2 DEF Ended
  <2> QED
    BY <1>1, <1>2, <2>2, <2>4, <2>5, OwnPut DEF Later
<1>4. CASE CasePrints
  <2>1. worker = "running" /\ runner = "wait" /\ current = next /\ next \in Case /\ ~Ended
    BY <1>4, ResultCases DEF CasePrints, IndInv, Requests, Ended
  <2>2. PICK k \in Prints \ LateKinds : pipe' = Append(pipe, Chunk(k, next))
    BY <1>4, <2>1 DEF CasePrints
  <2>3. PICK e : e = Chunk(k, next)
    OBVIOUS
  <2>4. e \in Chunks /\ e.of = next /\ e.kind \in {"line", "text", "junk"}
    BY <2>1, <2>2, <2>3, StreamAssumption DEF Chunk, Chunks, PrintKinds, LateKinds
  <2> QED
    BY <1>1, <1>2, <2>1, <2>2, <2>3, <2>4, OwnPut DEF Later
<1>5. CASE WriteEnd
  <2>1. worker = "running" /\ runner = "wait" /\ current = next /\ next \in Case /\ ~Ended
        /\ stdin = <<>> /\ stdin' = stdin
    BY <1>5, ResultCases DEF WriteEnd, IndInv, Requests, Ended
  <2>2. PICK n \in {0, 1} : /\ pipe' = Append(pipe, EndFrame(current, n))
                            /\ worker' = IF n = 0 THEN "idle" ELSE "ending"
    BY <1>5, StreamAssumption DEF WriteEnd
  <2>3. PICK e : e = EndFrame(current, n)
    OBVIOUS
  <2>4. e \in Chunks /\ e.of = next
    BY <2>1, <2>3 DEF EndFrame, Chunks
  <2>5. Ended'
    BY <1>1, <2>1, <2>2 DEF Ended
  <2> QED
    BY <1>1, <1>2, <2>1, <2>2, <2>3, <2>4, <2>5, OwnPut
<1>6. CASE WriteMessage
  <2>1. worker = "ending" /\ worker' = "idle" /\ pipe' = Append(pipe, Chunk("message", current))
        /\ stdin' = stdin
    BY <1>6 DEF WriteMessage
  <2>2. current \in Case /\ current \in Mates(next) /\ (current = next => Ended')
    <3>1. CASE runner = "wait" /\ current = next /\ stdin = <<>>
      BY <1>1, <1>2, <2>1, <3>1, ResultCases DEF Ended
    <3>2. CASE next > 1 /\ current = next - 1 /\ results[next - 1].status = "ended"
      <4>1. current \in Case /\ current <= next /\ current # next
            /\ \A j \in current..(next - 1) : j = next - 1
        BY <3>2, ResultCases, StreamAssumption DEF Case
      <4> QED
        BY <3>2, <4>1 DEF Mates
    <3> QED
      BY <2>1, <3>1, <3>2 DEF IndInv, Requests
  <2>3. PICK e : e = Chunk("message", current)
    OBVIOUS
  <2>4. e \in Chunks /\ e.of = current /\ e.kind = "message"
    BY <2>2, <2>3 DEF Chunk, Chunks
  <2>5. Ended => Ended'
    BY <1>1, <2>1 DEF Ended
  <2> QED
    BY <1>1, <2>1, <2>2, <2>3, <2>4, <2>5, OwnPut DEF Later
<1>7. CASE Straggle
  <2>1. PICK k \in LateKinds, c \in Mates(next) :
          /\ c \in completed \/ (c = current /\ worker = "ending")
          /\ pipe' = Append(pipe, Chunk(k, c))
    BY <1>7 DEF Straggle
  <2>2. Up /\ UNCHANGED <<worker, stdin>>
    BY <1>7 DEF Straggle
  <2>3. c \in Case /\ (c = next => Ended)
    <3>1. c \in Case
      BY MatesFacts
    <3>2. CASE c \in completed
      BY <2>2, <3>1, <3>2 DEF IndInv, Completed, Ended
    <3>3. CASE c = current /\ worker = "ending"
      <4>1. (runner = "wait" /\ stdin = <<>>) \/ (next > 1 /\ current = next - 1)
        BY <3>3 DEF IndInv, Requests
      <4> QED
        BY <3>1, <3>3, <4>1, ResultCases DEF Ended
    <3> QED
      BY <2>1, <3>1, <3>2, <3>3
  <2>4. PICK e : e = Chunk(k, c)
    OBVIOUS
  <2>5. e \in Chunks /\ e.of = c /\ e.kind # "end"
    BY <2>3, <2>4 DEF Chunk, Chunks, PrintKinds, LateKinds
  <2>6. Ended' <=> Ended
    BY <1>1, <2>2 DEF Ended
  <2> QED
    BY <1>1, <2>1, <2>3, <2>4, <2>5, <2>6, OwnPut DEF Later
<1> QED
  BY <1>3, <1>4, <1>5, <1>6, <1>7

LEMMA OwnDrains ==
  ASSUME IndInv, OwnInv, DrainFrame \/ DrainOutput \/ DrainError
  PROVE  OwnInv'
<1>1. pipe \in Seq(Chunks) /\ Len(pipe) \in Nat /\ LineLen \in 0..Len(pipe)
  BY LineLenFacts, StreamTypes
<1>2. ASSUME NEW n \in 0..Len(pipe)
      PROVE  /\ SubSeq(pipe, 1, n) \in Seq(Chunks) /\ Len(SubSeq(pipe, 1, n)) = n
             /\ \A m \in 1..n : SubSeq(pipe, 1, n)[m] = pipe[m]
  BY <1>1, Front1
<1>3. CASE DrainFrame
  <2>1. PICK n, l : n = Taken /\ l = Line(pipe[1].kind, SubSeq(pipe, 1, n))
    OBVIOUS
  <2>2. /\ LineLen = 1 /\ pipe[1].kind \in {"start", "end"}
        /\ n = 1 + pipe[1].len /\ Len(pipe) >= n
        /\ channel' = Append(channel, l) /\ pipe' = SubSeq(pipe, n + 1, Len(pipe))
        /\ UNCHANGED outside
    BY <1>3, <2>1 DEF DrainFrame, Send, Control, Taken, outside
  <2>3. 1 \in 1..Len(pipe) /\ pipe[1].len \in {0, 1} /\ InPipe(1, pipe[1].kind)
    BY <1>1, <2>2, ChunkLens DEF InPipe
  <2>4. n \in 0..Len(pipe)
    BY <1>1, <2>2, <2>3
  <2>5. l \in Lines /\ l.kind = pipe[1].kind /\ l.chunks = SubSeq(pipe, 1, n)
    BY <1>2, <2>1, <2>2, <2>4 DEF Lines, Line
  <2>6. \A m \in 1..Len(l.chunks) : m \in 1..n /\ l.chunks[m] = pipe[m]
    BY <1>2, <2>4, <2>5
  <2> QED
    BY <2>2, <2>3, <2>4, <2>5, <2>6, OwnDrain
<1>4. CASE DrainOutput
  <2>1. PICK n, l : n = LineLen /\ l = Line("output", SubSeq(pipe, 1, n))
    OBVIOUS
  <2>2. /\ channel' = Append(channel, l) /\ pipe' = SubSeq(pipe, n + 1, Len(pipe))
        /\ UNCHANGED outside /\ \A m \in 1..n : pipe[m].kind # "junk"
    BY <1>4, <2>1 DEF DrainOutput, Send, outside, history, IsJunk
  <2>3. l \in Lines /\ l.kind = "output" /\ l.chunks = SubSeq(pipe, 1, n)
    BY <1>1, <1>2, <2>1 DEF Lines, Line
  <2>4. \A m \in 1..Len(l.chunks) : m \in 1..n /\ l.chunks[m] = pipe[m]
    BY <1>1, <1>2, <2>1, <2>3
  <2> QED
    BY <1>1, <2>1, <2>2, <2>3, <2>4, OwnDrain
<1>5. CASE DrainError
  <2>1. PICK n, l : n = LineLen /\ l = Line("error", <<>>)
    OBVIOUS
  <2>2. /\ channel' = Append(channel, l) /\ pipe' = SubSeq(pipe, n + 1, Len(pipe))
        /\ UNCHANGED outside
    BY <1>5, <2>1 DEF DrainError, Send, outside, history
  <2>3. l \in Lines /\ l.kind = "error" /\ Len(l.chunks) = 0
    BY <2>1 DEF Lines, Line
  <2>4. 1..Len(l.chunks) = {}
    BY <2>3
  <2>5. n \in 0..Len(pipe)
    BY <1>1, <2>1
  <2>6. l.kind # "output" /\ l.kind # "end"
    BY <2>3
  <2> QED
    BY <2>2, <2>3, <2>4, <2>5, <2>6, OwnDrain
<1> QED
  BY <1>3, <1>4, <1>5

LEMMA NextOwn == IndInv /\ OwnInv /\ [Next]_vars => OwnInv'
<1> SUFFICES ASSUME IndInv, OwnInv, [Next]_vars PROVE OwnInv'
  OBVIOUS
<1>1. CASE ReadRun \/ CasePrints \/ WriteEnd \/ WriteMessage \/ Straggle
  BY <1>1, OwnWrites
<1>2. CASE DrainFrame \/ DrainOutput \/ DrainError
  BY <1>2, OwnDrains
<1>3. CASE ReadQuit \/ Dies \/ Hangs \/ DrainEnds \/ SendRun \/ SendQuit \/ UNCHANGED vars
  <2>1. UNCHANGED <<pipe, channel, output, next, results>>
    BY <1>3 DEF ReadQuit, Dies, Hangs, DrainEnds, SendRun, SendQuit, vars, thread, history
  <2>2. Ended => Ended'
    BY <1>3 DEF ReadQuit, Dies, Hangs, DrainEnds, SendRun, SendQuit, vars, thread, Ended
  <2> QED
    BY <2>1, <2>2, OwnStill
<1>4. CASE RunnerStep
  <2>1. CASE SendFails \/ ReceiveError \/ Disconnected
    BY <2>1, NothingLost, OwnFails DEF Crash
  <2>2. CASE TimedOut
    BY <2>2, ResultCases, OwnFails DEF TimedOut
  <2> QED
    BY <1>3, <1>4, <2>1, <2>2, OwnReceiveLine, OwnReceiveEnd DEF RunnerStep
<1> QED
  BY <1>1, <1>2, <1>3, <1>4 DEF Next, WorkerStep, DrainStep, Finished

\* A case that ended is reported with what it printed in time, whole and in
\* order: nothing is lost on the way through the pipe, the drain thread and the
\* channel.  Of its own there is nothing else but its start frame, and anything
\* that is not its own is of a case the same worker ran before: for any number of
\* cases, whatever they print and when, and whichever workers die, hang or
\* overrun.
THEOREM OutputOfItsCase == Spec => []OutputAttributed
<1>1. Init => OutInv /\ OwnInv
  <2>1. Init => OwnInv
    BY DEF Init, OwnInv, OwnOutput, OwnChannel, OwnPipe, OwnResults
  <2> QED
    BY <2>1, InitOutput
<1>2. IndInv /\ OutInv /\ OwnInv /\ [Next]_vars => OutInv' /\ OwnInv'
  BY NextOutput, NextOwn
<1>3. IndInv /\ OutInv /\ OwnInv => OutputAttributed
  <2> SUFFICES ASSUME IndInv, OutInv, OwnInv PROVE OutputAttributed
    OBVIOUS
  <2>1. DOMAIN results = 1..Len(results)
    BY DEF IndInv, Types
  <2>2. \A i \in 1..Len(results) : DOMAIN results[i].output = 1..Len(results[i].output)
    BY DEF IndInv, Types, Result
  <2>3. \A i \in 1..Len(results) :
          results[i].status = "ended" => Kept(results[i].output) = Kept(printed[i])
    BY DEF OutInv, Attributed
  <2>4. \A i \in 1..Len(results) : results[i].status = "ended" =>
          \A j \in DOMAIN results[i].output :
            LET chunk == results[i].output[j]
            IN  IF chunk.of = i THEN InTime(chunk) \/ chunk.kind = "start"
                ELSE chunk.of \in Mates(i)
    BY <2>2 DEF OwnInv, OwnResults, Sorted
  <2> QED
    BY <2>1, <2>3, <2>4 DEF OutputAttributed
<1> QED
  BY <1>1, <1>2, <1>3, StreamInvariance, PTL DEF Spec
=============================================================================
