----------------------------- MODULE LoopProofs ------------------------------
(* What is proved of the two parts that loop over lists: the log reader, whose *)
(* lists are bytes and lines, and the firewall, whose list is the ports of a   *)
(* server.  Each has an inductive invariant of its own.                        *)
(*                                                                             *)
(* Their loops are written as recursive functions.  That such a function       *)
(* exists, and what it computes, is shown by induction on the number of        *)
(* rounds; induction itself comes from the well-foundedness of < on the        *)
(* natural numbers, as a statement about sets of numbers.                      *)
EXTENDS Firewall, LogTail, SequenceTheorems, WellFoundedInduction, TLAPS

\* A set of numbers that is not empty has a least one.
LEMMA LeastNumber ==
    ASSUME NEW T \in SUBSET Nat, T # {}
    PROVE  \E x \in T : \A y \in T : x <= y
<1>1. PICK x \in T : \A y \in T : ~ (<<y, x>> \in OpToRel(<, Nat))
  <2>1. IsWellFoundedOn(OpToRel(<, Nat), Nat) BY NatLessThanWellFounded
  <2> HIDE DEF OpToRel
  <2> QED BY <2>1, WFMin
<1>2. \A y \in T : ~(y < x) BY <1>1 DEF OpToRel
<1> QED BY <1>2

\* Induction: a set of numbers with 0 and the successor of each is all of them.
LEMMA Induction ==
    ASSUME NEW S \in SUBSET Nat, 0 \in S, \A n \in S : n + 1 \in S
    PROVE  S = Nat
<1> SUFFICES ASSUME Nat \ S # {} PROVE FALSE OBVIOUS
<1>1. PICK x \in Nat \ S : \A y \in Nat \ S : x <= y BY LeastNumber
<1>2. x # 0 /\ x - 1 \in Nat BY <1>1
<1>3. x - 1 \in S BY <1>1, <1>2
<1> QED BY <1>1, <1>2, <1>3

\* f[k] is the value after k rounds of a loop that begins with a and in which go
\* makes a value of the last one and the number of the round.
IsRun(f, V, a, go, n) ==
    f \in [0..n -> V] /\ f[0] = a /\ \A k \in 1..n : f[k] = go[<<f[k - 1], k>>]

\* The loop can be run for any number of rounds.
LEMMA Rounds ==
    ASSUME NEW V, NEW a \in V, NEW go \in [V \X Nat -> V], NEW m \in Nat
    PROVE  \E f : IsRun(f, V, a, go, m)
<1> DEFINE Runs == {n \in Nat : \E f : IsRun(f, V, a, go, n)}
<1>1. 0 \in Runs
  <2> DEFINE h == [k \in 0..0 |-> a]
  <2>1. h \in [0..0 -> V] /\ h[0] = a /\ 1..0 = {} BY SMT
  <2> HIDE DEF h
  <2>2. IsRun(h, V, a, go, 0) BY <2>1 DEF IsRun
  <2> QED BY Zenon, <2>2
<1>2. ASSUME NEW n \in Runs PROVE n + 1 \in Runs
  <2>1. n \in Nat /\ n + 1 \in Nat OBVIOUS
  <2>2. PICK f : IsRun(f, V, a, go, n) BY Zenon
  <2> DEFINE h == [k \in 0..(n + 1) |-> IF k <= n THEN f[k] ELSE go[<<f[n], n + 1>>]]
  <2>3. f \in [0..n -> V] /\ f[0] = a BY Zenon, <2>2 DEF IsRun
  <2>4. n \in 0..n /\ f[n] \in V /\ go[<<f[n], n + 1>>] \in V BY <2>1, <2>3
  <2>5. h \in [0..(n + 1) -> V] BY <2>1, <2>3, <2>4
  <2>6. /\ \A k \in 0..n : h[k] = f[k]
        /\ h[n + 1] = go[<<f[n], n + 1>>] /\ h[0] = f[0]
    BY <2>1
  <2> HIDE DEF h
  <2>7. ASSUME NEW k \in 1..(n + 1) PROVE h[k] = go[<<h[k - 1], k>>]
    <3>1. CASE k = n + 1
      <4>1. k - 1 = n BY <2>1, <3>1
      <4> QED BY Zenon, <2>4, <2>6, <3>1, <4>1
    <3>2. CASE k # n + 1
      <4>1. k \in 1..n /\ k \in 0..n /\ k - 1 \in 0..n BY <2>1, <3>2
      <4> QED BY Zenon, <2>2, <2>6, <4>1 DEF IsRun
    <3> QED BY <3>1, <3>2
  <2>8. IsRun(h, V, a, go, n + 1) BY Zenon, <2>3, <2>5, <2>6, <2>7 DEF IsRun
  <2> QED BY Zenon, <2>1, <2>8
<1>3. Runs \in SUBSET Nat BY Zenon
<1>4. Runs = Nat
  <2> HIDE DEF Runs
  <2> QED BY Zenon, <1>1, <1>2, <1>3, Induction
<1> QED BY Zenon, <1>4

-----------------------------------------------------------------------------
\* LogTail

Lines == Seq(Seq(Nat))
Start == [lines |-> <<>>, next |-> 1]
Reads == [lines : Lines, next : Nat \ {0}]

\* A line without its CR is a line.
LEMMA StripCrType ==
    ASSUME NEW line \in Seq(Nat)
    PROVE  StripCr(line) \in Seq(Nat)
BY DEF StripCr

\* Reading a byte leaves a reader.
LEMMA NextByteType ==
    ASSUME NEW s \in Seq(Nat), NEW n \in 1..Len(s), NEW r \in Reads
    PROVE  NextByte(r, s, n) \in Reads
<1>1. SubSeq(s, r.next, n - 1) \in Seq(Nat)
  BY DEF Reads
<1>2. StripCr(SubSeq(s, r.next, n - 1)) \in Seq(Nat)
  BY <1>1, StripCrType
<1> QED BY <1>2 DEF NextByte, Reads, Lines

\* Reading(s) is the function its definition describes.
LEMMA ReadingRuns ==
    ASSUME NEW s \in Seq(Nat)
    PROVE  /\ Reading(s)[0] = Start
           /\ \A n \in 1..Len(s) : Reading(s)[n] = NextByte(Reading(s)[n - 1], s, n)
           /\ \A n \in 0..Len(s) : Reading(s)[n] \in Reads
<1> DEFINE go == [x \in Reads \X Nat |->
                        IF x[2] \in 1..Len(s) THEN NextByte(x[1], s, x[2]) ELSE x[1]]
           Def(f) == f = [n \in 0..Len(s) |-> IF n = 0 THEN [lines |-> <<>>, next |-> 1]
                                              ELSE NextByte(f[n - 1], s, n)]
<1>1. Len(s) \in Nat OBVIOUS
<1>2. Start \in Reads BY DEF Start, Reads, Lines
<1>3. go \in [Reads \X Nat -> Reads]
  <2>1. ASSUME NEW x \in Reads \X Nat PROVE go[x] \in Reads
    <3>1. x[1] \in Reads OBVIOUS
    <3> QED BY Zenon, <3>1, NextByteType
  <2> QED BY Zenon, <2>1
<1>4. PICK f : IsRun(f, Reads, Start, go, Len(s))
  <2> HIDE DEF go
  <2> QED BY Zenon, <1>1, <1>2, <1>3, Rounds
<1>5. ASSUME NEW k \in 1..Len(s) PROVE f[k] = NextByte(f[k - 1], s, k)
  <2>1. k - 1 \in 0..Len(s) /\ k \in Nat BY <1>1
  <2>2. f[k - 1] \in Reads BY ZenonT(60), <1>4, <2>1 DEF IsRun
  <2>3. <<f[k - 1], k>> \in Reads \X Nat BY Zenon, <2>1, <2>2
  <2>4. go[<<f[k - 1], k>>] = NextByte(f[k - 1], s, k) BY Zenon, <2>3
  <2> QED BY Zenon, <1>4, <2>4 DEF IsRun
<1> HIDE DEF go
<1>6. \A n \in 0..Len(s) : n = 0 \/ (n # 0 /\ n \in 1..Len(s)) BY <1>1
<1>7. \A n \in 1..Len(s) : n # 0 /\ n \in 0..Len(s) /\ n - 1 \in 0..Len(s) BY <1>1
<1>8. Def(f)
  <2>1. ASSUME NEW n \in 0..Len(s)
        PROVE  f[n] = IF n = 0 THEN [lines |-> <<>>, next |-> 1] ELSE NextByte(f[n - 1], s, n)
    <3>1. CASE n = 0 BY Zenon, <1>4, <3>1 DEF Start, IsRun
    <3>2. CASE n # 0 BY Zenon, <1>5, <1>6, <3>2
    <3> QED BY <3>1, <3>2
  <2> QED BY Zenon, <1>4, <2>1 DEF IsRun
<1>9. Def(Reading(s))
  <2>1. Reading(s) = CHOOSE g : Def(g) BY Zenon DEF Reading
  <2> HIDE DEF Def
  <2> QED BY Zenon, <1>8, <2>1
<1> DEFINE R == Reading(s)
<1> HIDE DEF R
<1>10. 0 \in 0..Len(s) BY <1>1
<1>11. Def(R) BY Zenon, <1>9 DEF R
<1>12. R[0] = Start BY Zenon, <1>10, <1>11 DEF Start
<1>13. ASSUME NEW n \in 1..Len(s) PROVE R[n] = NextByte(R[n - 1], s, n)
  <2>1. R[n] = IF n = 0 THEN [lines |-> <<>>, next |-> 1] ELSE NextByte(R[n - 1], s, n)
    BY Zenon, <1>7, <1>11
  <2> QED BY Zenon, <1>7, <2>1
<1> HIDE DEF Def
<1>14. \A n \in 0..Len(s) : R[n] \in Reads
  <2> DEFINE Typed == {n \in Nat : n \in 0..Len(s) => R[n] \in Reads}
  <2>1. 0 \in Typed BY Zenon, <1>2, <1>12
  <2>2. ASSUME NEW n \in Typed PROVE n + 1 \in Typed
    <3>1. n \in Nat /\ n + 1 \in Nat /\ (n + 1) - 1 = n OBVIOUS
    <3>2. n + 1 \in 0..Len(s) => n + 1 \in 1..Len(s) /\ n \in 0..Len(s) BY <1>1, <3>1
    <3>3. n + 1 \in 0..Len(s) => R[n + 1] = NextByte(R[n], s, n + 1) BY Zenon, <1>13, <3>1, <3>2
    <3> QED BY Zenon, <3>1, <3>2, <3>3, NextByteType
  <2>3. Typed \in SUBSET Nat BY Zenon
  <2> HIDE DEF Typed
  <2>4. Typed = Nat BY Zenon, <2>1, <2>2, <2>3, Induction
  <2>5. \A n \in 0..Len(s) : n \in Nat BY <1>1
  <2> QED BY Zenon, <2>4, <2>5 DEF Typed
<1> QED BY Zenon, <1>12, <1>13, <1>14 DEF R

\* A line feed ends a line, whose bytes are those since the last one.
LEMMA NextByteCases ==
    ASSUME NEW r, NEW s, NEW n
    PROVE  /\ s[n] = LF => /\ NextByte(r, s, n).lines = Append(r.lines, StripCr(SubSeq(s, r.next, n - 1)))
                           /\ NextByte(r, s, n).next = n + 1
           /\ s[n] # LF => NextByte(r, s, n) = r
BY Zenon DEF NextByte

\* The next line begins after the last line feed there is.
LEMMA NextLine ==
    ASSUME NEW s \in Seq(Nat), NEW m \in 0..Len(s)
    PROVE  LET next == Reading(s)[m].next
           IN  /\ next \in 1..(m + 1)
               /\ next = 1 \/ s[next - 1] = LF
               /\ \A i \in next..m : s[i] # LF
<1> DEFINE R == Reading(s)
           Begun(n) == /\ R[n].next \in 1..(n + 1)
                       /\ R[n].next = 1 \/ s[R[n].next - 1] = LF
                       /\ \A i \in R[n].next..n : s[i] # LF
           Good == {n \in Nat : n \in 0..Len(s) => Begun(n)}
<1> HIDE DEF R
<1>1. /\ R[0] = Start
      /\ \A n \in 1..Len(s) : R[n] = NextByte(R[n - 1], s, n)
  BY Zenon, ReadingRuns DEF R
<1>2. 0 \in Good
  <2>1. R[0].next = 1 BY <1>1 DEF Start
  <2> QED BY SMTT(30), <2>1
<1>3. ASSUME NEW n \in Good PROVE n + 1 \in Good
  <2> SUFFICES ASSUME n + 1 \in 0..Len(s) PROVE Begun(n + 1) OBVIOUS
  <2>1. n \in Nat /\ n + 1 \in 1..Len(s) /\ (n + 1) - 1 = n /\ Begun(n) OBVIOUS
  <2>2. R[n + 1] = NextByte(R[n], s, n + 1) BY Zenon, <1>1, <2>1
  <2>3. CASE s[n + 1] = LF
    <3>1. R[n + 1].next = (n + 1) + 1 BY SMTT(30), <2>2, <2>3, NextByteCases
    <3> QED BY <2>1, <2>3, <3>1
  <2>4. CASE s[n + 1] # LF
    <3>1. R[n + 1] = R[n] BY <2>2, <2>4, NextByteCases
    <3> QED BY SMTT(30), <2>1, <2>4, <3>1
  <2> QED BY <2>3, <2>4
<1>4. Good \in SUBSET Nat BY Zenon
<1>5. Good = Nat
  <2> HIDE DEF Good
  <2> QED BY Zenon, <1>2, <1>3, <1>4, Induction
<1>6. m \in Nat OBVIOUS
<1>7. Begun(m)
  <2> HIDE DEF Begun
  <2> QED BY Zenon, <1>5, <1>6
<1> QED BY Zenon, <1>7 DEF R

\* An element is put at the end of two lists or of the second.
LEMMA AppendToBoth ==
    ASSUME NEW x \in Lines, NEW y \in Lines, NEW z \in Seq(Nat)
    PROVE  Append(x \o y, z) = x \o Append(y, z)
<1> DEFINE S == Seq(Nat)
<1>0. x \in Seq(S) /\ y \in Seq(S) /\ z \in S BY Zenon DEF Lines
<1> HIDE DEF S
<1>1. x \o y \in Seq(S) /\ <<z>> \in Seq(S)
  <2>1. x \o y \in Seq(S) BY Zenon, <1>0, ConcatProperties
  <2>2. <<z>> \in Seq(S) BY <1>0
  <2> QED BY <2>1, <2>2
<1>2. Append(x \o y, z) = (x \o y) \o <<z>> /\ Append(y, z) = y \o <<z>>
  BY Zenon, <1>0, <1>1, AppendIsConcat
<1>3. (x \o y) \o <<z>> = x \o (y \o <<z>>) BY SMTT(30), <1>0, <1>1, ConcatAssociative
<1> QED BY Zenon, <1>2, <1>3

\* What is cut from s are the bytes of s from p to k.
LEMMA Cut ==
    ASSUME NEW s \in Seq(Nat), NEW k \in 0..Len(s), NEW p \in 1..(k + 1)
    PROVE  /\ SubSeq(s, p, k) \in Seq(Nat) /\ Len(SubSeq(s, p, k)) = k - p + 1
           /\ \A i \in 1..(k - p + 1) : SubSeq(s, p, k)[i] = s[p + i - 1]
<1>1. Len(s) \in Nat BY Zenon, LenProperties
<1>2. \A i \in 1..Len(s) : s[i] \in Nat BY Zenon, ElementOfSeq
<1>3. /\ k \in Int /\ p \in Int /\ (IF p <= k THEN k - p + 1 ELSE 0) = k - p + 1
      /\ \A i \in p..k : i \in 1..Len(s)
  BY <1>1
<1>4. \A i \in p..k : s[i] \in Nat BY Zenon, <1>2, <1>3
<1>5. /\ SubSeq(s, p, k) \in Seq(Nat)
      /\ Len(SubSeq(s, p, k)) = IF p <= k THEN k - p + 1 ELSE 0
      /\ \A i \in 1..(k - p + 1) : SubSeq(s, p, k)[i] = s[p + i - 1]
  BY <1>3, <1>4, SubSeqProperties
<1> QED BY Zenon, <1>3, <1>5

\* What is cut from b is cut from s, where b stands in s.
LEMMA SameBytes ==
    ASSUME NEW s \in Seq(Nat), NEW b \in Seq(Nat), NEW m \in Nat, NEW k \in 0..Len(b),
           NEW p \in 1..(k + 1), m + Len(b) <= Len(s),
           \A i \in 1..Len(b) : b[i] = s[m + i]
    PROVE  SubSeq(b, p, k) \in Seq(Nat) /\ SubSeq(s, m + p, m + k) = SubSeq(b, p, k)
<1> DEFINE t == SubSeq(s, m + p, m + k)
           u == SubSeq(b, p, k)
<1>1. Len(b) \in Nat /\ Len(s) \in Nat BY Zenon, LenProperties
<1>2. /\ m + k \in 0..Len(s) /\ m + p \in 1..((m + k) + 1)
      /\ (m + k) - (m + p) + 1 = k - p + 1
  BY <1>1
<1>3. /\ t \in Seq(Nat) /\ Len(t) = (m + k) - (m + p) + 1
      /\ \A i \in 1..((m + k) - (m + p) + 1) : t[i] = s[(m + p) + i - 1]
  BY Zenon, <1>2, Cut
<1>4. /\ u \in Seq(Nat) /\ Len(u) = k - p + 1
      /\ \A i \in 1..(k - p + 1) : u[i] = b[p + i - 1]
  BY Zenon, Cut
<1> HIDE DEF t, u
<1>5. ASSUME NEW i \in 1..Len(u) PROVE t[i] = u[i]
  <2>1. i \in 1..(k - p + 1) BY Zenon, <1>4
  <2>2. p + i - 1 \in 1..Len(b) /\ m + (p + i - 1) = (m + p) + i - 1 BY <1>1, <2>1
  <2> QED BY Zenon, <1>2, <1>3, <1>4, <2>1, <2>2
<1>6. t = u BY Zenon, <1>2, <1>3, <1>4, <1>5, SeqEqual
<1> QED BY Zenon, <1>4, <1>6 DEF t, u

\* Bytes b that stand in s where a line begins are read in s as they are by
\* themselves: their lines follow the lines before them.
LEMMA ReadsOn ==
    ASSUME NEW s \in Seq(Nat), NEW b \in Seq(Nat), NEW m \in Nat, NEW j \in 0..Len(b),
           m + Len(b) <= Len(s), m = 0 \/ s[m] = LF,
           \A i \in 1..Len(b) : b[i] = s[m + i]
    PROVE  /\ Reading(s)[m + j].lines = Reading(s)[m].lines \o Reading(b)[j].lines
           /\ Reading(s)[m + j].next = m + Reading(b)[j].next
<1> DEFINE R == Reading(s)
           B == Reading(b)
           Same(k) == /\ R[m + k].lines = R[m].lines \o B[k].lines
                      /\ R[m + k].next = m + B[k].next
           Good == {k \in Nat : k \in 0..Len(b) => Same(k)}
<1>1. /\ R[0] = Start
      /\ \A n \in 1..Len(s) : R[n] = NextByte(R[n - 1], s, n)
      /\ \A n \in 0..Len(s) : R[n] \in Reads
  BY Zenon, ReadingRuns
<1>2. /\ B[0] = Start
      /\ \A n \in 1..Len(b) : B[n] = NextByte(B[n - 1], b, n)
      /\ \A n \in 0..Len(b) : B[n] \in Reads
  BY Zenon, ReadingRuns
<1>3. \A n \in 0..Len(b) : B[n].next \in 1..(n + 1) BY Zenon, NextLine
<1> HIDE DEF R, B
<1>4. m \in 0..Len(s) /\ Len(b) \in Nat /\ Len(s) \in Nat OBVIOUS
<1>5. R[m].lines \in Lines BY Zenon, <1>1, <1>4 DEF Reads
<1>6. 0 \in Good
  <2>1. B[0].lines = <<>> /\ B[0].next = 1 BY <1>2 DEF Start
  <2>2. R[m].next = m + 1
    <3>1. CASE m = 0
      <4>1. R[m].next = 1 BY SMTT(30), <1>1, <3>1 DEF Start
      <4> QED BY <3>1, <4>1
    <3>2. CASE m # 0
      <4>1. m \in 1..Len(s) /\ s[m] = LF BY <1>4, <3>2
      <4>2. R[m] = NextByte(R[m - 1], s, m) BY Zenon, <1>1, <4>1
      <4>3. NextByte(R[m - 1], s, m).next = m + 1 BY Zenon, <4>1 DEF NextByte
      <4> QED BY Zenon, <4>2, <4>3
    <3> QED BY <3>1, <3>2
  <2>3. m + 0 = m OBVIOUS
  <2>4. R[m].lines \o <<>> = R[m].lines BY Zenon, <1>5, ConcatEmptySeq DEF Lines
  <2> QED BY Zenon, <2>1, <2>2, <2>3, <2>4
<1>7. ASSUME NEW k \in Good PROVE k + 1 \in Good
  <2> HIDE DEF Same
  <2>0. k \in Nat /\ k + 1 \in Nat OBVIOUS
  <2> SUFFICES ASSUME k + 1 \in 0..Len(b) PROVE Same(k + 1) BY Zenon, <2>0
  <2>1. /\ k \in Nat /\ k + 1 \in 1..Len(b) /\ k \in 0..Len(b) /\ (k + 1) - 1 = k
        /\ m + (k + 1) \in 1..Len(s) /\ (m + (k + 1)) - 1 = m + k
    <3>1. Len(b) \in Nat /\ Len(s) \in Nat BY Zenon, LenProperties
    <3>2. k \in Nat /\ k + 1 \in Nat BY Zenon, <2>0
    <3> HIDE DEF Good
    <3>3. k + 1 \in 1..Len(b) /\ k \in 0..Len(b) /\ (k + 1) - 1 = k
      BY SMTT(30), <3>1, <3>2
    <3>4. m + (k + 1) \in 1..Len(s) /\ (m + (k + 1)) - 1 = m + k
      BY SMTT(30), <3>1, <3>2
    <3> QED BY Zenon, <3>2, <3>3, <3>4
  <2>10. b[k + 1] = s[m + (k + 1)] BY Zenon, <2>1
  <2>2. Same(k) BY Zenon, <2>1
  <2> USE DEF Same
  <2> HIDE DEF Good
  <2>3. R[m + (k + 1)] = NextByte(R[m + k], s, m + (k + 1)) BY Zenon, <1>1, <2>1
  <2>4. B[k + 1] = NextByte(B[k], b, k + 1) BY Zenon, <1>2, <2>1
  <2>5. CASE b[k + 1] = LF
    <3> DEFINE line == SubSeq(b, B[k].next, k)
    <3>1. B[k].next \in 1..(k + 1) BY Zenon, <1>3, <2>1
    <3>2. line \in Seq(Nat) /\ SubSeq(s, m + B[k].next, m + k) = line
      BY ZenonT(60), <2>1, <3>1, SameBytes
    <3>3. B[k + 1].lines = Append(B[k].lines, StripCr(line)) /\ B[k + 1].next = (k + 1) + 1
      <4>1. /\ NextByte(B[k], b, k + 1).lines
                 = Append(B[k].lines, StripCr(SubSeq(b, B[k].next, (k + 1) - 1)))
            /\ NextByte(B[k], b, k + 1).next = (k + 1) + 1
        BY Zenon, <2>5 DEF NextByte
      <4> QED BY Zenon, <2>1, <2>4, <4>1
    <3>4. /\ R[m + (k + 1)].lines = Append(R[m + k].lines, StripCr(SubSeq(s, m + B[k].next, m + k)))
          /\ R[m + (k + 1)].next = m + (k + 1) + 1
      <4>1. /\ NextByte(R[m + k], s, m + (k + 1)).lines
                 = Append(R[m + k].lines, StripCr(SubSeq(s, R[m + k].next, (m + (k + 1)) - 1)))
            /\ NextByte(R[m + k], s, m + (k + 1)).next = m + (k + 1) + 1
        BY Zenon, <2>5, <2>10 DEF NextByte
      <4> QED BY Zenon, <2>1, <2>2, <2>3, <4>1
    <3>6. StripCr(line) \in Seq(Nat) BY Zenon, <3>2, StripCrType
    <3>7. B[k].lines \in Lines BY Zenon, <1>2, <2>1 DEF Reads
    <3>8. Append(R[m].lines \o B[k].lines, StripCr(line))
            = R[m].lines \o Append(B[k].lines, StripCr(line))
      BY ZenonT(60), <1>5, <3>6, <3>7, AppendToBoth
    <3>9. R[m + (k + 1)].lines = R[m].lines \o B[k + 1].lines
      BY Zenon, <2>2, <3>2, <3>3, <3>4, <3>8
    <3>10. R[m + (k + 1)].next = m + B[k + 1].next BY <1>4, <2>1, <3>3, <3>4
    <3> QED BY Zenon, <3>9, <3>10
  <2>6. CASE b[k + 1] # LF
    <3>1. NextByte(B[k], b, k + 1) = B[k] BY <2>6, NextByteCases
    <3>2. NextByte(R[m + k], s, m + (k + 1)) = R[m + k] BY <2>6, <2>10, NextByteCases
    <3> QED BY Zenon, <2>2, <2>3, <2>4, <3>1, <3>2
  <2> QED BY <2>5, <2>6
<1>8. Good \in SUBSET Nat BY Zenon
<1>9. Good = Nat
  <2> HIDE DEF Good
  <2> QED BY Zenon, <1>6, <1>7, <1>8, Induction
<1>10. j \in Nat OBVIOUS
<1>11. Same(j)
  <2> HIDE DEF Same
  <2> QED BY Zenon, <1>9, <1>10
<1> QED BY Zenon, <1>11 DEF R, B

\* Without a line feed there is no line.
LEMMA NoLines ==
    ASSUME NEW s \in Seq(Nat), \A i \in 1..Len(s) : s[i] # LF
    PROVE  LinesOf(s) = <<>>
<1> DEFINE R == Reading(s)
           Good == {n \in Nat : n \in 0..Len(s) => R[n] = Start}
<1>1. R[0] = Start /\ \A n \in 1..Len(s) : R[n] = NextByte(R[n - 1], s, n)
  BY Zenon, ReadingRuns
<1> HIDE DEF R
<1>2. 0 \in Good BY Zenon, <1>1
<1>3. ASSUME NEW n \in Good PROVE n + 1 \in Good
  <2>1. n \in Nat /\ n + 1 \in Nat /\ (n + 1) - 1 = n OBVIOUS
  <2> SUFFICES ASSUME n + 1 \in 0..Len(s) PROVE R[n + 1] = Start BY Zenon, <2>1
  <2>2. n + 1 \in 1..Len(s) /\ n \in 0..Len(s) BY <2>1
  <2>3. R[n + 1] = NextByte(R[n], s, n + 1) /\ R[n] = Start BY Zenon, <1>1, <2>1, <2>2
  <2>4. NextByte(R[n], s, n + 1) = R[n] BY Zenon, <2>2 DEF NextByte
  <2> QED BY Zenon, <2>3, <2>4
<1>4. Good \in SUBSET Nat BY Zenon
<1>5. Good = Nat
  <2> HIDE DEF Good
  <2> QED BY Zenon, <1>2, <1>3, <1>4, Induction
<1>6. Len(s) \in Nat /\ Len(s) \in 0..Len(s) OBVIOUS
<1>7. R[Len(s)] = Start BY Zenon, <1>5, <1>6
<1>8. R[Len(s)].lines = <<>> BY <1>7 DEF Start
<1> QED BY Zenon, <1>8 DEF LinesOf, R

\* Reading begins with no lines, and what was read of s are the lines of that part.
LEMMA PrefixRead ==
    ASSUME NEW s \in Seq(Nat), NEW b \in Seq(Nat), Len(b) <= Len(s),
           \A i \in 1..Len(b) : b[i] = s[i]
    PROVE  LinesOf(b) = Reading(s)[Len(b)].lines /\ LinesOf(b) \in Lines
<1>1. /\ Len(b) \in Nat /\ 0 + Len(b) = Len(b) /\ Len(b) \in 0..Len(b) /\ 0 \in Nat
      /\ 0 + Len(b) <= Len(s) /\ \A i \in 1..Len(b) : b[i] = s[0 + i]
  BY SMTT(30)
<1>2. Reading(s)[0 + Len(b)].lines = Reading(s)[0].lines \o Reading(b)[Len(b)].lines
  BY Zenon, <1>1, ReadsOn
<1>3. Reading(s)[0] = Start BY Zenon, ReadingRuns
<1>4. Reading(s)[0].lines = <<>>
  <2> DEFINE r == Reading(s)[0]
  <2> HIDE DEF r
  <2>1. r = Start BY Zenon, <1>3 DEF r
  <2>2. r.lines = <<>> BY <2>1 DEF Start
  <2> QED BY Zenon, <2>2 DEF r
<1>5. LinesOf(b) \in Lines BY Zenon, <1>1, ReadingRuns DEF LinesOf, Reads
<1>6. <<>> \o LinesOf(b) = LinesOf(b) BY Zenon, <1>5, ConcatEmptySeq DEF Lines
<1> QED BY Zenon, <1>1, <1>2, <1>4, <1>5, <1>6 DEF LinesOf

\* The lines of two pieces are those of the first and then those of the second,
\* if they are cut where a line ends.
LEMMA LinesJoin ==
    ASSUME NEW a \in Seq(Nat), NEW b \in Seq(Nat), a = <<>> \/ a[Len(a)] = LF
    PROVE  LinesOf(a \o b) = LinesOf(a) \o LinesOf(b)
<1> DEFINE s == a \o b
           m == Len(a)
<1>1. /\ s \in Seq(Nat) /\ Len(s) = m + Len(b) /\ m \in Nat /\ Len(b) \in Nat
      /\ \A i \in 1..m : a[i] = s[i]
      /\ \A i \in 1..Len(b) : b[i] = s[m + i]
      /\ m = 0 \/ s[m] = LF
  <2>1. s \in Seq(Nat) /\ Len(s) = m + Len(b)
    BY Zenon, ConcatProperties
  <2>2. m \in Nat /\ Len(b) \in Nat
    BY Zenon, LenProperties
  <2>3. \A i \in 1..m : a[i] = s[i]
    OBVIOUS
  <2>4. \A i \in 1..Len(b) : b[i] = s[m + i]
    OBVIOUS
  <2>5. m = 0 \/ m \in 1..m
    <3> HIDE DEF m
    <3> QED BY <2>2
  <2>6. a = <<>> => m = 0
    OBVIOUS
  <2> QED BY Zenon, <2>1, <2>2, <2>3, <2>4, <2>5, <2>6
<1> HIDE DEF s
<1>2. m <= Len(s) /\ m + Len(b) <= Len(s) /\ Len(b) \in 0..Len(b) BY <1>1
<1>3. LinesOf(a) = Reading(s)[m].lines BY Zenon, <1>1, <1>2, PrefixRead
<1>4. Reading(s)[m + Len(b)].lines = Reading(s)[m].lines \o Reading(b)[Len(b)].lines
  <2> HIDE DEF m
  <2> QED BY Zenon, <1>1, <1>2, ReadsOn
<1> QED BY Zenon, <1>1, <1>3, <1>4 DEF LinesOf, s

\* The complete lines of s end with a line feed, and are all its lines.
LEMMA CompleteLines ==
    ASSUME NEW s \in Seq(Nat)
    PROVE  /\ Complete(s) \in 0..Len(s)
           /\ Complete(s) = 0 \/ s[Complete(s)] = LF
           /\ LinesOf(SubSeq(s, 1, Complete(s))) = LinesOf(s)
<1> DEFINE c == Reading(s)[Len(s)].next - 1
           Feeds == {0} \cup {i \in DOMAIN s : s[i] = LF}
           n == Len(s)
<1>1. n \in Nat /\ n \in 0..n /\ DOMAIN s = 1..n OBVIOUS
<1>2. /\ Reading(s)[n].next \in 1..(n + 1)
      /\ Reading(s)[n].next = 1 \/ s[Reading(s)[n].next - 1] = LF
      /\ \A i \in Reading(s)[n].next..n : s[i] # LF
  BY Zenon, <1>1, NextLine
<1>3. c \in 0..n /\ (c = 0 \/ s[c] = LF) /\ \A i \in (c + 1)..n : s[i] # LF
  <2> DEFINE x == Reading(s)[n].next
  <2>1. x \in 1..(n + 1) /\ (x = 1 \/ s[x - 1] = LF) /\ \A i \in x..n : s[i] # LF
    BY Zenon, <1>2
  <2> HIDE DEF x, n
  <2>2. x - 1 \in 0..n /\ (x - 1 = 0 \/ s[x - 1] = LF) /\ \A i \in ((x - 1) + 1)..n : s[i] # LF
    BY <1>1, <2>1
  <2> QED BY Zenon, <2>2 DEF x, n
<1> HIDE DEF c, n
<1>4. Feeds \subseteq Nat /\ c \in Feeds /\ \A y \in Feeds : c >= y BY <1>1, <1>3
<1>5. Complete(s) = c
  <2>1. Complete(s) = CHOOSE x \in Feeds : \A y \in Feeds : x >= y BY Zenon DEF Complete, Max
  <2> HIDE DEF Feeds
  <2>2. Complete(s) \in Feeds /\ \A y \in Feeds : Complete(s) >= y BY Zenon, <1>4, <2>1
  <2>3. Complete(s) \in Nat /\ c \in Nat /\ c >= Complete(s) /\ Complete(s) >= c
    BY Zenon, <1>4, <2>2
  <2> QED BY <2>3
<1> DEFINE b == SubSeq(s, 1, c)
           rest == SubSeq(s, c + 1, n)
<1>6. /\ b \in Seq(Nat) /\ Len(b) = c /\ \A i \in 1..c : b[i] = s[i]
      /\ rest \in Seq(Nat) /\ Len(rest) = n - c /\ \A i \in 1..(n - c) : rest[i] = s[c + i]
  <2>1. /\ c \in 0..n /\ 1 \in 1..(c + 1) /\ n \in 0..n /\ c + 1 \in 1..(n + 1)
        /\ c - 1 + 1 = c /\ n - (c + 1) + 1 = n - c
        /\ \A i \in 1..c : 1 + i - 1 = i
        /\ \A i \in 1..(n - c) : (c + 1) + i - 1 = c + i
    BY <1>1, <1>3
  <2>2. /\ b \in Seq(Nat) /\ Len(b) = c - 1 + 1
        /\ \A i \in 1..(c - 1 + 1) : b[i] = s[1 + i - 1]
    BY Zenon, <2>1, Cut DEF n
  <2>3. /\ rest \in Seq(Nat) /\ Len(rest) = n - (c + 1) + 1
        /\ \A i \in 1..(n - (c + 1) + 1) : rest[i] = s[(c + 1) + i - 1]
    BY Zenon, <2>1, Cut DEF n
  <2> QED BY Zenon, <2>1, <2>2, <2>3
<1> HIDE DEF b, rest
<1>7. LinesOf(b) = Reading(s)[c].lines /\ LinesOf(b) \in Lines
  <2>1. Len(b) <= Len(s) BY <1>1, <1>3, <1>6 DEF n
  <2> QED BY Zenon, <1>6, <2>1, PrefixRead
<1>8. LinesOf(rest) = <<>>
  <2>1. ASSUME NEW i \in 1..Len(rest) PROVE rest[i] # LF
    <3>1. i \in 1..(n - c) /\ c + i \in (c + 1)..n BY <1>1, <1>3, <1>6
    <3> QED BY Zenon, <1>3, <1>6, <3>1
  <2> QED BY Zenon, <1>6, <2>1, NoLines
<1>9. Reading(s)[n].lines = Reading(s)[c].lines \o LinesOf(rest)
  <2>1. c \in Nat /\ c + Len(rest) = n /\ c + Len(rest) <= Len(s) /\ Len(rest) \in 0..Len(rest)
    BY <1>1, <1>3, <1>6 DEF n
  <2>2. Reading(s)[c + Len(rest)].lines = Reading(s)[c].lines \o Reading(rest)[Len(rest)].lines
    <3>1. \A i \in 1..Len(rest) : rest[i] = s[c + i] BY Zenon, <1>6
    <3>2. c = 0 \/ s[c] = LF BY Zenon, <1>3
    <3>3. rest \in Seq(Nat) BY Zenon, <1>6
    <3>4. c \in Nat /\ c + Len(rest) <= Len(s) /\ Len(rest) \in 0..Len(rest) BY Zenon, <2>1
    <3> QED BY ZenonT(30), <3>1, <3>2, <3>3, <3>4, ReadsOn
  <2> QED BY Zenon, <2>1, <2>2 DEF LinesOf
<1>10. LinesOf(b) \o <<>> = LinesOf(b) BY Zenon, <1>7, ConcatEmptySeq DEF Lines
<1>11. LinesOf(s) = LinesOf(b) BY Zenon, <1>7, <1>8, <1>9, <1>10 DEF LinesOf, n
<1> QED BY Zenon, <1>3, <1>5, <1>11 DEF b, n

\* What follow knows of the file, unless that outgrew it: the lines reported are
\* those up to pos, which is where a line ends; or the file was rotated, nothing
\* of the new one has been reported, and it is still shorter than pos.
TailInv ==
    /\ file \in Seq(Nat) /\ pos \in Nat /\ from \in Nat
    /\ unseen \in BOOLEAN /\ outgrown \in BOOLEAN
    /\ ~outgrown /\ unseen => reported = <<>> /\ from = 0 /\ Len(file) < pos
    /\ ~outgrown /\ ~unseen =>
        /\ from <= pos /\ pos <= Len(file)
        /\ pos = from \/ file[pos] = LF
        /\ reported = LinesOf(SubSeq(file, from + 1, pos))

\* Nothing is no lines.
LEMMA NothingRead ==
    ASSUME NEW s \in Seq(Nat), NEW m \in Nat, NEW n \in Nat, n < m
    PROVE  SubSeq(s, m, n) = <<>> /\ LinesOf(SubSeq(s, m, n)) = <<>>
<1>1. SubSeq(s, m, n) = <<>>
  <2>1. m \in Int /\ n \in Int OBVIOUS
  <2> QED BY Zenon, <2>1, SubSeqEmpty
<1> DEFINE e == <<>>
<1>2. e \in Seq(Nat) /\ \A i \in 1..Len(e) : e[i] # LF BY SMT
<1>3. LinesOf(e) = <<>>
  <2> HIDE DEF e
  <2> QED BY Zenon, <1>2, NoLines
<1> QED BY Zenon, <1>1, <1>3

\* Read reports the lines up to the last line feed, and moves pos there.
LEMMA ReadStep ==
    ASSUME TailInv, Read
    PROVE  TailInv'
<1> DEFINE rest == Drop(file, pos)
<1>1. /\ file' = file /\ from' = from /\ unseen' = unseen /\ outgrown' = outgrown
      /\ pos' = pos + Complete(rest) /\ reported' = reported \o LinesOf(rest)
  BY Zenon DEF Read
<1>2. rest \in Seq(Nat) /\ Len(file) \in Nat BY SMTT(30) DEF TailInv, Drop
<1> HIDE DEF rest
<1>3. /\ Complete(rest) \in 0..Len(rest)
      /\ Complete(rest) = 0 \/ rest[Complete(rest)] = LF
      /\ LinesOf(SubSeq(rest, 1, Complete(rest))) = LinesOf(rest)
  BY Zenon, <1>2, CompleteLines
<1>4. pos' \in Nat BY <1>1, <1>2, <1>3 DEF TailInv
<1>5. ASSUME ~outgrown, unseen
      PROVE  reported' = <<>> /\ pos' = pos
  <2>1. reported = <<>> /\ Len(file) < pos /\ pos \in Nat /\ file \in Seq(Nat) BY Zenon, <1>5 DEF TailInv
  <2>2. rest = <<>> /\ LinesOf(rest) = <<>>
    <3>1. pos + 1 \in Nat /\ Len(file) < pos + 1 BY <1>2, <2>1
    <3> QED BY Zenon, <1>2, <2>1, <3>1, NothingRead DEF rest, Drop
  <2>3. Len(rest) = 0 BY <2>2
  <2>4. Complete(rest) = 0 BY <1>3, <2>3
  <2>5. reported' = <<>> \o <<>> /\ pos' = pos + 0 BY Zenon, <1>1, <2>1, <2>2, <2>4
  <2> QED BY <2>1, <2>5
<1>6. ASSUME ~outgrown, ~unseen
      PROVE  /\ from <= pos' /\ pos' <= Len(file)
             /\ pos' = from \/ file[pos'] = LF
             /\ reported' = LinesOf(SubSeq(file, from + 1, pos'))
  <2> DEFINE c == Complete(rest)
             a == SubSeq(file, from + 1, pos)
             b == SubSeq(rest, 1, c)
  <2>1. /\ file \in Seq(Nat) /\ pos \in Nat /\ from \in Nat /\ from <= pos /\ pos <= Len(file)
        /\ pos = from \/ file[pos] = LF
        /\ reported = LinesOf(a)
    BY Zenon, <1>6 DEF TailInv
  <2>2. /\ Len(rest) = Len(file) - pos
        /\ \A i \in 1..(Len(file) - pos) : rest[i] = file[pos + i]
    BY <2>1 DEF rest, Drop
  <2>3. c \in 0..Len(rest) /\ (c = 0 \/ rest[c] = LF) /\ LinesOf(b) = LinesOf(rest) BY Zenon, <1>3
  <2> HIDE DEF c
  <2>4. /\ a \in Seq(Nat) /\ b \in Seq(Nat) /\ Len(a) = pos - from /\ Len(b) = c
        /\ \A i \in 1..(pos - from) : a[i] = file[from + i]
        /\ \A i \in 1..c : b[i] = file[pos + i]
    <3>1. a \in Seq(Nat) /\ Len(a) = pos - from /\ \A i \in 1..(pos - from) : a[i] = file[from + i]
      BY SMTT(30), <2>1
    <3>2. b \in Seq(Nat) /\ Len(b) = c /\ \A i \in 1..c : b[i] = rest[i]
      BY SMTT(30), <1>2, <2>3
    <3>3. \A i \in 1..c : i \in 1..(Len(file) - pos) BY <1>2, <2>2, <2>3
    <3> QED BY Zenon, <2>2, <3>1, <3>2, <3>3
  <2>5. SubSeq(file, from + 1, pos + c) = a \o b
    <3>1. /\ c \in 0..Len(rest) /\ 1 \in 1..(c + 1) /\ pos + Len(rest) <= Len(file)
          /\ \A i \in 1..Len(rest) : rest[i] = file[pos + i]
      <4>1. c \in 0..Len(rest) BY Zenon, <2>3
      <4>2. pos + Len(rest) <= Len(file) /\ 1 \in 1..(c + 1) BY SMTT(30), <1>2, <2>1, <2>2, <4>1
      <4>3. \A i \in 1..Len(rest) : rest[i] = file[pos + i] BY Zenon, <2>2
      <4> QED BY Zenon, <4>1, <4>2, <4>3
    <3>2. SubSeq(file, pos + 1, pos + c) = b BY ZenonT(60), <1>2, <2>1, <3>1, SameBytes
    <3>3. from + 1 \in 1..(Len(file) + 1) /\ pos \in ((from + 1) - 1)..Len(file) /\ pos + c \in pos..Len(file)
      BY <1>2, <2>1, <3>1
    <3>4. a \o SubSeq(file, pos + 1, pos + c) = SubSeq(file, from + 1, pos + c)
      BY ZenonT(30), <2>1, <3>3, ConcatAdjacentSubSeq
    <3> QED BY Zenon, <3>2, <3>4
  <2>6. a = <<>> \/ a[Len(a)] = LF
    <3> HIDE DEF a, b
    <3>1. CASE pos = from BY <2>1, <2>4, <3>1
    <3>2. CASE pos # from
      <4>1. pos - from \in 1..(pos - from) /\ from + (pos - from) = pos BY <2>1, <3>2
      <4> QED BY Zenon, <2>1, <2>4, <3>2, <4>1
    <3> QED BY <3>1, <3>2
  <2>7. LinesOf(a \o b) = LinesOf(a) \o LinesOf(b) BY Zenon, <2>4, <2>6, LinesJoin
  <2>8. reported' = LinesOf(SubSeq(file, from + 1, pos')) BY Zenon, <1>1, <2>1, <2>3, <2>5, <2>7 DEF c
  <2>9. from <= pos + c /\ pos + c <= Len(file) BY <1>2, <2>1, <2>2, <2>3
  <2>10. pos + c = from \/ file[pos + c] = LF
    <3>1. CASE c = 0 BY <2>1, <3>1
    <3>2. CASE c # 0
      <4>1. c \in 1..(Len(file) - pos) BY <1>2, <2>1, <2>2, <2>3, <3>2
      <4> QED BY Zenon, <2>2, <2>3, <3>2, <4>1
    <3> QED BY <3>1, <3>2
  <2> QED BY Zenon, <1>1, <2>8, <2>9, <2>10 DEF c
<1> QED BY Zenon, <1>1, <1>4, <1>5, <1>6 DEF TailInv

\* What follow reports are the lines of the file from where it began up to pos.
LEMMA TailSteps ==
    ASSUME TailInv, [TailNext]_tailVars
    PROVE  TailInv'
<1>1. CASE Poll
  <2> DEFINE at == IF Len(file) < pos THEN 0 ELSE pos
  <2>1. /\ file' = file /\ from' = from /\ outgrown' = outgrown /\ reported' = reported
        /\ pos' = at /\ unseen' = (unseen /\ Len(file) >= pos)
    BY Zenon, <1>1 DEF Poll
  <2>2. file \in Seq(Nat) /\ pos \in Nat /\ from \in Nat /\ Len(file) \in Nat BY DEF TailInv
  <2>3. CASE Len(file) < pos
    <3>1. at = 0 /\ unseen' = FALSE
      <4>1. ~(Len(file) >= pos) BY <2>2, <2>3
      <4> QED BY Zenon, <2>1, <2>3, <4>1
    <3>2. ASSUME ~outgrown PROVE reported = <<>> /\ from = 0
      <4>1. unseen BY <2>2, <2>3, <3>2 DEF TailInv
      <4> QED BY Zenon, <3>2, <4>1 DEF TailInv
    <3>3. LinesOf(SubSeq(file, 0 + 1, 0)) = <<>>
      <4>1. 0 + 1 \in Nat /\ 0 \in Nat /\ 0 < 0 + 1 OBVIOUS
      <4> QED BY Zenon, <2>2, <4>1, NothingRead
    <3>4. 0 \in Nat /\ 0 <= 0 /\ 0 <= Len(file) BY <2>2
    <3> QED BY Zenon, <2>1, <2>2, <3>1, <3>2, <3>3, <3>4 DEF TailInv
  <2>4. CASE ~(Len(file) < pos)
    <3>1. at = pos /\ Len(file) >= pos BY <2>2, <2>4
    <3>2. unseen' = unseen /\ pos' = pos BY Zenon, <2>1, <3>1 DEF TailInv
    <3>3. UNCHANGED <<file, pos, from, reported, unseen, outgrown>> BY Zenon, <2>1, <3>2
    <3> QED BY Zenon, <3>3 DEF TailInv
  <2> QED BY <2>3, <2>4
<1>2. CASE Read BY <1>2, ReadStep
<1>3. ASSUME NEW w \in Writes, Write(w) PROVE TailInv'
  <2>1. /\ file' = file \o w /\ pos' = pos /\ from' = from /\ unseen' = unseen
        /\ reported' = reported /\ outgrown' = (outgrown \/ (unseen /\ Len(file') >= pos))
    BY Zenon, <1>3 DEF Write
  <2>2. file \in Seq(Nat) /\ pos \in Nat /\ from \in Nat /\ w \in Seq(Nat)
    BY Zenon, WritesAssumption DEF TailInv
  <2>3. /\ file' \in Seq(Nat) /\ Len(file) \in Nat /\ Len(file') \in Nat /\ Len(file) <= Len(file')
        /\ \A i \in 1..Len(file) : file[i] = file'[i]
    BY <2>1, <2>2
  <2>4. ASSUME ~outgrown', unseen' PROVE Len(file') < pos
    <3>1. ~(Len(file') >= pos) BY Zenon, <2>1, <2>4
    <3> QED BY <2>2, <2>3, <3>1
  <2>5. ASSUME ~outgrown', ~unseen'
        PROVE  /\ from <= pos /\ pos <= Len(file')
               /\ pos = from \/ file'[pos] = LF
               /\ SubSeq(file', from + 1, pos) = SubSeq(file, from + 1, pos)
    <3>1. from <= pos /\ pos <= Len(file) /\ (pos = from \/ file[pos] = LF)
      BY Zenon, <2>1, <2>5 DEF TailInv
    <3>2. pos <= Len(file') BY <2>2, <2>3, <3>1
    <3>3. pos = from \/ file'[pos] = LF
      <4>1. pos = from \/ pos \in 1..Len(file) BY <2>2, <2>3, <3>1
      <4> QED BY Zenon, <2>3, <3>1, <4>1
    <3>4. SubSeq(file', from + 1, pos) = SubSeq(file, from + 1, pos)
      <4>1. CASE pos = from
        <5>1. from + 1 \in Nat /\ pos < from + 1 BY <2>2, <4>1
        <5> QED BY Zenon, <2>2, <2>3, <5>1, NothingRead
      <4>2. CASE pos # from
        <5>1. /\ from \in Nat /\ pos \in Nat /\ Len(file) \in Nat
              /\ from <= pos /\ pos <= Len(file)
          BY Zenon, <2>2, <2>3, <3>1
        <5>2. from + 1 \in 1..Len(file) /\ pos \in 1..Len(file) BY <4>2, <5>1
        <5> QED BY Zenon, <2>1, <2>2, <5>2, SubSeqOfConcat1
      <4> QED BY <4>1, <4>2
    <3> QED BY Zenon, <3>1, <3>2, <3>3, <3>4
  <2> QED BY Zenon, <2>1, <2>2, <2>3, <2>4, <2>5 DEF TailInv
<1>4. CASE Rotate
  <2>1. /\ file' = <<>> /\ reported' = <<>> /\ from' = 0 /\ pos' = pos /\ outgrown' = outgrown
        /\ unseen' = (pos > 0)
    BY Zenon, <1>4 DEF Rotate
  <2>2. pos \in Nat BY DEF TailInv
  <2>3. file' \in Seq(Nat) /\ Len(file') = 0 BY <2>1
  <2>4. unseen' => Len(file') < pos BY <2>1, <2>2, <2>3
  <2>5. ~unseen' => pos = 0
    <3>1. ~unseen' => ~(pos > 0) BY Zenon, <2>1
    <3>2. ~(pos > 0) => pos = 0 BY <2>2
    <3> QED BY Zenon, <3>1, <3>2
  <2>6. LinesOf(SubSeq(file', 0 + 1, 0)) = <<>> /\ 0 <= 0 /\ 0 \in Nat
    <3>1. 0 + 1 \in Nat /\ 0 \in Nat /\ 0 < 0 + 1 /\ 0 <= 0 OBVIOUS
    <3> QED BY Zenon, <2>3, <3>1, NothingRead
  <2>7. ~unseen' => /\ from' <= pos' /\ pos' <= Len(file') /\ pos' = from'
                    /\ reported' = LinesOf(SubSeq(file', from' + 1, pos'))
    BY Zenon, <2>1, <2>3, <2>5, <2>6
  <2>8. unseen' \in BOOLEAN /\ outgrown' \in BOOLEAN
    <3>1. (pos > 0) \in BOOLEAN BY <2>2
    <3> QED BY Zenon, <2>1, <3>1 DEF TailInv
  <2> QED BY Zenon, <2>1, <2>2, <2>3, <2>4, <2>6, <2>7, <2>8 DEF TailInv
<1>5. CASE PollEnds \/ ReadFails \/ RemoveFile
  <2>1. UNCHANGED <<file, pos, from, reported, unseen, outgrown>>
    BY Zenon, <1>5 DEF PollEnds, ReadFails, RemoveFile
  <2> QED BY Zenon, <2>1 DEF TailInv
<1>6. CASE UNCHANGED tailVars
  BY Zenon, <1>6 DEF TailInv, tailVars
<1> QED BY Zenon, <1>1, <1>2, <1>3, <1>4, <1>5, <1>6 DEF TailNext

\* The invariant the properties of LogTail follow from.
LEMMA TailInvariant == TailSpec => []TailInv
<1>1. TailInit => TailInv
  <2> SUFFICES ASSUME TailInit PROVE TailInv OBVIOUS
  <2>1. file \in Seq(Nat) /\ Len(file) \in Nat
    <3>1. <<>> \in Seq(Nat) BY SMT
    <3>2. file \in Seq(Nat) BY Zenon, <3>1, WritesAssumption DEF TailInit
    <3> QED BY <3>2
  <2>2. pos = Len(file) /\ from = Len(file) /\ reported = <<>> /\ unseen = FALSE /\ outgrown = FALSE
    BY Zenon DEF TailInit
  <2>3. LinesOf(SubSeq(file, Len(file) + 1, Len(file))) = <<>> /\ Len(file) <= Len(file)
    <3>1. Len(file) + 1 \in Nat /\ Len(file) < Len(file) + 1 /\ Len(file) <= Len(file) BY <2>1
    <3> QED BY Zenon, <2>1, <3>1, NothingRead
  <2> QED BY Zenon, <2>1, <2>2, <2>3 DEF TailInv
<1>2. TailInv /\ [TailNext]_tailVars => TailInv' BY TailSteps
<1> QED BY <1>1, <1>2, PTL DEF TailSpec

\* follow reports every line completed in the file since it began, or since the
\* file was rotated, once, whole and in order, for any writes of any length and
\* any number of rotations; unless the file outgrew the old position unseen.
THEOREM FollowIsExact == TailSpec => []FollowsExactly
<1>1. TailInv => FollowsExactly BY Zenon DEF TailInv, FollowsExactly
<1> QED BY <1>1, TailInvariant, PTL

-----------------------------------------------------------------------------
\* last_n_lines

\* Where the last n of k lines begin.
From(k, n) == Max({1, k - n + 1})

\* What From returns.
LEMMA FromIs ==
    ASSUME NEW k \in Nat, NEW n \in Nat
    PROVE  From(k, n) = IF n < k THEN k - n + 1 ELSE 1
<1> DEFINE S == {1, k - n + 1}
           x == IF n < k THEN k - n + 1 ELSE 1
<1>1. x \in S /\ (\A y \in S : x >= y) /\ S \subseteq Int /\ \A a, b \in Int : a >= b /\ b >= a => a = b
  OBVIOUS
<1>2. From(k, n) = CHOOSE a \in S : \A y \in S : a >= y BY Zenon DEF From, Max
<1> HIDE DEF S, x
<1>3. From(k, n) \in S /\ \A y \in S : From(k, n) >= y BY Zenon, <1>1, <1>2
<1>4. From(k, n) = x BY Zenon, <1>1, <1>3
<1> QED BY Zenon, <1>4 DEF x

\* Sliding the window of the last n of k lines over one more makes it the window
\* of the last n of k + 1.
LEMMA SlideStep ==
    ASSUME NEW all \in Lines, NEW n \in Nat, NEW k \in Nat, k + 1 <= Len(all)
    PROVE  Slide(SubSeq(all, From(k, n), k), all[k + 1], n) = SubSeq(all, From(k + 1, n), k + 1)
<1> DEFINE L == Seq(Nat)
           line == all[k + 1]
           N == Len(all)
<1>1. all \in Seq(L) /\ N \in Nat /\ k + 1 \in 1..N BY DEF Lines
<1>2. \A i \in 1..N : all[i] \in L BY Zenon, <1>1, ElementOfSeq
<1> HIDE DEF L, N
<1>3. CASE n = 0
  <2>1. From(k, n) = k + 1 /\ From(k + 1, n) = (k + 1) + 1
    <3>1. From(k, n) = IF n < k THEN k - n + 1 ELSE 1 BY Zenon, FromIs
    <3>2. From(k + 1, n) = IF n < k + 1 THEN (k + 1) - n + 1 ELSE 1 BY FromIs
    <3> QED BY <1>3, <3>1, <3>2
  <2>2. k < k + 1 /\ k \in Int /\ k + 1 \in Int /\ (k + 1) + 1 \in Int /\ k + 1 < (k + 1) + 1 OBVIOUS
  <2>3. SubSeq(all, k + 1, k) = <<>> /\ SubSeq(all, (k + 1) + 1, k + 1) = <<>>
    BY Zenon, <2>2, SubSeqEmpty
  <2>4. ~(n > 0) BY <1>3
  <2>5. Slide(<<>>, line, n) = <<>> BY Zenon, <2>4 DEF Slide
  <2> QED BY Zenon, <2>1, <2>3, <2>5
<1>4. CASE n > 0
  <2> DEFINE f == From(k, n)
             g == From(k + 1, n)
             w == SubSeq(all, f, k)
             room == SubSeq(all, g, k)
  <2>1. f = (IF n < k THEN k - n + 1 ELSE 1) /\ g = (IF n < k + 1 THEN (k + 1) - n + 1 ELSE 1)
    BY FromIs
  <2> HIDE DEF f, g
  <2>2. f \in 1..(k + 1) /\ g \in 1..(k + 1) /\ k < N BY <1>1, <1>4, <2>1 DEF N
  <2>3. \A i \in f..k : i \in 1..N BY <2>2, <1>1
  <2>4. w \in Seq(L) /\ Len(w) = IF f <= k THEN k - f + 1 ELSE 0
    <3>1. f \in Int /\ k \in Int /\ \A i \in f..k : all[i] \in L
      <4>1. f \in Int /\ k \in Int BY <2>2
      <4> QED BY Zenon, <1>2, <2>3, <4>1
    <3> QED BY <3>1, SubSeqProperties
  <2>5. Slide(w, line, n) = Append(room, line)
    <3>1. CASE Len(w) = n
      <4>1. f <= k /\ g = f + 1 BY <1>4, <2>1, <2>2, <2>4, <3>1
      <4>2. Tail(w) = room
        <5>1. f \in 1..k /\ 1..k \subseteq Nat /\ \A i \in f..k : i \in 1..N BY <2>2, <2>3, <4>1
        <5> QED BY <1>2, <2>2, <4>1, <5>1, HeadTailOfSubSeq
      <4> QED BY Zenon, <1>4, <3>1, <4>2 DEF Slide
    <3>2. CASE Len(w) # n
      <4>1. f = g BY <1>4, <2>1, <2>2, <2>4, <3>2
      <4>2. Slide(w, line, n) = Append(w, line) BY Zenon, <1>4, <3>2 DEF Slide
      <4> QED BY Zenon, <4>1, <4>2
    <3> QED BY <3>1, <3>2
  <2>6. Append(room, line) = SubSeq(all, g, k + 1)
    BY <1>1, <1>2, <2>2, SubSeqRecursiveSecond
  <2> QED BY Zenon, <2>5, <2>6 DEF f, g
<1> QED BY <1>3, <1>4

\* The lines of a file are lines.
LEMMA AllLinesType ==
    ASSUME NEW s \in Seq(Nat)
    PROVE  AllLines(s) \in Lines
<1> DEFINE last == IF Complete(s) = Len(s) THEN <<>> ELSE <<Drop(s, Complete(s))>>
<1>1. LinesOf(s) \in Lines
  <2>1. Len(s) <= Len(s) OBVIOUS
  <2> QED BY Zenon, <2>1, PrefixRead
<1>2. Complete(s) \in 0..Len(s) BY Zenon, CompleteLines
<1>3. Drop(s, Complete(s)) \in Seq(Nat)
  <2> DEFINE c == Complete(s)
  <2>1. c \in 0..Len(s) BY Zenon, <1>2
  <2> HIDE DEF c
  <2>2. Drop(s, c) \in Seq(Nat) BY <2>1 DEF Drop
  <2> QED BY Zenon, <2>2 DEF c
<1>4. last \in Lines
  <2> DEFINE d == Drop(s, Complete(s))
  <2>1. d \in Seq(Nat) BY Zenon, <1>3
  <2> HIDE DEF d
  <2>2. <<d>> \in Lines /\ <<>> \in Lines BY <2>1 DEF Lines
  <2> QED BY Zenon, <2>2 DEF d
<1> HIDE DEF last
<1>5. LinesOf(s) \o last \in Lines BY Zenon, <1>1, <1>4, ConcatProperties DEF Lines
<1> QED BY Zenon, <1>5 DEF AllLines, last

\* The last n lines are returned, or all of them if they are fewer.
LEMMA LastLines ==
    ASSUME NEW s \in Seq(Nat), NEW n \in Nat
    PROVE  last_n_lines(s, n) = SubSeq(AllLines(s), From(Len(AllLines(s)), n), Len(AllLines(s)))
<1> DEFINE all == AllLines(s)
           N == Len(all)
           Window(k) == SubSeq(all, From(k, n), k)
           Def(f) == f = [k \in 0..N |-> IF k = 0 THEN <<>> ELSE Slide(f[k - 1], all[k], n)]
           h == [k \in 0..N |-> Window(k)]
<1>1. all \in Lines BY Zenon, AllLinesType
<1> HIDE DEF all
<1>2. N \in Nat BY <1>1 DEF Lines
<1> HIDE DEF N
<1>3. Window(0) = <<>>
  <2>1. From(0, n) = IF n < 0 THEN 0 - n + 1 ELSE 1 BY FromIs
  <2>2. From(0, n) \in Int /\ 0 \in Int /\ 0 < From(0, n) BY <2>1
  <2> QED BY Zenon, <2>2, SubSeqEmpty
<1>4. ASSUME NEW k \in 1..N PROVE Window(k) = Slide(Window(k - 1), all[k], n)
  <2>1. k - 1 \in Nat /\ (k - 1) + 1 = k /\ (k - 1) + 1 <= N BY <1>2
  <2>2. Slide(Window(k - 1), all[(k - 1) + 1], n) = Window((k - 1) + 1)
    BY Zenon, <1>1, <2>1, SlideStep DEF N
  <2> QED BY Zenon, <2>1, <2>2
<1> HIDE DEF Window
<1>5. \A k \in 0..N : k = 0 \/ (k # 0 /\ k \in 1..N /\ k - 1 \in 0..N) BY <1>2
<1>6. Def(h)
  <2>1. ASSUME NEW k \in 0..N
        PROVE  h[k] = IF k = 0 THEN <<>> ELSE Slide(h[k - 1], all[k], n)
    <3>1. CASE k = 0 BY Zenon, <1>3, <3>1
    <3>2. CASE k # 0 BY Zenon, <1>4, <1>5, <3>2
    <3> QED BY <3>1, <3>2
  <2> QED BY Zenon, <2>1
<1> DEFINE v == CHOOSE f : Def(f)
<1>7. Def(v)
  <2> HIDE DEF Def
  <2> QED BY Zenon, <1>6
<1>8. last_n_lines(s, n) = v[N] BY Zenon DEF last_n_lines, all, N
<1> HIDE DEF v
<1>9. \A k \in 0..N : v[k] = Window(k)
  <2> DEFINE Good == {k \in Nat : k \in 0..N => v[k] = Window(k)}
  <2>1. \A k \in 0..N : v[k] = IF k = 0 THEN <<>> ELSE Slide(v[k - 1], all[k], n) BY Zenon, <1>7
  <2> HIDE DEF Def
  <2>2. 0 \in Good BY Zenon, <1>3, <2>1
  <2>3. ASSUME NEW k \in Good PROVE k + 1 \in Good
    <3>1. k \in Nat /\ k + 1 \in Nat /\ (k + 1) - 1 = k /\ k + 1 # 0 OBVIOUS
    <3> SUFFICES ASSUME k + 1 \in 0..N PROVE v[k + 1] = Window(k + 1) BY Zenon, <3>1
    <3>2. k \in 0..N /\ k + 1 \in 1..N BY <1>2, <3>1
    <3>3. v[k] = Window(k) /\ v[k + 1] = Slide(v[k], all[k + 1], n) BY Zenon, <2>1, <3>1, <3>2
    <3>4. Window(k + 1) = Slide(Window(k), all[k + 1], n) BY Zenon, <1>4, <3>1, <3>2
    <3> QED BY Zenon, <3>3, <3>4
  <2>4. Good \in SUBSET Nat BY Zenon
  <2> HIDE DEF Good
  <2>5. Good = Nat BY Zenon, <2>2, <2>3, <2>4, Induction
  <2>6. \A k \in 0..N : k \in Nat BY <1>2
  <2> QED BY Zenon, <2>5, <2>6 DEF Good
<1>10. N \in 0..N BY <1>2
<1> QED BY Zenon, <1>8, <1>9, <1>10 DEF Window, all, N

\* last_n_lines returns the last lines of the file, for every file follow meets.
THEOREM LastLinesReturned == TailSpec => []LastLinesAreLast
<1>1. TailInv => LastLinesAreLast
  <2> SUFFICES ASSUME TailInv, NEW n \in 0..2
               PROVE  last_n_lines(file, n)
                        = SubSeq(AllLines(file), Max({1, Len(AllLines(file)) - n + 1}), Len(AllLines(file)))
    BY Zenon DEF LastLinesAreLast
  <2>1. file \in Seq(Nat) BY Zenon DEF TailInv
  <2>2. n \in Nat OBVIOUS
  <2> QED BY Zenon, <2>1, <2>2, LastLines DEF From
<1> QED BY <1>1, TailInvariant, PTL

-----------------------------------------------------------------------------
\* Firewall

Port == Nat \ {0}

CreateFields == {"at", "bindings", "ports", "opened", "unopened"}

IsCreate(c) ==
    /\ DOMAIN c = CreateFields /\ c = [f \in CreateFields |-> c[f]]
    /\ c.at \in {"create", "open", "done"} /\ c.bindings \in Seq(Int)
    /\ c.ports \in Seq(Port) /\ c.opened \in Seq(Port) /\ c.unopened \in Seq(Port)

\* The usable ports of c's bindings are the ones it opened, the ones it did not
\* and the ones that are left, each in one of the three and there once.
Split(c, left) ==
    /\ IsInjective(c.opened) /\ IsInjective(c.unopened) /\ IsInjective(left)
    /\ Range(c.opened) \cap Range(c.unopened) = {}
    /\ Range(c.opened) \cap Range(left) = {} /\ Range(c.unopened) \cap Range(left) = {}
    /\ Range(c.opened) \cup Range(c.unopened) \cup Range(left) = Usable(c.bindings)

\* Where a create is says what it has tried, and in mode Off it never tries.
Progress(c) ==
    /\ c.at = "create" => c.opened = <<>> /\ c.unopened = <<>>
    /\ c.at = "open" => mode # "Off" /\ c.ports # <<>> /\ Split(c, c.ports)
    /\ c.at = "done" /\ mode # "Off" => Split(c, <<>>)

FirewallInv ==
    /\ create = [t \in Creates |-> create[t]]
    /\ \A t \in Creates : IsCreate(create[t]) /\ Progress(create[t])
    /\ \A t \in Creates : Range(create[t].opened) \subseteq ufw
    /\ mode = "Off" => ufw = {} /\ late = {}
    /\ WARNED \in BOOLEAN /\ hints = (IF WARNED THEN 1 ELSE 0)
    /\ WARNED <=> \E t \in Creates : create[t].unopened # <<>>

\* An item that is not in a list yet is appended.
LEMMA Appending ==
    ASSUME NEW s \in Seq(Port), NEW p \in Port, p \notin Range(s), IsInjective(s)
    PROVE  /\ Append(s, p) \in Seq(Port) /\ Append(s, p) # <<>>
           /\ IsInjective(Append(s, p)) /\ Range(Append(s, p)) = Range(s) \cup {p}
<1> DEFINE new == Append(s, p)
<1>1. /\ new \in Seq(Port) /\ DOMAIN new = 1..(Len(s) + 1) /\ new[Len(s) + 1] = p
      /\ DOMAIN s = 1..Len(s) /\ Len(s) \in Nat /\ new # <<>>
      /\ \A i \in 1..Len(s) : new[i] = s[i]
  <2>1. /\ new \in Seq(Port) /\ Len(new) = Len(s) + 1 /\ new # <<>> /\ new[Len(s) + 1] = p
        /\ \A i \in 1..Len(s) : new[i] = s[i]
    BY AppendProperties
  <2>2. \A t \in Seq(Port) : DOMAIN t = 1..Len(t) /\ Len(t) \in Nat BY Zenon, LenProperties
  <2> QED BY Zenon, <2>1, <2>2
<1> HIDE DEF new
<1>2. IsInjective(new) BY <1>1 DEF IsInjective, Range
<1>3. Range(new) = Range(s) \cup {p} BY <1>1 DEF Range
<1> QED BY <1>1, <1>2, <1>3 DEF new

\* What the loop makes of the list that it has so far.
LEMMA PushAdds ==
    ASSUME NEW out \in Seq(Port), IsInjective(out), NEW p \in Int
    PROVE  /\ Push(out, p) \in Seq(Port) /\ IsInjective(Push(out, p))
           /\ Range(Push(out, p)) = Range(out) \cup (IF p > 0 THEN {p} ELSE {})
<1>1. CASE p > 0 /\ p \notin Range(out)
  <2>1. Push(out, p) = Append(out, p) BY Zenon, <1>1 DEF Push
  <2>2. p \in Port BY <1>1 DEF Port
  <2> QED BY Zenon, <1>1, <2>1, <2>2, Appending
<1>2. CASE ~(p > 0 /\ p \notin Range(out))
  BY <1>2 DEF Push
<1> QED BY <1>1, <1>2

\* f[k] is the list after the first k bindings.
After(f, b, k) == IF k = 0 THEN <<>> ELSE Push(f[k - 1], b[k])
Loop(f, b, n) == f = [k \in 0..n |-> After(f, b, k)]

\* The loop has a result after any number of rounds.
LEMMA LoopRuns ==
    ASSUME NEW b
    PROVE  \A n \in Nat : \E f : Loop(f, b, n)
<1> DEFINE Runs == {n \in Nat : \E f : Loop(f, b, n)}
<1>1. 0 \in Runs
  <2> DEFINE h == [k \in 0..0 |-> <<>>]
  <2>1. \A k \in 0..0 : After(h, b, k) = <<>> BY DEF After
  <2> HIDE DEF After
  <2>2. Loop(h, b, 0) BY Zenon, <2>1 DEF Loop
  <2> QED BY <2>2
<1>2. ASSUME NEW n \in Runs PROVE n + 1 \in Runs
  <2>1. n \in Nat /\ n + 1 \in Nat OBVIOUS
  <2>2. PICK f : Loop(f, b, n) BY Zenon
  <2> DEFINE h == [k \in 0..(n + 1) |-> IF k <= n THEN f[k] ELSE After(f, b, k)]
  <2>3. ASSUME NEW k \in 0..(n + 1) PROVE After(h, b, k) = After(f, b, k)
    <3>1. k # 0 => k - 1 \in 0..(n + 1) /\ k - 1 <= n BY <2>1
    <3>2. k # 0 => h[k - 1] = f[k - 1] BY Zenon, <3>1
    <3> HIDE DEF h
    <3> QED BY <3>2 DEF After
  <2>4. ASSUME NEW k \in 0..(n + 1) PROVE h[k] = After(h, b, k)
    <3>1. CASE k <= n
      <4>1. k \in 0..n BY <2>1, <3>1
      <4>2. f[k] = After(f, b, k) BY Zenon, <2>2, <4>1 DEF Loop
      <4> QED BY Zenon, <3>1, <2>3, <4>2
    <3>2. CASE ~(k <= n)
      BY Zenon, <3>2, <2>3
    <3> QED BY <3>1, <3>2
  <2>5. Loop(h, b, n + 1) BY Zenon, <2>4 DEF Loop
  <2> QED BY Zenon, <2>1, <2>5
<1>3. Runs \in SUBSET Nat BY Zenon
<1> HIDE DEF Runs
<1>4. Runs = Nat BY Zenon, <1>1, <1>2, <1>3, Induction
<1> QED BY Zenon, <1>4 DEF Runs

\* The loop of ports_from_bindings collects the usable ports, each once.
LEMMA PortsAreUsable ==
    ASSUME NEW b \in Seq(Int)
    PROVE  /\ ports_from_bindings(b) \in Seq(Port) /\ IsInjective(ports_from_bindings(b))
           /\ Range(ports_from_bindings(b)) = Usable(b)
<1> DEFINE N == Len(b)
           g == CHOOSE f : Loop(f, b, N)
           First(n) == {p \in Int : p > 0 /\ \E i \in 1..n : b[i] = p}
           Right == {n \in Nat : n <= N => /\ g[n] \in Seq(Port) /\ IsInjective(g[n])
                                           /\ Range(g[n]) = First(n)}
<1>1. N \in Nat /\ DOMAIN b = 1..N /\ \A i \in 1..N : b[i] \in Int
  OBVIOUS
<1>2. Loop(g, b, N)
  <2>1. \E f : Loop(f, b, N) BY Zenon, <1>1, LoopRuns
  <2> QED BY Zenon, <2>1
<1>3. ports_from_bindings(b) = g[N]
  BY Zenon DEF ports_from_bindings, Loop, After
<1> HIDE DEF g
<1>4. 0 \in Right
  <2>0. 0 \in 0..N BY <1>1
  <2>1. g[0] = <<>> BY Zenon, <1>2, <2>0 DEF Loop, After
  <2>2. First(0) = {} OBVIOUS
  <2>3. <<>> \in Seq(Port) /\ IsInjective(<<>>) /\ Range(<<>>) = {} BY DEF IsInjective, Range
  <2> HIDE DEF First
  <2> QED BY <2>1, <2>2, <2>3
<1>5. ASSUME NEW n \in Right PROVE n + 1 \in Right
  <2>1. n \in Nat /\ n + 1 \in Nat OBVIOUS
  <2> SUFFICES ASSUME n + 1 <= N
               PROVE  /\ g[n + 1] \in Seq(Port) /\ IsInjective(g[n + 1])
                      /\ Range(g[n + 1]) = First(n + 1)
    BY <2>1
  <2>2. g[n] \in Seq(Port) /\ IsInjective(g[n]) /\ Range(g[n]) = First(n) BY SMTT(30), <1>1, <2>1
  <2>3. n + 1 \in 0..N /\ n + 1 # 0 /\ n + 1 - 1 = n /\ b[n + 1] \in Int BY <1>1, <2>1
  <2>4. g[n + 1] = Push(g[n], b[n + 1])
    <3>1. g[n + 1] = After(g, b, n + 1) BY Zenon, <1>2, <2>3 DEF Loop
    <3> QED BY <3>1, <2>3 DEF After
  <2>5. First(n + 1) = First(n) \cup (IF b[n + 1] > 0 THEN {b[n + 1]} ELSE {})
    BY SMTT(30), <1>1, <2>1, <2>3
  <2> HIDE DEF First
  <2> QED BY Zenon, <2>2, <2>3, <2>4, <2>5, PushAdds
<1>6. Right \in SUBSET Nat OBVIOUS
<1>7. Right = Nat
  <2> HIDE DEF Right
  <2> QED BY Zenon, <1>4, <1>5, <1>6, Induction
<1>8. g[N] \in Seq(Port) /\ IsInjective(g[N]) /\ Range(g[N]) = First(N)
  <2>1. N \in Right BY <1>1, <1>7
  <2> QED BY <1>1, <2>1
<1>9. First(N) = Usable(b)
  BY <1>1 DEF Usable, Range
<1> QED BY Zenon, <1>3, <1>8, <1>9

\* The next port is taken off a list.
LEMMA Taking ==
    ASSUME NEW s \in Seq(Port), s # <<>>, IsInjective(s)
    PROVE  /\ Head(s) \in Port /\ Tail(s) \in Seq(Port) /\ IsInjective(Tail(s))
           /\ Head(s) \notin Range(Tail(s)) /\ Range(s) = {Head(s)} \cup Range(Tail(s))
           /\ Tail(s) = <<>> <=> Len(s) = 1
<1> DEFINE rest == Tail(s)
           h == Head(s)
<1>1. /\ rest \in Seq(Port) /\ Len(s) \in Nat /\ Len(s) >= 1 /\ h = s[1] /\ h \in Port
      /\ DOMAIN s = 1..Len(s) /\ DOMAIN rest = 1..(Len(s) - 1)
      /\ \A i \in 1..(Len(s) - 1) : rest[i] = s[i + 1]
      /\ rest = <<>> <=> Len(s) = 1
  <2>1. Len(s) \in Nat /\ Len(s) >= 1 /\ DOMAIN s = 1..Len(s) OBVIOUS
  <2>2. rest \in Seq(Port) /\ Len(rest) = Len(s) - 1 /\ h = s[1] /\ h \in Port OBVIOUS
  <2>3. \A i \in 1..(Len(s) - 1) : rest[i] = s[i + 1] BY <2>1
  <2> HIDE DEF rest
  <2>4. DOMAIN rest = 1..(Len(s) - 1) /\ (rest = <<>> <=> Len(s) = 1) BY <2>1, <2>2
  <2> QED BY <2>1, <2>2, <2>3, <2>4
<1> HIDE DEF rest, h
<1>2. IsInjective(rest)
  <2>1. \A i \in DOMAIN rest : i + 1 \in DOMAIN s BY <1>1
  <2> SUFFICES ASSUME NEW i \in DOMAIN rest, NEW j \in DOMAIN rest, rest[i] = rest[j] PROVE i = j
    BY DEF IsInjective
  <2>2. s[i + 1] = s[j + 1] BY ZenonT(30), <1>1
  <2>3. i + 1 = j + 1 BY <2>1, <2>2 DEF IsInjective
  <2> QED BY SMTT(30), <1>1, <2>3
<1>3. h \notin Range(rest) BY SMTT(30), <1>1 DEF IsInjective, Range
<1>4. Range(s) = {h} \cup Range(rest)
  <2>1. ASSUME NEW i \in DOMAIN s PROVE i = 1 \/ (s[i] = rest[i - 1] /\ i - 1 \in DOMAIN rest)
    <3>1. CASE i # 1
      <4>1. i - 1 \in 1..(Len(s) - 1) /\ i = (i - 1) + 1 BY <1>1, <3>1
      <4>2. rest[i - 1] = s[(i - 1) + 1] BY Zenon, <1>1, <4>1
      <4> QED BY <1>1, <4>1, <4>2
    <3> QED BY <3>1
  <2>2. \A i \in DOMAIN rest : rest[i] = s[i + 1] /\ i + 1 \in DOMAIN s BY SMTT(30), <1>1
  <2>3. 1 \in DOMAIN s BY <1>1
  <2>4. Range(s) \subseteq {h} \cup Range(rest) BY Zenon, <1>1, <2>1 DEF Range
  <2>5. {h} \cup Range(rest) \subseteq Range(s) BY Zenon, <1>1, <2>2, <2>3 DEF Range
  <2> QED BY Zenon, <2>4, <2>5
<1> QED BY <1>1, <1>2, <1>3, <1>4 DEF rest, h

\* Two lists with nothing in common, one after the other.
LEMMA Joining ==
    ASSUME NEW a \in Seq(Port), NEW b \in Seq(Port), IsInjective(a), IsInjective(b),
           Range(a) \cap Range(b) = {}
    PROVE  IsInjective(a \o b) /\ Range(a \o b) = Range(a) \cup Range(b)
<1> DEFINE c == a \o b
<1>1. /\ Len(a) \in Nat /\ Len(b) \in Nat /\ DOMAIN a = 1..Len(a) /\ DOMAIN b = 1..Len(b)
      /\ DOMAIN c = 1..(Len(a) + Len(b))
      /\ \A i \in 1..(Len(a) + Len(b)) : c[i] = IF i <= Len(a) THEN a[i] ELSE b[i - Len(a)]
  OBVIOUS
<1> HIDE DEF c
<1>2. /\ \A i \in DOMAIN c : IF i <= Len(a) THEN i \in DOMAIN a ELSE i - Len(a) \in DOMAIN b
      /\ \A i \in DOMAIN b : i + Len(a) \in DOMAIN c /\ c[i + Len(a)] = b[i]
      /\ \A i \in DOMAIN a : i \in DOMAIN c /\ c[i] = a[i]
  BY <1>1
<1>3. IsInjective(c)
  <2> SUFFICES ASSUME NEW i \in DOMAIN c, NEW j \in DOMAIN c, c[i] = c[j] PROVE i = j
    BY DEF IsInjective
  <2>1. CASE i <= Len(a) /\ j <= Len(a) BY ZenonT(30), <1>1, <1>2, <2>1 DEF IsInjective
  <2>2. CASE ~(i <= Len(a)) /\ ~(j <= Len(a))
    <3>1. b[i - Len(a)] = b[j - Len(a)] /\ i - Len(a) \in DOMAIN b /\ j - Len(a) \in DOMAIN b
      BY ZenonT(30), <1>1, <1>2, <2>2
    <3>2. i - Len(a) = j - Len(a) BY <3>1 DEF IsInjective
    <3> QED BY SMTT(30), <1>1, <3>2
  <2>3. CASE i <= Len(a) /\ ~(j <= Len(a))
    <3>1. a[i] = b[j - Len(a)] /\ i \in DOMAIN a /\ j - Len(a) \in DOMAIN b BY <1>1, <1>2, <2>3
    <3> QED BY Zenon, <3>1 DEF Range
  <2>4. CASE ~(i <= Len(a)) /\ j <= Len(a)
    <3>1. a[j] = b[i - Len(a)] /\ j \in DOMAIN a /\ i - Len(a) \in DOMAIN b BY ZenonT(30), <1>1, <1>2, <2>4
    <3> QED BY Zenon, <3>1 DEF Range
  <2> QED BY ZenonT(30), <2>1, <2>2, <2>3, <2>4
<1>4. Range(c) = Range(a) \cup Range(b) BY <1>1, <1>2 DEF Range
<1> QED BY <1>3, <1>4 DEF c

\* Task t's create moves on and nothing else about creates changes; the hint is
\* given just when a port is added to the ones that were not opened.
LEMMA CreateMoves ==
    ASSUME FirewallInv, NEW t \in Creates,
           create' = [u \in Creates |-> create'[u]],
           \A u \in Creates \ {t} : create'[u] = create[u],
           IsCreate(create'[t]), Progress(create[t])', UNCHANGED mode,
           ufw \subseteq ufw', Range(create'[t].opened) \subseteq ufw',
           mode = "Off" => ufw' = {} /\ late' = {},
           NEW warns \in BOOLEAN, warn_once(warns),
           create'[t].unopened # <<>> <=> (create[t].unopened # <<>> \/ warns)
    PROVE  FirewallInv'
<1>1. \A u \in Creates : IsCreate(create'[u]) /\ Progress(create[u])'
  BY Zenon DEF FirewallInv, Progress
<1>2. \A u \in Creates : Range(create'[u].opened) \subseteq ufw'
  BY Zenon DEF FirewallInv
<1>3. WARNED' \in BOOLEAN /\ hints' = (IF WARNED' THEN 1 ELSE 0)
  BY DEF FirewallInv, warn_once
<1>4. WARNED' <=> \E u \in Creates : create'[u].unopened # <<>>
  <2>1. WARNED' <=> (WARNED \/ warns) BY Zenon DEF warn_once
  <2>2. WARNED <=> \E u \in Creates : create[u].unopened # <<>> BY Zenon DEF FirewallInv
  <2> QED BY Zenon, <2>1, <2>2
<1> QED BY Zenon, <1>1, <1>2, <1>3, <1>4 DEF FirewallInv

\* A round of the loop: the port at the head was opened or not.
LEMMA Round ==
    ASSUME FirewallInv, NEW t \in Creates, create[t].at = "open",
           NEW isOpen \in BOOLEAN, NextPort(t, isOpen), warn_once(~isOpen), UNCHANGED mode,
           ufw \subseteq ufw', isOpen => Head(create[t].ports) \in ufw'
    PROVE  FirewallInv'
<1> DEFINE c == create[t]
           d == create'[t]
           p == Head(c.ports)
<1>1. IsCreate(c) /\ Progress(c) /\ create = [u \in Creates |-> create[u]]
  BY Zenon DEF FirewallInv
<1>2. mode # "Off" /\ c.ports # <<>> /\ Split(c, c.ports)
  BY Zenon, <1>1 DEF Progress
<1>3. /\ c.ports \in Seq(Port) /\ c.opened \in Seq(Port) /\ c.unopened \in Seq(Port)
      /\ c.bindings \in Seq(Int) /\ IsInjective(c.ports)
  BY Zenon, <1>1, <1>2 DEF IsCreate, Split
<1>4. /\ p \in Port /\ Tail(c.ports) \in Seq(Port) /\ IsInjective(Tail(c.ports))
      /\ p \notin Range(Tail(c.ports)) /\ Range(c.ports) = {p} \cup Range(Tail(c.ports))
      /\ Tail(c.ports) = <<>> <=> Len(c.ports) = 1
  BY Zenon, <1>2, <1>3, Taking
<1>5. /\ create' = [u \in Creates |-> create'[u]]
      /\ \A u \in Creates \ {t} : create'[u] = create[u]
      /\ DOMAIN d = CreateFields /\ d = [f \in CreateFields |-> d[f]]
      /\ d.at = (IF Len(c.ports) = 1 THEN "done" ELSE "open")
      /\ d.bindings = c.bindings /\ d.ports = Tail(c.ports)
      /\ d.opened = (IF isOpen THEN Append(c.opened, p) ELSE c.opened)
      /\ d.unopened = (IF isOpen THEN c.unopened ELSE Append(c.unopened, p))
  BY ZenonT(60), <1>1 DEF NextPort, IsCreate, CreateFields
<1> HIDE DEF c, d, p
<1>6. p \notin Range(c.opened) /\ p \notin Range(c.unopened)
  BY Zenon, <1>2, <1>4 DEF Split
<1>7. /\ d.opened \in Seq(Port) /\ IsInjective(d.opened)
      /\ d.unopened \in Seq(Port) /\ IsInjective(d.unopened)
      /\ d.unopened # <<>> <=> (c.unopened # <<>> \/ ~isOpen)
      /\ Split(d, d.ports)
      /\ Range(d.opened) = Range(c.opened) \cup (IF isOpen THEN {p} ELSE {})
  <2>1. IsInjective(c.opened) /\ IsInjective(c.unopened) BY Zenon, <1>2 DEF Split
  <2>2. CASE isOpen
    <3>1. d.opened = Append(c.opened, p) /\ d.unopened = c.unopened BY Zenon, <1>5, <2>2
    <3>2. /\ d.opened \in Seq(Port) /\ IsInjective(d.opened)
          /\ Range(d.opened) = Range(c.opened) \cup {p}
      BY Zenon, <1>3, <1>4, <1>6, <2>1, <3>1, Appending
    <3>3. Split(d, d.ports)
      BY ZenonT(60), <1>2, <1>4, <1>5, <1>6, <3>1, <3>2 DEF Split
    <3> QED BY Zenon, <1>3, <2>1, <2>2, <3>1, <3>2, <3>3
  <2>3. CASE ~isOpen
    <3>1. d.unopened = Append(c.unopened, p) /\ d.opened = c.opened BY Zenon, <1>5, <2>3
    <3>2. /\ d.unopened \in Seq(Port) /\ IsInjective(d.unopened) /\ d.unopened # <<>>
          /\ Range(d.unopened) = Range(c.unopened) \cup {p}
      BY Zenon, <1>3, <1>4, <1>6, <2>1, <3>1, Appending
    <3>3. Split(d, d.ports)
      BY ZenonT(60), <1>2, <1>4, <1>5, <1>6, <3>1, <3>2 DEF Split
    <3> QED BY Zenon, <1>3, <2>1, <2>3, <3>1, <3>2, <3>3
  <2> QED BY <2>2, <2>3
<1>9. IsCreate(d)
  <2>1. d.at \in {"create", "open", "done"} BY Zenon, <1>5
  <2> QED BY Zenon, <1>3, <1>4, <1>5, <1>7, <2>1 DEF IsCreate
<1>11. Progress(d)
  BY Zenon, <1>2, <1>4, <1>5, <1>7 DEF Progress
<1>12. Progress(create[t])'
  BY Zenon, <1>11 DEF Progress, d
<1>13. Range(c.opened) \subseteq ufw
  BY Zenon DEF FirewallInv, c
<1>14. Range(d.opened) \subseteq ufw'
  BY Zenon, <1>7, <1>13 DEF p, c
<1> QED
  BY Zenon, <1>2, <1>5, <1>7, <1>9, <1>12, <1>14, CreateMoves DEF c, d

\* The step before the loop.
LEMMA OpenPortsStep ==
    ASSUME FirewallInv, NEW t \in Creates, open_ports(t)
    PROVE  FirewallInv'
<1> DEFINE c == create[t]
           d == create'[t]
           ports == ports_from_bindings(c.bindings)
           off == mode = "Off" \/ ports = <<>>
<1>1. IsCreate(c) /\ Progress(c) /\ create = [u \in Creates |-> create[u]]
  BY Zenon DEF FirewallInv
<1>2. c.at = "create" /\ c.opened = <<>> /\ c.unopened = <<>> /\ c.bindings \in Seq(Int)
  BY Zenon, <1>1 DEF open_ports, Progress, IsCreate
<1>3. ports \in Seq(Port) /\ IsInjective(ports) /\ Range(ports) = Usable(c.bindings)
  BY Zenon, <1>2, PortsAreUsable
<1>4. /\ create' = [u \in Creates |-> create'[u]]
      /\ \A u \in Creates \ {t} : create'[u] = create[u]
      /\ DOMAIN d = CreateFields /\ d = [f \in CreateFields |-> d[f]]
      /\ d.at = (IF off \/ ~installed THEN "done" ELSE "open")
      /\ d.bindings = c.bindings /\ d.ports = ports /\ d.opened = c.opened
      /\ d.unopened = (IF off \/ installed THEN <<>> ELSE ports)
  BY Zenon, <1>1 DEF open_ports, IsCreate, CreateFields
<1>5. warn_once(~off /\ ~installed) /\ UNCHANGED <<mode, installed, ufw, late>>
  BY Zenon DEF open_ports
<1> HIDE DEF c, d, ports
<1>6. <<>> \in Seq(Port) /\ IsInjective(<<>>) /\ Range(<<>>) = {}
  BY DEF IsInjective, Range
<1>7. /\ d.at \in {"create", "open", "done"} /\ d.at # "create"
      /\ d.at = "open" => ~off /\ installed
      /\ d.at = "done" => off \/ ~installed
  BY Zenon, <1>4
<1>8. IsCreate(d)
  BY Zenon, <1>2, <1>3, <1>4, <1>6, <1>7 DEF IsCreate
<1>9. Progress(d)
  <2>1. CASE d.at = "open"
    <3>1. d.unopened = <<>> /\ mode # "Off" /\ d.ports # <<>> BY Zenon, <1>4, <1>7, <2>1
    <3>2. Split(d, d.ports) BY Zenon, <1>2, <1>3, <1>4, <1>6, <3>1 DEF Split
    <3> QED BY Zenon, <2>1, <3>1, <3>2 DEF Progress
  <2>2. CASE d.at = "done" /\ mode # "Off" /\ ports = <<>>
    <3>1. d.unopened = <<>> BY Zenon, <1>4, <2>2
    <3>2. Split(d, <<>>) BY Zenon, <1>2, <1>3, <1>4, <1>6, <2>2, <3>1 DEF Split
    <3> QED BY Zenon, <2>2, <3>2 DEF Progress
  <2>3. CASE d.at = "done" /\ mode # "Off" /\ ports # <<>>
    <3>1. d.unopened = ports BY Zenon, <1>4, <1>7, <2>3
    <3>2. Split(d, <<>>) BY Zenon, <1>2, <1>3, <1>4, <1>6, <3>1 DEF Split
    <3> QED BY Zenon, <2>3, <3>2 DEF Progress
  <2> QED BY Zenon, <1>7, <2>1, <2>2, <2>3 DEF Progress
<1>10. Progress(create[t])'
  BY Zenon, <1>5, <1>9 DEF Progress, d
<1>11. d.unopened # <<>> <=> (c.unopened # <<>> \/ (~off /\ ~installed))
  BY Zenon, <1>2, <1>4
<1>12. Range(d.opened) \subseteq ufw' /\ (mode = "Off" => ufw' = {} /\ late' = {})
  BY Zenon, <1>2, <1>4, <1>5, <1>6 DEF FirewallInv
<1>13. (~off /\ ~installed) \in BOOLEAN BY Zenon
<1> QED
  BY Zenon, <1>4, <1>5, <1>8, <1>10, <1>11, <1>12, <1>13, CreateMoves DEF c, d

\* The invariant holds throughout.
LEMMA FirewallInvariant == FirewallSpec => []FirewallInv
<1>1. FirewallInit => FirewallInv
  <2> SUFFICES ASSUME FirewallInit PROVE FirewallInv OBVIOUS
  <2>1. /\ create = [t \in Creates |-> create[t]]
        /\ ufw = {} /\ late = {} /\ WARNED = FALSE /\ hints = 0
    BY Zenon DEF FirewallInit
  <2>2. ASSUME NEW t \in Creates
        PROVE  /\ create[t].at = "create" /\ create[t].bindings \in Bindings
               /\ create[t].ports = <<>> /\ create[t].opened = <<>> /\ create[t].unopened = <<>>
               /\ DOMAIN create[t] = CreateFields
               /\ create[t] = [f \in CreateFields |-> create[t][f]]
    BY DEF FirewallInit, CreateFields
  <2>3. <<>> \in Seq(Port) /\ Range(<<>>) = {} BY DEF Range
  <2>4. \A t \in Creates : IsCreate(create[t])
    BY Zenon, <2>2, <2>3, BindingsAssumption DEF IsCreate
  <2>5. \A t \in Creates : Progress(create[t]) BY <2>2 DEF Progress
  <2>6. \A t \in Creates : Range(create[t].opened) \subseteq ufw BY Zenon, <2>2, <2>3
  <2> QED BY <2>1, <2>2, <2>4, <2>5, <2>6 DEF FirewallInv
<1>2. FirewallInv /\ [FirewallNext]_firewallVars => FirewallInv'
  <2> SUFFICES ASSUME FirewallInv, [FirewallNext]_firewallVars PROVE FirewallInv' OBVIOUS
  <2>1. ASSUME NEW t \in Creates, open_ports(t) PROVE FirewallInv'
    BY Zenon, <2>1, OpenPortsStep
  <2>2. ASSUME NEW t \in Creates, Allowed(t) PROVE FirewallInv'
    <3>1. ufw \subseteq ufw' /\ Head(create[t].ports) \in ufw' /\ warn_once(~TRUE)
      BY Zenon, <2>2 DEF Allowed
    <3> QED BY Zenon, <2>2, <3>1, Round DEF Allowed
  <2>3. ASSUME NEW t \in Creates, Refused(t) \/ TimedOut(t) PROVE FirewallInv'
    <3>1. /\ create[t].at = "open" /\ NextPort(t, FALSE) /\ warn_once(~FALSE)
          /\ UNCHANGED <<mode, ufw>>
      BY Zenon, <2>3 DEF Refused, TimedOut
    <3> QED BY Zenon, <3>1, Round
  <2>4. ASSUME NEW p \in late, AbandonedEnds(p) PROVE FirewallInv'
    <3>1. /\ UNCHANGED <<mode, installed, WARNED, hints, create>> /\ mode # "Off"
          /\ ufw \subseteq ufw'
      BY Zenon, <2>4 DEF AbandonedEnds, FirewallInv
    <3> QED BY Zenon, <3>1 DEF FirewallInv, Progress
  <2>5. CASE UNCHANGED firewallVars
    BY Zenon, <2>5 DEF FirewallInv, Progress, firewallVars
  <2> QED BY Zenon, <2>1, <2>2, <2>3, <2>4, <2>5 DEF FirewallNext
<1> QED BY <1>1, <1>2, PTL DEF FirewallSpec

\* "We never pretend it worked": for any bindings and any number of creates, a
\* port that open_ports reports as opened is open, and mode Off opens none.
THEOREM OpenedPortsAreOpen == FirewallSpec => []OpenedIsOpen
<1>1. FirewallInv => OpenedIsOpen
  BY Zenon DEF FirewallInv, OpenedIsOpen
<1> QED BY <1>1, FirewallInvariant, PTL

\* A create that got through has tried every usable port of its bindings, and
\* each of them once, whatever failed.
THEOREM EveryPortIsTried == FirewallSpec => []EveryPortTried
<1>1. FirewallInv => EveryPortTried
  <2> SUFFICES ASSUME FirewallInv, NEW t \in Creates, create[t].at = "done", mode # "Off"
               PROVE  /\ Range(create[t].opened \o create[t].unopened) = Usable(create[t].bindings)
                      /\ IsInjective(create[t].opened \o create[t].unopened)
    BY Zenon DEF EveryPortTried
  <2>1. /\ Split(create[t], <<>>) /\ create[t].opened \in Seq(Port)
        /\ create[t].unopened \in Seq(Port)
    BY Zenon DEF FirewallInv, Progress, IsCreate
  <2>2. Range(<<>>) = {} BY DEF Range
  <2>3. Range(create[t].opened) \cup Range(create[t].unopened) = Usable(create[t].bindings)
    BY Zenon, <2>1, <2>2 DEF Split
  <2> QED BY Zenon, <2>1, <2>3, Joining DEF Split
<1> QED BY <1>1, FirewallInvariant, PTL

\* The hint is logged once, if any port was not opened, by any number of creates.
THEOREM HintIsLoggedOnce == FirewallSpec => []HintedOnce
<1>1. FirewallInv => HintedOnce
  BY Zenon DEF FirewallInv, HintedOnce
<1> QED BY <1>1, FirewallInvariant, PTL
=============================================================================
