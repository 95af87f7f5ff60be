---------------------------- MODULE PayloadProofs ----------------------------
(***************************************************************************)
(* Proofs about the request a conversation becomes: what the preparation   *)
(* of the messages and the translations for the three upstream APIs keep   *)
(* of what the user, the tools and the assistant said, for conversations   *)
(* of any length, any contents and any number of calls.                    *)
(*                                                                         *)
(* The plan: a user message, prepared, answers the same calls and loses    *)
(* only what is given up (Rewritten); each API turns a message into a      *)
(* piece of the payload (Piece) whose results stand first; pieces laid one *)
(* after the other answer every call and bring every identity once; what   *)
(* upstream answers and what the user says next keep a conversation of     *)
(* the form this needs (Talked).                                           *)
(***************************************************************************)
EXTENDS Gateway, FiniteSetTheorems, WellFoundedInduction, TLAPS

-----------------------------------------------------------------------------
(* Sequences                                                               *)

LEMMA MinMax ==
    ASSUME NEW a \in Int, NEW b \in Int
    PROVE  /\ Min({a, b}) = IF a <= b THEN a ELSE b
           /\ Max({a, b}) = IF a <= b THEN b ELSE a
<1>1. \E x \in {a, b} : \A y \in {a, b} : x <= y
  OBVIOUS
<1>2. \E x \in {a, b} : \A y \in {a, b} : x >= y
  OBVIOUS
<1>3. Min({a, b}) \in {a, b} /\ \A y \in {a, b} : Min({a, b}) <= y
  BY <1>1 DEF Min
<1>4. Max({a, b}) \in {a, b} /\ \A y \in {a, b} : Max({a, b}) >= y
  BY <1>2 DEF Max
<1> QED
  BY <1>3, <1>4

\* A sequence of whatever it holds.
IsSeq(s) == s \in Seq(ToSet(s))

LEMMA SeqOfMore ==
    ASSUME NEW S, NEW s \in Seq(S), NEW T, S \subseteq T PROVE s \in Seq(T)
  OBVIOUS

LEMMA SeqOfOwn ==
    ASSUME NEW S, NEW s \in Seq(S) PROVE s \in Seq(ToSet(s))
<1>1. s \in [1 .. Len(s) -> ToSet(s)] /\ Len(s) \in Nat
  BY DEF ToSet
<1> QED
  BY <1>1

LEMMA NatLeast ==
    ASSUME NEW T, T \subseteq Nat, T # {} PROVE \E x \in T : \A y \in T : ~(y < x)
<1>1. IsWellFoundedOn(OpToRel(<, Nat), Nat)
  BY NatLessThanWellFounded
<1>2. \E x \in T : \A y \in T : ~(<<y, x>> \in OpToRel(<, Nat))
  BY <1>1, WFMin
<1> QED
  BY <1>2 DEF OpToRel

LEMMA Induction ==
    ASSUME NEW S, 0 \in S, \A n \in Nat : n \in S => n + 1 \in S PROVE \A n \in Nat : n \in S
<1> DEFINE T == {n \in Nat : n \notin S}
<1>1. SUFFICES ASSUME T # {} PROVE FALSE
  OBVIOUS
<1>2. PICK x \in T : \A y \in T : ~(y < x)
  <2>1. T \subseteq Nat
    OBVIOUS
  <2> HIDE DEF T
  <2> QED
    BY <1>1, <2>1, NatLeast
<1>3. x \in Nat /\ x # 0
  BY <1>2
<1>4. x - 1 \in Nat /\ x - 1 < x /\ (x - 1) + 1 = x
  BY <1>3
<1>5. x - 1 \notin S
  BY <1>2, <1>4
<1> QED
  BY <1>2, <1>4, <1>5

\* Joined(f, s): f are the sequences joined so far, one after the other.
Joined(f, s) ==
  \A i \in 1 .. Len(s) : f[i] = IF i = 1 THEN s[i] ELSE f[i - 1] \o s[i]

LEMMA JoinExists ==
    ASSUME NEW X, NEW s \in Seq(Seq(X))
    PROVE  \E f \in [1 .. Len(s) -> Seq(X)] : Joined(f, s)
<1> DEFINE Step(f, i) == f[i] = IF i = 1 THEN s[i] ELSE f[i - 1] \o s[i]
           To(n) == \E f \in [1 .. n -> Seq(X)] : \A i \in 1 .. n : Step(f, i)
           S == {n \in Nat : n <= Len(s) => To(n)}
<1>1. 0 \in S
  <2>1. [i \in 1 .. 0 |-> <<>>] \in [1 .. 0 -> Seq(X)]
    OBVIOUS
  <2>2. \A f : \A i \in 1 .. 0 : Step(f, i)
    OBVIOUS
  <2> HIDE DEF Step
  <2>3. To(0)
    BY <2>1, <2>2
  <2> HIDE DEF To
  <2> QED
    BY <2>3
<1> HIDE DEF Step
<1>2. ASSUME NEW n \in Nat, n \in S PROVE n + 1 \in S
  <2>1. SUFFICES ASSUME n + 1 <= Len(s)
                 PROVE  \E f \in [1 .. n + 1 -> Seq(X)] : \A i \in 1 .. n + 1 : Step(f, i)
    <3> HIDE DEF To
    <3>1. (n + 1 <= Len(s) => To(n + 1)) => n + 1 \in S
      OBVIOUS
    <3> QED
      BY <3>1 DEF To
  <2>2. PICK f \in [1 .. n -> Seq(X)] : \A i \in 1 .. n : Step(f, i)
    <3> HIDE DEF To
    <3>1. To(n)
      BY <1>2, <2>1
    <3> QED
      BY <3>1 DEF To
  <2> DEFINE next == IF n = 0 THEN s[1] ELSE f[n] \o s[n + 1]
             g == [i \in 1 .. n + 1 |-> IF i <= n THEN f[i] ELSE next]
  <2>3. next \in Seq(X)
    <3>1. CASE n = 0
      BY <3>1, <2>1
    <3>2. CASE n # 0
      <4>1. n \in 1 .. n /\ n + 1 \in 1 .. Len(s)
        BY <3>2, <2>1
      <4>2. f[n] \in Seq(X) /\ s[n + 1] \in Seq(X)
        BY <4>1
      <4> QED
        BY <3>2, <4>2
    <3> QED
      BY <3>1, <3>2
  <2> HIDE DEF next
  <2>4. g \in [1 .. n + 1 -> Seq(X)]
    <3>1. \A i \in 1 .. n + 1 : i <= n => i \in 1 .. n
      OBVIOUS
    <3> QED
      BY <2>3, <3>1
  <2>5. ASSUME NEW i \in 1 .. n + 1 PROVE Step(g, i)
    <3>1. CASE i <= n
      <4>1. i \in 1 .. n /\ (i # 1 => i - 1 \in 1 .. n)
        BY <3>1
      <4>2. g[i] = f[i] /\ (i # 1 => g[i - 1] = f[i - 1])
        BY <3>1, <4>1
      <4> QED
        BY <2>2, <4>1, <4>2 DEF Step
    <3>2. CASE i = n + 1
      <4>1. g[i] = next
        BY <3>2
      <4>2. n # 0 => g[i - 1] = f[n] /\ i # 1
        BY <3>2
      <4> HIDE DEF g
      <4> QED
        BY <3>2, <4>1, <4>2 DEF next, Step
    <3> QED
      BY <3>1, <3>2
  <2> QED
    BY <2>4, <2>5
<1>3. Len(s) \in S
  <2> HIDE DEF S
  <2>1. Len(s) \in Nat
    OBVIOUS
  <2> QED
    BY <1>1, <1>2, <2>1, Induction
<1>4. To(Len(s))
  <2> HIDE DEF To
  <2> QED
    BY <1>3
<1>5. PICK f \in [1 .. Len(s) -> Seq(X)] : \A i \in 1 .. Len(s) : Step(f, i)
  BY <1>4
<1> QED
  BY <1>5 DEF Joined, Step

LEMMA FlattenJoins ==
    ASSUME NEW X, NEW s \in Seq(Seq(X)), s # <<>>
    PROVE  \E f \in [1 .. Len(s) -> Seq(X)] : Joined(f, s) /\ FlattenSeq(s) = f[Len(s)]
<1> DEFINE D == 1 .. Len(s)
           Eq(f) == f = [i \in D |-> IF i = 1 THEN s[i] ELSE f[i - 1] \o s[i]]
           F == CHOOSE f : Eq(f)
<1>1. PICK g \in [1 .. Len(s) -> Seq(X)] : Joined(g, s)
  BY JoinExists
<1>2. Eq(g)
  BY <1>1 DEF Joined
<1>3. Eq(F)
  BY <1>2
<1>4. FlattenSeq(s) = F[Len(s)]
  BY DEF FlattenSeq
<1> DEFINE S == {n \in Nat : n \in 1 .. Len(s) => F[n] \in Seq(X)}
<1>5. 0 \in S
  OBVIOUS
<1> HIDE DEF F
<1>6. ASSUME NEW n \in Nat, n \in S PROVE n + 1 \in S
  <2>1. SUFFICES ASSUME n + 1 \in 1 .. Len(s) PROVE F[n + 1] \in Seq(X)
    OBVIOUS
  <2>2. F[n + 1] = IF n + 1 = 1 THEN s[n + 1] ELSE F[(n + 1) - 1] \o s[n + 1]
    BY <1>3, <2>1
  <2>3. n # 0 => n \in 1 .. Len(s) /\ (n + 1) - 1 = n /\ n + 1 # 1
    BY <2>1
  <2>4. s[n + 1] \in Seq(X)
    BY <2>1
  <2>5. n # 0 => F[n] \in Seq(X)
    BY <2>3, <1>6
  <2> QED
    BY <2>2, <2>3, <2>4, <2>5
<1>7. \A n \in Nat : n \in S
  <2> HIDE DEF S
  <2> QED
    BY <1>5, <1>6, Induction
<1>8. F \in [1 .. Len(s) -> Seq(X)]
  <2>1. \A n \in 1 .. Len(s) : F[n] \in Seq(X)
    BY <1>7
  <2>2. F = [n \in 1 .. Len(s) |-> F[n]]
    BY <1>3
  <2> QED
    BY <2>1, <2>2
<1>9. Joined(F, s)
  BY <1>3, <1>8 DEF Joined
<1> QED
  BY <1>4, <1>8, <1>9

\* Laid(s, t, row, col): t holds the elements of the sequences s, sequence after sequence;
\* the element at i stands in s at row[i] and col[i].
Laid(s, t, row, col) ==
  /\ row \in [1 .. Len(t) -> 1 .. Len(s)]
  /\ col \in [1 .. Len(t) -> Nat]
  /\ \A i \in 1 .. Len(t) : col[i] \in 1 .. Len(s[row[i]]) /\ t[i] = s[row[i]][col[i]]
  /\ \A i, j \in 1 .. Len(t) : i < j <=> row[i] < row[j] \/ (row[i] = row[j] /\ col[i] < col[j])
  /\ \A m \in 1 .. Len(s) : \A k \in 1 .. Len(s[m]) :
       \E i \in 1 .. Len(t) : row[i] = m /\ col[i] = k

LEMMA LaidNone == \E row, col : Laid(<<>>, <<>>, row, col)
<1> DEFINE none == [i \in 1 .. 0 |-> 0]
<1>1. /\ none \in [1 .. 0 -> 1 .. 0] /\ none \in [1 .. 0 -> Nat]
      /\ Len(<<>>) = 0
  OBVIOUS
<1> HIDE DEF none
<1>2. Laid(<<>>, <<>>, none, none)
  BY <1>1 DEF Laid
<1> QED
  BY <1>2

LEMMA LaidNext ==
    ASSUME NEW X, NEW s \in Seq(Seq(X)), NEW n \in Nat, n + 1 <= Len(s), NEW t \in Seq(X),
           NEW row, NEW col, Laid(SubSeq(s, 1, n), t, row, col)
    PROVE  \E r, k : Laid(SubSeq(s, 1, n + 1), t \o s[n + 1], r, k)
<1> DEFINE u == s[n + 1]
           v == t \o u
           a == SubSeq(s, 1, n)
           b == SubSeq(s, 1, n + 1)
           L == Len(t)
           M == Len(v)
           r == [i \in 1 .. M |-> IF i <= L THEN row[i] ELSE n + 1]
           k == [i \in 1 .. M |-> IF i <= L THEN col[i] ELSE i - L]
<1>1. /\ u \in Seq(X) /\ Len(u) \in Nat /\ L \in Nat /\ v \in Seq(X) /\ M = L + Len(u)
      /\ \A i \in 1 .. L : v[i] = t[i]
      /\ \A i \in 1 .. M : i > L => v[i] = u[i - L]
  OBVIOUS
<1>2. /\ Len(a) = n /\ Len(b) = n + 1
      /\ \A m \in 1 .. n : b[m] = a[m]
      /\ b[n + 1] = u
  OBVIOUS
<1>3. /\ row \in [1 .. L -> 1 .. n] /\ col \in [1 .. L -> Nat]
      /\ \A i \in 1 .. L : col[i] \in 1 .. Len(a[row[i]]) /\ t[i] = a[row[i]][col[i]]
      /\ \A i, j \in 1 .. L : i < j <=> row[i] < row[j] \/ (row[i] = row[j] /\ col[i] < col[j])
      /\ \A m \in 1 .. n : \A h \in 1 .. Len(a[m]) : \E i \in 1 .. L : row[i] = m /\ col[i] = h
  <2>1. Laid(a, t, row, col)
    OBVIOUS
  <2> HIDE DEF a
  <2> QED
    BY <1>2, <2>1 DEF Laid
<1> HIDE DEF u, v, a, b, L, M
<1>4. /\ \A i \in 1 .. M : i <= L => i \in 1 .. L /\ r[i] = row[i] /\ k[i] = col[i]
      /\ \A i \in 1 .. M : ~(i <= L) => r[i] = n + 1 /\ k[i] = i - L /\ i - L \in 1 .. Len(u)
      /\ \A i \in 1 .. L : i \in 1 .. M /\ r[i] = row[i] /\ k[i] = col[i]
  <2>1. /\ \A i \in 1 .. M : i <= L => i \in 1 .. L
        /\ \A i \in 1 .. M : ~(i <= L) => i - L \in 1 .. Len(u)
        /\ \A i \in 1 .. L : i \in 1 .. M /\ i <= L
    BY <1>1
  <2>2. /\ \A i \in 1 .. M : r[i] = IF i <= L THEN row[i] ELSE n + 1
        /\ \A i \in 1 .. M : k[i] = IF i <= L THEN col[i] ELSE i - L
    OBVIOUS
  <2> HIDE DEF r, k
  <2> QED
    BY <2>1, <2>2
<1>5. r \in [1 .. M -> 1 .. n + 1] /\ k \in [1 .. M -> Nat]
  <2>1. ASSUME NEW i \in 1 .. M PROVE r[i] \in 1 .. n + 1 /\ k[i] \in Nat
    <3>1. CASE i <= L
      <4>1. r[i] = row[i] /\ k[i] = col[i] /\ i \in 1 .. L
        BY <1>4, <3>1
      <4>2. row[i] \in 1 .. n /\ col[i] \in Nat
        BY <1>3, <4>1
      <4> QED
        BY <4>1, <4>2
    <3>2. CASE ~(i <= L)
      <4>1. r[i] = n + 1 /\ k[i] = i - L /\ i - L \in 1 .. Len(u)
        BY <1>4, <3>2
      <4> QED
        BY <4>1, <1>1
    <3> QED
      BY <3>1, <3>2
  <2> QED
    BY <2>1
<1> HIDE DEF r, k
<1>6. ASSUME NEW i \in 1 .. M PROVE k[i] \in 1 .. Len(b[r[i]]) /\ v[i] = b[r[i]][k[i]]
  <2>1. CASE i <= L
    <3>1. i \in 1 .. L /\ r[i] = row[i] /\ k[i] = col[i]
      BY <2>1, <1>4
    <3>2. row[i] \in 1 .. n /\ col[i] \in 1 .. Len(a[row[i]]) /\ t[i] = a[row[i]][col[i]]
      BY <3>1, <1>3
    <3>3. b[row[i]] = a[row[i]] /\ v[i] = t[i]
      BY <3>1, <3>2, <1>1, <1>2
    <3> QED
      BY <3>1, <3>2, <3>3
  <2>2. CASE ~(i <= L)
    <3>1. r[i] = n + 1 /\ k[i] = i - L /\ i - L \in 1 .. Len(u)
      BY <2>2, <1>4
    <3>2. b[r[i]] = u /\ v[i] = u[i - L]
      BY <2>2, <3>1, <1>1, <1>2
    <3> QED
      BY <3>1, <3>2
  <2> QED
    BY <2>1, <2>2
<1>7. ASSUME NEW i \in 1 .. M, NEW j \in 1 .. M
      PROVE  i < j <=> r[i] < r[j] \/ (r[i] = r[j] /\ k[i] < k[j])
  <2>1. CASE i <= L /\ j <= L
    <3>1. i \in 1 .. L /\ j \in 1 .. L
      BY <2>1
    <3>2. r[i] = row[i] /\ k[i] = col[i] /\ r[j] = row[j] /\ k[j] = col[j]
      BY <3>1, <1>4
    <3>3. i < j <=> row[i] < row[j] \/ (row[i] = row[j] /\ col[i] < col[j])
      BY <3>1, <1>3
    <3> QED
      BY <3>2, <3>3
  <2>2. CASE i <= L /\ ~(j <= L)
    <3>1. row[i] \in 1 .. n
      BY <2>2, <1>3, <1>4
    <3>2. r[i] = row[i] /\ r[j] = n + 1
      BY <2>2, <1>4
    <3>3. i < j /\ r[i] < r[j]
      <4>1. i \in Nat /\ j \in Nat /\ L \in Nat
        BY <1>1
      <4>2. i < j
        BY <2>2, <4>1
      <4> QED
        BY <3>1, <3>2, <4>2
    <3> QED
      BY <3>3
  <2>3. CASE ~(i <= L) /\ j <= L
    <3>1. row[j] \in 1 .. n
      BY <2>3, <1>3, <1>4
    <3>2. r[j] = row[j] /\ r[i] = n + 1
      BY <2>3, <1>4
    <3>3. ~(i < j) /\ ~(r[i] < r[j]) /\ r[i] # r[j]
      <4>1. i \in Nat /\ j \in Nat /\ L \in Nat
        BY <1>1
      <4>2. ~(i < j)
        BY <2>3, <4>1
      <4> QED
        BY <3>1, <3>2, <4>2
    <3> QED
      BY <3>3
  <2>4. CASE ~(i <= L) /\ ~(j <= L)
    <3>1. r[i] = n + 1 /\ r[j] = n + 1 /\ k[i] = i - L /\ k[j] = j - L
      BY <2>4, <1>4
    <3> QED
      BY <3>1, <1>1
  <2> QED
    BY <2>1, <2>2, <2>3, <2>4
<1>8. ASSUME NEW m \in 1 .. n + 1, NEW h \in 1 .. Len(b[m])
      PROVE  \E i \in 1 .. M : r[i] = m /\ k[i] = h
  <2>1. CASE m \in 1 .. n
    <3>1. h \in 1 .. Len(a[m])
      BY <2>1, <1>2
    <3>2. PICK i \in 1 .. L : row[i] = m /\ col[i] = h
      BY <2>1, <3>1, <1>3
    <3> QED
      BY <3>2, <1>4
  <2>2. CASE m = n + 1
    <3>1. h \in 1 .. Len(u)
      BY <2>2, <1>2
    <3>2. L + h \in 1 .. M /\ ~(L + h <= L) /\ (L + h) - L = h
      BY <3>1, <1>1
    <3>3. r[L + h] = n + 1 /\ k[L + h] = h
      BY <3>2, <1>4
    <3> QED
      BY <2>2, <3>2, <3>3
  <2> QED
    BY <2>1, <2>2
<1>9. Laid(b, v, r, k)
  BY <1>2, <1>5, <1>6, <1>7, <1>8 DEF Laid, M
<1> QED
  BY <1>9 DEF b, v, u

LEMMA Flattened ==
    ASSUME NEW X, NEW s \in Seq(Seq(X))
    PROVE  /\ FlattenSeq(s) \in Seq(X)
           /\ \E row, col : Laid(s, FlattenSeq(s), row, col)
<1>1. CASE s = <<>>
  <2>1. FlattenSeq(s) = <<>>
    BY <1>1 DEF FlattenSeq
  <2>2. <<>> \in Seq(X)
    OBVIOUS
  <2>3. \E row, col : Laid(s, FlattenSeq(s), row, col)
    BY <1>1, <2>1, LaidNone
  <2> QED
    BY <2>1, <2>2, <2>3
<1>2. CASE s # <<>>
  <2>1. PICK f \in [1 .. Len(s) -> Seq(X)] : Joined(f, s) /\ FlattenSeq(s) = f[Len(s)]
    BY <1>2, FlattenJoins
  <2>2. Len(s) \in Nat /\ Len(s) \in 1 .. Len(s)
    BY <1>2
  <2> DEFINE To(n) == \E row, col : Laid(SubSeq(s, 1, n), f[n], row, col)
             S == {n \in Nat : n \in 1 .. Len(s) => To(n)}
  <2> HIDE DEF To
  <2>3. 0 \in S
    OBVIOUS
  <2>4. ASSUME NEW n \in Nat, n \in S PROVE n + 1 \in S
    <3>1. SUFFICES ASSUME n + 1 \in 1 .. Len(s) PROVE To(n + 1)
      OBVIOUS
    <3>2. CASE n = 0
      <4>1. PICK row, col : Laid(<<>>, <<>>, row, col)
        BY LaidNone
      <4>2. SubSeq(s, 1, 0) = <<>>
        OBVIOUS
      <4>3. <<>> \in Seq(X) /\ 0 + 1 <= Len(s)
        BY <3>1
      <4>4. \E r, k : Laid(SubSeq(s, 1, 0 + 1), <<>> \o s[0 + 1], r, k)
        BY <4>1, <4>2, <4>3, LaidNext
      <4>5. s[1] \in Seq(X) /\ f[1] = s[1]
        <5>1. 1 \in 1 .. Len(s)
          BY <3>1
        <5> QED
          BY <5>1, <2>1 DEF Joined
      <4>6. <<>> \o s[1] = s[1]
        BY <4>5
      <4> QED
        BY <3>2, <4>4, <4>5, <4>6 DEF To
    <3>3. CASE n # 0
      <4>1. n \in 1 .. Len(s) /\ n + 1 <= Len(s) /\ n + 1 # 1 /\ (n + 1) - 1 = n
        BY <3>1, <3>3
      <4>2. PICK row, col : Laid(SubSeq(s, 1, n), f[n], row, col)
        BY <4>1, <2>4 DEF To
      <4>3. f[n + 1] = f[n] \o s[n + 1] /\ f[n] \in Seq(X)
        BY <4>1, <2>1, <3>1 DEF Joined
      <4>4. \E r, k : Laid(SubSeq(s, 1, n + 1), f[n] \o s[n + 1], r, k)
        BY <4>1, <4>2, <4>3, LaidNext
      <4> QED
        BY <4>3, <4>4 DEF To
    <3> QED
      BY <3>2, <3>3
  <2>5. Len(s) \in S
    <3> HIDE DEF S
    <3> QED
      BY <2>2, <2>3, <2>4, Induction
  <2>6. SubSeq(s, 1, Len(s)) = s
    OBVIOUS
  <2> QED
    BY <2>1, <2>2, <2>5, <2>6 DEF To
<1> QED
  BY <1>1, <1>2

LEMMA SeqFacts ==
    ASSUME NEW s, IsSeq(s)
    PROVE  /\ Len(s) \in Nat /\ DOMAIN s = 1 .. Len(s) /\ s = [i \in 1 .. Len(s) |-> s[i]]
           /\ \A i \in 1 .. Len(s) : s[i] \in ToSet(s)
           /\ (s = <<>>) <=> (Len(s) = 0)
  BY DEF IsSeq

LEMMA SeqIs ==
    ASSUME NEW S, NEW s \in Seq(S) PROVE IsSeq(s)
  BY SeqOfOwn DEF IsSeq

LEMMA FunIsSeq ==
    ASSUME NEW n \in Nat, NEW f, f = [i \in 1 .. n |-> f[i]]
    PROVE  IsSeq(f) /\ Len(f) = n /\ DOMAIN f = 1 .. n
<1> DEFINE S == ToSet(f)
<1>1. \A i \in 1 .. n : f[i] \in S
  BY DEF ToSet
<1> HIDE DEF S
<1>2. f \in [1 .. n -> S]
  BY <1>1
<1>3. f \in Seq(S) /\ Len(f) = n /\ DOMAIN f = 1 .. n
  BY <1>2
<1> QED
  BY <1>3 DEF IsSeq, S

LEMMA SameSeq ==
    ASSUME NEW s, NEW t, IsSeq(s), IsSeq(t), Len(s) = Len(t), \A i \in 1 .. Len(s) : s[i] = t[i]
    PROVE  s = t
<1>1. s = [i \in 1 .. Len(s) |-> s[i]] /\ t = [i \in 1 .. Len(t) |-> t[i]]
  BY SeqFacts
<1> QED
  BY <1>1

LEMMA Concat ==
    ASSUME NEW s, NEW t, IsSeq(s), IsSeq(t)
    PROVE  /\ IsSeq(s \o t) /\ Len(s \o t) = Len(s) + Len(t)
           /\ \A i \in 1 .. Len(s) : (s \o t)[i] = s[i]
           /\ \A i \in 1 .. Len(t) : (s \o t)[Len(s) + i] = t[i]
           /\ \A i \in 1 .. Len(s \o t) :
                 \/ i \in 1 .. Len(s) /\ (s \o t)[i] = s[i]
                 \/ i - Len(s) \in 1 .. Len(t) /\ (s \o t)[i] = t[i - Len(s)]
<1> DEFINE S == ToSet(s) \cup ToSet(t)
<1>1. s \in Seq(S) /\ t \in Seq(S)
  BY SeqOfMore DEF IsSeq
<1> HIDE DEF S
<1>2. s \o t \in Seq(S) /\ Len(s) \in Nat /\ Len(t) \in Nat /\ Len(s \o t) = Len(s) + Len(t)
  BY <1>1
<1>3. IsSeq(s \o t)
  BY <1>2, SeqIs
<1>4. \A i \in 1 .. Len(s) : (s \o t)[i] = s[i]
  BY <1>1
<1>5. \A i \in 1 .. Len(s) + Len(t) : i > Len(s) => (s \o t)[i] = t[i - Len(s)]
  BY <1>1
<1>6. \A i \in 1 .. Len(t) : (s \o t)[Len(s) + i] = t[i]
  <2>1. ASSUME NEW i \in 1 .. Len(t) PROVE (s \o t)[Len(s) + i] = t[i]
    <3>1. Len(s) + i \in 1 .. Len(s) + Len(t) /\ Len(s) + i > Len(s) /\ (Len(s) + i) - Len(s) = i
      BY <1>2
    <3> QED
      BY <1>5, <3>1
  <2> QED
    BY <2>1
<1>7. ASSUME NEW i \in 1 .. Len(s \o t)
      PROVE  \/ i \in 1 .. Len(s) /\ (s \o t)[i] = s[i]
             \/ i - Len(s) \in 1 .. Len(t) /\ (s \o t)[i] = t[i - Len(s)]
  <2>1. CASE i \in 1 .. Len(s)
    BY <2>1, <1>4
  <2>2. CASE i \notin 1 .. Len(s)
    <3>1. i \in 1 .. Len(s) + Len(t) /\ i > Len(s) /\ i - Len(s) \in 1 .. Len(t)
      BY <2>2, <1>2
    <3> QED
      BY <3>1, <1>5
  <2> QED
    BY <2>1, <2>2
<1> QED
  BY <1>2, <1>3, <1>4, <1>6, <1>7

LEMMA One ==
    ASSUME NEW x PROVE IsSeq(<<x>>) /\ Len(<<x>>) = 1 /\ <<x>>[1] = x /\ <<x>> # <<>>
<1>1. <<x>> \in Seq({x})
  OBVIOUS
<1> QED
  BY <1>1, SeqIs

LEMMA None == IsSeq(<<>>) /\ Len(<<>>) = 0
<1>1. <<>> \in Seq({})
  OBVIOUS
<1> QED
  BY <1>1, SeqIs

LEMMA Flat ==
    ASSUME NEW s, IsSeq(s), \A i \in 1 .. Len(s) : IsSeq(s[i])
    PROVE  IsSeq(FlattenSeq(s)) /\ \E row, col : Laid(s, FlattenSeq(s), row, col)
<1> DEFINE X == UNION {ToSet(s[i]) : i \in 1 .. Len(s)}
<1>1. \A i \in 1 .. Len(s) : s[i] \in Seq(X)
  <2>1. ASSUME NEW i \in 1 .. Len(s) PROVE s[i] \in Seq(X)
    <3>1. s[i] \in Seq(ToSet(s[i])) /\ ToSet(s[i]) \subseteq X
      BY DEF IsSeq
    <3> HIDE DEF X
    <3> QED
      BY <3>1, SeqOfMore
  <2> QED
    BY <2>1
<1> HIDE DEF X
<1>2. s \in Seq(Seq(X))
  <2>1. s = [i \in 1 .. Len(s) |-> s[i]] /\ Len(s) \in Nat
    BY SeqFacts
  <2>2. s \in [1 .. Len(s) -> Seq(X)]
    BY <1>1, <2>1
  <2> QED
    BY <2>1, <2>2
<1> QED
  BY <1>2, Flattened, SeqIs

\* Picks(t, s, I, p): t are the elements of s at the positions I; the k-th comes from p[k].
Picks(t, s, I, p) ==
  /\ p \in [1 .. Len(t) -> I]
  /\ \A k \in 1 .. Len(t) : t[k] = s[p[k]]
  /\ \A k, l \in 1 .. Len(t) : k < l <=> p[k] < p[l]
  /\ \A k, l \in 1 .. Len(t) : p[k] = p[l] => k = l
  /\ \A i \in I : \E k \in 1 .. Len(t) : p[k] = i

LEMMA OnlyPicks ==
    ASSUME NEW s, IsSeq(s), NEW I, I \subseteq 1 .. Len(s)
    PROVE  IsSeq(Only(s, I)) /\ \E p : Picks(Only(s, I), s, I, p)
<1> DEFINE q == [i \in DOMAIN s |-> IF i \in I THEN <<s[i]>> ELSE <<>>]
           t == Only(s, I)
<1>1. DOMAIN s = 1 .. Len(s) /\ Len(s) \in Nat
  BY SeqFacts
<1>2. \A i \in 1 .. Len(s) : q[i] = IF i \in I THEN <<s[i]>> ELSE <<>>
  BY <1>1
<1>3. IsSeq(q) /\ Len(q) = Len(s)
  BY <1>1, FunIsSeq
<1>4. t = FlattenSeq(q)
  BY DEF Only
<1> HIDE DEF q, t
<1>5. \A i \in 1 .. Len(s) : IsSeq(q[i])
  BY <1>2, One, None
<1>6. IsSeq(t)
  BY <1>3, <1>4, <1>5, Flat
<1>7. PICK row, col : Laid(q, t, row, col)
  BY <1>3, <1>4, <1>5, Flat
<1>8. /\ row \in [1 .. Len(t) -> 1 .. Len(s)]
      /\ \A k \in 1 .. Len(t) : col[k] \in 1 .. Len(q[row[k]]) /\ t[k] = q[row[k]][col[k]]
      /\ \A k, l \in 1 .. Len(t) : k < l <=> row[k] < row[l] \/ (row[k] = row[l] /\ col[k] < col[l])
      /\ \A m \in 1 .. Len(s) : \A h \in 1 .. Len(q[m]) :
           \E k \in 1 .. Len(t) : row[k] = m /\ col[k] = h
  BY <1>3, <1>7 DEF Laid
<1>9. ASSUME NEW k \in 1 .. Len(t) PROVE row[k] \in I /\ col[k] = 1 /\ t[k] = s[row[k]]
  <2>1. row[k] \in 1 .. Len(s) /\ col[k] \in 1 .. Len(q[row[k]]) /\ t[k] = q[row[k]][col[k]]
    BY <1>8
  <2>2. row[k] \in I
    <3>1. SUFFICES ASSUME row[k] \notin I PROVE FALSE
      OBVIOUS
    <3>2. Len(q[row[k]]) = 0
      BY <3>1, <2>1, <1>2, None
    <3> QED
      BY <2>1, <3>2
  <2>3. q[row[k]] = <<s[row[k]]>>
    BY <2>1, <2>2, <1>2
  <2>4. col[k] = 1
    <3>1. Len(q[row[k]]) = 1
      BY <2>3, One
    <3> QED
      BY <2>1, <3>1
  <2> QED
    BY <2>1, <2>2, <2>3, <2>4, One
<1>10. row \in [1 .. Len(t) -> I]
  BY <1>8, <1>9
<1>11. ASSUME NEW k \in 1 .. Len(t), NEW l \in 1 .. Len(t) PROVE k < l <=> row[k] < row[l]
  <2>1. ~(col[k] < col[l])
    BY <1>9
  <2> QED
    BY <2>1, <1>8
<1>12. ASSUME NEW i \in I PROVE \E k \in 1 .. Len(t) : row[k] = i
  <2>1. i \in 1 .. Len(s) /\ 1 \in 1 .. Len(q[i])
    <3>1. Len(q[i]) = 1
      BY <1>2, One
    <3> QED
      BY <3>1
  <2> QED
    BY <2>1, <1>8
<1>13. ASSUME NEW k \in 1 .. Len(t), NEW l \in 1 .. Len(t), row[k] = row[l] PROVE k = l
  <2>1. ~(k < l) /\ ~(l < k)
    <3>1. row[k] \in 1 .. Len(s)
      BY <1>8
    <3> QED
      BY <3>1, <1>11, <1>13
  <2>2. Len(t) \in Nat
    BY <1>6, SeqFacts
  <2> QED
    BY <2>1, <2>2
<1>14. Picks(t, s, I, row)
  BY <1>9, <1>10, <1>11, <1>12, <1>13 DEF Picks
<1> QED
  BY <1>6, <1>14 DEF t

\* Distinct places come from distinct positions.
LEMMA LaidOnce ==
    ASSUME NEW s, NEW t, NEW row, NEW col, Laid(s, t, row, col), IsSeq(t), IsSeq(s)
    PROVE  \A k, l \in 1 .. Len(t) : row[k] = row[l] /\ col[k] = col[l] => k = l
<1>1. Len(t) \in Nat /\ Len(s) \in Nat
  BY SeqFacts
<1>2. ASSUME NEW k \in 1 .. Len(t), NEW l \in 1 .. Len(t), row[k] = row[l], col[k] = col[l]
      PROVE  k = l
  <2>1. row[k] \in 1 .. Len(s) /\ col[k] \in Nat
    BY DEF Laid
  <2>2. ~(k < l) /\ ~(l < k)
    BY <1>1, <1>2, <2>1 DEF Laid
  <2> QED
    BY <1>1, <2>2
<1> QED
  BY <1>2

-----------------------------------------------------------------------------
(* Calls and their results                                                 *)

\* Orderly(ev, from, calls, N): the events ev of a payload's elements, each element from
\* one of N messages, in their order; calls[m] are the calls of message m.  Every call has
\* a result in the message behind it, before that message's words, and every result its call.
Orderly(ev, from, calls, N) ==
  /\ N \in Nat /\ from \in [1 .. Len(ev) -> 1 .. N]
  /\ \A i, j \in 1 .. Len(ev) : i < j => from[i] <= from[j]
  /\ \A i \in 1 .. Len(ev) : \A l \in 1 .. Len(ev[i]) :
       /\ ev[i][l].kind = "call" => ev[i][l].call \in calls[from[i]]
       /\ ev[i][l].kind = "result" => from[i] > 1 /\ ev[i][l].call \in calls[from[i] - 1]
       /\ ev[i][l].kind = "word" => calls[from[i]] = {}
  /\ \A i, j \in 1 .. Len(ev) : \A l \in 1 .. Len(ev[i]), h \in 1 .. Len(ev[j]) :
       ev[i][l].kind = "result" =>
         /\ ev[j][h].kind = "result" /\ ev[j][h].call = ev[i][l].call => i = j /\ l = h
         /\ ev[j][h].kind = "word" /\ from[j] = from[i] => i < j \/ (i = j /\ l < h)
  /\ \A i \in 1 .. Len(ev) : \A l \in 1 .. Len(ev[i]) : ev[i][l].kind \in {"call", "result"} =>
       \E j \in 1 .. Len(ev) : \E h \in 1 .. Len(ev[j]) :
         /\ ev[j][h].kind = IF ev[i][l].kind = "call" THEN "result" ELSE "call"
         /\ ev[j][h].call = ev[i][l].call
  /\ \A m, n \in 1 .. N : \A c \in calls[m] : c \in calls[n] => m = n

\* Each call of e has one result, later and with no word between; each result has its call.
OneToOne(e) ==
  /\ \A i \in 1 .. Len(e) : e[i].kind = "call" =>
       \E j \in 1 .. Len(e) :
         /\ e[j].kind = "result" /\ e[j].call = e[i].call
         /\ \A k \in 1 .. Len(e) :
              e[k].kind = "result" /\ e[k].call = e[i].call => k = j
         /\ j > i
         /\ \A k \in i .. j : e[k].kind # "word"
  /\ \A j \in 1 .. Len(e) : e[j].kind = "result" =>
       \E i \in 1 .. (j - 1) : e[i].kind = "call" /\ e[i].call = e[j].call

LEMMA OrderlyAnswered ==
    ASSUME NEW ev, IsSeq(ev), \A i \in 1 .. Len(ev) : IsSeq(ev[i]),
           NEW from, NEW calls, NEW N, Orderly(ev, from, calls, N),
           NEW e, e = FlattenSeq(ev)
    PROVE  OneToOne(e)
<1>1. IsSeq(e) /\ Len(e) \in Nat
  BY Flat, SeqFacts
<1>2. PICK row, col : Laid(ev, e, row, col)
  BY Flat
<1>3. /\ row \in [1 .. Len(e) -> 1 .. Len(ev)]
      /\ \A k \in 1 .. Len(e) : col[k] \in 1 .. Len(ev[row[k]]) /\ e[k] = ev[row[k]][col[k]]
      /\ \A k, l \in 1 .. Len(e) :
           k < l <=> row[k] < row[l] \/ (row[k] = row[l] /\ col[k] < col[l])
      /\ \A i \in 1 .. Len(ev) : \A h \in 1 .. Len(ev[i]) :
           \E k \in 1 .. Len(e) : row[k] = i /\ col[k] = h
  BY <1>2 DEF Laid
<1>4. Len(ev) \in Nat
  BY SeqFacts
<1> DEFINE M(k) == from[row[k]]
<1>5. /\ N \in Nat
      /\ \A k \in 1 .. Len(e) : M(k) \in 1 .. N
      /\ \A k, l \in 1 .. Len(e) : k < l => M(k) <= M(l)
  <2>1. /\ N \in Nat /\ from \in [1 .. Len(ev) -> 1 .. N]
        /\ \A i, j \in 1 .. Len(ev) : i < j => from[i] <= from[j]
    BY DEF Orderly
  <2>2. ASSUME NEW k \in 1 .. Len(e), NEW l \in 1 .. Len(e), k < l PROVE M(k) <= M(l)
    <3>1. row[k] \in 1 .. Len(ev) /\ row[l] \in 1 .. Len(ev) /\ (row[k] < row[l] \/ row[k] = row[l])
      BY <1>3, <2>2
    <3> QED
      BY <2>1, <3>1
  <2> QED
    BY <1>3, <2>1, <2>2
<1>6. ASSUME NEW k \in 1 .. Len(e)
      PROVE  /\ e[k].kind = "call" => e[k].call \in calls[M(k)]
             /\ e[k].kind = "result" => M(k) > 1 /\ e[k].call \in calls[M(k) - 1]
             /\ e[k].kind = "word" => calls[M(k)] = {}
  <2>1. \A i \in 1 .. Len(ev) : \A l \in 1 .. Len(ev[i]) :
          /\ ev[i][l].kind = "call" => ev[i][l].call \in calls[from[i]]
          /\ ev[i][l].kind = "result" => from[i] > 1 /\ ev[i][l].call \in calls[from[i] - 1]
          /\ ev[i][l].kind = "word" => calls[from[i]] = {}
    BY DEF Orderly
  <2>2. row[k] \in 1 .. Len(ev) /\ col[k] \in 1 .. Len(ev[row[k]]) /\ e[k] = ev[row[k]][col[k]]
    BY <1>3
  <2> QED
    BY <2>1, <2>2
<1>7. ASSUME NEW k \in 1 .. Len(e), NEW l \in 1 .. Len(e), e[k].kind = "result"
      PROVE  /\ e[l].kind = "result" /\ e[l].call = e[k].call => k = l
             /\ e[l].kind = "word" /\ M(l) = M(k) => k < l
  <2>1. /\ e[l].kind = "result" /\ e[l].call = e[k].call => row[k] = row[l] /\ col[k] = col[l]
        /\ e[l].kind = "word" /\ M(l) = M(k) =>
             row[k] < row[l] \/ (row[k] = row[l] /\ col[k] < col[l])
    <3>1. \A i, j \in 1 .. Len(ev) : \A h \in 1 .. Len(ev[i]), g \in 1 .. Len(ev[j]) :
            ev[i][h].kind = "result" =>
              /\ ev[j][g].kind = "result" /\ ev[j][g].call = ev[i][h].call => i = j /\ h = g
              /\ ev[j][g].kind = "word" /\ from[j] = from[i] => i < j \/ (i = j /\ h < g)
      BY DEF Orderly
    <3>2. /\ row[k] \in 1 .. Len(ev) /\ col[k] \in 1 .. Len(ev[row[k]])
          /\ row[l] \in 1 .. Len(ev) /\ col[l] \in 1 .. Len(ev[row[l]])
          /\ e[k] = ev[row[k]][col[k]] /\ e[l] = ev[row[l]][col[l]]
      BY <1>3
    <3>3. PICK i \in 1 .. Len(ev), j \in 1 .. Len(ev) : i = row[k] /\ j = row[l]
      BY <3>2
    <3>4. PICK h \in 1 .. Len(ev[i]), g \in 1 .. Len(ev[j]) : h = col[k] /\ g = col[l]
      BY <3>2, <3>3
    <3>5. e[k] = ev[i][h] /\ e[l] = ev[j][g]
      BY <3>2, <3>3, <3>4
    <3>6. ev[i][h].kind = "result" =>
              /\ ev[j][g].kind = "result" /\ ev[j][g].call = ev[i][h].call => i = j /\ h = g
              /\ ev[j][g].kind = "word" /\ from[j] = from[i] => i < j \/ (i = j /\ h < g)
      BY <3>1
    <3>7. /\ e[l].kind = "result" /\ e[l].call = e[k].call => i = j /\ h = g
          /\ e[l].kind = "word" /\ from[j] = from[i] => i < j \/ (i = j /\ h < g)
      BY <1>7, <3>5, <3>6
    <3> QED
      BY <3>3, <3>4, <3>7
  <2>2. row[k] = row[l] /\ col[k] = col[l] => k = l
    BY <1>1, <1>2, LaidOnce
  <2> QED
    BY <2>1, <2>2, <1>3
<1>8. ASSUME NEW k \in 1 .. Len(e), e[k].kind \in {"call", "result"}
      PROVE  \E l \in 1 .. Len(e) :
               /\ e[l].kind = IF e[k].kind = "call" THEN "result" ELSE "call"
               /\ e[l].call = e[k].call
  <2>0. PICK j \in 1 .. Len(ev) : \E h \in 1 .. Len(ev[j]) :
               /\ ev[j][h].kind = IF e[k].kind = "call" THEN "result" ELSE "call"
               /\ ev[j][h].call = e[k].call
    <3>1. \A i \in 1 .. Len(ev) : \A l \in 1 .. Len(ev[i]) :
            ev[i][l].kind \in {"call", "result"} =>
              \E j \in 1 .. Len(ev) : \E h \in 1 .. Len(ev[j]) :
                /\ ev[j][h].kind = IF ev[i][l].kind = "call" THEN "result" ELSE "call"
                /\ ev[j][h].call = ev[i][l].call
      BY DEF Orderly
    <3>2. /\ row[k] \in 1 .. Len(ev) /\ col[k] \in 1 .. Len(ev[row[k]])
          /\ ev[row[k]][col[k]] = e[k]
      BY <1>3
    <3>3. PICK i \in 1 .. Len(ev) : i = row[k]
      BY <3>2
    <3>4. PICK l \in 1 .. Len(ev[i]) : l = col[k]
      BY <3>2, <3>3
    <3>5. ev[i][l] = e[k]
      BY <3>2, <3>3, <3>4
    <3>6. ev[i][l].kind \in {"call", "result"} =>
              \E j \in 1 .. Len(ev) : \E h \in 1 .. Len(ev[j]) :
                /\ ev[j][h].kind = IF ev[i][l].kind = "call" THEN "result" ELSE "call"
                /\ ev[j][h].call = ev[i][l].call
      BY <3>1
    <3> QED
      BY <1>8, <3>5, <3>6
  <2>1. PICK h \in 1 .. Len(ev[j]) :
               /\ ev[j][h].kind = IF e[k].kind = "call" THEN "result" ELSE "call"
               /\ ev[j][h].call = e[k].call
    BY <2>0
  <2>2. PICK l \in 1 .. Len(e) : row[l] = j /\ col[l] = h
    BY <1>3
  <2>3. e[l] = ev[j][h]
    BY <1>3, <2>2
  <2> QED
    BY <2>1, <2>3
<1>9. \A m, n \in 1 .. N : \A c \in calls[m] : c \in calls[n] => m = n
  BY DEF Orderly
<1> HIDE DEF M
\* A call and a result of it stand in two messages, one behind the other.
<1>10. ASSUME NEW i \in 1 .. Len(e), NEW j \in 1 .. Len(e),
              e[i].kind = "call", e[j].kind = "result", e[j].call = e[i].call
       PROVE  M(j) = M(i) + 1 /\ i < j
  <2>1. M(i) \in 1 .. N /\ M(j) \in 1 .. N /\ M(j) > 1
    BY <1>5, <1>6, <1>10
  <2>2. e[i].call \in calls[M(i)] /\ e[i].call \in calls[M(j) - 1] /\ M(j) - 1 \in 1 .. N
    BY <1>5, <1>6, <1>10, <2>1
  <2>3. M(i) = M(j) - 1
    BY <2>1, <2>2, <1>9
  <2>4. M(j) = M(i) + 1
    BY <2>1, <2>3
  <2>5. ~(j < i) /\ i # j
    BY <2>1, <2>4, <1>5
  <2> QED
    BY <2>4, <2>5
<1>11. ASSUME NEW i \in 1 .. Len(e), NEW j \in 1 .. Len(e), NEW k \in i .. j,
              e[i].kind = "call", e[j].kind = "result", e[j].call = e[i].call, e[k].kind = "word"
       PROVE  FALSE
  <2>1. M(j) = M(i) + 1 /\ i < j
    BY <1>10, <1>11
  <2>2. k \in 1 .. Len(e) /\ k # i /\ k # j /\ i < k /\ k < j
    BY <1>11
  <2>3. M(i) <= M(k) /\ M(k) <= M(j) /\ M(i) \in Nat /\ M(j) \in Nat /\ M(k) \in Nat
    BY <2>2, <1>5
  <2>4. M(k) # M(i)
    BY <2>2, <1>6, <1>11
  <2>5. M(k) = M(j)
    BY <2>1, <2>3, <2>4
  <2>6. j < k
    BY <2>2, <2>5, <1>7, <1>11
  <2> QED
    BY <2>2, <2>6
<1>12. ASSUME NEW i \in 1 .. Len(e), e[i].kind = "call"
       PROVE  \E j \in 1 .. Len(e) :
                /\ e[j].kind = "result" /\ e[j].call = e[i].call
                /\ \A k \in 1 .. Len(e) : e[k].kind = "result" /\ e[k].call = e[i].call => k = j
                /\ j > i
                /\ \A k \in i .. j : e[k].kind # "word"
  <2>1. PICK j \in 1 .. Len(e) : e[j].kind = "result" /\ e[j].call = e[i].call
    BY <1>8, <1>12
  <2>2. j > i
    BY <1>10, <1>12, <2>1
  <2>3. \A k \in 1 .. Len(e) : e[k].kind = "result" /\ e[k].call = e[i].call => k = j
    BY <1>7, <2>1
  <2>4. \A k \in i .. j : e[k].kind # "word"
    BY <1>11, <1>12, <2>1
  <2> QED
    BY <2>1, <2>2, <2>3, <2>4
<1>13. ASSUME NEW j \in 1 .. Len(e), e[j].kind = "result"
       PROVE  \E i \in 1 .. (j - 1) : e[i].kind = "call" /\ e[i].call = e[j].call
  <2>1. PICK i \in 1 .. Len(e) : e[i].kind = "call" /\ e[i].call = e[j].call
    BY <1>8, <1>13
  <2>2. i < j
    BY <1>10, <1>13, <2>1
  <2>3. i \in 1 .. (j - 1)
    BY <2>2
  <2> QED
    BY <2>1, <2>3
<1> QED
  BY <1>12, <1>13 DEF OneToOne

LEMMA SingleCard == ASSUME NEW x PROVE Cardinality({x}) = 1
  BY FS_Singleton

LEMMA CallsAreAnswered ==
    ASSUME NEW api, NEW payload, IsSeq(payload),
           NEW ev, ev = [i \in 1 .. Len(payload) |-> ElementEvents(api, payload[i])],
           \A i \in 1 .. Len(payload) : IsSeq(ElementEvents(api, payload[i])),
           NEW from, NEW calls, NEW N, Orderly(ev, from, calls, N)
    PROVE  CallsAnswered(api, payload)
<1> DEFINE e == Events(api, payload)
<1>1. DOMAIN payload = 1 .. Len(payload) /\ Len(payload) \in Nat
  BY SeqFacts
<1>2. IsSeq(ev) /\ Len(ev) = Len(payload)
  BY <1>1, FunIsSeq
<1>3. e = FlattenSeq(ev) /\ \A i \in 1 .. Len(ev) : IsSeq(ev[i])
  BY <1>1, <1>2 DEF Events
<1> HIDE DEF e
<1>4. IsSeq(e) /\ DOMAIN e = 1 .. Len(e) /\ Len(e) \in Nat
  BY <1>2, <1>3, Flat, SeqFacts
<1>5. OneToOne(e)
  <2>1. IsSeq(ev) /\ (\A i \in 1 .. Len(ev) : IsSeq(ev[i])) /\ e = FlattenSeq(ev)
    BY <1>2, <1>3
  <2> QED
    BY ONLY <2>1, Orderly(ev, from, calls, N), OrderlyAnswered
<1> DEFINE results(i) == {j \in DOMAIN e : e[j].kind = "result" /\ e[j].call = e[i].call}
<1>6. ASSUME NEW i \in DOMAIN e, e[i].kind = "call"
      PROVE  /\ Cardinality(results(i)) = 1
             /\ \A j \in results(i) : j > i /\ \A k \in i .. j : e[k].kind # "word"
  <2>1. PICK j \in 1 .. Len(e) :
                  /\ e[j].kind = "result" /\ e[j].call = e[i].call
                  /\ \A k \in 1 .. Len(e) :
                       e[k].kind = "result" /\ e[k].call = e[i].call => k = j
                  /\ j > i
                  /\ \A k \in i .. j : e[k].kind # "word"
    BY <1>4, <1>5, <1>6 DEF OneToOne
  <2>2. results(i) = {j}
    BY <1>4, <2>1
  <2> HIDE DEF results
  <2> QED
    BY <2>1, <2>2, SingleCard
<1>7. \A j \in 1 .. Len(e) : e[j].kind = "result" =>
        \E i \in 1 .. (j - 1) : e[i].kind = "call" /\ e[i].call = e[j].call
  BY <1>5 DEF OneToOne
<1> QED
  BY <1>4, <1>6, <1>7 DEF CallsAnswered, e

-----------------------------------------------------------------------------
(* What arrives                                                            *)

\* The elements at U bring identities, none of them twice.
Bringing(api, payload, U) ==
  /\ U = {i \in 1 .. Len(payload) : payload[i].role # "assistant"}
  /\ \A i \in U : /\ IsSeq(ElementIds(api, payload[i]))
                  /\ IsInjective(ElementIds(api, payload[i]))
  /\ \A i, j \in U : \A x \in ToSet(ElementIds(api, payload[i])) :
       x \in ToSet(ElementIds(api, payload[j])) => i = j

LEMMA ArriveOnce ==
    ASSUME NEW api, NEW payload, IsSeq(payload), NEW U, Bringing(api, payload, U)
    PROVE  /\ IsInjective(ArrivedIds(api, payload))
           /\ \A i \in U : ToSet(ElementIds(api, payload[i])) \subseteq ToSet(ArrivedIds(api, payload))
<1> DEFINE user == Only(payload, U)
           q == [i \in DOMAIN user |-> ElementIds(api, user[i])]
           ids == FlattenSeq(q)
<1>0. /\ U = {i \in 1 .. Len(payload) : payload[i].role # "assistant"}
      /\ \A i \in U : /\ IsSeq(ElementIds(api, payload[i]))
                      /\ IsInjective(ElementIds(api, payload[i]))
      /\ \A i, j \in U : \A x \in ToSet(ElementIds(api, payload[i])) :
           x \in ToSet(ElementIds(api, payload[j])) => i = j
  BY DEF Bringing
<1>1. DOMAIN payload = 1 .. Len(payload) /\ U \subseteq 1 .. Len(payload) /\ Len(payload) \in Nat
  BY <1>0, SeqFacts
<1>2. ArrivedIds(api, payload) = ids
  BY <1>0, <1>1 DEF ArrivedIds
<1>3. IsSeq(user) /\ \E p : Picks(user, payload, U, p)
  BY <1>1, OnlyPicks
<1> HIDE DEF user
<1>4. PICK p : Picks(user, payload, U, p)
  BY <1>3
<1>5. DOMAIN user = 1 .. Len(user) /\ Len(user) \in Nat
  BY <1>3, SeqFacts
<1>6. /\ \A k \in 1 .. Len(user) : p[k] \in U /\ user[k] = payload[p[k]]
      /\ \A i \in U : \E k \in 1 .. Len(user) : p[k] = i
  BY <1>4 DEF Picks
<1>7. /\ IsSeq(q) /\ Len(q) = Len(user)
      /\ \A k \in 1 .. Len(user) : q[k] = ElementIds(api, payload[p[k]])
  BY <1>5, <1>6, FunIsSeq
<1> HIDE DEF q
<1>8. \A k \in 1 .. Len(q) : IsSeq(q[k]) /\ IsInjective(q[k])
  BY <1>0, <1>6, <1>7
<1>9. IsSeq(ids) /\ \E row, col : Laid(q, ids, row, col)
  BY <1>7, <1>8, Flat
<1> HIDE DEF ids
<1>10. PICK row, col : Laid(q, ids, row, col)
  BY <1>9
<1>11. DOMAIN ids = 1 .. Len(ids) /\ Len(ids) \in Nat
  BY <1>9, SeqFacts
<1>12. /\ \A n \in 1 .. Len(ids) : /\ row[n] \in 1 .. Len(q) /\ col[n] \in 1 .. Len(q[row[n]])
                                   /\ ids[n] = q[row[n]][col[n]]
       /\ \A k \in 1 .. Len(q) : \A h \in 1 .. Len(q[k]) :
            \E n \in 1 .. Len(ids) : row[n] = k /\ col[n] = h
  BY <1>10 DEF Laid
<1>13. \A k \in 1 .. Len(q) : DOMAIN q[k] = 1 .. Len(q[k])
  BY <1>8, SeqFacts
<1>14. ASSUME NEW n \in 1 .. Len(ids), NEW m \in 1 .. Len(ids), ids[n] = ids[m] PROVE n = m
  <2>1. PICK k \in 1 .. Len(q), l \in 1 .. Len(q) : k = row[n] /\ l = row[m]
    BY <1>12
  <2>2. PICK h \in 1 .. Len(q[k]), g \in 1 .. Len(q[l]) : h = col[n] /\ g = col[m]
    BY <1>12, <2>1
  <2>3. q[k][h] = q[l][g]
    BY <1>12, <1>14, <2>1, <2>2
  <2>4. q[k][h] \in ToSet(q[k]) /\ q[k][h] \in ToSet(q[l])
    BY <1>13, <2>3 DEF ToSet
  <2>5. p[k] = p[l]
    BY <1>0, <1>6, <1>7, <2>4
  <2>6. k = l
    BY <2>5, <1>4, <1>7 DEF Picks
  <2>7. h = g
    BY <2>3, <2>6, <1>8, <1>13 DEF IsInjective
  <2>8. row[n] = row[m] /\ col[n] = col[m]
    BY <2>1, <2>2, <2>6, <2>7
  <2>9. \A i, j \in 1 .. Len(ids) : row[i] = row[j] /\ col[i] = col[j] => i = j
    BY <1>7, <1>9, <1>10, LaidOnce
  <2> QED
    BY <2>8, <2>9
<1>15. ASSUME NEW i \in U, NEW x \in ToSet(ElementIds(api, payload[i])) PROVE x \in ToSet(ids)
  <2>1. PICK k \in 1 .. Len(q) : p[k] = i
    BY <1>6, <1>7
  <2>2. x \in ToSet(q[k])
    BY <2>1, <1>7
  <2>3. PICK h \in 1 .. Len(q[k]) : q[k][h] = x
    BY <2>2, <1>13 DEF ToSet
  <2>4. PICK n \in 1 .. Len(ids) : row[n] = k /\ col[n] = h
    BY <1>12
  <2>5. ids[n] = x
    BY <1>12, <2>3, <2>4
  <2> QED
    BY <2>5, <1>11 DEF ToSet
<1> QED
  BY <1>2, <1>11, <1>14, <1>15 DEF IsInjective

-----------------------------------------------------------------------------
(* What a user message holds                                               *)

\* A sequence of parts that have an identity, each its own.
Plain(s) ==
  /\ IsSeq(s)
  /\ \A i \in 1 .. Len(s) : s[i].type \in {"text", "tool_reference"} \cup Attachments
  /\ \A i, j \in 1 .. Len(s) : s[i].id = s[j].id => i = j

PartIds(s) == {s[i].id : i \in 1 .. Len(s)}

IsResult(b) ==
  /\ b = ToolResult(b.call, b.form, b.content, b.error) /\ Plain(b.content)
  /\ b.form = "none" => b.content = <<>>
IsAside(b)  == b.type \in {"text"} \cup Attachments

BlockIds(b) == IF b.type = "tool_result" THEN PartIds(b.content) ELSE {b.id}

\* Results and what stands beside them; no identity stands in two blocks.
Clean(c) ==
  /\ IsSeq(c)
  /\ \A i \in 1 .. Len(c) : IsResult(c[i]) \/ IsAside(c[i])
  /\ \A i, j \in 1 .. Len(c) : \A x \in BlockIds(c[i]) : x \in BlockIds(c[j]) => i = j

ContentIds(c) == UNION {BlockIds(c[i]) : i \in 1 .. Len(c)}

\* Of these, what an API can be sent: the chat API takes no documents.
Undocumented(s) == {s[i].id : i \in {k \in 1 .. Len(s) : s[k].type # "document"}}

Borne(api, b) ==
  CASE api # "chat" -> BlockIds(b)
    [] api = "chat" /\ b.type = "tool_result" -> Undocumented(b.content)
    [] api = "chat" /\ b.type = "document"    -> {}
    [] api = "chat" /\ b.type \notin {"tool_result", "document"} -> {b.id}

BorneAt(api, c, J) == UNION {Borne(api, c[j]) : j \in J}
BorneIds(api, c)   == BorneAt(api, c, 1 .. Len(c))

ResultsAt(c) == {i \in 1 .. Len(c) : c[i].type = "tool_result"}

\* The ids of the blocks of c at some places.
IdsAt(c, J) == {c[j].id : j \in J}

\* Answering(c, C): the results of c are those of the calls C, one each, before all else.
Answering(c, C) ==
  /\ C = {c[i].call : i \in ResultsAt(c)}
  /\ \A i, j \in ResultsAt(c) : c[i].call = c[j].call => i = j
  /\ \A i \in ResultsAt(c) : \A j \in (1 .. Len(c)) \ ResultsAt(c) : i < j

LEMMA ResultTyped ==
    ASSUME NEW b, IsResult(b)
    PROVE  b.type = "tool_result" /\ Plain(b.content) /\ ~IsAside(b)
<1>1. b.type = "tool_result"
  BY DEF IsResult, ToolResult
<1> QED
  BY <1>1 DEF IsResult, IsAside, Attachments

\* The blocks that have an identity.
Named(s) ==
  {i \in 1 .. Len(s) : s[i].type \notin {"tool_use", "tool_result", "thinking", "notice"}}

LEMMA IdsAre ==
    ASSUME NEW s, IsSeq(s)
    PROVE  /\ IsSeq(Ids(s)) /\ ToSet(Ids(s)) = {s[i].id : i \in Named(s)}
           /\ (\A i, j \in Named(s) : s[i].id = s[j].id => i = j) => IsInjective(Ids(s))
<1> DEFINE I == Named(s)
           t == Only(s, I)
           f == [i \in DOMAIN t |-> t[i].id]
<1>0. I = {i \in DOMAIN s : s[i].type \notin {"tool_use", "tool_result", "thinking", "notice"}}
  BY SeqFacts DEF Named
<1>1. DOMAIN s = 1 .. Len(s) /\ I \subseteq 1 .. Len(s) /\ Len(s) \in Nat
  BY SeqFacts DEF Named
<1> HIDE DEF I
<1>2. Ids(s) = f
  BY <1>0 DEF Ids
<1>3. IsSeq(t) /\ \E p : Picks(t, s, I, p)
  BY <1>1, OnlyPicks
<1> HIDE DEF t
<1>4. PICK p : Picks(t, s, I, p)
  BY <1>3
<1>5. DOMAIN t = 1 .. Len(t) /\ Len(t) \in Nat
  BY <1>3, SeqFacts
<1>6. IsSeq(f) /\ Len(f) = Len(t) /\ DOMAIN f = 1 .. Len(t)
  BY <1>5, FunIsSeq
<1>7. \A k \in 1 .. Len(t) : p[k] \in I /\ f[k] = s[p[k]].id
  BY <1>1, <1>4, <1>5 DEF Picks
<1> HIDE DEF f
<1>8. ToSet(f) = {s[i].id : i \in I}
  <2>1. ASSUME NEW x \in ToSet(f) PROVE x \in {s[i].id : i \in I}
    BY <1>6, <1>7 DEF ToSet
  <2>2. ASSUME NEW x \in {s[i].id : i \in I} PROVE x \in ToSet(f)
    <3>1. PICK i \in I : x = s[i].id
      OBVIOUS
    <3>2. PICK k \in 1 .. Len(t) : p[k] = i
      BY <1>1, <1>4 DEF Picks
    <3> QED
      BY <3>1, <3>2, <1>6, <1>7 DEF ToSet
  <2> QED
    BY <2>1, <2>2
<1>9. ASSUME \A i, j \in I : s[i].id = s[j].id => i = j PROVE IsInjective(f)
  <2>1. ASSUME NEW k \in 1 .. Len(t), NEW l \in 1 .. Len(t), f[k] = f[l] PROVE k = l
    <3>1. p[k] = p[l]
      BY <1>7, <1>9, <2>1
    <3> QED
      BY <3>1, <1>4 DEF Picks
  <2> QED
    BY <2>1, <1>6 DEF IsInjective
<1> QED
  BY <1>2, <1>6, <1>8, <1>9 DEF I

LEMMA IdsOf ==
    ASSUME NEW s, IsSeq(s),
           \A i \in 1 .. Len(s) : s[i].type \notin {"tool_use", "tool_result", "thinking", "notice"}
    PROVE  /\ IsSeq(Ids(s)) /\ ToSet(Ids(s)) = PartIds(s)
           /\ (\A i, j \in 1 .. Len(s) : s[i].id = s[j].id => i = j) => IsInjective(Ids(s))
<1>1. Named(s) = 1 .. Len(s)
  BY DEF Named
<1> QED
  BY <1>1, IdsAre DEF PartIds

LEMMA PlainIds ==
    ASSUME NEW s, Plain(s)
    PROVE  IsSeq(Ids(s)) /\ ToSet(Ids(s)) = PartIds(s) /\ IsInjective(Ids(s))
<1>1. \A i \in 1 .. Len(s) : s[i].type \notin {"tool_use", "tool_result", "thinking", "notice"}
  BY DEF Plain, Attachments
<1> QED
  BY <1>1, IdsOf DEF Plain

LEMMA SingleIds ==
    ASSUME NEW b, IsAside(b)
    PROVE  IsSeq(Ids(<<b>>)) /\ ToSet(Ids(<<b>>)) = {b.id} /\ IsInjective(Ids(<<b>>))
<1>1. IsSeq(<<b>>) /\ Len(<<b>>) = 1 /\ <<b>>[1] = b
  BY One
<1>2. b.type \in {"text", "tool_reference"} \cup Attachments
  BY DEF IsAside
<1> DEFINE s == <<b>>
<1> HIDE DEF s
<1>3. IsSeq(s) /\ Len(s) = 1 /\ s[1] = b
  BY <1>1 DEF s
<1>4. Plain(s) /\ PartIds(s) = {b.id}
  BY <1>2, <1>3 DEF Plain, PartIds
<1> QED
  BY <1>4, PlainIds DEF s

LEMMA BorneIs ==
    ASSUME NEW api, NEW b
    PROVE  Borne(api, b) \subseteq BlockIds(b) /\ (api # "chat" => Borne(api, b) = BlockIds(b))
  BY DEF Borne, BlockIds, Undocumented, PartIds

LEMMA BorneInContent ==
    ASSUME NEW api, NEW c
    PROVE  /\ BorneIds(api, c) \subseteq ContentIds(c)
           /\ api # "chat" => BorneIds(api, c) = ContentIds(c)
  BY BorneIs DEF BorneIds, BorneAt, ContentIds

LEMMA BorneBeside ==
    ASSUME NEW api, api # "chat", NEW c
    PROVE  BorneAt(api, c, (1 .. Len(c)) \ ResultsAt(c)) = IdsAt(c, (1 .. Len(c)) \ ResultsAt(c))
<1> DEFINE O == (1 .. Len(c)) \ ResultsAt(c)
<1>1. \A j \in O : Borne(api, c[j]) = {c[j].id}
  BY BorneIs DEF BlockIds, ResultsAt
<1> HIDE DEF O
<1>2. BorneAt(api, c, O) = IdsAt(c, O)
  BY <1>1 DEF BorneAt, IdsAt
<1> QED
  BY <1>2 DEF O

LEMMA ListIdsOf ==
    ASSUME NEW c, Clean(c)
    PROVE  IsSeq(ListIds(c)) /\ ToSet(ListIds(c)) = ContentIds(c) /\ IsInjective(ListIds(c))
<1> DEFINE q == [i \in DOMAIN c |->
                   IF c[i].type = "tool_result" THEN Ids(c[i].content) ELSE Ids(<<c[i]>>)]
           t == FlattenSeq(q)
<1>1. IsSeq(c) /\ DOMAIN c = 1 .. Len(c) /\ Len(c) \in Nat
  BY SeqFacts DEF Clean
<1>2. ListIds(c) = t
  BY DEF ListIds
<1>3. /\ IsSeq(q) /\ Len(q) = Len(c)
      /\ \A i \in 1 .. Len(c) :
           q[i] = IF c[i].type = "tool_result" THEN Ids(c[i].content) ELSE Ids(<<c[i]>>)
  BY <1>1, FunIsSeq
<1> HIDE DEF q
<1>4. ASSUME NEW i \in 1 .. Len(c)
      PROVE  IsSeq(q[i]) /\ ToSet(q[i]) = BlockIds(c[i]) /\ IsInjective(q[i])
  <2>1. CASE IsResult(c[i])
    <3>1. c[i].type = "tool_result" /\ Plain(c[i].content)
      BY <2>1, ResultTyped
    <3>2. q[i] = Ids(c[i].content) /\ BlockIds(c[i]) = PartIds(c[i].content)
      BY <3>1, <1>3 DEF BlockIds
    <3> QED
      BY <3>1, <3>2, PlainIds
  <2>2. CASE IsAside(c[i])
    <3>1. c[i].type # "tool_result"
      BY <2>2 DEF IsAside, Attachments
    <3>2. q[i] = Ids(<<c[i]>>) /\ BlockIds(c[i]) = {c[i].id}
      BY <3>1, <1>3 DEF BlockIds
    <3> QED
      BY <2>2, <3>2, SingleIds
  <2> QED
    BY <2>1, <2>2 DEF Clean
<1>5. \A i \in 1 .. Len(q) : DOMAIN q[i] = 1 .. Len(q[i])
  BY <1>3, <1>4, SeqFacts
<1>6. IsSeq(t) /\ \E row, col : Laid(q, t, row, col)
  BY <1>3, <1>4, Flat
<1> HIDE DEF t
<1>7. PICK row, col : Laid(q, t, row, col)
  BY <1>6
<1>8. DOMAIN t = 1 .. Len(t) /\ Len(t) \in Nat
  BY <1>6, SeqFacts
<1>9. /\ \A n \in 1 .. Len(t) : /\ row[n] \in 1 .. Len(q) /\ col[n] \in 1 .. Len(q[row[n]])
                                /\ t[n] = q[row[n]][col[n]]
      /\ \A k \in 1 .. Len(q) : \A h \in 1 .. Len(q[k]) :
            \E n \in 1 .. Len(t) : row[n] = k /\ col[n] = h
  BY <1>7 DEF Laid
<1>10. ASSUME NEW n \in 1 .. Len(t)
       PROVE  \E k \in 1 .. Len(q) : \E h \in 1 .. Len(q[k]) :
                k = row[n] /\ h = col[n] /\ t[n] = q[k][h] /\ t[n] \in BlockIds(c[k])
  <2>1. PICK k \in 1 .. Len(q) : k = row[n]
    BY <1>9
  <2>2. PICK h \in 1 .. Len(q[k]) : h = col[n]
    BY <1>9, <2>1
  <2>3. t[n] = q[k][h]
    BY <1>9, <2>1, <2>2
  <2>4. q[k][h] \in ToSet(q[k])
    BY <1>5 DEF ToSet
  <2> QED
    BY <1>3, <1>4, <2>1, <2>2, <2>3, <2>4
<1>11. ASSUME NEW n \in 1 .. Len(t), NEW m \in 1 .. Len(t), t[n] = t[m] PROVE n = m
  <2>1. PICK k \in 1 .. Len(q) : \E h \in 1 .. Len(q[k]) :
                k = row[n] /\ h = col[n] /\ t[n] = q[k][h] /\ t[n] \in BlockIds(c[k])
    BY <1>10
  <2>2. PICK l \in 1 .. Len(q) : \E g \in 1 .. Len(q[l]) :
                l = row[m] /\ g = col[m] /\ t[m] = q[l][g] /\ t[m] \in BlockIds(c[l])
    BY <1>10
  <2>3. PICK h \in 1 .. Len(q[k]) : k = row[n] /\ h = col[n] /\ t[n] = q[k][h]
    BY <2>1
  <2>4. PICK g \in 1 .. Len(q[l]) : l = row[m] /\ g = col[m] /\ t[m] = q[l][g]
    BY <2>2
  <2>5. k = l
    BY <1>3, <1>11, <2>1, <2>2 DEF Clean
  <2>6. h = g
    BY <1>3, <1>4, <1>5, <1>11, <2>3, <2>4, <2>5 DEF IsInjective
  <2>7. row[n] = row[m] /\ col[n] = col[m]
    BY <2>3, <2>4, <2>5, <2>6
  <2> QED
    BY <2>7, <1>3, <1>6, <1>7, LaidOnce
<1>12. ToSet(t) = ContentIds(c)
  <2>1. ASSUME NEW x \in ToSet(t) PROVE x \in ContentIds(c)
    <3>1. PICK n \in 1 .. Len(t) : x = t[n]
      BY <1>8 DEF ToSet
    <3>2. PICK k \in 1 .. Len(q) : t[n] \in BlockIds(c[k])
      BY <1>10
    <3> QED
      BY <3>1, <3>2, <1>3 DEF ContentIds
  <2>2. ASSUME NEW x \in ContentIds(c) PROVE x \in ToSet(t)
    <3>1. PICK k \in 1 .. Len(q) : x \in BlockIds(c[k])
      BY <1>3 DEF ContentIds
    <3>2. x \in ToSet(q[k])
      BY <3>1, <1>3, <1>4
    <3>3. PICK h \in 1 .. Len(q[k]) : q[k][h] = x
      BY <3>2, <1>5 DEF ToSet
    <3>4. PICK n \in 1 .. Len(t) : row[n] = k /\ col[n] = h
      BY <1>9
    <3>5. t[n] = x
      BY <1>9, <3>3, <3>4
    <3> QED
      BY <3>5, <1>8 DEF ToSet
  <2> QED
    BY <2>1, <2>2
<1> QED
  BY <1>2, <1>6, <1>8, <1>11, <1>12 DEF IsInjective

-----------------------------------------------------------------------------
(* Texts and attachments are merged                                        *)

LEMMA PlainJoined ==
    ASSUME NEW s, NEW t, Plain(s), Plain(t), PartIds(s) \cap PartIds(t) = {}
    PROVE  Plain(s \o t) /\ PartIds(s \o t) = PartIds(s) \cup PartIds(t)
<1> DEFINE u == s \o t
<1>1. /\ IsSeq(u) /\ Len(u) = Len(s) + Len(t)
      /\ \A i \in 1 .. Len(s) : u[i] = s[i]
      /\ \A i \in 1 .. Len(t) : u[Len(s) + i] = t[i]
      /\ \A i \in 1 .. Len(u) : \/ i \in 1 .. Len(s) /\ u[i] = s[i]
                                \/ i - Len(s) \in 1 .. Len(t) /\ u[i] = t[i - Len(s)]
      /\ Len(s) \in Nat /\ Len(t) \in Nat
  BY Concat, SeqFacts DEF Plain
<1> HIDE DEF u
<1>2. ASSUME NEW i \in 1 .. Len(u) PROVE u[i].type \in {"text", "tool_reference"} \cup Attachments
  BY <1>1 DEF Plain
<1>3. ASSUME NEW i \in 1 .. Len(u), NEW j \in 1 .. Len(u), u[i].id = u[j].id PROVE i = j
  <2>1. CASE i \in 1 .. Len(s) /\ j \in 1 .. Len(s) /\ u[i] = s[i] /\ u[j] = s[j]
    BY <2>1, <1>3 DEF Plain
  <2>2. CASE i \in 1 .. Len(s) /\ u[i] = s[i] /\ j - Len(s) \in 1 .. Len(t) /\ u[j] = t[j - Len(s)]
    BY <2>2, <1>3 DEF PartIds
  <2>3. CASE j \in 1 .. Len(s) /\ u[j] = s[j] /\ i - Len(s) \in 1 .. Len(t) /\ u[i] = t[i - Len(s)]
    BY <2>3, <1>3 DEF PartIds
  <2>4. CASE /\ i - Len(s) \in 1 .. Len(t) /\ u[i] = t[i - Len(s)]
             /\ j - Len(s) \in 1 .. Len(t) /\ u[j] = t[j - Len(s)]
    <3>1. i - Len(s) = j - Len(s)
      BY <2>4, <1>3 DEF Plain
    <3> QED
      BY <3>1, <1>1
  <2> QED
    BY <2>1, <2>2, <2>3, <2>4, <1>1
<1>4. PartIds(u) = PartIds(s) \cup PartIds(t)
  <2>1. ASSUME NEW x \in PartIds(u) PROVE x \in PartIds(s) \cup PartIds(t)
    <3>1. PICK i \in 1 .. Len(u) : x = u[i].id
      BY DEF PartIds
    <3>2. \/ i \in 1 .. Len(s) /\ u[i] = s[i]
          \/ i - Len(s) \in 1 .. Len(t) /\ u[i] = t[i - Len(s)]
      BY <1>1
    <3> QED
      BY <3>1, <3>2 DEF PartIds
  <2>2. ASSUME NEW x \in PartIds(s) PROVE x \in PartIds(u)
    <3>1. PICK i \in 1 .. Len(s) : x = s[i].id
      BY DEF PartIds
    <3>2. i \in 1 .. Len(u) /\ u[i] = s[i]
      BY <1>1
    <3> QED
      BY <3>1, <3>2 DEF PartIds
  <2>3. ASSUME NEW x \in PartIds(t) PROVE x \in PartIds(u)
    <3>1. PICK i \in 1 .. Len(t) : x = t[i].id
      BY DEF PartIds
    <3>2. Len(s) + i \in 1 .. Len(u) /\ u[Len(s) + i] = t[i]
      BY <1>1
    <3> QED
      BY <3>1, <3>2 DEF PartIds
  <2> QED
    BY <2>1, <2>2, <2>3
<1> QED
  BY <1>1, <1>2, <1>3, <1>4 DEF Plain, u

LEMMA OfTypeEmpty ==
    ASSUME NEW s, IsSeq(s), NEW T
    PROVE  OfType(s, T) = <<>> <=> \A i \in 1 .. Len(s) : s[i].type \notin T
<1> DEFINE I == {i \in 1 .. Len(s) : s[i].type \in T}
           t == Only(s, I)
<1>1. DOMAIN s = 1 .. Len(s) /\ Len(s) \in Nat
  BY SeqFacts
<1>2. OfType(s, T) = t
  BY <1>1 DEF OfType
<1>3. IsSeq(t) /\ \E p : Picks(t, s, I, p)
  BY OnlyPicks
<1> HIDE DEF t
<1>4. PICK p : Picks(t, s, I, p)
  BY <1>3
<1>5. Len(t) \in Nat /\ (t = <<>> <=> Len(t) = 0)
  BY <1>3, SeqFacts
<1>6. ASSUME Len(t) = 0, NEW i \in I PROVE FALSE
  BY <1>4, <1>6 DEF Picks
<1>7. ASSUME Len(t) # 0 PROVE \E i \in I : TRUE
  <2>1. 1 \in 1 .. Len(t)
    BY <1>5, <1>7
  <2> QED
    BY <1>4, <2>1 DEF Picks
<1> QED
  BY <1>2, <1>5, <1>6, <1>7

LEMMA HasToolRef ==
    ASSUME NEW b, IsResult(b)
    PROVE  hasToolRef(b) <=> /\ b.form = "blocks"
                             /\ \E i \in 1 .. Len(b.content) : b.content[i].type = "tool_reference"
<1>1. IsSeq(b.content)
  BY DEF IsResult, Plain
<1> QED
  BY <1>1, OfTypeEmpty DEF hasToolRef

\* A result that is given more parts.
Extend(b, s, form) == ToolResult(b.call, form, b.content \o s, b.error)

LEMMA Extended ==
    ASSUME NEW b, IsResult(b), NEW s, Plain(s), PartIds(b.content) \cap PartIds(s) = {},
           NEW form, form # "none"
    PROVE  /\ IsResult(Extend(b, s, form))
           /\ Extend(b, s, form).call = b.call /\ Extend(b, s, form).error = b.error
           /\ Extend(b, s, form).form = form
           /\ Extend(b, s, form).content = b.content \o s
           /\ PartIds(Extend(b, s, form).content) = PartIds(b.content) \cup PartIds(s)
<1> DEFINE new == Extend(b, s, form)
<1>0. new = ToolResult(b.call, form, b.content \o s, b.error)
  BY DEF Extend
<1> HIDE DEF new
<1>1. b = ToolResult(b.call, b.form, b.content, b.error) /\ Plain(b.content)
  BY DEF IsResult
<1>3. /\ new.call = b.call /\ new.error = b.error /\ new.form = form
      /\ new.content = b.content \o s
  BY <1>0 DEF ToolResult
<1>4. Plain(b.content \o s) /\ PartIds(b.content \o s) = PartIds(b.content) \cup PartIds(s)
  BY <1>1, PlainJoined
<1> QED
  BY <1>0, <1>3, <1>4 DEF IsResult, new

LEMMA Texted ==
    ASSUME NEW b, IsResult(b), NEW s, Plain(s), PartIds(b.content) \cap PartIds(s) = {},
           \A i \in 1 .. Len(s) : s[i].type = "text",
           NEW new, new = mergeContentWithTexts(b, s)
    PROVE  /\ IsResult(new) /\ new.call = b.call /\ new.error = b.error
           /\ hasToolRef(new) <=> hasToolRef(b)
           /\ PartIds(new.content) = PartIds(b.content) \cup (IF hasToolRef(b) THEN {} ELSE PartIds(s))
<1>1. CASE hasToolRef(b)
  BY <1>1 DEF mergeContentWithTexts
<1>2. CASE ~hasToolRef(b)
  <2> DEFINE form == IF b.form = "none" THEN "blocks" ELSE b.form
  <2>1. form # "none" /\ new = Extend(b, s, form)
    BY <1>2 DEF mergeContentWithTexts, Extend
  <2> HIDE DEF form
  <2>2. /\ IsResult(new) /\ new.call = b.call /\ new.error = b.error /\ new.form = form
        /\ new.content = b.content \o s
        /\ PartIds(new.content) = PartIds(b.content) \cup PartIds(s)
    BY <2>1, Extended
  <2>3. ~hasToolRef(new)
    <3>1. SUFFICES ASSUME hasToolRef(new) PROVE FALSE
      OBVIOUS
    <3>2. PICK i \in 1 .. Len(new.content) : new.content[i].type = "tool_reference"
      BY <2>2, <3>1, HasToolRef
    <3>3. IsSeq(b.content) /\ IsSeq(s)
      BY DEF IsResult, Plain
    <3>4. \/ i \in 1 .. Len(b.content) /\ new.content[i] = b.content[i]
          \/ i - Len(b.content) \in 1 .. Len(s) /\ new.content[i] = s[i - Len(b.content)]
      BY <2>2, <3>2, <3>3, Concat
    <3>5. i \in 1 .. Len(b.content) /\ b.content[i].type = "tool_reference"
      BY <3>2, <3>4
    <3>6. b.form # "none"
      <4>1. b.form = "none" => Len(b.content) = 0
        BY None DEF IsResult
      <4> QED
        BY <3>5, <4>1
    <3>7. b.form = "blocks"
      BY <3>1, <3>6, <2>2, HasToolRef DEF form
    <3> QED
      BY <3>5, <3>7, <1>2, HasToolRef
  <2> QED
    BY <1>2, <2>2, <2>3
<1> QED
  BY <1>1, <1>2

\* Parts that stand beside the results, some of them.
LEMMA AsidesPlain ==
    ASSUME NEW c, Clean(c), NEW J, J \subseteq 1 .. Len(c), \A j \in J : c[j].type # "tool_result"
    PROVE  /\ Plain(Only(c, J)) /\ PartIds(Only(c, J)) = IdsAt(c, J)
           /\ \A k \in 1 .. Len(Only(c, J)) : \E j \in J : Only(c, J)[k] = c[j]
<1> DEFINE t == Only(c, J)
<1>1. IsSeq(c) /\ Len(c) \in Nat
  BY SeqFacts DEF Clean
<1>2. IsSeq(t) /\ \E p : Picks(t, c, J, p)
  BY <1>1, OnlyPicks
<1> HIDE DEF t
<1>3. PICK p : Picks(t, c, J, p)
  BY <1>2
<1>4. /\ \A k \in 1 .. Len(t) : p[k] \in J /\ t[k] = c[p[k]]
      /\ \A j \in J : \E k \in 1 .. Len(t) : p[k] = j
      /\ \A k, l \in 1 .. Len(t) : p[k] = p[l] => k = l
  BY <1>3 DEF Picks
<1>5. \A j \in J : IsAside(c[j]) /\ BlockIds(c[j]) = {c[j].id}
  BY ResultTyped DEF Clean, BlockIds
<1>6. \A k \in 1 .. Len(t) : t[k].type \in {"text", "tool_reference"} \cup Attachments
  <2>1. ASSUME NEW k \in 1 .. Len(t)
        PROVE  t[k].type \in {"text", "tool_reference"} \cup Attachments
    <3>1. IsAside(t[k])
      BY <1>4, <1>5
    <3> QED
      BY <3>1 DEF IsAside
  <2> QED
    BY <2>1
<1>7. ASSUME NEW k \in 1 .. Len(t), NEW l \in 1 .. Len(t), t[k].id = t[l].id PROVE k = l
  <2>1. p[k] \in J /\ p[l] \in J /\ c[p[k]].id = c[p[l]].id
    BY <1>4, <1>7
  <2>2. p[k] = p[l]
    BY <2>1, <1>5 DEF Clean
  <2> QED
    BY <2>2, <1>4
<1>8. PartIds(t) = {c[j].id : j \in J}
  <2>1. ASSUME NEW x \in PartIds(t) PROVE x \in {c[j].id : j \in J}
    <3>1. PICK k \in 1 .. Len(t) : x = t[k].id
      BY DEF PartIds
    <3>2. p[k] \in J /\ x = c[p[k]].id
      BY <3>1, <1>4
    <3> QED
      BY <3>2
  <2>2. ASSUME NEW j \in J PROVE c[j].id \in PartIds(t)
    BY <1>4 DEF PartIds
  <2> QED
    BY <2>1, <2>2
<1> QED
  BY <1>2, <1>4, <1>6, <1>7, <1>8 DEF Plain, IdsAt, t

\* Two sequences share what stands at some places.
HoldsAll(new, c, J)  == \A i \in J : \E k \in 1 .. Len(new) : new[k] = c[i]
HoldsOnly(new, c, J) == \A k \in 1 .. Len(new) : \E i \in J : new[k] = c[i]

\* Results and asides are left out, but no result is.
LEMMA OnlyKeeps ==
    ASSUME NEW c, Clean(c), NEW C, Answering(c, C), NEW I, I \subseteq 1 .. Len(c),
           ResultsAt(c) \subseteq I, NEW new, new = Only(c, I)
    PROVE  /\ Clean(new) /\ Answering(new, C) /\ ContentIds(new) \subseteq ContentIds(c)
           /\ \A i \in I : BlockIds(c[i]) \subseteq ContentIds(new)
           /\ HoldsAll(new, c, ResultsAt(c)) /\ HoldsOnly(new, c, I)
<1>1. IsSeq(c) /\ Len(c) \in Nat /\ I \subseteq Nat
  BY SeqFacts DEF Clean
<1>2. IsSeq(new) /\ \E p : Picks(new, c, I, p)
  BY <1>1, OnlyPicks
<1>3. PICK p : Picks(new, c, I, p)
  BY <1>2
<1>4. /\ \A k \in 1 .. Len(new) : p[k] \in I /\ new[k] = c[p[k]]
      /\ \A i \in I : \E k \in 1 .. Len(new) : p[k] = i
      /\ \A k, l \in 1 .. Len(new) : k < l <=> p[k] < p[l]
      /\ \A k, l \in 1 .. Len(new) : p[k] = p[l] => k = l
  BY <1>3 DEF Picks
<1>5. Clean(new)
  <2>1. ASSUME NEW k \in 1 .. Len(new), NEW l \in 1 .. Len(new), NEW x \in BlockIds(new[k]),
               x \in BlockIds(new[l])
        PROVE  k = l
    <3>1. p[k] \in 1 .. Len(c) /\ p[l] \in 1 .. Len(c) /\ new[k] = c[p[k]] /\ new[l] = c[p[l]]
      BY <1>4
    <3>2. p[k] = p[l]
      BY <2>1, <3>1 DEF Clean
    <3> QED
      BY <3>2, <1>4
  <2>2. ASSUME NEW k \in 1 .. Len(new) PROVE IsResult(new[k]) \/ IsAside(new[k])
    <3>1. p[k] \in 1 .. Len(c) /\ new[k] = c[p[k]]
      BY <1>4
    <3> QED
      BY <3>1 DEF Clean
  <2> QED
    BY <1>2, <2>1, <2>2 DEF Clean
<1>6. \A k \in 1 .. Len(new) : k \in ResultsAt(new) <=> p[k] \in ResultsAt(c)
  BY <1>4 DEF ResultsAt
<1>7. Answering(new, C)
  <2>1. C = {new[k].call : k \in ResultsAt(new)}
    <3>1. C = {c[i].call : i \in ResultsAt(c)}
      BY DEF Answering
    <3>2. ASSUME NEW k \in ResultsAt(new) PROVE new[k].call \in C
      BY <1>4, <1>6, <3>1 DEF ResultsAt
    <3>3. ASSUME NEW i \in ResultsAt(c) PROVE \E k \in ResultsAt(new) : new[k].call = c[i].call
      BY <1>4, <1>6 DEF ResultsAt
    <3> QED
      BY <3>1, <3>2, <3>3
  <2>2. \A k, l \in ResultsAt(new) : new[k].call = new[l].call => k = l
    <3>1. \A i, j \in ResultsAt(c) : c[i].call = c[j].call => i = j
      BY DEF Answering
    <3>2. ASSUME NEW k \in ResultsAt(new), NEW l \in ResultsAt(new), new[k].call = new[l].call
          PROVE  k = l
      <4>1. k \in 1 .. Len(new) /\ l \in 1 .. Len(new)
        BY DEF ResultsAt
      <4>2. /\ p[k] \in ResultsAt(c) /\ p[l] \in ResultsAt(c)
            /\ new[k] = c[p[k]] /\ new[l] = c[p[l]]
        BY <4>1, <1>4, <1>6
      <4>3. p[k] = p[l]
        BY <3>1, <3>2, <4>2
      <4> QED
        BY <4>1, <4>3, <1>4
    <3> QED
      BY <3>2
  <2>3. ASSUME NEW k \in ResultsAt(new), NEW l \in (1 .. Len(new)) \ ResultsAt(new) PROVE k < l
    <3>1. k \in 1 .. Len(new) /\ l \in 1 .. Len(new)
      BY DEF ResultsAt
    <3>2. p[k] \in ResultsAt(c) /\ p[l] \in (1 .. Len(c)) \ ResultsAt(c)
      BY <3>1, <1>4, <1>6
    <3>3. p[k] < p[l]
      BY <3>2 DEF Answering
    <3> QED
      BY <3>1, <3>3, <1>4
  <2> QED
    BY <2>1, <2>2, <2>3 DEF Answering
<1>8. ASSUME NEW x \in ContentIds(new) PROVE x \in ContentIds(c)
  <2>1. PICK k \in 1 .. Len(new) : x \in BlockIds(new[k])
    BY DEF ContentIds
  <2>2. p[k] \in 1 .. Len(c) /\ x \in BlockIds(c[p[k]])
    BY <1>4, <2>1
  <2> QED
    BY <2>2 DEF ContentIds
<1>9. ASSUME NEW i \in I PROVE BlockIds(c[i]) \subseteq ContentIds(new)
  <2>1. PICK k \in 1 .. Len(new) : new[k] = c[i]
    BY <1>4
  <2> QED
    BY <2>1 DEF ContentIds
<1>10. \A i \in ResultsAt(c) : \E k \in 1 .. Len(new) : new[k] = c[i]
  <2>1. ASSUME NEW i \in ResultsAt(c) PROVE \E k \in 1 .. Len(new) : new[k] = c[i]
    <3>1. PICK k \in 1 .. Len(new) : p[k] = i
      BY <1>4
    <3> QED
      BY <3>1, <1>4
  <2> QED
    BY <2>1
<1>11. ASSUME NEW k \in 1 .. Len(new) PROVE \E i \in I : new[k] = c[i]
  <2>1. p[k] \in I /\ new[k] = c[p[k]]
    BY <1>4
  <2> QED
    BY <2>1
<1> QED
  BY <1>5, <1>7, <1>8, <1>9, <1>10, <1>11 DEF HoldsAll, HoldsOnly

TextsAt(c)    == {i \in 1 .. Len(c) : c[i].type = "text"}
AttachedAt(c) == {i \in 1 .. Len(c) : c[i].type \in Attachments}

\* What stands at J in c goes to results: new[r] is old[r] with what stands at Q[r].
Given(c, J, old, new, Q) ==
  /\ IsSeq(new) /\ Len(new) = Len(old)
  /\ Q \in [1 .. Len(old) -> SUBSET J]
  /\ \A r, q \in 1 .. Len(old) : \A j \in Q[r] : j \in Q[q] => r = q
  /\ \A r \in 1 .. Len(old) :
       /\ IsResult(new[r]) /\ new[r].call = old[r].call /\ new[r].error = old[r].error
       /\ PartIds(new[r].content) = PartIds(old[r].content) \cup IdsAt(c, Q[r])

LEMMA Kinds ==
    ASSUME NEW c, Clean(c)
    PROVE  /\ IsSeq(c) /\ Len(c) \in Nat /\ DOMAIN c = 1 .. Len(c)
           /\ \A i \in ResultsAt(c) : IsResult(c[i])
           /\ \A j \in TextsAt(c) \cup AttachedAt(c) :
                j \in 1 .. Len(c) /\ c[j].type # "tool_result"
           /\ TextsAt(c) \cap AttachedAt(c) = {}
           /\ 1 .. Len(c) = ResultsAt(c) \cup TextsAt(c) \cup AttachedAt(c)
<1>1. IsSeq(c) /\ Len(c) \in Nat /\ DOMAIN c = 1 .. Len(c)
  BY SeqFacts DEF Clean
<1>2. ASSUME NEW i \in ResultsAt(c) PROVE IsResult(c[i])
  <2>1. i \in 1 .. Len(c) /\ c[i].type = "tool_result"
    BY DEF ResultsAt
  <2>2. ~IsAside(c[i])
    BY <2>1 DEF IsAside, Attachments
  <2> QED
    BY <2>1, <2>2 DEF Clean
<1>3. ASSUME NEW j \in TextsAt(c) \cup AttachedAt(c)
      PROVE  j \in 1 .. Len(c) /\ c[j].type # "tool_result"
  BY DEF TextsAt, AttachedAt, Attachments
<1>4. TextsAt(c) \cap AttachedAt(c) = {}
  BY DEF TextsAt, AttachedAt, Attachments
<1>5. ASSUME NEW i \in 1 .. Len(c) PROVE i \in ResultsAt(c) \cup TextsAt(c) \cup AttachedAt(c)
  <2>1. CASE IsResult(c[i])
    <3>1. c[i].type = "tool_result"
      BY <2>1, ResultTyped
    <3> QED
      BY <3>1 DEF ResultsAt
  <2>2. CASE IsAside(c[i])
    BY <2>2 DEF IsAside, TextsAt, AttachedAt
  <2> QED
    BY <2>1, <2>2 DEF Clean
<1>6. 1 .. Len(c) = ResultsAt(c) \cup TextsAt(c) \cup AttachedAt(c)
  <2>1. ResultsAt(c) \subseteq 1 .. Len(c)
    BY DEF ResultsAt
  <2> QED
    BY <2>1, <1>3, <1>5
<1> QED
  BY <1>1, <1>2, <1>3, <1>4, <1>6

LEMMA Apart ==
    ASSUME NEW c, Clean(c), NEW i \in ResultsAt(c), NEW j \in TextsAt(c) \cup AttachedAt(c)
    PROVE  c[j].id \notin PartIds(c[i].content)
<1>1. i \in 1 .. Len(c) /\ c[i].type = "tool_result"
  BY DEF ResultsAt
<1>2. j \in 1 .. Len(c) /\ c[j].type # "tool_result"
  BY Kinds
<1>3. BlockIds(c[i]) = PartIds(c[i].content) /\ BlockIds(c[j]) = {c[j].id}
  BY <1>1, <1>2 DEF BlockIds
<1>4. i # j
  BY <1>1, <1>2
<1> QED
  BY <1>1, <1>2, <1>3, <1>4 DEF Clean

LEMMA TextGiven ==
    ASSUME NEW c, Clean(c), NEW i \in ResultsAt(c), NEW K, K \subseteq TextsAt(c),
           NEW s, Plain(s), PartIds(s) = IdsAt(c, K),
           \A n \in 1 .. Len(s) : s[n].type = "text"
    PROVE  /\ IsResult(mergeContentWithTexts(c[i], s))
           /\ mergeContentWithTexts(c[i], s).call = c[i].call
           /\ mergeContentWithTexts(c[i], s).error = c[i].error
           /\ hasToolRef(mergeContentWithTexts(c[i], s)) <=> hasToolRef(c[i])
           /\ PartIds(mergeContentWithTexts(c[i], s).content)
                = PartIds(c[i].content) \cup IdsAt(c, IF hasToolRef(c[i]) THEN {} ELSE K)
<1>1. IsResult(c[i])
  BY Kinds
<1>2. PartIds(c[i].content) \cap PartIds(s) = {}
  BY Apart DEF IdsAt
<1> DEFINE new == mergeContentWithTexts(c[i], s)
<1>3. /\ IsResult(new) /\ new.call = c[i].call /\ new.error = c[i].error
      /\ hasToolRef(new) <=> hasToolRef(c[i])
      /\ PartIds(new.content) = PartIds(c[i].content) \cup (IF hasToolRef(c[i]) THEN {} ELSE PartIds(s))
  <2> HIDE DEF new
  <2>1. new = mergeContentWithTexts(c[i], s)
    BY DEF new
  <2> QED
    BY <1>1, <1>2, <2>1, Texted
<1> HIDE DEF new
<1>4. (IF hasToolRef(c[i]) THEN {} ELSE PartIds(s))
        = IdsAt(c, IF hasToolRef(c[i]) THEN {} ELSE K)
  <2>1. CASE hasToolRef(c[i])
    BY <2>1 DEF IdsAt
  <2>2. CASE ~hasToolRef(c[i])
    BY <2>2
  <2> QED
    BY <2>1, <2>2
<1> QED
  BY <1>3, <1>4 DEF new

LEMMA TextsMerged ==
    ASSUME NEW c, Clean(c), NEW results, NEW p, IsSeq(results),
           Picks(results, c, ResultsAt(c), p),
           NEW texts, texts = Only(c, TextsAt(c)), NEW new,
           new = IF texts = <<>> THEN results ELSE mergeToolResult(results, texts)
    PROVE  \E Q : /\ Given(c, TextsAt(c), results, new, Q)
                  /\ \A r \in 1 .. Len(results) : hasToolRef(new[r]) <=> hasToolRef(results[r])
                  /\ \A j \in TextsAt(c) : \/ \E r \in 1 .. Len(results) : j \in Q[r]
                                           \/ \E r \in 1 .. Len(results) : hasToolRef(results[r])
                                           \/ results = <<>>
<1> DEFINE T == TextsAt(c)
           n == Len(results)
<1>1. /\ IsSeq(c) /\ Len(c) \in Nat /\ T \subseteq 1 .. Len(c)
      /\ \A j \in T : c[j].type # "tool_result"
      /\ \A i \in ResultsAt(c) : IsResult(c[i])
  BY Kinds
<1>2. /\ IsSeq(texts) /\ Plain(texts) /\ PartIds(texts) = IdsAt(c, T)
      /\ \E q : Picks(texts, c, T, q)
  BY <1>1, OnlyPicks, AsidesPlain
<1>3. PICK q : Picks(texts, c, T, q)
  BY <1>2
<1>4. /\ \A k \in 1 .. Len(texts) : q[k] \in T /\ texts[k] = c[q[k]]
      /\ \A j \in T : \E k \in 1 .. Len(texts) : q[k] = j
      /\ \A k, l \in 1 .. Len(texts) : q[k] = q[l] => k = l
  BY <1>3 DEF Picks
<1>5. /\ n \in Nat /\ DOMAIN results = 1 .. n /\ Len(texts) \in Nat
      /\ (texts = <<>> <=> Len(texts) = 0) /\ (results = <<>> <=> n = 0)
  BY <1>2, SeqFacts
<1>6. \A r \in 1 .. n : p[r] \in ResultsAt(c) /\ results[r] = c[p[r]] /\ IsResult(results[r])
  BY <1>1 DEF Picks
<1>7. \A k \in 1 .. Len(texts) : texts[k].type = "text"
  BY <1>4 DEF TextsAt
<1> DEFINE K(r) == IF Len(texts) = 0 THEN {}
                   ELSE IF n = Len(texts) THEN {q[r]} ELSE IF r = n THEN T ELSE {}
           Q == [r \in 1 .. n |-> IF hasToolRef(results[r]) THEN {} ELSE K(r)]
<1>8. ASSUME NEW r \in 1 .. n PROVE K(r) \subseteq T
  BY <1>4
<1>9. ASSUME NEW r \in 1 .. n, NEW m \in 1 .. n, NEW j \in K(r), j \in K(m) PROVE r = m
  BY <1>4, <1>9
<1>10. ASSUME NEW j \in T, n # 0 PROVE \E r \in 1 .. n : j \in K(r)
  <2>1. PICK k \in 1 .. Len(texts) : q[k] = j
    BY <1>4
  <2>2. CASE n = Len(texts)
    BY <2>1, <2>2
  <2>3. CASE n # Len(texts)
    <3>1. n \in 1 .. n /\ Len(texts) # 0
      BY <1>5, <1>10, <2>1
    <3> QED
      BY <2>3, <3>1
  <2> QED
    BY <2>2, <2>3
<1>11. IsSeq(new) /\ Len(new) = n
  <2>1. CASE texts = <<>>
    BY <2>1
  <2>2. CASE texts # <<>>
    BY <2>2, <1>5, FunIsSeq DEF mergeToolResult
  <2> QED
    BY <2>1, <2>2
\* What a result is given, in each of the cases.
<1>12. ASSUME NEW r \in 1 .. n
       PROVE  \/ new[r] = results[r] /\ K(r) = {}
              \/ \E s : /\ new[r] = mergeContentWithTexts(results[r], s)
                        /\ Plain(s) /\ PartIds(s) = IdsAt(c, K(r))
                        /\ \A k \in 1 .. Len(s) : s[k].type = "text"
  <2>1. CASE texts = <<>>
    BY <2>1, <1>5
  <2>2. CASE texts # <<>> /\ n = Len(texts)
    <3>1. new[r] = mergeContentWithTexts(results[r], <<texts[r]>>)
      BY <2>2, <1>5 DEF mergeToolResult
    <3> DEFINE s == <<texts[r]>>
    <3>2. IsSeq(s) /\ Len(s) = 1 /\ s[1] = texts[r]
      BY One
    <3> HIDE DEF s
    <3>3. texts[r].type = "text" /\ texts[r] = c[q[r]]
      BY <2>2, <1>4, <1>7
    <3>4. Plain(s)
      BY <3>2, <3>3 DEF Plain
    <3>5. PartIds(s) = {c[q[r]].id}
      BY <3>2, <3>3 DEF PartIds
    <3>6. K(r) = {q[r]}
      BY <2>2, <1>5
    <3>7. PartIds(s) = IdsAt(c, K(r))
      BY <3>5, <3>6 DEF IdsAt
    <3>8. \A k \in 1 .. Len(s) : s[k].type = "text"
      BY <3>2, <3>3
    <3> HIDE DEF K
    <3> QED
      BY <3>1, <3>4, <3>7, <3>8 DEF s
  <2>3. CASE texts # <<>> /\ n # Len(texts) /\ r = n
    <3>1. new[r] = mergeContentWithTexts(results[r], texts)
      BY <2>3, <1>5 DEF mergeToolResult
    <3>2. K(r) = T
      BY <2>3, <1>5
    <3> HIDE DEF K
    <3> QED
      BY <3>1, <3>2, <1>2, <1>7
  <2>4. CASE texts # <<>> /\ n # Len(texts) /\ r # n
    <3>1. new[r] = results[r]
      BY <2>4, <1>5 DEF mergeToolResult
    <3>2. K(r) = {}
      BY <2>4, <1>5
    <3> QED
      BY <3>1, <3>2
  <2> QED
    BY <2>1, <2>2, <2>3, <2>4
<1> HIDE DEF K
<1>13. ASSUME NEW r \in 1 .. n
       PROVE  /\ IsResult(new[r]) /\ new[r].call = results[r].call /\ new[r].error = results[r].error
              /\ hasToolRef(new[r]) <=> hasToolRef(results[r])
              /\ PartIds(new[r].content) = PartIds(results[r].content) \cup IdsAt(c, Q[r])
  <2>1. Q[r] = IF hasToolRef(results[r]) THEN {} ELSE K(r)
    OBVIOUS
  <2>2. CASE new[r] = results[r] /\ K(r) = {}
    BY <2>1, <2>2, <1>6 DEF IdsAt
  <2>3. CASE \E s : /\ new[r] = mergeContentWithTexts(results[r], s)
                    /\ Plain(s) /\ PartIds(s) = IdsAt(c, K(r))
                    /\ \A k \in 1 .. Len(s) : s[k].type = "text"
    <3>1. PICK s : /\ new[r] = mergeContentWithTexts(results[r], s)
                   /\ Plain(s) /\ PartIds(s) = IdsAt(c, K(r))
                   /\ \A k \in 1 .. Len(s) : s[k].type = "text"
      BY <2>3
    <3>2. PICK i \in ResultsAt(c) : results[r] = c[i]
      BY <1>6
    <3> DEFINE J == K(r)
    <3>3. J \subseteq TextsAt(c) /\ PartIds(s) = IdsAt(c, J)
      BY <3>1, <1>8
    <3>4. Q[r] = IF hasToolRef(c[i]) THEN {} ELSE J
      BY <2>1, <3>2
    <3> HIDE DEF Q, J
    <3>5. /\ IsResult(mergeContentWithTexts(c[i], s))
          /\ mergeContentWithTexts(c[i], s).call = c[i].call
          /\ mergeContentWithTexts(c[i], s).error = c[i].error
          /\ hasToolRef(mergeContentWithTexts(c[i], s)) <=> hasToolRef(c[i])
          /\ PartIds(mergeContentWithTexts(c[i], s).content)
               = PartIds(c[i].content) \cup IdsAt(c, IF hasToolRef(c[i]) THEN {} ELSE J)
      BY <3>1, <3>3, TextGiven
    <3>6. new[r] = mergeContentWithTexts(c[i], s)
      BY <3>1, <3>2
    <3>7. PartIds(new[r].content) = PartIds(c[i].content) \cup IdsAt(c, Q[r])
      BY <3>4, <3>5, <3>6
    <3> QED
      BY <3>2, <3>5, <3>6, <3>7
  <2> QED
    BY <2>2, <2>3, <1>12
<1>14. Q \in [1 .. n -> SUBSET T]
  BY <1>8
<1>15. ASSUME NEW r \in 1 .. n, NEW m \in 1 .. n, NEW j \in Q[r], j \in Q[m] PROVE r = m
  <2>1. j \in K(r) /\ j \in K(m)
    BY <1>15
  <2> QED
    BY <2>1, <1>9
<1>16. ASSUME NEW j \in T
       PROVE  \/ \E r \in 1 .. n : j \in Q[r]
              \/ \E r \in 1 .. n : hasToolRef(results[r])
              \/ results = <<>>
  <2>1. CASE n = 0
    BY <2>1, <1>5
  <2>2. CASE n # 0
    <3>1. PICK r \in 1 .. n : j \in K(r)
      BY <2>2, <1>10
    <3>2. Q[r] = IF hasToolRef(results[r]) THEN {} ELSE K(r)
      OBVIOUS
    <3> QED
      BY <3>1, <3>2
  <2> QED
    BY <2>1, <2>2
<1> HIDE DEF Q
<1>17. Given(c, T, results, new, Q)
  BY <1>11, <1>13, <1>14, <1>15 DEF Given
<1> QED
  BY <1>13, <1>16, <1>17

LEMMA SubSeqIs ==
    ASSUME NEW s, IsSeq(s), NEW a \in Nat, NEW b \in Nat, 1 <= a, a <= b + 1, b <= Len(s)
    PROVE  /\ IsSeq(SubSeq(s, a, b)) /\ Len(SubSeq(s, a, b)) = b - a + 1
           /\ \A i \in 1 .. b - a + 1 : SubSeq(s, a, b)[i] = s[a + i - 1] /\ a + i - 1 \in 1 .. Len(s)
<1> DEFINE S == ToSet(s)
<1>1. s \in Seq(S)
  BY DEF IsSeq
<1> HIDE DEF S
<1>2. Len(s) \in Nat
  BY <1>1
<1>3. SubSeq(s, a, b) \in Seq(S) /\ Len(SubSeq(s, a, b)) = b - a + 1
  BY <1>1, <1>2
<1>4. \A i \in 1 .. b - a + 1 : SubSeq(s, a, b)[i] = s[a + i - 1] /\ a + i - 1 \in 1 .. Len(s)
  BY <1>1, <1>2
<1> QED
  BY <1>3, <1>4, SeqIs

Within(s, I) == \A k \in 1 .. Len(s) : s[k] \in I
Distinct(s)  == \A k, l \in 1 .. Len(s) : s[k] = s[l] => k = l

\* t lists the set I.
Listing(t, I) ==
  IsSeq(t) /\ Within(t, I) /\ Distinct(t) /\ \A i \in I : \E k \in 1 .. Len(t) : t[k] = i

LEMMA InOrderIs ==
    ASSUME NEW s, IsSeq(s), NEW I, I \subseteq 1 .. Len(s), NEW t, t = InOrder(s, I)
    PROVE  Listing(t, I)
<1> DEFINE d == [i \in DOMAIN s |-> i]
<1>1. DOMAIN s = 1 .. Len(s) /\ Len(s) \in Nat
  BY SeqFacts
<1>2. IsSeq(d) /\ Len(d) = Len(s) /\ \A i \in 1 .. Len(s) : d[i] = i
  BY <1>1, FunIsSeq
<1>3. t = Only(d, I)
  BY DEF InOrder
<1> HIDE DEF d
<1>4. IsSeq(t) /\ \E p : Picks(t, d, I, p)
  BY <1>2, <1>3, OnlyPicks
<1>5. PICK p : Picks(t, d, I, p)
  BY <1>4
<1>6. /\ \A k \in 1 .. Len(t) : p[k] \in I /\ t[k] = d[p[k]]
      /\ \A i \in I : \E k \in 1 .. Len(t) : p[k] = i
      /\ \A k, l \in 1 .. Len(t) : p[k] = p[l] => k = l
  BY <1>5 DEF Picks
<1>7. ASSUME NEW k \in 1 .. Len(t) PROVE t[k] = p[k]
  <2>1. p[k] \in 1 .. Len(s) /\ t[k] = d[p[k]]
    BY <1>6
  <2> QED
    BY <1>2, <2>1
<1>8. \A i \in I : \E k \in 1 .. Len(t) : t[k] = i
  BY <1>6, <1>7
<1>9. \A k \in 1 .. Len(t) : t[k] \in I
  BY <1>6, <1>7
<1>10. \A k, l \in 1 .. Len(t) : t[k] = t[l] => k = l
  BY <1>6, <1>7
<1> QED
  BY <1>4, <1>8, <1>9, <1>10 DEF Listing, Within, Distinct

\* Shared out: n results are given positions of A, none of them to two.
SharedOut(f, n, A) ==
  /\ f \in [1 .. n -> SUBSET A]
  /\ \A r, q \in 1 .. n : \A j \in f[r] : j \in f[q] => r = q

Ungiven(pos, target, n) == \A k \in 1 .. Len(pos) : \A r \in 1 .. n : pos[k] \notin target[r]

\* Beside what they had, the results are given positions of pos: all of them, or there is none to give.
AssignedAll(target, pos, ind, fallback, new, n) ==
  /\ \A r \in 1 .. n : target[r] \subseteq new[r] /\ new[r] \subseteq target[r] \cup ToSet(pos)
  /\ \A k \in 1 .. Len(pos) : \/ \E r \in 1 .. n : pos[k] \in new[r]
                              \/ fallback = <<>> /\ Len(ind) # Len(pos)

LEMMA Assigned ==
    ASSUME NEW n \in Nat, NEW A, NEW target, SharedOut(target, n, A),
           NEW pos, IsSeq(pos), NEW ind, IsSeq(ind), NEW fallback, IsSeq(fallback),
           Within(pos, A), Distinct(pos), Ungiven(pos, target, n), Within(ind, 1 .. n),
           Within(fallback, 1 .. n),
           NEW new, new = assignAttachmentsToToolResults(target, pos, ind, fallback)
    PROVE  SharedOut(new, n, A) /\ AssignedAll(target, pos, ind, fallback, new, n)
<1>1. /\ DOMAIN pos = 1 .. Len(pos) /\ DOMAIN ind = 1 .. Len(ind) /\ DOMAIN target = 1 .. n
      /\ Len(fallback) \in Nat /\ (fallback = <<>> <=> Len(fallback) = 0)
      /\ DOMAIN fallback = 1 .. Len(fallback)
  BY SeqFacts DEF SharedOut
<1>2. target \in [1 .. n -> SUBSET A]
      /\ \A r, q \in 1 .. n : \A j \in target[r] : j \in target[q] => r = q
  BY DEF SharedOut
<1>3. ToSet(pos) = {pos[k] : k \in 1 .. Len(pos)}
  BY <1>1 DEF ToSet
<1> USE DEF Within, Distinct, Ungiven
<1>4. CASE Len(ind) = Len(pos)
  <2> DEFINE E(r) == {pos[k] : k \in {j \in 1 .. Len(ind) : ind[j] = r}}
  <2>1. new = [r \in 1 .. n |-> target[r] \cup E(r)]
    BY <1>1, <1>4 DEF assignAttachmentsToToolResults
  <2>2. ASSUME NEW r \in 1 .. n, NEW j \in E(r)
        PROVE  \E k \in 1 .. Len(pos) : j = pos[k] /\ ind[k] = r
    BY <1>4
  <2>3. ASSUME NEW k \in 1 .. Len(pos) PROVE ind[k] \in 1 .. n /\ pos[k] \in E(ind[k])
    BY <1>4
  <2> HIDE DEF E
  <2>4. \A r \in 1 .. n : new[r] = target[r] \cup E(r)
    BY <2>1
  <2>5. new \in [1 .. n -> SUBSET A]
    <3>1. ASSUME NEW r \in 1 .. n PROVE target[r] \cup E(r) \subseteq A
      BY <1>2, <2>2
    <3> QED
      BY <2>1, <3>1
  <2>6. ASSUME NEW r \in 1 .. n, NEW q \in 1 .. n, NEW j \in new[r], j \in new[q] PROVE r = q
    <3>1. CASE j \in target[r] /\ j \in target[q]
      BY <3>1, <1>2
    <3>2. CASE j \in E(r) /\ j \in E(q)
      BY <3>2, <2>2
    <3>3. CASE j \in E(r) /\ j \in target[q]
      BY <3>3, <2>2
    <3>4. CASE j \in target[r] /\ j \in E(q)
      BY <3>4, <2>2
    <3> QED
      BY <3>1, <3>2, <3>3, <3>4, <2>4, <2>6
  <2>7. \A r \in 1 .. n : target[r] \subseteq new[r] /\ new[r] \subseteq target[r] \cup ToSet(pos)
    BY <1>3, <2>2, <2>4
  <2>8. \A k \in 1 .. Len(pos) : \E r \in 1 .. n : pos[k] \in new[r]
    BY <2>3, <2>4
  <2> QED
    BY <2>5, <2>6, <2>7, <2>8 DEF SharedOut, AssignedAll
<1>5. CASE Len(ind) # Len(pos)
  <2>1. new = [r \in 1 .. n |-> IF fallback # <<>> /\ r = Last(fallback)
                                  THEN target[r] \cup ToSet(pos) ELSE target[r]]
    BY <1>1, <1>5 DEF assignAttachmentsToToolResults
  <2>2. /\ \A r \in 1 .. n : fallback # <<>> /\ r = Last(fallback) => new[r] = target[r] \cup ToSet(pos)
        /\ \A r \in 1 .. n : ~(fallback # <<>> /\ r = Last(fallback)) => new[r] = target[r]
    BY <2>1
  <2>3. new \in [1 .. n -> SUBSET A]
    <3>1. ASSUME NEW r \in 1 .. n PROVE target[r] \subseteq A /\ target[r] \cup ToSet(pos) \subseteq A
      BY <1>2, <1>3
    <3> QED
      BY <2>1, <3>1
  <2>4. ASSUME NEW r \in 1 .. n, NEW q \in 1 .. n, NEW j \in new[r], j \in new[q] PROVE r = q
    <3>1. CASE j \in target[r] /\ j \in target[q]
      BY <3>1, <1>2
    <3>2. CASE ~(j \in target[r] /\ j \in target[q])
      <4>1. j \in ToSet(pos)
        BY <3>2, <2>2, <2>4
      <4>2. j \notin target[r] /\ j \notin target[q]
        BY <4>1, <1>3
      <4> QED
        BY <4>2, <2>2, <2>4
    <3> QED
      BY <3>1, <3>2
  <2>5. \A r \in 1 .. n : target[r] \subseteq new[r] /\ new[r] \subseteq target[r] \cup ToSet(pos)
    BY <2>2
  <2>6. ASSUME NEW k \in 1 .. Len(pos), fallback # <<>> PROVE \E r \in 1 .. n : pos[k] \in new[r]
    <3>1. Last(fallback) \in 1 .. n
      <4>1. Len(fallback) \in 1 .. Len(fallback)
        BY <1>1, <2>6
      <4> QED
        BY <4>1 DEF Last
    <3>2. pos[k] \in ToSet(pos)
      BY <1>3
    <3> QED
      BY <2>2, <2>6, <3>1, <3>2
  <2> QED
    BY <1>5, <2>3, <2>4, <2>5, <2>6 DEF SharedOut, AssignedAll
<1> QED
  BY <1>4, <1>5

LEMMA TargetsOf ==
    ASSUME NEW results, IsSeq(results), NEW c, IsSeq(c),
           NEW targets, targets = AttachmentTargets(results, c)
    PROVE  /\ SharedOut(targets, Len(results), AttachedAt(c))
           /\ \A j \in AttachedAt(c) :
                \/ \E r \in 1 .. Len(results) : j \in targets[r]
                \/ \A r \in 1 .. Len(results) : results[r].error \/ hasToolRef(results[r])
<1> DEFINE n == Len(results)
           A == AttachedAt(c)
           D == {i \in 1 .. Len(c) : c[i].type \in {"document"}}
           M == {r \in 1 .. n : ~results[r].error /\ ~hasToolRef(results[r])}
           positions == InOrder(c, A)
           documents == InOrder(c, D)
           mergeable == InOrder(results, M)
           W == {r \in ToSet(mergeable) : startsWithPdfFileRead(results[r])}
           reads == InOrder(results, W)
           matched == Min({Len(documents), Len(reads)})
           readers == SubSeq(reads, 1, matched)
           taken == SubSeq(documents, 1, matched)
           none == [r \in 1 .. n |-> {}]
           first == assignAttachmentsToToolResults(none, taken, readers, readers)
           rest == InOrder(c, ToSet(positions) \ ToSet(taken))
           others == InOrder(results, ToSet(mergeable) \ ToSet(readers))
<1>1. DOMAIN results = 1 .. n /\ n \in Nat /\ DOMAIN c = 1 .. Len(c) /\ Len(c) \in Nat
  BY SeqFacts
<1>2. A \subseteq 1 .. Len(c) /\ D \subseteq A /\ M \subseteq 1 .. n
  BY DEF AttachedAt, Attachments
<1>3. targets = assignAttachmentsToToolResults(first, rest, others, mergeable)
  <2>1. mergeable = getMergeableToolResultIndices(results)
    BY <1>1 DEF getMergeableToolResultIndices
  <2>2. positions = InOrder(c, {i \in DOMAIN c : c[i].type \in Attachments})
    BY <1>1 DEF AttachedAt
  <2>3. documents = InOrder(c, {i \in DOMAIN c : c[i].type \in {"document"}})
    BY <1>1
  <2>4. none = [r \in DOMAIN results |-> {}]
    BY <1>1
  <2> HIDE DEF positions, documents, mergeable, none, A, D, M
  <2> QED
    BY <2>1, <2>2, <2>3, <2>4 DEF AttachmentTargets
<1> HIDE DEF A, D, M, positions, documents, mergeable, reads, matched, readers, taken, none, first, rest,
             others, W, n
<1>4. /\ IsSeq(positions) /\ ToSet(positions) = A
      /\ IsSeq(mergeable) /\ ToSet(mergeable) = M
      /\ \A k \in 1 .. Len(mergeable) : mergeable[k] \in M
      /\ \A r \in M : \E k \in 1 .. Len(mergeable) : mergeable[k] = r
  <2>1. /\ IsSeq(positions) /\ \A k \in 1 .. Len(positions) : positions[k] \in A
        /\ \A i \in A : \E k \in 1 .. Len(positions) : positions[k] = i
    <3>1. A \subseteq 1 .. Len(c)
      BY <1>2
    <3>2. Listing(positions, A)
      BY <3>1, InOrderIs DEF positions
    <3> QED
      BY <3>2 DEF Listing, Within
  <2>2. /\ IsSeq(mergeable) /\ \A k \in 1 .. Len(mergeable) : mergeable[k] \in M
        /\ \A r \in M : \E k \in 1 .. Len(mergeable) : mergeable[k] = r
    <3>1. M \subseteq 1 .. Len(results)
      BY <1>2 DEF n
    <3>2. Listing(mergeable, M)
      BY <3>1, InOrderIs DEF mergeable
    <3> QED
      BY <3>2 DEF Listing, Within
  <2>3. DOMAIN positions = 1 .. Len(positions) /\ DOMAIN mergeable = 1 .. Len(mergeable)
    BY <2>1, <2>2, SeqFacts
  <2>4. ToSet(positions) = A
    BY <2>1, <2>3 DEF ToSet
  <2>5. ToSet(mergeable) = M
    BY <2>2, <2>3 DEF ToSet
  <2> QED
    BY <2>1, <2>2, <2>4, <2>5
<1>5. /\ IsSeq(documents) /\ \A k \in 1 .. Len(documents) : documents[k] \in A
      /\ \A k, l \in 1 .. Len(documents) : documents[k] = documents[l] => k = l
  <2>1. D \subseteq 1 .. Len(c)
    BY <1>2
  <2>2. /\ IsSeq(documents) /\ \A k \in 1 .. Len(documents) : documents[k] \in D
        /\ \A k, l \in 1 .. Len(documents) : documents[k] = documents[l] => k = l
    <3>1. Listing(documents, D)
      BY <2>1, InOrderIs DEF documents
    <3> QED
      BY <3>1 DEF Listing, Within, Distinct
  <2> QED
    BY <2>2, <1>2
<1>6. IsSeq(reads) /\ \A k \in 1 .. Len(reads) : reads[k] \in M
  <2>1. W \subseteq M
    BY <1>4 DEF W
  <2>2. W \subseteq 1 .. Len(results)
    BY <2>1, <1>2 DEF n
  <2>3. IsSeq(reads) /\ \A k \in 1 .. Len(reads) : reads[k] \in W
    <3>1. Listing(reads, W)
      BY <2>2, InOrderIs DEF reads
    <3> QED
      BY <3>1 DEF Listing, Within
  <2> QED
    BY <2>1, <2>3
<1>7. matched \in Nat /\ matched <= Len(documents) /\ matched <= Len(reads)
  <2>1. Len(documents) \in Nat /\ Len(reads) \in Nat
    BY <1>5, <1>6, SeqFacts
  <2> QED
    BY <2>1, MinMax DEF matched
<1>8. /\ IsSeq(taken) /\ Len(taken) = matched
      /\ \A k \in 1 .. matched : taken[k] = documents[k] /\ k \in 1 .. Len(documents)
  <2>1. Len(documents) \in Nat
    BY <1>5, SeqFacts
  <2>2. /\ IsSeq(taken) /\ Len(taken) = matched - 1 + 1
        /\ \A i \in 1 .. matched - 1 + 1 :
             taken[i] = documents[1 + i - 1] /\ 1 + i - 1 \in 1 .. Len(documents)
    BY <1>5, <1>7, <2>1, SubSeqIs DEF taken
  <2> QED
    BY <1>7, <2>2
<1>9. /\ IsSeq(readers) /\ Len(readers) = matched
      /\ \A k \in 1 .. matched : readers[k] \in M
  <2>1. Len(reads) \in Nat
    BY <1>6, SeqFacts
  <2>2. /\ IsSeq(readers) /\ Len(readers) = matched - 1 + 1
        /\ \A i \in 1 .. matched - 1 + 1 :
             readers[i] = reads[1 + i - 1] /\ 1 + i - 1 \in 1 .. Len(reads)
    BY <1>6, <1>7, <2>1, SubSeqIs DEF readers
  <2> QED
    BY <1>6, <1>7, <2>2
<1>10. SharedOut(none, n, A) /\ \A r \in 1 .. n : none[r] = {}
  BY DEF none, SharedOut
<1>11. /\ SharedOut(first, n, A)
       /\ \A r \in 1 .. n : first[r] \subseteq ToSet(taken)
       /\ \A k \in 1 .. Len(taken) : \E r \in 1 .. n : taken[k] \in first[r]
  <2>1. /\ \A k \in 1 .. Len(taken) : taken[k] \in A
        /\ \A k, l \in 1 .. Len(taken) : taken[k] = taken[l] => k = l
        /\ \A k \in 1 .. Len(taken) : \A r \in 1 .. n : taken[k] \notin none[r]
    BY <1>5, <1>8, <1>10
  <2>2. \A k \in 1 .. Len(readers) : readers[k] \in 1 .. n
    BY <1>2, <1>9
  <2>3. n \in Nat
    BY <1>1 DEF n
  <2>4. /\ SharedOut(first, n, A)
        /\ \A r \in 1 .. n : none[r] \subseteq first[r] /\ first[r] \subseteq none[r] \cup ToSet(taken)
        /\ \A k \in 1 .. Len(taken) : \/ \E r \in 1 .. n : taken[k] \in first[r]
                                      \/ readers = <<>> /\ Len(readers) # Len(taken)
    <3>1. first = assignAttachmentsToToolResults(none, taken, readers, readers)
      BY DEF first
    <3>2. IsSeq(taken) /\ IsSeq(readers) /\ SharedOut(none, n, A)
      BY <1>8, <1>9, <1>10
    <3>3. /\ Within(taken, A) /\ Distinct(taken) /\ Ungiven(taken, none, n)
          /\ Within(readers, 1 .. n)
      BY <2>1, <2>2 DEF Within, Distinct, Ungiven
    <3>4. SharedOut(first, n, A) /\ AssignedAll(none, taken, readers, readers, first, n)
      BY <3>1, <3>2, <3>3, <2>3, Assigned
    <3> QED
      BY <3>4 DEF AssignedAll
  <2> QED
    BY <1>8, <1>9, <1>10, <2>4
<1>12. /\ IsSeq(rest) /\ \A k \in 1 .. Len(rest) : rest[k] \in A /\ rest[k] \notin ToSet(taken)
       /\ \A k, l \in 1 .. Len(rest) : rest[k] = rest[l] => k = l
       /\ \A j \in A : j \in ToSet(taken) \/ \E k \in 1 .. Len(rest) : rest[k] = j
  <2>1. A \ ToSet(taken) \subseteq 1 .. Len(c)
    BY <1>2
  <2>2. rest = InOrder(c, A \ ToSet(taken))
    BY <1>4 DEF rest
  <2>3. /\ IsSeq(rest) /\ \A k \in 1 .. Len(rest) : rest[k] \in A \ ToSet(taken)
        /\ \A i \in A \ ToSet(taken) : \E k \in 1 .. Len(rest) : rest[k] = i
        /\ \A k, l \in 1 .. Len(rest) : rest[k] = rest[l] => k = l
    <3> DEFINE I == A \ ToSet(taken)
    <3>1. I \subseteq 1 .. Len(c) /\ rest = InOrder(c, I)
      BY <2>1, <2>2
    <3> HIDE DEF I
    <3>2. /\ IsSeq(rest) /\ \A k \in 1 .. Len(rest) : rest[k] \in I
          /\ \A i \in I : \E k \in 1 .. Len(rest) : rest[k] = i
          /\ \A k, l \in 1 .. Len(rest) : rest[k] = rest[l] => k = l
      <4>1. Listing(rest, I)
        BY <3>1, InOrderIs
      <4> QED
        BY <4>1 DEF Listing, Within, Distinct
    <3> QED
      BY <3>2 DEF I
  <2> QED
    BY <2>3
<1>13. IsSeq(others) /\ \A k \in 1 .. Len(others) : others[k] \in 1 .. n
  <2>1. M \ ToSet(readers) \subseteq 1 .. Len(results)
    BY <1>2 DEF n
  <2>2. others = InOrder(results, M \ ToSet(readers))
    BY <1>4 DEF others
  <2>3. IsSeq(others) /\ \A k \in 1 .. Len(others) : others[k] \in M \ ToSet(readers)
    <3>1. Listing(others, M \ ToSet(readers))
      BY <2>1, <2>2, InOrderIs
    <3> QED
      BY <3>1 DEF Listing, Within
  <2> QED
    BY <2>1, <2>3 DEF n
<1>14. /\ SharedOut(targets, n, A)
       /\ \A r \in 1 .. n : first[r] \subseteq targets[r]
       /\ \A k \in 1 .. Len(rest) : (\E r \in 1 .. n : rest[k] \in targets[r]) \/ mergeable = <<>>
  <2>1. \A k \in 1 .. Len(rest) : \A r \in 1 .. n : rest[k] \notin first[r]
    BY <1>11, <1>12
  <2>2. \A k \in 1 .. Len(mergeable) : mergeable[k] \in 1 .. n
    BY <1>2, <1>4
  <2>3. n \in Nat
    BY <1>1 DEF n
  <2>4. \A k \in 1 .. Len(rest) : rest[k] \in A
    BY <1>12
  <2>5. /\ SharedOut(targets, n, A)
        /\ \A r \in 1 .. n : first[r] \subseteq targets[r] /\ targets[r] \subseteq first[r] \cup ToSet(rest)
        /\ \A k \in 1 .. Len(rest) : \/ \E r \in 1 .. n : rest[k] \in targets[r]
                                     \/ mergeable = <<>> /\ Len(others) # Len(rest)
    <3>1. IsSeq(rest) /\ IsSeq(others) /\ IsSeq(mergeable) /\ SharedOut(first, n, A)
      BY <1>4, <1>11, <1>12, <1>13
    <3>2. /\ Within(rest, A) /\ Distinct(rest) /\ Ungiven(rest, first, n)
          /\ Within(others, 1 .. n) /\ Within(mergeable, 1 .. n)
      BY <1>12, <1>13, <2>1, <2>2, <2>4 DEF Within, Distinct, Ungiven
    <3>3. SharedOut(targets, n, A) /\ AssignedAll(first, rest, others, mergeable, targets, n)
      BY <1>3, <3>1, <3>2, <2>3, Assigned
    <3> QED
      BY <3>3 DEF AssignedAll
  <2> QED
    BY <2>5
<1>15. ASSUME NEW j \in A
       PROVE  \/ \E r \in 1 .. n : j \in targets[r]
              \/ \A r \in 1 .. n : results[r].error \/ hasToolRef(results[r])
  <2>1. CASE j \in ToSet(taken)
    <3>1. DOMAIN taken = 1 .. Len(taken)
      BY <1>8, SeqFacts
    <3>2. PICK k \in 1 .. Len(taken) : taken[k] = j
      BY <2>1, <3>1 DEF ToSet
    <3> QED
      BY <3>2, <1>11, <1>14
  <2>2. CASE j \notin ToSet(taken)
    <3>1. PICK k \in 1 .. Len(rest) : rest[k] = j
      BY <2>2, <1>12
    <3>2. CASE \E r \in 1 .. n : rest[k] \in targets[r]
      BY <3>1, <3>2
    <3>3. CASE mergeable = <<>>
      <4>1. M = {}
        BY <3>3, <1>4, None
      <4> QED
        BY <4>1 DEF M
    <3> QED
      BY <3>2, <3>3, <1>14
  <2> QED
    BY <2>1, <2>2
<1> QED
  BY <1>14, <1>15 DEF A, n

Beside(c) == TextsAt(c) \cup AttachedAt(c)

LEMMA GivenAll ==
    ASSUME NEW c, Clean(c), NEW C, Answering(c, C), NEW results, IsSeq(results), NEW p,
           Picks(results, c, ResultsAt(c), p), NEW new, NEW Q, Given(c, Beside(c), results, new, Q)
    PROVE  /\ Clean(new) /\ Answering(new, C) /\ ContentIds(new) \subseteq ContentIds(c)
           /\ \A i \in ResultsAt(c) : BlockIds(c[i]) \subseteq ContentIds(new)
           /\ \A r \in 1 .. Len(results) : \A j \in Q[r] : BlockIds(c[j]) \subseteq ContentIds(new)
<1> DEFINE n == Len(results)
<1>1. /\ n \in Nat /\ IsSeq(new) /\ Len(new) = n
      /\ \A r \in 1 .. n : Q[r] \subseteq Beside(c)
      /\ \A r, q \in 1 .. n : \A j \in Q[r] : j \in Q[q] => r = q
      /\ \A r \in 1 .. n : /\ IsResult(new[r]) /\ new[r].call = results[r].call
                           /\ PartIds(new[r].content) = PartIds(results[r].content) \cup IdsAt(c, Q[r])
  BY SeqFacts DEF Given
<1>2. /\ \A r \in 1 .. n : p[r] \in ResultsAt(c) /\ results[r] = c[p[r]]
      /\ \A r, q \in 1 .. n : p[r] = p[q] => r = q
      /\ \A i \in ResultsAt(c) : \E r \in 1 .. n : p[r] = i
  BY DEF Picks
<1> HIDE DEF n
<1>3. \A j \in Beside(c) : j \in 1 .. Len(c) /\ c[j].type # "tool_result" /\ BlockIds(c[j]) = {c[j].id}
  BY Kinds DEF Beside, BlockIds
<1>4. \A i \in ResultsAt(c) : i \in 1 .. Len(c) /\ i \notin Beside(c) /\ BlockIds(c[i]) = PartIds(c[i].content)
  BY <1>3 DEF ResultsAt, BlockIds
<1>5. \A r \in 1 .. n : BlockIds(new[r]) = PartIds(c[p[r]].content) \cup IdsAt(c, Q[r])
  BY <1>1, <1>2, ResultTyped DEF BlockIds
<1>6. ASSUME NEW r \in 1 .. n, NEW x \in BlockIds(new[r])
      PROVE  \E i \in {p[r]} \cup Q[r] : i \in 1 .. Len(c) /\ x \in BlockIds(c[i])
  <2>1. CASE x \in PartIds(c[p[r]].content)
    BY <2>1, <1>2, <1>4
  <2>2. CASE x \in IdsAt(c, Q[r])
    <3>1. PICK j \in Q[r] : x = c[j].id
      BY <2>2 DEF IdsAt
    <3>2. j \in Beside(c)
      BY <1>1
    <3> QED
      BY <3>1, <3>2, <1>3
  <2> QED
    BY <2>1, <2>2, <1>5
<1>7. ASSUME NEW r \in 1 .. n, NEW q \in 1 .. n, NEW x \in BlockIds(new[r]), x \in BlockIds(new[q])
      PROVE  r = q
  <2>1. PICK i \in {p[r]} \cup Q[r] : i \in 1 .. Len(c) /\ x \in BlockIds(c[i])
    BY <1>6
  <2>2. PICK j \in {p[q]} \cup Q[q] : j \in 1 .. Len(c) /\ x \in BlockIds(c[j])
    BY <1>6, <1>7
  <2>3. i = j
    BY <2>1, <2>2 DEF Clean
  <2>4. CASE i = p[r]
    <3>1. j \notin Beside(c)
      BY <2>3, <2>4, <1>2, <1>4
    <3>2. j = p[q]
      BY <3>1, <1>1
    <3> QED
      BY <3>2, <2>3, <2>4, <1>2
  <2>5. CASE i \in Q[r]
    <3>1. j \in Beside(c)
      BY <2>3, <2>5, <1>1
    <3>2. j \in Q[q]
      BY <3>1, <1>2, <1>4
    <3> QED
      BY <3>2, <2>3, <2>5, <1>1
  <2> QED
    BY <2>4, <2>5
<1>8. Clean(new)
  <2>1. \A k \in 1 .. Len(new) : IsResult(new[k])
    BY <1>1
  <2> QED
    BY <2>1, <1>1, <1>7 DEF Clean
<1>9. ResultsAt(new) = 1 .. n
  BY <1>1, ResultTyped DEF ResultsAt
<1>10. Answering(new, C)
  <2>1. /\ C = {c[i].call : i \in ResultsAt(c)}
        /\ \A i, j \in ResultsAt(c) : c[i].call = c[j].call => i = j
    BY DEF Answering
  <2>2. \A r \in 1 .. n : new[r].call = c[p[r]].call
    BY <1>1, <1>2
  <2>3. C = {new[r].call : r \in ResultsAt(new)}
    <3>1. ASSUME NEW r \in 1 .. n PROVE new[r].call \in C
      BY <2>1, <2>2, <1>2
    <3>2. ASSUME NEW x \in C PROVE \E r \in 1 .. n : x = new[r].call
      <4>1. PICK i \in ResultsAt(c) : x = c[i].call
        BY <2>1
      <4>2. PICK r \in 1 .. n : p[r] = i
        BY <1>2
      <4> QED
        BY <4>1, <4>2, <2>2
    <3> QED
      BY <3>1, <3>2, <1>9
  <2>4. ASSUME NEW r \in 1 .. n, NEW q \in 1 .. n, new[r].call = new[q].call PROVE r = q
    BY <2>1, <2>2, <2>4, <1>2
  <2>5. (1 .. Len(new)) \ ResultsAt(new) = {}
    BY <1>1, <1>9
  <2> QED
    BY <2>3, <2>4, <2>5, <1>9 DEF Answering
<1>11. ContentIds(new) \subseteq ContentIds(c)
  <2>1. ASSUME NEW x \in ContentIds(new) PROVE x \in ContentIds(c)
    <3>1. PICK r \in 1 .. n : x \in BlockIds(new[r])
      BY <1>1 DEF ContentIds
    <3>2. PICK i \in 1 .. Len(c) : x \in BlockIds(c[i])
      BY <3>1, <1>6
    <3> QED
      BY <3>2 DEF ContentIds
  <2> QED
    BY <2>1
<1>12. \A r \in 1 .. n : BlockIds(new[r]) \subseteq ContentIds(new)
  BY <1>1 DEF ContentIds
<1>13. ASSUME NEW i \in ResultsAt(c) PROVE BlockIds(c[i]) \subseteq ContentIds(new)
  <2>1. PICK r \in 1 .. n : p[r] = i
    BY <1>2
  <2>2. BlockIds(c[i]) \subseteq BlockIds(new[r])
    BY <2>1, <1>4, <1>5
  <2> QED
    BY <2>2, <1>12
<1>14. ASSUME NEW r \in 1 .. n, NEW j \in Q[r] PROVE BlockIds(c[j]) \subseteq ContentIds(new)
  <2>1. BlockIds(c[j]) = {c[j].id}
    BY <1>1, <1>3
  <2>2. c[j].id \in BlockIds(new[r])
    BY <1>5 DEF IdsAt
  <2> QED
    BY <2>1, <2>2, <1>12
<1> QED
  BY <1>8, <1>10, <1>11, <1>13, <1>14 DEF n

\* What is given up of a content.
NamesTool(c)  == \E i \in ResultsAt(c) : hasToolRef(c[i])
NoneTakes(c)  == ResultsAt(c) # {} /\ \A i \in ResultsAt(c) : c[i].error \/ hasToolRef(c[i])
Lost(c) == (IF NamesTool(c) THEN IdsAt(c, TextsAt(c)) ELSE {})
             \cup (IF NoneTakes(c) THEN IdsAt(c, AttachedAt(c)) ELSE {})

\* A content rewritten: it answers the same calls, its parts are parts it had, and only
\* what is given up is missing.
Rewritten(c, new, C) ==
  /\ Clean(new) /\ Answering(new, C) /\ ContentIds(new) \subseteq ContentIds(c)
  /\ ContentIds(c) \ Lost(c) \subseteq ContentIds(new)
  /\ Parts(new) \subseteq Parts(c)

\* A part is a block that is no result, or stands in one.
PartAt(c, q) == \E i \in 1 .. Len(c) :
  \/ c[i].type # "tool_result" /\ q = c[i]
  \/ c[i].type = "tool_result" /\ \E k \in 1 .. Len(c[i].content) : q = c[i].content[k]

LEMMA PartsAre ==
    ASSUME NEW c, Clean(c)
    PROVE  \A q : q \in Parts(c) <=> PartAt(c, q)
<1>1. ToSet(c) = {c[i] : i \in 1 .. Len(c)}
  BY Kinds DEF ToSet
<1>2. \A i \in 1 .. Len(c) : c[i].type = "tool_result" =>
        ToSet(c[i].content) = {c[i].content[k] : k \in 1 .. Len(c[i].content)}
  <2>1. ASSUME NEW i \in 1 .. Len(c), c[i].type = "tool_result"
        PROVE  ToSet(c[i].content) = {c[i].content[k] : k \in 1 .. Len(c[i].content)}
    <3>1. IsSeq(c[i].content)
      BY <2>1, Kinds DEF ResultsAt, IsResult, Plain
    <3> QED
      BY <3>1, SeqFacts DEF ToSet
  <2> QED
    BY <2>1
<1>3. Parts(c) = UNION {IF c[i].type = "tool_result" THEN ToSet(c[i].content) ELSE {c[i]} :
                          i \in 1 .. Len(c)}
  BY <1>1 DEF Parts
<1>4. ASSUME NEW q, q \in Parts(c) PROVE PartAt(c, q)
  <2>1. PICK i \in 1 .. Len(c) : q \in IF c[i].type = "tool_result" THEN ToSet(c[i].content) ELSE {c[i]}
    BY <1>3, <1>4
  <2>2. CASE c[i].type = "tool_result"
    BY <2>1, <2>2, <1>2 DEF PartAt
  <2>3. CASE c[i].type # "tool_result"
    BY <2>1, <2>3 DEF PartAt
  <2> QED
    BY <2>2, <2>3
<1>5. ASSUME NEW q, PartAt(c, q) PROVE q \in Parts(c)
  <2>1. PICK i \in 1 .. Len(c) :
          \/ c[i].type # "tool_result" /\ q = c[i]
          \/ c[i].type = "tool_result" /\ \E k \in 1 .. Len(c[i].content) : q = c[i].content[k]
    BY <1>5 DEF PartAt
  <2>2. q \in IF c[i].type = "tool_result" THEN ToSet(c[i].content) ELSE {c[i]}
    BY <2>1, <1>2
  <2> QED
    BY <2>2, <1>3
<1> QED
  BY <1>4, <1>5

\* Nothing but blocks of s is picked from it.
LEMMA OnlyBlocks ==
    ASSUME NEW s, IsSeq(s), NEW I, I \subseteq 1 .. Len(s)
    PROVE  \A k \in 1 .. Len(Only(s, I)) : \E i \in I : Only(s, I)[k] = s[i]
<1>1. PICK p : Picks(Only(s, I), s, I, p)
  BY OnlyPicks
<1> QED
  BY <1>1 DEF Picks

\* A result filled up with blocks that stand beside the results.
Filled(c, old, new) ==
  /\ new.type = "tool_result"
  /\ \A k \in 1 .. Len(new.content) :
       \/ \E h \in 1 .. Len(old.content) : new.content[k] = old.content[h]
       \/ \E j \in 1 .. Len(c) : c[j].type # "tool_result" /\ new.content[k] = c[j]

LEMMA FilledOne ==
    ASSUME NEW c, NEW old, old.type = "tool_result", IsSeq(old.content), NEW s, IsSeq(s),
           \A k \in 1 .. Len(s) : \E j \in 1 .. Len(c) : c[j].type # "tool_result" /\ s[k] = c[j],
           NEW form, NEW call, NEW error
    PROVE  /\ Filled(c, old, old)
           /\ Filled(c, old, ToolResult(call, form, old.content \o s, error))
           /\ IsSeq(old.content \o s)
<1> DEFINE t == old.content \o s
<1>1. /\ IsSeq(t)
      /\ \A k \in 1 .. Len(t) : \/ k \in 1 .. Len(old.content) /\ t[k] = old.content[k]
                                \/ k - Len(old.content) \in 1 .. Len(s) /\ t[k] = s[k - Len(old.content)]
  BY Concat
<1> HIDE DEF t
<1> DEFINE new == ToolResult(call, form, t, error)
<1>2. new.type = "tool_result" /\ new.content = t
  BY DEF ToolResult
<1> HIDE DEF new
<1>3. Filled(c, old, new)
  BY <1>1, <1>2 DEF Filled
<1>4. Filled(c, old, old)
  BY DEF Filled
<1> QED
  BY <1>1, <1>3, <1>4 DEF new, t

LEMMA FilledTwice ==
    ASSUME NEW c, NEW old, NEW mid, NEW new, Filled(c, old, mid), Filled(c, mid, new)
    PROVE  Filled(c, old, new)
<1>1. \A k \in 1 .. Len(new.content) :
        \/ \E h \in 1 .. Len(mid.content) : new.content[k] = mid.content[h]
        \/ \E j \in 1 .. Len(c) : c[j].type # "tool_result" /\ new.content[k] = c[j]
  BY DEF Filled
<1>2. \A h \in 1 .. Len(mid.content) :
        \/ \E g \in 1 .. Len(old.content) : mid.content[h] = old.content[g]
        \/ \E j \in 1 .. Len(c) : c[j].type # "tool_result" /\ mid.content[h] = c[j]
  BY DEF Filled
<1>3. ASSUME NEW k \in 1 .. Len(new.content)
      PROVE  \/ \E g \in 1 .. Len(old.content) : new.content[k] = old.content[g]
             \/ \E j \in 1 .. Len(c) : c[j].type # "tool_result" /\ new.content[k] = c[j]
  <2>1. CASE \E h \in 1 .. Len(mid.content) : new.content[k] = mid.content[h]
    BY <2>1, <1>2
  <2> QED
    BY <2>1, <1>1
<1> QED
  BY <1>3 DEF Filled

LEMMA FilesMerged ==
    ASSUME NEW c, Clean(c), NEW results, IsSeq(results), NEW p,
           Picks(results, c, ResultsAt(c), p),
           NEW mid, NEW Q, Given(c, TextsAt(c), results, mid, Q),
           \A r \in 1 .. Len(results) : hasToolRef(mid[r]) <=> hasToolRef(results[r]),
           NEW new, new = mergeAttachmentsForToolResults(mid, c)
    PROVE  \E R : /\ Given(c, Beside(c), results, new, R)
                  /\ \A r \in 1 .. Len(results) : Q[r] \subseteq R[r]
                  /\ \A j \in AttachedAt(c) :
                       \/ \E r \in 1 .. Len(results) : j \in R[r]
                       \/ \A r \in 1 .. Len(results) : results[r].error \/ hasToolRef(results[r])
<1> DEFINE n == Len(results)
           targets == AttachmentTargets(mid, c)
           R == [r \in 1 .. n |-> Q[r] \cup targets[r]]
<1>1. /\ n \in Nat /\ IsSeq(mid) /\ Len(mid) = n
      /\ \A r \in 1 .. n : Q[r] \subseteq TextsAt(c)
      /\ \A r, q \in 1 .. n : \A j \in Q[r] : j \in Q[q] => r = q
      /\ \A r \in 1 .. n : /\ IsResult(mid[r]) /\ mid[r].call = results[r].call
                           /\ mid[r].error = results[r].error
                           /\ PartIds(mid[r].content) = PartIds(results[r].content) \cup IdsAt(c, Q[r])
  BY SeqFacts DEF Given
<1> HIDE DEF n, targets
<1>2. /\ SharedOut(targets, n, AttachedAt(c))
      /\ \A j \in AttachedAt(c) : \/ \E r \in 1 .. n : j \in targets[r]
                                  \/ \A r \in 1 .. n : mid[r].error \/ hasToolRef(mid[r])
  <2>1. IsSeq(c) /\ IsSeq(mid) /\ targets = AttachmentTargets(mid, c)
    BY <1>1 DEF Clean, targets
  <2>2. SharedOut(targets, Len(mid), AttachedAt(c))
    BY <2>1, TargetsOf
  <2>3. \A j \in AttachedAt(c) : \/ \E r \in 1 .. Len(mid) : j \in targets[r]
                                 \/ \A r \in 1 .. Len(mid) : mid[r].error \/ hasToolRef(mid[r])
    BY <2>1, TargetsOf
  <2> QED
    BY <2>2, <2>3, <1>1
<1>3. /\ \A r \in 1 .. n : targets[r] \subseteq AttachedAt(c)
      /\ \A r, q \in 1 .. n : \A j \in targets[r] : j \in targets[q] => r = q
  BY <1>2 DEF SharedOut
<1>4. /\ TextsAt(c) \cap AttachedAt(c) = {} /\ AttachedAt(c) \subseteq 1 .. Len(c)
      /\ \A j \in Beside(c) : j \in 1 .. Len(c) /\ c[j].type # "tool_result" /\ BlockIds(c[j]) = {c[j].id}
  BY Kinds DEF Beside, BlockIds
<1>5. \A r \in 1 .. n : p[r] \in ResultsAt(c) /\ results[r] = c[p[r]]
  BY DEF Picks, n
<1>6. DOMAIN mid = 1 .. n
  BY <1>1, SeqFacts
<1>7. new = [r \in 1 .. n |-> IF targets[r] = {} THEN mid[r]
                              ELSE Extend(mid[r], Only(c, targets[r]), "blocks")]
  <2>1. new = [r \in DOMAIN mid |->
                 IF targets[r] = {} THEN mid[r]
                 ELSE ToolResult(mid[r].call, "blocks",
                                 mid[r].content \o Only(c, targets[r]), mid[r].error)]
    BY DEF mergeAttachmentsForToolResults, targets
  <2> QED
    BY <2>1, <1>6 DEF Extend
<1>8. ASSUME NEW r \in 1 .. n
      PROVE  /\ IsResult(new[r]) /\ new[r].call = results[r].call /\ new[r].error = results[r].error
             /\ PartIds(new[r].content) = PartIds(results[r].content) \cup IdsAt(c, R[r])
  <2>1. R[r] = Q[r] \cup targets[r]
    OBVIOUS
  <2> HIDE DEF R
  <2>2. IdsAt(c, R[r]) = IdsAt(c, Q[r]) \cup IdsAt(c, targets[r])
    BY <2>1 DEF IdsAt
  <2>3. CASE targets[r] = {}
    <3>1. new[r] = mid[r]
      BY <1>7, <2>3
    <3>2. R[r] = Q[r]
      BY <2>1, <2>3
    <3> QED
      BY <3>1, <3>2, <1>1
  <2>4. CASE targets[r] # {}
    <3> DEFINE s == Only(c, targets[r])
    <3>1. new[r] = Extend(mid[r], s, "blocks")
      BY <1>7, <2>4
    <3>2. targets[r] \subseteq 1 .. Len(c) /\ \A j \in targets[r] : c[j].type # "tool_result"
      BY <1>3, <1>4 DEF Beside
    <3>3. Plain(s) /\ PartIds(s) = IdsAt(c, targets[r])
      BY <3>2, AsidesPlain
    <3> HIDE DEF s
    <3>4. PartIds(mid[r].content) \cap PartIds(s) = {}
      <4>1. SUFFICES ASSUME NEW x \in PartIds(mid[r].content), x \in PartIds(s) PROVE FALSE
        OBVIOUS
      <4>2. PICK j \in targets[r] : x = c[j].id
        BY <4>1, <3>3 DEF IdsAt
      <4>3. j \in AttachedAt(c) /\ j \in Beside(c)
        BY <1>3 DEF Beside
      <4>4. CASE x \in PartIds(results[r].content)
        BY <4>2, <4>3, <4>4, <1>5, Apart
      <4>5. CASE x \in IdsAt(c, Q[r])
        <5>1. PICK k \in Q[r] : x = c[k].id
          BY <4>5 DEF IdsAt
        <5>2. k \in Beside(c) /\ k \in TextsAt(c)
          BY <1>1 DEF Beside
        <5>3. k = j
          BY <4>2, <4>3, <5>1, <5>2, <1>4 DEF Clean
        <5> QED
          BY <5>2, <5>3, <4>3, <1>4
      <4> QED
        BY <4>4, <4>5, <1>1
    <3>5. /\ IsResult(new[r]) /\ new[r].call = mid[r].call /\ new[r].error = mid[r].error
          /\ PartIds(new[r].content) = PartIds(mid[r].content) \cup PartIds(s)
      BY <3>1, <3>3, <3>4, <1>1, Extended
    <3> QED
      BY <3>3, <3>5, <2>2, <1>1
  <2> QED
    BY <2>3, <2>4
<1>9. IsSeq(new) /\ Len(new) = n
  BY <1>1, <1>7, FunIsSeq
<1>10. R \in [1 .. n -> SUBSET Beside(c)]
  BY <1>1, <1>3 DEF Beside
<1>11. \A r \in 1 .. n : R[r] = Q[r] \cup targets[r]
  OBVIOUS
<1> HIDE DEF R
<1>12. ASSUME NEW r \in 1 .. n, NEW q \in 1 .. n, NEW j \in R[r], j \in R[q] PROVE r = q
  BY <1>1, <1>3, <1>4, <1>11, <1>12
<1>13. Given(c, Beside(c), results, new, R)
  BY <1>8, <1>9, <1>10, <1>12 DEF Given, n
<1>14. ASSUME NEW j \in AttachedAt(c)
       PROVE  \/ \E r \in 1 .. n : j \in R[r]
              \/ \A r \in 1 .. n : results[r].error \/ hasToolRef(results[r])
  <2>1. \A r \in 1 .. n : hasToolRef(mid[r]) <=> hasToolRef(results[r])
    BY DEF n
  <2> QED
    BY <2>1, <1>1, <1>2, <1>11
<1>15. \A r \in 1 .. n : Q[r] \subseteq R[r]
  BY <1>11
<1> QED
  BY <1>13, <1>14, <1>15 DEF n

\* The parts of a merged content are parts it had.
LEMMA MergedParts ==
    ASSUME NEW c, Clean(c), NEW new, new = mergeUserMessageContent(c), Clean(new)
    PROVE  Parts(new) \subseteq Parts(c)
<1> DEFINE results == OfType(c, {"tool_result"})
           texts == OfType(c, {"text"})
           mid == IF texts = <<>> THEN results ELSE mergeToolResult(results, texts)
           targets == AttachmentTargets(mid, c)
<1>1. IsSeq(c) /\ Len(c) \in Nat /\ DOMAIN c = 1 .. Len(c)
  BY Kinds
<1>2. results = Only(c, ResultsAt(c)) /\ texts = Only(c, TextsAt(c))
  BY <1>1 DEF OfType, ResultsAt, TextsAt
<1>3. \/ new = c
      \/ new = mergeAttachmentsForToolResults(mid, c)
  BY DEF mergeUserMessageContent
<1> HIDE DEF results, texts
<1>4. ResultsAt(c) \subseteq 1 .. Len(c) /\ TextsAt(c) \subseteq 1 .. Len(c)
  BY DEF ResultsAt, TextsAt
<1>5. /\ IsSeq(results) /\ DOMAIN results = 1 .. Len(results) /\ Len(results) \in Nat
      /\ \A r \in 1 .. Len(results) : \E i \in ResultsAt(c) : results[r] = c[i]
  BY <1>1, <1>2, <1>4, OnlyPicks, OnlyBlocks, SeqFacts
<1>6. /\ IsSeq(texts) /\ DOMAIN texts = 1 .. Len(texts)
      /\ \A k \in 1 .. Len(texts) : \E j \in 1 .. Len(c) : c[j].type # "tool_result" /\ texts[k] = c[j]
  <2>1. /\ IsSeq(texts)
        /\ \A k \in 1 .. Len(texts) : \E j \in TextsAt(c) : texts[k] = c[j]
    BY <1>1, <1>2, <1>4, OnlyPicks, OnlyBlocks
  <2> QED
    BY <2>1, SeqFacts DEF TextsAt
<1>7. \A i \in ResultsAt(c) : c[i].type = "tool_result" /\ IsSeq(c[i].content)
  BY Kinds DEF ResultsAt, IsResult, Plain
\* What the texts make of a result.
<1>8. ASSUME NEW i \in ResultsAt(c), NEW s, IsSeq(s),
             \A k \in 1 .. Len(s) : \E j \in 1 .. Len(c) : c[j].type # "tool_result" /\ s[k] = c[j]
      PROVE  /\ Filled(c, c[i], c[i]) /\ Filled(c, c[i], mergeContentWithTexts(c[i], s))
             /\ IsSeq(mergeContentWithTexts(c[i], s).content)
  <2> DEFINE b == c[i]
             form == IF b.form = "none" THEN "blocks" ELSE b.form
             given == ToolResult(b.call, form, b.content \o s, b.error)
  <2>1. mergeContentWithTexts(b, s) = IF hasToolRef(b) THEN b ELSE given
    BY DEF mergeContentWithTexts
  <2>2. b.type = "tool_result" /\ IsSeq(b.content)
    BY <1>7
  <2>3. given.content = b.content \o s
    BY DEF ToolResult
  <2> HIDE DEF b, form
  <2>4. Filled(c, b, b) /\ Filled(c, b, given) /\ IsSeq(b.content \o s)
    BY <2>2, <1>8, FilledOne
  <2> HIDE DEF given
  <2> QED
    BY <2>1, <2>2, <2>3, <2>4 DEF b
<1>9. /\ IsSeq(mid) /\ Len(mid) = Len(results) /\ DOMAIN mid = 1 .. Len(results)
      /\ \A r \in 1 .. Len(results) :
           IsSeq(mid[r].content) /\ \E i \in ResultsAt(c) : Filled(c, c[i], mid[r])
  <2>1. CASE texts = <<>>
    <3>1. mid = results
      BY <2>1
    <3>2. \A i \in ResultsAt(c) : Filled(c, c[i], c[i])
      BY <1>7 DEF Filled
    <3> QED
      BY <3>1, <3>2, <1>5, <1>7
  <2>2. CASE texts # <<>>
    <3>1. mid = [r \in 1 .. Len(results) |->
                   IF Len(results) = Len(texts)
                     THEN mergeContentWithTexts(results[r], <<texts[r]>>)
                     ELSE IF r = Len(results) THEN mergeContentWithTexts(results[r], texts)
                                              ELSE results[r]]
      BY <2>2, <1>5 DEF mergeToolResult
    <3>2. IsSeq(mid) /\ Len(mid) = Len(results) /\ DOMAIN mid = 1 .. Len(results)
      BY <3>1, <1>5, FunIsSeq
    <3>3. ASSUME NEW r \in 1 .. Len(results)
          PROVE  IsSeq(mid[r].content) /\ \E i \in ResultsAt(c) : Filled(c, c[i], mid[r])
      <4>1. PICK i \in ResultsAt(c) : results[r] = c[i]
        BY <1>5
      <4>2. CASE Len(results) = Len(texts)
        <5> DEFINE s == <<texts[r]>>
        <5>1. mid[r] = mergeContentWithTexts(c[i], s)
          BY <3>1, <4>1, <4>2
        <5>2. IsSeq(s) /\ Len(s) = 1 /\ s[1] = texts[r]
          BY One
        <5> HIDE DEF s, mid
        <5>3. \A k \in 1 .. Len(s) : \E j \in 1 .. Len(c) : c[j].type # "tool_result" /\ s[k] = c[j]
          BY <5>2, <4>2, <1>6
        <5> QED
          BY <5>1, <5>2, <5>3, <1>8
      <4>3. CASE Len(results) # Len(texts) /\ r = Len(results)
        <5>1. mid[r] = mergeContentWithTexts(c[i], texts)
          BY <3>1, <4>1, <4>3
        <5> HIDE DEF mid
        <5> QED
          BY <5>1, <1>6, <1>8
      <4>4. CASE Len(results) # Len(texts) /\ r # Len(results)
        <5>1. mid[r] = c[i]
          BY <3>1, <4>1, <4>4
        <5> HIDE DEF mid
        <5> QED
          BY <5>1, <1>7 DEF Filled
      <4> QED
        BY <4>2, <4>3, <4>4
    <3> QED
      BY <3>2, <3>3
  <2> QED
    BY <2>1, <2>2
<1> HIDE DEF mid
<1>10. CASE new = c
  BY <1>10
<1>11. CASE new = mergeAttachmentsForToolResults(mid, c)
  <2>1. new = [r \in 1 .. Len(results) |->
                 IF targets[r] = {} THEN mid[r]
                 ELSE ToolResult(mid[r].call, "blocks", mid[r].content \o Only(c, targets[r]), mid[r].error)]
    BY <1>9, <1>11 DEF mergeAttachmentsForToolResults
  <2>2. SharedOut(targets, Len(mid), AttachedAt(c))
    BY <1>1, <1>9, TargetsOf
  <2>3. Len(new) = Len(results)
    BY <2>1, <1>5, FunIsSeq
  <2> HIDE DEF targets
  <2>4. ASSUME NEW r \in 1 .. Len(results) PROVE \E i \in ResultsAt(c) : Filled(c, c[i], new[r])
    <3>1. PICK i \in ResultsAt(c) : Filled(c, c[i], mid[r])
      BY <1>9
    <3>2. CASE targets[r] = {}
      BY <3>1, <3>2, <2>1
    <3>3. CASE targets[r] # {}
      <4> DEFINE s == Only(c, targets[r])
      <4>1. new[r] = ToolResult(mid[r].call, "blocks", mid[r].content \o s, mid[r].error)
        BY <2>1, <3>3
      <4>2. targets[r] \subseteq AttachedAt(c)
        BY <2>2, <1>9 DEF SharedOut
      <4>3. targets[r] \subseteq 1 .. Len(c) /\ \A j \in targets[r] : c[j].type # "tool_result"
        BY <4>2, Kinds
      <4>4. /\ IsSeq(s)
            /\ \A k \in 1 .. Len(s) : \E j \in 1 .. Len(c) : c[j].type # "tool_result" /\ s[k] = c[j]
        BY <4>3, <1>1, OnlyPicks, OnlyBlocks
      <4>5. mid[r].type = "tool_result" /\ IsSeq(mid[r].content)
        BY <3>1, <1>9 DEF Filled
      <4> HIDE DEF s
      <4> DEFINE old == mid[r]
      <4>6. Filled(c, old, ToolResult(old.call, "blocks", old.content \o s, old.error))
        <5> HIDE DEF old
        <5>1. old.type = "tool_result" /\ IsSeq(old.content)
          BY <4>5 DEF old
        <5> QED
          BY <5>1, <4>4, FilledOne
      <4> QED
        BY <3>1, <4>1, <4>6, FilledTwice
    <3> QED
      BY <3>2, <3>3
  <2>5. ASSUME NEW q, q \in Parts(new) PROVE q \in Parts(c)
    <3>1. PartAt(new, q)
      BY <2>5, PartsAre
    <3>2. PICK r \in 1 .. Len(results) :
            \/ new[r].type # "tool_result" /\ q = new[r]
            \/ new[r].type = "tool_result" /\ \E k \in 1 .. Len(new[r].content) : q = new[r].content[k]
      BY <3>1, <2>3 DEF PartAt
    <3>3. PICK i \in ResultsAt(c) : Filled(c, c[i], new[r])
      BY <2>4
    <3>4. PICK k \in 1 .. Len(new[r].content) : q = new[r].content[k]
      BY <3>2, <3>3 DEF Filled
    <3>5. PartAt(c, q)
      <4>1. CASE \E h \in 1 .. Len(c[i].content) : q = c[i].content[h]
        BY <4>1, <1>4, <1>7 DEF PartAt
      <4>2. CASE \E j \in 1 .. Len(c) : c[j].type # "tool_result" /\ q = c[j]
        BY <4>2 DEF PartAt
      <4> QED
        BY <3>3, <3>4, <4>1, <4>2 DEF Filled
    <3> QED
      BY <3>5, PartsAre
  <2> QED
    BY <2>5
<1> QED
  BY <1>3, <1>10, <1>11

LEMMA MergeKeeps ==
    ASSUME NEW c, Clean(c), NEW C, Answering(c, C), NEW new, new = mergeUserMessageContent(c)
    PROVE  Rewritten(c, new, C)
<1> DEFINE results == OfType(c, {"tool_result"})
           texts == OfType(c, {"text"})
           mid == IF texts = <<>> THEN results ELSE mergeToolResult(results, texts)
<1>0. Parts(new) \subseteq Parts(c) \/ ~Clean(new)
  BY MergedParts
<1>1. IsSeq(c) /\ Len(c) \in Nat /\ DOMAIN c = 1 .. Len(c)
  BY Kinds
<1>2. results = Only(c, ResultsAt(c)) /\ texts = Only(c, TextsAt(c))
  BY <1>1 DEF OfType, ResultsAt, TextsAt
<1>3. \/ new = c
      \/ results # <<>> /\ new = mergeAttachmentsForToolResults(mid, c)
  BY DEF mergeUserMessageContent
<1> HIDE DEF results, texts
<1>4. CASE new = c
  BY <1>4 DEF Rewritten
<1>5. CASE results # <<>> /\ new = mergeAttachmentsForToolResults(mid, c)
  <2>1. IsSeq(results) /\ \E p : Picks(results, c, ResultsAt(c), p)
    <3>1. ResultsAt(c) \subseteq 1 .. Len(c)
      BY DEF ResultsAt
    <3> QED
      BY <3>1, <1>1, <1>2, OnlyPicks
  <2>2. PICK p : Picks(results, c, ResultsAt(c), p)
    BY <2>1
  <2>3. /\ \A r \in 1 .. Len(results) : p[r] \in ResultsAt(c) /\ results[r] = c[p[r]]
        /\ \A i \in ResultsAt(c) : \E r \in 1 .. Len(results) : p[r] = i
    BY <2>2 DEF Picks
  <2>4. PICK Q : /\ Given(c, TextsAt(c), results, mid, Q)
                 /\ \A r \in 1 .. Len(results) : hasToolRef(mid[r]) <=> hasToolRef(results[r])
                 /\ \A j \in TextsAt(c) : \/ \E r \in 1 .. Len(results) : j \in Q[r]
                                          \/ \E r \in 1 .. Len(results) : hasToolRef(results[r])
                                          \/ results = <<>>
    BY <1>2, <2>1, <2>2, TextsMerged
  <2> HIDE DEF mid
  <2>5. PICK R : /\ Given(c, Beside(c), results, new, R)
                 /\ \A r \in 1 .. Len(results) : Q[r] \subseteq R[r]
                 /\ \A j \in AttachedAt(c) :
                      \/ \E r \in 1 .. Len(results) : j \in R[r]
                      \/ \A r \in 1 .. Len(results) : results[r].error \/ hasToolRef(results[r])
    BY <1>5, <2>1, <2>2, <2>4, FilesMerged
  <2>6. /\ Clean(new) /\ Answering(new, C) /\ ContentIds(new) \subseteq ContentIds(c)
        /\ \A i \in ResultsAt(c) : BlockIds(c[i]) \subseteq ContentIds(new)
        /\ \A r \in 1 .. Len(results) : \A j \in R[r] : BlockIds(c[j]) \subseteq ContentIds(new)
    BY <2>1, <2>2, <2>5, GivenAll
  <2>7. ASSUME NEW x \in ContentIds(c), x \notin Lost(c) PROVE x \in ContentIds(new)
    <3>1. PICK i \in 1 .. Len(c) : x \in BlockIds(c[i])
      BY DEF ContentIds
    <3>2. CASE i \in ResultsAt(c)
      BY <3>1, <3>2, <2>6
    <3>3. CASE i \in TextsAt(c)
      <4>1. x \in IdsAt(c, TextsAt(c))
        <5>1. x = c[i].id
          BY <3>1, <3>3 DEF TextsAt, BlockIds
        <5> QED
          BY <5>1, <3>3 DEF IdsAt
      <4>2. ~NamesTool(c)
        BY <4>1, <2>7 DEF Lost
      <4>3. \A r \in 1 .. Len(results) : ~hasToolRef(results[r])
        BY <4>2, <2>3 DEF NamesTool
      <4>4. PICK r \in 1 .. Len(results) : i \in Q[r]
        BY <4>3, <3>3, <2>4, <1>5
      <4>5. i \in R[r]
        BY <4>4, <2>5
      <4> QED
        BY <4>5, <3>1, <2>6
    <3>4. CASE i \in AttachedAt(c)
      <4>1. x \in IdsAt(c, AttachedAt(c))
        <5>1. x = c[i].id
          BY <3>1, <3>4 DEF AttachedAt, Attachments, BlockIds
        <5> QED
          BY <5>1, <3>4 DEF IdsAt
      <4>2. ~NoneTakes(c)
        BY <4>1, <2>7 DEF Lost
      <4>3. ~\A r \in 1 .. Len(results) : results[r].error \/ hasToolRef(results[r])
        <5>1. SUFFICES ASSUME \A r \in 1 .. Len(results) : results[r].error \/ hasToolRef(results[r])
                       PROVE  NoneTakes(c)
          BY <4>2
        <5>2. ASSUME NEW k \in ResultsAt(c) PROVE c[k].error \/ hasToolRef(c[k])
          <6>1. PICK r \in 1 .. Len(results) : p[r] = k
            BY <2>3
          <6> QED
            BY <6>1, <5>1, <2>3
        <5>3. ResultsAt(c) # {}
          <6>1. Len(results) # 0 /\ Len(results) \in Nat
            BY <1>5, <2>1, SeqFacts
          <6>2. 1 \in 1 .. Len(results)
            BY <6>1
          <6> QED
            BY <6>2, <2>3
        <5> QED
          BY <5>2, <5>3 DEF NoneTakes
      <4>4. PICK r \in 1 .. Len(results) : i \in R[r]
        BY <4>3, <3>4, <2>5
      <4> QED
        BY <4>4, <3>1, <2>6
    <3> QED
      BY <3>2, <3>3, <3>4, Kinds
  <2> QED
    BY <2>6, <2>7, <1>0 DEF Rewritten
<1> QED
  BY <1>3, <1>4, <1>5

\* What the property calls given up is at least what is lost, and the documents in chat.
LEMMA LostIsGivenUp ==
    ASSUME NEW api, NEW message, NEW c, c = message.content, Clean(c)
    PROVE  /\ Lost(c) \subseteq GivenUp(api, message)
           /\ api = "chat" => \A q \in Parts(c) : q.type = "document" => q.id \in GivenUp(api, message)
<1> DEFINE results == OfType(c, {"tool_result"})
           naming == {r \in DOMAIN results : hasToolRef(results[r])}
           failed == {r \in DOMAIN results : results[r].error}
<1>1. IsSeq(c) /\ Len(c) \in Nat /\ DOMAIN c = 1 .. Len(c)
  BY Kinds
<1>2. /\ results = Only(c, ResultsAt(c)) /\ OfType(c, {"text"}) = Only(c, TextsAt(c))
      /\ OfType(c, Attachments) = Only(c, AttachedAt(c))
  BY <1>1 DEF OfType, ResultsAt, TextsAt, AttachedAt
<1> DEFINE documents == IF api = "chat" THEN {p.id : p \in {q \in Parts(c) : q.type = "document"}} ELSE {}
<1>3. GivenUp(api, message) =
        (IF naming = {} THEN {} ELSE ToSet(Ids(OfType(c, {"text"}))))
        \cup (IF results # <<>> /\ naming \cup failed = DOMAIN results
                THEN ToSet(Ids(OfType(c, Attachments))) ELSE {})
        \cup documents
  BY DEF GivenUp
<1> HIDE DEF results
<1>0. api = "chat" => \A q \in Parts(c) : q.type = "document" => q.id \in documents
  OBVIOUS
<1> HIDE DEF documents
<1>4. IsSeq(results) /\ \E p : Picks(results, c, ResultsAt(c), p)
  <2>1. ResultsAt(c) \subseteq 1 .. Len(c)
    BY DEF ResultsAt
  <2> QED
    BY <2>1, <1>1, <1>2, OnlyPicks
<1>5. PICK p : Picks(results, c, ResultsAt(c), p)
  BY <1>4
<1>6. /\ \A r \in 1 .. Len(results) : p[r] \in ResultsAt(c) /\ results[r] = c[p[r]]
      /\ \A i \in ResultsAt(c) : \E r \in 1 .. Len(results) : p[r] = i
  BY <1>5 DEF Picks
<1>7. DOMAIN results = 1 .. Len(results) /\ Len(results) \in Nat /\ (results = <<>> <=> Len(results) = 0)
  BY <1>4, SeqFacts
<1>8. ToSet(Ids(OfType(c, {"text"}))) = IdsAt(c, TextsAt(c))
  <2> DEFINE J == TextsAt(c)
  <2>1. J \subseteq 1 .. Len(c) /\ \A j \in J : c[j].type # "tool_result"
    BY DEF TextsAt
  <2> HIDE DEF J
  <2>2. Plain(Only(c, J)) /\ PartIds(Only(c, J)) = IdsAt(c, J)
    BY <2>1, AsidesPlain
  <2>3. ToSet(Ids(Only(c, J))) = PartIds(Only(c, J))
    BY <2>2, PlainIds
  <2> QED
    BY <2>2, <2>3, <1>2 DEF J
<1>9. ToSet(Ids(OfType(c, Attachments))) = IdsAt(c, AttachedAt(c))
  <2> DEFINE J == AttachedAt(c)
  <2>1. J \subseteq 1 .. Len(c) /\ \A j \in J : c[j].type # "tool_result"
    BY DEF AttachedAt, Attachments
  <2> HIDE DEF J
  <2>2. Plain(Only(c, J)) /\ PartIds(Only(c, J)) = IdsAt(c, J)
    BY <2>1, AsidesPlain
  <2>3. ToSet(Ids(Only(c, J))) = PartIds(Only(c, J))
    BY <2>2, PlainIds
  <2> QED
    BY <2>2, <2>3, <1>2 DEF J
<1>10. NamesTool(c) => naming # {}
  BY <1>6, <1>7 DEF NamesTool
<1>11. NoneTakes(c) => results # <<>> /\ naming \cup failed = DOMAIN results
  <2>1. SUFFICES ASSUME NoneTakes(c) PROVE results # <<>> /\ naming \cup failed = DOMAIN results
    OBVIOUS
  <2>2. ResultsAt(c) # {} /\ \A i \in ResultsAt(c) : c[i].error \/ hasToolRef(c[i])
    BY <2>1 DEF NoneTakes
  <2>3. ASSUME NEW r \in DOMAIN results PROVE results[r].error \/ hasToolRef(results[r])
    <3>1. p[r] \in ResultsAt(c) /\ results[r] = c[p[r]]
      BY <1>6, <1>7
    <3> QED
      BY <2>2, <3>1
  <2>4. results # <<>>
    BY <2>2, <1>6, <1>7
  <2>5. naming \cup failed = DOMAIN results
    BY <2>3
  <2> QED
    BY <2>4, <2>5
<1> HIDE DEF naming, failed
<1>12. Lost(c) \subseteq GivenUp(api, message)
  BY <1>3, <1>8, <1>9, <1>10, <1>11 DEF Lost
<1> QED
  BY <1>0, <1>3, <1>12

LEMMA RewrittenOfItself ==
    ASSUME NEW c, Clean(c), NEW C, Answering(c, C) PROVE Rewritten(c, c, C)
  BY DEF Rewritten

LEMMA RewrittenTwice ==
    ASSUME NEW c, NEW mid, NEW new, NEW C, Rewritten(c, mid, C), Rewritten(mid, new, C),
           Lost(mid) \subseteq Lost(c)
    PROVE  Rewritten(c, new, C)
  BY DEF Rewritten

\* The boundary text of a turn is left out beside a result that names a tool.
LEMMA StripKeeps ==
    ASSUME NEW c, Clean(c), NEW C, Answering(c, C), NamesTool(c),
           NEW I, I = {i \in 1 .. Len(c) : c[i].type = "text" => c[i].says # "boundary"},
           NEW new, new = Only(c, I)
    PROVE  Rewritten(c, new, C) /\ Lost(new) \subseteq Lost(c)
<1>1. I \subseteq 1 .. Len(c) /\ ResultsAt(c) \subseteq I /\ \A i \in (1 .. Len(c)) \ I : i \in TextsAt(c)
  BY DEF ResultsAt, TextsAt
<1>2. /\ Clean(new) /\ Answering(new, C) /\ ContentIds(new) \subseteq ContentIds(c)
      /\ \A i \in I : BlockIds(c[i]) \subseteq ContentIds(new)
      /\ \A i \in ResultsAt(c) : \E k \in 1 .. Len(new) : new[k] = c[i]
      /\ \A k \in 1 .. Len(new) : \E i \in I : new[k] = c[i]
  <2>1. Clean(new) /\ Answering(new, C) /\ ContentIds(new) \subseteq ContentIds(c)
    BY <1>1, OnlyKeeps
  <2>2. \A i \in I : BlockIds(c[i]) \subseteq ContentIds(new)
    BY <1>1, OnlyKeeps
  <2>3. \A i \in ResultsAt(c) : \E k \in 1 .. Len(new) : new[k] = c[i]
    <3>1. HoldsAll(new, c, ResultsAt(c))
      BY <1>1, OnlyKeeps
    <3> QED
      BY <3>1 DEF HoldsAll
  <2>4. \A k \in 1 .. Len(new) : \E i \in I : new[k] = c[i]
    <3>1. HoldsOnly(new, c, I)
      BY <1>1, OnlyKeeps
    <3> QED
      BY <3>1 DEF HoldsOnly
  <2> QED
    BY <2>1, <2>2, <2>3, <2>4
<1>3. ASSUME NEW x \in ContentIds(c), x \notin Lost(c) PROVE x \in ContentIds(new)
  <2>1. PICK i \in 1 .. Len(c) : x \in BlockIds(c[i])
    BY DEF ContentIds
  <2>2. CASE i \in I
    BY <2>1, <2>2, <1>2
  <2>3. CASE i \in TextsAt(c)
    <3>1. x = c[i].id
      BY <2>1, <2>3 DEF TextsAt, BlockIds
    <3> QED
      BY <3>1, <2>3, <1>3 DEF Lost, IdsAt
  <2> QED
    BY <2>2, <2>3, <1>1
<1>4. NamesTool(new) => NamesTool(c)
  OBVIOUS
<1>5. IdsAt(new, TextsAt(new)) \subseteq IdsAt(c, TextsAt(c))
  <2>1. ASSUME NEW x \in IdsAt(new, TextsAt(new)) PROVE x \in IdsAt(c, TextsAt(c))
    <3>1. PICK k \in 1 .. Len(new) : new[k].type = "text" /\ x = new[k].id
      BY DEF IdsAt, TextsAt
    <3>2. PICK i \in I : new[k] = c[i]
      BY <1>2
    <3> QED
      BY <3>1, <3>2, <1>1 DEF IdsAt, TextsAt
  <2> QED
    BY <2>1
<1>6. IdsAt(new, AttachedAt(new)) \subseteq IdsAt(c, AttachedAt(c))
  <2>1. ASSUME NEW x \in IdsAt(new, AttachedAt(new)) PROVE x \in IdsAt(c, AttachedAt(c))
    <3>1. PICK k \in 1 .. Len(new) : new[k].type \in Attachments /\ x = new[k].id
      BY DEF IdsAt, AttachedAt
    <3>2. PICK i \in I : new[k] = c[i]
      BY <1>2
    <3> QED
      BY <3>1, <3>2, <1>1 DEF IdsAt, AttachedAt
  <2> QED
    BY <2>1
<1>7. NoneTakes(new) => NoneTakes(c)
  <2>1. SUFFICES ASSUME NoneTakes(new) PROVE NoneTakes(c)
    OBVIOUS
  <2>2. ASSUME NEW i \in ResultsAt(c) PROVE c[i].error \/ hasToolRef(c[i])
    <3>1. PICK k \in 1 .. Len(new) : new[k] = c[i]
      BY <1>2
    <3>2. k \in ResultsAt(new)
      BY <3>1 DEF ResultsAt
    <3> QED
      BY <3>1, <3>2, <2>1 DEF NoneTakes
  <2>3. ResultsAt(c) # {}
    BY DEF NamesTool
  <2> QED
    BY <2>2, <2>3 DEF NoneTakes
<1>8. Lost(new) \subseteq Lost(c)
  BY <1>5, <1>6, <1>7 DEF Lost
<1>9. Parts(new) \subseteq Parts(c)
  <2>1. ASSUME NEW q, q \in Parts(new) PROVE q \in Parts(c)
    <3>1. PartAt(new, q)
      BY <2>1, <1>2, PartsAre
    <3>2. PICK k \in 1 .. Len(new) :
            \/ new[k].type # "tool_result" /\ q = new[k]
            \/ new[k].type = "tool_result" /\ \E h \in 1 .. Len(new[k].content) : q = new[k].content[h]
      BY <3>1 DEF PartAt
    <3>3. PICK i \in 1 .. Len(c) : new[k] = c[i]
      BY <1>1, <1>2
    <3>4. PartAt(c, q)
      BY <3>2, <3>3 DEF PartAt
    <3> QED
      BY <3>4, PartsAre
  <2> QED
    BY <2>1
<1> QED
  BY <1>2, <1>3, <1>8, <1>9 DEF Rewritten

LEMMA WithContentIs ==
    ASSUME NEW form, NEW c, NEW new
    PROVE  WithContent(UserMessage(form, c), new) = UserMessage(form, new)
  BY DEF WithContent, UserMessage

LEMMA UserMessageIs ==
    ASSUME NEW form, NEW c
    PROVE  /\ UserMessage(form, c).role = "user" /\ UserMessage(form, c).form = form
           /\ UserMessage(form, c).content = c
  BY DEF UserMessage

LEMMA PreparedIs ==
    ASSUME NEW messages, IsSeq(messages), NEW system, NEW new, new = Prepared(messages, system)
    PROVE  /\ IsSeq(new) /\ Len(new) = Len(messages)
           /\ \A t \in 1 .. Len(messages) : messages[t].role # "user" => new[t] = messages[t]
           /\ \A t \in 1 .. Len(messages) : \A form, c, C :
                messages[t] = UserMessage(form, c) /\ Clean(c) /\ Answering(c, C) =>
                  \E d : new[t] = UserMessage(form, d) /\ Rewritten(c, d, C)
<1> DEFINE mid == stripToolReferenceTurnBoundary(messages)
           skip == IsCompactRequest(messages, system)
           n == Len(messages)
<1>1. DOMAIN messages = 1 .. n /\ n \in Nat
  BY SeqFacts
<1>2. mid = [m \in 1 .. n |->
               IF IsList(messages[m])
                    /\ \E i \in DOMAIN messages[m].content :
                         /\ messages[m].content[i].type = "tool_result"
                         /\ hasToolRef(messages[m].content[i])
                 THEN WithContent(messages[m],
                        Only(messages[m].content,
                             {i \in DOMAIN messages[m].content :
                                messages[m].content[i].type = "text"
                                  => messages[m].content[i].says # "boundary"}))
                 ELSE messages[m]]
  BY <1>1 DEF stripToolReferenceTurnBoundary
<1>3. DOMAIN mid = 1 .. n /\ Len(mid) = n
  BY <1>1, <1>2, FunIsSeq
<1>4. new = [m \in 1 .. n |->
               IF IsList(mid[m]) /\ ~(skip /\ m = n)
                 THEN WithContent(mid[m], mergeUserMessageContent(mid[m].content))
                 ELSE mid[m]]
  BY <1>3 DEF Prepared, mergeToolResultForClaude
<1>5. IsSeq(new) /\ Len(new) = n
  BY <1>1, <1>4, FunIsSeq
<1> HIDE DEF mid, skip, n
<1>6. ASSUME NEW t \in 1 .. n, messages[t].role # "user" PROVE new[t] = messages[t]
  <2>1. mid[t] = messages[t]
    BY <1>2, <1>6 DEF IsList
  <2> QED
    BY <2>1, <1>4, <1>6 DEF IsList
<1>7. ASSUME NEW t \in 1 .. n, NEW form, NEW c, NEW C, messages[t] = UserMessage(form, c),
             Clean(c), Answering(c, C)
      PROVE  \E d : new[t] = UserMessage(form, d) /\ Rewritten(c, d, C)
  <2>1. DOMAIN c = 1 .. Len(c)
    BY <1>7, Kinds
  <2>2. PICK d : mid[t] = UserMessage(form, d) /\ Rewritten(c, d, C) /\ Lost(d) \subseteq Lost(c)
    <3>1. CASE mid[t] = messages[t]
      BY <3>1, <1>7, RewrittenOfItself
    <3>2. CASE mid[t] # messages[t]
      <4> DEFINE I == {i \in 1 .. Len(c) : c[i].type = "text" => c[i].says # "boundary"}
      <4>1. messages[t].content = c
        BY <1>7, UserMessageIs
      <4>2. /\ \E i \in DOMAIN c : c[i].type = "tool_result" /\ hasToolRef(c[i])
            /\ mid[t] = WithContent(messages[t],
                          Only(c, {i \in DOMAIN c : c[i].type = "text" => c[i].says # "boundary"}))
        BY <1>2, <3>2, <4>1
      <4>3. NamesTool(c)
        BY <4>2, <2>1 DEF NamesTool, ResultsAt
      <4>4. mid[t] = UserMessage(form, Only(c, I))
        BY <4>2, <2>1, <1>7, WithContentIs
      <4>5. Rewritten(c, Only(c, I), C) /\ Lost(Only(c, I)) \subseteq Lost(c)
        <5> DEFINE J == I
        <5>1. J = {i \in 1 .. Len(c) : c[i].type = "text" => c[i].says # "boundary"}
          OBVIOUS
        <5> HIDE DEF I, J
        <5>2. Rewritten(c, Only(c, J), C) /\ Lost(Only(c, J)) \subseteq Lost(c)
          BY <5>1, <4>3, <1>7, StripKeeps
        <5> QED
          BY <5>2 DEF J
      <4> QED
        BY <4>4, <4>5
    <3> QED
      BY <3>1, <3>2
  <2>3. mid[t].content = d /\ Clean(d) /\ Answering(d, C)
    BY <2>2, UserMessageIs DEF Rewritten
  <2>4. CASE new[t] = mid[t]
    BY <2>2, <2>4
  <2>5. CASE new[t] = WithContent(mid[t], mergeUserMessageContent(mid[t].content))
    <3>1. new[t] = UserMessage(form, mergeUserMessageContent(d))
      BY <2>2, <2>3, <2>5, WithContentIs
    <3>2. Rewritten(d, mergeUserMessageContent(d), C)
      BY <2>3, MergeKeeps
    <3> QED
      BY <3>1, <3>2, <2>2, RewrittenTwice
  <2> QED
    BY <2>4, <2>5, <1>4
<1> QED
  BY <1>5, <1>6, <1>7 DEF n

-----------------------------------------------------------------------------
(* A payload is made of pieces, one for each message                       *)

Holds(e, kind, call) == \E l \in 1 .. Len(e) : e[l].kind = kind /\ e[l].call = call

\* The piece of a user message: results for all that was asked, then words, holding `ids`.
UserPiece(api, piece, asked, ids) ==
  /\ IsSeq(piece)
  /\ \A k \in 1 .. Len(piece) :
       /\ piece[k].role # "assistant"
       /\ IsSeq(ElementEvents(api, piece[k])) /\ IsSeq(ElementIds(api, piece[k]))
       /\ IsInjective(ElementIds(api, piece[k])) /\ ToSet(ElementIds(api, piece[k])) \subseteq ids
  /\ \A k, h \in 1 .. Len(piece) : \A x \in ToSet(ElementIds(api, piece[k])) :
       x \in ToSet(ElementIds(api, piece[h])) => k = h
  /\ \A x \in ids : \E k \in 1 .. Len(piece) : x \in ToSet(ElementIds(api, piece[k]))
  /\ \A k \in 1 .. Len(piece) : \A l \in 1 .. Len(ElementEvents(api, piece[k])) :
       /\ ElementEvents(api, piece[k])[l].kind \in {"result", "word"}
       /\ ElementEvents(api, piece[k])[l].kind = "result"
            => ElementEvents(api, piece[k])[l].call \in asked
  /\ \A k, h \in 1 .. Len(piece) :
       \A l \in 1 .. Len(ElementEvents(api, piece[k])), g \in 1 .. Len(ElementEvents(api, piece[h])) :
         ElementEvents(api, piece[k])[l].kind = "result" =>
           /\ /\ ElementEvents(api, piece[h])[g].kind = "result"
              /\ ElementEvents(api, piece[h])[g].call = ElementEvents(api, piece[k])[l].call
              => k = h /\ l = g
           /\ ElementEvents(api, piece[h])[g].kind = "word" => k < h \/ (k = h /\ l < g)
  /\ \A call \in asked : \E k \in 1 .. Len(piece) :
       Holds(ElementEvents(api, piece[k]), "result", call)

\* The piece of an assistant message: the calls `own`, and things said.
AssistantPiece(api, piece, own) ==
  /\ IsSeq(piece)
  /\ \A k \in 1 .. Len(piece) : piece[k].role = "assistant" /\ IsSeq(ElementEvents(api, piece[k]))
  /\ \A k \in 1 .. Len(piece) : \A l \in 1 .. Len(ElementEvents(api, piece[k])) :
       /\ ElementEvents(api, piece[k])[l].kind \in {"call", "said"}
       /\ ElementEvents(api, piece[k])[l].kind = "call"
            => ElementEvents(api, piece[k])[l].call \in own
  /\ \A call \in own : \E k \in 1 .. Len(piece) :
       Holds(ElementEvents(api, piece[k]), "call", call)

Asked(calls, t) == IF t = 1 THEN {} ELSE calls[t - 1]

\* Pieces of N messages, those of the user at U.
Fits(api, pieces, N, U, calls, ids) ==
  /\ N \in Nat /\ U \subseteq 1 .. N
  /\ \A t \in U : calls[t] = {} /\ UserPiece(api, pieces[t], Asked(calls, t), ids[t])
  /\ \A t \in (1 .. N) \ U : t + 1 \in U /\ AssistantPiece(api, pieces[t], calls[t])
  /\ \A m, n \in 1 .. N : \A c \in calls[m] : c \in calls[n] => m = n
  /\ \A m, n \in U : \A x \in ids[m] : x \in ids[n] => m = n

\* The payload is what the pieces hold from place `at` of piece `first` on.
Window(payload, pieces, N, first, at, from, col) ==
  /\ IsSeq(payload) /\ N \in Nat /\ first \in Nat /\ first >= 1
  /\ from \in [1 .. Len(payload) -> first .. N] /\ col \in [1 .. Len(payload) -> Nat]
  /\ \A i \in 1 .. Len(payload) :
       col[i] \in 1 .. Len(pieces[from[i]]) /\ payload[i] = pieces[from[i]][col[i]]
  /\ \A i, j \in 1 .. Len(payload) :
       i < j <=> from[i] < from[j] \/ (from[i] = from[j] /\ col[i] < col[j])
  /\ \A t \in first .. N : \A k \in 1 .. Len(pieces[t]) :
       t > first \/ k >= at => \E i \in 1 .. Len(payload) : from[i] = t /\ col[i] = k

\* What is cut off holds no call of the piece it is cut from.
CutAt(api, pieces, U, first, at) ==
  \/ first = 1 /\ at = 1
  \/ /\ first \notin U /\ at \in Nat
     /\ \A k \in 1 .. Len(pieces[first]) : k < at =>
          \A l \in 1 .. Len(ElementEvents(api, pieces[first][k])) :
            ElementEvents(api, pieces[first][k])[l].kind # "call"

LEMMA PiecesOrderly ==
    ASSUME NEW api, NEW payload, NEW pieces, NEW N, NEW U, NEW calls, NEW ids,
           Fits(api, pieces, N, U, calls, ids),
           NEW first, NEW at, NEW from, NEW col, Window(payload, pieces, N, first, at, from, col),
           CutAt(api, pieces, U, first, at),
           NEW ev, ev = [i \in 1 .. Len(payload) |-> ElementEvents(api, payload[i])]
    PROVE  Orderly(ev, from, calls, N) /\ \A i \in 1 .. Len(payload) : IsSeq(ElementEvents(api, payload[i]))
<1> DEFINE L == Len(ev)
           E(t, k) == ElementEvents(api, pieces[t][k])
<1>0. L = Len(payload) /\ L \in Nat /\ \A i \in 1 .. L : ev[i] = ElementEvents(api, payload[i])
  <2>1. Len(payload) \in Nat
    BY SeqFacts DEF Window
  <2> QED
    BY <2>1, FunIsSeq
<1> HIDE DEF L
<1>1. /\ L \in Nat /\ N \in Nat /\ first \in Nat /\ first >= 1
      /\ from \in [1 .. L -> first .. N] /\ col \in [1 .. L -> Nat]
      /\ \A i \in 1 .. L : col[i] \in 1 .. Len(pieces[from[i]]) /\ payload[i] = pieces[from[i]][col[i]]
      /\ \A i, j \in 1 .. L :
           i < j <=> from[i] < from[j] \/ (from[i] = from[j] /\ col[i] < col[j])
      /\ \A t \in first .. N : \A k \in 1 .. Len(pieces[t]) :
           t > first \/ k >= at => \E i \in 1 .. L : from[i] = t /\ col[i] = k
  BY <1>0 DEF Window
<1>1a. N \in Nat /\ first \in Nat /\ first >= 1
  BY <1>1
<1>1b. \A t \in first .. N : \A k \in 1 .. Len(pieces[t]) :
         t > first \/ k >= at => \E i \in 1 .. L : from[i] = t /\ col[i] = k
  BY <1>1
<1>2. \A i \in 1 .. L : ev[i] = ElementEvents(api, payload[i])
  BY <1>0
<1>3. \A i \in 1 .. L : from[i] \in 1 .. N /\ from[i] \in first .. N /\ ev[i] = E(from[i], col[i])
  BY <1>1, <1>2
<1>3a. ASSUME NEW i \in 1 .. L PROVE \E t \in 1 .. N : t = from[i] /\ t >= first
  <2>1. from[i] \in first .. N
    BY <1>3
  <2>2. PICK t \in first .. N : t = from[i]
    BY <2>1
  <2> QED
    BY <2>2, <1>1
<1>4. /\ U \subseteq 1 .. N
      /\ \A t \in U : calls[t] = {} /\ UserPiece(api, pieces[t], Asked(calls, t), ids[t])
      /\ \A t \in (1 .. N) \ U : t + 1 \in U /\ AssistantPiece(api, pieces[t], calls[t])
      /\ \A m, n \in 1 .. N : \A c \in calls[m] : c \in calls[n] => m = n
  BY DEF Fits
<1>5. ASSUME NEW t \in U
      PROVE  /\ \A k \in 1 .. Len(pieces[t]) : IsSeq(E(t, k))
             /\ \A k \in 1 .. Len(pieces[t]) : \A l \in 1 .. Len(E(t, k)) :
                  /\ E(t, k)[l].kind \in {"result", "word"}
                  /\ E(t, k)[l].kind = "result" => E(t, k)[l].call \in Asked(calls, t)
             /\ \A k, h \in 1 .. Len(pieces[t]) : \A l \in 1 .. Len(E(t, k)), g \in 1 .. Len(E(t, h)) :
                  E(t, k)[l].kind = "result" =>
                    /\ E(t, h)[g].kind = "result" /\ E(t, h)[g].call = E(t, k)[l].call => k = h /\ l = g
                    /\ E(t, h)[g].kind = "word" => k < h \/ (k = h /\ l < g)
             /\ \A call \in Asked(calls, t) : \E k \in 1 .. Len(pieces[t]) : Holds(E(t, k), "result", call)
  BY <1>4 DEF UserPiece
<1>6. ASSUME NEW t \in (1 .. N) \ U
      PROVE  /\ \A k \in 1 .. Len(pieces[t]) : IsSeq(E(t, k))
             /\ \A k \in 1 .. Len(pieces[t]) : \A l \in 1 .. Len(E(t, k)) :
                  /\ E(t, k)[l].kind \in {"call", "said"}
                  /\ E(t, k)[l].kind = "call" => E(t, k)[l].call \in calls[t]
             /\ \A call \in calls[t] : \E k \in 1 .. Len(pieces[t]) : Holds(E(t, k), "call", call)
  BY <1>4 DEF AssistantPiece
<1> HIDE DEF E
<1>7. \A i, j \in 1 .. L : i < j => from[i] <= from[j]
  BY <1>1, <1>3
<1>8. ASSUME NEW i \in 1 .. L, NEW l \in 1 .. Len(ev[i])
      PROVE  /\ ev[i][l].kind = "call" => ev[i][l].call \in calls[from[i]] /\ from[i] \notin U
             /\ ev[i][l].kind = "result" =>
                  from[i] > 1 /\ ev[i][l].call \in calls[from[i] - 1] /\ from[i] \in U
             /\ ev[i][l].kind = "word" => calls[from[i]] = {} /\ from[i] \in U
  <2>1. PICK t \in 1 .. N : t = from[i]
    BY <1>3
  <2>2. PICK k \in 1 .. Len(pieces[t]) : k = col[i]
    BY <1>1, <2>1
  <2>3. ev[i] = E(t, k)
    BY <1>3, <2>1, <2>2
  <2>4. CASE t \in U
    <3>1. /\ ev[i][l].kind \in {"result", "word"}
          /\ ev[i][l].kind = "result" => ev[i][l].call \in Asked(calls, t)
      BY <1>5, <2>3, <2>4
    <3>2. ev[i][l].kind = "result" => t # 1 /\ ev[i][l].call \in calls[t - 1]
      BY <3>1 DEF Asked
    <3> QED
      BY <3>1, <3>2, <2>1, <2>4, <1>4
  <2>5. CASE t \notin U
    <3>1. l \in 1 .. Len(E(t, k)) /\ t \in (1 .. N) \ U
      BY <2>3, <2>5
    <3>2. /\ E(t, k)[l].kind \in {"call", "said"}
          /\ E(t, k)[l].kind = "call" => E(t, k)[l].call \in calls[t]
      BY <3>1, <1>6
    <3>3. /\ ev[i][l].kind \in {"call", "said"}
          /\ ev[i][l].kind = "call" => ev[i][l].call \in calls[t]
      BY <3>2, <2>3
    <3> QED
      BY <3>3, <2>1, <2>5
  <2> QED
    BY <2>4, <2>5
<1> DEFINE Alone(i, l, j, h) ==
             /\ ev[j][h].kind = "result" /\ ev[j][h].call = ev[i][l].call => i = j /\ l = h
             /\ ev[j][h].kind = "word" => i < j \/ (i = j /\ l < h)
<1>9. ASSUME NEW i \in 1 .. L, NEW j \in 1 .. L, NEW l \in 1 .. Len(ev[i]), NEW h \in 1 .. Len(ev[j]),
             ev[i][l].kind = "result", from[i] = from[j]
      PROVE  Alone(i, l, j, h)
  <2>1. PICK t \in U : t = from[i] /\ t = from[j]
    BY <1>8, <1>9
  <2>2. PICK k \in 1 .. Len(pieces[t]), g \in 1 .. Len(pieces[t]) : k = col[i] /\ g = col[j]
    BY <1>1, <2>1
  <2>3. ev[i] = E(t, k) /\ ev[j] = E(t, g)
    BY <1>3, <2>1, <2>2
  <2>4. /\ ev[j][h].kind = "result" /\ ev[j][h].call = ev[i][l].call => k = g /\ l = h
        /\ ev[j][h].kind = "word" => k < g \/ (k = g /\ l < h)
    <3>1. l \in 1 .. Len(E(t, k)) /\ h \in 1 .. Len(E(t, g)) /\ E(t, k)[l].kind = "result"
      BY <1>9, <2>3
    <3>2. \A x \in 1 .. Len(E(t, k)), y \in 1 .. Len(E(t, g)) :
            E(t, k)[x].kind = "result" =>
              /\ E(t, g)[y].kind = "result" /\ E(t, g)[y].call = E(t, k)[x].call => k = g /\ x = y
              /\ E(t, g)[y].kind = "word" => k < g \/ (k = g /\ x < y)
      BY <1>5
    <3>3. /\ E(t, g)[h].kind = "result" /\ E(t, g)[h].call = E(t, k)[l].call => k = g /\ l = h
          /\ E(t, g)[h].kind = "word" => k < g \/ (k = g /\ l < h)
      BY <3>1, <3>2
    <3> QED
      BY <2>3, <3>3
  <2>5. k = g => i = j
    <3>1. SUFFICES ASSUME k = g PROVE i = j
      OBVIOUS
    <3>2. ~(i < j) /\ ~(j < i)
      <4>1. col[i] = col[j] /\ from[i] = from[j] /\ col[i] \in Nat /\ from[i] \in Nat
        BY <1>1, <1>3, <1>9, <2>2, <3>1
      <4> QED
        BY <4>1, <1>1
    <3> QED
      BY <3>2, <1>1
  <2>6. k < g => i < j
    BY <1>1, <1>9, <2>2
  <2> QED
    BY <2>4, <2>5, <2>6
<1>10. ASSUME NEW i \in 1 .. L, NEW l \in 1 .. Len(ev[i]), ev[i][l].kind = "call"
       PROVE  \E j \in 1 .. L : Holds(ev[j], "result", ev[i][l].call)
  <2>0. ev[i][l].call \in calls[from[i]] /\ from[i] \notin U
    BY <1>8, <1>10
  <2>1. PICK t \in (1 .. N) \ U : t = from[i] /\ ev[i][l].call \in calls[t] /\ t >= first
    BY <1>3a, <2>0
  <2>2. t + 1 \in U /\ t + 1 # 1 /\ t + 1 > first /\ t + 1 \in first .. N /\ (t + 1) - 1 = t
    <3>1. t + 1 \in U /\ t + 1 \in 1 .. N
      BY <1>4
    <3>2. t \in Nat /\ t >= first
      BY <1>1a, <2>1
    <3> QED
      BY <1>1a, <3>1, <3>2
  <2>3. ev[i][l].call \in Asked(calls, t + 1)
    BY <2>1, <2>2 DEF Asked
  <2>4. PICK k \in 1 .. Len(pieces[t + 1]) : Holds(E(t + 1, k), "result", ev[i][l].call)
    BY <1>5, <2>2, <2>3
  <2>5. PICK j \in 1 .. L : from[j] = t + 1 /\ col[j] = k
    BY <1>1b, <2>2
  <2>6. ev[j] = E(t + 1, k)
    BY <1>3, <2>5
  <2> QED
    BY <2>4, <2>6
<1>11. ASSUME NEW i \in 1 .. L, NEW l \in 1 .. Len(ev[i]), ev[i][l].kind = "result"
       PROVE  \E j \in 1 .. L : Holds(ev[j], "call", ev[i][l].call)
  <2>0. from[i] > 1 /\ ev[i][l].call \in calls[from[i] - 1] /\ from[i] \in U
    BY <1>8, <1>11
  <2>1. PICK t \in U : t = from[i] /\ t > 1 /\ ev[i][l].call \in calls[t - 1] /\ t >= first
    BY <1>3a, <2>0
  <2>2a. t \in 1 .. N
    BY <1>4
  <2>2. t - 1 \in 1 .. N /\ t - 1 \notin U
    <3>1. t \in 1 .. N /\ t - 1 \in 1 .. N
      BY <1>1a, <2>1, <2>2a
    <3>2. calls[t - 1] # {} /\ \A u \in U : calls[u] = {}
      BY <1>4, <2>1
    <3> QED
      BY <3>1, <3>2
  <2>3. PICK k \in 1 .. Len(pieces[t - 1]) : Holds(E(t - 1, k), "call", ev[i][l].call)
    BY <1>6, <2>1, <2>2
  <2>4. t - 1 \in first .. N /\ (t - 1 > first \/ k >= at)
    <3>1. CASE first = 1 /\ at = 1
      BY <3>1, <1>1a, <2>1, <2>2
    <3>2. CASE first # 1 \/ at # 1
      <4>1. /\ first \notin U /\ at \in Nat
            /\ \A n \in 1 .. Len(pieces[first]) : n < at =>
                 \A g \in 1 .. Len(E(first, n)) : E(first, n)[g].kind # "call"
        BY <3>2 DEF CutAt, E
      <4>2. t - 1 >= first
        <5>1. t # first
          BY <4>1, <2>1
        <5>2. t \in Nat /\ first \in Nat /\ t >= first
          BY <1>1a, <2>1, <2>2a
        <5> QED
          BY ONLY <5>1, <5>2
      <4>3. ASSUME t - 1 = first, k < at PROVE FALSE
        <5>1. PICK g \in 1 .. Len(E(t - 1, k)) : E(t - 1, k)[g].kind = "call"
          BY <2>3 DEF Holds
        <5>2. /\ k \in 1 .. Len(pieces[first])
              /\ g \in 1 .. Len(E(first, k)) /\ E(first, k)[g].kind = "call"
          BY <4>3, <2>3, <5>1
        <5> QED
          BY <4>1, <4>3, <5>2
      <4> QED
        BY <4>1, <4>2, <4>3, <1>1a, <2>2
    <3> QED
      BY <3>1, <3>2
  <2>5. PICK j \in 1 .. L : from[j] = t - 1 /\ col[j] = k
    BY <1>1b, <2>4
  <2>6. ev[j] = E(t - 1, k)
    BY <1>3, <2>5
  <2> QED
    BY <2>3, <2>6
<1>12. ASSUME NEW i \in 1 .. L, NEW j \in 1 .. L, NEW l \in 1 .. Len(ev[i]), NEW h \in 1 .. Len(ev[j]),
              ev[i][l].kind = "result", ev[j][h].kind = "result", ev[j][h].call = ev[i][l].call
       PROVE  from[i] = from[j]
  <2>0. /\ from[i] > 1 /\ ev[i][l].call \in calls[from[i] - 1]
        /\ from[j] > 1 /\ ev[j][h].call \in calls[from[j] - 1]
    BY <1>8, <1>12
  <2>1. /\ from[i] > 1 /\ ev[i][l].call \in calls[from[i] - 1] /\ from[i] \in 1 .. N
        /\ from[j] > 1 /\ ev[i][l].call \in calls[from[j] - 1] /\ from[j] \in 1 .. N
    BY <1>3, <1>12, <2>0
  <2>2. PICK t \in 1 .. N, s \in 1 .. N : t = from[i] /\ s = from[j]
    BY <2>1
  <2>3. t - 1 \in 1 .. N /\ s - 1 \in 1 .. N /\ ev[i][l].call \in calls[t - 1] /\ ev[i][l].call \in calls[s - 1]
    <3>1. t > 1 /\ s > 1 /\ ev[i][l].call \in calls[t - 1] /\ ev[i][l].call \in calls[s - 1]
      BY <2>1, <2>2
    <3>2. t - 1 \in 1 .. N /\ s - 1 \in 1 .. N
      BY <1>1, <3>1
    <3> QED
      BY <3>1, <3>2
  <2>4. t - 1 = s - 1
    BY <1>4, <2>3
  <2> QED
    BY <2>2, <2>4
<1>13. \A i, j \in 1 .. L : \A l \in 1 .. Len(ev[i]), h \in 1 .. Len(ev[j]) :
       ev[i][l].kind = "result" =>
         /\ ev[j][h].kind = "result" /\ ev[j][h].call = ev[i][l].call => i = j /\ l = h
         /\ ev[j][h].kind = "word" /\ from[j] = from[i] => i < j \/ (i = j /\ l < h)
  <2>1. ASSUME NEW i \in 1 .. L, NEW j \in 1 .. L, NEW l \in 1 .. Len(ev[i]), NEW h \in 1 .. Len(ev[j]),
               ev[i][l].kind = "result"
        PROVE  /\ ev[j][h].kind = "result" /\ ev[j][h].call = ev[i][l].call => i = j /\ l = h
               /\ ev[j][h].kind = "word" /\ from[j] = from[i] => i < j \/ (i = j /\ l < h)
    <3>1. CASE from[i] = from[j]
      <4>1. Alone(i, l, j, h)
        <5> HIDE DEF Alone
        <5> QED
          BY <1>9, <2>1, <3>1
      <4> QED
        BY <4>1
    <3>2. CASE from[i] # from[j]
      BY <3>2, <2>1, <1>12
    <3> QED
      BY <3>1, <3>2
  <2> QED
    BY <2>1
<1>14. \A i \in 1 .. L : \A l \in 1 .. Len(ev[i]) : ev[i][l].kind \in {"call", "result"} =>
         \E j \in 1 .. L : \E h \in 1 .. Len(ev[j]) :
           /\ ev[j][h].kind = IF ev[i][l].kind = "call" THEN "result" ELSE "call"
           /\ ev[j][h].call = ev[i][l].call
  <2>1. ASSUME NEW i \in 1 .. L, NEW l \in 1 .. Len(ev[i]), ev[i][l].kind \in {"call", "result"}
        PROVE  \E j \in 1 .. L : \E h \in 1 .. Len(ev[j]) :
                 /\ ev[j][h].kind = IF ev[i][l].kind = "call" THEN "result" ELSE "call"
                 /\ ev[j][h].call = ev[i][l].call
    <3>1. CASE ev[i][l].kind = "call"
      <4>1. PICK j \in 1 .. L : Holds(ev[j], "result", ev[i][l].call)
        BY <3>1, <1>10
      <4>2. PICK h \in 1 .. Len(ev[j]) : ev[j][h].kind = "result" /\ ev[j][h].call = ev[i][l].call
        BY <4>1 DEF Holds
      <4> QED
        BY <3>1, <4>2
    <3>2. CASE ev[i][l].kind = "result"
      <4>1. PICK j \in 1 .. L : Holds(ev[j], "call", ev[i][l].call)
        BY <3>2, <1>11
      <4>2. PICK h \in 1 .. Len(ev[j]) : ev[j][h].kind = "call" /\ ev[j][h].call = ev[i][l].call
        BY <4>1 DEF Holds
      <4> QED
        BY <3>2, <4>2
    <3> QED
      BY <2>1, <3>1, <3>2
  <2> QED
    BY <2>1
<1>15. from \in [1 .. Len(ev) -> 1 .. N]
  BY <1>1, <1>3 DEF L
<1>16. \A i \in 1 .. L : \A l \in 1 .. Len(ev[i]) :
       /\ ev[i][l].kind = "call" => ev[i][l].call \in calls[from[i]]
       /\ ev[i][l].kind = "result" => from[i] > 1 /\ ev[i][l].call \in calls[from[i] - 1]
       /\ ev[i][l].kind = "word" => calls[from[i]] = {}
  BY <1>8
<1>17. Orderly(ev, from, calls, N)
  <2>1. N \in Nat /\ \A m, n \in 1 .. N : \A c \in calls[m] : c \in calls[n] => m = n
    BY <1>1, <1>4
  <2> QED
    BY ONLY <2>1, <1>7, <1>13, <1>14, <1>15, <1>16 DEF Orderly, L
<1>18. ASSUME NEW i \in 1 .. L PROVE IsSeq(ElementEvents(api, payload[i]))
  <2>1. PICK t \in 1 .. N : t = from[i]
    BY <1>3
  <2>2. PICK k \in 1 .. Len(pieces[t]) : k = col[i]
    BY <1>1, <2>1
  <2>3. ElementEvents(api, payload[i]) = E(t, k)
    BY <1>2, <1>3, <2>1, <2>2
  <2> QED
    BY <1>5, <1>6, <2>3
<1> QED
  BY <1>0, <1>17, <1>18

LEMMA PiecesArrive ==
    ASSUME NEW api, NEW payload, NEW pieces, NEW N, NEW U, NEW calls, NEW ids,
           Fits(api, pieces, N, U, calls, ids),
           NEW first, NEW at, NEW from, NEW col, Window(payload, pieces, N, first, at, from, col)
    PROVE  /\ IsInjective(ArrivedIds(api, payload))
           /\ \A t \in U : t > first \/ (t = first /\ at = 1) =>
                ids[t] \subseteq ToSet(ArrivedIds(api, payload))
<1> DEFINE L == Len(payload)
           I(t, k) == ElementIds(api, pieces[t][k])
           V == {i \in 1 .. L : payload[i].role # "assistant"}
<1>1. /\ IsSeq(payload) /\ L \in Nat /\ N \in Nat /\ first \in Nat /\ first >= 1
      /\ from \in [1 .. L -> first .. N] /\ col \in [1 .. L -> Nat]
      /\ \A i \in 1 .. L : col[i] \in 1 .. Len(pieces[from[i]]) /\ payload[i] = pieces[from[i]][col[i]]
      /\ \A i, j \in 1 .. L :
           i < j <=> from[i] < from[j] \/ (from[i] = from[j] /\ col[i] < col[j])
      /\ \A t \in first .. N : \A k \in 1 .. Len(pieces[t]) :
           t > first \/ k >= at => \E i \in 1 .. L : from[i] = t /\ col[i] = k
  BY SeqFacts DEF Window
<1> HIDE DEF L, V
<1>2. ASSUME NEW i \in 1 .. L PROVE \E t \in 1 .. N : t = from[i] /\ t >= first
  <2>1. from[i] \in first .. N
    BY <1>1
  <2>2. PICK t \in first .. N : t = from[i]
    BY <2>1
  <2> QED
    BY <2>2, <1>1
<1>3. /\ U \subseteq 1 .. N
      /\ \A t \in U : UserPiece(api, pieces[t], Asked(calls, t), ids[t])
      /\ \A t \in (1 .. N) \ U : AssistantPiece(api, pieces[t], calls[t])
      /\ \A m, n \in U : \A x \in ids[m] : x \in ids[n] => m = n
  BY DEF Fits
<1>4. ASSUME NEW t \in U
      PROVE  /\ \A k \in 1 .. Len(pieces[t]) :
                  /\ pieces[t][k].role # "assistant"
                  /\ IsSeq(I(t, k)) /\ IsInjective(I(t, k)) /\ ToSet(I(t, k)) \subseteq ids[t]
             /\ \A k, h \in 1 .. Len(pieces[t]) : \A x \in ToSet(I(t, k)) : x \in ToSet(I(t, h)) => k = h
             /\ \A x \in ids[t] : \E k \in 1 .. Len(pieces[t]) : x \in ToSet(I(t, k))
             /\ IsSeq(pieces[t])
  BY <1>3 DEF UserPiece
<1>5. ASSUME NEW t \in (1 .. N) \ U, NEW k \in 1 .. Len(pieces[t])
      PROVE  pieces[t][k].role = "assistant"
  BY <1>3 DEF AssistantPiece
<1> HIDE DEF I
<1>6. ASSUME NEW i \in V
      PROVE  \E t \in U : \E k \in 1 .. Len(pieces[t]) :
               i \in 1 .. L /\ t = from[i] /\ k = col[i] /\ ElementIds(api, payload[i]) = I(t, k)
  <2>1. i \in 1 .. L /\ payload[i].role # "assistant"
    BY DEF V
  <2>2. PICK t \in 1 .. N : t = from[i]
    BY <2>1, <1>2
  <2>3. PICK k \in 1 .. Len(pieces[t]) : k = col[i]
    BY <2>1, <2>2, <1>1
  <2>4. payload[i] = pieces[t][k]
    BY <2>1, <2>2, <2>3, <1>1
  <2>5. t \in U
    BY <2>1, <2>4, <1>5
  <2> QED
    BY <2>1, <2>2, <2>3, <2>4, <2>5 DEF I
<1>7. ASSUME NEW i \in V
      PROVE  /\ IsSeq(ElementIds(api, payload[i])) /\ IsInjective(ElementIds(api, payload[i]))
             /\ from[i] \in U /\ ToSet(ElementIds(api, payload[i])) \subseteq ids[from[i]]
  <2>1. PICK t \in U : \E k \in 1 .. Len(pieces[t]) :
               i \in 1 .. L /\ t = from[i] /\ k = col[i] /\ ElementIds(api, payload[i]) = I(t, k)
    BY <1>6
  <2>2. PICK k \in 1 .. Len(pieces[t]) : t = from[i] /\ ElementIds(api, payload[i]) = I(t, k)
    BY <2>1
  <2>3. IsSeq(I(t, k)) /\ IsInjective(I(t, k)) /\ ToSet(I(t, k)) \subseteq ids[t]
    BY <1>4
  <2> QED
    BY <2>2, <2>3
<1>8. ASSUME NEW i \in V, NEW j \in V, NEW x \in ToSet(ElementIds(api, payload[i])),
             x \in ToSet(ElementIds(api, payload[j]))
      PROVE  i = j
  <2>1. from[i] = from[j]
    BY <1>3, <1>7, <1>8
  <2>2. PICK t \in U : \E k \in 1 .. Len(pieces[t]) :
               i \in 1 .. L /\ t = from[i] /\ k = col[i] /\ ElementIds(api, payload[i]) = I(t, k)
    BY <1>6
  <2>3. PICK k \in 1 .. Len(pieces[t]) :
               i \in 1 .. L /\ t = from[i] /\ k = col[i] /\ ElementIds(api, payload[i]) = I(t, k)
    BY <2>2
  <2>4. PICK s \in U : \E h \in 1 .. Len(pieces[s]) :
               j \in 1 .. L /\ s = from[j] /\ h = col[j] /\ ElementIds(api, payload[j]) = I(s, h)
    BY <1>6
  <2>5. PICK h \in 1 .. Len(pieces[s]) :
               j \in 1 .. L /\ s = from[j] /\ h = col[j] /\ ElementIds(api, payload[j]) = I(s, h)
    BY <2>4
  <2>6. s = t
    BY <2>1, <2>3, <2>5
  <2>7. h \in 1 .. Len(pieces[t]) /\ x \in ToSet(I(t, k)) /\ x \in ToSet(I(t, h))
    BY <1>8, <2>3, <2>5, <2>6
  <2>8. k = h
    BY <2>7, <1>4
  <2>9. ~(i < j) /\ ~(j < i)
    <3>1. k \in Nat /\ t \in Nat
      BY <2>3, <1>1, <1>3
    <3>2. from[i] = t /\ from[j] = t /\ col[i] = k /\ col[j] = k /\ i \in 1 .. L /\ j \in 1 .. L
      BY <2>3, <2>5, <2>6, <2>8
    <3>3. /\ i < j <=> t < t \/ (t = t /\ k < k)
          /\ j < i <=> t < t \/ (t = t /\ k < k)
      BY <3>2, <1>1
    <3> QED
      BY <3>1, <3>3
  <2> QED
    BY <2>3, <2>5, <2>9, <1>1
<1>9. /\ IsInjective(ArrivedIds(api, payload))
      /\ \A i \in V : ToSet(ElementIds(api, payload[i])) \subseteq ToSet(ArrivedIds(api, payload))
  <2>1. V = {i \in 1 .. Len(payload) : payload[i].role # "assistant"}
    BY DEF V, L
  <2>2. \A i \in V : /\ IsSeq(ElementIds(api, payload[i]))
                     /\ IsInjective(ElementIds(api, payload[i]))
    BY <1>7
  <2>3. \A i, j \in V : \A x \in ToSet(ElementIds(api, payload[i])) :
                              x \in ToSet(ElementIds(api, payload[j])) => i = j
    BY <1>8
  <2> QED
    <3>1. Bringing(api, payload, V)
      BY <2>1, <2>2, <2>3 DEF Bringing
    <3> QED
      BY <3>1, <1>1, ArriveOnce
<1>10. ASSUME NEW t \in U, t > first \/ (t = first /\ at = 1), NEW x \in ids[t]
       PROVE  x \in ToSet(ArrivedIds(api, payload))
  <2>1. PICK k \in 1 .. Len(pieces[t]) : x \in ToSet(I(t, k))
    BY <1>4
  <2>2. t \in first .. N /\ (t > first \/ k >= at)
    <3>1. Len(pieces[t]) \in Nat /\ t \in 1 .. N
      BY <1>3, <1>4, SeqFacts
    <3> QED
      BY <3>1, <1>1, <1>10
  <2>3. PICK i \in 1 .. L : from[i] = t /\ col[i] = k
    BY <2>2, <1>1
  <2>4. payload[i] = pieces[t][k]
    BY <2>3, <1>1
  <2>5. payload[i].role # "assistant"
    BY <2>4, <1>4
  <2>6. i \in V /\ ElementIds(api, payload[i]) = I(t, k)
    BY <2>4, <2>5 DEF V, I
  <2> QED
    BY <2>1, <2>6, <1>9
<1> QED
  BY <1>9, <1>10

\* What the property asks of the calls and of what arrives.
LEMMA PiecesFaithful ==
    ASSUME NEW api, NEW payload, NEW messages, NEW pieces, NEW N, NEW U, NEW calls, NEW ids,
           Fits(api, pieces, N, U, calls, ids),
           NEW first, NEW at, NEW from, NEW col, Window(payload, pieces, N, first, at, from, col),
           CutAt(api, pieces, U, first, at),
           \A m \in Owed(api, messages) :
             /\ m \in U /\ (m > first \/ (m = first /\ at = 1))
             /\ ToSet(ListIds(messages[m].content)) \ GivenUp(api, messages[m]) \subseteq ids[m]
    PROVE  CallsAnswered(api, payload) /\ NothingLost(api, payload, messages)
<1>1. /\ IsInjective(ArrivedIds(api, payload))
      /\ \A t \in U : t > first \/ (t = first /\ at = 1) =>
                ids[t] \subseteq ToSet(ArrivedIds(api, payload))
  BY PiecesArrive
<1>2. NothingLost(api, payload, messages)
  BY <1>1 DEF NothingLost
<1> DEFINE ev == [i \in 1 .. Len(payload) |-> ElementEvents(api, payload[i])]
<1>3. Orderly(ev, from, calls, N) /\ \A i \in 1 .. Len(payload) : IsSeq(ElementEvents(api, payload[i]))
  <2> DEFINE e == ev
  <2>1. e = [i \in 1 .. Len(payload) |-> ElementEvents(api, payload[i])]
    OBVIOUS
  <2> HIDE DEF ev, e
  <2>2. Orderly(e, from, calls, N)
    BY <2>1, PiecesOrderly
  <2>3. \A i \in 1 .. Len(payload) : IsSeq(ElementEvents(api, payload[i]))
    BY <2>1, PiecesOrderly
  <2> QED
    BY <2>2, <2>3 DEF e
<1>4. CallsAnswered(api, payload)
  <2> DEFINE e == ev
  <2>1. e = [i \in 1 .. Len(payload) |-> ElementEvents(api, payload[i])]
    OBVIOUS
  <2>2. Orderly(e, from, calls, N)
    BY <1>3
  <2> HIDE DEF ev, e
  <2>3. IsSeq(payload)
    BY DEF Window
  <2> QED
    BY <1>3, <2>1, <2>2, <2>3, CallsAreAnswered
<1> QED
  BY <1>2, <1>4

-----------------------------------------------------------------------------
(* The Messages API                                                        *)

\* An assistant message with the calls `own`.
Spoken(m, own) ==
  /\ m = [role |-> "assistant", form |-> m.form, content |-> m.content, stop |-> m.stop,
          api |-> m.api, model |-> m.model, said |-> m.said]
  /\ IsSeq(m.content)
  /\ \A i \in 1 .. Len(m.content) : m.content[i].type \in {"text", "thinking", "tool_use"}
  /\ own = {m.content[i].call : i \in {j \in 1 .. Len(m.content) : m.content[j].type = "tool_use"}}

LEMMA EventIs ==
    ASSUME NEW kind, NEW call PROVE Event(kind, call).kind = kind /\ Event(kind, call).call = call
  BY DEF Event

LEMMA BlockEventIs ==
    ASSUME NEW m, NEW b
    PROVE  /\ b.type = "tool_use" => BlockEvent(m, b) = Event("call", b.call)
           /\ b.type = "tool_result" => BlockEvent(m, b) = Event("result", b.call)
           /\ b.type \notin {"tool_use", "tool_result"} => BlockEvent(m, b) = Word(m)
           /\ m.role = "assistant" => Word(m) = Event("said", <<>>)
           /\ m.role # "assistant" => Word(m) = Event("word", <<>>)
  BY DEF BlockEvent, Word

LEMMA MessagesUser ==
    ASSUME NEW m, NEW form, NEW d, m = UserMessage(form, d), Clean(d), NEW asked, Answering(d, asked)
    PROVE  UserPiece("messages", <<m>>, asked, ContentIds(d))
<1> DEFINE piece == <<m>>
           e == ElementEvents("messages", m)
           I == ElementIds("messages", m)
<1>1. m.role = "user" /\ m.content = d
  BY UserMessageIs
<1>2. IsSeq(d) /\ DOMAIN d = 1 .. Len(d) /\ Len(d) \in Nat
  BY Kinds
<1>3. e = [b \in 1 .. Len(d) |-> BlockEvent(m, d[b])]
  BY <1>1, <1>2 DEF ElementEvents
<1>4. IsSeq(I) /\ ToSet(I) = ContentIds(d) /\ IsInjective(I)
  BY <1>1, ListIdsOf DEF ElementIds
<1>5. IsSeq(piece) /\ Len(piece) = 1 /\ piece[1] = m
  BY One
<1> HIDE DEF piece, e, I
<1>6. IsSeq(e) /\ Len(e) = Len(d) /\ \A l \in 1 .. Len(d) : e[l] = BlockEvent(m, d[l])
  BY <1>2, <1>3, FunIsSeq
<1>7. ASSUME NEW l \in 1 .. Len(e)
      PROVE  /\ e[l].kind = "result" => l \in ResultsAt(d) /\ e[l].call = d[l].call
             /\ e[l].kind = "word" => l \notin ResultsAt(d)
             /\ e[l].kind \in {"result", "word"}
             /\ l \in ResultsAt(d) => e[l].kind = "result" /\ e[l].call = d[l].call
  <2>1. e[l] = BlockEvent(m, d[l]) /\ l \in 1 .. Len(d)
    BY <1>6
  <2>2. CASE d[l].type = "tool_result"
    <3>1. e[l].kind = "result" /\ e[l].call = d[l].call
      BY <2>1, <2>2, BlockEventIs, EventIs
    <3>2. l \in ResultsAt(d)
      BY <2>1, <2>2 DEF ResultsAt
    <3> QED
      BY <3>1, <3>2
  <2>3. CASE d[l].type # "tool_result"
    <3>1. IsAside(d[l])
      BY <2>1, <2>3, ResultTyped DEF Clean
    <3>2. d[l].type \notin {"tool_use", "tool_result"}
      BY <3>1 DEF IsAside, Attachments
    <3>3. e[l] = Event("word", <<>>)
      BY <2>1, <3>2, <1>1, BlockEventIs
    <3>4. e[l].kind = "word"
      BY <3>3, EventIs
    <3>5. l \notin ResultsAt(d)
      BY <2>3 DEF ResultsAt
    <3> QED
      BY <3>4, <3>5
  <2> QED
    BY <2>2, <2>3
<1>8. /\ asked = {d[i].call : i \in ResultsAt(d)}
      /\ \A i, j \in ResultsAt(d) : d[i].call = d[j].call => i = j
      /\ \A i \in ResultsAt(d) : \A j \in (1 .. Len(d)) \ ResultsAt(d) : i < j
  BY DEF Answering
<1>9. \A l \in 1 .. Len(e) : /\ e[l].kind \in {"result", "word"}
                             /\ e[l].kind = "result" => e[l].call \in asked
  BY <1>7, <1>8
<1>10. ASSUME NEW l \in 1 .. Len(e), NEW g \in 1 .. Len(e), e[l].kind = "result"
       PROVE  /\ e[g].kind = "result" /\ e[g].call = e[l].call => l = g
              /\ e[g].kind = "word" => l < g
  <2>1. l \in ResultsAt(d) /\ e[l].call = d[l].call
    BY <1>7, <1>10
  <2>2. ASSUME e[g].kind = "result", e[g].call = e[l].call PROVE l = g
    <3>1. g \in ResultsAt(d) /\ e[g].call = d[g].call
      BY <1>7, <2>2
    <3> QED
      BY <3>1, <2>1, <2>2, <1>8
  <2>3. ASSUME e[g].kind = "word" PROVE l < g
    <3>1. g \in (1 .. Len(d)) \ ResultsAt(d)
      BY <1>6, <1>7, <2>3
    <3> QED
      BY <3>1, <2>1, <1>8
  <2> QED
    BY <2>2, <2>3
<1>11. ASSUME NEW call \in asked PROVE Holds(e, "result", call)
  <2>1. PICK i \in ResultsAt(d) : call = d[i].call
    BY <1>8
  <2>2. i \in 1 .. Len(e)
    BY <2>1, <1>6 DEF ResultsAt
  <2> QED
    BY <2>1, <2>2, <1>7 DEF Holds
<1>12. /\ \A k \in 1 .. Len(piece) : k = 1 /\ ElementEvents("messages", piece[k]) = e
                                     /\ ElementIds("messages", piece[k]) = I /\ piece[k] = m
       /\ 1 \in 1 .. Len(piece)
  BY <1>5 DEF e, I
<1>13. UserPiece("messages", piece, asked, ContentIds(d))
  <2>1. \A k \in 1 .. Len(piece) :
       /\ piece[k].role # "assistant"
       /\ IsSeq(ElementEvents("messages", piece[k])) /\ IsSeq(ElementIds("messages", piece[k]))
       /\ IsInjective(ElementIds("messages", piece[k]))
       /\ ToSet(ElementIds("messages", piece[k])) \subseteq ContentIds(d)
    BY <1>1, <1>4, <1>6, <1>12
  <2>2. \A x \in ContentIds(d) : \E k \in 1 .. Len(piece) : x \in ToSet(ElementIds("messages", piece[k]))
    BY <1>4, <1>12
  <2>3. \A call \in asked : \E k \in 1 .. Len(piece) :
            Holds(ElementEvents("messages", piece[k]), "result", call)
    BY <1>11, <1>12
  <2>4. \A k, h \in 1 .. Len(piece) : k = h
    BY <1>12
  <2>5. \A k \in 1 .. Len(piece) : \A l \in 1 .. Len(ElementEvents("messages", piece[k])) :
       /\ ElementEvents("messages", piece[k])[l].kind \in {"result", "word"}
       /\ ElementEvents("messages", piece[k])[l].kind = "result"
            => ElementEvents("messages", piece[k])[l].call \in asked
    BY <1>9, <1>12
  <2>6. \A k, h \in 1 .. Len(piece) :
       \A l \in 1 .. Len(ElementEvents("messages", piece[k])), g \in 1 .. Len(ElementEvents("messages", piece[h])) :
         ElementEvents("messages", piece[k])[l].kind = "result" =>
           /\ /\ ElementEvents("messages", piece[h])[g].kind = "result"
              /\ ElementEvents("messages", piece[h])[g].call = ElementEvents("messages", piece[k])[l].call
              => k = h /\ l = g
           /\ ElementEvents("messages", piece[h])[g].kind = "word" => k < h \/ (k = h /\ l < g)
    BY <1>10, <1>12
  <2> QED
    BY <2>1, <2>2, <2>3, <2>4, <2>5, <2>6, <1>5 DEF UserPiece
<1> QED
  BY <1>13 DEF piece

LEMMA MessagesAssistant ==
    ASSUME NEW m, NEW own, Spoken(m, own)
    PROVE  AssistantPiece("messages", <<m>>, own)
<1> DEFINE piece == <<m>>
           e == ElementEvents("messages", m)
           c == m.content
<1>1. m.role = "assistant"
  BY DEF Spoken
<1>2. /\ IsSeq(c)
      /\ \A i \in 1 .. Len(c) : c[i].type \in {"text", "thinking", "tool_use"}
      /\ own = {c[i].call : i \in {j \in 1 .. Len(c) : c[j].type = "tool_use"}}
  BY DEF Spoken
<1>3. IsSeq(piece) /\ Len(piece) = 1 /\ piece[1] = m
  BY One
<1> HIDE DEF piece
<1>4. DOMAIN c = 1 .. Len(c) /\ Len(c) \in Nat
  BY <1>2, SeqFacts
<1>5. e = [b \in 1 .. Len(c) |-> BlockEvent(m, c[b])]
  BY <1>4 DEF ElementEvents
<1> HIDE DEF e, c
<1>6. IsSeq(e) /\ Len(e) = Len(c) /\ \A l \in 1 .. Len(c) : e[l] = BlockEvent(m, c[l])
  BY <1>4, <1>5, FunIsSeq
<1>7. ASSUME NEW l \in 1 .. Len(c)
      PROVE  /\ e[l].kind \in {"call", "said"}
             /\ e[l].kind = "call" => e[l].call \in own
             /\ c[l].type = "tool_use" => e[l].kind = "call" /\ e[l].call = c[l].call
  <2>1. CASE c[l].type = "tool_use"
    <3>1. e[l].kind = "call" /\ e[l].call = c[l].call
      BY <2>1, <1>6, BlockEventIs, EventIs
    <3> QED
      BY <2>1, <3>1, <1>2
  <2>2. CASE c[l].type # "tool_use"
    <3>1. c[l].type \notin {"tool_use", "tool_result"}
      BY <2>2, <1>2
    <3>2. e[l] = Event("said", <<>>)
      BY <3>1, <1>1, <1>6, BlockEventIs
    <3>3. e[l].kind = "said"
      BY <3>2, EventIs
    <3> QED
      BY <2>2, <3>3
  <2> QED
    BY <2>1, <2>2
<1>8. ASSUME NEW call \in own PROVE Holds(e, "call", call)
  <2>1. PICK i \in 1 .. Len(c) : c[i].type = "tool_use" /\ call = c[i].call
    BY <1>2
  <2> QED
    BY <2>1, <1>6, <1>7 DEF Holds
<1>9. /\ \A k \in 1 .. Len(piece) : ElementEvents("messages", piece[k]) = e /\ piece[k] = m
      /\ 1 \in 1 .. Len(piece)
  BY <1>3 DEF e
<1>10. AssistantPiece("messages", piece, own)
  <2>1. \A k \in 1 .. Len(piece) : piece[k].role = "assistant" /\ IsSeq(ElementEvents("messages", piece[k]))
    BY <1>1, <1>6, <1>9
  <2>2. \A k \in 1 .. Len(piece) : \A l \in 1 .. Len(ElementEvents("messages", piece[k])) :
       /\ ElementEvents("messages", piece[k])[l].kind \in {"call", "said"}
       /\ ElementEvents("messages", piece[k])[l].kind = "call"
            => ElementEvents("messages", piece[k])[l].call \in own
    BY <1>6, <1>7, <1>9
  <2>3. \A call \in own : \E k \in 1 .. Len(piece) :
           Holds(ElementEvents("messages", piece[k]), "call", call)
    BY <1>8, <1>9
  <2> QED
    BY <2>1, <2>2, <2>3, <1>3 DEF AssistantPiece
<1> QED
  BY <1>10 DEF piece

\* Thinking that is left out of an assistant message leaves its calls.
LEMMA FilterKeeps ==
    ASSUME NEW m, NEW own, Spoken(m, own), NEW I, I \subseteq 1 .. Len(m.content),
           \A i \in 1 .. Len(m.content) : m.content[i].type = "tool_use" => i \in I,
           NEW new, new = WithContent(m, Only(m.content, I))
    PROVE  /\ Spoken(new, own) /\ new.content = Only(m.content, I)
           /\ HoldsOnly(new.content, m.content, I)
<1> DEFINE c == m.content
           d == Only(c, I)
<1>1. /\ m = [role |-> "assistant", form |-> m.form, content |-> m.content, stop |-> m.stop,
              api |-> m.api, model |-> m.model, said |-> m.said]
      /\ IsSeq(c)
      /\ \A i \in 1 .. Len(c) : c[i].type \in {"text", "thinking", "tool_use"}
      /\ own = {c[i].call : i \in {j \in 1 .. Len(c) : c[j].type = "tool_use"}}
  BY DEF Spoken
<1>2. \A i \in 1 .. Len(c) : c[i].type = "tool_use" => i \in I
  OBVIOUS
<1>3. IsSeq(d) /\ \E p : Picks(d, c, I, p)
  BY <1>1, OnlyPicks
<1>4. new = [role |-> "assistant", form |-> m.form, content |-> d, stop |-> m.stop,
             api |-> m.api, model |-> m.model, said |-> m.said]
  <2>1. new = [m EXCEPT !.content = d]
    BY DEF WithContent
  <2> HIDE DEF d
  <2> QED
    BY <2>1, <1>1
<1>5. PICK p : Picks(d, c, I, p)
  BY <1>3
<1> HIDE DEF d, c
<1>6. /\ \A k \in 1 .. Len(d) : p[k] \in I /\ p[k] \in 1 .. Len(c) /\ d[k] = c[p[k]]
      /\ \A i \in I : \E k \in 1 .. Len(d) : p[k] = i
  BY <1>5 DEF Picks, c
<1>7. own = {d[i].call : i \in {j \in 1 .. Len(d) : d[j].type = "tool_use"}}
  <2>1. ASSUME NEW x \in own PROVE \E j \in 1 .. Len(d) : d[j].type = "tool_use" /\ x = d[j].call
    <3>1. PICK i \in 1 .. Len(c) : c[i].type = "tool_use" /\ x = c[i].call
      BY <1>1
    <3>2. PICK k \in 1 .. Len(d) : p[k] = i
      BY <3>1, <1>2, <1>6
    <3> QED
      BY <3>1, <3>2, <1>6
  <2>2. ASSUME NEW j \in 1 .. Len(d), d[j].type = "tool_use" PROVE d[j].call \in own
    BY <2>2, <1>1, <1>6
  <2> QED
    BY <2>1, <2>2
<1>8. /\ new.content = d /\ new.form = m.form /\ new.stop = m.stop /\ new.api = m.api
      /\ new.model = m.model /\ new.said = m.said
  BY <1>4
<1>9. \A k \in 1 .. Len(d) : d[k].type \in {"text", "thinking", "tool_use"}
  BY <1>1, <1>6
<1>10. Spoken(new, own)
  BY <1>3, <1>4, <1>7, <1>8, <1>9 DEF Spoken
<1>11. HoldsOnly(d, c, I)
  BY <1>6 DEF HoldsOnly
<1> QED
  BY <1>8, <1>10, <1>11 DEF c, d

\* A compaction is what an assistant message begins with.
CompactsFirst(c) ==
  \A i \in 1 .. Len(c) : c[i].type = "thinking" /\ c[i].signature.by = "compaction" => i = 1

\* Messages that may be sent, those of the user at U.
Ready(messages, U, calls, ids) ==
  /\ IsSeq(messages) /\ U \subseteq 1 .. Len(messages)
  /\ \A t \in U : /\ calls[t] = {}
                  /\ \E form, d : /\ messages[t] = UserMessage(form, d) /\ Clean(d)
                                  /\ Answering(d, Asked(calls, t)) /\ ids[t] = ContentIds(d)
  /\ \A t \in (1 .. Len(messages)) \ U :
       t + 1 \in U /\ Spoken(messages[t], calls[t]) /\ CompactsFirst(messages[t].content)
  /\ \A m, n \in 1 .. Len(messages) : \A c \in calls[m] : c \in calls[n] => m = n
  /\ \A m, n \in U : \A x \in ids[m] : x \in ids[n] => m = n

LEMMA FitsOf ==
    ASSUME NEW api, NEW messages, NEW U, NEW calls, NEW ids, Ready(messages, U, calls, ids),
           NEW pieces, NEW borne, \A t \in U : borne[t] \subseteq ids[t],
           \A t \in U : UserPiece(api, pieces[t], Asked(calls, t), borne[t]),
           \A t \in (1 .. Len(messages)) \ U : AssistantPiece(api, pieces[t], calls[t])
    PROVE  Fits(api, pieces, Len(messages), U, calls, borne)
<1>1. Len(messages) \in Nat
  BY SeqFacts DEF Ready
<1> QED
  BY <1>1 DEF Ready, Fits

LEMMA MessagesPayload ==
    ASSUME NEW messages, NEW U, NEW calls, NEW ids, Ready(messages, U, calls, ids),
           NEW payload, payload = filterAssistantThinkingBlocks(messages)
    PROVE  /\ \E pieces, from, col :
                /\ Fits("messages", pieces, Len(messages), U, calls, ids)
                /\ Window(payload, pieces, Len(messages), 1, 1, from, col)
           /\ SignaturesStayHome("messages", payload)
<1> DEFINE N == Len(messages)
           pieces == [t \in 1 .. N |-> <<payload[t]>>]
           from == [i \in 1 .. N |-> i]
           col == [i \in 1 .. N |-> 1]
           kept(t) == {i \in 1 .. Len(messages[t].content) :
                         messages[t].content[i].type = "thinking" => IsClaudeThinking(messages[t].content[i])}
<1>1. IsSeq(messages) /\ DOMAIN messages = 1 .. N /\ N \in Nat /\ U \subseteq 1 .. N
  BY SeqFacts DEF Ready
<1>2. /\ \A t \in U : \E form, d : /\ messages[t] = UserMessage(form, d) /\ Clean(d)
                                   /\ Answering(d, Asked(calls, t)) /\ ids[t] = ContentIds(d)
      /\ \A t \in (1 .. N) \ U : t + 1 \in U /\ Spoken(messages[t], calls[t])
  BY DEF Ready
<1>3. payload = [m \in 1 .. N |->
                   IF messages[m].role = "assistant"
                     THEN WithContent(messages[m],
                            Only(messages[m].content,
                                 {i \in DOMAIN messages[m].content :
                                    messages[m].content[i].type = "thinking"
                                      => IsClaudeThinking(messages[m].content[i])}))
                     ELSE messages[m]]
  BY <1>1 DEF filterAssistantThinkingBlocks
<1>4. IsSeq(payload) /\ Len(payload) = N /\ DOMAIN payload = 1 .. N
  BY <1>1, <1>3, FunIsSeq
<1>5. ASSUME NEW t \in U
      PROVE  payload[t].role = "user" /\ UserPiece("messages", <<payload[t]>>, Asked(calls, t), ids[t])
  <2>1. PICK form, d : /\ messages[t] = UserMessage(form, d) /\ Clean(d)
                       /\ Answering(d, Asked(calls, t)) /\ ids[t] = ContentIds(d)
    BY <1>2
  <2>2. messages[t].role = "user"
    BY <2>1, UserMessageIs
  <2>3. payload[t] = messages[t]
    BY <2>2, <1>1, <1>3
  <2>4. UserPiece("messages", <<messages[t]>>, Asked(calls, t), ContentIds(d))
    BY <2>1, MessagesUser
  <2> QED
    BY <2>1, <2>2, <2>3, <2>4
<1>6. ASSUME NEW t \in (1 .. N) \ U
      PROVE  /\ AssistantPiece("messages", <<payload[t]>>, calls[t])
             /\ IsSeq(payload[t].content) /\ HoldsOnly(payload[t].content, messages[t].content, kept(t))
  <2>1. Spoken(messages[t], calls[t])
    BY <1>2
  <2>2. messages[t].role = "assistant" /\ IsSeq(messages[t].content)
    BY <2>1 DEF Spoken
  <2>3. payload[t] = WithContent(messages[t], Only(messages[t].content, kept(t)))
    <3>1. DOMAIN messages[t].content = 1 .. Len(messages[t].content)
      BY <2>2, SeqFacts
    <3> QED
      BY <2>2, <3>1, <1>3
  <2> DEFINE I == kept(t)
  <2>4. /\ I \subseteq 1 .. Len(messages[t].content)
        /\ \A i \in 1 .. Len(messages[t].content) : messages[t].content[i].type = "tool_use" => i \in I
        /\ payload[t] = WithContent(messages[t], Only(messages[t].content, I))
    BY <2>3
  <2> HIDE DEF I, kept
  <2>5. /\ Spoken(payload[t], calls[t])
        /\ HoldsOnly(payload[t].content, messages[t].content, I)
    BY <2>1, <2>4, FilterKeeps
  <2>6. IsSeq(payload[t].content)
    BY <2>5 DEF Spoken
  <2>7. AssistantPiece("messages", <<payload[t]>>, calls[t])
    BY <2>5, MessagesAssistant
  <2> QED
    BY <2>5, <2>6, <2>7 DEF I
<1>7. \A t \in 1 .. N : pieces[t] = <<payload[t]>> /\ Len(pieces[t]) = 1 /\ pieces[t][1] = payload[t]
  BY One
<1>8. Fits("messages", pieces, N, U, calls, ids)
  <2>1. \A t \in U : UserPiece("messages", pieces[t], Asked(calls, t), ids[t])
    BY <1>1, <1>5, <1>7
  <2>2. \A t \in (1 .. N) \ U : AssistantPiece("messages", pieces[t], calls[t])
    BY <1>6, <1>7
  <2> HIDE DEF pieces
  <2> QED
    BY <2>1, <2>2, FitsOf
<1>9. Window(payload, pieces, N, 1, 1, from, col)
  <2>1. \A i \in 1 .. N : from[i] = i /\ col[i] = 1
    OBVIOUS
  <2>2. from \in [1 .. N -> 1 .. N] /\ col \in [1 .. N -> Nat]
    OBVIOUS
  <2> HIDE DEF from, col, pieces
  <2>3. \A i \in 1 .. N : col[i] \in 1 .. Len(pieces[from[i]]) /\ payload[i] = pieces[from[i]][col[i]]
    BY <2>1, <1>7
  <2>4. \A i, j \in 1 .. N : i < j <=> from[i] < from[j] \/ (from[i] = from[j] /\ col[i] < col[j])
    BY <2>1, <1>1
  <2>5. \A t \in 1 .. N : \A k \in 1 .. Len(pieces[t]) : \E i \in 1 .. N : from[i] = t /\ col[i] = k
    <3>1. ASSUME NEW t \in 1 .. N, NEW k \in 1 .. Len(pieces[t]) PROVE from[t] = t /\ col[t] = k
      <4>1. Len(pieces[t]) = 1
        BY <1>7
      <4>2. k = 1
        BY <4>1
      <4> QED
        BY <4>2, <2>1
    <3> QED
      BY <3>1
  <2> QED
    BY <2>2, <2>3, <2>4, <2>5, <1>1, <1>4 DEF Window
<1>10. SignaturesStayHome("messages", payload)
  <2>1. ASSUME NEW t \in 1 .. N, payload[t].role = "assistant",
               NEW i \in DOMAIN payload[t].content, payload[t].content[i].type = "thinking"
        PROVE  ~HasAt(payload[t].content[i].signature)
    <3>1. t \in (1 .. N) \ U
      BY <1>5, <2>1
    <3>2. IsSeq(payload[t].content) /\ HoldsOnly(payload[t].content, messages[t].content, kept(t))
      BY <3>1, <1>6
    <3>3. i \in 1 .. Len(payload[t].content)
      BY <3>2, <2>1, SeqFacts
    <3>4. PICK k \in kept(t) : payload[t].content[i] = messages[t].content[k]
      BY <3>2, <3>3 DEF HoldsOnly
    <3>5. IsClaudeThinking(payload[t].content[i])
      BY <3>4, <2>1
    <3> QED
      BY <3>5 DEF IsClaudeThinking
  <2>2. \A m \in DOMAIN payload : payload[m].role = "assistant" =>
          \A i \in DOMAIN payload[m].content :
            payload[m].content[i].type = "thinking" => ~HasAt(payload[m].content[i].signature)
    BY <2>1, <1>4
  <2> QED
    BY <2>2 DEF SignaturesStayHome
<1> HIDE DEF pieces, from, col
<1> QED
  BY <1>8, <1>9, <1>10

-----------------------------------------------------------------------------
(* Chat completions                                                        *)

LEMMA LaidWindow ==
    ASSUME NEW pieces, IsSeq(pieces), \A t \in 1 .. Len(pieces) : IsSeq(pieces[t]),
           NEW payload, payload = FlattenSeq(pieces)
    PROVE  \E row, col : Window(payload, pieces, Len(pieces), 1, 1, row, col)
<1>1. IsSeq(payload) /\ \E row, col : Laid(pieces, payload, row, col)
  BY Flat
<1>2. PICK row, col : Laid(pieces, payload, row, col)
  BY <1>1
<1>3. Len(pieces) \in Nat
  BY SeqFacts
<1>4. Window(payload, pieces, Len(pieces), 1, 1, row, col)
  BY <1>1, <1>2, <1>3 DEF Laid, Window
<1> QED
  BY <1>4

LEMMA ChatIds ==
    ASSUME NEW s, Plain(s)
    PROVE  /\ IsSeq(Ids(mapContent(s))) /\ ToSet(Ids(mapContent(s))) = Undocumented(s)
           /\ IsInjective(Ids(mapContent(s)))
<1> DEFINE types == {"text", "tool_reference"} \cup Attachments
           I == {i \in 1 .. Len(s) : s[i].type \in types}
           parts == Only(s, I)
           f == [i \in DOMAIN parts |->
                   IF parts[i].type = "document" THEN Notice ELSE Part(parts[i].type, parts[i].id)]
<1>1. IsSeq(s) /\ DOMAIN s = 1 .. Len(s) /\ Len(s) \in Nat
  BY SeqFacts DEF Plain
<1>2. I = 1 .. Len(s)
  BY DEF Plain
<1>3. mapContent(s) = f
  BY <1>1 DEF mapContent, OfType
<1>4. IsSeq(parts) /\ \E p : Picks(parts, s, I, p)
  BY <1>1, OnlyPicks
<1> HIDE DEF parts
<1>5. PICK p : Picks(parts, s, I, p)
  BY <1>4
<1>6. DOMAIN parts = 1 .. Len(parts) /\ Len(parts) \in Nat
  BY <1>4, SeqFacts
<1>7. IsSeq(f) /\ Len(f) = Len(parts)
  BY <1>6, FunIsSeq
<1>8. \A k \in 1 .. Len(f) : f[k] = IF parts[k].type = "document" THEN Notice
                                  ELSE Part(parts[k].type, parts[k].id)
  BY <1>6, <1>7
<1> HIDE DEF f
<1>9. \A k \in 1 .. Len(f) : /\ p[k] \in 1 .. Len(s)
                             /\ k \in Named(f) <=> s[p[k]].type # "document"
                             /\ k \in Named(f) => f[k].id = s[p[k]].id
  <2>1. ASSUME NEW k \in 1 .. Len(f)
        PROVE  /\ p[k] \in 1 .. Len(s)
               /\ k \in Named(f) <=> s[p[k]].type # "document"
               /\ k \in Named(f) => f[k].id = s[p[k]].id
    <3>1. p[k] \in 1 .. Len(s) /\ parts[k] = s[p[k]]
      BY <1>2, <1>5, <1>7 DEF Picks
    <3>2. s[p[k]].type \in types
      BY <3>1 DEF Plain
    <3>3. f[k] = IF s[p[k]].type = "document" THEN Notice ELSE Part(s[p[k]].type, s[p[k]].id)
      BY <1>8, <3>1
    <3>4. \A type, id : Part(type, id).type = type /\ Part(type, id).id = id
      BY DEF Part
    <3>5. Notice.type = "notice"
      BY DEF Notice, Part
    <3> QED
      BY <3>1, <3>2, <3>3, <3>4, <3>5 DEF Attachments, Named
  <2> QED
    BY <2>1
<1>10. Named(f) \subseteq 1 .. Len(f)
  BY DEF Named
<1>11. \A k, l \in Named(f) : f[k].id = f[l].id => k = l
  <2>1. ASSUME NEW k \in Named(f), NEW l \in Named(f), f[k].id = f[l].id PROVE k = l
    <3>1. k \in 1 .. Len(f) /\ l \in 1 .. Len(f)
      BY <1>10
    <3>2. p[k] \in 1 .. Len(s) /\ p[l] \in 1 .. Len(s) /\ s[p[k]].id = s[p[l]].id
      BY <1>9, <2>1, <3>1
    <3>3. p[k] = p[l]
      BY <3>2 DEF Plain
    <3> QED
      BY <3>1, <3>3, <1>5, <1>7 DEF Picks
  <2> QED
    BY <2>1
<1>12. {f[k].id : k \in Named(f)} = Undocumented(s)
  <2>1. ASSUME NEW k \in Named(f) PROVE f[k].id \in Undocumented(s)
    BY <1>9, <1>10 DEF Undocumented
  <2>2. ASSUME NEW x \in Undocumented(s) PROVE \E k \in Named(f) : x = f[k].id
    <3>1. PICK i \in 1 .. Len(s) : s[i].type # "document" /\ x = s[i].id
      BY DEF Undocumented
    <3>2. PICK k \in 1 .. Len(f) : p[k] = i
      BY <1>2, <1>5, <1>7 DEF Picks
    <3> QED
      BY <3>1, <3>2, <1>9
  <2> QED
    BY <2>1, <2>2
<1>13. IsSeq(Ids(f)) /\ ToSet(Ids(f)) = {f[k].id : k \in Named(f)} /\ IsInjective(Ids(f))
  BY <1>7, <1>11, IdsAre
<1> QED
  BY <1>3, <1>12, <1>13

\* The answer to a call, as a message of its own.
Tool(result) == [ChatMessage("tool", mapContent(result.content)) EXCEPT !.call = result.call]

LEMMA ToolIs ==
    ASSUME NEW b, IsResult(b)
    PROVE  /\ Tool(b).role # "assistant"
           /\ ElementEvents("chat", Tool(b)) = <<Event("result", b.call)>>
           /\ IsSeq(ElementIds("chat", Tool(b))) /\ IsInjective(ElementIds("chat", Tool(b)))
           /\ ToSet(ElementIds("chat", Tool(b))) = Undocumented(b.content)
<1>1. Tool(b).role = "tool" /\ Tool(b).content = mapContent(b.content) /\ Tool(b).call = b.call
  BY DEF Tool, ChatMessage
<1>2. Plain(b.content)
  BY DEF IsResult
<1>3. ElementIds("chat", Tool(b)) = Ids(mapContent(b.content))
  BY <1>1 DEF ElementIds
<1>4. ElementEvents("chat", Tool(b)) = <<Event("result", b.call)>>
  BY <1>1 DEF ElementEvents
<1> QED
  BY <1>1, <1>2, <1>3, <1>4, ChatIds

LEMMA ChatWordIs ==
    ASSUME NEW s, Plain(s), NEW m, m = ChatMessage("user", mapContent(s))
    PROVE  /\ m.role # "assistant"
           /\ IsSeq(ElementEvents("chat", m)) /\ Len(ElementEvents("chat", m)) = 1
           /\ ElementEvents("chat", m)[1] = Event("word", <<>>)
           /\ IsSeq(ElementIds("chat", m)) /\ IsInjective(ElementIds("chat", m))
           /\ ToSet(ElementIds("chat", m)) = Undocumented(s)
<1>1. m.role = "user" /\ m.content = mapContent(s) /\ m.tool_calls = <<>>
  BY DEF ChatMessage
<1>2. ElementIds("chat", m) = Ids(mapContent(s))
  BY <1>1 DEF ElementIds
<1> DEFINE f == [k \in DOMAIN m.tool_calls |-> Event("call", m.tool_calls[k])]
<1>3. IsSeq(f) /\ Len(f) = 0
  <2>1. DOMAIN m.tool_calls = 1 .. 0
    BY <1>1
  <2> QED
    BY <2>1, FunIsSeq
<1>4. Word(m) = Event("word", <<>>)
  BY <1>1, BlockEventIs
<1>5. ElementEvents("chat", m) = <<Word(m)>> \o f
  BY <1>1 DEF ElementEvents
<1> HIDE DEF f
<1> DEFINE e == <<Word(m)>> \o f
<1>6. IsSeq(e) /\ Len(e) = 1 /\ e[1] = Word(m)
  <2>1. IsSeq(<<Word(m)>>) /\ Len(<<Word(m)>>) = 1 /\ <<Word(m)>>[1] = Word(m)
    BY One
  <2> DEFINE w == <<Word(m)>>
  <2> HIDE DEF w
  <2>2. IsSeq(w) /\ Len(w) = 1 /\ w[1] = Word(m)
    BY <2>1 DEF w
  <2>3. IsSeq(w \o f) /\ Len(w \o f) = 1 /\ (w \o f)[1] = Word(m)
    BY <2>2, <1>3, Concat
  <2> QED
    BY <2>3 DEF w
<1> HIDE DEF e
<1>7. ElementEvents("chat", m) = e
  BY <1>5 DEF e
<1> QED
  BY <1>1, <1>2, <1>4, <1>6, <1>7, ChatIds

\* Brings(api, m, X): the element m is the user's and brings the identities X.
Brings(api, m, X) ==
  /\ m.role # "assistant" /\ IsSeq(ElementIds(api, m)) /\ IsInjective(ElementIds(api, m))
  /\ ToSet(ElementIds(api, m)) = X

\* A piece of elements for the n results of d, and one for the words beside them.
AnswersThenWords(api, piece, d, n, p) ==
  /\ IsSeq(piece) /\ n \in Nat /\ Len(piece) \in {n, n + 1}
  /\ p \in [1 .. n -> ResultsAt(d)]
  /\ \A k, l \in 1 .. n : p[k] = p[l] => k = l
  /\ \A i \in ResultsAt(d) : \E k \in 1 .. n : p[k] = i
  /\ \A k \in 1 .. n : /\ ElementEvents(api, piece[k]) = <<Event("result", d[p[k]].call)>>
                       /\ Brings(api, piece[k], Borne(api, d[p[k]]))
  /\ Len(piece) = n => ResultsAt(d) = 1 .. Len(d)
  /\ Len(piece) = n + 1 =>
       /\ ElementEvents(api, piece[n + 1]) = <<Event("word", <<>>)>>
       /\ Brings(api, piece[n + 1], BorneAt(api, d, (1 .. Len(d)) \ ResultsAt(d)))

LEMMA PieceOfAnswers ==
    ASSUME NEW api, NEW piece, NEW d, NEW n, NEW p, AnswersThenWords(api, piece, d, n, p),
           Clean(d), NEW asked, Answering(d, asked)
    PROVE  UserPiece(api, piece, asked, BorneIds(api, d))
<1> DEFINE E(k) == ElementEvents(api, piece[k])
           I(k) == ElementIds(api, piece[k])
           O == (1 .. Len(d)) \ ResultsAt(d)
           X(k) == IF k <= n THEN Borne(api, d[p[k]]) ELSE BorneAt(api, d, O)
           L == Len(piece)
<1>1. /\ IsSeq(piece) /\ n \in Nat /\ L \in {n, n + 1}
      /\ \A k \in 1 .. n : p[k] \in ResultsAt(d)
      /\ \A k, l \in 1 .. n : p[k] = p[l] => k = l
      /\ \A i \in ResultsAt(d) : \E k \in 1 .. n : p[k] = i
      /\ \A k \in 1 .. n : E(k) = <<Event("result", d[p[k]].call)>>
      /\ L = n => ResultsAt(d) = 1 .. Len(d)
      /\ L = n + 1 => E(n + 1) = <<Event("word", <<>>)>>
  BY DEF AnswersThenWords
<1>2. /\ \A k \in 1 .. n : Brings(api, piece[k], Borne(api, d[p[k]]))
      /\ L = n + 1 => Brings(api, piece[n + 1], BorneAt(api, d, O))
  BY DEF AnswersThenWords
<1> HIDE DEF E, I, O, L
<1>3. \A k \in 1 .. L : k \in 1 .. n \/ (k = n + 1 /\ L = n + 1)
  BY <1>1
<1>4. ASSUME NEW k \in 1 .. L PROVE Brings(api, piece[k], X(k))
  <2>1. CASE k \in 1 .. n
    BY <2>1, <1>2
  <2>2. CASE k = n + 1 /\ L = n + 1
    <3>1. X(k) = BorneAt(api, d, O)
      BY <2>2, <1>1
    <3> HIDE DEF X
    <3> QED
      BY <2>2, <3>1, <1>2
  <2> QED
    BY <2>1, <2>2, <1>3
<1>5. \A k \in 1 .. L : /\ piece[k].role # "assistant"
                        /\ IsSeq(I(k)) /\ IsInjective(I(k)) /\ ToSet(I(k)) = X(k)
  BY <1>4 DEF Brings, I
<1>6. \A i \in 1 .. Len(d), j \in 1 .. Len(d) : \A x \in Borne(api, d[i]) : x \in Borne(api, d[j]) => i = j
  BY BorneIs DEF Clean
<1>7. \A j \in O : j \in 1 .. Len(d) /\ j \notin ResultsAt(d)
  BY DEF O, ResultsAt
<1>8. ResultsAt(d) \subseteq 1 .. Len(d)
  BY DEF ResultsAt
\* What an element brings comes from blocks of its own.
<1>9. ASSUME NEW k \in 1 .. L, NEW x \in X(k)
      PROVE  \E i \in 1 .. Len(d) : x \in Borne(api, d[i]) /\ IF k <= n THEN i = p[k] ELSE i \in O
  <2>1. CASE k \in 1 .. n
    BY <2>1, <1>1, <1>8, <1>9
  <2>2. CASE k = n + 1
    <3>1. x \in BorneAt(api, d, O) /\ ~(k <= n)
      BY <2>2, <1>1, <1>9
    <3>2. PICK j \in O : x \in Borne(api, d[j])
      BY <3>1 DEF BorneAt
    <3> QED
      BY <3>1, <3>2, <1>7
  <2> QED
    BY <2>1, <2>2, <1>3
<1>10. ASSUME NEW k \in 1 .. L, NEW h \in 1 .. L, NEW x \in X(k), x \in X(h) PROVE k = h
  <2> HIDE DEF X
  <2>1. PICK i \in 1 .. Len(d) : x \in Borne(api, d[i]) /\ IF k <= n THEN i = p[k] ELSE i \in O
    BY <1>9
  <2>2. PICK j \in 1 .. Len(d) : x \in Borne(api, d[j]) /\ IF h <= n THEN j = p[h] ELSE j \in O
    BY <1>9, <1>10
  <2>3. i = j
    BY <2>1, <2>2, <1>6
  <2>4. CASE k \in 1 .. n /\ h \in 1 .. n
    BY <2>1, <2>2, <2>3, <2>4, <1>1
  <2>5. CASE k = n + 1 /\ h = n + 1
    BY <2>5
  <2>6. CASE k \in 1 .. n /\ h = n + 1
    <3>1. i \in ResultsAt(d) /\ j \in O
      BY <2>1, <2>2, <2>6, <1>1
    <3> QED
      BY <3>1, <2>3, <1>7
  <2>7. CASE k = n + 1 /\ h \in 1 .. n
    <3>1. j \in ResultsAt(d) /\ i \in O
      BY <2>1, <2>2, <2>7, <1>1
    <3> QED
      BY <3>1, <2>3, <1>7
  <2> QED
    BY <2>4, <2>5, <2>6, <2>7, <1>3
<1>11. ASSUME NEW x \in BorneIds(api, d) PROVE \E k \in 1 .. L : x \in X(k)
  <2>1. PICK i \in 1 .. Len(d) : x \in Borne(api, d[i])
    BY DEF BorneIds, BorneAt
  <2>2. CASE i \in ResultsAt(d)
    <3>1. PICK k \in 1 .. n : p[k] = i
      BY <2>2, <1>1
    <3>2. k \in 1 .. L /\ k <= n
      BY <1>1
    <3> QED
      BY <2>1, <3>1, <3>2
  <2>3. CASE i \notin ResultsAt(d)
    <3>1. L = n + 1
      BY <2>3, <1>1
    <3>2. i \in O
      BY <2>3 DEF O
    <3>3. x \in BorneAt(api, d, O)
      BY <2>1, <3>2 DEF BorneAt
    <3>4. n + 1 \in 1 .. L /\ ~(n + 1 <= n)
      BY <3>1, <1>1
    <3>5. x \in X(n + 1)
      BY <3>3, <3>4
    <3> QED
      BY <3>4, <3>5
  <2> QED
    BY <2>2, <2>3
<1>12. ASSUME NEW k \in 1 .. L, NEW x \in X(k) PROVE x \in BorneIds(api, d)
  BY <1>9 DEF BorneIds, BorneAt
<1> HIDE DEF X
<1>13. ASSUME NEW k \in 1 .. L
       PROVE  /\ IsSeq(E(k)) /\ Len(E(k)) = 1
              /\ k <= n => E(k)[1].kind = "result" /\ E(k)[1].call = d[p[k]].call
              /\ ~(k <= n) => E(k)[1].kind = "word"
  <2>1. CASE k \in 1 .. n
    <3> DEFINE v == Event("result", d[p[k]].call)
    <3>1. E(k) = <<v>> /\ v.kind = "result" /\ v.call = d[p[k]].call
      BY <2>1, <1>1, EventIs
    <3> HIDE DEF v
    <3>2. IsSeq(E(k)) /\ Len(E(k)) = 1 /\ E(k)[1] = v
      BY <3>1, One
    <3> QED
      BY <2>1, <3>1, <3>2
  <2>2. CASE k = n + 1 /\ L = n + 1
    <3> DEFINE v == Event("word", <<>>)
    <3>1. E(k) = <<v>> /\ v.kind = "word"
      BY <2>2, <1>1, EventIs
    <3> HIDE DEF v
    <3>2. IsSeq(E(k)) /\ Len(E(k)) = 1 /\ E(k)[1] = v
      BY <3>1, One
    <3> QED
      BY <2>2, <3>1, <3>2, <1>1
  <2> QED
    BY <2>1, <2>2, <1>3
<1>14. /\ asked = {d[i].call : i \in ResultsAt(d)}
       /\ \A i, j \in ResultsAt(d) : d[i].call = d[j].call => i = j
  BY DEF Answering
<1>15. ASSUME NEW k \in 1 .. L, NEW l \in 1 .. Len(E(k))
       PROVE  /\ l = 1 /\ E(k)[l].kind \in {"result", "word"}
              /\ E(k)[l].kind = "result" => k \in 1 .. n /\ E(k)[l].call = d[p[k]].call /\ E(k)[l].call \in asked
              /\ E(k)[l].kind = "word" => k = n + 1
  <2>0. Len(E(k)) = 1
    BY <1>13
  <2>1. l = 1
    BY <2>0
  <2>2. CASE k \in 1 .. n
    <3>1. E(k)[1].kind = "result" /\ E(k)[1].call = d[p[k]].call
      BY <2>2, <1>13
    <3>2. d[p[k]].call \in asked
      BY <2>2, <1>1, <1>14
    <3> QED
      BY <2>1, <2>2, <3>1, <3>2
  <2>3. CASE k = n + 1
    <3>1. E(k)[1].kind = "word"
      BY <2>3, <1>1, <1>13
    <3> QED
      BY <2>1, <2>3, <3>1
  <2> QED
    BY <2>2, <2>3, <1>3
<1>16. ASSUME NEW k \in 1 .. L, NEW h \in 1 .. L, NEW l \in 1 .. Len(E(k)), NEW g \in 1 .. Len(E(h)),
              E(k)[l].kind = "result"
       PROVE  /\ E(h)[g].kind = "result" /\ E(h)[g].call = E(k)[l].call => k = h /\ l = g
              /\ E(h)[g].kind = "word" => k < h \/ (k = h /\ l < g)
  <2>1. k \in 1 .. n /\ E(k)[l].call = d[p[k]].call /\ l = 1 /\ g = 1
    BY <1>15, <1>16
  <2>2. ASSUME E(h)[g].kind = "result", E(h)[g].call = E(k)[l].call PROVE k = h
    <3>1. h \in 1 .. n /\ E(h)[g].call = d[p[h]].call
      BY <1>15, <2>2
    <3>2. p[h] \in ResultsAt(d) /\ p[k] \in ResultsAt(d) /\ d[p[h]].call = d[p[k]].call
      BY <2>1, <2>2, <3>1, <1>1
    <3> QED
      BY <2>1, <3>1, <3>2, <1>1, <1>14
  <2>3. ASSUME E(h)[g].kind = "word" PROVE k < h
    <3>1. h = n + 1
      BY <1>15, <2>3
    <3> QED
      BY <2>1, <3>1, <1>1
  <2> QED
    BY <2>1, <2>2, <2>3
<1>17. ASSUME NEW call \in asked PROVE \E k \in 1 .. L : Holds(E(k), "result", call)
  <2>1. PICK i \in ResultsAt(d) : call = d[i].call
    BY <1>14
  <2>2. PICK k \in 1 .. n : p[k] = i
    BY <1>1
  <2>3. k \in 1 .. L /\ k <= n
    BY <1>1
  <2>4. Holds(E(k), "result", call)
    BY <2>1, <2>2, <2>3, <1>13 DEF Holds
  <2> QED
    BY <2>3, <2>4
<1>18. \A k \in 1 .. L : /\ piece[k].role # "assistant" /\ IsSeq(E(k)) /\ IsSeq(I(k))
                         /\ IsInjective(I(k)) /\ ToSet(I(k)) \subseteq BorneIds(api, d)
  BY <1>5, <1>12, <1>13
<1>19. \A k, h \in 1 .. L : \A x \in ToSet(I(k)) : x \in ToSet(I(h)) => k = h
  BY <1>5, <1>10
<1>20. \A x \in BorneIds(api, d) : \E k \in 1 .. L : x \in ToSet(I(k))
  BY <1>5, <1>11
<1>21. \A k \in 1 .. L : \A l \in 1 .. Len(E(k)) :
         /\ E(k)[l].kind \in {"result", "word"}
         /\ E(k)[l].kind = "result" => E(k)[l].call \in asked
  BY <1>15
<1>22. \A k, h \in 1 .. L : \A l \in 1 .. Len(E(k)), g \in 1 .. Len(E(h)) :
         E(k)[l].kind = "result" =>
           /\ E(h)[g].kind = "result" /\ E(h)[g].call = E(k)[l].call => k = h /\ l = g
           /\ E(h)[g].kind = "word" => k < h \/ (k = h /\ l < g)
  BY <1>16
<1>23. \A call \in asked : \E k \in 1 .. L : Holds(E(k), "result", call)
  BY <1>17
<1> QED
  BY <1>1, <1>18, <1>19, <1>20, <1>21, <1>22, <1>23 DEF UserPiece, E, I, L

LEMMA UndocumentedBeside ==
    ASSUME NEW d, NEW O, \A j \in O : d[j].type # "tool_result",
           NEW others, NEW q, Picks(others, d, O, q)
    PROVE  Undocumented(others) = BorneAt("chat", d, O)
<1>1. /\ \A k \in 1 .. Len(others) : q[k] \in O /\ others[k] = d[q[k]]
      /\ \A j \in O : \E k \in 1 .. Len(others) : q[k] = j
  BY DEF Picks
<1>2. \A j \in O : Borne("chat", d[j]) = IF d[j].type = "document" THEN {} ELSE {d[j].id}
  BY DEF Borne
<1>3. ASSUME NEW x \in Undocumented(others) PROVE x \in BorneAt("chat", d, O)
  <2>1. PICK k \in 1 .. Len(others) : others[k].type # "document" /\ x = others[k].id
    BY DEF Undocumented
  <2>2. PICK j \in O : others[k] = d[j]
    BY <1>1
  <2>3. Borne("chat", d[j]) = {x}
    BY <2>1, <2>2, <1>2
  <2> QED
    BY <2>3 DEF BorneAt
<1>4. ASSUME NEW x \in BorneAt("chat", d, O) PROVE x \in Undocumented(others)
  <2>0. PICK j \in O : x \in Borne("chat", d[j])
    BY DEF BorneAt
  <2>1. d[j].type # "document" /\ x = d[j].id
    BY <2>0, <1>2
  <2> QED
    BY <2>1, <1>1 DEF Undocumented
<1> QED
  BY <1>3, <1>4

LEMMA ChatUser ==
    ASSUME NEW m, NEW form, NEW d, m = UserMessage(form, d), Clean(d), NEW asked, Answering(d, asked)
    PROVE  UserPiece("chat", handleUserMessage(m), asked, BorneIds("chat", d)) /\ IsSeq(handleUserMessage(m))
<1> DEFINE R == ResultsAt(d)
           O == (1 .. Len(d)) \ R
           results == Only(d, R)
           others == Only(d, O)
           tools == [i \in DOMAIN results |-> Tool(results[i])]
           word == ChatMessage("user", mapContent(others))
           words == IF others = <<>> THEN <<>> ELSE << word >>
           piece == tools \o words
           n == Len(results)
<1>1. m.content = d
  BY UserMessageIs
<1>2. IsSeq(d) /\ DOMAIN d = 1 .. Len(d) /\ Len(d) \in Nat
  BY Kinds
<1>3. OfType(d, {"tool_result"}) = results
  BY <1>2 DEF OfType, ResultsAt
<1>4. Only(d, {i \in DOMAIN d : d[i].type # "tool_result"}) = others
  <2>1. {i \in DOMAIN d : d[i].type # "tool_result"} = O
    BY <1>2 DEF ResultsAt
  <2> QED
    BY <2>1
<1>5. handleUserMessage(m) = piece
  BY <1>1, <1>3, <1>4 DEF handleUserMessage, Tool
<1>6. R \subseteq 1 .. Len(d) /\ O \subseteq 1 .. Len(d) /\ \A j \in O : d[j].type # "tool_result"
  BY DEF ResultsAt
<1> HIDE DEF R
<1>7. IsSeq(results) /\ \E p : Picks(results, d, R, p)
  BY <1>2, <1>6, OnlyPicks
<1>8. IsSeq(others) /\ \E q : Picks(others, d, O, q)
  BY <1>2, <1>6, OnlyPicks
<1>9. Plain(others) /\ Undocumented(others) = BorneAt("chat", d, O)
  <2> HIDE DEF O
  <2>1. O \subseteq 1 .. Len(d) /\ \A j \in O : d[j].type # "tool_result"
    BY <1>6
  <2>2. Plain(Only(d, O))
    BY ONLY Clean(d), <2>1, AsidesPlain
  <2>3. PICK q : Picks(Only(d, O), d, O, q)
    BY <1>8
  <2>4. Undocumented(Only(d, O)) = BorneAt("chat", d, O)
    BY <2>1, <2>3, UndocumentedBeside
  <2> QED
    BY <2>2, <2>4
<1> HIDE DEF results, others
<1>10. PICK p : Picks(results, d, R, p)
  BY <1>7
<1>11. n \in Nat /\ DOMAIN results = 1 .. n
  BY <1>7, SeqFacts
<1>12. IsSeq(tools) /\ Len(tools) = n /\ \A k \in 1 .. n : tools[k] = Tool(results[k])
  BY <1>11, FunIsSeq
<1> HIDE DEF tools, n, word
<1>13. /\ IsSeq(words)
       /\ \/ others = <<>> /\ Len(words) = 0
          \/ others # <<>> /\ Len(words) = 1 /\ words[1] = word
  BY One, None
<1> HIDE DEF words
<1>14. /\ IsSeq(piece) /\ Len(piece) = n + Len(words)
       /\ \A k \in 1 .. n : piece[k] = Tool(results[k])
       /\ \A k \in 1 .. Len(words) : piece[n + k] = words[k]
  BY <1>12, <1>13, Concat
<1> HIDE DEF piece
<1>15. /\ p \in [1 .. n -> R] /\ \A k \in 1 .. n : results[k] = d[p[k]]
       /\ \A k, l \in 1 .. n : p[k] = p[l] => k = l
       /\ \A i \in R : \E k \in 1 .. n : p[k] = i
  BY <1>10 DEF Picks, n
<1>16. ASSUME NEW k \in 1 .. n
       PROVE  /\ ElementEvents("chat", piece[k]) = <<Event("result", d[p[k]].call)>>
              /\ Brings("chat", piece[k], Borne("chat", d[p[k]]))
  <2> DEFINE b == d[p[k]]
  <2>1. p[k] \in R /\ piece[k] = Tool(b)
    BY <1>14, <1>15
  <2>2. IsResult(b) /\ b.type = "tool_result"
    <3>1. IsResult(b)
      BY <2>1, Kinds DEF R
    <3> HIDE DEF b
    <3> QED
      BY <3>1, ResultTyped
  <2>3. Borne("chat", b) = Undocumented(b.content)
    BY <2>2 DEF Borne
  <2> HIDE DEF b
  <2>4. /\ Tool(b).role # "assistant"
        /\ ElementEvents("chat", Tool(b)) = <<Event("result", b.call)>>
        /\ IsSeq(ElementIds("chat", Tool(b))) /\ IsInjective(ElementIds("chat", Tool(b)))
        /\ ToSet(ElementIds("chat", Tool(b))) = Borne("chat", b)
    BY <2>2, <2>3, ToolIs
  <2>5. /\ ElementEvents("chat", piece[k]) = <<Event("result", b.call)>>
        /\ Brings("chat", piece[k], Borne("chat", b))
    BY <2>1, <2>4 DEF Brings
  <2> QED
    BY <2>5 DEF b
<1>17. ASSUME others # <<>>
       PROVE  /\ ElementEvents("chat", word) = <<Event("word", <<>>)>>
              /\ Brings("chat", word, BorneAt("chat", d, O))
  <2>1. /\ word.role # "assistant"
        /\ IsSeq(ElementEvents("chat", word)) /\ Len(ElementEvents("chat", word)) = 1
        /\ ElementEvents("chat", word)[1] = Event("word", <<>>)
        /\ IsSeq(ElementIds("chat", word)) /\ IsInjective(ElementIds("chat", word))
        /\ ToSet(ElementIds("chat", word)) = Undocumented(others)
    BY <1>9, ChatWordIs DEF word
  <2> DEFINE e == ElementEvents("chat", word)
             v == Event("word", <<>>)
             f == <<v>>
  <2>2. IsSeq(e) /\ Len(e) = 1 /\ e[1] = v
    BY <2>1
  <2>3. IsSeq(f) /\ Len(f) = 1 /\ f[1] = v
    BY One
  <2> HIDE DEF e, f, v
  <2>4. \A i \in 1 .. Len(e) : e[i] = f[i]
    BY <2>2, <2>3
  <2>5. e = f
    BY <2>2, <2>3, <2>4, SameSeq
  <2> QED
    BY <2>1, <2>5, <1>9 DEF e, f, v, Brings
<1>18. others = <<>> => R = 1 .. Len(d)
  <2>1. ASSUME others = <<>>, NEW i \in 1 .. Len(d), i \notin R PROVE FALSE
    <3>1. i \in O
      BY <2>1
    <3>2. PICK q : Picks(others, d, O, q)
      BY <1>8
    <3>3. PICK k \in 1 .. Len(others) : q[k] = i
      BY <3>1, <3>2 DEF Picks
    <3>4. Len(others) = 0
      BY <1>8, <2>1, SeqFacts
    <3> QED
      BY <3>3, <3>4
  <2> QED
    BY <2>1, <1>6
<1>19. AnswersThenWords("chat", piece, d, n, p)
  <2>1. Len(piece) = n => others = <<>>
    BY <1>11, <1>13, <1>14
  <2>2. Len(piece) = n + 1 => others # <<>> /\ piece[n + 1] = word
    BY <1>11, <1>13, <1>14
  <2>3. Len(piece) \in {n, n + 1}
    BY <1>11, <1>13, <1>14
  <2>4. Len(piece) = n + 1 =>
          /\ ElementEvents("chat", piece[n + 1]) = <<Event("word", <<>>)>>
          /\ Brings("chat", piece[n + 1], BorneAt("chat", d, (1 .. Len(d)) \ ResultsAt(d)))
    BY <2>2, <1>17 DEF R
  <2>5. Len(piece) = n => ResultsAt(d) = 1 .. Len(d)
    BY <2>1, <1>18 DEF R
  <2>6. /\ p \in [1 .. n -> ResultsAt(d)]
        /\ \A k, l \in 1 .. n : p[k] = p[l] => k = l
        /\ \A i \in ResultsAt(d) : \E k \in 1 .. n : p[k] = i
    BY <1>15 DEF R
  <2> QED
    BY <2>3, <2>4, <2>5, <2>6, <1>11, <1>14, <1>16 DEF AnswersThenWords
<1>20. UserPiece("chat", piece, asked, BorneIds("chat", d))
  BY <1>19, PieceOfAnswers
<1> QED
  BY <1>5, <1>14, <1>20

LEMMA ChatAssistant ==
    ASSUME NEW m, NEW own, Spoken(m, own), NEW toClaude
    PROVE  /\ AssistantPiece("chat", handleAssistantMessage(m, toClaude), own)
           /\ \E e : /\ handleAssistantMessage(m, toClaude) = <<e>>
                     /\ e.role = "assistant"
                     /\ toClaude => ~HasAt(e.reasoning_opaque)
<1> DEFINE c == m.content
           thoughts == OfType(c, {"thinking"})
           J == {i \in DOMAIN thoughts : toClaude => IsClaudeThinking(thoughts[i])}
           thinking == Only(thoughts, J)
           K == {i \in DOMAIN thinking : thinking[i].signature # NoSignature}
           signed == Only(thinking, K)
           said == Only(thinking, {i \in DOMAIN thinking : thinking[i].text \notin {NoText, THINKING_TEXT}})
           calls == OfType(c, {"tool_use"})
           opaque == IF signed = <<>> THEN NoSignature ELSE Head(signed).signature
           made == [i \in DOMAIN calls |-> calls[i].call]
           x == [ChatMessage("assistant", mapContent(c)) EXCEPT
                   !.reasoning_text   = [i \in DOMAIN said |-> said[i].text],
                   !.reasoning_opaque = opaque,
                   !.tool_calls       = made]
           C == {i \in 1 .. Len(c) : c[i].type = "tool_use"}
           T == {i \in 1 .. Len(c) : c[i].type = "thinking"}
<1>1. IsSeq(c) /\ own = {c[i].call : i \in C}
  BY DEF Spoken
<1>2. handleAssistantMessage(m, toClaude) = << x >>
  BY DEF handleAssistantMessage
<1>3. x.role = "assistant" /\ x.reasoning_opaque = opaque /\ x.tool_calls = made
  <2> HIDE DEF opaque, made, said
  <2> QED
    BY DEF ChatMessage
<1> HIDE DEF x
<1>4. DOMAIN c = 1 .. Len(c) /\ Len(c) \in Nat
  BY <1>1, SeqFacts
<1>5. thoughts = Only(c, T) /\ calls = Only(c, C)
  BY <1>4 DEF OfType
<1>6. IsSeq(thoughts)
  <2>1. T \subseteq 1 .. Len(c)
    OBVIOUS
  <2> HIDE DEF T, thoughts, c
  <2> QED
    BY <1>1, <1>5, <2>1, OnlyPicks
<1>7. IsSeq(calls) /\ \E p : Picks(calls, c, C, p)
  <2>1. C \subseteq 1 .. Len(c)
    OBVIOUS
  <2> HIDE DEF C, calls, c
  <2> QED
    BY <1>1, <1>5, <2>1, OnlyPicks
<1>8. toClaude => ~HasAt(opaque)
  <2>1. ASSUME toClaude PROVE ~HasAt(opaque)
    <3>1. CASE signed = <<>>
      BY <3>1 DEF HasAt, NoSignature
    <3>2. CASE signed # <<>>
      <4>1. DOMAIN thoughts = 1 .. Len(thoughts) /\ J \subseteq 1 .. Len(thoughts)
        BY <1>6, SeqFacts
      <4>2. \A i \in J : IsClaudeThinking(thoughts[i])
        BY <2>1
      <4>3. opaque = Head(signed).signature
        BY <3>2
      <4> HIDE DEF J, thoughts, opaque
      <4>4. IsSeq(thinking) /\ \E p : Picks(thinking, thoughts, J, p)
        BY <1>6, <4>1, OnlyPicks
      <4> HIDE DEF thinking
      <4>5. PICK p : Picks(thinking, thoughts, J, p)
        BY <4>4
      <4>6. DOMAIN thinking = 1 .. Len(thinking) /\ K \subseteq 1 .. Len(thinking)
        BY <4>4, SeqFacts
      <4> HIDE DEF K
      <4>7. IsSeq(signed) /\ \E q : Picks(signed, thinking, K, q)
        BY <4>4, <4>6, OnlyPicks
      <4> HIDE DEF signed
      <4>8. PICK q : Picks(signed, thinking, K, q)
        BY <4>7
      <4>9. Len(signed) \in Nat /\ Len(signed) # 0
        BY <4>7, <3>2, SeqFacts
      <4>10. Head(signed) = signed[1] /\ 1 \in 1 .. Len(signed)
        <5>1. signed \in Seq(ToSet(signed))
          BY <4>7 DEF IsSeq
        <5> QED
          BY <5>1, <4>9
      <4>11. q[1] \in K /\ signed[1] = thinking[q[1]]
        BY <4>8, <4>10 DEF Picks
      <4>12. PICK k \in 1 .. Len(thinking) : k = q[1]
        BY <4>6, <4>11
      <4>13. p[k] \in J /\ thinking[k] = thoughts[p[k]]
        BY <4>5, <4>12 DEF Picks
      <4>14. IsClaudeThinking(signed[1])
        BY <4>2, <4>11, <4>12, <4>13
      <4> QED
        BY <4>3, <4>10, <4>14 DEF IsClaudeThinking
    <3> QED
      BY <3>1, <3>2
  <2> QED
    BY <2>1
<1> HIDE DEF opaque, calls, C, thoughts, c
<1>9. PICK p : Picks(calls, c, C, p)
  BY <1>7
<1>10. DOMAIN calls = 1 .. Len(calls) /\ Len(calls) \in Nat
  BY <1>7, SeqFacts
<1>11. IsSeq(made) /\ Len(made) = Len(calls) /\ DOMAIN made = 1 .. Len(calls)
       /\ \A k \in 1 .. Len(made) : made[k] = calls[k].call
  BY <1>10, FunIsSeq
<1> HIDE DEF made
<1>12. /\ \A k \in 1 .. Len(made) : made[k] \in own
       /\ \A call \in own : \E k \in 1 .. Len(made) : made[k] = call
  <2>1. /\ \A k \in 1 .. Len(calls) : p[k] \in C /\ calls[k] = c[p[k]]
        /\ \A i \in C : \E k \in 1 .. Len(calls) : p[k] = i
    BY <1>9 DEF Picks
  <2>2. ASSUME NEW k \in 1 .. Len(made) PROVE made[k] \in own
    BY <2>1, <1>1, <1>11
  <2>3. ASSUME NEW call \in own PROVE \E k \in 1 .. Len(made) : made[k] = call
    <3>1. PICK i \in C : call = c[i].call
      BY <1>1
    <3>2. PICK k \in 1 .. Len(calls) : p[k] = i
      BY <2>1
    <3> QED
      BY <2>1, <3>1, <3>2, <1>11
  <2> QED
    BY <2>2, <2>3
<1> DEFINE f == [k \in DOMAIN made |-> Event("call", made[k])]
           w == <<Word(x)>>
           e == w \o f
<1>13. IsSeq(f) /\ Len(f) = Len(made) /\ \A k \in 1 .. Len(made) : f[k] = Event("call", made[k])
  BY <1>10, <1>11, FunIsSeq
<1>14. Word(x) = Event("said", <<>>)
  BY <1>3, BlockEventIs
<1>15. IsSeq(w) /\ Len(w) = 1 /\ w[1] = Event("said", <<>>)
  BY <1>14, One
<1>16. ElementEvents("chat", x) = e
  BY <1>3 DEF ElementEvents
<1> HIDE DEF f, w
<1>17. /\ IsSeq(e) /\ Len(e) = 1 + Len(f)
       /\ \A i \in 1 .. Len(w) : e[i] = w[i]
       /\ \A i \in 1 .. Len(f) : e[1 + i] = f[i]
       /\ \A i \in 1 .. Len(e) : \/ i \in 1 .. Len(w) /\ e[i] = w[i]
                                 \/ i - 1 \in 1 .. Len(f) /\ e[i] = f[i - 1]
  <2>1. /\ IsSeq(e) /\ Len(e) = Len(w) + Len(f)
        /\ \A i \in 1 .. Len(w) : e[i] = w[i]
        /\ \A i \in 1 .. Len(f) : e[Len(w) + i] = f[i]
        /\ \A i \in 1 .. Len(e) : \/ i \in 1 .. Len(w) /\ e[i] = w[i]
                                  \/ i - Len(w) \in 1 .. Len(f) /\ e[i] = f[i - Len(w)]
    BY <1>13, <1>15, Concat
  <2> HIDE DEF e
  <2> QED
    BY <2>1, <1>15
<1> HIDE DEF e
<1>18. ASSUME NEW l \in 1 .. Len(e)
       PROVE  /\ e[l].kind \in {"call", "said"}
              /\ e[l].kind = "call" => e[l].call \in own
  <2>1. CASE l \in 1 .. Len(w) /\ e[l] = w[l]
    <3>1. e[l] = Event("said", <<>>)
      BY <2>1, <1>15
    <3>2. e[l].kind = "said"
      BY <3>1, EventIs
    <3> QED
      BY <3>2
  <2>2. CASE l - 1 \in 1 .. Len(f) /\ e[l] = f[l - 1]
    <3>1. PICK k \in 1 .. Len(made) : k = l - 1
      BY <2>2, <1>13
    <3>2. e[l] = Event("call", made[k])
      BY <2>2, <3>1, <1>13
    <3>3. e[l].kind = "call" /\ e[l].call = made[k]
      BY <3>2, EventIs
    <3> QED
      BY <3>3, <1>12
  <2> QED
    BY <2>1, <2>2, <1>17
<1>19. ASSUME NEW call \in own PROVE Holds(e, "call", call)
  <2>1. PICK k \in 1 .. Len(made) : made[k] = call
    BY <1>12
  <2>2. e[1 + k] = Event("call", call)
    BY <2>1, <1>13, <1>17
  <2>3. 1 + k \in 1 .. Len(e)
    BY <1>10, <1>11, <1>13, <1>17
  <2>4. e[1 + k].kind = "call" /\ e[1 + k].call = call
    BY <2>2, EventIs
  <2> QED
    BY <2>3, <2>4 DEF Holds
<1> DEFINE piece == <<x>>
<1>20. IsSeq(piece) /\ Len(piece) = 1 /\ piece[1] = x
  BY One
<1> HIDE DEF piece
<1>21. (\A k \in 1 .. Len(piece) : piece[k] = x /\ ElementEvents("chat", piece[k]) = e)
         /\ 1 \in 1 .. Len(piece)
  BY <1>16, <1>20
<1>22. AssistantPiece("chat", piece, own)
  <2>1. \A k \in 1 .. Len(piece) : piece[k].role = "assistant" /\ IsSeq(ElementEvents("chat", piece[k]))
    BY <1>3, <1>17, <1>21
  <2>2. \A k \in 1 .. Len(piece) : \A l \in 1 .. Len(ElementEvents("chat", piece[k])) :
          /\ ElementEvents("chat", piece[k])[l].kind \in {"call", "said"}
          /\ ElementEvents("chat", piece[k])[l].kind = "call"
               => ElementEvents("chat", piece[k])[l].call \in own
    <3>1. ASSUME NEW k \in 1 .. Len(piece), NEW l \in 1 .. Len(ElementEvents("chat", piece[k]))
          PROVE  /\ ElementEvents("chat", piece[k])[l].kind \in {"call", "said"}
                 /\ ElementEvents("chat", piece[k])[l].kind = "call"
                      => ElementEvents("chat", piece[k])[l].call \in own
      <4>1. ElementEvents("chat", piece[k]) = e
        BY <1>21
      <4>2. l \in 1 .. Len(e)
        BY <4>1
      <4> QED
        BY <4>1, <4>2, <1>18
    <3> QED
      BY <3>1
  <2>3. \A call \in own : \E k \in 1 .. Len(piece) :
          Holds(ElementEvents("chat", piece[k]), "call", call)
    BY <1>19, <1>21
  <2> QED
    BY <2>1, <2>2, <2>3, <1>20 DEF AssistantPiece
<1> QED
  BY <1>2, <1>3, <1>8, <1>22 DEF piece

\* What the messages can be sent of their identities.
BorneOf(api, messages) == [t \in 1 .. Len(messages) |-> BorneIds(api, messages[t].content)]

LEMMA ChatsPayload ==
    ASSUME NEW messages, NEW U, NEW calls, NEW ids, Ready(messages, U, calls, ids), NEW toClaude,
           NEW payload, payload = translateToOpenAI(messages, toClaude)
    PROVE  /\ \E pieces, from, col :
                /\ Fits("chat", pieces, Len(messages), U, calls, BorneOf("chat", messages))
                /\ Window(payload, pieces, Len(messages), 1, 1, from, col)
           /\ toClaude => SignaturesStayHome("chat", payload)
<1> DEFINE N == Len(messages)
           borne == BorneOf("chat", messages)
           pieces == [m \in DOMAIN messages |->
                        IF messages[m].role = "user" THEN handleUserMessage(messages[m])
                        ELSE handleAssistantMessage(messages[m], toClaude)]
<1>1. IsSeq(messages) /\ DOMAIN messages = 1 .. N /\ N \in Nat /\ U \subseteq 1 .. N
  BY SeqFacts DEF Ready
<1>2. /\ \A t \in U : \E form, d : /\ messages[t] = UserMessage(form, d) /\ Clean(d)
                                   /\ Answering(d, Asked(calls, t)) /\ ids[t] = ContentIds(d)
      /\ \A t \in (1 .. N) \ U : t + 1 \in U /\ Spoken(messages[t], calls[t])
  BY DEF Ready
<1>3. payload = FlattenSeq(pieces)
  BY DEF translateToOpenAI
<1>4. /\ IsSeq(pieces) /\ Len(pieces) = N
      /\ \A t \in 1 .. N : pieces[t] = IF messages[t].role = "user" THEN handleUserMessage(messages[t])
                                       ELSE handleAssistantMessage(messages[t], toClaude)
  BY <1>1, FunIsSeq
<1>0. \A t \in U : borne[t] = BorneIds("chat", messages[t].content)
  BY <1>1 DEF BorneOf
<1> HIDE DEF pieces, N, borne
<1>5. ASSUME NEW t \in U
      PROVE  /\ UserPiece("chat", pieces[t], Asked(calls, t), borne[t]) /\ IsSeq(pieces[t])
             /\ borne[t] \subseteq ids[t]
  <2>1. PICK form, d : /\ messages[t] = UserMessage(form, d) /\ Clean(d)
                       /\ Answering(d, Asked(calls, t)) /\ ids[t] = ContentIds(d)
    BY <1>2
  <2>2. messages[t].role = "user" /\ messages[t].content = d
    BY <2>1, UserMessageIs
  <2>6. borne[t] = BorneIds("chat", d) /\ borne[t] \subseteq ids[t]
    BY <2>1, <2>2, <1>0, BorneInContent
  <2>3. pieces[t] = handleUserMessage(messages[t])
    BY <2>2, <1>1, <1>4
  <2> DEFINE m == messages[t]
  <2>4. m = UserMessage(form, d)
    BY <2>1
  <2> HIDE DEF m
  <2>5. UserPiece("chat", handleUserMessage(m), Asked(calls, t), BorneIds("chat", d)) /\ IsSeq(handleUserMessage(m))
    BY <2>1, <2>4, ChatUser
  <2> QED
    BY <2>1, <2>3, <2>5, <2>6 DEF m
<1>6. ASSUME NEW t \in (1 .. N) \ U
      PROVE  /\ AssistantPiece("chat", pieces[t], calls[t]) /\ IsSeq(pieces[t])
             /\ \A k \in 1 .. Len(pieces[t]) : toClaude => ~HasAt(pieces[t][k].reasoning_opaque)
  <2>1. Spoken(messages[t], calls[t])
    BY <1>2
  <2>2. messages[t].role # "user"
    BY <2>1 DEF Spoken
  <2>3. pieces[t] = handleAssistantMessage(messages[t], toClaude)
    BY <2>2, <1>1, <1>4
  <2>4. /\ AssistantPiece("chat", pieces[t], calls[t])
        /\ \E e : pieces[t] = <<e>> /\ e.role = "assistant" /\ (toClaude => ~HasAt(e.reasoning_opaque))
    BY <2>1, <2>3, ChatAssistant
  <2>5. PICK e : pieces[t] = <<e>> /\ e.role = "assistant" /\ (toClaude => ~HasAt(e.reasoning_opaque))
    BY <2>4
  <2>6. IsSeq(pieces[t]) /\ Len(pieces[t]) = 1 /\ pieces[t][1] = e
    BY <2>5, One
  <2> QED
    BY <2>4, <2>5, <2>6
<1>7. \A t \in 1 .. N : IsSeq(pieces[t])
  BY <1>5, <1>6
<1>8. PICK row, col : Window(payload, pieces, N, 1, 1, row, col)
  BY <1>3, <1>4, <1>7, LaidWindow
<1>9. Fits("chat", pieces, N, U, calls, borne)
  BY <1>5, <1>6, FitsOf DEF N
<1>10. ASSUME toClaude PROVE SignaturesStayHome("chat", payload)
  <2>1. /\ IsSeq(payload) /\ row \in [1 .. Len(payload) -> 1 .. N]
        /\ \A i \in 1 .. Len(payload) :
             col[i] \in 1 .. Len(pieces[row[i]]) /\ payload[i] = pieces[row[i]][col[i]]
    BY <1>8 DEF Window
  <2>2. DOMAIN payload = 1 .. Len(payload)
    BY <2>1, SeqFacts
  <2>3. ASSUME NEW i \in 1 .. Len(payload), payload[i].role = "assistant"
        PROVE  ~HasAt(payload[i].reasoning_opaque)
    <3>1. PICK t \in 1 .. N : t = row[i]
      BY <2>1
    <3>2. PICK k \in 1 .. Len(pieces[t]) : k = col[i]
      BY <2>1, <3>1
    <3>3. payload[i] = pieces[t][k]
      BY <2>1, <3>1, <3>2
    <3>4. t \notin U
      <4>1. ASSUME t \in U PROVE FALSE
        <5>1. pieces[t][k].role # "assistant"
          BY <1>5, <4>1 DEF UserPiece
        <5> QED
          BY <5>1, <3>3, <2>3
      <4> QED
        BY <4>1
    <3> QED
      BY <1>6, <1>10, <3>3, <3>4
  <2> QED
    BY <2>2, <2>3 DEF SignaturesStayHome
<1> QED
  BY <1>8, <1>9, <1>10 DEF N, borne

-----------------------------------------------------------------------------
(* The Responses API                                                       *)

\* One block further on.
Onward(role, acc, block) ==
  IF OwnItem(block) # <<>>
    THEN [items   |-> acc.items \o flushPendingContent(role, acc.pending) \o OwnItem(block),
          pending |-> <<>>]
    ELSE [acc EXCEPT !.pending = @ \o MessagePart(block)]

Went(role, items, pending, b) ==
  IF OwnItem(b) # <<>>
    THEN [items |-> items \o flushPendingContent(role, pending) \o OwnItem(b), pending |-> <<>>]
    ELSE [items |-> items, pending |-> pending \o MessagePart(b)]

\* The blocks of c taken one after the other; f[k] is what the first k of them have become.
Walk(f, role, c) ==
  /\ f[0] = [items |-> <<>>, pending |-> <<>>]
  /\ \A k \in 1 .. Len(c) :
       f[k] = Went(role, f[k - 1].items, f[k - 1].pending, c[k])

Walks(f, role, c, n) ==
  f = [k \in 0 .. n |-> IF k = 0 THEN [items |-> <<>>, pending |-> <<>>]
                                 ELSE Onward(role, f[k - 1], c[k])]

LEMMA OnwardIs ==
    ASSUME NEW role, NEW items, NEW pending, NEW b
    PROVE  Onward(role, [items |-> items, pending |-> pending], b)
             = Went(role, items, pending, b)
<1> DEFINE acc == [items |-> items, pending |-> pending]
<1>1. acc.items = items /\ acc.pending = pending
  OBVIOUS
<1>2. \A x : [acc EXCEPT !.pending = x] = [items |-> items, pending |-> x]
  OBVIOUS
<1>3. [acc EXCEPT !.pending = @ \o MessagePart(b)] = [items |-> items, pending |-> pending \o MessagePart(b)]
  BY <1>1, <1>2
<1> HIDE DEF acc
<1>4. Onward(role, acc, b) = IF OwnItem(b) # <<>>
                 THEN [items   |-> items \o flushPendingContent(role, pending) \o OwnItem(b),
                       pending |-> <<>>]
                 ELSE [items |-> items, pending |-> pending \o MessagePart(b)]
  BY <1>1, <1>3 DEF Onward
<1> QED
  BY <1>4 DEF acc, Went

LEMMA WalkExists ==
    ASSUME NEW role, NEW c, NEW n \in Nat
    PROVE  \E f : Walks(f, role, c, n)
<1> DEFINE start == [items |-> <<>>, pending |-> <<>>]
           Val(f, k) == IF k = 0 THEN start ELSE Onward(role, f[k - 1], c[k])
           To(j) == \E f : f = [k \in 0 .. j |-> Val(f, k)]
           S == {j \in Nat : To(j)}
<1> HIDE DEF start
<1>1. 0 \in S
  <2> DEFINE f == [k \in 0 .. 0 |-> start]
  <2>1. \A k \in 0 .. 0 : Val(f, k) = start
    OBVIOUS
  <2> HIDE DEF Val
  <2>2. f = [k \in 0 .. 0 |-> Val(f, k)]
    BY <2>1
  <2> QED
    BY <2>2
<1>2. ASSUME NEW j \in Nat, j \in S PROVE j + 1 \in S
  <2>1. PICK f : f = [k \in 0 .. j |-> Val(f, k)]
    BY <1>2
  <2> DEFINE next == Onward(role, f[j], c[j + 1])
             g == [k \in 0 .. j + 1 |-> IF k <= j THEN f[k] ELSE next]
  <2>2. \A k \in 0 .. j : g[k] = f[k] /\ f[k] = Val(f, k)
    BY <2>1
  <2>3. g[j + 1] = next
    OBVIOUS
  <2>4. ASSUME NEW k \in 0 .. j + 1 PROVE g[k] = Val(g, k)
    <3> HIDE DEF g
    <3>1. CASE k = 0
      <4>1. g[0] = Val(f, 0)
        BY <2>2
      <4> QED
        BY <3>1, <4>1
    <3>2. CASE k \in 1 .. j
      <4>1. g[k] = Val(f, k) /\ k - 1 \in 0 .. j /\ k # 0
        BY <3>2, <2>2
      <4>2. g[k - 1] = f[k - 1]
        BY <4>1, <2>2
      <4> QED
        BY <4>1, <4>2
    <3>3. CASE k = j + 1
      <4>1. g[j] = f[j] /\ k - 1 = j /\ k # 0
        BY <3>3, <2>2
      <4> QED
        BY <3>3, <4>1, <2>3
    <3> QED
      BY <3>1, <3>2, <3>3
  <2>5. g = [k \in 0 .. j + 1 |-> g[k]]
    OBVIOUS
  <2> HIDE DEF g, Val
  <2>6. g = [k \in 0 .. j + 1 |-> Val(g, k)]
    BY <2>4, <2>5
  <2>7. To(j + 1)
    BY <2>6
  <2> QED
    BY <2>7
<1> HIDE DEF To
<1>3. \A j \in Nat : j \in S
  <2> HIDE DEF S
  <2> QED
    BY <1>1, <1>2, Induction
<1>4. To(n)
  BY <1>3
<1> QED
  BY <1>4 DEF To, start, Walks

LEMMA Walked ==
    ASSUME NEW m, NEW c, m.content = c, IsSeq(c)
    PROVE  \E f : /\ Walk(f, m.role, c)
                  /\ translateMessage(m) = f[Len(c)].items
                                             \o flushPendingContent(m.role, f[Len(c)].pending)
<1> DEFINE n == Len(c)
           start == [items |-> <<>>, pending |-> <<>>]
           Eq(f) == f = [k \in 0 .. n |-> IF k = 0 THEN start ELSE Onward(m.role, f[k - 1], c[k])]
           F == CHOOSE f : Eq(f)
<1>1. n \in Nat
  BY SeqFacts
<1>2. translateMessage(m) = F[n].items \o flushPendingContent(m.role, F[n].pending)
  BY DEF translateMessage, Onward
<1>3. \E f : Eq(f)
  <2>1. \E f : Walks(f, m.role, c, n)
    <3> HIDE DEF n
    <3> QED
      BY <1>1, WalkExists
  <2> QED
    BY <2>1 DEF Walks
<1>4. Eq(F)
  <2> HIDE DEF Eq
  <2> QED
    BY <1>3
<1> HIDE DEF F, n, start
<1>5. F[0] = start /\ \A k \in 1 .. n : F[k] = Onward(m.role, F[k - 1], c[k])
  BY <1>1, <1>4
<1> DEFINE Rec(k) == F[k] = [items |-> F[k].items, pending |-> F[k].pending]
           S == {k \in Nat : k <= n => Rec(k)}
<1>6. 0 \in S
  BY <1>5 DEF start
<1>7. ASSUME NEW k \in Nat, k \in S PROVE k + 1 \in S
  <2>1. ASSUME k + 1 <= n PROVE Rec(k + 1)
    <3>1. F[k + 1] = Onward(m.role, F[k], c[k + 1])
      <4>1. k + 1 \in 1 .. n /\ k + 1 - 1 = k
        BY <2>1, <1>1
      <4> QED
        BY <4>1, <1>5
    <3>2. Rec(k)
      BY <2>1, <1>1, <1>7
    <3>2a. PICK a, p : F[k] = [items |-> a, pending |-> p]
      BY <3>2
    <3>2b. F[k].items = a /\ F[k].pending = p
      BY <3>2a
    <3>3. F[k + 1] = Went(m.role, F[k].items, F[k].pending, c[k + 1])
      <4>1. F[k + 1] = Onward(m.role, [items |-> a, pending |-> p], c[k + 1])
        BY <3>1, <3>2a
      <4>2. F[k + 1] = Went(m.role, a, p, c[k + 1])
        BY <4>1, OnwardIs
      <4> QED
        BY <4>2, <3>2b
    <3>4. \E x, y : F[k + 1] = [items |-> x, pending |-> y]
      BY <3>3 DEF Went
    <3> QED
      BY <3>4
  <2> QED
    BY <2>1
<1>8. \A k \in Nat : k \in S
  <2> HIDE DEF S
  <2> QED
    BY <1>6, <1>7, Induction
<1>9. Walk(F, m.role, c)
  <2>1. ASSUME NEW k \in 1 .. n
        PROVE  F[k] = Went(m.role, F[k - 1].items, F[k - 1].pending, c[k])
    <3>1. F[k] = Onward(m.role, F[k - 1], c[k])
      BY <1>5
    <3>2. k - 1 \in Nat /\ k - 1 <= n
      BY <1>1
    <3>3. Rec(k - 1)
      BY <3>2, <1>8
    <3>4. PICK a, p : F[k - 1] = [items |-> a, pending |-> p]
      BY <3>3
    <3>5. F[k - 1].items = a /\ F[k - 1].pending = p
      BY <3>4
    <3>6. F[k] = Onward(m.role, [items |-> a, pending |-> p], c[k])
      BY <3>1, <3>4
    <3>7. F[k] = Went(m.role, a, p, c[k])
      BY <3>6, OnwardIs
    <3> QED
      BY <3>5, <3>7
  <2> QED
    BY <2>1, <1>5 DEF Walk, start, n
<1> QED
  BY <1>2, <1>9 DEF n

LEMMA ResultsPrefix ==
    ASSUME NEW d, Clean(d), NEW C, Answering(d, C)
    PROVE  \E R \in 0 .. Len(d) : ResultsAt(d) = 1 .. R
<1> DEFINE O == (1 .. Len(d)) \ ResultsAt(d)
<1>1. Len(d) \in Nat /\ ResultsAt(d) \subseteq 1 .. Len(d)
  BY Kinds DEF ResultsAt
<1>2. \A i \in ResultsAt(d) : \A j \in O : i < j
  BY DEF Answering
<1>3. CASE O = {}
  <2>1. ResultsAt(d) = 1 .. Len(d)
    BY <1>1, <1>3
  <2> QED
    BY <2>1, <1>1
<1>4. CASE O # {}
  <2>1. O \subseteq Nat
    BY <1>1
  <2>2. PICK x \in O : \A y \in O : ~(y < x)
    BY <2>1, <1>4, NatLeast
  <2>3. x \in 1 .. Len(d)
    OBVIOUS
  <2>4. ASSUME NEW i \in 1 .. Len(d) PROVE i \in ResultsAt(d) <=> i <= x - 1
    <3>1. i \in ResultsAt(d) => i < x
      BY <1>2
    <3>2. i \notin ResultsAt(d) => ~(i < x)
      BY <2>2
    <3> QED
      BY <3>1, <3>2, <2>3
  <2>5. ResultsAt(d) = 1 .. x - 1
    <3>1. ASSUME NEW i \in 1 .. x - 1 PROVE i \in ResultsAt(d)
      <4>1. i \in 1 .. Len(d) /\ i <= x - 1
        BY <1>1, <2>3
      <4> QED
        BY <4>1, <2>4
    <3>2. ASSUME NEW i \in ResultsAt(d) PROVE i \in 1 .. x - 1
      <4>1. i \in 1 .. Len(d)
        BY <1>1
      <4>2. i <= x - 1
        BY <4>1, <2>4
      <4> QED
        BY <4>1, <4>2, <2>3
    <3> QED
      BY <3>1, <3>2
  <2>6. x - 1 \in 0 .. Len(d)
    BY <2>3
  <2> QED
    BY <2>5, <2>6
<1> QED
  BY <1>3, <1>4

Output(b) == FunctionCallOutput(b.call, convertToolResultContent(b.content))

LEMMA OwnItemIs ==
    ASSUME NEW b
    PROVE  /\ b.type = "tool_result" => OwnItem(b) = <<Output(b)>>
           /\ b.type = "tool_use" => OwnItem(b) = <<FunctionCall(b.call)>>
           /\ b.type \in {"text"} \cup Attachments => OwnItem(b) = <<>> /\ MessagePart(b) = <<InputPart(b)>>
           /\ b.type = "thinking" =>
                /\ OwnItem(b) = CASE b.signature.by = "compaction" -> << Compaction(b.signature.of) >>
                                  [] b.signature.by = "responses" -> << createReasoningContent(b) >>
                                  [] OTHER -> <<>>
                /\ MessagePart(b) = <<>>
<1>1. b.type = "tool_result" => OwnItem(b) = <<Output(b)>>
  BY DEF OwnItem, Output
<1>2. b.type = "tool_use" => OwnItem(b) = <<FunctionCall(b.call)>>
  BY DEF OwnItem
<1>3. b.type \in {"text"} \cup Attachments => OwnItem(b) = <<>> /\ MessagePart(b) = <<InputPart(b)>>
  BY DEF OwnItem, MessagePart, Attachments
<1>4. ASSUME b.type = "thinking"
      PROVE  OwnItem(b) = CASE b.signature.by = "compaction" -> << Compaction(b.signature.of) >>
                            [] b.signature.by = "responses" -> << createReasoningContent(b) >>
                            [] OTHER -> <<>>
  BY <1>4 DEF OwnItem
<1>5. b.type = "thinking" => MessagePart(b) = <<>>
  BY DEF MessagePart, Attachments
<1> QED
  BY <1>1, <1>2, <1>3, <1>4, <1>5

LEMMA InputIds ==
    ASSUME NEW s, Plain(s), NEW f, f = [i \in 1 .. Len(s) |-> InputPart(s[i])]
    PROVE  IsSeq(f) /\ IsSeq(Ids(f)) /\ ToSet(Ids(f)) = PartIds(s) /\ IsInjective(Ids(f))
<1>1. IsSeq(s) /\ Len(s) \in Nat
  BY SeqFacts DEF Plain
<1>2. IsSeq(f) /\ Len(f) = Len(s) /\ \A i \in 1 .. Len(s) : f[i] = InputPart(s[i])
  BY <1>1, FunIsSeq
<1>3. \A i \in 1 .. Len(s) : f[i].type = s[i].type /\ f[i].id = s[i].id
  BY <1>2 DEF InputPart
<1>4. \A i \in 1 .. Len(f) : f[i].type \notin {"tool_use", "tool_result", "thinking", "notice"}
  BY <1>2, <1>3 DEF Plain, Attachments
<1>5. \A i, j \in 1 .. Len(f) : f[i].id = f[j].id => i = j
  <2>1. ASSUME NEW i \in 1 .. Len(f), NEW j \in 1 .. Len(f), f[i].id = f[j].id PROVE i = j
    <3>1. s[i].id = s[j].id
      BY <2>1, <1>2, <1>3
    <3> QED
      BY <3>1, <1>2 DEF Plain
  <2> QED
    BY <2>1
<1>6. PartIds(f) = PartIds(s)
  BY <1>2, <1>3 DEF PartIds
<1>7. IsSeq(Ids(f)) /\ ToSet(Ids(f)) = PartIds(f) /\ IsInjective(Ids(f))
  BY <1>2, <1>4, <1>5, IdsOf
<1> QED
  BY <1>2, <1>6, <1>7

\* The result of a call, and what stands beside the results, as items.
LEMMA OutputIs ==
    ASSUME NEW b, IsResult(b)
    PROVE  /\ ElementEvents("responses", Output(b)) = <<Event("result", b.call)>>
           /\ Brings("responses", Output(b), BlockIds(b)) /\ Output(b).type # "compaction"
<1> DEFINE m == Output(b)
           f == [i \in 1 .. Len(b.content) |-> InputPart(b.content[i])]
<1>1. Plain(b.content) /\ b.type = "tool_result"
  BY ResultTyped
<1>2. convertToolResultContent(b.content) = f
  <2>1. DOMAIN b.content = 1 .. Len(b.content)
    BY <1>1, SeqFacts DEF Plain
  <2> QED
    BY <2>1 DEF convertToolResultContent
<1>3. m.type = "function_call_output" /\ m.role = "user" /\ m.call = b.call /\ m.content = f
  BY <1>2 DEF Output, FunctionCallOutput, Item
<1> HIDE DEF m
<1>4. IsSeq(Ids(f)) /\ ToSet(Ids(f)) = PartIds(b.content) /\ IsInjective(Ids(f))
  BY <1>1, InputIds
<1>5. ElementIds("responses", m) = Ids(f)
  BY <1>3 DEF ElementIds
<1>6. ElementEvents("responses", m) = <<Event("result", b.call)>>
  BY <1>3 DEF ElementEvents
<1>7. BlockIds(b) = PartIds(b.content)
  BY <1>1 DEF BlockIds
<1> HIDE DEF f
<1>8. Brings("responses", m, BlockIds(b))
  BY <1>3, <1>4, <1>5, <1>7 DEF Brings
<1> QED
  BY <1>3, <1>6, <1>8 DEF m

LEMMA ItemWordIs ==
    ASSUME NEW s, Plain(s), NEW f, f = [i \in 1 .. Len(s) |-> InputPart(s[i])],
           NEW m, m = MessageItem("user", f)
    PROVE  /\ ElementEvents("responses", m) = <<Event("word", <<>>)>>
           /\ Brings("responses", m, PartIds(s)) /\ m.type # "compaction"
<1>1. m.type = "message" /\ m.role = "user" /\ m.content = f
  BY DEF MessageItem, Item
<1>2. IsSeq(Ids(f)) /\ ToSet(Ids(f)) = PartIds(s) /\ IsInjective(Ids(f))
  BY InputIds
<1>3. ElementIds("responses", m) = Ids(f)
  BY <1>1 DEF ElementIds
<1>4. Word(m) = Event("word", <<>>)
  BY <1>1, BlockEventIs
<1>5. ElementEvents("responses", m) = <<Word(m)>>
  BY <1>1 DEF ElementEvents
<1> QED
  BY <1>1, <1>2, <1>3, <1>4, <1>5 DEF Brings

LEMMA AppendOne ==
    ASSUME NEW s, IsSeq(s), NEW x
    PROVE  /\ IsSeq(s \o <<x>>) /\ Len(s \o <<x>>) = Len(s) + 1 /\ (s \o <<x>>)[Len(s) + 1] = x
           /\ \A i \in 1 .. Len(s) : (s \o <<x>>)[i] = s[i]
<1> DEFINE u == <<x>>
<1>1. IsSeq(u) /\ Len(u) = 1 /\ u[1] = x
  BY One
<1>2. Len(s) \in Nat
  BY SeqFacts
<1> HIDE DEF u
<1>3. /\ IsSeq(s \o u) /\ Len(s \o u) = Len(s) + Len(u)
      /\ \A i \in 1 .. Len(s) : (s \o u)[i] = s[i]
      /\ \A i \in 1 .. Len(u) : (s \o u)[Len(s) + i] = u[i]
  <2>1. IsSeq(s) /\ IsSeq(u)
    BY <1>1
  <2>2. IsSeq(s \o u) /\ Len(s \o u) = Len(s) + Len(u)
    BY ONLY <2>1, Concat
  <2>3. \A i \in 1 .. Len(s) : (s \o u)[i] = s[i]
    BY ONLY <2>1, Concat
  <2>4. \A i \in 1 .. Len(u) : (s \o u)[Len(s) + i] = u[i]
    BY ONLY <2>1, Concat
  <2> QED
    BY <2>2, <2>3, <2>4
<1>4. /\ IsSeq(s \o u) /\ Len(s \o u) = Len(s) + 1 /\ (s \o u)[Len(s) + 1] = x
      /\ \A i \in 1 .. Len(s) : (s \o u)[i] = s[i]
  BY <1>1, <1>2, <1>3
<1> QED
  BY <1>4 DEF u

LEMMA AppendNone ==
    ASSUME NEW s, IsSeq(s) PROVE s \o <<>> = s
  BY DEF IsSeq

\* acc: what the first r results and the first n of the rest have become.
UserWalked(acc, d, R, r, n) ==
  /\ IsSeq(acc.items) /\ Len(acc.items) = r /\ \A i \in 1 .. r : acc.items[i] = Output(d[i])
  /\ IsSeq(acc.pending) /\ Len(acc.pending) = n
  /\ \A i \in 1 .. n : acc.pending[i] = InputPart(d[R + i])

\* A user message is walked: first its results, each an item; then the rest, held together.
LEMMA UserWalk ==
    ASSUME NEW d, Clean(d), NEW R \in 0 .. Len(d), ResultsAt(d) = 1 .. R,
           NEW role, NEW f, Walk(f, role, d)
    PROVE  UserWalked(f[Len(d)], d, R, R, Len(d) - R)
<1> DEFINE L == Len(d)
           Good(k) == IF k <= R THEN UserWalked(f[k], d, R, k, 0) ELSE UserWalked(f[k], d, R, R, k - R)
           S == {k \in Nat : k <= L => Good(k)}
<1>1. L \in Nat /\ R \in Nat /\ R <= L
  BY Kinds
<1>2. /\ f[0] = [items |-> <<>>, pending |-> <<>>]
      /\ \A k \in 1 .. L : f[k] = Went(role, f[k - 1].items, f[k - 1].pending, d[k])
  BY DEF Walk
<1>3. \A k \in 1 .. R : OwnItem(d[k]) = <<Output(d[k])>>
  <2>1. \A k \in 1 .. R : d[k].type = "tool_result"
    BY DEF ResultsAt
  <2> QED
    BY <2>1, OwnItemIs
<1>4. ASSUME NEW k \in 1 .. L, k > R PROVE OwnItem(d[k]) = <<>> /\ MessagePart(d[k]) = <<InputPart(d[k])>>
  <2>1. k \in TextsAt(d) \cup AttachedAt(d)
    BY <1>1, <1>4, Kinds
  <2>2. d[k].type \in {"text"} \cup Attachments
    BY <2>1 DEF TextsAt, AttachedAt
  <2> QED
    BY <2>2, OwnItemIs
<1>5. 0 \in S
  <2>1. f[0].items = <<>> /\ f[0].pending = <<>>
    BY <1>2
  <2>2. IsSeq(f[0].items) /\ Len(f[0].items) = 0 /\ IsSeq(f[0].pending) /\ Len(f[0].pending) = 0
    BY <2>1, None
  <2>3. Good(0)
    <3>1. UserWalked(f[0], d, R, 0, 0)
      BY <2>2 DEF UserWalked
    <3> QED
      BY <3>1, <1>1
  <2> QED
    BY <2>3
<1>6. ASSUME NEW k \in Nat, k \in S PROVE k + 1 \in S
  <2>0. SUFFICES ASSUME k + 1 <= L PROVE Good(k + 1)
    OBVIOUS
  <2> DEFINE a == f[k].items
             p == f[k].pending
             b == d[k + 1]
             r == IF k <= R THEN k ELSE R
  <2>1. /\ IsSeq(a) /\ Len(a) = r /\ \A i \in 1 .. r : a[i] = Output(d[i])
        /\ IsSeq(p) /\ Len(p) = k - r
        /\ \A i \in 1 .. k - r : p[i] = InputPart(d[R + i])
    <3>1. Good(k)
      BY <1>6, <2>0, <1>1
    <3>2. UserWalked(f[k], d, R, r, k - r)
      <4>1. CASE k <= R
        <5>1. k - r = 0 /\ r = k
          BY <4>1, <1>1
        <5> QED
          BY <3>1, <4>1, <5>1
      <4>2. CASE ~(k <= R)
        BY <3>1, <4>2
      <4> QED
        BY <4>1, <4>2
    <3> HIDE DEF r
    <3> QED
      BY <3>2 DEF UserWalked
  <2>2. f[k + 1] = Went(role, a, p, b)
    <3>1. k + 1 \in 1 .. L /\ k + 1 - 1 = k
      BY <2>0, <1>1
    <3> QED
      BY <3>1, <1>2
  <2> HIDE DEF a, p
  <2>3. CASE k + 1 <= R
    <3>1. OwnItem(b) = <<Output(b)>> /\ r = k
      <4>1. k + 1 \in 1 .. R
        BY <2>3, <1>1
      <4> QED
        BY <4>1, <1>3, <2>3
    <3>2. Len(p) = 0 /\ p = <<>>
      <4>1. Len(p) = 0
        BY <3>1, <2>1
      <4> QED
        BY <4>1, <2>1, SeqFacts
    <3>3. flushPendingContent(role, p) = <<>>
      BY <3>2 DEF flushPendingContent
    <3> DEFINE v == Output(b)
               t == a \o <<v>>
    <3> HIDE DEF v
    <3>4. a \o <<>> = a /\ <<v>> # <<>>
      BY <2>1, AppendNone, One
    <3>5. Went(role, a, p, b) = [items |-> t, pending |-> <<>>]
      BY <3>1, <3>3, <3>4 DEF Went, v
    <3>6. IsSeq(t) /\ Len(t) = Len(a) + 1 /\ t[Len(a) + 1] = v /\ \A i \in 1 .. Len(a) : t[i] = a[i]
      <4>1. IsSeq(a)
        BY <2>1
      <4> QED
        BY <4>1, AppendOne
    <3> HIDE DEF t
    <3>7. f[k + 1].items = t /\ f[k + 1].pending = <<>>
      BY <2>2, <3>5
    <3>8. Len(t) = k + 1 /\ \A i \in 1 .. k + 1 : t[i] = Output(d[i])
      <4>1. Len(t) = k + 1 /\ t[k + 1] = Output(d[k + 1])
        BY <2>1, <3>1, <3>6 DEF v
      <4>2. \A i \in 1 .. k : t[i] = Output(d[i])
        BY <2>1, <3>1, <3>6
      <4> QED
        BY <4>1, <4>2
    <3>9. IsSeq(f[k + 1].pending) /\ Len(f[k + 1].pending) = 0
      BY <3>7, None
    <3>10. UserWalked(f[k + 1], d, R, k + 1, 0)
      BY <3>6, <3>7, <3>8, <3>9 DEF UserWalked
    <3> QED
      BY <2>3, <3>10
  <2>4. CASE ~(k + 1 <= R)
    <3>1. OwnItem(b) = <<>> /\ MessagePart(b) = <<InputPart(b)>> /\ r = R
      <4>1. k + 1 \in 1 .. L /\ k + 1 > R
        BY <2>0, <2>4, <1>1
      <4> QED
        BY <4>1, <1>1, <1>4
    <3> DEFINE v == InputPart(b)
               t == p \o <<v>>
    <3> HIDE DEF v
    <3>2. Went(role, a, p, b) = [items |-> a, pending |-> t]
      BY <3>1 DEF Went, v
    <3>3. IsSeq(t) /\ Len(t) = Len(p) + 1 /\ t[Len(p) + 1] = v /\ \A i \in 1 .. Len(p) : t[i] = p[i]
      <4>1. IsSeq(p)
        BY <2>1
      <4> HIDE DEF p
      <4> QED
        BY ONLY <4>1, AppendOne
    <3> HIDE DEF t
    <3>4. f[k + 1].items = a /\ f[k + 1].pending = t
      BY <2>2, <3>2
    <3>5. Len(t) = k + 1 - R /\ \A i \in 1 .. k + 1 - R : t[i] = InputPart(d[R + i])
      <4>1. Len(p) = k - R /\ Len(t) = k + 1 - R
        BY <2>1, <2>4, <3>1, <3>3, <1>1
      <4>2. t[k + 1 - R] = InputPart(d[R + (k + 1 - R)])
        <5>1. R + (k + 1 - R) = k + 1 /\ k - R + 1 = k + 1 - R
          BY <1>1
        <5> QED
          BY <4>1, <5>1, <3>3 DEF v
      <4>3. \A i \in 1 .. k - R : t[i] = InputPart(d[R + i])
        BY <2>1, <3>1, <3>3
      <4>4. \A i \in 1 .. k + 1 - R : i \in 1 .. k - R \/ i = k + 1 - R
        BY <1>1
      <4> QED
        BY <4>1, <4>2, <4>3, <4>4
    <3>6. Len(a) = R /\ \A i \in 1 .. R : a[i] = Output(d[i])
      BY <2>1, <3>1
    <3>7. UserWalked(f[k + 1], d, R, R, k + 1 - R)
      BY <2>1, <3>3, <3>4, <3>5, <3>6 DEF UserWalked
    <3> QED
      BY <2>4, <3>7
  <2> QED
    BY <2>3, <2>4
<1>7. \A k \in Nat : k \in S
  <2> HIDE DEF S
  <2> QED
    BY <1>5, <1>6, Induction
<1>8. Good(L)
  <2> HIDE DEF Good
  <2>1. L \in S
    BY <1>1, <1>7
  <2> QED
    BY <2>1, <1>1
<1>9. CASE L <= R
  <2>1. L = R /\ L - R = 0
    BY <1>1, <1>9
  <2> QED
    BY <1>8, <1>9, <2>1
<1>10. CASE ~(L <= R)
  BY <1>8, <1>10
<1> QED
  BY <1>9, <1>10

\* No element of a piece is a compaction.
Whole(piece) == \A k \in 1 .. Len(piece) : piece[k].type # "compaction"

LEMMA ResponsesUser ==
    ASSUME NEW m, NEW form, NEW d, m = UserMessage(form, d), Clean(d), NEW asked, Answering(d, asked)
    PROVE  /\ UserPiece("responses", translateMessage(m), asked, ContentIds(d))
           /\ IsSeq(translateMessage(m)) /\ Whole(translateMessage(m))
<1>1. m.content = d /\ m.role = "user"
  BY UserMessageIs
<1>2. IsSeq(d) /\ Len(d) \in Nat
  BY Kinds
<1>3. PICK R \in 0 .. Len(d) : ResultsAt(d) = 1 .. R
  BY ResultsPrefix
<1>4. PICK f : /\ Walk(f, m.role, d)
               /\ translateMessage(m) = f[Len(d)].items
                                          \o flushPendingContent(m.role, f[Len(d)].pending)
  BY <1>1, <1>2, Walked
<1> DEFINE L == Len(d)
           items == f[L].items
           pending == f[L].pending
           last == MessageItem("user", pending)
           piece == translateMessage(m)
           O == (1 .. L) \ ResultsAt(d)
           s == [i \in 1 .. L - R |-> d[R + i]]
           p == [k \in 1 .. R |-> k]
<1>5. UserWalked(f[L], d, R, R, L - R)
  BY <1>3, <1>4, UserWalk
<1>6. /\ IsSeq(items) /\ Len(items) = R /\ \A i \in 1 .. R : items[i] = Output(d[i])
      /\ IsSeq(pending) /\ Len(pending) = L - R
      /\ \A i \in 1 .. L - R : pending[i] = InputPart(d[R + i])
  BY <1>5 DEF UserWalked
<1>7. piece = items \o flushPendingContent("user", pending)
  BY <1>1, <1>4
<1> HIDE DEF items, pending, L, last, piece
<1>8. L \in Nat /\ R \in Nat /\ R <= L
  BY <1>2, <1>3 DEF L
<1>9. \A i \in 1 .. R : i \in 1 .. L /\ IsResult(d[i])
  BY <1>3, <1>8, Kinds DEF L
<1>10. \A i \in 1 .. R : /\ ElementEvents("responses", Output(d[i])) = <<Event("result", d[i].call)>>
                         /\ Brings("responses", Output(d[i]), BlockIds(d[i]))
                         /\ Output(d[i]).type # "compaction"
  BY <1>9, OutputIs
<1>11. IsSeq(s) /\ Len(s) = L - R /\ \A i \in 1 .. L - R : s[i] = d[R + i]
  <2>1. L - R \in Nat
    BY <1>8
  <2> QED
    BY <2>1, FunIsSeq
<1> HIDE DEF s
<1>12. ASSUME NEW i \in 1 .. L - R
       PROVE  /\ R + i \in O /\ R + i \in 1 .. L /\ d[R + i].type \in {"text"} \cup Attachments
              /\ BlockIds(d[R + i]) = {d[R + i].id}
  <2>1. R + i \in 1 .. L /\ R + i \notin 1 .. R
    BY <1>8
  <2>2. R + i \in O
    BY <2>1, <1>3
  <2>3. R + i \in TextsAt(d) \cup AttachedAt(d)
    BY <2>2, Kinds DEF L
  <2>4. d[R + i].type \in {"text"} \cup Attachments
    BY <2>3 DEF TextsAt, AttachedAt
  <2>5. BlockIds(d[R + i]) = {d[R + i].id}
    BY <2>4 DEF BlockIds, Attachments
  <2> QED
    BY <2>1, <2>2, <2>4, <2>5
<1>13. Plain(s) /\ PartIds(s) = IdsAt(d, O)
  <2>1. \A i \in 1 .. Len(s) : s[i].type \in {"text", "tool_reference"} \cup Attachments
    BY <1>11, <1>12
  <2>2. ASSUME NEW i \in 1 .. Len(s), NEW j \in 1 .. Len(s), s[i].id = s[j].id PROVE i = j
    <3>1. /\ R + i \in 1 .. L /\ R + j \in 1 .. L
          /\ d[R + i].id \in BlockIds(d[R + i]) /\ d[R + i].id \in BlockIds(d[R + j])
      BY <2>2, <1>11, <1>12
    <3>2. R + i = R + j
      BY <3>1 DEF Clean, L
    <3> QED
      BY <3>2, <1>8, <1>11
  <2>3. ASSUME NEW x \in PartIds(s) PROVE x \in IdsAt(d, O)
    <3>1. PICK i \in 1 .. Len(s) : x = s[i].id
      BY DEF PartIds
    <3>2. R + i \in O /\ x = d[R + i].id
      BY <3>1, <1>11, <1>12
    <3> QED
      BY <3>2 DEF IdsAt
  <2>4. ASSUME NEW x \in IdsAt(d, O) PROVE x \in PartIds(s)
    <3>1. PICK j \in O : x = d[j].id
      BY DEF IdsAt
    <3>2. j - R \in 1 .. L - R /\ R + (j - R) = j
      BY <1>3, <1>8
    <3>3. j - R \in 1 .. Len(s) /\ s[j - R] = d[j]
      BY <3>2, <1>11
    <3> QED
      BY <3>1, <3>3 DEF PartIds
  <2> QED
    BY <2>1, <2>2, <2>3, <2>4, <1>11 DEF Plain
<1>14. pending = [i \in 1 .. Len(s) |-> InputPart(s[i])]
  <2>1. pending = [i \in 1 .. L - R |-> pending[i]]
    BY <1>6, SeqFacts
  <2>2. \A i \in 1 .. L - R : pending[i] = InputPart(s[i])
    BY <1>6, <1>11
  <2> QED
    BY <2>1, <2>2, <1>11
<1>15. /\ ElementEvents("responses", last) = <<Event("word", <<>>)>>
       /\ Brings("responses", last, IdsAt(d, O)) /\ last.type # "compaction"
  <2>1. last = MessageItem("user", pending)
    BY DEF last
  <2> HIDE DEF O
  <2> QED
    BY <2>1, <1>13, <1>14, ItemWordIs
<1>16. /\ IsSeq(piece)
       /\ \A i \in 1 .. R : piece[i] = items[i]
       /\ \/ L = R /\ Len(piece) = R
          \/ L > R /\ Len(piece) = R + 1 /\ piece[R + 1] = last
  <2>1. CASE L = R
    <3>1. Len(pending) = 0
      BY <2>1, <1>6, <1>8
    <3>2. pending = <<>>
      BY <3>1, <1>6, SeqFacts
    <3>3. flushPendingContent("user", pending) = <<>>
      BY <3>2 DEF flushPendingContent
    <3>4. piece = items
      BY <3>3, <1>6, <1>7, AppendNone
    <3> QED
      BY <2>1, <3>4, <1>6
  <2>2. CASE L > R
    <3>1. Len(pending) # 0
      BY <2>2, <1>6, <1>8
    <3>2. pending # <<>>
      BY <3>1, <1>6, SeqFacts
    <3>3. flushPendingContent("user", pending) = <<last>>
      BY <3>2 DEF flushPendingContent, last
    <3>4. piece = items \o <<last>>
      BY <3>3, <1>7
    <3>5. /\ IsSeq(items \o <<last>>) /\ Len(items \o <<last>>) = Len(items) + 1
          /\ (items \o <<last>>)[Len(items) + 1] = last
          /\ \A i \in 1 .. Len(items) : (items \o <<last>>)[i] = items[i]
      BY <1>6, AppendOne
    <3> QED
      BY <2>2, <3>4, <3>5, <1>6
  <2> QED
    BY <2>1, <2>2, <1>8
<1>17. AnswersThenWords("responses", piece, d, R, p)
  <2>1. Len(piece) \in {R, R + 1}
    BY <1>16
  <2>2. p \in [1 .. R -> ResultsAt(d)] /\ \A k \in 1 .. R : p[k] = k
    BY <1>3
  <2> HIDE DEF p
  <2>3. \A k, l \in 1 .. R : p[k] = p[l] => k = l
    BY <2>2
  <2>4. \A i \in ResultsAt(d) : \E k \in 1 .. R : p[k] = i
    BY <2>2, <1>3
  <2>5. \A k \in 1 .. R : /\ ElementEvents("responses", piece[k]) = <<Event("result", d[p[k]].call)>>
                          /\ Brings("responses", piece[k], BlockIds(d[p[k]]))
    <3>1. ASSUME NEW k \in 1 .. R
          PROVE  /\ ElementEvents("responses", piece[k]) = <<Event("result", d[p[k]].call)>>
                 /\ Brings("responses", piece[k], BlockIds(d[p[k]]))
      <4>1. piece[k] = Output(d[k]) /\ p[k] = k
        BY <2>2, <1>6, <1>16
      <4> QED
        BY <4>1, <1>10
    <3> QED
      BY <3>1
  <2>6. Len(piece) = R => ResultsAt(d) = 1 .. Len(d)
    BY <1>3, <1>8, <1>16 DEF L
  <2>7. Len(piece) = R + 1 =>
          /\ ElementEvents("responses", piece[R + 1]) = <<Event("word", <<>>)>>
          /\ Brings("responses", piece[R + 1], IdsAt(d, (1 .. Len(d)) \ ResultsAt(d)))
    <3>1. Len(piece) = R + 1 => piece[R + 1] = last
      BY <1>8, <1>16
    <3> QED
      BY <3>1, <1>15 DEF L
  <2>8. /\ \A b : Borne("responses", b) = BlockIds(b)
        /\ BorneAt("responses", d, (1 .. Len(d)) \ ResultsAt(d)) = IdsAt(d, (1 .. Len(d)) \ ResultsAt(d))
    BY BorneIs, BorneBeside
  <2> QED
    BY <2>1, <2>2, <2>3, <2>4, <2>5, <2>6, <2>7, <2>8, <1>8, <1>16 DEF AnswersThenWords
<1>18. UserPiece("responses", piece, asked, ContentIds(d))
  <2> HIDE DEF p
  <2>1. BorneIds("responses", d) = ContentIds(d)
    BY BorneInContent
  <2> QED
    BY <2>1, <1>17, PieceOfAnswers
<1>19. Whole(piece)
  <2>1. ASSUME NEW k \in 1 .. Len(piece) PROVE piece[k].type # "compaction"
    <3>1. CASE k \in 1 .. R
      BY <3>1, <1>6, <1>10, <1>16
    <3>2. CASE k = R + 1 /\ Len(piece) = R + 1
      BY <3>2, <1>8, <1>15, <1>16
    <3> QED
      BY <3>1, <3>2, <1>8, <1>16
  <2> QED
    BY <2>1 DEF Whole
<1> QED
  BY <1>16, <1>18, <1>19 DEF piece

Compacting(c) == \E i \in 1 .. Len(c) : c[i].type = "thinking" /\ c[i].signature.by = "compaction"

\* An item that the blocks c may become.
ItemOf(x, c) ==
  /\ x.role = "assistant" /\ x.type \in {"message", "function_call", "reasoning", "compaction"}
  /\ x.type = "function_call" => \E i \in 1 .. Len(c) : c[i].type = "tool_use" /\ x.call = c[i].call
  /\ x.type = "compaction" => Compacting(c)

\* Items that the first k blocks of c have become.
SpokenItems(s, c, k) ==
  /\ IsSeq(s)
  /\ \A j \in 1 .. Len(s) : ItemOf(s[j], c) /\ (s[j].type = "compaction" => j = 1)
  /\ \A i \in 1 .. k : c[i].type = "tool_use" =>
       \E j \in 1 .. Len(s) : s[j].type = "function_call" /\ s[j].call = c[i].call

\* A compaction x has nothing in front of it.
Leads(x, s) == x.type = "compaction" => s = <<>>

LEMMA SpokenMore ==
    ASSUME NEW s, NEW c, NEW k, SpokenItems(s, c, k), NEW x, ItemOf(x, c), Leads(x, s)
    PROVE  SpokenItems(s \o <<x>>, c, k) /\ \E j \in 1 .. Len(s \o <<x>>) : (s \o <<x>>)[j] = x
<1> DEFINE t == s \o <<x>>
           n == Len(s)
<1>1. /\ IsSeq(s)
      /\ \A j \in 1 .. n : ItemOf(s[j], c) /\ (s[j].type = "compaction" => j = 1)
      /\ \A i \in 1 .. k : c[i].type = "tool_use" =>
           \E j \in 1 .. n : s[j].type = "function_call" /\ s[j].call = c[i].call
  BY DEF SpokenItems
<1>2. n \in Nat /\ (s = <<>> => n = 0)
  BY <1>1, SeqFacts
<1>3. IsSeq(t) /\ Len(t) = n + 1 /\ t[n + 1] = x /\ \A i \in 1 .. n : t[i] = s[i]
  BY <1>1, AppendOne
<1> HIDE DEF t, n
<1>4. ASSUME NEW j \in 1 .. Len(t) PROVE ItemOf(t[j], c) /\ (t[j].type = "compaction" => j = 1)
  <2>1. CASE j \in 1 .. n
    BY <2>1, <1>1, <1>3
  <2>2. CASE j = n + 1
    BY <2>2, <1>2, <1>3 DEF Leads
  <2> QED
    BY <2>1, <2>2, <1>2, <1>3
<1>5. ASSUME NEW i \in 1 .. k, c[i].type = "tool_use"
      PROVE  \E j \in 1 .. Len(t) : t[j].type = "function_call" /\ t[j].call = c[i].call
  <2>1. PICK j \in 1 .. n : s[j].type = "function_call" /\ s[j].call = c[i].call
    BY <1>1, <1>5
  <2>2. j \in 1 .. Len(t) /\ t[j] = s[j]
    BY <1>2, <1>3
  <2> QED
    BY <2>1, <2>2
<1>6. n + 1 \in 1 .. Len(t)
  BY <1>2, <1>3
<1>7. SpokenItems(t, c, k) /\ \E j \in 1 .. Len(t) : t[j] = x
  BY <1>3, <1>4, <1>5, <1>6 DEF SpokenItems
<1> QED
  BY <1>7 DEF t

LEMMA SpokenFlush ==
    ASSUME NEW s, NEW c, NEW k, SpokenItems(s, c, k), NEW p
    PROVE  SpokenItems(s \o flushPendingContent("assistant", p), c, k)
<1>0. IsSeq(s)
  BY DEF SpokenItems
<1>1. CASE p = <<>>
  <2>1. flushPendingContent("assistant", p) = <<>>
    BY <1>1 DEF flushPendingContent
  <2>2. s \o <<>> = s
    BY <1>0, AppendNone
  <2> QED
    BY <2>1, <2>2
<1>2. CASE p # <<>>
  <2> DEFINE x == MessageItem("assistant", p)
  <2>1. flushPendingContent("assistant", p) = <<x>>
    BY <1>2 DEF flushPendingContent
  <2>2. x.role = "assistant" /\ x.type = "message"
    BY DEF MessageItem, Item
  <2> HIDE DEF x
  <2>3. ItemOf(x, c)
    BY <2>2 DEF ItemOf
  <2>4. Leads(x, s)
    BY <2>2 DEF Leads
  <2>5. SpokenItems(s \o <<x>>, c, k)
    BY <2>3, <2>4, SpokenMore
  <2> QED
    BY <2>1, <2>5
<1> QED
  BY <1>1, <1>2

\* What a block of an assistant message becomes, if it becomes an item.
LEMMA SpokenOwn ==
    ASSUME NEW c, NEW i \in 1 .. Len(c), c[i].type \in {"text", "thinking", "tool_use"}
    PROVE  \/ OwnItem(c[i]) = <<>> /\ c[i].type # "tool_use"
           \/ \E x : /\ OwnItem(c[i]) = <<x>> /\ ItemOf(x, c)
                     /\ x.type = "compaction" => c[i].type = "thinking" /\ c[i].signature.by = "compaction"
                     /\ c[i].type = "tool_use" => x.type = "function_call" /\ x.call = c[i].call
<1> DEFINE b == c[i]
<1>1. CASE b.type = "text"
  <2>1. OwnItem(b) = <<>>
    BY <1>1, OwnItemIs
  <2> QED
    BY <1>1, <2>1
<1>2. CASE b.type = "tool_use"
  <2> DEFINE x == FunctionCall(b.call)
  <2>1. OwnItem(b) = <<x>>
    BY <1>2, OwnItemIs
  <2>2. x.type = "function_call" /\ x.role = "assistant" /\ x.call = b.call
    BY DEF FunctionCall, Item
  <2> HIDE DEF x
  <2>3. ItemOf(x, c)
    BY <1>2, <2>2 DEF ItemOf
  <2> QED
    BY <1>2, <2>1, <2>2, <2>3
<1>3. CASE b.type = "thinking"
  <2>1. OwnItem(b) = CASE b.signature.by = "compaction" -> << Compaction(b.signature.of) >>
                       [] b.signature.by = "responses" -> << createReasoningContent(b) >>
                       [] OTHER -> <<>>
    BY <1>3, OwnItemIs
  <2>2. CASE b.signature.by = "compaction"
    <3> DEFINE x == Compaction(b.signature.of)
    <3>1. OwnItem(b) = <<x>>
      BY <2>1, <2>2
    <3>2. x.type = "compaction" /\ x.role = "assistant"
      BY DEF Compaction, Item
    <3> HIDE DEF x
    <3>3. Compacting(c)
      BY <1>3, <2>2 DEF Compacting
    <3>4. ItemOf(x, c)
      BY <3>2, <3>3 DEF ItemOf
    <3> QED
      BY <1>3, <2>2, <3>1, <3>2, <3>4
  <2>3. CASE b.signature.by = "responses"
    <3> DEFINE x == createReasoningContent(b)
    <3>1. OwnItem(b) = <<x>>
      BY <2>1, <2>3
    <3>2. x.type = "reasoning" /\ x.role = "assistant"
      BY DEF createReasoningContent, Reasoning, Item
    <3> HIDE DEF x
    <3>3. ItemOf(x, c)
      BY <3>2 DEF ItemOf
    <3> QED
      BY <1>3, <3>1, <3>2, <3>3
  <2>4. CASE b.signature.by \notin {"responses", "compaction"}
    <3>1. OwnItem(b) = <<>>
      BY <2>1, <2>4
    <3> QED
      BY <1>3, <3>1
  <2> QED
    BY <2>2, <2>3, <2>4
<1> QED
  BY <1>1, <1>2, <1>3

LEMMA SpokenWalk ==
    ASSUME NEW c, IsSeq(c), CompactsFirst(c),
           \A i \in 1 .. Len(c) : c[i].type \in {"text", "thinking", "tool_use"},
           NEW f, Walk(f, "assistant", c)
    PROVE  SpokenItems(f[Len(c)].items, c, Len(c))
<1> DEFINE L == Len(c)
           Good(k) == /\ SpokenItems(f[k].items, c, k)
                      /\ k = 0 => f[k].items = <<>> /\ f[k].pending = <<>>
           S == {k \in Nat : k <= L => Good(k)}
<1>1. L \in Nat
  BY SeqFacts
<1>2. /\ f[0] = [items |-> <<>>, pending |-> <<>>]
      /\ \A k \in 1 .. L : f[k] = Went("assistant", f[k - 1].items, f[k - 1].pending, c[k])
  BY DEF Walk
<1>3. 0 \in S
  <2>1. f[0].items = <<>> /\ f[0].pending = <<>>
    BY <1>2
  <2>2. SpokenItems(<<>>, c, 0)
    <3> DEFINE s == <<>>
    <3>1. IsSeq(s) /\ Len(s) = 0
      BY None
    <3> HIDE DEF s
    <3>2. SpokenItems(s, c, 0)
      BY <3>1 DEF SpokenItems
    <3> QED
      BY <3>2 DEF s
  <2>3. Good(0)
    BY <2>1, <2>2
  <2> QED
    BY <2>3
<1>4. ASSUME NEW k \in Nat, k \in S PROVE k + 1 \in S
  <2>0. SUFFICES ASSUME k + 1 <= L PROVE Good(k + 1)
    OBVIOUS
  <2> DEFINE a == f[k].items
             p == f[k].pending
             b == c[k + 1]
  <2>1. SpokenItems(a, c, k) /\ (k = 0 => a = <<>> /\ p = <<>>)
    BY <1>4, <2>0, <1>1
  <2>2. k + 1 \in 1 .. L /\ k + 1 - 1 = k /\ k + 1 # 0
    BY <2>0, <1>1
  <2>3. f[k + 1] = Went("assistant", a, p, b)
    BY <2>2, <1>2
  <2>4. \/ OwnItem(b) = <<>> /\ b.type # "tool_use"
        \/ \E x : /\ OwnItem(b) = <<x>> /\ ItemOf(x, c)
                  /\ x.type = "compaction" => b.type = "thinking" /\ b.signature.by = "compaction"
                  /\ b.type = "tool_use" => x.type = "function_call" /\ x.call = b.call
    BY <2>2, SpokenOwn
  <2> HIDE DEF a, p
  <2>5. CASE OwnItem(b) = <<>> /\ b.type # "tool_use"
    <3>1. f[k + 1].items = a
      BY <2>3, <2>5 DEF Went
    <3>2. SpokenItems(a, c, k + 1)
      <4>1. \A i \in 1 .. k + 1 : i \in 1 .. k \/ i = k + 1
        OBVIOUS
      <4> QED
        BY <2>1, <2>5, <4>1 DEF SpokenItems
    <3> QED
      BY <3>1, <3>2, <2>2
  <2>6. CASE \E x : /\ OwnItem(b) = <<x>> /\ ItemOf(x, c)
                    /\ x.type = "compaction" => b.type = "thinking" /\ b.signature.by = "compaction"
                    /\ b.type = "tool_use" => x.type = "function_call" /\ x.call = b.call
    <3>1. PICK x : /\ OwnItem(b) = <<x>> /\ ItemOf(x, c)
                   /\ x.type = "compaction" => b.type = "thinking" /\ b.signature.by = "compaction"
                   /\ b.type = "tool_use" => x.type = "function_call" /\ x.call = b.call
      BY <2>6
    <3> DEFINE s == a \o flushPendingContent("assistant", p)
               t == s \o <<x>>
    <3>2. SpokenItems(s, c, k)
      BY <2>1, SpokenFlush
    <3>3. OwnItem(b) # <<>>
      BY <3>1, One
    <3>4. f[k + 1].items = t
      BY <2>3, <3>1, <3>3 DEF Went
    <3>5. Leads(x, s)
      <4>1. ASSUME x.type = "compaction" PROVE s = <<>>
        <5>1. k + 1 = 1
          BY <2>2, <3>1, <4>1 DEF CompactsFirst
        <5>2. a = <<>> /\ p = <<>>
          BY <5>1, <2>1
        <5>3. flushPendingContent("assistant", p) = <<>>
          BY <5>2 DEF flushPendingContent
        <5> QED
          BY <5>2, <5>3
      <4> QED
        BY <4>1 DEF Leads
    <3> HIDE DEF s
    <3>6. SpokenItems(t, c, k) /\ \E j \in 1 .. Len(t) : t[j] = x
      BY <3>1, <3>2, <3>5, SpokenMore
    <3> HIDE DEF t
    <3>7. SpokenItems(t, c, k + 1)
      <4>1. \A i \in 1 .. k + 1 : i \in 1 .. k \/ i = k + 1
        OBVIOUS
      <4>2. PICK j \in 1 .. Len(t) : t[j] = x
        BY <3>6
      <4>3. b.type = "tool_use" => t[j].type = "function_call" /\ t[j].call = b.call
        BY <3>1, <4>2
      <4> QED
        BY <3>6, <4>1, <4>3 DEF SpokenItems
    <3> QED
      BY <3>4, <3>7, <2>2
  <2> QED
    BY <2>4, <2>5, <2>6
<1>5. \A k \in Nat : k \in S
  <2> HIDE DEF S
  <2> QED
    BY <1>3, <1>4, Induction
<1>6. L \in S
  BY <1>1, <1>5
<1>7. Good(L)
  BY <1>1, <1>6
<1> QED
  BY <1>7

\* A compaction is the first item of its piece.
CompactionLeads(piece) == \A k \in 1 .. Len(piece) : piece[k].type = "compaction" => k = 1

LEMMA ResponsesAssistant ==
    ASSUME NEW m, NEW own, Spoken(m, own), CompactsFirst(m.content)
    PROVE  /\ AssistantPiece("responses", translateMessage(m), own)
           /\ IsSeq(translateMessage(m)) /\ CompactionLeads(translateMessage(m))
           /\ ~Whole(translateMessage(m)) => IsCompacting(m)
<1> DEFINE c == m.content
           piece == translateMessage(m)
<1>1. /\ m.role = "assistant" /\ IsSeq(c)
      /\ \A i \in 1 .. Len(c) : c[i].type \in {"text", "thinking", "tool_use"}
      /\ own = {c[i].call : i \in {j \in 1 .. Len(c) : c[j].type = "tool_use"}}
  BY DEF Spoken
<1>2. PICK f : /\ Walk(f, m.role, c)
               /\ piece = f[Len(c)].items \o flushPendingContent(m.role, f[Len(c)].pending)
  <2>1. m.content = c
    OBVIOUS
  <2> HIDE DEF c
  <2> QED
    BY <2>1, <1>1, Walked
<1> HIDE DEF piece
<1>3. SpokenItems(f[Len(c)].items, c, Len(c))
  <2> HIDE DEF c
  <2>1. CompactsFirst(c)
    BY DEF c
  <2> QED
    BY <2>1, <1>1, <1>2, SpokenWalk
<1>4. SpokenItems(piece, c, Len(c))
  <2> HIDE DEF c
  <2>1. piece = f[Len(c)].items \o flushPendingContent("assistant", f[Len(c)].pending)
    BY <1>1, <1>2
  <2> QED
    BY <2>1, <1>3, SpokenFlush
<1>5. DOMAIN c = 1 .. Len(c)
  BY <1>1, SeqFacts
<1> HIDE DEF c
<1>6. /\ IsSeq(piece)
      /\ \A j \in 1 .. Len(piece) : ItemOf(piece[j], c) /\ (piece[j].type = "compaction" => j = 1)
      /\ \A i \in 1 .. Len(c) : c[i].type = "tool_use" =>
           \E j \in 1 .. Len(piece) : piece[j].type = "function_call" /\ piece[j].call = c[i].call
  BY <1>4 DEF SpokenItems
<1>7. ASSUME NEW k \in 1 .. Len(piece)
      PROVE  /\ piece[k].role = "assistant"
             /\ \/ /\ piece[k].type = "function_call" /\ piece[k].call \in own
                   /\ ElementEvents("responses", piece[k]) = <<Event("call", piece[k].call)>>
                \/ /\ piece[k].type # "function_call"
                   /\ ElementEvents("responses", piece[k]) = <<Event("said", <<>>)>>
  <2> DEFINE x == piece[k]
  <2>1. ItemOf(x, c)
    BY <1>6
  <2> HIDE DEF x
  <2>2. x.role = "assistant" /\ x.type \in {"message", "function_call", "reasoning", "compaction"}
    BY <2>1 DEF ItemOf
  <2>3. CASE x.type = "function_call"
    <3>1. x.call \in own
      BY <1>1, <2>1, <2>3 DEF ItemOf
    <3>2. ElementEvents("responses", x) = <<Event("call", x.call)>>
      BY <2>3 DEF ElementEvents
    <3> QED
      BY <2>2, <2>3, <3>1, <3>2 DEF x
  <2>4. CASE x.type # "function_call"
    <3>1. Word(x) = Event("said", <<>>)
      BY <2>2, BlockEventIs
    <3>2. ElementEvents("responses", x) = <<Word(x)>>
      BY <2>2, <2>4 DEF ElementEvents
    <3> QED
      BY <2>2, <2>4, <3>1, <3>2 DEF x
  <2> QED
    BY <2>3, <2>4
<1>8. ASSUME NEW k \in 1 .. Len(piece)
      PROVE  /\ IsSeq(ElementEvents("responses", piece[k]))
             /\ \A l \in 1 .. Len(ElementEvents("responses", piece[k])) :
                  /\ ElementEvents("responses", piece[k])[l].kind \in {"call", "said"}
                  /\ ElementEvents("responses", piece[k])[l].kind = "call"
                       => ElementEvents("responses", piece[k])[l].call \in own
             /\ piece[k].type = "function_call" =>
                  Holds(ElementEvents("responses", piece[k]), "call", piece[k].call)
  <2> DEFINE e == ElementEvents("responses", piece[k])
  <2>1. CASE piece[k].type = "function_call"
    <3> DEFINE v == Event("call", piece[k].call)
    <3>1. e = <<v>> /\ v.kind = "call" /\ v.call = piece[k].call /\ v.call \in own
      BY <1>7, <2>1, EventIs
    <3> HIDE DEF v
    <3>2. IsSeq(e) /\ Len(e) = 1 /\ e[1] = v
      BY <3>1, One
    <3> HIDE DEF e
    <3>3. \A l \in 1 .. Len(e) : e[l] = v
      BY <3>2
    <3>4. \A l \in 1 .. Len(e) : e[l].kind \in {"call", "said"} /\ (e[l].kind = "call" => e[l].call \in own)
      BY <3>1, <3>3
    <3>5. Holds(e, "call", piece[k].call)
      BY <3>1, <3>2 DEF Holds
    <3> QED
      BY <3>2, <3>4, <3>5 DEF e
  <2>2. CASE piece[k].type # "function_call"
    <3> DEFINE v == Event("said", <<>>)
    <3>1. e = <<v>> /\ v.kind = "said"
      BY <1>7, <2>2, EventIs
    <3> HIDE DEF v
    <3>2. IsSeq(e) /\ Len(e) = 1 /\ e[1] = v
      BY <3>1, One
    <3> HIDE DEF e
    <3>3. \A l \in 1 .. Len(e) : e[l] = v
      BY <3>2
    <3>4. \A l \in 1 .. Len(e) : e[l].kind \in {"call", "said"} /\ (e[l].kind = "call" => e[l].call \in own)
      BY <3>1, <3>3
    <3> QED
      BY <2>2, <3>2, <3>4 DEF e
  <2> QED
    BY <2>1, <2>2
<1>9. ASSUME NEW call \in own
      PROVE  \E k \in 1 .. Len(piece) : Holds(ElementEvents("responses", piece[k]), "call", call)
  <2>1. PICK i \in 1 .. Len(c) : c[i].type = "tool_use" /\ call = c[i].call
    BY <1>1
  <2>2. PICK k \in 1 .. Len(piece) : piece[k].type = "function_call" /\ piece[k].call = call
    BY <1>6, <2>1
  <2> QED
    BY <1>8, <2>2
<1>10. AssistantPiece("responses", piece, own)
  BY <1>6, <1>7, <1>8, <1>9 DEF AssistantPiece
<1>11. CompactionLeads(piece)
  BY <1>6 DEF CompactionLeads
<1>12. ASSUME ~Whole(piece) PROVE IsCompacting(m)
  <2>1. PICK k \in 1 .. Len(piece) : piece[k].type = "compaction"
    BY <1>12 DEF Whole
  <2>2. Compacting(c)
    BY <2>1, <1>6 DEF ItemOf
  <2>3. PICK i \in 1 .. Len(c) : c[i].type = "thinking" /\ c[i].signature.by = "compaction"
    BY <2>2 DEF Compacting
  <2> QED
    BY <2>3, <1>1, <1>5 DEF IsCompacting, c
<1> QED
  BY <1>6, <1>10, <1>11, <1>12 DEF piece

LEMMA LatestIs ==
    ASSUME NEW n \in Nat, NEW T, T \subseteq 1 .. n, T # {}
    PROVE  Max(T) \in T /\ \A y \in T : y <= Max(T)
<1> DEFINE D == {n - x : x \in T}
<1>1. D \subseteq Nat /\ D # {}
  <2>1. \A x \in T : n - x \in Nat
    OBVIOUS
  <2>2. PICK x \in T : TRUE
    OBVIOUS
  <2>3. n - x \in D
    OBVIOUS
  <2> QED
    BY <2>1, <2>3
<1>2. PICK z \in D : \A y \in D : ~(y < z)
  <2> HIDE DEF D
  <2> QED
    BY <1>1, NatLeast
<1>3. PICK x \in T : z = n - x
  BY <1>2
<1>4. \A y \in T : x >= y
  <2>1. ASSUME NEW y \in T PROVE x >= y
    <3>1. n - y \in D
      OBVIOUS
    <3>2. ~(n - y < n - x)
      BY <3>1, <1>2, <1>3
    <3> QED
      BY <3>2
  <2> QED
    BY <2>1
<1>5. \E m \in T : \A y \in T : m >= y
  BY <1>4
<1>6. Max(T) \in T /\ \A y \in T : Max(T) >= y
  BY <1>5 DEF Max
<1>7. \A y \in T : Max(T) >= y => y <= Max(T)
  BY <1>6
<1> QED
  BY <1>6, <1>7

LEMMA CompactInput ==
    ASSUME NEW items, IsSeq(items), NEW payload, payload = compactInputByLatestCompaction(items)
    PROVE  \/ payload = items
           \/ \E latest \in 1 .. Len(items) :
                /\ items[latest].type = "compaction"
                /\ payload = SubSeq(items, latest, Len(items))
<1> DEFINE T == {i \in 1 .. Len(items) : items[i].type = "compaction"}
           latest == SelectLastInSeq(items, LAMBDA item : item.type = "compaction")
<1>1. Len(items) \in Nat
  BY SeqFacts
<1>2. latest = IF T # {} THEN Max(T) ELSE 0
  BY DEF SelectLastInSeq
<1>3. payload = IF latest = 0 THEN items ELSE SubSeq(items, latest, Len(items))
  BY DEF compactInputByLatestCompaction
<1> HIDE DEF latest
<1>4. CASE T = {}
  BY <1>2, <1>3, <1>4
<1>5. CASE T # {}
  <2>1. T \subseteq 1 .. Len(items)
    OBVIOUS
  <2>2. latest \in T
    <3> HIDE DEF T
    <3>1. Max(T) \in T
      BY <1>1, <1>5, <2>1, LatestIs
    <3> QED
      BY <3>1, <1>2, <1>5
  <2>3. latest \in 1 .. Len(items) /\ items[latest].type = "compaction" /\ latest # 0
    BY <2>2, <1>1
  <2> QED
    BY <2>3, <1>3
<1> QED
  BY <1>4, <1>5

\* The payload from the element at `latest` on.
LEMMA WindowCut ==
    ASSUME NEW items, NEW pieces, NEW N, NEW row, NEW col,
           Window(items, pieces, N, 1, 1, row, col), NEW latest \in 1 .. Len(items),
           NEW payload, payload = SubSeq(items, latest, Len(items))
    PROVE  \E from, at : Window(payload, pieces, N, row[latest], col[latest], from, at)
<1> DEFINE L == Len(items)
           P == Len(payload)
           o == latest - 1
           from == [i \in 1 .. P |-> row[o + i]]
           at == [i \in 1 .. P |-> col[o + i]]
<1>1. /\ IsSeq(items) /\ N \in Nat
      /\ row \in [1 .. L -> 1 .. N] /\ col \in [1 .. L -> Nat]
      /\ \A i \in 1 .. L : col[i] \in 1 .. Len(pieces[row[i]]) /\ items[i] = pieces[row[i]][col[i]]
      /\ \A i, j \in 1 .. L : i < j <=> row[i] < row[j] \/ (row[i] = row[j] /\ col[i] < col[j])
      /\ \A t \in 1 .. N : \A k \in 1 .. Len(pieces[t]) :
           t > 1 \/ k >= 1 => \E i \in 1 .. L : row[i] = t /\ col[i] = k
  BY DEF Window
<1>2. L \in Nat
  BY <1>1, SeqFacts
<1>3. /\ IsSeq(payload) /\ P = L - latest + 1
      /\ \A i \in 1 .. L - latest + 1 : payload[i] = items[latest + i - 1] /\ latest + i - 1 \in 1 .. L
  BY <1>1, <1>2, SubSeqIs
<1> HIDE DEF L, P
<1>4. /\ \A i \in 1 .. P : o + i \in 1 .. L /\ o + i >= latest /\ payload[i] = items[o + i]
      /\ \A j \in 1 .. L : j >= latest => j - o \in 1 .. P /\ o + (j - o) = j
  <2>1. latest \in 1 .. L
    BY DEF L
  <2>2. ASSUME NEW i \in 1 .. P PROVE o + i \in 1 .. L /\ o + i >= latest /\ payload[i] = items[o + i]
    <3>1. i \in 1 .. L - latest + 1
      BY <1>3
    <3>2. payload[i] = items[latest + i - 1] /\ latest + i - 1 \in 1 .. L
      BY <3>1, <1>3
    <3>3. latest + i - 1 = o + i /\ o + i >= latest
      BY <3>1, <2>1, <1>2
    <3> QED
      BY <3>2, <3>3
  <2>3. \A j \in 1 .. L : j >= latest => j - o \in 1 .. P /\ o + (j - o) = j
    BY <1>2, <1>3, <2>1
  <2> QED
    BY <2>2, <2>3
<1>5. latest \in 1 .. L /\ row[latest] \in 1 .. N /\ col[latest] \in Nat
  BY <1>1 DEF L
<1>6. \A i \in 1 .. P : from[i] = row[o + i] /\ at[i] = col[o + i]
  OBVIOUS
<1>7. ASSUME NEW j \in 1 .. L, j >= latest PROVE row[j] \in row[latest] .. N
  <2>1. row[j] \in 1 .. N /\ latest \in 1 .. L
    BY <1>1, <1>5
  <2>2. latest = j \/ latest < j
    BY <1>7, <2>1
  <2>3. latest < j => row[latest] < row[j] \/ row[latest] = row[j]
    BY <1>1, <2>1
  <2> QED
    BY <1>5, <2>1, <2>2, <2>3
<1>8. from \in [1 .. P -> row[latest] .. N] /\ at \in [1 .. P -> Nat]
  BY <1>1, <1>4, <1>7
<1> HIDE DEF from, at
<1>9. \A i \in 1 .. P : at[i] \in 1 .. Len(pieces[from[i]]) /\ payload[i] = pieces[from[i]][at[i]]
  <2>1. ASSUME NEW i \in 1 .. P
        PROVE  at[i] \in 1 .. Len(pieces[from[i]]) /\ payload[i] = pieces[from[i]][at[i]]
    <3>1. PICK j \in 1 .. L : j = o + i
      BY <1>4
    <3>2. from[i] = row[j] /\ at[i] = col[j] /\ payload[i] = items[j]
      BY <3>1, <1>4, <1>6
    <3>3. col[j] \in 1 .. Len(pieces[row[j]]) /\ items[j] = pieces[row[j]][col[j]]
      BY <1>1
    <3> QED
      BY <3>2, <3>3
  <2> QED
    BY <2>1
<1>10. ASSUME NEW i \in 1 .. P, NEW j \in 1 .. P
       PROVE  i < j <=> from[i] < from[j] \/ (from[i] = from[j] /\ at[i] < at[j])
  <2>1. o + i \in 1 .. L /\ o + j \in 1 .. L
    BY <1>4
  <2>2. i < j <=> o + i < o + j
    BY <1>5
  <2>3. o + i < o + j <=> row[o + i] < row[o + j] \/ (row[o + i] = row[o + j] /\ col[o + i] < col[o + j])
    BY <1>1, <2>1
  <2> QED
    BY <2>2, <2>3, <1>6
<1>11. ASSUME NEW t \in row[latest] .. N, NEW k \in 1 .. Len(pieces[t]), t > row[latest] \/ k >= col[latest]
       PROVE  \E i \in 1 .. P : from[i] = t /\ at[i] = k
  <2>1. t \in 1 .. N /\ k >= 1
    BY <1>5
  <2>2. PICK j \in 1 .. L : row[j] = t /\ col[j] = k
    BY <1>1, <2>1
  <2>3. j >= latest
    <3>1. j < latest <=> row[j] < row[latest] \/ (row[j] = row[latest] /\ col[j] < col[latest])
      BY <1>1, <1>5
    <3>2. ~(j < latest)
      <4>1. row[j] = t /\ col[j] = k /\ row[latest] \in Nat /\ col[latest] \in Nat /\ t \in Nat /\ k \in Int
        BY <1>5, <2>1, <2>2
      <4> QED
        BY <3>1, <4>1, <1>11
    <3> QED
      BY <3>2, <1>5
  <2>4. j - o \in 1 .. P /\ o + (j - o) = j
    BY <2>3, <1>4
  <2>5. from[j - o] = row[o + (j - o)] /\ at[j - o] = col[o + (j - o)]
    BY <2>4, <1>6
  <2> QED
    BY <2>2, <2>4, <2>5
<1>12. row[latest] \in Nat /\ row[latest] >= 1
  BY <1>5
<1>13. Window(payload, pieces, N, row[latest], col[latest], from, at)
  BY <1>1, <1>3, <1>8, <1>9, <1>10, <1>11, <1>12 DEF Window, P
<1> QED
  BY <1>13

LEMMA ItemsPayload ==
    ASSUME NEW messages, NEW U, NEW calls, NEW ids, Ready(messages, U, calls, ids),
           NEW payload,
           payload = compactInputByLatestCompaction(translateAnthropicMessagesToResponsesPayload(messages))
    PROVE  \E pieces, first, at, from, col :
             /\ Fits("responses", pieces, Len(messages), U, calls, ids)
             /\ Window(payload, pieces, Len(messages), first, at, from, col)
             /\ CutAt("responses", pieces, U, first, at)
             /\ \/ first = 1 /\ at = 1
                \/ first \in (1 .. Len(messages)) \ U /\ IsCompacting(messages[first])
<1> DEFINE N == Len(messages)
           pieces == [m \in DOMAIN messages |-> translateMessage(messages[m])]
           items == FlattenSeq(pieces)
<1>1. IsSeq(messages) /\ DOMAIN messages = 1 .. N /\ N \in Nat /\ U \subseteq 1 .. N
  BY SeqFacts DEF Ready
<1>2. /\ \A t \in U : \E form, d : /\ messages[t] = UserMessage(form, d) /\ Clean(d)
                                   /\ Answering(d, Asked(calls, t)) /\ ids[t] = ContentIds(d)
      /\ \A t \in (1 .. N) \ U :
           t + 1 \in U /\ Spoken(messages[t], calls[t]) /\ CompactsFirst(messages[t].content)
  BY DEF Ready
<1>3. payload = compactInputByLatestCompaction(items)
  BY DEF translateAnthropicMessagesToResponsesPayload
<1>4. /\ IsSeq(pieces) /\ Len(pieces) = N
      /\ \A t \in 1 .. N : pieces[t] = translateMessage(messages[t])
  BY <1>1, FunIsSeq
<1>5. ASSUME NEW t \in U
      PROVE  /\ UserPiece("responses", pieces[t], Asked(calls, t), ids[t])
             /\ IsSeq(pieces[t]) /\ Whole(pieces[t])
  <2>1. PICK form, d : /\ messages[t] = UserMessage(form, d) /\ Clean(d)
                       /\ Answering(d, Asked(calls, t)) /\ ids[t] = ContentIds(d)
    BY <1>2
  <2>2. pieces[t] = translateMessage(messages[t])
    BY <1>1, <1>4
  <2> DEFINE m == messages[t]
  <2>3. m = UserMessage(form, d)
    BY <2>1
  <2> HIDE DEF m, pieces
  <2>4. /\ UserPiece("responses", translateMessage(m), Asked(calls, t), ContentIds(d))
        /\ IsSeq(translateMessage(m)) /\ Whole(translateMessage(m))
    BY <2>1, <2>3, ResponsesUser
  <2> QED
    BY <2>1, <2>2, <2>4 DEF m
<1>6. ASSUME NEW t \in (1 .. N) \ U
      PROVE  /\ AssistantPiece("responses", pieces[t], calls[t])
             /\ IsSeq(pieces[t]) /\ CompactionLeads(pieces[t])
             /\ ~Whole(pieces[t]) => IsCompacting(messages[t])
  <2>1. Spoken(messages[t], calls[t]) /\ CompactsFirst(messages[t].content)
    BY <1>2
  <2>2. pieces[t] = translateMessage(messages[t])
    BY <1>1, <1>4
  <2> HIDE DEF pieces
  <2> QED
    BY <2>1, <2>2, ResponsesAssistant
<1> HIDE DEF pieces, N
<1>7. \A t \in 1 .. N : IsSeq(pieces[t])
  BY <1>5, <1>6
<1>8. PICK row, col : Window(items, pieces, N, 1, 1, row, col)
  BY <1>4, <1>7, LaidWindow
<1>9. Fits("responses", pieces, N, U, calls, ids)
  BY <1>5, <1>6, FitsOf DEF N
<1> HIDE DEF items
<1>10. IsSeq(items) /\ row \in [1 .. Len(items) -> 1 .. N]
       /\ \A i \in 1 .. Len(items) :
            col[i] \in 1 .. Len(pieces[row[i]]) /\ items[i] = pieces[row[i]][col[i]]
  BY <1>8 DEF Window
<1>11. CASE payload = items
  <2>1. CutAt("responses", pieces, U, 1, 1)
    BY DEF CutAt
  <2> QED
    BY <1>8, <1>9, <1>11, <2>1 DEF N
<1>12. CASE \E latest \in 1 .. Len(items) :
              /\ items[latest].type = "compaction"
              /\ payload = SubSeq(items, latest, Len(items))
  <2>1. PICK latest \in 1 .. Len(items) :
              /\ items[latest].type = "compaction"
              /\ payload = SubSeq(items, latest, Len(items))
    BY <1>12
  <2>2. PICK from, at : Window(payload, pieces, N, row[latest], col[latest], from, at)
    BY <1>8, <2>1, WindowCut
  <2>3. PICK t \in 1 .. N : t = row[latest]
    BY <1>10
  <2>4. PICK k \in 1 .. Len(pieces[t]) : k = col[latest]
    BY <1>10, <2>3
  <2>5. pieces[t][k].type = "compaction"
    BY <1>10, <2>1, <2>3, <2>4
  <2>6. ~Whole(pieces[t])
    BY <2>5 DEF Whole
  <2>7. t \in (1 .. N) \ U
    BY <2>6, <1>5
  <2>8. IsCompacting(messages[t]) /\ k = 1
    BY <1>6, <2>5, <2>6, <2>7 DEF CompactionLeads
  <2>9. CutAt("responses", pieces, U, t, k)
    <3>1. \A h \in 1 .. Len(pieces[t]) : ~(h < k)
      BY <2>8
    <3> QED
      BY <2>7, <2>8, <3>1 DEF CutAt
  <2>10. Window(payload, pieces, N, t, k, from, at)
    BY <2>2, <2>3, <2>4
  <2> QED
    BY <1>9, <2>7, <2>8, <2>9, <2>10 DEF N
<1>13. payload = items \/ \E latest \in 1 .. Len(items) :
              /\ items[latest].type = "compaction"
              /\ payload = SubSeq(items, latest, Len(items))
  BY <1>3, <1>10, CompactInput
<1> QED
  BY <1>11, <1>12, <1>13

-----------------------------------------------------------------------------
(* Sequences made of what each element becomes                             *)

\* What the elements of s become, one after the other.
Bind(g, s) == FlattenSeq([i \in DOMAIN s |-> g[s[i]]])

LEMMA FlattenNone == FlattenSeq(<<>>) = <<>>
<1> DEFINE s == <<>>
<1>1. s \in Seq(Seq({})) /\ Len(s) = 0
  OBVIOUS
<1>2. FlattenSeq(s) \in Seq({})
  BY <1>1, Flattened
<1> QED
  BY <1>2

\* One sequence more.
LEMMA FlattenMore ==
    ASSUME NEW X, NEW s \in Seq(Seq(X)), NEW u \in Seq(Seq(X)), NEW n \in Nat,
           Len(s) = n, Len(u) = n + 1, \A i \in 1 .. n : u[i] = s[i]
    PROVE  FlattenSeq(u) = FlattenSeq(s) \o u[n + 1]
<1>1. u # <<>> /\ u[n + 1] \in Seq(X)
  OBVIOUS
<1>2. PICK f \in [1 .. Len(u) -> Seq(X)] : Joined(f, u) /\ FlattenSeq(u) = f[Len(u)]
  BY <1>1, FlattenJoins
<1>3. CASE n = 0
  <2>1. FlattenSeq(u) = u[n + 1]
    BY <1>2, <1>3 DEF Joined
  <2>2. s = <<>>
    BY <1>3
  <2>3. <<>> \o u[n + 1] = u[n + 1]
    BY <1>1
  <2> QED
    BY <2>1, <2>2, <2>3, FlattenNone
<1>4. CASE n # 0
  <2>1. s # <<>> /\ n \in 1 .. n
    BY <1>4
  <2>2. PICK e \in [1 .. Len(s) -> Seq(X)] : Joined(e, s) /\ FlattenSeq(s) = e[Len(s)]
    BY <2>1, FlattenJoins
  <2> DEFINE S == {k \in Nat : k \in 1 .. n => f[k] = e[k]}
  <2>3. 0 \in S
    OBVIOUS
  <2>4. ASSUME NEW k \in Nat, k \in S PROVE k + 1 \in S
    <3>1. ASSUME k + 1 \in 1 .. n PROVE f[k + 1] = e[k + 1]
      <4>1. CASE k = 0
        BY <4>1, <3>1, <1>2, <2>2 DEF Joined
      <4>2. CASE k # 0
        <5>1. k \in 1 .. n /\ k + 1 # 1 /\ (k + 1) - 1 = k
          BY ONLY <4>2, <3>1, n \in Nat, k \in Nat
        <5>2. f[k] = e[k]
          BY <5>1, <2>4
        <5>3. k + 1 \in 1 .. Len(u) /\ k + 1 \in 1 .. Len(s)
          BY <3>1
        <5>4. f[k + 1] = f[k] \o u[k + 1]
          BY <5>1, <5>3, <1>2 DEF Joined
        <5>5. e[k + 1] = e[k] \o s[k + 1]
          BY <5>1, <5>3, <2>2 DEF Joined
        <5> QED
          BY <5>2, <5>4, <5>5, <3>1
      <4> QED
        BY <4>1, <4>2
    <3> QED
      BY <3>1
  <2>5. \A k \in Nat : k \in S
    <3> HIDE DEF S
    <3> QED
      BY <2>3, <2>4, Induction
  <2>6. f[n] = e[n]
    BY <2>1, <2>5
  <2>7. f[n + 1] = f[n] \o u[n + 1]
    <3>1. n + 1 \in 1 .. Len(u) /\ n + 1 # 1 /\ (n + 1) - 1 = n
      BY <1>4
    <3> QED
      BY <3>1, <1>2 DEF Joined
  <2> QED
    BY <2>2, <2>6, <2>7, <1>2
<1> QED
  BY <1>3, <1>4

\* What g makes of an element of D is a sequence of elements of E.
Becomes(g, D, E) == g \in [D -> Seq(E)]

LEMMA BindTyped ==
    ASSUME NEW D, NEW E, NEW g, Becomes(g, D, E), NEW s \in Seq(D)
    PROVE  /\ [i \in DOMAIN s |-> g[s[i]]] \in Seq(Seq(E)) /\ Len([i \in DOMAIN s |-> g[s[i]]]) = Len(s)
           /\ Bind(g, s) \in Seq(E)
<1> DEFINE q == [i \in DOMAIN s |-> g[s[i]]]
<1>1. DOMAIN s = 1 .. Len(s) /\ Len(s) \in Nat /\ \A i \in 1 .. Len(s) : g[s[i]] \in Seq(E)
  BY DEF Becomes
<1>2. q \in [1 .. Len(s) -> Seq(E)]
  BY <1>1
<1>3. q \in Seq(Seq(E)) /\ Len(q) = Len(s)
  BY <1>1, <1>2
<1> HIDE DEF q
<1>4. FlattenSeq(q) \in Seq(E)
  BY <1>3, Flattened
<1> QED
  BY <1>3, <1>4 DEF Bind, q

LEMMA BindIn ==
    ASSUME NEW D, NEW E, NEW g, Becomes(g, D, E), NEW s \in Seq(D) PROVE Bind(g, s) \in Seq(E)
  BY BindTyped

LEMMA BindNone == \A g : Bind(g, <<>>) = <<>>
<1> SUFFICES ASSUME NEW g PROVE Bind(g, <<>>) = <<>>
  OBVIOUS
<1> DEFINE none == <<>>
           q == [i \in DOMAIN none |-> g[none[i]]]
<1>1. q \in [1 .. 0 -> {}]
  OBVIOUS
<1>2. q = <<>>
  BY <1>1
<1> QED
  BY <1>2, FlattenNone DEF Bind

LEMMA BindMore ==
    ASSUME NEW D, NEW E, NEW g, Becomes(g, D, E), NEW s \in Seq(D), NEW x \in D
    PROVE  Bind(g, Append(s, x)) = Bind(g, s) \o g[x]
<1> DEFINE n == Len(s)
           t == Append(s, x)
           q == [i \in DOMAIN s |-> g[s[i]]]
           r == [i \in DOMAIN t |-> g[t[i]]]
<1>1. /\ t \in Seq(D) /\ n \in Nat /\ Len(t) = n + 1 /\ t[n + 1] = x
      /\ DOMAIN s = 1 .. n /\ DOMAIN t = 1 .. n + 1 /\ \A i \in 1 .. n : t[i] = s[i]
  OBVIOUS
<1> HIDE DEF t
<1>2. q \in Seq(Seq(E)) /\ Len(q) = n /\ r \in Seq(Seq(E)) /\ Len(r) = n + 1
  <2>1. \A u \in Seq(D) : /\ [i \in DOMAIN u |-> g[u[i]]] \in Seq(Seq(E))
                          /\ Len([i \in DOMAIN u |-> g[u[i]]]) = Len(u)
    BY BindTyped
  <2> QED
    BY <1>1, <2>1
<1>3. r[n + 1] = g[x] /\ \A i \in 1 .. n : r[i] = q[i]
  BY <1>1
<1> HIDE DEF q, r, n
<1>4. FlattenSeq(r) = FlattenSeq(q) \o r[n + 1]
  <2>1. Len(q) = n /\ Len(r) = n + 1 /\ n \in Nat /\ \A i \in 1 .. n : r[i] = q[i]
    BY <1>1, <1>2, <1>3
  <2>2. q \in Seq(Seq(E)) /\ r \in Seq(Seq(E))
    BY <1>2
  <2> QED
    BY ONLY <2>1, <2>2, FlattenMore
<1> QED
  BY <1>3, <1>4 DEF Bind, q, r, t

LEMMA BindOne ==
    ASSUME NEW D, NEW E, NEW g, Becomes(g, D, E), NEW x \in D PROVE Bind(g, <<x>>) = g[x]
<1>1. <<>> \in Seq(D) /\ Append(<<>>, x) = <<x>> /\ g[x] \in Seq(E)
  BY DEF Becomes
<1>2. Bind(g, <<x>>) = Bind(g, <<>>) \o g[x]
  <2>1. \A r \in Seq(D) : Bind(g, Append(r, x)) = Bind(g, r) \o g[x]
    BY BindMore
  <2>2. Bind(g, Append(<<>>, x)) = Bind(g, <<>>) \o g[x]
    BY <1>1, <2>1
  <2> QED
    BY <1>1, <2>2
<1> DEFINE a == g[x]
<1> HIDE DEF a
<1>3. ASSUME a \in Seq(E) PROVE <<>> \o a = a
  BY ONLY <1>3
<1>4. Bind(g, <<>>) = <<>>
  BY BindNone
<1> QED
  BY <1>1, <1>2, <1>3, <1>4 DEF a

\* A sequence is none, or another with one element more.
Longer(D, n, s) == \E t \in Seq(D), x \in D : Len(t) = n /\ s = Append(t, x)

LEMMA Fronted == \A D : \A n \in Nat : \A s \in Seq(D) : Len(s) = n + 1 => Longer(D, n, s)
<1> SUFFICES ASSUME NEW D, NEW n \in Nat, NEW s \in Seq(D), Len(s) = n + 1
             PROVE  \E t \in Seq(D), x \in D : Len(t) = n /\ s = Append(t, x)
  BY DEF Longer
<1> DEFINE t == SubSeq(s, 1, n)
<1>1. t \in Seq(D) /\ Len(t) = n /\ \A i \in 1 .. n : t[i] = s[i]
  OBVIOUS
<1>2. s[n + 1] \in D
  OBVIOUS
<1>3. s = Append(t, s[n + 1])
  BY <1>1, <1>2
<1> QED
  BY <1>1, <1>2, <1>3

LEMMA BindConcat ==
    ASSUME NEW D, NEW E, NEW g, Becomes(g, D, E), NEW s \in Seq(D), NEW t \in Seq(D)
    PROVE  Bind(g, s \o t) = Bind(g, s) \o Bind(g, t)
<1> DEFINE S == {n \in Nat : \A u \in Seq(D) : Len(u) = n => Bind(g, s \o u) = Bind(g, s) \o Bind(g, u)}
<1>1. 0 \in S
  <2> SUFFICES ASSUME NEW u \in Seq(D), Len(u) = 0 PROVE Bind(g, s \o u) = Bind(g, s) \o Bind(g, u)
    OBVIOUS
  <2>1. u = <<>> /\ s \o u = s
    OBVIOUS
  <2>2. Bind(g, s) \in Seq(E)
    BY BindIn
  <2>3. Bind(g, s) \o <<>> = Bind(g, s)
    BY <2>2
  <2> QED
    BY <2>1, <2>3, BindNone
<1>2. ASSUME NEW n \in Nat, n \in S PROVE n + 1 \in S
  <2> SUFFICES ASSUME NEW u \in Seq(D), Len(u) = n + 1
               PROVE  Bind(g, s \o u) = Bind(g, s) \o Bind(g, u)
    OBVIOUS
  <2>0. Longer(D, n, u)
    BY Fronted
  <2>1. PICK v \in Seq(D), x \in D : Len(v) = n /\ u = Append(v, x)
    BY <2>0 DEF Longer
  <2>2. Bind(g, s \o v) = Bind(g, s) \o Bind(g, v)
    BY <1>2, <2>1
  <2>3. s \o v \in Seq(D) /\ s \o u = Append(s \o v, x)
    BY <2>1
  <2>4. Bind(g, s \o u) = Bind(g, s \o v) \o g[x] /\ Bind(g, u) = Bind(g, v) \o g[x]
    <3> DEFINE r == s \o v
    <3>1. r \in Seq(D) /\ s \o u = Append(r, x)
      BY <2>3
    <3> HIDE DEF r
    <3>2. Bind(g, Append(r, x)) = Bind(g, r) \o g[x]
      BY <2>1, <3>1, BindMore
    <3>3. Bind(g, Append(v, x)) = Bind(g, v) \o g[x]
      BY <2>1, BindMore
    <3> QED
      BY <2>1, <3>1, <3>2, <3>3 DEF r
  <2>5. Bind(g, s) \in Seq(E) /\ Bind(g, v) \in Seq(E) /\ g[x] \in Seq(E)
    BY BindIn DEF Becomes
  <2> DEFINE a == Bind(g, s)
             b == Bind(g, v)
             c == g[x]
  <2> HIDE DEF a, b, c
  <2>6. a \in Seq(E) /\ b \in Seq(E) /\ c \in Seq(E)
    BY <2>5 DEF a, b, c
  <2>7. (a \o b) \o c = a \o (b \o c)
    BY ONLY <2>6, SMTT(30)
  <2> QED
    BY <2>2, <2>4, <2>7 DEF a, b, c
<1>3. \A n \in Nat : n \in S
  <2> HIDE DEF S
  <2> QED
    BY <1>1, <1>2, Induction
<1> QED
  BY <1>3

\* k is g and then h.
Composed(k, h, g, D) == \A x \in D : k[x] = Bind(h, g[x])

\* What the elements become and what that becomes in turn: one step or two, it is the same.
LEMMA BindBind ==
    ASSUME NEW D, NEW E, NEW F, NEW g, Becomes(g, D, E), NEW h, Becomes(h, E, F), NEW s \in Seq(D),
           NEW k, Becomes(k, D, F), Composed(k, h, g, D)
    PROVE  Bind(h, Bind(g, s)) = Bind(k, s)
<1>0. \A p, q \in Seq(E) : Bind(h, p \o q) = Bind(h, p) \o Bind(h, q)
  BY BindConcat
<1> DEFINE S == {n \in Nat : \A u \in Seq(D) : Len(u) = n => Bind(h, Bind(g, u)) = Bind(k, u)}
<1>1. 0 \in S
  <2> SUFFICES ASSUME NEW u \in Seq(D), Len(u) = 0 PROVE Bind(h, Bind(g, u)) = Bind(k, u)
    OBVIOUS
  <2>1. u = <<>>
    OBVIOUS
  <2> QED
    BY <2>1, BindNone
<1>2. ASSUME NEW n \in Nat, n \in S PROVE n + 1 \in S
  <2> SUFFICES ASSUME NEW u \in Seq(D), Len(u) = n + 1 PROVE Bind(h, Bind(g, u)) = Bind(k, u)
    OBVIOUS
  <2>0. Longer(D, n, u)
    BY Fronted
  <2>1. PICK v \in Seq(D), x \in D : Len(v) = n /\ u = Append(v, x)
    BY <2>0 DEF Longer
  <2>2. Bind(h, Bind(g, v)) = Bind(k, v)
    BY <1>2, <2>1
  <2>3. Bind(g, u) = Bind(g, v) \o g[x] /\ Bind(k, u) = Bind(k, v) \o k[x]
    BY <2>1, BindMore
  <2>4. Bind(g, v) \in Seq(E) /\ g[x] \in Seq(E)
    BY BindIn DEF Becomes
  <2>5. Bind(h, Bind(g, v) \o g[x]) = Bind(h, Bind(g, v)) \o Bind(h, g[x])
    <3> DEFINE a == Bind(g, v)
               b == g[x]
    <3> HIDE DEF a, b
    <3>1. a \in Seq(E) /\ b \in Seq(E)
      BY <2>4 DEF a, b
    <3>2. \A p, q \in Seq(E) : Bind(h, p \o q) = Bind(h, p) \o Bind(h, q)
      BY <1>0
    <3>3. Bind(h, a \o b) = Bind(h, a) \o Bind(h, b)
      BY <3>1, <3>2
    <3> QED
      BY <3>3 DEF a, b
  <2>6. k[x] = Bind(h, g[x])
    BY DEF Composed
  <2> QED
    BY <2>2, <2>3, <2>5, <2>6
<1>3. \A n \in Nat : n \in S
  <2> HIDE DEF S
  <2> QED
    BY <1>1, <1>2, Induction
<1> QED
  BY <1>3

\* Functions that agree, and functions that keep an element or change it.
LEMMA BindSame ==
    ASSUME NEW s, NEW u, IsSeq(s), IsSeq(u), Len(s) = Len(u), NEW g, NEW h,
           \A i \in 1 .. Len(s) : g[s[i]] = h[u[i]]
    PROVE  Bind(g, s) = Bind(h, u)
<1>1. DOMAIN s = 1 .. Len(s) /\ DOMAIN u = 1 .. Len(s)
  BY SeqFacts
<1>2. [i \in DOMAIN s |-> g[s[i]]] = [i \in DOMAIN u |-> h[u[i]]]
  BY <1>1
<1> QED
  BY <1>2 DEF Bind

LEMMA BindKeeps ==
    ASSUME NEW D, NEW E, NEW g, Becomes(g, D, E), NEW s \in Seq(D), NEW m \in [D -> E],
           \A x \in D : g[x] = <<m[x]>>
    PROVE  Bind(g, s) = [i \in DOMAIN s |-> m[s[i]]]
<1> DEFINE S == {n \in Nat : \A u \in Seq(D) : Len(u) = n => Bind(g, u) = [i \in DOMAIN u |-> m[u[i]]]}
<1>1. 0 \in S
  <2> SUFFICES ASSUME NEW u \in Seq(D), Len(u) = 0 PROVE Bind(g, u) = [i \in DOMAIN u |-> m[u[i]]]
    OBVIOUS
  <2>1. u = <<>>
    OBVIOUS
  <2>2. [i \in DOMAIN u |-> m[u[i]]] \in [1 .. 0 -> {}]
    BY <2>1
  <2> QED
    BY <2>1, <2>2, BindNone
<1>2. ASSUME NEW n \in Nat, n \in S PROVE n + 1 \in S
  <2> SUFFICES ASSUME NEW u \in Seq(D), Len(u) = n + 1 PROVE Bind(g, u) = [i \in DOMAIN u |-> m[u[i]]]
    OBVIOUS
  <2>0. Longer(D, n, u)
    BY Fronted
  <2>1. PICK v \in Seq(D), x \in D : Len(v) = n /\ u = Append(v, x)
    BY <2>0 DEF Longer
  <2> DEFINE a == [i \in DOMAIN v |-> m[v[i]]]
             b == [i \in DOMAIN u |-> m[u[i]]]
  <2>2. Bind(g, u) = a \o <<m[x]>>
    <3>1. Bind(g, v) = a
      BY <2>1, <1>2
    <3>2. Bind(g, u) = Bind(g, v) \o g[x]
      BY <2>1, BindMore
    <3> QED
      BY <3>1, <3>2
  <2>3. /\ DOMAIN v = 1 .. n /\ DOMAIN u = 1 .. n + 1 /\ u[n + 1] = x
        /\ \A i \in 1 .. n : u[i] = v[i] /\ v[i] \in D
    BY <2>1
  <2>4. a \in [1 .. n -> E] /\ b \in [1 .. n + 1 -> E]
    <3>1. \A i \in 1 .. n + 1 : u[i] \in D
      BY <2>1
    <3> QED
      BY <2>3, <3>1
  <2>5. a \in Seq(E) /\ Len(a) = n /\ b \in Seq(E) /\ Len(b) = n + 1 /\ m[x] \in E
    <3> HIDE DEF a, b
    <3>1. m[x] \in E
      BY <2>1
    <3>2. a \in Seq(E) /\ Len(a) = n
      <4>1. \A f \in [1 .. n -> E] : f \in Seq(E) /\ Len(f) = n
        OBVIOUS
      <4> QED
        BY <2>4, <4>1
    <3>3. b \in Seq(E) /\ Len(b) = n + 1
      BY <2>4
    <3> QED
      BY <3>1, <3>2, <3>3
  <2>6. b[n + 1] = m[x] /\ \A i \in 1 .. n : b[i] = a[i]
    BY <2>3
  <2> HIDE DEF a, b
  <2>7. b = a \o <<m[x]>>
    <3>1. a \o <<m[x]>> \in Seq(E) /\ Len(a \o <<m[x]>>) = n + 1
      BY <2>5
    <3>2. \A i \in 1 .. n + 1 : (a \o <<m[x]>>)[i] = b[i]
      BY <2>5, <2>6
    <3> QED
      BY <2>5, <3>1, <3>2
  <2> QED
    BY <2>2, <2>7 DEF b
<1>3. \A n \in Nat : n \in S
  <2> HIDE DEF S
  <2> QED
    BY <1>1, <1>2, Induction
<1> QED
  BY <1>3

LEMMA FlattenOne == ASSUME NEW s, IsSeq(s) PROVE FlattenSeq(<<s>>) = s
<1> DEFINE X == ToSet(s)
           w == <<s>>
<1>1. s \in Seq(X)
  BY DEF IsSeq
<1> HIDE DEF X
<1>2. w \in Seq(Seq(X)) /\ w # <<>> /\ Len(w) = 1 /\ w[1] = s
  BY <1>1
<1> HIDE DEF w
<1>3. PICK f \in [1 .. Len(w) -> Seq(X)] : Joined(f, w) /\ FlattenSeq(w) = f[Len(w)]
  BY <1>2, FlattenJoins
<1>4. f[1] = w[1]
  BY <1>2, <1>3 DEF Joined
<1>5. FlattenSeq(w) = s
  BY <1>2, <1>3, <1>4
<1> QED
  BY <1>5 DEF w

LEMMA FlattenTwo ==
    ASSUME NEW s, IsSeq(s), NEW u, IsSeq(u) PROVE FlattenSeq(<<s, u>>) = s \o u
<1> DEFINE X == ToSet(s) \cup ToSet(u)
           w == <<s, u>>
<1>1. s \in Seq(X) /\ u \in Seq(X)
  BY SeqOfMore DEF IsSeq
<1> HIDE DEF X
<1>2. w \in Seq(Seq(X)) /\ w # <<>> /\ Len(w) = 2 /\ w[1] = s /\ w[2] = u
  BY <1>1
<1> HIDE DEF w
<1>3. PICK f \in [1 .. Len(w) -> Seq(X)] : Joined(f, w) /\ FlattenSeq(w) = f[Len(w)]
  BY <1>2, FlattenJoins
<1>4. f[1] = w[1] /\ f[2] = f[1] \o w[2]
  BY <1>2, <1>3 DEF Joined
<1>5. FlattenSeq(w) = s \o u
  BY <1>2, <1>3, <1>4
<1> QED
  BY <1>5 DEF w

\* A join of three ends with the third.
LEMMA FlattenThree ==
    ASSUME NEW s, IsSeq(s), NEW u, IsSeq(u), NEW v, IsSeq(v)
    PROVE  \E p : IsSeq(p) /\ FlattenSeq(<<s, u, v>>) = p \o v
<1> DEFINE X == ToSet(s) \cup ToSet(u) \cup ToSet(v)
           w == <<s, u, v>>
<1>1. s \in Seq(X) /\ u \in Seq(X) /\ v \in Seq(X)
  BY SeqOfMore DEF IsSeq
<1> HIDE DEF X
<1>2. w \in Seq(Seq(X)) /\ w # <<>> /\ Len(w) = 3 /\ w[3] = v
  BY <1>1
<1> HIDE DEF w
<1>3. PICK f \in [1 .. Len(w) -> Seq(X)] : Joined(f, w) /\ FlattenSeq(w) = f[Len(w)]
  BY <1>2, FlattenJoins
<1>4. f[3] = f[2] \o w[3] /\ f[2] \in Seq(X)
  BY <1>2, <1>3 DEF Joined
<1>5. IsSeq(f[2]) /\ FlattenSeq(w) = f[2] \o v
  BY <1>2, <1>3, <1>4, SeqIs
<1> QED
  BY <1>5 DEF w

-----------------------------------------------------------------------------
(* What upstream answers                                                   *)

Compacts(b) == b.type = "thinking" /\ b.signature.by = "compaction"

\* Blocks of an answer, its calls those of K, each once; none is a compaction.
Speech(s, K) ==
  /\ IsSeq(s)
  /\ \A i \in 1 .. Len(s) : s[i].type \in {"text", "thinking", "tool_use"} /\ ~Compacts(s[i])
  /\ \A i \in 1 .. Len(s) : s[i].type = "tool_use" => s[i].call \in K
  /\ \A i, j \in 1 .. Len(s) :
       s[i].type = "tool_use" /\ s[j].type = "tool_use" /\ s[i].call = s[j].call => i = j

LEMMA SpeechNone == Speech(<<>>, {})
<1> DEFINE s == <<>>
<1>1. IsSeq(s) /\ Len(s) = 0
  BY None
<1> HIDE DEF s
<1>2. Speech(s, {})
  BY <1>1 DEF Speech
<1> QED
  BY <1>2 DEF s

LEMMA SpeechOne ==
    ASSUME NEW b, b.type \in {"text", "thinking"}, ~Compacts(b) PROVE Speech(<<b>>, {})
<1> DEFINE s == <<b>>
<1>1. IsSeq(s) /\ Len(s) = 1 /\ s[1] = b
  BY One
<1> HIDE DEF s
<1>2. \A i \in 1 .. Len(s) : s[i] = b
  BY <1>1
<1>3. Speech(s, {})
  BY <1>1, <1>2 DEF Speech
<1> QED
  BY <1>3 DEF s

\* calls are a sequence of calls, each once.
Apiece(calls) == IsSeq(calls) /\ \A i, j \in 1 .. Len(calls) : calls[i] = calls[j] => i = j

ToolUses(calls) == [k \in DOMAIN calls |-> ToolUse(calls[k])]

LEMMA SpeechCalls ==
    ASSUME NEW calls, Apiece(calls) PROVE Speech(ToolUses(calls), ToSet(calls))
<1> DEFINE s == ToolUses(calls)
<1>1. DOMAIN calls = 1 .. Len(calls) /\ Len(calls) \in Nat /\ \A i \in 1 .. Len(calls) : calls[i] \in ToSet(calls)
  BY SeqFacts DEF Apiece
<1>2. s = [k \in 1 .. Len(calls) |-> ToolUse(calls[k])]
  BY <1>1 DEF ToolUses
<1> HIDE DEF s
<1>3. IsSeq(s) /\ Len(s) = Len(calls) /\ \A k \in 1 .. Len(calls) : s[k] = ToolUse(calls[k])
  BY <1>1, <1>2, FunIsSeq
<1>4. \A k \in 1 .. Len(s) : s[k].type = "tool_use" /\ s[k].call = calls[k]
  <2>1. \A c : ToolUse(c).type = "tool_use" /\ ToolUse(c).call = c
    BY DEF ToolUse
  <2> QED
    BY <1>3, <2>1
<1>5. \A k \in 1 .. Len(s) : ~Compacts(s[k])
  BY <1>4 DEF Compacts
<1>6. Speech(s, ToSet(calls))
  BY <1>1, <1>3, <1>4, <1>5 DEF Speech, Apiece
<1> QED
  BY <1>6 DEF s

LEMMA SpeechJoin ==
    ASSUME NEW s, NEW K, Speech(s, K), NEW t, NEW J, Speech(t, J), K = {} \/ J = {}
    PROVE  Speech(s \o t, K \cup J)
<1> DEFINE u == s \o t
           n == Len(s)
<1>1. /\ IsSeq(s) /\ IsSeq(t)
      /\ \A i \in 1 .. n : s[i].type \in {"text", "thinking", "tool_use"} /\ ~Compacts(s[i])
      /\ \A i \in 1 .. n : s[i].type = "tool_use" => s[i].call \in K
      /\ \A i, j \in 1 .. n :
           s[i].type = "tool_use" /\ s[j].type = "tool_use" /\ s[i].call = s[j].call => i = j
      /\ \A i \in 1 .. Len(t) : t[i].type \in {"text", "thinking", "tool_use"} /\ ~Compacts(t[i])
      /\ \A i \in 1 .. Len(t) : t[i].type = "tool_use" => t[i].call \in J
      /\ \A i, j \in 1 .. Len(t) :
           t[i].type = "tool_use" /\ t[j].type = "tool_use" /\ t[i].call = t[j].call => i = j
  BY DEF Speech
<1>2. n \in Nat /\ Len(t) \in Nat
  BY <1>1, SeqFacts
<1>3. IsSeq(u) /\ \A i \in 1 .. Len(u) : \/ i \in 1 .. n /\ u[i] = s[i]
                                         \/ i - n \in 1 .. Len(t) /\ u[i] = t[i - n]
  BY <1>1, Concat
<1> HIDE DEF u, n
<1>4. ASSUME NEW i \in 1 .. Len(u)
      PROVE  /\ u[i].type \in {"text", "thinking", "tool_use"} /\ ~Compacts(u[i])
             /\ u[i].type = "tool_use" =>
                  \/ i \in 1 .. n /\ u[i] = s[i] /\ u[i].call \in K
                  \/ i - n \in 1 .. Len(t) /\ u[i] = t[i - n] /\ u[i].call \in J
  <2>1. CASE i \in 1 .. n /\ u[i] = s[i]
    BY <2>1, <1>1
  <2>2. CASE i - n \in 1 .. Len(t) /\ u[i] = t[i - n]
    BY <2>2, <1>1
  <2> QED
    BY <2>1, <2>2, <1>3
<1>5. ASSUME NEW i \in 1 .. Len(u), NEW j \in 1 .. Len(u),
             u[i].type = "tool_use", u[j].type = "tool_use", u[i].call = u[j].call
      PROVE  i = j
  <2>1. CASE J = {}
    <3>1. i \in 1 .. n /\ u[i] = s[i] /\ j \in 1 .. n /\ u[j] = s[j]
      BY <2>1, <1>4, <1>5
    <3> QED
      BY <3>1, <1>1, <1>5
  <2>2. CASE K = {}
    <3>1. i - n \in 1 .. Len(t) /\ u[i] = t[i - n] /\ j - n \in 1 .. Len(t) /\ u[j] = t[j - n]
      BY <2>2, <1>4, <1>5
    <3>2. i - n = j - n
      BY <3>1, <1>1, <1>5
    <3> QED
      BY <3>2, <1>2
  <2> QED
    BY <2>1, <2>2
<1>6. Speech(u, K \cup J)
  <2>1. \A i \in 1 .. Len(u) : u[i].type = "tool_use" => u[i].call \in K \cup J
    BY <1>4
  <2> QED
    BY <2>1, <1>3, <1>4, <1>5 DEF Speech
<1> QED
  BY <1>6 DEF u

\* What an answer is to its conversation: K are its calls.
Told(content, stop, K) ==
  /\ IsSeq(content) /\ CompactsFirst(content)
  /\ \A i \in 1 .. Len(content) : content[i].type \in {"text", "thinking", "tool_use"}
  /\ \A i \in 1 .. Len(content) : content[i].type = "tool_use" => content[i].call \in K
  /\ \A i, j \in 1 .. Len(content) :
       content[i].type = "tool_use" /\ content[j].type = "tool_use" /\ content[i].call = content[j].call
         => i = j
  /\ stop # "tool_use" => K = {}

LEMMA SpeechTold ==
    ASSUME NEW s, NEW K, Speech(s, K), NEW stop, stop # "tool_use" => K = {}
    PROVE  Told(s, stop, K)
<1>1. CompactsFirst(s)
  BY DEF Speech, CompactsFirst, Compacts
<1> QED
  BY <1>1 DEF Speech, Told

\* A compaction in front of what is said.
LEMMA CompactionTold ==
    ASSUME NEW s, NEW K, Speech(s, K), NEW b, b.type = "thinking",
           NEW stop, stop # "tool_use" => K = {}
    PROVE  Told(<<b>> \o s, stop, K)
<1> DEFINE w == <<b>>
           u == w \o s
<1>1. IsSeq(w) /\ Len(w) = 1 /\ w[1] = b
  BY One
<1> HIDE DEF w
<1>2. IsSeq(s) /\ Len(s) \in Nat
  BY SeqFacts DEF Speech
<1>3. IsSeq(u) /\ \A i \in 1 .. Len(u) : \/ i \in 1 .. Len(w) /\ u[i] = w[i]
                                         \/ i - Len(w) \in 1 .. Len(s) /\ u[i] = s[i - Len(w)]
  BY <1>1, <1>2, Concat
<1> HIDE DEF u
<1>4. \A i \in 1 .. Len(u) : \/ i = 1 /\ u[i] = b
                             \/ i - 1 \in 1 .. Len(s) /\ u[i] = s[i - 1]
  BY <1>1, <1>3
<1>5. ASSUME NEW i \in 1 .. Len(u)
      PROVE  /\ u[i].type \in {"text", "thinking", "tool_use"}
             /\ u[i].type = "tool_use" =>
                  i - 1 \in 1 .. Len(s) /\ u[i] = s[i - 1] /\ s[i - 1].type = "tool_use" /\ u[i].call \in K
             /\ u[i].type = "thinking" /\ u[i].signature.by = "compaction" => i = 1
  <2>1. CASE i = 1 /\ u[i] = b
    BY <2>1
  <2>2. CASE i - 1 \in 1 .. Len(s) /\ u[i] = s[i - 1]
    BY <2>2 DEF Speech, Compacts
  <2> QED
    BY <2>1, <2>2, <1>4
<1>6. ASSUME NEW i \in 1 .. Len(u), NEW j \in 1 .. Len(u),
             u[i].type = "tool_use", u[j].type = "tool_use", u[i].call = u[j].call
      PROVE  i = j
  <2>1. /\ i - 1 \in 1 .. Len(s) /\ u[i] = s[i - 1] /\ s[i - 1].type = "tool_use"
        /\ j - 1 \in 1 .. Len(s) /\ u[j] = s[j - 1] /\ s[j - 1].type = "tool_use"
    BY <1>5, <1>6
  <2>2. i - 1 = j - 1
    BY <2>1, <1>6 DEF Speech
  <2> QED
    BY <2>2
<1>7. CompactsFirst(u)
  BY <1>5 DEF CompactsFirst
<1>8. Told(u, stop, K)
  BY <1>3, <1>5, <1>6, <1>7 DEF Told
<1> QED
  BY <1>8 DEF u, w

LEMMA VariedIs ==
    ASSUME NEW answers, NEW usual, usual \in answers, NEW a \in Varied(answers, usual)
    PROVE  a \in answers
  BY DEF Varied

CallsAt(t) == {<<t, 3>>, <<t, 4>>}

\* calls are calls of turn t.
Calling(calls, t) == Apiece(calls) /\ ToSet(calls) \subseteq CallsAt(t)

LEMMA ToSetNone == ToSet(<<>>) = {}
<1> DEFINE s == <<>>
<1>1. DOMAIN s = 1 .. 0
  OBVIOUS
<1> HIDE DEF s
<1>2. ToSet(s) = {}
  BY <1>1 DEF ToSet
<1> QED
  BY <1>2 DEF s

LEMMA CallsIs ==
    ASSUME world.talk \in Talks, NEW t, NEW calls \in Calls(t) PROVE Calling(calls, t)
<1> DEFINE one == << <<t, 3>> >>
           two == << <<t, 3>>, <<t, 4>> >>
<1>1. calls \in {<<>>, one, two}
  BY DEF Calls, Talks
<1>2. CASE calls = <<>>
  <2>1. IsSeq(calls) /\ Len(calls) = 0
    BY <1>2, None
  <2>2. ToSet(calls) = {}
    BY <1>2, ToSetNone
  <2> QED
    BY <2>1, <2>2 DEF Calling, Apiece
<1>3. CASE calls = one
  <2> DEFINE x == <<t, 3>>
  <2>1. calls = <<x>> /\ x \in CallsAt(t)
    BY <1>3 DEF CallsAt
  <2> HIDE DEF x
  <2>2. IsSeq(calls) /\ Len(calls) = 1 /\ calls[1] = x
    BY <2>1, One
  <2>3. DOMAIN calls = 1 .. Len(calls)
    BY <2>2, SeqFacts
  <2>4. \A i \in 1 .. Len(calls) : i = 1
    BY <2>2
  <2> QED
    BY <2>1, <2>2, <2>3, <2>4 DEF Calling, Apiece, ToSet
<1>4. CASE calls = two
  <2> DEFINE x == <<t, 3>>
             y == <<t, 4>>
  <2>1. calls = <<x, y>> /\ x \in CallsAt(t) /\ y \in CallsAt(t) /\ x # y
    BY <1>4 DEF CallsAt
  <2> HIDE DEF x, y
  <2>2. calls \in Seq({x, y}) /\ Len(calls) = 2 /\ calls[1] = x /\ calls[2] = y
    BY <2>1
  <2>3. IsSeq(calls)
    BY <2>2, SeqIs
  <2>4. DOMAIN calls = 1 .. Len(calls)
    BY <2>3, SeqFacts
  <2>5. \A i \in 1 .. Len(calls) : i = 1 \/ i = 2
    BY <2>2
  <2> QED
    BY <2>1, <2>2, <2>3, <2>4, <2>5 DEF Calling, Apiece, ToSet
<1> QED
  BY <1>1, <1>2, <1>3, <1>4

\* Texts and thinking that a turn may hold.
LEMMA TextBlockIs ==
    ASSUME NEW text PROVE Speech(TextBlock(text), {})
<1>1. CASE text = NoText
  <2>1. TextBlock(text) = <<>>
    BY <1>1 DEF TextBlock
  <2> QED
    BY <2>1, SpeechNone
<1>2. CASE text # NoText
  <2> DEFINE b == Text(text, "plain")
  <2>1. b.type = "text"
    BY DEF Text
  <2>2. TextBlock(text) = <<b>>
    BY <1>2 DEF TextBlock
  <2> HIDE DEF b
  <2>3. ~Compacts(b)
    BY <2>1 DEF Compacts
  <2> QED
    BY <2>1, <2>2, <2>3, SpeechOne
<1> QED
  BY <1>1, <1>2

LEMMA ThinkingIs ==
    ASSUME NEW text, NEW sig, sig.by # "compaction"
    PROVE  Speech(<<Thinking(text, sig)>>, {})
<1> DEFINE b == Thinking(text, sig)
<1>1. b.type = "thinking" /\ b.signature = sig
  BY DEF Thinking
<1> HIDE DEF b
<1>2. ~Compacts(b)
  BY <1>1 DEF Compacts
<1>3. Speech(<<b>>, {})
  BY <1>1, <1>2, SpeechOne
<1> QED
  BY <1>3 DEF b

LEMMA SpeechThree ==
    ASSUME NEW r, Speech(r, {}), NEW s, Speech(s, {}), NEW u, NEW K, Speech(u, K)
    PROVE  Speech(r \o s \o u, K)
<1>1. Speech(r \o s, {})
  <2>1. Speech(r \o s, {} \cup {})
    BY SpeechJoin
  <2> QED
    BY <2>1
<1> DEFINE q == r \o s
<1> HIDE DEF q
<1>2. Speech(q, {})
  BY <1>1 DEF q
<1>3. Speech(q \o u, {} \cup K)
  BY <1>2, SpeechJoin
<1>4. Speech(q \o u, K)
  BY <1>3
<1> QED
  BY <1>4 DEF q

\* An answer without a block for a call has no calls.
LEMMA NoneCalled ==
    ASSUME NEW q, IsSeq(q), NEW calls, Apiece(calls), NEW c, IsSeq(c), c = q \o ToolUses(calls),
           OfType(c, {"tool_use"}) = <<>>
    PROVE  ToSet(calls) = {}
<1>1. \A i \in 1 .. Len(c) : c[i].type # "tool_use"
  BY OfTypeEmpty
<1>2. IsSeq(calls) /\ Len(calls) \in Nat /\ DOMAIN calls = 1 .. Len(calls) /\ Len(q) \in Nat
  BY SeqFacts DEF Apiece
<1>3. ASSUME NEW k \in 1 .. Len(calls) PROVE FALSE
  <2> DEFINE s == ToolUses(calls)
  <2>1. IsSeq(s) /\ Len(s) = Len(calls) /\ s[k] = ToolUse(calls[k])
    BY <1>2, FunIsSeq DEF ToolUses
  <2> HIDE DEF s
  <2>2. s[k].type = "tool_use"
    BY <2>1 DEF ToolUse
  <2>3. Len(q \o s) = Len(q) + Len(s) /\ \A i \in 1 .. Len(s) : (q \o s)[Len(q) + i] = s[i]
    BY <2>1, Concat
  <2>4. c = q \o s
    BY DEF s
  <2>5. c[Len(q) + k] = s[k] /\ Len(q) + k \in 1 .. Len(c)
    BY <1>2, <2>1, <2>3, <2>4
  <2> QED
    BY <1>1, <2>2, <2>5
<1> QED
  BY <1>2, <1>3 DEF ToSet

LEMMA MessagesAnswerIs ==
    ASSUME world.talk \in Talks, NEW t, NEW c \in MessagesAnswers(t)
    PROVE  \E calls \in Calls(t) : Told(c, ClaudeStop(c), ToSet(calls))
<1>0. PICK thinking \in ClaudeThinking(t), text \in Texts(t), calls \in Calls(t) :
        c = MessagesAnswer(thinking, text, calls)
  BY DEF MessagesAnswers
<1>1. c = thinking \o TextBlock(text) \o ToolUses(calls)
  BY <1>0 DEF MessagesAnswer, ToolUses
<1>2. Calling(calls, t)
  BY CallsIs
<1>3. Speech(ToolUses(calls), ToSet(calls))
  BY <1>2, SpeechCalls DEF Calling
<1>4. Speech(thinking, {})
  <2> DEFINE th(text1) == <<Thinking(text1, Signed("claude", t))>>
  <2>1. thinking \in {<<>>, th(NoText), th(Thought(t))}
    BY DEF ClaudeThinking, Varied
  <2>2. Signed("claude", t).by # "compaction"
    BY DEF Signed
  <2>3. \A x : Speech(th(x), {})
    BY <2>2, ThinkingIs
  <2> HIDE DEF th
  <2> QED
    BY <2>1, <2>3, SpeechNone
<1>5. Speech(TextBlock(text), {})
  BY TextBlockIs
<1>6. Speech(c, ToSet(calls))
  BY <1>1, <1>3, <1>4, <1>5, SpeechThree
<1>7. ASSUME ClaudeStop(c) # "tool_use" PROVE ToSet(calls) = {}
  <2> DEFINE q == thinking \o TextBlock(text)
  <2>1. OfType(c, {"tool_use"}) = <<>>
    BY <1>7 DEF ClaudeStop
  <2>2. IsSeq(q)
    <3>1. IsSeq(thinking) /\ IsSeq(TextBlock(text))
      BY <1>4, <1>5 DEF Speech
    <3> QED
      BY <3>1, Concat
  <2>3. c = q \o ToolUses(calls) /\ Apiece(calls) /\ IsSeq(c)
    BY <1>1, <1>2, <1>6 DEF Calling, Speech
  <2> HIDE DEF q
  <2> QED
    BY <2>1, <2>2, <2>3, NoneCalled
<1>8. Told(c, ClaudeStop(c), ToSet(calls))
  BY <1>6, <1>7, SpeechTold
<1> QED
  BY <1>8

\* The blocks of the items of s, one item's after the other's.
Blocks(s) == FlattenSeq([i \in DOMAIN s |-> OutputBlocks(s[i])])
Yields(s) == IsSeq(s) /\ \A i \in 1 .. Len(s) : IsSeq(OutputBlocks(s[i]))

Yielding(D) == [x \in D |-> OutputBlocks(x)]
Yielded(D)  == UNION {ToSet(OutputBlocks(x)) : x \in D}

LEMMA YieldsBind ==
    ASSUME NEW D, \A x \in D : IsSeq(OutputBlocks(x)), NEW s \in Seq(D)
    PROVE  Becomes(Yielding(D), D, Yielded(D)) /\ Blocks(s) = Bind(Yielding(D), s)
<1>1. \A x \in D : OutputBlocks(x) \in Seq(Yielded(D))
  <2> SUFFICES ASSUME NEW x \in D PROVE OutputBlocks(x) \in Seq(Yielded(D))
    OBVIOUS
  <2>1. ToSet(OutputBlocks(x)) \subseteq Yielded(D)
    BY DEF Yielded
  <2>2. OutputBlocks(x) \in Seq(ToSet(OutputBlocks(x)))
    BY DEF IsSeq
  <2> QED
    BY <2>1, <2>2, SeqOfMore
<1>2. Becomes(Yielding(D), D, Yielded(D))
  BY <1>1 DEF Becomes, Yielding
<1>3. \A i \in DOMAIN s : OutputBlocks(s[i]) = Yielding(D)[s[i]]
  BY DEF Yielding
<1> QED
  BY <1>2, <1>3 DEF Blocks, Bind

LEMMA BlocksJoin ==
    ASSUME NEW s, Yields(s), NEW u, Yields(u)
    PROVE  Yields(s \o u) /\ Blocks(s \o u) = Blocks(s) \o Blocks(u)
<1> DEFINE D == ToSet(s) \cup ToSet(u)
           w == s \o u
<1>1. IsSeq(s) /\ IsSeq(u)
  BY DEF Yields
<1>2. s \in Seq(D) /\ u \in Seq(D)
  BY <1>1, SeqOfMore DEF IsSeq
<1>3. \A x \in D : IsSeq(OutputBlocks(x))
  <2>1. DOMAIN s = 1 .. Len(s) /\ DOMAIN u = 1 .. Len(u)
    BY <1>1, SeqFacts
  <2> QED
    BY <2>1 DEF Yields, ToSet
<1> HIDE DEF D
<1>4. w \in Seq(D)
  BY <1>2
<1>5. Yields(w)
  <2> HIDE DEF w
  <2>1. IsSeq(w) /\ \A i \in 1 .. Len(w) : w[i] \in D
    BY <1>4, SeqIs
  <2> QED
    BY <1>3, <2>1 DEF Yields
<1>6. Bind(Yielding(D), w) = Bind(Yielding(D), s) \o Bind(Yielding(D), u)
  <2>1. Becomes(Yielding(D), D, Yielded(D))
    BY <1>2, <1>3, YieldsBind
  <2> QED
    BY <1>2, <2>1, BindConcat
<1> HIDE DEF w
<1>7. \A v \in Seq(D) : Blocks(v) = Bind(Yielding(D), v)
  BY <1>3, YieldsBind
<1> QED
  BY <1>2, <1>4, <1>5, <1>6, <1>7 DEF w

LEMMA BlocksOne ==
    ASSUME NEW x, NEW q, OutputBlocks(x) = q, IsSeq(q)
    PROVE  Yields(<<x>>) /\ Blocks(<<x>>) = q
<1> DEFINE s == <<x>>
           o == <<q>>
           f == [i \in DOMAIN s |-> OutputBlocks(s[i])]
<1>1. IsSeq(s) /\ Len(s) = 1 /\ s[1] = x /\ IsSeq(o) /\ Len(o) = 1 /\ o[1] = q
  BY One
<1>2. DOMAIN s = 1 .. 1 /\ o = [i \in 1 .. 1 |-> o[i]]
  BY <1>1, SeqFacts
<1> HIDE DEF s, o
<1>3. \A i \in 1 .. 1 : OutputBlocks(s[i]) = o[i]
  BY <1>1
<1>4. f = o
  BY <1>2, <1>3
<1>5. Yields(s) /\ Blocks(s) = FlattenSeq(o)
  BY <1>1, <1>4 DEF Yields, Blocks
<1>6. FlattenSeq(o) = q
  BY FlattenOne DEF o
<1> QED
  BY <1>5, <1>6 DEF s

LEMMA BlocksNone == Yields(<<>>) /\ Blocks(<<>>) = <<>>
<1> DEFINE s == <<>>
           f == [i \in DOMAIN s |-> OutputBlocks(s[i])]
<1>1. IsSeq(s) /\ Len(s) = 0
  BY None
<1>2. DOMAIN s = 1 .. 0
  BY <1>1, SeqFacts
<1> HIDE DEF s
<1>3. f = [i \in 1 .. 0 |-> f[i]]
  BY <1>2
<1>4. Yields(s) /\ Blocks(s) = FlattenSeq(f)
  BY <1>1 DEF Yields, Blocks
<1> HIDE DEF f
<1>5. f = <<>>
  <2>1. IsSeq(f) /\ Len(f) = 0
    BY <1>3, FunIsSeq
  <2> QED
    BY <2>1, SeqFacts
<1> QED
  BY <1>4, <1>5, FlattenNone DEF s

LEMMA JoinAssociates ==
    ASSUME NEW r, IsSeq(r), NEW s, IsSeq(s), NEW u, IsSeq(u)
    PROVE  (r \o s) \o u = r \o (s \o u)
<1> DEFINE S == ToSet(r) \cup ToSet(s) \cup ToSet(u)
<1>1. r \in Seq(S) /\ s \in Seq(S) /\ u \in Seq(S)
  BY SeqOfMore DEF IsSeq
<1> HIDE DEF S
<1> QED
  BY <1>1

LEMMA NoneBefore ==
    ASSUME NEW s, IsSeq(s) PROVE <<>> \o s = s
<1>1. s \in Seq(ToSet(s))
  BY DEF IsSeq
<1> QED
  BY <1>1

LEMMA ItemIs ==
    ASSUME NEW type, NEW role, NEW call, NEW content, NEW of, NEW summary,
           NEW x, x = Item(type, role, call, content, of, summary)
    PROVE  /\ x.type = type /\ x.role = role /\ x.call = call
           /\ x.content = content /\ x.of = of /\ x.summary = summary
  BY DEF Item

LEMMA ReasoningBlocks ==
    ASSUME NEW x, x.type = "reasoning", NEW text, text = extractReasoningText(x)
    PROVE  OutputBlocks(x) = IF text = NoText THEN <<>>
                             ELSE <<Thinking(text, [by |-> "responses", of |-> x.of])>>
  BY DEF OutputBlocks

LEMMA SayingBlocks ==
    ASSUME NEW x, x.type = "message", NEW text, text = combineMessageTextContent(x.content)
    PROVE  OutputBlocks(x) = IF text = NoText THEN <<>> ELSE <<Text(text, "plain")>>
  BY DEF OutputBlocks

LEMMA CallBlocks ==
    ASSUME NEW x, x.type = "function_call" PROVE OutputBlocks(x) = <<ToolUse(x.call)>>
  BY DEF OutputBlocks

LEMMA CompactionBlocks ==
    ASSUME NEW x, x.type = "compaction"
    PROVE  OutputBlocks(x) = <<Thinking(THINKING_TEXT, [by |-> "compaction", of |-> x.of])>>
  BY DEF OutputBlocks

LEMMA ReasoningSpeaks ==
    ASSUME NEW x, x.type = "reasoning" PROVE Yields(<<x>>) /\ Speech(Blocks(<<x>>), {})
<1> DEFINE text == extractReasoningText(x)
           sig == [by |-> "responses", of |-> x.of]
           b == Thinking(text, sig)
<1>1. sig.by # "compaction"
  OBVIOUS
<1>2. OutputBlocks(x) = IF text = NoText THEN <<>> ELSE <<b>>
  BY ReasoningBlocks
<1> HIDE DEF sig
<1>3. Speech(<<b>>, {})
  BY <1>1, ThinkingIs
<1> HIDE DEF b, text
<1>4. CASE text = NoText
  <2>1. Yields(<<x>>) /\ Blocks(<<x>>) = <<>>
    BY <1>2, <1>4, None, BlocksOne
  <2> QED
    BY <2>1, SpeechNone
<1>5. CASE text # NoText
  <2>1. Yields(<<x>>) /\ Blocks(<<x>>) = <<b>>
    BY <1>2, <1>5, One, BlocksOne
  <2> QED
    BY <2>1, <1>3
<1> QED
  BY <1>4, <1>5

LEMMA SayingSpeaks ==
    ASSUME NEW x, x.type = "message" PROVE Yields(<<x>>) /\ Speech(Blocks(<<x>>), {})
<1> DEFINE text == combineMessageTextContent(x.content)
           b == Text(text, "plain")
<1>1. b.type = "text"
  BY DEF Text
<1>2. OutputBlocks(x) = IF text = NoText THEN <<>> ELSE <<b>>
  BY SayingBlocks
<1> HIDE DEF b, text
<1>3. Speech(<<b>>, {})
  BY <1>1, SpeechOne DEF Compacts
<1>4. CASE text = NoText
  <2>1. Yields(<<x>>) /\ Blocks(<<x>>) = <<>>
    BY <1>2, <1>4, None, BlocksOne
  <2> QED
    BY <2>1, SpeechNone
<1>5. CASE text # NoText
  <2>1. Yields(<<x>>) /\ Blocks(<<x>>) = <<b>>
    BY <1>2, <1>5, One, BlocksOne
  <2> QED
    BY <2>1, <1>3
<1> QED
  BY <1>4, <1>5

FunctionCalls(calls) == [k \in DOMAIN calls |-> FunctionCall(calls[k])]

LEMMA CallsSpeak ==
    ASSUME NEW calls, IsSeq(calls)
    PROVE  /\ Yields(FunctionCalls(calls)) /\ Blocks(FunctionCalls(calls)) = ToolUses(calls)
<1> DEFINE f == FunctionCalls(calls)
           u == ToolUses(calls)
           D == ToSet(f)
           E == Yielded(D)
           m == [x \in D |-> ToolUse(x.call)]
<1>1. DOMAIN calls = 1 .. Len(calls) /\ Len(calls) \in Nat
  BY SeqFacts
<1>2. /\ f = [k \in 1 .. Len(calls) |-> FunctionCall(calls[k])]
      /\ u = [k \in 1 .. Len(calls) |-> ToolUse(calls[k])]
  BY <1>1 DEF FunctionCalls, ToolUses
<1> HIDE DEF f, u
<1>3. IsSeq(f) /\ DOMAIN f = 1 .. Len(calls) /\ Len(f) = Len(calls)
      /\ \A k \in 1 .. Len(calls) : f[k] = FunctionCall(calls[k])
  BY <1>1, <1>2, FunIsSeq
<1>4. \A c : FunctionCall(c).type = "function_call" /\ FunctionCall(c).call = c
  BY ItemIs DEF FunctionCall
<1>5. \A k \in 1 .. Len(calls) : f[k].type = "function_call" /\ f[k].call = calls[k] /\ f[k] \in D
  BY <1>3, <1>4, SeqFacts
<1>6. \A x \in D : x.type = "function_call"
  BY <1>3, <1>5 DEF ToSet
<1> HIDE DEF D
<1>7. \A x \in D : OutputBlocks(x) = <<ToolUse(x.call)>>
  BY <1>6, CallBlocks
<1>8. \A x \in D : IsSeq(OutputBlocks(x))
  BY <1>7, One
<1>9. Yields(f)
  BY <1>3, <1>5, <1>8 DEF Yields
<1>10. f \in Seq(D)
  BY <1>3 DEF IsSeq, D
<1>11. Becomes(Yielding(D), D, E) /\ Blocks(f) = Bind(Yielding(D), f)
  BY <1>8, <1>10, YieldsBind
<1>12. m \in [D -> E]
  <2>1. ASSUME NEW x \in D PROVE ToolUse(x.call) \in E
    <3> DEFINE b == ToolUse(x.call)
    <3> HIDE DEF b
    <3>1. OutputBlocks(x) = <<b>>
      BY <1>7 DEF b
    <3>2. b \in ToSet(<<b>>)
      BY DEF ToSet
    <3> QED
      BY <3>1, <3>2 DEF Yielded, b
  <2> HIDE DEF E
  <2> QED
    BY <2>1
<1>13. \A x \in D : Yielding(D)[x] = <<m[x]>>
  BY <1>7 DEF Yielding
<1>14. \A k \in 1 .. Len(calls) : m[f[k]] = u[k]
  BY <1>2, <1>5
<1> HIDE DEF m, E
<1>15. Bind(Yielding(D), f) = [i \in DOMAIN f |-> m[f[i]]]
  BY <1>10, <1>11, <1>12, <1>13, BindKeeps
<1>16. u = [k \in 1 .. Len(calls) |-> u[k]]
  BY <1>2
<1>17. [i \in DOMAIN f |-> m[f[i]]] = u
  BY <1>3, <1>14, <1>16
<1> QED
  BY <1>9, <1>11, <1>15, <1>17 DEF f, u

\* An output: a compaction or none, reasoning or none, a message or none, and calls.
Uttered(o, t, compaction, thoughts, saying, calls) ==
  /\ compaction = <<>> \/ compaction = <<Compaction(<<t, 5>>)>>
  /\ thoughts = <<>> \/ \E x : thoughts = <<x>> /\ x.type = "reasoning"
  /\ saying = <<>> \/ \E x : saying = <<x>> /\ x.type = "message"
  /\ o = compaction \o thoughts \o saying \o FunctionCalls(calls)

LEMMA UtteredIs ==
    ASSUME NEW t, NEW r \in ResponsesAnswers(t)
    PROVE  \E compaction \in Compactions(t), thoughts \in Reasonings(t), saying \in Sayings(t),
             calls \in Calls(t) : Uttered(r.output, t, compaction, thoughts, saying, calls)
<1>1. PICK e \in Endings, o \in Outputs(t) : r = Result(e[1], e[2], o)
  BY DEF ResponsesAnswers
<1>2. r.output = o
  BY <1>1 DEF Result
<1>3. PICK compaction \in Compactions(t), thoughts \in Reasonings(t), saying \in Sayings(t),
           calls \in Calls(t) :
             o = ResponsesOutput(compaction, thoughts, saying, calls)
  BY DEF Outputs
<1>4. r.output = compaction \o thoughts \o saying \o FunctionCalls(calls)
  BY <1>2, <1>3 DEF FunctionCalls, ResponsesOutput
<1>5. compaction = <<>> \/ compaction = <<Compaction(<<t, 5>>)>>
  BY DEF Compactions, Varied
<1>6. thoughts = <<>> \/ \E x : thoughts = <<x>> /\ x.type = "reasoning"
  <2>1. \A summary : Reasoning(<<t, 2>>, summary).type = "reasoning"
    BY ItemIs DEF Reasoning
  <2>2. thoughts = <<>> \/ \E summary : thoughts = <<Reasoning(<<t, 2>>, summary)>>
    BY DEF Reasonings, Varied
  <2> QED
    BY <2>1, <2>2
<1>7. saying = <<>> \/ \E x : saying = <<x>> /\ x.type = "message"
  <2>1. \A content : MessageItem("assistant", content).type = "message"
    BY ItemIs DEF MessageItem
  <2>2. saying = <<>> \/ \E content : saying = <<MessageItem("assistant", content)>>
    BY DEF Sayings, Varied
  <2> QED
    BY <2>1, <2>2
<1> QED
  BY <1>2, <1>4, <1>5, <1>6, <1>7 DEF Uttered

LEMMA ItemsTold ==
    ASSUME world.talk \in Talks, NEW t, NEW r \in ResponsesAnswers(t),
           NEW answer, answer = translateResponsesResultToAnthropic(r), ~CutShort(answer)
    PROVE  \E calls \in Calls(t) : Told(answer.content, answer.stop_reason, ToSet(calls))
<1>1. PICK compaction \in Compactions(t), thoughts \in Reasonings(t), saying \in Sayings(t),
           calls \in Calls(t) : Uttered(r.output, t, compaction, thoughts, saying, calls)
  BY UtteredIs
<1> DEFINE o == r.output
           cut == Compaction(<<t, 5>>)
           called == FunctionCalls(calls)
           stop == answer.stop_reason
           p == compaction \o thoughts
           q == p \o saying
<1>2. answer.content = Blocks(o)
  BY DEF translateResponsesResultToAnthropic, Blocks
<1>3. Apiece(calls) /\ IsSeq(calls)
  BY CallsIs DEF Calling, Apiece
<1>4. Yields(thoughts) /\ Speech(Blocks(thoughts), {})
  <2>1. thoughts = <<>> \/ \E x : thoughts = <<x>> /\ x.type = "reasoning"
    BY <1>1 DEF Uttered
  <2> QED
    BY <2>1, BlocksNone, SpeechNone, ReasoningSpeaks
<1>5. Yields(saying) /\ Speech(Blocks(saying), {})
  <2>1. saying = <<>> \/ \E x : saying = <<x>> /\ x.type = "message"
    BY <1>1 DEF Uttered
  <2> QED
    BY <2>1, BlocksNone, SpeechNone, SayingSpeaks
<1>6. Yields(called) /\ Blocks(called) = ToolUses(calls) /\ Speech(Blocks(called), ToSet(calls))
  BY <1>3, CallsSpeak, SpeechCalls
<1> DEFINE sig == [by |-> "compaction", of |-> cut.of]
           b == Thinking(THINKING_TEXT, sig)
<1>7. compaction = <<>> \/ compaction = <<cut>>
  BY <1>1 DEF Uttered
<1>8. b.type = "thinking"
  BY DEF Thinking
<1>9. OutputBlocks(cut) = <<b>>
  <2>1. cut.type = "compaction"
    BY ItemIs DEF Compaction
  <2> HIDE DEF cut
  <2> QED
    BY <2>1, CompactionBlocks
<1> HIDE DEF b, sig, cut
<1>10. /\ Yields(<<cut>>) /\ Blocks(<<cut>>) = <<b>>
  BY <1>9, One, BlocksOne
<1>11. Yields(compaction) /\ (compaction = <<>> => Blocks(compaction) = <<>>)
       /\ (compaction = <<cut>> => Blocks(compaction) = <<b>>)
  BY <1>7, <1>10, BlocksNone
<1>12. o = (p \o saying) \o called
  BY <1>1 DEF Uttered
<1> HIDE DEF o, called
<1>13. Yields(p) /\ Blocks(p) = Blocks(compaction) \o Blocks(thoughts)
  BY <1>4, <1>11, BlocksJoin
<1> HIDE DEF p
<1>14. Yields(q) /\ Blocks(q) = Blocks(p) \o Blocks(saying)
  BY <1>5, <1>13, BlocksJoin
<1>15. o = q \o called
  BY <1>12
<1> HIDE DEF q
<1>16. Yields(o) /\ Blocks(o) = Blocks(q) \o Blocks(called)
  BY <1>6, <1>14, <1>15, BlocksJoin
<1> DEFINE bc == Blocks(compaction)
           bt == Blocks(thoughts)
           bs == Blocks(saying)
           bf == Blocks(called)
           rest == (bt \o bs) \o bf
<1>17. Speech(rest, ToSet(calls))
  <2>1. Speech(bt, {}) /\ Speech(bs, {}) /\ Speech(bf, ToSet(calls))
    BY <1>4, <1>5, <1>6
  <2> HIDE DEF bt, bs, bf
  <2> QED
    BY ONLY <2>1, SpeechThree
<1>18. IsSeq(bt) /\ IsSeq(bs) /\ IsSeq(bf) /\ IsSeq(bc)
  BY <1>4, <1>5, <1>6, <1>7, <1>11, None, One DEF Speech
<1>19. Blocks(o) = ((bc \o bt) \o bs) \o bf
  BY <1>13, <1>14, <1>16
<1> HIDE DEF bc, bt, bs, bf
<1>20. ((bc \o bt) \o bs) \o bf = bc \o rest /\ IsSeq(rest)
  <2> DEFINE X == ToSet(bc) \cup ToSet(bt) \cup ToSet(bs) \cup ToSet(bf)
  <2>1. bc \in Seq(X) /\ bt \in Seq(X) /\ bs \in Seq(X) /\ bf \in Seq(X)
    BY <1>18, SeqOfMore DEF IsSeq
  <2> HIDE DEF X
  <2>2. (bc \o bt) \o bs = bc \o (bt \o bs) /\ bt \o bs \in Seq(X)
    BY ONLY <2>1
  <2> DEFINE d == bt \o bs
  <2> HIDE DEF d
  <2>3. d \in Seq(X) /\ ((bc \o bt) \o bs) \o bf = (bc \o d) \o bf /\ rest = d \o bf
    BY <2>2 DEF d
  <2>5. bc \in Seq(X) /\ d \in Seq(X) /\ bf \in Seq(X)
    BY <2>1, <2>3
  <2>4. (bc \o d) \o bf = bc \o (d \o bf) /\ d \o bf \in Seq(X)
    BY ONLY <2>5
  <2> HIDE DEF rest
  <2> QED
    BY <2>3, <2>4, SeqIs
<1>21. Blocks(o) = bc \o rest
  BY <1>19, <1>20
<1>22. ASSUME stop # "tool_use" PROVE ToSet(calls) = {}
  <2> DEFINE a == Blocks(q)
  <2>1. OfType(answer.content, {"tool_use"}) = <<>>
    BY <1>22 DEF CutShort
  <2>2. IsSeq(a) /\ IsSeq(Blocks(o))
    <3>1. a = (bc \o bt) \o bs
      BY <1>13, <1>14 DEF bc, bt, bs
    <3>2. IsSeq(bc \o bt)
      BY ONLY <1>18, Concat
    <3> DEFINE d == bc \o bt
    <3> HIDE DEF d
    <3>3. IsSeq(d)
      BY <3>2 DEF d
    <3>4. IsSeq(d \o bs)
      BY ONLY <1>18, <3>3, Concat
    <3>5. IsSeq(bc \o rest)
      BY ONLY <1>18, <1>20, Concat
    <3> QED
      BY <3>1, <3>4, <3>5, <1>21 DEF d
  <2>3. Blocks(o) = a \o ToolUses(calls)
    BY <1>6, <1>16
  <2> HIDE DEF a
  <2> QED
    BY <1>2, <1>3, <2>1, <2>2, <2>3, NoneCalled
<1> HIDE DEF rest, stop
<1>23. Told(Blocks(o), stop, ToSet(calls))
  <2>1. CASE compaction = <<>>
    <3>1. Blocks(o) = rest
      BY <2>1, <1>11, <1>20, <1>21, NoneBefore DEF bc
    <3> QED
      BY <3>1, <1>17, <1>22, SpeechTold
  <2>2. CASE compaction = <<cut>>
    <3>1. Blocks(o) = <<b>> \o rest
      BY <2>2, <1>11, <1>21 DEF bc
    <3> QED
      BY <3>1, <1>8, <1>17, <1>22, CompactionTold
  <2> QED
    BY <2>1, <2>2, <1>7
<1> QED
  BY <1>2, <1>23 DEF o, stop

\* The reason an answer of one choice, or of two, ends with.
LEMMA StopOfOne ==
    ASSUME NEW choices, IsSeq(choices), Len(choices) = 1
    PROVE  ChoicesStopReason(choices) = choices[1].finish_reason
<1> DEFINE reason(k) == choices[k].finish_reason
           Held(h) == h = [k \in DOMAIN choices |->
                             IF k = 1 \/ reason(k) = "tool_calls" \/ h[k - 1] = "stop" THEN reason(k)
                                                                                       ELSE h[k - 1]]
           chosen == CHOOSE h : Held(h)
           f == [k \in DOMAIN choices |-> reason(k)]
<1>1. DOMAIN choices = {1}
  BY SeqFacts
<1>2. Held(f)
  BY <1>1
<1>3. Held(chosen)
  BY <1>2
<1>4. ChoicesStopReason(choices) = chosen[1]
  BY DEF ChoicesStopReason
<1> HIDE DEF chosen
<1> QED
  BY <1>1, <1>3, <1>4

LEMMA StopOfTwo ==
    ASSUME NEW choices, IsSeq(choices), Len(choices) = 2
    PROVE  ChoicesStopReason(choices) =
             IF choices[2].finish_reason = "tool_calls" \/ choices[1].finish_reason = "stop"
               THEN choices[2].finish_reason ELSE choices[1].finish_reason
<1> DEFINE reason(k) == choices[k].finish_reason
           Held(h) == h = [k \in DOMAIN choices |->
                             IF k = 1 \/ reason(k) = "tool_calls" \/ h[k - 1] = "stop" THEN reason(k)
                                                                                       ELSE h[k - 1]]
           chosen == CHOOSE h : Held(h)
           f == [k \in DOMAIN choices |->
                   IF k = 1 \/ reason(k) = "tool_calls" \/ reason(1) = "stop" THEN reason(k) ELSE reason(1)]
<1>1. DOMAIN choices = 1 .. 2
  BY SeqFacts
<1>2. Held(f)
  <2>1. f[1] = reason(1)
    BY <1>1
  <2>2. \A k \in 1 .. 2 : f[k] = IF k = 1 \/ reason(k) = "tool_calls" \/ f[k - 1] = "stop" THEN reason(k)
                                                                                   ELSE f[k - 1]
    BY <1>1, <2>1
  <2> QED
    BY <1>1, <2>2
<1>3. Held(chosen)
  BY <1>2
<1>4. ChoicesStopReason(choices) = chosen[2]
  BY DEF ChoicesStopReason
<1> HIDE DEF chosen
<1>5. chosen[1] = reason(1) /\ chosen[2] = IF reason(2) = "tool_calls" \/ chosen[1] = "stop" THEN reason(2)
                                                                                    ELSE chosen[1]
  BY <1>1, <1>3
<1> QED
  BY <1>4, <1>5

LEMMA ChoiceSpeaks ==
    ASSUME NEW choice, choice.reasoning_opaque.by # "compaction", NEW calls, Apiece(calls),
           choice.tool_calls = calls
    PROVE  Speech(ChoiceContent(choice), ToSet(calls))
<1> DEFINE think == getAnthropicThinkBlocks(choice)
           said == TextBlock(choice.text)
<1>1. Speech(think, {})
  <2> DEFINE th(text) == <<Thinking(text, choice.reasoning_opaque)>>
  <2>1. think \in {th(choice.reasoning_text), th(THINKING_TEXT), <<>>}
    BY DEF getAnthropicThinkBlocks
  <2>2. \A text : Speech(th(text), {})
    BY ThinkingIs
  <2> HIDE DEF th, think
  <2> QED
    BY <2>1, <2>2, SpeechNone
<1>2. Speech(said, {})
  BY TextBlockIs
<1>3. Speech(ToolUses(calls), ToSet(calls))
  BY SpeechCalls
<1>4. ChoiceContent(choice) = think \o said \o ToolUses(calls)
  BY DEF ChoiceContent, TextBlock, ToolUses
<1> HIDE DEF think, said
<1> QED
  BY <1>1, <1>2, <1>3, <1>4, SpeechThree

LEMMA ContentOfOne ==
    ASSUME NEW x, IsSeq(ChoiceContent(x)), NEW a, a = translateToAnthropic(<<x>>)
    PROVE  /\ a.content = ChoiceContent(x)
           /\ a.stop_reason = IF x.finish_reason = "tool_calls" THEN "tool_use" ELSE "end_turn"
<1> DEFINE w == <<x>>
           s == ChoiceContent(x)
           q == [i \in DOMAIN w |-> ChoiceContent(w[i])]
<1>1. IsSeq(w) /\ Len(w) = 1 /\ w[1] = x
  BY One
<1>2. a.content = FlattenSeq(q) /\ a.stop_reason = IF ChoicesStopReason(w) = "tool_calls" THEN "tool_use" ELSE "end_turn"
  BY DEF translateToAnthropic
<1> HIDE DEF w
<1>3. ChoicesStopReason(w) = x.finish_reason
  BY <1>1, StopOfOne
<1>4. q = <<s>>
  <2>1. DOMAIN w = 1 .. 1
    BY <1>1, SeqFacts
  <2>2. q = [i \in 1 .. 1 |-> s]
    BY <1>1, <2>1
  <2> HIDE DEF s
  <2> QED
    BY <2>2
<1>5. FlattenSeq(<<s>>) = s
  BY FlattenOne
<1> QED
  BY <1>2, <1>3, <1>4, <1>5

LEMMA ContentOfTwo ==
    ASSUME NEW x, NEW y, IsSeq(ChoiceContent(x)), IsSeq(ChoiceContent(y)),
           NEW a, a = translateToAnthropic(<<x, y>>)
    PROVE  /\ a.content = ChoiceContent(x) \o ChoiceContent(y)
           /\ a.stop_reason = IF (IF y.finish_reason = "tool_calls" \/ x.finish_reason = "stop"
                                    THEN y.finish_reason ELSE x.finish_reason) = "tool_calls"
                                THEN "tool_use" ELSE "end_turn"
<1> DEFINE w == <<x, y>>
           s == ChoiceContent(x)
           u == ChoiceContent(y)
           q == [i \in DOMAIN w |-> ChoiceContent(w[i])]
<1>1. IsSeq(w) /\ Len(w) = 2 /\ w[1] = x /\ w[2] = y
  <2>1. w \in Seq({x, y})
    OBVIOUS
  <2> QED
    BY <2>1, SeqIs
<1>2. a.content = FlattenSeq(q) /\ a.stop_reason = IF ChoicesStopReason(w) = "tool_calls" THEN "tool_use" ELSE "end_turn"
  BY DEF translateToAnthropic
<1> HIDE DEF w
<1>3. ChoicesStopReason(w) = IF y.finish_reason = "tool_calls" \/ x.finish_reason = "stop"
                               THEN y.finish_reason ELSE x.finish_reason
  BY <1>1, StopOfTwo
<1>4. q = <<s, u>>
  <2>1. DOMAIN w = 1 .. 2
    BY <1>1, SeqFacts
  <2>2. q = [i \in 1 .. 2 |-> IF i = 1 THEN s ELSE u]
    BY <1>1, <2>1
  <2> HIDE DEF s, u
  <2> QED
    BY <2>2
<1>5. FlattenSeq(<<s, u>>) = s \o u
  BY FlattenTwo
<1>6. a.content = s \o u
  BY <1>2, <1>4, <1>5
<1> HIDE DEF s, u, q
<1>7. a.stop_reason = IF (IF y.finish_reason = "tool_calls" \/ x.finish_reason = "stop"
                           THEN y.finish_reason ELSE x.finish_reason) = "tool_calls"
                       THEN "tool_use" ELSE "end_turn"
  BY <1>2, <1>3
<1> QED
  BY <1>6, <1>7 DEF s, u

LEMMA ChoicesTold ==
    ASSUME world.talk \in Talks, NEW t, NEW choices \in ChatAnswers(t),
           NEW a, a = translateToAnthropic(choices)
    PROVE  \E calls \in Calls(t) : Told(a.content, a.stop_reason, ToSet(calls))
<1>1. PICK text \in Texts(t), reasoning \in ChatThoughts(t), opaque \in Opaques(t),
           calls \in Calls(t) :
             choices \in ChatAnswer(text, reasoning, opaque, calls)
  BY DEF ChatAnswers
<1> DEFINE speaking == Choice(text, reasoning, opaque, <<>>, "stop")
           calling  == Choice(NoText, NoText, NoSignature, calls, "tool_calls")
           whole    == Choice(text, reasoning, opaque, calls, "tool_calls")
<1>2. /\ calls = <<>> => choices = <<speaking>>
      /\ calls # <<>> => choices \in {<<whole>>, <<speaking, calling>>, <<calling, speaking>>}
  BY <1>1 DEF ChatAnswer, Varied
<1>3. opaque.by # "compaction" /\ NoSignature.by # "compaction"
  BY DEF Opaques, Varied, Signed, NoSignature
<1>4. /\ speaking.reasoning_opaque = opaque /\ speaking.finish_reason = "stop" /\ speaking.tool_calls = <<>>
      /\ calling.reasoning_opaque = NoSignature /\ calling.finish_reason = "tool_calls" /\ calling.tool_calls = calls
      /\ whole.reasoning_opaque = opaque /\ whole.finish_reason = "tool_calls" /\ whole.tool_calls = calls
  BY DEF Choice
<1>5. Apiece(calls) /\ Apiece(<<>>) /\ ToSet(<<>>) = {}
  <2> DEFINE none == <<>>
  <2>1. IsSeq(none) /\ Len(none) = 0
    BY None
  <2> HIDE DEF none
  <2>2. Apiece(none)
    BY <2>1 DEF Apiece
  <2> QED
    BY <2>2, CallsIs, ToSetNone DEF Calling, none
<1> HIDE DEF speaking, calling, whole
<1>6. Speech(ChoiceContent(speaking), {})
  BY <1>3, <1>4, <1>5, ChoiceSpeaks
<1>7. Speech(ChoiceContent(calling), ToSet(calls)) /\ Speech(ChoiceContent(whole), ToSet(calls))
  BY <1>3, <1>4, <1>5, ChoiceSpeaks
<1>8. IsSeq(ChoiceContent(speaking)) /\ IsSeq(ChoiceContent(calling)) /\ IsSeq(ChoiceContent(whole))
  BY <1>6, <1>7 DEF Speech
<1>9. CASE calls = <<>>
  <2>1. a.content = ChoiceContent(speaking)
    BY <1>2, <1>8, <1>9, ContentOfOne
  <2>2. ToSet(calls) = {}
    BY <1>5, <1>9
  <2> QED
    BY <1>6, <2>1, <2>2, SpeechTold
<1>10. CASE choices = <<whole>>
  <2>1. a.content = ChoiceContent(whole) /\ a.stop_reason = "tool_use"
    BY <1>4, <1>8, <1>10, ContentOfOne
  <2> QED
    BY <1>7, <2>1, SpeechTold
<1>11. CASE choices = <<speaking, calling>>
  <2>1. a.content = ChoiceContent(speaking) \o ChoiceContent(calling) /\ a.stop_reason = "tool_use"
    BY <1>4, <1>8, <1>11, ContentOfTwo
  <2>2. Speech(ChoiceContent(speaking) \o ChoiceContent(calling), {} \cup ToSet(calls))
    BY <1>6, <1>7, SpeechJoin
  <2>3. Speech(a.content, ToSet(calls))
    BY <2>1, <2>2
  <2> QED
    BY <2>1, <2>3, SpeechTold
<1>12. CASE choices = <<calling, speaking>>
  <2>1. a.content = ChoiceContent(calling) \o ChoiceContent(speaking) /\ a.stop_reason = "tool_use"
    BY <1>4, <1>8, <1>12, ContentOfTwo
  <2>2. Speech(ChoiceContent(calling) \o ChoiceContent(speaking), ToSet(calls) \cup {})
    BY <1>6, <1>7, SpeechJoin
  <2>3. Speech(a.content, ToSet(calls))
    BY <2>1, <2>2
  <2> QED
    BY <2>1, <2>3, SpeechTold
<1> QED
  BY <1>2, <1>9, <1>10, <1>11, <1>12

\* Whatever upstream answers, the client is handed calls of this turn alone, each once, and
\* is told of them.
LEMMA AnswersTold ==
    ASSUME world.talk \in Talks, NEW t, NEW api \in APIs, NEW a \in Answers(api, t), ~CutShort(a.answer)
    PROVE  \E calls \in Calls(t) : Told(a.answer.content, a.answer.stop_reason, ToSet(calls))
<1>1. CASE api = "messages"
  <2>1. PICK c \in MessagesAnswers(t) :
          a = [said |-> c, answer |-> [content |-> c, stop_reason |-> ClaudeStop(c)]]
    BY <1>1 DEF Answers
  <2>2. a.answer.content = c /\ a.answer.stop_reason = ClaudeStop(c)
    BY <2>1
  <2> QED
    BY <2>2, MessagesAnswerIs
<1>2. CASE api = "responses"
  <2>1. PICK r \in ResponsesAnswers(t) :
          a = [said |-> r.output, answer |-> translateResponsesResultToAnthropic(r)]
    BY <1>2 DEF Answers
  <2>2. a.answer = translateResponsesResultToAnthropic(r)
    BY <2>1
  <2> QED
    BY <2>2, ItemsTold
<1>3. CASE api = "chat"
  <2>1. PICK c \in ChatAnswers(t) : a = [said |-> c, answer |-> translateToAnthropic(c)]
    BY <1>3 DEF Answers
  <2>2. a.answer = translateToAnthropic(c)
    BY <2>1
  <2> QED
    BY <2>2, ChoicesTold
<1> QED
  BY <1>1, <1>2, <1>3 DEF APIs

-----------------------------------------------------------------------------
(* What the user says next                                                 *)

\* What the user adds to message t: each part has an identity of its own.
Added(t, s) ==
  /\ IsSeq(s)
  /\ \A i \in 1 .. Len(s) : IsAside(s[i]) /\ \E k : s[i].id = <<t, k>>
  /\ \A i, j \in 1 .. Len(s) : s[i].id = s[j].id => i = j

LEMMA AddedNone == ASSUME NEW t PROVE Added(t, <<>>)
<1> DEFINE s == <<>>
<1>1. IsSeq(s) /\ Len(s) = 0
  BY None
<1> HIDE DEF s
<1>2. Added(t, s)
  BY <1>1 DEF Added
<1> QED
  BY <1>2 DEF s

LEMMA AddedOne ==
    ASSUME NEW t, NEW b, IsAside(b), NEW k, b.id = <<t, k>> PROVE Added(t, <<b>>)
<1> DEFINE s == <<b>>
<1>1. IsSeq(s) /\ Len(s) = 1 /\ s[1] = b
  BY One
<1> HIDE DEF s
<1>2. \A i \in 1 .. Len(s) : i = 1
  BY <1>1
<1>3. Added(t, s)
  BY <1>1, <1>2 DEF Added
<1> QED
  BY <1>3 DEF s

LEMMA AddedTwo ==
    ASSUME NEW t, NEW b, IsAside(b), NEW d, IsAside(d), b.id = <<t, 1>>, d.id = <<t, 2>>
    PROVE  Added(t, <<b, d>>)
<1> DEFINE s == <<b, d>>
<1>1. s \in Seq({b, d}) /\ Len(s) = 2 /\ s[1] = b /\ s[2] = d
  OBVIOUS
<1> HIDE DEF s
<1>2. IsSeq(s)
  BY <1>1, SeqIs
<1>3. \A i \in 1 .. Len(s) : i = 1 \/ i = 2
  BY <1>1
<1>4. b.id # d.id
  OBVIOUS
<1>5. Added(t, s)
  BY <1>1, <1>2, <1>3, <1>4 DEF Added
<1> QED
  BY <1>5 DEF s

LEMMA AddedThree ==
    ASSUME NEW t, NEW b, IsAside(b), NEW d, IsAside(d), NEW e, IsAside(e),
           b.id = <<t, 1>>, d.id = <<t, 2>>, e.id = <<t, 3>>
    PROVE  Added(t, <<b, d, e>>)
<1> DEFINE s == <<b, d, e>>
<1>1. s \in Seq({b, d, e}) /\ Len(s) = 3 /\ s[1] = b /\ s[2] = d /\ s[3] = e
  OBVIOUS
<1> HIDE DEF s
<1>2. IsSeq(s)
  BY <1>1, SeqIs
<1>3. \A i \in 1 .. Len(s) : i = 1 \/ i = 2 \/ i = 3
  BY <1>1
<1>4. b.id # d.id /\ b.id # e.id /\ d.id # e.id
  OBVIOUS
<1>5. Added(t, s)
  BY <1>1, <1>2, <1>3, <1>4 DEF Added
<1> QED
  BY <1>5 DEF s

LEMMA AsidesAdded == ASSUME NEW t, NEW s \in Asides(t) PROVE Added(t, s)
<1> DEFINE text(k) == Text(<<t, k>>, "plain")
           boundary(k) == Text(<<t, k>>, "boundary")
           image(k) == Image(<<t, k>>)
           document(k) == Document(<<t, k>>)
           summary == Text(<<t, 1>>, "compact")
           resumption == Text(<<t, 1>>, "continue")
<1>1. s \in { <<text(1)>>, <<text(1), text(2)>>, <<boundary(1), text(2)>>, <<image(1)>>,
              <<document(1)>>, <<document(1), document(2)>>, <<image(1), document(2)>>,
              <<text(1), document(2), image(3)>>, <<summary>>, <<resumption>> }
  BY DEF Asides
<1>2. \A k : /\ IsAside(text(k)) /\ text(k).id = <<t, k>>
             /\ IsAside(boundary(k)) /\ boundary(k).id = <<t, k>>
             /\ IsAside(image(k)) /\ image(k).id = <<t, k>>
             /\ IsAside(document(k)) /\ document(k).id = <<t, k>>
  BY DEF IsAside, Attachments, Text, Image, Document
<1>3. IsAside(summary) /\ summary.id = <<t, 1>> /\ IsAside(resumption) /\ resumption.id = <<t, 1>>
  BY DEF IsAside, Text
<1> HIDE DEF text, boundary, image, document, summary, resumption
<1>4. /\ Added(t, <<text(1)>>) /\ Added(t, <<image(1)>>) /\ Added(t, <<document(1)>>)
      /\ Added(t, <<summary>>) /\ Added(t, <<resumption>>)
  BY <1>2, <1>3, AddedOne
<1>5. /\ Added(t, <<text(1), text(2)>>) /\ Added(t, <<boundary(1), text(2)>>)
      /\ Added(t, <<document(1), document(2)>>) /\ Added(t, <<image(1), document(2)>>)
  BY <1>2, AddedTwo
<1>6. Added(t, <<text(1), document(2), image(3)>>)
  BY <1>2, AddedThree
<1> QED
  BY <1>1, <1>4, <1>5, <1>6

\* A result of message t that answers call.
ResultOf(t, call, b) ==
  IsResult(b) /\ b.call = call /\ PartIds(b.content) \subseteq {<<t, call[1], call[2]>>}

LEMMA PlainNone == Plain(<<>>) /\ PartIds(<<>>) = {}
<1> DEFINE s == <<>>
<1>1. IsSeq(s) /\ Len(s) = 0
  BY None
<1> HIDE DEF s
<1>2. Plain(s) /\ PartIds(s) = {}
  BY <1>1 DEF Plain, PartIds
<1> QED
  BY <1>2 DEF s

LEMMA PlainOne ==
    ASSUME NEW b, b.type \in {"text", "tool_reference"} PROVE Plain(<<b>>) /\ PartIds(<<b>>) = {b.id}
<1> DEFINE s == <<b>>
<1>1. IsSeq(s) /\ Len(s) = 1 /\ s[1] = b
  BY One
<1> HIDE DEF s
<1>2. \A i \in 1 .. Len(s) : i = 1
  BY <1>1
<1>3. Plain(s) /\ PartIds(s) = {b.id}
  BY <1>1, <1>2 DEF Plain, PartIds
<1> QED
  BY <1>3 DEF s

LEMMA ResultFormed ==
    ASSUME NEW t, NEW call, NEW form, form \in {"string", "blocks"}, NEW error,
           NEW b, b.type \in {"text", "tool_reference"}, b.id = <<t, call[1], call[2]>>
    PROVE  ResultOf(t, call, ToolResult(call, form, <<b>>, error))
<1> DEFINE s == <<b>>
           r == ToolResult(call, form, s, error)
<1>1. Plain(s) /\ PartIds(s) \subseteq {<<t, call[1], call[2]>>}
  BY PlainOne
<1> HIDE DEF s
<1>2. r.call = call /\ r.form = form /\ r.content = s /\ r.error = error
  BY DEF ToolResult
<1>3. r = ToolResult(r.call, r.form, r.content, r.error)
  BY <1>2
<1> HIDE DEF r
<1>4. ResultOf(t, call, r)
  BY <1>1, <1>2, <1>3 DEF ResultOf, IsResult
<1> QED
  BY <1>4 DEF r, s

LEMMA FormsOfResult ==
    ASSUME NEW t, NEW call, NEW b \in ResultForms(t, call) PROVE ResultOf(t, call, b)
<1> DEFINE text(says) == Text(<<t, call[1], call[2]>>, says)
           tool == ToolReference(<<t, call[1], call[2]>>)
           empty == ToolResult(call, "none", <<>>, FALSE)
<1>1. b \in { ToolResult(call, "string", <<text("plain")>>, FALSE),
              ToolResult(call, "blocks", <<text("plain")>>, FALSE), empty,
              ToolResult(call, "string", <<text("pdf")>>, FALSE),
              ToolResult(call, "blocks", <<text("pdf")>>, FALSE),
              ToolResult(call, "blocks", <<tool>>, FALSE),
              ToolResult(call, "string", <<text("plain")>>, TRUE) }
  BY DEF ResultForms
<1>2. \A says : text(says).type = "text" /\ text(says).id = <<t, call[1], call[2]>>
  BY DEF Text
<1>3. tool.type = "tool_reference" /\ tool.id = <<t, call[1], call[2]>>
  BY DEF ToolReference
<1> HIDE DEF text, tool
<1>4. ResultOf(t, call, empty)
  <2> DEFINE s == <<>>
  <2>1. Plain(s) /\ PartIds(s) = {}
    BY PlainNone
  <2>2. empty.call = call /\ empty.form = "none" /\ empty.content = s /\ empty.error = FALSE
    BY DEF ToolResult
  <2>3. empty = ToolResult(empty.call, empty.form, empty.content, empty.error)
    BY <2>2
  <2> HIDE DEF empty
  <2>4. IsResult(empty)
    BY <2>1, <2>2, <2>3 DEF IsResult
  <2> QED
    BY <2>1, <2>2, <2>4 DEF ResultOf
<1> HIDE DEF empty
<1>5. \A says : \A error :
        /\ ResultOf(t, call, ToolResult(call, "string", <<text(says)>>, error))
        /\ ResultOf(t, call, ToolResult(call, "blocks", <<text(says)>>, error))
  BY <1>2, ResultFormed
<1>6. \A error : ResultOf(t, call, ToolResult(call, "blocks", <<tool>>, error))
  BY <1>3, ResultFormed
<1> QED
  BY <1>1, <1>4, <1>5, <1>6

\* Results of message t, one for each of the calls.
Results(t, results, calls) ==
  /\ IsSeq(results) /\ Len(results) = Len(calls)
  /\ \A k \in 1 .. Len(calls) : ResultOf(t, calls[k], results[k])

LEMMA IdLengths == \A t, k, u, a, b : <<t, k>> # <<u, a, b>>
  OBVIOUS

LEMMA CallIds ==
    ASSUME NEW t, NEW u, NEW x \in CallsAt(u), NEW y \in CallsAt(u),
           <<t, x[1], x[2]>> = <<t, y[1], y[2]>>
    PROVE  x = y
<1>1. x[2] = y[2] /\ x[1] = y[1]
  OBVIOUS
<1>2. x = <<u, 3>> \/ x = <<u, 4>>
  BY DEF CallsAt
<1>3. y = <<u, 3>> \/ y = <<u, 4>>
  BY DEF CallsAt
<1> QED
  BY <1>1, <1>2, <1>3

LEMMA AnsweredContent ==
    ASSUME NEW t, NEW u, NEW calls, Calling(calls, u), NEW results, Results(t, results, calls),
           NEW aside, Added(t, aside), NEW c, c = results \o aside
    PROVE  /\ Clean(c) /\ Answering(c, ToSet(calls))
           /\ \A x \in ContentIds(c) : x[1] = t
<1> DEFINE n == Len(results)
           K(i) == <<t, calls[i][1], calls[i][2]>>
<1>1. /\ IsSeq(results) /\ n \in Nat /\ n = Len(calls) /\ IsSeq(aside) /\ Len(aside) \in Nat
      /\ IsSeq(calls) /\ DOMAIN calls = 1 .. n
  BY SeqFacts DEF Results, Added, Calling, Apiece
<1>2. /\ IsSeq(c) /\ Len(c) = n + Len(aside)
      /\ \A i \in 1 .. n : c[i] = results[i]
      /\ \A i \in 1 .. Len(c) : \/ i \in 1 .. n /\ c[i] = results[i]
                                \/ i - n \in 1 .. Len(aside) /\ c[i] = aside[i - n]
  <2> DEFINE all == results \o aside
  <2>1. /\ IsSeq(all) /\ Len(all) = Len(results) + Len(aside)
        /\ \A i \in 1 .. Len(results) : all[i] = results[i]
    BY <1>1, Concat
  <2>2. \A i \in 1 .. Len(all) :
           \/ i \in 1 .. Len(results) /\ all[i] = results[i]
           \/ i - Len(results) \in 1 .. Len(aside) /\ all[i] = aside[i - Len(results)]
    BY <1>1, Concat
  <2> HIDE DEF all
  <2> QED
    BY <2>1, <2>2 DEF all
<1>3. \A k \in 1 .. n : ResultOf(t, calls[k], results[k])
  BY <1>1 DEF Results
<1>4. \A i \in 1 .. n : calls[i] \in CallsAt(u) /\ calls[i] \in ToSet(calls)
  BY <1>1, SeqFacts DEF Calling
<1>5. \A i, j \in 1 .. n : calls[i] = calls[j] => i = j
  BY <1>1 DEF Calling, Apiece
<1> HIDE DEF n
<1>6. ASSUME NEW i \in 1 .. n
      PROVE  /\ IsResult(c[i]) /\ c[i].type = "tool_result" /\ c[i].call = calls[i]
             /\ \A x \in BlockIds(c[i]) : x = K(i)
             /\ i \in 1 .. Len(c)
  <2>1. ResultOf(t, calls[i], c[i])
    BY <1>2, <1>3
  <2>2. IsResult(c[i]) /\ c[i].call = calls[i] /\ PartIds(c[i].content) \subseteq {K(i)}
    BY <2>1 DEF ResultOf
  <2>3. c[i].type = "tool_result"
    BY <2>2, ResultTyped
  <2>4. BlockIds(c[i]) = PartIds(c[i].content)
    BY <2>3 DEF BlockIds
  <2>5. \A x \in BlockIds(c[i]) : x = K(i)
    BY <2>2, <2>4
  <2>6. i \in 1 .. Len(c)
    BY <1>1, <1>2
  <2> QED
    BY <2>2, <2>3, <2>5, <2>6
<1>7. ASSUME NEW i \in 1 .. Len(c), i \notin 1 .. n
      PROVE  /\ i > n /\ i - n \in 1 .. Len(aside) /\ c[i] = aside[i - n]
             /\ IsAside(c[i]) /\ c[i].type # "tool_result"
             /\ \A x \in BlockIds(c[i]) : x = c[i].id
             /\ \E k : c[i].id = <<t, k>>
  <2>1. i - n \in 1 .. Len(aside) /\ c[i] = aside[i - n]
    BY <1>2, <1>7
  <2>2. IsAside(c[i]) /\ \E k : c[i].id = <<t, k>>
    BY <2>1 DEF Added
  <2>3. c[i].type # "tool_result"
    BY <2>2 DEF IsAside, Attachments
  <2>4. BlockIds(c[i]) = {c[i].id}
    BY <2>3 DEF BlockIds
  <2>5. i > n
    BY <1>1, <1>7
  <2> QED
    BY <2>1, <2>2, <2>3, <2>4, <2>5
<1>8. ASSUME NEW i \in 1 .. Len(c), NEW j \in 1 .. Len(c), NEW x \in BlockIds(c[i]), x \in BlockIds(c[j])
      PROVE  i = j
  <2>1. CASE i \in 1 .. n /\ j \in 1 .. n
    <3>1. K(i) = K(j)
      BY <2>1, <1>6, <1>8
    <3>2. calls[i] \in CallsAt(u) /\ calls[j] \in CallsAt(u)
      BY <2>1, <1>4
    <3>3. calls[i] = calls[j]
      BY <3>1, <3>2, CallIds
    <3> QED
      BY <2>1, <3>3, <1>5
  <2>2. CASE i \in 1 .. n /\ j \notin 1 .. n
    <3>1. x = K(i)
      BY <2>2, <1>6
    <3>2. PICK k : x = <<t, k>>
      BY <2>2, <1>7, <1>8
    <3> QED
      BY <3>1, <3>2, IdLengths
  <2>3. CASE i \notin 1 .. n /\ j \in 1 .. n
    <3>1. x = K(j)
      BY <2>3, <1>6, <1>8
    <3>2. PICK k : x = <<t, k>>
      BY <2>3, <1>7
    <3> QED
      BY <3>1, <3>2, IdLengths
  <2>4. CASE i \notin 1 .. n /\ j \notin 1 .. n
    <3>1. c[i].id = c[j].id
      BY <2>4, <1>7, <1>8
    <3>2. aside[i - n].id = aside[j - n].id /\ i - n \in 1 .. Len(aside) /\ j - n \in 1 .. Len(aside)
      BY <2>4, <3>1, <1>7
    <3>3. i - n = j - n
      BY <3>2 DEF Added
    <3> QED
      BY <3>3, <1>1
  <2> QED
    BY <2>1, <2>2, <2>3, <2>4
<1>9. Clean(c)
  <2>1. \A i \in 1 .. Len(c) : IsResult(c[i]) \/ IsAside(c[i])
    BY <1>6, <1>7
  <2> QED
    BY <2>1, <1>2, <1>8 DEF Clean
<1>10. ResultsAt(c) = 1 .. n
  BY <1>6, <1>7 DEF ResultsAt
<1>11. Answering(c, ToSet(calls))
  <2>1. ToSet(calls) = {c[i].call : i \in 1 .. n}
    BY <1>1, <1>6 DEF ToSet
  <2>2. \A i, j \in 1 .. n : c[i].call = c[j].call => i = j
    BY <1>5, <1>6
  <2>3. \A i \in 1 .. n : \A j \in (1 .. Len(c)) \ (1 .. n) : i < j
    BY <1>7, <1>1
  <2> QED
    BY <2>1, <2>2, <2>3, <1>10 DEF Answering
<1>12. ASSUME NEW x \in ContentIds(c) PROVE x[1] = t
  <2>1. PICK i \in 1 .. Len(c) : x \in BlockIds(c[i])
    BY DEF ContentIds
  <2>2. CASE i \in 1 .. n
    <3>1. x = K(i)
      BY <2>1, <2>2, <1>6
    <3> QED
      BY <3>1
  <2>3. CASE i \notin 1 .. n
    <3>1. PICK k : x = <<t, k>>
      BY <2>1, <2>3, <1>7
    <3> QED
      BY <3>1
  <2> QED
    BY <2>2, <2>3
<1> QED
  BY <1>9, <1>11, <1>12

LEMMA ResultSeqsAre ==
    ASSUME NEW t, NEW calls, IsSeq(calls), NEW results \in ResultSeqs(t, calls)
    PROVE  Results(t, results, calls)
<1> DEFINE B == UNION {ResultForms(t, calls[k]) : k \in DOMAIN calls}
<1>1. DOMAIN calls = 1 .. Len(calls) /\ Len(calls) \in Nat
  BY SeqFacts
<1>2. results \in [1 .. Len(calls) -> B] /\ \A k \in 1 .. Len(calls) : results[k].call = calls[k]
  BY <1>1 DEF ResultSeqs
<1>3. results \in Seq(B) /\ Len(results) = Len(calls)
  <2> HIDE DEF B
  <2> QED
    BY <1>1, <1>2
<1>4. ASSUME NEW k \in 1 .. Len(calls) PROVE ResultOf(t, calls[k], results[k])
  <2>1. results[k] \in B
    BY <1>2
  <2>2. PICK j \in 1 .. Len(calls) : results[k] \in ResultForms(t, calls[j])
    BY <2>1, <1>1
  <2>3. ResultOf(t, calls[j], results[k])
    BY <2>2, FormsOfResult
  <2>4. calls[j] = calls[k]
    BY <2>3, <1>2 DEF ResultOf
  <2> QED
    BY <2>3, <2>4
<1>5. IsSeq(results)
  BY <1>3, SeqIs
<1> QED
  BY <1>3, <1>4, <1>5 DEF Results

LEMMA PlainResultsAre ==
    ASSUME NEW t, NEW calls, IsSeq(calls),
           NEW results, results = [k \in DOMAIN calls |-> PlainResult(t, calls[k])]
    PROVE  Results(t, results, calls)
<1>1. DOMAIN calls = 1 .. Len(calls) /\ Len(calls) \in Nat
  BY SeqFacts
<1>2. results = [k \in 1 .. Len(calls) |-> PlainResult(t, calls[k])]
  BY <1>1
<1>3. IsSeq(results) /\ Len(results) = Len(calls) /\ \A k \in 1 .. Len(calls) : results[k] = PlainResult(t, calls[k])
  BY <1>1, <1>2, FunIsSeq
<1>4. \A call : ResultOf(t, call, PlainResult(t, call))
  <2>1. \A call : PlainResult(t, call) \in ResultForms(t, call)
    BY DEF PlainResult, ResultForms
  <2> QED
    BY <2>1, FormsOfResult
<1> QED
  BY <1>3, <1>4 DEF Results

\* The calls of a content.
Own(c) == {c[i].call : i \in {j \in 1 .. Len(c) : c[j].type = "tool_use"}}

\* An assistant message at place t of a conversation.
TurnOf(t, m) ==
  /\ Spoken(m, Own(m.content)) /\ CompactsFirst(m.content)
  /\ Own(m.content) \subseteq CallsAt(t)
  /\ \A i, j \in 1 .. Len(m.content) :
       m.content[i].type = "tool_use" /\ m.content[j].type = "tool_use"
         /\ m.content[i].call = m.content[j].call => i = j
  /\ m.stop # "tool_use" => Own(m.content) = {}

\* A user message at place t, which answers the calls C.
Heard(t, m, C) ==
  \E form, c : /\ m = UserMessage(form, c) /\ Clean(c) /\ Answering(c, C)
               /\ \A x \in ContentIds(c) : x[1] = t

LEMMA CallsOfTurn ==
    ASSUME NEW t, NEW m, TurnOf(t, m)
    PROVE  Calling(CallsOf(m), t) /\ ToSet(CallsOf(m)) = Own(m.content)
<1> DEFINE c == m.content
           I == {i \in 1 .. Len(c) : c[i].type = "tool_use"}
           uses == OfType(c, {"tool_use"})
           calls == CallsOf(m)
<1>1. /\ IsSeq(c) /\ Len(c) \in Nat /\ DOMAIN c = 1 .. Len(c)
      /\ Own(c) \subseteq CallsAt(t)
      /\ \A i, j \in I : c[i].call = c[j].call => i = j
  BY SeqFacts DEF TurnOf, Spoken
<1>2. Own(c) = {c[i].call : i \in I}
  BY DEF Own
<1>3. uses = Only(c, I)
  BY <1>1 DEF OfType
<1>4. calls = [k \in DOMAIN uses |-> uses[k].call]
  BY DEF CallsOf
<1> HIDE DEF c, uses, calls
<1>5. IsSeq(uses) /\ \E p : Picks(uses, c, I, p)
  <2>1. I \subseteq 1 .. Len(c)
    OBVIOUS
  <2> HIDE DEF I
  <2> QED
    BY <1>1, <1>3, <2>1, OnlyPicks
<1>6. PICK p : Picks(uses, c, I, p)
  BY <1>5
<1>7. /\ p \in [1 .. Len(uses) -> I]
      /\ \A k \in 1 .. Len(uses) : uses[k] = c[p[k]]
      /\ \A k, l \in 1 .. Len(uses) : p[k] = p[l] => k = l
      /\ \A i \in I : \E k \in 1 .. Len(uses) : p[k] = i
  BY <1>6 DEF Picks
<1>8. Len(uses) \in Nat /\ DOMAIN uses = 1 .. Len(uses)
  BY <1>5, SeqFacts
<1>9. calls = [k \in 1 .. Len(uses) |-> uses[k].call]
  BY <1>4, <1>8
<1>10. /\ IsSeq(calls) /\ Len(calls) = Len(uses) /\ DOMAIN calls = 1 .. Len(uses)
       /\ \A k \in 1 .. Len(uses) : calls[k] = c[p[k]].call /\ p[k] \in I
  BY <1>7, <1>8, <1>9, FunIsSeq
<1> HIDE DEF I
<1>11. Apiece(calls)
  <2>1. ASSUME NEW k \in 1 .. Len(uses), NEW l \in 1 .. Len(uses), calls[k] = calls[l] PROVE k = l
    <3>1. p[k] = p[l]
      BY <2>1, <1>1, <1>10
    <3> QED
      BY <3>1, <1>7
  <2> QED
    BY <2>1, <1>10 DEF Apiece
<1>12. ToSet(calls) = Own(c)
  <2>1. \A x \in ToSet(calls) : x \in Own(c)
    BY <1>2, <1>10 DEF ToSet
  <2>2. ASSUME NEW x \in Own(c) PROVE x \in ToSet(calls)
    <3>1. PICK i \in I : x = c[i].call
      BY <1>2
    <3>2. PICK k \in 1 .. Len(uses) : p[k] = i
      BY <1>7
    <3>3. calls[k] = x
      BY <3>1, <3>2, <1>10
    <3> QED
      BY <3>3, <1>10 DEF ToSet
  <2> QED
    BY <2>1, <2>2
<1> QED
  BY <1>1, <1>11, <1>12 DEF Calling, c, calls

LEMMA NoCalls == ASSUME NEW u PROVE Calling(<<>>, u) /\ \A t : Results(t, <<>>, <<>>)
<1> DEFINE s == <<>>
<1>1. IsSeq(s) /\ Len(s) = 0
  BY None
<1> HIDE DEF s
<1>2. Apiece(s) /\ \A t : Results(t, s, s)
  BY <1>1 DEF Apiece, Results
<1>3. ToSet(s) = {}
  BY ToSetNone DEF s
<1>4. Calling(s, u) /\ \A t : Results(t, s, s)
  BY <1>2, <1>3 DEF Calling
<1> QED
  BY <1>4 DEF s

LEMMA NoneAfter == ASSUME NEW s, IsSeq(s) PROVE s \o <<>> = s
<1>1. s \in Seq(ToSet(s))
  BY DEF IsSeq
<1> QED
  BY <1>1

\* A message without results, and one with them.
LEMMA HeardWords ==
    ASSUME NEW t, NEW form, NEW aside, Added(t, aside)
    PROVE  Heard(t, UserMessage(form, aside), {})
<1> DEFINE none == <<>>
           c == none \o aside
<1>1. Calling(none, t) /\ Results(t, none, none) /\ ToSet(none) = {}
  BY NoCalls, ToSetNone
<1>2. c = aside
  BY NoneBefore DEF Added
<1> HIDE DEF none
<1>3. /\ Clean(c) /\ Answering(c, ToSet(none))
      /\ \A x \in ContentIds(c) : x[1] = t
  BY <1>1, AnsweredContent
<1>4. /\ Clean(aside) /\ Answering(aside, {})
      /\ \A x \in ContentIds(aside) : x[1] = t
  BY <1>1, <1>2, <1>3
<1> QED
  BY <1>4 DEF Heard

LEMMA HeardResults ==
    ASSUME NEW t, NEW u, NEW calls, Calling(calls, u), NEW results, Results(t, results, calls),
           NEW aside, Added(t, aside), NEW form
    PROVE  Heard(t, UserMessage(form, results \o aside), ToSet(calls))
<1> DEFINE c == results \o aside
<1> HIDE DEF c
<1>1. /\ Clean(c) /\ Answering(c, ToSet(calls))
      /\ \A x \in ContentIds(c) : x[1] = t
  BY AnsweredContent DEF c
<1>2. Heard(t, UserMessage(form, c), ToSet(calls))
  BY <1>1 DEF Heard
<1> QED
  BY <1>2 DEF c

\* What the user says next answers the calls of the turn before, and nothing else.
LEMMA NextHeard ==
    ASSUME NEW messages, IsSeq(messages),
           messages # <<>> => TurnOf(Len(messages), Last(messages)),
           NEW message \in NextMessages(messages)
    PROVE  Heard(Len(messages) + 1, message,
                 IF messages = <<>> THEN {} ELSE Own(Last(messages).content))
<1> DEFINE t == Len(messages) + 1
           calls == IF messages = <<>> \/ Last(messages).stop # "tool_use"
                      THEN <<>> ELSE CallsOf(Last(messages))
           C == IF messages = <<>> THEN {} ELSE Own(Last(messages).content)
           string(says) == UserMessage("string", <<Text(<<t, 1>>, says)>>)
           plain == [k \in DOMAIN calls |-> PlainResult(t, calls[k])]
<1>1. \/ /\ calls = <<>>
         /\ \/ message = string("plain")
            \/ message = string("warmup")
            \/ \E aside \in Asides(t) : message = UserMessage("blocks", aside)
      \/ \E results \in ResultSeqs(t, calls) : \E aside \in Asides(t) \cup {<<>>} :
           message = UserMessage("blocks", results \o aside)
      \/ message = UserMessage("blocks", plain)
  BY DEF NextMessages
<1>2. \E u : Calling(calls, u)
  BY CallsOfTurn, NoCalls
<1>3. ToSet(calls) = C
  <2>1. CASE messages = <<>>
    BY <2>1, ToSetNone
  <2>2. CASE messages # <<>> /\ Last(messages).stop # "tool_use"
    <3>1. Own(Last(messages).content) = {}
      BY <2>2 DEF TurnOf
    <3> QED
      BY <2>2, <3>1, ToSetNone
  <2>3. CASE messages # <<>> /\ Last(messages).stop = "tool_use"
    BY <2>3, CallsOfTurn
  <2> QED
    BY <2>1, <2>2, <2>3
<1>4. IsSeq(calls)
  BY <1>2 DEF Calling, Apiece
<1>5. plain = [k \in DOMAIN calls |-> PlainResult(t, calls[k])]
  OBVIOUS
<1> HIDE DEF calls, C, t, plain
<1>6. ASSUME NEW says PROVE Heard(t, string(says), {})
  <2> DEFINE b == Text(<<t, 1>>, says)
  <2>1. IsAside(b) /\ b.id = <<t, 1>>
    BY DEF IsAside, Text
  <2> HIDE DEF b
  <2>2. Added(t, <<b>>)
    BY <2>1, AddedOne
  <2>3. Heard(t, UserMessage("string", <<b>>), {})
    BY <2>2, HeardWords
  <2> QED
    BY <2>3 DEF b
<1>7. CASE calls = <<>> /\ (message = string("plain") \/ message = string("warmup"))
  <2>1. C = {}
    BY <1>3, <1>7, ToSetNone
  <2>2. \A says : Heard(t, string(says), {})
    BY <1>6
  <2> HIDE DEF string
  <2>3. Heard(t, message, {})
    BY <1>7, <2>2
  <2> QED
    BY <2>1, <2>3 DEF t, C
<1>8. CASE calls = <<>> /\ \E aside \in Asides(t) : message = UserMessage("blocks", aside)
  <2>1. C = {}
    BY <1>3, <1>8, ToSetNone
  <2>2. PICK aside \in Asides(t) : message = UserMessage("blocks", aside)
    BY <1>8
  <2>3. Heard(t, message, {})
    BY <2>2, AsidesAdded, HeardWords
  <2> QED
    BY <2>1, <2>3 DEF t, C
<1>9. CASE \E results \in ResultSeqs(t, calls) : \E aside \in Asides(t) \cup {<<>>} :
             message = UserMessage("blocks", results \o aside)
  <2>1. PICK results \in ResultSeqs(t, calls), aside \in Asides(t) \cup {<<>>} :
             message = UserMessage("blocks", results \o aside)
    BY <1>9
  <2>2. Added(t, aside)
    BY AsidesAdded, AddedNone
  <2>3. Results(t, results, calls)
    BY <1>4, ResultSeqsAre
  <2>4. Heard(t, message, ToSet(calls))
    BY <1>2, <2>1, <2>2, <2>3, HeardResults
  <2> QED
    BY <1>3, <2>4 DEF t, C
<1>10. CASE message = UserMessage("blocks", plain)
  <2>1. Results(t, plain, calls)
    BY <1>4, <1>5, PlainResultsAre
  <2>2. plain \o <<>> = plain
    BY <2>1, NoneAfter DEF Results
  <2>3. Heard(t, UserMessage("blocks", plain \o <<>>), ToSet(calls))
    BY <1>2, <2>1, AddedNone, HeardResults
  <2>4. Heard(t, message, ToSet(calls))
    BY <1>10, <2>2, <2>3
  <2> QED
    BY <1>3, <2>4 DEF t, C
<1> QED
  BY <1>1, <1>7, <1>8, <1>9, <1>10

-----------------------------------------------------------------------------
(* Conversations                                                           *)

UserAt(messages) == {t \in 1 .. Len(messages) : messages[t].role = "user"}

CallsIn(messages) ==
  [t \in 1 .. Len(messages) |-> IF t \in UserAt(messages) THEN {} ELSE Own(messages[t].content)]

\* A conversation: what the user says answers the turn before, and a turn is followed by
\* what the user says.
Talked(messages) ==
  /\ IsSeq(messages)
  /\ \A t \in UserAt(messages) : Heard(t, messages[t], Asked(CallsIn(messages), t))
  /\ \A t \in (1 .. Len(messages)) \ UserAt(messages) :
       TurnOf(t, messages[t]) /\ (t < Len(messages) => t + 1 \in UserAt(messages))

LEMMA CallsAtPlace == ASSUME NEW t, NEW x \in CallsAt(t) PROVE x[1] = t
<1>1. x = <<t, 3>> \/ x = <<t, 4>>
  BY DEF CallsAt
<1> QED
  BY <1>1

\* What is kept of the identities of a message that is prepared.
Kept(api, message, I) == ToSet(ListIds(message.content)) \ GivenUp(api, message) \subseteq I

\* A message of the user's once prepared.
Readied(message, now, t, C) ==
  /\ \E form, d : now = UserMessage(form, d) /\ Clean(d) /\ Answering(d, C)
  /\ \A x \in ContentIds(now.content) : x[1] = t
  /\ \A api : Kept(api, message, BorneIds(api, now.content))

LEMMA BorneOrDocument ==
    ASSUME NEW d, Clean(d), NEW x \in ContentIds(d)
    PROVE  x \in BorneIds("chat", d) \/ \E q \in Parts(d) : q.type = "document" /\ q.id = x
<1>1. PICK i \in 1 .. Len(d) : x \in BlockIds(d[i])
  BY DEF ContentIds
<1>2. CASE d[i].type = "tool_result"
  <2>1. PICK k \in 1 .. Len(d[i].content) : x = d[i].content[k].id
    BY <1>1, <1>2 DEF BlockIds, PartIds
  <2>2. CASE d[i].content[k].type = "document"
    <3>1. PartAt(d, d[i].content[k])
      BY <1>2 DEF PartAt
    <3> QED
      BY <3>1, <2>1, <2>2, PartsAre
  <2>3. CASE d[i].content[k].type # "document"
    <3>1. x \in Borne("chat", d[i])
      BY <1>2, <2>1, <2>3 DEF Borne, Undocumented
    <3> QED
      BY <3>1 DEF BorneIds, BorneAt
  <2> QED
    BY <2>2, <2>3
<1>3. CASE d[i].type # "tool_result"
  <2>1. x = d[i].id
    BY <1>1, <1>3 DEF BlockIds
  <2>2. CASE d[i].type = "document"
    <3>1. PartAt(d, d[i])
      BY <1>3 DEF PartAt
    <3> QED
      BY <3>1, <2>1, <2>2, PartsAre
  <2>3. CASE d[i].type # "document"
    <3>1. x \in Borne("chat", d[i])
      BY <1>3, <2>1, <2>3 DEF Borne
    <3> QED
      BY <3>1 DEF BorneIds, BorneAt
  <2> QED
    BY <2>2, <2>3
<1> QED
  BY <1>2, <1>3

LEMMA HeardPrepared ==
    ASSUME NEW messages, IsSeq(messages), NEW system, NEW new, new = Prepared(messages, system),
           NEW t \in 1 .. Len(messages), NEW C, Heard(t, messages[t], C)
    PROVE  Readied(messages[t], new[t], t, C)
<1>1. PICK form, c : /\ messages[t] = UserMessage(form, c) /\ Clean(c) /\ Answering(c, C)
                     /\ \A x \in ContentIds(c) : x[1] = t
  BY DEF Heard
<1>2. PICK d : new[t] = UserMessage(form, d) /\ Rewritten(c, d, C)
  BY <1>1, PreparedIs
<1>3. /\ Clean(d) /\ Answering(d, C) /\ ContentIds(d) \subseteq ContentIds(c)
      /\ ContentIds(c) \ Lost(c) \subseteq ContentIds(d) /\ Parts(d) \subseteq Parts(c)
  BY <1>2 DEF Rewritten
<1>4. new[t].content = d /\ messages[t].content = c
  BY <1>1, <1>2 DEF UserMessage
<1>5. ToSet(ListIds(c)) = ContentIds(c)
  BY <1>1, ListIdsOf
<1>6. ASSUME NEW api
      PROVE  /\ Lost(c) \subseteq GivenUp(api, messages[t])
             /\ api = "chat" => \A q \in Parts(c) : q.type = "document" => q.id \in GivenUp(api, messages[t])
  <2> DEFINE message == messages[t]
  <2>1. message.content = c
    BY <1>4
  <2> HIDE DEF message
  <2>2. /\ Lost(c) \subseteq GivenUp(api, message)
        /\ api = "chat" => \A q \in Parts(c) : q.type = "document" => q.id \in GivenUp(api, message)
    BY <2>1, <1>1, LostIsGivenUp
  <2> QED
    BY <2>2 DEF message
<1>7. ASSUME NEW api PROVE Kept(api, messages[t], BorneIds(api, d))
  <2>1. ASSUME NEW x \in ContentIds(c), x \notin GivenUp(api, messages[t]) PROVE x \in BorneIds(api, d)
    <3>1. x \in ContentIds(d)
      BY <1>3, <1>6, <2>1
    <3>2. CASE api # "chat"
      BY <3>1, <3>2, BorneInContent
    <3>3. CASE api = "chat"
      <4>1. x \in BorneIds(api, d) \/ \E q \in Parts(d) : q.type = "document" /\ q.id = x
        BY <3>1, <1>3, <3>3, BorneOrDocument
      <4> QED
        BY <4>1, <1>3, <1>6, <2>1, <3>3
    <3> QED
      BY <3>2, <3>3
  <2> QED
    BY <2>1, <1>4, <1>5 DEF Kept
<1>8. \A x \in ContentIds(d) : x[1] = t
  BY <1>1, <1>3
<1>9. \E form1, d1 : new[t] = UserMessage(form1, d1) /\ Clean(d1) /\ Answering(d1, C)
  BY <1>2, <1>3
<1> QED
  BY <1>4, <1>7, <1>8, <1>9 DEF Readied

IdsOfPrepared(new) == [t \in 1 .. Len(new) |-> ContentIds(new[t].content)]

LEMMA BorneOfPrepared ==
    ASSUME NEW api, api # "chat", NEW new PROVE BorneOf(api, new) = IdsOfPrepared(new)
  BY BorneInContent DEF BorneOf, IdsOfPrepared

\* A conversation whose last word is the user's is ready once prepared.
LEMMA TalkedReady ==
    ASSUME NEW messages, Talked(messages), Len(messages) \in UserAt(messages),
           NEW system, NEW new, new = Prepared(messages, system)
    PROVE  /\ Ready(new, UserAt(messages), CallsIn(messages), IdsOfPrepared(new))
           /\ Len(new) = Len(messages)
           /\ \A api : \A t \in UserAt(messages) : Kept(api, messages[t], BorneOf(api, new)[t])
           /\ \A t \in (1 .. Len(messages)) \ UserAt(messages) : new[t] = messages[t]
<1> DEFINE U == UserAt(messages)
           N == Len(messages)
           calls == CallsIn(messages)
           ids == IdsOfPrepared(new)
<1>1. /\ IsSeq(messages) /\ N \in Nat /\ U \subseteq 1 .. N
      /\ \A t \in U : Heard(t, messages[t], Asked(calls, t))
      /\ \A t \in (1 .. N) \ U : TurnOf(t, messages[t]) /\ (t < N => t + 1 \in U)
  BY SeqFacts DEF Talked, UserAt
<1>2. /\ \A t \in U : calls[t] = {}
      /\ \A t \in (1 .. N) \ U : calls[t] = Own(messages[t].content) /\ messages[t].role # "user"
  BY <1>1 DEF CallsIn, UserAt
<1>3. N \in U
  OBVIOUS
<1>4. /\ IsSeq(new) /\ Len(new) = N
      /\ \A t \in 1 .. N : messages[t].role # "user" => new[t] = messages[t]
  BY <1>1, PreparedIs
<1>5. \A t \in 1 .. N : ids[t] = ContentIds(new[t].content)
  BY <1>4 DEF IdsOfPrepared
<1> HIDE DEF U, N, calls, ids
<1>6. ASSUME NEW t \in U
      PROVE  /\ \E form, d : /\ new[t] = UserMessage(form, d) /\ Clean(d)
                             /\ Answering(d, Asked(calls, t)) /\ ids[t] = ContentIds(d)
             /\ \A x \in ids[t] : x[1] = t
             /\ \A api : Kept(api, messages[t], BorneIds(api, new[t].content))
  <2>1. t \in 1 .. Len(messages) /\ Heard(t, messages[t], Asked(calls, t)) /\ ids[t] = ContentIds(new[t].content)
    BY <1>1, <1>5 DEF N
  <2>5. Readied(messages[t], new[t], t, Asked(calls, t))
    BY <1>1, <2>1, HeardPrepared
  <2>2. /\ \E form, d : new[t] = UserMessage(form, d) /\ Clean(d) /\ Answering(d, Asked(calls, t))
        /\ \A x \in ContentIds(new[t].content) : x[1] = t
        /\ \A api : Kept(api, messages[t], BorneIds(api, new[t].content))
    BY <2>5 DEF Readied
  <2>3. PICK form, d : new[t] = UserMessage(form, d) /\ Clean(d) /\ Answering(d, Asked(calls, t))
    BY <2>2
  <2>4. ids[t] = ContentIds(d)
    <3>1. new[t].content = d
      BY <2>3 DEF UserMessage
    <3> QED
      BY <2>1, <3>1
  <2> QED
    BY <2>1, <2>2, <2>3, <2>4
<1>7. ASSUME NEW t \in (1 .. N) \ U
      PROVE  /\ t + 1 \in U /\ Spoken(new[t], calls[t]) /\ CompactsFirst(new[t].content)
             /\ new[t] = messages[t] /\ \A x \in calls[t] : x[1] = t
  <2>1. TurnOf(t, messages[t]) /\ new[t] = messages[t] /\ calls[t] = Own(messages[t].content)
    BY <1>1, <1>2, <1>4
  <2>2. t < N
    BY <1>1, <1>3
  <2>3. t + 1 \in U
    BY <1>1, <2>2
  <2>4. calls[t] \subseteq CallsAt(t) /\ Spoken(messages[t], calls[t]) /\ CompactsFirst(messages[t].content)
    BY <2>1 DEF TurnOf
  <2> QED
    BY <2>1, <2>3, <2>4, CallsAtPlace
<1>8. \A m, n \in 1 .. N : \A x \in calls[m] : x \in calls[n] => m = n
  <2>1. \A m \in 1 .. N : \A x \in calls[m] : x[1] = m
    BY <1>2, <1>7
  <2> QED
    BY <2>1
<1>9. \A m, n \in U : \A x \in ids[m] : x \in ids[n] => m = n
  BY <1>6
<1>10. Ready(new, U, calls, ids)
  BY <1>1, <1>2, <1>4, <1>6, <1>7, <1>8, <1>9 DEF Ready
<1>11. \A api : \A t \in U : Kept(api, messages[t], BorneOf(api, new)[t])
  BY <1>1, <1>4, <1>6 DEF BorneOf
<1> QED
  BY <1>4, <1>7, <1>10, <1>11 DEF U, N, calls, ids

LEMMA TalkedFaithful ==
    ASSUME NEW messages, Talked(messages), Len(messages) \in UserAt(messages),
           NEW api \in APIs, NEW m, NEW system,
           NEW payload, payload = UpstreamPayload(api, m, Prepared(messages, system))
    PROVE  /\ CallsAnswered(api, payload) /\ NothingLost(api, payload, messages)
           /\ m = "claude" /\ api # "responses" => SignaturesStayHome(api, payload)
<1> DEFINE new == Prepared(messages, system)
           N == Len(messages)
           U == UserAt(messages)
           calls == CallsIn(messages)
           ids == IdsOfPrepared(new)
           borne == BorneOf(api, new)
<1>1. /\ Ready(new, U, calls, ids) /\ Len(new) = N
      /\ \A t \in U : Kept(api, messages[t], borne[t])
      /\ \A t \in (1 .. N) \ U : new[t] = messages[t]
  BY TalkedReady
<1>2. /\ api = "messages" => payload = filterAssistantThinkingBlocks(new)
      /\ api = "responses" => payload = compactInputByLatestCompaction(
                                          translateAnthropicMessagesToResponsesPayload(new))
      /\ api = "chat" => payload = translateToOpenAI(new, m = "claude")
  BY DEF UpstreamPayload
<1>3. IsSeq(messages) /\ DOMAIN messages = 1 .. N /\ N \in Nat
  BY SeqFacts DEF Talked
<1>4. \A t \in Owed(api, messages) :
        /\ t \in U
        /\ api = "responses" => \A n \in (t + 1) .. N : ~IsCompacting(messages[n])
  BY <1>3 DEF Owed, UserAt
<1>5. U \subseteq 1 .. N
  BY DEF UserAt
<1>0. api # "chat" => borne = ids
  BY BorneOfPrepared
<1> HIDE DEF new, N, U, calls, ids, borne
<1>6. ASSUME NEW pieces, NEW first, NEW at, NEW from, NEW col,
             Fits(api, pieces, N, U, calls, borne), Window(payload, pieces, N, first, at, from, col),
             CutAt(api, pieces, U, first, at),
             \A t \in Owed(api, messages) : t > first \/ (t = first /\ at = 1)
      PROVE  CallsAnswered(api, payload) /\ NothingLost(api, payload, messages)
  <2>1. \A t \in Owed(api, messages) :
           /\ t \in U /\ (t > first \/ (t = first /\ at = 1))
           /\ ToSet(ListIds(messages[t].content)) \ GivenUp(api, messages[t]) \subseteq borne[t]
    BY <1>1, <1>4, <1>6 DEF Kept
  <2> QED
    BY <1>6, <2>1, PiecesFaithful
<1>7. \A t \in Owed(api, messages) : t > 1 \/ (t = 1 /\ 1 = 1)
  <2>1. \A t \in 1 .. N : t > 1 \/ t = 1
    BY <1>3
  <2> QED
    BY <2>1, <1>4, <1>5
<1>8. \A pieces : CutAt(api, pieces, U, 1, 1)
  BY DEF CutAt
<1>9. CASE api = "messages"
  <2>1. /\ \E pieces, from, col :
             /\ Fits("messages", pieces, Len(new), U, calls, ids)
             /\ Window(payload, pieces, Len(new), 1, 1, from, col)
        /\ SignaturesStayHome("messages", payload)
    BY <1>1, <1>2, <1>9, MessagesPayload
  <2>2. PICK pieces, from, col : /\ Fits(api, pieces, N, U, calls, borne)
                                 /\ Window(payload, pieces, N, 1, 1, from, col)
    BY <2>1, <1>0, <1>1, <1>9
  <2>3. CallsAnswered(api, payload) /\ NothingLost(api, payload, messages)
    BY <2>2, <1>6, <1>7, <1>8
  <2> QED
    BY <2>1, <2>3, <1>9
<1>10. CASE api = "chat"
  <2> DEFINE toClaude == m = "claude"
  <2>0. payload = translateToOpenAI(new, toClaude)
    BY <1>2, <1>10
  <2>1. /\ \E pieces, from, col :
             /\ Fits("chat", pieces, Len(new), U, calls, BorneOf("chat", new))
             /\ Window(payload, pieces, Len(new), 1, 1, from, col)
        /\ toClaude => SignaturesStayHome("chat", payload)
    <3> HIDE DEF toClaude
    <3> QED
      BY <1>1, <2>0, ChatsPayload
  <2>2. PICK pieces, from, col : /\ Fits(api, pieces, N, U, calls, borne)
                                 /\ Window(payload, pieces, N, 1, 1, from, col)
    BY <2>1, <1>1, <1>10 DEF borne
  <2>3. CallsAnswered(api, payload) /\ NothingLost(api, payload, messages)
    BY <2>2, <1>6, <1>7, <1>8
  <2> QED
    BY <2>1, <2>3, <1>10
<1>11. CASE api = "responses"
  <2>1. \E pieces, first, at, from, col :
           /\ Fits("responses", pieces, Len(new), U, calls, ids)
           /\ Window(payload, pieces, Len(new), first, at, from, col)
           /\ CutAt("responses", pieces, U, first, at)
           /\ \/ first = 1 /\ at = 1
              \/ first \in (1 .. Len(new)) \ U /\ IsCompacting(new[first])
    BY <1>1, <1>2, <1>11, ItemsPayload
  <2>2. PICK pieces, first, at, from, col :
           /\ Fits(api, pieces, N, U, calls, borne)
           /\ Window(payload, pieces, N, first, at, from, col)
           /\ CutAt(api, pieces, U, first, at)
           /\ \/ first = 1 /\ at = 1
              \/ first \in (1 .. N) \ U /\ IsCompacting(new[first])
    BY <2>1, <1>0, <1>1, <1>11
  <2>3. ASSUME NEW t \in Owed(api, messages) PROVE t > first \/ (t = first /\ at = 1)
    <3>1. CASE first = 1 /\ at = 1
      BY <3>1, <1>7
    <3>2. CASE first \in (1 .. N) \ U /\ IsCompacting(new[first])
      <4>1. IsCompacting(messages[first])
        BY <3>2, <1>1
      <4>2. t \in U /\ t \in 1 .. N /\ first \notin (t + 1) .. N
        BY <4>1, <1>4, <1>5, <1>11
      <4>3. t # first
        BY <3>2, <4>2
      <4> QED
        BY <3>2, <4>2, <4>3, <1>3
    <3> QED
      BY <3>1, <3>2, <2>2
  <2>4. CallsAnswered(api, payload) /\ NothingLost(api, payload, messages)
    BY <2>2, <2>3, <1>6
  <2> QED
    BY <2>4, <1>11
<1> QED
  BY <1>9, <1>10, <1>11 DEF APIs

=============================================================================
