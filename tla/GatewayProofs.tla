---------------------------- MODULE GatewayProofs ----------------------------
(***************************************************************************)
(* First, for conversations of any length: what upstream said comes back   *)
(* to it.  The assistant's part of a payload is that of its pieces, one    *)
(* for each message; the piece of a turn is what upstream said in it, for  *)
(* each of the three APIs; a cut at a compaction cuts both alike.          *)
(*                                                                         *)
(* Then the types of Gateway, of the model list and of the usage tally,    *)
(* for any clients, worlds and limits: the background fetches of the list  *)
(* are single-flight, no sum is told that was not stored, and what is sent *)
(* upstream ends with the user's message.  And that what is sent upstream  *)
(* is the whole of a conversation, by what PayloadProofs shows of one, and *)
(* brings its turns back.                                                  *)
(***************************************************************************)
EXTENDS PayloadProofs, SequenceTheorems

-----------------------------------------------------------------------------
(* Elements picked                                                         *)

\* Elements picked by what they are.
LEMMA OnlyBinds ==
    ASSUME NEW s, IsSeq(s), NEW I, NEW g,
           \A i \in 1 .. Len(s) : g[s[i]] = IF i \in I THEN <<s[i]>> ELSE <<>>
    PROVE  Only(s, I) = Bind(g, s)
<1>1. DOMAIN s = 1 .. Len(s)
  BY SeqFacts
<1>2. [i \in DOMAIN s |-> IF i \in I THEN <<s[i]>> ELSE <<>>] = [i \in DOMAIN s |-> g[s[i]]]
  BY <1>1
<1> QED
  BY <1>2 DEF Only, Bind

LEMMA BindNothing ==
    ASSUME NEW s, IsSeq(s), NEW g, \A i \in 1 .. Len(s) : g[s[i]] = <<>> PROVE Bind(g, s) = <<>>
<1> DEFINE D == ToSet(s)
           h == [x \in D |-> <<>>]
<1>1. s \in Seq(D) /\ DOMAIN s = 1 .. Len(s) /\ \A i \in 1 .. Len(s) : s[i] \in D
  BY SeqFacts DEF IsSeq
<1>2. [i \in DOMAIN s |-> g[s[i]]] = [i \in DOMAIN s |-> h[s[i]]]
  BY <1>1
<1>3. Bind(g, s) = Bind(h, s)
  BY <1>2 DEF Bind
<1>4. Becomes(h, D, {})
  BY DEF Becomes
<1> HIDE DEF h, D
<1>5. Bind(h, s) \in Seq({})
  BY <1>1, <1>4, BindTyped
<1>6. \A t \in Seq({}) : t = <<>>
  <2> SUFFICES ASSUME NEW t \in Seq({}), t # <<>> PROVE FALSE
    OBVIOUS
  <2>1. 1 \in 1 .. Len(t) /\ \A i \in 1 .. Len(t) : t[i] \in {}
    OBVIOUS
  <2> QED
    BY <2>1
<1> QED
  BY <1>3, <1>5, <1>6

\* The numbers of a sequence's places, as a sequence.
Places(n) == [i \in 1 .. n |-> i]

LEMMA PlacesAre ==
    ASSUME NEW n \in Nat
    PROVE  Places(n) \in Seq(1 .. n) /\ DOMAIN Places(n) = 1 .. n /\ \A i \in 1 .. n : Places(n)[i] = i
  BY DEF Places

LEMMA FlattenBinds ==
    ASSUME NEW n \in Nat, NEW p, p = [i \in 1 .. n |-> p[i]]
    PROVE  FlattenSeq(p) = Bind(p, Places(n))
<1>1. [i \in DOMAIN Places(n) |-> p[Places(n)[i]]] = p
  BY PlacesAre
<1> QED
  BY <1>1 DEF Bind

\* Every function whose values are sequences has a set they are of.
Ranges(g, D, E) ==
  Becomes(g, D, E) /\ \A y \in E : \E x \in D : \E i \in 1 .. Len(g[x]) : y = g[x][i]

LEMMA Ranged ==
    ASSUME NEW D, NEW g, g = [x \in D |-> g[x]], \A x \in D : IsSeq(g[x])
    PROVE  \E E : Ranges(g, D, E)
<1> DEFINE E == UNION {ToSet(g[x]) : x \in D}
<1>1. \A x \in D : g[x] \in Seq(E)
  <2> SUFFICES ASSUME NEW x \in D PROVE g[x] \in Seq(E)
    OBVIOUS
  <2>1. g[x] \in Seq(ToSet(g[x])) /\ ToSet(g[x]) \subseteq E
    BY DEF IsSeq
  <2> HIDE DEF E
  <2> QED
    BY <2>1, SeqOfMore
<1>2. ASSUME NEW y \in E PROVE \E x \in D : \E i \in 1 .. Len(g[x]) : y = g[x][i]
  <2>1. PICK x \in D : y \in ToSet(g[x])
    BY <1>2
  <2>2. DOMAIN g[x] = 1 .. Len(g[x])
    BY SeqFacts
  <2> QED
    BY <2>1, <2>2 DEF ToSet
<1> HIDE DEF E
<1>3. Becomes(g, D, E)
  BY <1>1 DEF Becomes
<1> QED
  BY <1>2, <1>3 DEF Ranges

-----------------------------------------------------------------------------
(* The assistant's part of a payload, and what was said                    *)

\* What an element of a payload is of the assistant's part.
Share(api, x) == IF x.role = "assistant" THEN ElementPart(api, x) ELSE <<>>

\* The elements of s are such that the assistant's part can be told.
Sharing(api, s) == IsSeq(s) /\ \A i \in 1 .. Len(s) : IsSeq(Share(api, s[i]))

\* g is Share on D.
Shares(g, api, D) == \A x \in D : g[x] = Share(api, x)

LEMMA PartBinds ==
    ASSUME NEW api, NEW s, Sharing(api, s), NEW D, ToSet(s) \subseteq D, NEW g, Shares(g, api, D)
    PROVE  AssistantPart(api, s) = Bind(g, s)
<1> DEFINE I == {i \in DOMAIN s : s[i].role = "assistant"}
           C == ToSet(s)
           own == Only(s, I)
           a == [x \in C |-> IF x.role = "assistant" THEN <<x>> ELSE <<>>]
           h == [x \in C |-> Share(api, x)]
<1>1. IsSeq(s) /\ s \in Seq(C) /\ DOMAIN s = 1 .. Len(s) /\ \A i \in 1 .. Len(s) : s[i] \in C
  BY SeqFacts DEF Sharing, IsSeq
<1>2. \A x \in C : IsSeq(Share(api, x)) /\ x \in D
  BY <1>1 DEF Sharing, ToSet
<1>3. h = [x \in C |-> h[x]] /\ \A x \in C : IsSeq(h[x]) /\ h[x] = g[x]
  BY <1>2 DEF Shares
<1>4. Becomes(a, C, C) /\ \A x \in C : a[x] = IF x.role = "assistant" THEN <<x>> ELSE <<>>
  BY DEF Becomes
<1>5. \A i \in 1 .. Len(s) : a[s[i]] = IF i \in I THEN <<s[i]>> ELSE <<>>
  BY <1>1
<1>6. \A x \in C : h[x] = Share(api, x)
  OBVIOUS
<1> HIDE DEF C, a, h
<1>7. own = Bind(a, s)
  BY <1>1, <1>5, OnlyBinds
<1>8. PICK E : Becomes(h, C, E)
  BY <1>3, Ranged DEF Ranges
<1>9. Composed(h, h, a, C)
  <2> SUFFICES ASSUME NEW x \in C PROVE h[x] = Bind(h, a[x])
    BY DEF Composed
  <2>1. CASE x.role = "assistant"
    <3>1. a[x] = <<x>>
      BY <1>4, <2>1
    <3>2. Bind(h, <<x>>) = h[x]
      BY <1>8, BindOne
    <3> QED
      BY <3>1, <3>2
  <2>2. CASE x.role # "assistant"
    BY <2>2, <1>4, <1>6, BindNone DEF Share
  <2> QED
    BY <2>1, <2>2
<1>10. Bind(h, own) = Bind(h, s)
  <2>1. Bind(h, Bind(a, s)) = Bind(h, s)
    BY ONLY <1>1, <1>4, <1>8, <1>9, BindBind
  <2> QED
    BY <2>1, <1>7
<1>11. own \in Seq(C) /\ \A i \in DOMAIN own : own[i] \in C /\ own[i].role = "assistant"
  <2>1. own \in Seq(C)
    BY <1>1, <1>4, <1>7, BindIn
  <2>2. I \subseteq 1 .. Len(s)
    BY <1>1
  <2> HIDE DEF own
  <2>3. \E p : Picks(own, s, I, p)
    BY <1>1, <2>2, OnlyPicks DEF own
  <2>4. PICK p : Picks(own, s, I, p)
    BY <2>3
  <2>5. \A i \in 1 .. Len(own) : own[i].role = "assistant"
    BY <2>4 DEF Picks
  <2> QED
    BY <2>1, <2>5
<1>12. [i \in DOMAIN own |-> ElementPart(api, own[i])] = [i \in DOMAIN own |-> h[own[i]]]
  BY <1>6, <1>11 DEF Share
<1>13. AssistantPart(api, s) = Bind(h, own)
  BY <1>12 DEF AssistantPart, Bind
<1>14. Bind(h, s) = Bind(g, s)
  BY <1>1, <1>3, BindSame
<1> QED
  BY <1>10, <1>13, <1>14

\* The assistant's part of one element, of two payloads on end, of many.
LEMMA PartOfOne ==
    ASSUME NEW api, NEW x, IsSeq(Share(api, x))
    PROVE  Sharing(api, <<x>>) /\ AssistantPart(api, <<x>>) = Share(api, x)
<1> DEFINE s == <<x>>
           D == {x}
           g == [y \in D |-> Share(api, y)]
<1>1. s \in Seq(D) /\ IsSeq(s) /\ Len(s) = 1 /\ s[1] = x /\ ToSet(s) \subseteq D
  BY One DEF ToSet
<1>2. g = [y \in D |-> g[y]] /\ \A y \in D : g[y] = Share(api, y) /\ IsSeq(g[y])
  OBVIOUS
<1>3. x \in D
  OBVIOUS
<1> HIDE DEF g, D
<1>4. PICK E : Becomes(g, D, E)
  BY <1>2, Ranged DEF Ranges
<1>5. Bind(g, <<x>>) = Share(api, x)
  BY <1>2, <1>3, <1>4, BindOne
<1>6. Sharing(api, s)
  BY <1>1 DEF Sharing
<1> HIDE DEF s
<1>7. AssistantPart(api, s) = Bind(g, s)
  <2>1. Shares(g, api, D)
    BY <1>2 DEF Shares
  <2> QED
    BY <1>1, <1>6, <2>1, PartBinds
<1> QED
  BY <1>5, <1>6, <1>7 DEF s

LEMMA PartOfNone == \A api : Sharing(api, <<>>) /\ AssistantPart(api, <<>>) = <<>>
<1> SUFFICES ASSUME NEW api PROVE Sharing(api, <<>>) /\ AssistantPart(api, <<>>) = <<>>
  OBVIOUS
<1> DEFINE s == <<>>
           D == {}
           g == [y \in D |-> Share(api, y)]
<1>1. IsSeq(s) /\ Len(s) = 0 /\ ToSet(s) \subseteq D /\ \A y \in D : g[y] = Share(api, y)
  BY None DEF ToSet
<1> HIDE DEF g, D, s
<1>2. Sharing(api, s)
  BY <1>1 DEF Sharing
<1>3. AssistantPart(api, s) = Bind(g, s)
  BY <1>1, <1>2, PartBinds DEF Shares
<1> QED
  BY <1>2, <1>3, BindNone DEF s

LEMMA PartOfTwo ==
    ASSUME NEW api, NEW s, NEW t, Sharing(api, s), Sharing(api, t)
    PROVE  /\ Sharing(api, s \o t)
           /\ AssistantPart(api, s \o t) = AssistantPart(api, s) \o AssistantPart(api, t)
<1> DEFINE D == ToSet(s) \cup ToSet(t)
           g == [y \in D |-> Share(api, y)]
           u == s \o t
<1>1. IsSeq(s) /\ IsSeq(t) /\ ToSet(s) \subseteq D /\ ToSet(t) \subseteq D
  BY DEF Sharing
<1>2. s \in Seq(D) /\ t \in Seq(D)
  <2> HIDE DEF D
  <2> QED
    BY <1>1, SeqOfMore DEF IsSeq
<1>3. \A y \in D : IsSeq(Share(api, y))
  <2>1. DOMAIN s = 1 .. Len(s) /\ DOMAIN t = 1 .. Len(t)
    BY <1>1, SeqFacts
  <2> QED
    BY <2>1 DEF Sharing, ToSet
<1>4. g = [y \in D |-> g[y]] /\ \A y \in D : g[y] = Share(api, y) /\ IsSeq(g[y])
  BY <1>3
<1> HIDE DEF g, D
<1>5. u \in Seq(D)
  BY <1>2
<1>6. IsSeq(u) /\ ToSet(u) \subseteq D /\ \A i \in 1 .. Len(u) : u[i] \in D
  <2>1. IsSeq(u)
    BY <1>5, SeqIs
  <2>2. \A i \in 1 .. Len(u) : u[i] \in D
    BY <1>5
  <2>3. DOMAIN u = 1 .. Len(u)
    BY <1>5
  <2> QED
    BY <2>1, <2>2, <2>3 DEF ToSet
<1> HIDE DEF u
<1>7. Sharing(api, u)
  BY <1>3, <1>6 DEF Sharing
<1>8. PICK E : Becomes(g, D, E)
  BY <1>4, Ranged DEF Ranges
<1>9. /\ AssistantPart(api, u) = Bind(g, u)
      /\ AssistantPart(api, s) = Bind(g, s) /\ AssistantPart(api, t) = Bind(g, t)
  BY <1>1, <1>4, <1>6, <1>7, PartBinds DEF Shares
<1>10. Bind(g, u) = Bind(g, s) \o Bind(g, t)
  BY <1>2, <1>8, BindConcat DEF u
<1> QED
  BY <1>7, <1>9, <1>10 DEF u

LEMMA PartIsSeq ==
    ASSUME NEW api, NEW s, Sharing(api, s) PROVE IsSeq(AssistantPart(api, s))
<1> DEFINE D == ToSet(s)
           g == [y \in D |-> Share(api, y)]
<1>1. IsSeq(s) /\ s \in Seq(D) /\ DOMAIN s = 1 .. Len(s)
  BY SeqFacts DEF Sharing, IsSeq
<1>2. g = [y \in D |-> g[y]] /\ \A y \in D : g[y] = Share(api, y) /\ IsSeq(g[y])
  BY <1>1 DEF Sharing, ToSet
<1>3. D = ToSet(s)
  OBVIOUS
<1> HIDE DEF g, D
<1>4. PICK E : Becomes(g, D, E)
  BY <1>2, Ranged DEF Ranges
<1>5. Bind(g, s) \in Seq(E)
  BY <1>1, <1>4, BindIn
<1>6. AssistantPart(api, s) = Bind(g, s)
  BY <1>2, <1>3, PartBinds DEF Shares
<1> QED
  BY <1>5, <1>6, SeqIs

\* The pieces p of a payload, n of them, and the assistant's parts of these.
Pieces(api, n, p) == p = [i \in 1 .. n |-> p[i]] /\ \A i \in 1 .. n : Sharing(api, p[i])

PartsOf(api, n, p) == [i \in 1 .. n |-> AssistantPart(api, p[i])]

\* The assistant's part of a payload is that of its pieces, one after the other.
LEMMA PartsTogether ==
    ASSUME NEW api, NEW n \in Nat, NEW p, Pieces(api, n, p),
           NEW q, q = PartsOf(api, n, p)
    PROVE  /\ Sharing(api, FlattenSeq(p))
           /\ AssistantPart(api, FlattenSeq(p)) = FlattenSeq(q)
<1> DEFINE D == 1 .. n
           all == FlattenSeq(p)
<1>1. p = [i \in D |-> p[i]] /\ \A i \in D : IsSeq(p[i])
  BY DEF Sharing, Pieces
<1>2. Places(n) \in Seq(D) /\ DOMAIN Places(n) = D /\ \A i \in D : Places(n)[i] = i
  BY PlacesAre
<1>3. \A i \in D : q[i] = AssistantPart(api, p[i])
  BY DEF PartsOf
<1>4. all = Bind(p, Places(n))
  BY <1>1, FlattenBinds
<1>5. q = [i \in D |-> q[i]]
  BY DEF PartsOf
<1>6. FlattenSeq(q) = Bind(q, Places(n))
  BY <1>5, FlattenBinds
<1>7. \A i \in D : Sharing(api, p[i])
  BY DEF Pieces
<1> HIDE DEF D
<1>8a. PICK E : Ranges(p, D, E)
  BY <1>1, Ranged
<1>8. Becomes(p, D, E) /\ \A y \in E : \E x \in D : \E i \in 1 .. Len(p[x]) : y = p[x][i]
  BY <1>8a DEF Ranges
<1> DEFINE h == [y \in E |-> Share(api, y)]
<1>9. \A y \in E : IsSeq(Share(api, y))
  BY <1>7, <1>8 DEF Sharing
<1>10. h = [y \in E |-> h[y]] /\ Shares(h, api, E) /\ \A y \in E : h[y] = Share(api, y) /\ IsSeq(h[y])
  BY <1>9 DEF Shares
<1> HIDE DEF h
<1>11. PICK F : Becomes(h, E, F)
  BY <1>10, Ranged DEF Ranges
<1>12. \A i \in D : p[i] \in Seq(E) /\ ToSet(p[i]) \subseteq E
  <2>1. \A i \in D : p[i] \in Seq(E)
    BY <1>8 DEF Becomes
  <2>2. \A i \in D : DOMAIN p[i] = 1 .. Len(p[i]) /\ \A k \in 1 .. Len(p[i]) : p[i][k] \in E
    BY <2>1
  <2> QED
    BY <2>1, <2>2 DEF ToSet
<1>13. \A i \in D : q[i] = Bind(h, p[i])
  <2> SUFFICES ASSUME NEW i \in D PROVE q[i] = Bind(h, p[i])
    OBVIOUS
  <2>1. Sharing(api, p[i]) /\ ToSet(p[i]) \subseteq E /\ Shares(h, api, E)
    BY <1>7, <1>10, <1>12
  <2> QED
    BY <2>1, <1>3, PartBinds
<1>14. Composed(q, h, p, D)
  BY <1>13 DEF Composed
<1>15. Becomes(q, D, F)
  <2>1. \A i \in D : Bind(h, p[i]) \in Seq(F)
    BY <1>11, <1>12, BindIn
  <2> QED
    BY <2>1, <1>5, <1>13 DEF Becomes
<1>16. Bind(h, Bind(p, Places(n))) = Bind(q, Places(n))
  BY <1>2, <1>8, <1>11, <1>14, <1>15, BindBind
<1>17. all \in Seq(E)
  BY <1>2, <1>4, <1>8, BindIn
<1>18. IsSeq(all) /\ ToSet(all) \subseteq E /\ \A i \in 1 .. Len(all) : all[i] \in E
  <2> HIDE DEF all
  <2>1. IsSeq(all)
    BY <1>17, SeqIs
  <2>2. \A i \in 1 .. Len(all) : all[i] \in E
    BY <1>17
  <2>3. DOMAIN all = 1 .. Len(all)
    BY <1>17
  <2> QED
    BY <2>1, <2>2, <2>3 DEF ToSet
<1>19. Sharing(api, all)
  BY <1>9, <1>18 DEF Sharing
<1>20. AssistantPart(api, all) = Bind(h, all)
  <2> HIDE DEF all
  <2> QED
    BY <1>10, <1>18, <1>19, PartBinds
<1> QED
  BY <1>4, <1>6, <1>16, <1>19, <1>20

\* What was said in the turns I of s, in one.
SaidAt(api, c, s, I) ==
  LET turns == Only(s, I) IN FlattenSeq([i \in DOMAIN turns |-> SaidIn(api, c, turns[i])])

\* The same, turn for turn.
Speakings(api, c, s, I) == \A i \in I : IsSeq(SaidIn(api, c, s[i]))
SaidPieces(api, c, s, I) == [i \in 1 .. Len(s) |-> IF i \in I THEN SaidIn(api, c, s[i]) ELSE <<>>]

LEMMA SaidTogether ==
    ASSUME NEW api, NEW c, NEW s, IsSeq(s), NEW I, I \subseteq 1 .. Len(s),
           Speakings(api, c, s, I), NEW q, q = SaidPieces(api, c, s, I)
    PROVE  SaidAt(api, c, s, I) = FlattenSeq(q)
<1> DEFINE n == Len(s)
           D == 1 .. n
           C == {s[i] : i \in I}
           turns == Only(s, I)
           a == [i \in D |-> IF i \in I THEN <<s[i]>> ELSE <<>>]
           h == [x \in C |-> SaidIn(api, c, x)]
<1>1. n \in Nat /\ DOMAIN s = D
  BY SeqFacts
<1>2. turns = FlattenSeq(a) /\ a = [i \in 1 .. n |-> a[i]]
  BY <1>1 DEF Only
<1>3. \A i \in D : a[i] = (IF i \in I THEN <<s[i]>> ELSE <<>>) /\ (i \in I => s[i] \in C)
  OBVIOUS
<1>4. h = [x \in C |-> h[x]] /\ \A x \in C : h[x] = SaidIn(api, c, x) /\ IsSeq(h[x])
  BY DEF Speakings
<1>5. Becomes(a, D, C)
  <2>1. \A i \in D : a[i] \in Seq(C)
    <3> SUFFICES ASSUME NEW i \in D PROVE a[i] \in Seq(C)
      OBVIOUS
    <3>1. CASE i \in I
      <4>1. s[i] \in C
        BY <3>1
      <4> HIDE DEF C
      <4> QED
        BY <3>1, <4>1
    <3>2. CASE i \notin I
      BY <3>2
    <3> QED
      BY <3>1, <3>2
  <2> QED
    BY <2>1 DEF Becomes
<1>6. q = [i \in 1 .. n |-> q[i]] /\ \A i \in D : q[i] = IF i \in I THEN SaidIn(api, c, s[i]) ELSE <<>>
  BY DEF SaidPieces
<1>7. Places(n) \in Seq(D)
  BY <1>1, PlacesAre
<1>8. turns = Bind(a, Places(n)) /\ FlattenSeq(q) = Bind(q, Places(n))
  <2> HIDE DEF a, turns, n
  <2> QED
    BY <1>1, <1>2, <1>6, FlattenBinds
<1>9. I \subseteq D /\ q = [i \in D |-> q[i]]
  BY <1>6
<1> HIDE DEF a, h, C, turns, D, n
<1>10. PICK F : Becomes(h, C, F)
  BY <1>4, Ranged DEF Ranges
<1>11. \A i \in D : q[i] = Bind(h, a[i]) /\ q[i] \in Seq(F)
  <2> SUFFICES ASSUME NEW i \in D PROVE q[i] = Bind(h, a[i]) /\ q[i] \in Seq(F)
    OBVIOUS
  <2>1. CASE i \in I
    <3>1. a[i] = <<s[i]>> /\ s[i] \in C /\ q[i] = h[s[i]]
      BY <2>1, <1>3, <1>4, <1>6
    <3>2. Bind(h, <<s[i]>>) = h[s[i]]
      BY <3>1, <1>10, BindOne
    <3> QED
      BY <3>1, <3>2, <1>10 DEF Becomes
  <2>2. CASE i \notin I
    <3>1. a[i] = <<>> /\ q[i] = <<>>
      BY <2>2, <1>3, <1>6
    <3>2. <<>> \in Seq(F)
      OBVIOUS
    <3> QED
      BY <3>1, <3>2, BindNone
  <2> QED
    BY <2>1, <2>2
<1>12. Composed(q, h, a, D) /\ Becomes(q, D, F)
  BY <1>9, <1>11 DEF Composed, Becomes
<1>13. Bind(h, Bind(a, Places(n))) = Bind(q, Places(n))
  BY <1>5, <1>7, <1>10, <1>12, BindBind
<1>14. turns \in Seq(C)
  BY <1>5, <1>7, <1>8, BindIn
<1>15. [i \in DOMAIN turns |-> SaidIn(api, c, turns[i])] = [i \in DOMAIN turns |-> h[turns[i]]]
  BY <1>4, <1>14
<1>16. SaidAt(api, c, s, I) = Bind(h, turns)
  BY <1>15 DEF SaidAt, Bind, turns
<1> QED
  BY <1>8, <1>13, <1>16

\* Pieces of a payload, one for each message, that bring back what was said.
Brought(api, c, s, I, p) ==
  /\ \A i \in I : AssistantPart(api, p[i]) = SaidIn(api, c, s[i])
  /\ \A i \in (1 .. Len(s)) \ I : AssistantPart(api, p[i]) = <<>>

\* Pieces that bring back their turns bring back, laid one after the other, all that was said.
LEMMA TurnsTogether ==
    ASSUME NEW api, NEW c, NEW s, IsSeq(s), NEW I, I \subseteq 1 .. Len(s),
           NEW p, Pieces(api, Len(s), p), Brought(api, c, s, I, p)
    PROVE  /\ Sharing(api, FlattenSeq(p))
           /\ AssistantPart(api, FlattenSeq(p)) = SaidAt(api, c, s, I)
<1> DEFINE n == Len(s)
           q == [i \in 1 .. n |-> AssistantPart(api, p[i])]
<1>1. n \in Nat
  BY SeqFacts
<1>2. /\ Sharing(api, FlattenSeq(p)) /\ AssistantPart(api, FlattenSeq(p)) = FlattenSeq(q)
  <2>1. q = PartsOf(api, n, p)
    BY DEF PartsOf
  <2> HIDE DEF q
  <2> QED
    BY <1>1, <2>1, PartsTogether
<1>3. \A i \in I : IsSeq(SaidIn(api, c, s[i]))
  <2> SUFFICES ASSUME NEW i \in I PROVE IsSeq(SaidIn(api, c, s[i]))
    OBVIOUS
  <2>1. Sharing(api, p[i]) /\ AssistantPart(api, p[i]) = SaidIn(api, c, s[i])
    BY DEF Pieces, Brought
  <2> QED
    BY <2>1, PartIsSeq
<1>4. q = SaidPieces(api, c, s, I) /\ Speakings(api, c, s, I)
  BY <1>3 DEF SaidPieces, Speakings, Brought
<1> HIDE DEF q, n
<1>5. SaidAt(api, c, s, I) = FlattenSeq(q)
  BY <1>4, SaidTogether
<1> QED
  BY <1>2, <1>5

\* What holds nothing of the assistant's, and a sequence as pieces of one element.
LEMMA NoShare ==
    ASSUME NEW api, NEW s, IsSeq(s), \A i \in 1 .. Len(s) : s[i].role # "assistant"
    PROVE  Sharing(api, s) /\ AssistantPart(api, s) = <<>>
<1> DEFINE D == ToSet(s)
           g == [y \in D |-> Share(api, y)]
<1>1. \A i \in 1 .. Len(s) : s[i] \in D /\ Share(api, s[i]) = <<>>
  BY SeqFacts DEF Share
<1>2. \A i \in 1 .. Len(s) : g[s[i]] = <<>>
  BY <1>1
<1>3. Sharing(api, s)
  BY <1>1, None DEF Sharing
<1>4. D = ToSet(s) /\ Shares(g, api, D)
  BY DEF Shares
<1> HIDE DEF g, D
<1>5. AssistantPart(api, s) = Bind(g, s)
  BY <1>3, <1>4, PartBinds
<1>6. Bind(g, s) = <<>>
  BY <1>2, BindNothing
<1> QED
  BY <1>3, <1>5, <1>6

Singles(s) == [i \in 1 .. Len(s) |-> <<s[i]>>]

LEMMA Split ==
    ASSUME NEW s, IsSeq(s) PROVE FlattenSeq(Singles(s)) = s
<1> DEFINE n == Len(s)
           D == 1 .. n
           E == ToSet(s)
           p == Singles(s)
<1>1. n \in Nat /\ s = [i \in D |-> s[i]] /\ s \in [D -> E]
  BY SeqFacts
<1>2. p = [i \in 1 .. n |-> p[i]] /\ \A i \in D : p[i] = <<s[i]>> /\ p[i] \in Seq(E)
  BY <1>1 DEF Singles
<1>3. Becomes(p, D, E)
  BY <1>2 DEF Becomes
<1>4. Places(n) \in Seq(D) /\ DOMAIN Places(n) = D /\ \A i \in D : Places(n)[i] = i
  BY <1>1, PlacesAre
<1> HIDE DEF n, D, E, p
<1>5. FlattenSeq(p) = Bind(p, Places(n))
  BY <1>1, <1>2, FlattenBinds
<1>6. Bind(p, Places(n)) = [i \in DOMAIN Places(n) |-> s[Places(n)[i]]]
  <2>1. \A i \in D : p[i] = <<s[i]>>
    BY <1>2
  <2>2. Places(n) \in Seq(D) /\ s \in [D -> E]
    BY <1>1, <1>4
  <2> QED
    BY ONLY <1>3, <2>1, <2>2, BindKeeps
<1>7. [i \in DOMAIN Places(n) |-> s[Places(n)[i]]] = s
  BY <1>1, <1>4
<1> QED
  BY <1>5, <1>6, <1>7 DEF p

-----------------------------------------------------------------------------
(* A turn that goes through the client comes back                          *)

\* The piece of the payload that an assistant's message becomes.
Filtered(m) ==
  WithContent(m, Only(m.content, {i \in DOMAIN m.content :
                                    m.content[i].type = "thinking" => IsClaudeThinking(m.content[i])}))

PieceOf(api, toClaude, m) ==
  CASE api = "messages"  -> <<Filtered(m)>>
    [] api = "responses" -> translateMessage(m)
    [] api = "chat"      -> handleAssistantMessage(m, toClaude)

Returned(api, toClaude, m) ==
  /\ Sharing(api, PieceOf(api, toClaude, m))
  /\ AssistantPart(api, PieceOf(api, toClaude, m)) = SaidIn(api, toClaude, m)

\* Through the Messages API: Claude's thinking is signed, and has a text of its own or none.
ByClaude(c) ==
  IsSeq(c) /\ \A i \in 1 .. Len(c) :
                c[i].type = "thinking" => c[i].text = NoText \/ IsClaudeThinking(c[i])

\* What Claude said comes back through the Messages API, but for thinking without a text.
LEMMA MessagesReturn ==
    ASSUME NEW m, NEW own, Spoken(m, own), ByClaude(m.said), m.content = m.said, NEW toClaude
    PROVE  Returned("messages", toClaude, m)
<1> DEFINE c == m.content
           I == {i \in DOMAIN c : c[i].type = "thinking" => IsClaudeThinking(c[i])}
           J == {i \in DOMAIN c : c[i].type = "thinking" => c[i].text # NoText}
           new == Filtered(m)
<1>1. DOMAIN c = 1 .. Len(c) /\ IsSeq(c)
  BY SeqFacts DEF Spoken
<1>2. I = J
  BY <1>1 DEF ByClaude, IsClaudeThinking
<1>3. I \subseteq 1 .. Len(c) /\ \A i \in 1 .. Len(c) : c[i].type = "tool_use" => i \in I
  BY <1>1
<1>4. new = WithContent(m, Only(c, I))
  BY DEF Filtered
<1> HIDE DEF I
<1>5. new.content = Only(c, I) /\ Spoken(new, own)
  BY <1>3, <1>4, FilterKeeps
<1>6. new.role = "assistant"
  BY <1>5 DEF Spoken
<1>7. Share("messages", new) = Only(c, I)
  BY <1>5, <1>6 DEF Share, ElementPart
<1>8. SaidIn("messages", toClaude, m) = Only(c, J)
  BY DEF SaidIn
<1>9. IsSeq(Share("messages", new))
  BY <1>7, <1>1, <1>3, OnlyPicks
<1>10. PieceOf("messages", toClaude, m) = <<new>>
  BY DEF PieceOf
<1> HIDE DEF new, J, c
<1> QED
  BY <1>2, <1>7, <1>8, <1>9, <1>10, PartOfOne DEF Returned

-----------------------------------------------------------------------------
(* Chat completions: the choices of an answer come back as one message     *)

\* Elements picked by what they are, and mapped.
Which(s, W) == {i \in DOMAIN s : s[i] \in W}
Sel(D, W, f) == [x \in D |-> IF x \in W THEN <<f[x]>> ELSE <<>>]
Same(D) == [x \in D |-> x]
Defined(f, D) == f = [x \in D |-> f[x]]
Values(D, f)  == {f[x] : x \in D}
Mapping(f, s) == [i \in DOMAIN s |-> f[s[i]]]

LEMMA SelBecomes ==
    ASSUME NEW D, NEW W, NEW E, NEW f \in [D -> E] PROVE Becomes(Sel(D, W, f), D, E)
<1>1. \A x \in D : f[x] \in E
  OBVIOUS
<1>2. \A x \in D : <<f[x]>> \in Seq(E) /\ <<>> \in Seq(E)
  BY <1>1
<1> QED
  BY <1>2 DEF Becomes, Sel

LEMMA ChosenBinds ==
    ASSUME NEW D, NEW s \in Seq(D), NEW W
    PROVE  Only(s, Which(s, W)) = Bind(Sel(D, W, Same(D)), s) /\ Only(s, Which(s, W)) \in Seq(D)
<1> DEFINE g == Sel(D, W, Same(D))
           I == Which(s, W)
<1>1. \A x \in D : g[x] = IF x \in W THEN <<x>> ELSE <<>>
  BY DEF Sel, Same
<1>2. IsSeq(s) /\ DOMAIN s = 1 .. Len(s) /\ \A i \in 1 .. Len(s) : s[i] \in D
  BY SeqIs
<1>3. \A i \in 1 .. Len(s) : g[s[i]] = IF i \in I THEN <<s[i]>> ELSE <<>>
  BY <1>1, <1>2 DEF Which
<1>4. Becomes(g, D, D)
  <2>1. Same(D) \in [D -> D]
    BY DEF Same
  <2> QED
    BY <2>1, SelBecomes
<1> HIDE DEF g, I
<1>5. Only(s, I) = Bind(g, s)
  BY <1>2, <1>3, OnlyBinds
<1>6. Bind(g, s) \in Seq(D)
  BY <1>4, BindIn
<1> QED
  BY <1>5, <1>6 DEF g, I

\* Picked and mapped; picked twice; mapped and picked.
LEMMA ChosenMapped ==
    ASSUME NEW D, NEW s \in Seq(D), NEW W, NEW f, Defined(f, D), NEW t, t = Only(s, Which(s, W))
    PROVE  Mapping(f, t) = Bind(Sel(D, W, f), s)
<1> DEFINE E == Values(D, f)
<1>0. f \in [D -> E]
  BY DEF Defined, Values
<1> HIDE DEF E
<1> DEFINE g == Sel(D, W, Same(D))
           h == Sel(D, D, f)
           k == Sel(D, W, f)
<1>1. \A x \in D : h[x] = <<f[x]>>
  BY DEF Sel
<1>2. \A x \in D : k[x] = (IF x \in W THEN <<f[x]>> ELSE <<>>) /\ g[x] = IF x \in W THEN <<x>> ELSE <<>>
  BY DEF Sel, Same
<1>3. Same(D) \in [D -> D]
  BY DEF Same
<1>4. Becomes(g, D, D) /\ Becomes(h, D, E) /\ Becomes(k, D, E)
  BY <1>0, <1>3, SelBecomes
<1>5. t = Bind(g, s) /\ t \in Seq(D)
  BY ChosenBinds
<1> HIDE DEF g, h, k
<1>6. Composed(k, h, g, D)
  <2> SUFFICES ASSUME NEW x \in D PROVE k[x] = Bind(h, g[x])
    BY DEF Composed
  <2>1. Bind(h, <<x>>) = h[x]
    BY <1>4, BindOne
  <2> QED
    BY <2>1, <1>1, <1>2, BindNone
<1>7. Bind(h, t) = Bind(k, s)
  BY <1>4, <1>5, <1>6, BindBind
<1>8. Bind(h, t) = [i \in DOMAIN t |-> f[t[i]]]
  BY <1>0, <1>1, <1>4, <1>5, BindKeeps
<1> QED
  BY <1>7, <1>8 DEF k, Mapping

LEMMA ChosenTwice ==
    ASSUME NEW D, NEW s \in Seq(D), NEW W, NEW V, NEW t, t = Only(s, Which(s, W))
    PROVE  /\ Only(t, Which(t, V)) = Only(s, Which(s, W \cap V))
           /\ Only(s, Which(s, W \cap V)) \in Seq(D)
<1> DEFINE g == Sel(D, W, Same(D))
           h == Sel(D, V, Same(D))
           k == Sel(D, W \cap V, Same(D))
<1>1. \A x \in D : /\ g[x] = IF x \in W THEN <<x>> ELSE <<>>
                   /\ h[x] = IF x \in V THEN <<x>> ELSE <<>>
                   /\ k[x] = IF x \in W /\ x \in V THEN <<x>> ELSE <<>>
  BY DEF Sel, Same
<1>3. Same(D) \in [D -> D]
  BY DEF Same
<1>4. Becomes(g, D, D) /\ Becomes(h, D, D) /\ Becomes(k, D, D)
  BY <1>3, SelBecomes
<1>5. t = Bind(g, s) /\ t \in Seq(D)
  BY ChosenBinds
<1>6. /\ Only(t, Which(t, V)) = Bind(h, t) /\ Only(s, Which(s, W \cap V)) = Bind(k, s)
      /\ Only(s, Which(s, W \cap V)) \in Seq(D)
  BY <1>5, ChosenBinds
<1> HIDE DEF g, h, k
<1>7. Composed(k, h, g, D)
  <2> SUFFICES ASSUME NEW x \in D PROVE k[x] = Bind(h, g[x])
    BY DEF Composed
  <2>1. Bind(h, <<x>>) = h[x]
    BY <1>4, BindOne
  <2> QED
    BY <2>1, <1>1, BindNone
<1>8. Bind(h, t) = Bind(k, s)
  BY <1>4, <1>5, <1>7, BindBind
<1> QED
  BY <1>6, <1>8

\* What f makes of s, picked.
SelOf(D, V, f) == [x \in D |-> IF f[x] \in V THEN <<f[x]>> ELSE <<>>]

LEMMA MappedChosen ==
    ASSUME NEW D, NEW s \in Seq(D), NEW V, NEW f, Defined(f, D), NEW u, u = Mapping(f, s)
    PROVE  /\ Only(u, Which(u, V)) = Bind(SelOf(D, V, f), s)
           /\ u \in Seq(Values(D, f)) /\ Becomes(SelOf(D, V, f), D, Values(D, f))
<1> DEFINE E == Values(D, f)
<1>0. f \in [D -> E]
  BY DEF Defined, Values
<1> HIDE DEF E
<1> DEFINE g == Sel(D, D, f)
           h == Sel(E, V, Same(E))
           k == SelOf(D, V, f)
<1>1. /\ \A x \in D : g[x] = <<f[x]>> /\ k[x] = (IF f[x] \in V THEN <<f[x]>> ELSE <<>>) /\ f[x] \in E
      /\ \A y \in E : h[y] = IF y \in V THEN <<y>> ELSE <<>>
  BY <1>0 DEF Sel, Same, SelOf
<1>2. Same(E) \in [E -> E]
  BY DEF Same
<1>3. Becomes(g, D, E) /\ Becomes(h, E, E)
  BY <1>0, <1>2, SelBecomes
<1>4. Becomes(k, D, E)
  <2>1. ASSUME NEW x \in D PROVE <<f[x]>> \in Seq(E) /\ <<>> \in Seq(E)
    <3>1. f[x] \in E
      BY <1>1
    <3> QED
      BY <3>1
  <2> QED
    BY <2>1 DEF SelOf, Becomes
<1> HIDE DEF g, h, k
<1>5. u = Bind(g, s)
  <2>1. \A x \in D : g[x] = <<f[x]>>
    BY <1>1
  <2>2. Bind(g, s) = [i \in DOMAIN s |-> f[s[i]]]
    BY <1>0, <1>3, <2>1, BindKeeps
  <2> QED
    BY <2>2 DEF Mapping
<1>6. u \in Seq(E)
  BY <1>3, <1>5, BindIn
<1>7. Only(u, Which(u, V)) = Bind(h, u)
  BY <1>6, ChosenBinds DEF h
<1>8. Composed(k, h, g, D)
  <2> SUFFICES ASSUME NEW x \in D PROVE k[x] = Bind(h, g[x])
    BY DEF Composed
  <2>1. Bind(h, <<f[x]>>) = h[f[x]]
    BY <1>1, <1>3, BindOne
  <2> QED
    BY <2>1, <1>1
<1>9. Bind(h, u) = Bind(k, s)
  BY <1>3, <1>4, <1>5, <1>8, BindBind
<1> QED
  BY <1>4, <1>6, <1>7, <1>9 DEF k, E

\* Through chat completions: the content of a choice is its thinking, its text, its calls.
Thinkable(ch)  == ch.reasoning_text # NoText \/ ch.reasoning_opaque # NoSignature
ThinkBlock(ch) == Thinking(IF ch.reasoning_text = NoText THEN THINKING_TEXT ELSE ch.reasoning_text,
                           ch.reasoning_opaque)

LEMMA BothIn ==
    ASSUME NEW s, IsSeq(s), NEW t, IsSeq(t), NEW B, s \o t \in Seq(B) PROVE s \in Seq(B) /\ t \in Seq(B)
<1> DEFINE u == s \o t
<1>1. /\ Len(u) = Len(s) + Len(t) /\ Len(s) \in Nat /\ Len(t) \in Nat
      /\ \A i \in 1 .. Len(s) : u[i] = s[i]
      /\ \A i \in 1 .. Len(t) : u[Len(s) + i] = t[i]
  BY Concat, SeqFacts
<1>2. s = [i \in 1 .. Len(s) |-> s[i]] /\ t = [i \in 1 .. Len(t) |-> t[i]]
  BY SeqFacts
<1> HIDE DEF u
<1>3. u \in Seq(B)
  BY DEF u
<1>4. \A i \in 1 .. Len(u) : u[i] \in B
  BY <1>3
<1>5. \A i \in 1 .. Len(s) : i \in 1 .. Len(u) /\ s[i] \in B
  BY <1>1, <1>4
<1>6. \A i \in 1 .. Len(t) : Len(s) + i \in 1 .. Len(u) /\ t[i] \in B
  BY <1>1, <1>4
<1>7. s \in [1 .. Len(s) -> B] /\ t \in [1 .. Len(t) -> B]
  BY <1>2, <1>5, <1>6
<1>8. \A n \in Nat : \A f \in [1 .. n -> B] : f \in Seq(B)
  OBVIOUS
<1> QED
  BY <1>1, <1>7, <1>8

LEMMA ThinkBinds ==
    ASSUME NEW ch, NEW B, NEW E, NEW g, Becomes(g, B, E), getAnthropicThinkBlocks(ch) \in Seq(B)
    PROVE  /\ Thinkable(ch) => ThinkBlock(ch) \in B
           /\ Bind(g, getAnthropicThinkBlocks(ch)) = IF Thinkable(ch) THEN g[ThinkBlock(ch)] ELSE <<>>
<1> DEFINE s == getAnthropicThinkBlocks(ch)
<1>1. s = IF Thinkable(ch) THEN <<ThinkBlock(ch)>> ELSE <<>>
  BY DEF getAnthropicThinkBlocks, Thinkable, ThinkBlock
<1>2. CASE Thinkable(ch)
  <2> DEFINE b == ThinkBlock(ch)
  <2> HIDE DEF b
  <2>1. s = <<b>>
    BY <1>1, <1>2 DEF b
  <2>2. <<b>> \in Seq(B)
    BY <2>1
  <2>3. 1 \in 1 .. Len(<<b>>) /\ <<b>>[1] = b
    OBVIOUS
  <2>4. b \in B
    <3>1. \A u \in Seq(B) : \A i \in 1 .. Len(u) : u[i] \in B
      OBVIOUS
    <3> QED
      BY <2>2, <2>3, <3>1
  <2>5. Bind(g, <<b>>) = g[b]
    BY <2>4, BindOne
  <2> QED
    BY <1>2, <2>1, <2>4, <2>5 DEF b
<1>3. CASE ~Thinkable(ch)
  BY <1>1, <1>3, BindNone
<1> QED
  BY <1>2, <1>3

LEMMA TextBinds ==
    ASSUME NEW text, NEW B, NEW E, NEW g, Becomes(g, B, E), TextBlock(text) \in Seq(B)
    PROVE  /\ text # NoText => Text(text, "plain") \in B
           /\ Bind(g, TextBlock(text)) = IF text = NoText THEN <<>> ELSE g[Text(text, "plain")]
<1>1. CASE text # NoText
  <2> DEFINE b == Text(text, "plain")
  <2> HIDE DEF b
  <2>1. TextBlock(text) = <<b>>
    BY <1>1 DEF b, TextBlock
  <2>2. <<b>> \in Seq(B)
    BY <2>1
  <2>3. 1 \in 1 .. Len(<<b>>) /\ <<b>>[1] = b
    OBVIOUS
  <2>4. b \in B
    <3>1. \A u \in Seq(B) : \A i \in 1 .. Len(u) : u[i] \in B
      OBVIOUS
    <3> QED
      BY <2>2, <2>3, <3>1
  <2>5. Bind(g, <<b>>) = g[b]
    BY <2>4, BindOne
  <2> QED
    BY <1>1, <2>1, <2>4, <2>5 DEF b
<1>2. CASE text = NoText
  BY <1>2, BindNone DEF TextBlock
<1> QED
  BY <1>1, <1>2

LEMMA ToolUsesIs ==
    ASSUME NEW calls, IsSeq(calls)
    PROVE  /\ IsSeq(ToolUses(calls)) /\ Len(ToolUses(calls)) = Len(calls)
           /\ \A i \in 1 .. Len(calls) : ToolUses(calls)[i] = ToolUse(calls[i])
<1> DEFINE u == ToolUses(calls)
<1>1. Len(calls) \in Nat /\ u = [i \in 1 .. Len(calls) |-> ToolUse(calls[i])]
  BY SeqFacts DEF ToolUses
<1>2. u = [i \in 1 .. Len(calls) |-> u[i]] /\ \A i \in 1 .. Len(calls) : u[i] = ToolUse(calls[i])
  BY <1>1
<1> HIDE DEF u
<1>3. IsSeq(u) /\ Len(u) = Len(calls)
  BY <1>1, <1>2, FunIsSeq
<1> QED
  BY <1>2, <1>3 DEF u

LEMMA CallsBind ==
    ASSUME NEW calls, IsSeq(calls), NEW B, NEW E, NEW g, Becomes(g, B, E), ToolUses(calls) \in Seq(B)
    PROVE  /\ (\A b \in B : b.type = "tool_use" => g[b] = <<>>) => Bind(g, ToolUses(calls)) = <<>>
           /\ (\A b \in B : b.type = "tool_use" => g[b] = <<b.call>>) => Bind(g, ToolUses(calls)) = calls
<1> DEFINE u == ToolUses(calls)
<1>1. IsSeq(u) /\ Len(u) = Len(calls) /\ \A i \in 1 .. Len(calls) : u[i] = ToolUse(calls[i])
  BY ToolUsesIs
<1>3. \A i \in 1 .. Len(u) : u[i].type = "tool_use" /\ u[i].call = calls[i]
  <2> HIDE DEF u
  <2> SUFFICES ASSUME NEW i \in 1 .. Len(u) PROVE u[i].type = "tool_use" /\ u[i].call = calls[i]
    OBVIOUS
  <2>1. u[i] = ToolUse(calls[i])
    BY <1>1
  <2>2. ToolUse(calls[i]).type = "tool_use" /\ ToolUse(calls[i]).call = calls[i]
    BY DEF ToolUse
  <2> QED
    BY <2>1, <2>2
<1>2. \A i \in 1 .. Len(u) : u[i] \in B
  <2>1. \A v \in Seq(B) : \A i \in 1 .. Len(v) : v[i] \in B
    OBVIOUS
  <2> QED
    BY <2>1
<1> HIDE DEF u
<1>4. ASSUME \A b \in B : b.type = "tool_use" => g[b] = <<>> PROVE Bind(g, u) = <<>>
  <2>1. \A i \in 1 .. Len(u) : g[u[i]] = <<>>
    BY <1>2, <1>3, <1>4
  <2> QED
    BY <1>1, <2>1, BindNothing
<1>5. ASSUME \A b \in B : b.type = "tool_use" => g[b] = <<b.call>> PROVE Bind(g, u) = calls
  <2>1. \A i \in 1 .. Len(u) : g[u[i]] = <<calls[i]>>
    BY <1>2, <1>3, <1>5
  <2>2. DOMAIN u = 1 .. Len(u)
    BY <1>1, SeqFacts
  <2>3. [i \in DOMAIN u |-> g[u[i]]] = Singles(calls)
    BY <2>1, <2>2, <1>1 DEF Singles
  <2>4. FlattenSeq(Singles(calls)) = calls
    BY Split
  <2> QED
    BY <2>3, <2>4 DEF Bind
<1> QED
  BY <1>4, <1>5 DEF u

\* What g makes of the content of a choice.
LEMMA ChoiceBinds ==
    ASSUME NEW ch, IsSeq(ch.tool_calls), NEW B, ChoiceContent(ch) \in Seq(B),
           NEW E, NEW g, Becomes(g, B, E)
    PROVE  /\ Thinkable(ch) => ThinkBlock(ch) \in B
           /\ ch.text # NoText => Text(ch.text, "plain") \in B
           /\ ToolUses(ch.tool_calls) \in Seq(B)
           /\ Bind(g, ChoiceContent(ch)) =
                ((IF Thinkable(ch) THEN g[ThinkBlock(ch)] ELSE <<>>)
                  \o (IF ch.text = NoText THEN <<>> ELSE g[Text(ch.text, "plain")]))
                  \o Bind(g, ToolUses(ch.tool_calls))
<1> DEFINE a == getAnthropicThinkBlocks(ch)
           b == TextBlock(ch.text)
           u == ToolUses(ch.tool_calls)
<1>1. ChoiceContent(ch) = (a \o b) \o u
  BY DEF ChoiceContent, TextBlock, ToolUses
<1>2. IsSeq(a) /\ IsSeq(b) /\ IsSeq(u)
  <2>1. a = <<>> \/ \E x : a = <<x>>
    BY DEF getAnthropicThinkBlocks
  <2>2. b = <<>> \/ \E x : b = <<x>>
    BY DEF TextBlock
  <2>3. IsSeq(u)
    BY ToolUsesIs
  <2> QED
    BY <2>1, <2>2, <2>3, One, None
<1> HIDE DEF a, b, u
<1>3. IsSeq(a \o b)
  BY <1>2, Concat
<1>4. a \o b \in Seq(B) /\ u \in Seq(B)
  BY <1>1, <1>2, <1>3, BothIn
<1>5. a \in Seq(B) /\ b \in Seq(B)
  BY <1>2, <1>4, BothIn
<1>6. /\ Bind(g, (a \o b) \o u) = Bind(g, a \o b) \o Bind(g, u)
      /\ Bind(g, a \o b) = Bind(g, a) \o Bind(g, b)
  <2>1. \A v, w \in Seq(B) : Bind(g, v \o w) = Bind(g, v) \o Bind(g, w)
    BY BindConcat
  <2>2. Bind(g, a \o b) = Bind(g, a) \o Bind(g, b)
    BY <1>5, <2>1
  <2> DEFINE ab == a \o b
  <2> HIDE DEF ab
  <2>3. ab \in Seq(B)
    BY <1>4 DEF ab
  <2>4. Bind(g, ab \o u) = Bind(g, ab) \o Bind(g, u)
    BY <1>4, <2>1, <2>3
  <2> QED
    BY <2>2, <2>4 DEF ab
<1>7. /\ Thinkable(ch) => ThinkBlock(ch) \in B
      /\ Bind(g, a) = IF Thinkable(ch) THEN g[ThinkBlock(ch)] ELSE <<>>
  BY <1>5, ThinkBinds DEF a
<1>8. /\ ch.text # NoText => Text(ch.text, "plain") \in B
      /\ Bind(g, b) = IF ch.text = NoText THEN <<>> ELSE g[Text(ch.text, "plain")]
  BY <1>5, TextBinds DEF b
<1> QED
  BY <1>1, <1>4, <1>6, <1>7, <1>8 DEF u

\* The four things gathered from the blocks B of a message, and from the choices C.
Wordy == {"text", "tool_reference"} \cup Attachments
Thinks(B, toClaude) == {b \in B : b.type = "thinking" /\ (toClaude => IsClaudeThinking(b))}

WordIn(B)   == {b \in B : b.type \in Wordy}
WordOf(B)   == [b \in B |-> IF b.type = "document" THEN Notice ELSE Part(b.type, b.id)]
ThoughtIn(B, toClaude) == {b \in Thinks(B, toClaude) : b.text \notin {NoText, THINKING_TEXT}}
ThoughtOf(B) == [b \in B |-> b.text]
SignedIn(B, toClaude) == {b \in Thinks(B, toClaude) : b.signature # NoSignature}
SignatureOf(B) == [b \in B |-> b.signature]
CallIn(B)   == {b \in B : b.type = "tool_use"}
CallOf(B)   == [b \in B |-> b.call]

Gathered(parts, thoughts, opaques, calls) ==
  [ChatMessage("assistant", parts) EXCEPT
     !.reasoning_text = thoughts,
     !.reasoning_opaque = IF opaques = <<>> THEN NoSignature ELSE opaques[1],
     !.tool_calls = calls]

\* The elements of a type, and the places the code looks for.
Typed(D, T) == {x \in D : x.type \in T}
OwnAt(s, toClaude) == {i \in DOMAIN s : toClaude => IsClaudeThinking(s[i])}
TextedAt(s) == {i \in DOMAIN s : s[i].text \notin {NoText, THINKING_TEXT}}
SignedAt(s) == {i \in DOMAIN s : s[i].signature # NoSignature}

LEMMA OfTypeIs ==
    ASSUME NEW D, NEW s \in Seq(D), NEW T PROVE OfType(s, T) = Only(s, Which(s, Typed(D, T)))
<1>1. \A i \in DOMAIN s : s[i] \in D
  OBVIOUS
<1>2. {i \in DOMAIN s : s[i].type \in T} = Which(s, Typed(D, T))
  BY <1>1 DEF Which, Typed
<1> QED
  BY <1>2 DEF OfType

LEMMA GatherWords ==
    ASSUME NEW B, NEW c \in Seq(B)
    PROVE  mapContent(c) = Bind(Sel(B, WordIn(B), WordOf(B)), c)
<1> DEFINE f == WordOf(B)
           W == Typed(B, Wordy)
           parts == OfType(c, Wordy)
<1>0. W = WordIn(B)
  BY DEF WordIn, Typed
<1> HIDE DEF W
<1>1. parts = Only(c, Which(c, W))
  BY OfTypeIs DEF W
<1> HIDE DEF parts
<1>2. parts \in Seq(B)
  BY <1>1, ChosenBinds
<1>3. \A i \in DOMAIN parts : parts[i] \in B
  BY <1>2
<1>4. \A i \in DOMAIN parts :
        f[parts[i]] = IF parts[i].type = "document" THEN Notice ELSE Part(parts[i].type, parts[i].id)
  BY <1>3 DEF WordOf
<1>5. mapContent(c) = Mapping(f, parts)
  BY <1>4 DEF mapContent, Wordy, Mapping, parts
<1>6. Defined(f, B)
  BY DEF WordOf, Defined
<1> HIDE DEF f
<1>8. Mapping(f, parts) = Bind(Sel(B, W, f), c)
  BY <1>1, <1>6, ChosenMapped
<1> QED
  BY <1>0, <1>5, <1>8 DEF f

LEMMA ThinkingIn ==
    ASSUME NEW B, NEW c \in Seq(B), NEW toClaude, NEW thoughts, thoughts = OfType(c, {"thinking"}),
           NEW thinking, thinking = Only(thoughts, OwnAt(thoughts, toClaude))
    PROVE  thinking = Only(c, Which(c, Thinks(B, toClaude))) /\ thinking \in Seq(B)
<1> DEFINE W == Typed(B, {"thinking"})
           V == {b \in B : toClaude => IsClaudeThinking(b)}
<1>1. thoughts = Only(c, Which(c, W))
  BY OfTypeIs
<1>2. W \cap V = Thinks(B, toClaude)
  BY DEF Thinks, Typed
<1> HIDE DEF W
<1>3. thoughts \in Seq(B)
  BY <1>1, ChosenBinds
<1>4. \A i \in DOMAIN thoughts : thoughts[i] \in B
  BY <1>3
<1>5. OwnAt(thoughts, toClaude) = Which(thoughts, V)
  BY <1>4 DEF Which, OwnAt
<1> HIDE DEF V
<1>6. thinking = Only(thoughts, Which(thoughts, V))
  BY <1>5
<1>7. thinking = Only(c, Which(c, W \cap V)) /\ thinking \in Seq(B)
  <2>1. /\ Only(thoughts, Which(thoughts, V)) = Only(c, Which(c, W \cap V))
        /\ Only(c, Which(c, W \cap V)) \in Seq(B)
    BY ONLY <1>1, ChosenTwice, c \in Seq(B)
  <2> QED
    BY <1>6, <2>1
<1> QED
  BY <1>2, <1>7

LEMMA GatherThoughts ==
    ASSUME NEW B, NEW c \in Seq(B), NEW toClaude,
           NEW thinking, thinking = Only(c, Which(c, Thinks(B, toClaude))),
           NEW said, said = Only(thinking, TextedAt(thinking))
    PROVE  [i \in DOMAIN said |-> said[i].text]
             = Bind(Sel(B, ThoughtIn(B, toClaude), ThoughtOf(B)), c)
<1> DEFINE W == Thinks(B, toClaude)
           V == {b \in B : b.text \notin {NoText, THINKING_TEXT}}
           f == ThoughtOf(B)
<1>1. W \cap V = ThoughtIn(B, toClaude)
  BY DEF ThoughtIn, Thinks
<1> HIDE DEF W
<1>5. thinking = Only(c, Which(c, W))
  BY DEF W
<1>2. thinking \in Seq(B)
  BY <1>5, ChosenBinds
<1>3. \A i \in DOMAIN thinking : thinking[i] \in B
  BY <1>2
<1>4. TextedAt(thinking) = Which(thinking, V)
  BY <1>3 DEF Which, TextedAt
<1> HIDE DEF V
<1>6. said = Only(c, Which(c, W \cap V)) /\ said \in Seq(B)
  BY <1>4, <1>5, ChosenTwice
<1>8. \A i \in DOMAIN said : f[said[i]] = said[i].text
  BY <1>6 DEF ThoughtOf
<1>9. Defined(f, B)
  BY DEF ThoughtOf, Defined
<1> HIDE DEF f
<1>10. Mapping(f, said) = Bind(Sel(B, W \cap V, f), c)
  BY <1>6, <1>9, ChosenMapped
<1>11. Mapping(f, said) = [i \in DOMAIN said |-> said[i].text]
  BY <1>8 DEF Mapping
<1> QED
  BY <1>1, <1>10, <1>11 DEF f

LEMMA GatherSignatures ==
    ASSUME NEW B, NEW c \in Seq(B), NEW toClaude,
           NEW thinking, thinking = Only(c, Which(c, Thinks(B, toClaude))),
           NEW signed, signed = Only(thinking, SignedAt(thinking)),
           NEW opaques, opaques = Bind(Sel(B, SignedIn(B, toClaude), SignatureOf(B)), c)
    PROVE  (IF signed = <<>> THEN NoSignature ELSE Head(signed).signature)
             = IF opaques = <<>> THEN NoSignature ELSE opaques[1]
<1> DEFINE W == Thinks(B, toClaude)
           V == {b \in B : b.signature # NoSignature}
           f == SignatureOf(B)
<1>1. W \cap V = SignedIn(B, toClaude)
  BY DEF SignedIn, Thinks
<1> HIDE DEF W
<1>5. thinking = Only(c, Which(c, W))
  BY DEF W
<1>2. thinking \in Seq(B)
  BY <1>5, ChosenBinds
<1>3. \A i \in DOMAIN thinking : thinking[i] \in B
  BY <1>2
<1>4. SignedAt(thinking) = Which(thinking, V)
  BY <1>3 DEF Which, SignedAt
<1> HIDE DEF V
<1>6. signed = Only(c, Which(c, W \cap V)) /\ signed \in Seq(B)
  <2>1. signed = Only(thinking, Which(thinking, V))
    BY <1>4
  <2>2. /\ Only(thinking, Which(thinking, V)) = Only(c, Which(c, W \cap V))
        /\ Only(c, Which(c, W \cap V)) \in Seq(B)
    <3>1. c \in Seq(B)
      OBVIOUS
    <3> QED
      BY ONLY <1>5, <3>1, ChosenTwice
  <2> QED
    BY <2>1, <2>2
<1>8. \A i \in DOMAIN signed : f[signed[i]] = signed[i].signature
  BY <1>6 DEF SignatureOf
<1>9. Defined(f, B)
  BY DEF SignatureOf, Defined
<1> HIDE DEF f
<1>10. Mapping(f, signed) = Bind(Sel(B, W \cap V, f), c)
  BY <1>6, <1>9, ChosenMapped
<1>11. opaques = [i \in DOMAIN signed |-> f[signed[i]]]
  BY <1>1, <1>10 DEF f, Mapping
<1>12. DOMAIN signed = 1 .. Len(signed) /\ Len(signed) \in Nat
  BY <1>6
<1>13. opaques = [i \in 1 .. Len(signed) |-> opaques[i]] /\ \A i \in 1 .. Len(signed) : opaques[i] = signed[i].signature
  BY <1>8, <1>11, <1>12
<1>14. IsSeq(opaques) /\ Len(opaques) = Len(signed)
  BY <1>12, <1>13, FunIsSeq
<1>15. CASE signed = <<>>
  <2>1. Len(opaques) = 0
    BY <1>14, <1>15
  <2>2. opaques = <<>>
    BY <2>1, <1>14, SeqFacts
  <2> QED
    BY <1>15, <2>2
<1>16. CASE signed # <<>>
  <2>1. Len(signed) # 0 /\ Head(signed) = signed[1]
    BY <1>16, <1>6
  <2>2. opaques # <<>> /\ opaques[1] = signed[1].signature
    <3>1. 1 \in 1 .. Len(signed)
      BY <2>1, <1>12
    <3> QED
      BY <3>1, <2>1, <1>13, <1>14, SeqFacts
  <2> QED
    BY <1>16, <2>1, <2>2
<1> QED
  BY <1>15, <1>16

LEMMA GatherCalls ==
    ASSUME NEW B, NEW c \in Seq(B), NEW calls, calls = OfType(c, {"tool_use"})
    PROVE  [i \in DOMAIN calls |-> calls[i].call] = Bind(Sel(B, CallIn(B), CallOf(B)), c)
<1> DEFINE f == CallOf(B)
           W == Typed(B, {"tool_use"})
<1>1. W = CallIn(B)
  BY DEF CallIn, Typed
<1>2. calls = Only(c, Which(c, W))
  BY OfTypeIs
<1> HIDE DEF W
<1>3. calls \in Seq(B)
  BY <1>2, ChosenBinds
<1>4. \A i \in DOMAIN calls : f[calls[i]] = calls[i].call
  BY <1>3 DEF CallOf
<1>5. Defined(f, B)
  BY DEF CallOf, Defined
<1> HIDE DEF f
<1>6. Mapping(f, calls) = Bind(Sel(B, W, f), c)
  BY <1>2, <1>5, ChosenMapped
<1>7. Mapping(f, calls) = [i \in DOMAIN calls |-> calls[i].call]
  BY <1>4 DEF Mapping
<1> QED
  BY <1>1, <1>6, <1>7 DEF f

LEMMA AssistantGathers ==
    ASSUME NEW B, NEW m, m.content \in Seq(B), NEW toClaude
    PROVE  handleAssistantMessage(m, toClaude) =
             <<Gathered(Bind(Sel(B, WordIn(B), WordOf(B)), m.content),
                        Bind(Sel(B, ThoughtIn(B, toClaude), ThoughtOf(B)), m.content),
                        Bind(Sel(B, SignedIn(B, toClaude), SignatureOf(B)), m.content),
                        Bind(Sel(B, CallIn(B), CallOf(B)), m.content))>>
<1> DEFINE c == m.content
           thoughts == OfType(c, {"thinking"})
           thinking == Only(thoughts, OwnAt(thoughts, toClaude))
           said == Only(thinking, TextedAt(thinking))
           signed == Only(thinking, SignedAt(thinking))
           calls == OfType(c, {"tool_use"})
           words == mapContent(c)
           texts == [i \in DOMAIN said |-> said[i].text]
           opaque == IF signed = <<>> THEN NoSignature ELSE Head(signed).signature
           ids == [i \in DOMAIN calls |-> calls[i].call]
<1>1. handleAssistantMessage(m, toClaude) =
        <<[ChatMessage("assistant", words) EXCEPT
             !.reasoning_text = texts, !.reasoning_opaque = opaque, !.tool_calls = ids]>>
  BY DEF handleAssistantMessage, OwnAt, TextedAt, SignedAt
<1>2. ids = Bind(Sel(B, CallIn(B), CallOf(B)), c)
  <2> HIDE DEF c
  <2> QED
    BY GatherCalls DEF c
<1>3. words = Bind(Sel(B, WordIn(B), WordOf(B)), c)
  BY GatherWords
<1>4. thinking = Only(c, Which(c, Thinks(B, toClaude)))
  <2>1. c \in Seq(B) /\ thoughts = OfType(c, {"thinking"})
    OBVIOUS
  <2>2. thinking = Only(thoughts, OwnAt(thoughts, toClaude))
    OBVIOUS
  <2> HIDE DEF thinking, thoughts, c
  <2> QED
    BY <2>1, <2>2, ThinkingIn
<1> HIDE DEF thinking, thoughts, calls, words, ids
<1>5. texts = Bind(Sel(B, ThoughtIn(B, toClaude), ThoughtOf(B)), c)
  <2>1. c \in Seq(B) /\ said = Only(thinking, TextedAt(thinking))
    OBVIOUS
  <2> HIDE DEF said, c
  <2> QED
    BY <2>1, <1>4, GatherThoughts
<1> DEFINE opaques == Bind(Sel(B, SignedIn(B, toClaude), SignatureOf(B)), c)
<1>6. opaque = IF opaques = <<>> THEN NoSignature ELSE opaques[1]
  <2>1. c \in Seq(B) /\ signed = Only(thinking, SignedAt(thinking))
    OBVIOUS
  <2>2. opaques = Bind(Sel(B, SignedIn(B, toClaude), SignatureOf(B)), c)
    OBVIOUS
  <2> HIDE DEF signed, c, opaques
  <2> QED
    BY <2>1, <2>2, <1>4, GatherSignatures
<1> HIDE DEF opaque, texts
<1> QED
  BY <1>1, <1>2, <1>3, <1>5, <1>6 DEF Gathered

\* The same of the choices.
Taken(ch, toClaude) == toClaude => (ch.reasoning_text # NoText /\ ch.reasoning_opaque # NoSignature)

SpokenIn(C)  == [ch \in C |-> IF ch.text = NoText THEN <<>> ELSE <<Part("text", ch.text)>>]
ReasonedIn(C, toClaude) ==
  [ch \in C |-> IF Taken(ch, toClaude) /\ ch.reasoning_text # NoText THEN <<ch.reasoning_text>> ELSE <<>>]
OpaqueIn(C, toClaude) ==
  [ch \in C |-> IF Taken(ch, toClaude) /\ ch.reasoning_opaque # NoSignature
                  THEN <<ch.reasoning_opaque>> ELSE <<>>]
CalledIn(C)  == [ch \in C |-> ch.tool_calls]

Held(parts, none) == Only(parts, {i \in DOMAIN parts : parts[i] # none})
HeldOf(C, f, none) == [x \in C |-> IF f[x] # none THEN <<f[x]>> ELSE <<>>]

LEMMA MappingBinds ==
    ASSUME NEW D, NEW s \in Seq(D), NEW f, Defined(f, D)
    PROVE  Mapping(f, s) = Bind(Sel(D, D, f), s) /\ Becomes(Sel(D, D, f), D, Values(D, f))
<1> DEFINE E == Values(D, f)
           g == Sel(D, D, f)
<1>1. f \in [D -> E]
  BY DEF Defined, Values
<1>2. \A x \in D : g[x] = <<f[x]>>
  BY DEF Sel
<1> HIDE DEF E
<1>3. Becomes(g, D, E)
  BY <1>1, SelBecomes
<1> HIDE DEF g
<1>4. Bind(g, s) = [i \in DOMAIN s |-> f[s[i]]]
  BY <1>1, <1>2, <1>3, BindKeeps
<1> QED
  BY <1>3, <1>4 DEF g, E, Mapping

LEMMA HeldBinds ==
    ASSUME NEW C, NEW s \in Seq(C), NEW f, Defined(f, C), NEW u, u = Mapping(f, s), NEW none
    PROVE  /\ Held(u, none) = Bind(HeldOf(C, f, none), s)
           /\ Becomes(HeldOf(C, f, none), C, Values(C, f)) /\ u \in Seq(Values(C, f))
<1> DEFINE E == Values(C, f)
           V == E \ {none}
<1>1. /\ Only(u, Which(u, V)) = Bind(SelOf(C, V, f), s)
      /\ u \in Seq(E) /\ Becomes(SelOf(C, V, f), C, E)
  BY MappedChosen
<1>2. SelOf(C, V, f) = HeldOf(C, f, none)
  <2>1. \A x \in C : f[x] \in V <=> f[x] # none
    BY DEF Values
  <2> HIDE DEF V
  <2> QED
    BY <2>1 DEF SelOf, HeldOf
<1>3. {i \in DOMAIN u : u[i] # none} = Which(u, V)
  <2>1. \A i \in DOMAIN u : u[i] \in E
    <3> HIDE DEF E
    <3> QED
      BY <1>1
  <2> QED
    BY <2>1 DEF Which
<1> HIDE DEF V
<1>4. Held(u, none) = Only(u, Which(u, V))
  BY <1>3 DEF Held
<1> QED
  BY <1>1, <1>2, <1>4

LEMMA FromWords ==
    ASSUME NEW C, NEW s \in Seq(C), NEW texts, texts = Held([i \in DOMAIN s |-> s[i].text], NoText)
    PROVE  [i \in DOMAIN texts |-> Part("text", texts[i])] = Bind(SpokenIn(C), s)
<1> DEFINE f == [ch \in C |-> ch.text]
           E == Values(C, f)
           p == [x \in E |-> Part("text", x)]
           g == HeldOf(C, f, NoText)
           h == Sel(E, E, p)
           F == Values(E, p)
           k == SpokenIn(C)
<1>1. \A i \in DOMAIN s : f[s[i]] = s[i].text
  OBVIOUS
<1>2. texts = Held(Mapping(f, s), NoText)
  BY <1>1 DEF Mapping
<1>3. Defined(f, C) /\ \A x \in C : f[x] = x.text
  BY DEF Defined
<1>4. \A x \in E : p[x] = Part("text", x) /\ h[x] = <<p[x]>>
  BY DEF Sel
<1>5. Defined(p, E) /\ \A x \in E : p[x] \in F
  BY DEF Values, Defined
<1>6. \A x \in C : /\ g[x] = IF f[x] # NoText THEN <<f[x]>> ELSE <<>>
                   /\ f[x] \in E
                   /\ k[x] = IF x.text = NoText THEN <<>> ELSE <<Part("text", x.text)>>
  <2>1. \A x \in C : f[x] \in E
    BY DEF Values
  <2> HIDE DEF f, E
  <2> QED
    BY <2>1 DEF HeldOf, SpokenIn
<1>8a. k = [x \in C |-> k[x]]
  BY DEF SpokenIn
<1> HIDE DEF f, E, p, F
<1>7. texts = Bind(g, s) /\ Becomes(g, C, E)
  BY <1>2, <1>3, HeldBinds DEF E
<1>12. texts \in Seq(E)
  BY <1>7, BindIn
<1>8. Becomes(h, E, F) /\ Mapping(p, texts) = Bind(h, texts)
  BY <1>5, <1>12, MappingBinds DEF F
<1> HIDE DEF g, h, k
<1>9. \A x \in C : k[x] = Bind(h, g[x]) /\ k[x] \in Seq(F)
  <2> SUFFICES ASSUME NEW x \in C PROVE k[x] = Bind(h, g[x]) /\ k[x] \in Seq(F)
    OBVIOUS
  <2>1. CASE x.text = NoText
    <3>1. g[x] = <<>> /\ k[x] = <<>>
      BY <2>1, <1>3, <1>6
    <3>2. <<>> \in Seq(F)
      OBVIOUS
    <3> QED
      BY <3>1, <3>2, BindNone
  <2>2. CASE x.text # NoText
    <3>1. g[x] = <<f[x]>> /\ k[x] = <<p[f[x]]>> /\ p[f[x]] \in F
      <4>1. f[x] = x.text /\ f[x] \in E
        BY <1>3, <1>6
      <4>2. g[x] = <<f[x]>>
        BY <2>2, <4>1, <1>6
      <4>3. k[x] = <<Part("text", x.text)>>
        BY <2>2, <1>6
      <4>4. p[f[x]] = Part("text", f[x]) /\ p[f[x]] \in F
        BY <4>1, <1>4, <1>5
      <4> QED
        BY <4>1, <4>2, <4>3, <4>4
    <3>2. Bind(h, <<f[x]>>) = h[f[x]]
      <4>1. f[x] \in E
        BY <1>6
      <4> QED
        BY <4>1, <1>8, BindOne
    <3>3. <<p[f[x]]>> \in Seq(F)
      BY <3>1
    <3> QED
      BY <3>1, <3>2, <3>3, <1>4, <1>6
  <2> QED
    BY <2>1, <2>2
<1>10. Composed(k, h, g, C) /\ Becomes(k, C, F)
  BY <1>9, <1>8a DEF Composed, Becomes
<1>11. Bind(h, texts) = Bind(k, s)
  BY <1>7, <1>8, <1>10, BindBind
<1>14. \A i \in DOMAIN texts : p[texts[i]] = Part("text", texts[i])
  BY <1>4, <1>12
<1> QED
  BY <1>8, <1>11, <1>14 DEF k, Mapping

LEMMA FromOpaques ==
    ASSUME NEW C, NEW s \in Seq(C), NEW toClaude
    PROVE  Held([i \in DOMAIN s |-> IF Taken(s[i], toClaude) THEN s[i].reasoning_opaque ELSE NoSignature],
                NoSignature) = Bind(OpaqueIn(C, toClaude), s)
<1> DEFINE f == [ch \in C |-> IF Taken(ch, toClaude) THEN ch.reasoning_opaque ELSE NoSignature]
<1>1. \A i \in DOMAIN s : f[s[i]] = IF Taken(s[i], toClaude) THEN s[i].reasoning_opaque ELSE NoSignature
  OBVIOUS
<1>2. [i \in DOMAIN s |-> IF Taken(s[i], toClaude) THEN s[i].reasoning_opaque ELSE NoSignature]
        = Mapping(f, s)
  BY <1>1 DEF Mapping
<1>3. Defined(f, C)
  BY DEF Defined
<1>4. HeldOf(C, f, NoSignature) = OpaqueIn(C, toClaude)
  BY DEF HeldOf, OpaqueIn
<1> HIDE DEF f
<1>5. Held(Mapping(f, s), NoSignature) = Bind(HeldOf(C, f, NoSignature), s)
  BY <1>3, HeldBinds
<1> QED
  BY <1>2, <1>4, <1>5

LEMMA FromThoughts ==
    ASSUME NEW C, NEW s \in Seq(C), NEW toClaude
    PROVE  Held([i \in DOMAIN s |-> IF Taken(s[i], toClaude) THEN s[i].reasoning_text ELSE NoText],
                NoText) = Bind(ReasonedIn(C, toClaude), s)
<1> DEFINE f == [ch \in C |-> IF Taken(ch, toClaude) THEN ch.reasoning_text ELSE NoText]
<1>1. \A i \in DOMAIN s : f[s[i]] = IF Taken(s[i], toClaude) THEN s[i].reasoning_text ELSE NoText
  OBVIOUS
<1>2. [i \in DOMAIN s |-> IF Taken(s[i], toClaude) THEN s[i].reasoning_text ELSE NoText]
        = Mapping(f, s)
  BY <1>1 DEF Mapping
<1>3. Defined(f, C)
  BY DEF Defined
<1>4. HeldOf(C, f, NoText) = ReasonedIn(C, toClaude)
  BY DEF HeldOf, ReasonedIn
<1> HIDE DEF f
<1>5. Held(Mapping(f, s), NoText) = Bind(HeldOf(C, f, NoText), s)
  BY <1>3, HeldBinds
<1> QED
  BY <1>2, <1>4, <1>5

LEMMA FromGathers ==
    ASSUME NEW C, NEW s \in Seq(C), NEW toClaude
    PROVE  FromChoices(s, toClaude) =
             Gathered(Bind(SpokenIn(C), s), Bind(ReasonedIn(C, toClaude), s),
                      Bind(OpaqueIn(C, toClaude), s), Bind(CalledIn(C), s))
<1> DEFINE opaque == Held([i \in DOMAIN s |-> IF Taken(s[i], toClaude) THEN s[i].reasoning_opaque
                                                                        ELSE NoSignature], NoSignature)
           thoughts == Held([i \in DOMAIN s |-> IF Taken(s[i], toClaude) THEN s[i].reasoning_text
                                                                          ELSE NoText], NoText)
           texts == Held([i \in DOMAIN s |-> s[i].text], NoText)
           words == [i \in DOMAIN texts |-> Part("text", texts[i])]
           calls == FlattenSeq([i \in DOMAIN s |-> s[i].tool_calls])
<1>1. FromChoices(s, toClaude) = Gathered(words, thoughts, opaque, calls)
  BY DEF FromChoices, Gathered, Held, Taken
<1>2. opaque = Bind(OpaqueIn(C, toClaude), s)
  BY FromOpaques
<1>3. thoughts = Bind(ReasonedIn(C, toClaude), s)
  BY FromThoughts
<1>4. words = Bind(SpokenIn(C), s)
  <2>1. texts = Held([i \in DOMAIN s |-> s[i].text], NoText)
    OBVIOUS
  <2> HIDE DEF texts
  <2> QED
    BY <2>1, FromWords
<1>5. calls = Bind(CalledIn(C), s)
  <2>1. \A i \in DOMAIN s : CalledIn(C)[s[i]] = s[i].tool_calls
    BY DEF CalledIn
  <2>2. [i \in DOMAIN s |-> s[i].tool_calls] = [i \in DOMAIN s |-> CalledIn(C)[s[i]]]
    BY <2>1
  <2> QED
    BY <2>2 DEF Bind
<1> HIDE DEF opaque, thoughts, words, calls
<1> QED
  BY <1>1, <1>2, <1>3, <1>4, <1>5

\* What the content of one choice gives is what the choice gives.
ProperChoice(ch) ==
  IsSeq(ch.tool_calls) /\ ch.reasoning_text # THINKING_TEXT /\ ~HasAt(ch.reasoning_opaque)

LEMMA SelIs ==
    ASSUME NEW B, NEW W, NEW f, Defined(f, B)
    PROVE  /\ Becomes(Sel(B, W, f), B, Values(B, f))
           /\ \A b \in B : Sel(B, W, f)[b] = IF b \in W THEN <<f[b]>> ELSE <<>>
<1>1. f \in [B -> Values(B, f)]
  BY DEF Defined, Values
<1>2. Becomes(Sel(B, W, f), B, Values(B, f))
  <2> DEFINE E == Values(B, f)
  <2> HIDE DEF E
  <2>1. f \in [B -> E]
    BY <1>1 DEF E
  <2> QED
    BY <2>1, SelBecomes DEF E
<1>3. \A b \in B : Sel(B, W, f)[b] = IF b \in W THEN <<f[b]>> ELSE <<>>
  BY DEF Sel
<1> QED
  BY <1>2, <1>3

LEMMA ThinkBlockIs ==
    ASSUME NEW ch, ProperChoice(ch), Thinkable(ch), NEW b, b = ThinkBlock(ch)
    PROVE  /\ b.type = "thinking" /\ b.signature = ch.reasoning_opaque
           /\ b.text = IF ch.reasoning_text = NoText THEN THINKING_TEXT ELSE ch.reasoning_text
           /\ IsClaudeThinking(b) <=> ch.reasoning_text # NoText /\ ch.reasoning_opaque # NoSignature
<1>1. /\ b.type = "thinking" /\ b.signature = ch.reasoning_opaque
      /\ b.text = IF ch.reasoning_text = NoText THEN THINKING_TEXT ELSE ch.reasoning_text
  BY DEF ThinkBlock, Thinking
<1> QED
  BY <1>1 DEF IsClaudeThinking, ProperChoice

LEMMA BesideIs ==
    ASSUME NEW text
    PROVE  /\ Text(text, "plain").type = "text" /\ Text(text, "plain").id = text
           /\ "text" \in Wordy /\ "thinking" \notin Wordy /\ "tool_use" \notin Wordy
  BY DEF Text, Wordy, Attachments

LEMMA ChoiceWords ==
    ASSUME NEW ch, ProperChoice(ch), NEW B, ChoiceContent(ch) \in Seq(B)
    PROVE  Bind(Sel(B, WordIn(B), WordOf(B)), ChoiceContent(ch))
             = IF ch.text = NoText THEN <<>> ELSE <<Part("text", ch.text)>>
<1> DEFINE f == WordOf(B)
           W == WordIn(B)
           g == Sel(B, W, f)
           E == Values(B, f)
           think == ThinkBlock(ch)
           text == Text(ch.text, "plain")
           u == ToolUses(ch.tool_calls)
<1>1. Defined(f, B)
  BY DEF Defined, WordOf
<1>2. text.type = "text" /\ text.id = ch.text
  BY BesideIs
<1>3. Thinkable(ch) => think.type = "thinking"
  BY ThinkBlockIs
<1>4. \A b \in B : b \in W <=> b.type \in Wordy
  BY DEF WordIn
<1>5. \A b \in B : f[b] = IF b.type = "document" THEN Notice ELSE Part(b.type, b.id)
  BY DEF WordOf
<1> HIDE DEF f, W, think, text
<1>6. Becomes(g, B, E) /\ \A b \in B : g[b] = IF b \in W THEN <<f[b]>> ELSE <<>>
  BY <1>1, SelIs
<1> HIDE DEF g, E
<1>7. /\ Thinkable(ch) => think \in B
      /\ ch.text # NoText => text \in B
      /\ u \in Seq(B)
      /\ Bind(g, ChoiceContent(ch)) =
           ((IF Thinkable(ch) THEN g[think] ELSE <<>>)
             \o (IF ch.text = NoText THEN <<>> ELSE g[text])) \o Bind(g, u)
  BY <1>6, ChoiceBinds DEF think, text, ProperChoice
<1>8. (IF Thinkable(ch) THEN g[think] ELSE <<>>) = <<>>
  BY <1>3, <1>4, <1>6, <1>7, BesideIs
<1>9. (IF ch.text = NoText THEN <<>> ELSE g[text])
        = IF ch.text = NoText THEN <<>> ELSE <<Part("text", ch.text)>>
  <2>1. CASE ch.text # NoText
    <3>1. text \in B /\ text \in W
      BY <2>1, <1>2, <1>4, <1>7, BesideIs
    <3>2. f[text] = Part("text", ch.text)
      BY <3>1, <1>2, <1>5
    <3> QED
      BY <2>1, <3>1, <3>2, <1>6
  <2>2. CASE ch.text = NoText
    BY <2>2
  <2> QED
    BY <2>1, <2>2
<1>10. Bind(g, u) = <<>>
  <2>1. \A b \in B : b.type = "tool_use" => g[b] = <<>>
    BY <1>4, <1>6, BesideIs
  <2>2. IsSeq(ch.tool_calls)
    BY DEF ProperChoice
  <2> QED
    BY <2>1, <2>2, <1>6, <1>7, CallsBind
<1> DEFINE r == IF ch.text = NoText THEN <<>> ELSE <<Part("text", ch.text)>>
<1>11. IsSeq(r)
  BY One, None
<1> HIDE DEF r
<1>12. (<<>> \o r) \o <<>> = r
  BY <1>11, NoneBefore, NoneAfter
<1> QED
  BY <1>7, <1>8, <1>9, <1>10, <1>12 DEF g, f, W, r

\* A choice's thinking, when no text and no call gives anything.
LEMMA ChoiceThinks ==
    ASSUME NEW ch, ProperChoice(ch), NEW B, ChoiceContent(ch) \in Seq(B), NEW toClaude,
           NEW W, W \subseteq Thinks(B, toClaude), NEW f, Defined(f, B)
    PROVE  /\ Thinkable(ch) => ThinkBlock(ch) \in B
           /\ Bind(Sel(B, W, f), ChoiceContent(ch))
                = IF Thinkable(ch) /\ ThinkBlock(ch) \in W THEN <<f[ThinkBlock(ch)]>> ELSE <<>>
<1> DEFINE g == Sel(B, W, f)
           E == Values(B, f)
           think == ThinkBlock(ch)
           text == Text(ch.text, "plain")
           u == ToolUses(ch.tool_calls)
<1>2. text.type = "text"
  BY BesideIs
<1>4. \A b \in W : b \in B /\ b.type = "thinking"
  BY DEF Thinks
<1> HIDE DEF think, text
<1>6. Becomes(g, B, E) /\ \A b \in B : g[b] = IF b \in W THEN <<f[b]>> ELSE <<>>
  BY SelIs
<1> HIDE DEF g, E
<1>7. /\ Thinkable(ch) => think \in B
      /\ ch.text # NoText => text \in B
      /\ u \in Seq(B)
      /\ Bind(g, ChoiceContent(ch)) =
           ((IF Thinkable(ch) THEN g[think] ELSE <<>>)
             \o (IF ch.text = NoText THEN <<>> ELSE g[text])) \o Bind(g, u)
  BY <1>6, ChoiceBinds DEF think, text, ProperChoice
<1> DEFINE r == IF Thinkable(ch) /\ think \in W THEN <<f[think]>> ELSE <<>>
<1>8. (IF Thinkable(ch) THEN g[think] ELSE <<>>) = r
  BY <1>6, <1>7
<1>9. (IF ch.text = NoText THEN <<>> ELSE g[text]) = <<>>
  <2>1. CASE ch.text # NoText
    <3>1. text \in B /\ text \notin W
      BY <2>1, <1>2, <1>4, <1>7
    <3> QED
      BY <2>1, <3>1, <1>6
  <2>2. CASE ch.text = NoText
    BY <2>2
  <2> QED
    BY <2>1, <2>2
<1>10. Bind(g, u) = <<>>
  <2>1. \A b \in B : b.type = "tool_use" => g[b] = <<>>
    BY <1>4, <1>6
  <2>2. IsSeq(ch.tool_calls)
    BY DEF ProperChoice
  <2> QED
    BY <2>1, <2>2, <1>6, <1>7, CallsBind
<1>11. IsSeq(r)
  BY One, None
<1> HIDE DEF r
<1>12. (r \o <<>>) \o <<>> = r
  BY <1>11, NoneAfter
<1> QED
  BY <1>7, <1>8, <1>9, <1>10, <1>12 DEF g, think, r

LEMMA ChoiceThoughts ==
    ASSUME NEW ch, ProperChoice(ch), NEW B, ChoiceContent(ch) \in Seq(B), NEW toClaude
    PROVE  Bind(Sel(B, ThoughtIn(B, toClaude), ThoughtOf(B)), ChoiceContent(ch))
             = IF Taken(ch, toClaude) /\ ch.reasoning_text # NoText THEN <<ch.reasoning_text>> ELSE <<>>
<1> DEFINE f == ThoughtOf(B)
           W == ThoughtIn(B, toClaude)
           think == ThinkBlock(ch)
<1>1. Defined(f, B) /\ W \subseteq Thinks(B, toClaude)
  BY DEF Defined, ThoughtOf, ThoughtIn
<1>2. \A b \in B : f[b] = b.text
  BY DEF ThoughtOf
<1>3. \A b \in B : b \in W <=> /\ b.type = "thinking" /\ (toClaude => IsClaudeThinking(b))
                               /\ b.text \notin {NoText, THINKING_TEXT}
  BY DEF ThoughtIn, Thinks
<1>4. Thinkable(ch) =>
        /\ think.type = "thinking"
        /\ think.text = IF ch.reasoning_text = NoText THEN THINKING_TEXT ELSE ch.reasoning_text
        /\ IsClaudeThinking(think) <=> ch.reasoning_text # NoText /\ ch.reasoning_opaque # NoSignature
  BY ThinkBlockIs
<1> HIDE DEF f, W, think
<1>5. /\ Thinkable(ch) => think \in B
      /\ Bind(Sel(B, W, f), ChoiceContent(ch))
           = IF Thinkable(ch) /\ think \in W THEN <<f[think]>> ELSE <<>>
  BY <1>1, ChoiceThinks DEF think
<1>6. CASE Taken(ch, toClaude) /\ ch.reasoning_text # NoText
  <2>1. Thinkable(ch)
    BY <1>6 DEF Thinkable
  <2>2. think \in B /\ think.text = ch.reasoning_text /\ think.text \notin {NoText, THINKING_TEXT}
    BY <2>1, <1>4, <1>5, <1>6 DEF ProperChoice
  <2>3. toClaude => IsClaudeThinking(think)
    BY <2>1, <1>4, <1>6 DEF Taken
  <2>4. think \in W /\ f[think] = ch.reasoning_text
    BY <2>1, <2>2, <2>3, <1>2, <1>3, <1>4
  <2> QED
    BY <2>1, <2>4, <1>5, <1>6 DEF f, W
<1>7. CASE ~(Taken(ch, toClaude) /\ ch.reasoning_text # NoText)
  <2>1. ~(Thinkable(ch) /\ think \in W)
    <3> SUFFICES ASSUME Thinkable(ch), think \in W PROVE FALSE
      OBVIOUS
    <3>1. think \in B /\ think.text \notin {NoText, THINKING_TEXT} /\ (toClaude => IsClaudeThinking(think))
      BY <1>3, <1>5
    <3>2. ch.reasoning_text # NoText
      BY <3>1, <1>4
    <3>3. Taken(ch, toClaude)
      BY <3>1, <1>4 DEF Taken
    <3> QED
      BY <3>2, <3>3, <1>7
  <2> QED
    BY <2>1, <1>5, <1>7 DEF f, W
<1> QED
  BY <1>6, <1>7

LEMMA ChoiceOpaques ==
    ASSUME NEW ch, ProperChoice(ch), NEW B, ChoiceContent(ch) \in Seq(B), NEW toClaude
    PROVE  Bind(Sel(B, SignedIn(B, toClaude), SignatureOf(B)), ChoiceContent(ch))
             = IF Taken(ch, toClaude) /\ ch.reasoning_opaque # NoSignature THEN <<ch.reasoning_opaque>>
                                                                           ELSE <<>>
<1> DEFINE f == SignatureOf(B)
           W == SignedIn(B, toClaude)
           think == ThinkBlock(ch)
<1>1. Defined(f, B) /\ W \subseteq Thinks(B, toClaude)
  BY DEF Defined, SignatureOf, SignedIn
<1>2. \A b \in B : f[b] = b.signature
  BY DEF SignatureOf
<1>3. \A b \in B : b \in W <=> /\ b.type = "thinking" /\ (toClaude => IsClaudeThinking(b))
                               /\ b.signature # NoSignature
  BY DEF SignedIn, Thinks
<1>4. Thinkable(ch) =>
        /\ think.type = "thinking" /\ think.signature = ch.reasoning_opaque
        /\ IsClaudeThinking(think) <=> ch.reasoning_text # NoText /\ ch.reasoning_opaque # NoSignature
  BY ThinkBlockIs
<1> HIDE DEF f, W, think
<1>5. /\ Thinkable(ch) => think \in B
      /\ Bind(Sel(B, W, f), ChoiceContent(ch))
           = IF Thinkable(ch) /\ think \in W THEN <<f[think]>> ELSE <<>>
  BY <1>1, ChoiceThinks DEF think
<1>6. CASE Taken(ch, toClaude) /\ ch.reasoning_opaque # NoSignature
  <2>1. Thinkable(ch)
    BY <1>6 DEF Thinkable
  <2>2. think \in B /\ think.signature = ch.reasoning_opaque
    BY <2>1, <1>4, <1>5
  <2>3. toClaude => IsClaudeThinking(think)
    BY <2>1, <1>4, <1>6 DEF Taken
  <2>4. think \in W /\ f[think] = ch.reasoning_opaque
    BY <2>1, <2>2, <2>3, <1>2, <1>3, <1>4, <1>6
  <2> QED
    BY <2>1, <2>4, <1>5, <1>6 DEF f, W
<1>7. CASE ~(Taken(ch, toClaude) /\ ch.reasoning_opaque # NoSignature)
  <2>1. ~(Thinkable(ch) /\ think \in W)
    <3> SUFFICES ASSUME Thinkable(ch), think \in W PROVE FALSE
      OBVIOUS
    <3>1. think \in B /\ think.signature # NoSignature /\ (toClaude => IsClaudeThinking(think))
      BY <1>3, <1>5
    <3>2. ch.reasoning_opaque # NoSignature
      BY <3>1, <1>4
    <3>3. Taken(ch, toClaude)
      BY <3>1, <1>4 DEF Taken
    <3> QED
      BY <3>2, <3>3, <1>7
  <2> QED
    BY <2>1, <1>5, <1>7 DEF f, W
<1> QED
  BY <1>6, <1>7

LEMMA ChoiceCalls ==
    ASSUME NEW ch, ProperChoice(ch), NEW B, ChoiceContent(ch) \in Seq(B)
    PROVE  Bind(Sel(B, CallIn(B), CallOf(B)), ChoiceContent(ch)) = ch.tool_calls
<1> DEFINE f == CallOf(B)
           W == CallIn(B)
           g == Sel(B, W, f)
           E == Values(B, f)
           think == ThinkBlock(ch)
           text == Text(ch.text, "plain")
           u == ToolUses(ch.tool_calls)
<1>1. Defined(f, B)
  BY DEF Defined, CallOf
<1>2. text.type = "text"
  BY BesideIs
<1>3. Thinkable(ch) => think.type = "thinking"
  BY ThinkBlockIs
<1>4. \A b \in B : b \in W <=> b.type = "tool_use"
  BY DEF CallIn
<1>5. \A b \in B : f[b] = b.call
  BY DEF CallOf
<1> HIDE DEF f, W, think, text
<1>6. Becomes(g, B, E) /\ \A b \in B : g[b] = IF b \in W THEN <<f[b]>> ELSE <<>>
  BY <1>1, SelIs
<1> HIDE DEF g, E
<1>7. /\ Thinkable(ch) => think \in B
      /\ ch.text # NoText => text \in B
      /\ u \in Seq(B)
      /\ Bind(g, ChoiceContent(ch)) =
           ((IF Thinkable(ch) THEN g[think] ELSE <<>>)
             \o (IF ch.text = NoText THEN <<>> ELSE g[text])) \o Bind(g, u)
  BY <1>6, ChoiceBinds DEF think, text, ProperChoice
<1>8. (IF Thinkable(ch) THEN g[think] ELSE <<>>) = <<>>
  BY <1>3, <1>4, <1>6, <1>7
<1>9. (IF ch.text = NoText THEN <<>> ELSE g[text]) = <<>>
  BY <1>2, <1>4, <1>6, <1>7
<1>10. Bind(g, u) = ch.tool_calls /\ IsSeq(ch.tool_calls)
  <2>1. \A b \in B : b.type = "tool_use" => g[b] = <<b.call>>
    BY <1>4, <1>5, <1>6
  <2>2. IsSeq(ch.tool_calls)
    BY DEF ProperChoice
  <2> QED
    BY <2>1, <2>2, <1>6, <1>7, CallsBind
<1>11. (<<>> \o <<>>) \o ch.tool_calls = ch.tool_calls
  BY <1>10, NoneBefore, None
<1> QED
  BY <1>7, <1>8, <1>9, <1>10, <1>11 DEF g, f, W

LEMMA ContentIsSeq ==
    ASSUME NEW ch, ProperChoice(ch) PROVE IsSeq(ChoiceContent(ch))
<1> DEFINE a == getAnthropicThinkBlocks(ch)
           b == TextBlock(ch.text)
           u == ToolUses(ch.tool_calls)
<1>1. ChoiceContent(ch) = (a \o b) \o u
  BY DEF ChoiceContent, TextBlock, ToolUses
<1>2. IsSeq(a) /\ IsSeq(b) /\ IsSeq(u)
  <2>1. a = <<>> \/ \E x : a = <<x>>
    BY DEF getAnthropicThinkBlocks
  <2>2. b = <<>> \/ \E x : b = <<x>>
    BY DEF TextBlock
  <2>3. IsSeq(u)
    BY ToolUsesIs DEF ProperChoice
  <2> QED
    BY <2>1, <2>2, <2>3, One, None
<1> HIDE DEF a, b, u
<1>3. IsSeq(a \o b)
  BY <1>2, Concat
<1> QED
  BY <1>1, <1>2, <1>3, Concat

ChoicesOf(choices) == [x \in ToSet(choices) |-> ChoiceContent(x)]
Proper(C) == \A ch \in C : ProperChoice(ch)

LEMMA GatheredSame ==
    ASSUME NEW C, Proper(C), NEW s \in Seq(C), NEW B, NEW cc, Becomes(cc, C, B),
           \A ch \in C : cc[ch] = ChoiceContent(ch),
           NEW W, NEW f, Defined(f, B), NEW k, Defined(k, C),
           \A ch \in C : Bind(Sel(B, W, f), ChoiceContent(ch)) = k[ch]
    PROVE  Bind(Sel(B, W, f), Bind(cc, s)) = Bind(k, s)
<1> DEFINE g == Sel(B, W, f)
           E == Values(B, f)
<1>1. Becomes(g, B, E)
  BY SelIs
<1> HIDE DEF g, E
<1>2. \A ch \in C : k[ch] = Bind(g, cc[ch])
  BY DEF g
<1>3. \A ch \in C : cc[ch] \in Seq(B)
  BY DEF Becomes
<1>4. \A ch \in C : k[ch] \in Seq(E)
  BY <1>1, <1>2, <1>3, BindIn
<1>5. Becomes(k, C, E) /\ Composed(k, g, cc, C)
  BY <1>2, <1>4 DEF Becomes, Composed, Defined
<1>6. Bind(g, Bind(cc, s)) = Bind(k, s)
  BY <1>1, <1>5, BindBind
<1> QED
  BY <1>6 DEF g

\* The choices of an answer, mixed into one list of blocks and taken apart by kind, come back
\* as one message with their texts, thoughts, first signature and calls, in their order.
LEMMA ChatReturn ==
    ASSUME NEW m, IsSeq(m.said), \A i \in 1 .. Len(m.said) : ProperChoice(m.said[i]),
           m.content = FlattenSeq([i \in DOMAIN m.said |-> ChoiceContent(m.said[i])]), NEW toClaude
    PROVE  Returned("chat", toClaude, m)
<1> DEFINE s == m.said
           C == ToSet(s)
           cc == ChoicesOf(s)
           c == m.content
<1>1. IsSeq(s) /\ s \in Seq(C) /\ DOMAIN s = 1 .. Len(s) /\ \A i \in 1 .. Len(s) : s[i] \in C
  BY SeqFacts DEF IsSeq
<1>2. \A x \in C : ProperChoice(x)
  BY <1>1 DEF ToSet
<1>3. cc = [x \in C |-> cc[x]] /\ \A x \in C : cc[x] = ChoiceContent(x)
  BY DEF ChoicesOf
<1>4. c = Bind(cc, s)
  <2>1. [i \in DOMAIN s |-> ChoiceContent(s[i])] = [i \in DOMAIN s |-> cc[s[i]]]
    BY <1>1, <1>3
  <2> QED
    BY <2>1 DEF Bind
<1> HIDE DEF cc, C
<1>5. \A x \in C : IsSeq(cc[x])
  BY <1>2, <1>3, ContentIsSeq
<1>6. PICK B : Becomes(cc, C, B)
  BY <1>3, <1>5, Ranged DEF Ranges
<1>7. c \in Seq(B)
  BY <1>1, <1>4, <1>6, BindIn
<1>8. \A x \in C : ChoiceContent(x) \in Seq(B)
  BY <1>3, <1>6 DEF Becomes
<1>9. Proper(C)
  BY <1>2 DEF Proper
<1> DEFINE words == Bind(Sel(B, WordIn(B), WordOf(B)), c)
           thoughts == Bind(Sel(B, ThoughtIn(B, toClaude), ThoughtOf(B)), c)
           opaques == Bind(Sel(B, SignedIn(B, toClaude), SignatureOf(B)), c)
           calls == Bind(Sel(B, CallIn(B), CallOf(B)), c)
<1>10. words = Bind(SpokenIn(C), s)
  <2> DEFINE k == SpokenIn(C)
             f == WordOf(B)
             W == WordIn(B)
  <2>1. Defined(k, C) /\ Defined(f, B)
    BY DEF Defined, SpokenIn, WordOf
  <2>2. \A ch \in C : k[ch] = IF ch.text = NoText THEN <<>> ELSE <<Part("text", ch.text)>>
    BY DEF SpokenIn
  <2>3. \A ch \in C : Bind(Sel(B, W, f), ChoiceContent(ch)) = IF ch.text = NoText THEN <<>> ELSE <<Part("text", ch.text)>>
    BY <1>2, <1>8, ChoiceWords
  <2> HIDE DEF k, f, W
  <2>4. \A ch \in C : Bind(Sel(B, W, f), ChoiceContent(ch)) = k[ch]
    BY <2>2, <2>3
  <2>5. Bind(Sel(B, W, f), Bind(cc, s)) = Bind(k, s)
    BY <1>1, <1>3, <1>6, <1>9, <2>1, <2>4, GatheredSame
  <2> QED
    BY <2>5, <1>4 DEF k, f, W
<1>11. thoughts = Bind(ReasonedIn(C, toClaude), s)
  <2> DEFINE k == ReasonedIn(C, toClaude)
             f == ThoughtOf(B)
             W == ThoughtIn(B, toClaude)
  <2>1. Defined(k, C) /\ Defined(f, B)
    BY DEF Defined, ReasonedIn, ThoughtOf
  <2>2. \A ch \in C : k[ch] = IF Taken(ch, toClaude) /\ ch.reasoning_text # NoText THEN <<ch.reasoning_text>> ELSE <<>>
    BY DEF ReasonedIn
  <2>3. \A ch \in C : Bind(Sel(B, W, f), ChoiceContent(ch))
          = IF Taken(ch, toClaude) /\ ch.reasoning_text # NoText THEN <<ch.reasoning_text>> ELSE <<>>
    BY <1>2, <1>8, ChoiceThoughts
  <2> HIDE DEF k, f, W
  <2>4. \A ch \in C : Bind(Sel(B, W, f), ChoiceContent(ch)) = k[ch]
    BY <2>2, <2>3
  <2>5. Bind(Sel(B, W, f), Bind(cc, s)) = Bind(k, s)
    BY <1>1, <1>3, <1>6, <1>9, <2>1, <2>4, GatheredSame
  <2> QED
    BY <2>5, <1>4 DEF k, f, W
<1>12. opaques = Bind(OpaqueIn(C, toClaude), s)
  <2> DEFINE k == OpaqueIn(C, toClaude)
             f == SignatureOf(B)
             W == SignedIn(B, toClaude)
  <2>1. Defined(k, C) /\ Defined(f, B)
    BY DEF Defined, OpaqueIn, SignatureOf
  <2>2. \A ch \in C : k[ch] = IF Taken(ch, toClaude) /\ ch.reasoning_opaque # NoSignature
                                THEN <<ch.reasoning_opaque>> ELSE <<>>
    BY DEF OpaqueIn
  <2>3. \A ch \in C : Bind(Sel(B, W, f), ChoiceContent(ch))
          = IF Taken(ch, toClaude) /\ ch.reasoning_opaque # NoSignature THEN <<ch.reasoning_opaque>> ELSE <<>>
    BY <1>2, <1>8, ChoiceOpaques
  <2> HIDE DEF k, f, W
  <2>4. \A ch \in C : Bind(Sel(B, W, f), ChoiceContent(ch)) = k[ch]
    BY <2>2, <2>3
  <2>5. Bind(Sel(B, W, f), Bind(cc, s)) = Bind(k, s)
    BY <1>1, <1>3, <1>6, <1>9, <2>1, <2>4, GatheredSame
  <2> QED
    BY <2>5, <1>4 DEF k, f, W
<1>13. calls = Bind(CalledIn(C), s)
  <2> DEFINE k == CalledIn(C)
             f == CallOf(B)
             W == CallIn(B)
  <2>1. Defined(k, C) /\ Defined(f, B)
    BY DEF Defined, CalledIn, CallOf
  <2>2. \A ch \in C : k[ch] = ch.tool_calls
    BY DEF CalledIn
  <2>3. \A ch \in C : Bind(Sel(B, W, f), ChoiceContent(ch)) = ch.tool_calls
    BY <1>2, <1>8, ChoiceCalls
  <2> HIDE DEF k, f, W
  <2>4. \A ch \in C : Bind(Sel(B, W, f), ChoiceContent(ch)) = k[ch]
    BY <2>2, <2>3
  <2>5. Bind(Sel(B, W, f), Bind(cc, s)) = Bind(k, s)
    BY <1>1, <1>3, <1>6, <1>9, <2>1, <2>4, GatheredSame
  <2> QED
    BY <2>5, <1>4 DEF k, f, W
<1>14. handleAssistantMessage(m, toClaude) = <<Gathered(words, thoughts, opaques, calls)>>
  BY <1>7, AssistantGathers
<1> HIDE DEF words, thoughts, opaques, calls
<1>15. FromChoices(s, toClaude) = Gathered(words, thoughts, opaques, calls)
  BY <1>1, <1>10, <1>11, <1>12, <1>13, FromGathers
<1> DEFINE e == Gathered(words, thoughts, opaques, calls)
<1>16. e.role = "assistant"
  BY DEF Gathered, ChatMessage
<1> HIDE DEF e
<1>17. Share("chat", e) = <<e>>
  BY <1>16 DEF Share, ElementPart
<1>18. Sharing("chat", <<e>>) /\ AssistantPart("chat", <<e>>) = <<e>>
  BY <1>17, One, PartOfOne
<1>19. PieceOf("chat", toClaude, m) = <<e>>
  BY <1>14 DEF PieceOf, e
<1>20. SaidIn("chat", toClaude, m) = <<e>>
  BY <1>15 DEF SaidIn, e
<1> QED
  BY <1>18, <1>19, <1>20 DEF Returned

-----------------------------------------------------------------------------
(* The Responses API: the items of an answer come back                     *)

\* Through the Responses API: the items of an answer, and what they are made of again.
WordsItem(id) == MessageItem("assistant", <<Part("text", id)>>)

OwnBack(x) ==
  \/ \E call : x = FunctionCall(call)
  \/ \E of : x = Compaction(of)
  \/ \E of, text : text \notin {NoText, THINKING_TEXT} /\ x = Reasoning(of, <<text>>)
  \/ \E of : x = Reasoning(of, <<>>)

Legal(x) == OwnBack(x) \/ \E id : x = WordsItem(id)

\* The one block an item is made of, when it is restated.
TextOf(item) == IF item.summary = <<>> THEN THINKING_TEXT ELSE Head(item.summary)

BlockOf(item) ==
  CASE item.type = "reasoning"     -> Thinking(TextOf(item), [by |-> "responses", of |-> item.of])
    [] item.type = "compaction"    -> Thinking(THINKING_TEXT, [by |-> "compaction", of |-> item.of])
    [] item.type = "function_call" -> ToolUse(item.call)
    [] item.type = "message"       -> Text(Head(item.content).id, "plain")

Mapped(s) == [i \in DOMAIN s |-> BlockOf(s[i])]

LEMMA MappedIs ==
    ASSUME NEW s, IsSeq(s)
    PROVE  /\ IsSeq(Mapped(s)) /\ Len(Mapped(s)) = Len(s)
           /\ \A i \in 1 .. Len(s) : Mapped(s)[i] = BlockOf(s[i])
<1> DEFINE q == Mapped(s)
<1>1. DOMAIN s = 1 .. Len(s) /\ Len(s) \in Nat
  BY SeqFacts
<1>2. q = [i \in 1 .. Len(s) |-> BlockOf(s[i])]
  BY <1>1 DEF Mapped
<1> HIDE DEF q
<1>3. IsSeq(q) /\ Len(q) = Len(s) /\ \A i \in 1 .. Len(s) : q[i] = BlockOf(s[i])
  BY <1>1, <1>2, FunIsSeq
<1> QED
  BY <1>3 DEF q

LEMMA OwnComesBack ==
    ASSUME NEW x, OwnBack(x)
    PROVE  OwnItem(BlockOf(x)) = <<x>> /\ Share("responses", x) = <<x>>
<1>1. ASSUME NEW call, x = FunctionCall(call) PROVE OwnItem(BlockOf(x)) = <<x>> /\ Share("responses", x) = <<x>>
  <2>1. x.type = "function_call" /\ x.role = "assistant" /\ x.call = call
    BY <1>1, ItemIs DEF FunctionCall
  <2>2. BlockOf(x) = ToolUse(call)
    BY <2>1 DEF BlockOf
  <2>3. ToolUse(call).type = "tool_use" /\ ToolUse(call).call = call
    BY DEF ToolUse
  <2>4. OwnItem(ToolUse(call)) = <<x>>
    BY <1>1, <2>3, OwnItemIs
  <2> QED
    BY <2>1, <2>2, <2>4 DEF Share, ElementPart
<1>2. ASSUME NEW of, x = Compaction(of) PROVE OwnItem(BlockOf(x)) = <<x>> /\ Share("responses", x) = <<x>>
  <2>1. x.type = "compaction" /\ x.role = "assistant" /\ x.of = of
    BY <1>2, ItemIs DEF Compaction
  <2> DEFINE b == Thinking(THINKING_TEXT, [by |-> "compaction", of |-> of])
  <2>2. BlockOf(x) = b
    BY <2>1 DEF BlockOf
  <2>3. b.type = "thinking" /\ b.signature.by = "compaction" /\ b.signature.of = of
    BY DEF Thinking
  <2> HIDE DEF b
  <2>4. OwnItem(b) = <<x>>
    BY <1>2, <2>3, OwnItemIs
  <2> QED
    BY <2>1, <2>2, <2>4 DEF Share, ElementPart
<1>3. ASSUME NEW of, NEW text, text \notin {NoText, THINKING_TEXT}, x = Reasoning(of, <<text>>)
      PROVE  OwnItem(BlockOf(x)) = <<x>> /\ Share("responses", x) = <<x>>
  <2>1. x.type = "reasoning" /\ x.role = "assistant" /\ x.of = of /\ x.summary = <<text>>
    BY <1>3, ItemIs DEF Reasoning
  <2> DEFINE b == Thinking(text, [by |-> "responses", of |-> of])
  <2>2a. TextOf(x) = text
    BY <2>1, One DEF TextOf
  <2>2. BlockOf(x) = b
    BY <2>1, <2>2a DEF BlockOf
  <2>3. b.type = "thinking" /\ b.signature.by = "responses" /\ b.signature.of = of /\ b.text = text
    BY DEF Thinking
  <2> HIDE DEF b
  <2>4. createReasoningContent(b) = x
    BY <1>3, <2>3 DEF createReasoningContent
  <2>5. OwnItem(b) = <<x>>
    BY <2>3, <2>4, OwnItemIs
  <2> QED
    BY <2>1, <2>2, <2>5 DEF Share, ElementPart
<1>4. ASSUME NEW of, x = Reasoning(of, <<>>)
      PROVE  OwnItem(BlockOf(x)) = <<x>> /\ Share("responses", x) = <<x>>
  <2>1. x.type = "reasoning" /\ x.role = "assistant" /\ x.of = of /\ x.summary = <<>>
    BY <1>4, ItemIs DEF Reasoning
  <2> DEFINE b == Thinking(THINKING_TEXT, [by |-> "responses", of |-> of])
  <2>2a. TextOf(x) = THINKING_TEXT
    BY <2>1 DEF TextOf
  <2>2. BlockOf(x) = b
    BY <2>1, <2>2a DEF BlockOf
  <2>3. b.type = "thinking" /\ b.signature.by = "responses" /\ b.signature.of = of /\ b.text = THINKING_TEXT
    BY DEF Thinking
  <2> HIDE DEF b
  <2>4. createReasoningContent(b) = x
    BY <1>4, <2>3 DEF createReasoningContent
  <2>5. OwnItem(b) = <<x>>
    BY <2>3, <2>4, OwnItemIs
  <2> QED
    BY <2>1, <2>2, <2>5 DEF Share, ElementPart
<1> QED
  BY <1>1, <1>2, <1>3, <1>4 DEF OwnBack

LEMMA WordsComeBack ==
    ASSUME NEW x, NEW id, x = WordsItem(id)
    PROVE  /\ OwnItem(BlockOf(x)) = <<>> /\ MessagePart(BlockOf(x)) = <<Part("text", id)>>
           /\ x = MessageItem("assistant", <<Part("text", id)>>)
<1>1. x.type = "message" /\ x.content = <<Part("text", id)>>
  BY ItemIs DEF WordsItem, MessageItem
<1>2. Head(x.content).id = id
  BY <1>1 DEF Part
<1>3. BlockOf(x) = Text(id, "plain")
  BY <1>1, <1>2 DEF BlockOf
<1>4. Text(id, "plain").type = "text" /\ Text(id, "plain").id = id
  BY DEF Text
<1>5. OwnItem(Text(id, "plain")) = <<>> /\ MessagePart(Text(id, "plain")) = <<InputPart(Text(id, "plain"))>>
  BY <1>4, OwnItemIs
<1>6. InputPart(Text(id, "plain")) = Part("text", id)
  BY <1>4 DEF InputPart, Part
<1> QED
  BY <1>3, <1>5, <1>6 DEF WordsItem

\* The message made of pending parts, in parts again.
Cut(pending) == [j \in 1 .. Len(pending) |-> MessageItem("assistant", <<pending[j]>>)]

LEMMA CutIs ==
    ASSUME NEW p, IsSeq(p)
    PROVE  IsSeq(Cut(p)) /\ Len(Cut(p)) = Len(p)
           /\ \A j \in 1 .. Len(p) : Cut(p)[j] = MessageItem("assistant", <<p[j]>>)
<1> DEFINE u == Cut(p)
<1>1. Len(p) \in Nat /\ u = [j \in 1 .. Len(p) |-> u[j]]
      /\ \A j \in 1 .. Len(p) : u[j] = MessageItem("assistant", <<p[j]>>)
  BY SeqFacts DEF Cut
<1> HIDE DEF u
<1>2. IsSeq(u) /\ Len(u) = Len(p)
  BY <1>1, FunIsSeq
<1> QED
  BY <1>1, <1>2 DEF u

LEMMA CutNone == Cut(<<>>) = <<>>
<1>1. IsSeq(Cut(<<>>)) /\ Len(Cut(<<>>)) = 0
  BY None, CutIs
<1> QED
  BY <1>1, SeqFacts

LEMMA CutMore ==
    ASSUME NEW p, IsSeq(p), NEW x PROVE Cut(p \o <<x>>) = Cut(p) \o <<MessageItem("assistant", <<x>>)>>
<1> DEFINE y == MessageItem("assistant", <<x>>)
           n == Len(p)
           q == p \o <<x>>
           u == Cut(p)
           v == Cut(q)
           w == u \o <<y>>
<1>1. IsSeq(q) /\ Len(q) = n + 1 /\ q[n + 1] = x /\ \A i \in 1 .. n : q[i] = p[i]
  BY AppendOne
<1>2. n \in Nat
  BY SeqFacts
<1> HIDE DEF q, n
<1>3. /\ IsSeq(u) /\ Len(u) = n /\ \A j \in 1 .. n : u[j] = MessageItem("assistant", <<p[j]>>)
      /\ IsSeq(v) /\ Len(v) = Len(q) /\ \A j \in 1 .. Len(q) : v[j] = MessageItem("assistant", <<q[j]>>)
  BY <1>1, CutIs DEF n
<1> HIDE DEF u, v
<1>4. IsSeq(w) /\ Len(w) = n + 1 /\ w[n + 1] = y /\ \A i \in 1 .. n : w[i] = u[i]
  <2> HIDE DEF y
  <2> QED
    BY <1>3, AppendOne
<1> HIDE DEF w
<1>5. \A i \in 1 .. n + 1 : v[i] = w[i]
  <2> SUFFICES ASSUME NEW i \in 1 .. n + 1 PROVE v[i] = w[i]
    OBVIOUS
  <2>1. v[i] = MessageItem("assistant", <<q[i]>>)
    BY <1>1, <1>3
  <2>2. CASE i = n + 1
    BY <2>1, <2>2, <1>1, <1>4
  <2>3. CASE i # n + 1
    <3>1. i \in 1 .. n
      BY <2>3, <1>2
    <3> QED
      BY <3>1, <2>1, <1>1, <1>3, <1>4
  <2> QED
    BY <2>2, <2>3
<1>6. v = w
  BY <1>1, <1>3, <1>4, <1>5, SameSeq
<1> QED
  BY <1>6 DEF v, w, u, q, y

LEMMA FlushBack ==
    ASSUME NEW p, IsSeq(p), NEW s, s = flushPendingContent("assistant", p)
    PROVE  Sharing("responses", s) /\ AssistantPart("responses", s) = Cut(p) /\ IsSeq(s)
<1>1. CASE p = <<>>
  <2>1. s = <<>>
    BY <1>1 DEF flushPendingContent
  <2> QED
    BY <1>1, <2>1, PartOfNone, CutNone, None
<1>2. CASE p # <<>>
  <2> DEFINE x == MessageItem("assistant", p)
  <2>1. s = <<x>>
    BY <1>2 DEF flushPendingContent
  <2>2. x.type = "message" /\ x.role = "assistant" /\ x.content = p
    BY ItemIs DEF MessageItem
  <2> HIDE DEF x
  <2>3. DOMAIN p = 1 .. Len(p)
    BY SeqFacts
  <2>4. Share("responses", x) = Cut(p)
    BY <2>2, <2>3 DEF Share, ElementPart, Cut
  <2>5. IsSeq(Cut(p))
    BY CutIs
  <2> QED
    BY <2>1, <2>4, <2>5, One, PartOfOne
<1> QED
  BY <1>1, <1>2

\* After k blocks, the first k items are back.
Back(acc, said, k) ==
  /\ Sharing("responses", acc.items) /\ IsSeq(acc.pending)
  /\ AssistantPart("responses", acc.items) \o Cut(acc.pending) = SubSeq(said, 1, k)

\* One more block sent back is one more item back, whether it stands by itself or waits as a
\* part of a message.
LEMMA BackMore ==
    ASSUME NEW said, IsSeq(said), NEW k \in Nat, k + 1 <= Len(said), Legal(said[k + 1]),
           NEW acc, Back(acc, said, k), NEW b, b = BlockOf(said[k + 1]),
           NEW new, new = Went("assistant", acc.items, acc.pending, b)
    PROVE  Back(new, said, k + 1)
<1> DEFINE x == said[k + 1]
           a == AssistantPart("responses", acc.items)
           p == acc.pending
           i == acc.items
           r == SubSeq(said, 1, k)
<1>1. SubSeq(said, 1, k + 1) = r \o <<x>>
  <2>1. said \in Seq(ToSet(said))
    BY DEF IsSeq
  <2> DEFINE S == ToSet(said)
  <2> HIDE DEF S
  <2>2. \A s \in Seq(S) : k + 1 <= Len(s) => SubSeq(s, 1, k + 1) = SubSeq(s, 1, k) \o <<s[k + 1]>>
    OBVIOUS
  <2> QED
    BY <2>1, <2>2 DEF S
<1>2. Sharing("responses", i) /\ IsSeq(p) /\ IsSeq(i) /\ a \o Cut(p) = r
  BY DEF Back, Sharing
<1>3. IsSeq(a) /\ IsSeq(Cut(p))
  BY <1>2, PartIsSeq, CutIs
<1> DEFINE fl == flushPendingContent("assistant", p)
<1>4. Sharing("responses", fl) /\ AssistantPart("responses", fl) = Cut(p) /\ IsSeq(fl)
  BY <1>2, FlushBack
<1> HIDE DEF x, a, p, i, r, fl
<1>5. CASE OwnBack(x)
  <2>1. OwnItem(b) = <<x>> /\ Share("responses", x) = <<x>>
    BY <1>5, OwnComesBack DEF x
  <2>2. <<x>> # <<>> /\ IsSeq(<<x>>)
    BY One
  <2>3. new = [items |-> (i \o fl) \o <<x>>, pending |-> <<>>]
    BY <2>1, <2>2 DEF Went, i, p, fl
  <2>4. Sharing("responses", <<x>>) /\ AssistantPart("responses", <<x>>) = <<x>>
    BY <2>1, <2>2, PartOfOne
  <2>5. /\ Sharing("responses", i \o fl)
        /\ AssistantPart("responses", i \o fl) = r
    <3>1. Sharing("responses", i) /\ Sharing("responses", fl)
      BY <1>2, <1>4
    <3>2. /\ Sharing("responses", i \o fl)
          /\ AssistantPart("responses", i \o fl)
               = AssistantPart("responses", i) \o AssistantPart("responses", fl)
      BY ONLY <3>1, PartOfTwo
    <3>3. a = AssistantPart("responses", i)
      BY DEF a, i
    <3> QED
      BY <3>2, <3>3, <1>2, <1>4
  <2> DEFINE j == i \o fl
  <2> HIDE DEF j
  <2>6. Sharing("responses", j) /\ AssistantPart("responses", j) = r
    BY <2>5 DEF j
  <2>7. Sharing("responses", j \o <<x>>) /\ AssistantPart("responses", j \o <<x>>) = r \o <<x>>
    <3> DEFINE xs == <<x>>
    <3>1. Sharing("responses", j) /\ Sharing("responses", xs)
      BY <2>4, <2>6
    <3>2. AssistantPart("responses", j) = r /\ AssistantPart("responses", xs) = xs
      BY <2>4, <2>6
    <3> HIDE DEF xs
    <3>3. /\ Sharing("responses", j \o xs)
          /\ AssistantPart("responses", j \o xs)
               = AssistantPart("responses", j) \o AssistantPart("responses", xs)
      BY ONLY <3>1, PartOfTwo
    <3>4. Sharing("responses", j \o xs) /\ AssistantPart("responses", j \o xs) = r \o xs
      BY ONLY <3>2, <3>3
    <3> QED
      BY <3>4 DEF xs
  <2>8. new.items = j \o <<x>> /\ new.pending = <<>>
    BY <2>3 DEF j
  <2>9. IsSeq(r \o <<x>>)
    BY <2>7, PartIsSeq
  <2>10. (r \o <<x>>) \o <<>> = r \o <<x>>
    BY <2>9, NoneAfter
  <2> QED
    BY <1>1, <2>7, <2>8, <2>10, CutNone, None DEF Back
<1>6. ASSUME NEW id, x = WordsItem(id) PROVE Back(new, said, k + 1)
  <2> DEFINE y == Part("text", id)
  <2>1. OwnItem(b) = <<>> /\ MessagePart(b) = <<y>> /\ x = MessageItem("assistant", <<y>>)
    BY <1>6, WordsComeBack DEF x
  <2> HIDE DEF y
  <2>2. new.items = i /\ new.pending = p \o <<y>>
    BY <2>1 DEF Went, i, p
  <2>3. Cut(p \o <<y>>) = Cut(p) \o <<x>>
    BY <2>1, <1>2, CutMore
  <2>4. IsSeq(p \o <<y>>) /\ IsSeq(<<x>>)
    BY <1>2, AppendOne, One
  <2>5. (a \o Cut(p)) \o <<x>> = a \o (Cut(p) \o <<x>>)
    <3> DEFINE cp == Cut(p)
               xs == <<x>>
    <3>1. IsSeq(a) /\ IsSeq(cp) /\ IsSeq(xs)
      BY <1>3, <2>4
    <3> HIDE DEF cp, xs
    <3>2. (a \o cp) \o xs = a \o (cp \o xs)
      BY ONLY <3>1, JoinAssociates
    <3> QED
      BY <3>2 DEF cp, xs
  <2>6. a = AssistantPart("responses", i)
    BY DEF a, i
  <2> QED
    BY <1>1, <1>2, <2>2, <2>3, <2>4, <2>5, <2>6 DEF Back
<1> QED
  BY <1>5, <1>6 DEF Legal, x

\* The items of an answer, of any number and order, come back as they were.
LEMMA ResponsesReturn ==
    ASSUME NEW m, m.role = "assistant", NEW s, IsSeq(s), \A i \in 1 .. Len(s) : Legal(s[i]),
           m.content = Mapped(s), NEW toClaude, SaidIn("responses", toClaude, m) = s
    PROVE  Returned("responses", toClaude, m)
<1> DEFINE c == m.content
           n == Len(s)
<1>1. IsSeq(c) /\ Len(c) = n /\ n \in Nat /\ \A i \in 1 .. n : c[i] = BlockOf(s[i])
  BY MappedIs, SeqFacts
<1>2. PICK f : /\ Walk(f, m.role, c)
               /\ translateMessage(m) = f[Len(c)].items \o flushPendingContent(m.role, f[Len(c)].pending)
  <2>1. \E f : /\ Walk(f, m.role, c)
               /\ translateMessage(m) = f[Len(c)].items \o flushPendingContent(m.role, f[Len(c)].pending)
    BY <1>1, Walked
  <2> QED
    BY <2>1
<1> DEFINE S == {k \in Nat : k <= n => Back(f[k], s, k)}
<1>3. 0 \in S
  <2>1. f[0] = [items |-> <<>>, pending |-> <<>>]
    BY <1>2 DEF Walk
  <2>2. f[0].items = <<>> /\ f[0].pending = <<>>
    BY <2>1
  <2>3. SubSeq(s, 1, 0) = <<>>
    <3>1. s \in Seq(ToSet(s))
      BY DEF IsSeq
    <3> DEFINE T == ToSet(s)
    <3> HIDE DEF T
    <3>2. \A t \in Seq(T) : SubSeq(t, 1, 0) = <<>>
      OBVIOUS
    <3> QED
      BY <3>1, <3>2 DEF T
  <2>4. <<>> \o <<>> = <<>>
    BY None, NoneAfter
  <2> QED
    BY <2>2, <2>3, <2>4, PartOfNone, CutNone, None DEF Back
<1>4. ASSUME NEW k \in Nat, k \in S PROVE k + 1 \in S
  <2> SUFFICES ASSUME k + 1 <= n PROVE Back(f[k + 1], s, k + 1)
    OBVIOUS
  <2>1. Back(f[k], s, k)
    BY <1>4, <1>1
  <2>2. k + 1 \in 1 .. n
    BY <1>1
  <2>3. f[k + 1] = Went("assistant", f[k].items, f[k].pending, c[k + 1])
    <3>1. k + 1 \in 1 .. Len(c) /\ (k + 1) - 1 = k
      BY <1>1, <2>2
    <3> QED
      BY <3>1, <1>2 DEF Walk
  <2>4. c[k + 1] = BlockOf(s[k + 1]) /\ Legal(s[k + 1])
    BY <1>1, <2>2
  <2> QED
    BY <2>1, <2>2, <2>3, <2>4, BackMore
<1>5. \A k \in Nat : k \in S
  <2> HIDE DEF S
  <2> QED
    BY <1>3, <1>4, Induction
<1>6. Back(f[n], s, n)
  BY <1>1, <1>5
<1> DEFINE acc == f[n]
           fl == flushPendingContent("assistant", acc.pending)
<1>7. Sharing("responses", acc.items) /\ IsSeq(acc.pending)
      /\ AssistantPart("responses", acc.items) \o Cut(acc.pending) = SubSeq(s, 1, n)
  BY <1>6 DEF Back
<1>8. Sharing("responses", fl) /\ AssistantPart("responses", fl) = Cut(acc.pending)
  BY <1>7, FlushBack
<1>9. translateMessage(m) = acc.items \o fl
  BY <1>1, <1>2
<1> HIDE DEF acc, fl
<1>10. /\ Sharing("responses", acc.items \o fl)
       /\ AssistantPart("responses", acc.items \o fl) = SubSeq(s, 1, n)
  BY <1>7, <1>8, PartOfTwo
<1>11. SubSeq(s, 1, n) = s
  <2>1. s \in Seq(ToSet(s))
    BY DEF IsSeq
  <2> DEFINE T == ToSet(s)
  <2> HIDE DEF T
  <2>2. \A t \in Seq(T) : SubSeq(t, 1, Len(t)) = t
    OBVIOUS
  <2> QED
    BY <2>1, <2>2 DEF T
<1>12. SaidIn("responses", toClaude, m) = s
  BY DEF SaidIn
<1>13. PieceOf("responses", toClaude, m) = acc.items \o fl
  BY <1>9 DEF PieceOf
<1> QED
  BY <1>10, <1>11, <1>12, <1>13 DEF Returned

-----------------------------------------------------------------------------
(* The cut at the latest compaction                                        *)

\* A cut at the latest compaction cuts what the assistant said at the same place.
Latest(s, n) ==
  /\ n \in 1 .. Len(s) /\ s[n].type = "compaction"
  /\ \A i \in 1 .. Len(s) : s[i].type = "compaction" => i <= n

Uncompacted(s) == \A i \in 1 .. Len(s) : s[i].type # "compaction"

LEMMA CompactLatest ==
    ASSUME NEW items, IsSeq(items), NEW payload, payload = compactInputByLatestCompaction(items)
    PROVE  \/ Uncompacted(items) /\ payload = items
           \/ \E n : Latest(items, n) /\ payload = SubSeq(items, n, Len(items))
<1> DEFINE T == {i \in 1 .. Len(items) : items[i].type = "compaction"}
           latest == SelectLastInSeq(items, LAMBDA item : item.type = "compaction")
<1>1. Len(items) \in Nat
  BY SeqFacts
<1>2. latest = IF T # {} THEN Max(T) ELSE 0
  BY DEF SelectLastInSeq
<1>3. payload = IF latest = 0 THEN items ELSE SubSeq(items, latest, Len(items))
  BY DEF compactInputByLatestCompaction
<1> HIDE DEF latest
<1>4. CASE T = {}
  <2>1. Uncompacted(items)
    BY <1>4 DEF Uncompacted
  <2> QED
    BY <2>1, <1>2, <1>3, <1>4
<1>5. CASE T # {}
  <2>1. T \subseteq 1 .. Len(items)
    OBVIOUS
  <2>2. latest \in T /\ \A y \in T : y <= latest
    <3> HIDE DEF T
    <3>1. Max(T) \in T /\ \A y \in T : y <= Max(T)
      BY <1>1, <1>5, <2>1, LatestIs
    <3> QED
      BY <3>1, <1>2, <1>5
  <2>3. Latest(items, latest)
    BY <2>2 DEF Latest
  <2>4. latest # 0
    BY <2>2, <1>1
  <2> QED
    BY <2>3, <2>4, <1>3
<1> QED
  BY <1>4, <1>5

LEMMA ShareUncompacted ==
    ASSUME NEW x, x.type # "compaction", IsSeq(Share("responses", x)),
           NEW k \in 1 .. Len(Share("responses", x))
    PROVE  Share("responses", x)[k].type # "compaction"
<1>1. CASE x.role # "assistant"
  <2>1. Share("responses", x) = <<>>
    BY <1>1 DEF Share
  <2>2. Len(Share("responses", x)) = 0
    BY <2>1
  <2> QED
    BY <2>2
<1>2. CASE x.role = "assistant" /\ x.type # "message"
  <2>1. Share("responses", x) = <<x>>
    BY <1>2 DEF Share, ElementPart
  <2> QED
    BY <2>1, One
<1>3. CASE x.role = "assistant" /\ x.type = "message"
  <2> DEFINE c == x.content
             f == [j \in DOMAIN c |-> MessageItem("assistant", <<c[j]>>)]
  <2>1. Share("responses", x) = f
    BY <1>3 DEF Share, ElementPart
  <2>2. \A j \in DOMAIN f : f[j] = MessageItem("assistant", <<c[j]>>)
    OBVIOUS
  <2> HIDE DEF f
  <2>3. \A y : MessageItem("assistant", <<y>>).type = "message"
    BY ItemIs DEF MessageItem
  <2>4. k \in DOMAIN f
    BY <2>1, SeqFacts
  <2> QED
    BY <2>1, <2>2, <2>3, <2>4
<1> QED
  BY <1>1, <1>2, <1>3

LEMMA PartUncompacted ==
    ASSUME NEW s, Sharing("responses", s), Uncompacted(s)
    PROVE  Uncompacted(AssistantPart("responses", s))
<1> DEFINE D == ToSet(s)
           g == [y \in D |-> Share("responses", y)]
<1>1. IsSeq(s) /\ s \in Seq(D) /\ DOMAIN s = 1 .. Len(s)
  BY SeqFacts DEF Sharing, IsSeq
<1>2. g = [y \in D |-> g[y]] /\ \A y \in D : g[y] = Share("responses", y) /\ IsSeq(g[y])
  BY <1>1 DEF Sharing, ToSet
<1>3. D = ToSet(s) /\ \A y \in D : y.type # "compaction"
  BY <1>1 DEF ToSet, Uncompacted
<1> HIDE DEF g, D
<1>4. PICK E : Ranges(g, D, E)
  BY <1>2, Ranged
<1>5. Becomes(g, D, E) /\ \A y \in E : \E x \in D : \E i \in 1 .. Len(g[x]) : y = g[x][i]
  BY <1>4 DEF Ranges
<1>6. Bind(g, s) \in Seq(E)
  BY <1>1, <1>5, BindIn
<1>7. AssistantPart("responses", s) = Bind(g, s)
  BY <1>2, <1>3, PartBinds DEF Shares
<1>8. ASSUME NEW y \in E PROVE y.type # "compaction"
  <2>1. PICK x \in D : \E i \in 1 .. Len(g[x]) : y = g[x][i]
    BY <1>5, <1>8
  <2>2. PICK i \in 1 .. Len(g[x]) : y = g[x][i]
    BY <2>1
  <2>3. g[x] = Share("responses", x) /\ IsSeq(Share("responses", x)) /\ x.type # "compaction"
    BY <1>2, <1>3
  <2>4. i \in 1 .. Len(Share("responses", x))
    BY <2>3
  <2>5. Share("responses", x)[i].type # "compaction"
    BY ONLY <2>3, <2>4, ShareUncompacted
  <2> QED
    BY <2>2, <2>3, <2>5
<1>9. \A i \in 1 .. Len(Bind(g, s)) : Bind(g, s)[i] \in E
  <2> DEFINE b == Bind(g, s)
  <2>1. b \in Seq(E)
    BY <1>6
  <2> HIDE DEF b
  <2>2. \A i \in 1 .. Len(b) : b[i] \in E
    BY <2>1
  <2> QED
    BY <2>2 DEF b
<1> QED
  BY <1>7, <1>8, <1>9 DEF Uncompacted

\* From the cut on: what the assistant said after n elements, one of them the compaction.
CutsOf(all) == {i \in DOMAIN all : all[i].type = "compaction"}
FromCut(all) == SubSeq(all, IF CutsOf(all) = {} THEN 1 ELSE Max(CutsOf(all)), Len(all))

LEMMA CutSplits ==
    ASSUME NEW s, IsSeq(s), NEW n \in 1 .. Len(s)
    PROVE  \E a, r : /\ IsSeq(a) /\ IsSeq(r) /\ s = a \o (<<s[n]>> \o r)
                     /\ SubSeq(s, n, Len(s)) = <<s[n]>> \o r
                     /\ \A i \in 1 .. Len(a) : a[i] = s[i]
                     /\ \A i \in 1 .. Len(r) : n + i \in 1 .. Len(s) /\ r[i] = s[n + i]
<1> DEFINE S == ToSet(s)
           a == SubSeq(s, 1, n - 1)
           r == SubSeq(s, n + 1, Len(s))
<1>1. s \in Seq(S)
  BY DEF IsSeq
<1> HIDE DEF S
<1>3. SubSeq(s, n, Len(s)) = <<s[n]>> \o r
  BY <1>1
<1>2. a \in Seq(S) /\ r \in Seq(S) /\ s = a \o (<<s[n]>> \o r)
  <2>1. a \in Seq(S) /\ r \in Seq(S)
    BY <1>1
  <2>2. s = a \o SubSeq(s, n, Len(s))
    BY <1>1
  <2> QED
    BY <2>1, <2>2, <1>3
<1>4. \A i \in 1 .. Len(a) : a[i] = s[i]
  BY <1>1
<1>5. \A i \in 1 .. Len(r) : n + i \in 1 .. Len(s) /\ r[i] = s[n + i]
  BY <1>1
<1>6. IsSeq(a) /\ IsSeq(r)
  <2> HIDE DEF a, r
  <2> QED
    BY <1>2, SeqIs
<1> QED
  BY <1>2, <1>3, <1>4, <1>5, <1>6

LEMMA CutAgain ==
    ASSUME NEW a, IsSeq(a), NEW x, x.type = "compaction", NEW r, IsSeq(r), Uncompacted(r)
    PROVE  FromCut(a \o (<<x>> \o r)) = <<x>> \o r
<1> DEFINE b == <<x>> \o r
           all == a \o b
           n == Len(a) + 1
           T == CutsOf(all)
<1>1. IsSeq(b) /\ Len(b) = Len(r) + 1 /\ b[1] = x /\ \A i \in 2 .. Len(b) : b[i].type # "compaction"
  <2> DEFINE S == ToSet(r) \cup {x}
  <2>1. r \in Seq(S) /\ x \in S
    BY SeqOfMore DEF IsSeq
  <2> HIDE DEF S
  <2>2. b \in Seq(S) /\ Len(b) = Len(r) + 1 /\ b[1] = x /\ \A i \in 2 .. Len(b) : b[i] = r[i - 1] /\ i - 1 \in 1 .. Len(r)
    BY <2>1
  <2>3. IsSeq(b)
    <3> HIDE DEF b
    <3> QED
      BY <2>2, SeqIs
  <2> QED
    BY <2>2, <2>3 DEF Uncompacted
<1>2. Len(a) \in Nat /\ Len(b) \in Nat /\ Len(r) \in Nat
  BY <1>1, SeqFacts
<1> HIDE DEF b
<1>3. /\ IsSeq(all) /\ Len(all) = Len(a) + Len(b) /\ DOMAIN all = 1 .. Len(all)
      /\ \A i \in 1 .. Len(b) : all[Len(a) + i] = b[i]
  <2>1. /\ IsSeq(a \o b) /\ Len(a \o b) = Len(a) + Len(b)
        /\ \A i \in 1 .. Len(b) : (a \o b)[Len(a) + i] = b[i]
    BY <1>1, Concat
  <2> HIDE DEF all
  <2> QED
    BY <2>1, SeqFacts DEF all
<1> HIDE DEF all
<1>4. n \in T
  BY <1>1, <1>2, <1>3 DEF CutsOf
<1>5. T \subseteq 1 .. Len(all) /\ \A i \in T : i <= n
  <2>1. T \subseteq 1 .. Len(all)
    BY <1>3 DEF CutsOf
  <2>2. ASSUME NEW i \in T, i > n PROVE FALSE
    <3>1. i \in 1 .. Len(all) /\ all[i].type = "compaction"
      BY <2>1, <2>2 DEF CutsOf
    <3>2. i - Len(a) \in 2 .. Len(b) /\ i = Len(a) + (i - Len(a))
      BY <3>1, <2>2, <1>2, <1>3
    <3>3. all[i] = b[i - Len(a)]
      BY <3>2, <1>3, <1>2
    <3> QED
      BY <3>1, <3>2, <3>3, <1>1
  <2> QED
    BY <2>1, <2>2, <1>2, <1>3
<1> HIDE DEF T
<1>6. Max(T) = n
  <2>1. Len(all) \in Nat /\ T # {}
    BY <1>2, <1>3, <1>4
  <2>2. Max(T) \in T /\ \A y \in T : y <= Max(T)
    BY <2>1, <1>5, LatestIs
  <2> DEFINE m == Max(T)
  <2>3. m \in T /\ n <= m
    BY <2>2, <1>4
  <2> HIDE DEF m
  <2>4. m <= n
    BY <2>3, <1>5
  <2>5. m \in 1 .. Len(all)
    BY <2>3, <1>5
  <2> QED
    BY <2>1, <2>3, <2>4, <2>5, <1>2 DEF m
<1>7. FromCut(all) = SubSeq(all, n, Len(all))
  <2>1. T # {}
    BY <1>4
  <2> QED
    BY <2>1, <1>6 DEF FromCut, T
<1>8. SubSeq(all, n, Len(all)) = b
  <2> DEFINE S == ToSet(a) \cup ToSet(b)
  <2>1. a \in Seq(S) /\ b \in Seq(S)
    BY <1>1, SeqOfMore DEF IsSeq
  <2> HIDE DEF S
  <2>2. SubSeq(a \o b, Len(a) + 1, Len(a \o b)) = b
    BY <2>1
  <2> QED
    BY <2>2 DEF all
<1> QED
  BY <1>7, <1>8 DEF all, b

CompactsAsAssistant(s) ==
  \A i \in 1 .. Len(s) : s[i].type = "compaction" => s[i].role = "assistant"

\* What goes upstream of the input is what the assistant said from its latest compaction on.
LEMMA InputBack ==
    ASSUME NEW items, Sharing("responses", items), CompactsAsAssistant(items),
           NEW payload, payload = compactInputByLatestCompaction(items)
    PROVE  AssistantPart("responses", payload) = FromCut(AssistantPart("responses", items))
<1>1. IsSeq(items)
  BY DEF Sharing
<1>2. CASE Uncompacted(items) /\ payload = items
  <2> DEFINE all == AssistantPart("responses", items)
  <2>1. IsSeq(all) /\ Uncompacted(all)
    BY <1>2, PartIsSeq, PartUncompacted
  <2> HIDE DEF all
  <2>2. CutsOf(all) = {}
    BY <2>1, SeqFacts DEF CutsOf, Uncompacted
  <2>3. SubSeq(all, 1, Len(all)) = all
    <3> DEFINE S == ToSet(all)
    <3>1. all \in Seq(S)
      BY <2>1 DEF IsSeq
    <3> HIDE DEF S
    <3> QED
      BY <3>1
  <2> QED
    BY <1>2, <2>2, <2>3 DEF FromCut, all
<1>3. ASSUME NEW n, Latest(items, n), payload = SubSeq(items, n, Len(items))
      PROVE  AssistantPart("responses", payload) = FromCut(AssistantPart("responses", items))
  <2> DEFINE x == items[n]
             xs == <<x>>
  <2>1. n \in 1 .. Len(items) /\ x.type = "compaction" /\ x.role = "assistant"
        /\ \A i \in 1 .. Len(items) : items[i].type = "compaction" => i <= n
    BY <1>3 DEF Latest, CompactsAsAssistant
  <2>2. PICK a, r : /\ IsSeq(a) /\ IsSeq(r) /\ items = a \o (<<items[n]>> \o r)
                    /\ SubSeq(items, n, Len(items)) = <<items[n]>> \o r
                    /\ \A i \in 1 .. Len(a) : a[i] = items[i]
                    /\ \A i \in 1 .. Len(r) : n + i \in 1 .. Len(items) /\ r[i] = items[n + i]
    BY <1>1, <2>1, CutSplits
  <2>3. Len(a) \in Nat /\ Len(items) \in Nat /\ Len(a) <= Len(items) /\ Len(r) \in Nat
    <3>1. IsSeq(<<items[n]>> \o r)
      BY <2>2, One, Concat
    <3> DEFINE b == <<items[n]>> \o r
    <3> HIDE DEF b
    <3>2. items = a \o b /\ IsSeq(b)
      BY <3>1, <2>2 DEF b
    <3>3. Len(items) = Len(a) + Len(b)
      BY <3>2, <2>2, Concat
    <3>4. Len(a) \in Nat /\ Len(b) \in Nat /\ Len(items) \in Nat /\ Len(r) \in Nat
      BY <3>2, <2>2, <1>1, SeqFacts
    <3> QED
      BY <3>3, <3>4
  <2>4. \A i \in 1 .. Len(items) : IsSeq(Share("responses", items[i]))
    BY DEF Sharing
  <2>5. Sharing("responses", a)
    BY <2>2, <2>3, <2>4 DEF Sharing
  <2>6. Sharing("responses", r) /\ Uncompacted(r)
    <3>1. \A i \in 1 .. Len(r) : IsSeq(Share("responses", r[i]))
      BY <2>2, <2>4
    <3>2. ASSUME NEW i \in 1 .. Len(r), r[i].type = "compaction" PROVE FALSE
      <4>1. n + i \in 1 .. Len(items) /\ r[i] = items[n + i]
        BY <2>2
      <4>2. ~(n + i <= n)
        BY <2>1, <2>3
      <4> QED
        BY <4>1, <4>2, <3>2, <2>1
    <3> QED
      BY <3>1, <3>2, <2>2 DEF Sharing, Uncompacted
  <2>7. Share("responses", x) = xs
    BY <2>1 DEF Share, ElementPart
  <2>8. Sharing("responses", xs) /\ AssistantPart("responses", xs) = xs
    <3>1. IsSeq(Share("responses", x))
      BY <2>7, One
    <3>2. Sharing("responses", <<x>>) /\ AssistantPart("responses", <<x>>) = Share("responses", x)
      BY <3>1, PartOfOne
    <3> QED
      BY <3>2, <2>7
  <2> DEFINE A == AssistantPart("responses", a)
             R == AssistantPart("responses", r)
             b == xs \o r
  <2>9. items = a \o b /\ payload = b
    BY <2>2, <1>3
  <2> HIDE DEF xs
  <2>10. Sharing("responses", b) /\ AssistantPart("responses", b) = xs \o R
    <3>1. Sharing("responses", xs) /\ Sharing("responses", r)
      BY <2>6, <2>8
    <3>2. /\ Sharing("responses", xs \o r)
          /\ AssistantPart("responses", xs \o r) = AssistantPart("responses", xs) \o R
      BY ONLY <3>1, PartOfTwo
    <3> QED
      BY <2>8, <3>2
  <2> HIDE DEF b
  <2>11. AssistantPart("responses", a \o b) = A \o AssistantPart("responses", b)
    BY <2>5, <2>10, PartOfTwo
  <2>12. IsSeq(A) /\ IsSeq(R) /\ Uncompacted(R)
    BY <2>5, <2>6, PartIsSeq, PartUncompacted
  <2>13. AssistantPart("responses", items) = A \o (xs \o R)
    BY <2>9, <2>10, <2>11
  <2> HIDE DEF A, R, x
  <2>14. FromCut(A \o (<<x>> \o R)) = <<x>> \o R
    BY <2>1, <2>12, CutAgain
  <2> QED
    BY <2>9, <2>10, <2>13, <2>14 DEF xs
<1> QED
  BY <1>1, <1>2, <1>3, CompactLatest

-----------------------------------------------------------------------------
(* A conversation comes back with all its turns                            *)

\* A piece without a word of the assistant's, and the pieces of a conversation whose turns
\* come back one by one.
Silent(piece) == IsSeq(piece) /\ \A k \in 1 .. Len(piece) : piece[k].role # "assistant"

ComesBack(api, c, s, I, p) ==
  /\ \A t \in I : p[t] = PieceOf(api, c, s[t]) /\ Returned(api, c, s[t])
  /\ \A t \in (1 .. Len(s)) \ I : Silent(p[t])

\* A conversation comes back with all its turns, when each of them does.
LEMMA PiecesBack ==
    ASSUME NEW api, NEW c, NEW s, IsSeq(s), NEW I, I \subseteq 1 .. Len(s),
           NEW p, p = [t \in 1 .. Len(s) |-> p[t]], ComesBack(api, c, s, I, p)
    PROVE  /\ Sharing(api, FlattenSeq(p))
           /\ AssistantPart(api, FlattenSeq(p)) = SaidAt(api, c, s, I)
<1>1. ASSUME NEW t \in I
      PROVE  Sharing(api, p[t]) /\ AssistantPart(api, p[t]) = SaidIn(api, c, s[t])
  BY DEF ComesBack, Returned
<1>2. ASSUME NEW t \in (1 .. Len(s)) \ I
      PROVE  Sharing(api, p[t]) /\ AssistantPart(api, p[t]) = <<>>
  <2>1. IsSeq(p[t]) /\ \A k \in 1 .. Len(p[t]) : p[t][k].role # "assistant"
    BY DEF ComesBack, Silent
  <2> QED
    BY <2>1, NoShare
<1>3. Pieces(api, Len(s), p)
  BY <1>1, <1>2 DEF Pieces
<1>4. Brought(api, c, s, I, p)
  BY <1>1, <1>2 DEF Brought
<1> QED
  BY <1>3, <1>4, TurnsTogether

\* What is left of a user message when the messages are prepared.
AskedIn(m) == \E form, d, C : m = UserMessage(form, d) /\ Clean(d) /\ Answering(d, C)

LEMMA UserSilent ==
    ASSUME NEW m, AskedIn(m)
    PROVE  /\ m.role = "user" /\ Silent(<<m>>) /\ Silent(handleUserMessage(m))
           /\ Silent(translateMessage(m)) /\ Whole(translateMessage(m))
<1>1. PICK form, d, C : m = UserMessage(form, d) /\ Clean(d) /\ Answering(d, C)
  BY DEF AskedIn
<1>2. m.role = "user"
  BY <1>1, UserMessageIs
<1>3. UserPiece("messages", <<m>>, C, ContentIds(d))
  BY <1>1, MessagesUser
<1>4. UserPiece("chat", handleUserMessage(m), C, BorneIds("chat", d))
  BY <1>1, ChatUser
<1>5. UserPiece("responses", translateMessage(m), C, ContentIds(d)) /\ Whole(translateMessage(m))
  BY <1>1, ResponsesUser
<1>6. ASSUME NEW api, NEW piece, NEW ids, UserPiece(api, piece, C, ids) PROVE Silent(piece)
  BY <1>6 DEF UserPiece, Silent
<1> QED
  BY <1>2, <1>3, <1>4, <1>5, <1>6

Conversing(s, I) ==
  /\ IsSeq(s) /\ I \subseteq 1 .. Len(s)
  /\ \A t \in (1 .. Len(s)) \ I : AskedIn(s[t])
  /\ \A t \in I : \E own : Spoken(s[t], own) /\ CompactsFirst(s[t].content)

TurnsReturn(api, c, s, I) == \A t \in I : Returned(api, c, s[t])

LEMMA ConversingIs ==
    ASSUME NEW s, NEW I, Conversing(s, I)
    PROVE  /\ IsSeq(s) /\ DOMAIN s = 1 .. Len(s) /\ Len(s) \in Nat /\ I \subseteq 1 .. Len(s)
           /\ \A t \in I : s[t].role = "assistant"
           /\ \A t \in (1 .. Len(s)) \ I : s[t].role = "user"
<1>1. IsSeq(s) /\ DOMAIN s = 1 .. Len(s) /\ Len(s) \in Nat /\ I \subseteq 1 .. Len(s)
  BY SeqFacts DEF Conversing
<1>2. ASSUME NEW t \in I PROVE s[t].role = "assistant"
  <2>1. PICK own : Spoken(s[t], own)
    BY DEF Conversing
  <2> DEFINE m == s[t]
  <2> HIDE DEF m
  <2>2. m.role = "assistant"
    <3>1. Spoken(m, own)
      BY <2>1 DEF m
    <3> QED
      BY <3>1 DEF Spoken
  <2> QED
    BY <2>2 DEF m
<1>3. ASSUME NEW t \in (1 .. Len(s)) \ I PROVE s[t].role = "user"
  BY UserSilent DEF Conversing
<1> QED
  BY <1>1, <1>2, <1>3

LEMMA MessagesBack ==
    ASSUME NEW s, NEW I, Conversing(s, I), NEW c, TurnsReturn("messages", c, s, I),
           NEW payload, payload = filterAssistantThinkingBlocks(s)
    PROVE  /\ Sharing("messages", payload)
           /\ AssistantPart("messages", payload) = SaidAt("messages", c, s, I)
<1> DEFINE N == Len(s)
           p == Singles(payload)
<1>1. /\ IsSeq(s) /\ DOMAIN s = 1 .. N /\ N \in Nat /\ I \subseteq 1 .. N
      /\ \A t \in I : s[t].role = "assistant"
      /\ \A t \in (1 .. N) \ I : s[t].role = "user"
  BY ConversingIs
<1>2. /\ payload = [m \in 1 .. N |-> payload[m]]
      /\ \A t \in 1 .. N : payload[t] = IF s[t].role = "assistant" THEN Filtered(s[t]) ELSE s[t]
  BY <1>1 DEF filterAssistantThinkingBlocks, Filtered
<1>3. IsSeq(payload) /\ Len(payload) = N
  BY <1>1, <1>2, FunIsSeq
<1>4. p = [t \in 1 .. N |-> p[t]] /\ \A t \in 1 .. N : p[t] = <<payload[t]>>
  BY <1>3 DEF Singles
<1>5. FlattenSeq(p) = payload
  BY <1>3, Split
<1> HIDE DEF p, N
<1>6. ASSUME NEW t \in I PROVE p[t] = PieceOf("messages", c, s[t]) /\ Returned("messages", c, s[t])
  <2>1. p[t] = <<Filtered(s[t])>>
    BY <1>1, <1>2, <1>4
  <2> QED
    BY <2>1 DEF PieceOf, TurnsReturn
<1>7. ASSUME NEW t \in (1 .. N) \ I PROVE Silent(p[t])
  <2>1. p[t] = <<s[t]>>
    BY <1>1, <1>2, <1>4
  <2>2. AskedIn(s[t])
    BY DEF Conversing, N
  <2> QED
    BY <2>1, <2>2, UserSilent
<1>8. ComesBack("messages", c, s, I, p)
  BY <1>6, <1>7 DEF ComesBack, N
<1> QED
  BY <1>1, <1>4, <1>5, <1>8, PiecesBack DEF N

LEMMA ChatsBack ==
    ASSUME NEW s, NEW I, Conversing(s, I), NEW c, TurnsReturn("chat", c, s, I),
           NEW payload, payload = translateToOpenAI(s, c)
    PROVE  /\ Sharing("chat", payload)
           /\ AssistantPart("chat", payload) = SaidAt("chat", c, s, I)
<1> DEFINE N == Len(s)
           p == [m \in DOMAIN s |-> IF s[m].role = "user" THEN handleUserMessage(s[m])
                                    ELSE handleAssistantMessage(s[m], c)]
<1>1. /\ IsSeq(s) /\ DOMAIN s = 1 .. N /\ N \in Nat /\ I \subseteq 1 .. N
      /\ \A t \in I : s[t].role = "assistant"
      /\ \A t \in (1 .. N) \ I : s[t].role = "user"
  BY ConversingIs
<1>2. payload = FlattenSeq(p)
  BY DEF translateToOpenAI
<1>3. /\ p = [t \in 1 .. N |-> p[t]]
      /\ \A t \in 1 .. N : p[t] = IF s[t].role = "user" THEN handleUserMessage(s[t])
                                  ELSE handleAssistantMessage(s[t], c)
  BY <1>1
<1> HIDE DEF p, N
<1>4. ASSUME NEW t \in I PROVE p[t] = PieceOf("chat", c, s[t]) /\ Returned("chat", c, s[t])
  <2>1. p[t] = handleAssistantMessage(s[t], c)
    BY <1>1, <1>3
  <2> QED
    BY <2>1 DEF PieceOf, TurnsReturn
<1>5. ASSUME NEW t \in (1 .. N) \ I PROVE Silent(p[t])
  <2>1. p[t] = handleUserMessage(s[t])
    BY <1>1, <1>3
  <2>2. AskedIn(s[t])
    BY DEF Conversing, N
  <2> QED
    BY <2>1, <2>2, UserSilent
<1>6. ComesBack("chat", c, s, I, p)
  BY <1>4, <1>5 DEF ComesBack, N
<1> QED
  BY <1>1, <1>2, <1>3, <1>6, PiecesBack DEF N

LEMMA ItemsBack ==
    ASSUME NEW s, NEW I, Conversing(s, I), NEW c, TurnsReturn("responses", c, s, I),
           NEW payload, payload = compactInputByLatestCompaction(translateAnthropicMessagesToResponsesPayload(s))
    PROVE  /\ IsSeq(SaidAt("responses", c, s, I))
           /\ AssistantPart("responses", payload) = FromCut(SaidAt("responses", c, s, I))
<1> DEFINE N == Len(s)
           p == [m \in DOMAIN s |-> translateMessage(s[m])]
           items == FlattenSeq(p)
<1>1. IsSeq(s) /\ DOMAIN s = 1 .. N /\ N \in Nat /\ I \subseteq 1 .. N
  BY ConversingIs
<1>2. payload = compactInputByLatestCompaction(items)
  BY DEF translateAnthropicMessagesToResponsesPayload
<1>3. p = [t \in 1 .. N |-> p[t]] /\ \A t \in 1 .. N : p[t] = translateMessage(s[t])
  BY <1>1
<1>4. IsSeq(p) /\ Len(p) = N
  BY <1>1, <1>3, FunIsSeq
<1> HIDE DEF p, N
<1>5. ASSUME NEW t \in I
      PROVE  /\ p[t] = PieceOf("responses", c, s[t]) /\ Returned("responses", c, s[t])
             /\ IsSeq(p[t]) /\ \A k \in 1 .. Len(p[t]) : p[t][k].role = "assistant"
  <2>1. p[t] = translateMessage(s[t])
    BY <1>1, <1>3
  <2>2. PICK own : Spoken(s[t], own) /\ CompactsFirst(s[t].content)
    BY DEF Conversing
  <2>3. AssistantPiece("responses", p[t], own)
    BY <2>1, <2>2, ResponsesAssistant
  <2>4. IsSeq(p[t]) /\ \A k \in 1 .. Len(p[t]) : p[t][k].role = "assistant"
    BY <2>3 DEF AssistantPiece
  <2> QED
    BY <2>1, <2>4 DEF PieceOf, TurnsReturn
<1>6. ASSUME NEW t \in (1 .. N) \ I PROVE Silent(p[t]) /\ Whole(p[t])
  <2>1. p[t] = translateMessage(s[t])
    BY <1>1, <1>3
  <2>2. AskedIn(s[t])
    BY DEF Conversing, N
  <2> QED
    BY <2>1, <2>2, UserSilent
<1>7. ComesBack("responses", c, s, I, p)
  BY <1>5, <1>6 DEF ComesBack, N
<1>8. Sharing("responses", items) /\ AssistantPart("responses", items) = SaidAt("responses", c, s, I)
  BY <1>1, <1>3, <1>7, PiecesBack DEF N
<1>9. \A t \in 1 .. N : IsSeq(p[t])
  BY <1>5, <1>6 DEF Silent
<1>10. PICK row, col : Laid(p, items, row, col)
  BY <1>4, <1>9, Flat
<1> HIDE DEF items
<1>11. CompactsAsAssistant(items)
  <2> SUFFICES ASSUME NEW i \in 1 .. Len(items), items[i].type = "compaction"
               PROVE  items[i].role = "assistant"
    BY DEF CompactsAsAssistant
  <2>1. row[i] \in 1 .. N /\ col[i] \in 1 .. Len(p[row[i]]) /\ items[i] = p[row[i]][col[i]]
    BY <1>4, <1>10 DEF Laid
  <2>2. CASE row[i] \in I
    BY <2>1, <2>2, <1>5
  <2>3. CASE row[i] \notin I
    <3>1. Whole(p[row[i]])
      BY <2>1, <2>3, <1>6
    <3> QED
      BY <2>1, <3>1 DEF Whole
  <2> QED
    BY <2>2, <2>3
<1> QED
  BY <1>2, <1>8, <1>11, InputBack, PartIsSeq

LEMMA WholeSub ==
    ASSUME NEW s, IsSeq(s) PROVE SubSeq(s, 1, Len(s)) = s
<1> DEFINE S == ToSet(s)
<1>1. s \in Seq(S)
  BY DEF IsSeq
<1> HIDE DEF S
<1> QED
  BY <1>1

LEMMA SaidAtSame ==
    ASSUME NEW api, NEW c, NEW s, NEW u, IsSeq(s), IsSeq(u), Len(s) = Len(u),
           NEW I, \A t \in I : s[t] = u[t]
    PROVE  SaidAt(api, c, s, I) = SaidAt(api, c, u, I)
<1>1. DOMAIN s = 1 .. Len(s) /\ DOMAIN u = 1 .. Len(s)
  BY SeqFacts
<1>2. [i \in DOMAIN s |-> IF i \in I THEN <<s[i]>> ELSE <<>>]
        = [i \in DOMAIN u |-> IF i \in I THEN <<u[i]>> ELSE <<>>]
  BY <1>1
<1>3. Only(s, I) = Only(u, I)
  BY <1>2 DEF Only
<1> QED
  BY <1>3 DEF SaidAt

\* What was said before, by the turns of a conversation.
TurnsAt(messages) == {t \in DOMAIN messages : messages[t].role = "assistant"}

LEMMA SaidBeforeIs ==
    ASSUME NEW api, NEW c, NEW messages, NEW all, all = SaidAt(api, c, messages, TurnsAt(messages)),
           IsSeq(all)
    PROVE  SaidBefore(api, c, messages) = IF api = "responses" THEN FromCut(all) ELSE all
<1> DEFINE cuts == {i \in DOMAIN all : api = "responses" /\ all[i].type = "compaction"}
<1>1. SaidBefore(api, c, messages) = SubSeq(all, IF cuts = {} THEN 1 ELSE Max(cuts), Len(all))
  BY DEF SaidBefore, SaidAt, TurnsAt
<1>2. CASE api = "responses"
  <2>1. cuts = CutsOf(all)
    BY <1>2 DEF CutsOf
  <2> HIDE DEF cuts
  <2> QED
    BY <1>1, <1>2, <2>1 DEF FromCut
<1>3. CASE api # "responses"
  <2>1. cuts = {}
    BY <1>3
  <2> HIDE DEF cuts
  <2> QED
    BY <1>1, <1>3, <2>1, WholeSub
<1> QED
  BY <1>2, <1>3

\* Whichever the API, a conversation whose turns come back through it one by one comes back
\* as what was said before, though its user messages were merged and stripped on the way.
LEMMA TalkedBack ==
    ASSUME NEW messages, Talked(messages), Len(messages) \in UserAt(messages),
           NEW api \in APIs, NEW m, NEW c, c = (m = "claude"),
           \A t \in TurnsAt(messages) : Returned(api, c, messages[t]),
           NEW system, NEW payload,
           payload = UpstreamPayload(api, m, Prepared(messages, system))
    PROVE  AssistantPart(api, payload) = SaidBefore(api, c, messages)
<1> DEFINE new == Prepared(messages, system)
           U == UserAt(messages)
           N == Len(messages)
           I == (1 .. N) \ U
           calls == CallsIn(messages)
           ids == IdsOfPrepared(new)
<1>1. /\ Ready(new, U, calls, ids) /\ Len(new) = N /\ \A t \in I : new[t] = messages[t]
  BY TalkedReady
<1>2. IsSeq(messages) /\ DOMAIN messages = 1 .. N /\ N \in Nat
  BY SeqFacts DEF Talked
<1>3. U = {t \in 1 .. N : messages[t].role = "user"} /\ I \subseteq 1 .. N /\ U = (1 .. N) \ I
  BY DEF UserAt
<1> HIDE DEF new, U, calls, ids, I, N
<1>4. /\ IsSeq(new)
      /\ \A t \in U : \E form, d : /\ new[t] = UserMessage(form, d) /\ Clean(d)
                                   /\ Answering(d, Asked(calls, t))
      /\ \A t \in I : Spoken(new[t], calls[t]) /\ CompactsFirst(new[t].content)
  BY <1>1, <1>3 DEF Ready, I
<1>5. \A t \in U : AskedIn(new[t])
  BY <1>4 DEF AskedIn
<1>6. Conversing(new, I)
  BY <1>1, <1>3, <1>4, <1>5 DEF Conversing
<1>7. I = TurnsAt(messages)
  <2>1. ASSUME NEW t \in I PROVE messages[t].role = "assistant"
    BY <1>1, <1>6, ConversingIs
  <2>2. ASSUME NEW t \in 1 .. N, messages[t].role = "assistant" PROVE t \in I
    BY <1>3, <2>2
  <2> QED
    BY <1>2, <1>3, <2>1, <2>2 DEF TurnsAt
<1>8. TurnsReturn(api, c, new, I)
  BY <1>1, <1>7 DEF TurnsReturn
<1> DEFINE all == SaidAt(api, c, messages, I)
<1>9. SaidAt(api, c, new, I) = all
  BY <1>1, <1>2, <1>4, SaidAtSame DEF N
<1>10. ASSUME IsSeq(all) PROVE SaidBefore(api, c, messages) = IF api = "responses" THEN FromCut(all) ELSE all
  BY <1>7, <1>10, SaidBeforeIs
<1> HIDE DEF all
<1>12. CASE api = "messages"
  <2>1. payload = filterAssistantThinkingBlocks(new)
    BY <1>12 DEF UpstreamPayload, new
  <2>2. Sharing("messages", payload) /\ AssistantPart("messages", payload) = all
    BY <2>1, <1>6, <1>8, <1>9, <1>12, MessagesBack
  <2> QED
    BY <2>2, <1>10, <1>12, PartIsSeq
<1>13. CASE api = "chat"
  <2>1. payload = translateToOpenAI(new, c)
    BY <1>13 DEF UpstreamPayload, new
  <2>2. Sharing("chat", payload) /\ AssistantPart("chat", payload) = all
    BY <2>1, <1>6, <1>8, <1>9, <1>13, ChatsBack
  <2> QED
    BY <2>2, <1>10, <1>13, PartIsSeq
<1>14. CASE api = "responses"
  <2>1. payload = compactInputByLatestCompaction(translateAnthropicMessagesToResponsesPayload(new))
    BY <1>14 DEF UpstreamPayload, new
  <2>2. IsSeq(all) /\ AssistantPart("responses", payload) = FromCut(all)
    BY <2>1, <1>6, <1>8, <1>9, <1>14, ItemsBack
  <2> QED
    BY <2>2, <1>10, <1>14
<1> QED
  BY <1>12, <1>13, <1>14 DEF APIs

-----------------------------------------------------------------------------
(* What upstream answers is what comes back                                *)

LEMMA ThoughtIs == \A t : Thought(t) \notin {NoText, THINKING_TEXT}
<1> SUFFICES ASSUME NEW t PROVE Thought(t) \notin {NoText, THINKING_TEXT}
  OBVIOUS
<1> DEFINE a == <<t, 2>>
           b == <<1>>
<1>1. a \in Seq({t, 2}) /\ Len(a) = 2
  OBVIOUS
<1>2. b \in Seq({1}) /\ Len(b) = 1
  OBVIOUS
<1>3. Len(<<>>) = 0
  OBVIOUS
<1> HIDE DEF a, b
<1>4. a # b /\ a # <<>>
  BY <1>1, <1>2, <1>3
<1> QED
  BY <1>4 DEF Thought, NoText, THINKING_TEXT, a, b

\* The elements of a sequence, all of a kind.
Of(s, S) == IsSeq(s) /\ \A i \in 1 .. Len(s) : s[i] \in S

LEMMA OfNone == \A S : Of(<<>>, S)
<1> DEFINE s == <<>>
<1>1. IsSeq(s) /\ Len(s) = 0
  BY None
<1> HIDE DEF s
<1>2. \A S : Of(s, S)
  BY <1>1 DEF Of
<1> QED
  BY <1>2 DEF s

LEMMA OfOne == ASSUME NEW S, NEW x \in S PROVE Of(<<x>>, S)
<1> DEFINE s == <<x>>
<1>1. IsSeq(s) /\ Len(s) = 1 /\ s[1] = x
  BY One
<1> HIDE DEF s
<1>2. Of(s, S)
  BY <1>1 DEF Of
<1> QED
  BY <1>2 DEF s

LEMMA OfJoin == ASSUME NEW S, NEW s, NEW u, Of(s, S), Of(u, S) PROVE Of(s \o u, S)
<1>1. IsSeq(s) /\ IsSeq(u)
  BY DEF Of
<1> DEFINE w == s \o u
<1>2. /\ IsSeq(w) /\ \A i \in 1 .. Len(w) : \/ i \in 1 .. Len(s) /\ w[i] = s[i]
                                            \/ i - Len(s) \in 1 .. Len(u) /\ w[i] = u[i - Len(s)]
  BY <1>1, Concat
<1> HIDE DEF w
<1>3. Of(w, S)
  BY <1>2 DEF Of
<1> QED
  BY <1>3 DEF w

LEMMA OfEach ==
    ASSUME NEW S, NEW n \in Nat, NEW f, f = [i \in 1 .. n |-> f[i]], \A i \in 1 .. n : f[i] \in S
    PROVE  Of(f, S)
<1>1. IsSeq(f) /\ Len(f) = n
  BY FunIsSeq
<1> QED
  BY <1>1 DEF Of

LEMMA ThinkingByClaude ==
    ASSUME NEW t, NEW th \in ClaudeThinking(t), NEW S,
           Thinking(NoText, Signed("claude", t)) \in S, Thinking(Thought(t), Signed("claude", t)) \in S
    PROVE  Of(th, S)
<1> DEFINE a == Thinking(NoText, Signed("claude", t))
           b == Thinking(Thought(t), Signed("claude", t))
<1>1. th \in {<<>>, <<a>>, <<b>>}
  BY DEF ClaudeThinking, Varied
<1> HIDE DEF a, b
<1>2. a \in S /\ b \in S
  BY DEF a, b
<1> QED
  BY <1>1, <1>2, OfNone, OfOne

\* Claude's answers hold thinking it has signed, with a text of its own or none.
LEMMA AnswerByClaude ==
    ASSUME world.talk \in Talks, NEW t, NEW c \in MessagesAnswers(t) PROVE ByClaude(c)
<1> DEFINE a == Thinking(NoText, Signed("claude", t))
           b == Thinking(Thought(t), Signed("claude", t))
           words == {Text(x, "plain") : x \in Texts(t)}
<1>0. PICK thinking \in ClaudeThinking(t), text \in Texts(t), calls \in Calls(t) :
        c = MessagesAnswer(thinking, text, calls)
  BY DEF MessagesAnswers
<1> DEFINE uses == ToolUses(calls)
           S == {a, b} \cup words \cup {ToolUse(x) : x \in ToSet(calls)}
<1>1. c = (thinking \o TextBlock(text)) \o uses
  BY <1>0 DEF MessagesAnswer, ToolUses
<1>2. IsSeq(calls) /\ Len(calls) \in Nat /\ DOMAIN calls = 1 .. Len(calls)
      /\ \A i \in 1 .. Len(calls) : calls[i] \in ToSet(calls)
  BY CallsIs, SeqFacts DEF Calling, Apiece
<1>3. Of(uses, S)
  <2>1. uses = [i \in 1 .. Len(calls) |-> uses[i]]
    BY <1>2 DEF ToolUses
  <2>2. \A i \in 1 .. Len(calls) : uses[i] \in S
    BY <1>2 DEF ToolUses
  <2> HIDE DEF uses, S
  <2> QED
    BY <1>2, <2>1, <2>2, OfEach
<1>4. Of(TextBlock(text), S)
  <2> DEFINE w == Text(text, "plain")
  <2>1. w \in S
    BY <1>0
  <2>2. TextBlock(text) = <<>> \/ TextBlock(text) = <<w>>
    BY DEF TextBlock
  <2> HIDE DEF w, S
  <2> QED
    BY <2>1, <2>2, OfNone, OfOne
<1>5. Of(thinking, S)
  <2>1. a \in S /\ b \in S
    OBVIOUS
  <2> HIDE DEF S
  <2> QED
    BY <2>1, ThinkingByClaude
<1>6. \A x \in S : x.type = "thinking" => x.text = NoText \/ IsClaudeThinking(x)
  <2>1. a.text = NoText
    BY DEF Thinking
  <2>2. IsClaudeThinking(b)
    <3>1. b.text = Thought(t) /\ b.signature.by = "claude"
      BY DEF Thinking, Signed
    <3>2. NoSignature.by = "nobody"
      BY DEF NoSignature
    <3> HIDE DEF b
    <3> QED
      BY <3>1, <3>2, ThoughtIs DEF IsClaudeThinking, HasAt
  <2>3. \A x \in words : x.type # "thinking"
    BY DEF Text
  <2>4. \A x : ToolUse(x).type # "thinking"
    BY DEF ToolUse
  <2> HIDE DEF a, b, words
  <2> QED
    BY <2>1, <2>2, <2>3, <2>4
<1> HIDE DEF S, uses
<1>7. Of(thinking \o TextBlock(text), S)
  BY ONLY <1>4, <1>5, OfJoin
<1> DEFINE front == thinking \o TextBlock(text)
<1> HIDE DEF front
<1>8. Of(front, S)
  BY <1>7 DEF front
<1>9. Of(front \o uses, S)
  BY ONLY <1>3, <1>8, OfJoin
<1>10. Of(c, S)
  BY <1>1, <1>9 DEF front
<1> QED
  BY <1>6, <1>10 DEF ByClaude, Of

-----------------------------------------------------------------------------
(* The Responses API: the items of an answer, restated                     *)

\* The client gets of an item the block of its restated form, or nothing of either.
Restates(x) ==
  \/ Restated(x) = <<>> /\ OutputBlocks(x) = <<>>
  \/ \E y : Legal(y) /\ Restated(x) = <<y>> /\ OutputBlocks(x) = <<BlockOf(y)>>

LEMMA CompactionRestates == ASSUME NEW of PROVE Restates(Compaction(of))
<1> DEFINE x == Compaction(of)
<1>1. x.type = "compaction"
  BY ItemIs DEF Compaction
<1>2. Legal(x)
  BY DEF Legal, OwnBack
<1> HIDE DEF x
<1>3. Restated(x) = <<x>>
  BY <1>1 DEF Restated
<1>4. OutputBlocks(x) = <<BlockOf(x)>>
  BY <1>1, CompactionBlocks DEF BlockOf
<1>5. Restates(x)
  BY <1>2, <1>3, <1>4 DEF Restates
<1> QED
  BY <1>5 DEF x

LEMMA CallRestates == ASSUME NEW call PROVE Restates(FunctionCall(call))
<1> DEFINE x == FunctionCall(call)
<1>1. x.type = "function_call"
  BY ItemIs DEF FunctionCall
<1>2. Legal(x)
  BY DEF Legal, OwnBack
<1> HIDE DEF x
<1>3. Restated(x) = <<x>>
  BY <1>1 DEF Restated
<1>4. OutputBlocks(x) = <<BlockOf(x)>>
  BY <1>1, CallBlocks DEF BlockOf
<1>5. Restates(x)
  BY <1>2, <1>3, <1>4 DEF Restates
<1> QED
  BY <1>5 DEF x

LEMMA PlaceholderIsText == NoText # THINKING_TEXT
<1>1. Len(NoText) = 0 /\ Len(THINKING_TEXT) = 1
  BY DEF NoText, THINKING_TEXT
<1> QED
  BY <1>1

LEMMA BareRestates == ASSUME NEW of PROVE Restates(Reasoning(of, <<>>))
<1> DEFINE x == Reasoning(of, <<>>)
<1>1. x.type = "reasoning" /\ x.summary = <<>>
  BY ItemIs DEF Reasoning
<1>2. Legal(x)
  BY DEF Legal, OwnBack
<1> HIDE DEF x
<1>3. Restated(x) = <<x>>
  BY <1>1 DEF Restated
<1>4. extractReasoningText(x) = THINKING_TEXT /\ TextOf(x) = THINKING_TEXT
  BY <1>1 DEF extractReasoningText, TextOf
<1>5. OutputBlocks(x) = <<BlockOf(x)>>
  BY <1>1, <1>4, PlaceholderIsText, ReasoningBlocks DEF BlockOf
<1>6. Restates(x)
  BY <1>2, <1>3, <1>5 DEF Restates
<1> QED
  BY <1>6 DEF x

\* Reasoning in segments: one segment, trimmed, if that is not the placeholder itself.
LEMMA ReasoningRestates ==
    ASSUME NEW of, NEW summary, summary # <<>>, trim(FlattenSeq(summary)) # THINKING_TEXT
    PROVE  Restates(Reasoning(of, summary))
<1> DEFINE x == Reasoning(of, summary)
           text == trim(FlattenSeq(summary))
           y == Reasoning(of, <<text>>)
<1>1. x.type = "reasoning" /\ x.summary = summary /\ x.of = of
  BY ItemIs DEF Reasoning
<1> DEFINE whole == <<text>>
<1>2. y.type = "reasoning" /\ y.summary = whole /\ y.of = of
  BY ItemIs DEF Reasoning
<1>3. extractReasoningText(x) = text
  <2> HIDE DEF x
  <2> QED
    BY <1>1 DEF extractReasoningText
<1>4. Restated(x) = IF text = NoText THEN <<>> ELSE <<y>>
  <2> HIDE DEF x
  <2> QED
    BY <1>1 DEF Restated
<1>5. whole # <<>> /\ Head(whole) = text
  OBVIOUS
<1>6. text # NoText => Legal(y)
  <2>1. text # THINKING_TEXT
    OBVIOUS
  <2> HIDE DEF text
  <2> QED
    BY <2>1 DEF Legal, OwnBack
<1> HIDE DEF x, y, whole, text
<1>7. TextOf(y) = text
  BY <1>2, <1>5 DEF TextOf
<1>8. OutputBlocks(x) = IF text = NoText THEN <<>> ELSE <<BlockOf(y)>>
  BY <1>1, <1>2, <1>3, <1>7, ReasoningBlocks DEF BlockOf
<1>9. Restates(x)
  BY <1>4, <1>6, <1>8 DEF Restates
<1> QED
  BY <1>9 DEF x

\* A message: its parts as one text.
LEMMA SayingRestates == ASSUME NEW content PROVE Restates(MessageItem("assistant", content))
<1> DEFINE x == MessageItem("assistant", content)
           text == combineMessageTextContent(content)
           y == WordsItem(text)
           whole == <<Part("text", text)>>
<1>1. x.type = "message" /\ x.content = content
  BY ItemIs DEF MessageItem
<1>2. y.type = "message" /\ y.content = whole
  BY ItemIs DEF WordsItem, MessageItem
<1>3. Restated(x) = IF text = NoText THEN <<>> ELSE <<y>>
  <2> HIDE DEF x
  <2> QED
    BY <1>1 DEF Restated, WordsItem
<1>4. Head(whole).id = text
  BY DEF Part
<1>5. Legal(y)
  BY DEF Legal
<1>6. text = combineMessageTextContent(x.content)
  BY <1>1
<1> HIDE DEF x, y, text, whole
<1>7. OutputBlocks(x) = IF text = NoText THEN <<>> ELSE <<Text(text, "plain")>>
  BY <1>1, <1>6, SayingBlocks
<1>8. BlockOf(y) = Text(text, "plain")
  BY <1>2, <1>4 DEF BlockOf
<1>9. Restates(x)
  BY <1>3, <1>5, <1>7, <1>8 DEF Restates
<1> QED
  BY <1>9 DEF x

\* An output, item by item: the client gets the blocks of its restated form.
LEMMA AllRestated ==
    ASSUME NEW o, IsSeq(o), \A i \in 1 .. Len(o) : Restates(o[i]),
           NEW q, q = FlattenSeq([i \in DOMAIN o |-> Restated(o[i])])
    PROVE  IsSeq(q) /\ (\A i \in 1 .. Len(q) : Legal(q[i])) /\ Blocks(o) = Mapped(q)
<1> DEFINE D == ToSet(o)
           E == {y \in UNION {ToSet(Restated(x)) : x \in D} : Legal(y)}
           F == {BlockOf(y) : y \in E}
           g == [x \in D |-> Restated(x)]
           h == [y \in E |-> <<BlockOf(y)>>]
           k == [x \in D |-> OutputBlocks(x)]
           m == [y \in E |-> BlockOf(y)]
<1>1. o \in Seq(D) /\ DOMAIN o = 1 .. Len(o) /\ \A i \in 1 .. Len(o) : o[i] \in D
  BY SeqFacts DEF IsSeq
<1>2. \A x \in D : Restates(x)
  BY <1>1 DEF ToSet
<1>3. \A x \in D : \/ Restated(x) = <<>> /\ OutputBlocks(x) = <<>>
                   \/ \E y \in E : Restated(x) = <<y>> /\ OutputBlocks(x) = <<BlockOf(y)>>
  <2> SUFFICES ASSUME NEW x \in D, NEW y, Legal(y), Restated(x) = <<y>>,
                      OutputBlocks(x) = <<BlockOf(y)>>
               PROVE  \E z \in E : Restated(x) = <<z>> /\ OutputBlocks(x) = <<BlockOf(z)>>
    BY <1>2 DEF Restates
  <2>1. y \in ToSet(<<y>>)
    BY DEF ToSet
  <2>2. y \in UNION {ToSet(Restated(z)) : z \in D}
    BY <2>1
  <2> QED
    BY <2>2
<1>4. \A y \in E : Legal(y) /\ BlockOf(y) \in F
  OBVIOUS
<1>5. Blocks(o) = Bind(k, o) /\ q = Bind(g, o)
  <2>1. [i \in DOMAIN o |-> OutputBlocks(o[i])] = [i \in DOMAIN o |-> k[o[i]]]
    BY <1>1
  <2>2. [i \in DOMAIN o |-> Restated(o[i])] = [i \in DOMAIN o |-> g[o[i]]]
    BY <1>1
  <2> QED
    BY <2>1, <2>2 DEF Blocks, Bind
<1> HIDE DEF D, E, F
<1>6. Becomes(g, D, E)
  <2>1. \A x \in D : Restated(x) \in Seq(E)
    <3>1. <<>> \in Seq(E) /\ \A y \in E : <<y>> \in Seq(E)
      OBVIOUS
    <3>2. ASSUME NEW x \in D PROVE Restated(x) = <<>> \/ \E y \in E : Restated(x) = <<y>>
      BY <1>3
    <3> QED
      BY <3>1, <3>2
  <2> QED
    BY <2>1 DEF Becomes
<1>7. Becomes(h, E, F)
  <2>1. \A b \in F : <<b>> \in Seq(F)
    OBVIOUS
  <2> QED
    BY <1>4, <2>1 DEF Becomes
<1>8. Becomes(k, D, F)
  <2>1. \A x \in D : OutputBlocks(x) \in Seq(F)
    <3>1. <<>> \in Seq(F) /\ \A b \in F : <<b>> \in Seq(F)
      OBVIOUS
    <3>2. ASSUME NEW x \in D PROVE OutputBlocks(x) = <<>> \/ \E b \in F : OutputBlocks(x) = <<b>>
      BY <1>3, <1>4
    <3> QED
      BY <3>1, <3>2
  <2> QED
    BY <2>1 DEF Becomes
<1>9. Composed(k, h, g, D)
  <2> SUFFICES ASSUME NEW x \in D PROVE k[x] = Bind(h, g[x])
    BY DEF Composed
  <2>1. CASE Restated(x) = <<>> /\ OutputBlocks(x) = <<>>
    <3>1. k[x] = <<>> /\ g[x] = <<>>
      BY <2>1
    <3> HIDE DEF k, g, h
    <3> QED
      BY <3>1, BindNone
  <2>2. CASE \E y \in E : Restated(x) = <<y>> /\ OutputBlocks(x) = <<BlockOf(y)>>
    <3>1. PICK y \in E : Restated(x) = <<y>> /\ OutputBlocks(x) = <<BlockOf(y)>>
      BY <2>2
    <3>2. k[x] = <<BlockOf(y)>> /\ g[x] = <<y>> /\ h[y] = <<BlockOf(y)>>
      BY <3>1
    <3> HIDE DEF k, g, h
    <3>3. Bind(h, <<y>>) = h[y]
      BY <1>7, BindOne
    <3> QED
      BY <3>2, <3>3
  <2> QED
    BY <2>1, <2>2, <1>3
<1>10. q \in Seq(E)
  <2> HIDE DEF g
  <2> QED
    BY <1>1, <1>5, <1>6, BindIn
<1>11. Bind(h, Bind(g, o)) = Bind(k, o)
  <2> HIDE DEF g, h, k
  <2> QED
    BY <1>1, <1>6, <1>7, <1>8, <1>9, BindBind
<1>12. Bind(h, q) = [i \in DOMAIN q |-> m[q[i]]]
  <2>1. m \in [E -> F] /\ \A y \in E : h[y] = <<m[y]>>
    BY <1>4
  <2> HIDE DEF h, m
  <2> QED
    BY <1>7, <1>10, <2>1, BindKeeps
<1>13. \A i \in DOMAIN q : q[i] \in E
  BY <1>10
<1>14. [i \in DOMAIN q |-> m[q[i]]] = Mapped(q)
  BY <1>13 DEF Mapped
<1>15. IsSeq(q) /\ DOMAIN q = 1 .. Len(q)
  BY <1>10, SeqIs, SeqFacts
<1> QED
  BY <1>4, <1>5, <1>11, <1>12, <1>13, <1>14, <1>15

\* A text whose last mark that is no blank is not the placeholder's.
LEMMA TrimEnds ==
    ASSUME NEW text, IsSeq(text), NEW k \in 1 .. Len(text), text[k] \notin {Blank, 1},
           \A j \in 1 .. Len(text) : j > k => text[j] = Blank
    PROVE  trim(text) # THINKING_TEXT
<1> DEFINE marks == {i \in DOMAIN text : text[i] # Blank}
<1>1. DOMAIN text = 1 .. Len(text) /\ Len(text) \in Nat
  BY SeqFacts
<1>2. k \in marks /\ marks \subseteq 1 .. Len(text) /\ \A j \in marks : j <= k
  BY <1>1
<1>3. trim(text) = SubSeq(text, Min(marks), Max(marks))
  BY <1>2 DEF trim
<1> HIDE DEF marks
<1>4. Max(marks) = k
  <2>1. \E x \in marks : \A y \in marks : x >= y
    <3>1. k \in Nat /\ \A y \in marks : y \in Nat /\ k >= y
      BY <1>1, <1>2
    <3> QED
      BY <1>2, <3>1
  <2>2. Max(marks) \in marks /\ \A y \in marks : Max(marks) >= y
    BY <2>1 DEF Max
  <2> DEFINE n == Max(marks)
  <2> HIDE DEF n
  <2>3. n \in marks /\ n >= k
    BY <1>2, <2>2 DEF n
  <2>4. n \in 1 .. Len(text) /\ n <= k
    BY <1>2, <2>3
  <2> QED
    BY <1>1, <2>3, <2>4 DEF n
<1>5. Min(marks) \in 1 .. k
  <2>1. marks \subseteq Nat /\ marks # {}
    BY <1>1, <1>2
  <2>2. \E x \in marks : \A y \in marks : ~(y < x)
    BY <2>1, NatLeast
  <2>3. \E x \in marks : \A y \in marks : x <= y
    BY <2>1, <2>2
  <2>4. Min(marks) \in marks
    BY <2>3 DEF Min
  <2>5. Min(marks) \in 1 .. Len(text) /\ Min(marks) <= k
    BY <1>2, <2>4
  <2> QED
    BY <1>1, <2>5
<1> DEFINE n == Min(marks)
           X == ToSet(text)
<1> HIDE DEF n, X
<1>6. n \in 1 .. k /\ text \in Seq(X) /\ trim(text) = SubSeq(text, n, k)
  BY <1>3, <1>4, <1>5 DEF n, X, IsSeq
<1>7. LET s == SubSeq(text, n, k) IN Len(s) = k - n + 1 /\ s[k - n + 1] = text[k]
  BY <1>6
<1>8. Len(THINKING_TEXT) = 1 /\ THINKING_TEXT[1] = 1
  BY DEF THINKING_TEXT
<1> QED
  BY <1>6, <1>7, <1>8

LEMMA TrimBlank == trim(FlattenSeq(<<Space>>)) = NoText
<1>1. IsSeq(Space) /\ Len(Space) = 1 /\ Space[1] = Blank
  BY One DEF Space
<1>2. FlattenSeq(<<Space>>) = Space
  BY <1>1, FlattenOne
<1>3. {i \in DOMAIN Space : Space[i] # Blank} = {}
  BY <1>1, SeqFacts
<1> QED
  BY <1>2, <1>3 DEF trim

Ending(w, v) == \E n \in Nat : Len(w) = n + Len(v) /\ \A i \in 1 .. Len(v) : w[n + i] = v[i]

\* A text of three ends with the third.
LEMMA ThreeEnd ==
    ASSUME NEW s, IsSeq(s), NEW u, IsSeq(u), NEW v, IsSeq(v)
    PROVE  IsSeq(FlattenSeq(<<s, u, v>>)) /\ Ending(FlattenSeq(<<s, u, v>>), v)
<1>1. PICK p : IsSeq(p) /\ FlattenSeq(<<s, u, v>>) = p \o v
  BY FlattenThree
<1> DEFINE w == p \o v
<1>2. Len(w) = Len(p) + Len(v)
  BY <1>1, Concat
<1>3. IsSeq(w)
  BY <1>1, Concat
<1>4. \A i \in 1 .. Len(v) : w[Len(p) + i] = v[i]
  BY <1>1, Concat
<1>5. Len(p) \in Nat /\ FlattenSeq(<<s, u, v>>) = w
  BY <1>1, SeqFacts
<1> HIDE DEF w
<1>6. Ending(w, v)
  BY <1>2, <1>4, <1>5 DEF Ending
<1> QED
  BY <1>3, <1>5, <1>6

\* What upstream thinks in a turn is not the placeholder, trimmed or not.
LEMMA ThoughtsTrimmed ==
    ASSUME NEW t
    PROVE  /\ trim(FlattenSeq(<<Thought(t)>>)) # THINKING_TEXT
           /\ trim(FlattenSeq(<<Space \o Thought(t), Space, Further(t) \o Space>>)) # THINKING_TEXT
<1> DEFINE th == Thought(t)
           fu == Further(t)
           sp == Space
<1>1. th \in Seq({t, 2}) /\ Len(th) = 2 /\ th[2] = 2
  BY DEF Thought
<1>2. fu \in Seq({t, 7}) /\ Len(fu) = 2 /\ fu[2] = 7
  BY DEF Further
<1>3. IsSeq(th) /\ IsSeq(fu)
  BY <1>1, <1>2, SeqIs
<1>4. IsSeq(sp) /\ sp = <<Blank>>
  BY One DEF Space
<1> HIDE DEF th, fu, sp
<1>5. 2 \notin {Blank, 1} /\ 7 \notin {Blank, 1}
  BY DEF Blank
<1>6. trim(FlattenSeq(<<th>>)) # THINKING_TEXT
  <2>1. FlattenSeq(<<th>>) = th
    BY <1>3, FlattenOne
  <2>2. \A j \in 1 .. Len(th) : j > 2 => th[j] = Blank
    BY <1>1
  <2>3. 2 \in 1 .. Len(th) /\ th[2] \notin {Blank, 1}
    BY <1>1, <1>5
  <2>4. trim(th) # THINKING_TEXT
    BY ONLY <1>3, <2>2, <2>3, TrimEnds
  <2> QED
    BY <2>1, <2>4
<1> DEFINE a == sp \o th
           c == fu \o sp
<1>7. IsSeq(a)
  BY <1>3, <1>4, Concat
<1>8. IsSeq(c) /\ Len(c) = 3 /\ c[3] = Blank /\ c[2] = 7
  <2> DEFINE u == fu \o <<Blank>>
  <2>1. /\ IsSeq(u) /\ Len(u) = Len(fu) + 1 /\ u[Len(fu) + 1] = Blank
        /\ \A i \in 1 .. Len(fu) : u[i] = fu[i]
    BY <1>3, AppendOne
  <2>2. c = u
    BY <1>4
  <2> HIDE DEF c, u
  <2> QED
    BY <1>2, <2>1, <2>2
<1> HIDE DEF a, c
<1> DEFINE w == FlattenSeq(<<a, sp, c>>)
<1>9. IsSeq(w) /\ Ending(w, c)
  BY <1>4, <1>7, <1>8, ThreeEnd
<1> HIDE DEF w
<1>10. PICK n \in Nat : Len(w) = n + 3 /\ w[n + 2] = 7 /\ w[n + 3] = Blank
  <2>1. 2 \in 1 .. Len(c) /\ 3 \in 1 .. Len(c)
    BY <1>8
  <2> QED
    BY <1>8, <1>9, <2>1 DEF Ending
<1>11. trim(w) # THINKING_TEXT
  <2> DEFINE k == n + 2
  <2>1. k \in 1 .. Len(w) /\ w[k] \notin {Blank, 1}
    BY <1>5, <1>10
  <2>2. \A j \in 1 .. Len(w) : j > k => w[j] = Blank
    BY <1>10
  <2> HIDE DEF k
  <2> QED
    BY <1>9, <2>1, <2>2, TrimEnds
<1> QED
  BY <1>6, <1>11 DEF th, sp, fu, a, c, w

\* Every item of an answer restates.
LEMMA AnswerRestates ==
    ASSUME world.talk \in Talks, NEW t, NEW r \in ResponsesAnswers(t)
    PROVE  IsSeq(r.output) /\ \A i \in 1 .. Len(r.output) : Restates(r.output[i])
<1>1. PICK compaction \in Compactions(t), thoughts \in Reasonings(t), saying \in Sayings(t),
           calls \in Calls(t) : Uttered(r.output, t, compaction, thoughts, saying, calls)
  BY UtteredIs
<1> DEFINE called == FunctionCalls(calls)
           S == {x \in ToSet(compaction) \cup ToSet(thoughts) \cup ToSet(saying) \cup ToSet(called) : Restates(x)}
<1>2. Of(compaction, S)
  <2>1. compaction = <<>> \/ \E x : compaction = <<x>> /\ Restates(x)
    BY <1>1, CompactionRestates DEF Uttered
  <2>2. \A x : compaction = <<x>> /\ Restates(x) => x \in S
    BY DEF ToSet
  <2> HIDE DEF S
  <2> QED
    BY <2>1, <2>2, OfNone, OfOne
<1>3. Of(thoughts, S)
  <2> DEFINE R(s) == Reasoning(<<t, 2>>, s)
             segments == <<Space \o Thought(t), Space, Further(t) \o Space>>
             segment == <<Thought(t)>>
             blank == <<Space>>
  <2>1. Restates(R(segments)) /\ Restates(R(segment)) /\ Restates(R(blank)) /\ Restates(R(<<>>))
    <3>1. segments # <<>> /\ segment # <<>> /\ blank # <<>>
      OBVIOUS
    <3>2. /\ trim(FlattenSeq(segments)) # THINKING_TEXT /\ trim(FlattenSeq(segment)) # THINKING_TEXT
          /\ trim(FlattenSeq(blank)) # THINKING_TEXT
      BY ThoughtsTrimmed, TrimBlank, PlaceholderIsText
    <3> HIDE DEF segments, segment, blank
    <3> QED
      BY <3>1, <3>2, ReasoningRestates, BareRestates
  <2>2. thoughts \in {<<>>, <<R(<<>>)>>, <<R(segment)>>, <<R(segments)>>, <<R(blank)>>}
    BY DEF Reasonings, Varied
  <2> HIDE DEF R, segments, segment, blank
  <2>3. thoughts = <<>> \/ \E x : thoughts = <<x>> /\ Restates(x)
    BY <2>1, <2>2
  <2>4. \A x : thoughts = <<x>> /\ Restates(x) => x \in S
    BY DEF ToSet
  <2> HIDE DEF S
  <2> QED
    BY <2>3, <2>4, OfNone, OfOne
<1>4. Of(saying, S)
  <2>1. saying = <<>> \/ \E content : saying = <<MessageItem("assistant", content)>>
    BY DEF Sayings, Varied
  <2>2. saying = <<>> \/ \E x : saying = <<x>> /\ Restates(x)
    BY <2>1, SayingRestates
  <2>3. \A x : saying = <<x>> /\ Restates(x) => x \in S
    BY DEF ToSet
  <2> HIDE DEF S
  <2> QED
    BY <2>2, <2>3, OfNone, OfOne
<1>5. Of(called, S)
  <2>1. IsSeq(calls) /\ Len(calls) \in Nat /\ DOMAIN calls = 1 .. Len(calls)
    BY CallsIs, SeqFacts DEF Calling, Apiece
  <2>2. called = [i \in 1 .. Len(calls) |-> called[i]]
        /\ \A i \in 1 .. Len(calls) : called[i] = FunctionCall(calls[i])
    BY <2>1 DEF FunctionCalls
  <2>3. \A i \in 1 .. Len(calls) : Restates(called[i])
    BY <2>2, CallRestates
  <2>4. \A i \in 1 .. Len(calls) : called[i] \in ToSet(called)
    <3>1. DOMAIN called = 1 .. Len(calls)
      BY <2>1 DEF FunctionCalls
    <3> QED
      BY <3>1 DEF ToSet
  <2>5. \A i \in 1 .. Len(calls) : called[i] \in S
    BY <2>3, <2>4
  <2> HIDE DEF called, S
  <2> QED
    BY <2>1, <2>2, <2>5, OfEach
<1>6. \A x \in S : Restates(x)
  OBVIOUS
<1> DEFINE p == compaction \o thoughts
           q == p \o saying
<1>7. r.output = (p \o saying) \o called
  BY <1>1 DEF Uttered
<1> HIDE DEF S, called
<1>8. Of(p, S)
  BY ONLY <1>2, <1>3, OfJoin
<1> HIDE DEF p
<1>9. Of(q, S)
  BY ONLY <1>4, <1>8, OfJoin
<1> HIDE DEF q
<1>10. Of(q \o called, S)
  BY ONLY <1>5, <1>9, OfJoin
<1>11. Of(r.output, S)
  BY <1>7, <1>10 DEF q
<1> QED
  BY <1>6, <1>11 DEF Of

\* The choices of an answer bear no text or signature of the gateway's own.
LEMMA AnswerProper ==
    ASSUME world.talk \in Talks, NEW t, NEW choices \in ChatAnswers(t)
    PROVE  IsSeq(choices) /\ \A i \in 1 .. Len(choices) : ProperChoice(choices[i])
<1>1. PICK text \in Texts(t), reasoning \in ChatThoughts(t), opaque \in Opaques(t),
           calls \in Calls(t) :
             choices \in ChatAnswer(text, reasoning, opaque, calls)
  BY DEF ChatAnswers
<1> DEFINE speaking == Choice(text, reasoning, opaque, <<>>, "stop")
           calling  == Choice(NoText, NoText, NoSignature, calls, "tool_calls")
           whole    == Choice(text, reasoning, opaque, calls, "tool_calls")
<1>2. choices \in {<<speaking>>, <<whole>>, <<speaking, calling>>, <<calling, speaking>>}
  BY <1>1 DEF ChatAnswer, Varied
<1>3. ~HasAt(opaque) /\ ~HasAt(NoSignature)
  BY DEF Opaques, Varied, Signed, NoSignature, HasAt
<1>4. reasoning # THINKING_TEXT /\ NoText # THINKING_TEXT
  <2>1. reasoning \in {NoText, Thought(t)}
    BY DEF ChatThoughts, Varied
  <2>2. NoText # THINKING_TEXT
    <3>1. Len(NoText) = 0 /\ Len(THINKING_TEXT) = 1
      BY DEF NoText, THINKING_TEXT
    <3> QED
      BY <3>1
  <2> QED
    BY <2>1, <2>2, ThoughtIs
<1>5. /\ speaking.reasoning_opaque = opaque /\ speaking.reasoning_text = reasoning /\ speaking.tool_calls = <<>>
      /\ calling.reasoning_opaque = NoSignature /\ calling.reasoning_text = NoText /\ calling.tool_calls = calls
      /\ whole.reasoning_opaque = opaque /\ whole.reasoning_text = reasoning /\ whole.tool_calls = calls
  BY DEF Choice
<1>6. IsSeq(calls) /\ IsSeq(<<>>)
  BY CallsIs, None DEF Calling, Apiece
<1> HIDE DEF speaking, calling, whole
<1> DEFINE S == {speaking, calling, whole}
<1>7. \A x \in S : ProperChoice(x)
  BY <1>3, <1>4, <1>5, <1>6 DEF ProperChoice
<1>8. Of(choices, S)
  <2>1. speaking \in S /\ calling \in S /\ whole \in S
    OBVIOUS
  <2> HIDE DEF S
  <2>2. Of(<<speaking>>, S) /\ Of(<<whole>>, S)
    BY <2>1, OfOne
  <2>3. ASSUME NEW x \in S, NEW y \in S PROVE Of(<<x, y>>, S)
    <3> DEFINE w == <<x, y>>
    <3>1. w \in Seq(S)
      OBVIOUS
    <3> HIDE DEF w
    <3>2. Of(w, S)
      BY <3>1, SeqIs DEF Of
    <3> QED
      BY <3>2 DEF w
  <2> QED
    BY <1>2, <2>1, <2>2, <2>3
<1> HIDE DEF S
<1> QED
  BY <1>7, <1>8 DEF Of

\* Whatever upstream answers, the message made of it brings it back through the same API.
LEMMA AnswersReturn ==
    ASSUME world.talk \in Talks, NEW t, NEW api \in APIs, NEW a \in Answers(api, t),
           ~CutShort(a.answer), NEW m, NEW c
    PROVE  Returned(api, c, AssistantMessage(a.answer, api, m, a.said))
<1> DEFINE x == AssistantMessage(a.answer, api, m, a.said)
<1>1. x.role = "assistant" /\ x.content = a.answer.content /\ x.said = a.said
  BY DEF AssistantMessage
<1>2. x = [role |-> "assistant", form |-> x.form, content |-> x.content, stop |-> x.stop,
           api |-> x.api, model |-> x.model, said |-> x.said]
  BY DEF AssistantMessage
<1>3. PICK calls \in Calls(t) : Told(a.answer.content, a.answer.stop_reason, ToSet(calls))
  BY AnswersTold
<1> HIDE DEF x
<1>4. /\ IsSeq(x.content)
      /\ \A i \in 1 .. Len(x.content) : x.content[i].type \in {"text", "thinking", "tool_use"}
  BY <1>1, <1>3 DEF Told
<1>5. CASE api = "messages"
  <2>1. PICK s \in MessagesAnswers(t) :
          a = [said |-> s, answer |-> [content |-> s, stop_reason |-> ClaudeStop(s)]]
    BY <1>5 DEF Answers
  <2>2. a.answer.content = s /\ a.said = s
    BY <2>1
  <2>3. ByClaude(s)
    BY AnswerByClaude
  <2> DEFINE own == {x.content[i].call : i \in {j \in 1 .. Len(x.content) : x.content[j].type = "tool_use"}}
  <2>4. Spoken(x, own)
    BY <1>2, <1>4 DEF Spoken
  <2> HIDE DEF own
  <2>5. x.content = x.said /\ ByClaude(x.said)
    BY <1>1, <2>2, <2>3
  <2>6. Returned("messages", c, x)
    BY ONLY <2>4, <2>5, MessagesReturn
  <2> QED
    BY <1>5, <2>6 DEF x
<1>6. CASE api = "responses"
  <2>1. PICK r \in ResponsesAnswers(t) :
          a = [said |-> r.output, answer |-> translateResponsesResultToAnthropic(r)]
    BY <1>6 DEF Answers
  <2>2. a.answer = translateResponsesResultToAnthropic(r) /\ a.said = r.output
    BY <2>1
  <2>3. a.answer.content = Blocks(r.output)
    BY <2>2 DEF translateResponsesResultToAnthropic, Blocks
  <2> DEFINE s == FlattenSeq([i \in DOMAIN r.output |-> Restated(r.output[i])])
  <2>4. IsSeq(s) /\ (\A i \in 1 .. Len(s) : Legal(s[i])) /\ Blocks(r.output) = Mapped(s)
    BY AnswerRestates, AllRestated
  <2>5. SaidIn("responses", c, x) = s
    BY <1>1, <2>2 DEF SaidIn
  <2> HIDE DEF s
  <2>6. x.role = "assistant" /\ x.content = Mapped(s)
    BY <1>1, <2>3, <2>4
  <2>7. Returned("responses", c, x)
    BY ONLY <2>4, <2>5, <2>6, ResponsesReturn
  <2> QED
    BY <1>6, <2>7 DEF x
<1>7. CASE api = "chat"
  <2>1. PICK s \in ChatAnswers(t) : a = [said |-> s, answer |-> translateToAnthropic(s)]
    BY <1>7 DEF Answers
  <2>2. a.answer = translateToAnthropic(s) /\ a.said = s
    BY <2>1
  <2>3. a.answer.content = FlattenSeq([i \in DOMAIN s |-> ChoiceContent(s[i])])
    BY <2>2 DEF translateToAnthropic
  <2>4. IsSeq(s) /\ \A i \in 1 .. Len(s) : ProperChoice(s[i])
    BY AnswerProper
  <2>5. /\ IsSeq(x.said) /\ \A i \in 1 .. Len(x.said) : ProperChoice(x.said[i])
        /\ x.content = FlattenSeq([i \in DOMAIN x.said |-> ChoiceContent(x.said[i])])
    BY <1>1, <2>2, <2>3, <2>4
  <2>6. Returned("chat", c, x)
    BY <2>5, ChatReturn
  <2> QED
    BY <1>7, <2>6 DEF x
<1> QED
  BY <1>5, <1>6, <1>7 DEF APIs

-----------------------------------------------------------------------------
(* Operators                                                               *)

LEMMA OlderTyped ==
    ASSUME NEW most \in Nat, NEW age \in Never .. most
    PROVE  /\ Older(age, most) \in Never .. most
           /\ Older(age, most) = Never <=> age = Never
<1>1. Min({age + 1, most}) = IF age + 1 <= most THEN age + 1 ELSE most
  BY MinMax DEF Never
<1> QED
  BY <1>1 DEF Older, Never

LEMMA Appended ==
    ASSUME NEW s, IsSeq(s), NEW x
    PROVE  /\ IsSeq(Append(s, x)) /\ Append(s, x) # <<>>
           /\ Last(Append(s, x)) = x
<1> DEFINE S == ToSet(s) \cup {x}
<1>1. s \in Seq(S) /\ x \in S
  BY SeqOfMore DEF IsSeq
<1> HIDE DEF S
<1>2. /\ Append(s, x) \in Seq(S) /\ Append(s, x) # <<>>
      /\ Append(s, x)[Len(Append(s, x))] = x
  BY <1>1
<1>3. Append(s, x) \in Seq(ToSet(Append(s, x)))
  BY <1>2, SeqOfOwn
<1> QED
  BY <1>2, <1>3 DEF IsSeq, Last

-----------------------------------------------------------------------------
(* The model list                                                          *)

CatalogInv == CatalogTypeOK /\ fetches \in [FetchKinds -> Nat]

LEMMA CatalogInits ==
    ASSUME NEW list \in Lists, CatalogInit(list) PROVE CatalogInv
<1>1. /\ fetches \in [FetchKinds -> Nat] /\ fetches["prime"] = 0 /\ fetches["refresh"] = 0
      /\ fetches["list"] = 0
  BY DEF CatalogInit, FetchKinds
<1>2. loadedAge \in Never .. (StaleAfter + 1) /\ (loadedAge = Never <=> models = "none")
  BY CatalogAssumption DEF CatalogInit, Never
<1>3. primeAge \in Never .. PrimeCooldown
  BY CatalogAssumption DEF CatalogInit, Never
<1>4. ~primeInFlight /\ ~refreshInFlight /\ primeInFlight \in BOOLEAN /\ refreshInFlight \in BOOLEAN
  BY Zenon DEF CatalogInit
<1>5. models \in Lists
  BY DEF CatalogInit
<1>6. fetches["list"] \in 0 .. MaxListings
  BY <1>1, CatalogAssumption
<1> QED
  BY <1>1, <1>2, <1>3, <1>4, <1>5, <1>6 DEF CatalogInv, CatalogTypeOK

\* What runs in front of a request begins a fetch of a kind only where none is under
\* way, and raises its guard with it.
LEMMA RefreshTyped == CatalogInv /\ refreshIfStale => CatalogInv'
<1> SUFFICES ASSUME CatalogInv, refreshIfStale PROVE CatalogInv'
  OBVIOUS
<1>1. CASE UNCHANGED catalogVars
  BY <1>1 DEF catalogVars, CatalogInv, CatalogTypeOK
<1>2. CASE /\ MayPrime /\ primeAge' = 0 /\ primeInFlight' = TRUE /\ Fetching("prime")
           /\ UNCHANGED <<models, loadedAge, refreshInFlight>>
  BY <1>2, CatalogAssumption
     DEF CatalogInv, CatalogTypeOK, FetchKinds, Never, MayPrime, Fetching
<1>3. CASE /\ MayRefresh /\ refreshInFlight' = TRUE /\ Fetching("refresh")
           /\ UNCHANGED <<models, loadedAge, primeAge, primeInFlight>>
  BY <1>3 DEF CatalogInv, CatalogTypeOK, FetchKinds, MayRefresh, Fetching
<1> QED
  BY <1>1, <1>2, <1>3 DEF refreshIfStale

LEMMA ListTyped == CatalogInv /\ ListModels => CatalogInv'
  BY CatalogAssumption DEF ListModels, CatalogInv, CatalogTypeOK, FetchKinds, Fetching

\* A fetch that ends takes down its own guard and no other.
LEMMA FetchTyped ==
    ASSUME CatalogInv, NEW kind \in FetchKinds, NEW list \in Lists, FetchSettles(kind, list)
    PROVE  CatalogInv'
<1>1. /\ models' \in Lists
      /\ loadedAge' \in Never .. (StaleAfter + 1) /\ (loadedAge' = Never <=> models' = "none")
  BY CatalogAssumption DEF FetchSettles, setModels, CatalogInv, CatalogTypeOK, Lists, Never
<1>2. fetches' \in [FetchKinds -> Nat]
  BY DEF FetchSettles, CatalogInv
<1>3. /\ primeInFlight' \in BOOLEAN /\ refreshInFlight' \in BOOLEAN
      /\ primeInFlight' <=> primeInFlight /\ kind # "prime"
      /\ refreshInFlight' <=> refreshInFlight /\ kind # "refresh"
  BY DEF FetchSettles, StillGuarded, CatalogInv, CatalogTypeOK
<1>4. /\ fetches'["prime"] = (IF primeInFlight' THEN 1 ELSE 0)
      /\ fetches'["refresh"] = (IF refreshInFlight' THEN 1 ELSE 0)
      /\ fetches'["list"] \in 0 .. MaxListings
  BY <1>3, CatalogAssumption DEF FetchSettles, CatalogInv, CatalogTypeOK, FetchKinds
<1> QED
  BY <1>1, <1>2, <1>3, <1>4 DEF FetchSettles, CatalogInv, CatalogTypeOK

LEMMA AgesTyped == CatalogInv /\ CatalogAges => CatalogInv'
  BY OlderTyped, CatalogAssumption DEF CatalogAges, CatalogInv, CatalogTypeOK

LEMMA CatalogStays == CatalogInv /\ UNCHANGED catalogVars => CatalogInv'
  BY DEF catalogVars, CatalogInv, CatalogTypeOK

-----------------------------------------------------------------------------
(* The usage tally                                                         *)

Query == [tail: Nat, waits: BOOLEAN]

\* There are no more sums to take than there were events: each was set off by the mark
\* of one.
UsageInv ==
    /\ UsageTypeOK /\ queries \in Seq(Query)
    /\ Len(queries) + (IF usageDirty THEN 1 ELSE 0) <= recorded

LEMMA UsageInits == UsageInit => UsageInv
<1> SUFFICES ASSUME UsageInit PROVE UsageInv
  OBVIOUS
<1>1. queries \in Seq(Query) /\ Len(queries) = 0 /\ DOMAIN queries = {}
  BY DEF UsageInit
<1>2. \A q \in DOMAIN queries : queries[q].tail \in 0 .. recorded /\ queries[q].waits \in BOOLEAN
  BY <1>1
<1>3. /\ Len(queries) <= MaxEvents
      /\ Len(queries) + (IF usageDirty THEN 1 ELSE 0) <= recorded
  BY <1>1, UsageAssumption DEF UsageInit
<1>4. usageDirty \in BOOLEAN /\ untold \in BOOLEAN
  BY Zenon DEF UsageInit
<1>5. /\ recorded \in 0 .. MaxEvents /\ settled \in 0 .. recorded
      /\ stored \in 0 .. settled /\ told \in 0 .. stored
  BY UsageAssumption DEF UsageInit
<1> QED
  BY <1>1, <1>2, <1>3, <1>4, <1>5 DEF UsageInv, UsageTypeOK

LEMMA RecordTyped == UsageInv /\ recordTokenUsageEvent => UsageInv'
<1> SUFFICES ASSUME UsageInv, recordTokenUsageEvent PROVE UsageInv'
  OBVIOUS
<1>1. CASE UNCHANGED usageVars
  BY <1>1 DEF usageVars, UsageInv, UsageTypeOK
<1>2. CASE ~UNCHANGED usageVars
  <2>1. /\ recorded # MaxEvents /\ recorded' = recorded + 1 /\ usageDirty' = TRUE
        /\ UNCHANGED <<settled, stored, queries, told, untold>>
    BY <1>2 DEF recordTokenUsageEvent
  <2>2. Len(queries) \in Nat
    BY DEF UsageInv
  <2>3. Len(queries') + 1 <= recorded' /\ Len(queries') <= MaxEvents
    BY <2>1, <2>2, UsageAssumption DEF UsageInv, UsageTypeOK
  <2>4. \A q \in DOMAIN queries' : queries'[q].tail \in 0 .. recorded' /\ queries'[q].waits \in BOOLEAN
    BY <2>1, UsageAssumption DEF UsageInv, UsageTypeOK
  <2> QED
    BY <2>1, <2>3, <2>4, UsageAssumption DEF UsageInv, UsageTypeOK
<1> QED
  BY <1>1, <1>2

LEMMA WriteTyped == UsageInv /\ WriteSettles => UsageInv'
  BY UsageAssumption DEF WriteSettles, UsageInv, UsageTypeOK

LEMMA TickerTyped == UsageInv /\ TickerFires => UsageInv'
<1> SUFFICES ASSUME UsageInv, TickerFires PROVE UsageInv'
  OBVIOUS
<1>1. queries \in Seq(Query) /\ NewQuery \in Query /\ NewQuery.tail \in 0 .. recorded
  BY UsageAssumption DEF UsageInv, UsageTypeOK, NewQuery, Query
<1>2. /\ queries' \in Seq(Query) /\ Len(queries') = Len(queries) + 1
      /\ \A q \in DOMAIN queries' :
           queries'[q] = NewQuery \/ (q \in DOMAIN queries /\ queries'[q] = queries[q])
  <2> DEFINE new == NewQuery
  <2>1. queries' = Append(queries, new) /\ new \in Query
    BY <1>1 DEF TickerFires
  <2> HIDE DEF new
  <2>2. /\ queries' \in Seq(Query) /\ Len(queries') = Len(queries) + 1
        /\ \A q \in 1 .. Len(queries) + 1 :
             queries'[q] = IF q <= Len(queries) THEN queries[q] ELSE new
    BY <1>1, <2>1
  <2>3. DOMAIN queries' = 1 .. Len(queries) + 1 /\ DOMAIN queries = 1 .. Len(queries)
    BY <1>1, <2>2
  <2> QED
    BY <1>1, <2>2, <2>3 DEF new
<1>3. \A q \in DOMAIN queries' : queries'[q].tail \in 0 .. recorded /\ queries'[q].waits \in BOOLEAN
  BY <1>1, <1>2 DEF UsageInv, UsageTypeOK, Query
<1>4. Len(queries) \in Nat
  BY <1>1
<1>5. /\ Len(queries') + (IF usageDirty' THEN 1 ELSE 0) <= recorded'
      /\ Len(queries') <= MaxEvents
  BY <1>2, <1>4, UsageAssumption DEF TickerFires, UsageInv, UsageTypeOK
<1> QED
  BY <1>2, <1>3, <1>5 DEF TickerFires, UsageInv, UsageTypeOK

\* A sum that has ended leaves the others as they are.
LEMMA Removal ==
    ASSUME NEW s \in Seq(Query), NEW i \in DOMAIN s
    PROVE  /\ RemoveAt(s, i) \in Seq(Query) /\ Len(RemoveAt(s, i)) = Len(s) - 1
           /\ \A j \in DOMAIN RemoveAt(s, i) : \E k \in DOMAIN s : RemoveAt(s, i)[j] = s[k]
<1> DEFINE front == SubSeq(s, 1, i - 1)
           back  == SubSeq(s, i + 1, Len(s))
<1>1. front \in Seq(Query) /\ Len(front) = i - 1 /\ \A j \in 1 .. i - 1 : front[j] = s[j]
  OBVIOUS
<1>2. /\ back \in Seq(Query) /\ Len(back) = Len(s) - i
      /\ \A j \in 1 .. Len(s) - i : back[j] = s[i + j]
  OBVIOUS
<1>3. RemoveAt(s, i) = front \o back
  BY DEF RemoveAt
<1>4. i \in 1 .. Len(s) /\ Len(s) \in Nat
  OBVIOUS
<1> HIDE DEF front, back
<1>5. /\ RemoveAt(s, i) \in Seq(Query) /\ Len(RemoveAt(s, i)) = Len(front) + Len(back)
      /\ \A j \in 1 .. Len(front) + Len(back) :
           RemoveAt(s, i)[j] = IF j <= Len(front) THEN front[j] ELSE back[j - Len(front)]
  <2>1. /\ front \o back \in Seq(Query) /\ Len(front \o back) = Len(front) + Len(back)
        /\ \A j \in 1 .. Len(front) + Len(back) :
             (front \o back)[j] = IF j <= Len(front) THEN front[j] ELSE back[j - Len(front)]
    BY <1>1, <1>2, ConcatProperties
  <2> QED
    BY <2>1, <1>3
<1>6. Len(RemoveAt(s, i)) = Len(s) - 1
  BY <1>1, <1>2, <1>4, <1>5
<1>7. ASSUME NEW j \in 1 .. Len(s) - 1
      PROVE  RemoveAt(s, i)[j] = s[IF j < i THEN j ELSE j + 1]
  <2>1. CASE j < i
    <3>1. j \in 1 .. i - 1 /\ j \in 1 .. (i - 1) + (Len(s) - i) /\ j <= i - 1
      BY <1>4, <2>1
    <3>2. RemoveAt(s, i)[j] = front[j]
      BY <1>1, <1>2, <1>5, <3>1
    <3> QED
      BY <1>1, <2>1, <3>1, <3>2
  <2>2. CASE ~(j < i)
    <3>1. /\ j - (i - 1) \in 1 .. Len(s) - i /\ i + (j - (i - 1)) = j + 1
          /\ j \in 1 .. (i - 1) + (Len(s) - i) /\ ~(j <= i - 1)
      BY <1>4, <2>2
    <3>2. RemoveAt(s, i)[j] = back[j - (i - 1)]
      BY <1>1, <1>2, <1>5, <3>1
    <3>3. back[j - (i - 1)] = s[j + 1]
      BY <1>2, <3>1
    <3> QED
      BY <2>2, <3>2, <3>3
  <2> QED
    BY <2>1, <2>2
<1>8. DOMAIN RemoveAt(s, i) = 1 .. Len(s) - 1
  BY <1>5, <1>6
<1>9. \A j \in 1 .. Len(s) - 1 : (IF j < i THEN j ELSE j + 1) \in 1 .. Len(s)
  BY <1>4
<1>10. DOMAIN s = 1 .. Len(s)
  OBVIOUS
<1> QED
  BY <1>5, <1>6, <1>7, <1>8, <1>9, <1>10

LEMMA QueryTyped == UsageInv /\ QueryStep => UsageInv'
<1> SUFFICES ASSUME UsageInv, NEW q \in DOMAIN queries, FlushGoesOn(q) \/ SumEnds(q)
             PROVE  UsageInv'
  BY DEF QueryStep
<1>1. CASE FlushGoesOn(q)
  <2> DEFINE next == [tail |-> recorded, waits |-> queries[q].tail # recorded]
  <2>1. next \in Query /\ next.tail \in 0 .. recorded /\ next.waits \in BOOLEAN
    BY UsageAssumption DEF UsageInv, UsageTypeOK, Query
  <2> HIDE DEF next
  <2>2. /\ queries' = [queries EXCEPT ![q] = next] /\ queries \in Seq(Query)
        /\ UNCHANGED <<recorded, settled, stored, usageDirty, told, untold>>
    BY <1>1 DEF FlushGoesOn, UsageInv, next
  <2>3. /\ queries' \in Seq(Query) /\ Len(queries') = Len(queries)
        /\ DOMAIN queries' = DOMAIN queries
        /\ \A p \in DOMAIN queries : queries'[p] = IF p = q THEN next ELSE queries[p]
    BY <2>1, <2>2
  <2> QED
    BY <2>1, <2>2, <2>3 DEF UsageInv, UsageTypeOK
<1>2. CASE SumEnds(q)
  <2>1. /\ queries \in Seq(Query) /\ queries' = RemoveAt(queries, q)
        /\ UNCHANGED <<recorded, settled, stored, usageDirty>>
        /\ told' \in {told, stored} /\ untold' \in BOOLEAN
    BY <1>2 DEF SumEnds, UsageInv
  <2>2. /\ queries' \in Seq(Query) /\ Len(queries') = Len(queries) - 1
        /\ \A j \in DOMAIN queries' : \E k \in DOMAIN queries : queries'[j] = queries[k]
    BY <2>1, Removal
  <2>3. Len(queries) \in Nat
    BY <2>1
  <2>4. Len(queries') + (IF usageDirty' THEN 1 ELSE 0) <= recorded' /\ Len(queries') <= MaxEvents
    BY <2>1, <2>2, <2>3, UsageAssumption DEF UsageInv, UsageTypeOK
  <2>5. told' \in 0 .. stored'
    BY <2>1, UsageAssumption DEF UsageInv, UsageTypeOK
  <2> QED
    BY <2>1, <2>2, <2>4, <2>5 DEF UsageInv, UsageTypeOK
<1> QED
  BY <1>1, <1>2

LEMMA UsageStays == UsageInv /\ UNCHANGED usageVars => UsageInv'
  BY DEF usageVars, UsageInv, UsageTypeOK

-----------------------------------------------------------------------------
(* The request path                                                        *)

Nap == [left: 0 .. RateLimit, since: 0 .. (RateLimit + 1)]

\* Where a request stands fits what was sent for it, and from the moment it is asked
\* until it is answered its conversation ends with the user's message.
Request(c) ==
    /\ sent[c].api \in APIs \cup {"none"} /\ (phase[c] = "asked" <=> sent[c].api # "none")
    /\ IsSeq(convo[c])
    /\ phase[c] \in {"limited", "reading", "approving", "asked"} =>
         convo[c] # <<>> /\ Last(convo[c]).role = "user"

RequestInv ==
    /\ world \in Worlds
    /\ lastRequest \in Never .. (RateLimit + 1)
    /\ faults \in 0 .. world.faults
    /\ phase \in [Clients -> Phases] /\ nap \in [Clients -> Nap] /\ model \in [Clients -> Models]
    /\ sent = [c \in Clients |-> sent[c]] /\ convo = [c \in Clients |-> convo[c]]
    /\ \A c \in Clients : Request(c)

IInv == RequestInv /\ CatalogInv /\ UsageInv

LEMMA RequestInit == Init => RequestInv
<1> SUFFICES ASSUME Init PROVE RequestInv
  OBVIOUS
<1>1. world.models \subseteq Models /\ world \in Worlds /\ world.faults \in Nat
  BY WorldsAssumption DEF Init
<1>2. Awake \in Nap /\ Never \in Never .. (RateLimit + 1)
  BY GatewayAssumption DEF Awake, Nap, Never
<1>3. IsSeq(<<>>) /\ NothingSent.api = "none"
  BY DEF IsSeq, NothingSent
<1>4. \A c \in Clients : phase[c] = "idle" /\ sent[c] = NothingSent /\ convo[c] = <<>>
  BY DEF Init
<1>5. \A c \in Clients : Request(c)
  BY <1>3, <1>4 DEF Request
<1>6. sent = [c \in Clients |-> sent[c]] /\ convo = [c \in Clients |-> convo[c]]
  BY DEF Init
<1> QED
  BY <1>1, <1>2, <1>5, <1>6 DEF Init, RequestInv, Phases

\* A step for one client's request is judged by where it leaves that request.
LEMMA OneRequest ==
    ASSUME RequestInv, NEW c \in Clients, world' = world,
           lastRequest' \in Never .. (RateLimit + 1), faults' \in 0 .. world.faults,
           NEW to \in Phases, Move(c, to),
           nap' = nap \/ \E n \in Nap : nap' = [nap EXCEPT ![c] = n],
           model' = model \/ \E m \in Models : model' = [model EXCEPT ![c] = m],
           sent' = sent \/ \E s : sent' = [sent EXCEPT ![c] = s],
           convo' = convo \/ \E h : convo' = [convo EXCEPT ![c] = h],
           Request(c)'
    PROVE  RequestInv'
<1>1. Clients' = Clients
  BY DEF Clients
<1>2. /\ phase' \in [Clients -> Phases] /\ nap' \in [Clients -> Nap]
      /\ model' \in [Clients -> Models]
  BY DEF RequestInv, Move
<1>3. /\ sent' = [d \in Clients |-> sent'[d]] /\ convo' = [d \in Clients |-> convo'[d]]
      /\ \A d \in Clients \ {c} :
           sent'[d] = sent[d] /\ convo'[d] = convo[d] /\ phase'[d] = phase[d]
  BY DEF RequestInv, Move
<1>4. \A d \in Clients : Request(d)'
  BY <1>3 DEF RequestInv, Request
<1> QED
  BY <1>1, <1>2, <1>3, <1>4 DEF RequestInv

LEMMA UserSpeaks ==
    ASSUME NEW messages, NEW message \in NextMessages(messages)
    PROVE  message.role = "user"
  BY DEF NextMessages, UserMessage

\* The rate limit lets a request through, refuses it, or puts it to sleep.
LEMMA LimitTyped ==
    ASSUME RequestInv, NEW c \in Clients, checkRateLimit(c)
    PROVE  /\ lastRequest' \in Never .. (RateLimit + 1)
           /\ \E to \in {"reading", "idle", "limited"} : Move(c, to)
           /\ nap' = nap \/ \E n \in Nap : nap' = [nap EXCEPT ![c] = n]
<1>1. CASE UNCHANGED nap
  BY <1>1, GatewayAssumption DEF checkRateLimit, RequestInv, Never
<1>2. CASE /\ world.limit = "wait" /\ lastRequest # Never /\ lastRequest <= RateLimit
           /\ nap' = [nap EXCEPT ![c] = [left |-> RateLimit - lastRequest, since |-> 0]]
           /\ Move(c, "limited") /\ UNCHANGED lastRequest
  <2>1. [left |-> RateLimit - lastRequest, since |-> 0] \in Nap
    BY <1>2, GatewayAssumption DEF RequestInv, Nap, Never
  <2> QED
    BY <1>2, <2>1 DEF RequestInv
<1> QED
  BY <1>1, <1>2 DEF checkRateLimit

LEMMA AskTyped == ASSUME IInv, NEW c \in Clients, Ask(c) PROVE IInv'
<1>1. CatalogInv' /\ UsageInv'
  BY RefreshTyped, UsageStays DEF Ask, IInv
<1>2. PICK to \in {"reading", "idle", "limited"} : Move(c, to)
  BY LimitTyped DEF Ask, IInv
<1>3. /\ lastRequest' \in Never .. (RateLimit + 1)
      /\ nap' = nap \/ \E n \in Nap : nap' = [nap EXCEPT ![c] = n]
  BY LimitTyped DEF Ask, IInv
<1>4. /\ world' = world /\ sent' = sent /\ faults' \in 0 .. world.faults
      /\ phase[c] = "idle" /\ phase'[c] = to /\ Request(c)
  BY <1>2 DEF Ask, IInv, RequestInv, Move
<1>5. CASE convo[c] # <<>> /\ Last(convo[c]).role = "user"
  <2>1. convo' = convo /\ model' = model
    BY <1>5 DEF Ask
  <2>2. Request(c)'
    BY <1>4, <1>5, <2>1 DEF Request
  <2> QED
    BY <1>1, <1>2, <1>3, <1>4, <2>1, <2>2, OneRequest DEF IInv, Phases
<1>6. CASE ~(convo[c] # <<>> /\ Last(convo[c]).role = "user")
  <2> DEFINE history == IF Turns(convo[c]) = world.turns THEN <<>> ELSE convo[c]
  <2>1. PICK message \in NextMessages(history) :
             convo' = [convo EXCEPT ![c] = Append(history, message)]
    BY <1>6 DEF Ask
  <2>2. PICK m \in world.models : model' = [model EXCEPT ![c] = m]
    BY <1>6 DEF Ask
  <2>3. IsSeq(history)
    <3>1. IsSeq(<<>>)
      BY DEF IsSeq
    <3> QED
      BY <1>4, <3>1 DEF Request
  <2>4. message.role = "user"
    BY <2>1, UserSpeaks
  <2> HIDE DEF history
  <2>5. convo'[c] = Append(history, message)
    BY <2>1 DEF IInv, RequestInv
  <2>6. IsSeq(convo'[c]) /\ convo'[c] # <<>> /\ Last(convo'[c]).role = "user"
    BY <2>3, <2>4, <2>5, Appended
  <2>7. Request(c)'
    BY <1>4, <2>6 DEF Request
  <2>8. m \in Models
    BY WorldsAssumption DEF IInv, RequestInv
  <2> QED
    BY <1>1, <1>2, <1>3, <1>4, <2>1, <2>2, <2>7, <2>8, OneRequest DEF IInv, Phases
<1> QED
  BY <1>5, <1>6

LEMMA WaitedTyped == ASSUME IInv, NEW c \in Clients, RateLimitWaited(c) PROVE IInv'
<1>1. CatalogInv' /\ UsageInv'
  BY CatalogStays, UsageStays DEF RateLimitWaited, IInv
<1>2. Awake \in Nap /\ nap[c].since \in Never .. (RateLimit + 1)
  BY GatewayAssumption DEF Awake, Nap, Never, IInv, RequestInv
<1>3. Request(c)'
  BY DEF RateLimitWaited, IInv, RequestInv, Request, Move
<1> QED
  BY <1>1, <1>2, <1>3, OneRequest DEF RateLimitWaited, IInv, RequestInv, Phases

\* What leaves for upstream goes by one of its three APIs.
LEMMA DispatchTyped ==
    ASSUME RequestInv, NEW c \in Clients, Dispatch(c), phase[c] \in {"reading", "approving"}
    PROVE  /\ Move(c, "asked") /\ convo' = convo /\ Request(c)'
           /\ \E s : sent' = [sent EXCEPT ![c] = s]
<1>1. ApiOf(model[c]) \in APIs /\ "none" \notin APIs
  BY DEF ApiOf, APIs
<1>2. PICK s : sent' = [sent EXCEPT ![c] = s] /\ s.api \in APIs
  <2> DEFINE request == [api |-> ApiOf(model[c]), model |-> model[c],
                         payload |-> UpstreamPayload(ApiOf(model[c]), model[c], Prepared(convo[c], world.system))]
  <2>1. sent' = [sent EXCEPT ![c] = request]
    BY DEF Dispatch
  <2>2. request.api \in APIs
    BY <1>1
  <2> QED
    BY <2>1, <2>2
<1>3. sent'[c].api \in APIs /\ phase'[c] = "asked" /\ convo' = convo
  BY <1>2 DEF Dispatch, Move, RequestInv
<1> QED
  BY <1>1, <1>2, <1>3 DEF Dispatch, Request, RequestInv

LEMMA HandleTyped == ASSUME IInv, NEW c \in Clients, Handle(c) PROVE IInv'
<1>1. CatalogInv' /\ UsageInv'
  BY CatalogStays, UsageStays DEF Handle, IInv
<1>2. /\ UNCHANGED <<world, lastRequest, nap, model, faults>> /\ phase[c] = "reading"
      /\ Request(c) /\ RequestInv
      /\ lastRequest \in Never .. (RateLimit + 1) /\ faults \in 0 .. world.faults
  BY DEF Handle, IInv, RequestInv
<1>3. CASE AnswerWarmup(c)
  <2>1. IsSeq(convo'[c]) /\ phase'[c] = "idle" /\ sent' = sent
    BY <1>2, <1>3 DEF AnswerWarmup, Move, RequestInv, IsSeq
  <2>2. Request(c)'
    BY <1>2, <2>1 DEF Request
  <2> QED
    BY <1>1, <1>2, <1>3, <2>2, OneRequest DEF AnswerWarmup, IInv, Phases
<1>4. CASE Move(c, "approving") /\ UNCHANGED <<convo, sent>>
  <2>1. Request(c)'
    BY <1>2, <1>4 DEF Request, Move, RequestInv
  <2> QED
    BY <1>1, <1>2, <1>4, <2>1, OneRequest DEF IInv, Phases
<1>5. CASE Dispatch(c)
  BY <1>1, <1>2, <1>5, DispatchTyped, OneRequest DEF IInv, Phases
<1> QED
  BY <1>3, <1>4, <1>5 DEF Handle

LEMMA ApproveTyped == ASSUME IInv, NEW c \in Clients, Approve(c) PROVE IInv'
<1>1. CatalogInv' /\ UsageInv'
  BY CatalogStays, UsageStays DEF Approve, IInv
<1>2. /\ UNCHANGED <<world, lastRequest, nap, model, faults>> /\ phase[c] = "approving"
      /\ Request(c) /\ RequestInv
      /\ lastRequest \in Never .. (RateLimit + 1) /\ faults \in 0 .. world.faults
  BY DEF Approve, IInv, RequestInv
<1>3. CASE Dispatch(c)
  BY <1>1, <1>2, <1>3, DispatchTyped, OneRequest DEF IInv, Phases
<1>4. CASE Move(c, "idle") /\ UNCHANGED <<convo, sent>>
  <2>1. Request(c)'
    BY <1>2, <1>4 DEF Request, Move, RequestInv
  <2> QED
    BY <1>1, <1>2, <1>4, <2>1, OneRequest DEF IInv, Phases
<1> QED
  BY <1>3, <1>4 DEF Approve

LEMMA AnswersTyped ==
    ASSUME IInv, NEW c \in Clients, UpstreamAnswers(c) \/ UpstreamFails(c) PROVE IInv'
<1>1. CatalogInv' /\ UsageInv'
  BY CatalogStays, UsageStays, RecordTyped DEF UpstreamAnswers, UpstreamFails, IInv
<1>2. /\ UNCHANGED <<world, lastRequest, nap, model>> /\ Move(c, "idle")
      /\ sent' = [sent EXCEPT ![c] = NothingSent]
      /\ Request(c) /\ RequestInv /\ lastRequest \in Never .. (RateLimit + 1)
  BY DEF UpstreamAnswers, UpstreamFails, IInv, RequestInv
<1>3. faults' \in 0 .. world.faults
  <2>1. world.faults \in Nat
    BY WorldsAssumption DEF IInv, RequestInv
  <2> QED
    BY <2>1 DEF UpstreamAnswers, UpstreamFails, IInv, RequestInv
<1>4. PICK h : IsSeq(h) /\ (convo' = [convo EXCEPT ![c] = h])
  <2>1. ASSUME convo' = convo PROVE IsSeq(convo[c]) /\ convo' = [convo EXCEPT ![c] = convo[c]]
    BY <1>2, <2>1 DEF Request, RequestInv
  <2>2. CASE UpstreamAnswers(c)
    <3>1. \/ convo' = convo
          \/ \E a : convo' = [convo EXCEPT ![c] = Append(convo[c],
                     AssistantMessage(a.answer, sent[c].api, sent[c].model, a.said))]
      BY <2>2 DEF UpstreamAnswers
    <3> QED
      BY <1>2, <2>1, <3>1, Appended DEF Request
  <2>3. CASE UpstreamFails(c)
    BY <2>3, <2>1 DEF UpstreamFails
  <2> QED
    BY <2>2, <2>3
<1>5. sent'[c].api = "none" /\ phase'[c] = "idle" /\ convo'[c] = h
  BY <1>2, <1>4 DEF RequestInv, Move, NothingSent
<1>6. Request(c)'
  BY <1>4, <1>5 DEF Request
<1> QED
  BY <1>1, <1>2, <1>3, <1>4, <1>6, OneRequest DEF IInv, Phases

LEMMA ModelsTyped ==
    ASSUME IInv, NEW c \in Clients, NEW list \in Lists,
           AskForModels(c) \/ List(c) \/ ModelsListed(c, list)
    PROVE  IInv'
<1>1. CatalogInv' /\ UsageInv'
  BY CatalogStays, UsageStays, RefreshTyped, ListTyped, FetchTyped
     DEF AskForModels, List, ModelsListed, IInv, FetchKinds
<1>2. /\ UNCHANGED <<world, lastRequest, nap, convo, model, sent, faults>> /\ RequestInv
      /\ phase[c] \in {"idle", "listing", "fetching"} /\ Request(c)
      /\ lastRequest \in Never .. (RateLimit + 1) /\ faults \in 0 .. world.faults
  BY DEF AskForModels, List, ModelsListed, IInv, RequestInv
<1>3. PICK to \in {"idle", "listing", "fetching"} : Move(c, to)
  BY DEF AskForModels, List, ModelsListed
<1>4. Request(c)'
  BY <1>2, <1>3 DEF Request, Move, RequestInv
<1> QED
  BY <1>1, <1>2, <1>3, <1>4, OneRequest DEF IInv, Phases

\* A step that leaves every request where it is.
LEMMA RequestsStay ==
    ASSUME RequestInv, UNCHANGED <<world, phase, convo, model, sent, faults>>,
           lastRequest' \in Never .. (RateLimit + 1), nap' \in [Clients -> Nap]
    PROVE  RequestInv'
  BY DEF RequestInv, Request, Clients

LEMMA TickTyped == IInv /\ Tick => IInv'
<1> SUFFICES ASSUME IInv, Tick PROVE IInv'
  OBVIOUS
<1>1. CatalogInv' /\ UsageInv'
  BY AgesTyped, UsageStays DEF Tick, IInv
<1>2. lastRequest' \in Never .. (RateLimit + 1)
  <2>1. RateLimit + 1 \in Nat /\ lastRequest \in Never .. (RateLimit + 1)
    BY GatewayAssumption DEF IInv, RequestInv
  <2> QED
    BY <2>1, OlderTyped DEF Tick
<1>3. ASSUME NEW n \in Nap
      PROVE  [left |-> Max({n.left - 1, 0}), since |-> Min({n.since + 1, RateLimit + 1})] \in Nap
  <2>1. n.left \in 0 .. RateLimit /\ n.since \in 0 .. (RateLimit + 1)
    BY DEF Nap
  <2>2. /\ Max({n.left - 1, 0}) = IF n.left - 1 <= 0 THEN 0 ELSE n.left - 1
        /\ Min({n.since + 1, RateLimit + 1}) =
             IF n.since + 1 <= RateLimit + 1 THEN n.since + 1 ELSE RateLimit + 1
    <3>1. n.left - 1 \in Int /\ n.since + 1 \in Int /\ RateLimit + 1 \in Int /\ 0 \in Int
      BY <2>1, GatewayAssumption
    <3>2. \A a, b \in Int : /\ Min({a, b}) = IF a <= b THEN a ELSE b
                            /\ Max({a, b}) = IF a <= b THEN b ELSE a
      BY MinMax
    <3> QED
      BY <3>1, <3>2
  <2>3. /\ Max({n.left - 1, 0}) \in 0 .. RateLimit
        /\ Min({n.since + 1, RateLimit + 1}) \in 0 .. (RateLimit + 1)
    BY <2>1, <2>2, GatewayAssumption
  <2> QED
    BY <2>3 DEF Nap
<1>4. nap' \in [Clients -> Nap]
  <2>1. \A c \in Clients : nap[c] \in Nap
    BY DEF IInv, RequestInv
  <2> QED
    BY <1>3, <2>1 DEF Tick
<1> QED
  BY <1>1, <1>2, <1>4, RequestsStay DEF Tick, IInv

LEMMA IInvNext == IInv /\ [Next]_vars => IInv'
<1> SUFFICES ASSUME IInv, [Next]_vars PROVE IInv'
  OBVIOUS
<1>1. ASSUME UNCHANGED <<world, gatewayVars>> PROVE RequestInv'
  BY <1>1, RequestsStay DEF gatewayVars, IInv, RequestInv
<1>2. ASSUME NEW list \in Lists, BackgroundFetchSettles(list) PROVE IInv'
  BY <1>1, <1>2, FetchTyped, UsageStays DEF BackgroundFetchSettles, IInv, FetchKinds
<1>3. CASE UsageWritten \/ UsageTicks \/ UsageSummed
  BY <1>1, <1>3, CatalogStays, WriteTyped, TickerTyped, QueryTyped
     DEF UsageWritten, UsageTicks, UsageSummed, IInv
<1>4. CASE UNCHANGED vars
  BY <1>1, <1>4, CatalogStays, UsageStays DEF vars, IInv
<1> QED
  BY <1>2, <1>3, <1>4, TickTyped, AskTyped, WaitedTyped, HandleTyped, ApproveTyped,
     AnswersTyped, ModelsTyped DEF Next, Lists

LEMMA InitTyped == Init => IInv
<1> SUFFICES ASSUME Init PROVE IInv
  OBVIOUS
<1>1. world.catalog \in Lists
  BY WorldsAssumption DEF Init
<1> QED
  BY <1>1, RequestInit, CatalogInits, UsageInits DEF Init, IInv

\* Whatever overlaps, the background fetches of the model list are single-flight and
\* their guards are up exactly while they run, no sum of the usage is told that is not
\* stored, sleeps keep within the rate limit, and a request that waits for upstream has
\* the user's message at its end.
THEOREM TypeCorrect == Spec => []TypeOK
<1>1. Init => IInv
  BY InitTyped
<1>2. IInv => TypeOK
  BY DEF IInv, RequestInv, CatalogInv, UsageInv, Request, TypeOK, Nap
<1> QED
  BY <1>1, <1>2, IInvNext, PTL DEF Spec

-----------------------------------------------------------------------------
(* Conversations go on                                                     *)

LEMMA AppendIs ==
    ASSUME NEW s, IsSeq(s), NEW x
    PROVE  /\ IsSeq(Append(s, x)) /\ Len(Append(s, x)) = Len(s) + 1
           /\ \A i \in 1 .. Len(s) : Append(s, x)[i] = s[i]
           /\ Append(s, x)[Len(s) + 1] = x
<1> DEFINE S == ToSet(s) \cup {x}
<1>1. s \in Seq(S) /\ x \in S
  BY SeqOfMore DEF IsSeq
<1> HIDE DEF S
<1>2. Append(s, x) \in Seq(S)
  BY <1>1
<1>3. IsSeq(Append(s, x))
  BY <1>2, SeqIs
<1> QED
  BY <1>1, <1>3

\* A conversation with one more message.
LEMMA TalkGoesOn ==
    ASSUME NEW s, Talked(s), NEW x, NEW u, u = Append(s, x),
           \/ /\ x.role = "user"
              /\ s # <<>> => Len(s) \notin UserAt(s)
              /\ Heard(Len(s) + 1, x, IF s = <<>> THEN {} ELSE Own(Last(s).content))
           \/ /\ x.role # "user" /\ TurnOf(Len(s) + 1, x)
              /\ Len(s) \in UserAt(s)
    PROVE  Talked(u)
<1> DEFINE N == Len(s)
           U == UserAt(s)
           V == UserAt(u)
           calls == CallsIn(s)
           more == CallsIn(u)
<1>1. /\ IsSeq(s) /\ N \in Nat /\ (s = <<>> <=> N = 0)
      /\ \A t \in U : Heard(t, s[t], Asked(calls, t))
      /\ \A t \in (1 .. N) \ U : TurnOf(t, s[t]) /\ (t < N => t + 1 \in U)
  BY SeqFacts DEF Talked
<1>2. IsSeq(u) /\ Len(u) = N + 1 /\ u[N + 1] = x /\ \A i \in 1 .. N : u[i] = s[i]
  BY <1>1, AppendIs
<1>3. U = {t \in 1 .. N : s[t].role = "user"} /\ V = {t \in 1 .. N + 1 : u[t].role = "user"}
  BY <1>2 DEF UserAt
<1>4. /\ calls = [t \in 1 .. N |-> IF t \in U THEN {} ELSE Own(s[t].content)]
      /\ more = [t \in 1 .. N + 1 |-> IF t \in V THEN {} ELSE Own(u[t].content)]
  BY <1>2 DEF CallsIn
<1>5. Last(s) = s[N]
  BY DEF Last
<1> HIDE DEF N, U, V, calls, more
<1>6. \A t \in 1 .. N : (t \in V <=> t \in U) /\ t \in 1 .. N + 1
  BY <1>1, <1>2, <1>3
<1>7. \A t \in 1 .. N : more[t] = calls[t]
  BY <1>2, <1>4, <1>6
<1>8. \A t \in 1 .. N : Asked(more, t) = Asked(calls, t)
  <2>1. \A t \in 1 .. N : t # 1 => t - 1 \in 1 .. N
    BY <1>1
  <2> QED
    BY <2>1, <1>7 DEF Asked
<1>9. ASSUME NEW t \in V, t \in 1 .. N PROVE Heard(t, u[t], Asked(more, t))
  BY <1>1, <1>2, <1>6, <1>8, <1>9
<1>10. ASSUME NEW t \in (1 .. N + 1) \ V, t \in 1 .. N, t < N PROVE TurnOf(t, u[t]) /\ t + 1 \in V
  <2>1. t \in (1 .. N) \ U /\ t + 1 \in 1 .. N
    BY <1>1, <1>6, <1>10
  <2> QED
    BY <2>1, <1>1, <1>2, <1>6, <1>10
<1>11. ASSUME NEW t \in 1 .. N + 1, t \notin 1 .. N PROVE t = N + 1
  BY <1>1, <1>11
<1>12. ASSUME NEW t \in 1 .. N, ~(t < N) PROVE t = N
  BY <1>1, <1>12
<1>13. N + 1 \in 1 .. N + 1 /\ (N + 1 \in V <=> x.role = "user")
  BY <1>1, <1>2, <1>3
<1>14. CASE /\ x.role = "user"
            /\ s # <<>> => N \notin U
            /\ Heard(N + 1, x, IF s = <<>> THEN {} ELSE Own(Last(s).content))
  <2>1. Asked(more, N + 1) = IF s = <<>> THEN {} ELSE Own(Last(s).content)
    <3>1. CASE s = <<>>
      BY <3>1, <1>1 DEF Asked
    <3>2. CASE s # <<>>
      <4>1. N \in 1 .. N /\ N + 1 # 1 /\ (N + 1) - 1 = N
        BY <3>2, <1>1
      <4>2. more[N] = Own(s[N].content)
        BY <4>1, <3>2, <1>4, <1>7, <1>14
      <4> QED
        BY <3>2, <4>1, <4>2, <1>5 DEF Asked
    <3> QED
      BY <3>1, <3>2
  <2>2. \A t \in V : Heard(t, u[t], Asked(more, t))
    <3>1. V \subseteq 1 .. N + 1
      BY <1>3
    <3>2. Heard(N + 1, u[N + 1], Asked(more, N + 1))
      BY <2>1, <1>2, <1>14
    <3> QED
      BY <3>1, <3>2, <1>9, <1>11
  <2>3. ASSUME NEW t \in (1 .. N + 1) \ V PROVE TurnOf(t, u[t]) /\ (t < N + 1 => t + 1 \in V)
    <3>1. t \in 1 .. N
      BY <1>11, <1>13, <1>14
    <3>2. CASE t < N
      BY <3>1, <3>2, <1>10
    <3>3. CASE t = N
      <4>1. t \in (1 .. N) \ U /\ t + 1 \in V
        BY <3>1, <3>3, <1>6, <1>13, <1>14
      <4> QED
        BY <4>1, <1>1, <1>2
    <3> QED
      BY <3>1, <3>2, <3>3, <1>12
  <2> QED
    BY <2>2, <2>3, <1>2 DEF Talked, V, more
<1>15. CASE x.role # "user" /\ TurnOf(N + 1, x) /\ N \in U
  <2>1. \A t \in V : Heard(t, u[t], Asked(more, t))
    <3>1. V \subseteq 1 .. N + 1
      BY <1>3
    <3> QED
      BY <3>1, <1>9, <1>11, <1>13, <1>15
  <2>2. ASSUME NEW t \in (1 .. N + 1) \ V PROVE TurnOf(t, u[t]) /\ (t < N + 1 => t + 1 \in V)
    <3>1. CASE t \in 1 .. N
      <4>1. t # N
        BY <3>1, <1>6, <1>15
      <4>2. t < N
        BY <3>1, <4>1, <1>12
      <4> QED
        BY <3>1, <4>2, <1>10
    <3>2. CASE t = N + 1
      BY <3>2, <1>1, <1>2, <1>15
    <3> QED
      BY <3>1, <3>2, <1>11
  <2> QED
    BY <2>1, <2>2, <1>2 DEF Talked, V, more
<1> QED
  BY <1>14, <1>15 DEF N, U

LEMMA NothingTalked == Talked(<<>>)
<1> DEFINE s == <<>>
<1>1. IsSeq(s) /\ Len(s) = 0
  BY None
<1> HIDE DEF s
<1>2. Talked(s)
  BY <1>1 DEF Talked, UserAt
<1> QED
  BY <1>2 DEF s

\* What upstream answers becomes a turn of the conversation.
LEMMA AnswerIsTurn ==
    ASSUME world.talk \in Talks, NEW t, NEW api \in APIs, NEW a \in Answers(api, t),
           ~CutShort(a.answer), NEW by, NEW m
    PROVE  /\ TurnOf(t, AssistantMessage(a.answer, by, m, a.said))
           /\ AssistantMessage(a.answer, by, m, a.said).role # "user"
<1>1. PICK calls \in Calls(t) : Told(a.answer.content, a.answer.stop_reason, ToSet(calls))
  BY AnswersTold
<1>2. ToSet(calls) \subseteq CallsAt(t)
  BY CallsIs DEF Calling
<1> DEFINE x == AssistantMessage(a.answer, by, m, a.said)
           c == a.answer.content
<1>3. /\ x.role = "assistant" /\ x.content = c /\ x.stop = a.answer.stop_reason
      /\ x = [role |-> "assistant", form |-> x.form, content |-> x.content, stop |-> x.stop,
              api |-> x.api, model |-> x.model, said |-> x.said]
  BY DEF AssistantMessage
<1> HIDE DEF x, c
<1>4. /\ IsSeq(c) /\ CompactsFirst(c)
      /\ \A i \in 1 .. Len(c) : c[i].type \in {"text", "thinking", "tool_use"}
      /\ \A i \in 1 .. Len(c) : c[i].type = "tool_use" => c[i].call \in ToSet(calls)
      /\ \A i, j \in 1 .. Len(c) :
           c[i].type = "tool_use" /\ c[j].type = "tool_use" /\ c[i].call = c[j].call => i = j
      /\ x.stop # "tool_use" => ToSet(calls) = {}
  BY <1>1, <1>3 DEF Told, c
<1>5. Own(c) \subseteq ToSet(calls)
  BY <1>4 DEF Own
<1>6. Spoken(x, Own(c))
  BY <1>3, <1>4 DEF Spoken, Own
<1>7. TurnOf(t, x)
  BY <1>2, <1>3, <1>4, <1>5, <1>6 DEF TurnOf
<1> QED
  BY <1>3, <1>7 DEF x

-----------------------------------------------------------------------------
(* The conversations of the clients, and what is sent of them              *)

\* A request under way is the translation of the conversation it belongs to, and Claude is
\* never asked through the Responses API.
SentOf(messages, s) ==
  /\ s.api \in APIs /\ s.payload = UpstreamPayload(s.api, s.model, Prepared(messages, world.system))
  /\ s.model = "claude" => s.api # "responses"

Conversation(c) ==
  /\ Talked(convo[c])
  /\ phase[c] = "asked" => SentOf(convo[c], sent[c])

TalkInv == \A c \in Clients : Conversation(c)

LEMMA TalkInit == Init => TalkInv
<1> SUFFICES ASSUME Init, NEW c \in Clients PROVE Conversation(c)
  BY DEF TalkInv
<1>1. convo[c] = <<>> /\ phase[c] = "idle"
  BY DEF Init
<1> QED
  BY <1>1, NothingTalked DEF Conversation

LEMMA OneConversation ==
    ASSUME TalkInv, NEW c \in Clients, world' = world,
           \A d \in Clients \ {c} :
             phase'[d] = phase[d] /\ convo'[d] = convo[d] /\ sent'[d] = sent[d],
           Conversation(c)'
    PROVE  TalkInv'
<1>1. Clients' = Clients
  BY DEF Clients
<1>2. ASSUME NEW d \in Clients PROVE Conversation(d)'
  <2>1. CASE d = c
    BY <2>1
  <2>2. CASE d # c
    <3>1. Conversation(d) /\ phase'[d] = phase[d] /\ convo'[d] = convo[d] /\ sent'[d] = sent[d]
      BY <2>2 DEF TalkInv
    <3> QED
      BY <3>1 DEF Conversation, SentOf
  <2> QED
    BY <2>1, <2>2
<1> QED
  BY <1>1, <1>2 DEF TalkInv

\* A step that keeps the conversation and leaves the client with no request under way.
LEMMA NotAsked ==
    ASSUME RequestInv, TalkInv, NEW c \in Clients, world' = world, convo' = convo,
           sent' = sent \/ \E s : sent' = [sent EXCEPT ![c] = s],
           NEW to \in Phases \ {"asked"}, Move(c, to)
    PROVE  TalkInv'
<1>1. phase'[c] = to /\ \A d \in Clients \ {c} :
        phase'[d] = phase[d] /\ convo'[d] = convo[d] /\ sent'[d] = sent[d]
  BY DEF RequestInv, Move
<1>2. Talked(convo'[c])
  BY DEF TalkInv, Conversation
<1>3. Conversation(c)'
  BY <1>1, <1>2 DEF Conversation
<1> QED
  BY <1>1, <1>3, OneConversation

LEMMA TalksStay == TalkInv /\ UNCHANGED <<world, phase, convo, sent>> => TalkInv'
  BY DEF TalkInv, Conversation, SentOf, Clients

LEMMA AskTalks == ASSUME IInv, TalkInv, NEW c \in Clients, Ask(c) PROVE TalkInv'
<1>1. PICK to \in {"reading", "idle", "limited"} : Move(c, to)
  BY LimitTyped DEF Ask, IInv
<1>2. /\ world' = world /\ sent' = sent /\ RequestInv /\ IsSeq(convo[c]) /\ Talked(convo[c])
      /\ to \in Phases \ {"asked"}
  BY DEF Ask, IInv, RequestInv, Request, TalkInv, Conversation, Phases
<1>3. CASE convo' = convo
  BY <1>1, <1>2, <1>3, NotAsked
<1>4. CASE ~(convo[c] # <<>> /\ Last(convo[c]).role = "user")
  <2> DEFINE history == IF Turns(convo[c]) = world.turns THEN <<>> ELSE convo[c]
  <2>1. PICK message \in NextMessages(history) :
             convo' = [convo EXCEPT ![c] = Append(history, message)]
    BY <1>4 DEF Ask
  <2>2. Talked(history) /\ (history # <<>> => Last(history).role # "user")
    BY <1>2, <1>4, NothingTalked
  <2>3. message.role = "user"
    BY <2>1, UserSpeaks
  <2> HIDE DEF history
  <2>4. IsSeq(history)
    BY <2>2 DEF Talked
  <2>5. ASSUME history # <<>>
        PROVE  Len(history) \notin UserAt(history) /\ TurnOf(Len(history), Last(history))
    <3>1. Len(history) \in 1 .. Len(history) /\ Last(history) = history[Len(history)]
      BY <2>4, <2>5, SeqFacts DEF Last
    <3>2. Len(history) \notin UserAt(history)
      BY <2>2, <2>5, <3>1 DEF UserAt
    <3> QED
      BY <2>2, <3>1, <3>2 DEF Talked
  <2>6. Heard(Len(history) + 1, message,
              IF history = <<>> THEN {} ELSE Own(Last(history).content))
    BY <2>1, <2>4, <2>5, NextHeard
  <2>7. Talked(Append(history, message))
    BY <2>2, <2>3, <2>5, <2>6, TalkGoesOn
  <2>8. /\ convo'[c] = Append(history, message) /\ phase'[c] = to
        /\ \A d \in Clients \ {c} :
             phase'[d] = phase[d] /\ convo'[d] = convo[d] /\ sent'[d] = sent[d]
    BY <1>1, <1>2, <2>1 DEF RequestInv, Move
  <2>9. Conversation(c)'
    BY <1>2, <2>7, <2>8 DEF Conversation
  <2> QED
    BY <1>2, <2>8, <2>9, OneConversation
<1> QED
  BY <1>3, <1>4 DEF Ask

LEMMA ClaudeApi == ASSUME NEW m \in Models PROVE ApiOf(m) \in APIs /\ (m = "claude" => ApiOf(m) # "responses")
<1>1. ApiOf(m) \in APIs
  BY DEF ApiOf, APIs
<1>2. ASSUME m = "claude" PROVE "responses" \notin EndpointsFound(m)
  BY <1>2 DEF EndpointsFound, SupportedEndpoints
<1> QED
  BY <1>1, <1>2 DEF ApiOf

LEMMA DispatchTalks == ASSUME IInv, TalkInv, NEW c \in Clients, Dispatch(c), world' = world PROVE TalkInv'
<1> DEFINE s == [api |-> ApiOf(model[c]), model |-> model[c],
                 payload |-> UpstreamPayload(ApiOf(model[c]), model[c], Prepared(convo[c], world.system))]
<1>1. sent' = [sent EXCEPT ![c] = s] /\ Move(c, "asked") /\ convo' = convo
  BY DEF Dispatch
<1>2. model[c] \in Models /\ Talked(convo[c])
  BY DEF IInv, RequestInv, TalkInv, Conversation
<1>3. s.api \in APIs /\ (s.model = "claude" => s.api # "responses")
  BY <1>2, ClaudeApi
<1>4. s.payload = UpstreamPayload(s.api, s.model, Prepared(convo[c], world.system))
  OBVIOUS
<1> HIDE DEF s
<1>5. SentOf(convo[c], s)
  BY <1>3, <1>4 DEF SentOf
<1>6. /\ sent'[c] = s /\ convo'[c] = convo[c]
      /\ \A d \in Clients \ {c} :
           phase'[d] = phase[d] /\ convo'[d] = convo[d] /\ sent'[d] = sent[d]
  BY <1>1 DEF IInv, RequestInv, Move
<1>7. Talked(convo'[c]) /\ SentOf(convo'[c], sent'[c])
  BY <1>2, <1>5, <1>6
<1>8. Conversation(c)'
  BY <1>7 DEF Conversation, SentOf
<1> QED
  BY <1>6, <1>8, OneConversation

LEMMA HandleTalks == ASSUME IInv, TalkInv, NEW c \in Clients, Handle(c) \/ Approve(c) PROVE TalkInv'
<1>1. world' = world /\ RequestInv /\ "idle" \in Phases \ {"asked"} /\ "approving" \in Phases \ {"asked"}
  BY DEF Handle, Approve, IInv, Phases
<1>2. CASE AnswerWarmup(c)
  <2>1. /\ convo'[c] = <<>> /\ phase'[c] = "idle"
        /\ \A d \in Clients \ {c} :
             phase'[d] = phase[d] /\ convo'[d] = convo[d] /\ sent'[d] = sent[d]
    BY <1>1, <1>2 DEF AnswerWarmup, RequestInv, Move
  <2>2. Conversation(c)'
    BY <2>1, NothingTalked DEF Conversation
  <2> QED
    BY <1>1, <2>1, <2>2, OneConversation
<1>3. CASE Dispatch(c)
  BY <1>1, <1>3, DispatchTalks
<1>4. CASE (Move(c, "approving") \/ Move(c, "idle")) /\ UNCHANGED <<convo, sent>>
  BY <1>1, <1>4, NotAsked
<1> QED
  BY <1>2, <1>3, <1>4 DEF Handle, Approve

LEMMA AnswerTalks == ASSUME IInv, TalkInv, NEW c \in Clients, UpstreamAnswers(c) PROVE TalkInv'
<1> DEFINE t == Len(convo[c]) + 1
           api == sent[c].api
<1>1. /\ world' = world /\ world \in Worlds /\ Move(c, "idle") /\ phase[c] = "asked"
      /\ sent' = [sent EXCEPT ![c] = NothingSent] /\ RequestInv
  BY DEF UpstreamAnswers, IInv, RequestInv
<1>2. world.talk \in Talks
  BY <1>1, WorldsAssumption
<1>3. /\ Talked(convo[c]) /\ api \in APIs
      /\ convo[c] # <<>> /\ Last(convo[c]).role = "user"
  BY <1>1 DEF IInv, RequestInv, Request, TalkInv, Conversation, SentOf
<1>4. Len(convo[c]) \in UserAt(convo[c])
  <2>1. IsSeq(convo[c])
    BY <1>3 DEF Talked
  <2>2. Len(convo[c]) \in 1 .. Len(convo[c])
    BY <1>3, <2>1, SeqFacts
  <2> QED
    BY <1>3, <2>2 DEF UserAt, Last
<1>5. PICK a \in Answers(api, t) :
        convo' = IF CutShort(a.answer) THEN convo
                 ELSE [convo EXCEPT ![c] =
                         Append(@, AssistantMessage(a.answer, api, sent[c].model, a.said))]
  BY DEF UpstreamAnswers
<1> DEFINE x == AssistantMessage(a.answer, api, sent[c].model, a.said)
<1>6. CASE convo' = convo
  <2>1. "idle" \in Phases \ {"asked"} /\ \E s : sent' = [sent EXCEPT ![c] = s]
    BY <1>1 DEF Phases
  <2> QED
    BY <1>1, <1>6, <2>1, NotAsked
<1>7. CASE ~CutShort(a.answer)
  <2>1. TurnOf(t, x) /\ x.role # "user"
    BY <1>2, <1>3, <1>5, <1>7, AnswerIsTurn
  <2>2. convo' = [convo EXCEPT ![c] = Append(convo[c], x)]
    BY <1>5, <1>7
  <2> HIDE DEF x
  <2>3. Talked(Append(convo[c], x))
    BY <1>3, <1>4, <2>1, TalkGoesOn
  <2>4. /\ convo'[c] = Append(convo[c], x) /\ phase'[c] = "idle"
        /\ \A d \in Clients \ {c} :
             phase'[d] = phase[d] /\ convo'[d] = convo[d] /\ sent'[d] = sent[d]
    BY <1>1, <2>2 DEF RequestInv, Move
  <2>5. Conversation(c)'
    BY <2>3, <2>4 DEF Conversation
  <2> QED
    BY <1>1, <2>4, <2>5, OneConversation
<1> QED
  BY <1>5, <1>6, <1>7

LEMMA TalkNext == IInv /\ TalkInv /\ [Next]_vars => TalkInv'
<1> SUFFICES ASSUME IInv, TalkInv, [Next]_vars PROVE TalkInv'
  OBVIOUS
<1>1. RequestInv /\ Phases \ {"asked"} = {"idle", "limited", "reading", "approving", "listing", "fetching"}
  BY DEF IInv, Phases
<1>2. ASSUME NEW c \in Clients,
             \/ RateLimitWaited(c) \/ UpstreamFails(c) \/ AskForModels(c) \/ List(c)
             \/ \E list \in Lists : ModelsListed(c, list)
      PROVE  TalkInv'
  <2>1. /\ world' = world /\ convo' = convo
        /\ sent' = sent \/ sent' = [sent EXCEPT ![c] = NothingSent]
    BY <1>2 DEF RateLimitWaited, UpstreamFails, AskForModels, List, ModelsListed
  <2>2. \E to \in {"reading", "idle", "listing", "fetching"} : Move(c, to)
    BY <1>2 DEF RateLimitWaited, UpstreamFails, AskForModels, List, ModelsListed
  <2>3. sent' = sent \/ \E s : sent' = [sent EXCEPT ![c] = s]
    BY <2>1
  <2> QED
    BY <1>1, <2>1, <2>2, <2>3, NotAsked
<1>3. CASE UNCHANGED <<world, gatewayVars>> \/ Tick
  BY <1>3, TalksStay DEF gatewayVars, Tick
<1>4. CASE UNCHANGED vars
  BY <1>3, <1>4 DEF vars
<1> QED
  BY <1>2, <1>3, <1>4, AskTalks, HandleTalks, AnswerTalks
     DEF Next, BackgroundFetchSettles, UsageWritten, UsageTicks, UsageSummed

\* Whatever the user, the tools and upstream said so far, and whichever API the model is
\* asked through, the request that leaves holds every part of what the user and the tools
\* said, once, every call with its one answer behind it and no word between, and for Claude
\* no signature of the gateway's making.
THEOREM PayloadWhole == Spec => []PayloadFaithful
<1>1. Init => IInv /\ TalkInv
  BY InitTyped, TalkInit
<1>2. IInv /\ TalkInv => PayloadFaithful
  <2> SUFFICES ASSUME IInv, TalkInv, NEW c \in Clients, phase[c] = "asked"
               PROVE  /\ NothingLost(sent[c].api, sent[c].payload, convo[c])
                      /\ CallsAnswered(sent[c].api, sent[c].payload)
                      /\ sent[c].model = "claude" =>
                           SignaturesStayHome(sent[c].api, sent[c].payload)
    BY DEF PayloadFaithful
  <2>1. /\ Talked(convo[c]) /\ SentOf(convo[c], sent[c])
        /\ convo[c] # <<>> /\ Last(convo[c]).role = "user"
    BY DEF IInv, RequestInv, Request, TalkInv, Conversation
  <2>2. Len(convo[c]) \in UserAt(convo[c])
    <3>1. IsSeq(convo[c])
      BY <2>1 DEF Talked
    <3>2. Len(convo[c]) \in 1 .. Len(convo[c])
      BY <2>1, <3>1, SeqFacts
    <3> QED
      BY <2>1, <3>2 DEF UserAt, Last
  <2>3. /\ sent[c].api \in APIs
        /\ sent[c].payload = UpstreamPayload(sent[c].api, sent[c].model, Prepared(convo[c], world.system))
        /\ sent[c].model = "claude" => sent[c].api # "responses"
    BY <2>1 DEF SentOf
  <2> QED
    BY <2>1, <2>2, <2>3, TalkedFaithful
<1>3. (IInv /\ TalkInv) /\ [Next]_vars => (IInv /\ TalkInv)'
  BY IInvNext, TalkNext
<1> QED
  BY <1>1, <1>2, <1>3, PTL DEF Spec

-----------------------------------------------------------------------------
(* The turns of a conversation come back                                   *)

\* Whatever is upstream's in a conversation comes back through the API it came by.
Echoes(m) == \A toClaude : Returned(m.api, toClaude, m)

Echoing(messages) == \A t \in 1 .. Len(messages) : messages[t].role # "user" => Echoes(messages[t])

EchoInv == \A c \in Clients : Echoing(convo[c])

LEMMA NothingEchoes == Echoing(<<>>)
<1> DEFINE s == <<>>
<1>1. Len(s) = 0
  OBVIOUS
<1> HIDE DEF s
<1>2. Echoing(s)
  BY <1>1 DEF Echoing
<1> QED
  BY <1>2 DEF s

LEMMA EchoGoesOn ==
    ASSUME NEW s, IsSeq(s), Echoing(s), NEW x, x.role # "user" => Echoes(x)
    PROVE  Echoing(Append(s, x))
<1> DEFINE u == Append(s, x)
<1>1. Len(u) = Len(s) + 1 /\ Len(s) \in Nat /\ \A i \in 1 .. Len(s) + 1 : u[i] = IF i <= Len(s) THEN s[i] ELSE x
  <2> DEFINE S == ToSet(s) \cup {x}
  <2>1. s \in Seq(S) /\ x \in S
    BY SeqOfMore DEF IsSeq
  <2> HIDE DEF S
  <2> QED
    BY <2>1
<1> HIDE DEF u
<1>2. Echoing(u)
  <2> SUFFICES ASSUME NEW t \in 1 .. Len(u), u[t].role # "user" PROVE Echoes(u[t])
    BY DEF Echoing
  <2>1. CASE t <= Len(s)
    <3>1. t \in 1 .. Len(s) /\ u[t] = s[t]
      BY <1>1, <2>1
    <3> QED
      BY <3>1 DEF Echoing
  <2>2. CASE ~(t <= Len(s))
    BY <1>1, <2>2
  <2> QED
    BY <2>1, <2>2
<1> QED
  BY <1>2 DEF u

LEMMA EchoInit == Init => EchoInv
<1> SUFFICES ASSUME Init, NEW c \in Clients PROVE Echoing(convo[c])
  BY DEF EchoInv
<1>1. convo[c] = <<>>
  BY DEF Init
<1> QED
  BY <1>1, NothingEchoes

LEMMA EchoStays == EchoInv /\ UNCHANGED <<world, convo>> => EchoInv'
  BY DEF EchoInv, Clients

LEMMA OneEcho ==
    ASSUME RequestInv, EchoInv, NEW c \in Clients, world' = world,
           NEW s, Echoing(s), convo' = [convo EXCEPT ![c] = s]
    PROVE  EchoInv'
<1>1. Clients' = Clients
  BY DEF Clients
<1>2. ASSUME NEW d \in Clients PROVE Echoing(convo'[d])
  <2>1. CASE d = c
    <3>1. convo'[d] = s
      BY <2>1 DEF RequestInv
    <3> QED
      BY <3>1
  <2>2. CASE d # c
    <3>1. convo'[d] = convo[d]
      BY <2>2 DEF RequestInv
    <3> QED
      BY <3>1 DEF EchoInv
  <2> QED
    BY <2>1, <2>2
<1> QED
  BY <1>1, <1>2 DEF EchoInv

LEMMA AskEchoes == ASSUME IInv, TalkInv, EchoInv, NEW c \in Clients, Ask(c) PROVE EchoInv'
<1>1. world' = world /\ RequestInv /\ Talked(convo[c]) /\ Echoing(convo[c])
  BY DEF Ask, IInv, TalkInv, Conversation, EchoInv
<1>2. CASE convo' = convo
  BY <1>1, <1>2, EchoStays
<1>3. CASE ~(convo[c] # <<>> /\ Last(convo[c]).role = "user")
  <2> DEFINE history == IF Turns(convo[c]) = world.turns THEN <<>> ELSE convo[c]
  <2>1. PICK message \in NextMessages(history) :
             convo' = [convo EXCEPT ![c] = Append(history, message)]
    BY <1>3 DEF Ask
  <2>2. Talked(history) /\ Echoing(history)
    BY <1>1, NothingTalked, NothingEchoes
  <2>3. message.role = "user"
    BY <2>1, UserSpeaks
  <2> HIDE DEF history
  <2>4. IsSeq(history)
    BY <2>2 DEF Talked
  <2>5. Echoing(Append(history, message))
    BY <2>2, <2>3, <2>4, EchoGoesOn
  <2> QED
    BY <1>1, <2>1, <2>5, OneEcho
<1> QED
  BY <1>2, <1>3 DEF Ask

LEMMA HandleEchoes == ASSUME IInv, EchoInv, NEW c \in Clients, Handle(c) \/ Approve(c) PROVE EchoInv'
<1>1. world' = world /\ RequestInv
  BY DEF Handle, Approve, IInv
<1>2. CASE AnswerWarmup(c)
  BY <1>1, <1>2, NothingEchoes, OneEcho DEF AnswerWarmup
<1>3. CASE convo' = convo
  BY <1>1, <1>3, EchoStays
<1> QED
  BY <1>2, <1>3 DEF Handle, Approve, Dispatch

LEMMA AnswerEchoes == ASSUME IInv, TalkInv, EchoInv, NEW c \in Clients, UpstreamAnswers(c) PROVE EchoInv'
<1> DEFINE t == Len(convo[c]) + 1
           api == sent[c].api
<1>1. world' = world /\ world \in Worlds /\ phase[c] = "asked" /\ RequestInv
  BY DEF UpstreamAnswers, IInv, RequestInv
<1>2. world.talk \in Talks
  BY <1>1, WorldsAssumption
<1>3. Talked(convo[c]) /\ api \in APIs /\ Echoing(convo[c])
  BY <1>1 DEF TalkInv, Conversation, SentOf, EchoInv
<1>4. IsSeq(convo[c])
  BY <1>3 DEF Talked
<1>5. PICK a \in Answers(api, t) :
        convo' = IF CutShort(a.answer) THEN convo
                 ELSE [convo EXCEPT ![c] =
                         Append(@, AssistantMessage(a.answer, api, sent[c].model, a.said))]
  BY DEF UpstreamAnswers
<1> DEFINE x == AssistantMessage(a.answer, api, sent[c].model, a.said)
<1>6. CASE convo' = convo
  BY <1>1, <1>6, EchoStays
<1>7. CASE ~CutShort(a.answer)
  <2>1. x.api = api
    BY DEF AssistantMessage
  <2>2. \A toClaude : Returned(api, toClaude, x)
    BY <1>2, <1>3, <1>5, <1>7, AnswersReturn
  <2>3. convo' = [convo EXCEPT ![c] = Append(convo[c], x)]
    BY <1>5, <1>7
  <2> HIDE DEF x, api
  <2>4. Echoes(x)
    BY <2>1, <2>2 DEF Echoes
  <2>5. Echoing(Append(convo[c], x))
    BY <1>3, <1>4, <2>4, EchoGoesOn
  <2> QED
    BY <1>1, <2>3, <2>5, OneEcho
<1> QED
  BY <1>5, <1>6, <1>7

\* No step leaves a turn in a conversation that would not come back.
LEMMA EchoNext == IInv /\ TalkInv /\ EchoInv /\ [Next]_vars => EchoInv'
<1> SUFFICES ASSUME IInv, TalkInv, EchoInv, [Next]_vars PROVE EchoInv'
  OBVIOUS
<1>1. ASSUME NEW c \in Clients,
             \/ RateLimitWaited(c) \/ UpstreamFails(c) \/ AskForModels(c) \/ List(c)
             \/ \E list \in Lists : ModelsListed(c, list)
      PROVE  EchoInv'
  <2>1. world' = world /\ convo' = convo
    BY <1>1 DEF RateLimitWaited, UpstreamFails, AskForModels, List, ModelsListed
  <2> QED
    BY <2>1, EchoStays
<1>2. CASE UNCHANGED <<world, gatewayVars>> \/ Tick
  BY <1>2, EchoStays DEF gatewayVars, Tick
<1>3. CASE UNCHANGED vars
  BY <1>2, <1>3 DEF vars
<1> QED
  BY <1>1, <1>2, <1>3, AskEchoes, HandleEchoes, AnswerEchoes
     DEF Next, BackgroundFetchSettles, UsageWritten, UsageTicks, UsageSummed

\* In a conversation held with one model through one API, upstream is sent back exactly
\* what it said, turn for turn and in its order, from the latest compaction on: its texts,
\* its calls, its reasoning with text, signature and identity, however long the
\* conversation and whatever the answers were made of.
THEOREM TurnsReturned == Spec => []TurnsComeBack
<1>1. Init => IInv /\ TalkInv /\ EchoInv
  BY InitTyped, TalkInit, EchoInit
<1>2. IInv /\ TalkInv /\ EchoInv => TurnsComeBack
  <2> SUFFICES ASSUME IInv, TalkInv, EchoInv, NEW c \in Clients, phase[c] = "asked",
                      \A m \in DOMAIN convo[c] : convo[c][m].role = "assistant" =>
                        convo[c][m].api = sent[c].api /\ convo[c][m].model = sent[c].model
               PROVE  AssistantPart(sent[c].api, sent[c].payload)
                        = SaidBefore(sent[c].api, sent[c].model = "claude", convo[c])
    BY DEF TurnsComeBack
  <2> DEFINE messages == convo[c]
             api == sent[c].api
             toClaude == sent[c].model = "claude"
  <2>1. /\ Talked(messages) /\ SentOf(messages, sent[c]) /\ Echoing(messages)
        /\ messages # <<>> /\ Last(messages).role = "user"
    BY DEF IInv, RequestInv, Request, TalkInv, Conversation, EchoInv
  <2>2. IsSeq(messages) /\ DOMAIN messages = 1 .. Len(messages)
    BY <2>1, SeqFacts DEF Talked
  <2>3. Len(messages) \in UserAt(messages)
    <3>1. Len(messages) \in 1 .. Len(messages)
      BY <2>1, <2>2, SeqFacts
    <3> QED
      BY <2>1, <3>1 DEF UserAt, Last
  <2>4. api \in APIs /\ sent[c].payload = UpstreamPayload(api, sent[c].model, Prepared(messages, world.system))
    BY <2>1 DEF SentOf
  <2>5. ASSUME NEW t \in TurnsAt(messages) PROVE Returned(api, toClaude, messages[t])
    <3>1. t \in 1 .. Len(messages) /\ messages[t].role = "assistant" /\ messages[t].api = api
      BY <2>2 DEF TurnsAt
    <3>2. Echoes(messages[t])
      BY <2>1, <3>1 DEF Echoing
    <3> HIDE DEF toClaude, messages, api
    <3> QED
      BY <3>1, <3>2 DEF Echoes
  <2> HIDE DEF toClaude, messages, api
  <2>6. AssistantPart(api, sent[c].payload) = SaidBefore(api, toClaude, messages)
    BY <2>1, <2>3, <2>4, <2>5, TalkedBack DEF toClaude
  <2> QED
    BY <2>6 DEF toClaude, messages, api
<1>3. (IInv /\ TalkInv /\ EchoInv) /\ [Next]_vars => (IInv /\ TalkInv /\ EchoInv)'
  BY IInvNext, TalkNext, EchoNext
<1> QED
  BY <1>1, <1>2, <1>3, PTL DEF Spec

=============================================================================
