------------------------ MODULE BlockProtocolProofs ------------------------
(***************************************************************************)
(* MessageStream implements BlockProtocol: what the client reads of a      *)
(* serial upstream, in any of the three flows, is a well-formed stream.    *)
(* The proof follows a reader through the events that wait: a position is  *)
(* as much of what was read as the protocol tells apart, and the sequences *)
(* that `lead` from one position to another can be put together handler by *)
(* handler.                                                                *)
(***************************************************************************)
EXTENDS MessageStreamProofs

(* Positions in a stream.                                                    *)

Positions ==
    [phase: {"before", "open", "ended"}, block: {"none", "open"}, next: Nat,
     told: {"no", "yes"}]

\* A position right after an event that is not a message_delta, one where no
\* block is open, one where block `n - 1` is, and one right after message_delta.
Pos(phase, block, next) == [phase |-> phase, block |-> block, next |-> next, told |-> "no"]
None(n) == Pos("open", "none", n)
Open(n) == Pos("open", "open", n)
Billed(n) == [phase |-> "open", block |-> "none", next |-> n, told |-> "yes"]

\* Event `e`, allowed at position `p`, leads to position `q`.
Goes(p, e, q) ==
    \/ /\ e.type = "message_start" /\ e.index = 0 /\ p.phase = "before"
       /\ q = Pos("open", p.block, p.next)
    \/ /\ e.type = "content_block_start" /\ p.phase = "open" /\ p.block = "none"
       /\ e.index = p.next
       /\ \E n \in Nat : n = p.next + 1 /\ q = Open(n)
    \/ /\ e.type = "content_block_delta" /\ p.phase = "open" /\ p.block = "open"
       /\ e.index = p.next - 1
       /\ q = Open(p.next)
    \/ /\ e.type = "content_block_stop" /\ p.phase = "open" /\ p.block = "open"
       /\ e.index = p.next - 1
       /\ q = None(p.next)
    \/ /\ e.type = "message_delta" /\ p.phase = "open" /\ p.block = "none"
       /\ p.told = "no" /\ e.index = 0
       /\ q = Billed(p.next)
    \/ /\ e.type = "message_stop" /\ p.phase = "open" /\ p.block = "none"
       /\ p.told = "yes" /\ e.index = 0
       /\ q = Pos("ended", "none", p.next)
    \/ /\ e.type = "error" /\ p.phase # "ended" /\ e.index = 0
       /\ q = Pos("ended", p.block, p.next)

\* The events of `s` lead from `p` to `q`, by way of the positions `r`.
Leads(p, s, q) ==
    \E r \in [0 .. Len(s) -> Positions] :
      /\ r[0] = p /\ r[Len(s)] = q
      /\ \A i \in 1 .. Len(s) : Goes(r[i - 1], s[i], r[i])

LEMMA PosTyped ==
    ASSUME NEW n \in Nat
    PROVE  /\ None(n) \in Positions /\ Open(n) \in Positions /\ Billed(n) \in Positions
           /\ \A phase \in {"before", "open", "ended"} :
                Pos(phase, "none", n) \in Positions /\ Pos(phase, "open", n) \in Positions
  BY DEF None, Open, Billed, Pos, Positions

LEMMA GoesTyped ==
    ASSUME NEW p \in Positions, NEW e, NEW q, Goes(p, e, q) PROVE q \in Positions
<1>1. p.next \in Nat /\ p.block \in {"none", "open"}
  BY DEF Positions
<1> QED
  BY <1>1, PosTyped DEF Goes

LEMMA LeadsNowhere ==
    /\ \A p \in Positions : Leads(p, <<>>, p)
    /\ \A p, q : Leads(p, <<>>, q) => p = q /\ p \in Positions
<1>1. ASSUME NEW p \in Positions PROVE Leads(p, <<>>, p)
  <2> DEFINE r == [i \in 0 .. 0 |-> p]
  <2>1. r \in [0 .. 0 -> Positions] /\ r[0] = p
    OBVIOUS
  <2>2. Len(<<>>) = 0 /\ \A i \in 1 .. 0 : FALSE
    OBVIOUS
  <2> HIDE DEF r
  <2> QED
    BY <2>1, <2>2 DEF Leads
<1>2. ASSUME NEW p, NEW q, Leads(p, <<>>, q) PROVE p = q /\ p \in Positions
  BY <1>2 DEF Leads
<1> QED
  BY <1>1, <1>2

LEMMA LeadsTyped ==
    ASSUME NEW S, NEW s \in Seq(S), NEW p, NEW q, Leads(p, s, q)
    PROVE  p \in Positions /\ q \in Positions
<1>1. 0 \in 0 .. Len(s) /\ Len(s) \in 0 .. Len(s)
  OBVIOUS
<1> QED
  BY <1>1 DEF Leads

LEMMA LeadsOne ==
    ASSUME NEW p \in Positions, NEW e, NEW q, Goes(p, e, q) PROVE Leads(p, <<e>>, q)
<1> DEFINE r == [i \in 0 .. 1 |-> IF i = 0 THEN p ELSE q]
<1>1. r \in [0 .. Len(<<e>>) -> Positions] /\ r[0] = p /\ r[Len(<<e>>)] = q
  BY GoesTyped
<1>2. \A i \in 1 .. Len(<<e>>) : Goes(r[i - 1], <<e>>[i], r[i])
  OBVIOUS
<1> QED
  BY <1>1, <1>2 DEF Leads

LEMMA LeadsOn ==
    ASSUME NEW S, NEW s \in Seq(S), NEW t \in Seq(S), NEW p, NEW q, NEW u,
           Leads(p, s, q), Leads(q, t, u)
    PROVE  Leads(p, s \o t, u)
<1>1. PICK f \in [0 .. Len(s) -> Positions] :
        /\ f[0] = p /\ f[Len(s)] = q /\ \A i \in 1 .. Len(s) : Goes(f[i - 1], s[i], f[i])
  BY DEF Leads
<1>2. PICK g \in [0 .. Len(t) -> Positions] :
        /\ g[0] = q /\ g[Len(t)] = u /\ \A i \in 1 .. Len(t) : Goes(g[i - 1], t[i], g[i])
  BY DEF Leads
<1> DEFINE m == Len(s)
           n == Len(t)
           st == s \o t
           r == [i \in 0 .. m + n |-> IF i <= m THEN f[i] ELSE g[i - m]]
<1>3. /\ m \in Nat /\ n \in Nat /\ Len(st) = m + n
      /\ \A i \in 1 .. m + n : st[i] = IF i <= m THEN s[i] ELSE t[i - m]
  BY ConcatProperties
<1> HIDE DEF m, n, st
<1>4. r \in [0 .. m + n -> Positions] /\ r[0] = p
  <2>1. \A i \in 0 .. m + n : IF i <= m THEN i \in 0 .. m ELSE i - m \in 0 .. n
    BY <1>3
  <2>2. 0 \in 0 .. m + n /\ 0 <= m
    BY <1>3
  <2> QED
    BY <1>1, <1>2, <2>1, <2>2 DEF m, n
<1>5. r[m + n] = u
  <2>1. CASE n = 0
    <3>1. g[0] = g[n] /\ m + n = m /\ m \in 0 .. m + n /\ m <= m
      BY <1>3, <2>1
    <3> QED
      BY <1>1, <1>2, <3>1 DEF m, n
  <2>2. CASE n # 0
    <3>1. m + n \in 0 .. m + n /\ ~(m + n <= m) /\ m + n - m = n
      BY <1>3, <2>2
    <3>2. \A i \in 0 .. m + n : ~(i <= m) => r[i] = g[i - m]
      OBVIOUS
    <3> HIDE DEF r
    <3>3. r[m + n] = g[n]
      BY <3>1, <3>2
    <3> QED
      BY <1>2, <3>3 DEF n
  <2> QED
    BY <2>1, <2>2
<1>6. ASSUME NEW i \in 1 .. m + n PROVE Goes(r[i - 1], st[i], r[i])
  <2>1. CASE i <= m
    <3>1. i \in 1 .. m /\ i - 1 <= m /\ i - 1 \in 0 .. m + n /\ i \in 0 .. m + n
      BY <1>3, <2>1
    <3>2. r[i - 1] = f[i - 1] /\ r[i] = f[i] /\ st[i] = s[i]
      BY <1>3, <2>1, <3>1
    <3> QED
      BY <1>1, <3>1, <3>2 DEF m
  <2>2. CASE ~(i <= m)
    <3>1. i - m \in 1 .. n /\ i - 1 \in 0 .. m + n /\ i \in 0 .. m + n /\ i - m - 1 = i - 1 - m
      BY <1>3, <2>2
    <3>2. r[i] = g[i - m] /\ st[i] = t[i - m]
      BY <1>3, <2>2, <3>1
    <3>3. r[i - 1] = g[i - m - 1]
      <4>1. CASE i - 1 <= m
        <5>1. i - 1 = m /\ i - m - 1 = 0
          BY <1>3, <2>2, <4>1
        <5>2. r[i - 1] = f[m]
          BY <3>1, <4>1, <5>1
        <5> QED
          BY <1>1, <1>2, <5>1, <5>2 DEF m
      <4>2. CASE ~(i - 1 <= m)
        BY <3>1, <4>2
      <4> QED
        BY <4>1, <4>2
    <3> QED
      BY <1>2, <3>1, <3>2, <3>3 DEF n
  <2> QED
    BY <2>1, <2>2
<1> HIDE DEF r
<1>7. Leads(p, st, u)
  BY <1>3, <1>4, <1>5, <1>6 DEF Leads
<1> QED
  BY <1>7 DEF st

LEMMA LeadsMore ==
    ASSUME NEW S, NEW s \in Seq(S), NEW e \in S, NEW p, NEW q, NEW u,
           Leads(p, s, q), Goes(q, e, u)
    PROVE  Leads(p, Append(s, e), u)
<1>1. q \in Positions
  BY LeadsTyped
<1>2. Leads(q, <<e>>, u) /\ <<e>> \in Seq(S) /\ Append(s, e) = s \o <<e>>
  BY <1>1, LeadsOne
<1> QED
  BY <1>2, LeadsOn

LEMMA LeadsFirst ==
    ASSUME NEW S, NEW s \in Seq(S), s # <<>>, NEW p, NEW q, Leads(p, s, q)
    PROVE  \E m \in Positions : Goes(p, s[1], m) /\ Leads(m, Tail(s), q)
<1>1. PICK f \in [0 .. Len(s) -> Positions] :
        /\ f[0] = p /\ f[Len(s)] = q /\ \A i \in 1 .. Len(s) : Goes(f[i - 1], s[i], f[i])
  BY DEF Leads
<1> DEFINE t == Tail(s)
           n == Len(s)
           r == [i \in 0 .. n - 1 |-> f[i + 1]]
<1>2. n \in Nat /\ n >= 1 /\ Len(t) = n - 1 /\ \A i \in 1 .. n - 1 : t[i] = s[i + 1]
  BY HeadTailProperties
<1> HIDE DEF n, t
<1>3. r \in [0 .. n - 1 -> Positions] /\ r[0] = f[1] /\ r[n - 1] = f[n]
  <2>1. 0 \in 0 .. n - 1 /\ n - 1 \in 0 .. n - 1 /\ 0 + 1 = 1 /\ n - 1 + 1 = n
    BY <1>2
  <2>2. \A i \in 0 .. n - 1 : i + 1 \in 0 .. n
    BY <1>2
  <2> QED
    BY <1>1, <2>1, <2>2 DEF n
<1>4. ASSUME NEW i \in 1 .. n - 1 PROVE Goes(r[i - 1], t[i], r[i])
  <2>1. i + 1 \in 1 .. n /\ i - 1 \in 0 .. n - 1 /\ i \in 0 .. n - 1
        /\ i - 1 + 1 = i /\ i + 1 - 1 = i
    BY <1>2
  <2>2. Goes(f[i + 1 - 1], s[i + 1], f[i + 1])
    BY <1>1, <2>1 DEF n
  <2> QED
    BY <1>2, <2>1, <2>2
<1> HIDE DEF r
<1>5. Leads(f[1], t, q)
  BY <1>1, <1>2, <1>3, <1>4 DEF Leads, n
<1>6. 1 \in 1 .. n /\ 1 \in 0 .. n /\ 1 - 1 = 0
  BY <1>2
<1>7. f[1] \in Positions /\ Goes(p, s[1], f[1])
  BY <1>1, <1>6 DEF n
<1> QED
  BY <1>5, <1>7 DEF t

-----------------------------------------------------------------------------
(* The chat-completions translator.                                          *)

\* Where a client is that has read everything translated so far.
ChatAt(st) ==
    Pos(IF st.started THEN "open" ELSE "before",
        IF st.open \/ st.thinking THEN "open" ELSE "none",
        IF st.open \/ st.thinking THEN st.index + 1 ELSE st.index)

\* Text and thinking are never both open, no call has a block that is yet to
\* come, and nothing is open before the start.
ChatSound(st) ==
    /\ ~(st.open /\ st.thinking)
    /\ ~st.started => ~st.open /\ ~st.thinking
    /\ \A k \in CallIndices :
         st.calls[k] < st.index \/ (st.calls[k] = st.index /\ st.open)

\* A handler's pair whose events lead from `o` to where its state is.
Told(o, p) ==
    /\ p \in ChatPair /\ p.st.started /\ ChatSound(p.st)
    /\ Leads(o, p.out, ChatAt(p.st))

LEMMA ChatAtIs ==
    ASSUME NEW st \in ChatState, st.started
    PROVE  /\ st.open \/ st.thinking => ChatAt(st) = Open(st.index + 1)
           /\ ~st.open /\ ~st.thinking => ChatAt(st) = None(st.index)
           /\ st.index \in Nat /\ st.index + 1 \in Nat
<1>1. st.index \in Nat /\ st.index + 1 \in Nat
  BY DEF ChatState
<1> QED
  BY <1>1 DEF ChatAt, None, Open

\* One event of a block, by its type and index alone.
LEMMA EventGoes ==
    ASSUME NEW n \in Nat, NEW m \in Nat, m = n + 1, NEW e, e.index = n
    PROVE  /\ e.type = "content_block_start" => Goes(None(n), e, Open(m))
           /\ e.type = "content_block_delta" => Goes(Open(m), e, Open(m))
           /\ e.type = "content_block_stop" => Goes(Open(m), e, None(m))
<1>1. n = m - 1
  OBVIOUS
<1>2. /\ None(n).phase = "open" /\ None(n).block = "none" /\ None(n).next = n
      /\ Open(m).phase = "open" /\ Open(m).block = "open" /\ Open(m).next = m
  BY DEF None, Open, Pos
<1>3. CASE e.type = "content_block_start"
  BY <1>2, <1>3 DEF Goes
<1>4. CASE e.type = "content_block_delta"
  BY <1>1, <1>2, <1>4 DEF Goes
<1>5. CASE e.type = "content_block_stop"
  BY <1>1, <1>2, <1>5 DEF Goes
<1> QED
  BY <1>3, <1>4, <1>5

LEMMA BlockGoes ==
    ASSUME NEW n \in Nat, NEW m \in Nat, m = n + 1, NEW kind, NEW of, NEW name
    PROVE  /\ Goes(None(n), BlockStart(n, kind, of), Open(m))
           /\ Goes(None(n), ToolStart(n, of, name), Open(m))
           /\ Goes(Open(m), BlockDelta(n, kind, of), Open(m))
           /\ Goes(Open(m), WholeDelta(n, kind, of), Open(m))
           /\ Goes(Open(m), BlockStop(n), None(m))
<1>1. /\ BlockStart(n, kind, of).type = "content_block_start" /\ BlockStart(n, kind, of).index = n
      /\ ToolStart(n, of, name).type = "content_block_start" /\ ToolStart(n, of, name).index = n
      /\ BlockDelta(n, kind, of).type = "content_block_delta" /\ BlockDelta(n, kind, of).index = n
      /\ WholeDelta(n, kind, of).type = "content_block_delta" /\ WholeDelta(n, kind, of).index = n
      /\ BlockStop(n).type = "content_block_stop" /\ BlockStop(n).index = n
  BY DEF BlockStart, ToolStart, BlockDelta, WholeDelta, BlockStop, Event
<1> QED
  BY <1>1, EventGoes

\* Two events that lead on.
LEMMA LeadsTwo ==
    ASSUME NEW S, NEW p \in Positions, NEW a \in S, NEW b \in S, NEW q, NEW u,
           Goes(p, a, q), Goes(q, b, u)
    PROVE  Leads(p, <<a, b>>, u) /\ <<a, b>> \in Seq(S)
<1> DEFINE t == <<a, b>>
           r == [i \in 0 .. 2 |-> IF i = 0 THEN p ELSE IF i = 1 THEN q ELSE u]
<1>1. q \in Positions /\ u \in Positions
  BY GoesTyped
<1>2. t \in Seq(S) /\ Len(t) = 2 /\ t[1] = a /\ t[2] = b
  OBVIOUS
<1>3. r \in [0 .. 2 -> Positions] /\ r[0] = p /\ r[1] = q /\ r[2] = u
  BY <1>1
<1> HIDE DEF t, r
<1>4. ASSUME NEW i \in 1 .. 2 PROVE Goes(r[i - 1], t[i], r[i])
  <2>1. i = 1 \/ i = 2
    OBVIOUS
  <2>2. 1 - 1 = 0 /\ 2 - 1 = 1
    OBVIOUS
  <2> QED
    BY <1>2, <1>3, <2>1, <2>2
<1>5. Leads(p, t, u)
  BY <1>2, <1>3, <1>4 DEF Leads
<1> QED
  BY <1>2, <1>5 DEF t

\* A whole block of two deltas.
LEMMA LeadsFour ==
    ASSUME NEW S, NEW p \in Positions, NEW a \in S, NEW b \in S, NEW c \in S, NEW d \in S,
           NEW q, NEW u, Goes(p, a, q), Goes(q, b, q), Goes(q, c, q), Goes(q, d, u)
    PROVE  Leads(p, <<a, b, c, d>>, u) /\ <<a, b, c, d>> \in Seq(S)
<1> DEFINE t == <<a, b, c, d>>
           r == [i \in 0 .. 4 |-> IF i = 0 THEN p ELSE IF i = 4 THEN u ELSE q]
<1>1. q \in Positions /\ u \in Positions
  BY GoesTyped
<1>2. t \in Seq(S) /\ Len(t) = 4 /\ t[1] = a /\ t[2] = b /\ t[3] = c /\ t[4] = d
  OBVIOUS
<1>3. r \in [0 .. 4 -> Positions] /\ r[0] = p /\ r[1] = q /\ r[2] = q /\ r[3] = q /\ r[4] = u
  BY <1>1
<1> HIDE DEF t, r
<1>4. ASSUME NEW i \in 1 .. 4 PROVE Goes(r[i - 1], t[i], r[i])
  <2>1. i = 1 \/ i = 2 \/ i = 3 \/ i = 4
    OBVIOUS
  <2>2. 1 - 1 = 0 /\ 2 - 1 = 1 /\ 3 - 1 = 2 /\ 4 - 1 = 3
    OBVIOUS
  <2> QED
    BY <1>2, <1>3, <2>1, <2>2
<1>5. Leads(p, t, u)
  BY <1>2, <1>3, <1>4 DEF Leads
<1> QED
  BY <1>2, <1>5 DEF t

\* More events, up to where the new state is.
LEMMA TellMore ==
    ASSUME NEW o, NEW p, Told(o, p), NEW st \in ChatState, st.started, ChatSound(st),
           NEW events \in Seq(Body), Leads(ChatAt(p.st), events, ChatAt(st))
    PROVE  Told(o, [st |-> st, out |-> p.out \o events])
<1>1. p.out \in Seq(Body)
  BY DEF Told, ChatPair
<1>2. Leads(o, p.out \o events, ChatAt(st)) /\ p.out \o events \in Seq(Body)
  BY <1>1, LeadsOn, ConcatProperties DEF Told
<1> QED
  BY <1>2, PairTyped DEF Told

LEMMA CloseContentTells ==
    ASSUME NEW o, NEW p, Told(o, p), p.st.open
    PROVE  LET c == CloseContent(p)
           IN /\ Told(o, c) /\ ~c.st.open /\ ~c.st.thinking
              /\ c.st.calls = p.st.calls
<1> DEFINE st == [p.st EXCEPT !.open = FALSE, !.index = @ + 1]
<1>1. p.st \in ChatState /\ p.out \in Seq(Body) /\ p.st.index \in Nat /\ p.st.started
      /\ ~p.st.thinking /\ st \in ChatState
  BY MovedOn DEF Told, ChatPair, ChatState, ChatSound
<1>2. /\ st.open = FALSE /\ st.thinking = p.st.thinking /\ st.index = p.st.index + 1
      /\ st.calls = p.st.calls /\ st.started = p.st.started
  BY <1>1 DEF ChatState
<1> HIDE DEF st
<1>3. ChatSound(st)
  <2>1. \A k \in CallIndices : st.calls[k] < st.index
    <3>1. \A k \in CallIndices : p.st.calls[k] < p.st.index \/ p.st.calls[k] = p.st.index
      BY DEF Told, ChatSound
    <3>2. \A k \in CallIndices : p.st.calls[k] \in Nat \cup {NoBlock}
      BY <1>1 DEF ChatState
    <3> QED
      BY <1>1, <1>2, <3>1, <3>2 DEF NoBlock
  <2> QED
    BY <1>1, <1>2, <2>1 DEF ChatSound
<1>m. PICK m \in Nat : m = p.st.index + 1
  BY <1>1
<1>4. ChatAt(p.st) = Open(m) /\ ChatAt(st) = None(m)
  BY <1>1, <1>2, <1>m, ChatAtIs
<1>5. BlockStop(p.st.index) \in Body
  BY <1>1, BodyTyped DEF Idents, BlockKinds, Names
<1>6. Leads(ChatAt(p.st), <<BlockStop(p.st.index)>>, ChatAt(st))
  <2>1. Goes(Open(m), BlockStop(p.st.index), None(m))
    BY <1>1, <1>m, BlockGoes
  <2>2. Leads(Open(m), <<BlockStop(p.st.index)>>, None(m))
    BY <2>1, LeadsOne, PosTyped
  <2> QED
    BY <1>4, <2>2
<1>7. Told(o, [st |-> st, out |-> p.out \o <<BlockStop(p.st.index)>>])
  <2>1. st.started /\ <<BlockStop(p.st.index)>> \in Seq(Body)
    BY <1>1, <1>2, <1>5
  <2> QED
    BY <1>1, <1>3, <1>6, <2>1, TellMore
<1>8. CloseContent(p) = [st |-> st, out |-> p.out \o <<BlockStop(p.st.index)>>]
  BY <1>1, <1>5, AppendIsConcat DEF CloseContent, st
<1> QED
  BY <1>1, <1>2, <1>7, <1>8

LEMMA SignedTells ==
    ASSUME NEW o, NEW p, Told(o, p), p.st.thinking
    PROVE  LET c == Signed(p)
           IN /\ Told(o, c) /\ ~c.st.open /\ ~c.st.thinking
              /\ c.st.calls = p.st.calls
<1> DEFINE st == [p.st EXCEPT !.thinking = FALSE, !.index = @ + 1]
           a == BlockDelta(p.st.index, "signature", <<>>)
           b == BlockStop(p.st.index)
<1>1. p.st \in ChatState /\ p.out \in Seq(Body) /\ p.st.index \in Nat /\ p.st.started
      /\ ~p.st.open /\ st \in ChatState
  BY MovedOn DEF Told, ChatPair, ChatState, ChatSound
<1>2. /\ st.thinking = FALSE /\ st.open = p.st.open /\ st.index = p.st.index + 1
      /\ st.calls = p.st.calls /\ st.started = p.st.started
  BY <1>1 DEF ChatState
<1> HIDE DEF st
<1>3. ChatSound(st)
  <2>1. \A k \in CallIndices : st.calls[k] < st.index
    <3>1. \A k \in CallIndices : p.st.calls[k] < p.st.index
      BY <1>1 DEF Told, ChatSound
    <3>2. \A k \in CallIndices : p.st.calls[k] \in Nat \cup {NoBlock}
      BY <1>1 DEF ChatState
    <3> QED
      BY <1>1, <1>2, <3>1, <3>2 DEF NoBlock
  <2> QED
    BY <1>1, <1>2, <2>1 DEF ChatSound
<1>m. PICK m \in Nat : m = p.st.index + 1
  BY <1>1
<1>4. ChatAt(p.st) = Open(m) /\ ChatAt(st) = None(m)
  BY <1>1, <1>2, <1>m, ChatAtIs
<1>5. a \in Body /\ b \in Body
  BY <1>1, BodyTyped DEF Idents, BlockKinds, Names
<1>6. Leads(ChatAt(p.st), <<a, b>>, ChatAt(st)) /\ <<a, b>> \in Seq(Body)
  <2>1. /\ Goes(ChatAt(p.st), a, ChatAt(p.st)) /\ Goes(ChatAt(p.st), b, ChatAt(st))
        /\ ChatAt(p.st) \in Positions
    BY <1>1, <1>m, <1>4, BlockGoes, PosTyped
  <2> HIDE DEF a, b
  <2> QED
    BY <1>5, <2>1, LeadsTwo
<1>7. Told(o, [st |-> st, out |-> p.out \o <<a, b>>])
  BY <1>1, <1>2, <1>3, <1>6, TellMore
<1>8. Signed(p) = [st |-> st, out |-> p.out \o <<a, b>>]
  BY DEF Signed, st
<1> QED
  BY <1>1, <1>2, <1>7, <1>8

\* A thinking block is closed if there is one.
LEMMA CloseThinkingTells ==
    ASSUME NEW o, NEW p, Told(o, p)
    PROVE  LET c == CloseThinkingBlockIfOpen(p)
           IN /\ Told(o, c) /\ ~c.st.thinking /\ c.st.calls = p.st.calls
              /\ p.st.thinking => ~c.st.open
              /\ ~p.st.thinking => c = p
<1>1. CASE p.st.thinking
  <2>1. CloseThinkingBlockIfOpen(p) = Signed(p)
    BY <1>1 DEF CloseThinkingBlockIfOpen, Signed
  <2> QED
    BY <1>1, <2>1, SignedTells
<1>2. CASE ~p.st.thinking
  BY <1>2 DEF CloseThinkingBlockIfOpen
<1> QED
  BY <1>1, <1>2

\* A block's start, where it is needed, and a first delta.
LEMMA BegunLeads ==
    ASSUME NEW out \in Seq(Body), NEW n \in Nat, NEW m \in Nat, m = n + 1, NEW kind \in BlockKinds,
           NEW running \in BOOLEAN, NEW o,
           Leads(o, out, IF running THEN Open(m) ELSE None(n))
    PROVE  Leads(o, out \o (IF running THEN <<>> ELSE <<BlockStart(n, kind, <<>>)>>)
                      \o <<BlockDelta(n, kind, <<>>)>>, Open(m))
<1> DEFINE s == BlockStart(n, kind, <<>>)
           d == BlockDelta(n, kind, <<>>)
           start == IF running THEN <<>> ELSE <<s>>
<1>1. s \in Body /\ d \in Body
  BY BodyTyped DEF Idents, Names
<1>2. Goes(None(n), s, Open(m)) /\ Goes(Open(m), d, Open(m))
  BY BlockGoes
<1> HIDE DEF s, d
<1>3. start \in Seq(Body) /\ <<d>> \in Seq(Body)
  BY <1>1
<1>4. Leads(o, out \o start, Open(m))
  <2>1. CASE running
    BY <2>1, ConcatEmptySeq
  <2>2. CASE ~running
    <3>1. Leads(None(n), <<s>>, Open(m)) /\ <<s>> \in Seq(Body)
      BY <1>1, <1>2, LeadsOne, PosTyped
    <3> QED
      BY <2>2, <3>1, LeadsOn
  <2> QED
    BY <2>1, <2>2
<1> HIDE DEF start
<1>5. out \o start \in Seq(Body)
  BY <1>3, ConcatProperties
<1>6. Leads(Open(m), <<d>>, Open(m))
  BY <1>2, LeadsOne, PosTyped
<1>7. Leads(o, out \o start \o <<d>>, Open(m))
  BY <1>3, <1>4, <1>5, <1>6, LeadsOn
<1> QED
  BY <1>7 DEF start, s, d

LEMMA ThinkingTextTells ==
    ASSUME NEW o, NEW p, Told(o, p), NEW chunk \in ChunkRecord, chunk.reasoning => ~p.st.open
    PROVE  LET c == HandleThinkingText(p, chunk)
           IN /\ Told(o, c) /\ c.st.open = p.st.open /\ c.st.calls = p.st.calls
              /\ c.st.index = p.st.index
              /\ ~chunk.reasoning => c = p
<1>1. SUFFICES ASSUME chunk.reasoning
               PROVE  LET c == HandleThinkingText(p, chunk)
                      IN /\ Told(o, c) /\ c.st.open = p.st.open /\ c.st.calls = p.st.calls
                         /\ c.st.index = p.st.index
  BY DEF HandleThinkingText
<1> DEFINE st  == [p.st EXCEPT !.thinking = TRUE]
           out == p.out \o (IF p.st.thinking THEN <<>>
                            ELSE <<BlockStart(p.st.index, "thinking", <<>>)>>)
                    \o <<BlockDelta(p.st.index, "thinking", <<>>)>>
<1>2. p.st \in ChatState /\ p.out \in Seq(Body) /\ p.st.index \in Nat /\ p.st.thinking \in BOOLEAN
      /\ p.st.started /\ ~p.st.open /\ ChatSound(p.st) /\ Leads(o, p.out, ChatAt(p.st))
  BY <1>1 DEF Told, ChatPair, ChatState
<1>3. st \in ChatState /\ st.thinking /\ st.open = p.st.open /\ st.index = p.st.index
      /\ st.calls = p.st.calls /\ st.started = p.st.started
  BY <1>2 DEF ChatState
<1>m. PICK m \in Nat : m = p.st.index + 1
  BY <1>2
<1> HIDE DEF st
<1>4. ChatAt(p.st) = (IF p.st.thinking THEN Open(m) ELSE None(p.st.index)) /\ ChatAt(st) = Open(m)
  BY <1>2, <1>3, <1>m, ChatAtIs
<1>5. "thinking" \in BlockKinds
  BY DEF BlockKinds
<1> DEFINE running == p.st.thinking
           n == p.st.index
<1>r. p.out \in Seq(Body) /\ n \in Nat /\ m \in Nat /\ m = n + 1 /\ running \in BOOLEAN
      /\ Leads(o, p.out, IF running THEN Open(m) ELSE None(n))
  BY <1>2, <1>4, <1>m
<1>6. Leads(o, out, ChatAt(st)) /\ out \in Seq(Body)
  <2> HIDE DEF running, n
  <2>1. Leads(o, p.out \o (IF running THEN <<>> ELSE <<BlockStart(n, "thinking", <<>>)>>)
                   \o <<BlockDelta(n, "thinking", <<>>)>>, Open(m))
    BY <1>r, <1>5, BegunLeads
  <2>2. p.out \o (IF running THEN <<>> ELSE <<BlockStart(n, "thinking", <<>>)>>)
              \o <<BlockDelta(n, "thinking", <<>>)>> \in Seq(Body)
    BY <1>r, <1>5, BegunTyped
  <2> QED
    BY <1>4, <2>1, <2>2 DEF out, running, n
<1> HIDE DEF out
<1>7. ChatSound(st)
  BY <1>2, <1>3 DEF ChatSound
<1>8. Told(o, [st |-> st, out |-> out])
  BY <1>2, <1>3, <1>6, <1>7, PairTyped DEF Told
<1>9. HandleThinkingText(p, chunk) = [st |-> st, out |-> out]
  BY <1>1 DEF HandleThinkingText, st, out
<1> QED
  BY <1>3, <1>8, <1>9

\* Text leaves a block open that is not a call's.
LEMMA TextTells ==
    ASSUME NEW o, NEW p, Told(o, p), NEW chunk \in ChunkRecord
    PROVE  LET c == HandleText(p, chunk)
           IN /\ Told(o, c)
              /\ chunk.content = "text" => ~c.st.thinking /\ ~IsToolBlockOpen(c.st)
              /\ chunk.content # "text" => c = p
<1>1. SUFFICES ASSUME chunk.content = "text"
               PROVE  LET c == HandleText(p, chunk)
                      IN Told(o, c) /\ ~c.st.thinking /\ ~IsToolBlockOpen(c.st)
  BY DEF HandleText
<1> DEFINE t == CloseThinkingBlockIfOpen(p)
           q == IF IsToolBlockOpen(t.st) THEN CloseContent(t) ELSE t
           st == [q.st EXCEPT !.open = TRUE]
           out == q.out \o (IF q.st.open THEN <<>> ELSE <<BlockStart(q.st.index, "text", <<>>)>>)
                    \o <<BlockDelta(q.st.index, "text", <<>>)>>
<1>2. Told(o, t) /\ ~t.st.thinking
  BY CloseThinkingTells
<1> HIDE DEF t
<1>3. Told(o, q) /\ ~q.st.thinking /\ ~IsToolBlockOpen(q.st)
  <2>1. CASE IsToolBlockOpen(t.st)
    BY <1>2, <2>1, CloseContentTells DEF IsToolBlockOpen
  <2>2. CASE ~IsToolBlockOpen(t.st)
    BY <1>2, <2>2
  <2> QED
    BY <2>1, <2>2
<1> HIDE DEF q
<1>4. q.st \in ChatState /\ q.out \in Seq(Body) /\ q.st.index \in Nat /\ q.st.open \in BOOLEAN
      /\ q.st.started /\ ChatSound(q.st) /\ Leads(o, q.out, ChatAt(q.st))
      /\ q.st.calls \in [CallIndices -> Nat \cup {NoBlock}]
  BY <1>3 DEF Told, ChatPair, ChatState
<1>5. st \in ChatState /\ st.open /\ st.thinking = q.st.thinking /\ st.index = q.st.index
      /\ st.calls = q.st.calls /\ st.started = q.st.started
  BY <1>4 DEF ChatState
<1>m. PICK m \in Nat : m = q.st.index + 1
  BY <1>4
<1> HIDE DEF st
<1>6. ChatAt(q.st) = (IF q.st.open THEN Open(m) ELSE None(q.st.index)) /\ ChatAt(st) = Open(m)
  BY <1>3, <1>4, <1>5, <1>m, ChatAtIs
<1>7. "text" \in BlockKinds
  BY DEF BlockKinds
<1> DEFINE running == q.st.open
           n == q.st.index
<1>r. q.out \in Seq(Body) /\ n \in Nat /\ m \in Nat /\ m = n + 1 /\ running \in BOOLEAN
      /\ Leads(o, q.out, IF running THEN Open(m) ELSE None(n))
  BY <1>4, <1>6, <1>m
<1>8. Leads(o, out, ChatAt(st)) /\ out \in Seq(Body)
  <2> HIDE DEF running, n
  <2>1. Leads(o, q.out \o (IF running THEN <<>> ELSE <<BlockStart(n, "text", <<>>)>>)
                   \o <<BlockDelta(n, "text", <<>>)>>, Open(m))
    BY <1>r, <1>7, BegunLeads
  <2>2. q.out \o (IF running THEN <<>> ELSE <<BlockStart(n, "text", <<>>)>>)
              \o <<BlockDelta(n, "text", <<>>)>> \in Seq(Body)
    BY <1>r, <1>7, BegunTyped
  <2> QED
    BY <1>6, <2>1, <2>2 DEF out, running, n
<1> HIDE DEF out
<1>9. \A k \in CallIndices : st.calls[k] < st.index
  <2>1. \A k \in CallIndices : 
        q.st.calls[k] < q.st.index \/ (q.st.calls[k] = q.st.index /\ q.st.open)
    BY <1>4 DEF ChatSound
  <2>2. \A k \in CallIndices : q.st.calls[k] = q.st.index => ~q.st.open
    BY <1>3 DEF IsToolBlockOpen
  <2> QED
    BY <1>5, <2>1, <2>2
<1>10. ChatSound(st)
  BY <1>3, <1>4, <1>5, <1>9 DEF ChatSound
<1>11. ~IsToolBlockOpen(st)
  <2>1. \A k \in CallIndices : st.calls[k] # st.index
    <3>1. \A k \in CallIndices : st.calls[k] \in Nat \cup {NoBlock}
      BY <1>4, <1>5
    <3> QED
      BY <1>4, <1>5, <1>9, <3>1 DEF NoBlock
  <2> QED
    BY <2>1 DEF IsToolBlockOpen
<1>12. Told(o, [st |-> st, out |-> out])
  BY <1>4, <1>5, <1>8, <1>10, PairTyped DEF Told
<1>13. HandleText(p, chunk) = [st |-> st, out |-> out]
  BY <1>1 DEF HandleText, st, out, q, t
<1> QED
  BY <1>3, <1>5, <1>11, <1>12, <1>13

LEMMA SignatureTells ==
    ASSUME NEW o, NEW p, Told(o, p), NEW chunk \in ChunkRecord
    PROVE  LET c == HandleSignature(p, chunk)
           IN /\ Told(o, c)
              /\ IsToolBlockOpen(c.st) => IsToolBlockOpen(p.st)
              /\ (chunk.content = "empty" /\ chunk.opaque) => ~c.st.thinking
              /\ ~p.st.thinking => c = p
<1>1. CASE chunk.content = "empty" /\ chunk.opaque /\ p.st.thinking
  <2>1. HandleSignature(p, chunk) = Signed(p)
    BY <1>1 DEF HandleSignature, Signed
  <2> QED
    BY <1>1, <2>1, SignedTells DEF IsToolBlockOpen
<1>2. CASE ~(chunk.content = "empty" /\ chunk.opaque /\ p.st.thinking)
  BY <1>2 DEF HandleSignature
<1> QED
  BY <1>1, <1>2

\* A whole thinking block, where no block is open.
LEMMA OpaqueTells ==
    ASSUME NEW o, NEW p, Told(o, p), ~p.st.open, ~p.st.thinking, NEW chunk
    PROVE  LET c == HandleReasoningOpaque(p, chunk)
           IN Told(o, c) /\ ~c.st.open /\ ~c.st.thinking /\ c.st.calls = p.st.calls
<1>1. SUFFICES ASSUME chunk.opaque
               PROVE  LET c == HandleReasoningOpaque(p, chunk)
                      IN Told(o, c) /\ ~c.st.open /\ ~c.st.thinking /\ c.st.calls = p.st.calls
  BY DEF HandleReasoningOpaque
<1> DEFINE n == p.st.index
           st == [p.st EXCEPT !.index = @ + 1]
           a == BlockStart(n, "thinking", <<>>)
           b == BlockDelta(n, "thinking", <<>>)
           c == BlockDelta(n, "signature", <<>>)
           d == BlockStop(n)
<1>2. p.st \in ChatState /\ p.out \in Seq(Body) /\ n \in Nat /\ p.st.started
      /\ ChatSound(p.st) /\ st \in ChatState
  BY MovedOn DEF Told, ChatPair, ChatState
<1>3. st.thinking = p.st.thinking /\ st.open = p.st.open /\ st.index = n + 1
      /\ st.calls = p.st.calls /\ st.started = p.st.started
  BY <1>2 DEF ChatState
<1>m. PICK m \in Nat : m = n + 1
  BY <1>2
<1> HIDE DEF st
<1>4. ChatAt(p.st) = None(n) /\ ChatAt(st) = None(m)
  BY <1>2, <1>3, <1>m, ChatAtIs
<1> HIDE DEF n
<1>5. a \in Body /\ b \in Body /\ c \in Body /\ d \in Body
  BY <1>2, BodyTyped DEF Idents, BlockKinds, Names
<1>6. /\ Goes(None(n), a, Open(m)) /\ Goes(Open(m), b, Open(m))
      /\ Goes(Open(m), c, Open(m)) /\ Goes(Open(m), d, None(m))
  BY <1>2, <1>m, BlockGoes
<1> HIDE DEF a, b, c, d
<1>9. Leads(None(n), <<a, b, c, d>>, None(m)) /\ <<a, b, c, d>> \in Seq(Body)
  BY <1>2, <1>5, <1>6, LeadsFour, PosTyped
<1>10. ChatSound(st)
  <2>1. \A k \in CallIndices : p.st.calls[k] < n
    BY <1>2 DEF ChatSound, n
  <2>2. \A k \in CallIndices : p.st.calls[k] \in Nat \cup {NoBlock}
    BY <1>2 DEF ChatState
  <2> QED
    BY <1>2, <1>3, <2>1, <2>2 DEF NoBlock, ChatSound
<1>11. Told(o, [st |-> st, out |-> p.out \o <<a, b, c, d>>])
  BY <1>2, <1>3, <1>4, <1>9, <1>10, TellMore
<1>12. HandleReasoningOpaque(p, chunk) = [st |-> st, out |-> p.out \o <<a, b, c, d>>]
  BY <1>1 DEF HandleReasoningOpaque, st, a, b, c, d, n
<1> QED
  BY <1>3, <1>11, <1>12

\* A call's block is opened: it is the current one.
LEMMA NewToolCallTells ==
    ASSUME NEW o, NEW p, Told(o, p), ~p.st.thinking, NEW call \in CallRecord \ {NoCall}
    PROVE  LET c == NewToolCall(p, call)
           IN /\ Told(o, c) /\ c.st.open /\ ~c.st.thinking
              /\ c.st.calls[call.index] = c.st.index
<1> DEFINE q == IF p.st.open THEN CloseContent(p) ELSE p
           n == q.st.index
           st == [q.st EXCEPT !.open = TRUE, !.calls[call.index] = n]
           e == ToolStart(n, call.id, call.name)
<1>1. Told(o, q) /\ ~q.st.open /\ ~q.st.thinking
  BY CloseContentTells
<1> HIDE DEF q
<1>2. q.st \in ChatState /\ q.out \in Seq(Body) /\ n \in Nat /\ q.st.started
      /\ ChatSound(q.st) /\ q.st.calls \in [CallIndices -> Nat \cup {NoBlock}]
  BY <1>1 DEF Told, ChatPair, ChatState
<1>3. call.index \in CallIndices /\ call.id \in Idents /\ call.name \in Names
  BY DEF CallRecord
<1>4. st \in ChatState /\ st.open /\ st.thinking = q.st.thinking /\ st.index = n
      /\ st.started = q.st.started
      /\ st.calls = [q.st.calls EXCEPT ![call.index] = n]
  BY <1>2, <1>3 DEF ChatState
<1>m. PICK m \in Nat : m = n + 1
  BY <1>2
<1> HIDE DEF st
<1>5. ChatAt(q.st) = None(n) /\ ChatAt(st) = Open(m)
  BY <1>1, <1>2, <1>4, <1>m, ChatAtIs
<1>6. \A k \in CallIndices : st.calls[k] < n \/ st.calls[k] = n
  <2>1. \A k \in CallIndices : q.st.calls[k] < n
    BY <1>1, <1>2 DEF ChatSound
  <2> HIDE DEF n
  <2>2. \A k \in CallIndices : st.calls[k] = IF k = call.index THEN n ELSE q.st.calls[k]
    BY <1>2, <1>4
  <2> QED
    BY <2>1, <2>2
<1>7. ChatSound(st)
  BY <1>1, <1>2, <1>4, <1>6 DEF ChatSound
<1>8. st.calls[call.index] = n
  BY <1>2, <1>3, <1>4
<1> HIDE DEF n
<1>9. e \in Body /\ Goes(None(n), e, Open(m))
  BY <1>2, <1>3, <1>m, BodyTyped, BlockGoes DEF BlockKinds
<1> HIDE DEF e
<1>10. Leads(ChatAt(q.st), <<e>>, ChatAt(st)) /\ <<e>> \in Seq(Body)
  BY <1>2, <1>5, <1>9, LeadsOne, PosTyped
<1>11. Told(o, [st |-> st, out |-> q.out \o <<e>>])
  BY <1>1, <1>2, <1>4, <1>7, <1>10, TellMore
<1>12. NewToolCall(p, call) = [st |-> st, out |-> q.out \o <<e>>]
  <2>1. NewToolCall(p, call) = [st |-> st, out |-> Append(q.out, e)]
    BY DEF NewToolCall, q, n, st, e
  <2> QED
    BY <1>2, <1>9, <2>1, AppendIsConcat
<1>13. NewToolCall(p, call).st = st
  BY <1>12
<1>14. st.open /\ ~st.thinking /\ st.calls[call.index] = st.index
  BY <1>1, <1>4, <1>8
<1>15. Told(o, NewToolCall(p, call))
  BY <1>11, <1>12
<1> QED
  BY <1>13, <1>14, <1>15

\* Arguments of the call whose block is open.
LEMMA ToolArgumentsTell ==
    ASSUME NEW o, NEW p, Told(o, p), p.st.open, NEW call \in CallRecord \ {NoCall},
           p.st.calls[call.index] = p.st.index
    PROVE  LET c == ToolArguments(p, call, call.id)
           IN Told(o, c) /\ c.st = p.st
<1> DEFINE n == p.st.index
           e == BlockDelta(n, "input_json", call.id)
<1>1. p.st \in ChatState /\ p.out \in Seq(Body) /\ n \in Nat /\ p.st.started /\ ChatSound(p.st)
  BY DEF Told, ChatPair, ChatState
<1>2. call.id \in Idents
  BY DEF CallRecord
<1>m. PICK m \in Nat : m = n + 1
  BY <1>1
<1>3. ChatAt(p.st) = Open(m)
  BY <1>1, <1>m, ChatAtIs
<1>4. ToolArguments(p, call, call.id) = [p EXCEPT !.out = Append(@, e)]
  <2>1. p.st.calls[call.index] # NoBlock
    BY <1>1 DEF NoBlock
  <2> QED
    BY <2>1 DEF ToolArguments
<1> HIDE DEF n
<1>5. e \in Body /\ Goes(Open(m), e, Open(m))
  BY <1>1, <1>2, <1>m, BodyTyped, BlockGoes DEF BlockKinds, Names
<1> HIDE DEF e
<1>6. Leads(ChatAt(p.st), <<e>>, ChatAt(p.st)) /\ <<e>> \in Seq(Body)
  BY <1>3, <1>5, LeadsOne, PosTyped
<1>7. Told(o, [st |-> p.st, out |-> p.out \o <<e>>])
  BY <1>1, <1>6, TellMore
<1>8. [p EXCEPT !.out = Append(@, e)] = [st |-> p.st, out |-> p.out \o <<e>>]
  <2>1. Append(p.out, e) = p.out \o <<e>>
    BY <1>1, <1>5, AppendIsConcat
  <2>2. ASSUME NEW x PROVE [p EXCEPT !.out = x] = [st |-> p.st, out |-> x]
    BY DEF Told, ChatPair
  <2> HIDE DEF Told
  <2> QED
    BY <2>1, <2>2
<1> QED
  BY <1>4, <1>7, <1>8

\* A tool call: one that is announced, or the arguments of the one that is open.
LEMMA ToolCallsTell ==
    ASSUME NEW o, NEW p, Told(o, p), NEW chunk \in ChunkRecord, chunk.call # NoCall,
           chunk.opaque => ~IsToolBlockOpen(p.st),
           chunk.call.name = "none" =>
             /\ p.st.open /\ p.st.calls[chunk.call.index] = p.st.index /\ ~chunk.opaque
    PROVE  Told(o, HandleToolCalls(p, chunk)) /\ ~HandleToolCalls(p, chunk).st.thinking
<1> DEFINE t      == CloseThinkingBlockIfOpen(p)
           u      == IF t.st.open /\ ~IsToolBlockOpen(t.st) THEN CloseContent(t) ELSE t
           opened == HandleReasoningOpaqueInToolCalls(t, chunk)
           named  == IF chunk.call.name = "none" THEN opened ELSE NewToolCall(opened, chunk.call)
<1>1. /\ chunk.call \in CallRecord \ {NoCall} /\ chunk.call.index \in CallIndices
      /\ chunk.opaque \in BOOLEAN
  BY DEF ChunkRecord, CallRecord
<1>2. /\ Told(o, t) /\ ~t.st.thinking
      /\ p.st.thinking => ~t.st.open
      /\ ~p.st.thinking => t = p
  BY CloseThinkingTells
<1>3. chunk.opaque => ~IsToolBlockOpen(t.st)
  BY <1>2 DEF IsToolBlockOpen
<1>4. chunk.call.name = "none" =>
        t.st.open /\ t.st.calls[chunk.call.index] = t.st.index /\ ~chunk.opaque
  BY <1>2 DEF Told, ChatSound
<1> HIDE DEF t
<1>5. /\ Told(o, opened) /\ ~opened.st.thinking
      /\ chunk.call.name = "none" =>
           opened.st.open /\ opened.st.calls[chunk.call.index] = opened.st.index
  <2>1. opened = HandleReasoningOpaque(u, chunk)
    BY DEF HandleReasoningOpaqueInToolCalls
  <2>2. Told(o, u) /\ ~u.st.thinking /\ (chunk.opaque => ~u.st.open)
    BY <1>2, <1>3, CloseContentTells
  <2>3. chunk.call.name = "none" => u = t
    BY <1>1, <1>4 DEF IsToolBlockOpen
  <2>4. ~chunk.opaque => opened = u
    BY <2>1 DEF HandleReasoningOpaque
  <2> HIDE DEF u, opened
  <2>5. CASE chunk.opaque
    BY <1>4, <2>1, <2>2, <2>5, OpaqueTells
  <2>6. CASE ~chunk.opaque
    BY <1>4, <2>2, <2>3, <2>4, <2>6
  <2> QED
    BY <2>5, <2>6
<1> HIDE DEF opened
<1>6. /\ Told(o, named) /\ ~named.st.thinking /\ named.st.open
      /\ named.st.calls[chunk.call.index] = named.st.index
  BY <1>1, <1>5, NewToolCallTells
<1> HIDE DEF named
<1>7. Told(o, ToolArguments(named, chunk.call, chunk.call.id))
      /\ ToolArguments(named, chunk.call, chunk.call.id).st = named.st
  BY <1>1, <1>6, ToolArgumentsTell
<1>8. HandleToolCalls(p, chunk) =
        IF chunk.call.args THEN ToolArguments(named, chunk.call, chunk.call.id) ELSE named
  BY DEF HandleToolCalls, named, opened, t
<1> QED
  BY <1>6, <1>7, <1>8

\* The events of `s` lead from `p` to the end of a message no block of which is open.
Finishes(p, s) == \E n \in Nat : Leads(p, s, Pos("ended", "none", n))

LEMMA TerminalLeads ==
    ASSUME NEW n \in Nat, NEW reason \in Reasons
    PROVE  Leads(None(n), Terminal(reason), Pos("ended", "none", n))
<1> DEFINE d == [Event("message_delta") EXCEPT !.reason = reason, !.usage = 1]
           s == Event("message_stop")
<1>1. d.type = "message_delta" /\ d.index = 0 /\ s.type = "message_stop" /\ s.index = 0
  BY DEF Event
<1>2. Terminal(reason) = <<d, s>>
  BY DEF Terminal
<1> HIDE DEF d, s
<1>3. None(n).phase = "open" /\ None(n).block = "none" /\ None(n).told = "no" /\ None(n).next = n
  BY DEF None, Pos
<1>4. /\ Billed(n).phase = "open" /\ Billed(n).block = "none" /\ Billed(n).told = "yes"
      /\ Billed(n).next = n
  BY DEF Billed
<1>5. Goes(None(n), d, Billed(n)) /\ Goes(Billed(n), s, Pos("ended", "none", n))
  BY <1>1, <1>3, <1>4 DEF Goes
<1>6. d \in {d, s} /\ s \in {d, s}
  OBVIOUS
<1> QED
  BY <1>2, <1>5, <1>6, LeadsTwo, PosTyped

\* The last chunk: what is open is closed, and the message ends.
LEMMA FinishTells ==
    ASSUME NEW o, NEW p, Told(o, p), ~p.st.thinking, NEW chunk \in ChunkRecord,
           chunk.finish # "none"
    PROVE  Finishes(o, HandleFinish(p, chunk).out)
<1> DEFINE tool   == IsToolBlockOpen(p.st)
           q      == IF p.st.open THEN CloseContent(p) ELSE p
           closed == IF p.st.open /\ ~tool THEN HandleReasoningOpaque(q, chunk) ELSE q
<1>1. Told(o, q) /\ ~q.st.thinking /\ ~q.st.open
  BY CloseContentTells
<1> HIDE DEF q
<1>2. Told(o, closed) /\ ~closed.st.thinking /\ ~closed.st.open
  BY <1>1, OpaqueTells
<1>3. HandleFinish(p, chunk) = [closed EXCEPT !.out = @ \o Terminal(chunk.finish)]
  BY DEF HandleFinish, q
<1> HIDE DEF closed
<1>4. closed.st \in ChatState /\ closed.out \in Seq(Body) /\ closed.st.started
      /\ Leads(o, closed.out, ChatAt(closed.st))
  BY <1>2 DEF Told, ChatPair
<1>5. ChatAt(closed.st) = None(closed.st.index) /\ closed.st.index \in Nat
  BY <1>2, <1>4, ChatAtIs
<1>6. HandleFinish(p, chunk).out = closed.out \o Terminal(chunk.finish)
  BY <1>2, <1>3 DEF Told, ChatPair
<1>7. closed.out \in Seq(Stream) /\ Terminal(chunk.finish) \in Seq(Stream)
  BY <1>4, StreamTyped, SeqMonotonic DEF ChunkRecord
<1>8. Leads(None(closed.st.index), Terminal(chunk.finish), Pos("ended", "none", closed.st.index))
  BY <1>5, TerminalLeads DEF ChunkRecord
<1> QED
  BY <1>4, <1>5, <1>6, <1>7, <1>8, LeadsOn DEF Finishes

LEMMA MessageStartTells ==
    ASSUME NEW st \in ChatState, ChatSound(st)
    PROVE  LET c == HandleMessageStart([st |-> st, out |-> <<>>])
           IN /\ Told(ChatAt(st), c) /\ c.st.open = st.open /\ c.st.thinking = st.thinking
              /\ c.st.calls = st.calls /\ c.st.index = st.index
<1> DEFINE p == [st |-> st, out |-> <<>>]
<1>1. CASE st.started
  <2>1. HandleMessageStart(p) = p /\ p \in ChatPair
    BY <1>1, EmptySeq DEF HandleMessageStart, ChatPair
  <2>2. ChatAt(st) \in Positions
    BY <1>1, ChatAtIs, PosTyped DEF ChatState
  <2>3. Leads(ChatAt(st), <<>>, ChatAt(st))
    BY <2>2, LeadsNowhere
  <2> QED
    BY <1>1, <2>1, <2>3 DEF Told
<1>2. CASE ~st.started
  <2> DEFINE t == [st EXCEPT !.started = TRUE]
             e == Event("message_start")
  <2>1. t \in ChatState /\ t.started /\ t.open = st.open /\ t.thinking = st.thinking
        /\ t.calls = st.calls /\ t.index = st.index
    BY DEF ChatState
  <2>2. ~st.open /\ ~st.thinking /\ st.index \in Nat
    BY <1>2 DEF ChatSound, ChatState
  <2>3. HandleMessageStart(p) = [st |-> t, out |-> Append(<<>>, e)]
    BY <1>2 DEF HandleMessageStart
  <2> HIDE DEF t
  <2>4. ChatSound(t)
    BY <2>1, <2>2 DEF ChatSound
  <2>5. ChatAt(st) = Pos("before", "none", st.index) /\ ChatAt(t) = None(st.index)
    <3>1. ChatAt(st) = Pos("before", "none", st.index)
      BY <1>2, <2>2 DEF ChatAt
    <3> QED
      BY <2>1, <2>2, <3>1, ChatAtIs
  <2>6. e.type = "message_start" /\ e.index = 0 /\ e \in Body
    BY EventTyped DEF Event, Body, BodyTypes
  <2> HIDE DEF e
  <2>7. Goes(Pos("before", "none", st.index), e, None(st.index))
    BY <2>6 DEF Goes, None, Pos
  <2>8. Leads(ChatAt(st), <<e>>, ChatAt(t)) /\ Append(<<>>, e) = <<e>> /\ <<e>> \in Seq(Body)
    BY <2>2, <2>5, <2>6, <2>7, LeadsOne, PosTyped
  <2>9. Told(ChatAt(st), [st |-> t, out |-> <<e>>])
    BY <2>1, <2>4, <2>8, PairTyped DEF Told
  <2> QED
    BY <2>1, <2>3, <2>8, <2>9
<1> QED
  BY <1>1, <1>2

\* What OrderlyChunk asks of a chunk of a serial upstream.
Orderly(st, chunk) ==
    /\ chunk.opaque => ~IsToolBlockOpen(st)
    /\ (chunk.call # NoCall /\ chunk.call.name = "none") =>
         /\ IsToolBlockOpen(st) /\ chunk.content # "text" /\ ~chunk.reasoning
         /\ st.calls[chunk.call.index] = st.index
    /\ (chunk.finish # "none" /\ (st.thinking \/ chunk.reasoning)) =>
         \/ chunk.content = "text" \/ chunk.call # NoCall
         \/ chunk.content = "empty" /\ chunk.opaque

\* A chunk's events lead from where its state was to where it is, or to the end.
LEMMA ChunkTells ==
    ASSUME NEW st \in ChatState, ChatSound(st), NEW chunk \in ChunkRecord, Orderly(st, chunk)
    PROVE  LET p == TranslateChunk(st, chunk)
           IN /\ chunk.finish = "none" => ChatSound(p.st) /\ Leads(ChatAt(st), p.out, ChatAt(p.st))
              /\ chunk.finish # "none" => Finishes(ChatAt(st), p.out)
<1> DEFINE o       == ChatAt(st)
           begun   == HandleMessageStart([st |-> st, out |-> <<>>])
           delta   == Rerouted(begun.st, chunk)
           thought == HandleThinkingText(begun, delta)
           text    == HandleText(thought, delta)
           content == HandleSignature(text, delta)
           called  == HandleToolCalls(content, delta)
<1>1. /\ Told(o, begun) /\ begun.st.open = st.open /\ begun.st.thinking = st.thinking
      /\ begun.st.calls = st.calls /\ begun.st.index = st.index
  BY MessageStartTells
<1>2. /\ delta \in ChunkRecord /\ delta.call = chunk.call /\ delta.finish = chunk.finish
      /\ delta.opaque = chunk.opaque
      /\ delta.reasoning => ~begun.st.open /\ chunk.reasoning
      /\ chunk.content = "text" => delta.content = "text"
      /\ delta.content = chunk.content \/ delta.content = "text"
      /\ chunk.reasoning => delta.reasoning \/ delta.content = "text"
      /\ ~chunk.reasoning => delta = chunk
  BY DEF Rerouted, ChunkRecord
<1>3. TranslateChunk(st, chunk) = HandleFinish(called, delta)
  BY DEF TranslateChunk, HandleContent
<1> HIDE DEF begun, delta
<1>4. /\ Told(o, thought) /\ thought.st.open = st.open /\ thought.st.calls = st.calls
      /\ thought.st.index = st.index
      /\ ~delta.reasoning => thought = begun
  BY <1>1, <1>2, ThinkingTextTells
<1> HIDE DEF thought
<1>5. /\ Told(o, text)
      /\ delta.content = "text" => ~text.st.thinking /\ ~IsToolBlockOpen(text.st)
      /\ delta.content # "text" => text = thought
  BY <1>2, <1>4, TextTells
<1> HIDE DEF text
<1>6. /\ Told(o, content)
      /\ IsToolBlockOpen(content.st) => IsToolBlockOpen(text.st)
      /\ (delta.content = "empty" /\ delta.opaque) => ~content.st.thinking
      /\ ~text.st.thinking => content = text
  BY <1>2, <1>5, SignatureTells
<1> HIDE DEF content
<1>7. delta.opaque => ~IsToolBlockOpen(content.st)
  BY <1>2, <1>4, <1>5, <1>6 DEF Orderly, IsToolBlockOpen
<1>8. (delta.call # NoCall /\ delta.call.name = "none") =>
        /\ content.st.open /\ content.st.calls[delta.call.index] = content.st.index
        /\ ~delta.opaque
  <2>1. SUFFICES ASSUME delta.call # NoCall, delta.call.name = "none"
                 PROVE  /\ content.st.open /\ ~delta.opaque
                        /\ content.st.calls[delta.call.index] = content.st.index
    OBVIOUS
  <2>2. /\ st.open /\ ~chunk.reasoning /\ chunk.content # "text" /\ ~chunk.opaque
        /\ st.calls[chunk.call.index] = st.index
    BY <1>2, <2>1 DEF Orderly, IsToolBlockOpen
  <2>3. delta = chunk /\ thought = begun /\ text = begun
    BY <1>2, <1>4, <1>5, <2>2
  <2>4. ~begun.st.thinking
    BY <1>1, <2>2 DEF ChatSound
  <2>5. content = begun
    BY <1>6, <2>3, <2>4
  <2> QED
    BY <1>1, <2>2, <2>3, <2>5
<1>9. /\ Told(o, called)
      /\ chunk.call # NoCall => ~called.st.thinking
      /\ chunk.call = NoCall => called = content
  <2>1. CASE chunk.call = NoCall
    BY <1>2, <1>6, <2>1 DEF HandleToolCalls
  <2>2. CASE chunk.call # NoCall
    BY <1>2, <1>6, <1>7, <1>8, <2>2, ToolCallsTell
  <2> QED
    BY <2>1, <2>2
<1> HIDE DEF called
<1>10. CASE chunk.finish = "none"
  <2>1. TranslateChunk(st, chunk) = called
    BY <1>2, <1>3, <1>10 DEF HandleFinish
  <2> QED
    BY <1>9, <1>10, <2>1 DEF Told
<1>11. CASE chunk.finish # "none"
  <2>1. ~called.st.thinking
    <3>1. CASE chunk.call # NoCall
      BY <1>9, <3>1
    <3>2. CASE delta.content = "text"
      BY <1>5, <1>6, <1>9, <3>2
    <3>3. CASE ~st.thinking /\ ~chunk.reasoning
      BY <1>1, <1>2, <1>4, <1>5, <1>6, <1>9, <3>3
    <3>4. CASE chunk.content = "empty" /\ chunk.opaque /\ delta.content # "text"
      BY <1>2, <1>6, <1>9, <3>4
    <3> QED
      BY <1>2, <1>11, <3>1, <3>2, <3>3, <3>4 DEF Orderly
  <2> QED
    BY <1>2, <1>3, <1>9, <1>11, <2>1, FinishTells
<1> QED
  BY <1>10, <1>11

-----------------------------------------------------------------------------
(* The Responses translator, once the message is started.                    *)

At(st) == Pos("open", IF st.open = {} THEN "none" ELSE "open", st.next)

\* Only the block allocated last can be open; it is `b`.
OneOpen(st) == st.open \subseteq {st.next - 1}
Current(st, b) == st.open = {b} /\ st.next = b + 1

LEMMA AtIs ==
    ASSUME NEW st \in ResponsesState
    PROVE  /\ st.next \in Nat /\ At(st) \in Positions
           /\ st.open = {} => At(st) = None(st.next)
           /\ st.open # {} => At(st) = Open(st.next)
<1>1. st.next \in Nat
  BY DEF ResponsesState, ResponsesFields
<1>2. CASE st.open = {}
  BY <1>1, <1>2, PosTyped DEF At, None
<1>3. CASE st.open # {}
  BY <1>1, <1>3, PosTyped DEF At, Open
<1> QED
  BY <1>1, <1>2, <1>3

LEMMA StopsLead ==
    ASSUME NEW st \in ResponsesState, OneOpen(st)
    PROVE  /\ Stops(st.open) \in Seq(Stream)
           /\ Leads(At(st), Stops(st.open), None(st.next))
<1>1. st.next \in Nat /\ Numbered(st)
  BY AtIs DEF ResponsesState
<1>2. CASE st.open = {}
  <2>1. Stops({}) = <<>> /\ <<>> \in Seq(Stream)
    BY OneStop, EmptySeq
  <2>2. At(st) = None(st.next)
    BY <1>2, AtIs
  <2>3. Leads(None(st.next), <<>>, None(st.next))
    BY <1>1, PosTyped, LeadsNowhere
  <2> QED
    BY <1>2, <2>1, <2>2, <2>3
<1>3. CASE st.open # {}
  <2>1. PICK b \in 0 .. st.next - 1 : st.open = {b}
    BY <1>1, <1>3 DEF Numbered
  <2>2. b \in Nat /\ st.next = b + 1
    <3>1. b = st.next - 1
      BY <2>1 DEF OneOpen
    <3> QED
      BY <1>1, <3>1
  <2>3. Goes(Open(st.next), BlockStop(b), None(st.next))
    BY <1>1, <2>2, BlockGoes
  <2>4. BlockStop(b) \in Stream
    BY <2>2, BodyTyped, StreamTyped DEF Idents, BlockKinds, Names
  <2>5. Leads(Open(st.next), <<BlockStop(b)>>, None(st.next))
    BY <1>1, <2>3, LeadsOne, PosTyped
  <2>6. <<BlockStop(b)>> \in Seq(Stream) /\ Stops(st.open) = <<BlockStop(b)>>
    BY <2>1, <2>4, OneStop
  <2> QED
    BY <1>3, <2>5, <2>6, AtIs
<1> QED
  BY <1>2, <1>3

\* The next block is opened.
LEMMA OpeningLeads ==
    ASSUME NEW st \in ResponsesState, OneOpen(st), NEW m \in Nat, m = st.next + 1,
           NEW start \in Stream, start.type = "content_block_start", start.index = st.next
    PROVE  /\ OpeningOf(st.open, st.next, start) \in Seq(Stream)
           /\ Leads(At(st), OpeningOf(st.open, st.next, start), Open(m))
<1>1. st.next \in Nat /\ st.next \notin st.open
  BY AtIs DEF OneOpen
<1>2. OpeningOf(st.open, st.next, start) = Append(Stops(st.open), start)
  BY <1>1 DEF OpeningOf
<1>3. Goes(None(st.next), start, Open(m))
  BY <1>1, EventGoes
<1>4. Stops(st.open) \in Seq(Stream) /\ Leads(At(st), Stops(st.open), None(st.next))
  BY StopsLead
<1> QED
  BY <1>2, <1>3, <1>4, LeadsMore, AppendProperties

\* A pair whose events lead from where `st` is to where its own state is, with
\* block `b` open.
Spoken(st, p, b) ==
    /\ p \in ResponsesPair /\ b \in Nat /\ Current(p.st, b)
    /\ p.st.completed = st.completed
    /\ Leads(At(st), p.out, At(p.st))

\* A block that is allocated in `kept`, if it is new, and opened.
LEMMA OpenedTells ==
    ASSUME NEW st \in ResponsesState, OneOpen(st), NEW kept \in ResponsesState, NEW b \in Nat,
           NEW start \in Stream, start.type = "content_block_start", start.index = b,
           kept.open = st.open, kept.completed = st.completed,
           \/ kept = st /\ Current(st, b)
           \/ b = st.next /\ kept.next = st.next + 1
    PROVE  LET p == OpenIfNeeded(Unchanged(kept), b, start)
           IN /\ Spoken(st, p, b) /\ p.st.next = kept.next
              /\ p.st.blockByKey = kept.blockByKey /\ p.st.functions = kept.functions
<1> DEFINE u == Unchanged(kept)
           p == OpenIfNeeded(u, b, start)
           opening == OpeningOf(kept.open, b, start)
<1>1. u \in ResponsesPair /\ u.st = kept /\ u.out = <<>>
  BY UnchangedTyped DEF Unchanged
<1>2. b \in 0 .. kept.next - 1 /\ kept.next = b + 1
  BY AtIs DEF Current
<1> HIDE DEF u
<1>3. /\ p \in ResponsesPair /\ p.st = Opened(kept, b) /\ p.out = u.out \o opening
      /\ p.st.open = {b}
  <2>1. b \in 0 .. u.st.next - 1
    BY <1>1, <1>2
  <2> QED
    BY <1>1, <2>1, OpenedTyped
<1> HIDE DEF p
<1>4. /\ p.st.next = kept.next /\ p.st.blockByKey = kept.blockByKey
      /\ p.st.functions = kept.functions /\ p.st.completed = kept.completed
  BY <1>3 DEF Opened, ResponsesState, ResponsesFields
<1>5. opening \in Seq(Stream) /\ Leads(At(st), opening, Open(kept.next))
  <2>1. CASE kept = st /\ Current(st, b)
    <3>1. opening = <<>> /\ At(st) = Open(kept.next) /\ At(st) \in Positions
      BY <2>1, AtIs DEF OpeningOf, Current
    <3>2. Leads(At(st), <<>>, At(st)) /\ <<>> \in Seq(Stream)
      BY <3>1, LeadsNowhere, EmptySeq
    <3> QED
      BY <3>1, <3>2
  <2>2. CASE b = st.next /\ kept.next = st.next + 1
    <3>1. kept.next \in Nat
      BY AtIs
    <3> QED
      BY <2>2, <3>1, OpeningLeads
  <2> QED
    BY <2>1, <2>2
<1> HIDE DEF opening
<1>6. p.out = opening
  <2>1. <<>> \o opening = opening
    BY <1>5, ConcatEmptySeq
  <2> QED
    BY <1>1, <1>3, <2>1
<1>7. At(p.st) = Open(kept.next)
  BY <1>3, <1>4, AtIs DEF ResponsesPair
<1>8. Spoken(st, p, b)
  BY <1>2, <1>3, <1>4, <1>5, <1>6, <1>7 DEF Spoken, Current
<1> QED
  BY <1>4, <1>8 DEF p, u

\* The block of a part is opened: other parts and the calls keep theirs.
LEMMA OpenPartTells ==
    ASSUME NEW st \in ResponsesState, OneOpen(st), NEW kind \in BlockKinds, NEW key \in PartKeys,
           st.blockByKey[key] = NoBlock \/ Current(st, st.blockByKey[key])
    PROVE  LET p == OpenPart(st, kind, key)
           IN /\ Spoken(st, p, p.st.blockByKey[key])
              /\ p.st.functions = st.functions
              /\ \A k \in PartKeys \ {key} : p.st.blockByKey[k] = st.blockByKey[k]
<1> DEFINE kept == PartAllocated(st, key)
           b == kept.blockByKey[key]
           p == OpenPart(st, kind, key)
<1>1. /\ p = OpenIfNeeded(Unchanged(kept), b, BlockStart(b, kind, key))
      /\ p.st.blockByKey[key] = b /\ b \in Nat /\ p.st.functions = st.functions
  BY OpenPartTyped
<1>2. kept \in ResponsesState
  BY PartAllocatedTyped
<1>3. st \in ResponsesFields /\ st.next \in Nat
  BY DEF ResponsesState, ResponsesFields
<1>4. /\ kept.open = st.open /\ kept.completed = st.completed
      /\ \A k \in PartKeys \ {key} : kept.blockByKey[k] = st.blockByKey[k]
  BY <1>3 DEF PartAllocated, ResponsesFields
<1>5. \/ kept = st /\ Current(st, b)
      \/ b = st.next /\ kept.next = st.next + 1
  <2>1. CASE st.blockByKey[key] = NoBlock
    BY <1>3, <2>1 DEF PartAllocated, ResponsesFields
  <2>2. CASE st.blockByKey[key] # NoBlock
    BY <2>2 DEF PartAllocated
  <2> QED
    BY <2>1, <2>2
<1> HIDE DEF p, kept
<1> DEFINE start == BlockStart(b, kind, key)
<1>6. start \in Stream /\ start.type = "content_block_start" /\ start.index = b
  <2>1. start \in Stream
    BY <1>1, BodyTyped, StreamTyped DEF Idents, Names
  <2> QED
    BY <2>1 DEF BlockStart, Event
<1> HIDE DEF start, b
<1>7. /\ Spoken(st, p, b) /\ p.st.blockByKey = kept.blockByKey
  BY <1>1, <1>2, <1>4, <1>5, <1>6, OpenedTells DEF start
<1> QED
  BY <1>1, <1>4, <1>7 DEF p

\* The block of a call is opened: other calls and the parts keep theirs.
LEMMA OpenFunctionTells ==
    ASSUME NEW st \in ResponsesState, OneOpen(st), NEW o \in Outputs,
           st.functions[o] = NoFunction \/ Current(st, st.functions[o].block)
    PROVE  LET p == OpenFunction(st, o)
           IN /\ Spoken(st, p, p.st.functions[o].block)
              /\ p.st.blockByKey = st.blockByKey
              /\ \A x \in Outputs \ {o} : p.st.functions[x] = st.functions[x]
<1> DEFINE kept == CallAllocated(st, o)
           b == kept.functions[o].block
           key == PartKey(o, 0)
           p == OpenFunction(st, o)
<1>1. /\ p = OpenIfNeeded(Unchanged(kept), b, ToolStart(b, key, "client"))
      /\ p.st.functions[o] = kept.functions[o] /\ b \in Nat
  BY OpenFunctionTyped
<1>2. kept \in ResponsesState
  BY CallAllocatedTyped
<1>3. st \in ResponsesFields /\ st.next \in Nat
  BY DEF ResponsesState, ResponsesFields
<1>4. /\ kept.open = st.open /\ kept.completed = st.completed
      /\ kept.blockByKey = st.blockByKey
      /\ \A x \in Outputs \ {o} : kept.functions[x] = st.functions[x]
  BY <1>3 DEF CallAllocated, ResponsesFields
<1>5. \/ kept = st /\ Current(st, b)
      \/ b = st.next /\ kept.next = st.next + 1
  <2>1. CASE st.functions[o] = NoFunction
    BY <1>3, <2>1 DEF CallAllocated, ResponsesFields
  <2>2. CASE st.functions[o] # NoFunction
    BY <2>2 DEF CallAllocated
  <2> QED
    BY <2>1, <2>2
<1> HIDE DEF p, kept
<1> DEFINE start == ToolStart(b, key, "client")
<1>6. start \in Stream /\ start.type = "content_block_start" /\ start.index = b
  <2>1. start \in Stream
    BY <1>1, BodyTyped, StreamTyped, KeyTyped, PartsAssumption DEF Idents, Names, BlockKinds
  <2> QED
    BY <2>1 DEF ToolStart, BlockStart, Event
<1> HIDE DEF start
<1>7. /\ Spoken(st, p, b) /\ p.st.blockByKey = kept.blockByKey
      /\ p.st.functions = kept.functions
  BY <1>1, <1>2, <1>4, <1>5, <1>6, OpenedTells DEF start
<1> QED
  BY <1>1, <1>4, <1>7 DEF p

\* The same of a pair whose last event may be a delta of arguments.
Said(st, p, b) ==
    /\ p.st \in ResponsesState /\ p.out \in Seq(Written) /\ b \in Nat /\ Current(p.st, b)
    /\ p.st.completed = st.completed
    /\ Leads(At(st), p.out, At(p.st))

LEMMA SpokenSaid ==
    ASSUME NEW st, NEW p, NEW b, Spoken(st, p, b) PROVE Said(st, p, b)
<1>1. p.st \in ResponsesState /\ p.out \in Seq(Stream)
  BY DEF Spoken, ResponsesPair
<1>2. p.out \in Seq(Written)
  BY <1>1, StreamWritten, WrittenReadable
<1> QED
  BY <1>1, <1>2 DEF Spoken, Said

\* A delta of the block that is open leads on.
LEMMA DeltaLeads ==
    ASSUME NEW st, NEW p, NEW b, Spoken(st, p, b), NEW e \in Written,
           e.type = "content_block_delta", e.index = b
    PROVE  Leads(At(st), Append(p.out, e), At(p.st)) /\ Append(p.out, e) \in Seq(Written)
<1>1. p.st \in ResponsesState /\ p.out \in Seq(Stream) /\ b \in Nat /\ Current(p.st, b)
      /\ Leads(At(st), p.out, At(p.st))
  BY DEF Spoken, ResponsesPair
<1>2. p.out \in Seq(Written)
  BY <1>1, StreamWritten, WrittenReadable
<1>3. At(p.st) = Open(p.st.next) /\ p.st.next \in Nat /\ p.st.next = b + 1
  BY <1>1, AtIs DEF Current
<1>4. Goes(Open(p.st.next), e, Open(p.st.next))
  BY <1>1, <1>3, EventGoes
<1> QED
  BY <1>1, <1>2, <1>3, <1>4, LeadsMore, AppendProperties

LEMMA DeltaSpeaks ==
    ASSUME NEW st, NEW p, NEW b, Spoken(st, p, b), NEW e \in Written,
           e.type = "content_block_delta", e.index = b
    PROVE  LET c == WithDelta(p, e)
           IN /\ Said(st, c, b)
              /\ e \in Stream => Spoken(st, c, b)
              /\ c.st.blockByKey = p.st.blockByKey /\ c.st.functions = p.st.functions
<1> DEFINE c == WithDelta(p, e)
<1>1. p \in ResponsesPair /\ p.st.open = {e.index} /\ b \in Nat
  BY DEF Spoken, Current
<1>2. /\ e \in Stream => c \in ResponsesPair
      /\ c.st \in ResponsesState /\ c.st = [p.st EXCEPT !.hasDelta = {e.index}]
      /\ c.out = Append(p.out, e)
  BY <1>1, WithDeltaTyped
<1> HIDE DEF c
<1>3. /\ c.st.open = p.st.open /\ c.st.next = p.st.next /\ c.st.completed = p.st.completed
      /\ c.st.blockByKey = p.st.blockByKey /\ c.st.functions = p.st.functions
  BY <1>1, <1>2 DEF ResponsesPair, ResponsesState, ResponsesFields
<1>4. Leads(At(st), c.out, At(c.st)) /\ c.out \in Seq(Written)
  BY <1>2, <1>3, DeltaLeads DEF At
<1>5. Current(c.st, b) /\ c.st.completed = st.completed
  BY <1>3 DEF Spoken, Current
<1> QED
  BY <1>1, <1>2, <1>3, <1>4, <1>5 DEF c, Said, Spoken

LEMMA EmitSpeaks ==
    ASSUME NEW st, NEW p, NEW b, Spoken(st, p, b), NEW e \in Stream,
           e.type = "content_block_delta", e.index = b
    PROVE  /\ Spoken(st, Emit(p, e), b) /\ Emit(p, e).st = p.st
           /\ Spoken(st, WholeIfSilent(p, e), b) /\ WholeIfSilent(p, e).st = p.st
<1>1. p \in ResponsesPair
  BY DEF Spoken
<1>2. /\ Emit(p, e) = [st |-> p.st, out |-> Append(p.out, e)] /\ Emit(p, e) \in ResponsesPair
  BY <1>1, EmitTyped
<1>3. e \in Written
  BY WrittenReadable
<1>4. Leads(At(st), Append(p.out, e), At(p.st))
  BY <1>3, DeltaLeads
<1>5. Emit(p, e).st = p.st /\ Emit(p, e).out = Append(p.out, e)
  BY <1>2
<1>6. Spoken(st, Emit(p, e), b)
  BY <1>2, <1>4, <1>5 DEF Spoken
<1> QED
  BY <1>5, <1>6 DEF WholeIfSilent

\* The events of `s` lead from `p` to an end, whatever is open there.
Concludes(p, s) == \E q \in Positions : q.phase = "ended" /\ Leads(p, s, q)

LEMMA ErrorGoes ==
    ASSUME NEW p \in Positions, p.phase # "ended"
    PROVE  \E q \in Positions : q.phase = "ended" /\ Goes(p, ErrorEvent, q)
<1> DEFINE q == Pos("ended", p.block, p.next)
<1>1. Goes(p, ErrorEvent, q)
  BY DEF Goes, ErrorEvent, Event
<1>2. q \in Positions
  BY <1>1, GoesTyped
<1>3. q.phase = "ended"
  BY DEF Pos
<1> QED
  BY <1>1, <1>2, <1>3

\* What is open is closed and the client is told of the error.
LEMMA FailedConcludes ==
    ASSUME NEW p \in ResponsesPair, OneOpen(p.st), NEW o, Leads(o, p.out, At(p.st))
    PROVE  Concludes(o, Failed(p).out)
<1>1. p.st \in ResponsesState /\ p.out \in Seq(Stream) /\ p.st.next \in Nat
  BY AtIs DEF ResponsesPair
<1>2. Stops(p.st.open) \in Seq(Stream) /\ Leads(At(p.st), Stops(p.st.open), None(p.st.next))
  BY <1>1, StopsLead
<1>3. Leads(o, p.out \o Stops(p.st.open), None(p.st.next))
      /\ p.out \o Stops(p.st.open) \in Seq(Stream)
  BY <1>1, <1>2, LeadsOn, ConcatProperties
<1>4. None(p.st.next) \in Positions /\ None(p.st.next).phase # "ended"
  BY <1>1, PosTyped DEF None, Pos
<1>5. PICK q \in Positions : q.phase = "ended" /\ Goes(None(p.st.next), ErrorEvent, q)
  BY <1>4, ErrorGoes
<1>6. Leads(o, Append(p.out \o Stops(p.st.open), ErrorEvent), q)
  BY <1>3, <1>5, StreamTyped, LeadsMore
<1>7. Failed(p).out = Append(p.out \o Stops(p.st.open), ErrorEvent)
  BY FailedTyped
<1> QED
  BY <1>5, <1>6, <1>7 DEF Concludes

\* The part of an event; the key of its block, which the summaries of an item
\* share; the block of a part, by the table its kind of item uses.
EventPart(e) == PartKey(e.out, e.part)
KeyOf(e) == PartKey(e.out, IF ItemKind(e) = "reasoning" THEN 0 ELSE e.part)
BlockOf(st, item, k) ==
    CASE item = "function"  -> st.functions[k[1]].block
      [] item = "reasoning" -> st.blockByKey[PartKey(k[1], 0)]
      [] OTHER              -> st.blockByKey[k]

\* Only blocks of the part of `e` are allocated or forgotten.
Apart(a, c, e) ==
    /\ \A k \in PartKeys \ {KeyOf(e)} : c.blockByKey[k] = a.blockByKey[k]
    /\ \A o \in Outputs : o # e.out \/ ItemKind(e) # "function" => c.functions[o] = a.functions[o]
    /\ ItemKind(e) = "function" => c.blockByKey = a.blockByKey

\* The part of `e` has no block yet, or the current one.
Ready(st, e) ==
    IF ItemKind(e) = "function"
    THEN st.functions[e.out] = NoFunction \/ Current(st, st.functions[e.out].block)
    ELSE st.blockByKey[KeyOf(e)] = NoBlock \/ Current(st, st.blockByKey[KeyOf(e)])

\* What becomes of `e`: an end of the message, or more of its block.
ItemTold(st, e, c) ==
    \/ c.st.completed /\ Concludes(At(st), c.out)
    \/ \E b \in Nat :
         /\ Said(st, c, b) /\ Apart(st, c.st, e)
         /\ ~Ends(e) => BlockOf(c.st, ItemKind(e), EventPart(e)) = b

\* Events of texts and of reasoning.
LEMMA PartEventTells ==
    ASSUME NEW st \in ResponsesState, OneOpen(st), NEW e \in ItemEvents,
           ItemKind(e) # "function", Ready(st, e)
    PROVE  ItemTold(st, e, TranslateResponsesEvent(st, e))
<1> DEFINE key == KeyOf(e)
           of == EventPart(e)
<1>1. /\ key \in PartKeys /\ of \in PartKeys
      /\ PartKeys \subseteq Idents /\ <<>> \in Idents /\ e.out \in Outputs
      /\ e.type \in {"reasoning_delta", "reasoning_done", "reasoning_item_done",
                     "compaction_done"} => PartKey(e.out, 0) = key
      /\ e.type \in {"text_delta", "text_done"} => of = key
  <2>1. e.out \in Outputs /\ e.part \in Parts
    BY PartsAssumption DEF ItemEvents
  <2>2. /\ e.type \in {"reasoning_delta", "reasoning_done", "reasoning_item_done",
                       "compaction_done"} => ItemKind(e) = "reasoning"
        /\ e.type \in {"text_delta", "text_done"} => ItemKind(e) = "message"
    BY DEF ItemKind
  <2>3. key \in PartKeys /\ of \in PartKeys
    BY <2>1, KeyTyped, PartsAssumption DEF KeyOf, EventPart
  <2> QED
    BY <2>1, <2>2, <2>3 DEF Idents, KeyOf, EventPart
<1>2. ASSUME NEW kind \in {"text", "thinking"}
      PROVE  LET p == OpenPart(st, kind, key)
                 b == p.st.blockByKey[key]
                 Tells(c) == Spoken(st, c, b) /\ c.st.blockByKey = p.st.blockByKey
                             /\ c.st.functions = p.st.functions
             IN /\ b \in Nat /\ Tells(p)
                /\ Tells(WithDelta(p, BlockDelta(b, kind, of)))
                /\ Tells(WholeIfSilent(p, WholeDelta(b, kind, of)))
                /\ Tells(WithDelta(p, BlockDelta(b, "signature", key)))
                /\ Tells(WithDelta(Emit(p, BlockDelta(b, "thinking", <<>>)),
                                   BlockDelta(b, "signature", key)))
                /\ p.st.functions = st.functions
                /\ \A k \in PartKeys \ {key} : p.st.blockByKey[k] = st.blockByKey[k]
  <2> DEFINE p == OpenPart(st, kind, key)
             b == p.st.blockByKey[key]
             q == Emit(p, BlockDelta(b, "thinking", <<>>))
  <2>1. kind \in BlockKinds /\ "signature" \in BlockKinds /\ "thinking" \in BlockKinds
    BY DEF BlockKinds
  <2>2. /\ Spoken(st, p, b) /\ p.st.functions = st.functions
        /\ \A k \in PartKeys \ {key} : p.st.blockByKey[k] = st.blockByKey[k]
    BY <1>1, <2>1, OpenPartTells DEF Ready
  <2>3. b \in Nat
    BY <2>2 DEF Spoken
  <2> HIDE DEF p, b, key, of
  <2>4. /\ WholeDelta(b, kind, of) \in Stream /\ WholeDelta(b, kind, of).index = b
        /\ BlockDelta(b, kind, of) \in Stream /\ BlockDelta(b, kind, of).index = b
        /\ BlockDelta(b, "signature", key) \in Stream /\ BlockDelta(b, "signature", key).index = b
        /\ BlockDelta(b, "thinking", <<>>) \in Stream /\ BlockDelta(b, "thinking", <<>>).index = b
    BY <1>1, <2>1, <2>3, DeltaEvent
  <2>5. /\ WholeDelta(b, kind, of).type = "content_block_delta"
        /\ BlockDelta(b, kind, of).type = "content_block_delta"
        /\ BlockDelta(b, "signature", key).type = "content_block_delta"
        /\ BlockDelta(b, "thinking", <<>>).type = "content_block_delta"
    BY DEF BlockDelta, WholeDelta, Event
  <2>6. Spoken(st, q, b) /\ q.st = p.st
    BY <2>2, <2>4, <2>5, EmitSpeaks
  <2> HIDE DEF q
  <2>7. ASSUME NEW r, Spoken(st, r, b), r.st = p.st, NEW d \in Stream,
               d.type = "content_block_delta", d.index = b
        PROVE  LET c == WithDelta(r, d)
               IN /\ Spoken(st, c, b) /\ c.st.blockByKey = p.st.blockByKey
                  /\ c.st.functions = p.st.functions
    BY <2>7, WrittenReadable, DeltaSpeaks
  <2>8. /\ Spoken(st, WholeIfSilent(p, WholeDelta(b, kind, of)), b)
        /\ WholeIfSilent(p, WholeDelta(b, kind, of)).st = p.st
    <3>1. ASSUME NEW d \in Stream, d.type = "content_block_delta", d.index = b
          PROVE  Spoken(st, WholeIfSilent(p, d), b) /\ WholeIfSilent(p, d).st = p.st
      BY <2>2, <3>1, EmitSpeaks
    <3> QED
      BY <2>4, <2>5, <3>1
  <2> QED
    BY <2>2, <2>3, <2>4, <2>5, <2>6, <2>7, <2>8 DEF p, q, b, key, of
<1> DEFINE c == TranslateResponsesEvent(st, e)
           Tells(d) == \E b \in Nat :
                         /\ Spoken(st, d, b) /\ d.st.blockByKey[key] = b
                         /\ d.st.functions = st.functions
                         /\ \A k \in PartKeys \ {key} : d.st.blockByKey[k] = st.blockByKey[k]
           Part(kind) == OpenPart(st, kind, key)
           Num(kind) == Part(kind).st.blockByKey[key]
<1>p. ASSUME NEW kind \in {"text", "thinking"}
      PROVE  /\ Tells(Part(kind))
             /\ Tells(WithDelta(Part(kind), BlockDelta(Num(kind), kind, of)))
             /\ Tells(WholeIfSilent(Part(kind), WholeDelta(Num(kind), kind, of)))
             /\ Tells(WithDelta(Part(kind), BlockDelta(Num(kind), "signature", key)))
             /\ Tells(WithDelta(Emit(Part(kind), BlockDelta(Num(kind), "thinking", <<>>)),
                               BlockDelta(Num(kind), "signature", key)))
  <2> DEFINE p == Part(kind)
             b == Num(kind)
             Says(d) == Spoken(st, d, b) /\ d.st.blockByKey = p.st.blockByKey
                        /\ d.st.functions = p.st.functions
  <2>1. /\ b \in Nat /\ Says(p)
        /\ Says(WithDelta(p, BlockDelta(b, kind, of)))
        /\ Says(WholeIfSilent(p, WholeDelta(b, kind, of)))
        /\ Says(WithDelta(p, BlockDelta(b, "signature", key)))
        /\ Says(WithDelta(Emit(p, BlockDelta(b, "thinking", <<>>)),
                          BlockDelta(b, "signature", key)))
        /\ p.st.functions = st.functions
        /\ \A k \in PartKeys \ {key} : p.st.blockByKey[k] = st.blockByKey[k]
    BY <1>2
  <2>2. b = p.st.blockByKey[key]
    OBVIOUS
  <2> HIDE DEF p, b, Part, Num, key, of
  <2>3. ASSUME NEW d, Says(d) PROVE Tells(d)
    BY <2>1, <2>2, <2>3
  <2> HIDE DEF Says, Tells
  <2> QED
    BY <2>1, <2>3 DEF p, b
<1> HIDE DEF Tells, Part, Num, key, of
<1>3. Tells(c)
  <2>1. CASE e.type = "text_delta"
    <3>1. c = HandleOutputTextDelta(st, e)
      BY <2>1 DEF TranslateResponsesEvent
    <3>0. PartKey(e.out, e.part) = key /\ of = key
      BY <1>1, <2>1 DEF of, EventPart
    <3>2. c = WithDelta(Part("text"), BlockDelta(Num("text"), "text", of))
      BY <3>0, <3>1 DEF HandleOutputTextDelta, Part, Num
    <3> QED
      BY <1>p, <3>2
  <2>2. CASE e.type = "text_done"
    <3>1. c = HandleOutputTextDone(st, e)
      BY <2>2 DEF TranslateResponsesEvent
    <3>0. PartKey(e.out, e.part) = key /\ of = key
      BY <1>1, <2>2 DEF of, EventPart
    <3>2. \/ c = Part("text")
          \/ c = WholeIfSilent(Part("text"), WholeDelta(Num("text"), "text", of))
      BY <3>0, <3>1 DEF HandleOutputTextDone, Part, Num
    <3> QED
      BY <1>p, <3>2
  <2>3. CASE e.type = "reasoning_delta"
    <3>1. c = HandleReasoningSummaryTextDelta(st, e) /\ PartKey(e.out, 0) = key
      BY <1>1, <2>3 DEF TranslateResponsesEvent
    <3>2. c = WithDelta(Part("thinking"), BlockDelta(Num("thinking"), "thinking", of))
      BY <3>1 DEF HandleReasoningSummaryTextDelta, Part, Num, of, EventPart
    <3> QED
      BY <1>p, <3>2
  <2>4. CASE e.type = "reasoning_done"
    <3>1. c = HandleReasoningSummaryTextDone(st, e) /\ PartKey(e.out, 0) = key
      BY <1>1, <2>4 DEF TranslateResponsesEvent
    <3>2. \/ c = Part("thinking")
          \/ c = WholeIfSilent(Part("thinking"), WholeDelta(Num("thinking"), "thinking", of))
      BY <3>1 DEF HandleReasoningSummaryTextDone, Part, Num, of, EventPart
    <3> QED
      BY <1>p, <3>2
  <2>5. CASE e.type \in {"reasoning_item_done", "compaction_done"}
    <3>1. c = HandleOutputItemDone(st, e) /\ PartKey(e.out, 0) = key
      BY <1>1, <2>5 DEF TranslateResponsesEvent
    <3>2. \/ c = WithDelta(Part("thinking"), BlockDelta(Num("thinking"), "signature", key))
          \/ c = WithDelta(Emit(Part("thinking"), BlockDelta(Num("thinking"), "thinking", <<>>)),
                           BlockDelta(Num("thinking"), "signature", key))
      BY <3>1 DEF HandleOutputItemDone, Part, Num
    <3> QED
      BY <1>p, <3>2
  <2>6. e.type \in {"text_delta", "text_done", "reasoning_delta", "reasoning_done",
                    "reasoning_item_done", "compaction_done"}
    BY DEF ItemEvents, ItemKind
  <2> QED
    BY <2>1, <2>2, <2>3, <2>4, <2>5, <2>6
<1> HIDE DEF c
<1>4. PICK b \in Nat : /\ Spoken(st, c, b) /\ c.st.blockByKey[key] = b
                       /\ c.st.functions = st.functions
                       /\ \A k \in PartKeys \ {key} : c.st.blockByKey[k] = st.blockByKey[k]
  BY <1>3 DEF Tells
<1>5. Said(st, c, b) /\ Apart(st, c.st, e)
  BY <1>4, SpokenSaid DEF Apart, key
<1>6. BlockOf(c.st, ItemKind(e), EventPart(e)) = b
  <2>1. ItemKind(e) = "reasoning" => key = PartKey(EventPart(e)[1], 0)
    BY DEF key, KeyOf, EventPart, PartKey
  <2>2. ItemKind(e) # "reasoning" => key = EventPart(e)
    BY DEF key, KeyOf, EventPart
  <2> QED
    BY <1>4, <2>1, <2>2 DEF BlockOf
<1> QED
  BY <1>5, <1>6 DEF ItemTold, c

\* Events of function calls.
LEMMA CallEventTells ==
    ASSUME NEW st \in ResponsesState, OneOpen(st), NEW e \in ItemEvents,
           ItemKind(e) = "function", Ready(st, e)
    PROVE  ItemTold(st, e, TranslateResponsesEvent(st, e))
<1> DEFINE key == PartKey(e.out, 0)
           p == OpenFunction(st, e.out)
           b == p.st.functions[e.out].block
           c == TranslateResponsesEvent(st, e)
<1>1. /\ key \in PartKeys /\ PartKeys \subseteq Idents /\ e.out \in Outputs /\ e.tail \in Tails
      /\ KeyOf(e) = key /\ EventPart(e) = key /\ EventPart(e)[1] = e.out
  BY KeyTyped, PartsAssumption DEF ItemEvents, ItemKind, Idents, KeyOf, EventPart, PartKey, Tails
<1>2. /\ Spoken(st, p, b) /\ p.st.blockByKey = st.blockByKey
      /\ \A x \in Outputs \ {e.out} : p.st.functions[x] = st.functions[x]
  BY <1>1, OpenFunctionTells DEF Ready
<1>3. b \in Nat /\ p \in ResponsesPair /\ p.st.functions \in [Outputs -> FunctionRecord]
      /\ p.st \in ResponsesState
  BY <1>2 DEF Spoken, ResponsesPair, ResponsesState, ResponsesFields
<1> HIDE DEF p, b, key
<1>4. SUFFICES ASSUME ~(c.st.completed /\ Concludes(At(st), c.out))
               PROVE  /\ Said(st, c, b) /\ c.st.blockByKey = p.st.blockByKey
                      /\ \A x \in Outputs \ {e.out} : c.st.functions[x] = p.st.functions[x]
                      /\ ~Ends(e) => c.st.functions[e.out].block = b
  BY <1>1, <1>2, <1>3 DEF ItemTold, Apart, BlockOf
<1>5. /\ WholeDelta(b, "input_json", key) \in Stream /\ WholeDelta(b, "input_json", key).index = b
      /\ BlockDelta(b, "input_json", key) \in Stream /\ BlockDelta(b, "input_json", key).index = b
  BY <1>1, <1>3, DeltaEvent DEF BlockKinds
<1>6. /\ WholeDelta(b, "input_json", key).type = "content_block_delta"
      /\ BlockDelta(b, "input_json", key).type = "content_block_delta"
  BY DEF BlockDelta, WholeDelta, Event
<1>7. ASSUME NEW d \in Stream, d.type = "content_block_delta", d.index = b
      PROVE  /\ Spoken(st, WithDelta(p, d), b)
             /\ WithDelta(p, d).st.blockByKey = p.st.blockByKey
             /\ WithDelta(p, d).st.functions = p.st.functions
  BY <1>2, <1>7, WrittenReadable, DeltaSpeaks
<1>71. /\ Unchecked(BlockDelta(b, "input_json", key), e.tail) \in Stream
       /\ Unchecked(BlockDelta(b, "input_json", key), e.tail).index = b
       /\ Unchecked(BlockDelta(b, "input_json", key), e.tail).type = "content_block_delta"
       /\ Unchecked(WholeDelta(b, "input_json", key), e.tail) \in Stream
       /\ Unchecked(WholeDelta(b, "input_json", key), e.tail).index = b
       /\ Unchecked(WholeDelta(b, "input_json", key), e.tail).type = "content_block_delta"
  BY <1>5, <1>6, UncheckedTyped
<1>8. CASE e.type = "function_added"
  <2>1. c = IF e.body THEN WithDelta(p, Unchecked(BlockDelta(b, "input_json", key), e.tail)) ELSE p
    BY <1>8 DEF TranslateResponsesEvent, HandleOutputItemAdded, p, b, key
  <2>2. Spoken(st, c, b) /\ c.st.blockByKey = p.st.blockByKey /\ c.st.functions = p.st.functions
    BY <1>2, <1>7, <1>71, <2>1
  <2> HIDE DEF c
  <2> QED
    BY <2>2, SpokenSaid DEF b
<1>9. CASE e.type = "arguments_done"
  <2> DEFINE q == IF b \in p.st.hasDelta \/ ~e.body THEN p
                  ELSE WithDelta(p, Unchecked(WholeDelta(b, "input_json", key), e.tail))
  <2>1. Spoken(st, q, b) /\ q.st.blockByKey = p.st.blockByKey /\ q.st.functions = p.st.functions
    BY <1>2, <1>7, <1>71
  <2>2. c = [q EXCEPT !.st.functions[e.out] = NoFunction]
    BY <1>9 DEF TranslateResponsesEvent, HandleFunctionCallArgumentsDone, p, b, key
  <2> HIDE DEF q, c
  <2>3. q \in ResponsesPair /\ q.st \in ResponsesFields
    BY <2>1 DEF Spoken, ResponsesPair, ResponsesState
  <2>4. c \in ResponsesPair
    BY <1>1, <2>2, <2>3, ForgottenTyped
  <2>5. /\ c.out = q.out /\ c.st.open = q.st.open /\ c.st.next = q.st.next
        /\ c.st.completed = q.st.completed /\ c.st.blockByKey = q.st.blockByKey
        /\ \A x \in Outputs \ {e.out} : c.st.functions[x] = q.st.functions[x]
    BY <2>2, <2>3 DEF ResponsesPair, ResponsesFields
  <2>6. Spoken(st, c, b)
    BY <2>1, <2>4, <2>5 DEF Spoken, Current, At
  <2>7. Ends(e)
    BY <1>9 DEF Ends
  <2> QED
    BY <2>1, <2>5, <2>6, <2>7, SpokenSaid
<1>10. CASE e.type = "arguments_delta"
  <2> DEFINE n == Breaks(p.st.functions[e.out].breaks, e.tail)
             q == [p EXCEPT !.st.functions[e.out].breaks = n]
             d == [BlockDelta(b, "input_json", key) EXCEPT !.reason = e.tail]
  <2>1. c = IF n > MaxWhitespace THEN Failed(p) ELSE WithDelta(q, d)
    BY <1>10 DEF TranslateResponsesEvent, HandleFunctionCallArgumentsDelta, p, b, key
  <2>2. n \in Nat
    BY <1>1, <1>3 DEF FunctionRecord, Breaks
  <2>3. CASE n > MaxWhitespace
    <3>1. Leads(At(st), p.out, At(p.st)) /\ OneOpen(p.st)
      BY <1>2, <1>3 DEF Spoken, Current, OneOpen
    <3>2. Concludes(At(st), Failed(p).out) /\ Failed(p).st.completed = TRUE
      BY <1>3, <3>1, FailedConcludes, FailedTyped
    <3> QED
      BY <1>4, <2>1, <2>3, <3>2
  <2>4. CASE ~(n > MaxWhitespace)
    <3> HIDE DEF n
    <3>1. b \in 0 .. p.st.next - 1
      BY <1>2, <1>3 DEF Spoken, Current
    <3>2. /\ q = [st |-> WithRun(p.st, e.out, n), out |-> p.out] /\ q \in ResponsesPair
          /\ WithRun(p.st, e.out, n).open = p.st.open
      BY <1>1, <1>3, <2>2, <3>1, WithRunTyped DEF b
    <3>3. q.st = WithRun(p.st, e.out, n) /\ q.out = p.out
      BY <3>2
    <3>4. p.st \in ResponsesFields
      BY <1>3 DEF ResponsesState
    <3> HIDE DEF q
    <3>5. /\ q.st.open = p.st.open /\ q.st.next = p.st.next /\ q.st.completed = p.st.completed
          /\ q.st.blockByKey = p.st.blockByKey
          /\ \A x \in Outputs \ {e.out} : q.st.functions[x] = p.st.functions[x]
          /\ q.st.functions[e.out].block = b
      BY <1>1, <3>3, <3>4 DEF WithRun, ResponsesFields, FunctionRecord, b
    <3>6. Spoken(st, q, b)
      BY <1>2, <3>2, <3>3, <3>5 DEF Spoken, Current, At
    <3>71. d \in ArgumentsDelta /\ d.index = b
      BY <1>1, <1>3, ArgumentsDeltaEvent
    <3>7. d \in ArgumentsDelta /\ d.index = b /\ d.type = "content_block_delta"
      BY <3>71 DEF ArgumentsDelta
    <3> HIDE DEF d
    <3>8. /\ Said(st, WithDelta(q, d), b)
          /\ WithDelta(q, d).st.blockByKey = q.st.blockByKey
          /\ WithDelta(q, d).st.functions = q.st.functions
      BY <3>6, <3>7, DeltaSpeaks DEF Written
    <3> QED
      BY <2>1, <2>4, <3>5, <3>8
  <2> QED
    BY <2>3, <2>4
<1>11. e.type \in {"function_added", "arguments_delta", "arguments_done"}
  BY DEF ItemEvents, ItemKind
<1> QED
  BY <1>8, <1>9, <1>10, <1>11

\* The events of the response as a whole: the message ends.
LEMMA EndTells ==
    ASSUME NEW st \in ResponsesState, OneOpen(st), NEW e,
           e.type \in {"completed", "failed", "error"}
    PROVE  LET c == TranslateResponsesEvent(st, e)
           IN c.st.completed /\ Concludes(At(st), c.out)
<1> DEFINE u == Unchanged(st)
           c == TranslateResponsesEvent(st, e)
<1>1. /\ u \in ResponsesPair /\ u.st = st /\ u.out = <<>>
      /\ At(st) \in Positions /\ At(st).phase # "ended" /\ Leads(At(st), <<>>, At(st))
  BY UnchangedTyped, AtIs, LeadsNowhere DEF Unchanged, At, Pos
<1> HIDE DEF u
<1>2. Failed(u).st.completed /\ Concludes(At(st), Failed(u).out)
  BY <1>1, FailedConcludes, FailedTyped
<1>3. CASE e.type = "failed" \/ (e.type = "completed" /\ ~e.body)
  <2>1. c = Failed(u)
    BY <1>3 DEF TranslateResponsesEvent, HandleResponseFailed, HandleResponseCompleted, u
  <2> QED
    BY <1>2, <2>1
<1>4. CASE e.type = "completed" /\ e.body
  <2> DEFINE q == CloseAllOpenBlocks(u)
             t == [q.st EXCEPT !.completed = TRUE]
  <2>1. q \in ResponsesPair /\ q.out = <<>> \o Stops(st.open)
    BY <1>1, ClosedAllTyped
  <2> HIDE DEF q
  <2>2. t.completed = TRUE
    BY <2>1 DEF ResponsesPair, ResponsesState, ResponsesFields
  <2>3. c = [st |-> t, out |-> q.out \o Terminal("end_turn")]
    BY <1>4 DEF TranslateResponsesEvent, HandleResponseCompleted, q, u
  <2> HIDE DEF t
  <2>4. c.st.completed /\ c.out = q.out \o Terminal("end_turn")
    BY <2>2, <2>3
  <2>5. Stops(st.open) \in Seq(Stream) /\ Leads(At(st), Stops(st.open), None(st.next))
    BY StopsLead
  <2>6. q.out = Stops(st.open)
    BY <2>1, <2>5, ConcatEmptySeq
  <2>7. /\ Terminal("end_turn") \in Seq(Stream)
        /\ Leads(None(st.next), Terminal("end_turn"), Pos("ended", "none", st.next))
    BY AtIs, StreamTyped, TerminalLeads DEF Reasons
  <2>8. Leads(At(st), c.out, Pos("ended", "none", st.next))
    BY <2>4, <2>5, <2>6, <2>7, LeadsOn
  <2>9. Pos("ended", "none", st.next) \in Positions /\ Pos("ended", "none", st.next).phase = "ended"
    BY AtIs, PosTyped DEF Pos
  <2> QED
    BY <2>4, <2>8, <2>9 DEF Concludes
<1>5. CASE e.type = "error"
  <2> DEFINE t == [st EXCEPT !.completed = TRUE]
  <2>1. t.completed = TRUE
    BY DEF ResponsesState, ResponsesFields
  <2>2. c = Emit(Unchanged(t), ErrorEvent)
    BY <1>5 DEF TranslateResponsesEvent, HandleErrorEvent
  <2> HIDE DEF t
  <2>3. c.st = t /\ c.out = Append(<<>>, ErrorEvent)
    BY <2>2 DEF Emit, Unchanged
  <2>4. PICK q \in Positions : q.phase = "ended" /\ Goes(At(st), ErrorEvent, q)
    BY <1>1, ErrorGoes
  <2>5. <<>> \in Seq(Stream) /\ ErrorEvent \in Stream
    BY EmptySeq, StreamTyped
  <2>6. Leads(At(st), c.out, q)
    BY <1>1, <2>3, <2>4, <2>5, LeadsMore
  <2> QED
    BY <2>1, <2>3, <2>4, <2>6 DEF Concludes
<1> QED
  BY <1>3, <1>4, <1>5

\* One error event ends a message in any state of it.
LEMMA ErrorConcludes ==
    ASSUME NEW p \in Positions, p.phase # "ended" PROVE Concludes(p, <<ErrorEvent>>)
<1>1. PICK q \in Positions : q.phase = "ended" /\ Goes(p, ErrorEvent, q)
  BY ErrorGoes
<1>2. Leads(p, <<ErrorEvent>>, q)
  BY <1>1, LeadsOne
<1> QED
  BY <1>1, <1>2 DEF Concludes

\* A failure before the start.
LEMMA FreshFails ==
    ASSUME NEW e, e.type \in {"failed", "error"}
    PROVE  LET c == TranslateResponsesEvent(FreshResponses, e)
           IN c.st.completed /\ c.out = <<ErrorEvent>>
<1> DEFINE st == FreshResponses
           u == Unchanged(st)
           c == TranslateResponsesEvent(st, e)
<1>1. u \in ResponsesPair /\ u.st = st /\ u.out = <<>> /\ st.open = {} /\ st \in ResponsesState
  BY FreshResponsesTyped, UnchangedTyped DEF Unchanged, FreshResponses
<1> HIDE DEF u, st
<1>2. CASE e.type = "failed"
  <2>1. c = Failed(u)
    BY <1>2 DEF TranslateResponsesEvent, HandleResponseFailed, u
  <2>2. c.st.completed = TRUE /\ c.out = Append(<<>> \o Stops({}), ErrorEvent)
    BY <1>1, <2>1, FailedTyped
  <2>3. <<>> \o Stops({}) = <<>> /\ Append(<<>>, ErrorEvent) = <<ErrorEvent>>
    BY OneStop
  <2>4. c.st.completed /\ c.out = <<ErrorEvent>>
    BY <2>2, <2>3
  <2> QED
    BY <2>4 DEF st
<1>3. CASE e.type = "error"
  <2> DEFINE t == [st EXCEPT !.completed = TRUE]
  <2>1. t.completed = TRUE
    BY <1>1 DEF ResponsesState, ResponsesFields
  <2>2. c = Emit(Unchanged(t), ErrorEvent)
    BY <1>3 DEF TranslateResponsesEvent, HandleErrorEvent
  <2> HIDE DEF t
  <2>3. c.st = t /\ c.out = Append(<<>>, ErrorEvent)
    BY <2>2 DEF Emit, Unchanged
  <2> QED
    BY <2>1, <2>3 DEF st
<1> QED
  BY <1>2, <1>3

\* The start of the message.
LEMMA StartTells ==
    ASSUME NEW e, e.type = "created", e.body
    PROVE  LET c == TranslateResponsesEvent(FreshResponses, e)
           IN /\ c.st = FreshResponses
              /\ Leads(Pos("before", "none", 0), c.out, At(FreshResponses))
<1> DEFINE c == TranslateResponsesEvent(FreshResponses, e)
           m == Event("message_start")
           o == Pos("before", "none", 0)
<1>1. c = Emit(Unchanged(FreshResponses), m)
  BY DEF TranslateResponsesEvent, HandleResponseCreated
<1>2. c.st = FreshResponses /\ c.out = <<m>>
  BY <1>1 DEF Emit, Unchanged
<1>3. At(FreshResponses) = Pos("open", "none", 0)
  BY DEF At, FreshResponses
<1>4. m.type = "message_start" /\ m.index = 0
  BY DEF Event
<1>5. o.phase = "before" /\ o.block = "none" /\ o.next = 0 /\ o \in Positions
  BY PosTyped DEF Pos
<1> HIDE DEF m, o
<1>6. Goes(o, m, At(FreshResponses))
  BY <1>3, <1>4, <1>5 DEF Goes
<1>7. Leads(o, <<m>>, At(FreshResponses))
  BY <1>5, <1>6, LeadsOne
<1> QED
  BY <1>2, <1>7 DEF o

-----------------------------------------------------------------------------
(* The client.                                                               *)

\* Where a client is that has read `w`.
WireAt(w) ==
    [phase |-> w.phase, block |-> IF w.open = {} THEN "none" ELSE "open", next |-> w.next,
     told |-> IF w.last.type = "message_delta" THEN "yes" ELSE "no"]

LastOpen(w) == w.open \subseteq {w.next - 1}

\* Reading an event that is allowed leads where it goes.
LEMMA ReadGoes ==
    ASSUME NEW w \in WireState, LastOpen(w), NEW e \in Readable, NEW q,
           Goes(WireAt(w), e, q)
    PROVE  WireAt(Read(w, e)) = q /\ LastOpen(Read(w, e))
<1> DEFINE r == Read(w, e)
           x == EventRead(w, e)
<1>1. /\ r.phase = x.phase /\ r.open = x.open /\ r.next = x.next /\ r.last.type = e.type
      /\ x \in WireState
  <2>1. x \in WireState /\ r.last.type = e.type
    BY ReadTyped
  <2>2. r.phase = x.phase /\ r.open = x.open /\ r.next = x.next
    BY <2>1 DEF Read, WireState
  <2> QED
    BY <2>1, <2>2
<1>2. /\ w.next \in Nat /\ e.index \in Nat /\ w.open \in SUBSET Nat
      /\ w.open = {} \/ w.open = {w.next - 1}
  BY DEF WireState, Readable, LastOpen
<1>3. /\ WireAt(w).phase = w.phase /\ WireAt(w).next = w.next
      /\ WireAt(w).block = IF w.open = {} THEN "none" ELSE "open"
      /\ WireAt(w).told = IF w.last.type = "message_delta" THEN "yes" ELSE "no"
  BY DEF WireAt
<1> HIDE DEF r
<1>4. ASSUME x.phase = q.phase, x.next = q.next, x.open \subseteq {q.next - 1},
             q.block = (IF x.open = {} THEN "none" ELSE "open"),
             q.told = (IF e.type = "message_delta" THEN "yes" ELSE "no")
      PROVE  WireAt(Read(w, e)) = q /\ LastOpen(Read(w, e))
  <2>1. WireAt(w) \in Positions
    BY <1>2, <1>3 DEF WireAt, Positions, WireState
  <2>2. q \in Positions
    BY <2>1, GoesTyped
  <2>3. q = [phase |-> q.phase, block |-> q.block, next |-> q.next, told |-> q.told]
    BY <2>2 DEF Positions
  <2> QED
    BY <1>1, <1>4, <2>3 DEF WireAt, LastOpen, r
<1>5. CASE e.type = "message_start"
  <2>1. q = Pos("open", WireAt(w).block, WireAt(w).next)
    BY <1>5 DEF Goes
  <2>2. x = [w EXCEPT !.phase = "open"]
    BY <1>5 DEF EventRead
  <2>3. x.phase = "open" /\ x.open = w.open /\ x.next = w.next
    BY <2>2 DEF WireState
  <2> HIDE DEF x
  <2> QED
    BY <1>2, <1>3, <1>4, <1>5, <2>1, <2>3 DEF Pos
<1>6. CASE e.type = "content_block_start"
  <2>1. /\ w.phase = "open" /\ w.open = {} /\ e.index = w.next
        /\ \E n \in Nat : n = w.next + 1 /\ q = Open(n)
    BY <1>3, <1>6 DEF Goes
  <2>2. PICK n \in Nat : n = w.next + 1 /\ q = Open(n)
    BY <2>1
  <2> DEFINE open == w.open \cup {e.index}
             next == IF e.index >= w.next THEN e.index + 1 ELSE w.next
             blocks == IF e.index >= w.next
                       THEN Append(w.blocks, [kind |-> e.kind, of |-> e.of]) ELSE w.blocks
  <2>3. x = [w EXCEPT !.open = open, !.next = next, !.blocks = blocks]
    BY <1>6 DEF EventRead
  <2>4. next = n /\ open = {w.next} /\ n - 1 = w.next
    BY <1>2, <2>1, <2>2
  <2> HIDE DEF open, next, blocks
  <2>5. x.phase = "open" /\ x.open = {w.next} /\ x.next = n
    BY <2>1, <2>3, <2>4 DEF WireState
  <2> HIDE DEF x
  <2>6. x.open \subseteq {n - 1}
    BY <2>4, <2>5
  <2>7. q.phase = "open" /\ q.block = "open" /\ q.next = n /\ q.told = "no"
    BY <2>2 DEF Open, Pos
  <2>8. x.open # {}
    BY <2>5
  <2> QED
    BY <1>4, <1>6, <2>5, <2>6, <2>7, <2>8
<1>7. CASE e.type = "content_block_delta"
  <2>1. w.phase = "open" /\ w.open # {} /\ q = Open(w.next)
    BY <1>3, <1>7 DEF Goes
  <2>2. x = DeltaRead(w, e)
    BY <1>7 DEF EventRead
  <2>3. x.phase = w.phase /\ x.open = w.open /\ x.next = w.next
    BY <2>2 DEF DeltaRead, WireState
  <2> HIDE DEF x
  <2> QED
    BY <1>2, <1>4, <1>7, <2>1, <2>3 DEF Open, Pos
<1>8. CASE e.type = "content_block_stop"
  <2>1. w.phase = "open" /\ w.open # {} /\ e.index = w.next - 1 /\ q = None(w.next)
    BY <1>3, <1>8 DEF Goes
  <2>2. x = [w EXCEPT !.open = w.open \ {e.index}]
    BY <1>8 DEF EventRead
  <2>3. x.phase = w.phase /\ x.open = w.open \ {e.index} /\ x.next = w.next
    BY <2>2 DEF WireState
  <2> HIDE DEF x
  <2>4. x.open = {}
    BY <1>2, <2>1, <2>3
  <2> QED
    BY <1>2, <1>4, <1>8, <2>1, <2>3, <2>4 DEF None, Pos
<1>9. CASE e.type = "message_delta"
  <2>1. w.phase = "open" /\ w.open = {} /\ q = Billed(w.next)
    BY <1>3, <1>9 DEF Goes
  <2>2. x = [w EXCEPT !.billed = e.usage]
    BY <1>9 DEF EventRead
  <2>3. x.phase = w.phase /\ x.open = w.open /\ x.next = w.next
    BY <2>2 DEF WireState
  <2> HIDE DEF x
  <2> QED
    BY <1>2, <1>4, <1>9, <2>1, <2>3 DEF Billed
<1>10. CASE e.type \in {"message_stop", "error"}
  <2>1. q = Pos("ended", WireAt(w).block, w.next)
    BY <1>3, <1>10 DEF Goes
  <2>2. x = [w EXCEPT !.phase = "ended"]
    BY <1>10 DEF EventRead
  <2>3. x.phase = "ended" /\ x.open = w.open /\ x.next = w.next
    BY <2>2 DEF WireState
  <2> HIDE DEF x
  <2> QED
    BY <1>2, <1>3, <1>4, <1>10, <2>1, <2>3 DEF Pos
<1> QED
  BY <1>5, <1>6, <1>7, <1>8, <1>9, <1>10 DEF Goes

-----------------------------------------------------------------------------
(* The invariant.                                                            *)

\* Where the agent's client is that has read everything dispatched so far.
AgentAt(a) ==
    Pos(IF a.started THEN "open" ELSE "before",
        IF DOMAIN a.map = {} THEN "none" ELSE "open", a.cursor)

\* The agent goes along with a reader of its turn's events who is at `v`: the
\* block open there is the one of the client's that was opened last.
Follows(v, a) ==
    /\ v.phase # "before" => a.started
    /\ v.phase = "before" => v.block = "none"
    /\ v.block = "open" => /\ DOMAIN a.map = {v.next - 1}
                           /\ a.map[v.next - 1].client = a.cursor - 1
    /\ v.block = "none" => DOMAIN a.map = {}
    /\ a.tool # NoCall => v.phase = "open" /\ v.block = "none"
    /\ \A i \in 1 .. Len(a.buffered) : a.buffered[i].index = 0

\* What is yet to be dispatched of a turn leads on from `v`.
Turn(v) ==
    /\ Follows(v, agent)
    /\ upstream.finished => Finishes(v, inner)
    /\ ~upstream.finished => ChatSound(chat) /\ Leads(v, inner, ChatAt(chat))

\* Of a serial upstream: a part that is begun has the block that is open, and
\* a new one none, unless it is a summary; an item of summaries is done or has
\* one begun.
PartsInv ==
    /\ ~responses.completed /\ OneOpen(responses)
    /\ ~upstream.created => responses = FreshResponses
    /\ \A o \in Outputs : upstream.item[o] = "reasoning" =>
         \/ \A n \in Parts : upstream.part[PartKey(o, n)] = "done"
         \/ \E n \in Parts : upstream.part[PartKey(o, n)] \in {"begun", "told"}
    /\ \A k \in PartKeys :
         /\ upstream.part[k] = "new" /\ upstream.item[k[1]] # "reasoning" =>
              /\ responses.blockByKey[k] = NoBlock
              /\ k[2] = 0 => responses.functions[k[1]] = NoFunction
         /\ upstream.part[k] # "new" => upstream.item[k[1]] # "none"
         /\ upstream.part[k] = "told" => upstream.item[k[1]] = "reasoning"
         /\ upstream.part[k] \in {"begun", "told"} =>
              Current(responses, BlockOf(responses, upstream.item[k[1]], k))

\* The last events have been made; where a client is that has read all so far.
Over == upstream.phase = "ended" \/ (request.flow = "chat" /\ upstream.finished)
Here ==
    IF request.flow = "chat" THEN ChatAt(chat)
    ELSE IF request.flow = "agent" THEN AgentAt(agent)
    ELSE IF upstream.created THEN At(responses) ELSE Pos("before", "none", 0)

\* The upstreams whose streams are well formed: the serial ones, and of the agent
\* all with manners, since its calls come with their arguments.
Tame == Serial \/ (request.flow = "agent" /\ Mannered)

WellInv ==
    Tame =>
      /\ LastOpen(wire)
      /\ Over => Concludes(WireAt(wire), pending)
      /\ ~Over => Leads(WireAt(wire), pending, Here)
      /\ request.flow = "chat" /\ ~Over => ChatSound(chat)
      /\ request.flow = "responses" /\ ~Over => PartsInv
      /\ request.flow = "agent" /\ Over => inner = <<>> /\ agent.tool = NoCall
      /\ request.flow = "agent" /\ ~Over => \E v \in Positions : Turn(v)

LEMMA TameIs ==
    /\ Serial => Tame
    /\ Tame => Mannered /\ (request.flow # "agent" => Serial)
  BY DEF Tame, Serial, Mannered

LEMMA AgentAtIs ==
    ASSUME NEW a \in AgentState
    PROVE  /\ AgentAt(a) \in Positions /\ a.cursor \in Nat
           /\ (a.started /\ DOMAIN a.map = {}) => AgentAt(a) = None(a.cursor)
           /\ (a.started /\ DOMAIN a.map # {}) => AgentAt(a) = Open(a.cursor)
           /\ (~a.started /\ DOMAIN a.map = {}) => AgentAt(a) = Pos("before", "none", a.cursor)
<1>1. a.cursor \in Nat
  BY DEF AgentState
<1> DEFINE phase == IF a.started THEN "open" ELSE "before"
           block == IF DOMAIN a.map = {} THEN "none" ELSE "open"
<1>2. phase \in {"before", "open", "ended"} /\ block \in {"none", "open"}
  OBVIOUS
<1>3. AgentAt(a) = Pos(phase, block, a.cursor)
  BY DEF AgentAt
<1> HIDE DEF phase, block
<1>4. AgentAt(a) \in Positions
  BY <1>1, <1>2, <1>3, PosTyped
<1> QED
  BY <1>1, <1>3, <1>4 DEF None, Open, phase, block

LEMMA ChatAtTyped ==
    ASSUME NEW st \in ChatState
    PROVE  ChatAt(st) \in Positions /\ ChatAt(st).phase # "ended"
<1>1. st.index \in Nat /\ st.index + 1 \in Nat
  BY DEF ChatState
<1>2. ChatAt(st).phase # "ended"
  BY DEF ChatAt, Pos
<1> QED
  BY <1>1, <1>2 DEF ChatAt, Pos, Positions

LEMMA HereTyped ==
    ASSUME Typed PROVE Here \in Positions /\ Here.phase # "ended"
<1>1. ChatAt(chat) \in Positions /\ ChatAt(chat).phase # "ended"
  BY ChatAtTyped DEF Typed
<1>2. AgentAt(agent) \in Positions /\ AgentAt(agent).phase # "ended"
  BY AgentAtIs DEF Typed, AgentAt, Pos
<1>3. At(responses) \in Positions /\ At(responses).phase # "ended"
  BY AtIs DEF Typed, At, Pos
<1>4. Pos("before", "none", 0) \in Positions /\ Pos("before", "none", 0).phase # "ended"
  BY PosTyped DEF Pos
<1> QED
  BY <1>1, <1>2, <1>3, <1>4 DEF Here

LEMMA FlowIs == Typed => request.flow \in {"chat", "responses", "agent"}
  BY RequestsAssumption DEF Typed, Flows

LEMMA FreshAt ==
    ChatSound(Fresh) /\ ChatAt(Fresh) = Pos("before", "none", 0)
<1>1. ChatSound(Fresh)
  BY DEF ChatSound, Fresh, NoBlock
<1> QED
  BY <1>1 DEF ChatAt, Fresh

LEMMA WellInit == Init => WellInv
<1> SUFFICES ASSUME Init PROVE WellInv
  OBVIOUS
<1> DEFINE o == Pos("before", "none", 0)
<1>1. /\ wire = NewWire /\ pending = <<>> /\ inner = <<>> /\ chat = Fresh
      /\ agent = NewAgent /\ responses = FreshResponses
      /\ upstream.phase # "ended" /\ ~upstream.finished /\ ~upstream.created
      /\ upstream.part = [k \in PartKeys |-> "new"]
  BY DEF Init, NewUpstream
<1>2. o \in Positions /\ Leads(o, <<>>, o)
  BY PosTyped, LeadsNowhere
<1>3. WireAt(wire) = o /\ LastOpen(wire)
  BY <1>1 DEF WireAt, LastOpen, NewWire, Pos
<1>4. AgentAt(agent) = o /\ DOMAIN agent.map = {} /\ agent.tool = NoCall /\ agent.buffered = <<>>
  BY <1>1 DEF AgentAt, NewAgent
<1>5. ChatAt(chat) = o /\ ChatSound(chat)
  BY <1>1, FreshAt
<1>6. ~Over /\ Here = o
  BY <1>1, <1>4, <1>5 DEF Over, Here
<1>7. o.phase = "before" /\ o.block = "none"
  BY DEF Pos
<1>8. Turn(o)
  BY <1>1, <1>2, <1>4, <1>5, <1>7 DEF Turn, Follows
<1>9. PartsInv
  <2>1. ~responses.completed /\ OneOpen(responses)
    BY <1>1 DEF FreshResponses, OneOpen
  <2>2. ASSUME NEW k \in PartKeys
        PROVE  responses.blockByKey[k] = NoBlock /\ responses.functions[k[1]] = NoFunction
    BY <1>1 DEF FreshResponses, PartKeys
  <2>3. \A k \in PartKeys : upstream.part[k] = "new"
    BY <1>1
  <2>4. \A x \in Outputs : upstream.item[x] = "none"
    BY DEF Init, NewUpstream
  <2> QED
    BY <1>1, <2>1, <2>2, <2>3, <2>4 DEF PartsInv
<1> HIDE DEF o
<1> QED
  BY <1>1, <1>2, <1>3, <1>5, <1>6, <1>8, <1>9 DEF WellInv

\* The next event that waits is allowed where the client is.
LEMMA WriteGoes ==
    ASSUME Typed, WellInv, Tame, Write
    PROVE  /\ Goes(WireAt(wire), Head(pending), WireAt(wire')) /\ LastOpen(wire')
           /\ Over => Concludes(WireAt(wire'), pending')
           /\ ~Over => Leads(WireAt(wire'), pending', Here)
<1>1. /\ pending \in Seq(Written) /\ pending # <<>> /\ wire \in WireState
      /\ pending' = Tail(pending) /\ wire' = Read(wire, Head(pending))
      /\ Head(pending) = pending[1] /\ Head(pending) \in Readable
  BY HeadTailProperties, WrittenReadable DEF Typed, Write
<1>2. LastOpen(wire)
  BY DEF WellInv
<1>3. ASSUME NEW q, Leads(WireAt(wire), pending, q)
      PROVE  /\ Goes(WireAt(wire), Head(pending), WireAt(wire')) /\ LastOpen(wire')
             /\ Leads(WireAt(wire'), pending', q)
  <2>1. PICK m \in Positions :
          Goes(WireAt(wire), pending[1], m) /\ Leads(m, Tail(pending), q)
    BY <1>1, <1>3, LeadsFirst
  <2>2. WireAt(wire') = m /\ LastOpen(wire')
    BY <1>1, <1>2, <2>1, ReadGoes
  <2> QED
    BY <1>1, <2>1, <2>2
<1>4. CASE Over
  <2>1. PICK q \in Positions : q.phase = "ended" /\ Leads(WireAt(wire), pending, q)
    BY <1>4 DEF WellInv, Concludes
  <2> QED
    BY <1>3, <1>4, <2>1 DEF Concludes
<1>5. CASE ~Over
  <2>1. Leads(WireAt(wire), pending, Here)
    BY <1>5 DEF WellInv
  <2> QED
    BY <1>3, <1>5, <2>1
<1> QED
  BY <1>4, <1>5

LEMMA WellWrite ==
    ASSUME Typed, WellInv, Write PROVE WellInv'
<1>1. UNCHANGED <<request, upstream, chat, responses, agent, inner>>
  BY DEF Write
<1>2. SUFFICES ASSUME Tame PROVE WellInv'
  BY <1>1 DEF WellInv, Tame, Serial, Mannered
<1>3. (Over <=> Over') /\ Here' = Here
  BY <1>1 DEF Over, Here
<1>4. (PartsInv => PartsInv') /\ \A v : Turn(v) => Turn(v)'
  BY <1>1 DEF PartsInv, Turn
<1> QED
  BY <1>1, <1>2, <1>3, <1>4, WriteGoes DEF WellInv

\* Nothing waits: the client has read everything so far.
LEMMA ReadAll ==
    ASSUME WellInv, Tame, ~Over, pending = <<>>
    PROVE  WireAt(wire) = Here /\ LastOpen(wire)
  BY LeadsNowhere DEF WellInv

\* The step leaves the client alone and makes events that conclude.
LEMMA Concluded ==
    ASSUME WellInv, Tame, request' = request, wire' = wire, Over',
           Concludes(WireAt(wire), pending'),
           request.flow = "agent" => inner' = <<>> /\ agent'.tool = NoCall
    PROVE  WellInv'
  BY DEF WellInv

LEMMA WellFails ==
    ASSUME Typed, WellInv, Tame, UpstreamFails \/ ResponsesEnds PROVE WellInv'
<1>1. /\ pending = <<>> /\ inner = <<>> /\ upstream.phase \in {"calling", "open"}
      /\ request.flow = "chat" => ~upstream.finished
      /\ request.flow = "agent" => agent.tool = NoCall
      /\ pending' = <<ErrorEvent>> /\ UNCHANGED <<request, inner, wire, agent>>
  BY TameIs DEF UpstreamFails, ResponsesEnds, ReadingResponses, Idle
<1>2. upstream'.phase = "ended"
  BY DEF UpstreamFails, ResponsesEnds, Typed, UpstreamState
<1>3. ~Over /\ Over'
  BY <1>1, <1>2 DEF Over
<1>4. WireAt(wire) = Here /\ Here \in Positions /\ Here.phase # "ended"
  BY <1>1, <1>3, ReadAll, HereTyped
<1>5. Concludes(WireAt(wire), pending')
  BY <1>1, <1>4, ErrorConcludes
<1> QED
  BY <1>1, <1>3, <1>5, Concluded

\* The chat flow.
LEMMA TameOrderly ==
    ASSUME Tame, NEW chunk, OrderlyChunk(chunk),
           request.flow # "agent" \/ chunk \in TurnChunks(agent.turn)
    PROVE  Orderly(chat, chunk) /\ ~upstream.finished
<1>1. CASE Serial
  BY <1>1 DEF OrderlyChunk, Orderly
<1>2. CASE ~Serial
  <2>1. chunk \in TurnChunks(agent.turn)
    BY <1>2, TameIs
  <2>2. chunk.call \in TurnCalls(agent.turn)
    BY <2>1 DEF TurnChunks
  <2>3. chunk.call = NoCall \/ chunk.call.name # "none"
    BY <2>2 DEF TurnCalls
  <2> QED
    BY <2>3 DEF OrderlyChunk, Orderly
<1> QED
  BY <1>1, <1>2

LEMMA FinishConcludes ==
    ASSUME NEW p, NEW s, Finishes(p, s) PROVE Concludes(p, s)
<1>1. PICK n \in Nat : Leads(p, s, Pos("ended", "none", n))
  BY DEF Finishes
<1>2. Pos("ended", "none", n) \in Positions /\ Pos("ended", "none", n).phase = "ended"
  BY PosTyped DEF Pos
<1> QED
  BY <1>1, <1>2 DEF Concludes

LEMMA FedFinished ==
    ASSUME Typed, NEW chunk, Fed(chunk)
    PROVE  /\ upstream'.phase = upstream.phase
           /\ upstream'.finished <=> (upstream.finished \/ chunk.finish # "none")
<1> DEFINE f == upstream.finished \/ chunk.finish # "none"
           s == upstream.signed \/ chunk.opaque
<1>1. upstream \in UpstreamState /\ f \in BOOLEAN
  BY DEF Typed
<1>2. upstream' = [upstream EXCEPT !.fed = @ + 1, !.finished = f, !.signed = s]
  BY DEF Fed
<1> HIDE DEF f, s
<1>3. upstream'.phase = upstream.phase /\ upstream'.finished = f
  BY <1>1, <1>2 DEF UpstreamState
<1> QED
  BY <1>3 DEF f

LEMMA WellChat ==
    ASSUME Typed, WellInv, Tame, ChatChunk \/ ChatEnds PROVE WellInv'
<1>1. /\ request.flow = "chat" /\ upstream.phase = "open" /\ pending = <<>>
      /\ UNCHANGED <<request, responses, agent, inner, wire>>
  BY DEF ChatChunk, ChatEnds, Idle
<1>2. Mannered
  BY TameIs
<1>3. CASE ChatEnds
  <2>1. upstream.finished /\ pending' = pending
    BY <1>2, <1>3 DEF ChatEnds
  <2>2. Over
    BY <1>1, <2>1 DEF Over
  <2>3. upstream'.phase = "ended"
    BY <1>3 DEF ChatEnds, Typed, UpstreamState
  <2>4. Over' /\ Concludes(WireAt(wire), pending')
    BY <2>1, <2>2, <2>3 DEF Over, WellInv
  <2> QED
    BY <1>1, <2>4, Concluded
<1>4. CASE ChatChunk
  <2>1. PICK chunk \in Chunks :
          /\ OrderlyChunk(chunk) /\ Fed(chunk)
          /\ chat' = TranslateChunk(chat, chunk).st /\ pending' = TranslateChunk(chat, chunk).out
    BY <1>2, <1>4 DEF ChatChunk
  <2>2. chunk \in ChunkRecord /\ Orderly(chat, chunk) /\ ~upstream.finished
    BY <1>1, <2>1, CallsTyped, TameOrderly
  <2>3. ~Over
    BY <1>1, <2>2 DEF Over
  <2>4. WireAt(wire) = ChatAt(chat) /\ LastOpen(wire) /\ ChatSound(chat)
    BY <1>1, <2>3, ReadAll DEF Here, WellInv
  <2>5. /\ chunk.finish = "none" => ChatSound(chat') /\ Leads(WireAt(wire), pending', ChatAt(chat'))
        /\ chunk.finish # "none" => Finishes(WireAt(wire), pending')
    BY <2>1, <2>2, <2>4, ChunkTells DEF Typed
  <2>6. /\ upstream'.phase = "open"
        /\ upstream'.finished <=> chunk.finish # "none"
    BY <1>1, <2>1, <2>2, FedFinished
  <2>7. CASE chunk.finish = "none"
    <3>1. ~Over' /\ Here' = ChatAt(chat')
      BY <1>1, <2>6, <2>7 DEF Over, Here
    <3> QED
      BY <1>1, <2>4, <2>5, <2>7, <3>1 DEF WellInv
  <2>8. CASE chunk.finish # "none"
    <3>1. Over' /\ Concludes(WireAt(wire), pending')
      BY <1>1, <2>5, <2>6, <2>8, FinishConcludes DEF Over
    <3> QED
      BY <1>1, <3>1, Concluded
  <2> QED
    BY <2>7, <2>8
<1> QED
  BY <1>3, <1>4

-----------------------------------------------------------------------------
(* The Responses flow.                                                       *)

\* The upstream after an event; the client has not moved.
LEMMA AfterTranslated ==
    ASSUME Typed, NEW e, ReadingResponses, Translated(e)
    PROVE  LET c == TranslateResponsesEvent(responses, e)
           IN /\ responses' = c.st /\ pending' = c.out
              /\ upstream'.phase = IF c.st.completed THEN "ended" ELSE "open"
              /\ upstream'.created <=> (upstream.created \/ e.type = "created")
              /\ upstream'.part = IF e \in ItemEvents THEN PartsAfter(e) ELSE upstream.part
              /\ upstream'.item = IF e \in ItemEvents
                                  THEN [upstream.item EXCEPT ![e.out] = ItemKind(e)]
                                  ELSE upstream.item
              /\ pending = <<>> /\ inner = <<>> /\ UNCHANGED <<request, chat, agent, inner, wire>>
              /\ request.flow = "responses" /\ upstream.phase = "open"
<1> DEFINE c == TranslateResponsesEvent(responses, e)
           created == upstream.created \/ e.type = "created"
           phase == IF c.st.completed THEN "ended" ELSE upstream.phase
           part == IF e \in ItemEvents THEN PartsAfter(e) ELSE upstream.part
           item == IF e \in ItemEvents
                   THEN [upstream.item EXCEPT ![e.out] = ItemKind(e)] ELSE upstream.item
<1>1. created \in BOOLEAN
  OBVIOUS
<1>2. /\ upstream' = [upstream EXCEPT !.fed = @ + 1, !.created = created, !.phase = phase,
                                      !.part = part, !.item = item]
      /\ responses' = c.st /\ pending' = c.out
      /\ UNCHANGED <<request, chat, agent, inner, wire>>
  BY DEF Translated
<1>3. /\ request.flow = "responses" /\ upstream.phase = "open" /\ pending = <<>> /\ inner = <<>>
  BY DEF ReadingResponses, Idle
<1>4. phase = IF c.st.completed THEN "ended" ELSE "open"
  BY <1>3
<1> HIDE DEF c, created, phase, part, item
<1>5. /\ upstream'.created = created /\ upstream'.phase = phase
      /\ upstream'.part = part /\ upstream'.item = item
  BY <1>1, <1>2 DEF Typed, UpstreamState
<1>6. upstream'.created <=> (upstream.created \/ e.type = "created")
  BY <1>5 DEF created
<1> QED
  BY <1>2, <1>3, <1>4, <1>5, <1>6 DEF c, part, item

\* An event of the response as a whole.
LEMMA WellResponse ==
    ASSUME Typed, WellInv, Tame, ResponsesCreated \/ ResponsesTerminal PROVE WellInv'
<1>1. ASSUME NEW e, e \notin ItemEvents, ReadingResponses, Translated(e),
             TranslateResponsesEvent(responses, e).st.completed,
             Concludes(WireAt(wire), TranslateResponsesEvent(responses, e).out)
      PROVE  WellInv'
  <2>1. /\ upstream'.phase = "ended" /\ pending' = TranslateResponsesEvent(responses, e).out
        /\ UNCHANGED <<request, agent, inner, wire>> /\ request.flow = "responses"
    BY <1>1, AfterTranslated
  <2>2. Over'
    BY <2>1 DEF Over
  <2> QED
    BY <1>1, <2>1, <2>2, Concluded
<1>2. /\ ReadingResponses /\ request.flow = "responses" /\ ~Over /\ pending = <<>>
      /\ WireAt(wire) = Here /\ LastOpen(wire) /\ PartsInv
  <2>1. ReadingResponses
    BY DEF ResponsesCreated, ResponsesTerminal
  <2>2. request.flow = "responses" /\ ~Over /\ pending = <<>>
    BY <2>1 DEF ReadingResponses, Idle, Over
  <2> QED
    BY <2>1, <2>2, ReadAll DEF WellInv
<1>3. Here = IF upstream.created THEN At(responses) ELSE Pos("before", "none", 0)
  BY <1>2 DEF Here
<1>4. responses \in ResponsesState
  BY DEF Typed
<1>5. ASSUME NEW type, NEW body
      PROVE  /\ Control(type, body).type = type /\ Control(type, body).body = body
             /\ type \in {"created", "completed", "failed", "error"} =>
                  Control(type, body) \notin ItemEvents
  BY DEF Control, ItemEvents
<1>6. CASE ResponsesCreated
  <2> DEFINE e == Control("created", TRUE)
             o == Pos("before", "none", 0)
  <2>1. Translated(e) /\ ~upstream.created /\ e.type = "created" /\ e.body /\ e \notin ItemEvents
    BY <1>6, <1>5 DEF ResponsesCreated
  <2> HIDE DEF e
  <2>2. responses = FreshResponses /\ WireAt(wire) = o
    BY <1>2, <1>3, <2>1 DEF PartsInv
  <2>3. /\ TranslateResponsesEvent(responses, e).st = responses
        /\ Leads(o, TranslateResponsesEvent(responses, e).out, At(responses))
    BY <2>1, <2>2, StartTells
  <2>4. /\ responses' = responses /\ Leads(o, pending', At(responses'))
        /\ upstream'.phase = IF responses.completed THEN "ended" ELSE "open"
        /\ upstream'.created
        /\ upstream'.part = upstream.part /\ upstream'.item = upstream.item
        /\ UNCHANGED <<request, wire>>
    BY <1>2, <2>1, <2>3, AfterTranslated
  <2>5. upstream'.phase = "open"
    BY <1>2, <2>4 DEF PartsInv
  <2>6. ~Over' /\ Here' = At(responses')
    BY <1>2, <2>4, <2>5 DEF Over, Here
  <2>7. PartsInv'
    BY <1>2, <2>4 DEF PartsInv
  <2> QED
    BY <1>2, <2>2, <2>4, <2>6, <2>7 DEF WellInv
<1>7. CASE ResponsesTerminal
  <2>1. PICK type \in {"completed", "failed", "error"}, body \in BOOLEAN :
          Translated(Control(type, body)) /\ (type = "completed" => upstream.created)
    BY <1>7 DEF ResponsesTerminal
  <2> DEFINE e == Control(type, body)
  <2>2. e.type = type /\ e \notin ItemEvents
    BY <1>5
  <2> HIDE DEF e
  <2>3. CASE upstream.created
    <3>1. WireAt(wire) = At(responses) /\ OneOpen(responses)
      BY <1>2, <1>3, <2>3 DEF PartsInv
    <3> QED
      BY <1>1, <1>2, <1>4, <2>1, <2>2, <3>1, EndTells DEF e
  <2>4. CASE ~upstream.created
    <3>0. e.type \in {"failed", "error"}
      BY <2>1, <2>2, <2>4
    <3>1. WireAt(wire) = Pos("before", "none", 0) /\ responses = FreshResponses
      BY <1>2, <1>3, <2>4 DEF PartsInv
    <3>2. WireAt(wire) \in Positions /\ WireAt(wire).phase # "ended"
      BY <1>2, HereTyped
    <3>3. /\ TranslateResponsesEvent(responses, e).st.completed
          /\ Concludes(WireAt(wire), TranslateResponsesEvent(responses, e).out)
      BY <3>0, <3>1, <3>2, FreshFails, ErrorConcludes
    <3> QED
      BY <1>1, <1>2, <2>1, <2>2, <3>3 DEF e
  <2> QED
    BY <2>3, <2>4
<1> QED
  BY <1>6, <1>7

\* The part of an event that a serial upstream may send has no block yet, or
\* the one that is open.
LEMMA PossibleReady ==
    ASSUME Typed, PartsInv, NEW e \in ItemEvents, PossibleEvent(e)
    PROVE  Ready(responses, e)
<1> DEFINE k == EventPart(e)
           o == e.out
<1>1. /\ o \in Outputs /\ e.part \in Parts /\ k \in PartKeys /\ k[1] = o
      /\ ItemKind(e) = "function" => k[2] = 0
      /\ ItemKind(e) # "reasoning" => KeyOf(e) = k
      /\ ItemKind(e) = "reasoning" => KeyOf(e) = PartKey(o, 0)
      /\ ItemKind(e) # "none"
  <2>1. e.out \in Outputs /\ e.part \in Parts
    BY PartsAssumption DEF ItemEvents
  <2>2. ItemKind(e) = "function" => e.part = 0
    BY DEF ItemEvents, ItemKind
  <2>3. ItemKind(e) # "none"
    BY DEF ItemKind
  <2> QED
    BY <2>1, <2>2, <2>3 DEF KeyOf, EventPart, PartKey, PartKeys
<1>2. /\ upstream.part \in [PartKeys -> {"new", "begun", "told", "done"}]
      /\ upstream.part[k] # "done" /\ upstream.item[o] \in {"none", ItemKind(e)}
  BY <1>1 DEF Typed, UpstreamState, PossibleEvent, EventPart
<1> HIDE DEF k, o
<1>3. ASSUME NEW n \in Parts, upstream.part[PartKey(o, n)] \in {"begun", "told"}
      PROVE  /\ upstream.item[o] = ItemKind(e)
             /\ Current(responses, BlockOf(responses, ItemKind(e), PartKey(o, n)))
  <2>1. PartKey(o, n) \in PartKeys /\ PartKey(o, n)[1] = o
    BY <1>1, KeyTyped DEF PartKey
  <2>2. /\ upstream.item[o] # "none"
        /\ Current(responses, BlockOf(responses, upstream.item[o], PartKey(o, n)))
    BY <1>3, <2>1 DEF PartsInv
  <2> QED
    BY <1>2, <2>2
<1>4. CASE ItemKind(e) = "reasoning"
  <2>1. CASE upstream.item[o] = "none"
    <3>1. PartKey(o, 0) \in PartKeys /\ PartKey(o, 0)[1] = o
      BY <1>1, KeyTyped, PartsAssumption DEF PartKey
    <3>2. responses.blockByKey[PartKey(o, 0)] = NoBlock
      BY <2>1, <3>1 DEF PartsInv
    <3> QED
      BY <1>1, <1>4, <3>2 DEF Ready
  <2>2. CASE upstream.item[o] = "reasoning"
    <3>1. k = PartKey(o, e.part)
      BY DEF k, o, EventPart
    <3>2. PICK n \in Parts : upstream.part[PartKey(o, n)] \in {"begun", "told"}
      BY <1>1, <1>2, <2>2, <3>1 DEF PartsInv
    <3>3. PartKey(o, n)[1] = o
      BY DEF PartKey
    <3>4. Current(responses, responses.blockByKey[PartKey(o, 0)])
      BY <1>3, <1>4, <3>2, <3>3 DEF BlockOf
    <3> QED
      BY <1>1, <1>4, <3>4 DEF Ready
  <2> QED
    BY <1>2, <1>4, <2>1, <2>2
<1>5. CASE ItemKind(e) # "reasoning"
  <2>1. upstream.item[k[1]] # "reasoning"
    BY <1>1, <1>2, <1>5
  <2>2. CASE upstream.part[k] = "new"
    <3>1. responses.blockByKey[k] = NoBlock /\ (k[2] = 0 => responses.functions[k[1]] = NoFunction)
      BY <1>1, <2>1, <2>2 DEF PartsInv
    <3> QED
      BY <1>1, <1>5, <3>1 DEF Ready, o
  <2>3. CASE upstream.part[k] \in {"begun", "told"}
    <3>1. k = PartKey(o, e.part)
      BY DEF k, o, EventPart
    <3>2. Current(responses, BlockOf(responses, ItemKind(e), k))
      BY <1>1, <1>3, <2>3, <3>1
    <3> QED
      BY <1>1, <1>5, <3>2 DEF Ready, BlockOf, o
  <2> QED
    BY <1>1, <1>2, <2>2, <2>3
<1> QED
  BY <1>4, <1>5

LEMMA WellItem ==
    ASSUME Typed, WellInv, Tame, ResponsesItem PROVE WellInv'
<1>1. PICK e \in ItemEvents :
        ReadingResponses /\ upstream.created /\ PossibleEvent(e) /\ OrderlyEvent(e) /\ Translated(e)
  BY TameIs DEF ResponsesItem, ReadingResponses
<1> DEFINE c == TranslateResponsesEvent(responses, e)
           k == EventPart(e)
           o == e.out
<1>2. /\ responses' = c.st /\ pending' = c.out
      /\ upstream'.phase = IF c.st.completed THEN "ended" ELSE "open"
      /\ upstream'.created
      /\ upstream'.part = PartsAfter(e)
      /\ upstream'.item = [upstream.item EXCEPT ![e.out] = ItemKind(e)]
      /\ pending = <<>> /\ inner = <<>> /\ UNCHANGED <<request, chat, agent, inner, wire>>
      /\ request.flow = "responses" /\ upstream.phase = "open"
  BY <1>1, AfterTranslated
<1>3. ~Over /\ WireAt(wire) = At(responses) /\ LastOpen(wire) /\ PartsInv
  <2>1. ~Over
    BY <1>2 DEF Over
  <2> QED
    BY <1>1, <1>2, <2>1, ReadAll DEF Here, WellInv
<1>4. responses \in ResponsesState /\ OneOpen(responses) /\ Ready(responses, e)
  BY <1>1, <1>3, PossibleReady DEF Typed, PartsInv
<1>5. ItemTold(responses, e, c)
  BY <1>4, PartEventTells, CallEventTells
<1> HIDE DEF c
<1>6. CASE c.st.completed /\ Concludes(At(responses), c.out)
  <2>1. Over' /\ Concludes(WireAt(wire), pending')
    BY <1>2, <1>3, <1>6 DEF Over
  <2> QED
    BY <1>2, <2>1, Concluded
<1>7. ASSUME NEW b \in Nat, Said(responses, c, b), Apart(responses, c.st, e),
             ~Ends(e) => BlockOf(c.st, ItemKind(e), EventPart(e)) = b
      PROVE  WellInv'
  <2>1. /\ c.st \in ResponsesState /\ Current(c.st, b) /\ ~c.st.completed
        /\ Leads(At(responses), c.out, At(c.st))
    BY <1>3, <1>7 DEF Said, PartsInv
  <2>2. OneOpen(c.st)
    BY <2>1 DEF OneOpen, Current
  <2>3. upstream'.phase = "open"
    BY <1>2, <2>1
  <2>4. ~Over' /\ Here' = At(responses')
    BY <1>2, <2>3 DEF Over, Here
  <2>5. /\ o \in Outputs /\ e.part \in Parts /\ k = PartKey(o, e.part) /\ k \in PartKeys /\ k[1] = o
        /\ ItemKind(e) = "function" => k[2] = 0
        /\ ItemKind(e) # "none" /\ (EndsItem(e) => ItemKind(e) = "reasoning")
        /\ ItemKind(e) = "reasoning" => (Ends(e) <=> EndsItem(e))
        /\ ItemKind(e) # "reasoning" => KeyOf(e) = k
        /\ KeyOf(e) \in PartKeys /\ KeyOf(e)[1] = o
    <3>1. e.out \in Outputs /\ e.part \in Parts
      BY PartsAssumption DEF ItemEvents
    <3>2. ItemKind(e) = "function" => e.part = 0
      BY DEF ItemEvents, ItemKind
    <3>3. /\ ItemKind(e) # "none" /\ (EndsItem(e) => ItemKind(e) = "reasoning")
          /\ ItemKind(e) = "reasoning" => (Ends(e) <=> EndsItem(e))
      BY DEF ItemKind, EndsItem, Ends
    <3> QED
      BY <3>1, <3>2, <3>3, PartsAssumption DEF KeyOf, EventPart, PartKey, PartKeys
  <2>51. /\ upstream.part \in [PartKeys -> {"new", "begun", "told", "done"}]
         /\ upstream.item \in [Outputs -> {"none", "message", "function", "reasoning"}]
    BY DEF Typed, UpstreamState
  <2>52. /\ upstream'.item[o] = ItemKind(e)
         /\ \A x \in Outputs \ {o} : upstream'.item[x] = upstream.item[x]
    BY <1>2, <2>5, <2>51
  <2>53. AfterEvent(e) # "new" /\ (AfterEvent(e) \in {"begun", "told"} <=> ~Ends(e))
         /\ (AfterEvent(e) = "done" <=> Ends(e))
         /\ (AfterEvent(e) = "told" => ItemKind(e) = "reasoning")
    BY DEF AfterEvent, ItemKind
  <2> HIDE DEF k, o
  <2>54. ASSUME NEW x \in PartKeys
         PROVE  /\ x \in Touched(e) => upstream'.part[x] = AfterEvent(e)
                /\ x \notin Touched(e) => upstream'.part[x] = upstream.part[x]
                /\ x \in Touched(e) <=> x = k \/ (EndsItem(e) /\ x[1] = o)
                /\ x \in Touched(e) => x[1] = o
    BY <1>2, <2>5 DEF PartsAfter, Touched, EventPart, k, o
  <2>6. ASSUME NEW x \in PartKeys
        PROVE  /\ upstream'.part[x] = "new" /\ upstream'.item[x[1]] # "reasoning" =>
                    /\ c.st.blockByKey[x] = NoBlock
                    /\ x[2] = 0 => c.st.functions[x[1]] = NoFunction
               /\ upstream'.part[x] # "new" => upstream'.item[x[1]] # "none"
               /\ upstream'.part[x] = "told" => upstream'.item[x[1]] = "reasoning"
               /\ upstream'.part[x] \in {"begun", "told"} =>
                    Current(c.st, BlockOf(c.st, upstream'.item[x[1]], x))
    <3>0. x[1] \in Outputs
      BY DEF PartKeys
    <3>1. CASE x \in Touched(e)
      <4>1. upstream'.part[x] = AfterEvent(e) /\ x[1] = o /\ upstream'.item[x[1]] = ItemKind(e)
        BY <2>52, <2>54, <3>1
      <4>2. ~Ends(e) => x = k
        BY <2>54, <3>1 DEF Ends
      <4> QED
        BY <1>7, <2>1, <2>5, <2>53, <4>1, <4>2 DEF k
    <3>2. CASE x \notin Touched(e) /\ x[1] = o /\ ItemKind(e) = "reasoning"
      <4>1. upstream'.part[x] = upstream.part[x] /\ upstream'.item[x[1]] = "reasoning" /\ ~Ends(e)
        BY <2>5, <2>52, <2>54, <3>2
      <4>2. BlockOf(c.st, "reasoning", k) = b /\ k[1] = x[1]
        BY <1>7, <2>5, <3>2, <4>1 DEF k
      <4>3. BlockOf(c.st, "reasoning", x) = b
        BY <4>2 DEF BlockOf
      <4> QED
        BY <2>1, <4>1, <4>3
    <3>3. CASE x \notin Touched(e) /\ ~(x[1] = o /\ ItemKind(e) = "reasoning")
      <4>1. upstream'.part[x] = upstream.part[x]
        BY <2>54, <3>3
      <4>2. /\ upstream.part[x] \in {"new", "done", "told"}
            /\ upstream.part[x] = "told" => x[1] = o
        BY <1>1, <2>51, <3>3 DEF OrderlyEvent, o
      <4>3. /\ upstream.part[x] = "new" /\ upstream.item[x[1]] # "reasoning" =>
                 /\ responses.blockByKey[x] = NoBlock
                 /\ x[2] = 0 => responses.functions[x[1]] = NoFunction
            /\ upstream.part[x] # "new" => upstream.item[x[1]] # "none"
        BY <1>3 DEF PartsInv
      <4>4. /\ upstream.item[x[1]] # "none" => upstream'.item[x[1]] # "none"
            /\ upstream'.item[x[1]] # "reasoning" => upstream.item[x[1]] # "reasoning"
        <5>1. CASE x[1] = o
          <6>1. upstream'.item[o] = ItemKind(e) /\ upstream.item[o] \in {"none", ItemKind(e)}
            BY <1>1, <2>52 DEF PossibleEvent, o
          <6> QED
            BY <2>5, <3>3, <5>1, <6>1
        <5>2. CASE x[1] # o
          BY <2>52, <3>0, <5>2
        <5> QED
          BY <5>1, <5>2
      <4>5. c.st.blockByKey[x] = responses.blockByKey[x]
        <5>1. x # KeyOf(e)
          <6>1. x[1] = o => x # k /\ KeyOf(e) = k
            BY <2>5, <2>54, <3>3
          <6> QED
            BY <2>5, <6>1
        <5> QED
          BY <1>7, <5>1 DEF Apart
      <4>6. x[2] = 0 => c.st.functions[x[1]] = responses.functions[x[1]]
        <5>1. CASE ItemKind(e) = "function" /\ x[1] = o
          <6>1. x[2] # 0
            <7>1. x = <<x[1], x[2]>> /\ k = <<k[1], k[2]>>
              BY <2>5 DEF PartKeys
            <7>2. x # k
              BY <2>54, <3>3
            <7> QED
              BY <2>5, <5>1, <7>1, <7>2
          <6> QED
            BY <6>1
        <5>2. CASE ~(ItemKind(e) = "function" /\ x[1] = o)
          BY <1>7, <3>0, <5>2 DEF Apart, o
        <5> QED
          BY <5>1, <5>2
      <4>7. upstream.part[x] # "told"
        <5>1. ASSUME upstream.part[x] = "told" PROVE FALSE
          <6>1. x[1] = o /\ upstream.item[o] = ItemKind(e) /\ ItemKind(e) # "reasoning"
            BY <1>1, <2>5, <3>3, <4>2, <4>3, <5>1 DEF PossibleEvent, o
          <6> QED
            BY <1>3, <5>1, <6>1 DEF PartsInv
        <5> QED
          BY <5>1
      <4> QED
        BY <4>1, <4>2, <4>3, <4>4, <4>5, <4>6, <4>7
    <3> QED
      BY <3>1, <3>2, <3>3
  <2>61. ASSUME NEW x \in Outputs, upstream'.item[x] = "reasoning"
         PROVE  \/ \A n \in Parts : upstream'.part[PartKey(x, n)] = "done"
                \/ \E n \in Parts : upstream'.part[PartKey(x, n)] \in {"begun", "told"}
    <3>0. ASSUME NEW n \in Parts PROVE PartKey(x, n) \in PartKeys /\ PartKey(x, n)[1] = x
      BY KeyTyped DEF PartKey
    <3>1. CASE x = o /\ EndsItem(e)
      BY <2>5, <2>53, <2>54, <3>0, <3>1
    <3>2. CASE x = o /\ ~EndsItem(e)
      <4>1. ItemKind(e) = "reasoning" /\ ~Ends(e)
        BY <2>5, <2>52, <2>61, <3>2
      <4>2. upstream'.part[k] \in {"begun", "told"}
        BY <2>5, <2>53, <2>54, <4>1
      <4> QED
        BY <2>5, <3>2, <4>2
    <3>3. CASE x # o
      <4>1. upstream.item[x] = "reasoning"
        BY <2>52, <2>61, <3>3
      <4>2. ASSUME NEW n \in Parts
            PROVE  /\ upstream'.part[PartKey(x, n)] = upstream.part[PartKey(x, n)]
                   /\ upstream.part[PartKey(x, n)] \notin {"begun", "told"}
        <5>1. PartKey(x, n) \notin Touched(e)
          BY <2>54, <3>0, <3>3
        <5> QED
          BY <1>1, <2>54, <3>0, <3>3, <5>1 DEF OrderlyEvent, o
      <4> QED
        BY <1>3, <4>1, <4>2 DEF PartsInv
    <3> QED
      BY <3>1, <3>2, <3>3
  <2>7. PartsInv'
    BY <1>2, <2>1, <2>2, <2>6, <2>61 DEF PartsInv
  <2> QED
    BY <1>2, <1>3, <2>1, <2>4, <2>7 DEF WellInv
<1> QED
  BY <1>5, <1>6, <1>7 DEF ItemTold

-----------------------------------------------------------------------------
(* The agent.                                                                *)

\* The agent's next event, where a reader of the turn would be before and after it.
LEMMA Dispatched ==
    ASSUME Typed, WellInv, Tame, NEW type, Dispatching(type)
    PROVE  LET e == Head(inner)
           IN /\ e \in Inner /\ e.type = type
              /\ request.flow = "agent" /\ ~Over /\ agent.tool = NoCall
              /\ UNCHANGED <<request, upstream, chat, responses, wire>>
              /\ pending = <<>> /\ WireAt(wire) = AgentAt(agent)
              /\ \E v, m \in Positions :
                   /\ Follows(v, agent) /\ Goes(v, e, m)
                   /\ upstream.finished => Finishes(m, inner')
                   /\ ~upstream.finished => ChatSound(chat) /\ Leads(m, inner', ChatAt(chat))
<1> DEFINE e == Head(inner)
<1>1. /\ request.flow = "agent" /\ agent.tool = NoCall /\ pending = <<>> /\ inner # <<>>
      /\ e.type = type /\ inner' = Tail(inner)
      /\ UNCHANGED <<request, upstream, chat, responses, wire>>
  BY DEF Dispatching, InAgent
<1>2. ~Over
  BY <1>1 DEF WellInv
<1>3. WireAt(wire) = AgentAt(agent)
  BY <1>1, <1>2, ReadAll DEF Here
<1>4. inner \in Seq(Inner) /\ e = inner[1] /\ e \in Inner
  BY <1>1, HeadTyped, HeadTailProperties DEF Typed
<1>5. PICK v \in Positions : Turn(v)
  BY <1>1, <1>2 DEF WellInv
<1>6. ASSUME NEW q, Leads(v, inner, q)
      PROVE  \E m \in Positions : Goes(v, e, m) /\ Leads(m, inner', q)
  <2>1. \E m \in Positions : Goes(v, inner[1], m) /\ Leads(m, Tail(inner), q)
    BY <1>1, <1>4, <1>6, LeadsFirst
  <2> QED
    BY <1>1, <1>4, <2>1
<1> HIDE DEF e
<1>7. CASE upstream.finished
  <2>1. PICK n \in Nat : Leads(v, inner, Pos("ended", "none", n))
    BY <1>5, <1>7 DEF Turn, Finishes
  <2>2. PICK m \in Positions : Goes(v, e, m) /\ Leads(m, inner', Pos("ended", "none", n))
    BY <1>6, <2>1
  <2>3. Finishes(m, inner')
    BY <2>2 DEF Finishes
  <2> QED
    BY <1>1, <1>2, <1>3, <1>4, <1>5, <1>7, <2>2, <2>3 DEF Turn, e
<1>8. CASE ~upstream.finished
  <2>1. ChatSound(chat) /\ Leads(v, inner, ChatAt(chat))
    BY <1>5, <1>8 DEF Turn
  <2>2. PICK m \in Positions : Goes(v, e, m) /\ Leads(m, inner', ChatAt(chat))
    BY <1>6, <2>1
  <2> QED
    BY <1>1, <1>2, <1>3, <1>4, <1>5, <1>8, <2>1, <2>2 DEF Turn, e
<1> QED
  BY <1>7, <1>8

\* After a dispatch: what is written leads to where the agent is, and the agent
\* still goes along with the reader of the turn.
LEMMA DispatchKeeps ==
    ASSUME WellInv, Tame, request.flow = "agent", ~Over,
           UNCHANGED <<request, upstream, chat, wire>>, pending = <<>>,
           Leads(WireAt(wire), pending', AgentAt(agent')),
           NEW m \in Positions, Follows(m, agent'),
           upstream.finished => Finishes(m, inner'),
           ~upstream.finished => ChatSound(chat) /\ Leads(m, inner', ChatAt(chat))
    PROVE  WellInv'
<1>1. ~Over' /\ Here' = AgentAt(agent')
  BY DEF Over, Here
<1>2. Turn(m)'
  BY DEF Turn
<1>3. LastOpen(wire)
  BY DEF WellInv
<1> QED
  BY <1>1, <1>2, <1>3 DEF WellInv

\* The event that is dispatched, with the client's index.
LEMMA Renumbered ==
    ASSUME NEW e \in Inner, NEW i \in Nat
    PROVE  /\ [e EXCEPT !.index = i].type = e.type /\ [e EXCEPT !.index = i].index = i
           /\ \A kind : /\ [e EXCEPT !.index = i, !.kind = kind].type = e.type
                        /\ [e EXCEPT !.index = i, !.kind = kind].index = i
  BY DEF Inner, EventsOf

LEMMA WellMessageStart ==
    ASSUME Typed, WellInv, Tame, DispatchMessageStart PROVE WellInv'
<1> DEFINE e == Head(inner)
<1>1. Dispatching("message_start")
  BY DEF DispatchMessageStart
<1>2. /\ e \in Inner /\ e.type = "message_start"
      /\ request.flow = "agent" /\ ~Over /\ agent.tool = NoCall
      /\ UNCHANGED <<request, upstream, chat, responses, wire>>
      /\ pending = <<>> /\ WireAt(wire) = AgentAt(agent)
  BY <1>1, Dispatched
<1>3. PICK v, m \in Positions :
        /\ Follows(v, agent) /\ Goes(v, e, m)
        /\ upstream.finished => Finishes(m, inner')
        /\ ~upstream.finished => ChatSound(chat) /\ Leads(m, inner', ChatAt(chat))
  BY <1>1, Dispatched
<1>4. agent \in AgentState
  BY DEF Typed
<1>5. /\ pending' = IF agent.started THEN <<>> ELSE <<e>>
      /\ agent' = [agent EXCEPT !.started = TRUE]
  BY DEF DispatchMessageStart
<1> HIDE DEF e
<1>6. /\ agent' \in AgentState
      /\ agent'.started = TRUE /\ agent'.map = agent.map /\ agent'.cursor = agent.cursor
      /\ agent'.tool = agent.tool /\ agent'.buffered = agent.buffered
  BY <1>4, <1>5 DEF AgentState
<1>7. /\ v.phase = "before" /\ e.index = 0 /\ m = Pos("open", v.block, v.next)
  BY <1>2, <1>3 DEF Goes
<1>8. v.block = "none" /\ DOMAIN agent.map = {}
  BY <1>3, <1>7 DEF Follows
<1>9. Follows(m, agent')
  <2>1. m.phase = "open" /\ m.block = "none"
    BY <1>7, <1>8 DEF Pos
  <2> QED
    BY <1>2, <1>3, <1>6, <1>8, <2>1 DEF Follows
<1>10. Leads(AgentAt(agent), pending', AgentAt(agent'))
  <2>1. AgentAt(agent') = None(agent.cursor) /\ AgentAt(agent) \in Positions
    BY <1>4, <1>6, <1>8, AgentAtIs
  <2>2. CASE agent.started
    <3>1. AgentAt(agent) = AgentAt(agent')
      BY <1>4, <1>8, <2>1, <2>2, AgentAtIs
    <3> QED
      BY <1>5, <2>1, <2>2, <3>1, LeadsNowhere
  <2>3. CASE ~agent.started
    <3>1. AgentAt(agent) = Pos("before", "none", agent.cursor)
      BY <1>4, <1>8, <2>3, AgentAtIs
    <3>2. Goes(AgentAt(agent), e, AgentAt(agent'))
      BY <1>2, <1>7, <2>1, <3>1 DEF Goes, None, Pos
    <3> QED
      BY <1>5, <2>1, <2>3, <3>2, LeadsOne
  <2> QED
    BY <2>2, <2>3
<1> QED
  BY <1>2, <1>3, <1>9, <1>10, DispatchKeeps

LEMMA WellBlockStart ==
    ASSUME Typed, WellInv, Tame, HandleBlockStart PROVE WellInv'
<1> DEFINE e == Head(inner)
<1>1. Dispatching("content_block_start")
  BY DEF HandleBlockStart
<1>2. /\ e \in Inner /\ e.type = "content_block_start"
      /\ request.flow = "agent" /\ ~Over /\ agent.tool = NoCall
      /\ UNCHANGED <<request, upstream, chat, responses, wire>>
      /\ pending = <<>> /\ WireAt(wire) = AgentAt(agent)
  BY <1>1, Dispatched
<1>3. PICK v, m \in Positions :
        /\ Follows(v, agent) /\ Goes(v, e, m)
        /\ upstream.finished => Finishes(m, inner')
        /\ ~upstream.finished => ChatSound(chat) /\ Leads(m, inner', ChatAt(chat))
  BY <1>1, Dispatched
<1>4. agent \in AgentState /\ agent.cursor \in Nat /\ agent.map \in Maps
  BY DEF Typed, AgentState
<1> DEFINE entry == Entry(e, agent.cursor)
           map == With(agent.map, e.index, entry)
           kind == IF e.name \in WebTools THEN "server_tool_use" ELSE e.kind
           f == [e EXCEPT !.index = agent.cursor, !.kind = kind]
<1>5. /\ agent' = [agent EXCEPT !.cursor = @ + 1, !.map = map]
      /\ pending' = <<f>>
  BY DEF HandleBlockStart
<1>6. entry.client = agent.cursor
  BY DEF Entry
<1>7. /\ v.phase = "open" /\ v.block = "none" /\ e.index = v.next
      /\ \E n \in Nat : n = v.next + 1 /\ m = Open(n)
  BY <1>2, <1>3 DEF Goes
<1>8. agent.started /\ DOMAIN agent.map = {} /\ v.next \in Nat
  BY <1>3, <1>7 DEF Follows, Positions
<1>9. DOMAIN map = {v.next} /\ map[v.next] = entry
  BY <1>7, <1>8 DEF With
<1>10. f.type = "content_block_start" /\ f.index = agent.cursor
  BY <1>2, <1>4, Renumbered
<1> HIDE DEF e, entry, map, f, kind
<1>11. PICK k \in Nat : k = agent.cursor + 1
  BY <1>4
<1>12. /\ agent'.cursor = k /\ agent'.map = map /\ agent'.started = agent.started
       /\ agent'.tool = agent.tool /\ agent'.buffered = agent.buffered
  BY <1>4, <1>5, <1>11 DEF AgentState
<1>13. Follows(m, agent')
  <2>1. PICK n \in Nat : n = v.next + 1 /\ m = Open(n)
    BY <1>7
  <2>2. m.phase = "open" /\ m.block = "open" /\ m.next = n
    BY <2>1 DEF Open, Pos
  <2>3. m.next - 1 = v.next /\ agent'.cursor - 1 = agent.cursor
    BY <1>4, <1>8, <1>11, <1>12, <2>1, <2>2
  <2> QED
    BY <1>2, <1>3, <1>6, <1>8, <1>9, <1>12, <2>2, <2>3 DEF Follows
<1>14. Leads(AgentAt(agent), pending', AgentAt(agent'))
  <2>1. AgentAt(agent) = None(agent.cursor) /\ AgentAt(agent) \in Positions
    BY <1>4, <1>8, AgentAtIs
  <2>2. AgentAt(agent') = Open(k)
    <3>1. DOMAIN agent'.map # {} /\ agent'.started /\ agent'.cursor = k
      BY <1>8, <1>9, <1>12
    <3> QED
      BY <3>1 DEF AgentAt, Open
  <2>3. Goes(None(agent.cursor), f, Open(k))
    BY <1>4, <1>10, <1>11, EventGoes
  <2> QED
    BY <1>5, <2>1, <2>2, <2>3, LeadsOne
<1> QED
  BY <1>2, <1>3, <1>13, <1>14, DispatchKeeps

\* The turn's block that is open, and the client's.
LEMMA OpenEntry ==
    ASSUME NEW a \in AgentState, NEW v \in Positions, Follows(v, a), v.phase = "open",
           v.block = "open"
    PROVE  /\ a.started /\ DOMAIN a.map = {v.next - 1} /\ AgentAt(a) = Open(a.cursor)
           /\ a.map[v.next - 1].client \in Nat
           /\ a.cursor = a.map[v.next - 1].client + 1
<1>1. /\ a.started /\ DOMAIN a.map = {v.next - 1}
      /\ a.map[v.next - 1].client = a.cursor - 1
  BY DEF Follows
<1>2. AgentAt(a) = Open(a.cursor) /\ a.cursor \in Nat
  BY <1>1, AgentAtIs
<1>3. a.map[v.next - 1].client \in Nat
  <2>1. a.map \in Maps /\ v.next - 1 \in DOMAIN a.map
    BY <1>1 DEF AgentState
  <2>2. PICK S \in SUBSET Nat : a.map \in [S -> EntryRecord]
    BY <2>1 DEF Maps
  <2> QED
    BY <2>1, <2>2 DEF EntryRecord
<1> QED
  BY <1>1, <1>2, <1>3

LEMMA WellBlockDelta ==
    ASSUME Typed, WellInv, Tame, HandleBlockDelta PROVE WellInv'
<1> DEFINE e == Head(inner)
<1>1. Dispatching("content_block_delta")
  BY DEF HandleBlockDelta
<1>2. /\ e \in Inner /\ e.type = "content_block_delta"
      /\ request.flow = "agent" /\ ~Over /\ agent.tool = NoCall
      /\ UNCHANGED <<request, upstream, chat, responses, wire>>
      /\ pending = <<>> /\ WireAt(wire) = AgentAt(agent)
  BY <1>1, Dispatched
<1>3. PICK v, m \in Positions :
        /\ Follows(v, agent) /\ Goes(v, e, m)
        /\ upstream.finished => Finishes(m, inner')
        /\ ~upstream.finished => ChatSound(chat) /\ Leads(m, inner', ChatAt(chat))
  BY <1>1, Dispatched
<1>4. agent \in AgentState /\ agent' = agent
  BY DEF Typed, HandleBlockDelta
<1>5. /\ v.phase = "open" /\ v.block = "open" /\ e.index = v.next - 1 /\ m = Open(v.next)
  BY <1>2, <1>3 DEF Goes
<1>6. /\ DOMAIN agent.map = {e.index} /\ AgentAt(agent) = Open(agent.cursor)
      /\ agent.map[e.index].client \in Nat /\ agent.cursor = agent.map[e.index].client + 1
  BY <1>3, <1>4, <1>5, OpenEntry
<1> DEFINE i == agent.map[e.index].client
           f == [e EXCEPT !.index = i]
<1>7. pending' = <<f>> /\ f.type = "content_block_delta" /\ f.index = i
  <2>1. pending' = <<f>>
    BY <1>6 DEF HandleBlockDelta
  <2> QED
    BY <1>2, <1>6, <2>1, Renumbered
<1> HIDE DEF e, i, f
<1>8. Leads(AgentAt(agent), pending', AgentAt(agent'))
  <2>1. i \in Nat /\ agent.cursor = i + 1 /\ agent.cursor \in Nat /\ AgentAt(agent) \in Positions
    BY <1>4, <1>6, AgentAtIs DEF i
  <2>2. Goes(Open(agent.cursor), f, Open(agent.cursor))
    BY <1>7, <2>1, EventGoes
  <2> QED
    BY <1>4, <1>6, <1>7, <2>1, <2>2, LeadsOne
<1>9. Follows(m, agent')
  <2>1. m.phase = "open" /\ m.block = "open" /\ m.next = v.next
    BY <1>5 DEF Open, Pos
  <2> QED
    BY <1>2, <1>3, <1>4, <1>5, <2>1 DEF Follows
<1> QED
  BY <1>2, <1>3, <1>8, <1>9, DispatchKeeps

LEMMA WellBlockStop ==
    ASSUME Typed, WellInv, Tame, HandleBlockStop PROVE WellInv'
<1> DEFINE e == Head(inner)
<1>1. Dispatching("content_block_stop")
  BY DEF HandleBlockStop
<1>2. /\ e \in Inner /\ e.type = "content_block_stop"
      /\ request.flow = "agent" /\ ~Over /\ agent.tool = NoCall
      /\ UNCHANGED <<request, upstream, chat, responses, wire>>
      /\ pending = <<>> /\ WireAt(wire) = AgentAt(agent)
  BY <1>1, Dispatched
<1>3. PICK v, m \in Positions :
        /\ Follows(v, agent) /\ Goes(v, e, m)
        /\ upstream.finished => Finishes(m, inner')
        /\ ~upstream.finished => ChatSound(chat) /\ Leads(m, inner', ChatAt(chat))
  BY <1>1, Dispatched
<1>4. agent \in AgentState
  BY DEF Typed
<1>5. /\ v.phase = "open" /\ v.block = "open" /\ e.index = v.next - 1 /\ m = None(v.next)
  BY <1>2, <1>3 DEF Goes
<1>6. /\ DOMAIN agent.map = {e.index} /\ AgentAt(agent) = Open(agent.cursor) /\ agent.started
      /\ agent.map[e.index].client \in Nat /\ agent.cursor = agent.map[e.index].client + 1
  BY <1>3, <1>4, <1>5, OpenEntry
<1> DEFINE entry == agent.map[e.index]
           i == entry.client
           f == [e EXCEPT !.index = i]
           map == Without(agent.map, e.index)
           tool == IF entry.web THEN entry.call ELSE NoCall
<1>7. /\ pending' = <<f>> /\ agent' = [agent EXCEPT !.map = map, !.tool = tool]
      /\ f.type = "content_block_stop" /\ f.index = i
  <2>1. pending' = <<f>> /\ agent' = [agent EXCEPT !.map = map, !.tool = tool]
    BY <1>6 DEF HandleBlockStop
  <2> QED
    BY <1>2, <1>6, <2>1, Renumbered
<1>8. DOMAIN map = {}
  BY <1>6 DEF Without
<1> HIDE DEF e, entry, i, f, map, tool
<1>9. /\ agent'.cursor = agent.cursor /\ agent'.map = map /\ agent'.started = agent.started
      /\ agent'.buffered = agent.buffered
  BY <1>4, <1>7 DEF AgentState
<1>10. Leads(AgentAt(agent), pending', AgentAt(agent'))
  <2>1. i \in Nat /\ agent.cursor = i + 1 /\ agent.cursor \in Nat /\ AgentAt(agent) \in Positions
    BY <1>4, <1>6, AgentAtIs DEF i, entry
  <2>2. Goes(Open(agent.cursor), f, None(agent.cursor))
    BY <1>7, <2>1, EventGoes
  <2>3. AgentAt(agent') = None(agent.cursor)
    BY <1>6, <1>8, <1>9 DEF AgentAt, None
  <2> QED
    BY <1>6, <1>7, <2>1, <2>2, <2>3, LeadsOne
<1>11. Follows(m, agent')
  <2>1. m.phase = "open" /\ m.block = "none"
    BY <1>5 DEF None, Pos
  <2> QED
    BY <1>3, <1>6, <1>8, <1>9, <2>1 DEF Follows
<1> QED
  BY <1>2, <1>3, <1>10, <1>11, DispatchKeeps

LEMMA WellBuffer ==
    ASSUME Typed, WellInv, Tame, BufferTerminal PROVE WellInv'
<1> DEFINE e == Head(inner)
<1>1. PICK type \in {"message_delta", "message_stop"} : Dispatching(type)
  BY DEF BufferTerminal
<1>2. /\ e \in Inner /\ e.type = type
      /\ request.flow = "agent" /\ ~Over /\ agent.tool = NoCall
      /\ UNCHANGED <<request, upstream, chat, responses, wire>>
      /\ pending = <<>> /\ WireAt(wire) = AgentAt(agent)
  BY <1>1, Dispatched
<1>3. PICK v, m \in Positions :
        /\ Follows(v, agent) /\ Goes(v, e, m)
        /\ upstream.finished => Finishes(m, inner')
        /\ ~upstream.finished => ChatSound(chat) /\ Leads(m, inner', ChatAt(chat))
  BY <1>1, Dispatched
<1>4. agent \in AgentState /\ agent.buffered \in Seq(Terminals)
  BY DEF Typed, AgentState
<1> DEFINE stop == IF e.type = "message_delta" THEN e.reason ELSE agent.stop
           buffered == Append(agent.buffered, e)
<1>5. pending' = <<>> /\ agent' = [agent EXCEPT !.buffered = buffered, !.stop = stop]
  BY <1>2 DEF BufferTerminal
<1>6. /\ v.phase = "open" /\ v.block = "none" /\ e.index = 0
      /\ m = Billed(v.next) \/ m = Pos("ended", "none", v.next)
  BY <1>2, <1>3 DEF Goes
<1>7. \A i \in 1 .. Len(buffered) : buffered[i].index = 0
  <2>1. \A i \in 1 .. Len(agent.buffered) : agent.buffered[i].index = 0
    BY <1>3 DEF Follows
  <2>2. e \in Terminals
    BY <1>2 DEF Inner, Terminals, EventsOf, TerminalTypes
  <2>3. /\ Len(buffered) = Len(agent.buffered) + 1 /\ buffered[Len(agent.buffered) + 1] = e
        /\ \A i \in 1 .. Len(agent.buffered) : buffered[i] = agent.buffered[i]
    BY <1>4, <2>2, AppendProperties
  <2>4. Len(agent.buffered) \in Nat
    BY <1>4
  <2> HIDE DEF buffered, e
  <2> QED
    BY <1>6, <2>1, <2>3, <2>4
<1> HIDE DEF e, stop, buffered
<1>8. /\ agent'.cursor = agent.cursor /\ agent'.map = agent.map
      /\ agent'.started = agent.started /\ agent'.tool = agent.tool
      /\ agent'.buffered = buffered
  BY <1>4, <1>5 DEF AgentState
<1>9. Leads(AgentAt(agent), pending', AgentAt(agent'))
  <2>1. AgentAt(agent') = AgentAt(agent)
    BY <1>8 DEF AgentAt
  <2> QED
    BY <1>4, <1>5, <2>1, AgentAtIs, LeadsNowhere
<1>10. Follows(m, agent')
  <2>1. m.phase \in {"open", "ended"} /\ m.block = "none"
    BY <1>6 DEF Billed, Pos
  <2> QED
    BY <1>2, <1>3, <1>6, <1>7, <1>8, <2>1 DEF Follows
<1> QED
  BY <1>2, <1>3, <1>9, <1>10, DispatchKeeps

\* The upstream is read, or has answered; the agent has not moved.
LEMMA WellTurn ==
    ASSUME Typed, WellInv, Tame, AgentChunk \/ UpstreamAnswers PROVE WellInv'
<1>1. /\ request.flow = "agent" /\ pending = <<>> /\ inner = <<>> /\ upstream.phase # "ended"
      /\ UNCHANGED <<request, responses, agent, pending, wire>>
  BY DEF AgentChunk, UpstreamAnswers, InAgent, Idle
<1>2. ~Over /\ Leads(WireAt(wire), pending, AgentAt(agent)) /\ LastOpen(wire)
  BY <1>1 DEF Over, Here, WellInv
<1>3. PICK v \in Positions : Turn(v)
  BY <1>1, <1>2 DEF WellInv
<1>4. ASSUME upstream'.phase # "ended", NEW u \in Positions, Turn(u)' PROVE WellInv'
  <2>1. ~Over' /\ Here' = AgentAt(agent')
    BY <1>1, <1>4 DEF Over, Here
  <2> QED
    BY <1>1, <1>2, <1>4, <2>1 DEF WellInv
<1>5. CASE UpstreamAnswers
  <2>1. /\ upstream'.phase = "open" /\ upstream'.finished = upstream.finished
        /\ UNCHANGED <<chat, inner>>
    BY <1>5 DEF UpstreamAnswers, Typed, UpstreamState
  <2>2. Turn(v)'
    BY <1>1, <1>3, <2>1 DEF Turn
  <2> QED
    BY <1>4, <2>1, <2>2
<1>6. CASE AgentChunk
  <2>1. PICK chunk \in TurnChunks(agent.turn) :
          /\ OrderlyChunk(chunk) /\ Fed(chunk)
          /\ chat' = TranslateChunk(chat, chunk).st /\ inner' = TranslateChunk(chat, chunk).out
    BY <1>6, TameIs DEF AgentChunk
  <2>2. agent.turn \in Nat
    BY LimitsAssumption DEF Typed, AgentState
  <2>3. chunk \in ChunkRecord /\ Orderly(chat, chunk) /\ ~upstream.finished
    BY <2>1, <2>2, CallsTyped, TameOrderly
  <2>4. ChatSound(chat) /\ v = ChatAt(chat) /\ Follows(v, agent)
    BY <1>1, <1>3, <2>3, LeadsNowhere DEF Turn
  <2>5. /\ chunk.finish = "none" => ChatSound(chat') /\ Leads(v, inner', ChatAt(chat'))
        /\ chunk.finish # "none" => Finishes(v, inner')
    BY <2>1, <2>3, <2>4, ChunkTells DEF Typed
  <2>6. /\ upstream'.phase # "ended"
        /\ upstream'.finished <=> chunk.finish # "none"
    BY <1>1, <2>1, <2>3, FedFinished
  <2>7. Turn(v)'
    BY <1>1, <2>4, <2>5, <2>6 DEF Turn
  <2> QED
    BY <1>4, <2>6, <2>7
<1> QED
  BY <1>5, <1>6

\* What a web tool's outcome does: a result block at the next index.
LEMMA ToolSettled ==
    ASSUME Typed, ToolSettles
    PROVE  /\ \E a : /\ pending' = <<a, BlockStop(agent.cursor)>>
                     /\ a.type = "content_block_start" /\ a.index = agent.cursor
                     /\ a.kind = "result" /\ a.of = agent.tool.id
           /\ agent'.cursor = agent.cursor + 1 /\ agent'.map = agent.map
           /\ agent'.turn = agent.turn /\ agent'.started = agent.started
           /\ agent'.tool = NoCall /\ agent'.buffered = agent.buffered
<1>1. PICK outcome \in Outcomes :
        /\ agent' = [agent EXCEPT !.uses = Counted(outcome), !.outcomes = @ + 1, !.cursor = @ + 1,
                                  !.tool = NoCall]
        /\ pending' = Result(outcome)
  BY DEF ToolSettles
<1> DEFINE a == [BlockStart(agent.cursor, "result", agent.tool.id) EXCEPT !.reason = outcome]
<1>2. /\ a.type = "content_block_start" /\ a.index = agent.cursor
      /\ a.kind = "result" /\ a.of = agent.tool.id
  BY DEF BlockStart, Event
<1>3. pending' = <<a, BlockStop(agent.cursor)>>
  BY <1>1 DEF Result
<1> HIDE DEF a
<1>4. /\ agent'.cursor = agent.cursor + 1 /\ agent'.map = agent.map
      /\ agent'.turn = agent.turn /\ agent'.started = agent.started
      /\ agent'.tool = NoCall /\ agent'.buffered = agent.buffered
  BY <1>1 DEF Typed, AgentState
<1> QED
  BY <1>2, <1>3, <1>4

\* The result of a web tool, in a block of its own.
LEMMA WellSettles ==
    ASSUME Typed, WellInv, Tame, ToolSettles, request.flow = "agent" PROVE WellInv'
<1>1. /\ agent.tool # NoCall /\ pending = <<>> /\ agent \in AgentState
      /\ UNCHANGED <<request, upstream, chat, responses, inner, wire>>
  BY DEF ToolSettles, Typed
<1>2. ~Over
  BY <1>1 DEF WellInv
<1>3. WireAt(wire) = AgentAt(agent)
  BY <1>1, <1>2, ReadAll DEF Here
<1>4. PICK v \in Positions : Turn(v)
  BY <1>2 DEF WellInv
<1>5. /\ v.phase = "open" /\ v.block = "none" /\ agent.started /\ DOMAIN agent.map = {}
      /\ Follows(v, agent)
  BY <1>1, <1>4 DEF Turn, Follows
<1> DEFINE b == BlockStop(agent.cursor)
<1>6. PICK n \in Nat : n = agent.cursor + 1
  BY <1>1 DEF AgentState
<1>7. /\ agent'.cursor = n /\ agent'.map = agent.map
      /\ agent'.started = agent.started /\ agent'.tool = NoCall
      /\ agent'.buffered = agent.buffered
  BY <1>6, ToolSettled
<1>71. PICK a : /\ pending' = <<a, b>>
                /\ a.type = "content_block_start" /\ a.index = agent.cursor
  BY ToolSettled
<1>8. agent.cursor \in Nat /\ AgentAt(agent) = None(agent.cursor) /\ AgentAt(agent) \in Positions
  BY <1>1, <1>5, AgentAtIs
<1>9. AgentAt(agent') = None(n)
  BY <1>5, <1>7 DEF AgentAt, None
<1>10. Goes(None(agent.cursor), a, Open(n)) /\ Goes(Open(n), b, None(n))
  BY <1>6, <1>71, <1>8, BlockGoes, EventGoes
<1> HIDE DEF b
<1>11. Leads(AgentAt(agent), pending', AgentAt(agent'))
  <2>1. a \in {a, b} /\ b \in {a, b}
    OBVIOUS
  <2> QED
    BY <1>71, <1>8, <1>9, <1>10, <2>1, LeadsTwo
<1>12. Follows(v, agent')
  BY <1>5, <1>7 DEF Follows
<1> QED
  BY <1>1, <1>2, <1>3, <1>4, <1>11, <1>12, DispatchKeeps DEF Turn

\* A finished turn has been dispatched: no block is open, and its terminal
\* events are held back.
LEMMA TurnDone ==
    ASSUME Typed, WellInv, BilledInv, Tame, TurnOver
    PROVE  /\ request.flow = "agent" /\ ~Over /\ pending = <<>> /\ inner = <<>>
           /\ agent.tool = NoCall
           /\ LastOpen(wire) /\ WireAt(wire) = None(agent.cursor)
           /\ AgentAt(agent) = None(agent.cursor) /\ agent.cursor \in Nat
           /\ agent.started /\ DOMAIN agent.map = {}
           /\ Len(agent.buffered) = 2
           /\ agent.buffered[1].type = "message_delta" /\ agent.buffered[1].index = 0
           /\ agent.buffered[2].type = "message_stop" /\ agent.buffered[2].index = 0
<1>1. /\ request.flow = "agent" /\ upstream.phase = "open" /\ upstream.finished
      /\ pending = <<>> /\ inner = <<>> /\ Mannered /\ agent.tool = NoCall
  BY TameIs DEF TurnOver, InAgent, Idle
<1>2. ~Over
  BY <1>1 DEF Over
<1>3. WireAt(wire) = AgentAt(agent) /\ LastOpen(wire)
  BY <1>1, <1>2, ReadAll DEF Here
<1>4. PICK v \in Positions : Turn(v)
  BY <1>1, <1>2 DEF WellInv
<1>5. PICK n \in Nat : Leads(v, <<>>, Pos("ended", "none", n))
  BY <1>1, <1>4 DEF Turn, Finishes
<1>6. v = Pos("ended", "none", n)
  BY <1>5, LeadsNowhere
<1>7. v.phase = "ended" /\ v.block = "none"
  BY <1>6 DEF Pos
<1>8. /\ agent.started /\ DOMAIN agent.map = {}
      /\ \A i \in 1 .. Len(agent.buffered) : agent.buffered[i].index = 0
  BY <1>4, <1>7 DEF Turn, Follows
<1>9. AgentAt(agent) = None(agent.cursor) /\ agent.cursor \in Nat
  BY <1>8, AgentAtIs DEF Typed
<1>10. Held(upstream.finished, inner, agent.buffered)
  BY <1>1 DEF BilledInv
<1>11. /\ Len(agent.buffered) = 2
       /\ agent.buffered[1].type = "message_delta" /\ agent.buffered[2].type = "message_stop"
  BY <1>1, <1>10 DEF Held
<1> QED
  BY <1>1, <1>2, <1>3, <1>8, <1>9, <1>11

LEMMA WellNextTurn ==
    ASSUME Typed, WellInv, BilledInv, Tame, NextTurn PROVE WellInv'
<1>1. /\ request.flow = "agent" /\ pending = <<>> /\ inner = <<>> /\ LastOpen(wire)
      /\ agent.tool = NoCall
      /\ WireAt(wire) = None(agent.cursor) /\ agent.cursor \in Nat /\ agent.started
  BY TurnDone DEF NextTurn
<1>2. /\ chat' = Fresh /\ UNCHANGED <<request, responses, inner, pending, wire>>
      /\ upstream'.phase = "calling" /\ ~upstream'.finished
  BY DEF NextTurn, NewUpstream
<1>3. /\ agent'.cursor = agent.cursor /\ agent'.map = <<>> /\ agent'.buffered = <<>>
      /\ agent'.started = agent.started /\ agent'.tool = agent.tool
  BY DEF NextTurn, Typed, AgentState
<1>4. DOMAIN agent'.map = {}
  BY <1>3
<1>5. ~Over' /\ Here' = None(agent.cursor)
  BY <1>1, <1>2, <1>3, <1>4 DEF Over, Here, AgentAt, None
<1>6. Leads(WireAt(wire), <<>>, None(agent.cursor))
  BY <1>1, PosTyped, LeadsNowhere
<1> DEFINE v == Pos("before", "none", 0)
<1>7. /\ v \in Positions /\ Leads(v, <<>>, v) /\ ChatSound(chat') /\ ChatAt(chat') = v
      /\ v.phase = "before" /\ v.block = "none"
  <2>1. v \in Positions /\ v.phase = "before" /\ v.block = "none"
    BY DEF Pos, Positions
  <2> HIDE DEF v
  <2>2. ChatSound(chat') /\ ChatAt(chat') = v
    BY <1>2, FreshAt DEF v
  <2> QED
    BY <2>1, <2>2, LeadsNowhere
<1> HIDE DEF v
<1>8. Turn(v)'
  BY <1>1, <1>2, <1>3, <1>4, <1>7 DEF Turn, Follows
<1> QED
  BY <1>1, <1>2, <1>5, <1>6, <1>7, <1>8 DEF WellInv

\* Two terminal events end the message.
LEMMA TerminalsConclude ==
    ASSUME NEW S, NEW s \in Seq(S), Len(s) = 2, NEW n \in Nat,
           s[1].type = "message_delta", s[1].index = 0,
           s[2].type = "message_stop", s[2].index = 0
    PROVE  Concludes(None(n), s)
<1> DEFINE q == Pos("ended", "none", n)
           r == [i \in 0 .. 2 |-> IF i = 0 THEN None(n) ELSE IF i = 1 THEN Billed(n) ELSE q]
<1>1. None(n) \in Positions /\ Billed(n) \in Positions /\ q \in Positions /\ q.phase = "ended"
  BY PosTyped DEF Pos
<1>2. /\ None(n).phase = "open" /\ None(n).block = "none" /\ None(n).told = "no"
      /\ None(n).next = n /\ Billed(n).phase = "open" /\ Billed(n).block = "none"
      /\ Billed(n).told = "yes" /\ Billed(n).next = n
  BY DEF None, Billed, Pos
<1>3. Goes(None(n), s[1], Billed(n)) /\ Goes(Billed(n), s[2], q)
  BY <1>2 DEF Goes
<1> HIDE DEF q
<1>4. r \in [0 .. 2 -> Positions] /\ r[0] = None(n) /\ r[1] = Billed(n) /\ r[2] = q
  BY <1>1
<1> HIDE DEF r
<1>5. ASSUME NEW i \in 1 .. 2 PROVE Goes(r[i - 1], s[i], r[i])
  <2>1. i = 1 \/ i = 2
    OBVIOUS
  <2>2. 1 - 1 = 0 /\ 2 - 1 = 1
    OBVIOUS
  <2> QED
    BY <1>3, <1>4, <2>1, <2>2
<1>6. Leads(None(n), s, q)
  BY <1>4, <1>5 DEF Leads
<1> QED
  BY <1>1, <1>6 DEF Concludes

LEMMA WellLastTurn ==
    ASSUME Typed, WellInv, BilledInv, Tame, LastTurn PROVE WellInv'
<1> DEFINE usage == agent.usage + TurnUsage(agent.buffered)
           s == Stamped(agent.buffered, usage)
<1>1. /\ request.flow = "agent" /\ inner = <<>> /\ agent.tool = NoCall
      /\ WireAt(wire) = None(agent.cursor) /\ agent.cursor \in Nat
      /\ Len(agent.buffered) = 2
      /\ agent.buffered[1].type = "message_delta" /\ agent.buffered[1].index = 0
      /\ agent.buffered[2].type = "message_stop" /\ agent.buffered[2].index = 0
  BY TurnDone DEF LastTurn
<1>2. /\ pending' = s /\ agent' = [agent EXCEPT !.buffered = <<>>, !.usage = usage]
      /\ upstream'.phase = "ended" /\ UNCHANGED <<request, inner, wire>>
  BY DEF LastTurn, Typed, UpstreamState
<1>3. agent \in AgentState /\ agent.buffered \in Seq(Terminals) /\ usage \in Nat
  <2>1. agent \in AgentState /\ agent.buffered \in Seq(Terminals) /\ agent.usage \in Nat
    BY DEF Typed, AgentState
  <2> QED
    BY <2>1, TurnUsageTyped
<1> HIDE DEF usage
<1>4. s \in Seq(Terminals) /\ Len(s) = 2
  BY <1>1, <1>3, StampedTyped
<1>5. /\ s[1] = [agent.buffered[1] EXCEPT !.usage = usage] /\ s[2] = agent.buffered[2]
  BY <1>1 DEF Stamped
<1>6. agent.buffered[1] \in Terminals
  BY <1>1, <1>3
<1>7. s[1].type = "message_delta" /\ s[1].index = 0
  BY <1>1, <1>5, <1>6 DEF Terminals, EventsOf
<1> HIDE DEF s
<1>8. Concludes(None(agent.cursor), s)
  BY <1>1, <1>4, <1>5, <1>7, TerminalsConclude
<1>9. agent'.tool = NoCall /\ Over'
  BY <1>1, <1>2, <1>3 DEF AgentState, Over
<1> QED
  BY <1>1, <1>2, <1>8, <1>9, Concluded

\* A ping leaves the client where it is, and comes only once all is written.
LEMMA WellPing ==
    ASSUME Typed, WellInv, Tame, ResponsesPing \/ Heartbeat
    PROVE  WellInv' /\ wire.phase = "open" /\ wire'.phase = wire.phase
           /\ wire'.open = wire.open /\ wire'.next = wire.next
<1> DEFINE e == Event("ping")
<1>1. /\ wire' = Read(wire, e) /\ pending = <<>>
      /\ UNCHANGED <<request, upstream, chat, responses, agent, inner, pending>>
  BY DEF ResponsesPing, Heartbeat, ReadingResponses, Idle
<1>2. e \in Readable /\ e.type = "ping" /\ wire \in WireState
  BY WrittenReadable DEF Typed, Event
<1> HIDE DEF e
<1>3. ~Over /\ Here.phase = "open" /\ Here.told = "no"
  <2>1. CASE ResponsesPing
    <3>1. request.flow = "responses" /\ upstream.phase = "open" /\ upstream.created
      BY <2>1, TameIs DEF ResponsesPing, ReadingResponses
    <3> QED
      BY <3>1 DEF Over, Here, At, Pos
  <2>2. CASE Heartbeat
    <3>1. /\ request.flow = "agent" /\ agent.started
          /\ agent.tool # NoCall \/ upstream.phase = "calling"
      BY <2>2 DEF Heartbeat
    <3>2. ~Over
      BY <3>1 DEF WellInv, Over
    <3> QED
      BY <3>1, <3>2 DEF Here, AgentAt, Pos
  <2> QED
    BY <2>1, <2>2
<1>4. WireAt(wire) = Here /\ LastOpen(wire)
  BY <1>1, <1>3, ReadAll
<1>5. wire.phase = "open"
  <2>1. WireAt(wire).phase = "open"
    BY <1>3, <1>4
  <2> QED
    BY <2>1 DEF WireAt
<1>6. /\ wire'.phase = wire.phase /\ wire'.open = wire.open /\ wire'.next = wire.next
      /\ wire'.last.type = "ping"
  <2>1. EventRead(wire, e) = wire
    BY <1>2 DEF EventRead
  <2>2. wire' = [wire EXCEPT !.last = [type |-> e.type, index |-> e.index,
                                       parity |-> 1 - wire.last.parity]]
    BY <1>1, <2>1 DEF Read
  <2>3. wire'.last.type = "ping"
    BY <1>1, <1>2, ReadTyped
  <2> QED
    BY <1>2, <2>2, <2>3 DEF WireState
<1>7. WireAt(wire') = WireAt(wire) /\ LastOpen(wire')
  <2>1. wire.last.type # "message_delta"
    <3>1. WireAt(wire).told = "no"
      BY <1>3, <1>4
    <3> QED
      BY <3>1 DEF WireAt
  <2> QED
    BY <1>4, <1>6, <2>1 DEF WireAt, LastOpen
<1>8. (Over <=> Over') /\ Here' = Here
  BY <1>1 DEF Over, Here
<1>9. (PartsInv => PartsInv') /\ \A v : Turn(v) => Turn(v)'
  BY <1>1 DEF PartsInv, Turn
<1>10. WellInv'
  BY <1>1, <1>3, <1>7, <1>8, <1>9 DEF WellInv
<1> QED
  BY <1>5, <1>6, <1>10

-----------------------------------------------------------------------------
(* The refinement.                                                           *)

\* Tools are run in the agent's flow alone.
ToolInv == agent.tool # NoCall => request.flow = "agent"

LEMMA ToolNext ==
    ASSUME Typed, ToolInv, [Next]_vars PROVE ToolInv'
<1>1. CASE Write
  BY <1>1 DEF Write, ToolInv
<1>2. CASE QuietStep
  <2>1. request' = request
    BY <1>2, QuietKeepsResponses
  <2>2. \/ agent'.tool = agent.tool
        \/ agent'.tool = NoCall
        \/ request.flow = "agent"
    <3>1. CASE ChatChunk \/ ChatEnds \/ ResponsesEnds \/ UpstreamFails \/ ToolSettles
      BY <3>1 DEF ChatChunk, ChatEnds, ResponsesEnds, UpstreamFails, ToolSettles, Typed, AgentState
    <3>2. CASE AgentChunk \/ UpstreamAnswers \/ NextTurn \/ LastTurn
      BY <3>2 DEF AgentChunk, UpstreamAnswers, NextTurn, LastTurn, TurnOver, InAgent
    <3>3. CASE DispatchMessageStart \/ HandleBlockStart \/ HandleBlockDelta \/ HandleBlockStop
               \/ BufferTerminal
      BY <3>3 DEF DispatchMessageStart, HandleBlockStart, HandleBlockDelta, HandleBlockStop,
                  BufferTerminal, Dispatching, InAgent
    <3> QED
      BY <1>2, <3>1, <3>2, <3>3 DEF QuietStep
  <2> QED
    BY <2>1, <2>2 DEF ToolInv
<1>3. CASE EventStep
  BY <1>3 DEF EventStep, Translated, ToolInv
<1>4. ASSUME UNCHANGED <<request, upstream, chat, responses, agent, inner, pending>>
      PROVE  ToolInv'
  BY <1>4 DEF ToolInv
<1>5. CASE UNCHANGED vars
  BY <1>5 DEF vars, ToolInv
<1> QED
  BY <1>1, <1>2, <1>3, <1>4, <1>5, Steps

LEMMA SameRequest ==
    ASSUME Typed, [Next]_vars PROVE request' = request
<1>1. CASE Write
  BY <1>1 DEF Write
<1>2. CASE EventStep
  BY <1>2 DEF EventStep, Translated
<1>3. CASE UNCHANGED vars
  BY <1>3 DEF vars
<1> QED
  BY <1>1, <1>2, <1>3, Steps, QuietKeepsResponses

\* Every step keeps what leads a client of a serial upstream on.
LEMMA WellNext ==
    ASSUME Typed, BilledInv, ToolInv, WellInv, [Next]_vars PROVE WellInv'
<1>1. request' = request
  BY SameRequest
<1>2. SUFFICES ASSUME Tame PROVE WellInv'
  BY <1>1 DEF WellInv, Tame, Serial, Mannered
<1>3. CASE UNCHANGED vars
  <2>1. UNCHANGED <<request, upstream, chat, responses, agent, inner, pending, wire>>
    BY <1>3 DEF vars
  <2>2. (Over <=> Over') /\ Here' = Here
    BY <2>1 DEF Over, Here
  <2>3. (PartsInv => PartsInv') /\ \A v : Turn(v) => Turn(v)'
    BY <2>1 DEF PartsInv, Turn
  <2> QED
    BY <1>2, <2>1, <2>2, <2>3 DEF WellInv
<1>4. CASE ToolSettles
  <2>1. request.flow = "agent"
    BY <1>4 DEF ToolSettles, ToolInv
  <2> QED
    BY <1>2, <1>4, <2>1, WellSettles
<1>5. CASE UpstreamStep
  <2>1. CASE ChatChunk \/ ChatEnds
    BY <1>2, <2>1, WellChat
  <2>2. CASE ResponsesCreated \/ ResponsesTerminal
    BY <1>2, <2>2, WellResponse
  <2>3. CASE ResponsesItem
    BY <1>2, <2>3, WellItem
  <2>4. CASE ResponsesEnds \/ UpstreamFails
    BY <1>2, <2>4, WellFails
  <2>5. CASE UpstreamAnswers \/ AgentChunk
    BY <1>2, <2>5, WellTurn
  <2>6. CASE NextTurn
    BY <1>2, <2>6, WellNextTurn
  <2>7. CASE LastTurn
    BY <1>2, <2>7, WellLastTurn
  <2> QED
    BY <1>5, <2>1, <2>2, <2>3, <2>4, <2>5, <2>6, <2>7, Zenon DEF UpstreamStep
<1>6. CASE ServerStep
  <2>1. CASE Write
    BY <2>1, WellWrite
  <2>2. CASE DispatchMessageStart
    BY <1>2, <2>2, WellMessageStart
  <2>3. CASE HandleBlockStart
    BY <1>2, <2>3, WellBlockStart
  <2>4. CASE HandleBlockDelta
    BY <1>2, <2>4, WellBlockDelta
  <2>5. CASE HandleBlockStop
    BY <1>2, <2>5, WellBlockStop
  <2>6. CASE BufferTerminal
    BY <1>2, <2>6, WellBuffer
  <2> QED
    BY <1>6, <2>1, <2>2, <2>3, <2>4, <2>5, <2>6, Zenon DEF ServerStep
<1>7. CASE ResponsesPing \/ Heartbeat
  BY <1>2, <1>7, WellPing
<1> QED
  BY <1>3, <1>4, <1>5, <1>6, <1>7, Zenon DEF Next

LEMMA MapsInit == Init => SerialStream!Init
<1> SUFFICES ASSUME Init PROVE SerialStream!Init
  OBVIOUS
<1>1. /\ wire.phase = "before" /\ wire.open = {} /\ wire.next = 0
      /\ wire.last = NewWire.last
      /\ NewWire.last = [type |-> "none", index |-> 0, parity |-> 0]
  BY DEF Init, NewWire
<1> QED
  BY <1>1 DEF SerialStream!Init

\* What the client reads of a serial upstream is a step of the protocol.
LEMMA MapsWrite ==
    ASSUME Typed, WellInv, Serial, Serial', Write PROVE SerialStream!Next
<1> DEFINE e == Head(pending)
           block == IF Serial /\ wire.open # {} THEN "open" ELSE "none"
<1>1. /\ wire \in WireState /\ wire' = Read(wire, e) /\ e \in Readable
  BY HeadTailProperties, WrittenReadable DEF Typed, Write
<1>2. wire'.last = [type |-> e.type, index |-> e.index, parity |-> 1 - wire.last.parity]
  BY <1>1, NextRead
<1>3. Goes(WireAt(wire), e, WireAt(wire'))
  BY WriteGoes, TameIs
<1>4. /\ WireAt(wire).phase = wire.phase /\ WireAt(wire).next = wire.next
      /\ WireAt(wire).block = block
      /\ WireAt(wire).told = IF wire.last.type = "message_delta" THEN "yes" ELSE "no"
  BY DEF WireAt
<1>5. /\ WireAt(wire').phase = wire'.phase /\ WireAt(wire').next = wire'.next
      /\ WireAt(wire').block = block'
  BY DEF WireAt
<1> HIDE DEF e, block
<1>6. CASE e.type = "message_start"
  <2>1. /\ wire.phase = "before" /\ e.index = 0
        /\ wire'.phase = "open" /\ wire'.next = wire.next /\ block' = block
    BY <1>3, <1>4, <1>5, <1>6 DEF Goes, Pos
  <2>2. SerialStream!MessageStart
    BY <1>2, <1>6, <2>1 DEF SerialStream!MessageStart, SerialStream!Event, block
  <2> QED
    BY <2>2, Zenon DEF SerialStream!Next
<1>7. CASE e.type = "content_block_start"
  <2>1. /\ wire.phase = "open" /\ e.index = wire.next /\ block = "none"
        /\ wire'.phase = "open" /\ wire'.next = wire.next + 1 /\ block' = "open"
    BY <1>3, <1>4, <1>5, <1>7 DEF Goes, Open, Pos
  <2>2. SerialStream!BlockStart
    BY <1>2, <1>7, <2>1 DEF SerialStream!BlockStart, SerialStream!Event, block
  <2> QED
    BY <2>2, Zenon DEF SerialStream!Next
<1>8. CASE e.type = "content_block_delta"
  <2>1. /\ wire.phase = "open" /\ e.index = wire.next - 1 /\ block = "open"
        /\ wire'.phase = "open" /\ wire'.next = wire.next /\ block' = "open"
    BY <1>3, <1>4, <1>5, <1>8 DEF Goes, Open, Pos
  <2>2. SerialStream!BlockDelta
    BY <1>2, <1>8, <2>1 DEF SerialStream!BlockDelta, SerialStream!Event, block
  <2> QED
    BY <2>2, Zenon DEF SerialStream!Next
<1>9. CASE e.type = "content_block_stop"
  <2>1. /\ wire.phase = "open" /\ e.index = wire.next - 1 /\ block = "open"
        /\ wire'.phase = "open" /\ wire'.next = wire.next /\ block' = "none"
    BY <1>3, <1>4, <1>5, <1>9 DEF Goes, None, Pos
  <2>2. SerialStream!BlockStop
    BY <1>2, <1>9, <2>1 DEF SerialStream!BlockStop, SerialStream!Event, block
  <2> QED
    BY <2>2, Zenon DEF SerialStream!Next
<1>10. CASE e.type = "message_delta"
  <2>1. /\ wire.phase = "open" /\ e.index = 0 /\ block = "none"
        /\ wire.last.type # "message_delta"
        /\ wire'.phase = "open" /\ wire'.next = wire.next /\ block' = "none"
    BY <1>3, <1>4, <1>5, <1>10 DEF Goes, Billed
  <2>2. SerialStream!MessageDelta
    BY <1>2, <1>10, <2>1 DEF SerialStream!MessageDelta, SerialStream!Event, block
  <2> QED
    BY <2>2, Zenon DEF SerialStream!Next
<1>11. CASE e.type = "message_stop"
  <2>1. /\ wire.phase = "open" /\ e.index = 0 /\ block = "none"
        /\ wire.last.type = "message_delta"
        /\ wire'.phase = "ended" /\ wire'.next = wire.next /\ block' = "none"
    BY <1>3, <1>4, <1>5, <1>11 DEF Goes, Pos
  <2>2. SerialStream!MessageStop
    BY <1>2, <1>11, <2>1 DEF SerialStream!MessageStop, SerialStream!Event, block
  <2> QED
    BY <2>2, Zenon DEF SerialStream!Next
<1>12. CASE e.type = "error"
  <2>1. /\ wire.phase # "ended" /\ e.index = 0
        /\ wire'.phase = "ended" /\ wire'.next = wire.next /\ block' = block
    BY <1>3, <1>4, <1>5, <1>12 DEF Goes, Pos
  <2>2. SerialStream!Error
    BY <1>2, <1>12, <2>1 DEF SerialStream!Error, SerialStream!Event, block
  <2> QED
    BY <2>2, Zenon DEF SerialStream!Next
<1> QED
  BY <1>3, <1>6, <1>7, <1>8, <1>9, <1>10, <1>11, <1>12 DEF Goes

LEMMA MapsPing ==
    ASSUME Typed, WellInv, Serial, Serial', ResponsesPing \/ Heartbeat
    PROVE  SerialStream!Ping
<1>1. /\ wire.phase = "open" /\ wire'.phase = wire.phase
      /\ wire'.open = wire.open /\ wire'.next = wire.next
  BY WellPing, TameIs
<1>2. wire'.last = [type |-> "ping", index |-> 0, parity |-> 1 - wire.last.parity]
  <2> DEFINE e == Event("ping")
  <2>1. e \in Readable /\ e.type = "ping" /\ e.index = 0 /\ wire \in WireState
    BY WrittenReadable DEF Event, Typed
  <2>2. wire' = Read(wire, e)
    BY DEF ResponsesPing, Heartbeat
  <2> HIDE DEF e
  <2> QED
    BY <2>1, <2>2, NextRead
<1> QED
  BY <1>1, <1>2 DEF SerialStream!Ping, SerialStream!Event

LEMMA MapsNext ==
    ASSUME Typed, WellInv, [Next]_vars
    PROVE  [SerialStream!Next]_SerialStream!vars
<1>1. Serial' <=> Serial
  BY SameRequest DEF Serial
<1>2. ASSUME ~Serial \/ wire' = wire PROVE UNCHANGED SerialStream!vars
  BY <1>1, <1>2 DEF SerialStream!vars
<1>3. CASE Serial /\ Write
  BY <1>1, <1>3, MapsWrite
<1>4. CASE Serial /\ (ResponsesPing \/ Heartbeat)
  <2>1. SerialStream!Ping
    BY <1>1, <1>4, MapsPing
  <2> QED
    BY <2>1, Zenon DEF SerialStream!Next
<1>5. CASE QuietStep
  BY <1>2, <1>5, QuietSteps
<1>6. CASE EventStep
  BY <1>2, <1>6 DEF EventStep, Translated
<1>7. CASE UNCHANGED vars
  BY <1>2, <1>7 DEF vars
<1> QED
  BY <1>2, <1>3, <1>4, <1>5, <1>6, <1>7, Steps

\* What a client reads of a serial upstream, in the chat flow, the Responses flow
\* and the agent, is a well-formed stream, whatever the upstream sends and for
\* any number of events, parts, turns and tools: started once, blocks numbered in
\* order and open one at a time, deltas of the open block, ended once.
THEOREM StreamsWellFormed == Spec => ImplementsBlockProtocol
<1>1. Init => WellInv /\ BilledInv /\ ToolInv
  BY WellInit, BilledInit DEF Init, NewAgent, ToolInv
<1>2. Typed /\ BilledInv /\ ToolInv /\ WellInv /\ [Next]_vars
        => (BilledInv /\ ToolInv /\ WellInv)'
  BY BilledNext, ToolNext, WellNext
<1>3. Typed /\ WellInv /\ [Next]_vars => [SerialStream!Next]_SerialStream!vars
  BY MapsNext
<1>4. Init => SerialStream!Init
  BY MapsInit
<1> QED
  BY <1>1, <1>2, <1>3, <1>4, AlwaysTyped, PTL DEF Spec, ImplementsBlockProtocol, SerialStream!Spec

-----------------------------------------------------------------------------
(* Server tools and their results.                                           *)

\* The blocks of a client that has read what waits: of that, a start is first.
Blocks(w, s) ==
    IF s # <<>> /\ s[1].type = "content_block_start"
    THEN Append(w.blocks, [kind |-> s[1].kind, of |-> s[1].of]) ELSE w.blocks

\* Each server tool but the last block has its result behind it; the last is
\* one, and waits for its result.
Paired(b) ==
    \A i \in 1 .. Len(b) - 1 : b[i].kind = "server_tool_use" =>
      b[i + 1] = [kind |-> "result", of |-> b[i].of]
Awaits(b) == b # <<>> /\ b[Len(b)].kind = "server_tool_use"

\* The agent runs the tool of call `of`, or will when its block ends.
Due(a, of) ==
    \/ a.tool # NoCall /\ a.tool.id = of
    \/ \E x \in DOMAIN a.map : a.map[x].web /\ a.map[x].call.id = of

\* A server tool that waits for its result is due, or the stream ends in error.
AnswerInv ==
    request.flow = "agent" /\ Mannered =>
      LET b == Blocks(wire, pending)
      IN /\ Paired(b)
         /\ upstream.phase # "ended" => (Awaits(b) => Due(agent, b[Len(b)].of))
         /\ upstream.phase = "ended" =>
              /\ \A i \in 1 .. Len(pending) : pending[i].type # "content_block_start"
              /\ Awaits(b) => /\ wire.last.type # "message_stop"
                              /\ \A i \in 1 .. Len(pending) : pending[i].type # "message_stop"

\* The other flows have no server tools.
PlainInv ==
    request.flow # "agent" =>
      /\ pending \in Seq(Stream \cup ArgumentsDelta)
      /\ \A i \in 1 .. Len(wire.blocks) : wire.blocks[i].kind # "server_tool_use"

BlockRecord == [kind: Kinds, of: Idents]

LEMMA BlocksRead ==
    ASSUME NEW w \in WireState, NEW e \in Readable
    PROVE  Read(w, e).blocks = IF e.type = "content_block_start" /\ e.index >= w.next
                               THEN Append(w.blocks, [kind |-> e.kind, of |-> e.of])
                               ELSE w.blocks
<1>1. EventRead(w, e) \in WireState
  BY ReadTyped
<1>2. Read(w, e).blocks = EventRead(w, e).blocks
  BY <1>1 DEF Read, WireState
<1>3. CASE e.type = "content_block_start"
  <2> DEFINE next == IF e.index >= w.next THEN e.index + 1 ELSE w.next
             open == w.open \cup {e.index}
             blocks == IF e.index >= w.next
                       THEN Append(w.blocks, [kind |-> e.kind, of |-> e.of]) ELSE w.blocks
  <2>1. EventRead(w, e) = [w EXCEPT !.open = open, !.next = next, !.blocks = blocks]
    BY <1>3 DEF EventRead
  <2> HIDE DEF next, open, blocks
  <2>2. EventRead(w, e).blocks = blocks
    BY <2>1 DEF WireState
  <2> QED
    BY <1>2, <1>3, <2>2 DEF blocks
<1>4. CASE e.type = "content_block_delta"
  <2>1. DeltaRead(w, e).blocks = w.blocks
    BY DEF DeltaRead, WireState
  <2> QED
    BY <1>2, <1>4, <2>1 DEF EventRead
<1>5. CASE e.type \notin {"content_block_start", "content_block_delta"}
  BY <1>2, <1>5 DEF EventRead, WireState
<1> QED
  BY <1>3, <1>4, <1>5

LEMMA PairedMore ==
    ASSUME NEW b \in Seq(BlockRecord), NEW x \in BlockRecord, Paired(b),
           Awaits(b) => x = [kind |-> "result", of |-> b[Len(b)].of]
    PROVE  LET c == Append(b, x)
           IN /\ Paired(c) /\ c[Len(c)] = x
              /\ Awaits(c) <=> x.kind = "server_tool_use"
<1> DEFINE c == Append(b, x)
<1>1. /\ Len(b) \in Nat /\ Len(c) = Len(b) + 1 /\ c[Len(c)] = x
      /\ \A i \in 1 .. Len(b) : c[i] = b[i]
  OBVIOUS
<1> HIDE DEF c
<1>2. ASSUME NEW i \in 1 .. Len(c) - 1, c[i].kind = "server_tool_use"
      PROVE  c[i + 1] = [kind |-> "result", of |-> c[i].of]
  <2>1. CASE i = Len(b)
    <3>1. Awaits(b) /\ c[i] = b[Len(b)] /\ c[i + 1] = x
      BY <1>1, <1>2, <2>1 DEF Awaits
    <3> QED
      BY <3>1
  <2>2. CASE i # Len(b)
    <3>1. i \in 1 .. Len(b) - 1 /\ c[i] = b[i] /\ c[i + 1] = b[i + 1]
      BY <1>1, <2>2
    <3> QED
      BY <1>2, <3>1 DEF Paired
  <2> QED
    BY <2>1, <2>2
<1>3. c # <<>>
  BY <1>1
<1> QED
  BY <1>1, <1>2, <1>3 DEF Paired, Awaits, c

LEMMA AnswerInit == Init => AnswerInv /\ PlainInv
<1> SUFFICES ASSUME Init PROVE AnswerInv /\ PlainInv
  OBVIOUS
<1>1. pending = <<>> /\ wire.blocks = <<>> /\ upstream.phase # "ended"
  BY DEF Init, NewWire, NewUpstream
<1>2. Blocks(wire, pending) = <<>>
  BY <1>1 DEF Blocks
<1>3. Paired(<<>>) /\ ~Awaits(<<>>)
  BY DEF Paired, Awaits
<1> QED
  BY <1>1, <1>2, <1>3, EmptySeq DEF AnswerInv, PlainInv

\* Writing moves a block from what waits to what was read.
LEMMA AnswerWrite ==
    ASSUME Typed, ClimbInv, AnswerInv, Write PROVE AnswerInv'
<1> SUFFICES ASSUME request.flow = "agent", Mannered PROVE AnswerInv'
  BY DEF AnswerInv, Write, Mannered
<1>1. /\ pending # <<>> /\ wire \in WireState /\ pending \in Seq(Written)
      /\ wire' = Read(wire, pending[1]) /\ pending[1] \in Readable
      /\ UNCHANGED <<request, upstream, agent>>
  BY HeadTailProperties, WrittenReadable DEF Typed, Write
<1>2. /\ Len(pending) \in Nat /\ Len(pending') = Len(pending) - 1
      /\ \A i \in 1 .. Len(pending') : pending'[i] = pending[i + 1]
      /\ pending' \in Seq(Written)
  BY <1>1, HeadTailProperties DEF Write
<1>3. /\ \A i \in 2 .. Len(pending) : pending[i].type # "content_block_start"
      /\ pending[1].type = "content_block_start" => pending[1].index = wire.next
  BY <1>1 DEF ClimbInv, Climb
<1>4. wire.next \in Nat
  BY <1>1 DEF WireState
<1>5. wire'.blocks = Blocks(wire, pending)
  BY <1>1, <1>3, <1>4, BlocksRead DEF Blocks
<1>6. \A i \in 1 .. Len(pending') : pending'[i].type # "content_block_start"
  BY <1>2, <1>3
<1>7. Blocks(wire', pending') = Blocks(wire, pending)
  <2>1. pending' # <<>> => pending'[1].type # "content_block_start"
    BY <1>2, <1>6
  <2> QED
    BY <1>5, <2>1 DEF Blocks
<1>8. wire'.last.type = pending[1].type
  BY <1>1, ReadTyped
<1>9. (\A i \in 1 .. Len(pending) : pending[i].type # "message_stop") =>
        /\ wire'.last.type # "message_stop"
        /\ \A i \in 1 .. Len(pending') : pending'[i].type # "message_stop"
  BY <1>1, <1>2, <1>8
<1> QED
  BY <1>1, <1>6, <1>7, <1>9 DEF AnswerInv

\* Nothing waits, and the step makes no block.
LEMMA AnswerKept ==
    ASSUME AnswerInv, pending = <<>>, wire' = wire, request' = request,
           pending' # <<>> => pending'[1].type # "content_block_start",
           upstream.phase # "ended", upstream'.phase # "ended",
           \A of : Due(agent, of) => Due(agent', of)
    PROVE  AnswerInv'
<1>1. Blocks(wire, pending) = wire.blocks /\ Blocks(wire', pending') = wire.blocks
  BY DEF Blocks
<1> QED
  BY <1>1 DEF AnswerInv, Mannered

LEMMA AnswerDispatch ==
    ASSUME Typed, WellInv, AnswerInv, Tame,
           \/ DispatchMessageStart \/ HandleBlockStart \/ HandleBlockDelta
           \/ HandleBlockStop \/ BufferTerminal
    PROVE  AnswerInv'
<1> DEFINE e == Head(inner)
<1>1. PICK type : /\ Dispatching(type)
                  /\ DispatchMessageStart => type = "message_start"
                  /\ HandleBlockStart => type = "content_block_start"
                  /\ HandleBlockDelta => type = "content_block_delta"
                  /\ HandleBlockStop => type = "content_block_stop"
  <2>1. CASE \/ DispatchMessageStart \/ HandleBlockStart \/ HandleBlockDelta \/ HandleBlockStop
    BY <2>1 DEF DispatchMessageStart, HandleBlockStart, HandleBlockDelta, HandleBlockStop,
                Dispatching
  <2>2. CASE BufferTerminal
    BY <2>2 DEF BufferTerminal, DispatchMessageStart, HandleBlockStart, HandleBlockDelta,
                HandleBlockStop, Dispatching
  <2> QED
    BY <2>1, <2>2
<1>2. /\ e \in Inner /\ e.type = type /\ e.index \in Nat
      /\ request.flow = "agent" /\ ~Over /\ agent.tool = NoCall
      /\ UNCHANGED <<request, upstream, chat, responses, wire>> /\ pending = <<>>
  BY <1>1, Dispatched DEF Inner, EventsOf
<1>3. PICK v, m \in Positions : Follows(v, agent) /\ Goes(v, e, m)
  BY <1>1, Dispatched
<1>4. agent \in AgentState /\ agent.cursor \in Nat /\ agent.map \in Maps
  BY DEF Typed, AgentState
<1>5. upstream.phase # "ended" /\ upstream'.phase # "ended"
  BY <1>2 DEF Over
<1> HIDE DEF e
<1>6. CASE DispatchMessageStart
  <2>1. /\ agent' = [agent EXCEPT !.started = TRUE]
        /\ pending' = IF agent.started THEN <<>> ELSE <<e>>
    BY <1>6 DEF DispatchMessageStart, e
  <2>2. agent'.map = agent.map /\ agent'.tool = agent.tool
    BY <1>4, <2>1 DEF AgentState
  <2>3. pending' # <<>> => pending'[1].type # "content_block_start"
    BY <1>1, <1>2, <1>6, <2>1
  <2> QED
    BY <1>2, <1>5, <2>2, <2>3, AnswerKept DEF Due
<1>7. CASE BufferTerminal
  <2>1. pending' = pending /\ agent'.map = agent.map /\ agent'.tool = agent.tool
    BY <1>4, <1>7 DEF BufferTerminal, AgentState
  <2> QED
    BY <1>2, <1>5, <2>1, AnswerKept DEF Due
<1>8. ASSUME NEW f, f.type = e.type, e.type # "content_block_start",
             pending' = <<>> \/ pending' = <<f>>
      PROVE  pending' # <<>> => pending'[1].type # "content_block_start"
  BY <1>8
<1>9. \A i \in Nat : [e EXCEPT !.index = i].type = e.type
  BY <1>2 DEF Inner, EventsOf
<1>10. \A x \in DOMAIN agent.map : x \in Nat /\ agent.map[x] \in EntryRecord
  <2>1. PICK S \in SUBSET Nat : agent.map \in [S -> EntryRecord]
    BY <1>4 DEF Maps
  <2> QED
    BY <2>1
<1>11. CASE HandleBlockDelta
  <2>1. /\ agent' = agent
        /\ pending' = IF e.index \notin DOMAIN agent.map THEN <<>>
                      ELSE <<[e EXCEPT !.index = agent.map[e.index].client]>>
    BY <1>11 DEF HandleBlockDelta, e
  <2>2. e.type # "content_block_start"
    BY <1>1, <1>2, <1>11
  <2>3. pending' = <<>> \/ \E i \in Nat : pending' = <<[e EXCEPT !.index = i]>>
    BY <1>10, <2>1 DEF EntryRecord
  <2>4. pending' # <<>> => pending'[1].type # "content_block_start"
    BY <1>8, <1>9, <2>2, <2>3
  <2> QED
    BY <1>2, <1>5, <2>1, <2>4, AnswerKept
<1>12. CASE HandleBlockStop
  <2>1. e.type = "content_block_stop"
    BY <1>1, <1>2, <1>12
  <2>2. v.phase = "open" /\ v.block = "open" /\ e.index = v.next - 1
    BY <1>3, <2>1 DEF Goes
  <2>3. DOMAIN agent.map = {e.index}
    BY <1>3, <1>4, <2>2, OpenEntry
  <2> DEFINE entry == agent.map[e.index]
             tool == IF entry.web THEN entry.call ELSE NoCall
             map == Without(agent.map, e.index)
  <2>4. /\ pending' = <<[e EXCEPT !.index = entry.client]>>
        /\ agent' = [agent EXCEPT !.map = map, !.tool = tool]
    BY <1>12, <2>3 DEF HandleBlockStop, e
  <2>5. agent'.tool = tool
    BY <1>4, <2>4 DEF AgentState
  <2>6. entry.client \in Nat /\ entry.call # NoCall
    BY <1>10, <2>3 DEF EntryRecord, ToolCall, NoCall, NoBlock
  <2>7. pending' # <<>> => pending'[1].type # "content_block_start"
    BY <1>9, <2>1, <2>4, <2>6
  <2>8. ASSUME NEW of, Due(agent, of) PROVE Due(agent', of)
    <3>1. entry.web /\ entry.call.id = of
      BY <1>2, <2>3, <2>8 DEF Due
    <3> QED
      BY <2>5, <2>6, <3>1 DEF Due
  <2> HIDE DEF entry, tool, map
  <2> QED
    BY <1>2, <1>5, <2>7, <2>8, AnswerKept
<1>13. CASE HandleBlockStart
  <2>1. e.type = "content_block_start"
    BY <1>1, <1>2, <1>13
  <2>2. DOMAIN agent.map = {}
    BY <1>3, <2>1 DEF Goes, Follows
  <2> DEFINE b == wire.blocks
             kind == IF e.name \in WebTools THEN "server_tool_use" ELSE e.kind
             x == [kind |-> kind, of |-> e.of]
             f == [e EXCEPT !.index = agent.cursor, !.kind = kind]
             map == With(agent.map, e.index, Entry(e, agent.cursor))
  <2>3. pending' = <<f>> /\ agent' = [agent EXCEPT !.cursor = agent.cursor + 1, !.map = map]
    BY <1>13 DEF HandleBlockStart, e
  <2>4. f.type = e.type /\ f.kind = kind /\ f.of = e.of
    BY <1>2 DEF Inner, EventsOf
  <2>5. agent'.map = map
    BY <1>4, <2>3 DEF AgentState
  <2>6. kind \in Kinds /\ (kind = "server_tool_use" => e.name \in WebTools) /\ e.of \in Idents
    BY <1>2 DEF Inner, EventsOf, Kinds, BlockKinds
  <2>7. kind = "server_tool_use" => e.index \in DOMAIN map /\ map[e.index].web
                                    /\ map[e.index].call.id = e.of
    <3>1. e.index \in DOMAIN map /\ map[e.index] = Entry(e, agent.cursor)
      BY DEF With
    <3>2. e.name \in WebTools => Entry(e, agent.cursor).web
      BY DEF Entry
    <3>3. Entry(e, agent.cursor).call.id = e.of
      BY DEF Entry, Call
    <3> HIDE DEF map
    <3> QED
      BY <2>6, <3>1, <3>2, <3>3
  <2>8. Blocks(wire, pending) = b /\ Blocks(wire', pending') = Append(b, x)
    <3> HIDE DEF f, kind
    <3>1. pending'[1] = f /\ pending' # <<>>
      BY <2>3
    <3> QED
      BY <1>2, <2>1, <2>4, <3>1 DEF Blocks
  <2>9. b \in Seq(BlockRecord) /\ x \in BlockRecord
    BY <2>6 DEF Typed, WireState, BlockRecord
  <2>10. SUFFICES ASSUME Mannered PROVE AnswerInv'
    BY <1>2 DEF AnswerInv, Mannered
  <2>11. Paired(b) /\ ~Awaits(b)
    BY <1>2, <1>5, <2>2, <2>8, <2>10 DEF AnswerInv, Due
  <2> HIDE DEF kind, f, map
  <2>12. /\ Paired(Append(b, x)) /\ Append(b, x)[Len(Append(b, x))] = x
         /\ Awaits(Append(b, x)) => x.kind = "server_tool_use"
    BY <2>9, <2>11, PairedMore
  <2>13. x.kind = kind /\ x.of = e.of
    OBVIOUS
  <2> HIDE DEF x, b
  <2>14. Awaits(Append(b, x)) => Due(agent', x.of)
    BY <2>5, <2>7, <2>12, <2>13 DEF Due
  <2> QED
    BY <1>5, <2>8, <2>12, <2>14 DEF AnswerInv
<1> QED
  BY <1>6, <1>7, <1>11, <1>12, <1>13

LEMMA AnswerSettles ==
    ASSUME Typed, WellInv, AnswerInv, Tame, request.flow = "agent", upstream.phase # "ended",
           ToolSettles
    PROVE  AnswerInv'
<1>1. /\ agent.tool # NoCall /\ pending = <<>>
      /\ UNCHANGED <<request, upstream, chat, responses, inner, wire>>
  BY DEF ToolSettles
<1>11. PICK f : /\ pending' = <<f, BlockStop(agent.cursor)>> /\ f.type = "content_block_start"
                /\ f.kind = "result" /\ f.of = agent.tool.id
  BY ToolSettled
<1>2. DOMAIN agent.map = {}
  <2>1. PICK v \in Positions : Turn(v)
    BY DEF WellInv, Over
  <2> QED
    BY <1>1, <2>1 DEF Turn, Follows
<1> DEFINE b == wire.blocks
           x == [kind |-> "result", of |-> agent.tool.id]
<1>3. Blocks(wire, pending) = b /\ Blocks(wire', pending') = Append(b, x)
  <2>1. pending' # <<>> /\ pending'[1] = f
    BY <1>11
  <2> QED
    BY <1>1, <1>11, <2>1 DEF Blocks
<1>4. b \in Seq(BlockRecord) /\ x \in BlockRecord
  <2>1. agent.tool.id \in Idents
    BY <1>1 DEF Typed, AgentState, ToolRecord, ToolCall
  <2> QED
    BY <2>1 DEF Typed, WireState, BlockRecord, Kinds
<1>5. SUFFICES ASSUME Mannered PROVE AnswerInv'
  BY <1>1 DEF AnswerInv, Mannered
<1>6. Paired(b) /\ (Awaits(b) => x = [kind |-> "result", of |-> b[Len(b)].of])
  <2>1. Paired(b) /\ (Awaits(b) => Due(agent, b[Len(b)].of))
    BY <1>3, <1>5 DEF AnswerInv
  <2> QED
    BY <1>2, <2>1 DEF Due
<1>7. x.kind # "server_tool_use"
  OBVIOUS
<1> HIDE DEF x, b
<1>8. Paired(Append(b, x)) /\ ~Awaits(Append(b, x))
  BY <1>4, <1>6, <1>7, PairedMore
<1> QED
  BY <1>1, <1>3, <1>8 DEF AnswerInv

\* The upstream of the agent answers, sends, fails, or its turn is over.
LEMMA AnswerTurns ==
    ASSUME Typed, WellInv, BilledInv, AnswerInv, Tame, request.flow = "agent",
           UpstreamAnswers \/ AgentChunk \/ UpstreamFails \/ NextTurn \/ LastTurn
    PROVE  AnswerInv'
<1>1. /\ pending = <<>> /\ wire' = wire /\ request' = request /\ upstream.phase # "ended"
  BY DEF UpstreamAnswers, AgentChunk, UpstreamFails, NextTurn, LastTurn, TurnOver, Idle
<1>2. CASE UpstreamAnswers \/ AgentChunk
  <2>1. upstream'.phase # "ended" /\ agent' = agent /\ pending' = pending
    <3>1. CASE UpstreamAnswers
      BY <3>1 DEF UpstreamAnswers, Typed, UpstreamState
    <3>2. CASE AgentChunk
      BY <1>1, <3>2, FedFinished DEF AgentChunk
    <3> QED
      BY <1>2, <3>1, <3>2
  <2> QED
    BY <1>1, <2>1, AnswerKept
<1>3. Blocks(wire, pending) = wire.blocks
  BY <1>1 DEF Blocks
<1>4. CASE UpstreamFails
  <2>1. upstream'.phase = "ended"
    BY <1>4 DEF UpstreamFails, Typed, UpstreamState
  <2>2. Mannered /\ wire.last.type # "message_stop"
    BY <1>1, TameIs DEF BilledInv
  <2> DEFINE e == ErrorEvent
  <2>3. pending' = <<e>> /\ e.type = "error"
    BY <1>4 DEF UpstreamFails, ErrorEvent, Event
  <2> HIDE DEF e
  <2>4. \A i \in 1 .. Len(pending') : pending'[i].type = "error"
    BY <2>3
  <2>5. Blocks(wire', pending') = wire.blocks
    BY <1>1, <2>3 DEF Blocks
  <2> QED
    BY <1>1, <1>3, <2>1, <2>2, <2>4, <2>5 DEF AnswerInv
<1>5. ASSUME TurnOver
      PROVE  ~Awaits(wire.blocks) /\ Paired(wire.blocks)
  <2>1. DOMAIN agent.map = {} /\ agent.tool = NoCall /\ Mannered
    BY <1>5, TurnDone, TameIs
  <2> QED
    BY <1>1, <1>3, <2>1 DEF AnswerInv, Due
<1>6. CASE NextTurn
  <2>1. ~Awaits(wire.blocks) /\ Paired(wire.blocks)
    BY <1>5, <1>6 DEF NextTurn
  <2>2. pending' = pending /\ upstream'.phase = "calling"
    BY <1>6 DEF NextTurn, NewUpstream
  <2>3. Blocks(wire', pending') = wire.blocks
    BY <1>1, <2>2 DEF Blocks
  <2> QED
    BY <1>1, <2>1, <2>2, <2>3 DEF AnswerInv
<1>7. CASE LastTurn
  <2>1. ~Awaits(wire.blocks) /\ Paired(wire.blocks)
    BY <1>5, <1>7 DEF LastTurn
  <2>2. upstream'.phase = "ended"
    BY <1>7 DEF LastTurn, Typed, UpstreamState
  <2>3. agent.buffered \in Seq(Terminals) /\ agent.usage \in Nat
    BY DEF Typed, AgentState
  <2>4. pending' \in Seq(Terminals)
    <3>1. agent.usage + TurnUsage(agent.buffered) \in Nat
      BY <2>3, TurnUsageTyped
    <3> QED
      BY <1>7, <2>3, <3>1, StampedTyped DEF LastTurn
  <2>5. \A i \in 1 .. Len(pending') : pending'[i].type # "content_block_start"
    <3>1. \A e \in Terminals : e.type # "content_block_start"
      BY DEF Terminals, TerminalTypes, EventsOf
    <3> QED
      BY <2>4, <3>1
  <2>6. Blocks(wire', pending') = wire.blocks
    <3>1. pending' # <<>> => 1 \in 1 .. Len(pending')
      BY <2>4
    <3> QED
      BY <1>1, <2>5, <3>1 DEF Blocks
  <2> QED
    BY <2>1, <2>2, <2>5, <2>6 DEF AnswerInv
<1> QED
  BY <1>2, <1>4, <1>6, <1>7

\* What the other flows write is as their translators made it.
LEMMA PlainOut ==
    ASSUME Typed, ToolInv, QuietStep \/ EventStep, request.flow # "agent"
    PROVE  pending' \in Seq(Stream \cup ArgumentsDelta)
<1>1. \A s \in Seq(Stream) : s \in Seq(Stream \cup ArgumentsDelta)
  BY SeqMonotonic
<1>2. CASE ChatChunk \/ ChatEnds
  <2>1. CASE ChatChunk
    <3>1. PICK chunk \in Chunks : pending' = TranslateChunk(chat, chunk).out
      BY <2>1 DEF ChatChunk
    <3>2. pending' \in Seq(Inner)
      BY <3>1, ChunkOut, CallsTyped DEF Typed
    <3>3. Inner \subseteq Stream
      BY DEF Inner, Stream, StreamTypes, EventsOf
    <3> QED
      BY <1>1, <3>2, <3>3, SeqMonotonic
  <2>2. CASE ChatEnds
    BY <1>1, <2>2, EmptySeq DEF ChatEnds, Idle
  <2> QED
    BY <1>2, <2>1, <2>2
<1>3. CASE ResponsesEnds \/ UpstreamFails
  <2>1. ErrorEvent \in Stream
    BY StreamTyped
  <2>2. pending' = <<ErrorEvent>>
    BY <1>3 DEF ResponsesEnds, UpstreamFails
  <2> QED
    BY <1>1, <2>1, <2>2
<1>4. ASSUME QuietStep PROVE ChatChunk \/ ChatEnds \/ ResponsesEnds \/ UpstreamFails
  <2>1. ~(AgentChunk \/ UpstreamAnswers \/ NextTurn \/ LastTurn)
    BY DEF AgentChunk, UpstreamAnswers, NextTurn, LastTurn, TurnOver, InAgent
  <2>2. ~(DispatchMessageStart \/ HandleBlockStart \/ HandleBlockDelta \/ HandleBlockStop
          \/ BufferTerminal)
    BY DEF DispatchMessageStart, HandleBlockStart, HandleBlockDelta, HandleBlockStop,
           BufferTerminal, Dispatching, InAgent
  <2>3. ~ToolSettles
    BY DEF ToolSettles, ToolInv
  <2> QED
    BY <1>4, <2>1, <2>2, <2>3, Zenon DEF QuietStep
<1>5. CASE EventStep
  <2>1. PICK e : /\ e \in ItemEvents \/ e.type \in {"created", "completed", "failed", "error"}
                 /\ Translated(e)
    BY <1>5 DEF EventStep
  <2> DEFINE p == TranslateResponsesEvent(responses, e)
  <2>2. pending' = p.out
    BY <2>1 DEF Translated
  <2>3. e \in ItemRecord \/ e.type \in {"created", "completed", "failed", "error"}
    BY <2>1, CallsTyped
  <2>4. CASE e.type # "arguments_delta"
    <3>1. p \in ResponsesPair
      BY <2>3, <2>4, ResponsesEventTyped DEF Typed
    <3> HIDE DEF p
    <3> QED
      BY <1>1, <2>2, <3>1 DEF ResponsesPair
  <2>5. CASE e.type = "arguments_delta"
    <3>1. p = HandleFunctionCallArgumentsDelta(responses, e) /\ e \in ItemRecord
      BY <2>3, <2>5 DEF TranslateResponsesEvent
    <3> HIDE DEF p
    <3>2. \/ p \in ResponsesPair
          \/ \E s \in Seq(Stream), d \in ArgumentsDelta : p.out = Append(s, d)
      BY <3>1, ArgumentsDeltaTyped DEF Typed
    <3>3. ASSUME NEW s \in Seq(Stream), NEW d \in ArgumentsDelta
          PROVE  Append(s, d) \in Seq(Stream \cup ArgumentsDelta)
      <4>1. s \in Seq(Stream \cup ArgumentsDelta) /\ d \in Stream \cup ArgumentsDelta
        BY <1>1
      <4> QED
        BY <4>1, AppendProperties
    <3> QED
      BY <1>1, <2>2, <3>2, <3>3 DEF ResponsesPair
  <2> QED
    BY <2>4, <2>5
<1> QED
  BY <1>2, <1>3, <1>4, <1>5

LEMMA PlainNext ==
    ASSUME Typed, ToolInv, PlainInv, [Next]_vars PROVE PlainInv'
<1> SUFFICES ASSUME request.flow # "agent" PROVE PlainInv'
  BY SameRequest DEF PlainInv
<1>1. wire \in WireState /\ wire.blocks \in Seq(BlockRecord)
  BY DEF Typed, WireState, BlockRecord
<1>2. CASE Write
  <2>1. /\ pending # <<>> /\ wire' = Read(wire, pending[1]) /\ pending[1] \in Readable
        /\ pending' = Tail(pending)
    BY <1>2, HeadTailProperties, WrittenReadable DEF Typed, Write
  <2>2. /\ pending \in Seq(Stream \cup ArgumentsDelta)
        /\ pending' \in Seq(Stream \cup ArgumentsDelta)
        /\ pending[1] \in Stream \cup ArgumentsDelta
    BY <2>1, HeadTyped, HeadTailProperties DEF PlainInv
  <2> DEFINE x == [kind |-> pending[1].kind, of |-> pending[1].of]
  <2>3. x \in BlockRecord /\ x.kind # "server_tool_use"
    BY <2>1, <2>2 DEF Readable, BlockRecord, Stream, EventsOf, BlockKinds, ArgumentsDelta
  <2>4. wire'.blocks = wire.blocks \/ wire'.blocks = Append(wire.blocks, x)
    BY <1>1, <2>1, BlocksRead
  <2> HIDE DEF x
  <2>5. \A i \in 1 .. Len(Append(wire.blocks, x)) :
          \/ i \in 1 .. Len(wire.blocks) /\ Append(wire.blocks, x)[i] = wire.blocks[i]
          \/ Append(wire.blocks, x)[i] = x
    BY <1>1, <2>3
  <2>6. \A i \in 1 .. Len(wire'.blocks) : wire'.blocks[i].kind # "server_tool_use"
    BY <2>3, <2>4, <2>5 DEF PlainInv
  <2> QED
    BY <2>2, <2>6 DEF PlainInv
<1>3. CASE QuietStep \/ EventStep
  <2>1. wire' = wire
    BY <1>3, QuietSteps DEF EventStep, Translated
  <2> QED
    BY <1>3, <2>1, PlainOut DEF PlainInv
<1>4. ASSUME wire' = Read(wire, Event("ping")), pending' = pending
      PROVE  PlainInv'
  <2>1. Event("ping") \in Readable /\ Event("ping").type = "ping"
    BY WrittenReadable DEF Event
  <2>2. wire'.blocks = wire.blocks
    BY <1>1, <1>4, <2>1, BlocksRead
  <2> QED
    BY <1>4, <2>2 DEF PlainInv
<1>5. CASE UNCHANGED vars
  BY <1>5 DEF vars, PlainInv
<1> QED
  BY <1>2, <1>3, <1>4, <1>5, Steps

LEMMA AnswerNext ==
    ASSUME Typed, ClimbInv, BilledInv, ToolInv, WellInv, AnswerInv, [Next]_vars
    PROVE  AnswerInv'
<1>1. request' = request
  BY SameRequest
<1>2. SUFFICES ASSUME request.flow = "agent", Mannered PROVE AnswerInv'
  BY <1>1 DEF AnswerInv, Mannered
<1>3. Tame
  BY <1>2 DEF Tame
<1>4. CASE Write
  BY <1>4, AnswerWrite
<1>5. CASE QuietStep
  <2>1. CASE ToolSettles
    <3>1. upstream.phase # "ended"
      BY <1>2, <1>3, <2>1 DEF ToolSettles, WellInv, Over
    <3> QED
      BY <1>2, <1>3, <2>1, <3>1, AnswerSettles
  <2>2. CASE UpstreamAnswers \/ AgentChunk \/ UpstreamFails \/ NextTurn \/ LastTurn
    BY <1>2, <1>3, <2>2, AnswerTurns
  <2>3. CASE \/ DispatchMessageStart \/ HandleBlockStart \/ HandleBlockDelta
             \/ HandleBlockStop \/ BufferTerminal
    BY <1>3, <2>3, AnswerDispatch
  <2>4. ~(ChatChunk \/ ChatEnds \/ ResponsesEnds)
    BY <1>2 DEF ChatChunk, ChatEnds, ResponsesEnds, ReadingResponses
  <2> QED
    BY <1>5, <2>1, <2>2, <2>3, <2>4, Zenon DEF QuietStep
<1>6. CASE EventStep
  BY <1>2, <1>6 DEF EventStep, ReadingResponses
<1>7. ASSUME wire' = Read(wire, Event("ping")),
             UNCHANGED <<request, upstream, chat, responses, agent, inner, pending>>
      PROVE  AnswerInv'
  <2>1. Event("ping") \in Readable /\ Event("ping").type = "ping" /\ wire \in WireState
    BY WrittenReadable DEF Event, Typed
  <2>2. wire'.blocks = wire.blocks
    BY <1>7, <2>1, BlocksRead
  <2>3. wire'.last.type = "ping"
    BY <1>7, PingRead
  <2>4. Blocks(wire', pending') = Blocks(wire, pending)
    BY <1>7, <2>2 DEF Blocks
  <2> QED
    BY <1>2, <1>7, <2>3, <2>4 DEF AnswerInv, Mannered
<1>8. CASE UNCHANGED vars
  BY <1>8 DEF vars, AnswerInv, Mannered, Blocks
<1> QED
  BY <1>4, <1>5, <1>6, <1>7, <1>8, Steps

LEMMA AnswersRead ==
    ASSUME Typed, BilledInv, AnswerInv, PlainInv PROVE ServerToolsAnswered
<1>1. CASE request.flow # "agent"
  BY <1>1 DEF PlainInv, ServerToolsAnswered
<1>2. SUFFICES ASSUME request.flow = "agent", Mannered,
                      NEW i \in 1 .. Len(wire.blocks),
                      wire.blocks[i].kind = "server_tool_use"
               PROVE  IF i < Len(wire.blocks)
                      THEN wire.blocks[i + 1] = [kind |-> "result", of |-> wire.blocks[i].of]
                      ELSE wire.last.type # "message_stop"
  BY <1>1 DEF ServerToolsAnswered
<1> DEFINE b == Blocks(wire, pending)
           x == [kind |-> pending[1].kind, of |-> pending[1].of]
<1>3. wire.blocks \in Seq(BlockRecord)
  BY DEF Typed, WireState, BlockRecord
<1>4. Paired(b)
  BY <1>2 DEF AnswerInv
<1>5. b = wire.blocks \/ b = Append(wire.blocks, x)
  BY DEF Blocks
<1>6. /\ Len(wire.blocks) \in Nat /\ Len(b) \in Nat /\ Len(wire.blocks) <= Len(b)
      /\ \A j \in 1 .. Len(wire.blocks) : b[j] = wire.blocks[j]
  <2> HIDE DEF x, b
  <2>1. CASE b = wire.blocks
    BY <1>3, <2>1
  <2>2. CASE b = Append(wire.blocks, x)
    BY <1>3, <2>2, AppendProperties
  <2> QED
    BY <1>5, <2>1, <2>2
<1>7. CASE i < Len(wire.blocks)
  <2>1. i \in 1 .. Len(b) - 1 /\ b[i] = wire.blocks[i] /\ b[i + 1] = wire.blocks[i + 1]
    BY <1>6, <1>7
  <2> QED
    BY <1>2, <1>4, <1>7, <2>1 DEF Paired
<1>8. CASE i = Len(wire.blocks)
  <2>1. CASE upstream.phase # "ended"
    BY <1>2, <1>8, <2>1 DEF BilledInv
  <2>2. CASE upstream.phase = "ended"
    <3>1. pending = <<>> \/ pending[1].type # "content_block_start"
      <4>1. Len(pending) \in Nat /\ (pending # <<>> => Len(pending) # 0)
        BY DEF Typed
      <4> QED
        BY <1>2, <2>2, <4>1 DEF AnswerInv
    <3>2. b = wire.blocks
      BY <3>1 DEF Blocks
    <3>3. Awaits(b)
      BY <1>2, <1>3, <1>8, <3>2 DEF Awaits
    <3>4. wire.last.type # "message_stop"
      BY <1>2, <2>2, <3>3 DEF AnswerInv
    <3> QED
      BY <1>8, <3>4
  <2> QED
    BY <2>1, <2>2
<1> QED
  BY <1>6, <1>7, <1>8

\* Of the agent with an upstream that has manners, every server_tool_use block is
\* followed by the result of that very call, before any other block and before
\* a regular end; for any number of turns, tools and uses, whatever the tools do.
THEOREM ToolsAnswered == Spec => []ServerToolsAnswered
<1>1. Init => WellInv /\ BilledInv /\ ToolInv /\ ClimbInv /\ AnswerInv /\ PlainInv
  BY WellInit, BilledInit, ClimbInit, AnswerInit DEF Init, NewAgent, ToolInv
<1>2. Typed /\ WellInv /\ BilledInv /\ ToolInv /\ ClimbInv /\ AnswerInv /\ PlainInv /\ [Next]_vars
        => (WellInv /\ BilledInv /\ ToolInv /\ ClimbInv /\ AnswerInv /\ PlainInv)'
  BY WellNext, BilledNext, ToolNext, ClimbNext, AnswerNext, PlainNext
<1>3. Typed /\ BilledInv /\ AnswerInv /\ PlainInv => ServerToolsAnswered
  BY AnswersRead
<1> QED
  BY <1>1, <1>2, <1>3, AlwaysTyped, PTL DEF Spec

-----------------------------------------------------------------------------
(* The ledger of blocks and their identities.                                *)
(*                                                                           *)
(* A book is a set of pairs of a block's index and the identity it was       *)
(* started for.  A sequence of events keeps to a book if every block it      *)
(* starts is one of the book's or the next one, and all arguments are of a   *)
(* block that is in the book, or was started before them.                    *)

Block(e) == <<e.index, e.of>>
IsStart(e) == e.type = "content_block_start"
IsArgs(e) == e.type = "content_block_delta" /\ e.kind = "input_json"

\* The blocks that the first `n` events of `s` start, and all of them.
Before(s, n) == {Block(s[i]) : i \in {i \in 1 .. n : IsStart(s[i])}}
Starts(s) == Before(s, Len(s))
Started(e) == IF IsStart(e) THEN {Block(e)} ELSE {}

\* The blocks of book `o` are those below `n`.
Numbers(o, n) == {b[1] : b \in o} = 0 .. n - 1

Entitled(o, e) ==
    /\ IsStart(e) => Block(e) \in o \/ Numbers(o, e.index)
    /\ IsArgs(e) => Block(e) \in o
Kept(o, s) == \A j \in 1 .. Len(s) : Entitled(o \cup Before(s, j - 1), s[j])

\* Events that are no matter of a book.
Plain(s) == \A j \in 1 .. Len(s) : ~IsStart(s[j]) /\ ~IsArgs(s[j])

LEMMA StartsIn ==
    \A s, n, b : b \in Before(s, n) <=> \E i \in 1 .. n : IsStart(s[i]) /\ b = Block(s[i])
  BY DEF Before

\* `st` is `s` and then `t`.
Joins(s, t, st) ==
    /\ Len(s) \in Nat /\ Len(t) \in Nat /\ Len(st) = Len(s) + Len(t)
    /\ \A i \in 1 .. Len(s) : st[i] = s[i]
    /\ \A i \in 1 .. Len(t), k \in Int : k = Len(s) + i => st[k] = t[i]

LEMMA JoinsOn ==
    ASSUME NEW S, NEW s \in Seq(S), NEW t \in Seq(S)
    PROVE  s \o t \in Seq(S) /\ Joins(s, t, s \o t)
<1> DEFINE m == Len(s)
           n == Len(t)
           st == s \o t
<1>1. /\ m \in Nat /\ n \in Nat /\ Len(st) = m + n /\ st \in Seq(S)
      /\ \A i \in 1 .. m + n : st[i] = IF i <= m THEN s[i] ELSE t[i - m]
  BY ConcatProperties
<1> HIDE DEF m, n, st
<1>2. ASSUME NEW i \in 1 .. n, NEW k \in Int, k = m + i PROVE st[k] = t[i]
  <2>1. k \in 1 .. m + n /\ ~(k <= m) /\ k - m = i
    BY <1>1, <1>2
  <2> QED
    BY <1>1, <2>1
<1>3. \A i \in 1 .. m : st[i] = s[i]
  BY <1>1
<1>4. Joins(s, t, st)
  BY <1>1, <1>2, <1>3 DEF Joins, m, n
<1> QED
  BY <1>1, <1>4 DEF st

LEMMA StartsJoined ==
    ASSUME NEW s, NEW t, NEW st, Joins(s, t, st)
    PROVE  /\ Starts(st) = Starts(s) \cup Starts(t)
           /\ \A j \in 1 .. Len(s) : Before(st, j - 1) = Before(s, j - 1)
           /\ \A j \in 1 .. Len(t), k \in Int : k = Len(s) + j =>
                Before(st, k - 1) = Starts(s) \cup Before(t, j - 1)
<1> DEFINE m == Len(s)
           n == Len(t)
<1>1. m \in Nat /\ n \in Nat /\ Len(st) = m + n
  BY DEF Joins
<1>2. /\ \A i \in 1 .. m : st[i] = s[i]
      /\ \A i \in 1 .. n, k \in Int : k = m + i => st[k] = t[i]
  BY DEF Joins
<1> HIDE DEF m, n
<1>3. ASSUME NEW j \in 1 .. m PROVE Before(st, j - 1) = Before(s, j - 1)
  <2>1. \A i \in 1 .. j - 1 : i \in 1 .. m
    BY <1>1
  <2> QED
    BY <1>2, <2>1 DEF Before
<1>4. ASSUME NEW j \in 0 .. n, NEW k \in Int, k = m + j
      PROVE  Before(st, k) = Before(s, m) \cup Before(t, j)
  <2>1. ASSUME NEW i \in 1 .. k, IsStart(st[i])
        PROVE  Block(st[i]) \in Before(s, m) \cup Before(t, j)
    <3>1. CASE i \in 1 .. m
      BY <1>2, <2>1, <3>1, StartsIn
    <3>2. CASE i \notin 1 .. m
      <4>1. PICK l \in 1 .. j : i = m + l
        <5>1. i - m \in 1 .. j /\ i = m + (i - m)
          BY <1>1, <1>4, <3>2
        <5> QED
          BY <5>1
      <4>2. l \in 1 .. n
        BY <1>1
      <4>3. st[i] = t[l]
        BY <1>2, <4>1, <4>2
      <4> QED
        BY <2>1, <4>3, StartsIn
    <3> QED
      BY <3>1, <3>2
  <2>2. ASSUME NEW b \in Before(s, m) PROVE b \in Before(st, k)
    <3>1. PICK i \in 1 .. m : IsStart(s[i]) /\ b = Block(s[i])
      BY <2>2, StartsIn
    <3>2. i \in 1 .. k /\ st[i] = s[i]
      BY <1>1, <1>2, <1>4
    <3> QED
      BY <3>1, <3>2, StartsIn
  <2>3. ASSUME NEW b \in Before(t, j) PROVE b \in Before(st, k)
    <3>1. PICK i \in 1 .. j : IsStart(t[i]) /\ b = Block(t[i])
      BY <2>3, StartsIn
    <3>2. PICK l \in Int : l = m + i
      BY <1>1
    <3>3. l \in 1 .. k /\ i \in 1 .. n
      BY <1>1, <1>4, <3>2
    <3>4. st[l] = t[i]
      BY <1>2, <3>2, <3>3
    <3> QED
      BY <3>1, <3>3, <3>4, StartsIn
  <2>4. ASSUME NEW b \in Before(st, k) PROVE b \in Before(s, m) \cup Before(t, j)
    <3>1. PICK i \in 1 .. k : IsStart(st[i]) /\ b = Block(st[i])
      BY <2>4, StartsIn
    <3> QED
      BY <2>1, <3>1
  <2> QED
    BY <2>2, <2>3, <2>4
<1>5. Starts(st) = Starts(s) \cup Starts(t)
  <2>1. n \in 0 .. n /\ m + n \in Int
    BY <1>1
  <2>2. Before(st, m + n) = Before(s, m) \cup Before(t, n)
    BY <1>4, <2>1
  <2> QED
    BY <1>1, <2>2 DEF Starts, m, n
<1>6. ASSUME NEW j \in 1 .. n, NEW k \in Int, k = m + j
      PROVE  Before(st, k - 1) = Starts(s) \cup Before(t, j - 1)
  <2>1. j - 1 \in 0 .. n /\ k - 1 \in Int /\ k - 1 = m + (j - 1)
    BY <1>1, <1>6
  <2> QED
    BY <1>4, <2>1 DEF Starts, m
<1> QED
  BY <1>3, <1>5, <1>6 DEF m, n

LEMMA KeptJoined ==
    ASSUME NEW s, NEW t, NEW st, Joins(s, t, st), NEW o
    PROVE  Kept(o, st) <=> Kept(o, s) /\ Kept(o \cup Starts(s), t)
<1> DEFINE m == Len(s)
           n == Len(t)
<1>1. /\ m \in Nat /\ n \in Nat /\ Len(st) = m + n
      /\ \A j \in 1 .. m : st[j] = s[j]
      /\ \A j \in 1 .. n, k \in Int : k = m + j => st[k] = t[j]
  BY DEF Joins
<1>2. /\ \A j \in 1 .. m : Before(st, j - 1) = Before(s, j - 1)
      /\ \A j \in 1 .. n, k \in Int : k = m + j =>
           Before(st, k - 1) = Starts(s) \cup Before(t, j - 1)
  BY StartsJoined
<1> HIDE DEF m, n
<1>3. ASSUME NEW j \in 1 .. m
      PROVE  Entitled(o \cup Before(st, j - 1), st[j]) <=> Entitled(o \cup Before(s, j - 1), s[j])
  BY <1>1, <1>2
<1>4. ASSUME NEW j \in 1 .. n, NEW k \in Int, k = m + j
      PROVE  Entitled(o \cup Before(st, k - 1), st[k])
               <=> Entitled(o \cup Starts(s) \cup Before(t, j - 1), t[j])
  <2>1. o \cup Before(st, k - 1) = o \cup Starts(s) \cup Before(t, j - 1) /\ st[k] = t[j]
    BY <1>1, <1>2, <1>4
  <2> QED
    BY <2>1
<1>5. ASSUME Kept(o, s), Kept(o \cup Starts(s), t), NEW k \in 1 .. m + n
      PROVE  Entitled(o \cup Before(st, k - 1), st[k])
  <2>1. CASE k \in 1 .. m
    BY <1>3, <1>5, <2>1 DEF Kept, m
  <2>2. CASE k \notin 1 .. m
    <3>1. PICK j \in 1 .. n : k = m + j
      <4>1. k - m \in 1 .. n /\ k = m + (k - m)
        BY <1>1, <2>2
      <4> QED
        BY <4>1
    <3>2. Entitled(o \cup Starts(s) \cup Before(t, j - 1), t[j])
      BY <1>5 DEF Kept, n
    <3>3. k \in Int
      BY <1>1
    <3>4. Entitled(o \cup Before(st, k - 1), st[k])
            <=> Entitled(o \cup Starts(s) \cup Before(t, j - 1), t[j])
      BY <1>4, <3>1, <3>3
    <3> QED
      BY <3>2, <3>4
  <2> QED
    BY <2>1, <2>2
<1>6. ASSUME Kept(o, st) PROVE Kept(o, s) /\ Kept(o \cup Starts(s), t)
  <2>1. \A k \in 1 .. m + n : Entitled(o \cup Before(st, k - 1), st[k])
    BY <1>1, <1>6 DEF Kept
  <2>2. \A j \in 1 .. m : Entitled(o \cup Before(s, j - 1), s[j])
    <3>1. \A j \in 1 .. m : j \in 1 .. m + n
      BY <1>1
    <3> QED
      BY <1>3, <2>1, <3>1
  <2>3. ASSUME NEW j \in 1 .. n PROVE Entitled(o \cup Starts(s) \cup Before(t, j - 1), t[j])
    <3>1. PICK k \in 1 .. m + n : k = m + j
      <4>1. m + j \in 1 .. m + n
        BY <1>1
      <4> QED
        BY <4>1
    <3>2. k \in Int
      BY <1>1
    <3>3. Entitled(o \cup Before(st, k - 1), st[k])
            <=> Entitled(o \cup Starts(s) \cup Before(t, j - 1), t[j])
      BY <1>4, <3>1, <3>2
    <3> QED
      BY <2>1, <3>3
  <2> QED
    BY <2>2, <2>3 DEF Kept, m, n
<1> QED
  BY <1>1, <1>5, <1>6 DEF Kept

LEMMA KeptOn ==
    ASSUME NEW S, NEW s \in Seq(S), NEW t \in Seq(S), NEW o
    PROVE  /\ Starts(s \o t) = Starts(s) \cup Starts(t)
           /\ Kept(o, s \o t) <=> Kept(o, s) /\ Kept(o \cup Starts(s), t)
<1> DEFINE st == s \o t
<1>1. Joins(s, t, st)
  BY JoinsOn
<1> HIDE DEF st
<1>2. Starts(st) = Starts(s) \cup Starts(t) /\ (Kept(o, st) <=> Kept(o, s) /\ Kept(o \cup Starts(s), t))
  BY <1>1, StartsJoined, KeptJoined
<1> QED
  BY <1>2 DEF st

LEMMA KeptNone ==
    /\ Starts(<<>>) = {} /\ \A o : Kept(o, <<>>)
<1>1. Len(<<>>) = 0 /\ 1 .. 0 = {}
  OBVIOUS
<1> QED
  BY <1>1 DEF Starts, Before, Kept

LEMMA KeptOne ==
    ASSUME NEW e PROVE Starts(<<e>>) = Started(e) /\ \A o : Kept(o, <<e>>) <=> Entitled(o, e)
<1>1. Len(<<e>>) = 1 /\ <<e>>[1] = e /\ 1 .. 1 = {1} /\ 1 .. 1 - 1 = {}
  OBVIOUS
<1>2. Before(<<e>>, 1 - 1) = {}
  BY <1>1 DEF Before
<1>3. Starts(<<e>>) = Started(e)
  BY <1>1 DEF Starts, Before, Started
<1>4. ASSUME NEW o PROVE Kept(o, <<e>>) <=> Entitled(o, e)
  <2>1. o \cup Before(<<e>>, 1 - 1) = o
    BY <1>2
  <2> QED
    BY <1>1, <2>1 DEF Kept
<1> QED
  BY <1>3, <1>4

LEMMA KeptPlain ==
    ASSUME NEW S, NEW s \in Seq(S), Plain(s) PROVE Starts(s) = {} /\ \A o : Kept(o, s)
  BY DEF Starts, Before, Plain, Kept, Entitled

\* What is left to read is kept to the book of what was read.
LEMMA KeptFirst ==
    ASSUME NEW S, NEW s \in Seq(S), s # <<>>, NEW o, Kept(o, s)
    PROVE  /\ Entitled(o, s[1]) /\ Kept(o \cup Started(s[1]), Tail(s))
           /\ Starts(s) = Started(s[1]) \cup Starts(Tail(s))
<1> DEFINE e == s[1]
           t == Tail(s)
           u == <<e>>
<1>1. t \in Seq(S) /\ s = u \o t /\ u \in Seq(S)
  BY HeadTailProperties
<1>2. Starts(u) = Started(e) /\ \A b : Kept(b, u) <=> Entitled(b, e)
  BY KeptOne
<1> HIDE DEF e, t, u
<1>3. /\ Starts(u \o t) = Starts(u) \cup Starts(t)
      /\ Kept(o, u \o t) <=> Kept(o, u) /\ Kept(o \cup Starts(u), t)
  BY <1>1, KeptOn
<1>4. Starts(s) = Starts(u) \cup Starts(t) /\ Kept(o, u) /\ Kept(o \cup Starts(u), t)
  BY <1>1, <1>3
<1> QED
  BY <1>2, <1>4 DEF e, t

-----------------------------------------------------------------------------
(* What the chat translator has in the book, in turn `t`: all blocks up to   *)
(* the current one, and each call's block under the call's identity.         *)

Size(st) == IF st.open \/ st.thinking THEN st.index + 1 ELSE st.index

ChatBook(o, t, st) ==
    /\ Numbers(o, Size(st))
    /\ \A k \in CallIndices : st.calls[k] # NoBlock => <<st.calls[k], CallId(t, k)>> \in o

\* A handler's pair whose events keep to book `o`, and whose state is in the book after them.
Noted(o, t, p) ==
    /\ p \in ChatPair /\ p.st.started /\ ChatSound(p.st)
    /\ Kept(o, p.out) /\ ChatBook(o \cup Starts(p.out), t, p.st)

LEMMA NumbersMore ==
    ASSUME NEW o, NEW n \in Nat, NEW m \in Nat, m = n + 1, Numbers(o, n), NEW of
    PROVE  Numbers(o \cup {<<n, of>>}, m)
<1>1. {b[1] : b \in o \cup {<<n, of>>}} = {b[1] : b \in o} \cup {n}
  <2>1. <<n, of>>[1] = n
    OBVIOUS
  <2> QED
    BY <2>1, Zenon
<1>2. 0 .. m - 1 = (0 .. n - 1) \cup {n}
  OBVIOUS
<1> QED
  BY <1>1, <1>2 DEF Numbers

\* One block: its start, which is the next one, and events that are no matter of a book.
Opens(s, n, of) ==
    /\ 1 \in 1 .. Len(s) /\ IsStart(s[1]) /\ Block(s[1]) = <<n, of>>
    /\ \A j \in 1 .. Len(s) : j # 1 => ~IsStart(s[j]) /\ ~IsArgs(s[j])

LEMMA OpensKept ==
    ASSUME NEW S, NEW s \in Seq(S), NEW n, NEW of, Opens(s, n, of)
    PROVE  Starts(s) = {<<n, of>>} /\ \A o : Numbers(o, n) => Kept(o, s)
<1>1. Starts(s) = {<<n, of>>}
  <2>1. ASSUME NEW b PROVE b \in Before(s, Len(s)) <=> b = <<n, of>>
    BY StartsIn DEF Opens
  <2> QED
    BY <2>1 DEF Starts
<1>2. s[1].index = n /\ ~IsArgs(s[1])
  BY DEF Opens, Block, IsStart, IsArgs
<1>3. Before(s, 1 - 1) = {}
  BY DEF Before
<1>4. ASSUME NEW o, Numbers(o, n) PROVE Kept(o, s)
  <2>1. ASSUME NEW j \in 1 .. Len(s) PROVE Entitled(o \cup Before(s, j - 1), s[j])
    <3>1. CASE j = 1
      <4>1. o \cup Before(s, j - 1) = o
        BY <1>3, <3>1
      <4> QED
        BY <1>2, <1>4, <3>1, <4>1 DEF Entitled
    <3>2. CASE j # 1
      BY <3>2 DEF Entitled, Opens
    <3> QED
      BY <3>1, <3>2
  <2> QED
    BY <2>1 DEF Kept
<1> QED
  BY <1>1, <1>4

LEMMA SoundOn ==
    ASSUME NEW a \in ChatState, ChatSound(a), NEW b \in ChatState, b.started,
           ~(b.open /\ b.thinking), b.calls = a.calls,
           b.index = a.index + 1 \/ (b.index = a.index /\ (a.open => b.open))
    PROVE  ChatSound(b)
<1>1. a.index \in Nat /\ b.index \in Nat /\ a.calls \in [CallIndices -> Nat \cup {NoBlock}]
  BY DEF ChatState
<1>2. ASSUME NEW k \in CallIndices
      PROVE  b.calls[k] < b.index \/ (b.calls[k] = b.index /\ b.open)
  <2>1. a.calls[k] \in Int
    BY <1>1 DEF NoBlock
  <2>2. a.calls[k] < a.index \/ (a.calls[k] = a.index /\ a.open)
    BY DEF ChatSound
  <2> QED
    BY <1>1, <2>1, <2>2
<1> QED
  BY <1>2 DEF ChatSound

LEMMA NoteMore ==
    ASSUME NEW o, NEW t, NEW p, Noted(o, t, p), NEW st \in ChatState, st.started, ChatSound(st),
           NEW events \in Seq(Body), Kept(o \cup Starts(p.out), events),
           ChatBook(o \cup Starts(p.out) \cup Starts(events), t, st)
    PROVE  Noted(o, t, [st |-> st, out |-> p.out \o events])
<1>1. p.out \in Seq(Body) /\ Kept(o, p.out)
  BY DEF Noted, ChatPair
<1> DEFINE out == p.out \o events
<1>2. /\ Starts(out) = Starts(p.out) \cup Starts(events) /\ Kept(o, out)
      /\ out \in Seq(Body)
  BY <1>1, KeptOn, ConcatProperties
<1> HIDE DEF out
<1>3. o \cup Starts(out) = o \cup Starts(p.out) \cup Starts(events)
  BY <1>2
<1>4. Noted(o, t, [st |-> st, out |-> out])
  BY <1>2, <1>3, PairTyped DEF Noted
<1> QED
  BY <1>4 DEF out

\* Events that start no block.
LEMMA NotePlain ==
    ASSUME NEW o, NEW t, NEW p, Noted(o, t, p), NEW st \in ChatState, st.started, ChatSound(st),
           st.calls = p.st.calls, Size(st) = Size(p.st), NEW events \in Seq(Body), Plain(events)
    PROVE  Noted(o, t, [st |-> st, out |-> p.out \o events])
<1>1. Starts(events) = {} /\ Kept(o \cup Starts(p.out), events)
  BY KeptPlain
<1>2. o \cup Starts(p.out) \cup Starts(events) = o \cup Starts(p.out)
  BY <1>1
<1>3. ChatBook(o \cup Starts(p.out) \cup Starts(events), t, st)
  BY <1>2 DEF Noted, ChatBook
<1> QED
  BY <1>1, <1>3, NoteMore

\* The next block, which may be a call's.
LEMMA NoteBlock ==
    ASSUME NEW o, NEW t, NEW p, Noted(o, t, p), NEW st \in ChatState, st.started, ChatSound(st),
           NEW n \in Nat, n = Size(p.st), Size(st) = n + 1,
           NEW events \in Seq(Body), NEW of, Opens(events, n, of),
           \A k \in CallIndices :
             st.calls[k] = p.st.calls[k] \/ (st.calls[k] = n /\ of = CallId(t, k))
    PROVE  Noted(o, t, [st |-> st, out |-> p.out \o events])
<1> DEFINE b == o \cup Starts(p.out)
<1>1. /\ Numbers(b, n)
      /\ \A k \in CallIndices :
           p.st.calls[k] # NoBlock => <<p.st.calls[k], CallId(t, k)>> \in b
  BY DEF Noted, ChatBook
<1> HIDE DEF b
<1>2. Starts(events) = {<<n, of>>} /\ Kept(b, events)
  BY <1>1, OpensKept
<1>3. PICK m \in Nat : m = n + 1
  OBVIOUS
<1>4. Numbers(b \cup {<<n, of>>}, m)
  BY <1>1, <1>3, NumbersMore
<1>5. ChatBook(b \cup Starts(events), t, st)
  BY <1>1, <1>2, <1>3, <1>4 DEF ChatBook
<1> QED
  BY <1>2, <1>5, NoteMore DEF b

\* What single events are to a book.
LEMMA BookEvents ==
    ASSUME NEW n, NEW kind, NEW of, NEW name
    PROVE  /\ IsStart(BlockStart(n, kind, of)) /\ Block(BlockStart(n, kind, of)) = <<n, of>>
           /\ IsStart(ToolStart(n, of, name)) /\ Block(ToolStart(n, of, name)) = <<n, of>>
           /\ ~IsStart(BlockDelta(n, kind, of)) /\ ~IsStart(WholeDelta(n, kind, of))
           /\ ~IsStart(BlockStop(n)) /\ ~IsArgs(BlockStop(n))
           /\ kind # "input_json" => ~IsArgs(BlockDelta(n, kind, of))
           /\ kind # "input_json" => ~IsArgs(WholeDelta(n, kind, of))
           /\ Block(BlockDelta(n, kind, of)) = <<n, of>>
           /\ Block(WholeDelta(n, kind, of)) = <<n, of>>
           /\ \A type : type \notin {"content_block_start", "content_block_delta"} =>
                ~IsStart(Event(type)) /\ ~IsArgs(Event(type))
  BY DEF IsStart, IsArgs, Block, BlockStart, ToolStart, BlockDelta, WholeDelta, BlockStop, Event

LEMMA PlainOnes ==
    /\ Plain(<<>>)
    /\ \A a : ~IsStart(a) /\ ~IsArgs(a) => Plain(<<a>>)
    /\ \A a, b : ~IsStart(a) /\ ~IsArgs(a) /\ ~IsStart(b) /\ ~IsArgs(b) => Plain(<<a, b>>)
<1>1. Plain(<<>>)
  BY DEF Plain
<1>2. ASSUME NEW a, ~IsStart(a), ~IsArgs(a) PROVE Plain(<<a>>)
  <2>1. \A j \in 1 .. Len(<<a>>) : <<a>>[j] = a
    OBVIOUS
  <2> QED
    BY <1>2, <2>1 DEF Plain
<1>3. ASSUME NEW a, NEW b, ~IsStart(a), ~IsArgs(a), ~IsStart(b), ~IsArgs(b)
      PROVE  Plain(<<a, b>>)
  <2>1. \A j \in 1 .. Len(<<a, b>>) : <<a, b>>[j] = a \/ <<a, b>>[j] = b
    OBVIOUS
  <2> QED
    BY <1>3, <2>1 DEF Plain
<1> QED
  BY <1>1, <1>2, <1>3

LEMMA CloseContentNotes ==
    ASSUME NEW o, NEW t, NEW p, Noted(o, t, p), p.st.open
    PROVE  LET c == CloseContent(p)
           IN Noted(o, t, c) /\ ~c.st.open /\ ~c.st.thinking
<1> DEFINE st == [p.st EXCEPT !.open = FALSE, !.index = @ + 1]
           e == BlockStop(p.st.index)
<1>1. p.st \in ChatState /\ p.out \in Seq(Body) /\ p.st.index \in Nat /\ p.st.started
      /\ ~p.st.thinking /\ st \in ChatState /\ ChatSound(p.st)
  BY MovedOn DEF Noted, ChatPair, ChatState, ChatSound
<1>2. /\ st.open = FALSE /\ st.thinking = p.st.thinking /\ st.index = p.st.index + 1
      /\ st.calls = p.st.calls /\ st.started = p.st.started
  BY <1>1 DEF ChatState
<1> HIDE DEF st
<1>3. ChatSound(st) /\ Size(st) = Size(p.st)
  BY <1>1, <1>2, SoundOn DEF Size
<1>4. e \in Body /\ ~IsStart(e) /\ ~IsArgs(e)
  BY <1>1, BodyTyped, BookEvents DEF Idents, BlockKinds, Names
<1>5. CloseContent(p) = [st |-> st, out |-> p.out \o <<e>>]
  BY <1>1, <1>4, AppendIsConcat DEF CloseContent, st
<1> HIDE DEF e
<1>6. Plain(<<e>>) /\ <<e>> \in Seq(Body)
  BY <1>4, PlainOnes
<1>7. Noted(o, t, [st |-> st, out |-> p.out \o <<e>>])
  BY <1>1, <1>2, <1>3, <1>6, NotePlain
<1> QED
  BY <1>1, <1>2, <1>5, <1>7

LEMMA SignedNotes ==
    ASSUME NEW o, NEW t, NEW p, Noted(o, t, p), p.st.thinking
    PROVE  LET c == Signed(p)
           IN Noted(o, t, c) /\ ~c.st.open /\ ~c.st.thinking
<1> DEFINE st == [p.st EXCEPT !.thinking = FALSE, !.index = @ + 1]
           a == BlockDelta(p.st.index, "signature", <<>>)
           b == BlockStop(p.st.index)
<1>1. p.st \in ChatState /\ p.out \in Seq(Body) /\ p.st.index \in Nat /\ p.st.started
      /\ ~p.st.open /\ st \in ChatState /\ ChatSound(p.st)
  BY MovedOn DEF Noted, ChatPair, ChatState, ChatSound
<1>2. /\ st.thinking = FALSE /\ st.open = p.st.open /\ st.index = p.st.index + 1
      /\ st.calls = p.st.calls /\ st.started = p.st.started
  BY <1>1 DEF ChatState
<1> HIDE DEF st
<1>3. ChatSound(st) /\ Size(st) = Size(p.st)
  BY <1>1, <1>2, SoundOn DEF Size
<1>4. a \in Body /\ ~IsStart(a) /\ ~IsArgs(a) /\ b \in Body /\ ~IsStart(b) /\ ~IsArgs(b)
  BY <1>1, BodyTyped, BookEvents DEF Idents, BlockKinds, Names
<1>5. Signed(p) = [st |-> st, out |-> p.out \o <<a, b>>]
  BY DEF Signed, st
<1> HIDE DEF a, b
<1>6. Plain(<<a, b>>) /\ <<a, b>> \in Seq(Body)
  BY <1>4, PlainOnes
<1>7. Noted(o, t, [st |-> st, out |-> p.out \o <<a, b>>])
  BY <1>1, <1>2, <1>3, <1>6, NotePlain
<1> QED
  BY <1>1, <1>2, <1>5, <1>7

LEMMA CloseThinkingNotes ==
    ASSUME NEW o, NEW t, NEW p, Noted(o, t, p)
    PROVE  LET c == CloseThinkingBlockIfOpen(p)
           IN /\ Noted(o, t, c) /\ ~c.st.thinking
              /\ p.st.thinking => ~c.st.open
              /\ ~p.st.thinking => c = p
<1>1. CASE p.st.thinking
  <2>1. CloseThinkingBlockIfOpen(p) = Signed(p)
    BY <1>1 DEF CloseThinkingBlockIfOpen, Signed
  <2> QED
    BY <1>1, <2>1, SignedNotes
<1>2. CASE ~p.st.thinking
  BY <1>2 DEF CloseThinkingBlockIfOpen
<1> QED
  BY <1>1, <1>2

\* A block of thinking or text is begun where none is, and has a delta.
LEMMA BegunNotes ==
    ASSUME NEW o, NEW t, NEW p, Noted(o, t, p), NEW kind \in {"thinking", "text"},
           NEW running \in BOOLEAN, running <=> p.st.open \/ p.st.thinking,
           NEW st \in ChatState, st.started, ChatSound(st), st.calls = p.st.calls,
           st.index = p.st.index, st.open \/ st.thinking
    PROVE  Noted(o, t, [st |-> st,
             out |-> p.out \o (IF running THEN <<>> ELSE <<BlockStart(p.st.index, kind, <<>>)>>)
                           \o <<BlockDelta(p.st.index, kind, <<>>)>>])
<1> DEFINE n == p.st.index
           s == BlockStart(n, kind, <<>>)
           d == BlockDelta(n, kind, <<>>)
<1>1. p.st \in ChatState /\ p.out \in Seq(Body) /\ n \in Nat
  BY DEF Noted, ChatPair, ChatState
<1>2. /\ Size(st) = n + 1
      /\ running => Size(p.st) = n + 1
      /\ ~running => Size(p.st) = n
  BY DEF Size
<1> HIDE DEF n
<1>3. /\ s \in Body /\ IsStart(s) /\ Block(s) = <<n, <<>>>>
      /\ d \in Body /\ ~IsStart(d) /\ ~IsArgs(d)
  BY <1>1, BodyTyped, BookEvents DEF Idents, BlockKinds, Names
<1> HIDE DEF s, d
<1> DEFINE out == p.out \o (IF running THEN <<>> ELSE <<s>>)
<1>4. out \in Seq(Body) /\ Noted(o, t, [st |-> st, out |-> out])
  <2>1. CASE running
    <3>1. Noted(o, t, [st |-> st, out |-> p.out \o <<>>])
      BY <1>2, <2>1, NotePlain, PlainOnes, EmptySeq
    <3> QED
      BY <1>1, <2>1, <3>1
  <2>2. CASE ~running
    <3>1. Opens(<<s>>, n, <<>>) /\ <<s>> \in Seq(Body)
      BY <1>3 DEF Opens
    <3>2. Noted(o, t, [st |-> st, out |-> p.out \o <<s>>])
      BY <1>1, <1>2, <2>2, <3>1, NoteBlock
    <3>3. p.out \o <<s>> \in Seq(Body)
      BY <1>1, <3>1, ConcatProperties
    <3> QED
      BY <2>2, <3>2, <3>3
  <2> QED
    BY <2>1, <2>2
<1> HIDE DEF out
<1>5. Plain(<<d>>) /\ <<d>> \in Seq(Body)
  BY <1>3, PlainOnes
<1> DEFINE q == [st |-> st, out |-> out]
<1>6. q.st = st /\ q.out = out /\ Noted(o, t, q)
  BY <1>4
<1> HIDE DEF q
<1>7. Noted(o, t, [st |-> st, out |-> q.out \o <<d>>])
  BY <1>5, <1>6, NotePlain
<1> QED
  BY <1>6, <1>7 DEF out, s, d, n

LEMMA ThinkingTextNotes ==
    ASSUME NEW o, NEW t, NEW p, Noted(o, t, p), NEW chunk \in ChunkRecord,
           chunk.reasoning => ~p.st.open
    PROVE  LET c == HandleThinkingText(p, chunk)
           IN /\ Noted(o, t, c) /\ c.st.open = p.st.open /\ c.st.calls = p.st.calls
              /\ c.st.index = p.st.index
              /\ ~chunk.reasoning => c = p
<1>1. SUFFICES ASSUME chunk.reasoning
               PROVE  LET c == HandleThinkingText(p, chunk)
                      IN /\ Noted(o, t, c) /\ c.st.open = p.st.open /\ c.st.calls = p.st.calls
                         /\ c.st.index = p.st.index
  BY DEF HandleThinkingText
<1> DEFINE st  == [p.st EXCEPT !.thinking = TRUE]
           out == p.out \o (IF p.st.thinking THEN <<>>
                            ELSE <<BlockStart(p.st.index, "thinking", <<>>)>>)
                    \o <<BlockDelta(p.st.index, "thinking", <<>>)>>
<1>2. p.st \in ChatState /\ p.st.thinking \in BOOLEAN /\ p.st.started /\ ~p.st.open
      /\ ChatSound(p.st)
  BY <1>1 DEF Noted, ChatPair, ChatState
<1>3. st \in ChatState /\ st.thinking /\ st.open = p.st.open /\ st.index = p.st.index
      /\ st.calls = p.st.calls /\ st.started = p.st.started
  BY <1>2 DEF ChatState
<1>4. HandleThinkingText(p, chunk) = [st |-> st, out |-> out]
  BY <1>1 DEF HandleThinkingText
<1> HIDE DEF st
<1>5. ChatSound(st)
  BY <1>2, <1>3, SoundOn
<1>6. Noted(o, t, [st |-> st, out |-> out])
  BY <1>2, <1>3, <1>5, BegunNotes
<1> HIDE DEF out
<1> QED
  BY <1>3, <1>4, <1>6

\* Text leaves no call's block current.
LEMMA TextNotes ==
    ASSUME NEW o, NEW t, NEW p, Noted(o, t, p), NEW chunk \in ChunkRecord
    PROVE  LET c == HandleText(p, chunk)
           IN /\ Noted(o, t, c)
              /\ chunk.content = "text" => ~IsToolBlockOpen(c.st)
              /\ chunk.content # "text" => c = p
<1>1. SUFFICES ASSUME chunk.content = "text"
               PROVE  LET c == HandleText(p, chunk)
                      IN Noted(o, t, c) /\ ~IsToolBlockOpen(c.st)
  BY DEF HandleText
<1> DEFINE u == CloseThinkingBlockIfOpen(p)
           q == IF IsToolBlockOpen(u.st) THEN CloseContent(u) ELSE u
           st == [q.st EXCEPT !.open = TRUE]
           out == q.out \o (IF q.st.open THEN <<>> ELSE <<BlockStart(q.st.index, "text", <<>>)>>)
                    \o <<BlockDelta(q.st.index, "text", <<>>)>>
<1>2. Noted(o, t, u) /\ ~u.st.thinking
  BY CloseThinkingNotes
<1>3. HandleText(p, chunk) = [st |-> st, out |-> out]
  BY <1>1 DEF HandleText
<1> HIDE DEF u
<1>4. Noted(o, t, q) /\ ~q.st.thinking /\ ~IsToolBlockOpen(q.st)
  <2>1. CASE IsToolBlockOpen(u.st)
    BY <1>2, <2>1, CloseContentNotes DEF IsToolBlockOpen
  <2>2. CASE ~IsToolBlockOpen(u.st)
    BY <1>2, <2>2
  <2> QED
    BY <2>1, <2>2
<1> HIDE DEF q
<1>5. q.st \in ChatState /\ q.st.index \in Nat /\ q.st.open \in BOOLEAN
      /\ q.st.started /\ ChatSound(q.st) /\ q.st.calls \in [CallIndices -> Nat \cup {NoBlock}]
  BY <1>4 DEF Noted, ChatPair, ChatState
<1>6. st \in ChatState /\ st.open /\ st.thinking = q.st.thinking /\ st.index = q.st.index
      /\ st.calls = q.st.calls /\ st.started = q.st.started
  BY <1>5 DEF ChatState
<1> HIDE DEF st
<1>7. ChatSound(st)
  BY <1>4, <1>5, <1>6, SoundOn
<1>8. ~IsToolBlockOpen(st)
  <2>1. ASSUME NEW k \in CallIndices PROVE st.calls[k] # st.index
    <3>1. q.st.calls[k] \in Int
      BY <1>5 DEF NoBlock
    <3>2. q.st.calls[k] < q.st.index \/ (q.st.calls[k] = q.st.index /\ q.st.open)
      BY <1>5 DEF ChatSound
    <3>3. q.st.calls[k] = q.st.index => ~q.st.open
      BY <1>4 DEF IsToolBlockOpen
    <3> QED
      BY <1>5, <1>6, <3>1, <3>2, <3>3
  <2> QED
    BY <2>1 DEF IsToolBlockOpen
<1>9. Noted(o, t, [st |-> st, out |-> out])
  BY <1>4, <1>5, <1>6, <1>7, BegunNotes
<1> HIDE DEF out
<1> QED
  BY <1>3, <1>8, <1>9

LEMMA SignatureNotes ==
    ASSUME NEW o, NEW t, NEW p, Noted(o, t, p), NEW chunk \in ChunkRecord
    PROVE  LET c == HandleSignature(p, chunk)
           IN Noted(o, t, c) /\ (IsToolBlockOpen(c.st) => IsToolBlockOpen(p.st))
<1>1. CASE chunk.content = "empty" /\ chunk.opaque /\ p.st.thinking
  <2>1. HandleSignature(p, chunk) = Signed(p)
    BY <1>1 DEF HandleSignature, Signed
  <2> QED
    BY <1>1, <2>1, SignedNotes DEF IsToolBlockOpen
<1>2. CASE ~(chunk.content = "empty" /\ chunk.opaque /\ p.st.thinking)
  BY <1>2 DEF HandleSignature
<1> QED
  BY <1>1, <1>2

\* A whole thinking block, where no block is open.
LEMMA OpaqueNotes ==
    ASSUME NEW o, NEW t, NEW p, Noted(o, t, p), ~p.st.open, ~p.st.thinking, NEW chunk
    PROVE  LET c == HandleReasoningOpaque(p, chunk)
           IN Noted(o, t, c) /\ ~c.st.open /\ ~c.st.thinking
<1>1. SUFFICES ASSUME chunk.opaque
               PROVE  LET c == HandleReasoningOpaque(p, chunk)
                      IN Noted(o, t, c) /\ ~c.st.open /\ ~c.st.thinking
  BY DEF HandleReasoningOpaque
<1> DEFINE n == p.st.index
           st == [p.st EXCEPT !.index = @ + 1]
           a == BlockStart(n, "thinking", <<>>)
           b == BlockDelta(n, "thinking", <<>>)
           c == BlockDelta(n, "signature", <<>>)
           d == BlockStop(n)
           events == <<a, b, c, d>>
<1>2. p.st \in ChatState /\ p.out \in Seq(Body) /\ n \in Nat /\ p.st.started
      /\ ChatSound(p.st) /\ st \in ChatState
  BY MovedOn DEF Noted, ChatPair, ChatState
<1>3. st.thinking = p.st.thinking /\ st.open = p.st.open /\ st.index = n + 1
      /\ st.calls = p.st.calls /\ st.started = p.st.started
  BY <1>2 DEF ChatState
<1>4. HandleReasoningOpaque(p, chunk) = [st |-> st, out |-> p.out \o events]
  BY <1>1 DEF HandleReasoningOpaque
<1> HIDE DEF st
<1>5. ChatSound(st) /\ Size(st) = n + 1 /\ Size(p.st) = n
  BY <1>2, <1>3, SoundOn DEF Size
<1> HIDE DEF n
<1>6. a \in Body /\ b \in Body /\ c \in Body /\ d \in Body
  BY <1>2, BodyTyped DEF Idents, BlockKinds, Names
<1>7. /\ IsStart(a) /\ Block(a) = <<n, <<>>>>
      /\ ~IsStart(b) /\ ~IsArgs(b) /\ ~IsStart(c) /\ ~IsArgs(c) /\ ~IsStart(d) /\ ~IsArgs(d)
  BY BookEvents
<1> HIDE DEF a, b, c, d
<1>8. /\ events \in Seq(Body) /\ Len(events) = 4
      /\ events[1] = a /\ events[2] = b /\ events[3] = c /\ events[4] = d
  BY <1>6
<1> HIDE DEF events
<1>9. Opens(events, n, <<>>)
  <2>1. \A j \in 1 .. 4 : j # 1 => j = 2 \/ j = 3 \/ j = 4
    OBVIOUS
  <2> QED
    BY <1>7, <1>8, <2>1 DEF Opens
<1>10. Noted(o, t, [st |-> st, out |-> p.out \o events])
  BY <1>2, <1>3, <1>5, <1>8, <1>9, NoteBlock
<1> QED
  BY <1>3, <1>4, <1>10

\* A call of turn `t` carries the turn's identity.
CallOf(t, call) == call.id = CallId(t, call.index)

LEMMA NewToolCallNotes ==
    ASSUME NEW o, NEW t, NEW p, Noted(o, t, p), ~p.st.thinking,
           NEW call \in CallRecord \ {NoCall}, CallOf(t, call)
    PROVE  Noted(o, t, NewToolCall(p, call))
<1> DEFINE q == IF p.st.open THEN CloseContent(p) ELSE p
           n == q.st.index
           st == [q.st EXCEPT !.open = TRUE, !.calls[call.index] = n]
           e == ToolStart(n, call.id, call.name)
<1>1. Noted(o, t, q) /\ ~q.st.open /\ ~q.st.thinking
  BY CloseContentNotes
<1>2. NewToolCall(p, call) = [st |-> st, out |-> Append(q.out, e)]
  BY DEF NewToolCall
<1> HIDE DEF q
<1>3. q.st \in ChatState /\ q.out \in Seq(Body) /\ n \in Nat /\ q.st.started
      /\ ChatSound(q.st) /\ q.st.calls \in [CallIndices -> Nat \cup {NoBlock}]
  BY <1>1 DEF Noted, ChatPair, ChatState
<1>4. call.index \in CallIndices /\ call.id \in Idents /\ call.name \in Names
  BY DEF CallRecord
<1>5. st \in ChatState /\ st.open /\ st.thinking = q.st.thinking /\ st.index = n
      /\ st.started = q.st.started
      /\ st.calls = [q.st.calls EXCEPT ![call.index] = n]
  BY <1>3, <1>4 DEF ChatState
<1> HIDE DEF st
<1>6. Size(q.st) = n /\ Size(st) = n + 1
  BY <1>1, <1>5 DEF Size
<1>7. \A k \in CallIndices : st.calls[k] = IF k = call.index THEN n ELSE q.st.calls[k]
  BY <1>3, <1>5
<1>8. ChatSound(st)
  <2>1. \A k \in CallIndices : q.st.calls[k] < n
    BY <1>1, <1>3 DEF ChatSound
  <2> HIDE DEF n
  <2>2. \A k \in CallIndices : st.calls[k] < n \/ st.calls[k] = n
    BY <1>7, <2>1
  <2> QED
    BY <1>1, <1>3, <1>5, <2>2 DEF ChatSound
<1>9. \A k \in CallIndices :
        st.calls[k] = q.st.calls[k] \/ (st.calls[k] = n /\ call.id = CallId(t, k))
  BY <1>7 DEF CallOf
<1>10. e \in Body /\ IsStart(e) /\ Block(e) = <<n, call.id>>
  BY <1>3, <1>4, BodyTyped, BookEvents DEF BlockKinds
<1> HIDE DEF n, e
<1>11. <<e>> \in Seq(Body) /\ Opens(<<e>>, n, call.id)
  BY <1>10 DEF Opens
<1>12. Append(q.out, e) = q.out \o <<e>>
  BY <1>3, <1>10, AppendIsConcat
<1> DEFINE events == <<e>>
           id == call.id
<1> HIDE DEF events, id
<1>13. Noted(o, t, [st |-> st, out |-> q.out \o events])
  <2>1. /\ events \in Seq(Body) /\ Opens(events, n, id) /\ st.started
        /\ \A k \in CallIndices :
             st.calls[k] = q.st.calls[k] \/ (st.calls[k] = n /\ id = CallId(t, k))
    BY <1>3, <1>5, <1>9, <1>11 DEF events, id
  <2>2. n \in Nat /\ st \in ChatState
    BY <1>3, <1>5
  <2>3. Noted(o, t, q) /\ n = Size(q.st) /\ Size(st) = n + 1
    BY <1>1, <1>6
  <2> QED
    BY ONLY <1>8, <2>1, <2>2, <2>3, NoteBlock
<1> QED
  BY <1>2, <1>12, <1>13 DEF events

\* Arguments go to the block that is in the book for their call.
LEMMA ToolArgumentsNotes ==
    ASSUME NEW o, NEW t, NEW p, Noted(o, t, p), NEW call \in CallRecord \ {NoCall},
           CallOf(t, call)
    PROVE  Noted(o, t, ToolArguments(p, call, call.id))
<1>1. SUFFICES ASSUME p.st.calls[call.index] # NoBlock
               PROVE  Noted(o, t, ToolArguments(p, call, call.id))
  BY DEF ToolArguments
<1> DEFINE n == p.st.calls[call.index]
           e == BlockDelta(n, "input_json", call.id)
           b == o \cup Starts(p.out)
<1>2. call.index \in CallIndices /\ call.id \in Idents /\ call.id = CallId(t, call.index)
  BY DEF CallRecord, CallOf
<1>3. p.st \in ChatState /\ p.out \in Seq(Body) /\ p.st.started /\ ChatSound(p.st) /\ n \in Nat
  BY <1>1, <1>2 DEF Noted, ChatPair, ChatState
<1>4. <<n, call.id>> \in b
  BY <1>1, <1>2 DEF Noted, ChatBook
<1>5. e \in Body /\ ~IsStart(e) /\ Block(e) = <<n, call.id>>
  BY <1>2, <1>3, BodyTyped, BookEvents DEF BlockKinds, Names
<1>6. ToolArguments(p, call, call.id) = [p EXCEPT !.out = Append(@, e)]
  BY <1>1 DEF ToolArguments
<1> HIDE DEF n, e
<1>7. Entitled(b, e) /\ Started(e) = {}
  BY <1>4, <1>5 DEF Entitled, Started
<1>8. <<e>> \in Seq(Body) /\ Starts(<<e>>) = {} /\ Kept(b, <<e>>)
  BY <1>5, <1>7, KeptOne
<1>9. ChatBook(b \cup Starts(<<e>>), t, p.st)
  <2>1. b \cup Starts(<<e>>) = b
    BY <1>8
  <2> QED
    BY <2>1 DEF Noted
<1>10. Noted(o, t, [st |-> p.st, out |-> p.out \o <<e>>])
  BY <1>3, <1>8, <1>9, NoteMore
<1>11. [p EXCEPT !.out = Append(@, e)] = [st |-> p.st, out |-> p.out \o <<e>>]
  <2>1. Append(p.out, e) = p.out \o <<e>>
    BY <1>3, <1>5, AppendIsConcat
  <2>2. ASSUME NEW x PROVE [p EXCEPT !.out = x] = [st |-> p.st, out |-> x]
    BY DEF Noted, ChatPair
  <2> QED
    BY <2>1, <2>2
<1> QED
  BY <1>6, <1>10, <1>11

\* A tool call, new or known, of any block.
LEMMA ToolCallsNotes ==
    ASSUME NEW o, NEW t, NEW p, Noted(o, t, p), NEW chunk \in ChunkRecord, chunk.call # NoCall,
           CallOf(t, chunk.call), chunk.opaque => ~IsToolBlockOpen(p.st)
    PROVE  Noted(o, t, HandleToolCalls(p, chunk))
<1> DEFINE c      == CloseThinkingBlockIfOpen(p)
           u      == IF c.st.open /\ ~IsToolBlockOpen(c.st) THEN CloseContent(c) ELSE c
           opened == HandleReasoningOpaqueInToolCalls(c, chunk)
           named  == IF chunk.call.name = "none" THEN opened ELSE NewToolCall(opened, chunk.call)
<1>1. chunk.call \in CallRecord \ {NoCall} /\ chunk.opaque \in BOOLEAN
  BY DEF ChunkRecord
<1>2. /\ Noted(o, t, c) /\ ~c.st.thinking
      /\ p.st.thinking => ~c.st.open
      /\ ~p.st.thinking => c = p
  BY CloseThinkingNotes
<1>3. chunk.opaque => ~IsToolBlockOpen(c.st)
  BY <1>2 DEF IsToolBlockOpen
<1>4. HandleToolCalls(p, chunk) =
        IF chunk.call.args THEN ToolArguments(named, chunk.call, chunk.call.id) ELSE named
  BY DEF HandleToolCalls
<1>5. opened = HandleReasoningOpaque(u, chunk)
  BY DEF HandleReasoningOpaqueInToolCalls
<1> HIDE DEF c
<1>6. Noted(o, t, u) /\ ~u.st.thinking /\ (chunk.opaque => ~u.st.open)
  BY <1>2, <1>3, CloseContentNotes
<1> HIDE DEF u, opened
<1>7. Noted(o, t, opened) /\ ~opened.st.thinking
  <2>1. CASE chunk.opaque
    BY <1>5, <1>6, <2>1, OpaqueNotes
  <2>2. CASE ~chunk.opaque
    BY <1>5, <1>6, <2>2 DEF HandleReasoningOpaque
  <2> QED
    BY <2>1, <2>2
<1>8. Noted(o, t, named)
  BY <1>1, <1>7, NewToolCallNotes
<1> HIDE DEF named
<1>9. Noted(o, t, ToolArguments(named, chunk.call, chunk.call.id))
  BY <1>1, <1>8, ToolArgumentsNotes
<1> QED
  BY <1>4, <1>8, <1>9

\* The end of a message starts no block but that of an opaque signature.
LEMMA FinishNotes ==
    ASSUME NEW o, NEW t, NEW p, Noted(o, t, p), NEW chunk \in ChunkRecord
    PROVE  Kept(o, HandleFinish(p, chunk).out)
<1>1. SUFFICES ASSUME chunk.finish # "none" PROVE Kept(o, HandleFinish(p, chunk).out)
  BY DEF HandleFinish, Noted
<1> DEFINE tool   == IsToolBlockOpen(p.st)
           q      == IF p.st.open THEN CloseContent(p) ELSE p
           closed == IF p.st.open /\ ~tool THEN HandleReasoningOpaque(q, chunk) ELSE q
<1>2. Noted(o, t, q) /\ (p.st.open => ~q.st.open /\ ~q.st.thinking)
  BY CloseContentNotes
<1>3. HandleFinish(p, chunk) = [closed EXCEPT !.out = @ \o Terminal(chunk.finish)]
  BY <1>1 DEF HandleFinish
<1> HIDE DEF q
<1>4. Noted(o, t, closed)
  BY <1>2, OpaqueNotes
<1> HIDE DEF closed
<1>5. closed \in ChatPair /\ closed.out \in Seq(Body) /\ Kept(o, closed.out)
  BY <1>4 DEF Noted, ChatPair
<1>6. HandleFinish(p, chunk).out = closed.out \o Terminal(chunk.finish)
  BY <1>3, <1>5 DEF ChatPair
<1>7. closed.out \in Seq(Stream) /\ Terminal(chunk.finish) \in Seq(Stream)
  BY <1>5, StreamTyped, SeqMonotonic DEF ChunkRecord
<1>8. Plain(Terminal(chunk.finish))
  BY PlainOnes DEF Terminal, Event, IsStart, IsArgs
<1>9. Kept(o \cup Starts(closed.out), Terminal(chunk.finish))
  BY <1>7, <1>8, KeptPlain
<1> QED
  BY <1>5, <1>6, <1>7, <1>9, KeptOn

LEMMA MessageStartNotes ==
    ASSUME NEW o, NEW t, NEW st \in ChatState, ChatSound(st), ChatBook(o, t, st)
    PROVE  LET c == HandleMessageStart([st |-> st, out |-> <<>>])
           IN /\ Noted(o, t, c) /\ c.st.open = st.open /\ c.st.calls = st.calls
              /\ c.st.index = st.index
<1> DEFINE p == [st |-> st, out |-> <<>>]
           s == [st EXCEPT !.started = TRUE]
           e == Event("message_start")
           c == HandleMessageStart(p)
<1>1. /\ c.st = IF st.started THEN st ELSE s
      /\ c.out = IF st.started THEN <<>> ELSE Append(<<>>, e)
  BY DEF HandleMessageStart
<1>2. c \in ChatPair
  <2>1. p \in ChatPair
    BY EmptySeq DEF ChatPair
  <2> QED
    BY <2>1, MessageStartTyped
<1>3. /\ c.st.started /\ c.st.open = st.open /\ c.st.thinking = st.thinking
      /\ c.st.calls = st.calls /\ c.st.index = st.index
  BY <1>1 DEF ChatState
<1>4. ~IsStart(e) /\ ~IsArgs(e)
  BY BookEvents
<1> HIDE DEF s, e
<1>5. Plain(c.out) /\ c.out \in Seq(Body)
  <2>1. Append(<<>>, e) = <<e>>
    OBVIOUS
  <2> QED
    BY <1>1, <1>2, <1>4, <2>1, PlainOnes DEF ChatPair
<1> HIDE DEF c
<1>6. Starts(c.out) = {} /\ Kept(o, c.out)
  BY <1>5, KeptPlain
<1>7. ChatSound(c.st)
  BY <1>3 DEF ChatSound
<1>8. ChatBook(o \cup Starts(c.out), t, c.st)
  <2>1. o \cup Starts(c.out) = o /\ Size(c.st) = Size(st)
    BY <1>3, <1>6 DEF Size
  <2> QED
    BY <1>3, <2>1 DEF ChatBook
<1> QED
  BY <1>2, <1>3, <1>6, <1>7, <1>8 DEF Noted, c

\* A chunk's events keep to the book, and what follows it does unless it was the last.
LEMMA ChunkNotes ==
    ASSUME NEW o, NEW t, NEW st \in ChatState, ChatSound(st), ChatBook(o, t, st),
           NEW chunk \in ChunkRecord, chunk.call # NoCall => CallOf(t, chunk.call),
           chunk.opaque => ~IsToolBlockOpen(st)
    PROVE  LET p == TranslateChunk(st, chunk)
           IN /\ Kept(o, p.out)
              /\ chunk.finish = "none" =>
                   ChatSound(p.st) /\ ChatBook(o \cup Starts(p.out), t, p.st)
<1> DEFINE begun   == HandleMessageStart([st |-> st, out |-> <<>>])
           delta   == Rerouted(begun.st, chunk)
           thought == HandleThinkingText(begun, delta)
           text    == HandleText(thought, delta)
           content == HandleSignature(text, delta)
           called  == HandleToolCalls(content, delta)
<1>1. /\ Noted(o, t, begun) /\ begun.st.open = st.open
      /\ begun.st.calls = st.calls /\ begun.st.index = st.index
  BY MessageStartNotes
<1>2. /\ delta \in ChunkRecord /\ delta.call = chunk.call /\ delta.finish = chunk.finish
      /\ delta.opaque = chunk.opaque
      /\ delta.reasoning => ~begun.st.open
  BY DEF Rerouted, ChunkRecord
<1>3. TranslateChunk(st, chunk) = HandleFinish(called, delta)
  BY DEF TranslateChunk, HandleContent
<1> HIDE DEF begun, delta
<1>4. /\ Noted(o, t, thought) /\ thought.st.open = st.open /\ thought.st.calls = st.calls
      /\ thought.st.index = st.index
  BY <1>1, <1>2, ThinkingTextNotes
<1> HIDE DEF thought
<1>5. /\ Noted(o, t, text)
      /\ delta.content = "text" => ~IsToolBlockOpen(text.st)
      /\ delta.content # "text" => text = thought
  BY <1>2, <1>4, TextNotes
<1> HIDE DEF text
<1>6. Noted(o, t, content) /\ (IsToolBlockOpen(content.st) => IsToolBlockOpen(text.st))
  BY <1>2, <1>5, SignatureNotes
<1> HIDE DEF content
<1>7. delta.opaque => ~IsToolBlockOpen(content.st)
  BY <1>2, <1>4, <1>5, <1>6 DEF IsToolBlockOpen
<1>8. Noted(o, t, called)
  <2>1. CASE chunk.call = NoCall
    BY <1>2, <1>6, <2>1 DEF HandleToolCalls
  <2>2. CASE chunk.call # NoCall
    BY <1>2, <1>6, <1>7, <2>2, ToolCallsNotes
  <2> QED
    BY <2>1, <2>2
<1> HIDE DEF called
<1>9. Kept(o, HandleFinish(called, delta).out)
  BY <1>2, <1>8, FinishNotes
<1>10. chunk.finish = "none" => HandleFinish(called, delta) = called
  BY <1>2 DEF HandleFinish
<1> QED
  BY <1>3, <1>8, <1>9, <1>10 DEF Noted

-----------------------------------------------------------------------------
(* What the Responses translator has in the book: all blocks it numbered,    *)
(* and the block of each part and of each call under its key.                *)

Numbering(o, st) ==
    /\ Numbers(o, st.next)
    /\ \A k \in PartKeys : st.blockByKey[k] # NoBlock => <<st.blockByKey[k], k>> \in o
    /\ \A x \in Outputs :
         st.functions[x] # NoFunction => <<st.functions[x].block, PartKey(x, 0)>> \in o

\* A handler's pair whose events keep to book `o`, and whose state is in the book after them.
Wrote(o, p) ==
    p.out \in Seq(Written) /\ Kept(o, p.out) /\ Numbering(o \cup Starts(p.out), p.st)

\* State `b` numbers the blocks as `a` does, and has no call that `a` has not.
Fewer(a, b) ==
    /\ b.next = a.next /\ b.blockByKey = a.blockByKey
    /\ \A x \in Outputs :
         \/ b.functions[x] = NoFunction
         \/ a.functions[x] # NoFunction /\ b.functions[x].block = a.functions[x].block

LEMMA FewerNumbering ==
    ASSUME NEW o, NEW a, NEW b, Numbering(o, a), Fewer(a, b) PROVE Numbering(o, b)
  BY DEF Numbering, Fewer

LEMMA WrotePlain ==
    ASSUME NEW o, NEW p, Wrote(o, p), NEW events \in Seq(Written), Plain(events), NEW q,
           q.out = p.out \o events, Fewer(p.st, q.st)
    PROVE  Wrote(o, q)
<1> DEFINE out == p.out \o events
<1>1. Starts(events) = {} /\ Kept(o \cup Starts(p.out), events)
  BY KeptPlain
<1>2. p.out \in Seq(Written) /\ Kept(o, p.out) /\ Numbering(o \cup Starts(p.out), p.st)
  BY DEF Wrote
<1>3. out \in Seq(Written) /\ Starts(out) = Starts(p.out) \cup Starts(events) /\ Kept(o, out)
  <2> DEFINE told == p.out
  <2>1. told \in Seq(Written)
    BY <1>2
  <2> HIDE DEF told
  <2>2. /\ Starts(told \o events) = Starts(told) \cup Starts(events)
        /\ Kept(o, told \o events) <=> Kept(o, told) /\ Kept(o \cup Starts(told), events)
    BY <2>1, KeptOn
  <2>3. told \o events \in Seq(Written)
    BY <2>1, ConcatProperties
  <2> QED
    BY <1>1, <1>2, <2>2, <2>3 DEF told
<1> HIDE DEF out
<1>4. Starts(out) = Starts(p.out) /\ q.out = out
  BY <1>1, <1>3 DEF out
<1> QED
  BY <1>2, <1>3, <1>4, FewerNumbering DEF Wrote

\* An event that starts no block, and is of the book if it carries arguments.
LEMMA WroteOne ==
    ASSUME NEW o, NEW p, Wrote(o, p), NEW e \in Written, ~IsStart(e),
           IsArgs(e) => Block(e) \in o \cup Starts(p.out), NEW q,
           q.out = Append(p.out, e), Fewer(p.st, q.st)
    PROVE  Wrote(o, q)
<1> DEFINE events == <<e>>
           out == p.out \o events
<1>1. Starts(events) = {} /\ Kept(o \cup Starts(p.out), events)
  BY KeptOne DEF Entitled, Started
<1>2. p.out \in Seq(Written) /\ Kept(o, p.out) /\ Numbering(o \cup Starts(p.out), p.st)
      /\ events \in Seq(Written)
  BY DEF Wrote
<1>3. Append(p.out, e) = out
  BY <1>2, AppendIsConcat
<1> HIDE DEF events
<1>4. out \in Seq(Written) /\ Starts(out) = Starts(p.out) \cup Starts(events) /\ Kept(o, out)
  <2> DEFINE told == p.out
  <2>1. told \in Seq(Written)
    BY <1>2
  <2> HIDE DEF told
  <2>2. /\ Starts(told \o events) = Starts(told) \cup Starts(events)
        /\ Kept(o, told \o events) <=> Kept(o, told) /\ Kept(o \cup Starts(told), events)
    BY <1>2, <2>1, KeptOn
  <2>3. told \o events \in Seq(Written)
    BY <1>2, <2>1, ConcatProperties
  <2> QED
    BY <1>1, <1>2, <2>2, <2>3 DEF told
<1> HIDE DEF out
<1>5. Starts(out) = Starts(p.out) /\ q.out = out
  BY <1>1, <1>3, <1>4
<1> QED
  BY <1>2, <1>4, <1>5, FewerNumbering DEF Wrote

LEMMA SequencesWritten ==
    /\ \A s \in Seq(Stream) : s \in Seq(Written)
    /\ Stream \subseteq Written /\ ArgumentsDelta \subseteq Written /\ <<>> \in Seq(Written)
<1>1. Stream \subseteq Written /\ ArgumentsDelta \subseteq Written
  BY WrittenReadable DEF Written
<1> QED
  BY <1>1, SeqMonotonic, EmptySeq

LEMMA StopsPlain ==
    ASSUME NEW st \in ResponsesState PROVE Plain(Stops(st.open))
<1>1. st.open = {} \/ \E b : st.open = {b}
  BY DEF ResponsesState, Numbered
<1>2. \A b : ~IsStart(BlockStop(b)) /\ ~IsArgs(BlockStop(b))
  BY BookEvents
<1>3. ASSUME NEW b, st.open = {b} PROVE Plain(Stops(st.open))
  <2>1. Plain(<<BlockStop(b)>>)
    BY <1>2, PlainOnes
  <2> QED
    BY <1>3, <2>1, OneStop
<1> QED
  BY <1>1, <1>3, OneStop, PlainOnes

LEMMA UnchangedWrote ==
    ASSUME NEW o, NEW st \in ResponsesState, Numbering(o, st)
    PROVE  Wrote(o, Unchanged(st)) /\ Unchanged(st) \in ResponsesPair /\ Unchanged(st).st = st
<1>1. Unchanged(st).out = <<>> /\ Unchanged(st).st = st
  BY DEF Unchanged
<1>2. o \cup {} = o
  OBVIOUS
<1> QED
  BY <1>1, <1>2, KeptNone, SequencesWritten, UnchangedTyped DEF Wrote

\* A block is opened that is in the book for its key, or is the next one.
LEMMA OpeningWrote ==
    ASSUME NEW kept \in ResponsesState, NEW b \in 0 .. kept.next - 1, NEW key,
           NEW start \in Stream, IsStart(start), Block(start) = <<b, key>>, NEW o,
           Numbering(o \cup {<<b, key>>}, kept),
           <<b, key>> \in o \/ (Numbers(o, b) /\ b \notin kept.open)
    PROVE  LET p == OpenIfNeeded(Unchanged(kept), b, start)
           IN Wrote(o, p) /\ <<b, key>> \in o \cup Starts(p.out)
<1> DEFINE u == Unchanged(kept)
           p == OpenIfNeeded(u, b, start)
           s == OpeningOf(kept.open, b, start)
           stops == Stops(kept.open)
<1>1. u \in ResponsesPair /\ u.st = kept /\ u.out = <<>>
  BY UnchangedTyped DEF Unchanged
<1>2. stops \in Seq(Stream)
  BY <1>1, StopsTyped
<1> HIDE DEF u
<1>3. p.st = Opened(kept, b) /\ p.out = <<>> \o s
  <2>1. b \in 0 .. u.st.next - 1
    BY <1>1
  <2>2. p.st = Opened(u.st, b) /\ p.out = u.out \o OpeningOf(u.st.open, b, start)
    BY <1>1, <2>1, OpenedTyped
  <2> QED
    BY <1>1, <2>2
<1>4. s = IF b \in kept.open THEN <<>> ELSE Append(stops, start)
  BY DEF OpeningOf
<1>5. Plain(stops)
  BY StopsPlain
<1> HIDE DEF p, s, stops
<1>6. Fewer(kept, p.st)
  <2>1. /\ p.st.next = kept.next /\ p.st.blockByKey = kept.blockByKey
        /\ p.st.functions = kept.functions
    BY <1>3 DEF Opened, ResponsesState, ResponsesFields
  <2> QED
    BY <2>1 DEF Fewer
<1>7. CASE b \in kept.open
  <2>1. p.out = <<>>
    BY <1>3, <1>4, <1>7
  <2>2. Starts(p.out) = {} /\ Kept(o, p.out)
    BY <2>1, KeptNone
  <2>3. o \cup {<<b, key>>} = o /\ o \cup Starts(p.out) = o /\ <<b, key>> \in o
    BY <1>7, <2>2
  <2>4. Numbering(o \cup Starts(p.out), p.st)
    BY <1>6, <2>3, FewerNumbering
  <2> QED
    BY <2>1, <2>2, <2>3, <2>4, SequencesWritten DEF Wrote, p, u
<1>8. CASE b \notin kept.open
  <2> DEFINE a == <<start>>
             out == stops \o a
  <2>1. a \in Seq(Stream) /\ Starts(a) = {<<b, key>>} /\ Kept(o, a)
    <3>1. Entitled(o, start) /\ Started(start) = {<<b, key>>}
      <4>1. start.index = b /\ ~IsArgs(start)
        BY DEF Block, IsStart, IsArgs
      <4> QED
        BY <4>1 DEF Entitled, Started
    <3> QED
      BY <3>1, KeptOne
  <2>2. Append(stops, start) = out
    BY <1>2, AppendIsConcat
  <2> HIDE DEF a
  <2>3. Starts(stops) = {} /\ Kept(o, stops)
    BY <1>2, <1>5, KeptPlain
  <2>4. out \in Seq(Stream) /\ Starts(out) = Starts(stops) \cup Starts(a)
        /\ (Kept(o, out) <=> Kept(o, stops) /\ Kept(o \cup Starts(stops), a))
    <3>1. stops \o a \in Seq(Stream)
      BY <1>2, <2>1, ConcatProperties
    <3>2. /\ Starts(stops \o a) = Starts(stops) \cup Starts(a)
          /\ Kept(o, stops \o a) <=> Kept(o, stops) /\ Kept(o \cup Starts(stops), a)
      BY <1>2, <2>1, KeptOn
    <3> QED
      BY <3>1, <3>2
  <2>5. o \cup Starts(stops) = o
    BY <2>3
  <2> HIDE DEF out
  <2>6. p.out = out
    <3>1. <<>> \o out = out
      BY <2>4, ConcatEmptySeq
    <3> QED
      BY <1>3, <1>4, <1>8, <2>2, <3>1
  <2>7. Starts(p.out) = {<<b, key>>} /\ Kept(o, p.out) /\ p.out \in Seq(Written)
    BY <2>1, <2>3, <2>4, <2>5, <2>6, SequencesWritten
  <2>8. Numbering(o \cup Starts(p.out), p.st)
    BY <1>6, <2>7, FewerNumbering
  <2> QED
    BY <2>7, <2>8 DEF Wrote, p, u
<1> QED
  BY <1>7, <1>8

LEMMA OpenPartWrote ==
    ASSUME NEW o, NEW st \in ResponsesState, Numbering(o, st), NEW kind \in BlockKinds,
           NEW key \in PartKeys
    PROVE  LET p == OpenPart(st, kind, key)
           IN Wrote(o, p) /\ <<p.st.blockByKey[key], key>> \in o \cup Starts(p.out)
<1> DEFINE kept == PartAllocated(st, key)
           b == kept.blockByKey[key]
           start == BlockStart(b, kind, key)
<1>1. st \in ResponsesFields /\ Numbered(st) /\ st.next \in Nat
  BY DEF ResponsesState, ResponsesFields
<1>2. kept \in ResponsesState /\ b \in 0 .. kept.next - 1
  BY PartAllocatedTyped
<1>3. /\ OpenPart(st, kind, key) = OpenIfNeeded(Unchanged(kept), b, start)
      /\ OpenPart(st, kind, key).st.blockByKey[key] = b /\ b \in Nat
  BY OpenPartTyped
<1>4. start \in Stream /\ IsStart(start) /\ Block(start) = <<b, key>>
  BY <1>3, BodyTyped, StreamTyped, BookEvents DEF Idents, Names
<1>5. Numbering(o \cup {<<b, key>>}, kept) /\ (<<b, key>> \in o \/ (Numbers(o, b) /\ b \notin kept.open))
  <2>1. CASE st.blockByKey[key] # NoBlock
    <3>1. kept = st /\ <<b, key>> \in o
      BY <2>1 DEF PartAllocated, Numbering
    <3>2. o \cup {<<b, key>>} = o
      BY <3>1
    <3> QED
      BY <3>1, <3>2
  <2>2. CASE st.blockByKey[key] = NoBlock
    <3>1. /\ kept.next = st.next + 1 /\ kept.functions = st.functions /\ kept.open = st.open
          /\ kept.blockByKey = [st.blockByKey EXCEPT ![key] = st.next] /\ b = st.next
      BY <1>1, <2>2 DEF PartAllocated, ResponsesFields
    <3> HIDE DEF kept
    <3>2. \A k \in PartKeys : kept.blockByKey[k] = IF k = key THEN b ELSE st.blockByKey[k]
      BY <1>1, <3>1 DEF ResponsesFields
    <3> HIDE DEF b
    <3>3. b \notin kept.open
      BY <1>1, <3>1 DEF Numbered
    <3>4. Numbers(o, b)
      BY <3>1 DEF Numbering
    <3>5. PICK m \in Nat : m = b + 1
      BY <1>3
    <3>6. Numbers(o \cup {<<b, key>>}, m)
      BY <1>3, <3>4, <3>5, NumbersMore
    <3>7. Numbering(o \cup {<<b, key>>}, kept)
      BY <3>1, <3>2, <3>5, <3>6 DEF Numbering
    <3> QED
      BY <3>3, <3>4, <3>7
  <2> QED
    BY <2>1, <2>2
<1> HIDE DEF kept, b, start
<1>6. LET p == OpenIfNeeded(Unchanged(kept), b, start)
      IN Wrote(o, p) /\ <<b, key>> \in o \cup Starts(p.out)
  BY <1>2, <1>4, <1>5, OpeningWrote
<1> QED
  BY <1>3, <1>6

LEMMA OpenFunctionWrote ==
    ASSUME NEW o, NEW st \in ResponsesState, Numbering(o, st), NEW x \in Outputs
    PROVE  LET p == OpenFunction(st, x)
           IN Wrote(o, p) /\ <<p.st.functions[x].block, PartKey(x, 0)>> \in o \cup Starts(p.out)
<1> DEFINE kept == CallAllocated(st, x)
           b == kept.functions[x].block
           key == PartKey(x, 0)
           start == ToolStart(b, key, "client")
<1>1. st \in ResponsesFields /\ Numbered(st) /\ st.next \in Nat
  BY DEF ResponsesState, ResponsesFields
<1>2. kept \in ResponsesState /\ b \in 0 .. kept.next - 1
  BY CallAllocatedTyped
<1>3. /\ OpenFunction(st, x) = OpenIfNeeded(Unchanged(kept), b, start)
      /\ OpenFunction(st, x).st.functions[x] = kept.functions[x] /\ b \in Nat
  BY OpenFunctionTyped
<1>4. start \in Stream /\ IsStart(start) /\ Block(start) = <<b, key>>
  <2>1. key \in Idents
    BY KeyTyped, PartsAssumption DEF Idents
  <2> QED
    BY <1>3, <2>1, BodyTyped, StreamTyped, BookEvents DEF Names, BlockKinds
<1>5. Numbering(o \cup {<<b, key>>}, kept) /\ (<<b, key>> \in o \/ (Numbers(o, b) /\ b \notin kept.open))
  <2>1. CASE st.functions[x] # NoFunction
    <3>1. kept = st /\ <<b, key>> \in o
      BY <2>1 DEF CallAllocated, Numbering
    <3>2. o \cup {<<b, key>>} = o
      BY <3>1
    <3> QED
      BY <3>1, <3>2
  <2>2. CASE st.functions[x] = NoFunction
    <3> DEFINE call == [block |-> st.next, breaks |-> 0]
    <3>1. /\ kept.next = st.next + 1 /\ kept.blockByKey = st.blockByKey /\ kept.open = st.open
          /\ kept.functions = [st.functions EXCEPT ![x] = call]
      BY <1>1, <2>2 DEF CallAllocated, ResponsesFields
    <3>c. call.block = st.next
      OBVIOUS
    <3> HIDE DEF kept, call
    <3>2. \A k \in Outputs : kept.functions[k] = IF k = x THEN call ELSE st.functions[k]
      BY <1>1, <3>1 DEF ResponsesFields
    <3>n. b = st.next
      BY <3>c, <3>2
    <3> HIDE DEF b, key
    <3>3. b \notin kept.open
      BY <1>1, <3>1, <3>n DEF Numbered
    <3>4. Numbers(o, b)
      BY <3>n DEF Numbering
    <3>5. PICK m \in Nat : m = b + 1
      BY <1>3
    <3>6. Numbers(o \cup {<<b, key>>}, m)
      BY <1>3, <3>4, <3>5, NumbersMore
    <3>7. Numbering(o \cup {<<b, key>>}, kept)
      <4>1. Numbers(o \cup {<<b, key>>}, kept.next)
        BY <3>1, <3>n, <3>5, <3>6
      <4>2. ASSUME NEW k \in Outputs, kept.functions[k] # NoFunction
            PROVE  <<kept.functions[k].block, PartKey(k, 0)>> \in o \cup {<<b, key>>}
        <5>1. CASE k = x
          BY <3>c, <3>2, <3>n, <5>1 DEF key
        <5>2. CASE k # x
          BY <3>2, <4>2, <5>2 DEF Numbering
        <5> QED
          BY <5>1, <5>2
      <4> QED
        BY <3>1, <4>1, <4>2 DEF Numbering
    <3> QED
      BY <3>3, <3>4, <3>7
  <2> QED
    BY <2>1, <2>2
<1> HIDE DEF kept, b, start, key
<1>6. LET p == OpenIfNeeded(Unchanged(kept), b, start)
      IN Wrote(o, p) /\ <<b, key>> \in o \cup Starts(p.out)
  BY <1>2, <1>4, <1>5, OpeningWrote
<1> QED
  BY <1>3, <1>6 DEF b, key

LEMMA FewerSelf ==
    ASSUME NEW st \in ResponsesState PROVE Fewer(st, st)
  BY DEF Fewer

LEMMA ClosedAllWrote ==
    ASSUME NEW o, NEW p \in ResponsesPair, Wrote(o, p)
    PROVE  Wrote(o, CloseAllOpenBlocks(p)) /\ CloseAllOpenBlocks(p) \in ResponsesPair
<1> DEFINE q == CloseAllOpenBlocks(p)
           s == Stops(p.st.open)
<1>1. /\ q \in ResponsesPair /\ q.out = p.out \o s
      /\ q.st = [p.st EXCEPT !.open = {}, !.hasDelta = {},
                             !.functions = [x \in Outputs |-> NoFunction]]
  BY ClosedAllTyped
<1>2. s \in Seq(Written) /\ Plain(s)
  BY StopsTyped, StopsPlain, SequencesWritten DEF ResponsesPair
<1> HIDE DEF q, s
<1>3. Fewer(p.st, q.st)
  <2>1. /\ q.st.next = p.st.next /\ q.st.blockByKey = p.st.blockByKey
        /\ \A x \in Outputs : q.st.functions[x] = NoFunction
    BY <1>1 DEF ResponsesPair, ResponsesState, ResponsesFields
  <2> QED
    BY <2>1 DEF Fewer
<1>4. Wrote(o, q)
  BY <1>1, <1>2, <1>3, WrotePlain
<1> QED
  BY <1>1, <1>4 DEF q

LEMMA CompletedFewer ==
    ASSUME NEW st \in ResponsesState PROVE Fewer(st, [st EXCEPT !.completed = TRUE])
  BY DEF Fewer, ResponsesState, ResponsesFields

LEMMA FailedWrote ==
    ASSUME NEW o, NEW p \in ResponsesPair, Wrote(o, p)
    PROVE  Wrote(o, Failed(p))
<1> DEFINE q == CloseAllOpenBlocks(p)
           st == [q.st EXCEPT !.completed = TRUE]
           out == Append(q.out, ErrorEvent)
<1>1. q \in ResponsesPair /\ Wrote(o, q)
  BY ClosedAllWrote
<1> HIDE DEF q
<1>2. q = [st |-> q.st, out |-> q.out] /\ q.out \in Seq(Stream) /\ q.st \in ResponsesState
  BY <1>1 DEF ResponsesPair
<1>3. [q EXCEPT !.st.completed = TRUE] = [st |-> st, out |-> q.out]
  BY <1>2, CompletedUpdate
<1>4. Fewer(q.st, st)
  BY <1>2, CompletedFewer
<1>5. st \in ResponsesState
  BY <1>2, CompletedTyped
<1> HIDE DEF st
<1>6. [st |-> st, out |-> q.out] \in ResponsesPair
  BY <1>2, <1>5, ResponsesPairTyped
<1>7. Emit([st |-> st, out |-> q.out], ErrorEvent) = [st |-> st, out |-> out]
  BY <1>6, EmitTyped, StreamTyped
<1>8. Failed(p) = [st |-> st, out |-> out]
  BY <1>3, <1>7 DEF Failed, q
<1> HIDE DEF out
<1>9. Failed(p).st = st /\ Failed(p).out = out
  BY <1>8
<1>10. ErrorEvent \in Written /\ ~IsStart(ErrorEvent) /\ ~IsArgs(ErrorEvent)
  BY StreamTyped, SequencesWritten, BookEvents DEF ErrorEvent
<1> DEFINE r == Failed(p)
<1> HIDE DEF r
<1>11. r.out = Append(q.out, ErrorEvent) /\ Fewer(q.st, r.st)
  BY <1>4, <1>9 DEF out, r
<1>12. Wrote(o, r)
  BY <1>1, <1>10, <1>11, WroteOne
<1> QED
  BY <1>12 DEF r

\* A delta of the open block, which is of the book if it carries arguments.
LEMMA DeltaWrote ==
    ASSUME NEW o, NEW p \in ResponsesPair, Wrote(o, p), NEW e \in Written, p.st.open = {e.index},
           ~IsStart(e), IsArgs(e) => Block(e) \in o \cup Starts(p.out)
    PROVE  Wrote(o, WithDelta(p, e))
<1> DEFINE q == WithDelta(p, e)
<1>1. q.st = [p.st EXCEPT !.hasDelta = {e.index}] /\ q.out = Append(p.out, e)
  BY WithDeltaTyped
<1> HIDE DEF q
<1>2. Fewer(p.st, q.st)
  <2>1. /\ q.st.next = p.st.next /\ q.st.blockByKey = p.st.blockByKey
        /\ q.st.functions = p.st.functions
    BY <1>1 DEF ResponsesPair, ResponsesState, ResponsesFields
  <2> QED
    BY <2>1 DEF Fewer
<1>3. Wrote(o, q)
  BY <1>1, <1>2, WroteOne
<1> QED
  BY <1>3 DEF q

LEMMA EmitWrote ==
    ASSUME NEW o, NEW p \in ResponsesPair, Wrote(o, p), NEW e \in Stream, ~IsStart(e), ~IsArgs(e)
    PROVE  Wrote(o, Emit(p, e)) /\ Emit(p, e) \in ResponsesPair /\ Emit(p, e).st = p.st
<1> DEFINE q == Emit(p, e)
<1>1. q = [st |-> p.st, out |-> Append(p.out, e)] /\ q \in ResponsesPair
  BY EmitTyped
<1>2. q.st = p.st /\ q.out = Append(p.out, e)
  BY <1>1
<1> HIDE DEF q
<1>3. Fewer(p.st, q.st) /\ e \in Written
  BY <1>2, FewerSelf, SequencesWritten DEF ResponsesPair
<1>4. Wrote(o, q)
  BY <1>2, <1>3, WroteOne
<1> QED
  BY <1>1, <1>2, <1>4 DEF q

LEMMA PartEventsWrote ==
    ASSUME NEW o, NEW st \in ResponsesState, Numbering(o, st), NEW e \in ItemRecord
    PROVE  /\ Wrote(o, HandleOutputTextDelta(st, e))
           /\ Wrote(o, HandleOutputTextDone(st, e))
           /\ Wrote(o, HandleReasoningSummaryTextDelta(st, e))
           /\ Wrote(o, HandleReasoningSummaryTextDone(st, e))
           /\ Wrote(o, HandleOutputItemDone(st, e))
<1>1. /\ PartKey(e.out, e.part) \in PartKeys /\ PartKey(e.out, 0) \in PartKeys
      /\ PartKeys \subseteq Idents
  BY KeyTyped DEF ItemRecord, Idents
<1>2. ASSUME NEW kind \in {"text", "thinking"}, NEW key \in PartKeys, NEW of \in PartKeys
      PROVE  LET p == OpenPart(st, kind, key)
                 b == p.st.blockByKey[key]
             IN /\ Wrote(o, p)
                /\ Wrote(o, WithDelta(p, BlockDelta(b, kind, of)))
                /\ Wrote(o, WholeIfSilent(p, WholeDelta(b, kind, of)))
                /\ Wrote(o, WithDelta(p, BlockDelta(b, "signature", key)))
                /\ Wrote(o, WithDelta(Emit(p, BlockDelta(b, "thinking", <<>>)),
                                      BlockDelta(b, "signature", key)))
  <2> DEFINE p == OpenPart(st, kind, key)
             b == p.st.blockByKey[key]
             d == BlockDelta(b, kind, of)
             w == WholeDelta(b, kind, of)
             s == BlockDelta(b, "signature", key)
             t == BlockDelta(b, "thinking", <<>>)
             q == Emit(p, t)
  <2>1. kind \in BlockKinds /\ "signature" \in BlockKinds /\ "thinking" \in BlockKinds
    BY DEF BlockKinds
  <2>2. p \in ResponsesPair /\ p.st.open = {b} /\ b \in Nat /\ Wrote(o, p)
    <3>1. p \in ResponsesPair /\ p.st.open = {b} /\ b \in Nat
      BY <2>1, OpenPartTyped
    <3>2. Wrote(o, p)
      BY <2>1, OpenPartWrote
    <3> QED
      BY <3>1, <3>2
  <2> HIDE DEF p
  <2>3. key \in Idents /\ of \in Idents /\ <<>> \in Idents
    BY <1>1 DEF Idents
  <2>4. /\ d \in Stream /\ d.index = b /\ w \in Stream /\ s \in Stream /\ s.index = b
        /\ t \in Stream
    BY <2>1, <2>2, <2>3, DeltaEvent
  <2>5. /\ ~IsStart(d) /\ ~IsArgs(d) /\ ~IsStart(w) /\ ~IsArgs(w)
        /\ ~IsStart(s) /\ ~IsArgs(s) /\ ~IsStart(t) /\ ~IsArgs(t)
    BY BookEvents
  <2> HIDE DEF d, w, s, t
  <2>6. q \in ResponsesPair /\ q.st = p.st /\ Wrote(o, q)
    BY <2>2, <2>4, <2>5, EmitWrote
  <2> HIDE DEF q
  <2>7. Wrote(o, WithDelta(p, d)) /\ Wrote(o, WithDelta(p, s)) /\ Wrote(o, WithDelta(q, s))
    BY <2>2, <2>4, <2>5, <2>6, DeltaWrote, SequencesWritten
  <2>8. Wrote(o, WholeIfSilent(p, w))
    BY <2>2, <2>4, <2>5, EmitWrote DEF WholeIfSilent
  <2> QED
    BY <2>2, <2>7, <2>8 DEF p, q, d, w, s, t
<1>3. Wrote(o, HandleOutputTextDelta(st, e))
  BY <1>1, <1>2 DEF HandleOutputTextDelta
<1>4. Wrote(o, HandleOutputTextDone(st, e))
  BY <1>1, <1>2 DEF HandleOutputTextDone
<1>5. Wrote(o, HandleReasoningSummaryTextDelta(st, e))
  BY <1>1, <1>2 DEF HandleReasoningSummaryTextDelta
<1>6. Wrote(o, HandleReasoningSummaryTextDone(st, e))
  BY <1>1, <1>2 DEF HandleReasoningSummaryTextDone
<1>7. Wrote(o, HandleOutputItemDone(st, e))
  BY <1>1, <1>2 DEF HandleOutputItemDone
<1> QED
  BY <1>3, <1>4, <1>5, <1>6, <1>7

LEMMA ForgottenFewer ==
    ASSUME NEW p \in ResponsesPair, NEW x \in Outputs
    PROVE  LET q == [p EXCEPT !.st.functions[x] = NoFunction]
           IN q.out = p.out /\ Fewer(p.st, q.st)
<1> DEFINE calls == [p.st.functions EXCEPT ![x] = NoFunction]
           st == [p.st EXCEPT !.functions = calls]
<1>1. p = [st |-> p.st, out |-> p.out] /\ p.st \in ResponsesFields
  BY DEF ResponsesPair, ResponsesState
<1>2. ASSUME NEW s, NEW out
      PROVE  [[st |-> s, out |-> out] EXCEPT !.st.functions[x] = NoFunction]
                = [st |-> [s EXCEPT !.functions = [s.functions EXCEPT ![x] = NoFunction]],
                   out |-> out]
  OBVIOUS
<1>3. [p EXCEPT !.st.functions[x] = NoFunction] = [st |-> st, out |-> p.out]
  BY <1>1, <1>2
<1>4. \A k \in Outputs : calls[k] = IF k = x THEN NoFunction ELSE p.st.functions[k]
  BY <1>1 DEF ResponsesFields
<1> HIDE DEF calls
<1>5. st.next = p.st.next /\ st.blockByKey = p.st.blockByKey /\ st.functions = calls
  BY <1>1 DEF ResponsesFields
<1> HIDE DEF st
<1>6. Fewer(p.st, st)
  BY <1>4, <1>5 DEF Fewer
<1> QED
  BY <1>3, <1>6

LEMMA RunFewer ==
    ASSUME NEW p \in ResponsesPair, NEW x \in Outputs, NEW n \in Nat,
           p.st.functions[x] # NoFunction
    PROVE  Fewer(p.st, WithRun(p.st, x, n))
<1> DEFINE call == [p.st.functions[x] EXCEPT !.breaks = n]
           calls == [p.st.functions EXCEPT ![x] = call]
           st == [p.st EXCEPT !.functions = calls]
<1>1. p.st \in ResponsesFields /\ p.st.functions \in [Outputs -> FunctionRecord]
  BY DEF ResponsesPair, ResponsesState, ResponsesFields
<1>2. call.block = p.st.functions[x].block
  BY <1>1 DEF FunctionRecord
<1>3. WithRun(p.st, x, n) = st
  BY DEF WithRun
<1> HIDE DEF call
<1>4. \A k \in Outputs : calls[k] = IF k = x THEN call ELSE p.st.functions[k]
  BY <1>1
<1> HIDE DEF calls
<1>5. st.next = p.st.next /\ st.blockByKey = p.st.blockByKey /\ st.functions = calls
  BY <1>1 DEF ResponsesFields
<1> HIDE DEF st
<1>6. \A k \in Outputs :
        \/ st.functions[k] = NoFunction
        \/ p.st.functions[k] # NoFunction /\ st.functions[k].block = p.st.functions[k].block
  BY <1>2, <1>4, <1>5
<1>7. Fewer(p.st, st)
  BY <1>5, <1>6 DEF Fewer
<1> QED
  BY <1>3, <1>7

\* The arguments of a function call: its block is opened, and they are of it.
LEMMA CallEventsWrote ==
    ASSUME NEW o, NEW st \in ResponsesState, Numbering(o, st), NEW e \in ItemRecord
    PROVE  /\ Wrote(o, HandleOutputItemAdded(st, e))
           /\ Wrote(o, HandleFunctionCallArgumentsDelta(st, e))
           /\ Wrote(o, HandleFunctionCallArgumentsDone(st, e))
<1> DEFINE p == OpenFunction(st, e.out)
           b == p.st.functions[e.out].block
           key == PartKey(e.out, 0)
           d == BlockDelta(b, "input_json", key)
           u == Unchecked(d, e.tail)
           w == Unchecked(WholeDelta(b, "input_json", key), e.tail)
<1>1. e.out \in Outputs /\ e.tail \in Tails /\ key \in PartKeys /\ key \in Idents
      /\ e.body \in BOOLEAN
  BY PartsAssumption, KeyTyped DEF ItemRecord, Idents, Tails
<1>2. p \in ResponsesPair /\ p.st.open = {b} /\ b \in Nat
  BY <1>1, OpenFunctionTyped
<1>3. Wrote(o, p) /\ <<b, key>> \in o \cup Starts(p.out)
  BY <1>1, OpenFunctionWrote
<1>4. /\ u \in Stream /\ u.index = b /\ w \in Stream /\ w.index = b
      /\ u.type = "content_block_delta" /\ u.of = key
      /\ w.type = "content_block_delta" /\ w.of = key
  <2> DEFINE whole == WholeDelta(b, "input_json", key)
  <2>1. /\ d \in Stream /\ d.index = b /\ whole \in Stream /\ whole.index = b
    BY <1>1, <1>2, DeltaEvent DEF BlockKinds
  <2>2. /\ d.type = "content_block_delta" /\ d.of = key
        /\ whole.type = "content_block_delta" /\ whole.of = key
    BY DEF BlockDelta, WholeDelta, Event
  <2> HIDE DEF d, whole
  <2> QED
    BY <2>1, <2>2, UncheckedTyped DEF whole
<1>5. ~IsStart(u) /\ ~IsStart(w) /\ Block(u) = <<b, key>> /\ Block(w) = <<b, key>>
  <2> HIDE DEF u, w
  <2> QED
    BY <1>4 DEF IsStart, Block
<1>6. HandleOutputItemAdded(st, e) = IF e.body THEN WithDelta(p, u) ELSE p
  BY DEF HandleOutputItemAdded
<1>7. HandleFunctionCallArgumentsDone(st, e) =
        LET q == IF b \in p.st.hasDelta \/ ~e.body THEN p ELSE WithDelta(p, w)
        IN [q EXCEPT !.st.functions[e.out] = NoFunction]
  BY DEF HandleFunctionCallArgumentsDone
<1> DEFINE n == Breaks(p.st.functions[e.out].breaks, e.tail)
           r == [p EXCEPT !.st.functions[e.out].breaks = n]
           a == [d EXCEPT !.reason = e.tail]
<1>8. HandleFunctionCallArgumentsDelta(st, e) =
        IF n > MaxWhitespace THEN Failed(p) ELSE WithDelta(r, a)
  BY DEF HandleFunctionCallArgumentsDelta
<1>9. a \in ArgumentsDelta /\ a.index = b /\ a.of = key
  BY <1>1, <1>2, ArgumentsDeltaEvent
<1>10. ~IsStart(a) /\ Block(a) = <<b, key>>
  <2> HIDE DEF a
  <2>1. a.type = "content_block_delta"
    BY <1>9 DEF ArgumentsDelta
  <2> QED
    BY <1>9, <2>1 DEF IsStart, Block
<1> HIDE DEF p, key
<1>11. p.st \in ResponsesFields /\ Numbered(p.st) /\ p.st.functions[e.out] # NoFunction
       /\ b \in 0 .. p.st.next - 1
  <2>1. p.st \in ResponsesFields /\ Numbered(p.st)
    BY <1>2 DEF ResponsesPair, ResponsesState
  <2>2. p.st.functions[e.out] # NoFunction
    BY <1>2 DEF NoFunction, NoBlock
  <2>3. b \in 0 .. p.st.next - 1
    BY <1>1, <2>1, <2>2 DEF Numbered
  <2> QED
    BY <2>1, <2>2, <2>3
<1> HIDE DEF d, u, w
<1>12. n \in Nat
  <2>1. p.st.functions[e.out].breaks \in Nat
    BY <1>1, <1>11 DEF ResponsesFields, FunctionRecord
  <2> QED
    BY <1>1, <2>1 DEF Breaks
<1> HIDE DEF n, a
<1>13. /\ r = [st |-> WithRun(p.st, e.out, n), out |-> p.out] /\ r \in ResponsesPair
       /\ WithRun(p.st, e.out, n).open = {b}
  BY <1>1, <1>2, <1>11, <1>12, WithRunTyped
<1>14. r.st = WithRun(p.st, e.out, n) /\ r.out = p.out
  BY <1>13
<1> HIDE DEF b
<1>15. Wrote(o, WithDelta(p, u)) /\ Wrote(o, WithDelta(p, w)) /\ WithDelta(p, w) \in ResponsesPair
  BY <1>2, <1>3, <1>4, <1>5, DeltaWrote, WithDeltaTyped, SequencesWritten
<1>16. Wrote(o, HandleOutputItemAdded(st, e))
  BY <1>3, <1>6, <1>15
<1>17. Wrote(o, HandleFunctionCallArgumentsDone(st, e))
  <2> DEFINE q == IF b \in p.st.hasDelta \/ ~e.body THEN p ELSE WithDelta(p, w)
             h == [q EXCEPT !.st.functions[e.out] = NoFunction]
  <2>1. q \in ResponsesPair /\ Wrote(o, q)
    BY <1>2, <1>3, <1>15
  <2> HIDE DEF q
  <2>2. h.out = q.out /\ Fewer(q.st, h.st)
    BY <1>1, <2>1, ForgottenFewer
  <2> HIDE DEF h
  <2>3. Wrote(o, h)
    <3>1. q.out = q.out \o <<>>
      BY <2>1, ConcatEmptySeq DEF ResponsesPair
    <3> QED
      BY <2>1, <2>2, <3>1, WrotePlain, PlainOnes, SequencesWritten
  <2> QED
    BY <1>7, <2>3 DEF q, h
<1>18. Wrote(o, HandleFunctionCallArgumentsDelta(st, e))
  <2>1. Wrote(o, Failed(p))
    BY <1>2, <1>3, FailedWrote
  <2> HIDE DEF r
  <2>2. Fewer(p.st, r.st)
    BY <1>1, <1>2, <1>11, <1>12, <1>14, RunFewer
  <2>3. Wrote(o, r)
    <3>1. r.out = p.out \o <<>>
      BY <1>2, <1>14, ConcatEmptySeq DEF ResponsesPair
    <3> QED
      BY <1>3, <2>2, <3>1, WrotePlain, PlainOnes, SequencesWritten
  <2>4. a \in Written /\ r.st.open = {a.index} /\ Block(a) \in o \cup Starts(r.out)
    BY <1>3, <1>9, <1>10, <1>13, <1>14, SequencesWritten
  <2>5. Wrote(o, WithDelta(r, a))
    BY <1>10, <1>13, <2>3, <2>4, DeltaWrote
  <2> QED
    BY <1>8, <2>1, <2>5
<1> QED
  BY <1>16, <1>17, <1>18

LEMMA EndsWrote ==
    ASSUME NEW o, NEW st \in ResponsesState, Numbering(o, st), NEW e
    PROVE  /\ Wrote(o, HandleResponseCreated(st, e))
           /\ Wrote(o, HandleResponseCompleted(st, e))
           /\ Wrote(o, HandleResponseFailed(st))
           /\ Wrote(o, HandleErrorEvent(st))
<1>1. Wrote(o, Unchanged(st)) /\ Unchanged(st) \in ResponsesPair
  BY UnchangedWrote
<1>2. Wrote(o, HandleResponseCreated(st, e))
  <2>1. Event("message_start") \in Stream
    BY EventTyped DEF Stream, StreamTypes, BodyTypes, EventsOf
  <2>2. ~IsStart(Event("message_start")) /\ ~IsArgs(Event("message_start"))
    BY BookEvents
  <2> QED
    BY <1>1, <2>1, <2>2, EmitWrote DEF HandleResponseCreated
<1>3. Wrote(o, Failed(Unchanged(st)))
  BY <1>1, FailedWrote
<1>4. Wrote(o, HandleResponseCompleted(st, e))
  <2> DEFINE p == CloseAllOpenBlocks(Unchanged(st))
             new == [p.st EXCEPT !.completed = TRUE]
             out == p.out \o Terminal("end_turn")
             q == [st |-> new, out |-> out]
  <2>1. p \in ResponsesPair /\ Wrote(o, p)
    BY <1>1, ClosedAllWrote
  <2>2. HandleResponseCompleted(st, e) = IF ~e.body THEN Failed(Unchanged(st)) ELSE q
    BY DEF HandleResponseCompleted
  <2> HIDE DEF p
  <2>3. Fewer(p.st, new)
    BY <2>1, CompletedFewer DEF ResponsesPair
  <2>4. Terminal("end_turn") \in Seq(Written) /\ Plain(Terminal("end_turn"))
    <3>1. Terminal("end_turn") \in Seq(Written)
      BY StreamTyped, SequencesWritten DEF Reasons
    <3>2. Plain(Terminal("end_turn"))
      BY PlainOnes DEF Terminal, Event, IsStart, IsArgs
    <3> QED
      BY <3>1, <3>2
  <2>5. q.st = new /\ q.out = out
    OBVIOUS
  <2> HIDE DEF new, q
  <2>6. Wrote(o, q)
    BY <2>1, <2>3, <2>4, <2>5, WrotePlain
  <2> QED
    BY <1>3, <2>2, <2>6
<1>5. Wrote(o, HandleErrorEvent(st))
  <2> DEFINE new == [st EXCEPT !.completed = TRUE]
  <2>1. new \in ResponsesState /\ Fewer(st, new)
    BY CompletedTyped, CompletedFewer
  <2>2. HandleErrorEvent(st) = Emit(Unchanged(new), ErrorEvent)
    BY DEF HandleErrorEvent
  <2> HIDE DEF new
  <2>3. Wrote(o, Unchanged(new)) /\ Unchanged(new) \in ResponsesPair
    BY <2>1, FewerNumbering, UnchangedWrote
  <2>4. ErrorEvent \in Stream /\ ~IsStart(ErrorEvent) /\ ~IsArgs(ErrorEvent)
    BY StreamTyped, BookEvents DEF ErrorEvent
  <2> QED
    BY <2>2, <2>3, <2>4, EmitWrote
<1> QED
  BY <1>2, <1>3, <1>4, <1>5 DEF HandleResponseFailed

\* Any event, in any order.
LEMMA EventWrote ==
    ASSUME NEW o, NEW st \in ResponsesState, Numbering(o, st), NEW e,
           e \in ItemRecord \/ e.type \in {"created", "completed", "failed", "error"}
    PROVE  Wrote(o, TranslateResponsesEvent(st, e))
<1>1. CASE e.type \in {"created", "completed", "failed", "error"}
  BY <1>1, EndsWrote DEF TranslateResponsesEvent
<1>2. CASE e \in ItemRecord
  <2>1. e.type \in ItemTypes
    BY <1>2 DEF ItemRecord
  <2> QED
    BY <1>2, <2>1, CallEventsWrote, PartEventsWrote DEF TranslateResponsesEvent, ItemTypes
<1> QED
  BY <1>1, <1>2

-----------------------------------------------------------------------------
(* The client's ledger: the blocks it has read, by their index and identity. *)
(* Every flow keeps a book of the blocks the client has read or is about to, *)
(* and the agent another one of the blocks of its turn.                      *)

Ledger(w) == {<<i - 1, w.blocks[i].of>> : i \in 1 .. Len(w.blocks)}

LEMMA LedgerIn ==
    \A w, b : b \in Ledger(w) <=> \E i \in 1 .. Len(w.blocks) : b = <<i - 1, w.blocks[i].of>>
  BY DEF Ledger

\* The arguments read are those of the deltas that carry them.
LEMMA ArgsRead ==
    ASSUME NEW w \in WireState, NEW e \in Readable
    PROVE  Read(w, e).args = IF IsArgs(e) THEN w.args \cup {Block(e)} ELSE w.args
<1>1. EventRead(w, e) \in WireState
  BY ReadTyped
<1>2. Read(w, e).args = EventRead(w, e).args
  BY <1>1 DEF Read, WireState
<1>3. CASE e.type = "content_block_delta"
  <2> DEFINE args == IF e.kind = "input_json" THEN w.args \cup {<<e.index, e.of>>} ELSE w.args
  <2>1. DeltaRead(w, e).args = args
    BY DEF DeltaRead, WireState
  <2>2. EventRead(w, e).args = args
    BY <1>3, <2>1 DEF EventRead
  <2> QED
    BY <1>2, <1>3, <2>2 DEF IsArgs, Block
<1>4. CASE e.type = "content_block_start"
  <2> DEFINE next == IF e.index >= w.next THEN e.index + 1 ELSE w.next
             open == w.open \cup {e.index}
             blocks == IF e.index >= w.next
                       THEN Append(w.blocks, [kind |-> e.kind, of |-> e.of]) ELSE w.blocks
  <2>1. EventRead(w, e) = [w EXCEPT !.open = open, !.next = next, !.blocks = blocks]
    BY <1>4 DEF EventRead
  <2> HIDE DEF next, open, blocks
  <2>2. EventRead(w, e).args = w.args
    BY <2>1 DEF WireState
  <2> QED
    BY <1>2, <1>4, <2>2 DEF IsArgs
<1>5. CASE e.type \notin {"content_block_start", "content_block_delta"}
  BY <1>2, <1>5 DEF EventRead, WireState, IsArgs
<1> QED
  BY <1>3, <1>4, <1>5

\* One block more.
LEMMA LedgerMore ==
    ASSUME NEW w, w.blocks \in Seq(BlockRecord), NEW x \in BlockRecord,
           NEW v, v.blocks = Append(w.blocks, x)
    PROVE  Ledger(v) = Ledger(w) \cup {<<Len(w.blocks), x.of>>} /\ Len(v.blocks) = Len(w.blocks) + 1
<1> DEFINE n == Len(w.blocks)
<1>1. /\ n \in Nat /\ Len(v.blocks) = n + 1 /\ v.blocks[n + 1] = x
      /\ \A i \in 1 .. n : v.blocks[i] = w.blocks[i]
  BY AppendProperties
<1> HIDE DEF n
<1>2. ASSUME NEW b \in Ledger(v) PROVE b \in Ledger(w) \cup {<<n, x.of>>}
  <2>1. PICK i \in 1 .. Len(v.blocks) : b = <<i - 1, v.blocks[i].of>>
    BY <1>2, LedgerIn
  <2>2. CASE i \in 1 .. n
    BY <1>1, <2>1, <2>2, LedgerIn DEF n
  <2>3. CASE i \notin 1 .. n
    <3>1. i = n + 1 /\ i - 1 = n
      BY <1>1, <2>3
    <3> QED
      BY <1>1, <2>1, <3>1
  <2> QED
    BY <2>2, <2>3
<1>3. ASSUME NEW b \in Ledger(w) PROVE b \in Ledger(v)
  <2>1. PICK i \in 1 .. n : b = <<i - 1, w.blocks[i].of>>
    BY <1>3, LedgerIn DEF n
  <2>2. i \in 1 .. Len(v.blocks) /\ v.blocks[i] = w.blocks[i]
    BY <1>1
  <2> QED
    BY <2>1, <2>2, LedgerIn
<1>4. <<n, x.of>> \in Ledger(v)
  <2>1. n + 1 \in 1 .. Len(v.blocks) /\ (n + 1) - 1 = n
    BY <1>1
  <2>2. <<n, x.of>> = <<(n + 1) - 1, v.blocks[n + 1].of>>
    BY <1>1, <2>1
  <2> QED
    BY <2>1, <2>2, LedgerIn
<1> QED
  BY <1>1, <1>2, <1>3, <1>4 DEF n

LEMMA LedgerBelow ==
    ASSUME NEW w, w.blocks \in Seq(BlockRecord), NEW b \in Ledger(w)
    PROVE  b[1] < Len(w.blocks)
<1>1. PICK i \in 1 .. Len(w.blocks) : b = <<i - 1, w.blocks[i].of>>
  BY LedgerIn
<1>2. Len(w.blocks) \in Nat /\ b[1] = i - 1
  BY <1>1
<1> QED
  BY <1>2

\* Its indices are those below its length.
LEMMA LedgerNumbers ==
    ASSUME NEW w, w.blocks \in Seq(BlockRecord) PROVE Numbers(Ledger(w), Len(w.blocks))
<1>1. Len(w.blocks) \in Nat
  OBVIOUS
<1>2. ASSUME NEW m \in 0 .. Len(w.blocks) - 1 PROVE \E b \in Ledger(w) : b[1] = m
  <2>1. m + 1 \in 1 .. Len(w.blocks) /\ (m + 1) - 1 = m
    BY <1>1
  <2>2. <<(m + 1) - 1, w.blocks[m + 1].of>> \in Ledger(w)
    BY <2>1, LedgerIn
  <2>3. <<(m + 1) - 1, w.blocks[m + 1].of>>[1] = m
    BY <2>1
  <2> QED
    BY <2>2, <2>3
<1>3. ASSUME NEW b \in Ledger(w) PROVE b[1] \in 0 .. Len(w.blocks) - 1
  <2>1. PICK i \in 1 .. Len(w.blocks) : b = <<i - 1, w.blocks[i].of>>
    BY <1>3, LedgerIn
  <2>2. b[1] = i - 1
    BY <2>1
  <2> QED
    BY <1>1, <2>2
<1> DEFINE S == 0 .. Len(w.blocks) - 1
<1> HIDE DEF S
<1>4. {b[1] : b \in Ledger(w)} = S
  BY <1>2, <1>3, Zenon DEF S
<1> QED
  BY <1>4 DEF Numbers, S

LEMMA NumbersSame ==
    ASSUME NEW o, NEW n \in Nat, NEW m \in Nat, Numbers(o, n), Numbers(o, m) PROVE n = m
<1>1. 0 .. n - 1 = 0 .. m - 1
  BY DEF Numbers
<1>2. (n > m => m \in 0 .. n - 1) /\ (m > n => n \in 0 .. m - 1)
  OBVIOUS
<1>3. m \notin 0 .. m - 1 /\ n \notin 0 .. n - 1
  OBVIOUS
<1> QED
  BY <1>1, <1>2, <1>3

\* Reading an event the ledger allows puts the block it starts into the ledger.
LEMMA LedgerRead ==
    ASSUME NEW w \in WireState, w.next = Len(w.blocks), w.args \subseteq Ledger(w),
           NEW e \in Readable, Entitled(Ledger(w), e), NEW v, v = Read(w, e)
    PROVE  /\ v.next = Len(v.blocks) /\ Ledger(v) = Ledger(w) \cup Started(e)
           /\ v.args \subseteq Ledger(v)
<1> DEFINE x == [kind |-> e.kind, of |-> e.of]
<1>1. w.blocks \in Seq(BlockRecord) /\ w.next \in Nat /\ e.index \in Nat /\ x \in BlockRecord
  BY DEF WireState, BlockRecord, Readable
<1>2. x.of = e.of
  OBVIOUS
<1>3. /\ v.blocks = IF IsStart(e) /\ e.index >= w.next THEN Append(w.blocks, x) ELSE w.blocks
      /\ v.next = IF IsStart(e) /\ e.index >= w.next THEN e.index + 1 ELSE w.next
      /\ v.args = IF IsArgs(e) THEN w.args \cup {Block(e)} ELSE w.args
  BY BlocksRead, NextRead, ArgsRead DEF IsStart
<1> HIDE DEF x
<1>4. Numbers(Ledger(w), w.next)
  BY <1>1, LedgerNumbers
<1>5. IsStart(e) => Block(e) \in Ledger(w) \/ e.index = w.next
  BY <1>1, <1>4, NumbersSame DEF Entitled
<1>6. Block(e)[1] = e.index /\ Block(e) = <<e.index, e.of>>
  BY DEF Block
<1>7. Block(e) \in Ledger(w) => e.index < w.next
  BY <1>1, <1>6, LedgerBelow
<1>8. CASE IsStart(e) /\ e.index = w.next
  <2>1. v.blocks = Append(w.blocks, x) /\ v.next = w.next + 1 /\ ~IsArgs(e)
    BY <1>1, <1>3, <1>8 DEF IsStart, IsArgs
  <2>2. Ledger(v) = Ledger(w) \cup {<<w.next, x.of>>} /\ Len(v.blocks) = w.next + 1
    BY <1>1, <2>1, LedgerMore
  <2> QED
    BY <1>2, <1>3, <1>6, <1>8, <2>1, <2>2 DEF Started
<1>9. CASE ~(IsStart(e) /\ e.index = w.next)
  <2>1. ~(IsStart(e) /\ e.index >= w.next)
    BY <1>1, <1>5, <1>7, <1>9
  <2>2. v.blocks = w.blocks /\ v.next = w.next
    BY <1>3, <2>1
  <2>3. Ledger(v) = Ledger(w) /\ Len(v.blocks) = Len(w.blocks)
    BY <2>2 DEF Ledger
  <2>4. Started(e) \subseteq Ledger(w) /\ (IsArgs(e) => Block(e) \in Ledger(w))
    BY <1>5, <1>9 DEF Started, Entitled
  <2> QED
    BY <1>3, <2>2, <2>3, <2>4
<1> QED
  BY <1>8, <1>9

-----------------------------------------------------------------------------
(* The books of the flows.                                                   *)

Functional(o) == \A a, b \in o : a[1] = b[1] => a = b

\* The agent's turn keeps to a book of its own, which has one identity for each of
\* the turn's blocks: that of the call in the block's entry.
TurnBook(o) ==
    /\ Functional(o) /\ Kept(o, inner)
    /\ \A x \in DOMAIN agent.map : <<x, agent.map[x].call.id>> \in o
    /\ ~upstream.finished => ChatSound(chat) /\ ChatBook(o \cup Starts(inner), agent.turn, chat)

AgentBook(o) ==
    /\ Numbers(o, agent.cursor)
    /\ \A x \in DOMAIN agent.map : <<agent.map[x].client, agent.map[x].call.id>> \in o
    /\ \E b : TurnBook(b)

FlowBook(o) ==
    /\ request.flow = "chat" /\ ~Over => ChatSound(chat) /\ ChatBook(o, 0, chat)
    /\ request.flow = "responses" => Numbering(o, responses)
    /\ request.flow = "agent" => AgentBook(o)

\* The blocks the client has read or is about to.
Book == Ledger(wire) \cup Starts(pending)

BookInv ==
    Mannered =>
      /\ wire.next = Len(wire.blocks) /\ wire.args \subseteq Ledger(wire)
      /\ Kept(Ledger(wire), pending)
      /\ FlowBook(Book)

LEMMA FreshBook == \A t : ChatSound(Fresh) /\ ChatBook({}, t, Fresh)
<1>1. Size(Fresh) = 0
  BY DEF Size, Fresh
<1>2. Numbers({}, 0)
  <2>1. {b[1] : b \in {}} = {} /\ 0 .. 0 - 1 = {}
    OBVIOUS
  <2> QED
    BY <2>1 DEF Numbers
<1>3. \A k \in CallIndices : Fresh.calls[k] = NoBlock
  BY DEF Fresh
<1> QED
  BY <1>1, <1>2, <1>3, FreshAt DEF ChatBook

LEMMA BookInit == Init => BookInv
<1> SUFFICES ASSUME Init PROVE BookInv
  OBVIOUS
<1>1. /\ wire = NewWire /\ pending = <<>> /\ inner = <<>> /\ chat = Fresh
      /\ agent = NewAgent /\ responses = FreshResponses
  BY DEF Init
<1>2. wire.next = 0 /\ wire.blocks = <<>> /\ wire.args = {}
  BY <1>1 DEF NewWire
<1>3. Len(<<>>) = 0 /\ 1 .. 0 = {} /\ 0 .. 0 - 1 = {}
  OBVIOUS
<1>4. Ledger(wire) = {} /\ Book = {} /\ Kept(Ledger(wire), pending)
  BY <1>1, <1>2, <1>3, KeptNone DEF Ledger, Book
<1>5. Numbers({}, 0)
  <2>1. {b[1] : b \in {}} = {}
    OBVIOUS
  <2> QED
    BY <1>3, <2>1 DEF Numbers
<1>6. ChatSound(chat) /\ ChatBook({}, 0, chat)
  BY <1>1, FreshBook
<1>7. Numbering({}, responses)
  BY <1>1, <1>5 DEF Numbering, FreshResponses
<1>8. agent.cursor = 0 /\ agent.turn = 0 /\ DOMAIN agent.map = {}
  BY <1>1 DEF NewAgent
<1>9. TurnBook({})
  <2>1. Starts(inner) = {} /\ Kept({}, inner)
    BY <1>1, KeptNone
  <2>2. {} \cup Starts(inner) = {}
    BY <2>1
  <2> QED
    BY <1>6, <1>8, <2>1, <2>2 DEF TurnBook, Functional
<1>10. AgentBook({})
  BY <1>5, <1>8, <1>9 DEF AgentBook
<1> QED
  BY <1>2, <1>3, <1>4, <1>6, <1>7, <1>10 DEF BookInv, FlowBook

\* The client reads: what it reads goes from what waits into the ledger.
LEMMA BookWrite ==
    ASSUME Typed, BookInv, Write PROVE BookInv'
<1> SUFFICES ASSUME Mannered PROVE BookInv'
  BY DEF BookInv, Write, Mannered
<1>1. /\ pending # <<>> /\ wire \in WireState /\ pending \in Seq(Written)
      /\ wire' = Read(wire, pending[1]) /\ pending[1] \in Readable /\ pending' = Tail(pending)
      /\ UNCHANGED <<request, upstream, chat, responses, agent, inner>>
  BY HeadTailProperties, WrittenReadable DEF Typed, Write
<1> DEFINE e == pending[1]
<1>2. /\ wire.next = Len(wire.blocks) /\ wire.args \subseteq Ledger(wire)
      /\ Kept(Ledger(wire), pending) /\ FlowBook(Book)
  BY DEF BookInv
<1>3. /\ Entitled(Ledger(wire), e) /\ Kept(Ledger(wire) \cup Started(e), pending')
      /\ Starts(pending) = Started(e) \cup Starts(pending')
  BY <1>1, <1>2, KeptFirst
<1> HIDE DEF e
<1>4. /\ wire'.next = Len(wire'.blocks) /\ Ledger(wire') = Ledger(wire) \cup Started(e)
      /\ wire'.args \subseteq Ledger(wire')
  BY <1>1, <1>2, <1>3, LedgerRead DEF e
<1>5. Ledger(wire') \cup Starts(pending') = Book
  BY <1>3, <1>4 DEF Book
<1>6. FlowBook(Book)'
  <2>1. Book' = Book
    BY <1>5 DEF Book
  <2>2. UNCHANGED <<request, upstream, chat, responses, agent, inner>>
    BY <1>1
  <2>3. (\E b : TurnBook(b)) => (\E b : TurnBook(b))'
    BY <2>2 DEF TurnBook
  <2>4. Over' <=> Over
    BY <2>2 DEF Over
  <2> QED
    BY <1>2, <2>1, <2>2, <2>3, <2>4 DEF FlowBook, AgentBook
<1>7. Kept(Ledger(wire'), pending')
  BY <1>3, <1>4
<1>8. Mannered'
  BY <1>1 DEF Mannered
<1> QED
  BY <1>4, <1>6, <1>7 DEF BookInv

\* A ping is no matter of a book.
LEMMA BookPing ==
    ASSUME Typed, BookInv, wire' = Read(wire, Event("ping")),
           UNCHANGED <<request, upstream, chat, responses, agent, inner, pending>>
    PROVE  BookInv'
<1> SUFFICES ASSUME Mannered PROVE BookInv'
  BY DEF BookInv, Mannered
<1> DEFINE e == Event("ping")
<1>1. e \in Readable /\ wire \in WireState /\ ~IsStart(e) /\ ~IsArgs(e)
  BY WrittenReadable, BookEvents DEF Typed
<1>2. /\ wire.next = Len(wire.blocks) /\ wire.args \subseteq Ledger(wire)
      /\ Kept(Ledger(wire), pending) /\ FlowBook(Book)
  BY DEF BookInv
<1> HIDE DEF e
<1>3. Entitled(Ledger(wire), e) /\ Started(e) = {} /\ wire' = Read(wire, e)
  BY <1>1 DEF Entitled, Started, e
<1>4. /\ wire'.next = Len(wire'.blocks) /\ Ledger(wire') = Ledger(wire)
      /\ wire'.args \subseteq Ledger(wire')
  <2>1. /\ wire'.next = Len(wire'.blocks) /\ Ledger(wire') = Ledger(wire) \cup Started(e)
        /\ wire'.args \subseteq Ledger(wire')
    BY <1>1, <1>2, <1>3, LedgerRead
  <2> QED
    BY <1>3, <2>1
<1>5. FlowBook(Book)'
  <2>1. Book' = Book
    BY <1>4 DEF Book
  <2>2. (\E b : TurnBook(b)) => (\E b : TurnBook(b))'
    BY DEF TurnBook
  <2>3. Over' <=> Over
    BY DEF Over
  <2> QED
    BY <1>2, <2>1, <2>2, <2>3 DEF FlowBook, AgentBook
<1> QED
  BY <1>2, <1>4, <1>5 DEF BookInv

\* Nothing waits, and what the step makes keeps to the ledger.
LEMMA BookMore ==
    ASSUME Typed, BookInv, Mannered, pending = <<>>, wire' = wire, request' = request,
           Kept(Ledger(wire), pending'),
           LET o == Ledger(wire) \cup Starts(pending')
           IN /\ request.flow = "chat" /\ ~Over' => ChatSound(chat') /\ ChatBook(o, 0, chat')
              /\ request.flow = "responses" => Numbering(o, responses')
              /\ request.flow = "agent" =>
                   /\ Numbers(o, agent'.cursor)
                   /\ \A x \in DOMAIN agent'.map :
                        <<agent'.map[x].client, agent'.map[x].call.id>> \in o
                   /\ (\E b : TurnBook(b))'
    PROVE  BookInv'
<1>1. Book' = Ledger(wire) \cup Starts(pending')
  BY DEF Book
<1>2. FlowBook(Book)'
  BY <1>1 DEF FlowBook, AgentBook
<1>3. Kept(Ledger(wire), pending)'
  OBVIOUS
<1>4. wire.next = Len(wire.blocks) /\ wire.args \subseteq Ledger(wire)
  BY DEF BookInv
<1> QED
  BY <1>2, <1>3, <1>4 DEF BookInv

\* The chat flow.
LEMMA BookChat ==
    ASSUME Typed, BookInv, Mannered, ChatChunk \/ ChatEnds PROVE BookInv'
<1>1. /\ request.flow = "chat" /\ upstream.phase = "open" /\ pending = <<>>
      /\ UNCHANGED <<request, responses, agent, inner, wire>>
  BY DEF ChatChunk, ChatEnds, Idle
<1>2. Starts(pending) = {} /\ Book = Ledger(wire)
  BY <1>1, KeptNone DEF Book
<1>3. Kept(Ledger(wire), <<>>)
  BY KeptNone
<1>4. CASE ChatEnds
  <2>1. upstream'.phase = "ended" /\ pending' = <<>>
    BY <1>1, <1>4 DEF ChatEnds, Typed, UpstreamState
  <2>2. Over'
    BY <2>1 DEF Over
  <2> QED
    BY <1>1, <1>3, <2>1, <2>2, BookMore
<1>5. CASE ChatChunk
  <2>1. PICK chunk \in Chunks :
          /\ OrderlyChunk(chunk) /\ Fed(chunk)
          /\ chat' = TranslateChunk(chat, chunk).st /\ pending' = TranslateChunk(chat, chunk).out
    BY <1>5 DEF ChatChunk
  <2>2. /\ chunk \in ChunkRecord /\ ~upstream.finished
        /\ chunk.opaque => ~IsToolBlockOpen(chat)
    BY <2>1, CallsTyped DEF OrderlyChunk
  <2>3. chunk.call # NoCall => CallOf(0, chunk.call)
    <3>1. chunk.call \in Calls(0, {"client"})
      BY <2>1 DEF Chunks
    <3> QED
      BY <3>1 DEF Calls, Call, CallOf
  <2>4. ~Over
    BY <1>1, <2>2 DEF Over
  <2>5. ChatSound(chat) /\ ChatBook(Ledger(wire), 0, chat) /\ chat \in ChatState
    BY <1>1, <1>2, <2>4 DEF BookInv, FlowBook, Typed
  <2>6. /\ Kept(Ledger(wire), pending')
        /\ chunk.finish = "none" =>
             ChatSound(chat') /\ ChatBook(Ledger(wire) \cup Starts(pending'), 0, chat')
    BY <2>1, <2>2, <2>3, <2>5, ChunkNotes
  <2>7. upstream'.finished <=> (upstream.finished \/ chunk.finish # "none")
    BY <2>1, FedFinished
  <2>8. ~Over' => chunk.finish = "none"
    BY <1>1, <2>7 DEF Over
  <2> QED
    BY <1>1, <2>6, <2>8, BookMore
<1> QED
  BY <1>4, <1>5

\* The Responses flow, whatever the order of its events.
LEMMA BookResponse ==
    ASSUME Typed, BookInv, Mannered, EventStep PROVE BookInv'
<1>1. PICK e : /\ e \in ItemEvents \/ e.type \in {"created", "completed", "failed", "error"}
               /\ ReadingResponses /\ Translated(e)
  BY DEF EventStep
<1> DEFINE p == TranslateResponsesEvent(responses, e)
<1>2. /\ responses' = p.st /\ pending' = p.out /\ pending = <<>> /\ request.flow = "responses"
      /\ wire' = wire /\ request' = request
  BY <1>1, AfterTranslated
<1>3. e \in ItemRecord \/ e.type \in {"created", "completed", "failed", "error"}
  BY <1>1, CallsTyped
<1>4. Book = Ledger(wire)
  BY <1>2, KeptNone DEF Book
<1>5. Numbering(Ledger(wire), responses) /\ responses \in ResponsesState
  BY <1>2, <1>4 DEF BookInv, FlowBook, Typed
<1>6. Wrote(Ledger(wire), p)
  BY <1>3, <1>5, EventWrote
<1> HIDE DEF p
<1>7. /\ Kept(Ledger(wire), pending')
      /\ Numbering(Ledger(wire) \cup Starts(pending'), responses')
  BY <1>2, <1>6 DEF Wrote
<1> QED
  BY <1>2, <1>7, BookMore

\* A step of which the client is told nothing that is a matter of a book.
LEMMA BookSame ==
    ASSUME Typed, BookInv, Mannered, pending = <<>>, wire' = wire, request' = request,
           NEW S, pending' \in Seq(S), Plain(pending'), responses' = responses,
           request.flow = "chat" => Over',
           request.flow = "agent" =>
             /\ agent'.cursor = agent.cursor
             /\ \A x \in DOMAIN agent'.map : x \in DOMAIN agent.map /\ agent'.map[x] = agent.map[x]
             /\ (\E b : TurnBook(b))'
    PROVE  BookInv'
<1>1. Starts(pending) = {} /\ Book = Ledger(wire)
  BY KeptNone DEF Book
<1>2. Starts(pending') = {} /\ Kept(Ledger(wire), pending')
  BY KeptPlain
<1>3. Ledger(wire) \cup Starts(pending') = Book
  BY <1>1, <1>2
<1>4. FlowBook(Book)
  BY DEF BookInv
<1>5. request.flow = "agent" =>
        /\ Numbers(Book, agent'.cursor)
        /\ \A x \in DOMAIN agent'.map : <<agent'.map[x].client, agent'.map[x].call.id>> \in Book
  BY <1>4 DEF FlowBook, AgentBook
<1>6. request.flow = "responses" => Numbering(Book, responses')
  BY <1>4 DEF FlowBook
<1> QED
  BY <1>2, <1>3, <1>5, <1>6, BookMore

\* What ends a stream is no matter of a book.
LEMMA PlainEnds ==
    /\ <<ErrorEvent>> \in Seq(Sent) /\ Plain(<<ErrorEvent>>)
    /\ <<>> \in Seq(Sent) /\ Plain(<<>>)
    /\ \A s \in Seq(Terminals) : Plain(s)
<1>1. ~IsStart(ErrorEvent) /\ ~IsArgs(ErrorEvent)
  BY DEF ErrorEvent, Event, IsStart, IsArgs
<1>2. ASSUME NEW s \in Seq(Terminals) PROVE Plain(s)
  <2>1. \A e \in Terminals : ~IsStart(e) /\ ~IsArgs(e)
    BY DEF Terminals, TerminalTypes, EventsOf, IsStart, IsArgs
  <2>2. \A j \in 1 .. Len(s) : s[j] \in Terminals
    OBVIOUS
  <2> QED
    BY <2>1, <2>2 DEF Plain
<1>3. <<>> \in Seq(Sent)
  BY EmptySeq
<1> QED
  BY <1>1, <1>2, <1>3, PlainOnes, OneErrorTyped, PiecesSent

\* The upstream throws, or a Responses answer breaks off: an error event.
LEMMA BookFails ==
    ASSUME Typed, BookInv, Mannered, UpstreamFails \/ ResponsesEnds PROVE BookInv'
<1>1. /\ pending = <<>> /\ pending' = <<ErrorEvent>>
      /\ upstream' = [upstream EXCEPT !.phase = "ended"]
      /\ UNCHANGED <<request, chat, responses, agent, inner, wire>>
  BY DEF UpstreamFails, ResponsesEnds, ReadingResponses, Idle
<1>2. upstream'.phase = "ended" /\ upstream'.finished = upstream.finished
  BY <1>1 DEF Typed, UpstreamState
<1>3. Over'
  BY <1>2 DEF Over
<1>4. request.flow = "agent" => (\E b : TurnBook(b))'
  <2>1. ASSUME NEW b, TurnBook(b) PROVE TurnBook(b)'
    BY <1>1, <1>2, <2>1 DEF TurnBook
  <2>2. request.flow = "agent" => \E b : TurnBook(b)
    BY DEF BookInv, FlowBook, AgentBook
  <2> QED
    BY <2>1, <2>2
<1> QED
  BY <1>1, <1>3, <1>4, BookSame, PlainEnds

-----------------------------------------------------------------------------
(* The agent's books.                                                        *)

LEMMA StillFunctional ==
    ASSUME NEW o, Functional(o), NEW e, e.index \in Nat, Entitled(o, e)
    PROVE  Functional(o \cup Started(e))
<1>1. CASE ~IsStart(e) \/ Block(e) \in o
  <2>1. o \cup Started(e) = o
    BY <1>1 DEF Started
  <2> QED
    BY <2>1
<1>2. CASE IsStart(e) /\ Numbers(o, e.index)
  <2>1. Block(e)[1] = e.index /\ Started(e) = {Block(e)}
    BY <1>2 DEF Block, Started
  <2>2. e.index \notin 0 .. e.index - 1
    OBVIOUS
  <2>3. \A b \in o : b[1] # e.index
    BY <1>2, <2>2 DEF Numbers
  <2> QED
    BY <2>1, <2>3 DEF Functional
<1> QED
  BY <1>1, <1>2 DEF Entitled

\* The next event of the turn, and the turn's book with it.
LEMMA TurnNext ==
    ASSUME Typed, BookInv, Mannered, NEW type, Dispatching(type)
    PROVE  LET e == Head(inner)
           IN /\ e \in Inner /\ e.type = type /\ e.index \in Nat
              /\ request.flow = "agent" /\ pending = <<>> /\ Book = Ledger(wire)
              /\ UNCHANGED <<request, upstream, chat, responses, wire>>
              /\ AgentBook(Ledger(wire))
              /\ \E o : /\ Functional(o) /\ Started(e) \subseteq o /\ (IsArgs(e) => Block(e) \in o)
                        /\ \A x \in DOMAIN agent.map : <<x, agent.map[x].call.id>> \in o
                        /\ Kept(o, inner')
                        /\ ~upstream.finished =>
                             ChatSound(chat) /\ ChatBook(o \cup Starts(inner'), agent.turn, chat)
<1> DEFINE e == Head(inner)
<1>1. /\ request.flow = "agent" /\ pending = <<>> /\ inner # <<>>
      /\ e.type = type /\ inner' = Tail(inner)
      /\ UNCHANGED <<request, upstream, chat, responses, wire>>
  BY DEF Dispatching, InAgent
<1>2. inner \in Seq(Inner) /\ e = inner[1] /\ e \in Inner /\ e.index \in Nat
  <2>1. inner \in Seq(Inner) /\ e = inner[1] /\ e \in Inner
    BY <1>1, HeadTyped, HeadTailProperties DEF Typed
  <2> QED
    BY <2>1 DEF Inner, EventsOf
<1>3. Book = Ledger(wire)
  BY <1>1, KeptNone DEF Book
<1>4. AgentBook(Ledger(wire))
  BY <1>1, <1>3 DEF BookInv, FlowBook
<1>5. PICK b : TurnBook(b)
  BY <1>4 DEF AgentBook
<1> HIDE DEF e
<1> DEFINE o == b \cup Started(e)
<1>6. /\ Entitled(b, e) /\ Kept(o, inner')
      /\ Starts(inner) = Started(e) \cup Starts(inner')
  BY <1>1, <1>2, <1>5, KeptFirst DEF TurnBook
<1>7. Functional(o)
  BY <1>2, <1>5, <1>6, StillFunctional DEF TurnBook
<1>8. o \cup Starts(inner') = b \cup Starts(inner)
  BY <1>6
<1>9. Started(e) \subseteq o /\ (IsArgs(e) => Block(e) \in o)
  BY <1>6 DEF Entitled
<1>10. \A x \in DOMAIN agent.map : <<x, agent.map[x].call.id>> \in o
  BY <1>5 DEF TurnBook
<1>11. ~upstream.finished => ChatSound(chat) /\ ChatBook(o \cup Starts(inner'), agent.turn, chat)
  BY <1>5, <1>8 DEF TurnBook
<1> HIDE DEF o
<1> QED
  BY <1>1, <1>2, <1>3, <1>4, <1>6, <1>7, <1>9, <1>10, <1>11 DEF e

\* The turn's book after it.
LEMMA TurnKept ==
    ASSUME UNCHANGED <<upstream, chat>>, agent'.turn = agent.turn, NEW o, Functional(o),
           Kept(o, inner'),
           ~upstream.finished =>
             ChatSound(chat) /\ ChatBook(o \cup Starts(inner'), agent.turn, chat),
           \A x \in DOMAIN agent'.map : <<x, agent'.map[x].call.id>> \in o
    PROVE  (\E b : TurnBook(b))'
<1>1. TurnBook(o)'
  BY DEF TurnBook
<1> QED
  BY <1>1

\* A dispatch that is no matter of the client's book.
LEMMA BookDispatched ==
    ASSUME Typed, BookInv, Mannered, NEW type, Dispatching(type),
           pending' \in Seq(Sent), Plain(pending'),
           agent'.turn = agent.turn, agent'.cursor = agent.cursor,
           \A x \in DOMAIN agent'.map : x \in DOMAIN agent.map /\ agent'.map[x] = agent.map[x]
    PROVE  BookInv'
<1>1. /\ request.flow = "agent" /\ pending = <<>>
      /\ UNCHANGED <<request, upstream, chat, responses, wire>>
  BY TurnNext
<1>2. PICK o : /\ Functional(o)
               /\ \A x \in DOMAIN agent.map : <<x, agent.map[x].call.id>> \in o
               /\ Kept(o, inner')
               /\ ~upstream.finished =>
                    ChatSound(chat) /\ ChatBook(o \cup Starts(inner'), agent.turn, chat)
  BY TurnNext
<1>3. (\E b : TurnBook(b))'
  BY <1>1, <1>2, TurnKept
<1> QED
  BY <1>1, <1>3, BookSame

LEMMA BookBlockStart ==
    ASSUME Typed, BookInv, Mannered, HandleBlockStart PROVE BookInv'
<1> DEFINE e == Head(inner)
           n == agent.cursor
           entry == Entry(e, n)
           map == With(agent.map, e.index, entry)
           kind == IF e.name \in WebTools THEN "server_tool_use" ELSE e.kind
           f == [e EXCEPT !.index = n, !.kind = kind]
           l == Ledger(wire)
<1>1. Dispatching("content_block_start")
  BY DEF HandleBlockStart
<1>2. /\ e \in Inner /\ e.type = "content_block_start" /\ e.index \in Nat
      /\ request.flow = "agent" /\ pending = <<>> /\ Book = l
      /\ UNCHANGED <<request, upstream, chat, responses, wire>> /\ AgentBook(l)
  BY <1>1, TurnNext
<1>3. PICK o : /\ Functional(o) /\ Started(e) \subseteq o
               /\ \A x \in DOMAIN agent.map : <<x, agent.map[x].call.id>> \in o
               /\ Kept(o, inner')
               /\ ~upstream.finished =>
                    ChatSound(chat) /\ ChatBook(o \cup Starts(inner'), agent.turn, chat)
  BY <1>1, TurnNext
<1>4. agent \in AgentState /\ n \in Nat
  BY DEF Typed, AgentState
<1>5. agent' = [agent EXCEPT !.cursor = n + 1, !.map = map] /\ pending' = <<f>>
  BY DEF HandleBlockStart
<1>6. entry.client = n /\ entry.call.id = e.of
  BY DEF Entry, Call
<1>7. f.index = n /\ f.type = e.type /\ f.of = e.of
  BY <1>2 DEF Inner, EventsOf
<1>8. /\ DOMAIN map = DOMAIN agent.map \cup {e.index} /\ map[e.index] = entry
      /\ \A x \in DOMAIN agent.map : x = e.index \/ map[x] = agent.map[x]
  BY DEF With
<1> HIDE DEF map, f, entry, kind, e, l, n
<1>9. agent'.cursor = n + 1 /\ agent'.map = map /\ agent'.turn = agent.turn
  BY <1>4, <1>5 DEF AgentState
<1>10. Numbers(l, n) /\ \A x \in DOMAIN agent.map :
                          <<agent.map[x].client, agent.map[x].call.id>> \in l
  BY <1>2 DEF AgentBook, n
<1>11. Started(e) = {<<e.index, e.of>>}
  BY <1>2 DEF Started, IsStart, Block
<1>12. IsStart(f) /\ ~IsArgs(f) /\ Block(f) = <<n, e.of>>
  BY <1>2, <1>7 DEF IsStart, IsArgs, Block
<1>13. Starts(pending') = {<<n, e.of>>} /\ Kept(l, pending')
  <2>1. Started(f) = {<<n, e.of>>} /\ Entitled(l, f)
    BY <1>7, <1>10, <1>12 DEF Started, Entitled
  <2> QED
    BY <1>5, <2>1, KeptOne
<1>14. Numbers(l \cup Starts(pending'), agent'.cursor)
  <2>1. n + 1 \in Nat
    BY <1>4
  <2>2. PICK m \in Nat : m = n + 1
    BY <2>1
  <2>3. Numbers(l \cup {<<n, e.of>>}, m)
    BY <1>4, <1>10, <2>2, NumbersMore
  <2> QED
    BY <1>9, <1>13, <2>2, <2>3
<1>15. \A x \in DOMAIN agent'.map :
         /\ <<agent'.map[x].client, agent'.map[x].call.id>> \in l \cup Starts(pending')
         /\ <<x, agent'.map[x].call.id>> \in o
  <2> SUFFICES ASSUME NEW x \in DOMAIN map
               PROVE  /\ <<map[x].client, map[x].call.id>> \in l \cup Starts(pending')
                      /\ <<x, map[x].call.id>> \in o
    BY <1>9
  <2>1. CASE x = e.index
    <3>1. <<e.index, e.of>> \in o
      BY <1>3, <1>11
    <3> QED
      BY <1>6, <1>8, <1>13, <2>1, <3>1
  <2>2. CASE x # e.index
    <3>1. x \in DOMAIN agent.map /\ map[x] = agent.map[x]
      BY <1>8, <2>2
    <3> QED
      BY <1>3, <1>10, <3>1
  <2> QED
    BY <2>1, <2>2
<1>16. (\E b : TurnBook(b))'
  BY <1>2, <1>3, <1>9, <1>15, TurnKept
<1> QED
  BY <1>2, <1>13, <1>14, <1>15, <1>16, BookMore DEF l

LEMMA BookBlockDelta ==
    ASSUME Typed, BookInv, Mannered, HandleBlockDelta PROVE BookInv'
<1> DEFINE e == Head(inner)
           l == Ledger(wire)
<1>1. Dispatching("content_block_delta")
  BY DEF HandleBlockDelta
<1>2. /\ e \in Inner /\ e.type = "content_block_delta" /\ e.index \in Nat
      /\ request.flow = "agent" /\ pending = <<>> /\ Book = l
      /\ UNCHANGED <<request, upstream, chat, responses, wire>> /\ AgentBook(l)
  BY <1>1, TurnNext
<1>3. PICK o : /\ Functional(o) /\ (IsArgs(e) => Block(e) \in o)
               /\ \A x \in DOMAIN agent.map : <<x, agent.map[x].call.id>> \in o
               /\ Kept(o, inner')
               /\ ~upstream.finished =>
                    ChatSound(chat) /\ ChatBook(o \cup Starts(inner'), agent.turn, chat)
  BY <1>1, TurnNext
<1>4. /\ agent' = agent
      /\ pending' = IF e.index \notin DOMAIN agent.map THEN <<>>
                    ELSE <<[e EXCEPT !.index = agent.map[e.index].client]>>
  BY DEF HandleBlockDelta
<1>5. /\ Numbers(l, agent.cursor)
      /\ \A x \in DOMAIN agent.map : <<agent.map[x].client, agent.map[x].call.id>> \in l
  BY <1>2 DEF AgentBook
<1>6. (\E b : TurnBook(b))'
  BY <1>2, <1>3, <1>4, TurnKept
<1> HIDE DEF e, l
<1>7. Starts(pending') = {} /\ Kept(l, pending')
  <2>1. CASE e.index \notin DOMAIN agent.map
    BY <1>4, <2>1, KeptNone
  <2>2. CASE e.index \in DOMAIN agent.map
    <3> DEFINE x == agent.map[e.index]
               f == [e EXCEPT !.index = x.client]
    <3>1. f.type = e.type /\ f.index = x.client /\ f.of = e.of /\ f.kind = e.kind
      BY <1>2 DEF Inner, EventsOf
    <3>2. IsArgs(e) => e.of = x.call.id
      <4>1. ASSUME IsArgs(e) PROVE <<e.index, e.of>> = <<e.index, x.call.id>>
        <5>1. <<e.index, e.of>> \in o /\ <<e.index, x.call.id>> \in o
          BY <1>3, <2>2, <4>1 DEF Block
        <5>2. <<e.index, e.of>>[1] = <<e.index, x.call.id>>[1]
          OBVIOUS
        <5> QED
          BY <1>3, <5>1, <5>2 DEF Functional
      <4> QED
        BY <4>1
    <3>3. <<x.client, x.call.id>> \in l
      BY <1>5, <2>2
    <3> HIDE DEF x, f
    <3>4. ~IsStart(f) /\ (IsArgs(f) => Block(f) \in l)
      BY <1>2, <3>1, <3>2, <3>3 DEF IsStart, IsArgs, Block
    <3>5. Started(f) = {} /\ Entitled(l, f)
      BY <3>4 DEF Started, Entitled
    <3>6. pending' = <<f>>
      BY <1>4, <2>2 DEF f, x
    <3> QED
      BY <3>5, <3>6, KeptOne
  <2> QED
    BY <2>1, <2>2
<1>8. l \cup Starts(pending') = l
  BY <1>7
<1> QED
  BY <1>2, <1>4, <1>5, <1>6, <1>7, <1>8, BookMore DEF l

\* The other dispatches: what they tell the client starts no block.
LEMMA BookOtherDispatch ==
    ASSUME Typed, BookInv, Mannered, DispatchMessageStart \/ HandleBlockStop \/ BufferTerminal
    PROVE  BookInv'
<1> DEFINE e == Head(inner)
<1>1. agent \in AgentState
  BY DEF Typed
<1>2. CASE DispatchMessageStart
  <2>1. /\ Dispatching("message_start") /\ agent' = [agent EXCEPT !.started = TRUE]
        /\ pending' = IF agent.started THEN <<>> ELSE <<e>>
    BY <1>2 DEF DispatchMessageStart
  <2>2. e \in Inner /\ e.type = "message_start"
    BY <2>1, TurnNext
  <2>3. agent'.turn = agent.turn /\ agent'.cursor = agent.cursor /\ agent'.map = agent.map
    BY <1>1, <2>1 DEF AgentState
  <2> HIDE DEF e
  <2>4. e \in Sent /\ ~IsStart(e) /\ ~IsArgs(e)
    BY <2>2, WrittenReadable DEF IsStart, IsArgs
  <2>5. pending' \in Seq(Sent) /\ Plain(pending')
    <3>1. <<e>> \in Seq(Sent) /\ Plain(<<e>>)
      BY <2>4, PlainOnes
    <3> QED
      BY <2>1, <3>1, PlainEnds
  <2> QED
    BY <2>1, <2>3, <2>5, BookDispatched
<1>3. CASE HandleBlockStop
  <2>1. Dispatching("content_block_stop")
    BY <1>3 DEF HandleBlockStop
  <2>2. e \in Inner /\ e.type = "content_block_stop"
    BY <2>1, TurnNext
  <2>3. CASE e.index \notin DOMAIN agent.map
    <3>1. pending' = <<>> /\ agent' = agent
      BY <1>3, <2>3 DEF HandleBlockStop
    <3> QED
      BY <2>1, <3>1, BookDispatched, PlainEnds
  <2>4. CASE e.index \in DOMAIN agent.map
    <3> DEFINE entry == agent.map[e.index]
               map == Without(agent.map, e.index)
               tool == IF entry.web THEN entry.call ELSE NoCall
               f == [e EXCEPT !.index = entry.client]
    <3>1. pending' = <<f>> /\ agent' = [agent EXCEPT !.map = map, !.tool = tool]
      BY <1>3, <2>4 DEF HandleBlockStop
    <3>2. \A x \in DOMAIN map : x \in DOMAIN agent.map /\ map[x] = agent.map[x]
      BY DEF Without
    <3>3. entry.client \in Nat
      BY <1>1, <2>2, <2>4, MapTyped DEF AgentState, EntryRecord, Inner, EventsOf
    <3>4. <<f>> \in Seq(Sent)
      BY <2>2, <3>3, EventReindexed, PiecesSent
    <3>5. ~IsStart(f) /\ ~IsArgs(f)
      BY <2>2 DEF Inner, EventsOf, IsStart, IsArgs
    <3> HIDE DEF map, tool, f
    <3>6. agent'.turn = agent.turn /\ agent'.cursor = agent.cursor /\ agent'.map = map
      BY <1>1, <3>1 DEF AgentState
    <3>7. pending' \in Seq(Sent) /\ Plain(pending')
      BY <3>1, <3>4, <3>5, PlainOnes
    <3> QED
      BY <2>1, <3>2, <3>6, <3>7, BookDispatched
  <2> QED
    BY <2>3, <2>4
<1>4. CASE BufferTerminal
  <2>1. PICK type : Dispatching(type)
    BY <1>4 DEF BufferTerminal
  <2>2. pending' = pending /\ pending = <<>>
    BY <1>4, <2>1, TurnNext DEF BufferTerminal
  <2> DEFINE buffered == Append(agent.buffered, e)
             stop == IF e.type = "message_delta" THEN e.reason ELSE agent.stop
  <2>3. agent' = [agent EXCEPT !.buffered = buffered, !.stop = stop]
    BY <1>4 DEF BufferTerminal
  <2> HIDE DEF buffered, stop
  <2>4. agent'.turn = agent.turn /\ agent'.cursor = agent.cursor /\ agent'.map = agent.map
    BY <1>1, <2>3 DEF AgentState
  <2> QED
    BY <2>1, <2>2, <2>4, BookDispatched, PlainEnds
<1> QED
  BY <1>2, <1>3, <1>4

\* A tool's result is a block of its own, the next one of the client's.
LEMMA BookSettles ==
    ASSUME Typed, BookInv, Mannered, ToolInv, ToolSettles PROVE BookInv'
<1> DEFINE n == agent.cursor
           of == agent.tool.id
           b == BlockStop(n)
           l == Ledger(wire)
<1>1. /\ request.flow = "agent" /\ pending = <<>>
      /\ UNCHANGED <<request, upstream, chat, responses, inner, wire>>
  BY DEF ToolSettles, ToolInv
<1>3. PICK a : /\ pending' = <<a, b>> /\ a.type = "content_block_start" /\ a.index = n
                /\ a.of = of
  BY ToolSettled
<1>2. agent \in AgentState /\ n \in Nat
  BY DEF Typed, AgentState
<1>4. Book = l
  BY <1>1, KeptNone DEF Book
<1>5. AgentBook(l)
  BY <1>1, <1>4 DEF BookInv, FlowBook
<1>6. /\ IsStart(a) /\ Block(a) = <<n, of>> /\ ~IsStart(b) /\ ~IsArgs(b)
  BY <1>3, BookEvents DEF IsStart, Block
<1> HIDE DEF b, of, l, n
<1>7. agent'.cursor = n + 1 /\ agent'.map = agent.map /\ agent'.turn = agent.turn
  BY ToolSettled DEF n
<1>8. /\ Numbers(l, n)
      /\ \A x \in DOMAIN agent.map : <<agent.map[x].client, agent.map[x].call.id>> \in l
  BY <1>5 DEF AgentBook, n
<1>9. Starts(pending') = {<<n, of>>} /\ Kept(l, pending')
  <2> DEFINE s == <<a, b>>
  <2>1. s \in Seq({a, b}) /\ 1 \in 1 .. Len(s) /\ s[1] = a
        /\ \A j \in 1 .. Len(s) : j # 1 => s[j] = b
    OBVIOUS
  <2> HIDE DEF s
  <2>2. Opens(s, n, of)
    BY <1>6, <2>1 DEF Opens
  <2>3. Starts(s) = {<<n, of>>} /\ Kept(l, s)
    BY <1>8, <2>1, <2>2, OpensKept
  <2> QED
    BY <1>3, <2>3 DEF s
<1>10. Numbers(l \cup Starts(pending'), agent'.cursor)
  <2>1. n + 1 \in Nat
    BY <1>2
  <2>2. PICK m \in Nat : m = n + 1
    BY <2>1
  <2>3. Numbers(l \cup {<<n, of>>}, m)
    BY <1>2, <1>8, <2>2, NumbersMore
  <2> QED
    BY <1>7, <1>9, <2>2, <2>3
<1>11. (\E t : TurnBook(t))'
  <2>1. PICK t : TurnBook(t)
    BY <1>5 DEF AgentBook
  <2>2. TurnBook(t)'
    BY <1>1, <1>7, <2>1 DEF TurnBook
  <2> QED
    BY <2>2
<1> QED
  BY <1>1, <1>7, <1>8, <1>9, <1>10, <1>11, BookMore DEF l

\* A chunk of the turn, into the turn's book.
LEMMA BookChunk ==
    ASSUME Typed, BookInv, Mannered, AgentChunk PROVE BookInv'
<1>1. /\ request.flow = "agent" /\ pending = <<>> /\ inner = <<>>
      /\ UNCHANGED <<request, responses, agent, pending, wire>>
  BY DEF AgentChunk, InAgent, Idle
<1>2. PICK chunk \in TurnChunks(agent.turn) :
        /\ OrderlyChunk(chunk) /\ Fed(chunk)
        /\ chat' = TranslateChunk(chat, chunk).st /\ inner' = TranslateChunk(chat, chunk).out
  BY DEF AgentChunk
<1>3. agent.turn \in Nat /\ chat \in ChatState
  BY LimitsAssumption DEF Typed, AgentState
<1>4. /\ chunk \in ChunkRecord /\ ~upstream.finished
      /\ chunk.opaque => ~IsToolBlockOpen(chat)
  BY <1>2, <1>3, CallsTyped DEF OrderlyChunk
<1>5. chunk.call # NoCall => CallOf(agent.turn, chunk.call)
  <2>1. chunk.call \in TurnCalls(agent.turn)
    BY <1>2 DEF TurnChunks
  <2>2. PICK tools : chunk.call \in Calls(agent.turn, tools)
    BY <2>1 DEF TurnCalls
  <2> QED
    BY <2>2 DEF Calls, Call, CallOf
<1>6. PICK b : TurnBook(b)
  BY <1>1 DEF BookInv, FlowBook, AgentBook
<1>7. b \cup Starts(inner) = b
  BY <1>1, KeptNone
<1>8. ChatSound(chat) /\ ChatBook(b, agent.turn, chat)
  BY <1>4, <1>6, <1>7 DEF TurnBook
<1>9. /\ Kept(b, inner')
      /\ chunk.finish = "none" =>
           ChatSound(chat') /\ ChatBook(b \cup Starts(inner'), agent.turn, chat')
  BY <1>2, <1>3, <1>4, <1>5, <1>8, ChunkNotes
<1>10. ~upstream'.finished => chunk.finish = "none"
  BY <1>2, FedFinished
<1>11. (\E t : TurnBook(t))'
  <2>1. TurnBook(b)'
    BY <1>1, <1>6, <1>9, <1>10 DEF TurnBook
  <2> QED
    BY <2>1
<1> QED
  BY <1>1, <1>11, BookSame, PlainEnds

\* A turn's upstream is called and answers, and a turn is over.
LEMMA BookTurns ==
    ASSUME Typed, BookInv, Mannered, UpstreamAnswers \/ NextTurn \/ LastTurn PROVE BookInv'
<1>1. /\ request.flow = "agent" /\ pending = <<>> /\ inner = <<>>
      /\ UNCHANGED <<request, responses, inner, wire>>
  BY DEF UpstreamAnswers, NextTurn, LastTurn, TurnOver, InAgent, Idle
<1>2. agent \in AgentState /\ upstream \in UpstreamState
  BY DEF Typed
<1>3. PICK b : TurnBook(b)
  BY <1>1 DEF BookInv, FlowBook, AgentBook
<1>4. CASE UpstreamAnswers
  <2>1. /\ UNCHANGED <<chat, agent, pending>>
        /\ upstream' = [upstream EXCEPT !.phase = "open"]
    BY <1>4 DEF UpstreamAnswers
  <2>2. upstream'.finished = upstream.finished
    BY <1>2, <2>1 DEF UpstreamState
  <2>3. TurnBook(b)'
    BY <1>1, <1>3, <2>1, <2>2 DEF TurnBook
  <2>4. (\E t : TurnBook(t))'
    BY <2>3
  <2> QED
    BY <1>1, <2>1, <2>4, BookSame, PlainEnds
<1>5. CASE NextTurn
  <2> DEFINE turn == agent.turn + 1
             usage == agent.usage + TurnUsage(agent.buffered)
  <2>1. /\ agent' = [agent EXCEPT !.turn = turn, !.map = <<>>, !.stop = "none",
                       !.outcomes = 0, !.buffered = <<>>, !.usage = usage]
        /\ chat' = Fresh /\ pending' = pending
    BY <1>5 DEF NextTurn
  <2> HIDE DEF turn, usage
  <2>2. agent'.cursor = agent.cursor /\ agent'.map = <<>>
    BY <1>2, <2>1 DEF AgentState
  <2>3. DOMAIN agent'.map = {}
    BY <2>2
  <2>4. TurnBook({})'
    <3>1. {} \cup Starts(inner') = {} /\ Kept({}, inner')
      BY <1>1, KeptNone
    <3>2. Functional({})
      BY DEF Functional
    <3>3. ChatSound(chat') /\ ChatBook({} \cup Starts(inner'), agent'.turn, chat')
      BY <2>1, <3>1, FreshBook
    <3> QED
      BY <2>3, <3>1, <3>2, <3>3 DEF TurnBook
  <2>5. (\E t : TurnBook(t))'
    BY <2>4
  <2> QED
    BY <1>1, <2>1, <2>2, <2>3, <2>5, BookSame, PlainEnds
<1>6. CASE LastTurn
  <2> DEFINE usage == agent.usage + TurnUsage(agent.buffered)
  <2>1. /\ pending' = Stamped(agent.buffered, usage)
        /\ agent' = [agent EXCEPT !.buffered = <<>>, !.usage = usage]
        /\ chat' = chat /\ upstream' = [upstream EXCEPT !.phase = "ended"]
    BY <1>6 DEF LastTurn
  <2>2. agent.buffered \in Seq(Terminals) /\ usage \in Nat
    BY <1>2, TurnUsageTyped DEF AgentState
  <2> HIDE DEF usage
  <2>3. /\ agent'.cursor = agent.cursor /\ agent'.map = agent.map /\ agent'.turn = agent.turn
        /\ upstream'.finished = upstream.finished
    BY <1>2, <2>1 DEF AgentState, UpstreamState
  <2>4. pending' \in Seq(Terminals) /\ Plain(pending')
    BY <2>1, <2>2, StampedTyped, PlainEnds
  <2>5. TurnBook(b)'
    BY <1>1, <1>3, <2>1, <2>3 DEF TurnBook
  <2>6. (\E t : TurnBook(t))'
    BY <2>5
  <2> QED
    BY <1>1, <2>3, <2>4, <2>6, BookSame
<1> QED
  BY <1>4, <1>5, <1>6

LEMMA BookNext ==
    ASSUME Typed, ToolInv, BookInv, [Next]_vars PROVE BookInv'
<1>1. request' = request
  BY SameRequest
<1>2. SUFFICES ASSUME Mannered PROVE BookInv'
  BY <1>1 DEF BookInv, Mannered
<1>3. CASE Write
  BY <1>3, BookWrite
<1>4. CASE QuietStep
  <2>1. CASE ChatChunk \/ ChatEnds
    BY <1>2, <2>1, BookChat
  <2>2. CASE UpstreamFails \/ ResponsesEnds
    BY <1>2, <2>2, BookFails
  <2>3. CASE UpstreamAnswers \/ NextTurn \/ LastTurn
    BY <1>2, <2>3, BookTurns
  <2>4. CASE DispatchMessageStart \/ HandleBlockStop \/ BufferTerminal
    BY <1>2, <2>4, BookOtherDispatch
  <2> QED
    BY <1>2, <1>4, <2>1, <2>2, <2>3, <2>4, BookChunk, BookSettles, BookBlockStart,
       BookBlockDelta, Zenon DEF QuietStep
<1>5. CASE EventStep
  BY <1>2, <1>5, BookResponse
<1>6. CASE UNCHANGED vars
  <2>1. UNCHANGED <<request, upstream, chat, responses, agent, inner, pending, wire>>
    BY <1>6 DEF vars
  <2>2. (\E b : TurnBook(b)) => (\E b : TurnBook(b))'
    BY <2>1 DEF TurnBook
  <2>3. Over' <=> Over
    BY <2>1 DEF Over
  <2>4. Book' = Book
    BY <2>1 DEF Book
  <2>5. FlowBook(Book) => FlowBook(Book)'
    BY <2>1, <2>2, <2>3, <2>4 DEF FlowBook, AgentBook
  <2> QED
    BY <2>1, <2>5 DEF BookInv, Mannered
<1> QED
  BY <1>3, <1>4, <1>5, <1>6, BookPing, Steps

\* Whatever an upstream with manners interleaves, the arguments of a tool call are read
\* in the block that was started for the call: in every flow, for any number of calls,
\* items, turns and events.
THEOREM ArgumentsReach == Spec => []ArgumentsReachTheirCall
<1>1. Init => ToolInv /\ BookInv
  BY BookInit DEF Init, NewAgent, ToolInv
<1>2. Typed /\ ToolInv /\ BookInv /\ [Next]_vars => (ToolInv /\ BookInv)'
  BY ToolNext, BookNext
<1>3. Typed /\ BookInv => ArgumentsReachTheirCall
  <2> SUFFICES ASSUME Typed, BookInv, Mannered, NEW pair \in wire.args
               PROVE  pair[1] < Len(wire.blocks) /\ wire.blocks[pair[1] + 1].of = pair[2]
    BY DEF ArgumentsReachTheirCall
  <2>1. pair \in Ledger(wire)
    BY DEF BookInv
  <2>2. PICK i \in 1 .. Len(wire.blocks) : pair = <<i - 1, wire.blocks[i].of>>
    BY <2>1, LedgerIn
  <2>3. Len(wire.blocks) \in Nat
    BY DEF Typed, WireState
  <2>4. pair[1] = i - 1 /\ pair[2] = wire.blocks[i].of /\ (i - 1) + 1 = i
    BY <2>2, <2>3
  <2> QED
    BY <2>3, <2>4
<1> QED
  BY <1>1, <1>2, <1>3, AlwaysTyped, PTL DEF Spec

-----------------------------------------------------------------------------
(* Parts that are read once.  What answers the request is the text of a part, *)
(* in pieces or whole; signatures and default texts are asides.  A handler    *)
(* makes asides and, as its last event, at most one piece of an answer.       *)

AnswerKinds == {"text", "thinking", "input_json"}
Answers == AnswerKinds \X PartKeys
IsDelta(e) == e.type = "content_block_delta"
PartOf(e) == <<e.kind, e.of>>
IsAnswer(e) == IsDelta(e) /\ PartOf(e) \in Answers
Asides == {e \in Written : IsDelta(e) => e.whole = FALSE /\ ~IsAnswer(e)}

\* What was read goes into what is known of the part.
LEMMA PartsRead ==
    ASSUME NEW w \in WireState, NEW e \in Readable
    PROVE  /\ IsDelta(e) =>
                /\ Read(w, e).parts = IF e.whole THEN w.parts ELSE w.parts \cup {PartOf(e)}
                /\ Read(w, e).wholes = IF e.whole THEN w.wholes \cup {PartOf(e)} ELSE w.wholes
                /\ Read(w, e).twice = IF PartOf(e) \in w.wholes \/ (e.whole /\ PartOf(e) \in w.parts)
                                      THEN w.twice \cup {PartOf(e)} ELSE w.twice
           /\ ~IsDelta(e) => /\ Read(w, e).parts = w.parts /\ Read(w, e).wholes = w.wholes
                             /\ Read(w, e).twice = w.twice
<1>1. EventRead(w, e) \in WireState
  BY ReadTyped
<1>2. /\ Read(w, e).parts = EventRead(w, e).parts /\ Read(w, e).wholes = EventRead(w, e).wholes
      /\ Read(w, e).twice = EventRead(w, e).twice
  BY <1>1 DEF Read, WireState
<1>3. CASE IsDelta(e)
  <2> DEFINE part == <<e.kind, e.of>>
             args == IF e.kind = "input_json" THEN w.args \cup {<<e.index, e.of>>} ELSE w.args
             parts == IF e.whole THEN w.parts ELSE w.parts \cup {part}
             wholes == IF e.whole THEN w.wholes \cup {part} ELSE w.wholes
             twice == IF part \in w.wholes \/ (e.whole /\ part \in w.parts)
                      THEN w.twice \cup {part} ELSE w.twice
             breaks == IF e.kind = "input_json" /\ e.reason # "none"
                       THEN [w.breaks EXCEPT ![e.of] = BreaksRead(w.breaks[e.of], e.reason)]
                       ELSE w.breaks
  <2>1. DeltaRead(w, e) = [w EXCEPT !.args = args, !.parts = parts, !.wholes = wholes,
                                    !.twice = twice, !.breaks = breaks]
    BY DEF DeltaRead
  <2>2. EventRead(w, e) = DeltaRead(w, e)
    BY <1>3 DEF EventRead, IsDelta
  <2> HIDE DEF args, parts, wholes, twice, breaks
  <2>3. /\ DeltaRead(w, e).parts = parts /\ DeltaRead(w, e).wholes = wholes
        /\ DeltaRead(w, e).twice = twice
    BY <2>1 DEF WireState
  <2> QED
    BY <1>2, <1>3, <2>2, <2>3 DEF PartOf, parts, wholes, twice
<1>4. CASE e.type = "content_block_start"
  <2> DEFINE next == IF e.index >= w.next THEN e.index + 1 ELSE w.next
             open == w.open \cup {e.index}
             blocks == IF e.index >= w.next
                       THEN Append(w.blocks, [kind |-> e.kind, of |-> e.of]) ELSE w.blocks
  <2>1. EventRead(w, e) = [w EXCEPT !.open = open, !.next = next, !.blocks = blocks]
    BY <1>4 DEF EventRead
  <2> HIDE DEF next, open, blocks
  <2>2. /\ EventRead(w, e).parts = w.parts /\ EventRead(w, e).wholes = w.wholes
        /\ EventRead(w, e).twice = w.twice
    BY <2>1 DEF WireState
  <2> QED
    BY <1>2, <1>4, <2>2 DEF IsDelta
<1>5. CASE e.type \notin {"content_block_start", "content_block_delta"}
  BY <1>2, <1>5 DEF EventRead, WireState, IsDelta
<1> QED
  BY <1>3, <1>4, <1>5 DEF IsDelta

\* The tail of a sequence and one element more.
LEMMA TailAppended ==
    ASSUME NEW S, NEW t \in Seq(S), t # <<>>, NEW d \in S
    PROVE  Append(t, d)[1] = t[1] /\ Tail(Append(t, d)) = Append(Tail(t), d)
<1>1. Len(t) \in Nat /\ Len(t) > 0
  BY EmptySeq
<1>2. Append(t, d)[1] = t[1]
  BY <1>1, AppendProperties
<1>3. /\ Tail(t) \in Seq(S) /\ Len(Tail(t)) = Len(t) - 1
      /\ \A i \in 1 .. Len(t) - 1 : Tail(t)[i] = t[i + 1]
  BY <1>1, HeadTailProperties
<1>4. /\ Append(t, d) \in Seq(S) /\ Len(Append(t, d)) = Len(t) + 1 /\ Append(t, d) # <<>>
      /\ \A i \in 1 .. Len(t) : Append(t, d)[i] = t[i]
      /\ Append(t, d)[Len(t) + 1] = d
  BY <1>1, AppendProperties
<1> DEFINE a == Append(t, d)
           u == Tail(t)
           b == Append(u, d)
<1>5. /\ Tail(a) \in Seq(S) /\ Len(Tail(a)) = Len(t)
      /\ \A i \in 1 .. Len(t) : Tail(a)[i] = a[i + 1]
  BY <1>1, <1>4, HeadTailProperties
<1>6. /\ b \in Seq(S) /\ Len(b) = Len(t)
      /\ \A i \in 1 .. Len(t) - 1 : b[i] = u[i]
      /\ b[Len(t)] = d
  <2> HIDE DEF u
  <2>1. u \in Seq(S) /\ Len(u) = Len(t) - 1
    BY <1>3 DEF u
  <2> QED
    BY <1>1, <2>1, AppendProperties
<1> HIDE DEF a, u, b
<1>7. \A i \in 1 .. Len(t) : Tail(a)[i] = b[i]
  <2> SUFFICES ASSUME NEW i \in 1 .. Len(t) PROVE Tail(a)[i] = b[i]
    OBVIOUS
  <2>1. CASE i = Len(t)
    BY <1>1, <1>4, <1>5, <1>6, <2>1 DEF a
  <2>2. CASE i \in 1 .. Len(t) - 1
    <3>1. i + 1 \in 1 .. Len(t) /\ b[i] = u[i] /\ u[i] = t[i + 1] /\ Tail(a)[i] = a[i + 1]
      BY <1>1, <1>3, <1>5, <1>6, <2>2 DEF u
    <3> QED
      BY <1>4, <3>1 DEF a
  <2>3. i = Len(t) \/ i \in 1 .. Len(t) - 1
    BY <1>1
  <2> QED
    BY <2>1, <2>2, <2>3
<1>8. Tail(a) = b
  BY <1>5, <1>6, <1>7, SeqEqual
<1> QED
  BY <1>2, <1>8 DEF a, b, u

\* `e` repeats nothing of what was read.
News(w, e) == PartOf(e) \notin w.wholes /\ (e.whole => PartOf(e) \notin w.parts)

\* What waits: asides, and at most one piece of an answer, which comes last and
\* whose part is among `parts`, or `wholes` if it is complete.
Says(w, s, parts, wholes) ==
    \/ s \in Seq(Asides)
    \/ \E t \in Seq(Asides), d \in Written :
         /\ s = Append(t, d) /\ IsAnswer(d) /\ News(w, d)
         /\ IF d.whole THEN PartOf(d) \in wholes ELSE PartOf(d) \in parts

\* The client read the answers in `parts` and `wholes` and no part of them twice.
Once(w, parts, wholes) ==
    /\ w.twice = {} /\ w.wholes \subseteq Answers /\ w.wholes \subseteq wholes
    /\ w.parts \cap Answers \subseteq parts

\* The client reads the first event that waits.
LEMMA OnceRead ==
    ASSUME NEW w \in WireState, NEW s \in Seq(Written), s # <<>>, NEW parts, NEW wholes,
           Once(w, parts, wholes), Says(w, s, parts, wholes)
    PROVE  /\ Once(Read(w, s[1]), parts, wholes)
           /\ Says(Read(w, s[1]), Tail(s), parts, wholes)
<1> DEFINE v == Read(w, s[1])
<1>1. /\ s[1] \in Written /\ s[1] \in Readable /\ Tail(s) \in Seq(Written)
      /\ v = Read(w, s[1])
  BY HeadTailProperties, WrittenReadable
<1> HIDE DEF v
<1>2. ASSUME NEW e \in Asides, e \in Readable, v = Read(w, e)
      PROVE  /\ Once(v, parts, wholes) /\ v.wholes = w.wholes
             /\ v.parts \cap Answers = w.parts \cap Answers
  <2>1. CASE IsDelta(e)
    <3>1. ~e.whole /\ PartOf(e) \notin Answers
      BY <2>1 DEF Asides, IsAnswer
    <3>2. /\ v.parts = w.parts \cup {PartOf(e)} /\ v.wholes = w.wholes
          /\ PartOf(e) \notin w.wholes => v.twice = w.twice
      BY <1>2, <2>1, <3>1, PartsRead
    <3> QED
      BY <3>1, <3>2 DEF Once
  <2>2. CASE ~IsDelta(e)
    <3>1. v.parts = w.parts /\ v.wholes = w.wholes /\ v.twice = w.twice
      BY <1>2, <2>2, PartsRead
    <3> QED
      BY <3>1 DEF Once
  <2> QED
    BY <2>1, <2>2
<1>3. CASE s \in Seq(Asides)
  <2>1. s[1] \in Asides /\ Tail(s) \in Seq(Asides)
    BY <1>3, HeadTailProperties
  <2> QED
    BY <1>1, <1>2, <2>1 DEF Says
<1>4. CASE s \notin Seq(Asides)
  <2>1. PICK t \in Seq(Asides), d \in Written :
          /\ s = Append(t, d) /\ IsAnswer(d) /\ News(w, d)
          /\ IF d.whole THEN PartOf(d) \in wholes ELSE PartOf(d) \in parts
    BY <1>4 DEF Says
  <2>2. CASE t = <<>>
    <3>1. s[1] = d /\ Tail(s) = <<>>
      BY <2>1, <2>2
    <3>2. Tail(s) \in Seq(Asides)
      BY <3>1, EmptySeq
    <3>0. v = Read(w, d) /\ d \in Readable /\ IsDelta(d)
      BY <1>1, <2>1, <3>1 DEF IsAnswer
    <3>3. /\ v.parts = IF d.whole THEN w.parts ELSE w.parts \cup {PartOf(d)}
          /\ v.wholes = IF d.whole THEN w.wholes \cup {PartOf(d)} ELSE w.wholes
          /\ v.twice = IF PartOf(d) \in w.wholes \/ (d.whole /\ PartOf(d) \in w.parts)
                       THEN w.twice \cup {PartOf(d)} ELSE w.twice
      BY <3>0, PartsRead
    <3>4. v.twice = {}
      BY <2>1, <3>3 DEF News, Once
    <3>5. Once(v, parts, wholes)
      BY <2>1, <3>3, <3>4 DEF Once, IsAnswer
    <3> QED
      BY <1>1, <3>2, <3>5 DEF Says
  <2>3. CASE t # <<>>
    <3>1. s[1] = t[1] /\ Tail(s) = Append(Tail(t), d)
      <4>1. Asides \subseteq Written
        BY DEF Asides
      <4>2. t \in Seq(Written)
        BY <4>1, SeqMonotonic
      <4> QED
        BY <2>1, <2>3, <4>2, TailAppended
    <3>2. t[1] \in Asides /\ Tail(t) \in Seq(Asides)
      BY <2>3, HeadTailProperties
    <3>3. /\ Once(v, parts, wholes) /\ v.wholes = w.wholes
          /\ v.parts \cap Answers = w.parts \cap Answers
      BY <1>1, <1>2, <3>1, <3>2
    <3>4. News(v, d)
      BY <2>1, <3>3 DEF News, IsAnswer
    <3>5. Says(v, Tail(s), parts, wholes)
      BY <2>1, <3>1, <3>2, <3>4 DEF Says
    <3> QED
      BY <1>1, <3>3, <3>5
  <2> QED
    BY <2>2, <2>3
<1> QED
  BY <1>3, <1>4 DEF v

\* The chat flow and the agent send no complete text at all.
PiecesInv ==
    request.flow # "responses" =>
      pending \in Seq(Pieces) /\ wire.wholes = {} /\ wire.twice = {}

LEMMA PiecesInit == Init => PiecesInv
  BY EmptySeq DEF Init, NewWire, PiecesInv

LEMMA PiecesNext ==
    ASSUME Typed, PiecesInv, [Next]_vars PROVE PiecesInv'
<1>1. request' = request /\ wire \in WireState
  BY SameRequest DEF Typed
<1> SUFFICES ASSUME request.flow # "responses"
             PROVE  pending' \in Seq(Pieces) /\ wire'.wholes = {} /\ wire'.twice = {}
  BY <1>1 DEF PiecesInv
<1>2. pending \in Seq(Pieces) /\ wire.wholes = {} /\ wire.twice = {}
  BY DEF PiecesInv
<1>3. CASE Write
  <2>1. /\ wire' = Read(wire, pending[1]) /\ pending' = Tail(pending)
        /\ pending[1] \in Pieces /\ pending[1] \in Readable /\ pending' \in Seq(Pieces)
    BY <1>2, <1>3, HeadTailProperties, WrittenReadable DEF Write
  <2>2. ~pending[1].whole
    BY <2>1 DEF Pieces
  <2>3. wire'.wholes = {} /\ wire'.twice = {}
    BY <1>1, <1>2, <2>1, <2>2, PartsRead
  <2> QED
    BY <2>1, <2>3
<1>4. CASE QuietStep
  <2>1. Quietly' /\ wire' = wire
    BY <1>4, QuietSteps
  <2> QED
    BY <1>2, <2>1 DEF Quietly
<1>5. ~EventStep
  BY DEF EventStep, ReadingResponses
<1>6. ASSUME wire' = Read(wire, Event("ping")), pending' = pending
      PROVE  pending' \in Seq(Pieces) /\ wire'.wholes = {} /\ wire'.twice = {}
  <2>1. Event("ping") \in Readable /\ ~IsDelta(Event("ping"))
    BY WrittenReadable DEF Event, IsDelta
  <2> QED
    BY <1>1, <1>2, <1>6, <2>1, PartsRead
<1>7. CASE UNCHANGED vars
  BY <1>2, <1>7 DEF vars
<1> QED
  BY <1>3, <1>4, <1>5, <1>6, <1>7, Steps

\* Of an item event: only asides; or, after asides, an answer of the event's part that is
\* a piece, and its block knows it had one, or the whole, and its block had no piece.
\* The item that ends reasoning says nothing that its events have not.
ItemSays(st, e, c) ==
    \/ /\ c.out \in Seq(Asides)
       /\ c.st.completed \/ e.type = "function_added" \/ AfterEvent(e) # "begun"
    \/ \E t \in Seq(Asides), d \in Written :
         /\ c.out = Append(t, d) /\ IsAnswer(d) /\ d.of = EventPart(e)
         /\ ItemKind(e) = "reasoning" => ~Ends(e)
         /\ d.whole = FALSE => /\ AfterEvent(e) = "begun"
                               /\ BlockOf(c.st, ItemKind(e), EventPart(e)) \in c.st.hasDelta
         /\ d.whole # FALSE =>
              /\ AfterEvent(e) # "begun"
              /\ LET b == BlockOf(st, ItemKind(e), EventPart(e))
                 IN Current(st, b) => b \notin st.hasDelta

LEMMA StreamAsides ==
    /\ \A e \in Stream : ~IsDelta(e) => e \in Asides
    /\ \A s \in Seq(Asides), e \in Asides : Append(s, e) \in Seq(Asides)
    /\ <<>> \in Seq(Asides)
<1>1. \A e \in Stream : ~IsDelta(e) => e \in Asides
  BY WrittenReadable DEF Asides
<1> QED
  BY <1>1, EmptySeq, AppendProperties

\* Stops and the start of a block are asides.
LEMMA OpeningAsides ==
    ASSUME NEW st \in ResponsesState, NEW b
    PROVE  /\ Stops(st.open) \in Seq(Asides)
           /\ \A start \in Stream : start.type = "content_block_start" =>
                OpeningOf(st.open, b, start) \in Seq(Asides)
<1>1. st.next \in Nat /\ Numbered(st)
  BY DEF ResponsesState, ResponsesFields
<1>2. Stops(st.open) \in Seq(Asides)
  <2>1. CASE st.open = {}
    BY <2>1, OneStop, EmptySeq
  <2>2. CASE st.open # {}
    <3>1. PICK x \in 0 .. st.next - 1 : st.open = {x}
      BY <1>1, <2>2 DEF Numbered
    <3>2. x \in Nat
      BY <1>1
    <3>3. BlockStop(x) \in Stream
      BY <3>2, BodyTyped, StreamTyped DEF Idents, BlockKinds, Names
    <3>4. ~IsDelta(BlockStop(x))
      BY DEF BlockStop, Event, IsDelta
    <3>5. <<BlockStop(x)>> \in Seq(Asides)
      BY <3>3, <3>4, StreamAsides
    <3> QED
      BY <3>1, <3>5, OneStop
  <2> QED
    BY <2>1, <2>2
<1>3. ASSUME NEW start \in Stream, start.type = "content_block_start"
      PROVE  OpeningOf(st.open, b, start) \in Seq(Asides)
  <2>1. start \in Asides
    BY <1>3, StreamAsides DEF IsDelta
  <2> QED
    BY <1>2, <2>1, StreamAsides DEF OpeningOf
<1> QED
  BY <1>2, <1>3

\* A block is opened: asides, and nothing at all if it is the current one.
LEMMA OpenedAsides ==
    ASSUME NEW kept \in ResponsesState, NEW b \in 0 .. kept.next - 1, NEW start \in Stream,
           start.type = "content_block_start"
    PROVE  LET p == OpenIfNeeded(Unchanged(kept), b, start)
           IN /\ p \in ResponsesPair /\ p.out \in Seq(Asides) /\ p.st.open = {b}
              /\ b \in kept.open => p.st = kept
<1> DEFINE u == Unchanged(kept)
           p == OpenIfNeeded(u, b, start)
           opening == OpeningOf(kept.open, b, start)
<1>1. u \in ResponsesPair /\ u.st = kept /\ u.out = <<>>
  BY UnchangedTyped DEF Unchanged
<1> HIDE DEF u
<1>2. /\ p \in ResponsesPair /\ p.st = Opened(kept, b) /\ p.out = u.out \o opening
      /\ p.st.open = {b}
  <2>1. b \in 0 .. u.st.next - 1
    BY <1>1
  <2> QED
    BY <1>1, <2>1, OpenedTyped
<1> HIDE DEF p
<1>3. opening \in Seq(Asides)
  BY OpeningAsides
<1> HIDE DEF opening
<1>4. p.out = opening
  <2>1. <<>> \o opening = opening
    BY <1>3, ConcatEmptySeq
  <2> QED
    BY <1>1, <1>2, <2>1
<1>5. b \in kept.open => p.st = kept
  BY <1>2 DEF Opened
<1> QED
  BY <1>2, <1>3, <1>4, <1>5 DEF p, u

LEMMA OpenPartAsides ==
    ASSUME NEW st \in ResponsesState, NEW kind \in BlockKinds, NEW key \in PartKeys
    PROVE  LET p == OpenPart(st, kind, key)
               b == p.st.blockByKey[key]
           IN /\ p \in ResponsesPair /\ p.out \in Seq(Asides) /\ p.st.open = {b} /\ b \in Nat
              /\ Current(st, st.blockByKey[key]) => p.st = st
<1> DEFINE kept == PartAllocated(st, key)
           b == kept.blockByKey[key]
           p == OpenPart(st, kind, key)
           start == BlockStart(b, kind, key)
<1>1. /\ p = OpenIfNeeded(Unchanged(kept), b, start) /\ p.st.blockByKey[key] = b /\ b \in Nat
  BY OpenPartTyped
<1>2. kept \in ResponsesState /\ b \in 0 .. kept.next - 1
  BY PartAllocatedTyped
<1>3. start \in Stream /\ start.type = "content_block_start"
  <2>1. start \in Stream
    BY <1>1, BodyTyped, StreamTyped DEF Idents, Names
  <2> QED
    BY <2>1 DEF BlockStart, Event
<1>4. Current(st, st.blockByKey[key]) => kept = st /\ b \in st.open
  <2>1. NoBlock \notin st.open
    BY DEF ResponsesState, Numbered, NoBlock
  <2> QED
    BY <2>1 DEF Current, PartAllocated
<1> HIDE DEF p, kept, b, start
<1>5. p \in ResponsesPair /\ p.out \in Seq(Asides) /\ p.st.open = {b} /\ (b \in kept.open => p.st = kept)
  BY <1>1, <1>2, <1>3, OpenedAsides
<1> QED
  BY <1>1, <1>4, <1>5 DEF p

LEMMA OpenFunctionAsides ==
    ASSUME NEW st \in ResponsesState, NEW o \in Outputs
    PROVE  LET p == OpenFunction(st, o)
               b == p.st.functions[o].block
           IN /\ p \in ResponsesPair /\ p.out \in Seq(Asides) /\ p.st.open = {b} /\ b \in Nat
              /\ Current(st, st.functions[o].block) => p.st = st
<1> DEFINE kept == CallAllocated(st, o)
           b == kept.functions[o].block
           p == OpenFunction(st, o)
           key == PartKey(o, 0)
           start == ToolStart(b, key, "client")
<1>1. /\ p = OpenIfNeeded(Unchanged(kept), b, start) /\ p.st.functions[o].block = b /\ b \in Nat
  BY OpenFunctionTyped
<1>2. kept \in ResponsesState /\ b \in 0 .. kept.next - 1
  BY CallAllocatedTyped
<1>3. start \in Stream /\ start.type = "content_block_start"
  <2>1. start \in Stream
    BY <1>1, BodyTyped, StreamTyped, KeyTyped, PartsAssumption DEF Idents, Names, BlockKinds
  <2> QED
    BY <2>1 DEF ToolStart, BlockStart, Event
<1>4. Current(st, st.functions[o].block) => kept = st /\ b \in st.open
  <2>1. NoFunction.block \notin st.open
    BY DEF ResponsesState, Numbered, NoBlock, NoFunction
  <2> QED
    BY <2>1 DEF Current, CallAllocated
<1> HIDE DEF p, kept, b, start
<1>5. p \in ResponsesPair /\ p.out \in Seq(Asides) /\ p.st.open = {b} /\ (b \in kept.open => p.st = kept)
  BY <1>1, <1>2, <1>3, OpenedAsides
<1> QED
  BY <1>1, <1>4, <1>5 DEF p

\* What is said in an open block: a piece, or the whole of a part, or nothing.
LEMMA DeltaSays ==
    ASSUME NEW p \in ResponsesPair, p.out \in Seq(Asides), NEW b \in Nat, p.st.open = {b},
           NEW d \in Written, IsDelta(d), d.index = b
    PROVE  /\ WithDelta(p, d).out = Append(p.out, d)
           /\ b \in WithDelta(p, d).st.hasDelta
           /\ WithDelta(p, d).st.blockByKey = p.st.blockByKey
           /\ WithDelta(p, d).st.functions = p.st.functions
           /\ Emit(p, d).out = Append(p.out, d) /\ Emit(p, d).st = p.st
           /\ d \in Stream => Emit(p, d) \in ResponsesPair
<1>1. /\ WithDelta(p, d).st = [p.st EXCEPT !.hasDelta = {d.index}]
      /\ WithDelta(p, d).out = Append(p.out, d)
  BY WithDeltaTyped
<1>2. p.st \in ResponsesFields
  BY DEF ResponsesPair, ResponsesState
<1>3. /\ b \in WithDelta(p, d).st.hasDelta
      /\ WithDelta(p, d).st.blockByKey = p.st.blockByKey
      /\ WithDelta(p, d).st.functions = p.st.functions
  BY <1>1, <1>2 DEF ResponsesFields
<1> DEFINE out == Append(p.out, d)
<1>4. Emit(p, d) = [st |-> p.st, out |-> out]
  BY DEF Emit, ResponsesPair
<1> HIDE DEF out
<1>5. Emit(p, d).st = p.st /\ Emit(p, d).out = out
  BY <1>4
<1>6. d \in Stream => Emit(p, d) \in ResponsesPair
  BY EmitTyped
<1> QED
  BY <1>1, <1>3, <1>5, <1>6 DEF out

\* A piece of a part and the whole of it.
LEMMA AnswersSaid ==
    ASSUME NEW b \in Nat, NEW kind \in AnswerKinds, NEW key \in PartKeys,
           NEW d, d \in {BlockDelta(b, kind, key), WholeDelta(b, kind, key)}
    PROVE  d \in Stream /\ d \in Written /\ IsAnswer(d) /\ d.index = b /\ d.of = key
<1>1. kind \in BlockKinds /\ key \in Idents
  BY DEF BlockKinds, Idents, AnswerKinds
<1>2. d \in Stream /\ d \in Written /\ d.index = b
  BY <1>1, DeltaEvent, WrittenReadable
<1>3. /\ BlockDelta(b, kind, key).of = key
      /\ BlockDelta(b, kind, key).type = "content_block_delta"
      /\ BlockDelta(b, kind, key).kind = kind
  BY DEF BlockDelta, Event
<1>4. /\ WholeDelta(b, kind, key).of = key
      /\ WholeDelta(b, kind, key).type = "content_block_delta"
      /\ WholeDelta(b, kind, key).kind = kind
  BY DEF WholeDelta, BlockDelta, Event
<1>6. d.of = key /\ d.type = "content_block_delta" /\ d.kind = kind
  BY <1>3, <1>4
<1>7. IsAnswer(d)
  BY <1>6 DEF IsAnswer, IsDelta, PartOf, Answers
<1> QED
  BY <1>2, <1>6, <1>7

\* A signature and a default text are asides.
LEMMA AsidesSaid ==
    ASSUME NEW b \in Nat, NEW key \in PartKeys,
           NEW d, d \in {BlockDelta(b, "signature", key), BlockDelta(b, "thinking", <<>>)}
    PROVE  d \in Stream /\ d \in Asides /\ IsDelta(d) /\ d.index = b
<1> DEFINE none == <<>>
<1>1. /\ "signature" \in BlockKinds /\ "thinking" \in BlockKinds
      /\ key \in Idents /\ none \in Idents
  BY DEF BlockKinds, Idents
<1>2. ASSUME NEW k \in BlockKinds, NEW of \in Idents, <<k, of>> \notin Answers,
             d = BlockDelta(b, k, of)
      PROVE  d \in Stream /\ d \in Asides /\ IsDelta(d) /\ d.index = b
  <2>1. d \in Stream /\ d \in Written /\ d.index = b
    BY <1>2, DeltaEvent, WrittenReadable
  <2>2. /\ BlockDelta(b, k, of).whole = FALSE /\ BlockDelta(b, k, of).of = of
        /\ BlockDelta(b, k, of).type = "content_block_delta" /\ BlockDelta(b, k, of).kind = k
    BY DEF BlockDelta, Event
  <2>3. IsDelta(d) /\ PartOf(d) = <<k, of>> /\ d.whole = FALSE
    BY <1>2, <2>2 DEF IsDelta, PartOf
  <2>4. ~IsAnswer(d)
    BY <1>2, <2>3 DEF IsAnswer
  <2> QED
    BY <2>1, <2>3, <2>4 DEF Asides
<1>3. <<"signature", key>> \notin Answers
  BY DEF Answers, AnswerKinds
<1>4. <<"thinking", none>> \notin Answers
  <2>1. none \notin PartKeys
    BY DEF PartKeys
  <2> QED
    BY <2>1 DEF Answers
<1>5. d = BlockDelta(b, "signature", key) \/ d = BlockDelta(b, "thinking", none)
  OBVIOUS
<1> HIDE DEF none
<1> QED
  BY <1>1, <1>2, <1>3, <1>4, <1>5

\* Events of texts and of reasoning.
LEMMA PartEventSays ==
    ASSUME NEW st \in ResponsesState, NEW e \in ItemEvents, ItemKind(e) # "function"
    PROVE  ItemSays(st, e, TranslateResponsesEvent(st, e))
<1> DEFINE key == KeyOf(e)
           of == EventPart(e)
           c == TranslateResponsesEvent(st, e)
<1>1. /\ key \in PartKeys /\ of \in PartKeys
      /\ e.type \in {"reasoning_delta", "reasoning_done", "reasoning_item_done",
                     "compaction_done"} => PartKey(e.out, 0) = key
      /\ e.type \in {"text_delta", "text_done"} => PartKey(e.out, e.part) = key /\ of = key
      /\ e.type \in {"text_delta", "text_done", "reasoning_delta", "reasoning_done",
                     "reasoning_item_done", "compaction_done"}
      /\ e.type # "function_added"
      /\ e.type \in {"text_delta", "reasoning_delta"} => AfterEvent(e) = "begun"
      /\ e.type \notin {"text_delta", "reasoning_delta"} => AfterEvent(e) # "begun"
  <2>1. e.out \in Outputs /\ e.part \in Parts
    BY PartsAssumption DEF ItemEvents
  <2>2. /\ e.type \in {"reasoning_delta", "reasoning_done", "reasoning_item_done",
                       "compaction_done"} => ItemKind(e) = "reasoning"
        /\ e.type \in {"text_delta", "text_done"} => ItemKind(e) = "message"
    BY DEF ItemKind
  <2>3. e.type \in {"text_delta", "text_done", "reasoning_delta", "reasoning_done",
                    "reasoning_item_done", "compaction_done"}
    BY DEF ItemEvents, ItemKind
  <2>4. key \in PartKeys /\ of \in PartKeys
    BY <2>1, KeyTyped, PartsAssumption DEF KeyOf, EventPart
  <2>5. /\ ItemKind(e) = "reasoning" => key = PartKey(e.out, 0)
        /\ ItemKind(e) # "reasoning" => key = PartKey(e.out, e.part)
        /\ of = PartKey(e.out, e.part)
    BY DEF KeyOf, EventPart
  <2>6. /\ e.type \in {"text_delta", "reasoning_delta"} => AfterEvent(e) = "begun"
        /\ e.type \notin {"text_delta", "reasoning_delta"} => AfterEvent(e) # "begun"
    BY <2>3 DEF AfterEvent, Ends, EndsItem
  <2> HIDE DEF key, of
  <2> QED
    BY <2>2, <2>3, <2>4, <2>5, <2>6
<1>0. ASSUME NEW s PROVE BlockOf(s, ItemKind(e), of) = s.blockByKey[key]
  <2>1. ItemKind(e) = "reasoning" => key = PartKey(of[1], 0)
    BY DEF KeyOf, EventPart, PartKey
  <2>2. ItemKind(e) # "reasoning" => key = of
    BY DEF KeyOf, EventPart
  <2> HIDE DEF key, of
  <2> QED
    BY <2>1, <2>2 DEF BlockOf
<1>2. ASSUME NEW kind \in AnswerKinds,
             NEW p, p = OpenPart(st, kind, key), NEW b, b = p.st.blockByKey[key]
      PROVE  /\ AfterEvent(e) = "begun" =>
                  ItemSays(st, e, WithDelta(p, BlockDelta(b, kind, of)))
             /\ AfterEvent(e) # "begun" =>
                  /\ ItemSays(st, e, p)
                  /\ ItemKind(e) # "reasoning" \/ ~Ends(e) =>
                       ItemSays(st, e, WholeIfSilent(p, WholeDelta(b, kind, of)))
                  /\ ItemSays(st, e, WithDelta(p, BlockDelta(b, "signature", key)))
                  /\ ItemSays(st, e, WithDelta(Emit(p, BlockDelta(b, "thinking", <<>>)),
                                               BlockDelta(b, "signature", key)))
  <2>1. /\ p \in ResponsesPair /\ p.out \in Seq(Asides) /\ p.st.open = {b} /\ b \in Nat
        /\ Current(st, st.blockByKey[key]) => p.st = st
    <3>1. kind \in BlockKinds
      BY DEF BlockKinds, AnswerKinds
    <3> QED
      BY <1>1, <1>2, <3>1, OpenPartAsides
  <2> DEFINE piece == BlockDelta(b, kind, of)
             whole == WholeDelta(b, kind, of)
             signature == BlockDelta(b, "signature", key)
             default == BlockDelta(b, "thinking", <<>>)
  <2>2. /\ piece \in Written /\ IsAnswer(piece) /\ piece.index = b /\ piece.of = of
        /\ piece.whole = FALSE
        /\ whole \in Stream /\ whole \in Written /\ IsAnswer(whole) /\ whole.index = b
        /\ whole.of = of /\ whole.whole # FALSE
        /\ signature \in Asides /\ signature \in Stream /\ IsDelta(signature) /\ signature.index = b
        /\ default \in Asides /\ default \in Stream /\ IsDelta(default) /\ default.index = b
    <3>1. kind \in AnswerKinds /\ b \in Nat /\ key \in PartKeys /\ of \in PartKeys
      BY <1>1, <2>1
    <3> HIDE DEF key, of
    <3>2. piece.whole = FALSE /\ whole.whole # FALSE
      BY DEF BlockDelta, WholeDelta, Event
    <3> HIDE DEF signature, default
    <3>3. piece \in Written /\ IsAnswer(piece) /\ piece.index = b /\ piece.of = of
      <4>1. piece \in {BlockDelta(b, kind, of), WholeDelta(b, kind, of)}
        OBVIOUS
      <4> HIDE DEF piece
      <4> QED
        BY <3>1, <4>1, AnswersSaid
    <3>4. /\ whole \in Stream /\ whole \in Written /\ IsAnswer(whole) /\ whole.index = b
          /\ whole.of = of
      <4>1. whole \in {BlockDelta(b, kind, of), WholeDelta(b, kind, of)}
        OBVIOUS
      <4> HIDE DEF whole
      <4> QED
        BY <3>1, <4>1, AnswersSaid
    <3>5. signature \in Asides /\ signature \in Stream /\ IsDelta(signature) /\ signature.index = b
      BY <3>1, AsidesSaid DEF signature
    <3>6. default \in Asides /\ default \in Stream /\ IsDelta(default) /\ default.index = b
      BY <3>1, AsidesSaid DEF default
    <3> QED
      BY <3>2, <3>3, <3>4, <3>5, <3>6
  <2> HIDE DEF piece, whole, signature, default, key, of
  <2>3. ASSUME AfterEvent(e) = "begun" PROVE ItemSays(st, e, WithDelta(p, piece))
    <3>1. /\ WithDelta(p, piece).out = Append(p.out, piece)
          /\ b \in WithDelta(p, piece).st.hasDelta
          /\ WithDelta(p, piece).st.blockByKey = p.st.blockByKey
      BY <2>1, <2>2, DeltaSays DEF IsAnswer
    <3>2. BlockOf(WithDelta(p, piece).st, ItemKind(e), of) = b
      BY <1>0, <1>2, <3>1
    <3>3. ~Ends(e)
      BY <2>3 DEF AfterEvent
    <3> QED
      BY <2>1, <2>2, <2>3, <3>1, <3>2, <3>3 DEF ItemSays, of
  <2>4. ASSUME AfterEvent(e) # "begun" PROVE ItemSays(st, e, p)
    BY <2>1, <2>4 DEF ItemSays
  <2>5. ASSUME AfterEvent(e) # "begun", ItemKind(e) # "reasoning" \/ ~Ends(e)
        PROVE  ItemSays(st, e, WholeIfSilent(p, whole))
    <3>1. CASE b \in p.st.hasDelta
      BY <2>2, <2>4, <2>5, <3>1 DEF WholeIfSilent
    <3>2. CASE b \notin p.st.hasDelta
      <4>1. WholeIfSilent(p, whole) = Emit(p, whole)
        BY <2>2, <3>2 DEF WholeIfSilent
      <4>2. Emit(p, whole).out = Append(p.out, whole)
        BY <2>1, <2>2, DeltaSays DEF IsAnswer
      <4>3. LET x == BlockOf(st, ItemKind(e), of)
            IN Current(st, x) => x \notin st.hasDelta
        BY <1>0, <1>2, <2>1, <3>2
      <4> QED
        BY <2>1, <2>2, <2>5, <4>1, <4>2, <4>3 DEF ItemSays, of
    <3> QED
      BY <3>1, <3>2
  <2>6. ASSUME AfterEvent(e) # "begun", NEW q \in ResponsesPair, q.out \in Seq(Asides), q.st = p.st
        PROVE  ItemSays(st, e, WithDelta(q, signature))
    <3>1. WithDelta(q, signature).out = Append(q.out, signature)
      <4>1. signature \in Written
        BY <2>2 DEF Asides
      <4>2. q.st.open = {b}
        BY <2>1, <2>6
      <4> QED
        BY <2>1, <2>2, <2>6, <4>1, <4>2, DeltaSays
    <3>2. WithDelta(q, signature).out \in Seq(Asides)
      BY <2>2, <2>6, <3>1, StreamAsides
    <3> QED
      BY <2>6, <3>2 DEF ItemSays
  <2>7. ItemSays(st, e, WithDelta(p, signature)) \/ AfterEvent(e) = "begun"
    BY <2>1, <2>6
  <2>8. ItemSays(st, e, WithDelta(Emit(p, default), signature)) \/ AfterEvent(e) = "begun"
    <3>1. /\ Emit(p, default).out = Append(p.out, default) /\ Emit(p, default).st = p.st
          /\ Emit(p, default) \in ResponsesPair
      <4>1. default \in Written
        BY <2>2 DEF Asides
      <4> QED
        BY <2>1, <2>2, <4>1, DeltaSays
    <3>2. Emit(p, default).out \in Seq(Asides)
      BY <2>1, <2>2, <3>1, StreamAsides
    <3> QED
      BY <2>6, <3>1, <3>2
  <2> QED
    BY <2>3, <2>4, <2>5, <2>7, <2>8 DEF piece, whole, signature, default, key, of
<1> HIDE DEF key, of
<1>3. CASE e.type = "text_delta"
  <2>1. c = HandleOutputTextDelta(st, e)
    BY <1>3 DEF TranslateResponsesEvent
  <2> QED
    BY <1>1, <1>2, <1>3, <2>1 DEF AnswerKinds, HandleOutputTextDelta
<1>4. CASE e.type = "text_done"
  <2>1. c = HandleOutputTextDone(st, e)
    BY <1>4 DEF TranslateResponsesEvent
  <2>2. ItemKind(e) # "reasoning"
    BY <1>4 DEF ItemKind
  <2> QED
    BY <1>1, <1>2, <1>4, <2>1, <2>2 DEF AnswerKinds, HandleOutputTextDone
<1>5. CASE e.type = "reasoning_delta"
  <2>1. c = HandleReasoningSummaryTextDelta(st, e)
    BY <1>5 DEF TranslateResponsesEvent
  <2> QED
    BY <1>1, <1>2, <1>5, <2>1 DEF AnswerKinds, HandleReasoningSummaryTextDelta, of, EventPart
<1>6. CASE e.type = "reasoning_done"
  <2>1. c = HandleReasoningSummaryTextDone(st, e)
    BY <1>6 DEF TranslateResponsesEvent
  <2>2. ~Ends(e)
    BY <1>6 DEF Ends, EndsItem
  <2> QED
    BY <1>1, <1>2, <1>6, <2>1, <2>2 DEF AnswerKinds, HandleReasoningSummaryTextDone, of, EventPart
<1>7. CASE e.type \in {"reasoning_item_done", "compaction_done"}
  <2>1. c = HandleOutputItemDone(st, e)
    BY <1>7 DEF TranslateResponsesEvent
  <2>2. AfterEvent(e) # "begun" /\ PartKey(e.out, 0) = key
    BY <1>1, <1>7
  <2> HIDE DEF c
  <2> QED
    BY <1>2, <2>1, <2>2 DEF AnswerKinds, HandleOutputItemDone, c
<1> QED
  BY <1>1, <1>3, <1>4, <1>5, <1>6, <1>7

\* Events of function calls.
LEMMA CallEventSays ==
    ASSUME NEW st \in ResponsesState, NEW e \in ItemEvents, ItemKind(e) = "function"
    PROVE  ItemSays(st, e, TranslateResponsesEvent(st, e))
<1> DEFINE key == PartKey(e.out, 0)
           p == OpenFunction(st, e.out)
           b == p.st.functions[e.out].block
           c == TranslateResponsesEvent(st, e)
           piece == BlockDelta(b, "input_json", key)
           first == Unchecked(piece, e.tail)
           whole == Unchecked(WholeDelta(b, "input_json", key), e.tail)
<1>1. /\ key \in PartKeys /\ e.out \in Outputs /\ e.tail \in Tails
      /\ EventPart(e) = key /\ EventPart(e)[1] = e.out
  BY KeyTyped, PartsAssumption DEF ItemEvents, ItemKind, EventPart, PartKey, Tails
<1>2. /\ p \in ResponsesPair /\ p.out \in Seq(Asides) /\ p.st.open = {b} /\ b \in Nat
      /\ Current(st, st.functions[e.out].block) => p.st = st
  BY <1>1, OpenFunctionAsides
<1> HIDE DEF p, key
<1>3. p.st \in ResponsesState /\ p.st \in ResponsesFields /\ b \in 0 .. p.st.next - 1
  <2>1. p.st \in ResponsesState /\ p.st \in ResponsesFields /\ p.st.next \in Nat
    BY <1>2 DEF ResponsesPair, ResponsesState, ResponsesFields
  <2>2. PICK x \in 0 .. p.st.next - 1 : p.st.open = {x}
    BY <1>2, <2>1 DEF ResponsesState, Numbered
  <2> QED
    BY <1>2, <2>1, <2>2
<1> HIDE DEF b
<1>5. "input_json" \in AnswerKinds
  BY DEF AnswerKinds
<1>6. ASSUME NEW d \in {piece, WholeDelta(b, "input_json", key)}
      PROVE  /\ Unchecked(d, e.tail) \in Written /\ IsAnswer(Unchecked(d, e.tail))
             /\ Unchecked(d, e.tail).index = b /\ Unchecked(d, e.tail).of = key
             /\ Unchecked(d, e.tail).whole = d.whole
  <2>1. d \in Stream /\ IsAnswer(d) /\ d.index = b /\ d.of = key
    BY <1>1, <1>2, <1>5, AnswersSaid
  <2> HIDE DEF piece
  <2> DEFINE u == Unchecked(d, e.tail)
  <2>2. /\ u \in Stream /\ u.index = d.index /\ u.type = d.type /\ u.kind = d.kind
        /\ u.of = d.of /\ u.whole = d.whole
    BY <2>1, UncheckedTyped
  <2> HIDE DEF u
  <2>3. IsAnswer(u) /\ u \in Written
    BY <2>1, <2>2, WrittenReadable DEF IsAnswer, IsDelta, PartOf
  <2> QED
    BY <2>1, <2>2, <2>3 DEF u
<1>7. /\ first \in Written /\ IsAnswer(first) /\ first.index = b /\ first.of = key
      /\ whole \in Written /\ IsAnswer(whole) /\ whole.index = b /\ whole.of = key
      /\ first.whole = FALSE /\ whole.whole # FALSE
  <2> DEFINE w == WholeDelta(b, "input_json", key)
  <2>1. piece.whole = FALSE /\ w.whole # FALSE
    BY DEF BlockDelta, WholeDelta, Event
  <2> HIDE DEF piece, w
  <2> QED
    BY <1>6, <2>1 DEF w
<1> HIDE DEF first
<1> HIDE DEF whole, piece
<1>8. CASE e.type = "function_added"
  <2>1. c = IF e.body THEN WithDelta(p, first) ELSE p
    BY <1>8 DEF TranslateResponsesEvent, HandleOutputItemAdded, p, b, key, piece, first
  <2>2. AfterEvent(e) = "begun"
    BY <1>8 DEF AfterEvent, Ends, EndsItem
  <2> HIDE DEF c
  <2>3. CASE c = p
    BY <1>2, <1>8, <2>3 DEF ItemSays, c
  <2>4. CASE c = WithDelta(p, first)
    <3>1. /\ c.out = Append(p.out, first) /\ b \in c.st.hasDelta /\ c.st.functions = p.st.functions
      BY <1>2, <1>7, <2>4, DeltaSays DEF IsAnswer
    <3>2. BlockOf(c.st, ItemKind(e), key) = b
      BY <1>1, <3>1 DEF BlockOf, b
    <3>3. ItemSays(st, e, c)
      BY <1>1, <1>2, <1>7, <2>2, <3>1, <3>2 DEF ItemSays
    <3> QED
      BY <3>3 DEF c
  <2> QED
    BY <2>1, <2>3, <2>4
<1>9. CASE e.type = "arguments_done"
  <2> DEFINE q == IF b \in p.st.hasDelta \/ ~e.body THEN p ELSE WithDelta(p, whole)
  <2>1. c = [q EXCEPT !.st.functions[e.out] = NoFunction]
    BY <1>9 DEF TranslateResponsesEvent, HandleFunctionCallArgumentsDone, p, b, key, whole
  <2>2. AfterEvent(e) # "begun"
    BY <1>9 DEF AfterEvent, Ends, EndsItem
  <2>3. ASSUME NEW r, r.out = q.out PROVE ItemSays(st, e, r)
    <3>1. CASE q = p
      BY <1>2, <2>2, <2>3, <3>1 DEF ItemSays
    <3>2. CASE b \notin p.st.hasDelta /\ q = WithDelta(p, whole)
      <4>1. r.out = Append(p.out, whole)
        BY <1>2, <1>7, <2>3, <3>2, DeltaSays DEF IsAnswer
      <4>2. LET x == BlockOf(st, ItemKind(e), key) IN Current(st, x) => x \notin st.hasDelta
        BY <1>1, <1>2, <3>2 DEF BlockOf, b
      <4> QED
        BY <1>1, <1>2, <1>7, <2>2, <4>1, <4>2 DEF ItemSays
    <3> QED
      BY <3>1, <3>2
  <2>4. c.out = q.out
    <3>1. DOMAIN q = {"st", "out"}
      BY <1>2 DEF WithDelta, Emit, ResponsesPair
    <3> HIDE DEF q, c
    <3> QED
      BY <2>1, <3>1
  <2> QED
    BY <2>3, <2>4
<1>10. CASE e.type = "arguments_delta"
  <2> DEFINE n == Breaks(p.st.functions[e.out].breaks, e.tail)
             q == [p EXCEPT !.st.functions[e.out].breaks = n]
             d == [piece EXCEPT !.reason = e.tail]
  <2>1. c = IF n > MaxWhitespace THEN Failed(p) ELSE WithDelta(q, d)
    BY <1>10 DEF TranslateResponsesEvent, HandleFunctionCallArgumentsDelta, p, b, key, piece
  <2>2. AfterEvent(e) = "begun"
    BY <1>10 DEF AfterEvent, Ends, EndsItem
  <2>3. n \in Nat
    BY <1>1, <1>3 DEF ResponsesFields, FunctionRecord, Breaks, Tails
  <2>4. CASE c = Failed(p)
    <3>1. c.st.completed = TRUE /\ c.out = Append(p.out \o Stops(p.st.open), ErrorEvent)
      BY <1>2, <2>4, FailedTyped
    <3>2. Stops(p.st.open) \in Seq(Asides) /\ ErrorEvent \in Asides
      <4>1. ErrorEvent \in Stream /\ ~IsDelta(ErrorEvent)
        BY StreamTyped DEF ErrorEvent, Event, IsDelta
      <4> QED
        BY <1>3, <4>1, OpeningAsides, StreamAsides
    <3>3. p.out \o Stops(p.st.open) \in Seq(Asides)
      BY <1>2, <3>2, ConcatProperties
    <3> HIDE DEF c
    <3>4. c.out \in Seq(Asides)
      BY <3>1, <3>2, <3>3, StreamAsides
    <3> QED
      BY <3>1, <3>4 DEF ItemSays, c
  <2>5. CASE c = WithDelta(q, d)
    <3> HIDE DEF n
    <3>1. /\ q = [st |-> WithRun(p.st, e.out, n), out |-> p.out] /\ q \in ResponsesPair
          /\ WithRun(p.st, e.out, n).open = p.st.open
      <4>1. p.st.functions[e.out].block \in 0 .. p.st.next - 1
        BY <1>1, <1>3 DEF b
      <4>2. p \in ResponsesPair /\ e.out \in Outputs
        BY <1>1, <1>2
      <4> QED
        BY ONLY <2>3, <4>1, <4>2, WithRunTyped
    <3>2. /\ q.out = p.out /\ q.st.open = {b} /\ q.st = WithRun(p.st, e.out, n)
      BY <1>2, <3>1
    <3> HIDE DEF q
    <3>3. q.st.functions[e.out].block = b
      BY <1>1, <1>3, <3>2 DEF WithRun, ResponsesFields, FunctionRecord, b
    <3>4. d \in ArgumentsDelta /\ d.index = b /\ d.of = key
      BY <1>1, <1>2, ArgumentsDeltaEvent DEF piece
    <3> HIDE DEF d
    <3>5. d \in Written /\ IsAnswer(d) /\ d.whole = FALSE
      <4>1. d.type = "content_block_delta" /\ d.kind = "input_json" /\ d.whole = FALSE
        BY <3>4 DEF ArgumentsDelta
      <4> QED
        BY <1>1, <1>5, <3>4, <4>1 DEF Written, IsAnswer, IsDelta, PartOf, Answers
    <3>6. /\ c.out = Append(p.out, d) /\ b \in c.st.hasDelta /\ c.st.functions = q.st.functions
      <4>1. /\ q \in ResponsesPair /\ q.out \in Seq(Asides) /\ b \in Nat /\ q.st.open = {b}
            /\ d \in Written /\ IsDelta(d) /\ d.index = b
        BY <1>2, <3>1, <3>2, <3>4, <3>5 DEF IsAnswer
      <4>2. /\ WithDelta(q, d).out = Append(q.out, d) /\ b \in WithDelta(q, d).st.hasDelta
            /\ WithDelta(q, d).st.functions = q.st.functions
        BY ONLY <4>1, DeltaSays
      <4> QED
        BY <2>5, <3>2, <4>2
    <3> HIDE DEF c
    <3>7. BlockOf(c.st, ItemKind(e), key) = b
      BY <1>1, <3>3, <3>6 DEF BlockOf
    <3>8. ItemSays(st, e, c)
      BY <1>1, <1>2, <2>2, <3>4, <3>5, <3>6, <3>7 DEF ItemSays
    <3> QED
      BY <3>8 DEF c
  <2> QED
    BY <2>1, <2>4, <2>5
<1>11. e.type \in {"function_added", "arguments_delta", "arguments_done"}
  BY DEF ItemEvents, ItemKind
<1> QED
  BY <1>8, <1>9, <1>10, <1>11

\* The events that end a response are asides.
LEMMA EndAsides ==
    ASSUME NEW st \in ResponsesState, NEW e, e.type \in {"completed", "failed", "error"}
    PROVE  LET c == TranslateResponsesEvent(st, e)
           IN c.st.completed /\ c.out \in Seq(Asides)
<1> DEFINE u == Unchanged(st)
           c == TranslateResponsesEvent(st, e)
<1>1. u \in ResponsesPair /\ u.st = st /\ u.out = <<>>
  BY UnchangedTyped DEF Unchanged
<1> HIDE DEF u
<1>2. ErrorEvent \in Asides
  BY StreamTyped, StreamAsides DEF ErrorEvent, Event, IsDelta
<1>3. CASE e.type = "failed" \/ (e.type = "completed" /\ ~e.body)
  <2>1. c = Failed(u)
    BY <1>3 DEF TranslateResponsesEvent, HandleResponseFailed, HandleResponseCompleted, u
  <2>2. Failed(u).st.completed /\ Failed(u).out = Append(u.out \o Stops(u.st.open), ErrorEvent)
    BY <1>1, FailedTyped
  <2>3. u.out \in Seq(Asides) /\ Stops(u.st.open) \in Seq(Asides)
    BY <1>1, OpeningAsides, StreamAsides
  <2>4. u.out \o Stops(u.st.open) \in Seq(Asides)
    BY <2>3, ConcatProperties
  <2> QED
    BY <1>2, <2>1, <2>2, <2>4, StreamAsides
<1>4. CASE e.type = "completed" /\ e.body
  <2> DEFINE q == CloseAllOpenBlocks(u)
             t == [q.st EXCEPT !.completed = TRUE]
  <2>1. q \in ResponsesPair /\ q.out = u.out \o Stops(u.st.open)
    BY <1>1, ClosedAllTyped
  <2> HIDE DEF q
  <2>2. t.completed = TRUE
    BY <2>1 DEF ResponsesPair, ResponsesState, ResponsesFields
  <2>3. c = [st |-> t, out |-> q.out \o Terminal("end_turn")]
    BY <1>4 DEF TranslateResponsesEvent, HandleResponseCompleted, q, u
  <2> HIDE DEF t
  <2>4. c.st.completed /\ c.out = q.out \o Terminal("end_turn")
    BY <2>2, <2>3
  <2>5. u.out \in Seq(Asides) /\ Stops(u.st.open) \in Seq(Asides)
    BY <1>1, OpeningAsides, StreamAsides
  <2>6. q.out \in Seq(Asides)
    BY <2>1, <2>5, ConcatProperties
  <2>7. Terminal("end_turn") \in Seq(Asides)
    <3> DEFINE d == [Event("message_delta") EXCEPT !.reason = "end_turn", !.usage = 1]
               m == Event("message_stop")
    <3>1. Terminal("end_turn") = <<d, m>> /\ d.type = "message_delta" /\ m.type = "message_stop"
      BY DEF Terminal, Event
    <3> HIDE DEF d, m
    <3>2. Terminal("end_turn") \in Seq(Stream)
      BY StreamTyped DEF Reasons
    <3>3. d \in Stream /\ m \in Stream
      <4>1. Len(Terminal("end_turn")) = 2
        BY <3>1
      <4>2. Terminal("end_turn")[1] \in Stream /\ Terminal("end_turn")[2] \in Stream
        BY <3>2, <4>1
      <4> QED
        BY <3>1, <4>2
    <3>4. d \in Asides /\ m \in Asides
      BY <3>1, <3>3, StreamAsides DEF IsDelta
    <3>5. \A a, b \in Asides : <<a, b>> \in Seq(Asides)
      OBVIOUS
    <3> QED
      BY <3>1, <3>4, <3>5
  <2> QED
    BY <2>4, <2>6, <2>7, ConcatProperties
<1>5. CASE e.type = "error"
  <2> DEFINE t == [st EXCEPT !.completed = TRUE]
  <2>1. t.completed = TRUE
    BY DEF ResponsesState, ResponsesFields
  <2>2. c = Emit(Unchanged(t), ErrorEvent)
    BY <1>5 DEF TranslateResponsesEvent, HandleErrorEvent
  <2> HIDE DEF t
  <2>3. c.st = t /\ c.out = Append(<<>>, ErrorEvent)
    BY <2>2 DEF Emit, Unchanged
  <2> QED
    BY <1>2, <2>1, <2>3, StreamAsides
<1> QED
  BY <1>3, <1>4, <1>5

\* What the upstream's parts say of the answers. A part with a piece is begun, and then its
\* block knows of the piece, or it is over; a complete part is over; only reasoning is told.
PartsKnown(parts, wholes) ==
    \A k \in PartKeys :
      /\ \A kind \in AnswerKinds :
           /\ <<kind, k>> \in wholes => upstream.part[k] \in {"told", "done"}
           /\ <<kind, k>> \in parts =>
                /\ upstream.part[k] # "new"
                /\ upstream.part[k] = "begun" =>
                     BlockOf(responses, upstream.item[k[1]], k) \in responses.hasDelta
      /\ upstream.part[k] = "told" => upstream.item[k[1]] = "reasoning"

\* Of a serial upstream no part that was read is still to be said.
OnceInv ==
    Serial /\ request.flow = "responses" =>
      \E parts, wholes :
        /\ Once(wire, parts, wholes) /\ Says(wire, pending, parts, wholes)
        /\ ~Over => PartsKnown(parts, wholes)

LEMMA OnceInit == Init => OnceInv
<1> SUFFICES ASSUME Init PROVE OnceInv
  OBVIOUS
<1>1. /\ pending = <<>> /\ wire.twice = {} /\ wire.wholes = {} /\ wire.parts = {}
  BY DEF Init, NewWire
<1>2. /\ upstream.part = [k \in PartKeys |-> "new"]
  BY DEF Init, NewUpstream
<1>3. Once(wire, {}, {})
  BY <1>1 DEF Once
<1>4. Says(wire, pending, {}, {})
  BY <1>1, EmptySeq DEF Says
<1>5. PartsKnown({}, {})
  BY <1>2 DEF PartsKnown
<1> QED
  BY <1>3, <1>4, <1>5 DEF OnceInv

\* Once the last events have been made it is enough that these are asides.
LEMMA OnceOver ==
    ASSUME NEW parts, NEW wholes, Once(wire, parts, wholes), wire' = wire,
           pending' \in Seq(Asides), Over'
    PROVE  OnceInv'
  BY DEF OnceInv, Once, Says

\* A step that translates nothing.
LEMMA OnceKept ==
    ASSUME Typed, NEW parts, NEW wholes, Once(wire, parts, wholes), Says(wire, pending, parts, wholes),
           ~Over => PartsKnown(parts, wholes),
           UNCHANGED <<request, upstream, responses>>,
           \/ Write
           \/ wire' = Read(wire, Event("ping")) /\ pending' = pending
           \/ UNCHANGED <<wire, pending>>
    PROVE  OnceInv'
<1>1. (PartsKnown(parts, wholes) => PartsKnown(parts, wholes)') /\ (Over <=> Over')
  BY DEF PartsKnown, Over
<1>2. wire \in WireState /\ pending \in Seq(Written)
  BY DEF Typed
<1>3. CASE Write
  <2>1. pending # <<>> /\ wire' = Read(wire, pending[1]) /\ pending' = Tail(pending)
    BY <1>2, <1>3, HeadTailProperties DEF Write
  <2>2. Once(wire', parts, wholes) /\ Says(wire', pending', parts, wholes)
    BY <1>2, <2>1, OnceRead
  <2> QED
    BY <1>1, <2>2 DEF OnceInv
<1>4. CASE wire' = Read(wire, Event("ping")) /\ pending' = pending
  <2>1. Event("ping") \in Readable /\ ~IsDelta(Event("ping"))
    BY WrittenReadable DEF Event, IsDelta
  <2>2. wire'.parts = wire.parts /\ wire'.wholes = wire.wholes /\ wire'.twice = wire.twice
    BY <1>2, <1>4, <2>1, PartsRead
  <2>3. Once(wire', parts, wholes)
    BY <2>2 DEF Once
  <2>4. Says(wire', pending', parts, wholes)
    BY <1>4, <2>2 DEF Says, News
  <2> QED
    BY <1>1, <2>3, <2>4 DEF OnceInv
<1>5. CASE UNCHANGED <<wire, pending>>
  BY <1>1, <1>5 DEF OnceInv
<1> QED
  BY <1>3, <1>4, <1>5

\* An event of the response as a whole.
LEMMA OnceResponse ==
    ASSUME Typed, WellInv, Tame, NEW parts, NEW wholes,
           Once(wire, parts, wholes), Says(wire, pending, parts, wholes),
           ~Over => PartsKnown(parts, wholes), ResponsesCreated \/ ResponsesTerminal
    PROVE  OnceInv'
<1>1. /\ ReadingResponses /\ request.flow = "responses" /\ ~Over /\ PartsInv
      /\ responses \in ResponsesState
  <2>1. ReadingResponses
    BY DEF ResponsesCreated, ResponsesTerminal
  <2>2. request.flow = "responses" /\ ~Over /\ responses \in ResponsesState
    BY <2>1 DEF ReadingResponses, Over, Typed
  <2> QED
    BY <2>1, <2>2 DEF WellInv
<1>2. ASSUME NEW type, NEW body
      PROVE  /\ Control(type, body).type = type /\ Control(type, body).body = body
             /\ type \in {"created", "completed", "failed", "error"} =>
                  Control(type, body) \notin ItemEvents
  BY DEF Control, ItemEvents
<1>4. CASE ResponsesCreated
  <2> DEFINE e == Control("created", TRUE)
             m == Event("message_start")
  <2>1. Translated(e) /\ ~upstream.created /\ e.type = "created" /\ e.body /\ e \notin ItemEvents
    BY <1>2, <1>4 DEF ResponsesCreated
  <2> HIDE DEF e
  <2>2. responses = FreshResponses
    BY <1>1, <2>1 DEF PartsInv
  <2>3. /\ TranslateResponsesEvent(responses, e).st = responses
        /\ TranslateResponsesEvent(responses, e).out = <<m>>
    <3>1. TranslateResponsesEvent(responses, e) = Emit(Unchanged(responses), m)
      BY <2>1 DEF TranslateResponsesEvent, HandleResponseCreated
    <3> QED
      BY <3>1 DEF Emit, Unchanged
  <2>4. /\ responses' = responses /\ pending' = <<m>>
        /\ upstream'.part = upstream.part /\ upstream'.item = upstream.item
        /\ UNCHANGED <<request, wire>>
    BY <1>1, <2>1, <2>3, AfterTranslated
  <2>5. PartsKnown(parts, wholes)'
    BY <1>1, <2>4 DEF PartsKnown
  <2>6. pending' \in Seq(Asides)
    <3>1. m \in Asides
      <4>1. m \in EventsOf(BodyTypes)
        BY EventTyped DEF BodyTypes
      <4>2. m \in Stream
        BY <4>1, StreamTyped DEF Body
      <4>3. ~IsDelta(m)
        BY DEF Event, IsDelta
      <4> QED
        BY <4>2, <4>3, StreamAsides
    <3> HIDE DEF m
    <3> QED
      BY <2>4, <3>1
  <2> QED
    BY <2>4, <2>5, <2>6 DEF OnceInv, Once, Says
<1>5. CASE ResponsesTerminal
  <2>1. PICK type \in {"completed", "failed", "error"}, body \in BOOLEAN :
          Translated(Control(type, body))
    BY <1>5 DEF ResponsesTerminal
  <2> DEFINE e == Control(type, body)
             c == TranslateResponsesEvent(responses, e)
  <2>2. e.type = type /\ e \notin ItemEvents
    BY <1>2
  <2> HIDE DEF e
  <2>3. c.st.completed /\ c.out \in Seq(Asides)
    BY <1>1, <2>2, EndAsides
  <2>4. upstream'.phase = "ended" /\ pending' = c.out /\ wire' = wire
    BY <1>1, <2>1, <2>3, AfterTranslated DEF e
  <2> QED
    BY <2>3, <2>4, OnceOver DEF Over
<1> QED
  BY <1>4, <1>5

\* An event of an output item says a part that was not said whole, and says it whole only if
\* nothing of it was said.
LEMMA OnceItem ==
    ASSUME Typed, WellInv, Serial, NEW parts, NEW wholes,
           Once(wire, parts, wholes), ~Over => PartsKnown(parts, wholes), ResponsesItem
    PROVE  OnceInv'
<1>1. PICK e \in ItemEvents :
        ReadingResponses /\ PossibleEvent(e) /\ OrderlyEvent(e) /\ Translated(e)
  BY DEF ResponsesItem
<1> DEFINE c == TranslateResponsesEvent(responses, e)
           k == EventPart(e)
           kind == ItemKind(e)
<1>2. /\ responses' = c.st /\ pending' = c.out
      /\ upstream'.phase = IF c.st.completed THEN "ended" ELSE "open"
      /\ upstream'.part = PartsAfter(e)
      /\ upstream'.item = [upstream.item EXCEPT ![e.out] = kind]
      /\ UNCHANGED <<request, wire>> /\ request.flow = "responses" /\ upstream.phase = "open"
  BY <1>1, AfterTranslated
<1>3. ~Over /\ PartsInv /\ PartsKnown(parts, wholes) /\ responses \in ResponsesState
  BY <1>2, TameIs DEF Over, WellInv, Typed
<1>4. ItemSays(responses, e, c)
  BY <1>3, PartEventSays, CallEventSays
<1>5. k \in PartKeys /\ k[1] = e.out /\ e.out \in Outputs
  BY PartsAssumption DEF ItemEvents, EventPart, PartKey, PartKeys
<1>6. /\ upstream.part \in [PartKeys -> {"new", "begun", "told", "done"}]
      /\ upstream.item \in [Outputs -> {"none", "message", "function", "reasoning"}]
      /\ \A x \in PartKeys : x[1] \in Outputs
  BY DEF Typed, UpstreamState, PartKeys
<1>7. /\ upstream.part[k] # "done"
      /\ upstream.part[k] = "told" => Ends(e)
      /\ upstream.item[k[1]] \in {"none", kind}
      /\ e.type = "function_added" => upstream.part[k] = "new"
  BY <1>1, <1>5 DEF PossibleEvent, EventPart
<1>8. /\ upstream'.part[k] = AfterEvent(e) /\ upstream'.item[k[1]] = kind
      /\ \A x \in Outputs : x # e.out => upstream'.item[x] = upstream.item[x]
      /\ \A x \in PartKeys : x # k =>
           \/ upstream'.part[x] = "done"
           \/ /\ upstream'.part[x] = upstream.part[x]
              /\ upstream.part[x] \in {"new", "done"} \/ (upstream.part[x] = "told" /\ x[1] = e.out)
  <2>1. /\ k \in Touched(e)
        /\ \A x \in Touched(e) : x \in PartKeys /\ (x # k => AfterEvent(e) = "done")
    BY <1>5 DEF Touched, EventPart, AfterEvent, Ends
  <2>2. \A x \in PartKeys :
          upstream'.part[x] = IF x \in Touched(e) THEN AfterEvent(e) ELSE upstream.part[x]
    BY <1>2 DEF PartsAfter
  <2>3. upstream'.item[k[1]] = kind /\ \A x \in Outputs : x # e.out => upstream'.item[x] = upstream.item[x]
    BY <1>2, <1>5, <1>6
  <2> HIDE DEF k, kind
  <2> QED
    BY <1>1, <1>5, <1>6, <2>1, <2>2, <2>3 DEF OrderlyEvent
<1>9. /\ AfterEvent(e) \in {"begun", "told", "done"}
      /\ AfterEvent(e) = "told" => kind = "reasoning"
      /\ AfterEvent(e) = "told" => ~Ends(e)
      /\ AfterEvent(e) = "done" => Ends(e)
      /\ AfterEvent(e) = "begun" => ~Ends(e)
  BY DEF AfterEvent, Ends, ItemKind
<1>10. upstream.part[k] # "new" => upstream.item[k[1]] = kind
  BY <1>3, <1>5, <1>7 DEF PartsInv
<1> HIDE DEF c, k, kind
\* What is known of the parts afterwards, with perhaps one answer more.
<1>11. ASSUME NEW more, NEW all,
              \A a \in AnswerKinds, x \in PartKeys : <<a, x>> \in more => x = k \/ <<a, x>> \in parts,
              \A a \in AnswerKinds, x \in PartKeys : <<a, x>> \in all => x = k \/ <<a, x>> \in wholes,
              \A a \in AnswerKinds : <<a, k>> \in all => AfterEvent(e) # "begun",
              \A a \in AnswerKinds : <<a, k>> \in more /\ AfterEvent(e) = "begun" =>
                BlockOf(c.st, kind, k) \in c.st.hasDelta
       PROVE  PartsKnown(more, all)'
  <2> SUFFICES ASSUME NEW x \in PartKeys
               PROVE  /\ \A a \in AnswerKinds :
                           /\ <<a, x>> \in all => upstream'.part[x] \in {"told", "done"}
                           /\ <<a, x>> \in more =>
                                /\ upstream'.part[x] # "new"
                                /\ upstream'.part[x] = "begun" =>
                                     BlockOf(responses', upstream'.item[x[1]], x)
                                       \in responses'.hasDelta
                      /\ upstream'.part[x] = "told" => upstream'.item[x[1]] = "reasoning"
    BY DEF PartsKnown
  <2>1. CASE x = k
    BY <1>2, <1>8, <1>9, <1>11, <2>1
  <2>2. CASE x # k
    <3>1. \/ upstream'.part[x] = "done"
          \/ /\ upstream'.part[x] = upstream.part[x]
             /\ upstream.part[x] \in {"new", "done"} \/ (upstream.part[x] = "told" /\ x[1] = e.out)
      BY <1>8, <2>2
    <3>2. upstream.part[x] = "told" /\ x[1] = e.out => upstream'.item[x[1]] = "reasoning"
      <4>1. upstream.part[x] = "told" => upstream.item[x[1]] = "reasoning"
        BY <1>3 DEF PartsKnown
      <4> QED
        BY <1>5, <1>7, <1>8, <4>1
    <3> QED
      BY <1>3, <1>11, <2>2, <3>1, <3>2 DEF PartsKnown
  <2> QED
    BY <2>1, <2>2
<1>12. CASE c.out \in Seq(Asides) /\ (c.st.completed \/ e.type = "function_added" \/ AfterEvent(e) # "begun")
  <2>1. CASE c.st.completed
    BY <1>2, <1>12, <2>1, OnceOver DEF Over
  <2>2. CASE ~c.st.completed
    <3>1. e.type = "function_added" => \A a \in AnswerKinds : <<a, k>> \notin parts /\ <<a, k>> \notin wholes
      BY <1>3, <1>5, <1>7 DEF PartsKnown
    <3>2. \A a \in AnswerKinds : <<a, k>> \in wholes => AfterEvent(e) # "begun"
      BY <1>12, <2>2, <3>1
    <3>3. \A a \in AnswerKinds : <<a, k>> \in parts => AfterEvent(e) # "begun"
      BY <1>12, <2>2, <3>1
    <3>4. PartsKnown(parts, wholes)'
      BY <1>11, <3>2, <3>3
    <3>5. Once(wire', parts, wholes) /\ Says(wire', pending', parts, wholes)
      BY <1>2, <1>12 DEF Once, Says
    <3> QED
      BY <3>4, <3>5 DEF OnceInv
  <2> QED
    BY <2>1, <2>2
<1>13. ASSUME NEW t \in Seq(Asides), NEW d \in Written,
              c.out = Append(t, d), IsAnswer(d), d.of = k,
              kind = "reasoning" => ~Ends(e),
              d.whole = FALSE => /\ AfterEvent(e) = "begun"
                                 /\ BlockOf(c.st, kind, k) \in c.st.hasDelta,
              d.whole # FALSE =>
                /\ AfterEvent(e) # "begun"
                /\ LET b == BlockOf(responses, kind, k)
                   IN Current(responses, b) => b \notin responses.hasDelta
       PROVE  OnceInv'
  <2>1. d.whole \in BOOLEAN
    BY WrittenReadable DEF Readable
  <2>2. PartOf(d) = <<d.kind, k>> /\ d.kind \in AnswerKinds
    BY <1>13 DEF PartOf, IsAnswer, Answers
  \* The part was not told: only the end of reasoning comes after that, and says nothing.
  <2>3. upstream.part[k] \in {"new", "begun"}
    <3>1. upstream.part[k] = "told" => upstream.item[k[1]] = "reasoning"
      BY <1>3, <1>5 DEF PartsKnown
    <3>2. upstream.part[k] # "told"
      <4>1. SUFFICES ASSUME upstream.part[k] = "told" PROVE FALSE
        OBVIOUS
      <4>2. kind = "reasoning" /\ Ends(e)
        BY <1>7, <1>10, <3>1, <4>1
      <4> QED
        BY <1>13, <4>2
    <3>3. upstream.part[k] \in {"new", "begun", "told", "done"}
      BY <1>5, <1>6
    <3> QED
      BY <1>7, <3>2, <3>3
  <2>4. \A a \in AnswerKinds : <<a, k>> \notin wholes
    BY <1>3, <1>5, <2>3 DEF PartsKnown
  <2>5. PartOf(d) \notin wire.wholes
    BY <2>2, <2>4 DEF Once
  <2>6. CASE d.whole = FALSE
    <3> DEFINE more == parts \cup {PartOf(d)}
    <3>1. /\ AfterEvent(e) = "begun" /\ BlockOf(c.st, kind, k) \in c.st.hasDelta
      BY <1>13, <2>6
    <3>2. \A a \in AnswerKinds, x \in PartKeys : <<a, x>> \in more => x = k \/ <<a, x>> \in parts
      BY <2>2
    <3>3. PartsKnown(more, wholes)'
      <4> HIDE DEF more
      <4> QED
        BY <1>11, <2>4, <3>1, <3>2
    <3>4. News(wire, d)
      BY <2>5, <2>6 DEF News
    <3>5. Once(wire', more, wholes)
      BY <1>2 DEF Once
    <3>6. PartOf(d) \in more
      OBVIOUS
    <3> HIDE DEF more
    <3>7. News(wire', d)
      BY <1>2, <3>4
    <3>8. Says(wire', pending', more, wholes)
      BY <1>2, <1>13, <2>6, <3>6, <3>7 DEF Says
    <3> QED
      BY <3>3, <3>5, <3>8 DEF OnceInv
  <2>7. CASE d.whole = TRUE
    <3> DEFINE all == wholes \cup {PartOf(d)}
    <3>1. /\ AfterEvent(e) # "begun"
          /\ LET b == BlockOf(responses, kind, k)
             IN Current(responses, b) => b \notin responses.hasDelta
      BY <1>13, <2>7
    <3>2. \A a \in AnswerKinds, x \in PartKeys : <<a, x>> \in all => x = k \/ <<a, x>> \in wholes
      BY <2>2
    <3>3. PartsKnown(parts, all)'
      <4> HIDE DEF all
      <4> QED
        BY <1>11, <3>1, <3>2
    <3>4. PartOf(d) \notin parts
      <4>1. SUFFICES ASSUME PartOf(d) \in parts PROVE FALSE
        OBVIOUS
      <4>2. /\ upstream.part[k] # "new"
            /\ upstream.part[k] = "begun" =>
                 BlockOf(responses, upstream.item[k[1]], k) \in responses.hasDelta
        BY <1>3, <1>5, <2>2, <4>1 DEF PartsKnown
      <4>3. upstream.part[k] = "begun" /\ upstream.item[k[1]] = kind
        BY <1>10, <2>3, <4>2
      <4>4. Current(responses, BlockOf(responses, kind, k))
        BY <1>3, <1>5, <4>3 DEF PartsInv
      <4> QED
        BY <3>1, <4>2, <4>3, <4>4
    <3>5. PartOf(d) \notin wire.parts
      BY <1>13, <3>4 DEF Once, IsAnswer
    <3>6. Once(wire', parts, all)
      BY <1>2 DEF Once
    <3>7. PartOf(d) \in all
      OBVIOUS
    <3> HIDE DEF all
    <3>8. News(wire', d)
      BY <1>2, <2>5, <3>5 DEF News
    <3>9. Says(wire', pending', parts, all)
      BY <1>2, <1>13, <2>7, <3>7, <3>8 DEF Says
    <3> QED
      BY <3>3, <3>6, <3>9 DEF OnceInv
  <2> QED
    BY <2>1, <2>6, <2>7
<1> QED
  BY <1>4, <1>12, <1>13 DEF ItemSays, k, kind

LEMMA OnceNext ==
    ASSUME Typed, ToolInv, WellInv, OnceInv, [Next]_vars PROVE OnceInv'
<1>1. request' = request
  BY SameRequest
<1>2. SUFFICES ASSUME Serial, request.flow = "responses" PROVE OnceInv'
  BY <1>1 DEF OnceInv, Serial
<1>3. PICK parts, wholes :
        /\ Once(wire, parts, wholes) /\ Says(wire, pending, parts, wholes)
        /\ ~Over => PartsKnown(parts, wholes)
  BY <1>2 DEF OnceInv
<1>4. CASE Write
  BY <1>1, <1>3, <1>4, OnceKept DEF Write
<1>5. CASE ResponsesCreated \/ ResponsesTerminal
  BY <1>2, <1>3, <1>5, OnceResponse, TameIs
<1>6. CASE ResponsesItem
  BY <1>2, <1>3, <1>6, OnceItem
<1>7. CASE ResponsesEnds \/ UpstreamFails
  <2>0. upstream'.phase = "ended"
    BY <1>7 DEF ResponsesEnds, UpstreamFails, Typed, UpstreamState
  <2>1. pending' = <<ErrorEvent>> /\ wire' = wire /\ Over'
    BY <1>7, <2>0 DEF ResponsesEnds, UpstreamFails, Over
  <2>2. ErrorEvent \in Asides
    BY StreamTyped, StreamAsides DEF ErrorEvent, Event, IsDelta
  <2>3. pending' \in Seq(Asides)
    BY <2>1, <2>2
  <2> QED
    BY <1>3, <2>1, <2>3, OnceOver
<1>8. CASE ResponsesPing \/ Heartbeat
  <2>1. /\ wire' = Read(wire, Event("ping"))
        /\ UNCHANGED <<request, upstream, responses, pending>>
    BY <1>8 DEF ResponsesPing, Heartbeat
  <2> QED
    BY <1>3, <2>1, OnceKept
<1>9. CASE UNCHANGED vars
  BY <1>3, <1>9, OnceKept DEF vars
<1>10. ~(ChatChunk \/ ChatEnds)
  BY <1>2 DEF ChatChunk, ChatEnds
<1>11. ~(AgentChunk \/ UpstreamAnswers \/ NextTurn \/ LastTurn)
  BY <1>2 DEF AgentChunk, UpstreamAnswers, NextTurn, LastTurn, TurnOver, InAgent
<1>12. ~(DispatchMessageStart \/ HandleBlockStart \/ HandleBlockDelta \/ HandleBlockStop
         \/ BufferTerminal)
  BY <1>2 DEF DispatchMessageStart, HandleBlockStart, HandleBlockDelta, HandleBlockStop,
              BufferTerminal, Dispatching, InAgent
<1>13. ~ToolSettles
  BY <1>2 DEF ToolSettles, ToolInv
<1> QED
  BY <1>4, <1>5, <1>6, <1>7, <1>8, <1>9, <1>10, <1>11, <1>12, <1>13, Zenon
  DEF Next, UpstreamStep, ServerStep

\* A serial upstream's texts and arguments are read once: the complete text that closes a part
\* is not sent on top of its deltas, nor twice (handleOutputTextDone and its like skip it when
\* blockHasDelta).
THEOREM PartsOnce == Spec => []PartsReadOnce
<1>1. Init => WellInv /\ BilledInv /\ ToolInv /\ PiecesInv /\ OnceInv
  BY WellInit, BilledInit, PiecesInit, OnceInit DEF Init, NewAgent, ToolInv
<1>2. Typed /\ WellInv /\ BilledInv /\ ToolInv /\ PiecesInv /\ OnceInv /\ [Next]_vars
        => (WellInv /\ BilledInv /\ ToolInv /\ PiecesInv /\ OnceInv)'
  BY WellNext, BilledNext, ToolNext, PiecesNext, OnceNext
<1>3. PiecesInv /\ OnceInv => PartsReadOnce
  BY DEF PiecesInv, OnceInv, Once, PartsReadOnce
<1> QED
  BY <1>1, <1>2, <1>3, AlwaysTyped, PTL DEF Spec
=============================================================================
