------------------------- MODULE ControlFeedProofs -------------------------
(***************************************************************************)
(* Theorems about ControlFeed, for any number of clients, connections and  *)
(* account surfaces, and any queue capacity.  The last part shows that it  *)
(* implements Feed.                                                        *)
(***************************************************************************)
EXTENDS ControlFeed, TLAPS, SequenceTheorems

-----------------------------------------------------------------------------
(* What a reader ends with *)

LEMMA FramesTyped ==
    /\ \A a, r \in Nat : /\ Frame("auth", a, r) \in FrameType
                         /\ Frame("accounts", a, r) \in FrameType
                         /\ Frame("snapshot", a, r) \in FrameType
    /\ NoFrame \in FrameType /\ Keepalive \in FrameType
    /\ \A a, r \in Nat : State(a, r) \in StateType
  BY DEF Frame, NoFrame, Keepalive, FrameType, State, StateType

Fields == {"auth", "accounts"}

\* A frame queued at the tail decides what it carries and nothing else.
LEMMA EndsAfterAppend ==
    ASSUME NEW f \in Fields, NEW q \in Seq(FrameType), NEW fr \in FrameType,
           NEW st \in StateType, NEW w \in Nat,
           IF Carries(fr, f) THEN fr[f] = w ELSE EndsWith(f, w, st, q)
    PROVE  EndsWith(f, w, st, Append(q, fr))
<1> DEFINE r == Append(q, fr)
<1>1. /\ Len(r) = Len(q) + 1 /\ Len(q) \in Nat
      /\ \A i \in 1 .. Len(q) : r[i] = q[i]
      /\ r[Len(q) + 1] = fr
  BY AppendProperties
<1> HIDE DEF r
<1>2. ASSUME Carries(fr, f) PROVE EndsWith(f, w, st, r)
  BY <1>1, <1>2 DEF EndsWith
<1>3. ASSUME ~Carries(fr, f) PROVE EndsWith(f, w, st, r)
  <2>1. CASE st[f] = w /\ \A i \in 1 .. Len(q) : ~Carries(q[i], f)
    BY <1>1, <1>3, <2>1 DEF EndsWith
  <2>2. ASSUME NEW i \in 1 .. Len(q), Carries(q[i], f), q[i][f] = w,
               \A j \in i + 1 .. Len(q) : ~Carries(q[j], f)
        PROVE  EndsWith(f, w, st, r)
    BY <1>1, <1>3, <2>2 DEF EndsWith
  <2> QED
    BY <1>3, <2>1, <2>2 DEF EndsWith
<1> QED
  BY <1>2, <1>3 DEF r

LEMMA Cons ==
    ASSUME NEW q \in Seq(FrameType), NEW fr \in FrameType
    PROVE  /\ <<fr>> \o q \in Seq(FrameType)
           /\ Len(<<fr>> \o q) = Len(q) + 1 /\ Len(q) \in Nat
           /\ (<<fr>> \o q)[1] = fr
           /\ \A i \in 1 .. Len(q) : (<<fr>> \o q)[i + 1] = q[i]
           /\ \A i \in 2 .. Len(q) + 1 : (<<fr>> \o q)[i] = q[i - 1]
  BY ConcatProperties, <<fr>> \in Seq(FrameType), Len(<<fr>>) = 1, <<fr>>[1] = fr

\* A snapshot put in front of the queue stands for the state it was built from.
LEMMA EndsAfterSnapshot ==
    ASSUME NEW f \in Fields, NEW q \in Seq(FrameType), NEW snap \in StateType,
           NEW st \in StateType, NEW v \in Nat, EndsWith(f, v, snap, q)
    PROVE  EndsWith(f, v, st,
                    <<Frame("snapshot", snap.auth, snap.accounts)>> \o q)
<1> DEFINE fr == Frame("snapshot", snap.auth, snap.accounts)
           r  == <<fr>> \o q
<1>1. fr \in FrameType /\ Carries(fr, f) /\ fr[f] = snap[f]
  BY DEF Frame, FrameType, StateType, Carries, Fields
<1>2. /\ Len(r) = Len(q) + 1 /\ Len(q) \in Nat /\ r[1] = fr
      /\ \A i \in 1 .. Len(q) : r[i + 1] = q[i]
      /\ \A i \in 2 .. Len(q) + 1 : r[i] = q[i - 1]
  BY <1>1, Cons
<1> HIDE DEF fr, r
<1>3. ASSUME snap[f] = v, \A i \in 1 .. Len(q) : ~Carries(q[i], f)
      PROVE  EndsWith(f, v, st, r)
  BY <1>1, <1>2, <1>3 DEF EndsWith
<1>4. ASSUME NEW i \in 1 .. Len(q),
             Carries(q[i], f), q[i][f] = v,
             \A j \in i + 1 .. Len(q) : ~Carries(q[j], f)
      PROVE  EndsWith(f, v, st, r)
  <2>1. i + 1 \in 1 .. Len(r) /\ r[i + 1] = q[i]
    BY <1>2
  <2>2. ASSUME NEW j \in i + 2 .. Len(r) PROVE ~Carries(r[j], f)
    <3>1. j \in 2 .. Len(q) + 1 /\ j - 1 \in i + 1 .. Len(q)
      BY <1>2
    <3>2. r[j] = q[j - 1]
      BY <1>2, <3>1
    <3> QED
      BY <1>4, <3>1, <3>2
  <2> QED
    BY <1>4, <2>1, <2>2 DEF EndsWith
<1> QED
  BY <1>3, <1>4 DEF EndsWith, fr, r

\* Taking the first frame into the state changes nothing about the end.
LEMMA EndsAfterApply ==
    ASSUME NEW f \in Fields, NEW q \in Seq(FrameType), NEW fr \in FrameType,
           NEW st \in StateType, NEW v \in Nat, EndsWith(f, v, st, <<fr>> \o q)
    PROVE  EndsWith(f, v, Applied(st, fr), q)
<1> DEFINE r == <<fr>> \o q
<1>1. /\ Len(r) = Len(q) + 1 /\ Len(q) \in Nat /\ r[1] = fr
      /\ \A i \in 1 .. Len(q) : r[i + 1] = q[i]
      /\ \A i \in 2 .. Len(q) + 1 : r[i] = q[i - 1]
  BY Cons
<1>2. Applied(st, fr)[f] = IF Carries(fr, f) THEN fr[f] ELSE st[f]
  <2>1. CASE f = "auth"
    BY <2>1 DEF Applied, Carries, State, StateType, FrameType
  <2>2. CASE f = "accounts"
    BY <2>2 DEF Applied, Carries, State, StateType, FrameType
  <2> QED
    BY <2>1, <2>2 DEF Fields
<1>3. EndsWith(f, v, st, r)
  OBVIOUS
<1> HIDE DEF r
<1>4. CASE st[f] = v /\ \A i \in 1 .. Len(r) : ~Carries(r[i], f)
  BY <1>1, <1>2, <1>4 DEF EndsWith
<1>5. ASSUME NEW i \in 1 .. Len(r), Carries(r[i], f), r[i][f] = v,
             \A j \in i + 1 .. Len(r) : ~Carries(r[j], f)
      PROVE  EndsWith(f, v, Applied(st, fr), q)
  <2>1. CASE i = 1
    BY <1>1, <1>2, <1>5, <2>1 DEF EndsWith
  <2>2. CASE i # 1
    <3>1. i - 1 \in 1 .. Len(q) /\ r[i] = q[i - 1]
      BY <1>1, <2>2
    <3>2. \A j \in i .. Len(q) : ~Carries(q[j], f)
      BY <1>1, <1>5
    <3> QED
      BY <1>5, <3>1, <3>2 DEF EndsWith
  <2> QED
    BY <2>1, <2>2
<1> QED
  BY <1>3, <1>4, <1>5 DEF EndsWith

-----------------------------------------------------------------------------
(* One subscriber *)

\* The state a snapshot under construction stands for: until the accounts list
\* is read, with the list `v` that a read would find.
Seed(f, sub, v) ==
    IF f = "accounts" /\ sub.phase = "reading"
    THEN [sub.snap EXCEPT !.accounts = v] ELSE sub.snap

\* What a subscriber record still has to bring its client to: the snapshot
\* being built and the queue, or the client's state `st` and what is owed.
Due(f, sub, v, st) ==
    IF sub.phase \in {"reading", "read"} THEN EndsWith(f, v, Seed(f, sub, v), sub.queue)
    ELSE EndsWith(f, v, st, Owed(sub))

LEMMA SeedTyped ==
    ASSUME NEW f \in Fields, NEW sub \in SubscriberType, NEW v \in Nat
    PROVE  Seed(f, sub, v) \in StateType
  BY DEF Seed, SubscriberType, StateType

\* A parked drain loop has emptied its queue, and is a live subscriber's; one
\* that has returned, or never started, is not.
Shape(sub) ==
    /\ sub.phase = "waiting" => sub.alive /\ sub.queue = <<>>
    /\ sub.phase \in {"ended", "unused"} => ~sub.alive

\* A well-typed record within the queue's bound.
Good(sub) == sub \in SubscriberType /\ Len(sub.queue) <= Capacity /\ Shape(sub)

LEMMA BasicRecords ==
    /\ Good(Unused) /\ Good(Ended) /\ ~Ended.alive /\ Ended.phase = "ended"
    /\ Unused.phase = "unused" /\ ~Unused.alive
    /\ Ended.link = "up" /\ Unused.link = "up"
<1>1. /\ NoFrame \in FrameType /\ State(0, 0) \in StateType
      /\ <<>> \in Seq(FrameType) /\ Len(<<>>) = 0
  BY FramesTyped
<1>2. /\ Unused \in SubscriberType /\ Unused.queue = <<>>
      /\ Unused.phase = "unused" /\ ~Unused.alive /\ Unused.link = "up"
  BY <1>1 DEF Unused, SubscriberType
<1>3. /\ Ended \in SubscriberType /\ Ended.queue = <<>>
      /\ Ended.phase = "ended" /\ ~Ended.alive /\ Ended.link = "up"
  BY <1>2 DEF Ended, SubscriberType
<1> QED
  BY <1>1, <1>2, <1>3, CapacityAssumption DEF Good, Shape

LEMMA RemovedGood ==
    ASSUME NEW sub, Good(sub)
    PROVE  /\ Good(Removed(sub)) /\ ~Removed(sub).alive
           /\ (Removed(sub).phase = "unused") <=> (sub.phase = "unused")
           /\ Removed(sub).link \in {sub.link, "up"}
  BY BasicRecords DEF Good, Removed, SubscriberType, Shape, Ended, Unused

\* A pushed frame keeps the record well formed, opens and closes nothing, and
\* reaches the client of a subscriber that stays alive.
LEMMA PushedGood ==
    ASSUME NEW sub, Good(sub), NEW fr \in FrameType
    PROVE  /\ Good(Pushed(sub, fr))
           /\ (Pushed(sub, fr).phase = "unused") <=> (sub.phase = "unused")
           /\ Pushed(sub, fr).link \in {sub.link, "up"}
<1>1. CASE ~sub.alive
  BY <1>1 DEF Pushed
<1>2. CASE sub.alive /\ sub.phase = "waiting"
  BY <1>2 DEF Pushed, Good, SubscriberType, Shape
<1>3. CASE sub.alive /\ sub.phase # "waiting" /\ Len(sub.queue) >= Capacity
  BY <1>3, RemovedGood DEF Pushed
<1>4. CASE sub.alive /\ sub.phase # "waiting" /\ ~(Len(sub.queue) >= Capacity)
  <2>1. /\ Append(sub.queue, fr) \in Seq(FrameType)
        /\ Len(Append(sub.queue, fr)) <= Capacity
    BY <1>4, CapacityAssumption, AppendProperties DEF Good, SubscriberType
  <2>2. Pushed(sub, fr) = [sub EXCEPT !.queue = Append(sub.queue, fr)]
    BY <1>4 DEF Pushed
  <2> QED
    BY <1>4, <2>1, <2>2 DEF Good, SubscriberType, Shape
<1> QED
  BY <1>1, <1>2, <1>3, <1>4

LEMMA PushedDue ==
    ASSUME NEW f \in Fields, NEW sub, Good(sub), NEW fr \in FrameType,
           NEW st \in StateType, NEW w \in Nat,
           IF Carries(fr, f) THEN fr[f] = w ELSE Due(f, sub, w, st),
           Pushed(sub, fr).alive
    PROVE  sub.alive /\ Due(f, Pushed(sub, fr), w, st)
<1> DEFINE p == Pushed(sub, fr)
<1>0. /\ sub.queue \in Seq(FrameType) /\ sub.snap \in StateType
      /\ sub.item \in FrameType /\ Seed(f, sub, w) \in StateType
  BY SeedTyped DEF Good, SubscriberType
<1>1. sub.alive
  BY DEF Pushed
<1>2. CASE sub.phase = "waiting"
  <2>1. IF Carries(fr, f) THEN fr[f] = w ELSE EndsWith(f, w, st, <<>>)
    BY <1>2 DEF Due, Owed, Good, Shape
  <2>2. EndsWith(f, w, st, Append(<<>>, fr))
    BY <2>1, EndsAfterAppend, <<>> \in Seq(FrameType)
  <2>3. Append(<<>>, fr) = <<fr>> \o <<>>
    OBVIOUS
  <2>4. p = [sub EXCEPT !.phase = "writing", !.item = fr]
    BY <1>1, <1>2 DEF Pushed
  <2>5. p.phase = "writing" /\ Owed(p) = <<fr>> \o <<>>
    BY <1>2, <2>4 DEF Owed, Good, Shape, SubscriberType
  <2> QED
    BY <1>1, <2>2, <2>3, <2>5 DEF Due
<1>3. CASE sub.phase # "waiting"
  <2>1. p = [sub EXCEPT !.queue = Append(sub.queue, fr)]
    BY <1>1, <1>3, RemovedGood DEF Pushed
  <2>2. /\ p.queue = Append(sub.queue, fr) /\ p.phase = sub.phase
        /\ p.snap = sub.snap /\ p.item = sub.item
    BY <2>1 DEF Good, SubscriberType
  <2>3. CASE sub.phase \in {"reading", "read"}
    <3>1. Seed(f, p, w) = Seed(f, sub, w)
      BY <2>2 DEF Seed
    <3>2. IF Carries(fr, f) THEN fr[f] = w
          ELSE EndsWith(f, w, Seed(f, sub, w), sub.queue)
      BY <2>3 DEF Due
    <3>3. EndsWith(f, w, Seed(f, sub, w), Append(sub.queue, fr))
      BY <1>0, <3>2, EndsAfterAppend
    <3> QED
      BY <1>1, <2>2, <2>3, <3>1, <3>3 DEF Due
  <2>4. CASE sub.phase \notin {"reading", "read"}
    <3>1. Owed(sub) \in Seq(FrameType)
      BY <1>0, Cons DEF Owed
    <3>2. Owed(p) = Append(Owed(sub), fr)
      BY <1>0, <2>2 DEF Owed
    <3>3. IF Carries(fr, f) THEN fr[f] = w ELSE EndsWith(f, w, st, Owed(sub))
      BY <2>4 DEF Due
    <3>4. EndsWith(f, w, st, Append(Owed(sub), fr))
      BY <3>1, <3>3, EndsAfterAppend
    <3> QED
      BY <1>1, <2>2, <2>4, <3>2, <3>4 DEF Due
  <2> QED
    BY <2>3, <2>4
<1> QED
  BY <1>2, <1>3

\* The head of the drain loop hands on what the queue holds, one frame or none.
LEMMA DrainedGood ==
    ASSUME NEW sub \in SubscriberType, Len(sub.queue) <= Capacity + 1,
           sub.phase # "unused"
    PROVE  /\ Good(Drained(sub)) /\ Drained(sub).phase \in {"waiting", "writing", "ended"}
           /\ Drained(sub).alive => sub.alive /\ Owed(Drained(sub)) = sub.queue
           /\ Drained(sub).link \in {sub.link, "up"}
<1>1. CASE ~sub.alive
  BY <1>1, BasicRecords DEF Drained
<1>2. CASE sub.alive /\ sub.queue = <<>>
  <2> DEFINE d == Drained(sub)
  <2>1. d = [sub EXCEPT !.phase = "waiting", !.item = NoFrame]
    BY <1>2 DEF Drained
  <2>2. /\ d \in SubscriberType /\ d.phase = "waiting"
        /\ d.queue = <<>> /\ d.alive /\ d.link = sub.link
    BY <1>2, <2>1, FramesTyped DEF SubscriberType
  <2> HIDE DEF d
  <2>3. Good(d) /\ Owed(d) = <<>>
    BY <2>2, CapacityAssumption, Len(<<>>) = 0 DEF Good, Shape, Owed
  <2> QED
    BY <1>2, <2>2, <2>3 DEF d
<1>3. CASE sub.alive /\ sub.queue # <<>>
  <2>1. /\ Head(sub.queue) \in FrameType /\ Tail(sub.queue) \in Seq(FrameType)
        /\ Len(Tail(sub.queue)) = Len(sub.queue) - 1 /\ Len(sub.queue) \in Nat
        /\ sub.queue = <<Head(sub.queue)>> \o Tail(sub.queue)
    BY <1>3, HeadTailProperties DEF SubscriberType
  <2>2. Len(Tail(sub.queue)) <= Capacity
    BY <2>1, CapacityAssumption
  <2>3. Drained(sub) = [sub EXCEPT !.phase = "writing", !.item = Head(sub.queue),
                                   !.queue = Tail(sub.queue)]
    BY <1>3 DEF Drained
  <2>4. /\ Drained(sub) \in SubscriberType /\ Drained(sub).phase = "writing"
        /\ Drained(sub).queue = Tail(sub.queue) /\ Drained(sub).link = sub.link
    BY <1>3, <2>1, <2>3 DEF SubscriberType
  <2>6. Good(Drained(sub))
    BY <2>2, <2>4 DEF Good, Shape
  <2>5. Owed(Drained(sub)) = sub.queue
    BY <2>1, <2>3, <2>4 DEF Owed, SubscriberType
  <2> QED
    BY <1>3, <2>4, <2>5, <2>6
<1> QED
  BY <1>1, <1>2, <1>3

-----------------------------------------------------------------------------
(* The inductive invariant *)

\* Types of everything but the subscribers; no list is newer than the disk.
Scalars ==
    /\ auth \in 0 .. MaxAuth /\ registry \in 0 .. MaxEdits
    /\ announced \in 0 .. MaxEdits /\ announced <= registry
    /\ edits \in [Surfaces -> [phase : {"idle", "written", "listed"}, list : Nat]]
    /\ \A m \in Surfaces : edits[m].list <= registry
    /\ conn \in [Clients -> 0 .. MaxConnections]
    /\ view \in [Clients -> StateType]

GoodSubscribers ==
    /\ subscribers \in [Connections -> SubscriberType]
    /\ \A s \in Connections : Good(subscribers[s])

\* Every stream a client reads is that of a connection that was opened and
\* whose link is up, and no two clients read the same one.
OneReader ==
    \A c \in Clients : conn[c] # 0 =>
      /\ subscribers[conn[c]].phase # "unused"
      /\ subscribers[conn[c]].link = "up"
      /\ \A d \in Clients : conn[d] = conn[c] => d = c

Plumbing == Scalars /\ GoodSubscribers /\ OneReader

\* Every live subscription brings its client to the server's value of a field.
Current(f) == IF f = "auth" THEN auth ELSE registry

Caught(f) ==
    \A c \in Clients : (conn[c] # 0 /\ subscribers[conn[c]].alive) =>
      Due(f, subscribers[conn[c]], Current(f), view[c])

IInv == Plumbing /\ Caught("auth")

\* While the list broadcast last is the one on disk, every live subscription
\* ends there.  A write of the file ends that, and a broadcast of an older list.
Announced == announced = registry => Caught("accounts")

LEMMA IInvImplies == IInv => TypeOK /\ AuthNeverMissed
<1> SUFFICES ASSUME IInv PROVE TypeOK /\ AuthNeverMissed
  OBVIOUS
<1>1. TypeOK
  BY DEF IInv, Plumbing, Scalars, GoodSubscribers, Good, TypeOK
<1>2. AuthNeverMissed
  BY DEF IInv, Caught, Current, Due, Seed, AuthNeverMissed, Building
<1> QED
  BY <1>1, <1>2

LEMMA AnnouncedImplies == Announced => AccountsNeverMissed
<1> SUFFICES ASSUME Announced, announced = registry, NEW c \in Clients
             PROVE  AccountsCurrent(c)
  BY DEF AccountsNeverMissed
<1> SUFFICES ASSUME conn[c] # 0, subscribers[conn[c]].alive,
                    subscribers[conn[c]].phase # "reading"
             PROVE  IF Building(conn[c])
                    THEN EndsWith("accounts", registry, subscribers[conn[c]].snap,
                                  subscribers[conn[c]].queue)
                    ELSE EndsWith("accounts", registry, view[c],
                                  Owed(subscribers[conn[c]]))
  BY DEF AccountsCurrent
<1>1. Due("accounts", subscribers[conn[c]], registry, view[c])
  BY DEF Announced, Caught, Current
<1> QED
  BY <1>1 DEF Due, Seed, Building

LEMMA InitIInv == Init => IInv /\ Announced
<1> SUFFICES ASSUME Init PROVE IInv /\ Announced
  OBVIOUS
<1>1. Scalars
  BY FramesTyped, BoundsAssumption DEF Init, Scalars, IdleEdit
<1>2. GoodSubscribers
  BY BasicRecords DEF Init, GoodSubscribers, Good
<1>3. OneReader /\ Caught("auth") /\ Caught("accounts")
  BY DEF Init, OneReader, Caught
<1> QED
  BY <1>1, <1>2, <1>3 DEF IInv, Plumbing, Announced

\* The stream a client reads belongs to a connection.
LEMMA ReadsConnection ==
    ASSUME Plumbing, NEW c \in Clients, conn[c] # 0
    PROVE  conn[c] \in Connections
  BY BoundsAssumption DEF Plumbing, Scalars, Connections

LEMMA CurrentTyped == Plumbing => auth \in Nat /\ registry \in Nat
  BY BoundsAssumption DEF Plumbing, Scalars

\* Whatever frame a producer fans out, as long as the field it carries, if any,
\* is the server's value in the new state.
LEMMA FanoutPlumbing ==
    ASSUME Plumbing, NEW fr \in FrameType, Fanout(fr), UNCHANGED <<conn, view>>
    PROVE  /\ (GoodSubscribers /\ OneReader)'
           /\ \A s \in Connections : subscribers'[s] = Pushed(subscribers[s], fr)
<1>1. \A s \in Connections : subscribers'[s] = Pushed(subscribers[s], fr)
  BY DEF Fanout
<1>2. \A s \in Connections :
        /\ Good(subscribers'[s])
        /\ (subscribers'[s].phase = "unused") <=> (subscribers[s].phase = "unused")
        /\ subscribers'[s].link \in {subscribers[s].link, "up"}
  BY <1>1, PushedGood DEF Plumbing, GoodSubscribers
<1>3. GoodSubscribers'
  BY <1>2 DEF GoodSubscribers, Fanout, Good
<1>4. OneReader'
  BY <1>2, ReadsConnection DEF Plumbing, OneReader
<1> QED
  BY <1>1, <1>3, <1>4

LEMMA FanoutCaught ==
    ASSUME Plumbing, NEW f \in Fields, NEW fr \in FrameType, Fanout(fr),
           UNCHANGED <<conn, view>>, Current(f)' \in Nat,
           IF Carries(fr, f) THEN fr[f] = Current(f)'
           ELSE Current(f)' = Current(f) /\ Caught(f)
    PROVE  Caught(f)'
<1> DEFINE w == Current(f)'
<1> SUFFICES ASSUME NEW c \in Clients, conn[c] # 0, subscribers'[conn[c]].alive
             PROVE  Due(f, subscribers'[conn[c]], w, view[c])
  BY DEF Caught
<1>1. conn[c] \in Connections
  BY ReadsConnection
<1>2. subscribers'[conn[c]] = Pushed(subscribers[conn[c]], fr)
  BY <1>1 DEF Fanout
<1>3. Good(subscribers[conn[c]]) /\ view[c] \in StateType
  BY <1>1 DEF Plumbing, GoodSubscribers, Scalars
<1>4. subscribers[conn[c]].alive
  BY <1>2 DEF Pushed
<1>5. w \in Nat
  OBVIOUS
<1>6. IF Carries(fr, f) THEN fr[f] = w ELSE Due(f, subscribers[conn[c]], w, view[c])
  BY <1>4 DEF Caught
<1> HIDE DEF w
<1> QED
  BY <1>2, <1>3, <1>5, <1>6, PushedDue

\* A step that replaces the record of one connection by a good one that is dead,
\* and that at most takes clients off their streams.
LEMMA DeadRecordKeeps ==
    ASSUME Plumbing, NEW s \in Connections, NEW rec,
           Good(rec), ~rec.alive,
           rec.phase = "unused" => subscribers[s].phase = "unused",
           subscribers' = [subscribers EXCEPT ![s] = rec],
           \A c \in Clients : conn'[c] \in {0, conn[c]},
           rec.link = "up" \/ \A c \in Clients : conn'[c] # s,
           conn' \in [Clients -> 0 .. MaxConnections],
           UNCHANGED <<auth, registry, announced, edits, view>>
    PROVE  Plumbing' /\ \A f \in Fields : Caught(f) => Caught(f)'
<1>0. rec \in SubscriberType
  BY DEF Good
<1>1. Scalars'
  BY DEF Plumbing, Scalars
<1>2. GoodSubscribers'
  BY <1>0 DEF Plumbing, GoodSubscribers
<1>3. \A c \in Clients : conn[c] # 0 => conn[c] \in Connections
  BY ReadsConnection
<1>4. OneReader'
  BY <1>3 DEF Plumbing, OneReader, GoodSubscribers
<1>5. ASSUME NEW f \in Fields, Caught(f) PROVE Caught(f)'
  BY <1>3, <1>5 DEF Plumbing, Caught, Current, GoodSubscribers
<1> QED
  BY <1>1, <1>2, <1>4, <1>5 DEF Plumbing

\* A step that replaces one connection's record by a good one that owes what is
\* due to its reader, if there is one and it is still alive.
LEMMA LiveRecordKeeps ==
    ASSUME Plumbing, NEW s \in Connections, NEW rec, Good(rec), rec.phase # "unused",
           rec.link \in {subscribers[s].link, "up"},
           subscribers' = [subscribers EXCEPT ![s] = rec],
           view' \in [Clients -> StateType],
           \A c \in Clients : conn[c] # s => view'[c] = view[c],
           \A f \in Fields, c \in Clients :
              Caught(f) /\ conn[c] = s /\ rec.alive => Due(f, rec, Current(f), view'[c]),
           UNCHANGED <<auth, registry, announced, edits, conn>>
    PROVE  Plumbing' /\ \A f \in Fields : Caught(f) => Caught(f)'
<1>0. rec \in SubscriberType
  BY DEF Good
<1>1. Scalars'
  BY DEF Plumbing, Scalars
<1>2. GoodSubscribers'
  BY <1>0 DEF Plumbing, GoodSubscribers
<1>3. \A c \in Clients : conn[c] # 0 => conn[c] \in Connections
  BY ReadsConnection
<1>4. OneReader'
  BY <1>3 DEF Plumbing, OneReader, GoodSubscribers
<1>5. ASSUME NEW f \in Fields, Caught(f) PROVE Caught(f)'
  <2> SUFFICES ASSUME NEW c \in Clients, conn[c] # 0, subscribers'[conn[c]].alive
               PROVE  Due(f, subscribers'[conn[c]], Current(f), view'[c])
    BY DEF Caught, Current
  <2>1. conn[c] \in Connections /\ subscribers \in [Connections -> SubscriberType]
    BY <1>3 DEF Plumbing, GoodSubscribers
  <2>2. CASE conn[c] = s
    BY <1>5, <2>1, <2>2
  <2>3. CASE conn[c] # s
    BY <1>5, <2>1, <2>3 DEF Caught
  <2> QED
    BY <2>2, <2>3
<1> QED
  BY <1>1, <1>2, <1>4, <1>5 DEF Plumbing

-----------------------------------------------------------------------------
(* The steps *)

LEMMA AuthChangesKeeps ==
    ASSUME IInv, AuthChanges
    PROVE  IInv' /\ (Caught("accounts") => Caught("accounts")') /\ UNCHANGED <<edits, registry, announced>>
<1> DEFINE fr == Frame("auth", auth + 1, 0)
<1>1. auth' = auth + 1 /\ auth \in Nat /\ auth + 1 \in Nat /\ registry \in Nat
  BY CurrentTyped DEF AuthChanges, IInv
<1>2. /\ fr \in FrameType /\ Carries(fr, "auth") /\ fr["auth"] = auth'
      /\ ~Carries(fr, "accounts")
  BY <1>1, FramesTyped DEF Carries, Frame
<1>3. Fanout(fr) /\ UNCHANGED <<registry, announced, edits, conn, view>> /\ Plumbing
  BY DEF AuthChanges, IInv
<1> HIDE DEF fr
<1>4. Scalars'
  BY BoundsAssumption DEF AuthChanges, IInv, Plumbing, Scalars
<1>5. Caught("auth")'
  BY <1>1, <1>2, <1>3, FanoutCaught DEF Current, Fields
<1>6. Caught("accounts") => Caught("accounts")'
  BY <1>1, <1>2, <1>3, FanoutCaught DEF Current, Fields
<1> QED
  BY <1>2, <1>3, <1>4, <1>5, <1>6, FanoutPlumbing DEF IInv, Plumbing

LEMMA HeartbeatKeeps ==
    ASSUME IInv, Heartbeat
    PROVE  IInv' /\ (Caught("accounts") => Caught("accounts")') /\ UNCHANGED <<edits, registry, announced>>
<1>1. auth \in Nat /\ registry \in Nat /\ Plumbing
  BY CurrentTyped DEF IInv
<1>2. /\ Keepalive \in FrameType /\ ~Carries(Keepalive, "auth")
      /\ ~Carries(Keepalive, "accounts")
  BY FramesTyped DEF Carries, Keepalive, Frame
<1>3. Fanout(Keepalive) /\ UNCHANGED <<auth, registry, announced, edits, conn, view>>
  BY DEF Heartbeat
<1>4. Scalars'
  BY <1>3 DEF IInv, Plumbing, Scalars
<1>5. \A f \in Fields : Caught(f) => Caught(f)'
  <2> SUFFICES ASSUME NEW f \in Fields, Caught(f) PROVE Caught(f)'
    OBVIOUS
  <2>1. Current(f)' = Current(f) /\ Current(f) \in Nat
    BY <1>1, <1>3 DEF Current
  <2>2. ~Carries(Keepalive, f)
    BY <1>2 DEF Fields
  <2> QED
    BY <1>1, <1>2, <1>3, <2>1, <2>2, FanoutCaught
<1> QED
  BY <1>1, <1>2, <1>3, <1>4, <1>5, FanoutPlumbing DEF IInv, Plumbing, Fields

\* A write of the registry, announced by nobody yet.
LEMMA WrittenKeeps ==
    ASSUME IInv, registry < MaxEdits, registry' = registry + 1,
           edits' \in [Surfaces -> [phase : {"idle", "written", "listed"}, list : Nat]],
           \A n \in Surfaces : edits'[n].list = edits[n].list,
           UNCHANGED <<auth, announced, subscribers, conn, view>>
    PROVE  IInv' /\ Announced'
<1>1. Plumbing'
  BY BoundsAssumption DEF IInv, Plumbing, Scalars, GoodSubscribers, OneReader
<1>2. announced' # registry'
  BY BoundsAssumption DEF IInv, Plumbing, Scalars
<1> QED
  BY <1>1, <1>2 DEF IInv, Caught, Current, Announced

LEMMA EditKeeps ==
    ASSUME IInv, Announced, NEW m \in Surfaces, EditStep(m)
    PROVE  IInv' /\ Announced'
<1>0. /\ auth \in Nat /\ registry \in Nat /\ Plumbing
      /\ edits \in [Surfaces -> [phase : {"idle", "written", "listed"}, list : Nat]]
      /\ \A n \in Surfaces : edits[n].list <= registry
  BY CurrentTyped DEF IInv, Plumbing, Scalars
<1>1. CASE EditWrites(m)
  BY <1>0, <1>1, WrittenKeeps DEF EditWrites
<1>2. ASSUME EditLists(m) \/ EditListFails(m) PROVE IInv' /\ Announced'
  <2>1. UNCHANGED <<auth, registry, announced, subscribers, conn, view>>
    BY <1>2 DEF EditLists, EditListFails
  <2>2. /\ edits' \in [Surfaces -> [phase : {"idle", "written", "listed"}, list : Nat]]
        /\ \A n \in Surfaces : edits'[n].list <= registry
    BY <1>0, <1>2 DEF EditLists, EditListFails, IdleEdit
  <2>3. Plumbing'
    BY <1>0, <2>1, <2>2 DEF Plumbing, Scalars, GoodSubscribers, OneReader
  <2> QED
    BY <2>1, <2>3 DEF IInv, Caught, Current, Announced
<1>3. CASE EditEmits(m)
  <2> DEFINE fr == Frame("accounts", 0, edits[m].list)
  <2>1. edits[m].list \in Nat /\ edits[m].list <= registry /\ announced' = edits[m].list
    BY <1>0, <1>3 DEF EditEmits
  <2>2. /\ fr \in FrameType /\ ~Carries(fr, "auth")
        /\ Carries(fr, "accounts") /\ fr["accounts"] = edits[m].list
    BY <2>1, FramesTyped DEF Carries, Frame
  <2>3. Fanout(fr) /\ UNCHANGED <<auth, registry, conn, view>>
    BY <1>3 DEF EditEmits
  <2> HIDE DEF fr
  <2>4. Caught("auth")'
    BY <1>0, <2>2, <2>3, FanoutCaught DEF Current, Fields, IInv
  <2>5. Scalars'
    <3>1. /\ edits' \in [Surfaces -> [phase : {"idle", "written", "listed"}, list : Nat]]
          /\ \A n \in Surfaces : edits'[n].list <= registry
      BY <1>0, <1>3 DEF EditEmits, IdleEdit
    <3>2. announced' \in 0 .. MaxEdits /\ announced' <= registry
      BY <1>0, <2>1, BoundsAssumption DEF Plumbing, Scalars
    <3> QED
      BY <1>0, <2>3, <3>1, <3>2 DEF Plumbing, Scalars
  <2>6. Plumbing'
    BY <1>0, <2>2, <2>3, <2>5, FanoutPlumbing DEF Plumbing
  <2>7. announced' = registry' => Caught("accounts")'
    BY <1>0, <2>1, <2>2, <2>3, FanoutCaught DEF Current, Fields
  <2> QED
    BY <2>4, <2>6, <2>7 DEF IInv, Announced
<1> QED
  BY <1>1, <1>2, <1>3 DEF EditStep

\* What the steps of subscriptions and clients have in common: they leave the
\* producers alone and lose nothing for either field.
Kept ==
    /\ Plumbing'
    /\ \A f \in Fields : Caught(f) => Caught(f)'
    /\ UNCHANGED <<auth, registry, announced, edits>>

LEMMA SnapshotKeeps ==
    ASSUME Plumbing, NEW s \in Connections,
           SnapshotReads(s) \/ SnapshotReady(s) \/ SnapshotFails(s)
    PROVE  Kept
<1> DEFINE sub == subscribers[s]
<1>0. /\ sub \in SubscriberType /\ Good(sub)
      /\ sub.queue \in Seq(FrameType) /\ sub.snap \in StateType
      /\ Len(sub.queue) <= Capacity /\ view \in [Clients -> StateType]
      /\ registry \in Nat /\ auth \in Nat /\ s # 0
      /\ conn \in [Clients -> 0 .. MaxConnections]
  BY CurrentTyped DEF Plumbing, GoodSubscribers, Good, SubscriberType, Scalars,
                      Connections
<1>1. CASE SnapshotReads(s)
  <2> DEFINE rec == [sub EXCEPT !.phase = "read", !.snap.accounts = registry]
  <2>1. /\ sub.phase = "reading" /\ subscribers' = [subscribers EXCEPT ![s] = rec]
        /\ UNCHANGED <<auth, registry, announced, edits, conn, view>>
    BY <1>0, <1>1 DEF SnapshotReads, Plumbing, GoodSubscribers
  <2>2. /\ rec \in SubscriberType /\ rec.phase = "read" /\ rec.alive = sub.alive
        /\ rec.queue = sub.queue /\ rec.link = sub.link
        /\ rec.snap = [sub.snap EXCEPT !.accounts = registry]
    BY <1>0 DEF SubscriberType, StateType
  <2>3. Good(rec)
    BY <1>0, <2>2 DEF Good, Shape
  <2>4. \A f \in Fields : /\ Seed(f, rec, Current(f)) = rec.snap
                          /\ rec.snap[f] = Seed(f, sub, Current(f))[f]
    BY <1>0, <2>1, <2>2 DEF Seed, Current, Fields, StateType
  <2>5. ASSUME NEW f \in Fields, NEW c \in Clients, Caught(f), conn[c] = s, rec.alive
        PROVE  Due(f, rec, Current(f), view'[c])
    <3>1. EndsWith(f, Current(f), Seed(f, sub, Current(f)), sub.queue)
      BY <1>0, <2>1, <2>2, <2>5 DEF Caught, Due
    <3>2. EndsWith(f, Current(f), rec.snap, rec.queue)
      BY <2>2, <2>4, <3>1 DEF EndsWith
    <3> QED
      BY <2>2, <2>4, <3>2 DEF Due
  <2> HIDE DEF rec
  <2> QED
    BY <1>0, <2>1, <2>2, <2>3, <2>5, LiveRecordKeeps DEF Kept
<1>2. CASE SnapshotReady(s)
  <2> DEFINE snap == Frame("snapshot", sub.snap.auth, sub.snap.accounts)
             done == [sub EXCEPT !.snap = State(0, 0)]
             full == IF sub.alive THEN [done EXCEPT !.queue = <<snap>> \o sub.queue]
                     ELSE done
  <2>1. /\ sub.phase = "read" /\ UNCHANGED <<auth, registry, announced, edits, conn, view>>
        /\ subscribers' = [subscribers EXCEPT ![s] = Drained(full)]
    BY <1>0, <1>2 DEF SnapshotReady, SubscriberType
  <2>2. snap \in FrameType
    BY <1>0, FramesTyped DEF StateType
  <2>3. /\ <<snap>> \o sub.queue \in Seq(FrameType)
        /\ Len(<<snap>> \o sub.queue) <= Capacity + 1
    BY <1>0, <2>2, Cons, CapacityAssumption
  <2>4. done \in SubscriberType /\ done.phase = "read" /\ done.queue = sub.queue
        /\ done.alive = sub.alive /\ done.link = sub.link
    BY <1>0, <2>1, FramesTyped DEF SubscriberType
  <2>5. /\ full \in SubscriberType /\ full.phase = "read"
        /\ full.alive = sub.alive /\ full.link = sub.link
        /\ sub.alive => full.queue = <<snap>> \o sub.queue
        /\ Len(full.queue) <= Capacity + 1
    <3>1. CASE sub.alive
      BY <2>3, <2>4, <3>1 DEF SubscriberType
    <3>2. CASE ~sub.alive
      BY <1>0, <2>4, <3>2, CapacityAssumption, LenProperties
    <3> QED
      BY <3>1, <3>2
  <2>6. /\ Good(Drained(full)) /\ Drained(full).phase \in {"waiting", "writing", "ended"}
        /\ Drained(full).alive => full.alive /\ Owed(Drained(full)) = full.queue
        /\ Drained(full).link \in {sub.link, "up"}
    BY <2>5, DrainedGood
  <2>7. ASSUME NEW f \in Fields, NEW c \in Clients, Caught(f), conn[c] = s,
               Drained(full).alive
        PROVE  Due(f, Drained(full), Current(f), view'[c])
    <3>1. Seed(f, sub, Current(f)) = sub.snap
      BY <2>1 DEF Seed
    <3>2. EndsWith(f, Current(f), sub.snap, sub.queue)
      BY <1>0, <2>1, <2>5, <2>6, <2>7, <3>1 DEF Caught, Due
    <3>3. view[c] \in StateType /\ Current(f) \in Nat
      BY <1>0 DEF Current
    <3>4. EndsWith(f, Current(f), view[c], <<snap>> \o sub.queue)
      BY <1>0, <3>2, <3>3, EndsAfterSnapshot
    <3>5. Owed(Drained(full)) = <<snap>> \o sub.queue /\ view'[c] = view[c]
      BY <2>1, <2>5, <2>6, <2>7
    <3>6. ~(Drained(full).phase \in {"reading", "read"})
      BY <2>6
    <3>7. EndsWith(f, Current(f), view'[c], Owed(Drained(full)))
      BY <3>4, <3>5
    <3> QED
      <4> HIDE DEF full
      <4> QED
        BY <3>6, <3>7 DEF Due
  <2> HIDE DEF full
  <2> QED
    BY <1>0, <2>1, <2>6, <2>7, LiveRecordKeeps DEF Kept
<1>3. CASE SnapshotFails(s)
  <2>1. /\ subscribers' = [subscribers EXCEPT ![s] = Ended]
        /\ UNCHANGED <<auth, registry, announced, edits, view>>
    BY <1>3 DEF SnapshotFails
  <2>2. /\ \A c \in Clients : conn'[c] \in {0, conn[c]}
        /\ conn' \in [Clients -> 0 .. MaxConnections]
    BY <1>0, <1>3, BoundsAssumption DEF SnapshotFails
  <2> QED
    BY <2>1, <2>2, BasicRecords, DeadRecordKeeps DEF Kept
<1> QED
  BY <1>1, <1>2, <1>3

LEMMA ConnectKeeps ==
    ASSUME Plumbing, NEW c \in Clients, Connect(c) PROVE Kept
<1>1. PICK s \in Connections :
        /\ subscribers[s].phase = "unused"
        /\ subscribers' = [subscribers EXCEPT
             ![s] = [Unused EXCEPT !.alive = TRUE, !.phase = "reading",
                                   !.snap = State(auth, 0)]]
        /\ conn' = [conn EXCEPT ![c] = s]
  BY DEF Connect
<1> DEFINE rec == [Unused EXCEPT !.alive = TRUE, !.phase = "reading",
                                 !.snap = State(auth, 0)]
<1>2. /\ auth \in Nat /\ registry \in Nat
      /\ State(auth, 0) \in StateType /\ State(auth, 0).auth = auth
  BY CurrentTyped, FramesTyped DEF State
<1>3. /\ rec \in SubscriberType /\ rec.phase = "reading" /\ rec.alive
      /\ rec.queue = <<>> /\ rec.snap = State(auth, 0) /\ rec.link = "up"
  <2>1. Unused \in SubscriberType /\ Unused.queue = <<>> /\ Unused.link = "up"
    BY BasicRecords DEF Good, Unused
  <2> QED
    BY <1>2, <2>1 DEF SubscriberType
<1>4. subscribers' = [subscribers EXCEPT ![s] = rec]
  BY <1>1
<1> HIDE DEF rec
<1>5. Good(rec)
  BY <1>2, <1>3, CapacityAssumption, Len(<<>>) = 0 DEF Good, Shape
<1>6. \A f \in Fields : Due(f, rec, Current(f), view[c])
  <2>1. \A f \in Fields : Seed(f, rec, Current(f))[f] = Current(f)
    BY <1>2, <1>3 DEF Seed, Current, Fields, StateType
  <2> QED
    BY <1>3, <2>1, Len(<<>>) = 0 DEF Due, EndsWith
<1>7. UNCHANGED <<auth, registry, announced, edits, view>> /\ conn[c] = 0
  BY DEF Connect
<1>8. \A d \in Clients : conn[d] # s
  BY <1>1 DEF Plumbing, OneReader, Connections
<1>9. \A d \in Clients : conn[d] # 0 => conn[d] \in Connections
  BY ReadsConnection
<1>10. \A d \in Clients : conn'[d] = IF d = c THEN s ELSE conn[d]
  BY <1>1 DEF Plumbing, Scalars
<1>11. \A t \in Connections : subscribers'[t] = IF t = s THEN rec ELSE subscribers[t]
  BY <1>4 DEF Plumbing, GoodSubscribers
<1>12. Scalars'
  BY <1>1, <1>7 DEF Plumbing, Scalars, Connections
<1>13. GoodSubscribers'
  BY <1>3, <1>4, <1>5 DEF Plumbing, GoodSubscribers
<1>14. OneReader'
  BY <1>3, <1>8, <1>9, <1>10, <1>11 DEF Plumbing, OneReader
<1>15. ASSUME NEW f \in Fields, Caught(f) PROVE Caught(f)'
  BY <1>6, <1>7, <1>8, <1>9, <1>10, <1>11, <1>15 DEF Caught, Current
<1> QED
  BY <1>7, <1>12, <1>13, <1>14, <1>15 DEF Kept, Plumbing

LEMMA WriteFlushesKeeps ==
    ASSUME Plumbing, NEW c \in Clients, WriteFlushes(c) PROVE Kept
<1> DEFINE s   == conn[c]
           sub == subscribers[s]
           st  == Applied(view[c], sub.item)
<1>1. s \in Connections /\ s # 0
  BY ReadsConnection DEF WriteFlushes
<1>2. /\ sub \in SubscriberType /\ Len(sub.queue) <= Capacity
      /\ sub.queue \in Seq(FrameType) /\ sub.item \in FrameType
      /\ view[c] \in StateType /\ view \in [Clients -> StateType]
      /\ auth \in Nat /\ registry \in Nat /\ Len(sub.queue) \in Nat
  BY <1>1, CurrentTyped, LenProperties
     DEF Plumbing, Scalars, GoodSubscribers, Good, SubscriberType
<1>3. /\ sub.phase = "writing" /\ view' = [view EXCEPT ![c] = st]
      /\ subscribers' = [subscribers EXCEPT ![s] = Drained(sub)]
      /\ UNCHANGED <<auth, registry, announced, edits, conn>>
  BY <1>1, <1>2 DEF WriteFlushes, Plumbing, GoodSubscribers
<1>4. st \in StateType
  BY <1>2 DEF Applied, State, StateType, FrameType
<1>5. /\ Good(Drained(sub)) /\ Drained(sub).phase \in {"waiting", "writing", "ended"}
      /\ Drained(sub).alive => sub.alive /\ Owed(Drained(sub)) = sub.queue
      /\ Drained(sub).link \in {sub.link, "up"}
  BY <1>2, <1>3, CapacityAssumption, DrainedGood
<1>6. ASSUME NEW f \in Fields, NEW d \in Clients, Caught(f), conn[d] = s,
             Drained(sub).alive
      PROVE  Due(f, Drained(sub), Current(f), view'[d])
  <2>1. d = c
    BY <1>1, <1>6 DEF Plumbing, OneReader
  <2>2. EndsWith(f, Current(f), view[c], <<sub.item>> \o sub.queue)
    BY <1>1, <1>3, <1>5, <1>6 DEF Caught, Due, Owed
  <2>3. Current(f) \in Nat
    BY <1>2 DEF Current
  <2>4. EndsWith(f, Current(f), st, sub.queue)
    BY <1>2, <2>2, <2>3, EndsAfterApply
  <2>5. view'[d] = st
    BY <1>2, <1>3, <2>1
  <2> QED
    BY <1>5, <1>6, <2>4, <2>5 DEF Due
<1>7. /\ view' \in [Clients -> StateType]
      /\ \A d \in Clients : conn[d] # s => view'[d] = view[d]
  BY <1>2, <1>3, <1>4
<1> DEFINE rec == Drained(sub)
<1>8. /\ s \in Connections /\ Good(rec) /\ rec.phase # "unused"
      /\ rec.link \in {subscribers[s].link, "up"}
      /\ subscribers' = [subscribers EXCEPT ![s] = rec]
      /\ UNCHANGED <<auth, registry, announced, edits, conn>>
      /\ view' \in [Clients -> StateType]
      /\ \A d \in Clients : conn[d] # s => view'[d] = view[d]
  BY <1>1, <1>3, <1>5, <1>7
<1>9. \A f \in Fields, d \in Clients :
         Caught(f) /\ conn[d] = s /\ rec.alive => Due(f, rec, Current(f), view'[d])
  BY <1>6
<1> HIDE DEF sub, s, st, rec
<1>10. Plumbing' /\ \A f \in Fields : Caught(f) => Caught(f)'
  BY ONLY Plumbing, <1>8, <1>9, LiveRecordKeeps
<1> QED
  BY <1>8, <1>10 DEF Kept

\* Taking a client, if any, off a connection whose link breaks.
LEMMA BrokenKeeps ==
    ASSUME Plumbing, NEW s \in Connections, NEW l \in {"cut", "dead"},
           subscribers' = [subscribers EXCEPT ![s] = [subscribers[s] EXCEPT !.link = l]],
           conn' \in [Clients -> 0 .. MaxConnections],
           \A c \in Clients : conn'[c] \in {0, conn[c]} /\ conn'[c] # s,
           UNCHANGED <<auth, registry, announced, edits, view>>
    PROVE  Kept
<1>1. \A c \in Clients : conn[c] # 0 => conn[c] \in Connections
  BY ReadsConnection
<1>2. Good([subscribers[s] EXCEPT !.link = l])
  BY DEF Plumbing, GoodSubscribers, Good, SubscriberType, Shape
<1>3. Scalars'
  BY DEF Plumbing, Scalars
<1>4. GoodSubscribers'
  BY <1>2 DEF Plumbing, GoodSubscribers, Good
<1>5. \A c \in Clients : conn'[c] # 0 =>
         conn'[c] = conn[c] /\ subscribers'[conn[c]] = subscribers[conn[c]]
  BY <1>1 DEF Plumbing, GoodSubscribers
<1>6. OneReader'
  BY <1>5 DEF Plumbing, OneReader
<1>7. ASSUME NEW f \in Fields, Caught(f) PROVE Caught(f)'
  BY <1>5, <1>7 DEF Caught, Current
<1> QED
  BY <1>3, <1>4, <1>6, <1>7 DEF Kept, Plumbing

\* An abort, of a connection that nobody reads afterwards.
LEMMA AbortedKeeps ==
    ASSUME Plumbing, NEW s \in Connections,
           subscribers' = [subscribers EXCEPT ![s] = Aborted(subscribers[s])],
           conn' \in [Clients -> 0 .. MaxConnections],
           \A c \in Clients : conn'[c] \in {0, conn[c]} /\ conn'[c] # s,
           UNCHANGED <<auth, registry, announced, edits, view>>
    PROVE  Kept
<1> DEFINE sub == subscribers[s]
           cut == [sub EXCEPT !.link = "cut"]
<1>1. Good(sub) /\ sub \in SubscriberType
  BY DEF Plumbing, GoodSubscribers
<1>2. Good(cut) /\ cut.phase = sub.phase
  BY <1>1 DEF Good, SubscriberType, Shape
<1>3. CASE sub.phase \in {"reading", "read"}
  BY <1>3, BrokenKeeps DEF Aborted
<1>4. CASE sub.phase \notin {"reading", "read"}
  <2>1. subscribers' = [subscribers EXCEPT ![s] = Removed(cut)]
    BY <1>4 DEF Aborted
  <2> DEFINE rec == Removed(cut)
  <2>2. /\ Good(rec) /\ ~rec.alive
        /\ rec.phase = "unused" => subscribers[s].phase = "unused"
    BY <1>2, RemovedGood
  <2> HIDE DEF rec
  <2> QED
    BY <2>1, <2>2, DeadRecordKeeps DEF Kept, rec
<1> QED
  BY <1>3, <1>4

LEMMA LeaveKeeps ==
    ASSUME Plumbing,
           \/ \E s \in Connections : WriteLost(s) \/ TimesOut(s)
           \/ \E c \in Clients : Disconnect(c) \/ Vanishes(c)
    PROVE  Kept
<1>0. /\ conn \in [Clients -> 0 .. MaxConnections] /\ view \in [Clients -> StateType]
      /\ subscribers \in [Connections -> SubscriberType] /\ 0 \notin Connections
  BY DEF Plumbing, Scalars, GoodSubscribers, Connections
<1>1. ASSUME NEW s \in Connections, WriteLost(s) PROVE Kept
  <2> DEFINE sub == subscribers[s]
             rec == Drained(sub)
  <2>1. sub \in SubscriberType /\ Len(sub.queue) <= Capacity
    BY DEF Plumbing, GoodSubscribers, Good
  <2>2. /\ subscribers' = [subscribers EXCEPT ![s] = rec] /\ sub.phase = "writing"
        /\ UNCHANGED <<auth, registry, announced, edits, conn, view>>
    BY <1>0, <1>1 DEF WriteLost
  <2>3. \A c \in Clients : conn[c] # s
    BY <1>0, <1>1 DEF WriteLost, Plumbing, OneReader
  <2>4. /\ Good(rec) /\ rec.phase \in {"waiting", "writing", "ended"}
        /\ rec.link \in {sub.link, "up"}
    BY <2>1, <2>2, CapacityAssumption, LenProperties, DrainedGood DEF SubscriberType
  <2> HIDE DEF rec
  <2> QED
    BY <1>0, <2>2, <2>3, <2>4, LiveRecordKeeps DEF Kept
<1>2. ASSUME NEW s \in Connections, TimesOut(s) PROVE Kept
  <2>1. \A c \in Clients : conn[c] # s
    BY <1>0, <1>2 DEF TimesOut, Plumbing, OneReader
  <2> QED
    BY <1>0, <1>2, <2>1, AbortedKeeps DEF TimesOut
<1>3. ASSUME NEW c \in Clients, Disconnect(c) \/ Vanishes(c) PROVE Kept
  <2>1. conn[c] \in Connections
    BY <1>3, ReadsConnection DEF Disconnect, Vanishes
  <2>2. /\ conn' = [conn EXCEPT ![c] = 0]
        /\ UNCHANGED <<auth, registry, announced, edits, view>>
    BY <1>3 DEF Disconnect, Vanishes
  <2>3. \A d \in Clients : d # c => conn[d] # conn[c]
    BY <1>0, <2>1 DEF Plumbing, OneReader
  <2>4. /\ conn' \in [Clients -> 0 .. MaxConnections]
        /\ \A d \in Clients : conn'[d] \in {0, conn[d]} /\ conn'[d] # conn[c]
    BY <1>0, <2>1, <2>2, <2>3, BoundsAssumption
  <2>5. CASE Disconnect(c)
    <3>1. subscribers' = [subscribers EXCEPT ![conn[c]] = Aborted(subscribers[conn[c]])]
      BY <1>0, <2>1, <2>5 DEF Disconnect
    <3> QED
      BY <2>1, <2>2, <2>4, <3>1, AbortedKeeps
  <2>6. CASE Vanishes(c)
    <3>1. subscribers' = [subscribers EXCEPT
                            ![conn[c]] = [subscribers[conn[c]] EXCEPT !.link = "dead"]]
      BY <1>0, <2>1, <2>6 DEF Vanishes
    <3> QED
      BY <2>1, <2>2, <2>4, <3>1, BrokenKeeps
  <2> QED
    BY <1>3, <2>5, <2>6
<1> QED
  BY <1>1, <1>2, <1>3

LEMMA KeptKeeps ==
    ASSUME IInv, Announced, Kept
    PROVE  IInv' /\ Announced'
<1>1. IInv' /\ (Caught("accounts") => Caught("accounts")')
  BY DEF Kept, IInv, Fields
<1> QED
  BY <1>1 DEF Kept, Announced

LEMMA NextKeeps ==
    ASSUME IInv, Announced, [Next]_vars
    PROVE  IInv' /\ Announced'
<1>1. CASE UNCHANGED vars
  BY <1>1 DEF vars, IInv, Plumbing, Scalars, GoodSubscribers, OneReader, Caught,
              Current, Announced
<1>2. CASE AuthChanges \/ Heartbeat
  BY <1>2, AuthChangesKeeps, HeartbeatKeeps DEF Announced
<1>3. CASE SilentWrite
  <2>1. \A n \in Surfaces : edits'[n].list = edits[n].list
    BY <1>3 DEF SilentWrite
  <2> QED
    BY <1>3, <2>1, WrittenKeeps DEF SilentWrite, IInv, Plumbing, Scalars
<1>4. CASE \E m \in Surfaces : EditStep(m)
  BY <1>4, EditKeeps
<1>5. ASSUME (\E s \in Connections : ConnectionStep(s)) \/ (\E c \in Clients : ClientStep(c))
      PROVE  Kept
  BY <1>5, SnapshotKeeps, ConnectKeeps, WriteFlushesKeeps, LeaveKeeps
     DEF ConnectionStep, ClientStep, IInv
<1> QED
  BY <1>1, <1>2, <1>3, <1>4, <1>5, KeptKeeps DEF Next

LEMMA NextIInv == IInv /\ Announced /\ [Next]_vars => (IInv /\ Announced)'
  BY NextKeeps

-----------------------------------------------------------------------------
\* The feed model is well typed and no queue outgrows its capacity.
THEOREM TypeCorrect == Spec => []TypeOK
<1>1. Init => IInv /\ Announced
  BY InitIInv
<1> QED
  BY <1>1, NextIInv, IInvImplies, PTL DEF Spec

\* Whatever the queue capacity and the number of clients, and wherever changes
\* fall around a snapshot build, a live subscription ends at the auth status of
\* the server.
THEOREM NothingMissed == Spec => []AuthNeverMissed
<1>1. Init => IInv /\ Announced
  BY InitIInv
<1> QED
  BY <1>1, NextIInv, IInvImplies, PTL DEF Spec

\* However many surfaces edit the accounts at once, whatever else writes them
\* without a broadcast, and whichever list fails to be read: while the list
\* broadcast last is the one on disk, every live subscription ends at it.
THEOREM AccountsCaughtUp == Spec => []AccountsNeverMissed
<1>1. Init => IInv /\ Announced
  BY InitIInv
<1> QED
  BY <1>1, NextIInv, AnnouncedImplies, PTL DEF Spec

-----------------------------------------------------------------------------
(* A dropped subscriber *)

Silent(s) ==
    (~subscribers[s].alive /\ subscribers[s].phase # "unused") =>
      subscribers'[s].item \in {subscribers[s].item, NoFrame}

\* Every way a step changes the record of a dropped subscriber: not at all, to
\* the ended one, or leaving the frame being written as it is.
LEMMA DeadRecords ==
    ASSUME NEW sub \in SubscriberType, ~sub.alive
    PROVE  /\ \A fr : Pushed(sub, fr) = sub
           /\ Drained(sub) = Ended /\ Ended.item = NoFrame
           /\ Aborted(sub).item \in {sub.item, NoFrame}
           /\ [sub EXCEPT !.phase = "read", !.snap.accounts = registry].item = sub.item
  BY DEF Pushed, Drained, Aborted, Removed, Ended, Unused, SubscriberType

\* After the frame that was already being written, nothing more is sent to a
\* subscriber the hub has dropped, whatever its closed queue still holds.
THEOREM SilentAfterDrop == Spec => DroppedStaysSilent
<1>1. ASSUME IInv, [Next]_vars, NEW s \in Connections,
             ~subscribers[s].alive, subscribers[s].phase # "unused"
      PROVE  subscribers'[s].item \in {subscribers[s].item, NoFrame}
  <2> DEFINE sub == subscribers[s]
  <2>0. /\ sub \in SubscriberType /\ subscribers \in [Connections -> SubscriberType]
        /\ Plumbing
    BY <1>1 DEF IInv, Plumbing, GoodSubscribers
  <2>1. /\ \A fr : Pushed(sub, fr) = sub
        /\ Drained(sub) = Ended /\ Ended.item = NoFrame
        /\ Aborted(sub).item \in {sub.item, NoFrame}
        /\ [sub EXCEPT !.phase = "read", !.snap.accounts = registry].item = sub.item
    BY <1>1, <2>0, DeadRecords
  <2>2. CASE UNCHANGED vars
    BY <2>2 DEF vars
  <2>3. CASE AuthChanges \/ Heartbeat \/ \E m \in Surfaces : EditEmits(m)
    BY <2>1, <2>3 DEF AuthChanges, Heartbeat, EditEmits, Fanout
  <2>4. CASE SilentWrite \/ \E m \in Surfaces : EditWrites(m) \/ EditLists(m) \/ EditListFails(m)
    BY <2>4 DEF SilentWrite, EditWrites, EditLists, EditListFails
  <2>5. ASSUME NEW t \in Connections, SnapshotReads(t)
        PROVE  subscribers'[s].item \in {sub.item, NoFrame}
    <3>1. CASE t = s
      <4>1. subscribers'[s] = [sub EXCEPT !.phase = "read", !.snap.accounts = registry]
        BY <2>0, <2>5, <3>1 DEF SnapshotReads, SubscriberType
      <4> QED
        BY <2>1, <4>1
    <3>2. CASE t # s
      BY <2>0, <2>5, <3>2 DEF SnapshotReads
    <3> QED
      BY <3>1, <3>2
  <2>6. ASSUME NEW t \in Connections, SnapshotReady(t)
        PROVE  subscribers'[s].item \in {sub.item, NoFrame}
    <3>1. CASE t = s
      <4>1. subscribers'[s] = Drained([sub EXCEPT !.snap = State(0, 0)])
        BY <1>1, <2>0, <2>6, <3>1 DEF SnapshotReady
      <4>2. Drained([sub EXCEPT !.snap = State(0, 0)]) = Ended
        BY <1>1, <2>0 DEF Drained, SubscriberType
      <4> QED
        BY <2>1, <4>1, <4>2
    <3>2. CASE t # s
      BY <2>0, <2>6, <3>2 DEF SnapshotReady
    <3> QED
      BY <3>1, <3>2
  <2>7. ASSUME NEW t \in Connections, SnapshotFails(t) \/ WriteLost(t) \/ TimesOut(t)
        PROVE  subscribers'[s].item \in {sub.item, NoFrame}
    BY <2>0, <2>1, <2>7 DEF SnapshotFails, WriteLost, TimesOut
  <2>8. ASSUME NEW c \in Clients, Connect(c)
        PROVE  subscribers'[s].item \in {sub.item, NoFrame}
    BY <1>1, <2>0, <2>8 DEF Connect
  <2>9. ASSUME NEW c \in Clients, WriteFlushes(c) \/ Disconnect(c) \/ Vanishes(c)
        PROVE  subscribers'[s].item \in {sub.item, NoFrame}
    <3>1. conn[c] \in Connections
      BY <2>0, <2>9, ReadsConnection DEF WriteFlushes, Disconnect, Vanishes
    <3>2. [sub EXCEPT !.link = "dead"].item = sub.item
      BY <2>0 DEF SubscriberType
    <3> QED
      BY <2>0, <2>1, <2>9, <3>1, <3>2 DEF WriteFlushes, Disconnect, Vanishes
  <2> QED
    BY <1>1, <2>2, <2>3, <2>4, <2>5, <2>6, <2>7, <2>8, <2>9
       DEF Next, EditStep, ConnectionStep, ClientStep
<1>2. IInv /\ [Next]_vars => [\A s \in Connections : Silent(s)]_vars
  BY <1>1 DEF Silent
<1>3. Init => IInv /\ Announced
  BY InitIInv
<1>4. [][\A s \in Connections : Silent(s)]_vars => DroppedStaysSilent
  <2>1. [\A s \in Connections : Silent(s)]_vars =>
          [\A s \in Connections :
             (~subscribers[s].alive /\ subscribers[s].phase # "unused") =>
               subscribers'[s].item \in {subscribers[s].item, NoFrame}]_vars
    BY DEF Silent
  <2> QED
    BY <2>1, PTL DEF DroppedStaysSilent
<1> QED
  BY <1>2, <1>3, <1>4, NextIInv, PTL DEF Spec

-----------------------------------------------------------------------------
(* What clients are shown is a behaviour of Feed *)

\* The oldest auth status that a reader showing `a` may be shown next, and the frame that
\* carries it: the snapshot being built, the one being written, or none.
From(sub, a) ==
    IF sub.phase \in {"reading", "read"} THEN sub.snap.auth
    ELSE IF sub.phase = "writing" /\ sub.item.topic = "snapshot" THEN sub.item.auth
    ELSE a

\* The oldest that what is queued may carry.
Behind(sub, a) ==
    IF sub.phase \in {"reading", "read"} THEN sub.snap.auth
    ELSE IF sub.phase = "writing" /\ Carries(sub.item, "auth") THEN sub.item.auth
    ELSE a

\* What a reader that shows `a` is still to be shown goes on from there to the current
\* version, and the snapshot, if it is yet to come, is ahead of everything queued.
Ordered(sub, a, v) ==
    /\ a <= Behind(sub, a) /\ Behind(sub, a) <= v
    /\ \A i \in 1 .. Len(sub.queue) :
         /\ sub.queue[i].topic # "snapshot"
         /\ sub.queue[i].topic = "auth" => Behind(sub, a) <= sub.queue[i].auth /\ sub.queue[i].auth <= v
    /\ \A i \in 1 .. Len(sub.queue) : \A j \in i + 1 .. Len(sub.queue) :
         sub.queue[i].topic = "auth" /\ sub.queue[j].topic = "auth"
           => sub.queue[i].auth <= sub.queue[j].auth

Tracks ==
    \A c \in Clients :
      /\ view[c].auth <= auth
      /\ conn[c] # 0 => Ordered(subscribers[conn[c]], view[c].auth, auth)

NoReader == [left |-> "none", from |-> 0]

ReaderOf(sub, a) ==
    IF ~sub.alive /\ sub.phase # "writing" THEN NoReader
    ELSE [left |-> IF sub.alive THEN "all" ELSE "one", from |-> From(sub, a)]

\* What a loss leaves of a subscription.
Remains(r) == {r, NoReader} \cup IF r.left = "all" THEN {[r EXCEPT !.left = "one"]} ELSE {}

LEMMA ReaderIs ==
    ASSUME NEW c \in Clients
    PROVE  Reader(c) = IF conn[c] = 0 THEN NoReader
                       ELSE ReaderOf(subscribers[conn[c]], view[c].auth)
  BY DEF Reader, ReaderOf, From, Building, NoReader

LEMMA ReaderBecomes ==
    ASSUME NEW c \in Clients
    PROVE  Reader(c)' = IF conn'[c] = 0 THEN NoReader
                        ELSE ReaderOf(subscribers'[conn'[c]], view'[c].auth)
  BY DEF Reader, ReaderOf, From, Building, NoReader

LEMMA NumbersIn ==
    ASSUME NEW sub, Good(sub)
    PROVE  /\ sub.queue \in Seq(FrameType) /\ Len(sub.queue) \in Nat
           /\ \A i \in 1 .. Len(sub.queue) : sub.queue[i] \in FrameType /\ sub.queue[i].auth \in Nat
           /\ sub.item \in FrameType /\ sub.snap \in StateType
           /\ sub.snap.auth \in Nat /\ sub.snap.accounts \in Nat /\ sub.item.auth \in Nat
<1>1. sub.queue \in Seq(FrameType) /\ sub.snap \in StateType /\ sub.item \in FrameType
  BY DEF Good, SubscriberType
<1>2. /\ Len(sub.queue) \in Nat
      /\ \A i \in 1 .. Len(sub.queue) : sub.queue[i] \in FrameType
  BY <1>1, LenProperties, ElementOfSeq
<1>3. \A x \in FrameType : x.auth \in Nat
  BY DEF FrameType
<1>4. sub.snap.auth \in Nat /\ sub.snap.accounts \in Nat
  BY <1>1 DEF StateType
<1> QED
  BY <1>1, <1>2, <1>3, <1>4

LEMMA EndedOrder ==
    ASSUME NEW a \in Nat, NEW v \in Nat, a <= v
    PROVE  Ordered(Ended, a, v) /\ ReaderOf(Ended, a) = NoReader
<1> DEFINE e == Ended
<1>1. e.phase = "ended" /\ e.queue = <<>> /\ ~e.alive
  BY DEF Ended, Unused
<1> HIDE DEF e
<1>2. Len(e.queue) = 0 /\ Behind(e, a) = a
  BY <1>1 DEF Behind
<1>3. Ordered(e, a, v) /\ ReaderOf(e, a) = NoReader
  BY <1>1, <1>2 DEF Ordered, ReaderOf
<1> QED
  BY <1>3 DEF e

LEMMA RemovedOrder ==
    ASSUME NEW sub, Good(sub), NEW a \in Nat, NEW v \in Nat, a <= v, Ordered(sub, a, v)
    PROVE  Ordered(Removed(sub), a, v) /\ ReaderOf(Removed(sub), a) \in Remains(ReaderOf(sub, a))
<1>1. CASE sub.phase = "waiting"
  BY <1>1, EndedOrder DEF Removed, Remains
<1>2. CASE sub.phase # "waiting"
  <2> DEFINE r == Removed(sub)
  <2>1. r = [sub EXCEPT !.alive = FALSE]
    BY <1>2 DEF Removed
  <2>2. /\ r.phase = sub.phase /\ r.queue = sub.queue /\ r.item = sub.item /\ r.snap = sub.snap
        /\ ~r.alive
    BY <2>1 DEF Good, SubscriberType
  <2> HIDE DEF r
  <2>3. Behind(r, a) = Behind(sub, a) /\ From(r, a) = From(sub, a)
    BY <2>2 DEF Behind, From
  <2>4. Ordered(r, a, v)
    BY <2>2, <2>3 DEF Ordered
  <2>5. ReaderOf(r, a) \in Remains(ReaderOf(sub, a))
    BY <2>2, <2>3 DEF ReaderOf, Remains
  <2> QED
    BY <2>4, <2>5 DEF r
<1> QED
  BY <1>1, <1>2

\* A frame that says nothing of the auth status, or says the new one, goes behind all others.
LEMMA PushedOrder ==
    ASSUME NEW sub, Good(sub), NEW fr \in FrameType, NEW a \in Nat, NEW v \in Nat, NEW w \in Nat,
           a <= v, v <= w, fr.topic # "snapshot", fr.topic = "auth" => fr.auth = w,
           Ordered(sub, a, v)
    PROVE  Ordered(Pushed(sub, fr), a, w) /\ ReaderOf(Pushed(sub, fr), a) \in Remains(ReaderOf(sub, a))
<1>0. /\ sub.queue \in Seq(FrameType) /\ Len(sub.queue) \in Nat
      /\ \A i \in 1 .. Len(sub.queue) : sub.queue[i].auth \in Nat
      /\ sub.snap.auth \in Nat /\ sub.item.auth \in Nat
  BY NumbersIn
<1>1. Behind(sub, a) \in Nat
  BY <1>0 DEF Behind
<1>2. Ordered(sub, a, w)
  BY <1>0, <1>1 DEF Ordered
<1>3. CASE ~sub.alive
  BY <1>2, <1>3 DEF Pushed, Remains
<1>4. CASE sub.alive /\ sub.phase = "waiting"
  <2> DEFINE p == Pushed(sub, fr)
  <2>1. p = [sub EXCEPT !.phase = "writing", !.item = fr]
    BY <1>4 DEF Pushed
  <2>2. p.phase = "writing" /\ p.item = fr /\ p.queue = <<>> /\ p.alive
    BY <1>4, <2>1 DEF Good, SubscriberType, Shape
  <2> HIDE DEF p
  <2>3. /\ Behind(p, a) = (IF fr.topic = "auth" THEN w ELSE a) /\ From(p, a) = a /\ From(sub, a) = a
        /\ Len(p.queue) = 0
    BY <1>4, <2>2 DEF Behind, From, Carries
  <2>4. Ordered(p, a, w) /\ ReaderOf(p, a) = ReaderOf(sub, a)
    BY <1>4, <2>2, <2>3 DEF Ordered, ReaderOf
  <2> QED
    BY <2>4 DEF p, Remains
<1>5. CASE sub.alive /\ sub.phase # "waiting" /\ Len(sub.queue) >= Capacity
  BY <1>2, <1>5, RemovedOrder DEF Pushed
<1>6. CASE sub.alive /\ sub.phase # "waiting" /\ ~(Len(sub.queue) >= Capacity)
  <2> DEFINE p == Pushed(sub, fr)
             n == Len(sub.queue)
             q == Append(sub.queue, fr)
  <2>1. p = [sub EXCEPT !.queue = q]
    BY <1>6 DEF Pushed
  <2>2. /\ p.phase = sub.phase /\ p.item = sub.item /\ p.snap = sub.snap /\ p.alive = sub.alive
        /\ p.queue = q
    BY <2>1 DEF Good, SubscriberType
  <2> HIDE DEF p
  <2>3. Len(q) = n + 1 /\ \A i \in 1 .. n + 1 : q[i] = IF i <= n THEN sub.queue[i] ELSE fr
    BY <1>0
  <2> HIDE DEF q
  <2>4. Behind(p, a) = Behind(sub, a) /\ From(p, a) = From(sub, a)
    BY <2>2 DEF Behind, From
  <2>5. ReaderOf(p, a) = ReaderOf(sub, a)
    BY <2>2, <2>4 DEF ReaderOf
  <2>6. ASSUME NEW i \in 1 .. n + 1
        PROVE  /\ q[i].topic # "snapshot"
               /\ q[i].topic = "auth" => Behind(sub, a) <= q[i].auth /\ q[i].auth <= w
    <3>1. CASE i <= n
      BY <1>0, <1>2, <2>3, <3>1 DEF Ordered
    <3>2. CASE ~(i <= n)
      BY <1>2, <2>3, <3>2 DEF Ordered
    <3> QED
      BY <3>1, <3>2
  <2>7. ASSUME NEW i \in 1 .. n + 1, NEW j \in i + 1 .. n + 1, q[i].topic = "auth", q[j].topic = "auth"
        PROVE  q[i].auth <= q[j].auth
    <3>1. i <= n /\ i \in 1 .. n /\ q[i] = sub.queue[i]
      BY <1>0, <2>3
    <3>2. CASE j <= n
      BY <1>0, <1>2, <2>3, <2>7, <3>1, <3>2 DEF Ordered
    <3>3. CASE ~(j <= n)
      BY <2>3, <2>6, <2>7, <3>1, <3>3
    <3> QED
      BY <3>2, <3>3
  <2>8. Ordered(p, a, w)
    BY <1>2, <2>2, <2>3, <2>4, <2>6, <2>7 DEF Ordered
  <2> QED
    BY <2>5, <2>8 DEF p, Remains
<1> QED
  BY <1>3, <1>4, <1>5, <1>6


\* The snapshot goes ahead of what was queued while it was built, and none of it is older.
LEMMA SnapshotOrder ==
    ASSUME NEW sub, Good(sub), sub.alive, sub.phase = "read", NEW a \in Nat, NEW v \in Nat,
           Ordered(sub, a, v),
           NEW full, full = [sub EXCEPT !.snap = State(0, 0),
                                        !.queue = <<Frame("snapshot", sub.snap.auth, sub.snap.accounts)>> \o sub.queue]
    PROVE  Ordered(Drained(full), a, v) /\ ReaderOf(Drained(full), a) = ReaderOf(sub, a)
<1> DEFINE snap == Frame("snapshot", sub.snap.auth, sub.snap.accounts)
           q == <<snap>> \o sub.queue
           d == Drained(full)
<1>1. sub.queue \in Seq(FrameType) /\ sub.snap.auth \in Nat /\ sub.snap.accounts \in Nat
  BY NumbersIn
<1>2. snap \in FrameType /\ snap.topic = "snapshot" /\ snap.auth = sub.snap.auth
  BY <1>1, FramesTyped DEF Frame
<1> HIDE DEF snap
<1>3. q # <<>> /\ Head(q) = snap /\ Tail(q) = sub.queue
  BY <1>1, <1>2
<1> HIDE DEF q
<1>4. full.queue = q /\ full.alive /\ full = [sub EXCEPT !.snap = State(0, 0), !.queue = q]
  BY DEF Good, SubscriberType, q, snap
<1>5. d = [full EXCEPT !.phase = "writing", !.item = snap, !.queue = sub.queue]
  BY <1>3, <1>4 DEF Drained
<1>6. d.phase = "writing" /\ d.item = snap /\ d.queue = sub.queue /\ d.alive
  BY <1>4, <1>5 DEF Good, SubscriberType
<1> HIDE DEF d
<1>7. Behind(d, a) = Behind(sub, a) /\ From(d, a) = From(sub, a)
  BY <1>2, <1>6 DEF Behind, From, Carries
<1>8. Ordered(d, a, v)
  BY <1>6, <1>7 DEF Ordered
<1>9. ReaderOf(d, a) = ReaderOf(sub, a)
  BY <1>6, <1>7 DEF ReaderOf
<1> QED
  BY <1>8, <1>9 DEF d

\* What a client is shown is neither older than what it showed nor than its subscription.
LEMMA FlushOrder ==
    ASSUME NEW sub, Good(sub), sub.phase = "writing", NEW st \in StateType, NEW v \in Nat,
           Ordered(sub, st.auth, v), NEW b, b = Applied(st, sub.item).auth
    PROVE  /\ b \in Nat /\ st.auth <= b /\ From(sub, st.auth) <= b /\ b <= v
           /\ Ordered(Drained(sub), b, v)
           /\ ReaderOf(Drained(sub), b) = IF sub.alive THEN [left |-> "all", from |-> b] ELSE NoReader
<1> DEFINE a == st.auth
           n == Len(sub.queue)
           d == Drained(sub)
<1>1. /\ sub.queue \in Seq(FrameType) /\ n \in Nat /\ sub.item \in FrameType /\ sub.item.auth \in Nat
      /\ \A i \in 1 .. n : sub.queue[i] \in FrameType /\ sub.queue[i].auth \in Nat
      /\ a \in Nat
  BY NumbersIn DEF StateType
<1>2. b = Behind(sub, a)
  BY <1>1 DEF Behind, Applied, Carries, State, StateType, FrameType
<1>3. b \in Nat /\ a <= b /\ b <= v
  BY <1>1, <1>2 DEF Ordered, Behind
<1>4. From(sub, a) <= b
  BY <1>1, <1>2, <1>3 DEF From, Behind, Carries
<1>5. \A i \in 1 .. n : /\ sub.queue[i].topic # "snapshot"
                        /\ sub.queue[i].topic = "auth" => b <= sub.queue[i].auth /\ sub.queue[i].auth <= v
  BY <1>2 DEF Ordered
<1>6. CASE ~sub.alive
  BY <1>3, <1>6, EndedOrder, <1>4 DEF Drained
<1>7. CASE sub.alive /\ sub.queue = <<>>
  <2>1. d = [sub EXCEPT !.phase = "waiting", !.item = NoFrame]
    BY <1>7 DEF Drained
  <2>2. d.phase = "waiting" /\ d.queue = <<>> /\ d.alive
    BY <1>7, <2>1 DEF Good, SubscriberType
  <2> HIDE DEF d
  <2>3. Behind(d, b) = b /\ From(d, b) = b /\ Len(d.queue) = 0
    BY <2>2 DEF Behind, From
  <2>4. Ordered(d, b, v) /\ ReaderOf(d, b) = [left |-> "all", from |-> b]
    BY <1>3, <2>2, <2>3 DEF Ordered, ReaderOf
  <2> QED
    BY <1>3, <1>4, <1>7, <2>4 DEF d
<1>8. CASE sub.alive /\ sub.queue # <<>>
  <2> DEFINE x == sub.queue[1]
             q == Tail(sub.queue)
  <2>1. /\ Head(sub.queue) = x /\ n > 0 /\ Len(q) = n - 1
        /\ \A i \in 1 .. n - 1 : q[i] = sub.queue[i + 1]
    BY <1>1, <1>8
  <2> HIDE DEF x, q
  <2>2. d = [sub EXCEPT !.phase = "writing", !.item = x, !.queue = q]
    BY <1>8, <2>1 DEF Drained, q
  <2>3. d.phase = "writing" /\ d.item = x /\ d.queue = q /\ d.alive
    BY <1>8, <2>2 DEF Good, SubscriberType
  <2> HIDE DEF d
  <2>4. x.topic # "snapshot" /\ (x.topic = "auth" => b <= x.auth /\ x.auth <= v) /\ x.auth \in Nat
    BY <1>1, <1>5, <2>1 DEF x
  <2>5. Behind(d, b) = (IF x.topic = "auth" THEN x.auth ELSE b) /\ From(d, b) = b
    BY <2>3, <2>4 DEF Behind, From, Carries
  <2>6. b <= Behind(d, b) /\ Behind(d, b) <= v
    BY <1>3, <2>4, <2>5
  <2>7. ASSUME NEW i \in 1 .. n - 1
        PROVE  /\ q[i].topic # "snapshot"
               /\ q[i].topic = "auth" => Behind(d, b) <= q[i].auth /\ q[i].auth <= v
    <3>1. i + 1 \in 1 .. n /\ q[i] = sub.queue[i + 1] /\ 1 \in 1 .. n /\ i + 1 \in 1 + 1 .. n
      BY <1>1, <2>1
    <3>2. x.topic = "auth" /\ q[i].topic = "auth" => x.auth <= q[i].auth
      BY <3>1 DEF Ordered, x
    <3> QED
      BY <1>5, <2>5, <3>1, <3>2
  <2>8. ASSUME NEW i \in 1 .. n - 1, NEW j \in i + 1 .. n - 1, q[i].topic = "auth", q[j].topic = "auth"
        PROVE  q[i].auth <= q[j].auth
    <3>1. i + 1 \in 1 .. n /\ j + 1 \in (i + 1) + 1 .. n /\ j \in 1 .. n - 1
      BY <1>1
    <3>2. q[i] = sub.queue[i + 1] /\ q[j] = sub.queue[j + 1]
      BY <2>1, <3>1
    <3> QED
      BY <2>8, <3>1, <3>2 DEF Ordered
  <2>9. Ordered(d, b, v)
    BY <2>1, <2>3, <2>6, <2>7, <2>8 DEF Ordered
  <2>10. ReaderOf(d, b) = [left |-> "all", from |-> b]
    BY <2>3, <2>5 DEF ReaderOf
  <2> QED
    BY <1>3, <1>4, <1>8, <2>9, <2>10 DEF d
<1> QED
  BY <1>6, <1>7, <1>8

LEMMA ViewsTyped ==
    ASSUME Plumbing
    PROVE  /\ auth \in Nat /\ registry \in Nat
           /\ \A c \in Clients : view[c] \in StateType /\ view[c].auth \in Nat
           /\ \A c \in Clients : conn[c] # 0 =>
                conn[c] \in Connections /\ Good(subscribers[conn[c]])
<1>1. \A c \in Clients : view[c] \in StateType
  BY DEF Plumbing, Scalars
<1>2. \A x \in StateType : x.auth \in Nat
  BY DEF StateType
<1>3. \A c \in Clients : conn[c] # 0 => conn[c] \in Connections
  BY ReadsConnection
<1> QED
  BY <1>1, <1>2, <1>3, CurrentTyped DEF Plumbing, GoodSubscribers

LEMMA FanoutTracks ==
    ASSUME Plumbing, Tracks, NEW fr \in FrameType, Fanout(fr), UNCHANGED <<conn, view>>,
           auth' \in Nat, auth <= auth', fr.topic # "snapshot", fr.topic = "auth" => fr.auth = auth'
    PROVE  Tracks' /\ \A c \in Clients : Reader(c)' \in Remains(Reader(c))
<1>1. ASSUME NEW c \in Clients
      PROVE  /\ view[c].auth <= auth'
             /\ conn[c] # 0 => Ordered(subscribers'[conn[c]], view[c].auth, auth')
             /\ Reader(c)' \in Remains(Reader(c))
  <2>1. view[c].auth \in Nat /\ auth \in Nat /\ view[c].auth <= auth
    BY ViewsTyped DEF Tracks
  <2>2. view[c].auth <= auth'
    BY <2>1
  <2>3. CASE conn[c] = 0
    BY <2>2, <2>3, ReaderIs, ReaderBecomes DEF Remains
  <2>4. CASE conn[c] # 0
    <3> DEFINE sub == subscribers[conn[c]]
    <3>1. Good(sub) /\ conn[c] \in Connections /\ Ordered(sub, view[c].auth, auth)
      BY <2>4, ViewsTyped DEF Tracks
    <3>2. subscribers'[conn[c]] = Pushed(sub, fr)
      BY <3>1 DEF Fanout
    <3> HIDE DEF sub
    <3>3. /\ Ordered(Pushed(sub, fr), view[c].auth, auth')
          /\ ReaderOf(Pushed(sub, fr), view[c].auth) \in Remains(ReaderOf(sub, view[c].auth))
      BY <2>1, <3>1, PushedOrder
    <3>4. Reader(c) = ReaderOf(sub, view[c].auth) /\ Reader(c)' = ReaderOf(Pushed(sub, fr), view[c].auth)
      BY <2>4, <3>2, ReaderIs, ReaderBecomes DEF sub
    <3> QED
      BY <2>2, <3>2, <3>3, <3>4
  <2> QED
    BY <2>3, <2>4
<1>2. Tracks'
  BY <1>1 DEF Tracks
<1> QED
  BY <1>1, <1>2

\* A step that changes one connection's record and shows nobody anything.
LEMMA RecordTracks ==
    ASSUME Plumbing, Tracks, NEW s \in Connections, NEW rec,
           subscribers' = [subscribers EXCEPT ![s] = rec], UNCHANGED <<auth, view>>,
           \A c \in Clients : conn'[c] \in {0, conn[c]},
           \A c \in Clients : conn'[c] = s =>
             /\ Ordered(rec, view[c].auth, auth)
             /\ ReaderOf(rec, view[c].auth) \in Remains(ReaderOf(subscribers[s], view[c].auth))
    PROVE  Tracks' /\ \A c \in Clients : Reader(c)' \in Remains(Reader(c))
<1>1. \A t \in Connections : subscribers'[t] = IF t = s THEN rec ELSE subscribers[t]
  BY DEF Plumbing, GoodSubscribers
<1>2. ASSUME NEW c \in Clients
      PROVE  /\ view[c].auth <= auth
             /\ conn'[c] # 0 => Ordered(subscribers'[conn'[c]], view[c].auth, auth)
             /\ Reader(c)' \in Remains(Reader(c))
  <2>1. view[c].auth <= auth /\ (conn[c] # 0 => Ordered(subscribers[conn[c]], view[c].auth, auth))
    BY DEF Tracks
  <2>2. CASE conn'[c] = 0
    BY <2>1, <2>2, ReaderBecomes DEF Remains
  <2>3. CASE conn'[c] # 0
    <3>1. conn'[c] = conn[c] /\ conn[c] \in Connections
      BY <2>3, ViewsTyped
    <3>2. /\ Reader(c) = ReaderOf(subscribers[conn[c]], view[c].auth)
          /\ Reader(c)' = ReaderOf(subscribers'[conn[c]], view[c].auth)
      BY <2>3, <3>1, ReaderIs, ReaderBecomes
    <3>3. CASE conn[c] = s
      BY <1>1, <2>1, <3>1, <3>2, <3>3
    <3>4. CASE conn[c] # s
      BY <1>1, <2>1, <2>3, <3>1, <3>2, <3>4 DEF Remains
    <3> QED
      BY <3>3, <3>4
  <2> QED
    BY <2>2, <2>3
<1>3. Tracks'
  BY <1>2 DEF Tracks
<1> QED
  BY <1>2, <1>3

-----------------------------------------------------------------------------
(* The steps, as steps of Feed *)

Losing ==
    /\ Tracks' /\ \A c \in Clients : Reader(c)' \in Remains(Reader(c))
    /\ UNCHANGED view /\ auth' \in {auth, auth + 1}

LEMMA LosingMaps == Losing => [StatusFeed!Next]_(StatusFeed!vars)
<1> SUFFICES ASSUME Losing PROVE StatusFeed!Change \/ StatusFeed!Drop
  BY DEF StatusFeed!Next
<1>1. ASSUME NEW c \in Clients PROVE StatusFeed!Loses(c)
  <2>1. Reader(c)' \in Remains(Reader(c))
    BY DEF Losing
  <2>2. \/ Reader(c)' = Reader(c)
        \/ Reader(c).left = "all" /\ Reader(c)' = [Reader(c) EXCEPT !.left = "one"]
        \/ Reader(c)' = NoReader
    BY <2>1 DEF Remains
  <2> QED
    BY <2>2 DEF StatusFeed!Loses, StatusFeed!Nobody, NoReader
<1>2. StatusFeed!Losses
  BY <1>1 DEF StatusFeed!Losses
<1>3. UNCHANGED [c \in Clients |-> view[c].auth]
  BY DEF Losing
<1> QED
  BY <1>2, <1>3 DEF Losing, StatusFeed!Change, StatusFeed!Drop

LEMMA ProducersMap ==
    ASSUME Plumbing, Tracks,
           AuthChanges \/ Heartbeat \/ SilentWrite \/ \E m \in Surfaces : EditStep(m)
    PROVE  Losing
<1>0. auth \in Nat /\ registry \in Nat
  BY CurrentTyped
<1>1. CASE AuthChanges
  <2> DEFINE fr == Frame("auth", auth + 1, 0)
  <2>0. auth + 1 \in Nat /\ auth <= auth + 1
    BY <1>0
  <2>1. fr \in FrameType /\ fr.topic = "auth" /\ fr.auth = auth + 1
    BY <2>0, FramesTyped DEF Frame
  <2>2. Fanout(fr) /\ auth' = auth + 1 /\ UNCHANGED <<conn, view>>
    BY <1>1 DEF AuthChanges
  <2> HIDE DEF fr
  <2> QED
    BY <1>0, <2>0, <2>1, <2>2, FanoutTracks DEF Losing
<1>2. CASE Heartbeat
  <2>1. Keepalive \in FrameType /\ Keepalive.topic = "keepalive"
    BY FramesTyped DEF Keepalive, Frame
  <2>2. Fanout(Keepalive) /\ auth' = auth /\ UNCHANGED <<conn, view>>
    BY <1>2 DEF Heartbeat
  <2> QED
    BY <1>0, <2>1, <2>2, FanoutTracks DEF Losing
<1>3. ASSUME NEW m \in Surfaces, EditEmits(m) PROVE Losing
  <2> DEFINE fr == Frame("accounts", 0, edits[m].list)
  <2>1. edits[m].list \in Nat
    BY DEF Plumbing, Scalars
  <2>2. fr \in FrameType /\ fr.topic = "accounts"
    BY <2>1, FramesTyped DEF Frame
  <2>3. Fanout(fr) /\ auth' = auth /\ UNCHANGED <<conn, view>>
    BY <1>3 DEF EditEmits
  <2> HIDE DEF fr
  <2> QED
    BY <1>0, <2>2, <2>3, FanoutTracks DEF Losing
<1>4. ASSUME SilentWrite \/ \E m \in Surfaces : EditWrites(m) \/ EditLists(m) \/ EditListFails(m)
      PROVE  Losing
  <2>1. UNCHANGED <<auth, subscribers, conn, view>>
    BY <1>4 DEF SilentWrite, EditWrites, EditLists, EditListFails
  <2>2. Tracks'
    BY <2>1 DEF Tracks
  <2>3. \A c \in Clients : Reader(c)' = Reader(c)
    BY <2>1, ReaderIs, ReaderBecomes
  <2> QED
    BY <2>1, <2>2, <2>3 DEF Losing, Remains
<1> QED
  BY <1>1, <1>2, <1>3, <1>4 DEF EditStep

LEMMA SnapshotsMap ==
    ASSUME Plumbing, Tracks, NEW s \in Connections, ConnectionStep(s)
    PROVE  Losing
<1> DEFINE sub == subscribers[s]
<1>0. /\ Good(sub) /\ sub \in SubscriberType
      /\ \A c \in Clients : conn[c] = s =>
           /\ view[c].auth \in Nat /\ auth \in Nat /\ view[c].auth <= auth
           /\ Ordered(sub, view[c].auth, auth)
  <2>1. s # 0
    BY DEF Connections
  <2> QED
    BY <2>1, ViewsTyped DEF Tracks, Plumbing, GoodSubscribers
<1>1. CASE SnapshotReads(s)
  <2> DEFINE rec == [sub EXCEPT !.phase = "read", !.snap.accounts = registry]
  <2>1. /\ sub.phase = "reading" /\ subscribers' = [subscribers EXCEPT ![s] = rec]
        /\ UNCHANGED <<auth, conn, view>>
    BY <1>0, <1>1 DEF SnapshotReads, Plumbing, GoodSubscribers
  <2>2. /\ rec.phase = "read" /\ rec.alive = sub.alive /\ rec.queue = sub.queue
        /\ rec.snap.auth = sub.snap.auth
    BY <1>0 DEF SubscriberType, StateType
  <2> HIDE DEF rec
  <2>3. ASSUME NEW a, NEW v, Ordered(sub, a, v)
        PROVE  Ordered(rec, a, v) /\ ReaderOf(rec, a) = ReaderOf(sub, a)
    <3>1. Behind(rec, a) = Behind(sub, a) /\ From(rec, a) = From(sub, a)
      BY <2>1, <2>2 DEF Behind, From
    <3>2. Ordered(rec, a, v)
      BY <2>2, <2>3, <3>1 DEF Ordered
    <3> QED
      BY <2>1, <2>2, <3>1, <3>2 DEF ReaderOf
  <2>4. \A c \in Clients : conn'[c] = s =>
          /\ Ordered(rec, view[c].auth, auth)
          /\ ReaderOf(rec, view[c].auth) \in Remains(ReaderOf(sub, view[c].auth))
    BY <1>0, <2>1, <2>3 DEF Remains
  <2> QED
    BY <2>1, <2>4, RecordTracks DEF Losing
<1>2. CASE SnapshotReady(s)
  <2> DEFINE done == [sub EXCEPT !.snap = State(0, 0)]
             full == [sub EXCEPT !.snap = State(0, 0),
                                 !.queue = <<Frame("snapshot", sub.snap.auth, sub.snap.accounts)>> \o sub.queue]
             rec  == IF sub.alive THEN Drained(full) ELSE Ended
  <2>1. sub.phase = "read" /\ UNCHANGED <<auth, conn, view>>
    BY <1>2 DEF SnapshotReady
  <2>2. subscribers' = [subscribers EXCEPT ![s] = rec]
    <3>1. CASE sub.alive
      <4>1. full = [done EXCEPT !.queue = <<Frame("snapshot", sub.snap.auth, sub.snap.accounts)>> \o @]
        BY <1>0 DEF SubscriberType
      <4> QED
        BY <1>2, <3>1, <4>1 DEF SnapshotReady
    <3>2. CASE ~sub.alive
      <4>1. Drained(done) = Ended
        BY <1>0, <3>2 DEF Drained, SubscriberType
      <4> QED
        BY <1>2, <3>2, <4>1 DEF SnapshotReady
    <3> QED
      BY <3>1, <3>2
  <2>3. ASSUME NEW c \in Clients, conn[c] = s
        PROVE  /\ Ordered(rec, view[c].auth, auth)
               /\ ReaderOf(rec, view[c].auth) \in Remains(ReaderOf(sub, view[c].auth))
    <3>1. CASE sub.alive
      <4>1. /\ Ordered(Drained(full), view[c].auth, auth)
            /\ ReaderOf(Drained(full), view[c].auth) = ReaderOf(sub, view[c].auth)
        <5>1. /\ Good(sub) /\ sub.alive /\ sub.phase = "read" /\ view[c].auth \in Nat /\ auth \in Nat
              /\ Ordered(sub, view[c].auth, auth)
          BY <1>0, <2>1, <2>3, <3>1
        <5> DEFINE a == view[c].auth
        <5> HIDE DEF sub, a
        <5> QED
          BY <5>1, SnapshotOrder DEF a
      <4> QED
        BY <3>1, <4>1 DEF Remains
    <3>2. CASE ~sub.alive
      BY <1>0, <2>3, <3>2, EndedOrder DEF Remains
    <3> QED
      BY <3>1, <3>2
  <2> HIDE DEF rec
  <2> QED
    BY <2>1, <2>2, <2>3, RecordTracks DEF Losing
<1>3. ASSUME SnapshotFails(s) \/ WriteLost(s) \/ TimesOut(s) PROVE Losing
  <2>1. \E rec : subscribers' = [subscribers EXCEPT ![s] = rec]
    BY <1>3 DEF SnapshotFails, WriteLost, TimesOut
  <2>2. UNCHANGED <<auth, view>> /\ \A c \in Clients : conn'[c] \in {0, conn[c]}
    BY <1>3 DEF SnapshotFails, WriteLost, TimesOut
  <2>3. \A c \in Clients : conn'[c] # s
    <3>1. s # 0
      BY DEF Connections
    <3>2. WriteLost(s) \/ TimesOut(s) => \A c \in Clients : conn[c] # s
      BY <3>1 DEF WriteLost, TimesOut, Plumbing, OneReader
    <3> QED
      BY <1>3, <3>1, <3>2 DEF SnapshotFails, WriteLost, TimesOut
  <2> QED
    BY <2>1, <2>2, <2>3, RecordTracks DEF Losing
<1> QED
  BY <1>1, <1>2, <1>3 DEF ConnectionStep

LEMMA DisconnectMaps ==
    ASSUME Plumbing, Tracks, NEW c \in Clients, Disconnect(c) \/ Vanishes(c)
    PROVE  Losing
<1>1. conn[c] \in Connections
  BY ViewsTyped DEF Disconnect, Vanishes
<1>2. \E rec : subscribers' = [subscribers EXCEPT ![conn[c]] = rec]
  BY DEF Disconnect, Vanishes
<1>3. \A d \in Clients : conn'[d] = IF d = c THEN 0 ELSE conn[d]
  BY DEF Disconnect, Vanishes, Plumbing, Scalars
<1>4. \A d \in Clients : conn'[d] # conn[c]
  BY <1>1, <1>3 DEF Plumbing, OneReader, Connections
<1>5. UNCHANGED <<auth, view>>
  BY DEF Disconnect, Vanishes
<1> QED
  BY <1>1, <1>2, <1>3, <1>4, <1>5, RecordTracks DEF Losing

LEMMA ConnectMaps ==
    ASSUME Plumbing, Tracks, NEW c \in Clients, Connect(c)
    PROVE  Tracks' /\ StatusFeed!Subscribe(c)
<1>1. PICK s \in Connections :
        /\ subscribers[s].phase = "unused"
        /\ subscribers' = [subscribers EXCEPT
             ![s] = [Unused EXCEPT !.alive = TRUE, !.phase = "reading",
                                   !.snap = State(auth, 0)]]
        /\ conn' = [conn EXCEPT ![c] = s]
  BY DEF Connect
<1> DEFINE rec == [Unused EXCEPT !.alive = TRUE, !.phase = "reading", !.snap = State(auth, 0)]
<1>2. /\ rec.phase = "reading" /\ rec.alive /\ rec.queue = <<>> /\ rec.snap.auth = auth
  BY DEF Unused, State
<1>3. \A t \in Connections : subscribers'[t] = IF t = s THEN rec ELSE subscribers[t]
  BY <1>1 DEF Plumbing, GoodSubscribers
<1> HIDE DEF rec
<1>4. conn[c] = 0 /\ s # 0 /\ UNCHANGED <<auth, view>>
  BY DEF Connect, Connections
<1>5. \A d \in Clients : conn'[d] = IF d = c THEN s ELSE conn[d]
  BY <1>1 DEF Plumbing, Scalars
<1>6. \A d \in Clients : /\ view[d].auth \in Nat /\ auth \in Nat /\ view[d].auth <= auth
                         /\ conn[d] # 0 => /\ conn[d] \in Connections /\ conn[d] # s
                                           /\ Ordered(subscribers[conn[d]], view[d].auth, auth)
  BY <1>1, ViewsTyped DEF Tracks, Plumbing, OneReader
<1>7. ASSUME NEW a \in Nat, a <= auth, auth \in Nat
      PROVE  Ordered(rec, a, auth) /\ ReaderOf(rec, a) = [left |-> "all", from |-> auth]
  <2>1. Behind(rec, a) = auth /\ From(rec, a) = auth /\ Len(rec.queue) = 0
    BY <1>2 DEF Behind, From
  <2>2. Ordered(rec, a, auth)
    BY <1>2, <1>7, <2>1 DEF Ordered
  <2> QED
    BY <1>2, <2>1, <2>2 DEF ReaderOf
<1>8. ASSUME NEW d \in Clients
      PROVE  /\ conn'[d] # 0 => Ordered(subscribers'[conn'[d]], view[d].auth, auth)
             /\ Reader(d)' = IF d = c THEN [left |-> "all", from |-> auth] ELSE Reader(d)
  <2>1. CASE d = c
    <3>1. conn'[d] = s /\ subscribers'[s] = rec
      BY <1>3, <1>5, <2>1
    <3> QED
      BY <1>4, <1>6, <1>7, <2>1, <3>1, ReaderBecomes
  <2>2. CASE d # c
    <3>1. conn'[d] = conn[d] /\ (conn[d] # 0 => subscribers'[conn[d]] = subscribers[conn[d]])
      BY <1>3, <1>5, <1>6, <2>2
    <3> QED
      BY <1>4, <1>6, <2>2, <3>1, ReaderIs, ReaderBecomes
  <2> QED
    BY <2>1, <2>2
<1>9. Tracks'
  BY <1>4, <1>6, <1>8 DEF Tracks
<1>10. Reader(c) = NoReader
  BY <1>4, ReaderIs
<1>11. [d \in Clients |-> Reader(d)]' = [[d \in Clients |-> Reader(d)] EXCEPT ![c] = [left |-> "all", from |-> auth]]
  BY <1>8
<1>12. UNCHANGED <<auth, [d \in Clients |-> view[d].auth]>>
  BY <1>4
<1> QED
  BY <1>9, <1>10, <1>11, <1>12
     DEF StatusFeed!Subscribe, StatusFeed!Nobody, StatusFeed!Subscribed, NoReader

LEMMA WriteFlushesMaps ==
    ASSUME Plumbing, Tracks, NEW c \in Clients, WriteFlushes(c)
    PROVE  Tracks' /\ StatusFeed!Show(c)
<1> DEFINE s   == conn[c]
           sub == subscribers[s]
           st  == view[c]
           b   == Applied(st, sub.item).auth
           to  == IF sub.alive THEN [left |-> "all", from |-> b] ELSE NoReader
<1>1. /\ s # 0 /\ s \in Connections /\ Good(sub) /\ sub.phase = "writing"
      /\ st \in StateType /\ st.auth \in Nat /\ auth \in Nat /\ Ordered(sub, st.auth, auth)
  BY ViewsTyped DEF WriteFlushes, Tracks
<1>2. /\ b \in Nat /\ st.auth <= b /\ From(sub, st.auth) <= b /\ b <= auth
      /\ Ordered(Drained(sub), b, auth) /\ ReaderOf(Drained(sub), b) = to
  <2> HIDE DEF sub, st
  <2> QED
    BY <1>1, FlushOrder
<1>3. UNCHANGED <<auth, conn>>
  BY DEF WriteFlushes
<1>4. \A t \in Connections : subscribers'[t] = IF t = s THEN Drained(sub) ELSE subscribers[t]
  BY DEF WriteFlushes, Plumbing, GoodSubscribers
<1>5. \A d \in Clients : view'[d].auth = IF d = c THEN b ELSE view[d].auth
  BY DEF WriteFlushes, Plumbing, Scalars
<1>6. \A d \in Clients : /\ view[d].auth <= auth
                         /\ conn[d] # 0 => /\ conn[d] \in Connections /\ (conn[d] = s => d = c)
                                           /\ Ordered(subscribers[conn[d]], view[d].auth, auth)
  BY <1>1, ViewsTyped DEF Tracks, Plumbing, OneReader
<1> HIDE DEF b, to
<1>7. ASSUME NEW d \in Clients
      PROVE  /\ view'[d].auth <= auth
             /\ conn[d] # 0 => Ordered(subscribers'[conn[d]], view'[d].auth, auth)
             /\ Reader(d)' = IF d = c THEN to ELSE Reader(d)
  <2>1. CASE d = c
    <3>1. conn'[d] = s /\ subscribers'[s] = Drained(sub) /\ view'[d].auth = b
      BY <1>1, <1>3, <1>4, <1>5, <2>1
    <3>2. Reader(d)' = ReaderOf(subscribers'[conn'[d]], view'[d].auth)
      BY <1>1, <3>1, ReaderBecomes
    <3> QED
      BY <1>2, <2>1, <3>1, <3>2
  <2>2. CASE d # c
    <3>1. /\ conn'[d] = conn[d] /\ view'[d].auth = view[d].auth
          /\ conn[d] # 0 => subscribers'[conn[d]] = subscribers[conn[d]]
      BY <1>3, <1>4, <1>5, <1>6, <2>2
    <3> QED
      BY <1>6, <2>2, <3>1, ReaderIs, ReaderBecomes
  <2> QED
    BY <2>1, <2>2
<1>8. Tracks'
  BY <1>3, <1>7 DEF Tracks
<1>9. Reader(c) = [left |-> IF sub.alive THEN "all" ELSE "one", from |-> From(sub, st.auth)]
  <2>1. Reader(c) = ReaderOf(sub, st.auth)
    BY <1>1, ReaderIs
  <2> QED
    BY <1>1, <2>1 DEF ReaderOf
<1>10. From(sub, st.auth) \in Nat
  BY <1>1, NumbersIn DEF From
<1>11. b \in From(sub, st.auth) .. auth
  BY <1>1, <1>2, <1>10
<1>12. [d \in Clients |-> Reader(d)]' = [[d \in Clients |-> Reader(d)] EXCEPT ![c] = to]
  BY <1>7
<1>13. [d \in Clients |-> view[d].auth]' = [[d \in Clients |-> view[d].auth] EXCEPT ![c] = b]
  BY <1>5
<1>14. to = IF Reader(c).left = "all" THEN [left |-> "all", from |-> b] ELSE NoReader
  BY <1>9 DEF to
<1>15. Reader(c).left # "none" /\ Reader(c).from = From(sub, st.auth)
  BY <1>9
<1> HIDE DEF sub, s, st
<1>16. st.auth = [d \in Clients |-> view[d].auth][c] /\ Reader(c) = [d \in Clients |-> Reader(d)][c]
  BY DEF st
<1> QED
  BY <1>2, <1>3, <1>8, <1>11, <1>12, <1>13, <1>14, <1>15, <1>16
     DEF StatusFeed!Show, StatusFeed!Nobody, StatusFeed!Subscribed, NoReader

LEMMA TracksInit == Init => Tracks /\ StatusFeed!Init
<1> SUFFICES ASSUME Init PROVE Tracks /\ StatusFeed!Init
  OBVIOUS
<1>1. auth = 0 /\ \A c \in Clients : conn[c] = 0 /\ view[c].auth = 0
  BY DEF Init, State
<1>2. \A c \in Clients : Reader(c) = NoReader
  BY <1>1, ReaderIs
<1> QED
  BY <1>1, <1>2 DEF Tracks, StatusFeed!Init, StatusFeed!Nobody, NoReader

LEMMA StepMaps ==
    ASSUME Plumbing, Tracks, [Next]_vars
    PROVE  Tracks' /\ [StatusFeed!Next]_(StatusFeed!vars)
<1>1. CASE UNCHANGED vars
  <2>1. UNCHANGED <<auth, subscribers, conn, view>>
    BY <1>1 DEF vars
  <2>2. Tracks'
    BY <2>1 DEF Tracks
  <2>3. \A c \in Clients : Reader(c)' = Reader(c)
    BY <2>1, ReaderIs, ReaderBecomes
  <2> QED
    BY <2>1, <2>2, <2>3 DEF StatusFeed!vars
<1>2. CASE AuthChanges \/ Heartbeat \/ SilentWrite \/ \E m \in Surfaces : EditStep(m)
  BY <1>2, ProducersMap, LosingMaps DEF Losing
<1>3. ASSUME NEW s \in Connections, ConnectionStep(s)
      PROVE  Tracks' /\ [StatusFeed!Next]_(StatusFeed!vars)
  BY <1>3, SnapshotsMap, LosingMaps DEF Losing
<1>4. ASSUME NEW c \in Clients, ClientStep(c)
      PROVE  Tracks' /\ [StatusFeed!Next]_(StatusFeed!vars)
  <2>1. CASE Disconnect(c) \/ Vanishes(c)
    BY <2>1, DisconnectMaps, LosingMaps DEF Losing
  <2>2. CASE Connect(c)
    BY <2>2, ConnectMaps DEF StatusFeed!Next
  <2>3. CASE WriteFlushes(c)
    BY <2>3, WriteFlushesMaps DEF StatusFeed!Next
  <2> QED
    BY <1>4, <2>1, <2>2, <2>3 DEF ClientStep
<1> QED
  BY <1>1, <1>2, <1>3, <1>4 DEF Next

\* What clients are shown of the auth status is a behaviour of Feed, for any number of
\* clients and connections and any queue capacity: from wherever changes fall around a
\* snapshot build, through overflows, drops and reconnects, no client is ever shown an older
\* status than it showed or than there was when it subscribed.
THEOREM NeverGoesBack == Spec => ImplementsFeed
<1>1. Init => IInv /\ Announced /\ Tracks /\ StatusFeed!Init
  BY InitIInv, TracksInit
<1>2. IInv /\ Announced /\ Tracks /\ [Next]_vars =>
        (IInv /\ Announced /\ Tracks)' /\ [StatusFeed!Next]_(StatusFeed!vars)
  BY NextIInv, StepMaps DEF IInv
<1> QED
  BY <1>1, <1>2, PTL DEF Spec, ImplementsFeed, StatusFeed!Spec
=============================================================================
