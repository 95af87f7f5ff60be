---------------------------- MODULE ControlFeed ----------------------------
(***************************************************************************)
(* The control plane's live feed: ControlHub (src/lib/live/hub.ts) with    *)
(* its per-subscriber BoundedQueue (queue.ts), the SSE adapter that serves *)
(* a subscription (stream-subscription.ts), the snapshot a connecting      *)
(* client is sent (resources.ts), the account edits that broadcast, each   *)
(* under its own surface's AsyncMutex (mutex.ts, routes/control), the      *)
(* writers of the accounts file that broadcast nothing, and the shipped    *)
(* client that reconnects (client.ts).                                     *)
(*                                                                         *)
(* What is served is abstracted to version numbers: `auth` for the auth    *)
(* status, which changes and is broadcast in one synchronous step, and     *)
(* `registry` for the accounts file, which is written, listed and          *)
(* broadcast in three.  Everything between two awaits is one action.       *)
(***************************************************************************)
EXTENDS Naturals, Sequences

CONSTANTS
  Clients,         \* the clients of the feed (control UIs, the shell)
  Surfaces,        \* the mutexes that account edits are serialised by
  Capacity,        \* frames a subscriber may have queued (queueCapacity)
  MaxConnections,  \* bound: subscriptions ever opened
  MaxAuth,         \* bound: changes of the auth status
  MaxEdits,        \* bound: writes of the registry
  Mishaps          \* which of "silent_write", "list_fails" happen

ASSUME CapacityAssumption == Capacity \in Nat \ {0}
ASSUME BoundsAssumption ==
         MaxConnections \in Nat /\ MaxAuth \in Nat /\ MaxEdits \in Nat
ASSUME MishapsAssumption == Mishaps \subseteq {"silent_write", "list_fails"}

VARIABLES
  auth,         \* version of the auth status
  registry,     \* version of the accounts file
  announced,    \* history: version of the accounts list last broadcast
  edits,        \* per surface: the account edit that holds its mutex
  subscribers,  \* per connection: the hub's Subscriber and its drain loop
  conn,         \* per client: the connection whose stream it is reading, or 0
  view          \* per client: the ControlState it has assembled

vars == <<auth, registry, announced, edits, subscribers, conn, view>>

----------------------------------------------------------------------------
(* Data.                                                                   *)

Connections == 1 .. MaxConnections

\* A frame carries the field its topic names; a snapshot carries them all.
Frame(topic, a, r) == [topic |-> topic, auth |-> a, accounts |-> r]
NoFrame   == Frame("none", 0, 0)
Keepalive == Frame("keepalive", 0, 0)

State(a, r) == [auth |-> a, accounts |-> r]

\* Phases: the snapshot is being built ("reading" until the accounts list is
\* read, then "read"); the drain loop is parked in take() ("waiting") or
\* awaits sink.write of `item` ("writing"); it has returned ("ended").
\* Links: "up"; "cut" once the server has learnt that the client is gone;
\* "dead" while it has not (a half-open connection).
Unused == [alive |-> FALSE, phase |-> "unused", queue |-> <<>>,
           item |-> NoFrame, snap |-> State(0, 0), link |-> "up"]

\* The drain loop has returned and nothing refers to the queue any more.
Ended == [Unused EXCEPT !.phase = "ended"]

IdleEdit == [phase |-> "idle", list |-> 0]

Building(s) == subscribers[s].phase \in {"reading", "read"}

----------------------------------------------------------------------------
(* The hub and its queue.                                                  *)

\* remove: no longer a subscriber, queue closed.  A drain loop parked in
\* take() is handed CLOSED and returns; one awaiting a write notices later.
Removed(sub) ==
  IF sub.phase = "waiting" THEN Ended ELSE [sub EXCEPT !.alive = FALSE]

\* Mutant: the queue holds one frame more than its capacity.
PushedOffByOne(sub, frame) ==
  IF ~sub.alive THEN sub
  ELSE IF sub.phase = "waiting" THEN [sub EXCEPT !.phase = "writing", !.item = frame]
  ELSE IF Len(sub.queue) > Capacity THEN Removed(sub)
  ELSE [sub EXCEPT !.queue = Append(@, frame)]

\* Mutant: no fan-out until the snapshot is built.
PushedOnceServing(sub, frame) ==
  IF ~sub.alive \/ sub.phase \in {"reading", "read"} THEN sub
  ELSE IF sub.phase = "waiting" THEN [sub EXCEPT !.phase = "writing", !.item = frame]
  ELSE IF Len(sub.queue) >= Capacity THEN Removed(sub)
  ELSE [sub EXCEPT !.queue = Append(@, frame)]

\* Mutant: a full queue discards the frame and keeps the subscriber.
PushedOrDiscarded(sub, frame) ==
  IF ~sub.alive THEN sub
  ELSE IF sub.phase = "waiting" THEN [sub EXCEPT !.phase = "writing", !.item = frame]
  ELSE IF Len(sub.queue) >= Capacity THEN sub
  ELSE [sub EXCEPT !.queue = Append(@, frame)]

\* One subscriber's part of fanout: a parked drain loop takes the frame at
\* once, a full queue drops the subscriber, otherwise the frame is queued.
Pushed(sub, frame) ==
  IF ~sub.alive THEN sub
  ELSE IF sub.phase = "waiting" THEN [sub EXCEPT !.phase = "writing", !.item = frame]
  ELSE IF Len(sub.queue) >= Capacity THEN Removed(sub)
  ELSE [sub EXCEPT !.queue = Append(@, frame)]

Fanout(frame) ==
  subscribers' = [s \in Connections |-> Pushed(subscribers[s], frame)]

\* Mutant: a dropped subscriber still gets what was queued.
DrainedRegardless(sub) ==
  IF sub.queue # <<>>
  THEN [sub EXCEPT !.phase = "writing", !.item = Head(sub.queue), !.queue = Tail(@)]
  ELSE IF sub.alive THEN [sub EXCEPT !.phase = "waiting", !.item = NoFrame] ELSE Ended

\* Mutant: the loop parks without looking at the queue.
DrainedToPark(sub) ==
  IF sub.alive THEN [sub EXCEPT !.phase = "waiting", !.item = NoFrame] ELSE Ended

\* The head of the drain loop: stop if dropped, write the next frame if there
\* is one, park otherwise.
Drained(sub) ==
  IF ~sub.alive THEN Ended
  ELSE IF sub.queue # <<>>
  THEN [sub EXCEPT !.phase = "writing", !.item = Head(sub.queue), !.queue = Tail(@)]
  ELSE [sub EXCEPT !.phase = "waiting", !.item = NoFrame]

----------------------------------------------------------------------------
(* The producers.                                                          *)

\* settingsEventBus "auth.changed": the payload is broadcast as it changes.
AuthChanges ==
  /\ auth < MaxAuth
  /\ auth' = auth + 1
  /\ Fanout(Frame("auth", auth + 1, 0))
  /\ UNCHANGED <<registry, announced, edits, conn, view>>

\* accounts/switch and accounts/remove, inside runExclusive: the registry is
\* written, then read back for the list, then the list is broadcast.
EditWrites(m) ==
  /\ edits[m].phase = "idle"
  /\ registry < MaxEdits
  /\ registry' = registry + 1
  /\ edits' = [edits EXCEPT ![m].phase = "written"]
  /\ UNCHANGED <<auth, announced, subscribers, conn, view>>

EditLists(m) ==
  /\ edits[m].phase = "written"
  /\ edits' = [edits EXCEPT ![m] = [phase |-> "listed", list |-> registry]]
  /\ UNCHANGED <<auth, registry, announced, subscribers, conn, view>>

EditEmits(m) ==
  /\ edits[m].phase = "listed"
  /\ Fanout(Frame("accounts", 0, edits[m].list))
  /\ announced' = edits[m].list
  /\ edits' = [edits EXCEPT ![m] = IdleEdit]
  /\ UNCHANGED <<auth, registry, conn, view>>

\* buildAccountsList rejects after the write: the handler throws out of the
\* mutex, and the change is never broadcast.
EditListFails(m) ==
  /\ "list_fails" \in Mishaps
  /\ edits[m].phase = "written"
  /\ edits' = [edits EXCEPT ![m] = IdleEdit]
  /\ UNCHANGED <<auth, registry, announced, subscribers, conn, view>>

\* Sign-in, sign-out, the adoption of a gh login and the sweep of a degrade
\* write the registry outside any surface's mutex and broadcast no accounts.
SilentWrite ==
  /\ "silent_write" \in Mishaps
  /\ registry < MaxEdits
  /\ registry' = registry + 1
  /\ UNCHANGED <<auth, announced, edits, subscribers, conn, view>>

\* The heartbeat interval goes through the queues like any frame.
Heartbeat ==
  /\ Fanout(Keepalive)
  /\ UNCHANGED <<auth, registry, announced, edits, conn, view>>

----------------------------------------------------------------------------
(* A subscription.                                                         *)

\* The client's stream loop posts subscriptions/listen; the hub registers the
\* subscriber and starts the snapshot, whose auth status is read at once.
Connect(c) ==
  /\ conn[c] = 0
  /\ \E s \in Connections :
       /\ subscribers[s].phase = "unused"
       /\ \A t \in 1 .. s - 1 : subscribers[t].phase # "unused"
       /\ subscribers' = [subscribers EXCEPT
            ![s] = [Unused EXCEPT !.alive = TRUE, !.phase = "reading",
                                  !.snap = State(auth, 0)]]
       /\ conn' = [conn EXCEPT ![c] = s]
  /\ UNCHANGED <<auth, registry, announced, edits, view>>

\* buildAccountsList inside buildControlSnapshot's Promise.all.
SnapshotReads(s) ==
  /\ subscribers[s].phase = "reading"
  /\ subscribers' = [subscribers EXCEPT ![s].phase = "read",
                                        ![s].snap.accounts = registry]
  /\ UNCHANGED <<auth, registry, announced, edits, conn, view>>

\* Mutant: the snapshot is queued behind the deltas.
SnapshotAtTheBack(s) ==
  /\ subscribers[s].phase = "read"
  /\ LET sub  == subscribers[s]
         snap == Frame("snapshot", sub.snap.auth, sub.snap.accounts)
         done == [sub EXCEPT !.snap = State(0, 0)]
     IN subscribers' = [subscribers EXCEPT ![s] =
          Drained(IF sub.alive THEN [done EXCEPT !.queue = Append(@, snap)] ELSE done)]
  /\ UNCHANGED <<auth, registry, announced, edits, conn, view>>

\* The build resolves: the snapshot goes to the head of the queue (not of a
\* closed one) and the drain loop starts.
SnapshotReady(s) ==
  /\ subscribers[s].phase = "read"
  /\ LET sub  == subscribers[s]
         snap == Frame("snapshot", sub.snap.auth, sub.snap.accounts)
         done == [sub EXCEPT !.snap = State(0, 0)]
     IN subscribers' = [subscribers EXCEPT ![s] =
          Drained(IF sub.alive THEN [done EXCEPT !.queue = <<snap>> \o @] ELSE done)]
  /\ UNCHANGED <<auth, registry, announced, edits, conn, view>>

\* The build rejects: the subscriber is removed and the error ends the
\* response, which its client, if still there, sees as the end of the stream.
SnapshotFails(s) ==
  /\ Building(s)
  /\ subscribers' = [subscribers EXCEPT ![s] = Ended]
  /\ conn' = [c \in Clients |-> IF conn[c] = s THEN 0 ELSE conn[c]]
  /\ UNCHANGED <<auth, registry, announced, edits, view>>

\* applyFrame: a snapshot replaces the client's state, a topic overwrites its
\* own key, a keepalive comment is skipped.
Applied(state, frame) ==
  CASE frame.topic = "snapshot" -> State(frame.auth, frame.accounts)
    [] frame.topic = "auth"     -> [state EXCEPT !.auth = frame.auth]
    [] frame.topic = "accounts" -> [state EXCEPT !.accounts = frame.accounts]
    [] OTHER                    -> state

\* sink.write resolves because the client has taken the frame.
WriteFlushes(c) ==
  /\ conn[c] # 0
  /\ LET s == conn[c] IN
       /\ subscribers[s].phase = "writing"
       /\ view' = [view EXCEPT ![c] = Applied(@, subscribers[s].item)]
       /\ subscribers' = [subscribers EXCEPT ![s] = Drained(@)]
  /\ UNCHANGED <<auth, registry, announced, edits, conn>>

\* The client has gone and the server knows: StreamingApi.write swallows the
\* error and resolves, so the frame is lost and the drain loop goes on.
WriteLost(s) ==
  /\ subscribers[s].phase = "writing"
  /\ subscribers[s].link = "cut"
  /\ subscribers' = [subscribers EXCEPT ![s] = Drained(@)]
  /\ UNCHANGED <<auth, registry, announced, edits, conn, view>>

\* The response is aborted.  The abort handler that unsubscribes is only
\* installed once subscribe has returned: an abort during the build finds no
\* handler, and the subscriber stays.
Aborted(sub) ==
  LET cut == [sub EXCEPT !.link = "cut"]
  IN IF sub.phase \in {"reading", "read"} THEN cut ELSE Removed(cut)

\* The client closes its connection.
Disconnect(c) ==
  /\ conn[c] # 0
  /\ subscribers' = [subscribers EXCEPT ![conn[c]] = Aborted(@)]
  /\ conn' = [conn EXCEPT ![c] = 0]
  /\ UNCHANGED <<auth, registry, announced, edits, view>>

\* The client is gone without a word: from now on writes to it stay pending.
Vanishes(c) ==
  /\ conn[c] # 0
  /\ subscribers' = [subscribers EXCEPT ![conn[c]].link = "dead"]
  /\ conn' = [conn EXCEPT ![c] = 0]
  /\ UNCHANGED <<auth, registry, announced, edits, view>>

\* The operating system gives a half-open connection up, if it ever does.
TimesOut(s) ==
  /\ subscribers[s].link = "dead"
  /\ subscribers' = [subscribers EXCEPT ![s] = Aborted(@)]
  /\ UNCHANGED <<auth, registry, announced, edits, conn, view>>

----------------------------------------------------------------------------
Init ==
  /\ auth = 0
  /\ registry = 0
  /\ announced = 0
  /\ edits = [m \in Surfaces |-> IdleEdit]
  /\ subscribers = [s \in Connections |-> Unused]
  /\ conn = [c \in Clients |-> 0]
  /\ view = [c \in Clients |-> State(0, 0)]

EditStep(m) ==
  EditWrites(m) \/ EditLists(m) \/ EditEmits(m) \/ EditListFails(m)

ConnectionStep(s) ==
  \/ SnapshotReads(s) \/ SnapshotReady(s) \/ SnapshotFails(s)
  \/ WriteLost(s) \/ TimesOut(s)

ClientStep(c) == Connect(c) \/ WriteFlushes(c) \/ Disconnect(c) \/ Vanishes(c)

Next ==
  \/ AuthChanges
  \/ Heartbeat
  \/ SilentWrite
  \/ \E m \in Surfaces : EditStep(m)
  \/ \E s \in Connections : ConnectionStep(s)
  \/ \E c \in Clients : ClientStep(c)

\* The event loop runs every timer and every settled promise; file reads and
\* writes settle, and so does a write to a connection known to be cut; a
\* client that is still there reads its stream and redials when it ends.
\* Clients need not leave, a half-open connection need not time out, and
\* nothing needs to change.
Fairness ==
  /\ WF_vars(Heartbeat)
  /\ \A m \in Surfaces : WF_vars(EditLists(m)) /\ WF_vars(EditEmits(m))
  /\ \A s \in Connections : WF_vars(SnapshotReads(s)) /\ WF_vars(SnapshotReady(s))
                               /\ WF_vars(WriteLost(s))
  /\ \A c \in Clients : WF_vars(Connect(c)) /\ WF_vars(WriteFlushes(c))

Spec == Init /\ [][Next]_vars /\ Fairness

----------------------------------------------------------------------------
(* Properties.                                                             *)

StateType == [auth : Nat, accounts : Nat]
FrameType == [topic : {"none", "keepalive", "snapshot", "auth", "accounts"},
              auth : Nat, accounts : Nat]

SubscriberType ==
  [alive : BOOLEAN,
   phase : {"unused", "reading", "read", "waiting", "writing", "ended"},
   queue : Seq(FrameType), item : FrameType, snap : StateType,
   link : {"up", "cut", "dead"}]

\* Types of all the feed's state, with the bound the queue promises: the
\* snapshot that is pushed in front regardless of the capacity (queue.ts
\* pushFront) never leaves a queue longer than the capacity, because the
\* drain loop that starts in the same step takes it out again.
TypeOK ==
  /\ auth \in 0 .. MaxAuth
  /\ registry \in 0 .. MaxEdits
  /\ announced \in 0 .. MaxEdits
  /\ edits \in [Surfaces -> [phase : {"idle", "written", "listed"}, list : Nat]]
  /\ conn \in [Clients -> 0 .. MaxConnections]
  /\ view \in [Clients -> StateType]
  /\ subscribers \in [Connections -> SubscriberType]
  /\ \A s \in Connections : Len(subscribers[s].queue) <= Capacity

Carries(frame, field) == frame.topic \in {field, "snapshot"}

\* A reader that starts from `state` and is then given `frames` in order ends
\* with `value` for `field`: the last frame that carries the field decides.
EndsWith(field, value, state, frames) ==
  \/ /\ state[field] = value
     /\ \A i \in 1 .. Len(frames) : ~Carries(frames[i], field)
  \/ \E i \in 1 .. Len(frames) :
       /\ Carries(frames[i], field) /\ frames[i][field] = value
       /\ \A j \in i + 1 .. Len(frames) : ~Carries(frames[j], field)

\* What the hub still owes the client of a subscriber past its snapshot
\* build: the frame being written, then the queue.
Owed(sub) ==
  IF sub.phase = "writing" THEN <<sub.item>> \o sub.queue ELSE sub.queue

\* The auth status `c` will show once it has received everything its live
\* subscription has for it is the current one, whatever changed before,
\* during and after the snapshot build: no change falls between the snapshot
\* and the first delta, and none is lost or reordered in the queue
\* (hub.ts subscribe: "registers it for fan-out synchronously, so no frame is
\* missed during the snapshot build").
AuthNeverMissed ==
  \A c \in Clients : (conn[c] # 0 /\ subscribers[conn[c]].alive) =>
    IF Building(conn[c])
    THEN EndsWith("auth", auth, subscribers[conn[c]].snap, subscribers[conn[c]].queue)
    ELSE EndsWith("auth", auth, view[c], Owed(subscribers[conn[c]]))

\* The list `c` will show once it has received everything its live
\* subscription has for it is the one on disk.  Nothing is claimed while the
\* snapshot has yet to read the list itself.
AccountsCurrent(c) ==
  (conn[c] # 0 /\ subscribers[conn[c]].alive /\ subscribers[conn[c]].phase # "reading") =>
    IF Building(conn[c])
    THEN EndsWith("accounts", registry, subscribers[conn[c]].snap,
                  subscribers[conn[c]].queue)
    ELSE EndsWith("accounts", registry, view[c], Owed(subscribers[conn[c]]))

\* Whoever writes the accounts file, and in whatever order the lists of
\* overlapping edits are broadcast: once the list broadcast last is the one on
\* disk, every live subscription has shown it, still owes it, or carries it in
\* its snapshot; one that was building its snapshot while the list was
\* written, read and broadcast is no exception (hub.ts subscribe, resources.ts
\* buildControlSnapshot).
AccountsNeverMissed ==
  announced = registry => \A c \in Clients : AccountsCurrent(c)

\* What mutex.ts promises of edits that two surfaces make at once: "Broadcast
\* order converges regardless (each read-after-write)".  Whenever no edit is
\* under way, every live subscription ends at the list that is on disk.
BroadcastsConverge ==
  (\A m \in Surfaces : edits[m] = IdleEdit) =>
    \A c \in Clients : AccountsCurrent(c)

\* What is left of the subscription a client reads, as Feed sees it, and the auth status it
\* starts from: the snapshot's until the client has taken that, then what the client shows.
Reader(c) ==
  LET s == conn[c]
      sub == subscribers[s]
      from == CASE Building(s) -> sub.snap.auth
                [] sub.phase = "writing" /\ sub.item.topic = "snapshot" -> sub.item.auth
                [] OTHER -> view[c].auth
  IN IF s = 0 \/ (~sub.alive /\ sub.phase # "writing") THEN [left |-> "none", from |-> 0]
     ELSE [left |-> IF sub.alive THEN "all" ELSE "one", from |-> from]

StatusFeed == INSTANCE Feed WITH
  value  <- auth,
  shown  <- [c \in Clients |-> view[c].auth],
  reader <- [c \in Clients |-> Reader(c)]

\* What clients are shown of the auth status is a behaviour of Feed: it never goes back,
\* from one subscription to the next either, though deltas are queued before the snapshot
\* they follow is built (hub.ts subscribe); what a subscription shows first is no older
\* than the subscription; and a client dropped as too slow is shown no more than the frame
\* whose write was under way (hub.ts remove).
ImplementsFeed == StatusFeed!Spec

\* A dropped subscriber is sent nothing more: beyond the frame whose write was
\* already under way, no frame of its queue goes out after remove, although a
\* closed queue still holds them (hub.ts drain tests `alive` before take).
DroppedStaysSilent ==
  [][\A s \in Connections :
       (~subscribers[s].alive /\ subscribers[s].phase # "unused") =>
         subscribers'[s].item \in {subscribers[s].item, NoFrame}]_vars

\* A client that vanishes without closing its connection does not keep its
\* subscriber in the hub for ever, not even one that vanishes during the
\* snapshot build: writes to it hang, and keepalives fill the queue until it
\* overflows (hub.ts HEARTBEAT_FRAME), unless the connection is given up first.
GoneIsReaped ==
  \A s \in Connections :
    (subscribers[s].alive /\ subscribers[s].link = "dead")
      ~> (~subscribers[s].alive \/ subscribers[s].link = "cut")

\* What hub.ts says of its drain loop's failing write: "this is the detector
\* for connections onAbort never fires for".  A subscriber whose connection is
\* known to be cut comes to be removed.
AbandonedIsReaped ==
  \A s \in Connections :
    (subscribers[s].alive /\ subscribers[s].link = "cut") ~> ~subscribers[s].alive

\* A client that from some time on keeps one subscription, never dropped as too
\* slow, comes to show the server's auth status for good.
FollowsTheServer ==
  \A c \in Clients :
    <>[](conn[c] # 0 /\ subscribers[conn[c]].alive)
      => <>[](view[c].auth = auth)
=============================================================================
