------------------------- MODULE AccountStoreProofs -------------------------
(***************************************************************************)
(* Theorems about AccountStore, for any set of keys and any number of      *)
(* overlapping handlers.                                                   *)
(***************************************************************************)
EXTENDS AccountStore, TLAPS

\* Every registry that may reach the disk later is well formed, not only the one
\* that is there: the one in the temporary file and the ones helpers have computed.
ImagesWellFormed ==
    /\ WellFormed(ReadRegistry(disk))
    /\ WellFormed(ReadRegistry(tmp))
    /\ \A h \in Handlers : WellFormed(image[h])

\* A suspended helper has an operation.
BusyHasOp == \A h \in Handlers : pc[h] # "idle" => op[h] \in Op

IInv == TypeOK /\ ImagesWellFormed /\ BusyHasOp

-----------------------------------------------------------------------------
(* The pure operators *)

LEMMA ReadWellTyped ==
    ASSUME NEW file \in Contents
    PROVE  ReadRegistry(file) \in Registry
  BY DEF ReadRegistry, Contents, EmptyRegistry, Registry

LEMMA FileCases ==
    /\ ReadRegistry(NoFile) = EmptyRegistry
    /\ ReadRegistry(Unreadable) = EmptyRegistry
    /\ EmptyRegistry \in Registry
    /\ WellFormed(EmptyRegistry)
  BY DEF ReadRegistry, EmptyRegistry, Registry, WellFormed

\* What a helper computes from a well-formed registry is well formed: the pure
\* functions keep activeKey and the flags among the records.
LEMMA ApplyKeepsWellFormed ==
    ASSUME NEW o \in Op, NEW r \in Registry, WellFormed(r)
    PROVE  Apply(o, r) \in Registry /\ WellFormed(Apply(o, r))
<1>1. CASE o.kind = "add"
  BY <1>1, KeysAssumption DEF Apply, AddAndActivate, Registry, WellFormed, Op,
         KeyedKinds, ActiveKinds
<1>2. CASE o.kind = "migrate"
  BY <1>2, KeysAssumption DEF Apply, AddAndActivate, EmptyRegistry, Registry,
         WellFormed, Op, KeyedKinds, ActiveKinds
<1>3. CASE o.kind = "remove"
  BY <1>3 DEF Apply, RemoveAccount, Registry, WellFormed
<1>4. CASE o.kind = "signOut"
  BY <1>4 DEF Apply, Deactivate, Registry, WellFormed
<1>5. CASE o.kind = "markActive"
  BY <1>5 DEF Apply, MarkNeedsReauth, Registry, WellFormed
<1>6. CASE o.kind = "mark"
  BY <1>6 DEF Apply, MarkNeedsReauth, Registry, WellFormed
<1>7. CASE o.kind = "clearActive"
  BY <1>7 DEF Apply, ClearNeedsReauth, Registry, WellFormed
<1>8. CASE o.kind = "activate"
  <2>1. SetActive(r, o.key) \in Registry /\ WellFormed(SetActive(r, o.key))
    BY DEF SetActive, Registry, WellFormed
  <2> QED
    BY <1>8, <2>1 DEF Apply, ClearNeedsReauth, Registry, WellFormed
<1> QED
  BY <1>1, <1>2, <1>3, <1>4, <1>5, <1>6, <1>7, <1>8
     DEF Op, KeyedKinds, ActiveKinds

-----------------------------------------------------------------------------
LEMMA InitIInv == Init => IInv
  BY FileCases, KeysAssumption
     DEF Init, IInv, TypeOK, ImagesWellFormed, BusyHasOp, Contents, Locals

LEMMA NextIInv == IInv /\ [Next]_vars => IInv'
<1> SUFFICES ASSUME IInv, [Next]_vars PROVE IInv'
  OBVIOUS
<1> USE DEF IInv, TypeOK, ImagesWellFormed, BusyHasOp, fileVars
<1>0. \A o \in Op : AfterWrite(o) \in {"idle", "unlink"}
  BY DEF AfterWrite
<1>1. CASE Serve
  BY <1>1 DEF Serve
<1>2. CASE Crash
  BY <1>2, FileCases DEF Crash, Contents, Locals
<1>3. ASSUME NEW h \in Handlers, StartRequest(h) PROVE IInv'
  <2>1. PICK o \in Op : Begin(h, o)
    <3>1. ReadRegistry(disk).known \subseteq Keys
      BY ReadWellTyped DEF Registry
    <3> QED
      BY <1>3, <3>1 DEF StartRequest, Op, KeyedKinds, ActiveKinds
  <2> QED
    BY <1>3, <2>1 DEF StartRequest, Begin, Locals
<1>4. ASSUME NEW h \in Handlers, StartMigration(h) PROVE IInv'
  <2>1. PICK o \in Op : Begin(h, o)
    BY <1>4 DEF StartMigration, Op, KeyedKinds
  <2> QED
    BY <1>4, <2>1 DEF StartMigration, Begin, Locals
<1>5. ASSUME NEW h \in Handlers, Read(h) PROVE IInv'
  <2>1. op[h] \in Op
    BY <1>5 DEF Read
  <2>2. /\ Apply(op[h], ReadRegistry(disk)) \in Registry
        /\ WellFormed(Apply(op[h], ReadRegistry(disk)))
    BY <2>1, ReadWellTyped, ApplyKeepsWellFormed
  <2>3. CASE Writes(op[h], ReadRegistry(disk))
    BY <1>5, <2>1, <2>2, <2>3 DEF Read
  <2>4. CASE ~Writes(op[h], ReadRegistry(disk))
    BY <1>0, <1>5, <2>1, <2>4, FileCases DEF Read, Finish, Locals
  <2> QED
    BY <2>3, <2>4
<1>6. ASSUME NEW h \in Handlers, OpenTemp(h) PROVE IInv'
  BY <1>6, FileCases DEF OpenTemp, Contents
<1>7. ASSUME NEW h \in Handlers, Fill(h) PROVE IInv'
  <2>1. image[h] \in Registry /\ WellFormed(ReadRegistry(image[h]))
    BY FileCases DEF ReadRegistry
  <2> QED
    BY <1>7, <2>1, FileCases DEF Fill, Contents
<1>8. ASSUME NEW h \in Handlers, Rename(h) PROVE IInv'
  <2>1. Relinked \in [Handlers -> {"closed", "tmp", "disk", "unlinked"}]
    BY DEF Relinked
  <2>2. op[h] \in Op
    BY <1>8 DEF Rename
  <2> QED
    BY <1>0, <1>8, <2>1, <2>2, FileCases DEF Rename, Finish, Contents, Locals
<1>9. ASSUME NEW h \in Handlers, RenameMissing(h) PROVE IInv'
  <2>1. op[h] \in Op
    BY <1>9 DEF RenameMissing
  <2> QED
    BY <1>0, <1>9, <2>1, FileCases DEF RenameMissing, Finish, Locals
<1>10. ASSUME NEW h \in Handlers, UnlinkLegacy(h) PROVE IInv'
  BY <1>10 DEF UnlinkLegacy, Locals
<1>11. CASE UNCHANGED vars
  BY <1>11 DEF vars
<1> QED
  BY <1>1, <1>2, <1>3, <1>4, <1>5, <1>6, <1>7, <1>8, <1>9, <1>10, <1>11
     DEF Next, Step

\* The registry model is well typed in every reachable state.
THEOREM TypeCorrect == Spec => []TypeOK
<1>1. IInv => TypeOK
  BY DEF IInv
<1> QED
  BY InitIInv, NextIInv, <1>1, PTL DEF Spec

\* No interleaving of any number of helpers, no lost rename, torn file or crash
\* makes a reader see an active key without a record or a flag without an account.
THEOREM NeverDangling == Spec => []NoDanglingActive
<1>1. IInv => NoDanglingActive
  BY DEF IInv, ImagesWellFormed, NoDanglingActive
<1> QED
  BY InitIInv, NextIInv, <1>1, PTL DEF Spec

-----------------------------------------------------------------------------
(* Helpers that do not overlap *)

LEMMA MarksAreNoRegistries ==
    /\ Unreadable \notin Registry /\ NoFile \notin Registry
    /\ NoFile # Unreadable
<1>1. \A r \in Registry : DOMAIN r = {"active", "known", "flagged"}
  BY DEF Registry
<1>2. "torn" \in DOMAIN Unreadable /\ "absent" \in DOMAIN NoFile
  BY DEF Unreadable, NoFile
<1>3. "torn" \notin DOMAIN NoFile
  BY DEF NoFile
<1> QED
  BY <1>1, <1>2, <1>3

\* The handler that is running owns the temporary file and, from the moment it
\* has computed, still sees the registry it computed from.
OwnsTheWrite(h) ==
    /\ pc[h] = "fill" => tmp = Unreadable
    /\ pc[h] = "rename" => tmp = image[h]
    /\ pc[h] \in {"open", "fill", "rename"} =>
          /\ image[h] = Apply(op[h], ReadRegistry(disk))
          /\ Writes(op[h], ReadRegistry(disk))
    /\ pc[h] = "unlink" => ReadRegistry(disk).active = None

\* Without the overlaps one handler at most is busy, descriptors are open on the
\* temporary file only, and a file that is there can be read.
SerialInv ==
    /\ phase = "booting" => Quiet
    /\ serialised =>
          /\ \A g, h \in Handlers : pc[g] # "idle" /\ pc[h] # "idle" => g = h
          /\ \A h \in Handlers : fd[h] = IF pc[h] = "fill" THEN "tmp" ELSE "closed"
          /\ disk # Unreadable
          /\ \A h \in Handlers : OwnsTheWrite(h)

LEMMA InitSerialInv == Init => SerialInv
  BY MarksAreNoRegistries DEF Init, SerialInv, OwnsTheWrite, Quiet, Idle

\* What one handler's step must establish: everyone else was idle and still is.
LEMMA LoneStep ==
    ASSUME IInv, SerialInv, NEW h \in Handlers, serialised' = serialised,
           phase' = "booting" => Quiet',
           pc[h] # "idle" \/ Quiet,
           \A g \in Handlers \ {h} : pc'[g] = pc[g],
           serialised => /\ \A g \in Handlers \ {h} : fd'[g] = fd[g]
                         /\ fd'[h] = IF pc'[h] = "fill" THEN "tmp" ELSE "closed"
                         /\ disk' # Unreadable
                         /\ OwnsTheWrite(h)'
    PROVE  SerialInv'
<1>1. SUFFICES ASSUME serialised
               PROVE  /\ \A f, g \in Handlers : pc'[f] # "idle" /\ pc'[g] # "idle" => f = g
                      /\ \A g \in Handlers : fd'[g] = IF pc'[g] = "fill" THEN "tmp" ELSE "closed"
                      /\ \A g \in Handlers : OwnsTheWrite(g)'
  BY DEF SerialInv
<1>2. \A g \in Handlers \ {h} : pc[g] = "idle" /\ pc'[g] = "idle"
  BY <1>1 DEF SerialInv, Quiet, Idle
<1>3. \A f, g \in Handlers : pc'[f] # "idle" /\ pc'[g] # "idle" => f = g
  BY <1>2
<1>4. \A g \in Handlers : fd'[g] = IF pc'[g] = "fill" THEN "tmp" ELSE "closed"
  BY <1>1, <1>2 DEF SerialInv
<1>5. ASSUME NEW g \in Handlers PROVE OwnsTheWrite(g)'
  <2>1. CASE g = h
    BY <1>1, <2>1
  <2>2. CASE g # h
    BY <1>2, <2>2 DEF OwnsTheWrite
  <2> QED
    BY <2>1, <2>2
<1> QED
  BY <1>3, <1>4, <1>5

LEMMA NextSerialInv == IInv /\ SerialInv /\ [Next]_vars => SerialInv'
<1> SUFFICES ASSUME IInv, SerialInv, [Next]_vars PROVE SerialInv'
  OBVIOUS
<1>0. /\ pc \in [Handlers -> {"idle", "read", "open", "fill", "rename", "unlink"}]
      /\ op \in [Handlers -> Locals] /\ image \in [Handlers -> Registry]
      /\ fd \in [Handlers -> {"closed", "tmp", "disk", "unlinked"}]
      /\ serialised \in BOOLEAN /\ disk \in Contents
  BY DEF IInv, TypeOK
<1>a. \A h \in Handlers : pc[h] # "idle" => phase # "booting"
  BY DEF SerialInv, Quiet, Idle
<1>b. serialised => /\ disk # Unreadable
                    /\ \A h \in Handlers :
                          /\ fd[h] = IF pc[h] = "fill" THEN "tmp" ELSE "closed"
                          /\ OwnsTheWrite(h)
  BY DEF SerialInv
<1>1. CASE Serve
  BY <1>1 DEF Serve, SerialInv, OwnsTheWrite, fileVars, Quiet, Idle
<1>2. CASE Crash
  BY <1>2 DEF Crash, SerialInv, OwnsTheWrite, Quiet, Idle
<1>3. ASSUME NEW h \in Handlers, NEW o, Begin(h, o), phase' # "booting",
             serialised => Quiet
      PROVE  SerialInv'
  <2>1. serialised' = serialised /\ fd' = fd /\ disk' = disk
    BY <1>3 DEF Begin, fileVars
  <2>2. pc'[h] = "read" /\ \A g \in Handlers \ {h} : pc'[g] = pc[g]
    BY <1>0, <1>3 DEF Begin
  <2>3. serialised => pc[h] = "idle"
    BY <1>3 DEF Begin, Idle
  <2>4. OwnsTheWrite(h)'
    BY <2>2 DEF OwnsTheWrite
  <2>5. CASE serialised
    BY <1>3, <1>b, <2>1, <2>2, <2>3, <2>4, <2>5, LoneStep
  <2>6. CASE ~serialised
    BY <1>3, <2>1, <2>6 DEF SerialInv
  <2> QED
    BY <1>0, <2>5, <2>6
<1>4. ASSUME NEW h \in Handlers, StartRequest(h) PROVE SerialInv'
  <2>1. PICK o : Begin(h, o)
    BY <1>4 DEF StartRequest
  <2> QED
    BY <1>3, <1>4, <2>1 DEF StartRequest
<1>5. ASSUME NEW h \in Handlers, StartMigration(h) PROVE SerialInv'
  <2>1. PICK o : Begin(h, o)
    BY <1>5 DEF StartMigration
  <2> QED
    BY <1>3, <1>5, <2>1 DEF StartMigration, SerialInv
<1>6. ASSUME NEW h \in Handlers, Read(h) PROVE SerialInv'
  <2> DEFINE r == ReadRegistry(disk)
  <2>1. pc[h] = "read" /\ UNCHANGED <<disk, tmp, fd, phase, serialised>>
    BY <1>6 DEF Read, Finish
  <2>2. \A g \in Handlers \ {h} : pc'[g] = pc[g]
    BY <1>0, <1>6 DEF Read, Finish
  <2>3. pc'[h] # "fill" /\ pc'[h] # "rename"
    BY <1>0, <1>6 DEF Read, Finish, AfterWrite
  <2>4. OwnsTheWrite(h)'
    <3>1. CASE Writes(op[h], r)
      <4>1. pc'[h] = "open" /\ image'[h] = Apply(op[h], r) /\ op' = op /\ legacy' = legacy
        BY <1>0, <1>6, <3>1 DEF Read
      <4>2. Writes(op[h], r)'
        BY <2>1, <3>1, <4>1 DEF Writes, ReadRegistry
      <4>3. ReadRegistry(disk') = ReadRegistry(disk)
        BY <2>1
      <4> QED
        BY <2>1, <4>1, <4>2, <4>3 DEF OwnsTheWrite
    <3>2. CASE ~Writes(op[h], r)
      <4>1. pc'[h] = AfterWrite(op[h])
        BY <1>0, <1>6, <3>2 DEF Read, Finish
      <4>2. AfterWrite(op[h]) = "unlink" => r.active = None
        BY <3>2 DEF AfterWrite, Writes
      <4>3. ReadRegistry(disk') = ReadRegistry(disk)
        BY <2>1
      <4> QED
        BY <4>1, <4>2, <4>3 DEF OwnsTheWrite, AfterWrite
    <3> QED
      BY <3>1, <3>2
  <2> QED
    BY <1>a, <1>b, <2>1, <2>2, <2>3, <2>4, LoneStep
<1>7. ASSUME NEW h \in Handlers, OpenTemp(h) PROVE SerialInv'
  <2>1. /\ pc[h] = "open" /\ tmp' = Unreadable
        /\ UNCHANGED <<disk, legacy, op, image, phase, serialised>>
    BY <1>7 DEF OpenTemp
  <2>2. /\ pc'[h] = "fill" /\ fd'[h] = "tmp"
        /\ \A g \in Handlers \ {h} : pc'[g] = pc[g] /\ fd'[g] = fd[g]
    BY <1>0, <1>7 DEF OpenTemp
  <2>3. serialised => OwnsTheWrite(h)'
    BY <1>b, <2>1, <2>2 DEF OwnsTheWrite, Writes
  <2> QED
    BY <1>a, <1>b, <2>1, <2>2, <2>3, LoneStep
<1>8. ASSUME NEW h \in Handlers, Fill(h) PROVE SerialInv'
  <2>1. pc[h] = "fill" /\ UNCHANGED <<legacy, op, image, phase, serialised>>
    BY <1>8 DEF Fill
  <2>2. /\ pc'[h] = "rename" /\ fd'[h] = "closed"
        /\ \A g \in Handlers \ {h} : pc'[g] = pc[g] /\ fd'[g] = fd[g]
    BY <1>0, <1>8 DEF Fill
  <2>3. serialised => tmp' = image[h] /\ disk' = disk
    <3>1. serialised => tmp = Unreadable /\ fd[h] = "tmp"
      BY <1>b, <2>1 DEF OwnsTheWrite
    <3> QED
      BY <1>8, <3>1, MarksAreNoRegistries DEF Fill
  <2>4. serialised => OwnsTheWrite(h)'
    BY <1>b, <2>1, <2>2, <2>3 DEF OwnsTheWrite, Writes
  <2> QED
    BY <1>a, <1>b, <2>1, <2>2, <2>3, <2>4, LoneStep
<1>9. ASSUME NEW h \in Handlers, Rename(h) PROVE SerialInv'
  <2>1. pc[h] = "rename" /\ disk' = tmp /\ UNCHANGED <<phase, serialised>>
    BY <1>9 DEF Rename, Finish
  <2>2. /\ pc'[h] = AfterWrite(op[h])
        /\ \A g \in Handlers \ {h} : pc'[g] = pc[g]
    BY <1>0, <1>9 DEF Rename, Finish
  <2>3. AfterWrite(op[h]) \in {"idle", "unlink"}
    BY DEF AfterWrite
  <2>4. serialised => disk' = Apply(op[h], ReadRegistry(disk)) /\ disk' \in Registry
    BY <1>0, <1>b, <2>1 DEF OwnsTheWrite
  <2>5. serialised => disk' # Unreadable /\ ReadRegistry(disk') = disk'
    BY <2>4, MarksAreNoRegistries DEF ReadRegistry
  <2>6. serialised /\ AfterWrite(op[h]) = "unlink" => ReadRegistry(disk').active = None
    <3>1. ReadRegistry(disk) \in Registry
      BY <1>0, ReadWellTyped
    <3> QED
      BY <2>4, <2>5, <3>1 DEF AfterWrite, Apply, Deactivate, Registry
  <2>7. serialised => \A g \in Handlers : fd'[g] = "closed" /\ fd[g] \in {"closed", "tmp"}
    <3>1. serialised => \A g \in Handlers : pc[g] # "fill"
      BY <2>1 DEF SerialInv
    <3>2. serialised => \A g \in Handlers : fd[g] = "closed"
      BY <1>b, <3>1
    <3> QED
      BY <1>9, <3>2 DEF Rename, Relinked
  <2>8. serialised => \A g \in Handlers : fd[g] = "closed"
    BY <1>b, <2>1 DEF SerialInv
  <2>9. serialised => OwnsTheWrite(h)'
    BY <2>2, <2>3, <2>6 DEF OwnsTheWrite
  <2> QED
    BY <1>a, <2>1, <2>2, <2>3, <2>5, <2>7, <2>8, <2>9, LoneStep
<1>10. ASSUME NEW h \in Handlers, RenameMissing(h) PROVE SerialInv'
  <2>1. ~serialised
    <3>1. pc[h] = "rename" /\ tmp = NoFile
      BY <1>10 DEF RenameMissing
    <3>2. image[h] \in Registry
      BY <1>0
    <3> QED
      BY <1>b, <3>1, <3>2, MarksAreNoRegistries DEF OwnsTheWrite
  <2>2. pc[h] = "rename" /\ UNCHANGED <<phase, serialised>>
    BY <1>10 DEF RenameMissing, Finish
  <2> QED
    BY <1>a, <2>1, <2>2 DEF SerialInv
<1>11. ASSUME NEW h \in Handlers, UnlinkLegacy(h) PROVE SerialInv'
  <2>1. pc[h] = "unlink" /\ UNCHANGED <<disk, tmp, image, fd, phase, serialised>>
    BY <1>11 DEF UnlinkLegacy
  <2>2. pc'[h] = "idle" /\ \A g \in Handlers \ {h} : pc'[g] = pc[g]
    BY <1>0, <1>11 DEF UnlinkLegacy
  <2>3. OwnsTheWrite(h)'
    BY <2>2 DEF OwnsTheWrite
  <2> QED
    BY <1>a, <1>b, <2>1, <2>2, <2>3, LoneStep
<1>12. CASE UNCHANGED vars
  BY <1>12 DEF vars, SerialInv, OwnsTheWrite, Quiet, Idle, Writes, ReadRegistry
<1> QED
  BY <1>1, <1>2, <1>4, <1>5, <1>6, <1>7, <1>8, <1>9, <1>10, <1>11, <1>12
     DEF Next, Step

\* Temporary file and rename keep their promise: without overlaps no reader and no
\* boot after a crash, at whatever point, finds a registry it cannot parse.
THEOREM NeverTorn == Spec => []SerialisedNeverTorn
<1>1. SerialInv => SerialisedNeverTorn
  BY DEF SerialInv, SerialisedNeverTorn
<1> QED
  BY InitIInv, NextIInv, InitSerialInv, NextSerialInv, <1>1, PTL DEF Spec
-----------------------------------------------------------------------------
(* What a completed write changes *)

\* A helper that had something to write drops no account but the one it forgets,
\* and no flag but the one its own account has earned.
LEMMA ApplyKeepsOthers ==
    ASSUME NEW o \in Op, NEW r \in Registry, WellFormed(r), Writes(o, r)
    PROVE  /\ \A k \in r.known \ Apply(o, r).known : o = [kind |-> "remove", key |-> k]
           /\ \A k \in r.flagged \ Apply(o, r).flagged :
                 \/ k \notin Apply(o, r).known
                 \/ o.kind \in {"add", "activate"} /\ o.key = k
                 \/ o.kind = "clearActive" /\ r.active = k
<1>1. CASE o.kind = "add"
  BY <1>1 DEF Apply, AddAndActivate
<1>2. CASE o.kind = "migrate"
  <2>1. r.known = {} /\ r.flagged = {}
    BY <1>2 DEF Writes, WellFormed, Registry
  <2> QED
    BY <2>1
<1>3. CASE o.kind = "remove"
  <2>1. o = [kind |-> "remove", key |-> o.key]
    BY <1>3 DEF Op, KeyedKinds, ActiveKinds
  <2>2. /\ r.known \ Apply(o, r).known \subseteq {o.key}
        /\ Apply(o, r).known = r.known \ {o.key}
        /\ r.flagged \ Apply(o, r).flagged \subseteq {o.key}
    BY <1>3 DEF Apply, RemoveAccount
  <2> QED
    BY <2>1, <2>2
<1>4. CASE o.kind = "signOut"
  BY <1>4 DEF Apply, Deactivate, Registry
<1>5. CASE o.kind = "markActive"
  BY <1>5 DEF Apply, MarkNeedsReauth, Registry
<1>6. CASE o.kind = "mark"
  BY <1>6 DEF Apply, MarkNeedsReauth, Registry
<1>7. CASE o.kind = "clearActive"
  BY <1>7 DEF Apply, ClearNeedsReauth, Registry
<1>8. CASE o.kind = "activate"
  <2>1. SetActive(r, o.key).known = r.known /\ SetActive(r, o.key).flagged = r.flagged
    BY DEF SetActive, Registry
  <2>2. SetActive(r, o.key) \in Registry
    BY DEF SetActive, Registry
  <2> QED
    BY <1>8, <2>1, <2>2 DEF Apply, ClearNeedsReauth, Registry
<1> QED
  BY <1>1, <1>2, <1>3, <1>4, <1>5, <1>6, <1>7, <1>8
     DEF Op, KeyedKinds, ActiveKinds

\* A sign-in makes its account the active one, a switch does when it has a record.
LEMMA ApplyActivates ==
    ASSUME NEW o \in Op, NEW r \in Registry, WellFormed(r),
           \/ o.kind = "add"
           \/ o.kind = "activate" /\ o.key \in Apply(o, r).known
    PROVE  ActiveKey(Apply(o, r)) = o.key /\ o.key # None
<1>1. o.key # None
  BY KeysAssumption DEF Op, KeyedKinds, ActiveKinds
<1>2. CASE o.kind = "add"
  BY <1>1, <1>2 DEF Apply, AddAndActivate, ActiveKey
<1>3. CASE o.kind = "activate" /\ o.key \in Apply(o, r).known
  <2>1. SetActive(r, o.key) \in Registry /\ SetActive(r, o.key).known = r.known
    BY DEF SetActive, Registry
  <2>2. Apply(o, r) = [SetActive(r, o.key) EXCEPT !.flagged = @ \ {o.key}]
    BY <1>3 DEF Apply, ClearNeedsReauth
  <2>3. o.key \in r.known
    BY <1>3, <2>1, <2>2 DEF Registry
  <2>4. Apply(o, r).active = o.key
    BY <2>1, <2>2, <2>3 DEF SetActive, Registry
  <2> QED
    BY <1>1, <1>3, <2>4 DEF ActiveKey
<1> QED
  BY <1>2, <1>3

\* Without overlaps the file changes in one step only, the rename, which makes it
\* what its helper computed from the registry that is there.
LEMMA SerialDiskChange ==
    ASSUME IInv, SerialInv, [Next]_vars, serialised
    PROVE  \/ disk' = disk
           \/ \E h \in Handlers : Rename(h)
<1>1. ASSUME NEW h \in Handlers, Fill(h) PROVE disk' = disk
  <2>1. fd[h] = "tmp"
    BY <1>1 DEF Fill, SerialInv
  <2> QED
    BY <1>1, <2>1 DEF Fill
<1>2. CASE UNCHANGED vars
  BY <1>2 DEF vars
<1>3. CASE Next
  BY <1>1, <1>3 DEF Next, Step, Serve, Crash, StartRequest, StartMigration, Begin,
         Read, OpenTemp, RenameMissing, UnlinkLegacy, fileVars
<1> QED
  BY <1>2, <1>3

LEMMA SerialRename ==
    ASSUME IInv, SerialInv, serialised, NEW h \in Handlers, Rename(h)
    PROVE  /\ op[h] \in Op /\ ReadRegistry(disk) \in Registry
           /\ WellFormed(ReadRegistry(disk)) /\ Writes(op[h], ReadRegistry(disk))
           /\ disk' = Apply(op[h], ReadRegistry(disk))
           /\ ReadRegistry(disk') = disk'
<1>1. pc[h] = "rename" /\ disk' = tmp
  BY DEF Rename
<1>2. op[h] \in Op /\ ReadRegistry(disk) \in Registry /\ WellFormed(ReadRegistry(disk))
  BY <1>1, ReadWellTyped DEF IInv, TypeOK, BusyHasOp, ImagesWellFormed
<1>3. disk' = image[h] /\ image[h] \in Registry
  BY <1>1 DEF SerialInv, OwnsTheWrite, IInv, TypeOK
<1>4. /\ Writes(op[h], ReadRegistry(disk))
      /\ image[h] = Apply(op[h], ReadRegistry(disk))
  BY <1>1 DEF SerialInv, OwnsTheWrite
<1>5. ReadRegistry(disk') = disk'
  BY <1>3, MarksAreNoRegistries DEF ReadRegistry
<1> QED
  BY <1>2, <1>3, <1>4, <1>5

-----------------------------------------------------------------------------
\* Without overlaps an account leaves the registry by the explicit removal only:
\* no sign-in, sign-out, switch, rejection, migration or crash loses one.
THEOREM NeverLoses == Spec => SerialisedNeverLoses
<1>1. ASSUME IInv, SerialInv, [Next]_vars, serialised, NEW k \in Dropped
      PROVE  Removing(k)
  <2>1. PICK h \in Handlers : Rename(h)
    BY <1>1, SerialDiskChange DEF Dropped
  <2>2. k \in ReadRegistry(disk).known \ Apply(op[h], ReadRegistry(disk)).known
    BY <1>1, <2>1, SerialRename DEF Dropped
  <2> QED
    BY <1>1, <2>1, <2>2, SerialRename, ApplyKeepsOthers DEF Removing
<1>2. IInv /\ SerialInv /\ [Next]_vars
         => [serialised => \A k \in Dropped : Removing(k)]_vars
  BY <1>1
<1> QED
  BY InitIInv, NextIInv, InitSerialInv, NextSerialInv, <1>2, PTL
     DEF Spec, SerialisedNeverLoses

\* Without overlaps a needs-reauth flag goes away with its account or by that
\* account's own sign-in, switch or minted token, never by another's.
THEOREM FlagsStay == Spec => FlagsClearedByOwner
<1> DEFINE Owned(k) ==
      \/ k \notin ReadRegistry(disk').known
      \/ \E h \in Handlers :
             \/ op[h].kind \in {"add", "activate"} /\ op[h].key = k
             \/ op[h].kind = "clearActive" /\ disk.active = k
<1>1. ASSUME IInv, SerialInv, [Next]_vars, serialised,
             NEW k \in ReadRegistry(disk).flagged \ ReadRegistry(disk').flagged
      PROVE  Owned(k)
  <2>1. PICK h \in Handlers : Rename(h)
    BY <1>1, SerialDiskChange
  <2> DEFINE r == ReadRegistry(disk)
  <2>2. r.active = disk.active
    BY DEF ReadRegistry, EmptyRegistry, Unreadable, NoFile
  <2>3. /\ ReadRegistry(disk') = Apply(op[h], r) /\ op[h] \in Op /\ r \in Registry
        /\ WellFormed(r) /\ Writes(op[h], r)
    BY <1>1, <2>1, SerialRename
  <2>4. \/ k \notin Apply(op[h], r).known
        \/ op[h].kind \in {"add", "activate"} /\ op[h].key = k
        \/ op[h].kind = "clearActive" /\ r.active = k
    BY <1>1, <2>3, ApplyKeepsOthers
  <2> QED
    BY <2>2, <2>3, <2>4
<1>2. IInv /\ SerialInv /\ [Next]_vars
         => [serialised => \A k \in ReadRegistry(disk).flagged
                                      \ ReadRegistry(disk').flagged : Owned(k)]_vars
  BY <1>1
<1> QED
  BY InitIInv, NextIInv, InitSerialInv, NextSerialInv, <1>2, PTL
     DEF Spec, FlagsClearedByOwner

\* Without overlaps what a completed operation promises about the next boot holds:
\* after the last step of a sign-out there is nothing to adopt, after the rename of
\* a sign-in or a switch its account is adopted.
THEOREM NextBoot == Spec => NextBootFollows
<1>1. ASSUME IInv, SerialInv, serialised, NEW h \in Handlers, UnlinkLegacy(h)
      PROVE  BootIdentity' = None
  <2>1. ReadRegistry(disk).active = None /\ disk' = disk /\ legacy' = None
    BY <1>1 DEF UnlinkLegacy, SerialInv, OwnsTheWrite
  <2>2. ReadRegistry(disk)' = ReadRegistry(disk)
    BY <2>1 DEF ReadRegistry
  <2>3. ActiveKey(ReadRegistry(disk)') = None
    BY <2>1, <2>2 DEF ActiveKey
  <2> QED
    BY <2>1, <2>3 DEF BootIdentity
<1>2. ASSUME IInv, SerialInv, serialised, NEW h \in Handlers, Rename(h),
             \/ op[h].kind = "add"
             \/ op[h].kind = "activate" /\ op[h].key \in disk'.known
      PROVE  BootIdentity' = op[h].key
  <2> DEFINE r == ReadRegistry(disk)
  <2>1. /\ disk' = Apply(op[h], r) /\ ReadRegistry(disk') = disk'
        /\ op[h] \in Op /\ r \in Registry /\ WellFormed(r)
    BY <1>2, SerialRename
  <2>2. ActiveKey(Apply(op[h], r)) = op[h].key /\ op[h].key # None
    BY <1>2, <2>1, ApplyActivates
  <2>3. ActiveKey(ReadRegistry(disk')) = op[h].key
    BY <2>1, <2>2
  <2> QED
    BY <2>2, <2>3 DEF BootIdentity
<1>3. IInv /\ SerialInv /\ [Next]_vars
         => [serialised => \A h \in Handlers :
              /\ UnlinkLegacy(h) => BootIdentity' = None
              /\ Rename(h) /\ op[h].kind = "add" => BootIdentity' = op[h].key
              /\ Rename(h) /\ op[h].kind = "activate" /\ op[h].key \in disk'.known
                    => BootIdentity' = op[h].key]_vars
  BY <1>1, <1>2
<1> QED
  BY InitIInv, NextIInv, InitSerialInv, NextSerialInv, <1>3, PTL
     DEF Spec, NextBootFollows
=============================================================================
