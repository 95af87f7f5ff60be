---------------------------- MODULE AccountStore ----------------------------
(***************************************************************************)
(* The multi-account registry (accounts.json) and the read-modify-write    *)
(* helpers that change it: src/lib/auth/github-token-store.ts, with the    *)
(* writers of routes/control (remove) and of the boot migration.           *)
(*                                                                         *)
(* Every helper is an async function: it awaits readFile, computes the new *)
(* registry with a pure function, awaits writeFile of a temporary file     *)
(* whose name is the same for every writer of the process, and awaits      *)
(* rename.  At each await the event loop may run another helper, so each   *)
(* system call is an action of its own.                                    *)
(*                                                                         *)
(* Abstracted: token text, timestamps, file modes.  A registry is the      *)
(* active key, the keys that have a record, and the keys flagged           *)
(* needsReauth.                                                            *)
(***************************************************************************)
EXTENDS FiniteSets

CONSTANTS
    Keys,        \* login@host identities
    UnknownKey,  \* unknown@host, for a legacy token whose login was not resolved
    Handlers,    \* invocations of a helper that may be in flight at once
    None         \* no key

ASSUME KeysAssumption == UnknownKey \in Keys /\ None \notin Keys

VARIABLES
    disk,        \* contents of accounts.json
    tmp,         \* contents of accounts.json.tmp.<pid>
    legacy,      \* the key whose token the single-record file github_token holds
    pc,          \* where each handler is suspended
    op,          \* the operation each handler runs
    image,       \* the registry a handler is about to write
    fd,          \* the file a handler's open descriptor refers to
    phase,       \* of the process: the listeners are bound after the migration
    serialised   \* handlers never overlap: the assumption of the module's comment

vars == <<disk, tmp, legacy, pc, op, image, fd, phase, serialised>>
fileVars == <<disk, tmp, legacy>>

-----------------------------------------------------------------------------
(* Registries *)

Registry == [active: Keys \cup {None}, known: SUBSET Keys, flagged: SUBSET Keys]

EmptyRegistry == [active |-> None, known |-> {}, flagged |-> {}]

\* A file readRegistry cannot parse (just truncated, or one JSON text laid over
\* a longer one), and a file that does not exist.  Both read as EmptyRegistry.
Unreadable == [active |-> None, known |-> {}, flagged |-> {}, torn |-> TRUE]
NoFile == [active |-> None, known |-> {}, flagged |-> {}, absent |-> TRUE]

Contents == Registry \cup {Unreadable, NoFile}

\* Mutant: only a missing file reads as empty.
ReadRegistryStrict(file) == IF file = NoFile THEN EmptyRegistry ELSE file

ReadRegistry(file) ==
    IF file \in {Unreadable, NoFile} THEN EmptyRegistry ELSE file

\* Mutants: the first account stays active; a new account replaces the others.
AddKeepsActive(r, k) ==
    [active  |-> IF r.active = None THEN k ELSE r.active,
     known   |-> r.known \cup {k},
     flagged |-> r.flagged \ {k}]
AddForgetsOthers(r, k) == [active |-> k, known |-> {k}, flagged |-> {}]

\* A record's needsReauth starts unset, also when the key already had one.
AddAndActivate(r, k) ==
    [active |-> k, known |-> r.known \cup {k}, flagged |-> r.flagged \ {k}]

SetActive(r, k) == IF k \in r.known THEN [r EXCEPT !.active = k] ELSE r

\* Mutant: the pointer stays behind.
RemoveKeepsActive(r, k) ==
    [r EXCEPT !.known = @ \ {k}, !.flagged = @ \ {k}]

RemoveAccount(r, k) ==
    [active  |-> IF r.active = k THEN None ELSE r.active,
     known   |-> r.known \ {k},
     flagged |-> r.flagged \ {k}]

Deactivate(r) == [r EXCEPT !.active = None]

MarkNeedsReauth(r, k) ==
    IF k \in r.known THEN [r EXCEPT !.flagged = @ \cup {k}] ELSE r

\* Mutant: a working token clears every account's flag.
ClearAllFlags(r, k) == [r EXCEPT !.flagged = @ \ (@ \cup {k})]

ClearNeedsReauth(r, k) == [r EXCEPT !.flagged = @ \ {k}]

\* getActiveRecord, then the fallback of readDefaultRecord to the legacy file.
ActiveKey(r) == IF r.active \in r.known THEN r.active ELSE None

\* The identity the next boot adopts from these files.  migrateLegacyRecord
\* runs first, but it only makes active the key the fallback would find.
BootIdentity ==
    LET a == ActiveKey(ReadRegistry(disk)) IN IF a # None THEN a ELSE legacy

-----------------------------------------------------------------------------
(* Operations: one per exported read-modify-write helper. *)

KeyedKinds == {"add", "mark", "activate", "remove", "migrate"}
ActiveKinds == {"signOut", "markActive", "clearActive"}  \* on the active account

NoOp == [kind |-> "none", key |-> None]
Op == [kind: KeyedKinds, key: Keys] \cup [kind: ActiveKinds, key: {None}]
Locals == Op \cup {NoOp}

\* The early returns: a helper that has nothing to change writes nothing.
Writes(o, r) ==
    CASE o.kind \in {"signOut", "markActive"} -> r.active # None
      [] o.kind = "clearActive" -> r.active \in r.known /\ r.active \in r.flagged
      [] o.kind = "remove" -> o.key \in r.known
      [] o.kind = "migrate" -> r.known = {} /\ legacy # None
      [] OTHER -> TRUE

Apply(o, r) ==
    CASE o.kind = "add" -> AddAndActivate(r, o.key)
      [] o.kind = "signOut" -> Deactivate(r)
      [] o.kind = "markActive" -> MarkNeedsReauth(r, r.active)
      [] o.kind = "clearActive" -> ClearNeedsReauth(r, r.active)
      [] o.kind = "mark" -> MarkNeedsReauth(r, o.key)
      [] o.kind = "activate" -> ClearNeedsReauth(SetActive(r, o.key), o.key)
      [] o.kind = "remove" -> RemoveAccount(r, o.key)
      [] o.kind = "migrate" -> AddAndActivate(EmptyRegistry, o.key)

\* signOut goes on to unlink the legacy file, whether its write worked or not.
AfterWrite(o) == IF o.kind = "signOut" THEN "unlink" ELSE "idle"

-----------------------------------------------------------------------------
TypeOK ==
    /\ disk \in Contents
    /\ tmp \in Contents
    /\ legacy \in Keys \cup {None}
    /\ pc \in [Handlers -> {"idle", "read", "open", "fill", "rename", "unlink"}]
    /\ op \in [Handlers -> Locals]
    /\ image \in [Handlers -> Registry]
    /\ fd \in [Handlers -> {"closed", "tmp", "disk", "unlinked"}]
    /\ phase \in {"booting", "migrating", "serving"}
    /\ serialised \in BOOLEAN

\* A first boot: an empty home, or one left by a single-account release.
Init ==
    /\ disk = NoFile
    /\ tmp = NoFile
    /\ legacy \in (Keys \ {UnknownKey}) \cup {None}
    /\ pc = [h \in Handlers |-> "idle"]
    /\ op = [h \in Handlers |-> NoOp]
    /\ image = [h \in Handlers |-> EmptyRegistry]
    /\ fd = [h \in Handlers |-> "closed"]
    /\ phase = "booting"
    /\ serialised \in BOOLEAN

Idle(h) == pc[h] = "idle"
Quiet == \A h \in Handlers : Idle(h)

Begin(h, o) ==
    /\ Idle(h)
    /\ pc' = [pc EXCEPT ![h] = "read"]
    /\ op' = [op EXCEPT ![h] = o]
    /\ UNCHANGED <<image, fd, serialised>>
    /\ UNCHANGED fileVars

\* A request, a poller or a token refresh calls one of the helpers.  The account
\* sweeps flag and activate keys they have just read from the registry; device
\* flow and gh reuse add any login; a removal names any key.
StartRequest(h) ==
    /\ phase = "serving"
    /\ serialised => Quiet
    /\ \/ \E kind \in ActiveKinds : Begin(h, [kind |-> kind, key |-> None])
       \/ \E k \in Keys : Begin(h, [kind |-> "remove", key |-> k])
       \/ \E k \in ReadRegistry(disk).known, kind \in {"mark", "activate"} :
              Begin(h, [kind |-> kind, key |-> k])
       \/ \E k \in Keys \ {UnknownKey} : Begin(h, [kind |-> "add", key |-> k])
    /\ UNCHANGED phase

\* bootstrapUpstream awaits migrateLegacyRecord before the listeners are bound.
\* The key is the login GitHub gives for the legacy token, or unknown@host when
\* the lookup fails.
StartMigration(h) ==
    /\ phase = "booting"
    /\ \E k \in Keys \cap {legacy, UnknownKey} : Begin(h, [kind |-> "migrate", key |-> k])
    /\ phase' = "migrating"

\* A failed migration is logged and boot goes on.
Serve ==
    /\ phase = "migrating"
    /\ Quiet
    /\ phase' = "serving"
    /\ UNCHANGED <<pc, op, image, fd, serialised>>
    /\ UNCHANGED fileVars

\* The helper resolves (or rejects): its locals go with it, except that signOut
\* still has its last step to take.
Finish(h) ==
    /\ pc' = [pc EXCEPT ![h] = AfterWrite(op[h])]
    /\ op' = [op EXCEPT ![h] = IF AfterWrite(@) = "idle" THEN NoOp ELSE @]
    /\ image' = [image EXCEPT ![h] = EmptyRegistry]
    /\ UNCHANGED <<legacy, phase, serialised>>

\* readFile resolves: the helper decides and computes in the same turn.
Read(h) ==
    /\ pc[h] = "read"
    /\ LET r == ReadRegistry(disk) IN
           IF Writes(op[h], r)
           THEN /\ pc' = [pc EXCEPT ![h] = "open"]
                /\ image' = [image EXCEPT ![h] = Apply(op[h], r)]
                /\ UNCHANGED <<op, legacy, phase, serialised>>
           ELSE Finish(h)
    /\ UNCHANGED <<disk, tmp, fd>>

\* Mutant: the registry is rewritten in place.
OpenInPlace(h) ==
    /\ pc[h] = "open"
    /\ disk' = Unreadable
    /\ fd' = [fd EXCEPT ![h] = "disk"]
    /\ pc' = [pc EXCEPT ![h] = "fill"]
    /\ UNCHANGED <<tmp, legacy, op, image, phase, serialised>>

\* writeFile opens the shared temporary name with O_CREAT | O_TRUNC ...
OpenTemp(h) ==
    /\ pc[h] = "open"
    /\ tmp' = Unreadable
    /\ fd' = [fd EXCEPT ![h] = "tmp"]
    /\ pc' = [pc EXCEPT ![h] = "fill"]
    /\ UNCHANGED <<disk, legacy, op, image, phase, serialised>>

\* ... and writes through its descriptor, wherever that file is linked by now.
\* Laid over another writer's longer text it leaves the longer text's tail.
Fill(h) ==
    /\ pc[h] = "fill"
    /\ LET Laid(old) == {image[h]} \cup (IF old \in Registry \ {image[h]}
                                         THEN {Unreadable} ELSE {}) IN
       \/ fd[h] = "tmp" /\ tmp' \in Laid(tmp) /\ UNCHANGED disk
       \/ fd[h] = "disk" /\ disk' \in Laid(disk) /\ UNCHANGED tmp
       \/ fd[h] = "unlinked" /\ UNCHANGED <<disk, tmp>>
    /\ fd' = [fd EXCEPT ![h] = "closed"]
    /\ pc' = [pc EXCEPT ![h] = "rename"]
    /\ UNCHANGED <<legacy, op, image, phase, serialised>>

\* The descriptors of other writers follow the file they opened.
Relinked == [g \in Handlers |->
                CASE fd[g] = "tmp" -> "disk"
                  [] fd[g] = "disk" -> "unlinked"
                  [] OTHER -> fd[g]]

Rename(h) ==
    /\ pc[h] = "rename"
    /\ tmp # NoFile
    /\ disk' = tmp
    /\ tmp' = NoFile
    /\ fd' = Relinked
    /\ Finish(h)

\* Another writer renamed the shared temporary file first: ENOENT, thrown to the
\* caller, whose change is not on disk.
RenameMissing(h) ==
    /\ pc[h] = "rename"
    /\ tmp = NoFile
    /\ UNCHANGED <<disk, tmp, fd>>
    /\ Finish(h)

UnlinkLegacy(h) ==
    /\ pc[h] = "unlink"
    /\ legacy' = None
    /\ pc' = [pc EXCEPT ![h] = "idle"]
    /\ op' = [op EXCEPT ![h] = NoOp]
    /\ UNCHANGED <<disk, tmp, image, fd, phase, serialised>>

\* The process dies.  The next one has another pid, hence another temporary
\* name; the files it left under the old name are never looked at.
Crash ==
    /\ phase # "booting"
    /\ tmp' = NoFile
    /\ pc' = [h \in Handlers |-> "idle"]
    /\ op' = [h \in Handlers |-> NoOp]
    /\ fd' = [h \in Handlers |-> "closed"]
    /\ image' = [h \in Handlers |-> EmptyRegistry]
    /\ phase' = "booting"
    /\ UNCHANGED <<disk, legacy, serialised>>

Step(h) ==
    \/ StartRequest(h) \/ StartMigration(h)
    \/ Read(h) \/ OpenTemp(h) \/ Fill(h) \/ Rename(h) \/ RenameMissing(h)
    \/ UnlinkLegacy(h)

Next == Serve \/ Crash \/ \E h \in Handlers : Step(h)

Spec == Init /\ [][Next]_vars

-----------------------------------------------------------------------------
(* Properties *)

WellFormed(r) == r.active \in r.known \cup {None} /\ r.flagged \subseteq r.known

\* However the helpers interleave or crash, the registry a reader gets never
\* points activeKey at an account without a record, nor flags one: the promise
\* setActive makes ("a stale switch can't create a dangling pointer").
NoDanglingActive == WellFormed(ReadRegistry(disk))

Dropped == ReadRegistry(disk).known \ ReadRegistry(disk').known

Removing(k) == \E h \in Handlers : op[h] = [kind |-> "remove", key |-> k]

\* An account leaves the registry only by the explicit "forget account": no
\* sign-out, rejection, switch, sign-in or crash loses one.
OnlyRemoveDropsAccounts == [][\A k \in Dropped : Removing(k)]_vars

\* The same, given what the module's comment assumes of the event loop: that no
\* two helpers overlap.
SerialisedNeverLoses == [][serialised => \A k \in Dropped : Removing(k)]_vars

\* Temporary file and rename: no reader, and no boot after a crash at any point,
\* finds an unparsable registry (given the same assumption).
SerialisedNeverTorn == serialised => disk # Unreadable

\* What a completed operation promises about the next boot: a sign-out boots
\* signed out (whatever legacy file there was), a sign-in or a switch boots into
\* its account.
NextBootFollows ==
    [][serialised => \A h \in Handlers :
          /\ UnlinkLegacy(h) => BootIdentity' = None
          /\ Rename(h) /\ op[h].kind = "add" => BootIdentity' = op[h].key
          /\ Rename(h) /\ op[h].kind = "activate" /\ op[h].key \in disk'.known
                => BootIdentity' = op[h].key]_vars

\* A needs-reauth flag goes away only with its account, or because that very
\* account signed in, was switched to, or is the active one whose token was minted.
FlagsClearedByOwner ==
    [][serialised => \A k \in ReadRegistry(disk).flagged
                                \ ReadRegistry(disk').flagged :
          \/ k \notin ReadRegistry(disk').known
          \/ \E h \in Handlers :
                 \/ op[h].kind \in {"add", "activate"} /\ op[h].key = k
                 \/ op[h].kind = "clearActive" /\ disk.active = k]_vars

\* "/remove only edits the persisted registry (a reconnect/restart drops a
\* removed active key)": after a removal the next boot is not that account.
RemovedStaysRemoved ==
    [][\A h \in Handlers : Rename(h) /\ op[h].kind = "remove"
                               => BootIdentity' # op[h].key]_vars
=============================================================================
