# A TLA+ model of maximal-core

maximal-core is a headless proxy (Bun, Hono) that serves GitHub Copilot behind
Anthropic- and OpenAI-shaped APIs and is driven by a control plane: JSON-RPC
calls, their REST twins, and a live feed over SSE. It is one process with one
event loop. Nothing runs in parallel, and everything interleaves: module-level
state is shared by request handlers, background loops, fire-and-forget promises
and the control plane, and each `await` is a point where any of them may run. Several
instances of it share files, ports and another program's settings.

This directory holds TLA+ models of the parts where that matters, the TLC
configurations that check them, and proofs for the TLA+ proof system. All paths
below are relative to the repository. `PROJECT.json` is the machine-readable
index: components, runs, the source lines behind every definition, hazards,
findings, mutants, theorems.

## 1. Inventory

For each part: its state, its operations, what it touches, what makes it hard,
and what makes it correct.

### Modelled

**Account registry** (`src/lib/auth/github-token-store.ts`). State:
`accounts.json` (active key, records, `needsReauth` flags), one temporary file
name per process, and the legacy single-record file `github_token`. Operations:
add, activate, remove, deactivate, mark and clear `needsReauth`, migration at
boot. Used by the auth controller, the token mint, the recovery sweep, boot and
the control routes. Hard: every helper is read, compute, write, rename with an
await at each call, without a lock; the process may die in between; two files
decide who boots. Correct: the active key always has a record, no reader sees a
torn file, only "remove" loses an account, a sign-out or sign-in decides the
next boot.

**Auth controller** (`auth-controller.ts`). State: the auth state machine, the
running device flow and its poller, the single-flight guards of re-arm and
degrade, the time of the last success. Operations: start, cancel and complete a
device flow, sign out, re-arm with renewal, degrade. Hard: six kinds of
asynchronous callers share the token, the user name and the state. Correct: a
sign-out is not undone by a late answer; memory and disk name one account; a
degrade ends and happens once.

**Token mint and refresh loop** (`token.ts`). State: the Copilot bearer, the
loop's abort controller, a counter of rejections. Hard: each sign-in, re-arm,
retry and switch starts a loop; transient failures and rejections are counted
differently. Correct: one live loop; always somebody who will mint next.

**Online retry** (`copilot-online-retry.ts`). A loop that takes over when the
first mint fails transiently. Hard: the credential may vanish while its mint is
in flight. Correct: it recovers when the upstream answers, and does not bring
back a credential that was wiped.

**Live switch and recovery sweep** (`auth-recovery.ts`). Changes account without
a restart, for a request or, after a degrade, over all other accounts. Hard: it
changes memory first and the registry later, and each step may fail. Correct:
the sweep gives up only after each account was tried and flagged.

**Bootstrap of the session** (`start/bootstrap.ts`). Its outcomes are the states
a session starts in: signed out, signed in, in error, or offline with a retry
whose hook signs in later.

**Error forwarding** (`errors/error.ts`). A completion rejected with 401 re-arms
the session and, when that is fatal, degrades it.

**Control hub and queues** (`live/hub.ts`, `queue.ts`, `service.ts`). State: the
subscribers, each with a bounded queue and a drain loop. Operations: subscribe,
fan out, drain, heartbeat, drop on overflow, remove. Hard: deltas arrive while
the snapshot is built; writes may hang. Correct: nothing missed or reordered for
a live subscriber, nothing sent to a dropped one, no leak.

**SSE subscription and snapshot** (`live/stream-subscription.ts`,
`resources.ts`). The response's lifetime, the abort handler, the snapshot.

**Control routes and JSON-RPC** (`routes/control`, `lib/jsonrpc`,
`live/mutex.ts`). Account switch and remove under a mutex: write, list,
broadcast. Correct: the last broadcast list is the one on disk.

**Control client** (`live/client.ts`). Connects, applies frames, reconnects.
Correct: a client that stays comes to show the server's state.

**Message streams** (`routes/messages/stream-translation.ts`,
`responses-stream-translation.ts`, `api-flows.ts`, `stream-error.ts`). State of
a stream: the block index, the open block, the blocks of the tool calls seen,
what was sent of each part, a count of consecutive line breaks. Operations: one
per upstream event. Hard: parallel calls interleave, parts are sent as deltas
and again whole, upstreams stop without saying so. Correct: the client reads one
well-formed sequence of blocks, each argument in its call's block, each text
once, and is told how the stream ends.

**Web-tools agent** (`routes/messages/web-tools/`). State: the turn, the block
cursor of the client, the map from upstream to client indices, the buffered
terminal events, tool uses left, usage so far. Operations: dispatch of each
event, run of a server tool, next turn, last turn, heartbeat. Hard: several
upstream streams become one. Correct: indices climb across turns, every server
tool is followed by its result, the usage is that of every turn.

**Boot, ports, eviction, shutdown** (`lib/start/`, `lib/platform/`). State: the
pidfile, the session marker, who holds which port, the drain and the cleanup
handlers of each process. Operations: read the pidfile, ask, signal and kill a
running instance, scan, probe and bind a port, write the pidfile, serve, drain,
exit in six ways. Hard: two or three processes, exits that overtake each
other, listeners that never close. Correct: a launch settles, a shutdown ends,
the marker tells how the last session ended.

**Claude Code settings** (`apps/claude-code/`). State: the fields of another
program's settings file that this one manages, a snapshot of what they held, the
intent in the configuration. Operations: apply, revert, reconcile at boot,
restore at exit, heal a moved program path. Hard: the user edits the file in
between, the process may be killed. Correct: an exit gives back what is the
user's.

**Request path** (`routes/messages/handler.ts`, `preprocess.ts`,
`non-stream-translation.ts`, `responses-translation.ts`, `lib/http/`,
`lib/models/`). State: the model list with its age, its single-flight guard and
its cool-down; the time of the last request; requests under way. Operations:
check the list, rate limit, fold texts and attachments into tool results,
approve, choose an API, translate to it and back, record the usage. Hard: three
APIs, each with its own order of things; conversations that change model; a list
that could not be loaded. Correct: nothing the user or a tool said is lost or
doubled, every call keeps its answer, a conversation's own reasoning comes back
as it was said, the list heals.

**Token usage** (`lib/token-usage/store.ts`, `lib/live/service.ts`). State: the
queue of writes, the dirty flag, the sum last broadcast. Hard: the sum is
queried while writes are queued. Correct: in the end viewers know the sum.

### Not modelled

| part | state and operations | why it is left out |
| --- | --- | --- |
| sidecar supervisor | a scan for one ready line with a timeout | runs in the host application; `Instance` has the sidecar's side |
| pure algorithms | hysteresis, LRU cache, polling loop, version floor | small, sequential; `AuthSession` takes the polling loop by its outcomes |
| network diagnostics | none | classifies errors, no protocol |
| upstream clients | none | their replies are the nondeterminism of the models |
| request auth, secrets | write-once files | per-request predicates |
| configuration | one file, synchronous access | nothing interleaves in the process |
| update check | cached manifest | informs only |
| command line, other apps | other programs' settings | one-shot commands |
| release and development tooling (`scripts/`) | files of the build | sequential scripts of developers and CI, no part of the proxy |

Within modelled parts: the Messages API's streaming passthrough, `/v1/chat/completions`
and `/responses` (forwarded as they are), the non-streaming agent, what the web
tools' executor does to search and fetch, active clients, system prompts (but for
their asking for a compaction), tool definitions and arguments of calls, the control port and the boot-status server, SQL.

## 2. Modules

| module | role |
| --- | --- |
| `AccountStore` | the registry, one action per system call |
| `AuthSession` | the live session: controller, loops, re-arm, degrade, switch |
| `ControlFeed` | hub, queues, snapshot, edits, client |
| `Feed` | abstract: what the feed's clients are promised of the auth status |
| `BlockProtocol` | abstract: what a client is promised of a stream |
| `ChatTranslation`, `ResponsesTranslation` | the two stream translators, as functions of state and event |
| `MessageStream` | the flows that drive them, the web-tools agent, the client's view |
| `ClaudeSettings` | apply, revert, self-heal of Claude Code's settings, as functions |
| `Instance` | launches on one machine: boot, eviction, shutdown, settings |
| `UserContent` | preparation of tool results, texts and attachments |
| `ChatPayload`, `ResponsesPayload` | the two translations of a request and of its answer |
| `ModelCatalog` | the model list: staleness, prime, refresh, single flight |
| `UsageTally` | usage events, their writes, the ticker and its sum |
| `Gateway` | composes the last five: conversations through the request path |
| `AccountStoreProofs`, `AuthSessionProofs`, `ControlFeedProofs`, `InstanceProofs`, `GatewayProofs` | theorems about these modules |
| `PayloadProofs` | lemmas: what the preparation and the translations of a request keep |
| `MessageStreamProofs` | lemmas about the two translators, theorems about `MessageStream` |
| `BlockProtocolProofs` | `MessageStream` implements `BlockProtocol`; server tools and their results |
| `MC...` | one per checked module: instances for TLC |

`AccountStore` and `AuthSession` meet at the registry: AuthSession takes each registry helper as
one step, which is what AccountStore's serialised behaviours promise of it, and
AccountStore shows what remains true when that assumption is dropped. The
control routes appear on both sides: their effect on the file in AccountStore
(`remove`, `activate`), their broadcasts in ControlFeed. `Gateway` covers the
flows that do not stream and `MessageStream` those that do; both end in the same
usage event, whose way to the control feed is in `UsageTally`, up to the
broadcast that ControlFeed's queues carry. `Instance` takes all of these as a
process that serves.

Operators named in a comment as *Mutant* are plausible mistakes; each property
is violated when one of them takes the place of the definition it deforms. They
are not part of any specification.

### AccountStore

`disk`, `tmp` and `legacy` are the three files; a registry is its active key,
the keys with a record and the flagged keys. Token text, times and modes are
left out. A handler is one invocation of a helper; `pc`, `op`, `image` and `fd`
are where it is suspended, what it runs, the registry it will write and the file
its descriptor is open on. `StartRequest`, `Read`, `OpenTemp`, `Fill`, `Rename`
/ `RenameMissing` and `UnlinkLegacy` follow the awaits. A descriptor follows its
file: when another writer renames the shared temporary file, an open descriptor
then refers to `accounts.json` itself, so a late `Fill` writes in place. `Fill`
over a longer text leaves something no parser accepts (`Unreadable`), and
`readRegistry` reads that, like a missing file, as empty.

`Crash` may happen between any two calls. The next process first runs the
migration and its other boot work and then serves (`Serve`): listeners are bound
after it, so boot does not overlap requests. `serialised` is the assumption the
module's own comment makes (no two helpers overlap), chosen once per behaviour;
properties that need it say so, and one that does not is proved without.

### AuthSession

An action is what one handler does between two awaits. A token is the account it
belongs to, so "the bearer was minted for another account" is a comparison.
`flow[f]`, `loops`, `retries`, `rearm`, `degrade`, `switch`, `signingOut` and
`completion` say where each asynchronous activity is suspended and what it
captured before (`sent` is the token a request went out with, `resume` the login
to fall back to). Loops are kept in sets: a stopped loop with a reply still due
stays until the reply, as in the code, where aborting a controller ends a sleep
and not a request. Two stopped loops in exactly the same state count as one;
their answers have the same effect.

`workload`, chosen in `Init`, says which events the behaviour has, whether they
overlap (`serial`), and `config.autoRecoverAccount`. Abstractions: only tokens
that are exchanged for a bearer (`ghu_`); one device-flow id; one requested
switch at a time; `grace` is an untimed flag for the 3 s window after a success,
except that a refresh is never due within it (deadlines and retries are at least
15 s away); diagnosis and banner text are left out.

### ControlFeed

The auth status and the accounts file are version numbers. The auth status
changes and is broadcast in one synchronous step; an account edit writes, lists
and broadcasts in three, under its surface's mutex. Sign-in, sign-out, the
adoption of the `gh` account and the sweep write the file and broadcast no list
(`SilentWrite`), and an edit may fail to read its list back (`EditListFails`);
`Mishaps` says whether a run has these. `announced` is a history variable: the
list broadcast last.

A connection is a `Subscriber` and its drain loop; `Building` covers the
snapshot's awaits. A client may close its connection (`Disconnect`): the server is
told, and from then on writes resolve though nobody reads them (`WriteLost`),
because Hono's `StreamingApi.write` swallows the error. It may also vanish
(`Vanishes`): writes then stay pending until the connection times out
(`TimesOut`), if it ever does. The abort handler that unsubscribes exists only
once `subscribe` has returned (`Aborted`).

Not modelled: the models, apps, usage and clients topics.

`Feed` is the abstract specification, without snapshots, queues and drain loops: a
status that changes, for each client the version it shows, and what is left of
its subscription (`reader`): all, the one frame on its way when it was dropped, or none.
`ImplementsFeed` is the refinement. `Reader` maps the subscriber a client reads: while
the snapshot is built or waits to be written the subscription starts from the
snapshot's version, after that from the one shown. Only the auth status is promised this
way. Accounts lists are broadcast from earlier reads and can come in the wrong
order (section 4).

### MessageStream

`ChatTranslation` and `ResponsesTranslation` define one operator per handler of
the source, from a translator's state and an event to the new state and the
events sent. Texts and arguments are pieces with an identity; a run of line
breaks is counted. `MessageStream` feeds them what an upstream may send:
`request.order` is *serial* (one part after the other: `OrderlyChunk`,
`OrderlyEvent`), *parallel* (calls and output items may interleave) or *any*. What
the translators emit goes to `pending` and is written one event at a time to
`wire`, which keeps what a client would derive from it: the open blocks, the
kinds of blocks so far, what was read in which block. A reasoning item of the
Responses API may have several summaries, which share a block. Arguments may also
come whole, with the call's announcement or its end; such ones may end in line
breaks, which the code sends uncounted and `breaks` leaves out.

In the agent's flow each turn's events pass through `inner`, are dispatched one
at a time and remapped; a `server_tool_use` stops the turn until its tool
settles; terminal events are buffered until the turn ends. Each web tool has its
own count of uses, which a success alone increases.

`BlockProtocol` is the abstract specification: one `message_start`, blocks
numbered 0, 1, 2, ... and open one at a time, one end. `ImplementsBlockProtocol`
is the refinement: for a serial upstream, what the client reads of any flow is a
behaviour of it. For an upstream that interleaves it is not (section 4), so
other behaviours map to a stuttering one.

### Instance

A launch goes through `pc`: with a takeover asked for it evicts the instance the
pidfile or the port leads to, takes the configuration, resolves its port by the
policy (fail, replace, next), boots the upstream session, binds and is up; its
pidfile is written by a promise nobody waits for (`writing`). A process that is
up may be draining, cleaning up, asked to exit and wedged (its loop does not
turn) at the same time, since these overlap in the code. Exits differ in what
they run: SIGKILL nothing; `process.exit` and an exception the `exit` listener
(marker, settings); SIGTERM the cleanup handlers and the drain side by side; the
drain its steps in order, under a watchdog. The rest is the machine: the files,
who listens where, the user's edits (`mine` is what the user last set, `had`
what the last snapshot found; either may equal what this program writes), moves of
the program, a sidecar's shell, and faults: signals, kills, exceptions,
wedges. `world` says which of these a behaviour may have, what the user's fields hold at
first, and whether a foreign program holds the port. Helper commands at another
path than this install's are one value (`Stale`), whoever wrote them.

### Gateway

Content is what a conversation is made of, by identity: a text, an image, a
document, a thinking block with a signature (who signed which thought), a call, a
result with its form (a string, blocks, nothing, a file read, a tool reference,
an error). Joining a user's texts is keeping their parts in order. What upstream says
is a sequence of marks, of which one is a blank and one alone is the placeholder
`Thinking...`, so that texts can be joined, trimmed and found empty.
`UserContent`, `ChatPayload` and `ResponsesPayload` are functions over these,
one operator per function of the source. `Gateway` runs conversations through
them: a client sends its whole history, the request passes the model list's
check, the rate limit, the preparation, the approval, the choice of API; the
upstream's answer is translated back and becomes part of the history. Which
answers and messages occur is `world.talk`: *rich* (every form of results beside
every kind of aside), *varied* (every form of answer, models that change) or
*short* (traffic). Whether the system prompt asks for a compaction is `world.system`.

An answer of the Responses API has items and a status. A message may have several parts,
refusals among them, or none; a reasoning summary no segment, one or several with white
space around them, or nothing but white space; the status is looked at before
the calls. A document sent through chat becomes `Notice`, which has no identity: `GivenUp`
lists it, whether it stood beside results or in one.

A warm-up request is answered by the gateway itself and ends its conversation.
What the upstream may answer is an assumption, listed at the answer sets: a
compaction comes first in its output, reasoning comes with encrypted content, a chat
choice finishes with `tool_calls` just when it has calls, and something is left of an
answer when it is translated (`output_text`, which the code falls back on,
is not modelled). A client asks again after an answer that holds calls and did not
stop for them (`CutShort`). A call is its identity: its arguments
travel along, parsed for the client and printed for upstream, and are not modelled.

## 3. Runs

| run | bounds | states | what it shows |
| --- | --- | --- | --- |
| `AccountStore` | keys `{k1, unknown}`, 2 handlers, symmetric | 567 k | see below |
| `AuthSession` | 2 accounts, 1 flow, 2 rejections, 10 workloads | 238 k | see below |
| `ControlFeed` | 1 client, 2 connections, capacity 2, 2 auth changes, 1 edit | 410 k | see below |
| `AccountsFeed` | 1 client, 2 connections, capacity 2, 2 surfaces, 3 writes of the registry | 4.5 M | see below |
| `message_stream` | 2 calls or outputs, 2 parts, 4 upstream events (2 a turn), 2 turns, 6 flows | 1.04 M | see below |
| `instance` | 2 or 3 launches, 2 ports to scan, 1 edit, up to 2 faults, 7 worlds | 340 k | see below |
| `gateway` | 1 client and 2 turns, or 2 clients and 1 turn; 3 models, 14 worlds | 469 k | see below |
| `OnlyRemoveDropsAccounts` | as AccountStore | violation | overlapping helpers lose an account |
| `RemovedStaysRemoved` | as AccountStore | violation | the legacy file brings a removed account back |
| `AbandonedIsReaped` | capacity 1, nothing changes | violation | a client that left during the snapshot is written to for ever |
| `TwoSurfaces` | 2 surfaces | violation | REST and RPC edits overlap, the older list wins |
| `ExitSparesTheRestored` | 1 launch, any fields | violation | a value equal to ours is restored and then deleted |

### What the passing runs show

*AccountStore.* Whatever the interleaving and wherever the process dies, a
reader never gets a dangling active key or a flag without a record
(`NoDanglingActive`). If helpers do not overlap, also: no reader or boot finds a
torn file (`SerialisedNeverTorn`), only a remove loses an account
(`SerialisedNeverLoses`), the next boot follows the last completed sign-out,
sign-in or switch (`NextBootFollows`), and flags go away only with their account
or by its own success (`FlagsClearedByOwner`).

*AuthSession.* With one event at a time, no requested switch and no failing
write, after all calls have returned, token and user name are none or the active
account's and the error state holds no token;
no bearer is there without a GitHub token, and this holds also where a sign-out
meets the online retry (`SettledCoherent`). Under the same conditions a credential
in memory has a live loop (`SomethingKeepsMinting`). However calls overlap, loops
of a kind never stack (`OneLiveLoop`), and a user who is out stays out although the
refresh loop runs on: flows cancelled before their registry write, refreshes,
retries' mints and completions neither sign in nor store a GitHub token
(`SignedOutSticks`; its definition `Out` names what must not be in flight). A degrade gives up only with everything
flagged, where writes succeed (`GivesUpWithAllFlagged`), and always ends (`DegradeEnds`), and a first
mint that failed transiently recovers (`Recovers`).

*ControlFeed.* What a live subscription has shown or still owes ends at the
current auth status (`AuthNeverMissed`). The auth status a client is shown
never goes back, across subscriptions too, is no older than the subscription, and a
dropped client is shown at most the frame on its way (`ImplementsFeed`); a client
that vanished, even during the snapshot, is reaped by the overflow of its queue
unless its connection times out first (`GoneIsReaped`); one that stays follows the
server (`FollowsTheServer`). *AccountsFeed.* Whatever edits overlap, whoever writes
the registry silently and whichever list fails to be read: while the list broadcast
last is the one on disk, each live subscription ends at it
(`AccountsNeverMissed`). Where it is not, viewers show an older list: after a silent
write until the next edit, and after overlapping edits of two surfaces for good
(section 4).

*message_stream.* For a serial upstream each flow keeps the block protocol
(`ImplementsBlockProtocol`) and reads each part once (`PartsReadOnce`). Also with
interleaved calls, arguments are read in their call's block
(`ArgumentsReachTheirCall`) and a run of line breaks beyond the limit is cut,
however it is split over deltas (`WhitespaceCut`; breaks in arguments that come
whole are not counted). Of the agent: block indices climb across
turns whatever the upstream does (`AgentIndicesClimb`), each server tool is
followed by its own result (`ServerToolsAnswered`), the usage told is that of all
turns (`EveryTurnBilled`). If neither the upstream nor a tool stays silent for
ever, a Responses stream always ends told, the others when their upstream finishes
or fails (`EveryStreamEndsTold`).

*instance.* A boot can trust the marker (`MarkerTellsTheLastEnd`); a session
that met no other keeps marker and pidfile while it serves, whatever failed
boots and evicted processes do (`LoneSessionKeepsItsTraces`); each exit but
SIGKILL leaves in each field of the settings what the user last set or what was there
when the snapshot was taken, or nothing where the program cannot tell one of these
from its own (`ExitGivesSettingsBack`; section 4 has what this concedes); who is told to stop
stops, though a listener hangs (`ShutdownEnds`); each launch comes up or gives up
(`EveryLaunchSettles`).

*gateway.* Each request sent upstream holds everything the user and the tools
said, once, and each call with its answer behind it, except what the code says
it gives up, every document sent through chat among it (`PayloadFaithful`,
`GivenUp`). Within one model and API the
assistant's turns come back, with signatures and identities (`TurnsComeBack`):
through Messages as they were said; through Responses restated, parts
joined, summaries joined and trimmed, blank items gone (`Restated`); through chat the
choices as one message (`FromChoices`); calls by identity. The model list heals while requests keep coming
(`CatalogHeals`), and the feed is told the final sum of the usage unless the
last query failed (`UsageIsTold`).

### Bounds, and why they are enough

AccountStore: the hazards are pairwise (two writers, one temporary file), so two
handlers meet them all; one ordinary key and `unknown@host` cover every case of
the migration and are two accounts for the interactions that need two. Nothing is
counted, so the state space is finite without cutting a behaviour. AuthSession:
two accounts let the sweep and the switch have another account to go to; a limit
of two rejections separates "rejected once" from "rejected for good" (the code's
is three). Overlaps are checked for the pairs and triples of events that share
state; all events overlapping is beyond TLC. ControlFeed: capacity 2 gives
empty, partly full, full and overflow; two connections give a reconnect; two
changes allow one before or during and one after each snapshot
step; three writes of the registry are two edits whose lists could be swapped and
a silent one among them. `MaxConnections`, `MaxAuth` and
`MaxEdits` bound the run and nothing else.

message_stream: two calls, outputs or parts can interleave or collide; four
events open, fill and close two of them; a limit of one line break
(`MaxWhitespace`; the code's is 20) has below, at and above; two turns give an
intermediate and a last one, one use of a tool gives the limit. `MaxFed`,
`MaxTurnFed` and `MaxEvents` bound the chunks of a chat answer (4), of a turn of
the agent (2) and the events of a Responses answer (4). instance: two launches
give every eviction, three a race of two evictors; two ports to scan give a next
one and an exhausted scan; one edit and one or two faults per behaviour, placed
anywhere, over fields that are empty or foreign; without edits, over fields of every
kind. gateway: two turns let an answer come back in the next request with a
result beside it; two results are merged with up to three asides, which has
fewer, as many and more than the results; two clients meet at the rate limit, the list's guard
and the usage queue. `StaleAfter` and `PrimeCooldown` are 1 and 2 ticks for 6 h
and 60 s: they never meet, since a list is stale only when there is one and
primed only when there is none, so their ratio does not matter. `MaxListings`, `MaxEvents` and
`world.turns` bound the run and nothing else.

Deadlock is checked in AccountStore, ControlFeed and gateway. It is off for
AuthSession (a signed-out session with nothing in flight and a workload without
sign-ins has nothing to do), message_stream (a stream ends) and instance (all
launches may have ended).

### Fairness

AccountStore states none: only safety is asked of it. In AuthSession every reply
comes (each call to GitHub has a timeout, each file operation settles), sleeps
end, and an endpoint that is asked for ever answers in the end (strong fairness
on a due retry or refresh and on its success); the last one is an assumption
about GitHub, used by `Recovers` only. Users need do nothing. In ControlFeed the
event loop runs its timers and settled promises, and a client that is there
reads and redials, and a write to a connection known to be cut resolves; clients need
not leave, changes need not happen, and a write to a client that vanished may hang for
ever. In MessageStream the event loop writes and dispatches, and nothing is assumed of
upstreams and tools: a completion has no timeout (`send-request.ts:152`), a
search through Copilot has none either, and the fetch of a page clears its timer
before it reads the body. `EveryStreamEndsTold` therefore has the assumption in its
statement: weak fairness of the upstream's steps and of the tool's, that is,
neither stays silent for ever. In Instance a process whose loop turns takes its next step or
one of its exits; a listener need not close, a wedged process need not do
anything, and signals, kills and launches need not come. In Gateway time passes,
writes to the database end, the ticker fires and its query ends, a background
fetch of the list ends; and an upstream that is asked for the list for ever
gives a full one in the end (strong fairness, an assumption about GitHub, used
by `CatalogHeals` only). Clients need not send anything: `CatalogHeals` speaks of
behaviours in which they do.

## 4. Findings

Each is a violation run against a statement of the repository; details and
quotes are in `PROJECT.json`.

1. `github-token-store.ts:411` says no two writes interleave because the event
   loop serialises handlers. Helpers await three times; an account can be lost.
2. `routes/control/route.ts:200` says a restart drops a removed active key. The
   migrated account's legacy file stays and signs it in again.
3. `hub.ts:177` says a write that throws is the detector for connections whose
   abort nobody sees. Writes never throw: a client that left while its snapshot
   was built stays a subscriber for ever.
4. `routes/control/rpc.ts:132` says RPC and REST share a mutex. Each has its
   own.
5. `shutdown.ts:90` says that the second revert of an exit after a drain is a no-op.
   It deletes a value of the user's that equals ours, which the first one has
   restored as `config.ts:31` promises.

### Other comments the code does not keep

The models follow the code here too. No run is about these; each is seen from the
actions named, and the properties above are stated so as not to claim it.

- `auth-controller.ts:664` says the refresh loop stops on sign-out. `signOut` does not
  stop it (`SignOut` leaves `loops` alone).
- `token.ts:61` clears the needs-reauth flag because "the active credential
  just worked". In a live switch the mint is the target's while the old account
  is still the active one on disk (`SwitchMinted`).
- `auth-recovery.ts:188` clears the candidates' tokens "so the degraded error
  state is coherent". A flag that cannot be written throws past the clearing
  (`SweepFlagFails`, `SwitchFailsUnflagged`).
- `hub.ts:51` says a dropped feed reconnects. The hub's `close` on the SSE sink
  does nothing, so the client keeps an open and silent stream (`Removed` leaves the
  link up).
- `config.ts:129` says that a self-heal must not record our own values as the
  user's. Over a routing that has no snapshot it does (`MoveProgram`, then a boot).
- `stream-error.ts:17` says that without an error event a stream that drops
  would close with no terminal event. The chat flow sends one only when reading
  throws: an upstream that ends without a `finish_reason` leaves the client there
  (`Mannered` excludes it).
- `web-tools/state.ts:30` says a use is counted for an invocation that returns
  an error too. Only successes are (`Counted`).

### Windows left open

These states are reachable in the model. No comment of the code claims
otherwise (or the claim is confined to a narrower case), so no property asserts
their absence and the properties above are stated without them:

- a sign-out during `addAccount` of a device flow: the poller does not read its
  signal again and stores the token; `SignedOutSticks` starts before that;
- `setUserName` runs before an `addAccount` that fails: the name is wrong;
- a requested switch that fails leaves its target's token and name in memory and
  the refresh loop stopped;
- a refresh in flight across a sign-out stores its bearer;
- a sign-in whose first mint fails transiently keeps the old account's bearer until
  the retry's mint;
- a re-arm in flight across a sign-out may renew and store the credential;
- the online retry's identity lookup, answered after a sign-out, signs in;
- the recovery sweep does not notice a sign-out;
- a rejected mint of a new sign-in within the grace window leaves the state
  polling, and a later cancel shows the old login;
- a flow that was started over an error and fails lands in error even if a
  retry signed the session in meanwhile;
- a late rejection or 401 after a sign-out can degrade a signed-out session.

Of message streams:

- a `finish_reason` straight after reasoning leaves the thinking block open at
  the end; an opaque signature that comes while a tool's block is open starts a
  block at the open index; deltas of an earlier parallel call are sent for a
  block that is closed already; interleaved Responses items reopen an index and
  send the full text again;
- a repeated `finish_reason` ends the stream twice, and a failure after it adds an
  error behind `message_stop`;
- line breaks in arguments that come whole, with the announcement of a call or
  with its end, are not counted;
- of several summaries of one reasoning item, one that comes whole is dropped if
  another was streamed, since they share a block;
- an upstream or a tool that never answers keeps the client waiting, with pings;
- an upstream's ping may precede `message_start`;
- an agent's turn that calls both a web tool and a client's tool goes on, and
  the client's call is not handed back; at the last turn `tool_use` is told
  although only server tools were called.

Of instances:

- SIGTERM runs the drain and the cleanup handlers at once, and the cleanup's exit
  usually comes before the drain removes the pidfile (so does the exit that
  `/_internal/shutdown` schedules);
- the process named by the pidfile is signalled without asking whether it is an
  instance: it may be a recycled pid or an instance on another port;
- sessions that overlap (port policy "next") share marker, pidfile and settings
  and undo each other's;
- routing toggled by the command line is not known to an instance that runs;
- edits while routed are lost on a revert, and where both fields were set by the
  user to what we write, nothing is written, no snapshot is taken and the exit deletes
  both;
- a port found free may be taken before it is bound, which ends the boot.

Of the request path:

- in wait mode the rate limit stores the time a request arrived, so requests
  come closer than the limit, waiters go on together, and the time may go back;
- signatures go to models that did not make them: a GPT signature to another
  model through chat, a chat one to Claude through Messages;
- a Responses item whose text is blank is dropped, with it the signature of its reasoning;
  summaries are trimmed and their segments merged into one, refusals come back as texts;
- arguments that are no JSON object come back as `raw_arguments`, empty ones as `{}`;
- unsigned reasoning is not sent back to Claude, a
  calling choice that comes first puts calls before thinking;
- texts beside a result with a tool reference, and attachments when no result
  can take them, are discarded (the code says so);
- through chat nothing is sent of a document: the same notice stands for each (the code
  says so);
- an answer that is incomplete or failed ends with `max_tokens`, `end_turn` or null though
  it holds calls;
- a slow fetch of the old account's list may overwrite the new account's, and a
  list loaded empty is refreshed only when stale or asked for;
- a compaction behind a call of the same output would leave that call's result
  without it;
- a database that failed to open stays failed, and a failed query of the sum is
  repeated only after the next event.

The definition `Usual` names what `SettledCoherent` and `SomethingKeepsMinting`
leave out: overlapping events, requested switches and failing writes; `Out` names what `SignedOutSticks` leaves out.

## 5. Proofs

A theorem holds for every value of the constants, under the assumptions the
modules name: a few values are distinct (`KeysAssumption`, `LaunchesAssumption`,
part of `SessionAssumption`), limits and bounds are numbers, positive where the
code's are (`CapacityAssumption`, `BoundsAssumption`, `PortScanLimitAssumption`,
`LimitsAssumption`, `GatewayAssumption`, `CatalogAssumption`, `UsageAssumption`),
part 0 of an item exists (`PartsAssumption`), and the workloads, worlds and
requests are of the kind the model knows (`SessionAssumption`,
`WorldsAssumption`, `RequestsAssumption`). Accounts, handlers, launches, clients
and calls may be any sets. What limits a property, one thing at a time or an upstream with manners, is part of
the property and not an assumption.

Each theorem follows one pattern: an invariant that is inductive, of which the
property is a consequence. Below is what had to be added to each property to make it
so, since that is why the code is right.

### AccountStoreProofs

| theorem | property |
| --- | --- |
| `TypeCorrect`, `NeverDangling` | `TypeOK`, `NoDanglingActive` |
| `NeverTorn`, `NeverLoses` | `SerialisedNeverTorn`, `SerialisedNeverLoses` |
| `FlagsStay`, `NextBoot` | `FlagsClearedByOwner`, `NextBootFollows` |

`NoDanglingActive` is not inductive: a helper will rename what it computed
earlier, and the temporary file may already hold it. `IInv` says that the
registries on disk, in the temporary file and in every helper's image are well
formed, and that a suspended helper has an operation. Lemma
`ApplyKeepsWellFormed` is the heart: each pure function keeps the active key and
the flags among the records. The rest follows because files only ever receive
images, `Unreadable`, or nothing, and both of the latter read as empty.

For writers that do not overlap, `SerialInv` adds that one handler is busy, that
its descriptor is open on the temporary file, and that until its rename the disk
still is what it read (`OwnsTheWrite`): so a rename is the pure function applied
to the disk (`SerialRename`), and what a write changes is what that function
changes (`ApplyKeepsOthers`).

### AuthSessionProofs

| theorem | property |
| --- | --- |
| `TypeCorrect` | `TypeOK` |
| `OneLoop`, `SignOutSticks` | `OneLiveLoop`, `SignedOutSticks` (calls overlap; the latter once `Out`) |
| `LastResort` | `GivesUpWithAllFlagged` (one thing at a time) |
| `KeepsMinting`, `SettledAgrees` | `SomethingKeepsMinting`, `SettledCoherent` (calm workloads) |

`TInv` adds to the types that a flow or a switch that is at work has an account.
`LoneInv` is `OneLiveLoop` without cardinalities: who starts a loop has stopped
the one in place. `SweepsInDegrade` ties the sweep to the degrade it is part of,
which is what keeps a user who is out out where recovery is off: there a late
degrade only ends in error (`OutUnlessRecovering`). `SerialInv` says that
one activity is in flight when `workload.serial`; every action therefore finds the
others at rest (`OthersRest`) and leaves at most itself. `SweepInv`: while the
sweep runs, each account is flagged, still to be tried or being tried.

`CalmInv` is the long one: what every handler finds and leaves as long as one
thing happens at a time, nobody asks for a switch and the registry can be
written. It says of each pc which token, user name, bearer and state are in
memory, whose they are, and whether a loop runs, and so covers the windows in
which neither `SomethingKeepsMinting` nor `SettledCoherent` claims anything.
`WipeInv` does the same for sign-outs that interleave with an online retry.

### ControlFeedProofs

| theorem | property |
| --- | --- |
| `TypeCorrect` | `TypeOK`, with the queues within their capacity |
| `NothingMissed`, `AccountsCaughtUp` | `AuthNeverMissed`, `AccountsNeverMissed` |
| `NeverGoesBack` | `ImplementsFeed`: the refinement |
| `SilentAfterDrop` | `DroppedStaysSilent`, for every subscriber, read or not; the run checks what a client sees of it, in `ImplementsFeed` |

`IInv` adds to the types that a subscriber's record fits its phase (a parked one
has an empty queue, an unused or ended one owes nothing), that a stream has one
reader, and `Caught`, the claim for every live subscriber that is read. The lemmas
say what a reader ends with when a frame is queued at the tail, when a snapshot is
put in front, and when the head is taken; each action is then an application of
one of them. A write to a cut connection loses a frame, so `OneReader` says that
whoever reads a stream has its link up. For the accounts, `Announced` claims `Caught`
while the list broadcast last is the one on disk: a write of the file makes it
vacuous, since no list is ahead of the disk, and a broadcast of that very list puts it
at the end of every queue.

`NeverGoesBack` needs the order of what is still to come, which `Caught` leaves open
but for the last frame. `Tracks` says for each client that reads a stream, dropped or
not, that the versions on their way go up from the one shown to the current
(`Ordered`), and that no snapshot stands in a queue: it goes to the head and is taken in
the same step. One lemma for each thing that happens to a subscriber's record
(`PushedOrder`, `RemovedOrder`, `SnapshotOrder`, `FlushOrder`) says that it stays so and
what it is to Feed: overflow, failure and leaving are losses, a flush shows a
version, connecting subscribes, everything else stutters.

### InstanceProofs

| theorem | property |
| --- | --- |
| `TypeCorrect` | `TypeOK` |
| `MarkerTrue`, `LoneSessionKeeps` | `MarkerTellsTheLastEnd`, `LoneSessionKeepsItsTraces` |
| `ExitRestores` | `ExitGivesSettingsBack` |

`MarkInv`: only who serves drains, and a session that met no other is the only
one up. Steps of a launch that is still booting touch nothing shared
(`Advances`), which disposes of most of them. `SettingsInv` says that the
settings can be given back from where they are (`Restorable`): a snapshot holds
what `had` says, and each field is then ours or what the user has set since; without
one each field is accounted for by itself (`Accounted`): it is the user's, or gone
where the user's cannot be told from ours, or ours where the user had nothing.

### MessageStreamProofs, BlockProtocolProofs

| theorem | property |
| --- | --- |
| `TypeCorrect` | `TypeOK` |
| `BreaksLimited` | `WhitespaceCut` (any upstream) |
| `IndicesClimb` | `AgentIndicesClimb` (any upstream) |
| `TurnsBilled` | `EveryTurnBilled` |
| `StreamsWellFormed` | `ImplementsBlockProtocol`: the refinement |
| `ToolsAnswered` | `ServerToolsAnswered` |
| `ArgumentsReach` | `ArgumentsReachTheirCall` (any interleaving) |
| `PartsOnce` | `PartsReadOnce` |

`MessageStreamProofs` begins with what each handler of the two translators
returns, as a state and as events. `Typed` is their closure. `RunInv`: what a
translator has counted of a call's line breaks is what the client will have read
of them in counted deltas once `pending` is written. `ClimbInv`: the events that wait take the client from
its next index to the agent's cursor. `BilledInv`: terminal events are held back
while a turn runs, and the usage is the number of turns.

The refinement maps `wire`, what a client derives from what it has read, to the
abstract state. An event waits in `pending` for a long time before it is read, so
the invariant must say of a whole sequence of events that it will be read well.
`BlockProtocolProofs` does this with positions: a position is a phase, the open
block or none, and the next index; `Goes(p, e, q)` is one event, `Leads(p, s, q)`
a sequence of them. `WellInv` then says that what waits leads from where the client
is to where the translator believes it to be (`Here`), that in the agent's
flow the turn's own stream leads to a position of its own and the map
carries each of its open blocks to the client's, and, once the upstream has ended,
that what waits concludes the stream. Writing an event takes one off the front,
translating one appends what the handler returns, and each handler has a lemma
that says where its events lead from where. Nothing is proved by induction: a
sequence that leads somewhere carries the positions on its way as a function.

`StreamsWellFormed` is for serial upstreams. `WellInv` itself holds for `Tame`
ones: the agent's dispatch needs the upstream's manners only, since in its flow a
call comes with its arguments. `AnswerInv` is about the blocks
read and those that wait, as one sequence: they are paired, and a server tool at
their end is due, either running or about to be started by its block's stop; an
ended stream starts no block, and does not end regularly while one waits.

`ArgumentsReach` keeps books: sets of pairs of a block's index and the call or part
it was started for. `BookInv` says that what the client has read
and what waits make one such book (`Ledger`, `Starts`), in which no index stands
twice, that the arguments read lie in it and those that wait will (`Kept`), and
that the translator's own numbers agree with it: the chat translator's `calls`,
the Responses translator's `blockByKey` and `functions` (`Numbering`), the agent's
`map` from a turn's indices to the client's. No order of events is assumed, so a block that
an interleaved upstream closes and opens again is still the one its call has in
the book.

`PartsOnce` follows a part through three places. `OnceInv` names the parts that
were said in pieces and those that were said whole, to the client or among what
waits, where an answer comes last (`Says`), and ties them to the upstream
(`PartsKnown`): a part said whole is over; one said in pieces is over too, or its
block is the open one and `hasDelta` holds it. That is why the guard `blockHasDelta`
suffices when the upstream ends one part before it begins another, and
only then: closing a block forgets that it had a delta. The chat flow and the
agent send no complete text at all (`PiecesInv`).

### GatewayProofs, PayloadProofs

| theorem | property |
| --- | --- |
| `TypeCorrect` | `TypeOK` |
| `PayloadWhole` | `PayloadFaithful` |
| `TurnsReturned` | `TurnsComeBack` |

`TypeCorrect` is `TypeOK`, which says more than types. `CatalogInv`: a background
fetch of the model list is under way exactly while its guard is up, so it is
single-flight whatever requests and tick between. `UsageInv` adds that sums being
taken and the dirty mark together are no more than the events recorded, which
bounds the sums. `RequestInv` adds that from its arrival to its answer a request's
conversation ends with the user's message. A step for one client is judged by
where it leaves that client's request (`OneRequest`).

`PayloadWhole` holds for conversations of any length, any number of clients and every
setting. `TalkInv` has two parts. `Talked`: a conversation is such that every user message
answers exactly the calls of the turn before it (`Heard`), every turn makes calls of its
own, each once, and tells the client of them (`TurnOf`), and a turn is followed by a user
message. `SentOf`: a request under way is the translation of its conversation. The invariant
is preserved because whatever upstream answers is a turn (`AnswerIsTurn`, by cases on
the three forms of answer; one that is `CutShort` adds no turn) and what the user says next answers it (`NextHeard`).

Through chat the identities a payload bears are counted without those of documents
(`BorneIds`).

The rest is about data, and needs no step. `PayloadProofs` goes along the code:

1. Preparation (`Rewritten`). The merges of texts and attachments into results
   are a table: which positions of the content go to which result
   (`Given`, `SharedOut`). No position goes to two results, so nothing is doubled; the
   positions of no result stay or are among what is given up (`Lost`, which
   `GivenUp` contains).
2. Translation. Each message becomes a piece of the payload: the
   results of a user message stand first, one for each call asked, then its words; the
   piece of a turn holds its calls. For the Responses API, whose `translateMessage` walks
   a message holding parts back, an induction over the blocks says what each prefix has
   become (`Walk`, `UserWalked`).
3. A payload is pieces laid end to end (`Laid`), with for each element the
   message it comes from. Calls and results of neighbouring pieces then match
   (`Orderly`), and identities of different messages differ.
4. The cut at the latest compaction is a cut between pieces, since a compaction is
   what a turn begins with (`CompactsFirst`).

Here induction is needed, and the library's theorems, which take an operator, cannot be
applied. Two lemmas replace them: `Induction` is about a set of numbers that has 0 and every
successor, and is applied to the set of the numbers up to which a claim holds; that a
recursive function has a value at all, as the translations' walks and FlattenSeq need,
is proved with it too (`JoinExists`, `WalkExists`).

`TurnsReturned` adds one conjunct to the inductive invariant. `EchoInv`: every turn of
upstream's that a conversation holds comes back through the API it came by, taken by
itself (`Returned`): the assistant's part of the piece it is translated to is what
upstream said, in the form `SaidIn` gives it. It is preserved because a turn, once held, does not change, and because
every answer has that form when it comes (`AnswersReturn`). What remains is data again:

1. One turn. `MessagesReturn`: of Claude's thinking, what `filterAssistantThinkingBlocks`
   drops is what has no text. `ChatReturn`: the choices of an answer, however upstream
   split them, become one message with their texts, thoughts and calls and the first
   signature. `ResponsesReturn`: an item's block, if it has one, becomes the restated item,
   also where a thinking block carries the item's identity in its signature (`Restates`,
   `AllRestated`). Each has a hypothesis on
   the answer, shown of every answer upstream may give (`AnswerByClaude`, `AnswerProper`,
   `AnswerRestates`).
2. All turns. The assistant's part of a payload is that of its pieces, laid end to end
   (`PartsTogether`), and pieces of user messages have none (`UserSilent`); so what
   returns turn by turn returns in order (`TurnsTogether`). Preparation rewrites user
   messages and leaves turns alone (`TalkedReady`).
3. The cut. Cutting the input at its latest compaction and cutting what was said at
   its latest compaction leave the same (`InputBack`), as a compaction is always the
   assistant's. `TalkedBack` puts the three together.

For it `Bind` stands for what a sequence becomes when each element becomes a sequence; its lemmas
say how it goes with FlattenSeq, with selection and with composition.

`WorldsAssumption` says which worlds there
are: the ways of talking, models and lists Gateway distinguishes.

### Only model-checked, and why

- Liveness: `GoneIsReaped`, `FollowsTheServer`, `DegradeEnds`, `Recovers`,
  `EveryStreamEndsTold`, `ShutdownEnds`, `EveryLaunchSettles`, `CatalogHeals`,
  `UsageIsTold`. The prover handles neither fairness nor ENABLED.

No model declares a RECURSIVE operator.

## 6. Plan

In this order; done means modelled, checked and, where said, proved.

1. *Done.* AccountStore, AuthSession, ControlFeed, each with its proofs.
2. *Done.* Instance with ClaudeSettings: launches, eviction, shutdown, settings,
   with its proofs.
3. *Done.* MessageStream with the web-tools agent; the proof that it implements
   BlockProtocol.
4. *Done.* Gateway: the request path with its translations, the model list, the
   rate limit, the usage tally.
5. *Done.* `ArgumentsReachTheirCall` and `PartsReadOnce` of MessageStream, by
   invariants on what is read and what waits, as `AnswerInv` is. `PayloadFaithful` of
   Gateway, by what each translation of a request keeps. `TurnsComeBack`, by
   what each translation of an answer and of a turn keeps. Every safety and action property a
   run checks now has a theorem.
6. *Done.* Feed, the abstract feed of the auth status, with the proof that ControlFeed
   implements it.
7. Left: the same for the accounts list with one surface for edits; the topics ControlFeed
   leaves out; the sidecar supervisor and the settings endpoints.

## 7. Running

In this directory, with TLC, the community modules and tlapm installed:

    tlc -workers 2 -config AccountStore.cfg MCAccountStore
    tlc -workers 2 -config AuthSession.cfg MCAuthSession
    tlc -workers 2 -config ControlFeed.cfg MCControlFeed
    tlc -workers 2 -config AccountsFeed.cfg MCControlFeed
    tlc -workers 2 -config MessageStream.cfg MCMessageStream
    tlc -workers 2 -config Instance.cfg MCInstance
    tlc -workers 2 -config Gateway.cfg MCGateway
    tlc -config <Finding>.cfg <its MC module>     (section 3; ends in a violation)
    tlapm AccountStoreProofs.tla
    tlapm AuthSessionProofs.tla
    tlapm ControlFeedProofs.tla
    tlapm InstanceProofs.tla
    tlapm GatewayProofs.tla
    tlapm PayloadProofs.tla
    tlapm MessageStreamProofs.tla
    tlapm BlockProtocolProofs.tla
