---------------------------- MODULE AuthSession ----------------------------
(***************************************************************************)
(* The live authentication session: the device-flow controller, the        *)
(* Copilot token mint with its refresh loop, the online retry, the re-arm, *)
(* the degrade with its optional recovery sweep, the live account switch   *)
(* and sign-out.  Source: src/lib/auth/{auth-controller,token,             *)
(* copilot-online-retry,auth-recovery}.ts and start/bootstrap.ts.          *)
(*                                                                         *)
(* All of it runs on one event loop and shares module-level variables.  An *)
(* action is what one handler does between two awaits, so the calls in     *)
(* flight interleave exactly where the code awaits.                        *)
(*                                                                         *)
(* Abstracted: a token is the account it belongs to (ghu_ tokens only: a   *)
(* gho_ token is not exchanged); replies of GitHub are nondeterministic;   *)
(* times are the two flags expired and grace; each registry helper is one  *)
(* step (AccountStore models its interior) over accounts that all have a   *)
(* record.                                                                 *)
(***************************************************************************)
EXTENDS Naturals, FiniteSets

CONSTANTS
    Accounts,
    None,
    Flows,        \* device flows that may exist at once
    MaxFatal,     \* maxFatalRefreshRetries
    Workloads     \* which events happen, whether they overlap, and
                  \* config.autoRecoverAccount

Events == {"start", "cancel", "expire", "signOut", "completion", "rearm",
           "switch", "refresh", "retry", "writeFails"}

ASSUME SessionAssumption ==
    /\ None \notin Accounts \cup Flows
    /\ MaxFatal \in Nat \ {0}
    /\ Workloads \subseteq [events: SUBSET Events, serial: BOOLEAN, autoRecover: BOOLEAN]

VARIABLES
    auth,        \* AuthState
    github,      \* state.githubToken: the account it belongs to
    copilot,     \* state.copilotToken: the account it was minted for
    user,        \* state.userName
    active,      \* registry: activeKey
    flagged,     \* registry: accounts with needsReauth
    flow,        \* each device flow: its ActiveFlow and where runPoller is
    loops,       \* refresh loops: the live one and stopped ones with a reply due
    retries,     \* online-retry loops, likewise
    rearm,       \* runRearm
    degrade,     \* runDegrade
    switch,      \* switchActiveAccountLive, for a request and for the sweep
    signingOut,  \* signOut waits for its registry write
    grace,       \* lastAuthSuccessMs is less than RECOVERY_GRACE_MS ago
    completion,  \* a completion request sent with a bearer awaits its answer
    workload     \* the events of this behaviour; serial: none starts while
                 \* another is in flight

vars == <<auth, github, copilot, user, active, flagged, flow, loops, retries,
          rearm, degrade, switch, signingOut, completion, grace, workload>>
tokens == <<github, copilot, user>>
registry == <<active, flagged>>
session == <<auth, tokens, registry, grace, workload>>
tasks == <<flow, loops, retries, rearm, degrade, switch, signingOut, completion>>

-----------------------------------------------------------------------------
Maybe == Accounts \cup {None}

SignedOut == [kind |-> "signed-out", login |-> None, flow |-> None]
SignedIn(a) == [kind |-> "signed-in", login |-> a, flow |-> None]
\* device-issued lasts no longer than the turn that installs the flow.
Polling(f) == [kind |-> "polling", login |-> None, flow |-> f]
FlowError == [kind |-> "flow-error", login |-> None, flow |-> None]
FatalError == [kind |-> "fatal-error", login |-> None, flow |-> None]

AuthState == {SignedOut, FlowError, FatalError}
             \cup {SignedIn(a) : a \in Accounts} \cup {Polling(f) : f \in Flows}

NoFlow == [pc |-> "idle", resume |-> None, acct |-> None, minted |-> FALSE,
           aborted |-> FALSE, expired |-> FALSE]
NewLoop == [pc |-> "sleep", live |-> TRUE, sent |-> None, fatals |-> 0]
NewRetry(hook) == [pc |-> "sleep", live |-> TRUE, sent |-> None, hook |-> hook]
NoRearm == [pc |-> "idle", sent |-> None, degrades |-> FALSE, acct |-> None]
NoSwitch == [pc |-> "idle", acct |-> None, todo |-> {}]
Switchers == {"request", "sweep"}

TypeOK ==
    /\ auth \in AuthState
    /\ <<github, copilot, user, active>> \in Maybe \X Maybe \X Maybe \X Maybe
    /\ flagged \subseteq Accounts
    /\ flow \in [Flows -> [pc: {"idle", "code", "poll", "user", "add", "mint", "models"},
                           resume: Maybe, acct: Maybe, minted: BOOLEAN,
                           aborted: BOOLEAN, expired: BOOLEAN]]
    /\ loops \subseteq [pc: {"sleep", "wait"}, live: BOOLEAN, sent: Maybe,
                        fatals: 0 .. MaxFatal - 1]
    /\ retries \subseteq [pc: {"sleep", "mint", "models", "user"}, live: BOOLEAN,
                          sent: Maybe, hook: BOOLEAN]
    /\ rearm \in [pc: {"idle", "mint", "read", "renew", "save", "remint"},
                  sent: Maybe, degrades: BOOLEAN, acct: Maybe]
    /\ degrade \in {"idle", "flag", "sweep"}
    /\ switch \in [Switchers -> [pc: {"idle", "read", "next", "preflight", "mint",
                                      "commit", "models"},
                                 acct: Maybe, todo: SUBSET Accounts]]
    /\ {signingOut, completion, grace} \subseteq BOOLEAN
    /\ workload \in Workloads

-----------------------------------------------------------------------------
(* What is in flight *)

CurrentFlow == auth.flow

Settled ==
    /\ \A f \in Flows : flow[f].pc \in {"idle", "poll"}
    /\ \A x \in loops \cup retries : x.pc = "sleep"
    /\ rearm.pc = "idle" /\ degrade = "idle" /\ ~signingOut /\ ~completion
    /\ \A s \in Switchers : switch[s].pc = "idle"

MayStart == workload.serial => Settled
Starts(e) == e \in workload.events /\ MayStart

\* Aborting a loop's controller: a sleep rejects and the loop ends; a request in
\* flight is not cancelled, and the loop goes on from its reply.
Stopped(S) == {[x EXCEPT !.live = FALSE] : x \in {y \in S : y.pc # "sleep"}}

AbortCurrent(fl) ==
    IF CurrentFlow = None THEN fl ELSE [fl EXCEPT ![CurrentFlow].aborted = TRUE]

Ended(f) == [flow EXCEPT ![f] = IF CurrentFlow = f THEN [@ EXCEPT !.pc = "idle"]
                                ELSE NoFlow]

ClearTokenTrio == github' = None /\ copilot' = None /\ user' = None

\* Mutant: the refresh loop in place is not stopped.
MintOkStacks(a) ==
    /\ copilot' = a
    /\ flagged' = flagged \ {active}
    /\ loops' = loops \cup {NewLoop}

\* setupCopilotToken's success: store the bearer, clear the active account's flag,
\* replace the refresh loop.
MintOk(a) ==
    /\ copilot' = a
    /\ flagged' = flagged \ {active}
    /\ loops' = Stopped(loops) \cup {NewLoop}

\* markAuthDegraded and runDegrade up to its first await.  The arguments are what
\* the caller's own step makes of the flows and of the two loops.
MarkAuthDegraded(fl, ls, rs) ==
    IF degrade # "idle" \/ grace
    THEN /\ flow' = fl /\ loops' = ls /\ retries' = rs
         /\ UNCHANGED <<github, copilot, user, degrade>>
    ELSE /\ flow' = AbortCurrent(fl)
         /\ loops' = Stopped(ls)
         /\ retries' = Stopped(rs)
         /\ ClearTokenTrio
         /\ degrade' \in IF auth = FatalError THEN {"idle", "flag"} ELSE {"flag"}

\* markSignedIn; rs is what is left of the online retries otherwise.
MarkSignedIn(a, rs) ==
    /\ auth' = SignedIn(a)
    /\ grace' = TRUE
    /\ retries' = Stopped(rs)

-----------------------------------------------------------------------------
(* Boot: the outcomes of bootstrapUpstream, which ends before requests arrive. *)

Session(st, g, c, u, ls, rs, gr) ==
    /\ auth = st /\ github = g /\ copilot = c /\ user = u
    /\ loops = ls /\ retries = rs /\ grace = gr

Init ==
    /\ workload \in Workloads
    /\ flagged \in SUBSET Accounts
    /\ \/ active = None /\ Session(SignedOut, None, None, None, {}, {}, FALSE)
       \/ \E a \in Accounts : active = a /\
             \/ a \notin flagged /\ Session(SignedIn(a), a, a, a, {NewLoop}, {}, TRUE)
             \/ /\ IF workload.autoRecover THEN flagged = Accounts ELSE a \in flagged
                /\ Session(FatalError, None, None, None, {}, {}, FALSE)
             \* logUser, the mint or the model catalog failed transiently
             \/ Session(SignedOut, a, None, None, {}, {NewRetry(TRUE)}, FALSE)
             \/ Session(SignedOut, a, None, a, {}, {NewRetry(TRUE)}, FALSE)
             \/ /\ a \notin flagged
                /\ Session(SignedOut, a, a, a, {NewLoop}, {NewRetry(TRUE)}, FALSE)
    /\ flow = [f \in Flows |-> NoFlow]
    /\ rearm = NoRearm
    /\ degrade = "idle"
    /\ switch = [s \in Switchers |-> NoSwitch]
    /\ signingOut = FALSE
    /\ completion = FALSE

-----------------------------------------------------------------------------
(* Device flow *)

CaptureResume ==
    IF CurrentFlow # None THEN flow[CurrentFlow].resume ELSE auth.login

\* startDeviceFlow up to its await; with a running flow it only returns its code.
StartDeviceFlow(f) ==
    /\ Starts("start")
    /\ CurrentFlow # None => flow[CurrentFlow].expired
    /\ flow[f].pc = "idle" /\ CurrentFlow # f
    /\ flow' = [AbortCurrent(flow) EXCEPT
                   ![f] = [NoFlow EXCEPT !.pc = "code", !.resume = CaptureResume]]
    /\ UNCHANGED <<session, loops, retries, rearm, degrade, switch, signingOut, completion>>

\* getDeviceCode resolves: install the flow and run its poller to the first await.
InstallFlow(f) ==
    /\ flow[f].pc = "code"
    /\ auth' = Polling(f)
    /\ flow' = [g \in Flows |->
                   IF g = f THEN [flow[f] EXCEPT !.pc = "poll"]
                   ELSE IF flow[g].pc = "idle" THEN NoFlow ELSE flow[g]]
    /\ UNCHANGED <<grace, workload, tokens, registry>>
    /\ UNCHANGED <<loops, retries, rearm, degrade, switch, signingOut, completion>>

DeviceCodeFails(f) ==
    /\ flow[f].pc = "code"
    /\ flow' = Ended(f)
    /\ UNCHANGED <<session, loops, retries, rearm, degrade, switch, signingOut, completion>>

FlowExpires(f) ==
    /\ "expire" \in workload.events
    /\ flow[f].pc # "code" /\ ~flow[f].expired
    /\ flow[f].pc # "idle" \/ CurrentFlow = f
    /\ flow' = [flow EXCEPT ![f].expired = TRUE]
    /\ UNCHANGED <<session, loops, retries, rearm, degrade, switch, signingOut, completion>>

\* The user approves the code as account a; pollAccessToken resolves.
Approved(f, a) ==
    /\ MayStart
    /\ flow[f].pc = "poll" /\ ~flow[f].aborted
    /\ flow' = [flow EXCEPT ![f].pc = "user", ![f].acct = a]
    /\ UNCHANGED <<session, loops, retries, rearm, degrade, switch, signingOut, completion>>

\* flowFailureState: an attempt made over a session falls back to that session.
FlowFailureState(f) ==
    IF flow[f].resume # None THEN SignedIn(flow[f].resume) ELSE FlowError

\* addAccount may fail where the workload has failing writes.
WhereWriteFails == IF "writeFails" \in workload.events THEN {"add", "commit"} ELSE {}

\* The code expires or is denied, the identity lookup or the registry write fails.
FlowFails(f) ==
    /\ flow[f].pc \in {"poll", "user"} \cup WhereWriteFails /\ ~flow[f].aborted
    /\ auth' = FlowFailureState(f)
    /\ flow' = [Ended(f) EXCEPT ![f] = NoFlow]
    /\ UNCHANGED <<grace, workload, tokens, registry>>
    /\ UNCHANGED <<loops, retries, rearm, degrade, switch, signingOut, completion>>

\* The poller of an aborted flow finds the signal set when its call returns; for
\* addAccount only if the write failed (see AccountAdded).
AbortedFlowEnds(f) ==
    /\ flow[f].pc \in {"poll", "user"} \cup WhereWriteFails /\ flow[f].aborted
    /\ flow' = Ended(f)
    /\ user' \in {user} \cup IF flow[f].pc = "user" THEN {flow[f].acct} ELSE {}
    /\ UNCHANGED <<auth, github, copilot, grace, workload>>
    /\ UNCHANGED <<loops, retries, rearm, degrade, switch, signingOut, completion>>
    /\ UNCHANGED registry

\* Mutant: the signal is not read again after the identity lookup.
IdentityResolvedUnchecked(f) ==
    /\ flow[f].pc = "user"
    /\ user' = flow[f].acct
    /\ flow' = [flow EXCEPT ![f].pc = "add"]
    /\ UNCHANGED <<auth, github, copilot, grace, workload>>
    /\ UNCHANGED <<loops, retries, rearm, degrade, switch, signingOut, completion>>
    /\ UNCHANGED registry

IdentityResolved(f) ==
    /\ flow[f].pc = "user" /\ ~flow[f].aborted
    /\ user' = flow[f].acct
    /\ flow' = [flow EXCEPT ![f].pc = "add"]
    /\ UNCHANGED <<auth, github, copilot, grace, workload>>
    /\ UNCHANGED <<loops, retries, rearm, degrade, switch, signingOut, completion>>
    /\ UNCHANGED registry

\* addAccount resolves; the signal is not read again before the token is set and
\* the mint is sent.
AccountAdded(f) ==
    /\ flow[f].pc = "add"
    /\ active' = flow[f].acct
    /\ flagged' = flagged \ {flow[f].acct}
    /\ github' = flow[f].acct
    /\ flow' = [flow EXCEPT ![f].pc = "mint"]
    /\ UNCHANGED <<auth, copilot, user, grace, workload>>
    /\ UNCHANGED <<loops, retries, rearm, degrade, switch, signingOut, completion>>

AfterMint(f, minted) ==
    IF flow[f].aborted THEN Ended(f)
    ELSE [flow EXCEPT ![f].pc = "models", ![f].minted = minted]

FlowMinted(f) ==
    /\ flow[f].pc = "mint"
    /\ MintOk(flow[f].acct)
    /\ flow' = AfterMint(f, TRUE)
    /\ UNCHANGED <<auth, github, user, active, grace, workload>>
    /\ UNCHANGED <<retries, rearm, degrade, switch, signingOut, completion>>

\* Mutant: sign-in completes without scheduling the retry.
FlowMintOfflineForgets(f) ==
    /\ flow[f].pc = "mint"
    /\ flow' = AfterMint(f, FALSE)
    /\ UNCHANGED <<session, loops, retries, rearm, degrade, switch, signingOut, completion>>

FlowMintOffline(f) ==
    /\ flow[f].pc = "mint"
    /\ retries' = Stopped(retries) \cup {NewRetry(FALSE)}
    /\ flow' = AfterMint(f, FALSE)
    /\ UNCHANGED <<session, loops, rearm, degrade, switch, signingOut, completion>>

FlowMintFatal(f) ==
    /\ flow[f].pc = "mint"
    /\ MarkAuthDegraded(Ended(f), loops, retries)
    /\ UNCHANGED <<auth, grace, workload, rearm, switch, signingOut, completion>>
    /\ UNCHANGED registry

\* cacheModels returns, or fails, which is logged: the flow signs in.
FlowSignsIn(f) ==
    /\ flow[f].pc = "models"
    /\ auth' = SignedIn(flow[f].acct)
    /\ retries' = IF flow[f].minted THEN Stopped(retries) ELSE retries
    /\ flow' = [Ended(f) EXCEPT ![f] = NoFlow]
    /\ UNCHANGED <<grace, workload, loops, rearm, degrade, switch, signingOut, completion>>
    /\ UNCHANGED tokens /\ UNCHANGED registry

CancelDeviceFlow ==
    /\ Starts("cancel")
    /\ CurrentFlow # None
    /\ auth' = IF flow[CurrentFlow].resume # None
               THEN SignedIn(flow[CurrentFlow].resume) ELSE SignedOut
    /\ flow' = AbortCurrent(flow)
    /\ UNCHANGED <<grace, workload, tokens, registry>>
    /\ UNCHANGED <<loops, retries, rearm, degrade, switch, signingOut, completion>>

-----------------------------------------------------------------------------
(* Sign-out *)

SignOut ==
    /\ Starts("signOut")
    /\ flow' = AbortCurrent(flow)
    /\ retries' = Stopped(retries)
    /\ ClearTokenTrio
    /\ auth' = SignedOut
    /\ signingOut' = TRUE
    /\ UNCHANGED <<grace, workload, loops, rearm, degrade, switch, completion>>
    /\ UNCHANGED registry

SignOutDeactivates ==
    /\ signingOut
    /\ active' = None
    /\ signingOut' = FALSE
    /\ UNCHANGED <<auth, flagged, grace, workload>>
    /\ UNCHANGED <<flow, loops, retries, rearm, degrade, switch, completion>>
    /\ UNCHANGED tokens

-----------------------------------------------------------------------------
(* The Copilot refresh loop *)

\* A refresh is due: the loop asks for a new bearer with the GitHub token of the
\* moment, whatever it is.  Deadlines and retries are farther apart than
\* RECOVERY_GRACE_MS, so what started the loop or its sleep is no longer recent.
RefreshDue(x) ==
    /\ Starts("refresh") /\ ~grace
    /\ x.pc = "sleep"
    /\ loops' = (loops \ {x}) \cup {[x EXCEPT !.pc = "wait", !.sent = github]}
    /\ UNCHANGED <<session, flow, retries, rearm, degrade, switch, signingOut, completion>>

\* The loop goes back to sleep; an aborted one stops there.
LoopGoesOn(x, n) ==
    (loops \ {x}) \cup
        IF x.live THEN {[x EXCEPT !.pc = "sleep", !.sent = None, !.fatals = n]} ELSE {}

\* The signal is not read again before the bearer is stored.
RefreshOk(x) ==
    /\ x.pc = "wait" /\ x.sent # None
    /\ copilot' = x.sent
    /\ flagged' = IF x.fatals > 0 THEN flagged \ {active} ELSE flagged
    /\ loops' = LoopGoesOn(x, 0)
    /\ grace' = TRUE
    /\ UNCHANGED <<auth, github, user, active, workload>>
    /\ UNCHANGED <<flow, retries, rearm, degrade, switch, signingOut, completion>>

\* Mutant: one rejection too many is tolerated.
RefreshRejectedOnceMore(x) ==
    /\ x.pc = "wait" /\ x.fatals < MaxFatal
    /\ loops' = LoopGoesOn(x, x.fatals + 1)
    /\ UNCHANGED <<session, flow, retries, rearm, degrade, switch, signingOut, completion>>

RefreshRejected(x) ==
    /\ x.pc = "wait" /\ x.fatals + 1 < MaxFatal
    /\ loops' = LoopGoesOn(x, x.fatals + 1)
    /\ UNCHANGED <<session, flow, retries, rearm, degrade, switch, signingOut, completion>>

RefreshFatal(x) ==
    /\ x.pc = "wait" /\ x.fatals + 1 >= MaxFatal
    /\ MarkAuthDegraded(flow, loops \ {x}, retries)
    /\ UNCHANGED <<auth, grace, workload, rearm, switch, signingOut, completion>>
    /\ UNCHANGED registry

RefreshOffline(x) ==
    /\ x.pc = "wait"
    /\ loops' = LoopGoesOn(x, x.fatals)
    /\ UNCHANGED <<session, flow, retries, rearm, degrade, switch, signingOut, completion>>

-----------------------------------------------------------------------------
(* The online retry after a first mint that failed transiently *)

RetryDue(r) ==
    /\ Starts("retry")
    /\ r.pc = "sleep"
    /\ retries' = (retries \ {r}) \cup
                      IF github = None THEN {}
                      ELSE {[r EXCEPT !.pc = "mint", !.sent = github]}
    /\ UNCHANGED <<session, flow, loops, rearm, degrade, switch, signingOut, completion>>

\* A credential that went away during the mint takes the new bearer with it.
RetryMinted(r) ==
    /\ r.pc = "mint"
    /\ flagged' = flagged \ {active}
    /\ IF github = None
       THEN /\ loops' = Stopped(loops)
            /\ copilot' = None
            /\ retries' = retries \ {r}
       ELSE /\ loops' = Stopped(loops) \cup {NewLoop}
            /\ copilot' = r.sent
            /\ retries' = (retries \ {r}) \cup {[r EXCEPT !.pc = "models", !.sent = None]}
    /\ UNCHANGED <<auth, github, user, active, grace, workload>>
    /\ UNCHANGED <<flow, rearm, degrade, switch, signingOut, completion>>

RetryFatal(r) ==
    /\ r.pc = "mint"
    /\ MarkAuthDegraded(flow, loops, retries \ {r})
    /\ UNCHANGED <<auth, grace, workload, rearm, switch, signingOut, completion>>
    /\ UNCHANGED registry

\* Mutant: a second transient failure ends the retry.
RetryGivesUp(r) ==
    /\ r.pc = "mint"
    /\ retries' = retries \ {r}
    /\ UNCHANGED <<session, flow, loops, rearm, degrade, switch, signingOut, completion>>

RetryOffline(r) ==
    /\ r.pc = "mint"
    /\ retries' = (retries \ {r}) \cup IF r.live THEN {NewRetry(r.hook)} ELSE {}
    /\ UNCHANGED <<session, flow, loops, rearm, degrade, switch, signingOut, completion>>

\* The catalog is primed, best effort, and the loop returns; bootstrap's hook signs
\* in under the known identity, or sends for it.
RetryOnline(r) ==
    /\ r.pc = "models"
    /\ \/ /\ r.hook /\ user # None
          /\ MarkSignedIn(user, retries \ {r})
       \/ /\ r.hook => user = None
          /\ retries' = (retries \ {r}) \cup
                           IF r.hook
                           THEN {[r EXCEPT !.pc = "user", !.live = FALSE, !.sent = github]}
                           ELSE {}
          /\ UNCHANGED <<auth, grace>>
    /\ UNCHANGED <<workload, tokens, registry>>
    /\ UNCHANGED <<flow, loops, rearm, degrade, switch, signingOut, completion>>

\* The hook's logUser resolves; what happened since is not looked at.
RetryIdentified(r) ==
    /\ r.pc = "user" /\ r.sent # None
    /\ user' = r.sent
    /\ MarkSignedIn(r.sent, retries \ {r})
    /\ UNCHANGED <<github, copilot, workload, registry>>
    /\ UNCHANGED <<flow, loops, rearm, degrade, switch, signingOut, completion>>

RetryUnidentified(r) ==
    /\ r.pc = "user"
    /\ retries' = retries \ {r}
    /\ UNCHANGED <<session, flow, loops, rearm, degrade, switch, signingOut, completion>>

-----------------------------------------------------------------------------
(* Re-arm, from the control plane or from a rejected completion *)

SendCompletion ==
    /\ Starts("completion")
    /\ copilot # None /\ ~completion
    /\ completion' = TRUE
    /\ UNCHANGED <<session, flow, loops, retries, rearm, degrade, switch, signingOut>>

CompletionServed ==
    /\ completion
    /\ completion' = FALSE
    /\ UNCHANGED <<session, flow, loops, retries, rearm, degrade, switch, signingOut>>

\* Who asks: a completion that came back 401 degrades the session when the re-arm
\* turns out fatal, the control plane only reports it.
RearmCaller(degrades) ==
    IF degrades THEN completion /\ completion' = FALSE
    ELSE Starts("rearm") /\ UNCHANGED completion

RearmJoins(degrades) ==
    /\ RearmCaller(degrades)
    /\ rearm.pc # "idle"
    /\ rearm' = [rearm EXCEPT !.degrades = @ \/ degrades]
    /\ UNCHANGED <<session, flow, loops, retries, degrade, switch, signingOut>>

RearmStarts(degrades) ==
    /\ RearmCaller(degrades)
    /\ rearm.pc = "idle" /\ github # None
    /\ rearm' = [NoRearm EXCEPT !.pc = "mint", !.sent = github, !.degrades = degrades]
    /\ UNCHANGED <<session, flow, loops, retries, degrade, switch, signingOut>>

RearmWithoutToken ==
    /\ RearmCaller(TRUE)
    /\ rearm.pc = "idle" /\ github = None
    /\ MarkAuthDegraded(flow, loops, retries)
    /\ UNCHANGED <<auth, grace, workload, rearm, switch, signingOut>>
    /\ UNCHANGED registry

\* attemptMint succeeds and finishRearmOnline restores the session.
RearmMinted ==
    /\ rearm.pc \in {"mint", "remint"} /\ rearm.sent # None
    /\ MintOk(rearm.sent)
    /\ rearm' = NoRearm
    /\ IF user # None THEN MarkSignedIn(user, retries)
       ELSE grace' = TRUE /\ UNCHANGED <<auth, retries>>
    /\ UNCHANGED <<github, user, active, workload>>
    /\ UNCHANGED <<flow, degrade, switch, signingOut, completion>>

RearmOffline ==
    /\ rearm.pc \in {"mint", "remint"}
    /\ rearm' = NoRearm
    /\ UNCHANGED <<session, flow, loops, retries, degrade, switch, signingOut, completion>>

RearmRejected ==
    /\ rearm.pc = "mint"
    /\ rearm' = [rearm EXCEPT !.pc = "read", !.sent = None]
    /\ UNCHANGED <<session, flow, loops, retries, degrade, switch, signingOut, completion>>

\* renewGithubToken: read the active account's refresh token, exchange it, store
\* the new credential in memory and in the registry, mint once more.
RenewReads ==
    /\ rearm.pc = "read" /\ active # None
    /\ rearm' = [rearm EXCEPT !.pc = "renew", !.acct = active]
    /\ UNCHANGED <<session, flow, loops, retries, degrade, switch, signingOut, completion>>

Renewed ==
    /\ rearm.pc = "renew"
    /\ github' = rearm.acct
    /\ rearm' = [rearm EXCEPT !.pc = "save"]
    /\ UNCHANGED <<auth, copilot, user, grace, workload, registry>>
    /\ UNCHANGED <<flow, loops, retries, degrade, switch, signingOut, completion>>

RenewalSaved ==
    /\ rearm.pc = "save"
    /\ \/ active' = rearm.acct /\ flagged' = flagged \ {rearm.acct}
       \/ "writeFails" \in workload.events /\ UNCHANGED registry
    /\ rearm' = [rearm EXCEPT !.pc = "remint", !.sent = github]
    /\ UNCHANGED <<auth, grace, workload, tokens>>
    /\ UNCHANGED <<flow, loops, retries, degrade, switch, signingOut, completion>>

\* No account or refresh token, a rejected grant, or a second rejected mint.
RearmFatal ==
    /\ rearm.pc \in {"read", "renew", "remint"}
    /\ rearm' = NoRearm
    /\ IF rearm.degrades THEN MarkAuthDegraded(flow, loops, retries)
       ELSE UNCHANGED <<github, copilot, user, flow, loops, retries, degrade>>
    /\ UNCHANGED <<auth, grace, workload, switch, signingOut, completion>>
    /\ UNCHANGED registry

-----------------------------------------------------------------------------
(* Degrade, and the optional sweep over the other accounts *)

\* markActiveNeedsReauth resolves, or fails, which is logged; without the sweep the
\* degrade ends in error.
DegradeFlags ==
    /\ degrade = "flag"
    /\ \/ flagged' = flagged \cup ({active} \ {None})
       \/ "writeFails" \in workload.events /\ flagged' = flagged
    /\ IF workload.autoRecover
       THEN /\ degrade' = "sweep"
            /\ switch' = [switch EXCEPT !["sweep"].pc = "read"]
            /\ UNCHANGED auth
       ELSE /\ degrade' = "idle"
            /\ auth' = FatalError
            /\ UNCHANGED switch
    /\ UNCHANGED <<active, grace, workload, tokens>>
    /\ UNCHANGED <<flow, loops, retries, rearm, signingOut, completion>>

SweepReads ==
    /\ switch["sweep"].pc = "read"
    /\ switch' = [switch EXCEPT !["sweep"] =
                     [@ EXCEPT !.pc = "next", !.todo = Accounts \ (flagged \cup {active})]]
    /\ UNCHANGED <<session, flow, loops, retries, rearm, degrade, signingOut, completion>>

\* Mutant: a candidate stays on the list.
SweepRetries(a) ==
    /\ switch["sweep"].pc = "next" /\ a \in switch["sweep"].todo
    /\ switch' = [switch EXCEPT !["sweep"] =
                     [pc |-> "preflight", acct |-> a, todo |-> @.todo]]
    /\ UNCHANGED <<session, flow, loops, retries, rearm, degrade, signingOut, completion>>

SweepTries(a) ==
    /\ switch["sweep"].pc = "next" /\ a \in switch["sweep"].todo
    /\ switch' = [switch EXCEPT !["sweep"] =
                     [pc |-> "preflight", acct |-> a, todo |-> @.todo \ {a}]]
    /\ UNCHANGED <<session, flow, loops, retries, rearm, degrade, signingOut, completion>>

\* Mutant: the tokens of the last candidate stay.
SweepLeavesTokens ==
    /\ switch["sweep"].pc = "next" /\ switch["sweep"].todo = {}
    /\ auth' = FatalError
    /\ degrade' = "idle"
    /\ switch' = [switch EXCEPT !["sweep"] = NoSwitch]
    /\ UNCHANGED <<grace, workload, tokens, registry>>
    /\ UNCHANGED <<flow, loops, retries, rearm, signingOut, completion>>

SweepGivesUp ==
    /\ switch["sweep"].pc = "next" /\ switch["sweep"].todo = {}
    /\ ClearTokenTrio
    /\ auth' = FatalError
    /\ degrade' = "idle"
    /\ switch' = [switch EXCEPT !["sweep"] = NoSwitch]
    /\ UNCHANGED <<grace, workload, registry>>
    /\ UNCHANGED <<flow, loops, retries, rearm, signingOut, completion>>

\* flagBad's own write fails: the sweep throws past its clearTokenTrio, and the
\* degrade ends in error over whatever token the candidate left.
SweepFlagFails ==
    /\ "writeFails" \in workload.events
    /\ switch["sweep"].pc \in {"preflight", "mint", "commit"}
    /\ auth' = FatalError
    /\ degrade' = "idle"
    /\ switch' = [switch EXCEPT !["sweep"] = NoSwitch]
    /\ UNCHANGED <<grace, workload, tokens, registry>>
    /\ UNCHANGED <<flow, loops, retries, rearm, signingOut, completion>>

-----------------------------------------------------------------------------
(* The live switch: one the user asked for, and the sweep's *)

SwitchRequested(a) ==
    /\ Starts("switch")
    /\ switch["request"].pc = "idle"
    /\ switch' = [switch EXCEPT !["request"] = [NoSwitch EXCEPT !.pc = "preflight", !.acct = a]]
    /\ UNCHANGED <<session, flow, loops, retries, rearm, degrade, signingOut, completion>>

PreflightOk(s) ==
    /\ switch[s].pc = "preflight"
    /\ github' = switch[s].acct
    /\ user' = switch[s].acct
    /\ loops' = Stopped(loops)
    /\ switch' = [switch EXCEPT ![s].pc = "mint"]
    /\ UNCHANGED <<auth, copilot, grace, workload, registry>>
    /\ UNCHANGED <<flow, retries, rearm, degrade, signingOut, completion>>

SwitchMinted(s) ==
    /\ switch[s].pc = "mint"
    /\ MintOk(switch[s].acct)
    /\ switch' = [switch EXCEPT ![s].pc = "commit"]
    /\ UNCHANGED <<auth, github, user, active, grace, workload>>
    /\ UNCHANGED <<flow, retries, rearm, degrade, signingOut, completion>>

SwitchCommits(s) ==
    /\ switch[s].pc = "commit"
    /\ active' = switch[s].acct
    /\ flagged' = flagged \ {switch[s].acct}
    /\ switch' = [switch EXCEPT ![s].pc = "models"]
    /\ UNCHANGED <<auth, grace, workload, tokens>>
    /\ UNCHANGED <<flow, loops, retries, rearm, degrade, signingOut, completion>>

SwitchSignsIn(s) ==
    /\ switch[s].pc = "models"
    /\ MarkSignedIn(switch[s].acct, retries)
    /\ switch' = [switch EXCEPT ![s] = NoSwitch]
    /\ degrade' = IF s = "sweep" THEN "idle" ELSE degrade
    /\ UNCHANGED workload /\ UNCHANGED tokens /\ UNCHANGED registry
    /\ UNCHANGED <<flow, loops, rearm, signingOut, completion>>

\* Mutant: a failed candidate is only skipped.
SwitchFailsUnflagged(s) ==
    /\ switch[s].pc \in {"preflight", "mint"} \cup WhereWriteFails
    /\ switch' = [switch EXCEPT ![s] = IF s = "sweep" THEN [@ EXCEPT !.pc = "next"]
                                       ELSE NoSwitch]
    /\ UNCHANGED <<session, flow, loops, retries, rearm, degrade, signingOut, completion>>

\* The preflight, the mint or the commit fails: a request reports it, the sweep
\* flags the candidate and goes on.
SwitchFails(s) ==
    /\ switch[s].pc \in {"preflight", "mint"} \cup WhereWriteFails
    /\ flagged' = IF s = "sweep" THEN flagged \cup {switch[s].acct} ELSE flagged
    /\ switch' = [switch EXCEPT ![s] = IF s = "sweep" THEN [@ EXCEPT !.pc = "next"]
                                       ELSE NoSwitch]
    /\ UNCHANGED <<auth, active, grace, workload, tokens>>
    /\ UNCHANGED <<flow, loops, retries, rearm, degrade, signingOut, completion>>

\* RECOVERY_GRACE_MS go by.
GraceElapses ==
    /\ grace
    /\ grace' = FALSE
    /\ UNCHANGED <<auth, workload>> /\ UNCHANGED tokens /\ UNCHANGED registry
    /\ UNCHANGED tasks

-----------------------------------------------------------------------------
FlowStep(f) ==
    \/ StartDeviceFlow(f) \/ InstallFlow(f) \/ DeviceCodeFails(f) \/ FlowExpires(f)
    \/ \E a \in Accounts : Approved(f, a)
    \/ FlowFails(f) \/ AbortedFlowEnds(f) \/ IdentityResolved(f) \/ AccountAdded(f)
    \/ FlowMinted(f) \/ FlowMintOffline(f) \/ FlowMintFatal(f) \/ FlowSignsIn(f)

RefreshStep ==
    \E x \in loops : \/ RefreshDue(x) \/ RefreshOk(x) \/ RefreshRejected(x)
                     \/ RefreshFatal(x) \/ RefreshOffline(x)

RetryStep ==
    \E r \in retries : \/ RetryDue(r) \/ RetryMinted(r) \/ RetryFatal(r)
                       \/ RetryOffline(r) \/ RetryOnline(r)
                       \/ RetryIdentified(r) \/ RetryUnidentified(r)

RearmStep ==
    \/ \E d \in BOOLEAN : RearmJoins(d) \/ RearmStarts(d)
    \/ RearmWithoutToken \/ RearmMinted \/ RearmOffline \/ RearmRejected
    \/ RenewReads \/ Renewed \/ RenewalSaved \/ RearmFatal

SweepStep ==
    SweepReads \/ (\E a \in Accounts : SweepTries(a)) \/ SweepGivesUp \/ SweepFlagFails

SwitchReply(s) ==
    PreflightOk(s) \/ SwitchMinted(s) \/ SwitchCommits(s) \/ SwitchSignsIn(s) \/ SwitchFails(s)

Next ==
    \/ \E f \in Flows : FlowStep(f)
    \/ CancelDeviceFlow \/ SignOut \/ SignOutDeactivates
    \/ RefreshStep \/ RetryStep \/ RearmStep
    \/ SendCompletion \/ CompletionServed
    \/ DegradeFlags \/ SweepStep
    \/ \E a \in Accounts : SwitchRequested(a)
    \/ \E s \in Switchers : SwitchReply(s)
    \/ GraceElapses

\* Every call that was sent is answered or times out, and every await resumes.
Reply ==
    \/ \E f \in Flows : \/ InstallFlow(f) \/ DeviceCodeFails(f) \/ AbortedFlowEnds(f)
                        \/ flow[f].pc # "poll" /\ FlowFails(f)
                        \/ IdentityResolved(f) \/ AccountAdded(f) \/ FlowMinted(f)
                        \/ FlowMintOffline(f) \/ FlowMintFatal(f) \/ FlowSignsIn(f)
    \/ SignOutDeactivates
    \/ \E x \in loops : \/ RefreshOk(x) \/ RefreshRejected(x)
                        \/ RefreshFatal(x) \/ RefreshOffline(x)
    \/ \E r \in retries : \/ RetryMinted(r) \/ RetryFatal(r)
                          \/ RetryOffline(r) \/ RetryOnline(r)
                          \/ RetryIdentified(r) \/ RetryUnidentified(r)
    \/ RearmMinted \/ RearmOffline \/ RearmRejected \/ RenewReads \/ Renewed
    \/ RenewalSaved \/ RearmFatal \/ RearmStarts(TRUE) \/ RearmWithoutToken
    \/ CompletionServed
    \/ SwitchReply("request")

Fairness ==
    /\ WF_vars(DegradeFlags)
    /\ WF_vars(SweepStep)
    /\ WF_vars(SwitchReply("sweep"))
    /\ WF_vars(Reply)
    /\ SF_vars((\E r \in retries : RetryDue(r)) \/ \E x \in loops : RefreshDue(x))
    /\ SF_vars((\E r \in retries : RetryMinted(r)) \/ \E x \in loops : RefreshOk(x))
    /\ WF_vars(GraceElapses)

Spec == Init /\ [][Next]_vars /\ Fairness
-----------------------------------------------------------------------------
(* Properties *)

\* One thing at a time, every registry write succeeds and nobody switches
\* accounts: then nothing below depends on how calls interleave.  (A failed
\* switch leaves its target's token in memory and the refresh loop stopped; a
\* failed write after the identity lookup leaves the wrong user name.)
Usual == /\ workload.serial /\ workload.events \cap {"switch", "writeFails"} = {}
         /\ Settled

\* Sign-outs in the middle of an online retry.  (A recovery sweep does not look out
\* for a sign-out.)
RetryMeetsSignOut ==
    workload.events \subseteq {"retry", "signOut"} /\ ~workload.autoRecover /\ Settled

\* Memory and disk name the same account: once all calls have returned, the GitHub
\* token and the user name are the active account's, and the error state holds no
\* token at all.  No bearer outlives the GitHub token, even where a sign-out meets
\* the retry's mint ("rather than resurrecting a token past the wipe",
\* copilot-online-retry.ts); whose bearer it is stays open, because a sign-in over a
\* session whose first mint fails keeps the old account's until the next mint.
SettledCoherent ==
    /\ Usual => /\ {github, user} \subseteq {None, active}
                /\ auth = FatalError => tokens = <<None, None, None>>
    /\ Usual \/ RetryMeetsSignOut => (copilot # None => github # None)

\* A GitHub token in memory always has a live refresh loop or online retry that
\* will ask for the next bearer: no sequence of sign-ins, rejections, renewals
\* and offline mints leaves a session that nothing keeps fresh.
SomethingKeepsMinting ==
    Usual /\ github # None => \E x \in loops \cup retries : x.live

\* However the calls interleave, setupCopilotToken and scheduleCopilotOnlineRetry
\* replace the loop they find: never are two of a kind running.
OneLiveLoop ==
    /\ Cardinality({x \in loops : x.live}) <= 1
    /\ Cardinality({r \in retries : r.live}) <= 1

\* What a sign-out leaves behind and may still end in a degrade.
MayDegrade ==
    loops # {} \/ retries # {} \/ copilot # None \/ completion \/ degrade # "idle"

\* The user is out: no GitHub token, and in flight nothing that has one of its own to
\* store.  The refresh loop may be running, its answer, a completion's, a retry's mint
\* or a degrade may be due; device flows are cancelled before addAccount.  (A re-arm
\* may be renewing the credential, an identity lookup of the retry's hook signs in
\* without looking, a recovery sweep takes another account: there it is not so.)
Out ==
    /\ auth \in {SignedOut, FatalError} /\ github = None
    /\ \A f \in Flows : flow[f].pc # "idle" => flow[f].aborted /\ flow[f].pc \in {"poll", "user"}
    /\ \A r \in retries : r.pc \in {"sleep", "mint"} \/ (r.pc = "models" /\ ~r.hook)
    /\ rearm.pc = "idle" /\ switch["request"].pc = "idle"
    /\ workload.autoRecover => ~MayDegrade

\* Out is out: no late answer of a device flow, of the refresh loop or of the online
\* retry signs in again or stores a GitHub token; only a new request moves on.  (A
\* refresh that was in flight does store its bearer, and may end the session in error.)
SignedOutSticks ==
    [][Out =>
         \/ Out'
         \/ \E f \in Flows : flow'[f].pc = "code"
         \/ switch'["request"].pc # "idle"]_vars

\* A degrade gives up only when the failed account is flagged and, with
\* auto-recovery, after trying and flagging every other one.
GivesUpWithAllFlagged ==
    [][(/\ workload.serial /\ "writeFails" \notin workload.events
        /\ degrade # "idle" /\ degrade' = "idle" /\ auth' = FatalError) =>
          IF workload.autoRecover THEN flagged' = Accounts
          ELSE active \in flagged' \cup {None}]_vars

\* markAuthDegraded is single-flight and its sweep mints in "throw" mode, which
\* must not wait for the degrade it is part of: every degrade ends.
DegradeEnds == degrade # "idle" ~> degrade = "idle"

Tokenless == /\ workload.serial /\ {"retry", "refresh"} \subseteq workload.events
             /\ github # None /\ copilot = None

\* A first mint that fails transiently never leaves the session tokenless until a
\* restart: the bearer comes, or the credential is dropped as rejected.
Recovers == Tokenless ~> (copilot # None \/ github = None)
=============================================================================
