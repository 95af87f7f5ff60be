------------------------- MODULE AuthSessionProofs -------------------------
(***************************************************************************)
(* Theorems about AuthSession, for any accounts, device flows, number of   *)
(* rejections and workloads.                                               *)
(***************************************************************************)
EXTENDS AuthSession, FiniteSetTheorems, TLAPS

-----------------------------------------------------------------------------
(* Types: TypeOK, and an account wherever a handler will sign in under one *)

FlowRecord ==
    [pc: {"idle", "code", "poll", "user", "add", "mint", "models"},
     resume: Maybe, acct: Maybe, minted: BOOLEAN, aborted: BOOLEAN, expired: BOOLEAN]
LoopRecord ==
    [pc: {"sleep", "wait"}, live: BOOLEAN, sent: Maybe, fatals: 0 .. MaxFatal - 1]
RetryRecord ==
    [pc: {"sleep", "mint", "models", "user"}, live: BOOLEAN, sent: Maybe, hook: BOOLEAN]

\* The user has approved the flow: it works on with the account.
Working == {"user", "add", "mint", "models"}
Switching == {"preflight", "mint", "commit", "models"}

FlowsNamed(fl) == \A f \in Flows : fl[f].pc \in Working => fl[f].acct \in Accounts
SwitchesNamed ==
    \A s \in Switchers : switch[s].pc \in Switching => switch[s].acct \in Accounts

TInv == TypeOK /\ FlowsNamed(flow) /\ SwitchesNamed

LEMMA AuthFields ==
    ASSUME NEW a \in AuthState
    PROVE  a.flow \in Flows \cup {None} /\ a.login \in Maybe
  BY DEF AuthState, SignedOut, SignedIn, Polling, FlowError, FatalError, Maybe

\* What is left of stopped loops is not live.
LEMMA StoppedLoops ==
    ASSUME NEW S, S \subseteq LoopRecord
    PROVE  Stopped(S) \subseteq LoopRecord /\ \A x \in Stopped(S) : ~x.live /\ x.pc # "sleep"
  BY DEF Stopped, LoopRecord

LEMMA StoppedRetries ==
    ASSUME NEW S, S \subseteq RetryRecord
    PROVE  Stopped(S) \subseteq RetryRecord /\ \A x \in Stopped(S) : ~x.live /\ x.pc # "sleep"
  BY DEF Stopped, RetryRecord

LEMMA NewTyped ==
    NewLoop \in LoopRecord /\ \A b \in BOOLEAN : NewRetry(b) \in RetryRecord
  BY SessionAssumption DEF NewLoop, NewRetry, LoopRecord, RetryRecord, Maybe

\* Aborting or ending a flow touches no account and moves no flow on.
FlowsTyped(fl) == fl \in [Flows -> FlowRecord] /\ FlowsNamed(fl)

LEMMA AbortTyped ==
    ASSUME TInv, NEW fl, FlowsTyped(fl) PROVE FlowsTyped(AbortCurrent(fl))
<1>1. CurrentFlow \in Flows \cup {None}
  BY AuthFields DEF TInv, TypeOK, CurrentFlow
<1> QED
  BY <1>1 DEF AbortCurrent, FlowsTyped, FlowsNamed, FlowRecord, Working

LEMMA EndedTyped ==
    ASSUME TInv, NEW f \in Flows PROVE FlowsTyped(Ended(f))
<1>1. flow \in [Flows -> FlowRecord] /\ FlowsNamed(flow)
  BY DEF TInv, TypeOK, FlowRecord
<1> QED
  BY <1>1 DEF Ended, NoFlow, FlowsTyped, FlowsNamed, FlowRecord, Working, Maybe

\* A step of one flow that aborts or ends nothing else.
LEMMA OneFlowTyped ==
    ASSUME TInv, NEW f \in Flows, NEW rec \in FlowRecord,
           rec.pc \in Working => rec.acct \in Accounts
    PROVE  FlowsTyped([flow EXCEPT ![f] = rec])
  BY DEF FlowsTyped, FlowsNamed, TInv, TypeOK, FlowRecord

LEMMA OneSwitchTyped ==
    ASSUME TInv, NEW s \in Switchers,
           NEW rec \in [pc: {"idle", "read", "next", "preflight", "mint", "commit", "models"},
                        acct: Maybe, todo: SUBSET Accounts],
           rec.pc \in Switching => rec.acct \in Accounts,
           switch' = [switch EXCEPT ![s] = rec]
    PROVE  /\ switch' \in [Switchers -> [pc: {"idle", "read", "next", "preflight", "mint",
                                              "commit", "models"},
                                         acct: Maybe, todo: SUBSET Accounts]]
           /\ SwitchesNamed'
  BY DEF TInv, TypeOK, SwitchesNamed

\* The two effects that several handlers share.
LEMMA DegradedTyped ==
    ASSUME TInv, NEW fl, FlowsTyped(fl), NEW ls \in SUBSET LoopRecord,
           NEW rs \in SUBSET RetryRecord, MarkAuthDegraded(fl, ls, rs)
    PROVE  /\ FlowsTyped(flow') /\ loops' \subseteq LoopRecord /\ retries' \subseteq RetryRecord
           /\ {github', copilot', user'} \subseteq Maybe
           /\ degrade' \in {"idle", "flag", "sweep"}
  BY AbortTyped, StoppedLoops, StoppedRetries
     DEF MarkAuthDegraded, ClearTokenTrio, TInv, TypeOK, Maybe

LEMMA MintTyped ==
    ASSUME TInv, NEW a \in Maybe, MintOk(a)
    PROVE  /\ copilot' \in Maybe /\ flagged' \subseteq Accounts /\ loops' \subseteq LoopRecord
<1> QED
  BY NewTyped, StoppedLoops DEF MintOk, TInv, TypeOK, LoopRecord

\* The invariant of the next state from its parts.
LEMMA Retyped ==
    ASSUME auth' \in AuthState,
           {github', copilot', user', active'} \subseteq Maybe,
           flagged' \subseteq Accounts,
           FlowsTyped(flow'), loops' \subseteq LoopRecord, retries' \subseteq RetryRecord,
           rearm' \in [pc: {"idle", "mint", "read", "renew", "save", "remint"},
                       sent: Maybe, degrades: BOOLEAN, acct: Maybe],
           degrade' \in {"idle", "flag", "sweep"},
           switch' \in [Switchers -> [pc: {"idle", "read", "next", "preflight", "mint",
                                           "commit", "models"},
                                      acct: Maybe, todo: SUBSET Accounts]],
           SwitchesNamed',
           {signingOut', completion', grace'} \subseteq BOOLEAN,
           workload' \in Workloads
    PROVE  TInv'
  BY DEF TInv, TypeOK, FlowsTyped, FlowsNamed, FlowRecord, LoopRecord, RetryRecord

-----------------------------------------------------------------------------
LEMMA InitTyped == Init => TInv
<1> SUFFICES ASSUME Init PROVE TInv
  OBVIOUS
<1>1. NewLoop \in LoopRecord /\ NewRetry(TRUE) \in RetryRecord
  BY NewTyped
<1>2. /\ auth \in AuthState /\ {github, copilot, user, active} \subseteq Maybe
      /\ loops \subseteq LoopRecord /\ retries \subseteq RetryRecord /\ grace \in BOOLEAN
  BY <1>1 DEF Init, Session, AuthState, Maybe
<1>3. /\ flow \in [Flows -> FlowRecord] /\ FlowsNamed(flow)
      /\ rearm \in [pc: {"idle", "mint", "read", "renew", "save", "remint"},
                    sent: Maybe, degrades: BOOLEAN, acct: Maybe]
      /\ switch \in [Switchers -> [pc: {"idle", "read", "next", "preflight", "mint",
                                        "commit", "models"},
                                   acct: Maybe, todo: SUBSET Accounts]]
      /\ SwitchesNamed
  BY DEF Init, NoFlow, NoRearm, NoSwitch, FlowRecord, FlowsNamed, Working, SwitchesNamed,
         Switching, Maybe
<1>4. signingOut \in BOOLEAN /\ completion \in BOOLEAN
  BY DEF Init
<1>5. flagged \subseteq Accounts /\ workload \in Workloads /\ degrade = "idle"
  BY DEF Init
<1> QED
  BY <1>2, <1>3, <1>4, <1>5 DEF TInv, TypeOK, FlowRecord, LoopRecord, RetryRecord

\* What the invariant says of each variable, in the form Retyped asks for.
SwitchType ==
    [Switchers -> [pc: {"idle", "read", "next", "preflight", "mint", "commit", "models"},
                   acct: Maybe, todo: SUBSET Accounts]]
RearmType ==
    [pc: {"idle", "mint", "read", "renew", "save", "remint"},
     sent: Maybe, degrades: BOOLEAN, acct: Maybe]

LEMMA Parts ==
    ASSUME TInv
    PROVE  /\ auth \in AuthState /\ auth.flow \in Flows \cup {None} /\ auth.login \in Maybe
           /\ {github, copilot, user, active} \subseteq Maybe
           /\ flagged \subseteq Accounts
           /\ flow \in [Flows -> FlowRecord] /\ FlowsNamed(flow) /\ FlowsTyped(flow)
           /\ loops \subseteq LoopRecord /\ retries \subseteq RetryRecord
           /\ rearm \in RearmType
           /\ degrade \in {"idle", "flag", "sweep"}
           /\ switch \in SwitchType /\ SwitchesNamed
           /\ signingOut \in BOOLEAN /\ completion \in BOOLEAN /\ grace \in BOOLEAN
           /\ workload \in Workloads
  BY AuthFields DEF TInv, TypeOK, FlowsTyped, FlowRecord, LoopRecord, RetryRecord,
                    SwitchType, RearmType

\* Steps that change only one thing.
LEMMA FlowOnlyTyped ==
    ASSUME TInv, FlowsTyped(flow'), auth' \in AuthState, user' \in Maybe,
           UNCHANGED <<github, copilot, active, flagged, grace, workload, loops, retries,
                       rearm, degrade, switch, signingOut, completion>>
    PROVE  TInv'
<1>1. UNCHANGED <<github, copilot, active, flagged, grace, workload, loops, retries,
                  rearm, degrade, switch, signingOut, completion>>
  OBVIOUS
<1>2. SwitchesNamed'
  BY <1>1, Parts DEF SwitchesNamed
<1> QED
  BY <1>1, <1>2, Parts, Retyped DEF SwitchType, RearmType

LEMMA FlowStepTyped ==
    ASSUME TInv, NEW f \in Flows, FlowStep(f) PROVE TInv'
<1>0. flow \in [Flows -> FlowRecord] /\ FlowsNamed(flow) /\ NoFlow \in FlowRecord
  BY Parts DEF NoFlow, FlowRecord, Maybe
<1>1. flow[f] \in FlowRecord /\ (flow[f].pc \in Working => flow[f].acct \in Accounts)
  BY <1>0 DEF FlowsNamed
<1>2. SwitchesNamed
  BY Parts
<1>3. SwitchesNamed' <=> TRUE
  <2>1. switch' = switch
    BY DEF FlowStep, StartDeviceFlow, InstallFlow, DeviceCodeFails, FlowExpires, Approved,
           FlowFails, AbortedFlowEnds, IdentityResolved, AccountAdded, FlowMinted,
           FlowMintOffline, FlowMintFatal, FlowSignsIn
  <2> QED
    BY <1>2, <2>1 DEF SwitchesNamed
<1>4. CASE StartDeviceFlow(f)
  <2>1. CurrentFlow \in Flows \cup {None} /\ CaptureResume \in Maybe
    BY <1>0, Parts DEF CurrentFlow, CaptureResume, FlowRecord
  <2>2. FlowsTyped(AbortCurrent(flow))
    BY Parts, AbortTyped
  <2>3. FlowsTyped(flow')
    BY <1>4, <2>1, <2>2 DEF StartDeviceFlow, FlowsTyped, FlowsNamed, FlowRecord, NoFlow,
                            Working, Maybe
  <2> QED
    BY <1>4, <2>3, Parts, FlowOnlyTyped DEF StartDeviceFlow, session, tokens, registry
<1>5. CASE InstallFlow(f)
  <2>1. FlowsTyped(flow')
    BY <1>0, <1>5 DEF InstallFlow, FlowsTyped, FlowsNamed, FlowRecord, Working, NoFlow
  <2>2. auth' \in AuthState
    BY <1>5 DEF InstallFlow, AuthState
  <2> QED
    BY <1>5, <2>1, <2>2, Parts, FlowOnlyTyped DEF InstallFlow, tokens, registry
<1>6. CASE DeviceCodeFails(f)
  <2>1. FlowsTyped(flow')
    BY <1>6, EndedTyped DEF DeviceCodeFails
  <2> QED
    BY <1>6, <2>1, Parts, FlowOnlyTyped DEF DeviceCodeFails, session, tokens, registry
<1>7. CASE FlowExpires(f)
  <2>1. FlowsTyped(flow')
    BY <1>0, <1>7 DEF FlowExpires, FlowsTyped, FlowsNamed, FlowRecord, Working
  <2> QED
    BY <1>7, <2>1, Parts, FlowOnlyTyped DEF FlowExpires, session, tokens, registry
<1>8. CASE \E a \in Accounts : Approved(f, a)
  <2>0. PICK a \in Accounts : Approved(f, a)
    BY <1>8
  <2>1. FlowsTyped(flow')
    <3>1. flow' = [flow EXCEPT ![f].pc = "user", ![f].acct = a]
      BY <2>0 DEF Approved
    <3> HIDE <2>0
    <3> QED
      BY <1>0, <3>1 DEF FlowsTyped, FlowsNamed, FlowRecord, Working, Maybe
  <2> QED
    BY <1>8, <2>1, Parts, FlowOnlyTyped DEF Approved, session, tokens, registry
<1>9. CASE FlowFails(f)
  <2>1. FlowsTyped(flow')
    BY <1>0, <1>9, EndedTyped DEF FlowFails, FlowsTyped, FlowsNamed, Working, NoFlow
  <2>2. auth' \in AuthState
    BY <1>1, <1>9 DEF FlowFails, FlowFailureState, AuthState, FlowRecord, Maybe
  <2> QED
    BY <1>9, <2>1, <2>2, Parts, FlowOnlyTyped DEF FlowFails, tokens, registry
<1>10. CASE AbortedFlowEnds(f)
  <2>1. FlowsTyped(flow') /\ user' \in Maybe
    BY <1>1, <1>10, EndedTyped, Parts DEF AbortedFlowEnds, FlowRecord
  <2> QED
    BY <1>10, <2>1, Parts, FlowOnlyTyped DEF AbortedFlowEnds, registry
<1>11. CASE IdentityResolved(f)
  <2>1. FlowsTyped(flow') /\ user' \in Maybe
    BY <1>0, <1>1, <1>11 DEF IdentityResolved, FlowsTyped, FlowsNamed, FlowRecord, Working
  <2> QED
    BY <1>11, <2>1, Parts, FlowOnlyTyped DEF IdentityResolved, registry
<1>12. CASE AccountAdded(f)
  <2>1. FlowsTyped(flow') /\ {github', active'} \subseteq Maybe
    BY <1>0, <1>1, <1>12 DEF AccountAdded, FlowsTyped, FlowsNamed, FlowRecord, Working
  <2> QED
    BY <1>3, <1>12, <2>1, Parts, Retyped DEF AccountAdded, SwitchType, RearmType
<1>13. \A b \in BOOLEAN : FlowsTyped(AfterMint(f, b)) \/ flow[f].pc # "mint"
  <2> SUFFICES ASSUME NEW b \in BOOLEAN, flow[f].pc = "mint"
               PROVE  FlowsTyped(AfterMint(f, b))
    OBVIOUS
  <2> QED
    BY <1>0, <1>1, EndedTyped DEF AfterMint, FlowsTyped, FlowsNamed, FlowRecord, Working
<1>14. CASE FlowMinted(f)
  <2>1. FlowsTyped(flow')
    BY <1>13, <1>14 DEF FlowMinted
  <2>2. copilot' \in Maybe /\ flagged' \subseteq Accounts /\ loops' \subseteq LoopRecord
    BY <1>1, <1>14, MintTyped DEF FlowMinted, FlowRecord
  <2> QED
    BY <1>3, <1>14, <2>1, <2>2, Parts, Retyped DEF FlowMinted, SwitchType, RearmType
<1>15. CASE FlowMintOffline(f)
  <2>1. FlowsTyped(flow')
    BY <1>13, <1>15 DEF FlowMintOffline
  <2>2. retries' \subseteq RetryRecord
    BY <1>15, Parts, StoppedRetries, NewTyped DEF FlowMintOffline
  <2> QED
    BY <1>3, <1>15, <2>1, <2>2, Parts, Retyped
       DEF FlowMintOffline, SwitchType, RearmType, session, tokens, registry
<1>16. CASE FlowMintFatal(f)
  <2>1. /\ FlowsTyped(flow') /\ loops' \subseteq LoopRecord /\ retries' \subseteq RetryRecord
        /\ {github', copilot', user'} \subseteq Maybe
        /\ degrade' \in {"idle", "flag", "sweep"}
    BY <1>16, EndedTyped, Parts, DegradedTyped DEF FlowMintFatal
  <2> QED
    BY <1>3, <1>16, <2>1, Parts, Retyped DEF FlowMintFatal, SwitchType, RearmType, registry
<1>17. CASE FlowSignsIn(f)
  <2>1. FlowsTyped(flow')
    BY <1>0, <1>17, EndedTyped DEF FlowSignsIn, FlowsTyped, FlowsNamed, Working, NoFlow
  <2>2. auth' \in AuthState
    BY <1>1, <1>17 DEF FlowSignsIn, AuthState, Working
  <2>3. retries' \subseteq RetryRecord
    BY <1>17, Parts, StoppedRetries DEF FlowSignsIn
  <2> QED
    BY <1>3, <1>17, <2>1, <2>2, <2>3, Parts, Retyped
       DEF FlowSignsIn, SwitchType, RearmType, tokens, registry
<1> QED
  BY <1>4, <1>5, <1>6, <1>7, <1>8, <1>9, <1>10, <1>11, <1>12, <1>14, <1>15, <1>16, <1>17
     DEF FlowStep

\* Steps of the refresh loop and of the online retry.
LEMMA LoopGoesOnTyped ==
    ASSUME TInv, NEW x \in loops, NEW n \in 0 .. MaxFatal - 1
    PROVE  LoopGoesOn(x, n) \subseteq LoopRecord
<1>1. x \in LoopRecord /\ loops \subseteq LoopRecord
  BY Parts
<1>2. [x EXCEPT !.pc = "sleep", !.sent = None, !.fatals = n] \in LoopRecord
  BY <1>1 DEF LoopRecord, Maybe
<1> QED
  BY <1>1, <1>2 DEF LoopGoesOn

LEMMA LoopsTyped ==
    ASSUME TInv, loops' \subseteq LoopRecord, retries' \subseteq RetryRecord,
           {github', copilot', user'} \subseteq Maybe, flagged' \subseteq Accounts,
           FlowsTyped(flow'), degrade' \in {"idle", "flag", "sweep"},
           auth' \in AuthState, grace' \in BOOLEAN,
           UNCHANGED <<active, workload, rearm, switch, signingOut, completion>>
    PROVE  TInv'
<1>1. UNCHANGED <<active, workload, rearm, switch, signingOut, completion>>
  OBVIOUS
<1>2. SwitchesNamed'
  BY <1>1, Parts DEF SwitchesNamed
<1> QED
  BY <1>1, <1>2, Parts, Retyped DEF SwitchType, RearmType

LEMMA RefreshTyped ==
    ASSUME TInv, RefreshStep PROVE TInv'
<1>1. PICK x \in loops : \/ RefreshDue(x) \/ RefreshOk(x) \/ RefreshRejected(x)
                         \/ RefreshFatal(x) \/ RefreshOffline(x)
  BY DEF RefreshStep
<1>2. x \in LoopRecord /\ x.fatals \in 0 .. MaxFatal - 1 /\ x.sent \in Maybe
      /\ MaxFatal \in Nat \ {0}
  BY Parts, SessionAssumption DEF LoopRecord
<1>3. CASE RefreshDue(x)
  <2>1. [x EXCEPT !.pc = "wait", !.sent = github] \in LoopRecord
    BY <1>2, Parts DEF LoopRecord
  <2>2. loops' \subseteq LoopRecord
    BY <1>3, <2>1, Parts DEF RefreshDue
  <2> QED
    BY <1>3, <2>2, Parts, LoopsTyped DEF RefreshDue, session, tokens, registry
<1>4. CASE RefreshOk(x)
  <2>1. 0 \in 0 .. MaxFatal - 1
    BY <1>2
  <2>2. loops' \subseteq LoopRecord
    BY <1>4, <2>1, LoopGoesOnTyped DEF RefreshOk
  <2>3. flagged' \subseteq Accounts
    BY <1>4, Parts DEF RefreshOk
  <2> QED
    BY <1>2, <1>4, <2>2, <2>3, Parts, LoopsTyped DEF RefreshOk
<1>5. CASE RefreshRejected(x)
  <2>1. x.fatals + 1 \in 0 .. MaxFatal - 1
    BY <1>2, <1>5 DEF RefreshRejected
  <2>2. loops' \subseteq LoopRecord
    BY <1>5, <2>1, LoopGoesOnTyped DEF RefreshRejected
  <2> QED
    BY <1>5, <2>2, Parts, LoopsTyped DEF RefreshRejected, session, tokens, registry
<1>6. CASE RefreshFatal(x)
  <2>1. /\ FlowsTyped(flow') /\ loops' \subseteq LoopRecord /\ retries' \subseteq RetryRecord
        /\ {github', copilot', user'} \subseteq Maybe
        /\ degrade' \in {"idle", "flag", "sweep"}
    BY <1>6, Parts, DegradedTyped DEF RefreshFatal
  <2> QED
    BY <1>6, <2>1, Parts, LoopsTyped DEF RefreshFatal, registry
<1>7. CASE RefreshOffline(x)
  <2>2. loops' \subseteq LoopRecord
    BY <1>2, <1>7, LoopGoesOnTyped DEF RefreshOffline
  <2> QED
    BY <1>7, <2>2, Parts, LoopsTyped DEF RefreshOffline, session, tokens, registry
<1> QED
  BY <1>1, <1>3, <1>4, <1>5, <1>6, <1>7

LEMMA MarkSignedInTyped ==
    ASSUME NEW a \in Accounts, NEW rs \in SUBSET RetryRecord, MarkSignedIn(a, rs)
    PROVE  auth' \in AuthState /\ grace' \in BOOLEAN /\ retries' \subseteq RetryRecord
  BY StoppedRetries DEF MarkSignedIn, AuthState

LEMMA RetryTyped ==
    ASSUME TInv, RetryStep PROVE TInv'
<1>1. PICK r \in retries : \/ RetryDue(r) \/ RetryMinted(r) \/ RetryFatal(r)
                           \/ RetryOffline(r) \/ RetryOnline(r)
                           \/ RetryIdentified(r) \/ RetryUnidentified(r)
  BY DEF RetryStep
<1>2. r \in RetryRecord /\ r.sent \in Maybe /\ r.hook \in BOOLEAN
      /\ (retries \ {r}) \in SUBSET RetryRecord
  BY Parts DEF RetryRecord
<1>3. CASE RetryDue(r)
  <2>1. [r EXCEPT !.pc = "mint", !.sent = github] \in RetryRecord
    BY <1>2, Parts DEF RetryRecord
  <2>2. retries' \subseteq RetryRecord
    BY <1>2, <1>3, <2>1 DEF RetryDue
  <2> QED
    BY <1>3, <2>2, Parts, LoopsTyped DEF RetryDue, session, tokens, registry
<1>4. CASE RetryMinted(r)
  <2>1. [r EXCEPT !.pc = "models", !.sent = None] \in RetryRecord
    BY <1>2 DEF RetryRecord, Maybe
  <2>2. retries' \subseteq RetryRecord /\ copilot' \in Maybe
    BY <1>2, <1>4, <2>1 DEF RetryMinted, Maybe
  <2>3. loops' \subseteq LoopRecord /\ flagged' \subseteq Accounts
    BY <1>4, Parts, StoppedLoops, NewTyped DEF RetryMinted
  <2> QED
    BY <1>4, <2>2, <2>3, Parts, LoopsTyped DEF RetryMinted
<1>5. CASE RetryFatal(r)
  <2>1. /\ FlowsTyped(flow') /\ loops' \subseteq LoopRecord /\ retries' \subseteq RetryRecord
        /\ {github', copilot', user'} \subseteq Maybe
        /\ degrade' \in {"idle", "flag", "sweep"}
    BY <1>2, <1>5, Parts, DegradedTyped DEF RetryFatal
  <2> QED
    BY <1>5, <2>1, Parts, LoopsTyped DEF RetryFatal, registry
<1>6. CASE RetryOffline(r)
  <2>1. retries' \subseteq RetryRecord
    BY <1>2, <1>6, NewTyped DEF RetryOffline
  <2> QED
    BY <1>6, <2>1, Parts, LoopsTyped DEF RetryOffline, session, tokens, registry
<1>7. CASE RetryOnline(r)
  <2>1. [r EXCEPT !.pc = "user", !.live = FALSE, !.sent = github] \in RetryRecord
    BY <1>2, Parts DEF RetryRecord
  <2>2. user # None => user \in Accounts
    BY Parts DEF Maybe
  <2>3. auth' \in AuthState /\ grace' \in BOOLEAN /\ retries' \subseteq RetryRecord
    <3>1. CASE user # None /\ MarkSignedIn(user, retries \ {r})
      BY <1>2, <2>2, <3>1, MarkSignedInTyped
    <3>2. CASE /\ retries' = (retries \ {r}) \cup
                             IF r.hook
                             THEN {[r EXCEPT !.pc = "user", !.live = FALSE, !.sent = github]}
                             ELSE {}
               /\ UNCHANGED <<auth, grace>>
      BY <1>2, <2>1, <3>2, Parts
    <3> QED
      BY <1>7, <3>1, <3>2 DEF RetryOnline
  <2> QED
    BY <1>7, <2>3, Parts, LoopsTyped DEF RetryOnline, tokens, registry
<1>8. CASE RetryIdentified(r)
  <2>1. r.sent \in Accounts
    BY <1>2, <1>8 DEF RetryIdentified, Maybe
  <2>2. auth' \in AuthState /\ grace' \in BOOLEAN /\ retries' \subseteq RetryRecord
    BY <1>2, <1>8, <2>1, MarkSignedInTyped DEF RetryIdentified
  <2> QED
    BY <1>2, <1>8, <2>2, Parts, LoopsTyped DEF RetryIdentified, registry
<1>9. CASE RetryUnidentified(r)
  BY <1>2, <1>9, Parts, LoopsTyped DEF RetryUnidentified, session, tokens, registry
<1> QED
  BY <1>1, <1>3, <1>4, <1>5, <1>6, <1>7, <1>8, <1>9

\* Steps of the re-arm and of the degrade.
LEMMA RearmTyped ==
    ASSUME TInv, RearmStep PROVE TInv'
<1>1. SwitchesNamed' /\ UNCHANGED <<switch, signingOut, workload>>
  <2>1. UNCHANGED <<switch, signingOut, workload>>
    BY DEF RearmStep, RearmJoins, RearmStarts, RearmWithoutToken, RearmMinted, RearmOffline,
           RearmRejected, RenewReads, Renewed, RenewalSaved, RearmFatal, session
  <2> QED
    BY <2>1, Parts DEF SwitchesNamed
<1>2. /\ rearm.sent \in Maybe /\ rearm.acct \in Maybe /\ rearm.degrades \in BOOLEAN
      /\ NoRearm \in RearmType
  BY Parts DEF RearmType, NoRearm, Maybe
<1>3. ASSUME NEW d \in BOOLEAN, RearmJoins(d) \/ RearmStarts(d) PROVE TInv'
  <2>1. completion' \in BOOLEAN
    BY <1>3, Parts DEF RearmJoins, RearmStarts, RearmCaller
  <2>2. rearm' \in RearmType
    BY <1>3, Parts DEF RearmJoins, RearmStarts, NoRearm, RearmType, Maybe
  <2> QED
    BY <1>1, <1>3, <2>1, <2>2, Parts, Retyped
       DEF RearmJoins, RearmStarts, session, tokens, registry, SwitchType, RearmType
<1>4. CASE RearmWithoutToken
  <2>1. /\ FlowsTyped(flow') /\ loops' \subseteq LoopRecord /\ retries' \subseteq RetryRecord
        /\ {github', copilot', user'} \subseteq Maybe
        /\ degrade' \in {"idle", "flag", "sweep"}
    BY <1>4, Parts, DegradedTyped DEF RearmWithoutToken
  <2>2. completion' \in BOOLEAN
    BY <1>4 DEF RearmWithoutToken, RearmCaller
  <2> QED
    BY <1>1, <1>4, <2>1, <2>2, Parts, Retyped
       DEF RearmWithoutToken, registry, SwitchType, RearmType
<1>5. CASE RearmMinted
  <2>1. copilot' \in Maybe /\ flagged' \subseteq Accounts /\ loops' \subseteq LoopRecord
    BY <1>2, <1>5, MintTyped DEF RearmMinted
  <2>2. user # None => user \in Accounts
    BY Parts DEF Maybe
  <2>3. auth' \in AuthState /\ grace' \in BOOLEAN /\ retries' \subseteq RetryRecord
    BY <1>5, <2>2, Parts, MarkSignedInTyped DEF RearmMinted
  <2> QED
    BY <1>1, <1>2, <1>5, <2>1, <2>3, Parts, Retyped DEF RearmMinted, SwitchType, RearmType
<1>6. CASE RearmOffline
  BY <1>1, <1>2, <1>6, Parts, Retyped
     DEF RearmOffline, session, tokens, registry, SwitchType, RearmType
<1>7. CASE RearmRejected
  <2>1. rearm' \in RearmType
    BY <1>7, Parts DEF RearmRejected, RearmType, Maybe
  <2> QED
    BY <1>1, <1>7, <2>1, Parts, Retyped
       DEF RearmRejected, session, tokens, registry, SwitchType, RearmType
<1>8. CASE RenewReads
  <2>1. rearm' \in RearmType
    BY <1>8, Parts DEF RenewReads, RearmType
  <2> QED
    BY <1>1, <1>8, <2>1, Parts, Retyped
       DEF RenewReads, session, tokens, registry, SwitchType, RearmType
<1>9. CASE Renewed
  <2>1. rearm' \in RearmType
    BY <1>9, Parts DEF Renewed, RearmType
  <2> QED
    BY <1>1, <1>2, <1>9, <2>1, Parts, Retyped DEF Renewed, registry, SwitchType, RearmType
<1>10. CASE RenewalSaved
  <2>1. rearm' \in RearmType
    BY <1>10, Parts DEF RenewalSaved, RearmType
  <2>2. active' \in Maybe /\ flagged' \subseteq Accounts
    BY <1>2, <1>10, Parts DEF RenewalSaved, registry
  <2> QED
    BY <1>1, <1>10, <2>1, <2>2, Parts, Retyped
       DEF RenewalSaved, tokens, SwitchType, RearmType
<1>11. CASE RearmFatal
  <2>1. /\ FlowsTyped(flow') /\ loops' \subseteq LoopRecord /\ retries' \subseteq RetryRecord
        /\ {github', copilot', user'} \subseteq Maybe
        /\ degrade' \in {"idle", "flag", "sweep"}
    BY <1>11, Parts, DegradedTyped DEF RearmFatal
  <2> QED
    BY <1>1, <1>2, <1>11, <2>1, Parts, Retyped
       DEF RearmFatal, registry, SwitchType, RearmType
<1> QED
  BY <1>3, <1>4, <1>5, <1>6, <1>7, <1>8, <1>9, <1>10, <1>11 DEF RearmStep

SwitchRecord ==
    [pc: {"idle", "read", "next", "preflight", "mint", "commit", "models"},
     acct: Maybe, todo: SUBSET Accounts]

LEMMA SwitchesTyped ==
    ASSUME TInv, NEW s \in Switchers, NEW rec \in SwitchRecord,
           rec.pc \in Switching => rec.acct \in Accounts,
           switch' = [switch EXCEPT ![s] = rec],
           auth' \in AuthState, {github', copilot', user', active'} \subseteq Maybe,
           flagged' \subseteq Accounts, degrade' \in {"idle", "flag", "sweep"},
           loops' \subseteq LoopRecord, retries' \subseteq RetryRecord, grace' \in BOOLEAN,
           UNCHANGED <<workload, flow, rearm, signingOut, completion>>
    PROVE  TInv'
<1>1. UNCHANGED <<workload, flow, rearm, signingOut, completion>>
  OBVIOUS
<1>2. switch' \in SwitchType /\ SwitchesNamed'
  BY OneSwitchTyped DEF SwitchRecord, SwitchType
<1> QED
  BY <1>1, <1>2, Parts, Retyped DEF SwitchType, RearmType

LEMMA SweepTyped ==
    ASSUME TInv, DegradeFlags \/ SweepStep PROVE TInv'
<1>1. /\ "sweep" \in Switchers /\ switch["sweep"] \in SwitchRecord /\ NoSwitch \in SwitchRecord
      /\ NoSwitch.pc = "idle"
  BY Parts DEF Switchers, SwitchType, SwitchRecord, NoSwitch, Maybe
<1>2. CASE DegradeFlags
  <2>1. flagged' \subseteq Accounts
    BY <1>2, Parts DEF DegradeFlags, Maybe
  <2>2. CASE workload.autoRecover
    <3> DEFINE rec == [switch["sweep"] EXCEPT !.pc = "read"]
    <3>1. rec \in SwitchRecord /\ rec.pc = "read"
      BY <1>1 DEF SwitchRecord
    <3>2. switch' = [switch EXCEPT !["sweep"] = rec]
      BY <1>2, <2>2 DEF DegradeFlags
    <3> HIDE DEF rec
    <3> QED
      BY <1>1, <1>2, <2>1, <2>2, <3>1, <3>2, Parts, SwitchesTyped
         DEF DegradeFlags, Switching, tokens
  <2>3. CASE ~workload.autoRecover
    <3>1. auth' \in AuthState
      BY <1>2, <2>3 DEF DegradeFlags, AuthState
    <3>2. SwitchesNamed' /\ UNCHANGED <<switch, active, grace, workload, github, copilot, user,
                                        flow, loops, retries, rearm, signingOut, completion>>
      BY <1>2, <2>3, Parts DEF DegradeFlags, tokens, SwitchesNamed
    <3> QED
      BY <1>2, <2>1, <2>3, <3>1, <3>2, Parts, Retyped DEF DegradeFlags, SwitchType, RearmType
  <2> QED
    BY <2>2, <2>3
<1>3. CASE SweepReads
  <2> DEFINE rec == [switch["sweep"] EXCEPT !.pc = "next",
                                            !.todo = Accounts \ (flagged \cup {active})]
  <2>1. rec \in SwitchRecord /\ rec.pc = "next"
    BY <1>1 DEF SwitchRecord
  <2>2. switch' = [switch EXCEPT !["sweep"] = rec]
    BY <1>3 DEF SweepReads
  <2> HIDE DEF rec
  <2> QED
    BY <1>1, <1>3, <2>1, <2>2, Parts, SwitchesTyped
       DEF SweepReads, Switching, session, tokens, registry
<1>4. ASSUME NEW a \in Accounts, SweepTries(a) PROVE TInv'
  <2> DEFINE rec == [pc |-> "preflight", acct |-> a, todo |-> switch["sweep"].todo \ {a}]
  <2>1. rec \in SwitchRecord /\ rec.acct \in Accounts
    BY <1>1 DEF SwitchRecord, Maybe
  <2>2. switch' = [switch EXCEPT !["sweep"] = rec]
    BY <1>4 DEF SweepTries
  <2> HIDE DEF rec
  <2> QED
    BY <1>1, <1>4, <2>1, <2>2, Parts, SwitchesTyped DEF SweepTries, session, tokens, registry
<1>5. CASE SweepGivesUp
  <2>1. auth' \in AuthState /\ {github', copilot', user'} \subseteq Maybe
    BY <1>5 DEF SweepGivesUp, ClearTokenTrio, AuthState, Maybe
  <2> QED
    BY <1>1, <1>5, <2>1, Parts, SwitchesTyped DEF SweepGivesUp, Switching, registry
<1>6. CASE SweepFlagFails
  <2>1. auth' \in AuthState
    BY <1>6 DEF SweepFlagFails, AuthState
  <2> QED
    BY <1>1, <1>6, <2>1, Parts, SwitchesTyped DEF SweepFlagFails, Switching, tokens, registry
<1> QED
  BY <1>2, <1>3, <1>4, <1>5, <1>6 DEF SweepStep

LEMMA SwitchTyped ==
    ASSUME TInv,
           \/ \E a \in Accounts : SwitchRequested(a)
           \/ \E s \in Switchers : SwitchReply(s)
    PROVE  TInv'
<1>0. NoSwitch \in SwitchRecord /\ NoSwitch.pc = "idle"
  BY DEF SwitchRecord, NoSwitch, Maybe
<1>1. ASSUME NEW a \in Accounts, SwitchRequested(a) PROVE TInv'
  <2> DEFINE rec == [NoSwitch EXCEPT !.pc = "preflight", !.acct = a]
  <2>1. rec \in SwitchRecord /\ rec.acct \in Accounts
    BY DEF SwitchRecord, NoSwitch, Maybe
  <2>2. switch' = [switch EXCEPT !["request"] = rec] /\ "request" \in Switchers
    BY <1>1 DEF SwitchRequested, Switchers
  <2> HIDE DEF rec
  <2> QED
    BY <1>1, <2>1, <2>2, Parts, SwitchesTyped DEF SwitchRequested, session, tokens, registry
<1>2. ASSUME NEW s \in Switchers, SwitchReply(s) PROVE TInv'
  <2>1. switch[s] \in SwitchRecord /\ (switch[s].pc \in Switching => switch[s].acct \in Accounts)
    BY Parts DEF SwitchType, SwitchRecord, SwitchesNamed
  <2>2. \A step \in {"next", "mint", "commit", "models"} :
          /\ [switch[s] EXCEPT !.pc = step] \in SwitchRecord
          /\ [switch[s] EXCEPT !.pc = step].pc = step
          /\ [switch[s] EXCEPT !.pc = step].acct = switch[s].acct
          /\ [switch EXCEPT ![s].pc = step] = [switch EXCEPT ![s] = [switch[s] EXCEPT !.pc = step]]
    BY <2>1, Parts DEF SwitchRecord, SwitchType
  <2>3. switch[s].acct \in Maybe
    BY <2>1 DEF SwitchRecord
  <2>4. CASE PreflightOk(s)
    <3>1. switch[s].acct \in Accounts /\ loops' \subseteq LoopRecord
      BY <2>1, <2>4, Parts, StoppedLoops DEF PreflightOk, Switching
    <3> QED
      BY <2>2, <2>3, <2>4, <3>1, Parts, SwitchesTyped DEF PreflightOk, registry
  <2>5. CASE SwitchMinted(s)
    <3>1. switch[s].acct \in Accounts
      BY <2>1, <2>5 DEF SwitchMinted, Switching
    <3>2. copilot' \in Maybe /\ flagged' \subseteq Accounts /\ loops' \subseteq LoopRecord
      BY <2>3, <2>5, MintTyped DEF SwitchMinted
    <3> QED
      BY <2>2, <2>5, <3>1, <3>2, Parts, SwitchesTyped DEF SwitchMinted
  <2>6. CASE SwitchCommits(s)
    <3>1. switch[s].acct \in Accounts /\ flagged' \subseteq Accounts
      BY <2>1, <2>6, Parts DEF SwitchCommits, Switching
    <3> QED
      BY <2>2, <2>3, <2>6, <3>1, Parts, SwitchesTyped DEF SwitchCommits, tokens
  <2>7. CASE SwitchSignsIn(s)
    <3>1. switch[s].acct \in Accounts
      BY <2>1, <2>7 DEF SwitchSignsIn, Switching
    <3>2. auth' \in AuthState /\ grace' \in BOOLEAN /\ retries' \subseteq RetryRecord
      BY <2>7, <3>1, Parts, MarkSignedInTyped DEF SwitchSignsIn
    <3>3. degrade' \in {"idle", "flag", "sweep"}
      BY <2>7, Parts DEF SwitchSignsIn
    <3> QED
      BY <1>0, <2>7, <3>2, <3>3, Parts, SwitchesTyped
         DEF SwitchSignsIn, Switching, tokens, registry
  <2>8. CASE SwitchFails(s)
    <3>1. switch[s].acct \in Accounts
      BY <2>1, <2>8 DEF SwitchFails, Switching, WhereWriteFails, SwitchRecord
    <3>2. flagged' \subseteq Accounts
      BY <2>8, <3>1, Parts DEF SwitchFails
    <3>3. CASE s = "sweep"
      <4>1. switch' = [switch EXCEPT ![s] = [switch[s] EXCEPT !.pc = "next"]]
        BY <2>8, <3>3 DEF SwitchFails
      <4> QED
        BY <2>2, <2>8, <3>1, <3>2, <4>1, Parts, SwitchesTyped DEF SwitchFails, tokens
    <3>4. CASE s # "sweep"
      <4>1. switch' = [switch EXCEPT ![s] = NoSwitch]
        BY <2>8, <3>4 DEF SwitchFails
      <4> QED
        BY <1>0, <2>8, <3>2, <4>1, Parts, SwitchesTyped DEF SwitchFails, Switching, tokens
    <3> QED
      BY <3>3, <3>4
  <2> QED
    BY <1>2, <2>4, <2>5, <2>6, <2>7, <2>8 DEF SwitchReply
<1> QED
  BY <1>1, <1>2

LEMMA SignOutTyped ==
    ASSUME TInv,
           \/ CancelDeviceFlow \/ SignOut \/ SignOutDeactivates
           \/ SendCompletion \/ CompletionServed \/ GraceElapses
    PROVE  TInv'
<1>1. SwitchesNamed'
  <2>1. switch' = switch
    BY DEF CancelDeviceFlow, SignOut, SignOutDeactivates, SendCompletion, CompletionServed,
           GraceElapses, tasks
  <2> QED
    BY <2>1, Parts DEF SwitchesNamed
<1>2. FlowsTyped(AbortCurrent(flow))
  BY Parts, AbortTyped
<1>3. CASE CancelDeviceFlow
  <2>1. CurrentFlow \in Flows
    BY <1>3, Parts DEF CancelDeviceFlow, CurrentFlow
  <2>2. flow[CurrentFlow].resume \in Maybe
    BY <2>1, Parts DEF FlowRecord
  <2>3. auth' \in AuthState
    BY <1>3, <2>2 DEF CancelDeviceFlow, AuthState, Maybe
  <2> QED
    BY <1>1, <1>2, <1>3, <2>3, Parts, Retyped
       DEF CancelDeviceFlow, tokens, registry, SwitchType, RearmType
<1>4. CASE SignOut
  <2>1. auth' \in AuthState /\ {github', copilot', user'} \subseteq Maybe
    BY <1>4 DEF SignOut, ClearTokenTrio, AuthState, Maybe
  <2>2. retries' \subseteq RetryRecord
    BY <1>4, Parts, StoppedRetries DEF SignOut
  <2>3. signingOut' \in BOOLEAN
    BY <1>4 DEF SignOut
  <2> QED
    BY <1>1, <1>2, <1>4, <2>1, <2>2, <2>3, Parts, Retyped
       DEF SignOut, registry, SwitchType, RearmType
<1>5. CASE SignOutDeactivates
  <2>1. active' \in Maybe /\ signingOut' \in BOOLEAN
    BY <1>5 DEF SignOutDeactivates, Maybe
  <2> QED
    BY <1>1, <1>5, <2>1, Parts, Retyped DEF SignOutDeactivates, tokens, SwitchType, RearmType
<1>6. CASE SendCompletion \/ CompletionServed
  <2>1. completion' \in BOOLEAN
    BY <1>6 DEF SendCompletion, CompletionServed
  <2> QED
    BY <1>1, <1>6, <2>1, Parts, Retyped
       DEF SendCompletion, CompletionServed, session, tokens, registry, SwitchType, RearmType
<1>7. CASE GraceElapses
  BY <1>1, <1>7, Parts, Retyped
     DEF GraceElapses, tasks, tokens, registry, SwitchType, RearmType
<1> QED
  BY <1>3, <1>4, <1>5, <1>6, <1>7

LEMMA NextTyped ==
    ASSUME TInv, [Next]_vars PROVE TInv'
<1>1. CASE UNCHANGED vars
  BY <1>1 DEF vars, TInv, TypeOK, FlowsNamed, SwitchesNamed
<1> QED
  BY <1>1, FlowStepTyped, RefreshTyped, RetryTyped, RearmTyped, SweepTyped, SwitchTyped,
     SignOutTyped DEF Next

\* However calls interleave, every variable keeps its type; in particular a handler
\* that signs in always has an account to do it under (markSignedIn,
\* flowFailureState), and an abort never meets a flow that is not there.
THEOREM TypeCorrect == Spec => []TypeOK
<1>1. TInv => TypeOK
  BY DEF TInv
<1> QED
  BY <1>1, InitTyped, NextTyped, PTL DEF Spec

-----------------------------------------------------------------------------
(* One live loop of each kind *)

AtMostOneLive(S) == \A x, y \in S : x.live /\ y.live => x = y

LoneInv == AtMostOneLive(loops) /\ AtMostOneLive(retries)

LEMMA LoneMeans == LoneInv => OneLiveLoop
<1>1. ASSUME NEW S, AtMostOneLive(S) PROVE Cardinality({x \in S : x.live}) <= 1
  <2> DEFINE live == {x \in S : x.live}
  <2>1. CASE live = {}
    BY <2>1, FS_EmptySet
  <2>2. CASE live # {}
    <3>1. PICK x \in S : x.live
      BY <2>2
    <3>2. live = {x}
      BY <1>1, <3>1 DEF AtMostOneLive
    <3>3. Cardinality({x}) = 1
      BY FS_Singleton
    <3> QED
      BY <3>2, <3>3
  <2> QED
    BY <2>1, <2>2
<1> QED
  BY <1>1 DEF LoneInv, OneLiveLoop

LEMMA LoneSubset ==
    ASSUME NEW S, NEW T \in SUBSET S, AtMostOneLive(S) PROVE AtMostOneLive(T)
  BY DEF AtMostOneLive

\* Whatever replaces the loops that were stopped.
LEMMA LoneAfterStop ==
    ASSUME NEW S, S \subseteq LoopRecord \/ S \subseteq RetryRecord, NEW n
    PROVE  AtMostOneLive(Stopped(S)) /\ AtMostOneLive(Stopped(S) \cup {n})
  BY StoppedLoops, StoppedRetries DEF AtMostOneLive

\* A loop that goes on stays the one it was.
LEMMA LoneReplaced ==
    ASSUME NEW S, AtMostOneLive(S), NEW x \in S, NEW y, y.live => x.live
    PROVE  AtMostOneLive((S \ {x}) \cup {y})
  BY DEF AtMostOneLive

LEMMA LoneDegraded ==
    ASSUME TInv, NEW fl, NEW ls \in SUBSET loops, NEW rs \in SUBSET retries, LoneInv,
           MarkAuthDegraded(fl, ls, rs)
    PROVE  LoneInv'
<1>1. ls \subseteq LoopRecord /\ rs \subseteq RetryRecord
  BY Parts
<1>2. AtMostOneLive(ls) /\ AtMostOneLive(rs)
  BY LoneSubset DEF LoneInv
<1> QED
  BY <1>1, <1>2, LoneAfterStop DEF MarkAuthDegraded, LoneInv

LEMMA NextLone ==
    ASSUME TInv, LoneInv, [Next]_vars PROVE LoneInv'
<1>0. loops \subseteq LoopRecord /\ retries \subseteq RetryRecord
  BY Parts
<1>1. CASE UNCHANGED <<loops, retries>>
  BY <1>1 DEF LoneInv
<1>2. ASSUME NEW f \in Flows, FlowStep(f) PROVE LoneInv'
  <2>1. CASE FlowMinted(f)
    BY <1>0, <2>1, LoneAfterStop DEF FlowMinted, MintOk, LoneInv
  <2>2. CASE FlowMintOffline(f)
    BY <1>0, <2>2, LoneAfterStop DEF FlowMintOffline, LoneInv
  <2>3. CASE FlowMintFatal(f)
    BY <2>3, LoneDegraded DEF FlowMintFatal
  <2>4. CASE FlowSignsIn(f)
    BY <1>0, <2>4, LoneAfterStop DEF FlowSignsIn, LoneInv
  <2> QED
    BY <1>1, <1>2, <2>1, <2>2, <2>3, <2>4
       DEF FlowStep, StartDeviceFlow, InstallFlow, DeviceCodeFails, FlowExpires, Approved,
           FlowFails, AbortedFlowEnds, IdentityResolved, AccountAdded
<1>3. CASE RefreshStep
  <2>1. PICK x \in loops : \/ RefreshDue(x) \/ RefreshOk(x) \/ RefreshRejected(x)
                           \/ RefreshFatal(x) \/ RefreshOffline(x)
    BY <1>3 DEF RefreshStep
  <2>2. x \in LoopRecord
    BY <1>0
  <2>3. \A n : AtMostOneLive(LoopGoesOn(x, n))
    <3> SUFFICES ASSUME NEW n PROVE AtMostOneLive(LoopGoesOn(x, n))
      OBVIOUS
    <3>1. CASE x.live
      BY <3>1, LoneReplaced DEF LoopGoesOn, LoneInv
    <3>2. CASE ~x.live
      BY <3>2, LoneSubset DEF LoopGoesOn, LoneInv
    <3> QED
      BY <3>1, <3>2
  <2>4. CASE RefreshDue(x)
    <3>1. [x EXCEPT !.pc = "wait", !.sent = github].live <=> x.live
      BY <2>2 DEF LoopRecord
    <3> QED
      BY <2>4, <3>1, LoneReplaced DEF RefreshDue, LoneInv
  <2>5. CASE RefreshFatal(x)
    BY <2>5, LoneDegraded DEF RefreshFatal
  <2> QED
    BY <2>1, <2>3, <2>4, <2>5 DEF RefreshOk, RefreshRejected, RefreshOffline, LoneInv
<1>4. CASE RetryStep
  <2>1. PICK r \in retries : \/ RetryDue(r) \/ RetryMinted(r) \/ RetryFatal(r)
                             \/ RetryOffline(r) \/ RetryOnline(r)
                             \/ RetryIdentified(r) \/ RetryUnidentified(r)
    BY <1>4 DEF RetryStep
  <2>2. r \in RetryRecord
    BY <1>0
  <2>3. AtMostOneLive(retries \ {r}) /\ AtMostOneLive(loops)
    BY LoneSubset DEF LoneInv
  <2>4. CASE RetryDue(r)
    <3>1. [r EXCEPT !.pc = "mint", !.sent = github].live <=> r.live
      BY <2>2 DEF RetryRecord
    <3> QED
      BY <2>3, <2>4, <3>1, LoneReplaced DEF RetryDue, LoneInv
  <2>5. CASE RetryMinted(r)
    <3>1. [r EXCEPT !.pc = "models", !.sent = None].live <=> r.live
      BY <2>2 DEF RetryRecord
    <3>2. AtMostOneLive(Stopped(loops)) /\ AtMostOneLive(Stopped(loops) \cup {NewLoop})
      BY <1>0, LoneAfterStop
    <3>3. AtMostOneLive((retries \ {r}) \cup {[r EXCEPT !.pc = "models", !.sent = None]})
      BY <3>1, LoneReplaced DEF LoneInv
    <3> QED
      BY <2>3, <2>5, <3>2, <3>3 DEF RetryMinted, LoneInv
  <2>6. CASE RetryFatal(r)
    BY <2>6, LoneDegraded DEF RetryFatal
  <2>7. CASE RetryOffline(r)
    BY <2>3, <2>7, LoneReplaced DEF RetryOffline, LoneInv
  <2>8. CASE RetryOnline(r)
    <3>1. ~[r EXCEPT !.pc = "user", !.live = FALSE, !.sent = github].live
      BY <2>2 DEF RetryRecord
    <3>2. AtMostOneLive(Stopped(retries \ {r}))
      BY <1>0, LoneAfterStop
    <3>3. AtMostOneLive((retries \ {r}) \cup
                          {[r EXCEPT !.pc = "user", !.live = FALSE, !.sent = github]})
      BY <3>1, LoneReplaced DEF LoneInv
    <3> QED
      BY <2>3, <2>8, <3>2, <3>3 DEF RetryOnline, MarkSignedIn, LoneInv
  <2>9. CASE RetryIdentified(r)
    <3>2. AtMostOneLive(Stopped(retries \ {r}))
      BY <1>0, LoneAfterStop
    <3> QED
      BY <2>3, <2>9, <3>2 DEF RetryIdentified, MarkSignedIn, LoneInv
  <2>10. CASE RetryUnidentified(r)
    BY <2>3, <2>10 DEF RetryUnidentified, LoneInv
  <2> QED
    BY <2>1, <2>4, <2>5, <2>6, <2>7, <2>8, <2>9, <2>10
<1>5. CASE RearmStep
  <2>1. CASE RearmWithoutToken
    BY <2>1, LoneDegraded DEF RearmWithoutToken
  <2>2. CASE RearmMinted
    BY <1>0, <2>2, LoneAfterStop DEF RearmMinted, MintOk, MarkSignedIn, LoneInv
  <2>3. CASE RearmFatal
    BY <1>1, <2>3, LoneDegraded DEF RearmFatal
  <2> QED
    BY <1>1, <1>5, <2>1, <2>2, <2>3
       DEF RearmStep, RearmJoins, RearmStarts, RearmOffline, RearmRejected, RenewReads,
           Renewed, RenewalSaved
<1>6. ASSUME NEW s \in Switchers, SwitchReply(s) PROVE LoneInv'
  <2>1. CASE PreflightOk(s)
    BY <1>0, <2>1, LoneAfterStop DEF PreflightOk, LoneInv
  <2>2. CASE SwitchMinted(s)
    BY <1>0, <2>2, LoneAfterStop DEF SwitchMinted, MintOk, LoneInv
  <2>3. CASE SwitchSignsIn(s)
    BY <1>0, <2>3, LoneAfterStop DEF SwitchSignsIn, MarkSignedIn, LoneInv
  <2> QED
    BY <1>1, <1>6, <2>1, <2>2, <2>3 DEF SwitchReply, SwitchCommits, SwitchFails
<1>7. CASE SignOut
  BY <1>0, <1>7, LoneAfterStop DEF SignOut, LoneInv
<1> QED
  BY <1>1, <1>2, <1>3, <1>4, <1>5, <1>6, <1>7
     DEF Next, CancelDeviceFlow, SignOutDeactivates, SendCompletion, CompletionServed,
         DegradeFlags, SweepStep, SweepReads, SweepTries, SweepGivesUp, SweepFlagFails, SwitchRequested,
         GraceElapses, tasks, vars

\* However sign-ins, retries, re-arms, switches and a sign-out overlap, at most one
\* refresh loop and at most one online retry runs: whoever starts one stops the one
\* in place in the same turn (setupCopilotToken, scheduleCopilotOnlineRetry).
THEOREM OneLoop == Spec => []OneLiveLoop
<1>1. Init => LoneInv
  BY DEF Init, Session, LoneInv, AtMostOneLive
<1> QED
  BY <1>1, InitTyped, NextTyped, NextLone, LoneMeans, PTL DEF Spec

-----------------------------------------------------------------------------
(* The sweep is a part of the degrade *)

SweepsInDegrade ==
    /\ switch["sweep"].pc # "idle" <=> degrade = "sweep"
    /\ degrade = "sweep" => workload.autoRecover

\* markAuthDegraded starts at most the flagging, and never during a degrade.
LEMMA DegradeStarts ==
    ASSUME NEW fl, NEW ls, NEW rs, MarkAuthDegraded(fl, ls, rs)
    PROVE  degrade' = degrade \/ (degrade = "idle" /\ ~grace /\ degrade' = "flag")
  BY DEF MarkAuthDegraded

LEMMA NextSweeps ==
    ASSUME TInv, SweepsInDegrade, [Next]_vars PROVE SweepsInDegrade'
<1>0. switch \in SwitchType /\ "sweep" \in Switchers /\ "request" \in Switchers
      /\ switch["sweep"] \in SwitchRecord
  BY Parts DEF Switchers, SwitchType, SwitchRecord
<1>1. CASE /\ switch'["sweep"] = switch["sweep"] /\ workload' = workload
           /\ degrade' = degrade \/ (degrade = "idle" /\ degrade' = "flag")
  BY <1>1 DEF SweepsInDegrade
<1>2. CASE UNCHANGED <<switch, degrade, workload>>
  BY <1>1, <1>2
<1>3. ASSUME NEW f \in Flows, FlowStep(f) PROVE SweepsInDegrade'
  <2>1. CASE FlowMintFatal(f)
    BY <1>1, <2>1, DegradeStarts DEF FlowMintFatal
  <2> QED
    BY <1>2, <1>3, <2>1
       DEF FlowStep, StartDeviceFlow, InstallFlow, DeviceCodeFails, FlowExpires, Approved,
           FlowFails, AbortedFlowEnds, IdentityResolved, AccountAdded, FlowMinted,
           FlowMintOffline, FlowSignsIn, session
<1>4. CASE RefreshStep
  <2>1. ASSUME NEW x \in loops, RefreshFatal(x) PROVE SweepsInDegrade'
    BY <1>1, <2>1, DegradeStarts DEF RefreshFatal
  <2> QED
    BY <1>2, <1>4, <2>1
       DEF RefreshStep, RefreshDue, RefreshOk, RefreshRejected, RefreshOffline, session
<1>5. CASE RetryStep
  <2>1. ASSUME NEW r \in retries, RetryFatal(r) PROVE SweepsInDegrade'
    BY <1>1, <2>1, DegradeStarts DEF RetryFatal
  <2> QED
    BY <1>2, <1>5, <2>1
       DEF RetryStep, RetryDue, RetryMinted, RetryOffline, RetryOnline, RetryIdentified,
           RetryUnidentified, session
<1>6. CASE RearmStep
  <2>1. CASE RearmWithoutToken
    BY <1>1, <2>1, DegradeStarts DEF RearmWithoutToken
  <2>2. CASE RearmFatal
    BY <1>1, <1>2, <2>2, DegradeStarts DEF RearmFatal
  <2> QED
    BY <1>2, <1>6, <2>1, <2>2
       DEF RearmStep, RearmJoins, RearmStarts, RearmMinted, RearmOffline, RearmRejected,
           RenewReads, Renewed, RenewalSaved, session
<1>7. CASE DegradeFlags
  <2>1. switch["sweep"].pc = "idle"
    BY <1>7 DEF DegradeFlags, SweepsInDegrade
  <2>2. CASE workload.autoRecover
    <3>1. /\ workload' = workload /\ degrade' = "sweep"
          /\ switch' = [switch EXCEPT !["sweep"].pc = "read"]
      BY <1>7, <2>2 DEF DegradeFlags
    <3>2. switch'["sweep"].pc = "read"
      BY <1>0, <3>1 DEF SwitchType
    <3> QED
      BY <2>2, <3>1, <3>2 DEF SweepsInDegrade
  <2>3. CASE ~workload.autoRecover
    BY <1>7, <2>1, <2>3 DEF DegradeFlags, SweepsInDegrade
  <2> QED
    BY <2>2, <2>3
<1>8. CASE SweepStep
  <2>1. CASE SweepReads \/ \E a \in Accounts : SweepTries(a)
    <3>1. /\ UNCHANGED <<degrade, workload>> /\ degrade = "sweep"
          /\ switch'["sweep"].pc # "idle"
      <4>1. SweepReads =>
              switch'["sweep"].pc = "next" /\ switch["sweep"].pc # "idle"
        BY <1>0 DEF SweepReads, SwitchType, SwitchRecord
      <4>2. \A a \in Accounts : SweepTries(a) =>
              switch'["sweep"].pc = "preflight" /\ switch["sweep"].pc # "idle"
        BY <1>0 DEF SweepTries, SwitchType
      <4> QED
        BY <2>1, <4>1, <4>2 DEF SweepReads, SweepTries, session, SweepsInDegrade
    <3> QED
      BY <3>1 DEF SweepsInDegrade
  <2>2. CASE SweepGivesUp \/ SweepFlagFails
    <3>1. switch'["sweep"].pc = "idle" /\ degrade' = "idle"
      BY <1>0, <2>2 DEF SweepGivesUp, SweepFlagFails, SwitchType, NoSwitch
    <3> QED
      BY <3>1 DEF SweepsInDegrade
  <2> QED
    BY <1>8, <2>1, <2>2 DEF SweepStep
<1>9. ASSUME NEW a \in Accounts, SwitchRequested(a) PROVE SweepsInDegrade'
  <2>1. switch'["sweep"] = switch["sweep"] /\ degrade' = degrade /\ workload' = workload
    BY <1>0, <1>9 DEF SwitchRequested, SwitchType, session
  <2> QED
    BY <1>1, <2>1
<1>10. ASSUME NEW s \in Switchers, SwitchReply(s) PROVE SweepsInDegrade'
  <2>1. workload' = workload
    BY <1>10 DEF SwitchReply, PreflightOk, SwitchMinted, SwitchCommits, SwitchSignsIn,
                 SwitchFails
  <2>2. CASE s = "request"
    <3>1. switch'["sweep"] = switch["sweep"] /\ degrade' = degrade
      BY <1>0, <1>10, <2>2 DEF SwitchReply, PreflightOk, SwitchMinted, SwitchCommits,
         SwitchSignsIn, SwitchFails, SwitchType
    <3> QED
      BY <1>1, <2>1, <3>1
  <2>3. CASE s = "sweep"
    <3>1. switch["sweep"].pc # "idle"
      BY <1>10, <2>3 DEF SwitchReply, PreflightOk, SwitchMinted, SwitchCommits,
         SwitchSignsIn, SwitchFails, WhereWriteFails
    <3>2. CASE SwitchSignsIn(s)
      <4>1. switch'["sweep"].pc = "idle" /\ degrade' = "idle"
        BY <1>0, <2>3, <3>2 DEF SwitchSignsIn, SwitchType, NoSwitch
      <4> QED
        BY <4>1 DEF SweepsInDegrade
    <3>3. CASE PreflightOk(s) \/ SwitchMinted(s) \/ SwitchCommits(s) \/ SwitchFails(s)
      <4>1. switch'["sweep"].pc # "idle" /\ degrade' = degrade
        BY <1>0, <2>3, <3>3 DEF PreflightOk, SwitchMinted, SwitchCommits, SwitchFails,
           SwitchType, SwitchRecord
      <4> QED
        BY <2>1, <3>1, <4>1 DEF SweepsInDegrade
    <3> QED
      BY <1>10, <3>2, <3>3 DEF SwitchReply
  <2> QED
    BY <2>2, <2>3 DEF Switchers
<1> QED
  BY <1>2, <1>3, <1>4, <1>5, <1>6, <1>7, <1>8, <1>9, <1>10
     DEF Next, CancelDeviceFlow, SignOut, SignOutDeactivates, SendCompletion,
         CompletionServed, GraceElapses, tasks, session, vars

LEMMA InitSweeps == Init => SweepsInDegrade
  BY DEF Init, SweepsInDegrade, NoSwitch, Switchers

-----------------------------------------------------------------------------
(* One thing at a time: where nothing starts before all is settled, at most *)
(* one call is under way at any moment, and what it turns into follows it.  *)

AtRest(fl, f) == fl[f].pc \in {"idle", "poll"}

\* Nothing is in flight but, possibly, `k`: flow, loop or retry `i`.
OthersRest(k, i) ==
    /\ \A f \in Flows : (k = "flow" /\ i = f) \/ AtRest(flow, f)
    /\ \A x \in loops : (k = "loop" /\ i = x) \/ x.pc = "sleep"
    /\ \A r \in retries : (k = "retry" /\ i = r) \/ r.pc = "sleep"
    /\ k = "rearm" \/ rearm.pc = "idle"
    /\ k = "degrade" \/ degrade = "idle"
    /\ k = "request" \/ switch["request"].pc = "idle"
    /\ k = "signOut" \/ ~signingOut
    /\ k = "completion" \/ ~completion

OneInFlight == \E k, i : OthersRest(k, i)

LEMMA Alone ==
    ASSUME OneInFlight
    PROVE  /\ \A f \in Flows : ~AtRest(flow, f) => OthersRest("flow", f)
           /\ \A x \in loops : x.pc # "sleep" => OthersRest("loop", x)
           /\ \A r \in retries : r.pc # "sleep" => OthersRest("retry", r)
           /\ rearm.pc # "idle" => OthersRest("rearm", None)
           /\ degrade # "idle" => OthersRest("degrade", None)
           /\ switch["request"].pc # "idle" => OthersRest("request", None)
           /\ signingOut => OthersRest("signOut", None)
           /\ completion => OthersRest("completion", None)
<1>1. PICK k, i : OthersRest(k, i)
  BY DEF OneInFlight
<1> QED
  BY <1>1 DEF OthersRest

LEMMA SettledRests ==
    ASSUME Settled, NEW k, NEW i PROVE OthersRest(k, i)
  BY DEF Settled, OthersRest, AtRest, Switchers

LEMMA RestingStops ==
    ASSUME NEW S, \A x \in S : x.pc = "sleep" PROVE Stopped(S) = {}
  BY DEF Stopped

LEMMA NewSleeps == NewLoop.pc = "sleep" /\ \A b : NewRetry(b).pc = "sleep"
  BY DEF NewLoop, NewRetry

\* Aborting a flow does not move it, ending it moves only itself.
LEMMA AbortRests ==
    ASSUME TInv, NEW fl, fl \in [Flows -> FlowRecord]
    PROVE  \A g \in Flows : AbortCurrent(fl)[g].pc = fl[g].pc
  BY Parts DEF AbortCurrent, CurrentFlow, FlowRecord

LEMMA EndedRests ==
    ASSUME TInv, NEW f \in Flows
    PROVE  /\ Ended(f) \in [Flows -> FlowRecord]
           /\ Ended(f)[f].pc = "idle"
           /\ \A g \in Flows \ {f} : Ended(f)[g] = flow[g]
<1>1. Ended(f) \in [Flows -> FlowRecord]
  BY EndedTyped DEF FlowsTyped
<1> QED
  BY <1>1, Parts DEF Ended, NoFlow, FlowRecord

\* What was alone in flight degrades the session: the degrade is alone then.
LEMMA DegradedRests ==
    ASSUME TInv, NEW fl, fl \in [Flows -> FlowRecord], \A g \in Flows : AtRest(fl, g),
           NEW ls, \A x \in ls : x.pc = "sleep", NEW rs, \A x \in rs : x.pc = "sleep",
           MarkAuthDegraded(fl, ls, rs),
           rearm'.pc = "idle", switch'["request"].pc = "idle", ~signingOut', ~completion'
    PROVE  OthersRest("degrade", None)'
<1>1. \A g \in Flows : AtRest(AbortCurrent(fl), g)
  BY AbortRests DEF AtRest
<1>2. /\ \A g \in Flows : AtRest(flow', g)
      /\ \A x \in loops' : x.pc = "sleep"
      /\ \A x \in retries' : x.pc = "sleep"
  BY <1>1, RestingStops DEF MarkAuthDegraded
<1> QED
  BY <1>2 DEF OthersRest, AtRest

SerialInv == workload.serial => OneInFlight

LEMMA FlowStepSerial ==
    ASSUME TInv, workload.serial, OneInFlight, NEW f \in Flows, FlowStep(f)
    PROVE  OneInFlight'
<1>0. flow \in [Flows -> FlowRecord] /\ flow[f] \in FlowRecord
  BY Parts
<1>1. \/ ~AtRest(flow, f) /\ OthersRest("flow", f)
      \/ AtRest(flow, f)
  BY Alone
\* Steps of a flow that alone is in flight.
<1>2. ASSUME OthersRest("flow", f), \A g \in Flows \ {f} : AtRest(flow', g),
             \A x \in loops' : x.pc = "sleep", \A x \in retries' : x.pc = "sleep",
             UNCHANGED <<rearm, degrade, switch, signingOut, completion>>
      PROVE  OneInFlight'
  <2>1. OthersRest("flow", f)'
    BY <1>2 DEF OthersRest, AtRest
  <2> QED
    BY <2>1 DEF OneInFlight
\* Steps that start nothing.
<1>3. ASSUME \A g \in Flows : flow'[g].pc = flow[g].pc \/ AtRest(flow', g),
             UNCHANGED <<loops, retries, rearm, degrade, switch, signingOut, completion>>
      PROVE  OneInFlight'
  <2>1. PICK k, i : OthersRest(k, i)
    BY DEF OneInFlight
  <2>2. OthersRest(k, i)'
    BY <1>3, <2>1 DEF OthersRest, AtRest
  <2> QED
    BY <2>2 DEF OneInFlight
<1>4. ASSUME OthersRest("flow", f)
      PROVE  /\ \A g \in Flows \ {f} : AtRest(flow, g)
             /\ \A x \in loops : x.pc = "sleep"
             /\ \A r \in retries : r.pc = "sleep"
             /\ rearm.pc = "idle" /\ degrade = "idle" /\ switch["request"].pc = "idle"
             /\ ~signingOut /\ ~completion
  BY <1>4 DEF OthersRest
<1>5. CASE StartDeviceFlow(f)
  <2>1. OthersRest("flow", f)
    BY <1>5, SettledRests DEF StartDeviceFlow, Starts, MayStart
  <2>2. \A g \in Flows \ {f} : AtRest(flow', g)
    BY <1>0, <1>4, <1>5, <2>1, AbortRests DEF StartDeviceFlow, AtRest, AbortCurrent
  <2> QED
    BY <1>2, <1>4, <1>5, <2>1, <2>2 DEF StartDeviceFlow
<1>6. CASE InstallFlow(f)
  BY <1>0, <1>3, <1>6 DEF InstallFlow, AtRest, NoFlow, FlowRecord
<1>7. CASE DeviceCodeFails(f)
  BY <1>3, <1>7, EndedRests DEF DeviceCodeFails, AtRest
<1>8. CASE FlowExpires(f)
  <2>1. \A g \in Flows : flow'[g].pc = flow[g].pc
    BY <1>0, <1>8 DEF FlowExpires, FlowRecord
  <2> QED
    BY <1>3, <1>8, <2>1 DEF FlowExpires
<1>9. CASE \E a \in Accounts : Approved(f, a)
  <2>1. OthersRest("flow", f)
    BY <1>9, SettledRests DEF Approved, MayStart
  <2>2. \A g \in Flows \ {f} : flow'[g] = flow[g]
    BY <1>0, <1>9 DEF Approved
  <2> QED
    BY <1>2, <1>4, <1>9, <2>1, <2>2 DEF Approved, AtRest
<1>10. CASE FlowFails(f)
  <2>1. \A g \in Flows : flow'[g].pc = flow[g].pc \/ AtRest(flow', g)
    BY <1>10, EndedRests DEF FlowFails, AtRest, NoFlow
  <2> QED
    BY <1>3, <1>10, <2>1 DEF FlowFails
<1>11. CASE AbortedFlowEnds(f)
  BY <1>3, <1>11, EndedRests DEF AbortedFlowEnds, AtRest
<1>12. CASE IdentityResolved(f) \/ AccountAdded(f)
  <2>1. OthersRest("flow", f)
    BY <1>1, <1>12 DEF IdentityResolved, AccountAdded, AtRest
  <2>2. \A g \in Flows \ {f} : flow'[g] = flow[g]
    BY <1>0, <1>12 DEF IdentityResolved, AccountAdded
  <2> QED
    BY <1>2, <1>4, <1>12, <2>1, <2>2 DEF IdentityResolved, AccountAdded, AtRest
<1>13. ASSUME flow[f].pc = "mint", NEW b, flow' = AfterMint(f, b)
       PROVE  /\ OthersRest("flow", f)
              /\ \A g \in Flows \ {f} : AtRest(flow', g)
  <2>1. OthersRest("flow", f)
    BY <1>1, <1>13 DEF AtRest
  <2>2. \A g \in Flows \ {f} : flow'[g] = flow[g]
    BY <1>0, <1>13, EndedRests DEF AfterMint
  <2> QED
    BY <1>4, <2>1, <2>2 DEF AtRest
<1>14. CASE FlowMinted(f)
  <2>1. OthersRest("flow", f) /\ \A g \in Flows \ {f} : AtRest(flow', g)
    BY <1>13, <1>14 DEF FlowMinted
  <2>2. loops' = {NewLoop}
    BY <1>4, <1>14, <2>1, RestingStops DEF FlowMinted, MintOk
  <2> QED
    BY <1>2, <1>4, <1>14, <2>1, <2>2, NewSleeps DEF FlowMinted
<1>15. CASE FlowMintOffline(f)
  <2>1. OthersRest("flow", f) /\ \A g \in Flows \ {f} : AtRest(flow', g)
    BY <1>13, <1>15 DEF FlowMintOffline
  <2>2. retries' = {NewRetry(FALSE)}
    BY <1>4, <1>15, <2>1, RestingStops DEF FlowMintOffline
  <2> QED
    BY <1>2, <1>4, <1>15, <2>1, <2>2, NewSleeps DEF FlowMintOffline
<1>16. CASE FlowMintFatal(f)
  <2>1. OthersRest("flow", f)
    BY <1>1, <1>16 DEF FlowMintFatal, AtRest
  <2>2. \A g \in Flows : AtRest(Ended(f), g)
    BY <1>4, <2>1, EndedRests DEF AtRest
  <2>3. UNCHANGED <<rearm, switch, signingOut, completion>>
    BY <1>16 DEF FlowMintFatal
  <2>4. OthersRest("degrade", None)'
    BY <1>4, <1>16, <2>1, <2>2, <2>3, EndedRests, DegradedRests DEF FlowMintFatal
  <2> QED
    BY <2>4 DEF OneInFlight
<1>17. CASE FlowSignsIn(f)
  <2>1. OthersRest("flow", f)
    BY <1>1, <1>17 DEF FlowSignsIn, AtRest
  <2>2. \A g \in Flows \ {f} : flow'[g] = flow[g]
    BY <1>0, <1>17, EndedRests DEF FlowSignsIn
  <2>3. \A x \in retries' : x.pc = "sleep"
    BY <1>4, <1>17, <2>1, RestingStops DEF FlowSignsIn
  <2> QED
    BY <1>2, <1>4, <1>17, <2>1, <2>2, <2>3 DEF FlowSignsIn, AtRest
<1> QED
  BY <1>5, <1>6, <1>7, <1>8, <1>9, <1>10, <1>11, <1>12, <1>14, <1>15, <1>16, <1>17
     DEF FlowStep

LEMMA RefreshSerial ==
    ASSUME TInv, workload.serial, OneInFlight, NEW x \in loops,
           \/ RefreshDue(x) \/ RefreshOk(x) \/ RefreshRejected(x)
           \/ RefreshFatal(x) \/ RefreshOffline(x)
    PROVE  OneInFlight'
<1>1. OthersRest("loop", x)
  BY SettledRests, Alone
     DEF RefreshDue, RefreshOk, RefreshRejected, RefreshFatal, RefreshOffline, Starts, MayStart
<1>2. /\ \A g \in Flows : AtRest(flow, g)
      /\ \A y \in loops \ {x} : y.pc = "sleep"
      /\ \A r \in retries : r.pc = "sleep"
      /\ rearm.pc = "idle" /\ degrade = "idle" /\ switch["request"].pc = "idle"
      /\ ~signingOut /\ ~completion
  BY <1>1 DEF OthersRest
<1>3. x \in LoopRecord
  BY Parts
<1>4. CASE RefreshDue(x)
  <2>1. PICK y : loops' = (loops \ {x}) \cup {y}
    BY <1>4 DEF RefreshDue
  <2>2. OthersRest("loop", y)'
    BY <1>2, <1>4, <2>1 DEF RefreshDue, OthersRest, AtRest
  <2> QED
    BY <2>2 DEF OneInFlight
<1>5. CASE RefreshFatal(x)
  <2>1. flow \in [Flows -> FlowRecord]
    BY Parts
  <2>2. UNCHANGED <<rearm, switch, signingOut, completion>>
    BY <1>5 DEF RefreshFatal
  <2>3. OthersRest("degrade", None)'
    BY <1>2, <1>5, <2>1, <2>2, DegradedRests DEF RefreshFatal
  <2> QED
    BY <2>3 DEF OneInFlight
<1>6. \A n : \A y \in LoopGoesOn(x, n) : y.pc = "sleep"
  BY <1>2, <1>3 DEF LoopGoesOn, LoopRecord
<1>7. CASE RefreshOk(x) \/ RefreshRejected(x) \/ RefreshOffline(x)
  <2>1. OthersRest("loop", x)'
    BY <1>2, <1>6, <1>7 DEF RefreshOk, RefreshRejected, RefreshOffline, OthersRest, AtRest
  <2> QED
    BY <2>1 DEF OneInFlight
<1> QED
  BY <1>4, <1>5, <1>7

LEMMA RetrySerial ==
    ASSUME TInv, workload.serial, OneInFlight, NEW r \in retries,
           \/ RetryDue(r) \/ RetryMinted(r) \/ RetryFatal(r)
           \/ RetryOffline(r) \/ RetryOnline(r)
           \/ RetryIdentified(r) \/ RetryUnidentified(r)
    PROVE  OneInFlight'
<1>1. OthersRest("retry", r)
  <2>1. RetryDue(r) => OthersRest("retry", r)
    BY SettledRests DEF RetryDue, Starts, MayStart
  <2>2. r.pc # "sleep" => OthersRest("retry", r)
    BY Alone
  <2> QED
    BY <2>1, <2>2 DEF RetryMinted, RetryFatal, RetryOffline, RetryOnline, RetryIdentified,
       RetryUnidentified
<1>2. /\ \A g \in Flows : AtRest(flow, g)
      /\ \A y \in loops : y.pc = "sleep"
      /\ \A q \in retries \ {r} : q.pc = "sleep"
      /\ rearm.pc = "idle" /\ degrade = "idle" /\ switch["request"].pc = "idle"
      /\ ~signingOut /\ ~completion
  BY <1>1 DEF OthersRest
<1>3. ASSUME NEW q, \A y \in retries' : y = q \/ y.pc = "sleep",
             \A y \in loops' : y.pc = "sleep",
             UNCHANGED <<flow, rearm, degrade, switch, signingOut, completion>>
      PROVE  OneInFlight'
  <2>1. OthersRest("retry", q)'
    BY <1>2, <1>3 DEF OthersRest, AtRest
  <2> QED
    BY <2>1 DEF OneInFlight
<1>4. CASE RetryDue(r)
  <2> DEFINE q == [r EXCEPT !.pc = "mint", !.sent = github]
  <2>1. \A y \in retries' : y = q \/ y.pc = "sleep"
    BY <1>2, <1>4 DEF RetryDue
  <2> HIDE DEF q
  <2> QED
    BY <1>2, <1>3, <1>4, <2>1 DEF RetryDue
<1>5. CASE RetryMinted(r)
  <2> DEFINE q == [r EXCEPT !.pc = "models", !.sent = None]
  <2>1. \A y \in retries' : y = q \/ y.pc = "sleep"
    BY <1>2, <1>5 DEF RetryMinted
  <2>2. \A y \in loops' : y.pc = "sleep"
    <3>1. Stopped(loops) = {}
      BY <1>2, RestingStops
    <3> QED
      BY <1>5, <3>1, NewSleeps DEF RetryMinted
  <2> HIDE DEF q
  <2> QED
    BY <1>3, <1>5, <2>1, <2>2 DEF RetryMinted
<1>6. CASE RetryFatal(r)
  <2>1. flow \in [Flows -> FlowRecord]
    BY Parts
  <2>2. UNCHANGED <<rearm, switch, signingOut, completion>>
    BY <1>6 DEF RetryFatal
  <2>3. OthersRest("degrade", None)'
    BY <1>2, <1>6, <2>1, <2>2, DegradedRests DEF RetryFatal
  <2> QED
    BY <2>3 DEF OneInFlight
<1>7. CASE RetryOffline(r)
  <2>1. \A y \in retries' : y = r \/ y.pc = "sleep"
    BY <1>2, <1>7, NewSleeps DEF RetryOffline
  <2> QED
    BY <1>2, <1>3, <1>7, <2>1 DEF RetryOffline
<1>8. Stopped(retries \ {r}) = {}
  BY <1>2, RestingStops
<1>9. CASE RetryOnline(r)
  <2> DEFINE q == [r EXCEPT !.pc = "user", !.live = FALSE, !.sent = github]
  <2>1. \A y \in retries' : y = q \/ y.pc = "sleep"
    BY <1>2, <1>8, <1>9 DEF RetryOnline, MarkSignedIn
  <2> HIDE DEF q
  <2> QED
    BY <1>2, <1>3, <1>9, <2>1 DEF RetryOnline
<1>10. CASE RetryIdentified(r) \/ RetryUnidentified(r)
  <2>1. \A y \in retries' : y = r \/ y.pc = "sleep"
    BY <1>2, <1>8, <1>10 DEF RetryIdentified, RetryUnidentified, MarkSignedIn
  <2> QED
    BY <1>2, <1>3, <1>10, <2>1 DEF RetryIdentified, RetryUnidentified
<1> QED
  BY <1>4, <1>5, <1>6, <1>7, <1>9, <1>10

LEMMA RearmSerial ==
    ASSUME TInv, workload.serial, OneInFlight, RearmStep
    PROVE  OneInFlight'
<1>0. rearm \in RearmType /\ flow \in [Flows -> FlowRecord]
  BY Parts
<1>1. ASSUME NEW k, OthersRest(k, None), k \in {"rearm", "completion"}
      PROVE  /\ \A g \in Flows : AtRest(flow, g) \/ None = g
             /\ \A y \in loops : y.pc = "sleep"
             /\ \A q \in retries : q.pc = "sleep"
             /\ degrade = "idle" /\ switch["request"].pc = "idle" /\ ~signingOut
             /\ k = "rearm" => ~completion
             /\ k = "completion" => rearm.pc = "idle"
  BY <1>1 DEF OthersRest
<1>2. ASSUME NEW k, k \in {"rearm", "completion"}, OthersRest(k, None),
             \A y \in loops' : y.pc = "sleep", \A q \in retries' : q.pc = "sleep",
             ~completion', UNCHANGED <<flow, degrade, switch, signingOut>>
      PROVE  OneInFlight'
  <2>1. OthersRest("rearm", None)'
    BY <1>2 DEF OthersRest, AtRest
  <2> QED
    BY <2>1 DEF OneInFlight
<1>3. ASSUME NEW d \in BOOLEAN, RearmCaller(d)
      PROVE  /\ ~completion'
             /\ OthersRest("completion", None)
  <2>1. CASE d
    BY <1>3, <2>1, Alone DEF RearmCaller
  <2>2. CASE ~d
    <3>1. Settled /\ completion' = completion
      BY <1>3, <2>2 DEF RearmCaller, Starts, MayStart
    <3> QED
      BY <3>1, SettledRests DEF Settled
  <2> QED
    BY <2>1, <2>2
<1>4. ASSUME NEW d \in BOOLEAN, RearmJoins(d) \/ RearmStarts(d) PROVE OneInFlight'
  <2>1. ~completion' /\ OthersRest("completion", None)
    BY <1>3, <1>4 DEF RearmJoins, RearmStarts
  <2> QED
    BY <1>1, <1>2, <1>4, <2>1 DEF RearmJoins, RearmStarts
<1>5. CASE RearmWithoutToken
  <2>1. ~completion' /\ OthersRest("completion", None)
    BY <1>3, <1>5 DEF RearmWithoutToken
  <2>2. UNCHANGED <<rearm, switch, signingOut>>
    BY <1>5 DEF RearmWithoutToken
  <2>3. OthersRest("degrade", None)'
    <3>1. \A g \in Flows : AtRest(flow, g)
      BY <2>1 DEF OthersRest
    <3> QED
      BY <1>0, <1>1, <1>5, <2>1, <2>2, <3>1, DegradedRests DEF RearmWithoutToken
  <2> QED
    BY <2>3 DEF OneInFlight
<1>6. rearm.pc # "idle" => OthersRest("rearm", None) /\ ~completion
  BY Alone DEF OthersRest
<1>7. CASE RearmMinted
  <2>1. OthersRest("rearm", None) /\ ~completion
    BY <1>6, <1>7 DEF RearmMinted
  <2>2. \A y \in loops' : y.pc = "sleep"
    <3>1. Stopped(loops) = {}
      BY <1>1, <2>1, RestingStops
    <3> QED
      BY <1>7, <3>1, NewSleeps DEF RearmMinted, MintOk
  <2>3. \A q \in retries' : q.pc = "sleep"
    BY <1>1, <1>7, <2>1, RestingStops DEF RearmMinted, MarkSignedIn
  <2> QED
    BY <1>2, <1>7, <2>1, <2>2, <2>3 DEF RearmMinted
<1>8. CASE RearmOffline \/ RearmRejected \/ RenewReads \/ Renewed \/ RenewalSaved
  <2>1. OthersRest("rearm", None) /\ ~completion
    BY <1>6, <1>8 DEF RearmOffline, RearmRejected, RenewReads, Renewed, RenewalSaved
  <2> QED
    BY <1>1, <1>2, <1>8, <2>1 DEF RearmOffline, RearmRejected, RenewReads, Renewed, RenewalSaved
<1>9. CASE RearmFatal
  <2>1. OthersRest("rearm", None) /\ ~completion
    BY <1>6, <1>9 DEF RearmFatal
  <2>2. CASE rearm.degrades
    <3>1. UNCHANGED <<switch, signingOut, completion>> /\ rearm'.pc = "idle"
      BY <1>9 DEF RearmFatal, NoRearm
    <3>2. \A g \in Flows : AtRest(flow, g)
      BY <2>1 DEF OthersRest
    <3>3. OthersRest("degrade", None)'
      BY <1>0, <1>1, <1>9, <2>1, <2>2, <3>1, <3>2, DegradedRests DEF RearmFatal
    <3> QED
      BY <3>3 DEF OneInFlight
  <2>3. CASE ~rearm.degrades
    BY <1>1, <1>2, <1>9, <2>1, <2>3 DEF RearmFatal
  <2> QED
    BY <2>2, <2>3
<1> QED
  BY <1>4, <1>5, <1>7, <1>8, <1>9 DEF RearmStep

LEMMA SwitchSerial ==
    ASSUME TInv, SweepsInDegrade, workload.serial, OneInFlight,
           \/ DegradeFlags \/ SweepStep
           \/ \E a \in Accounts : SwitchRequested(a)
           \/ \E s \in Switchers : SwitchReply(s)
    PROVE  OneInFlight'
<1>0. switch \in SwitchType /\ "request" \in Switchers /\ "sweep" \in Switchers
  BY Parts DEF Switchers
<1>1. ASSUME NEW k \in {"degrade", "request"}, OthersRest(k, None),
             \A y \in loops' : y.pc = "sleep", \A q \in retries' : q.pc = "sleep",
             k = "degrade" => switch'["request"] = switch["request"],
             k = "request" => degrade' = degrade,
             UNCHANGED <<flow, rearm, signingOut, completion>>
      PROVE  OneInFlight'
  <2>1. OthersRest(k, None)'
    BY <1>1 DEF OthersRest, AtRest
  <2> QED
    BY <2>1 DEF OneInFlight
<1>2. ASSUME NEW k \in {"degrade", "request"}, OthersRest(k, None)
      PROVE  /\ \A y \in loops : y.pc = "sleep"
             /\ \A q \in retries : q.pc = "sleep"
  BY <1>2 DEF OthersRest
<1>3. CASE DegradeFlags
  <2>1. OthersRest("degrade", None)
    BY <1>3, Alone DEF DegradeFlags
  <2>2. switch'["request"] = switch["request"]
    BY <1>0, <1>3 DEF DegradeFlags, SwitchType
  <2> QED
    BY <1>1, <1>2, <1>3, <2>1, <2>2 DEF DegradeFlags
<1>4. CASE SweepStep
  <2>1. switch["sweep"].pc # "idle"
    BY <1>4 DEF SweepStep, SweepReads, SweepTries, SweepGivesUp, SweepFlagFails
  <2>2. OthersRest("degrade", None)
    BY <2>1, Alone DEF SweepsInDegrade
  <2>3. switch'["request"] = switch["request"]
    BY <1>0, <1>4 DEF SweepStep, SweepReads, SweepTries, SweepGivesUp, SweepFlagFails, SwitchType
  <2> QED
    BY <1>1, <1>2, <1>4, <2>2, <2>3 DEF SweepStep, SweepReads, SweepTries, SweepGivesUp, SweepFlagFails
<1>5. ASSUME NEW a \in Accounts, SwitchRequested(a) PROVE OneInFlight'
  <2>1. OthersRest("request", None)
    BY <1>5, SettledRests DEF SwitchRequested, Starts, MayStart
  <2> QED
    BY <1>1, <1>2, <1>5, <2>1 DEF SwitchRequested
<1>6. ASSUME NEW s \in Switchers, SwitchReply(s) PROVE OneInFlight'
  <2>1. switch[s].pc # "idle"
    BY <1>6 DEF SwitchReply, PreflightOk, SwitchMinted, SwitchCommits, SwitchSignsIn,
                SwitchFails, WhereWriteFails
  <2> DEFINE k == IF s = "sweep" THEN "degrade" ELSE "request"
  <2>2. OthersRest(k, None) /\ k \in {"degrade", "request"}
    BY <2>1, Alone DEF SweepsInDegrade, Switchers
  <2>3. (\A y \in loops : y.pc = "sleep") /\ (\A q \in retries : q.pc = "sleep")
    BY <1>2, <2>2
  <2>4. Stopped(loops) = {} /\ Stopped(retries) = {}
    BY <2>3, RestingStops
  <2>5. (\A y \in loops' : y.pc = "sleep") /\ (\A q \in retries' : q.pc = "sleep")
    BY <1>6, <2>3, <2>4, NewSleeps
       DEF SwitchReply, PreflightOk, SwitchMinted, SwitchCommits, SwitchSignsIn, SwitchFails,
           MintOk, MarkSignedIn
  <2>6. /\ k = "degrade" => switch'["request"] = switch["request"]
        /\ k = "request" => degrade' = degrade
    BY <1>0, <1>6 DEF SwitchReply, PreflightOk, SwitchMinted, SwitchCommits, SwitchSignsIn,
                      SwitchFails, SwitchType, Switchers
  <2>7. UNCHANGED <<flow, rearm, signingOut, completion>>
    BY <1>6 DEF SwitchReply, PreflightOk, SwitchMinted, SwitchCommits, SwitchSignsIn,
                SwitchFails
  <2> HIDE DEF k
  <2> QED
    BY <1>1, <2>2, <2>5, <2>6, <2>7
<1> QED
  BY <1>3, <1>4, <1>5, <1>6

LEMMA SignOutSerial ==
    ASSUME TInv, workload.serial, OneInFlight,
           \/ CancelDeviceFlow \/ SignOut \/ SignOutDeactivates
           \/ SendCompletion \/ CompletionServed \/ GraceElapses
    PROVE  OneInFlight'
<1>1. \A g \in Flows : AbortCurrent(flow)[g].pc = flow[g].pc
  BY Parts, AbortRests
<1>2. CASE CancelDeviceFlow \/ SendCompletion
  <2>1. OthersRest("completion", None)
    BY <1>2, SettledRests DEF CancelDeviceFlow, SendCompletion, Starts, MayStart
  <2>2. \A g \in Flows : flow'[g].pc = flow[g].pc
    BY <1>1, <1>2 DEF CancelDeviceFlow, SendCompletion, session
  <2>3. OthersRest("completion", None)'
    BY <1>2, <2>1, <2>2 DEF CancelDeviceFlow, SendCompletion, OthersRest, AtRest
  <2> QED
    BY <2>3 DEF OneInFlight
<1>3. CASE SignOut
  <2>1. OthersRest("signOut", None)
    BY <1>3, SettledRests DEF SignOut, Starts, MayStart
  <2>2. (\A y \in loops : y.pc = "sleep") /\ (\A q \in retries : q.pc = "sleep")
    BY <2>1 DEF OthersRest
  <2>3. retries' = {}
    BY <1>3, <2>2, RestingStops DEF SignOut
  <2>4. OthersRest("signOut", None)'
    BY <1>1, <1>3, <2>1, <2>3 DEF SignOut, OthersRest, AtRest
  <2> QED
    BY <2>4 DEF OneInFlight
<1>4. CASE SignOutDeactivates \/ CompletionServed \/ GraceElapses
  <2>1. PICK k, i : OthersRest(k, i)
    BY DEF OneInFlight
  <2>2. OthersRest(k, i)'
    BY <1>4, <2>1 DEF SignOutDeactivates, CompletionServed, GraceElapses, tasks, OthersRest, AtRest
  <2> QED
    BY <2>2 DEF OneInFlight
<1> QED
  BY <1>2, <1>3, <1>4

LEMMA WorkloadStays == [Next]_vars => workload' = workload
  BY DEF Next, vars, FlowStep, StartDeviceFlow, InstallFlow, DeviceCodeFails, FlowExpires,
         Approved, FlowFails, AbortedFlowEnds, IdentityResolved, AccountAdded, FlowMinted,
         FlowMintOffline, FlowMintFatal, FlowSignsIn, CancelDeviceFlow, SignOut,
         SignOutDeactivates, RefreshStep, RefreshDue, RefreshOk, RefreshRejected,
         RefreshFatal, RefreshOffline, RetryStep, RetryDue, RetryMinted, RetryFatal,
         RetryOffline, RetryOnline, RetryIdentified, RetryUnidentified, RearmStep, RearmJoins,
         RearmStarts, RearmWithoutToken, RearmMinted, RearmOffline, RearmRejected, RenewReads,
         Renewed, RenewalSaved, RearmFatal, SendCompletion, CompletionServed, DegradeFlags,
         SweepStep, SweepReads, SweepTries, SweepGivesUp, SweepFlagFails, SwitchRequested, SwitchReply,
         PreflightOk, SwitchMinted, SwitchCommits, SwitchSignsIn, SwitchFails, GraceElapses,
         session

LEMMA NextSerial ==
    ASSUME TInv, SweepsInDegrade, SerialInv, [Next]_vars PROVE SerialInv'
<1> SUFFICES ASSUME workload'.serial PROVE OneInFlight'
  BY DEF SerialInv
<1>1. workload.serial /\ OneInFlight
  BY WorkloadStays DEF SerialInv
<1>2. CASE UNCHANGED vars
  <2>1. PICK k, i : OthersRest(k, i)
    BY <1>1 DEF OneInFlight
  <2>2. OthersRest(k, i)'
    BY <1>2, <2>1 DEF vars, OthersRest, AtRest
  <2> QED
    BY <2>2 DEF OneInFlight
<1> QED
  BY <1>1, <1>2, FlowStepSerial, RefreshSerial, RetrySerial, RearmSerial, SwitchSerial,
     SignOutSerial
     DEF Next, RefreshStep, RetryStep

LEMMA InitSerial == Init => SerialInv
<1> SUFFICES ASSUME Init PROVE OthersRest("flow", None)
  BY DEF SerialInv, OneInFlight
<1>1. /\ \A f \in Flows : AtRest(flow, f)
      /\ \A x \in loops \cup retries : x.pc = "sleep"
  BY NewSleeps DEF Init, Session, AtRest, NoFlow
<1>2. rearm.pc = "idle" /\ degrade = "idle" /\ switch["request"].pc = "idle"
  BY DEF Init, NoRearm, NoSwitch, Switchers
<1>3. ~signingOut /\ ~completion
  BY Zenon DEF Init
<1> QED
  BY <1>1, <1>2, <1>3 DEF OthersRest

-----------------------------------------------------------------------------
(* A lasting sign-out *)

OutFlow(fl, f) == fl[f].pc # "idle" => fl[f].aborted /\ fl[f].pc \in {"poll", "user"}
OutRetries(rs) == \A r \in rs : r.pc \in {"sleep", "mint"} \/ (r.pc = "models" /\ ~r.hook)

LEMMA OutMeans ==
    ASSUME TInv, SweepsInDegrade, Out
    PROVE  /\ github = None /\ CurrentFlow = None /\ AbortCurrent(flow) = flow
           /\ \A f \in Flows : OutFlow(flow, f)
           /\ OutRetries(retries)
           /\ rearm.pc = "idle" /\ switch["request"].pc = "idle" /\ switch["sweep"].pc = "idle"
           /\ workload.autoRecover => ~MayDegrade
<1>1. CurrentFlow = None
  BY DEF Out, CurrentFlow, SignedOut, FatalError
<1>2. switch["sweep"].pc = "idle"
  BY DEF Out, SweepsInDegrade, MayDegrade
<1> QED
  BY <1>1, <1>2 DEF Out, OutFlow, OutRetries, AbortCurrent

\* Where a degrade may still come there is no recovery.
LEMMA OutUnlessRecovering ==
    ASSUME ~workload.autoRecover, workload' = workload,
           auth' \in {SignedOut, FatalError}, github' = None,
           \A f \in Flows : OutFlow(flow', f), OutRetries(retries'),
           rearm'.pc = "idle", switch'["request"].pc = "idle"
    PROVE  Out'
  BY DEF Out, OutFlow, OutRetries

LEMMA StoppedOut ==
    ASSUME NEW rs \in SUBSET RetryRecord, OutRetries(rs) PROVE OutRetries(Stopped(rs))
<1> SUFFICES ASSUME NEW r \in Stopped(rs)
             PROVE  r.pc \in {"sleep", "mint"} \/ (r.pc = "models" /\ ~r.hook)
  BY DEF OutRetries
<1>1. PICK q \in rs : r = [q EXCEPT !.live = FALSE]
  BY DEF Stopped
<1>2. r.pc = q.pc /\ r.hook = q.hook
  BY <1>1 DEF RetryRecord
<1> QED
  BY <1>2 DEF OutRetries

LEMMA DegradedOut ==
    ASSUME TInv, SweepsInDegrade, Out, ~workload.autoRecover,
           NEW ls, NEW rs \in SUBSET RetryRecord, OutRetries(rs),
           MarkAuthDegraded(flow, ls, rs), UNCHANGED <<auth, rearm, switch, workload>>
    PROVE  Out'
<1>1. github' = None /\ flow' = flow /\ OutRetries(retries')
  <2>1. CASE degrade # "idle" \/ grace
    BY <2>1, OutMeans DEF MarkAuthDegraded
  <2>2. CASE ~(degrade # "idle" \/ grace)
    BY <2>2, OutMeans, StoppedOut DEF MarkAuthDegraded, ClearTokenTrio
  <2> QED
    BY <2>1, <2>2
<1>2. auth' \in {SignedOut, FatalError} /\ rearm'.pc = "idle" /\ switch'["request"].pc = "idle"
  BY DEF Out
<1> QED
  BY <1>1, <1>2, OutMeans, OutUnlessRecovering DEF OutFlow

LEMMA FlowStepOut ==
    ASSUME TInv, SweepsInDegrade, Out, NEW f \in Flows, FlowStep(f)
    PROVE  Out' \/ \E g \in Flows : flow'[g].pc = "code"
<1>1. flow \in [Flows -> FlowRecord] /\ CurrentFlow = None /\ \A g \in Flows : OutFlow(flow, g)
  BY Parts, OutMeans
<1>2. ASSUME \A g \in Flows : OutFlow(flow', g),
             UNCHANGED <<auth, github, copilot, loops, retries, rearm, degrade, switch,
                         completion, workload>>
      PROVE  Out'
  BY <1>2 DEF Out, OutFlow, MayDegrade
<1>3. CASE StartDeviceFlow(f)
  <2>1. flow'[f].pc = "code"
    BY <1>1, <1>3 DEF StartDeviceFlow, AbortCurrent, NoFlow, FlowRecord
  <2> QED
    BY <2>1
<1>4. CASE FlowExpires(f)
  <2>1. \A g \in Flows : OutFlow(flow', g)
    BY <1>1, <1>4 DEF FlowExpires, OutFlow, FlowRecord
  <2> QED
    BY <1>2, <1>4, <2>1 DEF FlowExpires, session, tokens
<1>5. CASE AbortedFlowEnds(f)
  <2>1. \A g \in Flows : OutFlow(flow', g)
    BY <1>1, <1>5 DEF AbortedFlowEnds, Ended, OutFlow, NoFlow, FlowRecord
  <2> QED
    BY <1>2, <1>5, <2>1 DEF AbortedFlowEnds
<1>6. flow[f].pc # "idle" => flow[f].aborted /\ flow[f].pc \in {"poll", "user"}
  BY <1>1 DEF OutFlow
<1> QED
  BY <1>3, <1>4, <1>5, <1>6
     DEF FlowStep, InstallFlow, DeviceCodeFails, Approved, FlowFails, IdentityResolved,
         AccountAdded, FlowMinted, FlowMintOffline, FlowMintFatal, FlowSignsIn,
         WhereWriteFails

LEMMA RefreshOut ==
    ASSUME TInv, SweepsInDegrade, Out, RefreshStep PROVE Out'
<1>1. PICK x \in loops : RefreshDue(x) \/ RefreshOk(x) \/ RefreshRejected(x) \/ RefreshFatal(x)
                           \/ RefreshOffline(x)
  BY DEF RefreshStep
<1>2. ~workload.autoRecover
  BY <1>1, OutMeans DEF MayDegrade
<1>3. CASE RefreshFatal(x)
  BY <1>2, <1>3, Parts, OutMeans, DegradedOut DEF RefreshFatal
<1>4. CASE ~RefreshFatal(x)
  <2>1. UNCHANGED <<auth, github, flow, retries, rearm, switch, workload>>
    BY <1>1, <1>4 DEF RefreshDue, RefreshOk, RefreshRejected, RefreshOffline, session, tokens
  <2> QED
    BY <1>2, <2>1, OutMeans, OutUnlessRecovering DEF Out, OutFlow
<1> QED
  BY <1>3, <1>4

LEMMA RetryOut ==
    ASSUME TInv, SweepsInDegrade, Out, RetryStep PROVE Out'
<1>1. PICK r \in retries : \/ RetryDue(r) \/ RetryMinted(r) \/ RetryFatal(r) \/ RetryOffline(r)
                             \/ RetryOnline(r) \/ RetryIdentified(r) \/ RetryUnidentified(r)
  BY DEF RetryStep
<1>2. ~workload.autoRecover /\ github = None /\ OutRetries(retries \ {r}) /\ r.pc # "user"
  BY <1>1, OutMeans DEF MayDegrade, OutRetries
<1>3. CASE RetryFatal(r)
  BY <1>2, <1>3, Parts, OutMeans, DegradedOut DEF RetryFatal
<1>4. CASE ~RetryFatal(r)
  <2>1. CASE RetryDue(r) \/ RetryMinted(r)
    <3>1. UNCHANGED <<auth, github, flow, rearm, switch, workload>> /\ retries' = retries \ {r}
      BY <1>2, <2>1 DEF RetryDue, RetryMinted, session, tokens
    <3> QED
      BY <1>2, <3>1, OutMeans, OutUnlessRecovering DEF Out, OutFlow
  <2>2. CASE RetryOffline(r)
    <3>1. UNCHANGED <<auth, github, flow, rearm, switch, workload>>
      BY <2>2 DEF RetryOffline, session, tokens
    <3>2. OutRetries(retries')
      BY <1>2, <2>2, NewSleeps DEF RetryOffline, OutRetries
    <3> QED
      BY <1>2, <3>1, <3>2, OutMeans, OutUnlessRecovering DEF Out, OutFlow
  <2>3. CASE RetryOnline(r)
    <3>1. r.pc = "models" /\ ~r.hook
      BY <1>1, <2>3, OutMeans DEF RetryOnline, OutRetries
    <3>2. UNCHANGED <<auth, github, flow, rearm, switch, workload>> /\ retries' = retries \ {r}
      BY <2>3, <3>1 DEF RetryOnline, tokens
    <3> QED
      BY <1>2, <3>2, OutMeans, OutUnlessRecovering DEF Out, OutFlow
  <2> QED
    BY <1>1, <1>2, <1>4, <2>1, <2>2, <2>3 DEF RetryIdentified, RetryUnidentified
<1> QED
  BY <1>3, <1>4

LEMMA StaysOut ==
    ASSUME TInv, SweepsInDegrade, [Next]_vars, Out
    PROVE  \/ Out'
           \/ \E f \in Flows : flow'[f].pc = "code"
           \/ switch'["request"].pc # "idle"
<1>1. workload' = workload
  BY WorkloadStays
<1>2. switch \in SwitchType /\ "request" \in Switchers
  BY Parts DEF Switchers
<1>3. CASE UNCHANGED vars \/ SignOutDeactivates \/ GraceElapses
  BY <1>1, <1>3 DEF SignOutDeactivates, GraceElapses, tasks, tokens, vars, Out, MayDegrade
<1>4. ~CancelDeviceFlow
  BY OutMeans DEF CancelDeviceFlow
<1>5. CASE SendCompletion \/ CompletionServed
  <2>1. ~workload.autoRecover
    BY <1>5, OutMeans DEF SendCompletion, CompletionServed, MayDegrade
  <2> QED
    BY <1>5, <2>1, OutMeans, OutUnlessRecovering
       DEF SendCompletion, CompletionServed, session, tokens, Out, OutFlow
<1>6. CASE RearmStep
  <2>1. RearmWithoutToken
    BY <1>6, OutMeans
       DEF RearmStep, RearmJoins, RearmStarts, RearmMinted, RearmOffline, RearmRejected,
           RenewReads, Renewed, RenewalSaved, RearmFatal
  <2>2. ~workload.autoRecover
    BY <2>1, OutMeans DEF RearmWithoutToken, RearmCaller, MayDegrade
  <2> QED
    BY <2>1, <2>2, Parts, OutMeans, DegradedOut DEF RearmWithoutToken
<1>7. CASE SignOut
  <2>1. flow' = flow /\ OutRetries(retries')
    BY <1>7, Parts, OutMeans, StoppedOut DEF SignOut
  <2>2. auth' = SignedOut /\ github' = None /\ copilot' = None
        /\ UNCHANGED <<loops, rearm, degrade, switch, completion>>
    BY <1>7 DEF SignOut, ClearTokenTrio
  <2>3. retries = {} => retries' = {}
    BY <1>7 DEF SignOut, Stopped
  <2> QED
    BY <1>1, <2>1, <2>2, <2>3 DEF Out, OutRetries, MayDegrade
<1>8. CASE DegradeFlags
  <2>1. ~workload.autoRecover
    BY <1>8, OutMeans DEF DegradeFlags, MayDegrade
  <2>2. auth' = FatalError /\ UNCHANGED <<github, flow, retries, rearm, switch>>
    BY <1>8, <2>1 DEF DegradeFlags, tokens
  <2> QED
    BY <1>1, <2>1, <2>2, OutMeans, OutUnlessRecovering DEF OutFlow
<1>9. ~SweepStep
  BY OutMeans DEF SweepStep, SweepReads, SweepTries, SweepGivesUp, SweepFlagFails
<1>10. ASSUME NEW a \in Accounts, SwitchRequested(a) PROVE switch'["request"].pc # "idle"
  BY <1>2, <1>10 DEF SwitchRequested, SwitchType, NoSwitch
<1>11. ASSUME NEW s \in Switchers PROVE ~SwitchReply(s)
  <2>1. switch[s].pc = "idle"
    BY OutMeans DEF Switchers
  <2> QED
    BY <2>1 DEF SwitchReply, PreflightOk, SwitchMinted, SwitchCommits, SwitchSignsIn,
                SwitchFails, WhereWriteFails
<1> QED
  BY <1>3, <1>4, <1>5, <1>6, <1>7, <1>8, <1>9, <1>10, <1>11, FlowStepOut, RefreshOut, RetryOut
     DEF Next

\* Once the user is out, whatever else is allowed to overlap, no late answer of a
\* cancelled flow, of the surviving refresh loop, of the online retry or of a
\* completion signs in again or stores a GitHub token: the session may store a bearer
\* or end in error, and only a new device flow or a requested switch moves on.
THEOREM SignOutSticks == Spec => SignedOutSticks
<1>1. TInv /\ SweepsInDegrade /\ [Next]_vars =>
        [Out =>
           \/ Out'
           \/ \E f \in Flows : flow'[f].pc = "code"
           \/ switch'["request"].pc # "idle"]_vars
  BY StaysOut
<1> QED
  BY <1>1, InitTyped, NextTyped, InitSweeps, NextSweeps, PTL DEF Spec, SignedOutSticks

-----------------------------------------------------------------------------
(* The sweep leaves out no account *)

\* During a degrade only its own steps touch the session; a polling flow may end.
LEMMA DegradeAlone ==
    ASSUME TInv, SweepsInDegrade, workload.serial, OneInFlight, degrade # "idle", [Next]_vars
    PROVE  \/ DegradeFlags \/ SweepStep \/ SwitchReply("sweep")
           \/ UNCHANGED <<active, flagged, switch, degrade>>
<1>1. /\ \A g \in Flows : AtRest(flow, g)
      /\ \A y \in loops : y.pc = "sleep"
      /\ \A q \in retries : q.pc = "sleep"
      /\ rearm.pc = "idle" /\ switch["request"].pc = "idle" /\ ~signingOut /\ ~completion
  BY Alone DEF OthersRest
<1>2. ~MayStart
  BY DEF MayStart, Settled
<1>3. ASSUME NEW f \in Flows, FlowStep(f) PROVE UNCHANGED <<active, flagged, switch, degrade>>
  <2>1. flow[f].pc \in {"idle", "poll"}
    BY <1>1 DEF AtRest
  <2> QED
    BY <1>2, <1>3, <2>1
       DEF FlowStep, StartDeviceFlow, InstallFlow, DeviceCodeFails, FlowExpires, Approved,
           FlowFails, AbortedFlowEnds, IdentityResolved, AccountAdded, FlowMinted,
           FlowMintOffline, FlowMintFatal, FlowSignsIn, Starts, session, registry
<1>4. ~RefreshStep
  BY <1>1, <1>2 DEF RefreshStep, RefreshDue, RefreshOk, RefreshRejected, RefreshFatal,
                    RefreshOffline, Starts
<1>5. ~RetryStep
  BY <1>1, <1>2 DEF RetryStep, RetryDue, RetryMinted, RetryFatal, RetryOffline, RetryOnline,
                    RetryIdentified, RetryUnidentified, Starts
<1>6. ~RearmStep
  BY <1>1, <1>2 DEF RearmStep, RearmJoins, RearmStarts, RearmWithoutToken, RearmMinted,
                    RearmOffline, RearmRejected, RenewReads, Renewed, RenewalSaved, RearmFatal,
                    RearmCaller, Starts
<1>7. /\ ~CancelDeviceFlow /\ ~SignOut /\ ~SignOutDeactivates /\ ~SendCompletion
      /\ ~CompletionServed /\ \A a \in Accounts : ~SwitchRequested(a)
  BY <1>1, <1>2 DEF CancelDeviceFlow, SignOut, SignOutDeactivates, SendCompletion,
                    CompletionServed, SwitchRequested, Starts
<1>8. ~SwitchReply("request")
  BY <1>1 DEF SwitchReply, PreflightOk, SwitchMinted, SwitchCommits, SwitchSignsIn,
              SwitchFails, WhereWriteFails
<1> QED
  BY <1>3, <1>4, <1>5, <1>6, <1>7, <1>8
     DEF Next, Switchers, GraceElapses, tasks, registry, vars

\* Where writes succeed, an account is flagged, still to be tried or being tried.
SweepCovers ==
    /\ switch["sweep"].pc = "read" => active \in flagged \cup {None}
    /\ switch["sweep"].pc = "next" => Accounts \subseteq flagged \cup switch["sweep"].todo
    /\ switch["sweep"].pc \in {"preflight", "mint"} =>
         Accounts \subseteq flagged \cup switch["sweep"].todo \cup {switch["sweep"].acct}

SweepInv == workload.serial /\ "writeFails" \notin workload.events => SweepCovers

LEMMA NextSweepCovers ==
    ASSUME TInv, SweepsInDegrade, SerialInv, SweepInv, [Next]_vars PROVE SweepInv'
<1>0. switch \in SwitchType /\ "sweep" \in Switchers /\ switch["sweep"] \in SwitchRecord
  BY Parts DEF Switchers, SwitchType, SwitchRecord
<1> SUFFICES ASSUME workload.serial, "writeFails" \notin workload.events
             PROVE  SweepCovers'
  BY WorkloadStays DEF SweepInv
<1>1. SweepCovers /\ OneInFlight
  BY DEF SweepInv, SerialInv
<1>2. CASE degrade = "idle"
  <2>1. degrade' # "sweep"
    <3>1. ~DegradeFlags /\ ~SweepStep /\ ~SwitchReply("sweep")
      BY <1>2 DEF DegradeFlags, SweepStep, SweepReads, SweepTries, SweepGivesUp, SweepFlagFails, SwitchReply,
         PreflightOk, SwitchMinted, SwitchCommits, SwitchSignsIn, SwitchFails,
         WhereWriteFails, SweepsInDegrade
    <3>2. ASSUME NEW f \in Flows, FlowStep(f) PROVE degrade' # "sweep"
      <4>1. FlowMintFatal(f) => degrade' # "sweep"
        BY <1>2, DegradeStarts DEF FlowMintFatal
      <4> QED
        BY <1>2, <3>2, <4>1
           DEF FlowStep, StartDeviceFlow, InstallFlow, DeviceCodeFails, FlowExpires, Approved,
               FlowFails, AbortedFlowEnds, IdentityResolved, AccountAdded, FlowMinted,
               FlowMintOffline, FlowSignsIn
    <3>3. RefreshStep => degrade' # "sweep"
      <4>1. \A x \in loops : RefreshFatal(x) => degrade' # "sweep"
        BY <1>2, DegradeStarts DEF RefreshFatal
      <4> QED
        BY <1>2, <4>1 DEF RefreshStep, RefreshDue, RefreshOk, RefreshRejected, RefreshOffline
    <3>4. RetryStep => degrade' # "sweep"
      <4>1. \A r \in retries : RetryFatal(r) => degrade' # "sweep"
        BY <1>2, DegradeStarts DEF RetryFatal
      <4> QED
        BY <1>2, <4>1 DEF RetryStep, RetryDue, RetryMinted, RetryOffline, RetryOnline,
           RetryIdentified, RetryUnidentified
    <3>5. RearmStep => degrade' # "sweep"
      <4>1. RearmWithoutToken \/ RearmFatal => degrade' # "sweep"
        BY <1>2, DegradeStarts DEF RearmWithoutToken, RearmFatal
      <4> QED
        BY <1>2, <4>1 DEF RearmStep, RearmJoins, RearmStarts, RearmMinted, RearmOffline,
           RearmRejected, RenewReads, Renewed, RenewalSaved
    <3>6. SwitchReply("request") => degrade' # "sweep"
      BY <1>2 DEF SwitchReply, PreflightOk, SwitchMinted, SwitchCommits, SwitchSignsIn,
                  SwitchFails
    <3> QED
      BY <1>2, <3>1, <3>2, <3>3, <3>4, <3>5, <3>6
         DEF Next, Switchers, CancelDeviceFlow, SignOut, SignOutDeactivates, SendCompletion,
             CompletionServed, SwitchRequested, GraceElapses, tasks, vars
  <2>2. SweepsInDegrade'
    BY NextSweeps
  <2>3. switch'["sweep"].pc = "idle"
    BY <2>1, <2>2 DEF SweepsInDegrade
  <2> QED
    BY <2>3 DEF SweepCovers
<1>3. CASE UNCHANGED <<active, flagged, switch, degrade>>
  BY <1>1, <1>3 DEF SweepCovers
<1>4. CASE DegradeFlags
  <2>1. CASE workload.autoRecover
    <3>1. /\ switch'["sweep"].pc = "read" /\ active' = active
          /\ flagged' = flagged \cup ({active} \ {None})
      BY <1>0, <1>4, <2>1 DEF DegradeFlags, SwitchType, SwitchRecord
    <3> QED
      BY <3>1 DEF SweepCovers
  <2>2. CASE ~workload.autoRecover
    <3>1. switch'["sweep"].pc = "idle"
      BY <1>4, <2>2 DEF DegradeFlags, SweepsInDegrade
    <3> QED
      BY <3>1 DEF SweepCovers
  <2> QED
    BY <2>1, <2>2
<1>5. CASE SweepReads
  <2>1. /\ switch["sweep"].pc = "read" /\ UNCHANGED <<active, flagged>>
        /\ switch'["sweep"].pc = "next"
        /\ switch'["sweep"].todo = Accounts \ (flagged \cup {active})
    BY <1>0, <1>5 DEF SweepReads, SwitchType, SwitchRecord, session, registry
  <2>2. Accounts \subseteq flagged \cup (Accounts \ (flagged \cup {active}))
    BY <1>1, <2>1, SessionAssumption DEF SweepCovers
  <2> QED
    BY <2>1, <2>2 DEF SweepCovers
<1>6. ASSUME NEW a \in Accounts, SweepTries(a) PROVE SweepCovers'
  <2>1. /\ switch["sweep"].pc = "next" /\ flagged' = flagged
        /\ switch'["sweep"] = [pc |-> "preflight", acct |-> a,
                               todo |-> switch["sweep"].todo \ {a}]
    BY <1>0, <1>6 DEF SweepTries, SwitchType, session, registry
  <2>2. Accounts \subseteq flagged \cup (switch["sweep"].todo \ {a}) \cup {a}
    BY <1>1, <2>1 DEF SweepCovers
  <2> QED
    BY <2>1, <2>2 DEF SweepCovers
<1>7. CASE SweepGivesUp
  <2>1. switch'["sweep"].pc = "idle"
    BY <1>0, <1>7 DEF SweepGivesUp, SwitchType, NoSwitch
  <2> QED
    BY <2>1 DEF SweepCovers
<1>8. CASE SwitchReply("sweep")
  <2>1. CASE PreflightOk("sweep")
    <3>1. /\ switch["sweep"].pc = "preflight" /\ flagged' = flagged
          /\ switch'["sweep"] = [switch["sweep"] EXCEPT !.pc = "mint"]
      BY <1>0, <2>1 DEF PreflightOk, SwitchType, registry
    <3>2. /\ switch'["sweep"].pc = "mint"
          /\ switch'["sweep"].todo = switch["sweep"].todo
          /\ switch'["sweep"].acct = switch["sweep"].acct
      BY <1>0, <3>1 DEF SwitchRecord
    <3> QED
      BY <1>1, <3>1, <3>2 DEF SweepCovers
  <2>2. CASE SwitchMinted("sweep") \/ SwitchCommits("sweep") \/ SwitchSignsIn("sweep")
    <3>1. switch'["sweep"].pc \in {"commit", "models", "idle"}
      BY <1>0, <2>2 DEF SwitchMinted, SwitchCommits, SwitchSignsIn, SwitchType, SwitchRecord,
                        NoSwitch
    <3> QED
      BY <3>1 DEF SweepCovers
  <2>3. CASE SwitchFails("sweep")
    <3>1. /\ switch["sweep"].pc \in {"preflight", "mint"}
          /\ flagged' = flagged \cup {switch["sweep"].acct}
          /\ switch'["sweep"].pc = "next"
          /\ switch'["sweep"].todo = switch["sweep"].todo
      BY <1>0, <2>3 DEF SwitchFails, WhereWriteFails, SwitchType, SwitchRecord
    <3> QED
      BY <1>1, <3>1 DEF SweepCovers
  <2> QED
    BY <1>8, <2>1, <2>2, <2>3 DEF SwitchReply
<1> QED
  BY <1>1, <1>2, <1>3, <1>4, <1>5, <1>6, <1>7, <1>8, DegradeAlone
     DEF SweepStep, SweepFlagFails

LEMMA GivesUp ==
    ASSUME TInv, SweepsInDegrade, SerialInv, SweepInv, [Next]_vars,
           workload.serial, "writeFails" \notin workload.events,
           degrade # "idle", degrade' = "idle", auth' = FatalError
    PROVE  IF workload.autoRecover THEN flagged' = Accounts
           ELSE active \in flagged' \cup {None}
<1>1. SweepCovers /\ OneInFlight
  BY DEF SweepInv, SerialInv
<1>2. CASE DegradeFlags
  BY <1>2 DEF DegradeFlags
<1>3. CASE SweepStep
  <2>1. switch["sweep"].pc = "next" /\ switch["sweep"].todo = {} /\ flagged' = flagged
    BY <1>3 DEF SweepStep, SweepReads, SweepTries, SweepGivesUp, SweepFlagFails, registry
  <2>2. workload.autoRecover
    BY <2>1 DEF SweepsInDegrade
  <2>3. flagged' = Accounts
    BY <1>1, <2>1, Parts DEF SweepCovers
  <2> QED
    BY <2>2, <2>3
<1>4. CASE SwitchReply("sweep")
  <2>1. SwitchSignsIn("sweep")
    BY <1>4 DEF SwitchReply, PreflightOk, SwitchMinted, SwitchCommits, SwitchFails
  <2> QED
    BY <2>1 DEF SwitchSignsIn, MarkSignedIn, SignedIn, FatalError
<1> QED
  BY <1>1, <1>2, <1>3, <1>4, DegradeAlone

\* With one thing at a time and a registry that can be written, a degrade ends in the
\* error state only with the failed account flagged and, with auto-recovery, only
\* after every account was flagged: the sweep forgets no candidate, whatever flows
\* fail or expire meanwhile (runDegrade, auth-recovery.ts).
THEOREM LastResort == Spec => GivesUpWithAllFlagged
<1> DEFINE Fails == /\ workload.serial /\ "writeFails" \notin workload.events
                    /\ degrade # "idle" /\ degrade' = "idle" /\ auth' = FatalError
<1>1. TInv /\ SweepsInDegrade /\ SerialInv /\ SweepInv /\ [Next]_vars =>
        [Fails => IF workload.autoRecover THEN flagged' = Accounts
                  ELSE active \in flagged' \cup {None}]_vars
  BY GivesUp
<1>2. Init => SweepInv
  BY DEF Init, SweepInv, SweepCovers, NoSwitch, Switchers
<1> QED
  BY <1>1, <1>2, InitTyped, NextTyped, InitSweeps, NextSweeps, InitSerial, NextSerial,
     NextSweepCovers, PTL DEF Spec, GivesUpWithAllFlagged

-----------------------------------------------------------------------------
(* The session while one thing happens at a time, nobody switches accounts  *)
(* and the registry can be written: what every handler finds and leaves.    *)

Calm == workload.serial /\ workload.events \cap {"switch", "writeFails"} = {}

LoopRuns == \E x \in loops : x.live
RetryRuns == \E r \in retries : r.live
FlowIn(P) == \E f \in Flows : flow[f].pc \in P

\* No loop is a leftover, and a refresh asks with the token in memory.
LoopsCalm == \A x \in loops : x.live /\ (x.pc = "wait" => x.sent = github /\ ~grace)

\* A retry is a leftover only while its hook looks up the identity.
RetriesCalm ==
    \A r \in retries :
        /\ r.live <=> r.pc # "user"
        /\ r.pc # "sleep" => github # None
        /\ r.pc \in {"mint", "user"} => r.sent = github
        /\ r.pc \in {"models", "user"} => LoopRuns

FlowsCalm ==
    \A f \in Flows :
        /\ flow[f].pc \in Working => ~flow[f].aborted
        /\ flow[f].pc = "add" => user = flow[f].acct
        /\ flow[f].pc \in {"mint", "models"} =>
             github = flow[f].acct /\ user = flow[f].acct /\ active = flow[f].acct
        /\ flow[f].pc = "models" => IF flow[f].minted THEN LoopRuns ELSE RetryRuns

RearmCalm ==
    /\ rearm.pc # "idle" => github # None
    /\ rearm.pc \in {"mint", "remint"} => rearm.sent = github
    /\ rearm.pc \in {"renew", "save"} => rearm.acct = active

DegradeCalm ==
    /\ degrade # "idle" => ~grace
    /\ degrade = "flag" => github = None /\ user = None
    /\ switch["sweep"].pc \in {"mint", "commit", "models"} =>
         github = switch["sweep"].acct /\ user = switch["sweep"].acct
    /\ switch["sweep"].pc \in {"commit", "models"} => LoopRuns
    /\ switch["sweep"].pc = "models" => active = switch["sweep"].acct

\* Tokens, registry and loops agree, but where a flow or the sweep is about to make
\* them agree.
TokensCalm ==
    /\ copilot # None => github # None
    /\ signingOut => github = None /\ user = None
    /\ degrade = "sweep" \/ github \in {None, active}
    /\ degrade = "sweep" \/ FlowIn({"add"}) \/ user \in {None, active}
    /\ auth = FatalError => ~grace
    /\ \/ degrade = "sweep" \/ FlowIn({"add", "mint", "models"})
       \/ auth = FatalError => github = None /\ user = None
    /\ grace => LoopRuns
    /\ degrade = "sweep" \/ FlowIn({"mint"}) \/ (github # None => LoopRuns \/ RetryRuns)

CalmState ==
    /\ switch["request"].pc = "idle"
    /\ LoopsCalm /\ RetriesCalm /\ FlowsCalm /\ RearmCalm /\ DegradeCalm /\ TokensCalm

CalmInv == Calm => CalmState

LEMMA CalmMeans ==
    ASSUME TInv, SweepsInDegrade, CalmInv, Usual
    PROVE  /\ {github, user} \subseteq {None, active}
           /\ auth = FatalError => tokens = <<None, None, None>>
           /\ copilot # None => github # None
           /\ github # None => \E x \in loops \cup retries : x.live
<1>1. CalmState /\ degrade = "idle"
  BY DEF Usual, CalmInv, Calm, Settled
<1>2. ~FlowIn({"add"}) /\ ~FlowIn({"mint"}) /\ ~FlowIn({"add", "mint", "models"})
  BY DEF Usual, Settled, FlowIn
<1> QED
  BY <1>1, <1>2 DEF CalmState, TokensCalm, tokens, LoopRuns, RetryRuns

LEMMA CalmKept ==
    ASSUME CalmState, grace' = grace \/ grace' = FALSE,
           UNCHANGED <<auth, github, copilot, user, active, flow, loops, retries, rearm,
                       degrade, switch, signingOut>>
    PROVE  CalmState'
<1>1. UNCHANGED <<LoopRuns, RetryRuns>>
  BY DEF LoopRuns, RetryRuns
<1>2. FlowIn({"add"})' <=> FlowIn({"add"})
  BY DEF FlowIn
<1>3. FlowIn({"mint"})' <=> FlowIn({"mint"})
  BY DEF FlowIn
<1>4. FlowIn({"add", "mint", "models"})' <=> FlowIn({"add", "mint", "models"})
  BY DEF FlowIn
<1>5. LoopsCalm' /\ RetriesCalm' /\ FlowsCalm' /\ RearmCalm' /\ DegradeCalm'
  BY <1>1 DEF CalmState, LoopsCalm, RetriesCalm, FlowsCalm, RearmCalm, DegradeCalm
<1>6. TokensCalm'
  BY <1>1, <1>2, <1>3, <1>4 DEF CalmState, TokensCalm
<1> QED
  BY <1>5, <1>6 DEF CalmState

\* The common end of the chains of steps: nothing is in flight, or a degrade begins.
LEMMA CalmAtRest ==
    ASSUME \A f \in Flows : AtRest(flow', f),
           switch'["request"].pc = "idle", switch'["sweep"].pc = "idle",
           \A x \in loops' : x.live /\ x.pc = "sleep",
           \A r \in retries' : r.live /\ r.pc = "sleep",
           rearm'.pc = "idle", degrade' \in {"idle", "flag"},
           copilot' # None => github' # None, {github', user'} \subseteq {None, active'},
           signingOut' => github' = None /\ user' = None,
           auth' = FatalError \/ degrade' = "flag" => ~grace' /\ github' = None /\ user' = None,
           grace' => LoopRuns', github' # None => LoopRuns' \/ RetryRuns'
    PROVE  CalmState'
<1>1. LoopsCalm' /\ RetriesCalm' /\ RearmCalm'
  BY DEF LoopsCalm, RetriesCalm, RearmCalm
<1>2. FlowsCalm'
  BY DEF FlowsCalm, AtRest, Working
<1>3. DegradeCalm'
  BY DEF DegradeCalm
<1>4. TokensCalm'
  BY DEF TokensCalm
<1> QED
  BY <1>1, <1>2, <1>3, <1>4 DEF CalmState

\* What the invariant says where only `k`, `i` may be in flight.
LEMMA CalmRests ==
    ASSUME TInv, SweepsInDegrade, CalmState, NEW k, NEW i, OthersRest(k, i), k # "degrade"
    PROVE  /\ degrade = "idle" /\ switch["sweep"].pc = "idle" /\ switch["request"].pc = "idle"
           /\ \A x \in loops : x.live
           /\ k # "loop" => \A x \in loops : x.pc = "sleep"
           /\ k # "retry" => \A r \in retries : r.live /\ r.pc = "sleep"
           /\ copilot # None => github # None
           /\ github \in {None, active}
           /\ grace => LoopRuns
           /\ k # "flow" => \A f \in Flows : AtRest(flow, f)
           /\ k # "rearm" => rearm.pc = "idle"
           /\ k # "signOut" => ~signingOut
           /\ k # "flow" => /\ user \in {None, active}
                            /\ github # None => LoopRuns \/ RetryRuns
                            /\ auth = FatalError => ~grace /\ github = None /\ user = None
<1>1. degrade = "idle" /\ switch["sweep"].pc = "idle" /\ switch["request"].pc = "idle"
  BY DEF OthersRest, SweepsInDegrade, CalmState
<1>2. k # "flow" => \A f \in Flows : AtRest(flow, f)
  BY DEF OthersRest
<1>3. k # "flow" => ~FlowIn({"add"}) /\ ~FlowIn({"mint"}) /\ ~FlowIn({"add", "mint", "models"})
  BY <1>2 DEF FlowIn, AtRest
<1>4. /\ \A x \in loops : x.live
      /\ k # "loop" => \A x \in loops : x.pc = "sleep"
  BY DEF OthersRest, CalmState, LoopsCalm
<1>5. k # "retry" => \A r \in retries : r.live /\ r.pc = "sleep"
  BY DEF OthersRest, CalmState, RetriesCalm
<1>6. (k # "rearm" => rearm.pc = "idle") /\ (k # "signOut" => ~signingOut)
  BY DEF OthersRest
<1> QED
  BY <1>1, <1>2, <1>3, <1>4, <1>5, <1>6 DEF CalmState, TokensCalm

\* markAuthDegraded after whatever was alone in flight.  Within the grace period it
\* leaves the session as it is, which then still has its refresh loop.
LEMMA CalmDegrade ==
    ASSUME TInv, NEW fl, fl \in [Flows -> FlowRecord], \A g \in Flows : AtRest(fl, g),
           NEW ls \in SUBSET loops, \A x \in ls : x.live /\ x.pc = "sleep",
           NEW rs, \A r \in rs : r.live /\ r.pc = "sleep",
           MarkAuthDegraded(fl, ls, rs), degrade = "idle",
           grace => (\E x \in ls : x.live) /\ auth # FatalError,
           copilot # None => github # None, {github, user} \subseteq {None, active},
           switch'["request"].pc = "idle", switch'["sweep"].pc = "idle",
           rearm'.pc = "idle", ~signingOut', UNCHANGED <<auth, grace, active>>
    PROVE  CalmState'
<1>1. CASE grace
  <2>1. /\ flow' = fl /\ loops' = ls /\ retries' = rs
        /\ UNCHANGED <<github, copilot, user, degrade>>
    BY <1>1 DEF MarkAuthDegraded
  <2>2. LoopRuns' /\ auth' # FatalError
    BY <1>1, <2>1 DEF LoopRuns
  <2> QED
    BY <2>1, <2>2, CalmAtRest DEF AtRest
<1>2. CASE ~grace
  <2>1. /\ loops' = {} /\ retries' = {} /\ flow' = AbortCurrent(fl)
        /\ github' = None /\ copilot' = None /\ user' = None
        /\ degrade' \in {"idle", "flag"}
    BY <1>2, RestingStops DEF MarkAuthDegraded, ClearTokenTrio
  <2>2. \A g \in Flows : AtRest(flow', g)
    BY <2>1, AbortRests DEF AtRest
  <2> QED
    BY <1>2, <2>1, <2>2, CalmAtRest
<1> QED
  BY <1>1, <1>2

\* Steps that move a flow without touching anything it has set.
LEMMA CalmFlow ==
    ASSUME CalmState,
           \A g \in Flows :
              \/ flow[g].pc \notin {"add", "mint", "models"} /\ AtRest(flow', g)
              \/ flow[g].pc \notin {"add", "mint", "models"} /\ flow'[g].pc = "code"
              \/ flow[g].pc \notin {"add", "mint", "models"} /\ flow'[g].pc = "user"
                    /\ ~flow'[g].aborted
              \/ /\ flow'[g].pc = flow[g].pc /\ flow'[g].acct = flow[g].acct
                 /\ flow'[g].minted = flow[g].minted /\ flow'[g].aborted = flow[g].aborted,
           auth' = auth \/ auth' # FatalError,
           UNCHANGED <<github, copilot, user, active, loops, retries, rearm, degrade, switch,
                       signingOut, grace>>
    PROVE  CalmState'
<1>0. UNCHANGED <<github, copilot, user, active, loops, retries, rearm, degrade, switch,
                  signingOut, grace>>
  OBVIOUS
<1>1. UNCHANGED <<LoopRuns, RetryRuns>>
  BY <1>0 DEF LoopRuns, RetryRuns
<1>2. FlowIn({"add"})' <=> FlowIn({"add"})
  BY DEF FlowIn, AtRest
<1>3. FlowIn({"mint"})' <=> FlowIn({"mint"})
  BY DEF FlowIn, AtRest
<1>4. FlowIn({"add", "mint", "models"})' <=> FlowIn({"add", "mint", "models"})
  BY DEF FlowIn, AtRest
<1>5. LoopsCalm' /\ RetriesCalm' /\ RearmCalm' /\ DegradeCalm'
  BY <1>0, <1>1 DEF CalmState, LoopsCalm, RetriesCalm, RearmCalm, DegradeCalm
<1>6. FlowsCalm'
  BY <1>0, <1>1 DEF CalmState, FlowsCalm, AtRest, Working
<1>7. TokensCalm'
  BY <1>0, <1>1, <1>2, <1>3, <1>4 DEF CalmState, TokensCalm
<1> QED
  BY <1>0, <1>5, <1>6, <1>7 DEF CalmState

LEMMA FlowStepCalm ==
    ASSUME TInv, SweepsInDegrade, OneInFlight, Calm, CalmState, NEW f \in Flows, FlowStep(f)
    PROVE  CalmState'
<1>0. flow \in [Flows -> FlowRecord] /\ flow[f] \in FlowRecord /\ FlowsCalm
      /\ WhereWriteFails = {}
  BY Parts DEF CalmState, Calm, WhereWriteFails
<1>1. ~AtRest(flow, f) => OthersRest("flow", f)
  BY Alone
<1>2. ASSUME OthersRest("flow", f)
      PROVE  /\ \A g \in Flows \ {f} : AtRest(flow, g)
             /\ \A x \in loops : x.live /\ x.pc = "sleep"
             /\ \A r \in retries : r.live /\ r.pc = "sleep"
             /\ Stopped(loops) = {} /\ Stopped(retries) = {}
             /\ degrade = "idle" /\ switch["sweep"].pc = "idle"
             /\ switch["request"].pc = "idle" /\ rearm.pc = "idle" /\ ~signingOut
             /\ copilot # None => github # None
             /\ grace => LoopRuns
             /\ auth = FatalError => ~grace
  <2>1. /\ \A x \in loops : x.live /\ x.pc = "sleep"
        /\ \A r \in retries : r.live /\ r.pc = "sleep"
        /\ degrade = "idle" /\ switch["sweep"].pc = "idle" /\ switch["request"].pc = "idle"
        /\ rearm.pc = "idle" /\ ~signingOut
        /\ copilot # None => github # None
        /\ grace => LoopRuns
    BY <1>2, CalmRests
  <2>2. Stopped(loops) = {} /\ Stopped(retries) = {}
    BY <2>1, RestingStops
  <2>3. \A g \in Flows \ {f} : AtRest(flow, g)
    BY <1>2 DEF OthersRest
  <2>4. auth = FatalError => ~grace
    BY DEF CalmState, TokensCalm
  <2> QED
    BY <2>1, <2>2, <2>3, <2>4
<1>3. flow[f].pc \in Working =>
        /\ OthersRest("flow", f) /\ ~flow[f].aborted
        /\ flow[f].acct \in Accounts /\ flow[f].acct # None
  BY <1>0, <1>1, Parts, SessionAssumption DEF AtRest, Working, FlowsCalm, FlowsNamed
\* Steps before the account is known, and the ends of flows that came no further.
<1>4. CASE StartDeviceFlow(f)
  <2>1. \A g \in Flows : AtRest(flow, g)
    BY <1>4 DEF StartDeviceFlow, Starts, MayStart, Calm, Settled, AtRest
  <2>2. \A g \in Flows : AtRest(AbortCurrent(flow), g)
    BY <1>0, <2>1, AbortRests DEF AtRest
  <2>3. flow'[f].pc = "code" /\ \A g \in Flows \ {f} : AtRest(flow', g)
    BY <1>0, <1>4, <2>2 DEF StartDeviceFlow, NoFlow, AbortCurrent, AtRest
  <2> QED
    BY <1>4, <2>1, <2>3, CalmFlow DEF StartDeviceFlow, session, tokens, registry, AtRest
<1>5. CASE InstallFlow(f)
  <2>1. \A g \in Flows \ {f} : AtRest(flow, g) /\ AtRest(flow', g)
    BY <1>0, <1>1, <1>2, <1>5 DEF InstallFlow, AtRest, NoFlow
  <2>2. flow[f].pc = "code" /\ flow'[f].pc = "poll"
    BY <1>0, <1>5 DEF InstallFlow, FlowRecord
  <2>3. auth' # FatalError
    BY <1>5 DEF InstallFlow, Polling, FatalError
  <2> QED
    BY <1>5, <2>1, <2>2, <2>3, CalmFlow DEF InstallFlow, tokens, registry, AtRest
<1>6. CASE DeviceCodeFails(f)
  <2>1. flow[f].pc = "code" /\ flow'[f].pc = "idle" /\ \A g \in Flows \ {f} : flow'[g] = flow[g]
    BY <1>6, EndedRests DEF DeviceCodeFails
  <2> QED
    BY <1>6, <2>1, CalmFlow DEF DeviceCodeFails, session, tokens, registry, AtRest
<1>7. CASE FlowExpires(f)
  <2>1. \A g \in Flows : /\ flow'[g].pc = flow[g].pc /\ flow'[g].acct = flow[g].acct
                         /\ flow'[g].minted = flow[g].minted /\ flow'[g].aborted = flow[g].aborted
    BY <1>0, <1>7 DEF FlowExpires, FlowRecord
  <2> QED
    BY <1>7, <2>1, CalmFlow DEF FlowExpires, session, tokens, registry
<1>8. CASE \E a \in Accounts : Approved(f, a)
  <2>1. flow[f].pc = "poll" /\ flow'[f].pc = "user" /\ ~flow'[f].aborted
        /\ \A g \in Flows \ {f} : flow'[g] = flow[g]
    BY <1>0, <1>8 DEF Approved, FlowRecord
  <2> QED
    BY <1>8, <2>1, CalmFlow DEF Approved, session, tokens, registry
<1>9. CASE FlowFails(f)
  <2>1. flow[f].pc \in {"poll", "user"}
    BY <1>0, <1>9 DEF FlowFails
  <2>2. flow'[f].pc = "idle" /\ \A g \in Flows \ {f} : flow'[g] = flow[g]
    BY <1>9, EndedRests DEF FlowFails, NoFlow
  <2>3. auth' # FatalError
    BY <1>9 DEF FlowFails, FlowFailureState, FlowError, SignedIn, FatalError
  <2> QED
    BY <1>9, <2>1, <2>2, <2>3, CalmFlow DEF FlowFails, tokens, registry, AtRest
<1>10. CASE AbortedFlowEnds(f)
  <2>1. flow[f].pc = "poll" /\ user' = user
    BY <1>0, <1>3, <1>10 DEF AbortedFlowEnds, Working
  <2>2. flow'[f].pc = "idle" /\ \A g \in Flows \ {f} : flow'[g] = flow[g]
    BY <1>10, EndedRests DEF AbortedFlowEnds
  <2> QED
    BY <1>10, <2>1, <2>2, CalmFlow DEF AbortedFlowEnds, registry, AtRest
\* The steps of a sign-in.
<1>11. CASE IdentityResolved(f)
  <2>1. flow[f].pc \in Working /\ OthersRest("flow", f)
    BY <1>3, <1>11 DEF IdentityResolved, Working
  <2>2. /\ flow'[f].pc = "add" /\ flow'[f].acct = flow[f].acct /\ ~flow'[f].aborted
        /\ \A g \in Flows \ {f} : flow'[g] = flow[g]
    BY <1>0, <1>11 DEF IdentityResolved, FlowRecord
  <2>3. UNCHANGED <<auth, github, copilot, grace, active, loops, retries, rearm, degrade,
                    switch, signingOut>>
    BY <1>11 DEF IdentityResolved, registry
  <2>4. LoopsCalm' /\ RetriesCalm' /\ RearmCalm' /\ DegradeCalm' /\ FlowsCalm'
    <3>1. LoopsCalm'
      BY <1>2, <1>11, <2>1, <2>2, <2>3 DEF IdentityResolved, LoopsCalm, AtRest
    <3>2. RetriesCalm'
      BY <1>2, <1>11, <2>1, <2>2, <2>3 DEF IdentityResolved, RetriesCalm, AtRest
    <3>3. RearmCalm'
      BY <1>2, <1>11, <2>1, <2>2, <2>3 DEF IdentityResolved, RearmCalm, AtRest
    <3>4. DegradeCalm'
      BY <1>2, <1>11, <2>1, <2>2, <2>3 DEF IdentityResolved, DegradeCalm, AtRest
    <3>5. FlowsCalm'
      BY <1>2, <1>11, <2>1, <2>2, <2>3 DEF IdentityResolved, FlowsCalm, AtRest, Working
    <3> QED
      BY <3>1, <3>2, <3>3, <3>4, <3>5
  <2>5. FlowIn({"add"})' /\ FlowIn({"add", "mint", "models"})'
    BY <2>2 DEF FlowIn
  <2>6. github # None => LoopRuns \/ RetryRuns
    <3>1. ~FlowIn({"mint"})
      BY <1>2, <1>11, <2>1 DEF FlowIn, AtRest, IdentityResolved
    <3> QED
      BY <1>2, <2>1, <3>1 DEF CalmState, TokensCalm
  <2>7. TokensCalm'
    BY <1>2, <2>1, <2>3, <2>5, <2>6 DEF CalmState, TokensCalm, LoopRuns, RetryRuns
  <2> QED
    BY <1>2, <2>1, <2>3, <2>4, <2>7 DEF CalmState
<1>12. CASE AccountAdded(f)
  <2>1. flow[f].pc \in Working /\ OthersRest("flow", f) /\ user = flow[f].acct
    BY <1>0, <1>3, <1>12 DEF AccountAdded, Working, FlowsCalm
  <2>2. /\ flow'[f].pc = "mint" /\ flow'[f].acct = flow[f].acct /\ ~flow'[f].aborted
        /\ \A g \in Flows \ {f} : flow'[g] = flow[g]
    BY <1>0, <1>3, <1>12, <2>1 DEF AccountAdded, FlowRecord
  <2>3. /\ UNCHANGED <<auth, copilot, user, grace, loops, retries, rearm, degrade, switch,
                        signingOut>>
        /\ github' = flow[f].acct /\ active' = flow[f].acct
    BY <1>12 DEF AccountAdded
  <2>4. LoopsCalm' /\ RetriesCalm' /\ RearmCalm' /\ DegradeCalm' /\ FlowsCalm'
    <3>1. LoopsCalm'
      BY <1>2, <2>1, <2>2, <2>3 DEF LoopsCalm, AtRest
    <3>2. RetriesCalm'
      BY <1>2, <2>1, <2>2, <2>3 DEF RetriesCalm, AtRest
    <3>3. RearmCalm'
      BY <1>2, <2>1, <2>2, <2>3 DEF RearmCalm, AtRest
    <3>4. DegradeCalm'
      BY <1>2, <2>1, <2>2, <2>3 DEF DegradeCalm, AtRest
    <3>5. FlowsCalm'
      BY <1>2, <2>1, <2>2, <2>3 DEF FlowsCalm, AtRest, Working
    <3> QED
      BY <3>1, <3>2, <3>3, <3>4, <3>5
  <2>5. FlowIn({"mint"})' /\ FlowIn({"add", "mint", "models"})'
    BY <2>2 DEF FlowIn
  <2>6. TokensCalm'
    BY <1>2, <1>3, <2>1, <2>3, <2>5 DEF TokensCalm, LoopRuns
  <2> QED
    BY <1>2, <2>1, <2>3, <2>4, <2>6 DEF CalmState
<1>13. ASSUME flow[f].pc = "mint", NEW b \in BOOLEAN, flow' = AfterMint(f, b)
       PROVE  /\ OthersRest("flow", f) /\ flow[f].acct # None
              /\ github = flow[f].acct /\ user = flow[f].acct /\ active = flow[f].acct
              /\ flow'[f].pc = "models" /\ flow'[f].minted = b
              /\ flow'[f].acct = flow[f].acct /\ ~flow'[f].aborted
              /\ \A g \in Flows \ {f} : flow'[g] = flow[g]
              /\ FlowIn({"add", "mint", "models"})'
  <2>1. OthersRest("flow", f) /\ flow[f].acct # None /\ ~flow[f].aborted
    BY <1>3, <1>13 DEF Working
  <2>2. /\ flow'[f].pc = "models" /\ flow'[f].minted = b
        /\ flow'[f].acct = flow[f].acct /\ ~flow'[f].aborted
        /\ \A g \in Flows \ {f} : flow'[g] = flow[g]
    BY <1>0, <1>13, <2>1 DEF AfterMint, FlowRecord
  <2> QED
    BY <1>0, <1>13, <2>1, <2>2 DEF FlowsCalm, FlowIn
<1>14. CASE FlowMinted(f)
  <2>1. flow[f].pc = "mint" /\ flow' = AfterMint(f, TRUE) /\ copilot' = flow[f].acct
        /\ loops' = Stopped(loops) \cup {NewLoop}
        /\ UNCHANGED <<auth, github, user, active, grace, retries, rearm, degrade, switch,
                       signingOut>>
    BY <1>14 DEF FlowMinted, MintOk
  <2>2. /\ OthersRest("flow", f) /\ flow[f].acct # None
        /\ github = flow[f].acct /\ user = flow[f].acct /\ active = flow[f].acct
        /\ flow'[f].pc = "models" /\ flow'[f].minted
        /\ flow'[f].acct = flow[f].acct /\ ~flow'[f].aborted
        /\ \A g \in Flows \ {f} : flow'[g] = flow[g]
        /\ FlowIn({"add", "mint", "models"})'
    BY <1>13, <2>1
  <2>3. loops' = {NewLoop} /\ NewLoop.live /\ NewLoop.pc = "sleep"
    BY <1>2, <2>1, <2>2 DEF NewLoop
  <2>4. LoopRuns'
    BY <2>3 DEF LoopRuns
  <2>5. LoopsCalm' /\ RetriesCalm' /\ RearmCalm' /\ DegradeCalm' /\ FlowsCalm'
    <3>1. LoopsCalm'
      BY <1>2, <2>1, <2>2, <2>3, <2>4 DEF LoopsCalm, AtRest
    <3>2. RetriesCalm'
      BY <1>2, <2>1, <2>2, <2>3, <2>4 DEF RetriesCalm, AtRest
    <3>3. RearmCalm'
      BY <1>2, <2>1, <2>2, <2>4 DEF RearmCalm, AtRest
    <3>4. DegradeCalm'
      BY <1>2, <2>1, <2>2, <2>4 DEF DegradeCalm, AtRest
    <3>5. FlowsCalm'
      BY <1>2, <2>1, <2>2, <2>4 DEF FlowsCalm, AtRest, Working
    <3> QED
      BY <3>1, <3>2, <3>3, <3>4, <3>5
  <2>6. TokensCalm'
    BY <1>2, <2>1, <2>2, <2>4 DEF TokensCalm
  <2> QED
    BY <1>2, <2>1, <2>2, <2>5, <2>6 DEF CalmState
<1>15. CASE FlowMintOffline(f)
  <2>1. flow[f].pc = "mint" /\ flow' = AfterMint(f, FALSE)
        /\ retries' = Stopped(retries) \cup {NewRetry(FALSE)}
        /\ UNCHANGED <<auth, github, copilot, user, active, grace, loops, rearm, degrade,
                       switch, signingOut>>
    BY <1>15 DEF FlowMintOffline, session, tokens, registry
  <2>2. /\ OthersRest("flow", f) /\ flow[f].acct # None
        /\ github = flow[f].acct /\ user = flow[f].acct /\ active = flow[f].acct
        /\ flow'[f].pc = "models" /\ ~flow'[f].minted
        /\ flow'[f].acct = flow[f].acct /\ ~flow'[f].aborted
        /\ \A g \in Flows \ {f} : flow'[g] = flow[g]
        /\ FlowIn({"add", "mint", "models"})'
    BY <1>13, <2>1
  <2>3. retries' = {NewRetry(FALSE)} /\ NewRetry(FALSE).live /\ NewRetry(FALSE).pc = "sleep"
    BY <1>2, <2>1, <2>2 DEF NewRetry
  <2>4. RetryRuns' /\ (LoopRuns' <=> LoopRuns)
    BY <2>1, <2>3 DEF LoopRuns, RetryRuns
  <2>5. LoopsCalm' /\ RetriesCalm' /\ RearmCalm' /\ DegradeCalm' /\ FlowsCalm'
    <3>1. LoopsCalm'
      BY <1>2, <2>1, <2>2, <2>3, <2>4 DEF LoopsCalm, AtRest
    <3>2. RetriesCalm'
      BY <1>2, <2>1, <2>2, <2>3, <2>4 DEF RetriesCalm, AtRest
    <3>3. RearmCalm'
      BY <1>2, <2>1, <2>2, <2>4 DEF RearmCalm, AtRest
    <3>4. DegradeCalm'
      BY <1>2, <2>1, <2>2, <2>4 DEF DegradeCalm, AtRest
    <3>5. FlowsCalm'
      BY <1>2, <2>1, <2>2, <2>4 DEF FlowsCalm, AtRest, Working
    <3> QED
      BY <3>1, <3>2, <3>3, <3>4, <3>5
  <2>6. TokensCalm'
    BY <1>2, <2>1, <2>2, <2>4 DEF TokensCalm
  <2> QED
    BY <1>2, <2>1, <2>2, <2>5, <2>6 DEF CalmState
<1>16. CASE FlowMintFatal(f)
  <2>1. /\ OthersRest("flow", f) /\ flow[f].acct # None
        /\ github = flow[f].acct /\ user = flow[f].acct /\ active = flow[f].acct
    BY <1>0, <1>3, <1>16 DEF FlowMintFatal, Working, FlowsCalm
  <2>2. \A g \in Flows : AtRest(Ended(f), g)
    BY <1>2, <2>1, EndedRests DEF AtRest
  <2>3. UNCHANGED <<auth, grace, active, rearm, switch, signingOut>>
    BY <1>16 DEF FlowMintFatal, registry
  <2>4. MarkAuthDegraded(Ended(f), loops, retries)
    BY <1>16 DEF FlowMintFatal
  <2>5. loops \in SUBSET loops /\ (grace => \E x \in loops : x.live)
    BY <1>2, <2>1 DEF LoopRuns
  <2> QED
    BY <1>2, <2>1, <2>2, <2>3, <2>4, <2>5, EndedRests, CalmDegrade
<1>17. CASE FlowSignsIn(f)
  <2>1. /\ OthersRest("flow", f) /\ flow[f].acct # None
        /\ github = flow[f].acct /\ user = flow[f].acct /\ active = flow[f].acct
        /\ IF flow[f].minted THEN LoopRuns ELSE RetryRuns
    BY <1>0, <1>3, <1>17 DEF FlowSignsIn, Working, FlowsCalm
  <2>2. /\ \A g \in Flows : AtRest(flow', g)
        /\ UNCHANGED <<github, copilot, user, active, grace, loops, rearm, degrade, switch,
                       signingOut>>
        /\ auth' # FatalError
        /\ retries' = IF flow[f].minted THEN {} ELSE retries
    BY <1>2, <1>17, <2>1, EndedRests
       DEF FlowSignsIn, AtRest, NoFlow, tokens, registry, SignedIn, FatalError
  <2>3. /\ (LoopRuns' <=> LoopRuns)
        /\ LoopRuns' \/ RetryRuns'
    BY <2>1, <2>2 DEF LoopRuns, RetryRuns
  <2> QED
    BY <1>2, <2>1, <2>2, <2>3, CalmAtRest
<1> QED
  BY <1>4, <1>5, <1>6, <1>7, <1>8, <1>9, <1>10, <1>11, <1>12, <1>14, <1>15, <1>16, <1>17
     DEF FlowStep

LEMMA RefreshCalm ==
    ASSUME TInv, SweepsInDegrade, OneInFlight, Calm, CalmState, NEW x \in loops,
           \/ RefreshDue(x) \/ RefreshOk(x) \/ RefreshRejected(x)
           \/ RefreshFatal(x) \/ RefreshOffline(x)
    PROVE  CalmState'
<1>1. OthersRest("loop", x)
  BY SettledRests, Alone
     DEF RefreshDue, RefreshOk, RefreshRejected, RefreshFatal, RefreshOffline, Starts, MayStart,
         Calm
<1>2. /\ \A g \in Flows : AtRest(flow, g)
      /\ \A y \in loops : y.live
      /\ \A y \in loops \ {x} : y.pc = "sleep"
      /\ \A r \in retries : r.live /\ r.pc = "sleep"
      /\ rearm.pc = "idle" /\ degrade = "idle" /\ ~signingOut
      /\ switch["request"].pc = "idle" /\ switch["sweep"].pc = "idle"
      /\ copilot # None => github # None
      /\ {github, user} \subseteq {None, active}
      /\ grace => LoopRuns
      /\ github # None => LoopRuns \/ RetryRuns
      /\ auth = FatalError => ~grace /\ github = None /\ user = None
  BY <1>1, CalmRests DEF OthersRest
<1>3. x \in LoopRecord /\ x.live /\ (x.pc = "wait" => x.sent = github /\ ~grace)
  BY Parts DEF CalmState, LoopsCalm
<1>4. \A n : \A y \in LoopGoesOn(x, n) : y.pc = "sleep" /\ y.live
  BY <1>2, <1>3 DEF LoopGoesOn, LoopRecord
<1>5. \A n : \E y \in LoopGoesOn(x, n) : y.live
  <2> TAKE n
  <2> DEFINE y == [x EXCEPT !.pc = "sleep", !.sent = None, !.fatals = n]
  <2>1. y \in LoopGoesOn(x, n) /\ y.live
    BY <1>3 DEF LoopGoesOn, LoopRecord
  <2> QED
    BY <2>1
<1>6. CASE RefreshDue(x)
  <2> DEFINE y == [x EXCEPT !.pc = "wait", !.sent = github]
  <2>1. /\ loops' = (loops \ {x}) \cup {y} /\ y.live /\ y.sent = github /\ y.pc = "wait"
        /\ ~grace
        /\ UNCHANGED <<auth, github, copilot, user, active, flow, retries, rearm, degrade,
                       switch, signingOut, grace>>
    BY <1>3, <1>6 DEF RefreshDue, LoopRecord, session, tokens, registry
  <2> HIDE DEF y
  <2>2. LoopsCalm' /\ LoopRuns' /\ (RetryRuns' <=> RetryRuns)
    BY <1>2, <2>1 DEF LoopsCalm, LoopRuns, RetryRuns
  <2>3. RetriesCalm' /\ FlowsCalm' /\ RearmCalm' /\ DegradeCalm'
    BY <1>2, <2>1, <2>2
       DEF RetriesCalm, FlowsCalm, RearmCalm, DegradeCalm, AtRest, Working
  <2>4. TokensCalm'
    BY <1>2, <2>1, <2>2 DEF TokensCalm
  <2> QED
    BY <1>2, <2>1, <2>2, <2>3, <2>4 DEF CalmState
<1>7. CASE RefreshFatal(x)
  <2>1. \A y \in loops \ {x} : y.live /\ y.pc = "sleep"
    BY <1>2
  <2>2. ~grace
    BY <1>3, <1>7 DEF RefreshFatal
  <2>3. UNCHANGED <<auth, grace, active, rearm, switch, signingOut>>
    BY <1>7 DEF RefreshFatal, registry
  <2>4. MarkAuthDegraded(flow, loops \ {x}, retries) /\ loops \ {x} \in SUBSET loops
    BY <1>7 DEF RefreshFatal
  <2>5. flow \in [Flows -> FlowRecord]
    BY Parts
  <2>6. ~signingOut' /\ rearm'.pc = "idle" /\ switch'["request"].pc = "idle"
        /\ switch'["sweep"].pc = "idle"
    BY <1>2, <2>3
  <2> QED
    BY <1>2, <2>1, <2>2, <2>3, <2>4, <2>5, <2>6, CalmDegrade
<1>8. CASE RefreshOk(x)
  <2>1. /\ github # None /\ copilot' # None /\ auth # FatalError
        /\ loops' = LoopGoesOn(x, 0)
        /\ UNCHANGED <<auth, github, user, active, flow, retries, rearm, degrade, switch,
                       signingOut>>
    BY <1>2, <1>3, <1>8 DEF RefreshOk
  <2>2. LoopRuns'
    BY <1>5, <2>1 DEF LoopRuns
  <2> QED
    BY <1>2, <1>4, <2>1, <2>2, CalmAtRest DEF AtRest
<1>9. CASE RefreshRejected(x) \/ RefreshOffline(x)
  <2>1. PICK n : loops' = LoopGoesOn(x, n)
    BY <1>9 DEF RefreshRejected, RefreshOffline
  <2>2. UNCHANGED <<auth, github, copilot, user, active, grace, flow, retries, rearm, degrade,
                    switch, signingOut>>
    BY <1>9 DEF RefreshRejected, RefreshOffline, session, tokens, registry
  <2>3. LoopRuns'
    BY <1>5, <2>1 DEF LoopRuns
  <2> QED
    BY <1>2, <1>4, <2>1, <2>2, <2>3, CalmAtRest DEF AtRest
<1> QED
  BY <1>6, <1>7, <1>8, <1>9

LEMMA RetryCalm ==
    ASSUME TInv, SweepsInDegrade, OneInFlight, Calm, CalmState, NEW r \in retries,
           \/ RetryDue(r) \/ RetryMinted(r) \/ RetryFatal(r)
           \/ RetryOffline(r) \/ RetryOnline(r)
           \/ RetryIdentified(r) \/ RetryUnidentified(r)
    PROVE  CalmState'
<1>1. OthersRest("retry", r)
  <2>1. RetryDue(r) => OthersRest("retry", r)
    BY SettledRests DEF RetryDue, Starts, MayStart, Calm
  <2>2. r.pc # "sleep" => OthersRest("retry", r)
    BY Alone
  <2> QED
    BY <2>1, <2>2 DEF RetryMinted, RetryFatal, RetryOffline, RetryOnline, RetryIdentified,
       RetryUnidentified
<1>2. /\ \A g \in Flows : AtRest(flow, g)
      /\ \A y \in loops : y.live /\ y.pc = "sleep"
      /\ Stopped(loops) = {}
      /\ rearm.pc = "idle" /\ degrade = "idle" /\ ~signingOut
      /\ switch["request"].pc = "idle" /\ switch["sweep"].pc = "idle"
      /\ copilot # None => github # None
      /\ {github, user} \subseteq {None, active}
      /\ grace => LoopRuns
      /\ github # None => LoopRuns \/ RetryRuns
      /\ auth = FatalError => ~grace /\ github = None /\ user = None
  BY <1>1, CalmRests, RestingStops
<1>3. \A q \in retries \ {r} : q.pc = "sleep" /\ q.live
  BY <1>1 DEF OthersRest, CalmState, RetriesCalm
<1>4. /\ r \in RetryRecord
      /\ r.live <=> r.pc # "user"
      /\ r.pc # "sleep" => github # None
      /\ r.pc \in {"mint", "user"} => r.sent = github
      /\ r.pc \in {"models", "user"} => LoopRuns
  BY Parts DEF CalmState, RetriesCalm
<1>5. Stopped(retries \ {r}) = {}
  BY <1>3, RestingStops
\* The retry goes on to another call.
<1>6. ASSUME NEW q, retries' = (retries \ {r}) \cup {q},
             q.live <=> q.pc # "user", q.pc # "sleep", github # None,
             q.pc \in {"mint", "user"} => q.sent = github,
             q.pc \in {"models", "user"} => LoopRuns',
             LoopRuns' \/ q.live, LoopRuns => LoopRuns',
             \A y \in loops' : y.live /\ y.pc = "sleep",
             UNCHANGED <<auth, github, user, active, flow, rearm, degrade, switch,
                         signingOut, grace>>
      PROVE  CalmState'
  <2>1. UNCHANGED <<auth, github, user, active, flow, rearm, degrade, switch,
                    signingOut, grace>>
    BY <1>6
  <2>2. LoopsCalm' /\ RetriesCalm' /\ (LoopRuns' \/ RetryRuns')
    BY <1>3, <1>6, <2>1 DEF LoopsCalm, RetriesCalm, RetryRuns
  <2>3. FlowsCalm' /\ RearmCalm' /\ DegradeCalm'
    BY <1>2, <2>1 DEF FlowsCalm, RearmCalm, DegradeCalm, AtRest, Working
  <2>4. TokensCalm'
    BY <1>2, <1>6, <2>1, <2>2 DEF TokensCalm
  <2> QED
    BY <1>2, <2>1, <2>2, <2>3, <2>4 DEF CalmState
<1>7. CASE RetryDue(r)
  <2>1. UNCHANGED <<auth, github, copilot, user, active, flow, loops, rearm, degrade, switch,
                    signingOut, grace>>
    BY <1>7 DEF RetryDue, session, tokens, registry
  <2>2. LoopRuns' <=> LoopRuns
    BY <2>1 DEF LoopRuns
  <2>3. CASE github = None
    <3>1. retries' = retries \ {r}
      BY <1>7, <2>3 DEF RetryDue
    <3> QED
      BY <1>2, <1>3, <2>1, <2>2, <2>3, <3>1, CalmAtRest DEF AtRest
  <2>4. CASE github # None
    <3> DEFINE q == [r EXCEPT !.pc = "mint", !.sent = github]
    <3>1. retries' = (retries \ {r}) \cup {q} /\ q.live /\ q.pc = "mint" /\ q.sent = github
      BY <1>4, <1>7, <2>4 DEF RetryDue, RetryRecord
    <3> HIDE DEF q
    <3> QED
      BY <1>2, <1>6, <2>1, <2>2, <2>4, <3>1
  <2> QED
    BY <2>3, <2>4
<1>8. CASE RetryMinted(r)
  <2> DEFINE q == [r EXCEPT !.pc = "models", !.sent = None]
  <2>1. github # None
    BY <1>4, <1>8 DEF RetryMinted
  <2>2. /\ retries' = (retries \ {r}) \cup {q} /\ q.live /\ q.pc = "models"
        /\ loops' = {NewLoop}
        /\ UNCHANGED <<auth, github, user, active, flow, rearm, degrade, switch, signingOut,
                       grace>>
    BY <1>2, <1>4, <1>8, <2>1 DEF RetryMinted, RetryRecord
  <2> HIDE DEF q
  <2>3. LoopRuns' /\ \A y \in loops' : y.live /\ y.pc = "sleep"
    BY <2>2 DEF LoopRuns, NewLoop
  <2> QED
    BY <1>6, <2>1, <2>2, <2>3
<1>9. CASE RetryFatal(r)
  <2>1. UNCHANGED <<auth, grace, active, rearm, switch, signingOut>>
    BY <1>9 DEF RetryFatal, registry
  <2>2. MarkAuthDegraded(flow, loops, retries \ {r}) /\ loops \in SUBSET loops
    BY <1>9 DEF RetryFatal
  <2>3. flow \in [Flows -> FlowRecord]
    BY Parts
  <2>4. grace => (\E x \in loops : x.live) /\ auth # FatalError
    BY <1>2 DEF LoopRuns
  <2>5. ~signingOut' /\ rearm'.pc = "idle" /\ switch'["request"].pc = "idle"
        /\ switch'["sweep"].pc = "idle"
    BY <1>2, <2>1
  <2> QED
    BY <1>2, <1>3, <2>1, <2>2, <2>3, <2>4, <2>5, CalmDegrade
<1>10. CASE RetryOffline(r)
  <2>1. /\ retries' = (retries \ {r}) \cup {NewRetry(r.hook)}
        /\ UNCHANGED <<auth, github, copilot, user, active, flow, loops, rearm, degrade, switch,
                       signingOut, grace>>
    BY <1>4, <1>10 DEF RetryOffline, session, tokens, registry
  <2>2. NewRetry(r.hook).live /\ NewRetry(r.hook).pc = "sleep"
    BY DEF NewRetry
  <2>3. RetryRuns' /\ (LoopRuns' <=> LoopRuns)
    BY <2>1, <2>2 DEF RetryRuns, LoopRuns
  <2> QED
    BY <1>2, <1>3, <2>1, <2>2, <2>3, CalmAtRest DEF AtRest
<1>11. CASE RetryOnline(r)
  <2>1. r.pc = "models" /\ github # None /\ LoopRuns /\ auth # FatalError
    BY <1>2, <1>4, <1>11 DEF RetryOnline
  <2>2. UNCHANGED <<github, copilot, user, active, flow, loops, rearm, degrade, switch,
                    signingOut>>
    BY <1>11 DEF RetryOnline, tokens, registry
  <2>3. LoopRuns'
    BY <2>1, <2>2 DEF LoopRuns
  <2>4. CASE r.hook /\ user = None
    <3> DEFINE q == [r EXCEPT !.pc = "user", !.live = FALSE, !.sent = github]
    <3>1. /\ retries' = (retries \ {r}) \cup {q} /\ ~q.live /\ q.pc = "user"
          /\ q.sent = github /\ UNCHANGED <<auth, grace>>
      BY <1>4, <1>11, <2>4 DEF RetryOnline, RetryRecord
    <3> HIDE DEF q
    <3> QED
      BY <1>2, <1>6, <2>1, <2>2, <2>3, <3>1
  <2>5. CASE ~(r.hook /\ user = None)
    <3>1. auth' # FatalError /\ \A q \in retries' : q.pc = "sleep" /\ q.live
      <4>1. CASE r.hook
        <5>1. auth' = SignedIn(user) /\ retries' = {}
          BY <1>5, <1>11, <2>5, <4>1 DEF RetryOnline, MarkSignedIn
        <5> QED
          BY <5>1 DEF SignedIn, FatalError
      <4>2. CASE ~r.hook
        <5>1. auth' = auth /\ retries' = retries \ {r}
          BY <1>11, <4>2 DEF RetryOnline
        <5> QED
          BY <1>3, <2>1, <5>1
      <4> QED
        BY <4>1, <4>2
    <3> QED
      BY <1>2, <2>1, <2>2, <2>3, <3>1, CalmAtRest DEF AtRest
  <2> QED
    BY <2>4, <2>5
<1>12. CASE RetryIdentified(r)
  <2>1. /\ r.sent = github /\ user' = github /\ github \in {None, active} /\ LoopRuns
        /\ auth' # FatalError /\ retries' = {}
        /\ UNCHANGED <<github, copilot, active, flow, loops, rearm, degrade, switch, signingOut>>
    BY <1>2, <1>4, <1>5, <1>12
       DEF RetryIdentified, MarkSignedIn, registry, SignedIn, FatalError
  <2>2. LoopRuns'
    BY <2>1 DEF LoopRuns
  <2> QED
    BY <1>2, <2>1, <2>2, CalmAtRest DEF AtRest
<1>13. CASE RetryUnidentified(r)
  <2>1. /\ retries' = retries \ {r} /\ LoopRuns
        /\ UNCHANGED <<auth, github, copilot, user, active, flow, loops, rearm, degrade, switch,
                       signingOut, grace>>
    BY <1>4, <1>13 DEF RetryUnidentified, session, tokens, registry
  <2>2. LoopRuns'
    BY <2>1 DEF LoopRuns
  <2> QED
    BY <1>2, <1>3, <2>1, <2>2, CalmAtRest DEF AtRest
<1> QED
  BY <1>7, <1>8, <1>9, <1>10, <1>11, <1>12, <1>13

LEMMA RearmStepCalm ==
    ASSUME TInv, SweepsInDegrade, OneInFlight, Calm, CalmState, RearmStep
    PROVE  CalmState'
<1>0. rearm \in RearmType /\ flow \in [Flows -> FlowRecord] /\ RearmCalm
      /\ "writeFails" \notin workload.events
  BY Parts DEF CalmState, Calm
<1>1. ASSUME NEW d \in BOOLEAN, RearmCaller(d) PROVE OthersRest("completion", None)
  <2>1. CASE d
    BY <1>1, <2>1, Alone DEF RearmCaller
  <2>2. CASE ~d
    BY <1>1, <2>2, SettledRests DEF RearmCaller, Starts, MayStart, Calm
  <2> QED
    BY <2>1, <2>2
<1>2. \E k \in {"rearm", "completion"} : OthersRest(k, None)
  <2>1. rearm.pc # "idle" => OthersRest("rearm", None)
    BY Alone
  <2>2. \/ \E d \in BOOLEAN : RearmCaller(d)
        \/ rearm.pc # "idle"
    BY DEF RearmStep, RearmJoins, RearmStarts, RearmWithoutToken, RearmMinted, RearmOffline,
           RearmRejected, RenewReads, Renewed, RenewalSaved, RearmFatal
  <2> QED
    BY <1>1, <2>1, <2>2
<1>3. /\ \A g \in Flows : AtRest(flow, g)
      /\ \A y \in loops : y.live /\ y.pc = "sleep"
      /\ \A r \in retries : r.live /\ r.pc = "sleep"
      /\ Stopped(loops) = {} /\ Stopped(retries) = {}
      /\ degrade = "idle" /\ ~signingOut
      /\ switch["request"].pc = "idle" /\ switch["sweep"].pc = "idle"
      /\ copilot # None => github # None
      /\ {github, user} \subseteq {None, active}
      /\ grace => LoopRuns
      /\ github # None => LoopRuns \/ RetryRuns
      /\ auth = FatalError => ~grace /\ github = None /\ user = None
  BY <1>2, CalmRests, RestingStops
<1>4. auth = FatalError => ~grace /\ github = None /\ user = None
  BY <1>3
\* The re-arm begins, goes on or ends; the session keeps its loops.
<1>5. ASSUME rearm'.pc # "idle" => github' # None,
             rearm'.pc \in {"mint", "remint"} => rearm'.sent = github',
             rearm'.pc \in {"renew", "save"} => rearm'.acct = active',
             github' = github \/ (github' = active /\ github # None /\ active # None),
             active' = active,
             UNCHANGED <<auth, copilot, user, flow, loops, retries, degrade, switch,
                         signingOut, grace>>
      PROVE  CalmState'
  <2>1. UNCHANGED <<auth, copilot, user, active, flow, loops, retries, degrade, switch,
                    signingOut, grace>>
    BY <1>5
  <2>2. (LoopRuns' <=> LoopRuns) /\ (RetryRuns' <=> RetryRuns)
    BY <2>1 DEF LoopRuns, RetryRuns
  <2>3. LoopsCalm' /\ RetriesCalm' /\ FlowsCalm' /\ RearmCalm' /\ DegradeCalm'
    BY <1>3, <1>5, <2>1
       DEF LoopsCalm, RetriesCalm, FlowsCalm, RearmCalm, DegradeCalm, AtRest, Working
  <2>4. /\ github' \in {None, active} /\ (github' = None <=> github = None)
    BY <1>3, <1>5
  <2>5. TokensCalm'
    BY <1>3, <1>4, <2>1, <2>2, <2>4 DEF TokensCalm
  <2> QED
    BY <1>3, <2>1, <2>3, <2>5 DEF CalmState
<1>6. ASSUME NEW d \in BOOLEAN, RearmJoins(d) PROVE CalmState'
  <2>1. rearm'.pc = rearm.pc /\ rearm'.sent = rearm.sent /\ rearm'.acct = rearm.acct
    BY <1>0, <1>6 DEF RearmJoins, RearmType
  <2> QED
    BY <1>0, <1>5, <1>6, <2>1 DEF RearmJoins, RearmCalm, session, tokens, registry
<1>7. ASSUME NEW d \in BOOLEAN, RearmStarts(d) PROVE CalmState'
  <2>1. github # None /\ rearm'.pc = "mint" /\ rearm'.sent = github
    BY <1>7 DEF RearmStarts, NoRearm
  <2> QED
    BY <1>5, <1>7, <2>1 DEF RearmStarts, session, tokens, registry
<1>8. CASE RearmWithoutToken
  <2>1. UNCHANGED <<auth, grace, active, rearm, switch, signingOut>> /\ rearm.pc = "idle"
    BY <1>8 DEF RearmWithoutToken, registry
  <2>2. MarkAuthDegraded(flow, loops, retries) /\ loops \in SUBSET loops
    BY <1>8 DEF RearmWithoutToken
  <2>3. grace => (\E x \in loops : x.live) /\ auth # FatalError
    BY <1>3, <1>4 DEF LoopRuns
  <2>4. ~signingOut' /\ rearm'.pc = "idle" /\ switch'["request"].pc = "idle"
        /\ switch'["sweep"].pc = "idle"
    BY <1>3, <2>1
  <2> QED
    BY <1>0, <1>3, <2>1, <2>2, <2>3, <2>4, CalmDegrade
<1>9. CASE RearmMinted
  <2>1. /\ rearm.sent = github /\ github # None /\ auth # FatalError
        /\ copilot' = github /\ loops' = {NewLoop} /\ rearm'.pc = "idle"
        /\ UNCHANGED <<github, user, active, flow, degrade, switch, signingOut>>
    BY <1>0, <1>3, <1>4, <1>9 DEF RearmMinted, MintOk, RearmCalm, NoRearm
  <2>2. NewLoop.live /\ NewLoop.pc = "sleep" /\ LoopRuns'
    BY <2>1 DEF NewLoop, LoopRuns
  <2>3. auth' # FatalError /\ retries' \subseteq retries
    BY <1>3, <1>9, <2>1 DEF RearmMinted, MarkSignedIn, SignedIn, FatalError
  <2> QED
    BY <1>3, <2>1, <2>2, <2>3, CalmAtRest DEF AtRest
<1>10. CASE RearmOffline
  BY <1>5, <1>10 DEF RearmOffline, NoRearm, session, tokens, registry
<1>11. CASE RearmRejected
  <2>1. rearm'.pc = "read" /\ rearm.pc = "mint"
    BY <1>0, <1>11 DEF RearmRejected, RearmType
  <2> QED
    BY <1>0, <1>5, <1>11, <2>1 DEF RearmRejected, RearmCalm, session, tokens, registry
<1>12. CASE RenewReads
  <2>1. rearm'.pc = "renew" /\ rearm'.acct = active /\ rearm.pc = "read"
    BY <1>0, <1>12 DEF RenewReads, RearmType
  <2> QED
    BY <1>0, <1>5, <1>12, <2>1 DEF RenewReads, RearmCalm, session, tokens, registry
<1>13. CASE Renewed
  <2>1. /\ rearm'.pc = "save" /\ rearm'.acct = active /\ rearm.pc = "renew"
        /\ github' = active /\ github # None /\ active # None
    BY <1>0, <1>3, <1>13 DEF Renewed, RearmType, RearmCalm
  <2> QED
    BY <1>0, <1>5, <1>13, <2>1 DEF Renewed, registry
<1>14. CASE RenewalSaved
  <2>1. /\ rearm'.pc = "remint" /\ rearm'.sent = github /\ github # None
        /\ rearm.acct = active /\ active' = active
    BY <1>0, <1>14 DEF RenewalSaved, RearmType, RearmCalm
  <2> QED
    BY <1>0, <1>5, <1>14, <2>1 DEF RenewalSaved, tokens
<1>15. CASE RearmFatal
  <2>1. UNCHANGED <<auth, grace, active, switch, signingOut>> /\ rearm'.pc = "idle"
    BY <1>15 DEF RearmFatal, registry, NoRearm
  <2>2. CASE rearm.degrades
    <3>1. MarkAuthDegraded(flow, loops, retries) /\ loops \in SUBSET loops
      BY <1>15, <2>2 DEF RearmFatal
    <3>2. grace => (\E x \in loops : x.live) /\ auth # FatalError
      BY <1>3, <1>4 DEF LoopRuns
    <3>3. ~signingOut' /\ rearm'.pc = "idle" /\ switch'["request"].pc = "idle"
          /\ switch'["sweep"].pc = "idle"
      BY <1>3, <2>1
    <3> QED
      BY <1>0, <1>3, <2>1, <3>1, <3>2, <3>3, CalmDegrade
  <2>3. CASE ~rearm.degrades
    BY <1>5, <1>15, <2>1, <2>3 DEF RearmFatal
  <2> QED
    BY <2>2, <2>3
<1> QED
  BY <1>6, <1>7, <1>8, <1>9, <1>10, <1>11, <1>12, <1>13, <1>14, <1>15 DEF RearmStep

LEMMA SwitchCalm ==
    ASSUME TInv, SweepsInDegrade, OneInFlight, Calm, CalmState,
           DegradeFlags \/ SweepStep \/ \E s \in Switchers : SwitchReply(s)
    PROVE  CalmState'
<1>0. /\ switch \in SwitchType /\ SwitchesNamed /\ WhereWriteFails = {} /\ DegradeCalm
      /\ switch["request"].pc = "idle"
  BY Parts DEF CalmState, Calm, WhereWriteFails
<1>1. ~SwitchReply("request")
  BY <1>0 DEF SwitchReply, PreflightOk, SwitchMinted, SwitchCommits, SwitchSignsIn, SwitchFails
<1>2. degrade # "idle"
  <2>1. SweepStep \/ SwitchReply("sweep") => switch["sweep"].pc # "idle"
    BY <1>0 DEF SweepStep, SweepReads, SweepTries, SweepGivesUp, SweepFlagFails, SwitchReply, PreflightOk,
                SwitchMinted, SwitchCommits, SwitchSignsIn, SwitchFails
  <2> QED
    BY <1>1, <2>1 DEF DegradeFlags, Switchers, SweepsInDegrade
<1>3. /\ \A g \in Flows : AtRest(flow, g)
      /\ \A y \in loops : y.live /\ y.pc = "sleep"
      /\ \A r \in retries : r.live /\ r.pc = "sleep"
      /\ Stopped(loops) = {} /\ Stopped(retries) = {}
      /\ rearm.pc = "idle" /\ ~signingOut /\ ~grace
      /\ copilot # None => github # None
  <2>1. OthersRest("degrade", None)
    BY <1>2, Alone
  <2>2. /\ \A y \in loops : y.live /\ y.pc = "sleep"
        /\ \A r \in retries : r.live /\ r.pc = "sleep"
    BY <2>1 DEF OthersRest, CalmState, LoopsCalm, RetriesCalm
  <2>3. ~grace /\ (copilot # None => github # None)
    BY <1>2 DEF CalmState, DegradeCalm, TokensCalm
  <2> QED
    BY <2>1, <2>2, <2>3, RestingStops DEF OthersRest
\* The sweep goes on.
<1>4. ASSUME degrade' = "sweep", switch'["request"] = switch["request"],
             switch'["sweep"].pc \in {"mint", "commit", "models"} =>
                github' = switch'["sweep"].acct /\ user' = switch'["sweep"].acct,
             switch'["sweep"].pc \in {"commit", "models"} => LoopRuns',
             switch'["sweep"].pc = "models" => active' = switch'["sweep"].acct,
             copilot' # None => github' # None,
             \A y \in loops' : y.live /\ y.pc = "sleep",
             UNCHANGED <<flow, retries, rearm, signingOut, grace>>
      PROVE  CalmState'
  <2>1. UNCHANGED <<flow, retries, rearm, signingOut, grace>>
    BY <1>4
  <2>2. LoopsCalm' /\ RetriesCalm' /\ FlowsCalm' /\ RearmCalm'
    BY <1>3, <1>4, <2>1 DEF LoopsCalm, RetriesCalm, FlowsCalm, RearmCalm, AtRest, Working
  <2>3. DegradeCalm' /\ TokensCalm'
    BY <1>3, <1>4, <2>1 DEF DegradeCalm, TokensCalm
  <2> QED
    BY <1>0, <1>4, <2>2, <2>3 DEF CalmState
<1>5. CASE DegradeFlags
  <2>1. /\ github = None /\ user = None /\ copilot = None
        /\ UNCHANGED <<active, grace, github, copilot, user, flow, loops, retries, rearm,
                       signingOut>>
    BY <1>0, <1>3, <1>5 DEF DegradeFlags, DegradeCalm, tokens
  <2>2. CASE workload.autoRecover
    <3>1. degrade' = "sweep" /\ switch'["request"] = switch["request"]
          /\ switch'["sweep"].pc = "read"
      BY <1>0, <1>5, <2>2 DEF DegradeFlags, SwitchType, Switchers
    <3> QED
      BY <1>3, <1>4, <2>1, <3>1
  <2>3. CASE ~workload.autoRecover
    <3>1. degrade' = "idle" /\ switch' = switch
      BY <1>5, <2>3 DEF DegradeFlags
    <3>2. switch["sweep"].pc = "idle"
      BY <1>5 DEF DegradeFlags, SweepsInDegrade
    <3> QED
      BY <1>0, <1>3, <2>1, <3>1, <3>2, CalmAtRest DEF AtRest
  <2> QED
    BY <2>2, <2>3
<1>6. CASE SweepStep \/ SwitchReply("sweep")
  <2>0. degrade = "sweep"
    <3>1. switch["sweep"].pc # "idle"
      BY <1>0, <1>6 DEF SweepStep, SweepReads, SweepTries, SweepGivesUp, SweepFlagFails,
                  SwitchReply, PreflightOk, SwitchMinted, SwitchCommits, SwitchSignsIn, SwitchFails
    <3> QED
      BY <3>1 DEF SweepsInDegrade
  <2>1. CASE SweepReads \/ (\E a \in Accounts : SweepTries(a)) \/ SwitchFails("sweep")
    <3>1. switch'["request"] = switch["request"]
          /\ switch'["sweep"].pc \in {"next", "preflight"}
      <4>1. CASE SweepReads
        BY <1>0, <4>1 DEF SweepReads, SwitchType, Switchers
      <4>2. ASSUME NEW a \in Accounts, SweepTries(a)
            PROVE  switch'["request"] = switch["request"] /\ switch'["sweep"].pc = "preflight"
        BY <1>0, <4>2 DEF SweepTries, SwitchType, Switchers
      <4>3. CASE SwitchFails("sweep")
        BY <1>0, <4>3 DEF SwitchFails, SwitchType, Switchers
      <4> QED
        BY <2>1, <4>1, <4>2, <4>3
    <3>2. UNCHANGED <<active, grace, github, copilot, user, flow, loops, retries, rearm,
                      signingOut, degrade>>
      BY <2>1 DEF SweepReads, SweepTries, SwitchFails, session, tokens, registry
    <3> QED
      BY <1>3, <1>4, <2>0, <3>1, <3>2
  <2>2. CASE SweepGivesUp
    <3>1. switch'["request"] = switch["request"] /\ switch'["sweep"].pc = "idle"
      BY <1>0, <2>2 DEF SweepGivesUp, SwitchType, Switchers, NoSwitch
    <3>2. /\ UNCHANGED <<active, grace, flow, loops, retries, rearm, signingOut>>
          /\ degrade' = "idle" /\ github' = None /\ copilot' = None /\ user' = None
      BY <2>2 DEF SweepGivesUp, ClearTokenTrio, registry
    <3> QED
      BY <1>0, <1>3, <3>1, <3>2, CalmAtRest DEF AtRest
  <2>3. CASE PreflightOk("sweep")
    <3>1. /\ switch'["request"] = switch["request"] /\ switch'["sweep"].pc = "mint"
          /\ switch'["sweep"].acct = switch["sweep"].acct /\ switch["sweep"].acct # None
      BY <1>0, <2>3, SessionAssumption
         DEF PreflightOk, SwitchType, Switchers, SwitchesNamed, Switching
    <3>2. /\ UNCHANGED <<active, copilot, grace, flow, retries, rearm, signingOut, degrade>>
          /\ loops' = {} /\ github' = switch["sweep"].acct /\ user' = switch["sweep"].acct
      BY <1>3, <2>3 DEF PreflightOk, registry
    <3> QED
      BY <1>3, <1>4, <2>0, <3>1, <3>2
  <2>4. CASE SwitchMinted("sweep")
    <3>1. /\ switch'["request"] = switch["request"] /\ switch'["sweep"].pc = "commit"
          /\ switch'["sweep"].acct = switch["sweep"].acct /\ switch["sweep"].acct # None
          /\ github = switch["sweep"].acct /\ user = switch["sweep"].acct
      BY <1>0, <2>4, SessionAssumption
         DEF SwitchMinted, SwitchType, Switchers, SwitchesNamed, Switching, DegradeCalm
    <3>2. /\ UNCHANGED <<active, github, user, grace, flow, retries, rearm, signingOut, degrade>>
          /\ loops' = {NewLoop}
      BY <1>3, <2>4 DEF SwitchMinted, MintOk
    <3>3. NewLoop.live /\ NewLoop.pc = "sleep" /\ LoopRuns'
      BY <3>2 DEF NewLoop, LoopRuns
    <3> QED
      BY <1>3, <1>4, <2>0, <3>1, <3>2, <3>3
  <2>5. CASE SwitchCommits("sweep")
    <3>1. /\ switch'["request"] = switch["request"] /\ switch'["sweep"].pc = "models"
          /\ switch'["sweep"].acct = switch["sweep"].acct
          /\ github = switch["sweep"].acct /\ user = switch["sweep"].acct /\ LoopRuns
      BY <1>0, <2>5 DEF SwitchCommits, SwitchType, Switchers, DegradeCalm
    <3>2. /\ UNCHANGED <<copilot, github, user, grace, flow, loops, retries, rearm, signingOut,
                         degrade>>
          /\ active' = switch["sweep"].acct
      BY <2>5 DEF SwitchCommits, tokens
    <3>3. LoopRuns'
      BY <3>1, <3>2 DEF LoopRuns
    <3> QED
      BY <1>3, <1>4, <2>0, <3>1, <3>2, <3>3
  <2>6. CASE SwitchSignsIn("sweep")
    <3>1. /\ switch'["request"] = switch["request"] /\ switch'["sweep"].pc = "idle"
          /\ github = switch["sweep"].acct /\ user = switch["sweep"].acct /\ LoopRuns
          /\ active = switch["sweep"].acct /\ switch["sweep"].acct # None
      BY <1>0, <2>6, SessionAssumption
         DEF SwitchSignsIn, SwitchType, Switchers, SwitchesNamed, Switching, DegradeCalm,
             NoSwitch
    <3>2. /\ UNCHANGED <<copilot, github, user, active, flow, loops, rearm, signingOut>>
          /\ degrade' = "idle" /\ retries' = {}
      BY <1>3, <2>6 DEF SwitchSignsIn, MarkSignedIn, tokens, registry
    <3>3. LoopRuns' /\ auth' # FatalError
      BY <2>6, <3>1, <3>2 DEF LoopRuns, SwitchSignsIn, MarkSignedIn, SignedIn, FatalError
    <3> QED
      BY <1>0, <1>3, <3>1, <3>2, <3>3, CalmAtRest DEF AtRest
  <2>7. ~SweepFlagFails
    BY DEF SweepFlagFails, Calm
  <2> QED
    BY <1>6, <2>1, <2>2, <2>3, <2>4, <2>5, <2>6, <2>7 DEF SweepStep, SwitchReply
<1> QED
  BY <1>1, <1>5, <1>6 DEF Switchers

LEMMA SignOutCalm ==
    ASSUME TInv, SweepsInDegrade, OneInFlight, Calm, CalmState,
           \/ CancelDeviceFlow \/ SignOut \/ SignOutDeactivates
           \/ SendCompletion \/ CompletionServed \/ GraceElapses
    PROVE  CalmState'
<1>0. flow \in [Flows -> FlowRecord]
  BY Parts
<1>1. \A g \in Flows : AbortCurrent(flow)[g].pc = flow[g].pc
  BY <1>0, AbortRests
<1>2. CASE CancelDeviceFlow
  <2>1. \A g \in Flows : AtRest(flow, g) /\ AtRest(flow', g)
    BY <1>1, <1>2 DEF CancelDeviceFlow, Starts, MayStart, Calm, Settled, AtRest
  <2>2. auth' # FatalError
    BY <1>2 DEF CancelDeviceFlow, SignedIn, SignedOut, FatalError
  <2> QED
    BY <1>2, <2>1, <2>2, CalmFlow DEF CancelDeviceFlow, tokens, registry, AtRest
<1>3. CASE SignOut
  <2>1. OthersRest("none", None)
    BY <1>3, SettledRests DEF SignOut, Starts, MayStart, Calm
  <2>2. /\ \A g \in Flows : AtRest(flow, g)
        /\ \A y \in loops : y.live /\ y.pc = "sleep"
        /\ \A r \in retries : r.live /\ r.pc = "sleep"
        /\ rearm.pc = "idle" /\ degrade = "idle"
        /\ switch["request"].pc = "idle" /\ switch["sweep"].pc = "idle"
        /\ grace => LoopRuns
    BY <2>1, CalmRests
  <2>3. /\ \A g \in Flows : flow'[g].pc = flow[g].pc
        /\ retries' = {} /\ github' = None /\ copilot' = None /\ user' = None
        /\ auth' # FatalError
        /\ UNCHANGED <<active, grace, loops, rearm, degrade, switch>>
    BY <1>1, <1>3, <2>2, RestingStops
       DEF SignOut, ClearTokenTrio, SignedOut, FatalError, registry
  <2>4. LoopRuns' <=> LoopRuns
    BY <2>3 DEF LoopRuns
  <2> QED
    BY <2>2, <2>3, <2>4, CalmAtRest DEF AtRest
<1>4. CASE SignOutDeactivates
  <2>1. OthersRest("signOut", None)
    BY <1>4, Alone DEF SignOutDeactivates
  <2>2. /\ \A g \in Flows : AtRest(flow, g)
        /\ \A y \in loops : y.live /\ y.pc = "sleep"
        /\ \A r \in retries : r.live /\ r.pc = "sleep"
        /\ rearm.pc = "idle" /\ degrade = "idle"
        /\ switch["request"].pc = "idle" /\ switch["sweep"].pc = "idle"
        /\ grace => LoopRuns
        /\ copilot # None => github # None
        /\ auth = FatalError => ~grace /\ github = None /\ user = None
    BY <2>1, CalmRests
  <2>3. github = None /\ user = None
    BY <1>4 DEF SignOutDeactivates, CalmState, TokensCalm
  <2>4. /\ active' = None /\ ~signingOut'
        /\ UNCHANGED <<auth, grace, github, copilot, user, flow, loops, retries, rearm,
                       degrade, switch>>
    BY <1>4 DEF SignOutDeactivates, tokens
  <2>5. LoopRuns' <=> LoopRuns
    BY <2>4 DEF LoopRuns
  <2> QED
    BY <2>2, <2>3, <2>4, <2>5, CalmAtRest DEF AtRest
<1>5. CASE SendCompletion \/ CompletionServed \/ GraceElapses
  BY <1>5, CalmKept DEF SendCompletion, CompletionServed, GraceElapses, session, tokens,
                        registry, tasks
<1> QED
  BY <1>2, <1>3, <1>4, <1>5

LEMMA InitCalm == Init => CalmInv
<1> SUFFICES ASSUME Init, Calm PROVE CalmState
  BY DEF CalmInv
<1>1. NewLoop.live /\ NewLoop.pc = "sleep"
  BY DEF NewLoop
<1>2. NewRetry(TRUE).live /\ NewRetry(TRUE).pc = "sleep"
  BY DEF NewRetry
<1>3. /\ switch["request"].pc = "idle" /\ switch["sweep"].pc = "idle" /\ degrade = "idle"
      /\ rearm.pc = "idle" /\ \A f \in Flows : flow[f].pc = "idle"
  BY DEF Init, NoSwitch, NoRearm, NoFlow, Switchers
<1>4. ~signingOut
  BY Zenon DEF Init
<1>5. /\ \A x \in loops : x = NewLoop
      /\ \A r \in retries : r = NewRetry(TRUE)
  BY DEF Init, Session
<1>6. LoopsCalm /\ RetriesCalm
  BY <1>1, <1>2, <1>5 DEF LoopsCalm, RetriesCalm
<1>7. FlowsCalm /\ RearmCalm /\ DegradeCalm
  BY <1>3 DEF FlowsCalm, RearmCalm, DegradeCalm, Working
<1>8. TokensCalm
  <2>1. ASSUME NEW a, active = a,
               Session(SignedIn(a), a, a, a, {NewLoop}, {}, TRUE)
        PROVE  TokensCalm
    <3>1. SignedIn(a) # FatalError
      BY DEF SignedIn, FatalError
    <3> QED
      BY <1>1, <1>4, <2>1, <3>1 DEF Session, TokensCalm, LoopRuns
  <2>2. ASSUME NEW a, NEW u \in {None, a}, NEW ls, active = a,
               Session(SignedOut, a, None, u, ls, {NewRetry(TRUE)}, FALSE)
        PROVE  TokensCalm
    <3>1. SignedOut # FatalError
      BY DEF SignedOut, FatalError
    <3> QED
      BY <1>2, <1>4, <2>2, <3>1 DEF Session, TokensCalm, RetryRuns
  <2>3. ASSUME NEW a, active = a,
               Session(SignedOut, a, a, a, {NewLoop}, {NewRetry(TRUE)}, FALSE)
        PROVE  TokensCalm
    <3>1. SignedOut # FatalError
      BY DEF SignedOut, FatalError
    <3> QED
      BY <1>1, <1>4, <2>3, <3>1 DEF Session, TokensCalm, LoopRuns
  <2>4. ASSUME NEW st, Session(st, None, None, None, {}, {}, FALSE) PROVE TokensCalm
    BY <1>4, <2>4 DEF Session, TokensCalm
  <2> QED
    BY <2>1, <2>2, <2>3, <2>4 DEF Init
<1> QED
  BY <1>3, <1>6, <1>7, <1>8 DEF CalmState

LEMMA NextCalm ==
    ASSUME TInv, SweepsInDegrade, SerialInv, CalmInv, [Next]_vars PROVE CalmInv'
<1> SUFFICES ASSUME Calm' PROVE CalmState'
  BY DEF CalmInv
<1>1. Calm /\ OneInFlight /\ CalmState
  BY WorkloadStays DEF Calm, CalmInv, SerialInv
<1>2. CASE UNCHANGED vars
  BY <1>1, <1>2, CalmKept DEF vars
<1>3. \A a \in Accounts : ~SwitchRequested(a)
  BY <1>1 DEF SwitchRequested, Starts, Calm
<1> QED
  BY <1>1, <1>2, <1>3, FlowStepCalm, RefreshCalm, RetryCalm, RearmStepCalm, SwitchCalm, SignOutCalm
     DEF Next, RefreshStep, RetryStep

\* Whatever device flows, refreshes, rejections, re-arms, degrades, recovery sweeps and
\* sign-outs follow each other, a GitHub token in memory always has a live refresh
\* loop or online retry that will ask for the next bearer.
THEOREM KeepsMinting == Spec => []SomethingKeepsMinting
<1>1. TInv /\ SweepsInDegrade /\ CalmInv => SomethingKeepsMinting
  BY CalmMeans DEF SomethingKeepsMinting
<1> QED
  BY <1>1, InitTyped, NextTyped, InitSweeps, NextSweeps, InitSerial, NextSerial, InitCalm,
     NextCalm, PTL DEF Spec

-----------------------------------------------------------------------------
(* Sign-outs in the middle of an online retry, however the calls interleave *)

Wiping == workload.events \subseteq {"retry", "signOut"} /\ ~workload.autoRecover

WipeState ==
    /\ \A f \in Flows : flow[f].pc = "idle"
    /\ \A x \in loops : x.pc = "sleep"
    /\ rearm.pc = "idle" /\ ~completion
    /\ \A s \in Switchers : switch[s].pc = "idle"
    /\ copilot # None => github # None

WipeInv == Wiping => WipeState

LEMMA InitWipe == Init => WipeInv
<1> SUFFICES ASSUME Init PROVE WipeState
  BY DEF WipeInv
<1>1. ~completion
  BY Zenon DEF Init
<1>2. (\A x \in loops : x.pc = "sleep") /\ (copilot # None => github # None)
  BY NewSleeps DEF Init, Session
<1> QED
  BY <1>1, <1>2 DEF Init, WipeState, NoFlow, NoRearm, NoSwitch

LEMMA NextWipe ==
    ASSUME TInv, WipeInv, [Next]_vars PROVE WipeInv'
<1> SUFFICES ASSUME Wiping' PROVE WipeState'
  BY DEF WipeInv
<1>1. Wiping /\ WipeState
  BY WorkloadStays DEF Wiping, WipeInv
<1>2. /\ \A e \in {"start", "cancel", "expire", "completion", "rearm", "switch", "refresh",
                   "writeFails"} : e \notin workload.events
      /\ ~workload.autoRecover /\ flow \in [Flows -> FlowRecord]
  BY <1>1, Parts DEF Wiping
<1>3. ASSUME UNCHANGED <<flow, loops, rearm, completion, switch>>,
             copilot' # None => github' # None
      PROVE  WipeState'
  BY <1>1, <1>3 DEF WipeState
<1>4. ASSUME NEW f \in Flows PROVE ~FlowStep(f)
  BY <1>1, <1>2
     DEF WipeState, FlowStep, StartDeviceFlow, InstallFlow, DeviceCodeFails, FlowExpires, Approved,
         FlowFails, AbortedFlowEnds, IdentityResolved, AccountAdded, FlowMinted,
         FlowMintOffline, FlowMintFatal, FlowSignsIn, Starts, WhereWriteFails
<1>5. /\ ~CancelDeviceFlow /\ ~RefreshStep /\ ~SendCompletion /\ ~CompletionServed /\ ~SweepStep
      /\ \A a \in Accounts : ~SwitchRequested(a)
      /\ \A s \in Switchers : ~SwitchReply(s)
  BY <1>1, <1>2
     DEF WipeState, CancelDeviceFlow, RefreshStep, RefreshDue, RefreshOk, RefreshRejected,
         RefreshFatal, RefreshOffline, SendCompletion, CompletionServed, SweepStep, SweepReads,
         SweepTries, SweepGivesUp, SweepFlagFails, SwitchRequested, SwitchReply, PreflightOk, SwitchMinted,
         SwitchCommits, SwitchSignsIn, SwitchFails, WhereWriteFails, Starts, Switchers
<1>6. ~RearmStep
  BY <1>1, <1>2
     DEF WipeState, RearmStep, RearmJoins, RearmStarts, RearmWithoutToken, RearmMinted,
         RearmOffline, RearmRejected, RenewReads, Renewed, RenewalSaved, RearmFatal,
         RearmCaller, Starts
<1>7. \A g \in Flows : AbortCurrent(flow)[g].pc = flow[g].pc
  BY <1>2, AbortRests
<1>8. CASE SignOut
  <2>1. \A g \in Flows : flow'[g].pc = "idle"
    BY <1>1, <1>7, <1>8 DEF SignOut, WipeState
  <2> QED
    BY <1>1, <1>8, <2>1 DEF SignOut, ClearTokenTrio, WipeState
<1>9. CASE SignOutDeactivates \/ GraceElapses \/ UNCHANGED vars
  BY <1>1, <1>3, <1>9 DEF SignOutDeactivates, GraceElapses, WipeState, vars, tasks, tokens
<1>10. CASE DegradeFlags
  BY <1>1, <1>2, <1>3, <1>10 DEF DegradeFlags, WipeState, tokens
<1>11. ASSUME NEW r \in retries,
              \/ RetryDue(r) \/ RetryOffline(r) \/ RetryOnline(r)
              \/ RetryIdentified(r) \/ RetryUnidentified(r)
       PROVE  WipeState'
  BY <1>1, <1>3, <1>11 DEF RetryDue, RetryOffline, RetryOnline, RetryIdentified,
     RetryUnidentified, WipeState, session, tokens
<1>12. ASSUME NEW r \in retries, RetryMinted(r) PROVE WipeState'
  <2>1. Stopped(loops) = {}
    BY <1>1, RestingStops DEF WipeState
  <2>2. \A x \in loops' : x.pc = "sleep"
    BY <1>12, <2>1, NewSleeps DEF RetryMinted
  <2>3. copilot' # None => github' # None
    BY <1>12 DEF RetryMinted
  <2> QED
    BY <1>1, <1>12, <2>2, <2>3 DEF RetryMinted, WipeState
<1>13. ASSUME NEW r \in retries, RetryFatal(r) PROVE WipeState'
  <2>1. MarkAuthDegraded(flow, loops, retries \ {r})
    BY <1>13 DEF RetryFatal
  <2>2. Stopped(loops) = {}
    BY <1>1, RestingStops DEF WipeState
  <2>3. /\ \A g \in Flows : flow'[g].pc = "idle"
        /\ \A x \in loops' : x.pc = "sleep"
        /\ copilot' # None => github' # None
    BY <1>1, <1>7, <2>1, <2>2 DEF MarkAuthDegraded, ClearTokenTrio, WipeState
  <2> QED
    BY <1>1, <1>13, <2>3 DEF RetryFatal, WipeState
<1> QED
  BY <1>4, <1>5, <1>6, <1>8, <1>9, <1>10, <1>11, <1>12, <1>13 DEF Next, RetryStep

\* With one thing at a time, no requested switch and a registry that can be written
\* (Usual), once all calls have returned: the GitHub token and the user name in memory
\* are none or the active account's on disk, and the error state holds no token.  No
\* bearer is there without a GitHub token, which also holds where sign-outs interleave
\* with an online retry; whose bearer it is the theorem does not say.
THEOREM SettledAgrees == Spec => []SettledCoherent
<1>1. TInv /\ SweepsInDegrade /\ CalmInv /\ WipeInv => SettledCoherent
  <2> SUFFICES ASSUME TInv, SweepsInDegrade, CalmInv, WipeInv PROVE SettledCoherent
    OBVIOUS
  <2>1. Usual => /\ {github, user} \subseteq {None, active}
                 /\ auth = FatalError => tokens = <<None, None, None>>
                 /\ copilot # None => github # None
    BY CalmMeans
  <2>2. RetryMeetsSignOut => (copilot # None => github # None)
    BY DEF RetryMeetsSignOut, WipeInv, Wiping, WipeState
  <2> QED
    BY <2>1, <2>2 DEF SettledCoherent
<1> QED
  BY <1>1, InitTyped, NextTyped, InitSweeps, NextSweeps, InitSerial, NextSerial, InitCalm,
     NextCalm, InitWipe, NextWipe, PTL DEF Spec
=============================================================================
