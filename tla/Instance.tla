------------------------------ MODULE Instance ------------------------------
(***************************************************************************)
(* Launches of the program on one machine: port pre-flight and eviction    *)
(* (src/lib/start/port.ts, lib/platform/replace-running.ts), boot and its  *)
(* finalization (start/run-server.ts), the ways out (start/shutdown.ts,    *)
(* platform/process-cleanup.ts, routes/internal/route.ts), and what they   *)
(* share: the ports, the pidfile, the session marker                       *)
(* (start/session-sentinel.ts), Claude Code's settings and the routing     *)
(* intent (apps/claude-code).                                              *)
(*                                                                         *)
(* A launch is an operating-system process; it has a pid of its own and is *)
(* started once.  The user, the shell and the system are the environment.  *)
(***************************************************************************)
EXTENDS ClaudeSettings, Naturals, FiniteSets

CONSTANTS
  Launches,   \* processes that may be started
  Sidecars,   \* those the desktop shell spawns
  None,       \* no launch
  PortScanLimit, \* how many ports a scan tries, the requested one first
  Worlds      \* the surroundings that are checked, see World

ASSUME LaunchesAssumption == Sidecars \subseteq Launches /\ None \notin Launches
ASSUME PortScanLimitAssumption == PortScanLimit \in Nat \ {0}

\* server.portPolicy, whether another program holds port 1, which launches are
\* started, what Claude Code's fields may hold before, and two bounds: on the
\* edits and toggles of the routing, and on signals, kills, throws and loops
\* that stop.
World ==
  [policy : {"fail", "replace", "next"}, foreign : BOOLEAN, launches : SUBSET Launches,
   own : SUBSET Fields, edits : Nat, faults : Nat]

ASSUME WorldsAssumption == Worlds \subseteq World

VARIABLES
  pc,         \* where each launch is
  takeover,   \* why it evicts: --replace, or the policy
  victim,     \* the process its eviction signalled last
  port,       \* the public port it decided on and then serves, 0 if none
  drain,      \* how far initiateShutdown has got
  cleaning,   \* launches whose process-cleanup handlers run
  asked,      \* launches with a scheduled exit of POST /_internal/shutdown
  term,       \* launches with a SIGTERM to handle
  wedged,     \* launches whose event loop no longer turns
  writing,    \* launches whose pidfile write is under way
  knows,      \* the routing intent as each launch has it cached
  shellUp,    \* whether the desktop shell is alive
  world,      \* one of Worlds
  pidfile, marker, settings, intent, \* the shared files
  mine, had,  \* history: the fields as the user set them, and as the last snapshot found them
  alone, last, \* history: launches whose session met no other; how the last one ended
  edits, faults \* bounded by the world

processes == <<pc, takeover, victim, port, drain, cleaning, asked, term, wedged, writing>>
files == <<pidfile, marker, settings, intent>>
history == <<mine, had, alone, last, edits, faults>>
machine == <<shellUp, world>>
vars == <<processes, knows, files, history, machine>>

----------------------------------------------------------------------------
(* Processes and ports; port 1 is the one that is asked for.               *)

Ports == 1 .. PortScanLimit

Evicting == {"ask", "release", "pidfile", "escalate", "listener", "finish", "check"}
Booting  == {"merge", "resolve", "recheck", "boot", "bind"} \cup Evicting
Up       == {p \in Launches : pc[p] = "up"}
Ends     == {"gone", "killed"}
Alive    == {p \in Launches : pc[p] \notin {"off"} \cup Ends}
Turns(p) == p \notin wedged

\* Who listens on a port: launches bind as they come up.
Listeners(n) == {p \in Up : port[p] = n}
Held(n) == Listeners(n) # {} \/ (world.foreign /\ n = 1)

\* resolvePort's probe: a launch answers "Server running" while its loop turns.
AnswersAsMaximal(n) == \E q \in Listeners(n) : Turns(q)

Init ==
  /\ pc = [p \in Launches |-> "off"]
  /\ takeover = [p \in Launches |-> "no"]
  /\ victim = [p \in Launches |-> None]
  /\ port = [p \in Launches |-> 0]
  /\ drain = [p \in Launches |-> "no"]
  /\ cleaning = {} /\ asked = {} /\ term = {} /\ wedged = {} /\ writing = {}
  /\ knows = {}
  /\ shellUp = TRUE
  /\ world \in Worlds
  /\ pidfile = None /\ marker = FALSE
  /\ intent \in BOOLEAN /\ (world.edits = 0 => intent)
  /\ mine \in world.own
  /\ had = mine
  /\ settings \in {[url |-> mine.url, helper |-> mine.helper, prior |-> NoPrior]}
       \* routed by a version that took no snapshot
       \cup {s \in {[url |-> Ours, helper |-> Ours, prior |-> NoPrior]} : intent /\ mine = Unset}
  /\ alone = {} /\ last = "none" /\ edits = 0 /\ faults = 0

\* `maximal start`, with or without --replace.
Start(p) ==
  /\ pc[p] = "off" /\ p \in world.launches
  /\ p \in Sidecars => shellUp
  /\ \/ pc' = [pc EXCEPT ![p] = "merge"] /\ UNCHANGED takeover
     \/ pc' = [pc EXCEPT ![p] = "ask"] /\ takeover' = [takeover EXCEPT ![p] = "flag"]
  /\ UNCHANGED <<victim, port, drain, cleaning, asked, term, wedged, writing, knows,
                 files, history, machine>>

----------------------------------------------------------------------------
(* Leaving.                                                                *)

\* What every end of a process does to the operating system's view of it:
\* `how` is "gone" for an exit and "killed" for SIGKILL.
Vanish(p, how) ==
  /\ pc' = [pc EXCEPT ![p] = how]
  /\ port' = [port EXCEPT ![p] = 0]
  /\ drain' = [drain EXCEPT ![p] = "no"]
  /\ victim' = [victim EXCEPT ![p] = None]
  /\ takeover' = [takeover EXCEPT ![p] = "no"]
  /\ cleaning' = cleaning \ {p} /\ asked' = asked \ {p} /\ term' = term \ {p}
  /\ wedged' = wedged \ {p} /\ writing' = writing \ {p}
  /\ knows' = knows \ {p}
  /\ alone' = alone \ {p}
  /\ last' = IF pc[p] # "up" THEN last ELSE IF p \in alone THEN how ELSE "overlapped"

\* reconcileClaudeCodeOnShutdown, gated on the intent the process has cached.
Reverted(p) == IF p \in knows THEN RevertProxyBaseUrl(settings) ELSE settings

\* The `exit` listener, installed when the launch came up.
SettingsOnExit(p) == IF pc[p] = "up" THEN Reverted(p) ELSE settings

\* Bugs (mutations): the session marker is dropped by the drain alone; the
\* `exit` listener is installed before the ports are bound.
MarkerByDrainOnly(p)  == IF pc[p] = "up" /\ drain[p] = "clearing" THEN FALSE ELSE marker
MarkerByAnyLaunch(p)  == FALSE

\* The `exit` listener of a launch that came up drops the session marker.
MarkerOnExit(p) == IF pc[p] = "up" THEN FALSE ELSE marker

\* process.exit from anywhere, and an uncaught exception.
Exit(p) ==
  /\ Vanish(p, "gone")
  /\ settings' = SettingsOnExit(p)
  /\ marker' = MarkerOnExit(p)

ExitOnly(p) == Exit(p) /\ UNCHANGED <<pidfile, intent, mine, had, edits, faults, machine>>

\* SIGKILL: by an evicting launch, the user or the system.
Killed(q) ==
  /\ Vanish(q, "killed")
  /\ UNCHANGED <<files, mine, had, edits, machine>>

----------------------------------------------------------------------------
(* evictRunning.                                                           *)

Goto(p, step) ==
  /\ pc' = [pc EXCEPT ![p] = step]
  /\ UNCHANGED <<takeover, port, drain, cleaning, wedged, writing, knows, files, history, machine>>

\* The --replace flag goes on to the boot, the policy re-checks the port.
Evicted(p) ==
  /\ Goto(p, IF takeover[p] = "flag" THEN "merge" ELSE "recheck")
  /\ UNCHANGED <<victim, asked, term>>

\* requestShutdown: a launch that serves schedules its exit; another program
\* may answer or not.  With nobody there and the port free, it is done.
AskShutdown(p) ==
  /\ pc[p] = "ask"
  /\ \/ ~Held(1) /\ Evicted(p)
     \/ \E q \in Listeners(1) :
          /\ Turns(q)
          /\ Goto(p, "release")
          /\ asked' = asked \cup {q}
          /\ UNCHANGED <<victim, term>>
     \/ /\ Held(1) /\ ~AnswersAsMaximal(1)
        /\ \/ Goto(p, "pidfile")
           \/ world.foreign /\ Goto(p, "release")
        /\ UNCHANGED <<victim, asked, term>>

\* The bug of a wait without a deadline (a mutation).
WaitForever(p) == pc[p] = "release" /\ ~Held(1) /\ Evicted(p)

WaitForPortRelease(p) ==
  /\ pc[p] = "release"
  /\ \/ ~Held(1) /\ Evicted(p)
     \/ Goto(p, "pidfile") /\ UNCHANGED <<victim, asked, term>>   \* the deadline

\* killEscalate, first half: SIGTERM, unless the process is no more.
SigTerm(p, q, after) ==
  IF q \in Alive
  THEN /\ term' = term \cup {q}
       /\ victim' = [victim EXCEPT ![p] = q]
       /\ Goto(p, after[1])
       /\ UNCHANGED asked
  ELSE /\ victim' = [victim EXCEPT ![p] = q]
       /\ Goto(p, after[2])
       /\ UNCHANGED <<asked, term>>

\* Second half, killEscalationMs later: SIGKILL what is still alive.
SigKillSurvivor(p, step, after) ==
  /\ pc[p] = step
  /\ IF victim[p] \in Alive
     THEN Killed(victim[p]) /\ UNCHANGED faults
     ELSE /\ Goto(p, after) /\ UNCHANGED <<victim, asked, term>>

TerminatePidfile(p) ==
  /\ pc[p] = "pidfile"
  /\ IF pidfile = None
     THEN Goto(p, "listener") /\ UNCHANGED <<victim, asked, term>>
     ELSE SigTerm(p, pidfile, <<"escalate", "listener">>)

KillPidfile(p) == SigKillSurvivor(p, "escalate", "listener")

\* listenerPid: lsof, where there is one, names the launch that listens.
TerminateListener(p) ==
  /\ pc[p] = "listener"
  /\ \/ Goto(p, "check") /\ UNCHANGED <<victim, asked, term>>
     \/ \E q \in Listeners(1) \ {victim[p]} : SigTerm(p, q, <<"finish", "check">>)

KillListener(p) == SigKillSurvivor(p, "finish", "check")

\* The last probe: give up, with the exit of maybeEvictRunning, or go on.
CheckFreed(p) ==
  /\ pc[p] = "check"
  /\ IF Held(1) THEN ExitOnly(p) ELSE Evicted(p)

Evict(p) ==
  \/ AskShutdown(p) \/ WaitForPortRelease(p) \/ TerminatePidfile(p) \/ KillPidfile(p)
  \/ TerminateListener(p) \/ KillListener(p) \/ CheckFreed(p)

----------------------------------------------------------------------------
(* resolvePort, and the boot.                                              *)

\* mergeConfigWithDefaults: the intent is read once.
MergeConfig(p) ==
  /\ pc[p] = "merge"
  /\ knows' = IF intent THEN knows \cup {p} ELSE knows
  /\ pc' = [pc EXCEPT ![p] = "resolve"]
  /\ UNCHANGED <<takeover, victim, port, drain, cleaning, asked, term, wedged, writing,
                 files, history, machine>>

Decide(p, n) ==
  /\ pc' = [pc EXCEPT ![p] = "boot"]
  /\ port' = [port EXCEPT ![p] = n]
  /\ UNCHANGED <<takeover, victim, drain, cleaning, asked, term, wedged, writing, knows,
                 files, history, machine>>

EvictByPolicy(p) ==
  /\ pc' = [pc EXCEPT ![p] = "ask"]
  /\ takeover' = [takeover EXCEPT ![p] = "policy"]
  /\ UNCHANGED <<victim, port, drain, cleaning, asked, term, wedged, writing, knows,
                 files, history, machine>>

\* The probe, the bind test and the policy.
ResolvePort(p) ==
  /\ pc[p] = "resolve"
  /\ IF ~Held(1) THEN Decide(p, 1)
     ELSE CASE world.policy = "fail"    -> ExitOnly(p)
            [] world.policy = "replace" -> IF AnswersAsMaximal(1) THEN EvictByPolicy(p) ELSE ExitOnly(p)
            [] world.policy = "next"    ->
                 LET free == {n \in Ports : ~Held(n)}
                 IN  IF free = {} THEN ExitOnly(p)
                     ELSE Decide(p, CHOOSE n \in free : \A k \in free : n <= k)

RecheckPort(p) ==
  /\ pc[p] = "recheck"
  /\ IF Held(1) THEN ExitOnly(p) ELSE Decide(p, 1)

\* The seconds of the upstream bootstrap.
Bootstrap(p) ==
  /\ pc[p] = "boot"
  /\ Goto(p, "bind") /\ UNCHANGED <<victim, asked, term>>

\* What routing leaves behind when it is applied.
Applied ==
  /\ settings' = ApplyProxyBaseUrl(settings)
  /\ had' = IF ApplyWrites(settings) /\ settings.prior = NoPrior THEN FieldsOf(settings) ELSE had

\* bindListeners, where a port that was taken meanwhile ends the boot, and
\* finalizeBoot, which runs with it to its end.
BindAndFinalize(p) ==
  /\ pc[p] = "bind"
  /\ IF Held(port[p]) THEN ExitOnly(p)
     ELSE /\ pc' = [pc EXCEPT ![p] = "up"]
          /\ writing' = writing \cup {p}
          /\ IF p \in knows THEN Applied ELSE UNCHANGED <<settings, had>>
          /\ marker' = TRUE
          /\ alone' = IF Up = {} THEN {p} ELSE {}
          /\ UNCHANGED <<takeover, victim, port, drain, cleaning, asked, term, wedged, knows,
                         pidfile, intent, mine, last, edits, faults, machine>>

\* The pidfile write nobody waits for.
WritePidfile(p) ==
  /\ p \in writing
  /\ writing' = writing \ {p}
  /\ pidfile' = p
  /\ UNCHANGED <<pc, takeover, victim, port, drain, cleaning, asked, term, wedged, knows,
                 marker, settings, intent, history, machine>>

Boot(p) ==
  \/ MergeConfig(p) \/ ResolvePort(p) \/ RecheckPort(p) \/ Bootstrap(p)
  \/ BindAndFinalize(p) \/ WritePidfile(p)

----------------------------------------------------------------------------
(* The ways out.                                                           *)

\* initiateShutdown up to its first await: once, and the settings first.
StartsDrain(p) ==
  /\ drain' = IF drain[p] = "no" THEN [drain EXCEPT ![p] = "closing"] ELSE drain
  /\ settings' = IF drain[p] = "no" THEN Reverted(p) ELSE settings

\* SIGTERM: while booting only the process-cleanup handler is there, later
\* both it and initiateShutdown run.
HandleSigTerm(p) ==
  /\ p \in term /\ Turns(p)
  /\ \/ pc[p] # "up" /\ ExitOnly(p)
     \/ /\ pc[p] = "up"
        /\ term' = term \ {p}
        /\ cleaning' = cleaning \cup {p}
        /\ StartsDrain(p)
        /\ UNCHANGED <<pc, takeover, victim, port, asked, wedged, writing, knows, pidfile,
                       marker, intent, history, machine>>

\* shutdownProcess, once the cleanup handlers are through.
CleanupExits(p) == p \in cleaning /\ Turns(p) /\ ExitOnly(p)

\* The parent-death watchdog of a launch the shell spawned.
NoticeParentGone(p) ==
  /\ pc[p] = "up" /\ p \in Sidecars /\ Turns(p) /\ ~shellUp /\ drain[p] = "no"
  /\ StartsDrain(p)
  /\ UNCHANGED <<pc, takeover, victim, port, cleaning, asked, term, wedged, writing, knows,
                 pidfile, marker, intent, history, machine>>

\* The steps of initiateShutdown after its first await; close may hang.
CloseServers(p) ==
  /\ drain[p] = "closing" /\ Turns(p)
  /\ drain' = [drain EXCEPT ![p] = "unlinking"]
  /\ port' = [port EXCEPT ![p] = 0]
  /\ UNCHANGED <<pc, takeover, victim, cleaning, asked, term, wedged, writing, knows, files,
                 history, machine>>

RemovePidfile(p) ==
  /\ drain[p] = "unlinking" /\ Turns(p)
  /\ drain' = [drain EXCEPT ![p] = "clearing"]
  /\ pidfile' = None
  /\ UNCHANGED <<pc, takeover, victim, port, cleaning, asked, term, wedged, writing, knows,
                 marker, settings, intent, history, machine>>

DrainExits(p) == drain[p] = "clearing" /\ Turns(p) /\ ExitOnly(p)

\* The bug of a drain no timer watches (a mutation).
Unwatched(p) == drain[p] = "clearing" /\ Turns(p) /\ ExitOnly(p)

WatchdogExits(p) == drain[p] # "no" /\ Turns(p) /\ ExitOnly(p)

\* The exit POST /_internal/shutdown scheduled.
AskedExit(p) == p \in asked /\ Turns(p) /\ ExitOnly(p)

Stop(p) ==
  \/ HandleSigTerm(p) \/ CleanupExits(p) \/ NoticeParentGone(p)
  \/ DrainExits(p) \/ WatchdogExits(p) \/ AskedExit(p)

Leave(p) == CloseServers(p) \/ RemovePidfile(p) \/ Stop(p)

----------------------------------------------------------------------------
(* The environment.                                                        *)

Fault == faults < world.faults /\ faults' = faults + 1

Signal(p) ==
  /\ Fault
  /\ p \in Alive \ term
  /\ term' = term \cup {p}
  /\ UNCHANGED <<pc, takeover, victim, port, drain, cleaning, asked, wedged, writing, knows,
                 files, mine, had, alone, last, edits, machine>>

Kill(p) == Fault /\ p \in Up /\ Killed(p)

\* An uncaught exception still passes the `exit` listener.
Throw(p) ==
  /\ Fault
  /\ p \in Up /\ Turns(p)
  /\ Exit(p)
  /\ UNCHANGED <<pidfile, intent, mine, had, edits, machine>>

Wedge(p) ==
  /\ Fault
  /\ p \in Up /\ Turns(p)
  /\ wedged' = wedged \cup {p}
  /\ UNCHANGED <<pc, takeover, victim, port, drain, cleaning, asked, term, writing, knows,
                 files, mine, had, alone, last, edits, machine>>

\* Where the shell spawns nothing it is left out.
ShellDies ==
  /\ shellUp /\ Sidecars \cap world.launches # {}
  /\ shellUp' = FALSE
  /\ UNCHANGED <<processes, knows, files, history, world>>

\* The user edits a field, possibly to what this program would write.
EditSettings ==
  /\ edits < world.edits
  /\ edits' = edits + 1
  /\ \/ \E v \in UrlValues :
          settings' = [settings EXCEPT !.url = v] /\ mine' = [mine EXCEPT !.url = v]
     \/ \E v \in HelperValues :
          settings' = [settings EXCEPT !.helper = v] /\ mine' = [mine EXCEPT !.helper = v]
  /\ UNCHANGED <<processes, knows, pidfile, marker, intent, had, alone, last, faults, machine>>

\* The program is moved or updated to another path between two launches: a
\* helper at its path is from then on one at an older path.
Moved(f) == [f EXCEPT !.helper = IF @ = Ours THEN Stale ELSE @]

MoveProgram ==
  /\ edits < world.edits
  /\ Alive = {} /\ settings.helper = Ours
  /\ edits' = edits + 1
  /\ settings' = [Moved(settings) EXCEPT !.prior = Moved(@)]
  /\ mine' = Moved(mine) /\ had' = Moved(had)
  /\ UNCHANGED <<processes, knows, pidfile, marker, intent, alone, last, faults, machine>>

\* `maximal app claude-code --enable` or --disable (nobody), or the toggle
\* of a launch's Settings.
ToggleRouting(actor, on) ==
  /\ edits < world.edits
  /\ edits' = edits + 1
  /\ intent' = on
  /\ IF on THEN Applied ELSE settings' = RevertProxyBaseUrl(settings) /\ had' = had
  /\ knows' = IF on THEN knows \cup ({actor} \ {None}) ELSE knows \ {actor}
  /\ UNCHANGED <<processes, pidfile, marker, mine, alone, last, faults, machine>>

Environment ==
  \/ \E p \in Launches : Start(p) \/ Signal(p) \/ Kill(p) \/ Throw(p) \/ Wedge(p)
  \/ ShellDies \/ EditSettings \/ MoveProgram
  \/ \E actor \in {None} \cup {p \in Up : Turns(p)}, on \in BOOLEAN : ToggleRouting(actor, on)

Next == (\E p \in Launches : Evict(p) \/ Boot(p) \/ Leave(p)) \/ Environment

\* A process whose loop turns goes on, but a listener need not close.
Fairness == \A p \in Launches : WF_vars(Evict(p) \/ Boot(p) \/ Stop(p))

Spec == Init /\ [][Next]_vars /\ Fairness

----------------------------------------------------------------------------
(* Properties.                                                             *)

\* The types of the variables; what only a living process has goes with it.
TypeOK ==
  /\ pc \in [Launches -> {"off", "up"} \cup Booting \cup Ends]
  /\ takeover \in [Launches -> {"no", "flag", "policy"}]
  /\ victim \in [Launches -> Launches \cup {None}]
  /\ port \in [Launches -> Ports \cup {0}]
  /\ drain \in [Launches -> {"no", "closing", "unlinking", "clearing"}]
  /\ cleaning \cup asked \cup wedged \cup writing \cup alone \subseteq Up
  /\ term \cup knows \subseteq Alive
  /\ shellUp \in BOOLEAN /\ world \in Worlds
  /\ pidfile \in Launches \cup {None} /\ marker \in BOOLEAN /\ intent \in BOOLEAN
  /\ settings \in Settings /\ mine \in Fields /\ had \in Fields
  /\ last \in {"none", "gone", "killed", "overlapped"} /\ edits \in 0 .. world.edits /\ faults \in 0 .. world.faults

\* What the next boot says of the previous session is true: with nobody up,
\* the marker is there exactly when the last session was killed, however it
\* was signalled, evicted or drained and whatever failed boots came between.
\* Sessions that overlapped share the marker and are left out
\* (session-sentinel.ts:20-30, run-server.ts:181-199).
MarkerTellsTheLastEnd ==
  Up = {} /\ last # "overlapped" => (marker <=> last = "killed")

\* A session that met no other keeps its traces while it serves: the marker,
\* its pid in the pidfile (once written), and no failed boot, eviction or late
\* exit of another launch takes them (run-server.ts:346-396,
\* replace-running.ts:299-317).
LoneSessionKeepsItsTraces ==
  \A p \in alone :
    /\ marker
    /\ drain[p] \in {"no", "closing", "unlinking"} /\ p \notin writing => pidfile = p

\* Every exit but SIGKILL of a launch that routes Claude Code gives the user's
\* settings back: each field holds what the user last set, or what it held
\* when the snapshot was taken, through crashes, self-heals, moves of the
\* program and an exit that overtakes a drain (shutdown.ts:9-17,
\* apps/claude-code/config.ts:30-35).  Only where one of the two cannot be told
\* from what this program writes may the field be gone instead.
GivenBack(value, own, ours) == value \in own \/ (value = Absent /\ own \cap ours # {})

FieldsGivenBack(s) ==
  /\ GivenBack(s.url, {mine.url, had.url}, {Ours})
  /\ GivenBack(s.helper, {mine.helper, had.helper}, {Ours, Stale})

ExitGivesSettingsBack ==
  [][\A p \in knows : pc[p] = "up" /\ pc'[p] = "gone" => FieldsGivenBack(settings')]_vars

\* What the drain has given back the exit listener leaves there, a value equal
\* to ours too (shutdown.ts:90-92 "The reverter is idempotent ..., so it's safe
\* even when initiateShutdown ALSO runs first", config.ts:31-35).
OwnFields(s) ==
  s.url \in {mine.url, had.url} /\ s.helper \in {mine.helper, had.helper}

ExitSparesTheRestored ==
  [][\A p \in knows :
       drain[p] # "no" /\ pc'[p] = "gone" /\ OwnFields(settings) => OwnFields(settings')]_vars

\* A launch that serves and is told to stop, by a signal, an eviction or the
\* shell's death, ends, even when a listener never closes
\* (shutdown.ts:34-81,125-137, routes/internal/route.ts:61-65).
AsksToStop(p) == p \in asked \cup term \/ (p \in Sidecars /\ ~shellUp)

ShutdownEnds ==
  \A p \in Launches :
    (pc[p] = "up" /\ AsksToStop(p)) ~> (pc[p] \in Ends \/ p \in wedged)

\* A started launch comes up or gives up: no eviction waits forever for a
\* holder that is foreign, wedged or about to leave (replace-running.ts:220-267).
EveryLaunchSettles ==
  \A p \in Launches : (pc[p] \in Booting) ~> (pc[p] \in {"up"} \cup Ends)
=============================================================================
