--------------------------- MODULE InstanceProofs ---------------------------
(***************************************************************************)
(* Theorems about Instance, for any number of launches, any set of worlds  *)
(* and any width of the port scan.                                         *)
(***************************************************************************)
EXTENDS Instance, TLAPS, WellFoundedInduction

-----------------------------------------------------------------------------
(* The edits of Claude Code's settings *)

LEMMA SettingsTyped ==
    ASSUME NEW s \in Settings
    PROVE  /\ ApplyProxyBaseUrl(s) \in Settings
           /\ RevertProxyBaseUrl(s) \in Settings
           /\ FieldsOf(s) \in Fields
<1>1. FieldsOf(s) \in Fields
  BY DEF FieldsOf, Settings, Fields
<1>2. ApplyProxyBaseUrl(s) \in Settings
  BY <1>1 DEF ApplyProxyBaseUrl, MergeBaseUrl, PriorOnMerge, Settings, UrlValues,
              HelperValues
<1>3. NoPrior \notin Fields
  BY DEF NoPrior, Fields, UrlValues, Absent, Ours, Theirs
<1>4. RevertProxyBaseUrl(s) \in Settings
  BY <1>3 DEF RevertProxyBaseUrl, StripBaseUrl, Settings, Fields, UrlValues, HelperValues
<1> QED
  BY <1>1, <1>2, <1>4

LEMMA WorldTyped ==
    TypeOK => world.edits \in Nat /\ world.faults \in Nat
  BY WorldsAssumption DEF TypeOK, World

-----------------------------------------------------------------------------
(* Types *)

LEMMA InitTyped == Init => TypeOK
<1> SUFFICES ASSUME Init PROVE TypeOK
  OBVIOUS
<1>1. world \in Worlds /\ world.edits \in Nat /\ world.faults \in Nat
  BY WorldsAssumption DEF Init, World
<1>2. mine \in Fields /\ had \in Fields /\ settings \in Settings
  <2>1. mine \in Fields /\ had = mine
    BY WorldsAssumption DEF Init, World
  <2> QED
    BY <2>1 DEF Init, Fields, Settings, UrlValues, HelperValues
<1>3. /\ pc \in [Launches -> {"off", "up"} \cup Booting \cup Ends]
      /\ takeover \in [Launches -> {"no", "flag", "policy"}]
      /\ victim \in [Launches -> Launches \cup {None}]
      /\ port \in [Launches -> Ports \cup {0}]
      /\ drain \in [Launches -> {"no", "closing", "unlinking", "clearing"}]
  BY DEF Init
<1>4. /\ cleaning \cup asked \cup wedged \cup writing \cup alone \subseteq Up
      /\ term \cup knows \subseteq Alive
  BY DEF Init
<1>5. /\ shellUp \in BOOLEAN /\ pidfile \in Launches \cup {None} /\ marker \in BOOLEAN
      /\ intent \in BOOLEAN /\ last \in {"none", "gone", "killed", "overlapped"}
      /\ edits \in 0 .. world.edits /\ faults \in 0 .. world.faults
  <2>1. /\ shellUp = TRUE /\ pidfile = None /\ marker = FALSE /\ intent \in BOOLEAN
        /\ last = "none" /\ edits = 0 /\ faults = 0
    BY Zenon DEF Init
  <2>2. edits \in 0 .. world.edits /\ faults \in 0 .. world.faults
    BY <1>1, <2>1
  <2> QED
    BY <2>1, <2>2, Zenon
<1> QED
  BY <1>1, <1>2, <1>3, <1>4, <1>5 DEF TypeOK

\* A process that ends, whatever it does to the settings and the marker.
LEMMA VanishTyped ==
    ASSUME TypeOK, NEW p \in Launches, NEW how \in Ends, Vanish(p, how),
           settings' \in Settings, marker' \in BOOLEAN,
           UNCHANGED <<pidfile, intent, mine, had, edits, machine>>,
           faults' \in 0 .. world.faults
    PROVE  TypeOK'
<1>1. pc' = [pc EXCEPT ![p] = how] /\ how \in {"gone", "killed"}
  BY DEF Vanish, Ends
<1>2. /\ pc' \in [Launches -> {"off", "up"} \cup Booting \cup Ends]
      /\ \A q \in Launches \ {p} : pc'[q] = pc[q]
  BY <1>1 DEF TypeOK
<1>3. /\ takeover' \in [Launches -> {"no", "flag", "policy"}]
      /\ victim' \in [Launches -> Launches \cup {None}]
      /\ port' \in [Launches -> Ports \cup {0}]
      /\ drain' \in [Launches -> {"no", "closing", "unlinking", "clearing"}]
  BY DEF TypeOK, Vanish
<1>4. /\ (cleaning \cup asked \cup wedged \cup writing \cup alone)' \subseteq Up'
      /\ (term \cup knows)' \subseteq Alive'
  BY <1>2 DEF TypeOK, Vanish, Up, Alive
<1>5. last' \in {"none", "gone", "killed", "overlapped"}
  BY <1>1 DEF TypeOK, Vanish, Ends
<1> QED
  BY <1>2, <1>3, <1>4, <1>5 DEF TypeOK, machine

LEMMA ExitTyped ==
    ASSUME TypeOK, NEW p \in Launches, Exit(p),
           UNCHANGED <<pidfile, intent, mine, had, edits, machine>>,
           faults' \in 0 .. world.faults
    PROVE  TypeOK'
<1>1. settings' \in Settings /\ marker' \in BOOLEAN
  BY SettingsTyped DEF Exit, SettingsOnExit, MarkerOnExit, Reverted, TypeOK
<1> QED
  BY <1>1, VanishTyped DEF Exit, Ends

LEMMA ExitOnlyTyped ==
    ASSUME TypeOK, NEW p \in Launches, ExitOnly(p) PROVE TypeOK'
  BY ExitTyped DEF ExitOnly, TypeOK

LEMMA KilledTyped ==
    ASSUME TypeOK, NEW p \in Launches, Killed(p), faults' \in 0 .. world.faults
    PROVE  TypeOK'
  BY VanishTyped DEF Killed, TypeOK, files, Ends

\* A launch that is still booting goes on to another step of the boot.
LEMMA GotoTyped ==
    ASSUME TypeOK, NEW p \in Launches, pc[p] \in Booting, NEW step \in Booting,
           Goto(p, step),
           victim' \in [Launches -> Launches \cup {None}],
           asked' \subseteq Up, term' \subseteq Alive
    PROVE  TypeOK'
<1>1. /\ pc' \in [Launches -> {"off", "up"} \cup Booting \cup Ends]
      /\ \A q \in Launches : pc'[q] = IF q = p THEN step ELSE pc[q]
  BY DEF Goto, TypeOK
<1>2. Up' = Up /\ Alive' = Alive
  BY <1>1 DEF Up, Alive, Booting, Evicting, Ends
<1> QED
  BY <1>1, <1>2 DEF TypeOK, Goto, files, history, machine

-----------------------------------------------------------------------------
LEMMA EvictTyped ==
    ASSUME TypeOK, NEW p \in Launches, Evict(p) PROVE TypeOK'
<1>0. /\ asked \subseteq Up /\ term \subseteq Alive /\ Up \subseteq Launches
      /\ Alive \subseteq Launches
      /\ victim \in [Launches -> Launches \cup {None}]
  BY DEF TypeOK, Up, Alive
<1>1. {"ask", "release", "pidfile", "escalate", "listener", "finish", "check",
       "merge", "recheck"} \subseteq Booting
  BY DEF Booting, Evicting
<1>2. ASSUME pc[p] \in Booting, Evicted(p) PROVE TypeOK'
  BY <1>0, <1>1, <1>2, GotoTyped DEF Evicted
<1>3. ASSUME NEW q \in Launches, NEW a \in Booting, NEW b \in Booting,
             pc[p] \in Booting, SigTerm(p, q, <<a, b>>)
      PROVE  TypeOK'
  <2>1. victim' = [victim EXCEPT ![p] = q] /\ asked' = asked /\ term' \subseteq Alive
    BY <1>0, <1>3 DEF SigTerm
  <2>2. Goto(p, a) \/ Goto(p, b)
    BY <1>3 DEF SigTerm
  <2> QED
    BY <1>0, <1>3, <2>1, <2>2, GotoTyped
<1>4. ASSUME NEW step \in Booting, NEW after \in Booting, SigKillSurvivor(p, step, after)
      PROVE  TypeOK'
  <2>1. CASE victim[p] \in Alive
    <3>1. Killed(victim[p]) /\ faults' = faults
      BY <1>4, <2>1 DEF SigKillSurvivor
    <3> QED
      BY <1>0, <2>1, <3>1, KilledTyped DEF TypeOK
  <2>2. CASE victim[p] \notin Alive
    BY <1>0, <1>4, <2>2, GotoTyped DEF SigKillSurvivor
  <2> QED
    BY <2>1, <2>2
<1>5. CASE AskShutdown(p)
  <2>1. pc[p] \in Booting
    BY <1>1, <1>5 DEF AskShutdown
  <2>2. ASSUME NEW q \in Listeners(1), Goto(p, "release"), asked' = asked \cup {q},
               UNCHANGED <<victim, term>>
        PROVE  TypeOK'
    <3>1. asked' \subseteq Up
      BY <1>0, <2>2 DEF Listeners
    <3> QED
      BY <1>0, <1>1, <2>1, <2>2, <3>1, GotoTyped
  <2>3. ASSUME Goto(p, "pidfile") \/ Goto(p, "release"), UNCHANGED <<victim, asked, term>>
        PROVE  TypeOK'
    BY <1>0, <1>1, <2>1, <2>3, GotoTyped
  <2> QED
    BY <1>2, <1>5, <2>1, <2>2, <2>3 DEF AskShutdown
<1>6. CASE WaitForPortRelease(p)
  BY <1>0, <1>1, <1>2, <1>6, GotoTyped DEF WaitForPortRelease
<1>7. CASE TerminatePidfile(p)
  <2>1. CASE pidfile = None
    BY <1>0, <1>1, <1>7, <2>1, GotoTyped DEF TerminatePidfile
  <2>2. CASE pidfile # None
    <3>1. pidfile \in Launches
      BY <2>2 DEF TypeOK
    <3> QED
      BY <1>1, <1>3, <1>7, <2>2, <3>1 DEF TerminatePidfile
  <2> QED
    BY <2>1, <2>2
<1>8. CASE KillPidfile(p)
  BY <1>1, <1>4, <1>8 DEF KillPidfile
<1>9. CASE TerminateListener(p)
  <2>1. Listeners(1) \subseteq Launches
    BY <1>0 DEF Listeners
  <2> QED
    BY <1>0, <1>1, <1>3, <1>9, <2>1, GotoTyped DEF TerminateListener
<1>10. CASE KillListener(p)
  BY <1>1, <1>4, <1>10 DEF KillListener
<1>11. CASE CheckFreed(p)
  BY <1>1, <1>2, <1>11, ExitOnlyTyped DEF CheckFreed
<1> QED
  BY <1>5, <1>6, <1>7, <1>8, <1>9, <1>10, <1>11 DEF Evict

LEMMA LowestExists ==
    ASSUME NEW S \in SUBSET Nat, S # {}
    PROVE  \E n \in S : \A k \in S : n <= k
<1>1. IsWellFoundedOn(OpToRel(<, Nat), Nat)
  BY NatLessThanWellFounded
<1>2. PICK n \in S : \A k \in S : ~ (<<k, n>> \in OpToRel(<, Nat))
  BY <1>1, WFMin
<1>3. \A k \in S : ~ (k < n)
  BY <1>2 DEF OpToRel
<1> QED
  BY <1>3

LEMMA BootTyped ==
    ASSUME TypeOK, NEW p \in Launches, Boot(p) PROVE TypeOK'
<1>0. /\ asked \subseteq Up /\ term \subseteq Alive
      /\ victim \in [Launches -> Launches \cup {None}]
  BY DEF TypeOK
<1>1. ASSUME NEW step \in Booting, pc[p] \in Booting, pc' = [pc EXCEPT ![p] = step]
      PROVE  /\ pc' \in [Launches -> {"off", "up"} \cup Booting \cup Ends]
             /\ Up' = Up /\ Alive' = Alive /\ p \in Alive
  <2>1. \A q \in Launches : pc'[q] = IF q = p THEN step ELSE pc[q]
    BY <1>1 DEF TypeOK
  <2> QED
    BY <1>1, <2>1 DEF TypeOK, Up, Alive, Booting, Evicting, Ends
<1>2. {"merge", "resolve", "recheck", "boot", "bind", "ask"} \subseteq Booting
  BY DEF Booting, Evicting
<1>3. CASE MergeConfig(p)
  <2>1. /\ pc' \in [Launches -> {"off", "up"} \cup Booting \cup Ends]
        /\ Up' = Up /\ Alive' = Alive /\ p \in Alive
    BY <1>1, <1>2, <1>3 DEF MergeConfig
  <2> QED
    BY <1>3, <2>1 DEF MergeConfig, TypeOK, files, history, machine
<1>4. ASSUME NEW n \in Ports, pc[p] \in Booting, Decide(p, n) PROVE TypeOK'
  <2>1. /\ pc' \in [Launches -> {"off", "up"} \cup Booting \cup Ends]
        /\ Up' = Up /\ Alive' = Alive
    BY <1>1, <1>2, <1>4 DEF Decide
  <2> QED
    BY <1>4, <2>1 DEF Decide, TypeOK, files, history, machine
<1>5. ASSUME pc[p] \in Booting, EvictByPolicy(p) PROVE TypeOK'
  <2>1. /\ pc' \in [Launches -> {"off", "up"} \cup Booting \cup Ends]
        /\ Up' = Up /\ Alive' = Alive
    BY <1>1, <1>2, <1>5 DEF EvictByPolicy
  <2> QED
    BY <1>5, <2>1 DEF EvictByPolicy, TypeOK, files, history, machine
<1>6. 1 \in Ports
  BY PortScanLimitAssumption DEF Ports
<1>7. CASE ResolvePort(p)
  <2>1. pc[p] \in Booting
    BY <1>2, <1>7 DEF ResolvePort
  <2> DEFINE free == {n \in Ports : ~Held(n)}
             lowest == CHOOSE n \in free : \A k \in free : n <= k
  <2>2. world.policy \in {"fail", "replace", "next"}
    BY WorldsAssumption DEF TypeOK, World
  <2>3. \/ Decide(p, 1) \/ ExitOnly(p) \/ EvictByPolicy(p)
        \/ free # {} /\ Decide(p, lowest)
    BY <1>7, <2>2 DEF ResolvePort
  <2>4. free # {} => lowest \in Ports
    <3>1. free \in SUBSET Nat /\ free \subseteq Ports
      BY DEF Ports
    <3> HIDE DEF free
    <3>2. free # {} => \E n \in free : \A k \in free : n <= k
      BY <3>1, LowestExists
    <3> QED
      BY <3>1, <3>2
  <2> HIDE DEF lowest
  <2> QED
    BY <1>4, <1>5, <1>6, <2>1, <2>3, <2>4, ExitOnlyTyped
<1>8. CASE RecheckPort(p)
  <2>1. pc[p] \in Booting
    BY <1>2, <1>8 DEF RecheckPort
  <2> QED
    BY <1>4, <1>6, <1>8, <2>1, ExitOnlyTyped DEF RecheckPort
<1>9. CASE Bootstrap(p)
  <2>1. pc[p] \in Booting /\ Goto(p, "bind") /\ UNCHANGED <<victim, asked, term>>
    BY <1>2, <1>9 DEF Bootstrap
  <2> QED
    BY <1>0, <1>2, <2>1, GotoTyped
<1>10. CASE BindAndFinalize(p)
  <2>1. CASE Held(port[p])
    BY <1>10, <2>1, ExitOnlyTyped DEF BindAndFinalize
  <2>2. CASE ~Held(port[p])
    <3>1. pc' = [pc EXCEPT ![p] = "up"] /\ pc[p] = "bind"
      BY <1>10, <2>2 DEF BindAndFinalize
    <3>2. /\ pc' \in [Launches -> {"off", "up"} \cup Booting \cup Ends]
          /\ Up \subseteq Up' /\ p \in Up' /\ Alive \subseteq Alive'
      BY <3>1 DEF TypeOK, Up, Alive, Ends
    <3>3. settings' \in Settings /\ had' \in Fields
      <4>1. settings \in Settings /\ had \in Fields
        BY DEF TypeOK
      <4> QED
        BY <1>10, <2>2, <4>1, SettingsTyped DEF BindAndFinalize, Applied
    <3>4. (cleaning \cup asked \cup wedged \cup writing \cup alone)' \subseteq Up'
      BY <1>10, <2>2, <3>2 DEF BindAndFinalize, TypeOK
    <3>5. (term \cup knows)' \subseteq Alive'
      BY <1>10, <2>2, <3>2 DEF BindAndFinalize, TypeOK
    <3>6. marker' \in BOOLEAN /\ UNCHANGED <<takeover, victim, port, drain, pidfile, intent,
                                            mine, last, edits, faults, shellUp, world>>
      BY <1>10, <2>2 DEF BindAndFinalize, machine
    <3> QED
      BY <3>2, <3>3, <3>4, <3>5, <3>6 DEF TypeOK
  <2> QED
    BY <2>1, <2>2
<1>11. CASE WritePidfile(p)
  BY <1>11 DEF WritePidfile, TypeOK, Up, Alive, history, machine
<1> QED
  BY <1>3, <1>7, <1>8, <1>9, <1>10, <1>11 DEF Boot

-----------------------------------------------------------------------------
LEMMA LeaveTyped ==
    ASSUME TypeOK, NEW p \in Launches, Leave(p) PROVE TypeOK'
<1>1. ASSUME StartsDrain(p)
      PROVE  /\ drain' \in [Launches -> {"no", "closing", "unlinking", "clearing"}]
             /\ settings' \in Settings
  <2>1. settings \in Settings
    BY DEF TypeOK
  <2> QED
    BY <1>1, <2>1, SettingsTyped DEF StartsDrain, Reverted, TypeOK
<1>2. CASE CloseServers(p)
  BY <1>2 DEF CloseServers, TypeOK, Up, Alive, files, history, machine
<1>3. CASE RemovePidfile(p)
  BY <1>3 DEF RemovePidfile, TypeOK, Up, Alive, history, machine
<1>4. CASE HandleSigTerm(p)
  <2>1. CASE ExitOnly(p)
    BY <2>1, ExitOnlyTyped
  <2>2. CASE ~ExitOnly(p)
    <3>1. /\ pc[p] = "up" /\ term' = term \ {p} /\ cleaning' = cleaning \cup {p}
          /\ StartsDrain(p)
          /\ UNCHANGED <<pc, takeover, victim, port, asked, wedged, writing, knows, pidfile,
                         marker, intent, history, machine>>
      BY <1>4, <2>2 DEF HandleSigTerm
    <3>2. Up' = Up /\ Alive' = Alive /\ p \in Up
      BY <3>1 DEF Up, Alive
    <3> QED
      BY <1>1, <3>1, <3>2 DEF TypeOK, history, machine
  <2> QED
    BY <2>1, <2>2
<1>5. CASE NoticeParentGone(p)
  <2>1. Up' = Up /\ Alive' = Alive
    BY <1>5 DEF NoticeParentGone, Up, Alive
  <2> QED
    BY <1>1, <1>5, <2>1 DEF NoticeParentGone, TypeOK, history, machine
<1> QED
  BY <1>2, <1>3, <1>4, <1>5, ExitOnlyTyped
     DEF Leave, Stop, CleanupExits, DrainExits, WatchdogExits, AskedExit

LEMMA EnvironmentTyped == TypeOK /\ Environment => TypeOK'
<1> SUFFICES ASSUME TypeOK, Environment PROVE TypeOK'
  OBVIOUS
<1>0. world.edits \in Nat /\ world.faults \in Nat /\ settings \in Settings
  BY WorldTyped DEF TypeOK
<1>a. ASSUME Fault PROVE faults' \in 0 .. world.faults
  BY <1>0, <1>a DEF Fault, TypeOK
<1>1. ASSUME NEW p \in Launches, Start(p) PROVE TypeOK'
  <2>1. /\ pc' \in [Launches -> {"off", "up"} \cup Booting \cup Ends]
        /\ \A q \in Launches \ {p} : pc'[q] = pc[q]
        /\ pc[p] = "off"
    BY <1>1 DEF Start, TypeOK, Booting, Evicting
  <2>2. Up \subseteq Up' /\ Alive \subseteq Alive'
    BY <2>1 DEF Up, Alive
  <2>3. takeover' \in [Launches -> {"no", "flag", "policy"}]
    BY <1>1 DEF Start, TypeOK
  <2> QED
    BY <1>1, <2>1, <2>2, <2>3 DEF Start, TypeOK, files, history, machine
<1>2. ASSUME NEW p \in Launches, Signal(p) PROVE TypeOK'
  BY <1>2, <1>a DEF Signal, TypeOK, Up, Alive, files, machine
<1>3. ASSUME NEW p \in Launches, Kill(p) PROVE TypeOK'
  BY <1>3, <1>a, KilledTyped DEF Kill
<1>4. ASSUME NEW p \in Launches, Throw(p) PROVE TypeOK'
  BY <1>4, <1>a, ExitTyped DEF Throw
<1>5. ASSUME NEW p \in Launches, Wedge(p) PROVE TypeOK'
  BY <1>5, <1>a DEF Wedge, TypeOK, Up, Alive, files, machine
<1>6. CASE ShellDies
  BY <1>6 DEF ShellDies, TypeOK, Up, Alive, processes, files, history
<1>7. CASE EditSettings
  <2>1. edits' \in 0 .. world.edits
    BY <1>0, <1>7 DEF EditSettings, TypeOK
  <2>2. settings' \in Settings /\ mine' \in Fields
    BY <1>0, <1>7
       DEF EditSettings, TypeOK, Settings, Fields, UrlValues, HelperValues
  <2> QED
    BY <1>7, <2>1, <2>2 DEF EditSettings, TypeOK, Up, Alive, processes, machine
<1>8. CASE MoveProgram
  <2>1. edits' \in 0 .. world.edits
    BY <1>0, <1>8 DEF MoveProgram, TypeOK
  <2>2. settings' \in Settings /\ mine' \in Fields /\ had' \in Fields
    <3>1. ASSUME NEW f \in Fields PROVE Moved(f) \in Fields
      BY DEF Moved, Fields, HelperValues
    <3>2. Moved(settings) \in Settings
      BY <1>0 DEF Moved, Settings, HelperValues
    <3>3. Moved(NoPrior) = NoPrior
      BY DEF Moved, NoPrior, Ours
    <3>4. Moved(settings).prior = settings.prior
      BY <1>0 DEF Moved, Settings
    <3> QED
      BY <1>0, <1>8, <3>1, <3>2, <3>3, <3>4 DEF MoveProgram, Settings, TypeOK
  <2> QED
    BY <1>8, <2>1, <2>2 DEF MoveProgram, TypeOK, Up, Alive, processes, machine
<1>9. ASSUME NEW actor \in {None} \cup {p \in Up : Turns(p)}, NEW on \in BOOLEAN,
             ToggleRouting(actor, on)
      PROVE  TypeOK'
  <2>1. edits' \in 0 .. world.edits
    BY <1>0, <1>9 DEF ToggleRouting, TypeOK
  <2>2. settings' \in Settings /\ had' \in Fields
    BY <1>0, <1>9, SettingsTyped DEF ToggleRouting, Applied, TypeOK
  <2>3. Up' = Up /\ Alive' = Alive /\ {actor} \ {None} \subseteq Alive
    BY <1>9 DEF ToggleRouting, processes, Up, Alive, Ends
  <2>4. intent' \in BOOLEAN /\ (term \cup knows)' \subseteq Alive'
    BY <1>9, <2>3 DEF ToggleRouting, TypeOK, processes
  <2> QED
    BY <1>9, <2>1, <2>2, <2>3, <2>4 DEF ToggleRouting, TypeOK, processes, machine
<1> QED
  BY <1>1, <1>2, <1>3, <1>4, <1>5, <1>6, <1>7, <1>8, <1>9 DEF Environment

LEMMA NextTyped == TypeOK /\ [Next]_vars => TypeOK'
<1>1. TypeOK /\ UNCHANGED vars => TypeOK'
  BY DEF TypeOK, vars, processes, files, history, machine, Up, Alive
<1> QED
  BY <1>1, EvictTyped, BootTyped, LeaveTyped, EnvironmentTyped DEF Next

\* The model of the launches is well typed: what only a living process has, it
\* never keeps beyond its end.
THEOREM TypeCorrect == Spec => []TypeOK
  BY InitTyped, NextTyped, PTL DEF Spec
-----------------------------------------------------------------------------
(* The shape of the steps *)

\* A launch that is still booting takes a step that touches nothing shared.
Advances(p) ==
    /\ pc[p] \in Booting
    /\ \E step \in Booting : pc' = [pc EXCEPT ![p] = step]
    /\ UNCHANGED <<drain, writing, files, history>>

LEMMA GotoAdvances ==
    ASSUME NEW p \in Launches, pc[p] \in Booting, NEW step \in Booting, Goto(p, step)
    PROVE  Advances(p)
  BY DEF Goto, Advances

LEMMA EvictSteps ==
    ASSUME TypeOK, NEW p \in Launches, Evict(p)
    PROVE  \/ Advances(p)
           \/ ExitOnly(p) /\ pc[p] \in Booting
           \/ \E q \in Launches : Killed(q) /\ faults' = faults
<1>1. {"ask", "release", "pidfile", "escalate", "listener", "finish", "check",
       "merge", "recheck"} \subseteq Booting
  BY DEF Booting, Evicting
<1>2. ASSUME pc[p] \in Booting, Evicted(p) PROVE Advances(p)
  BY <1>1, <1>2, GotoAdvances DEF Evicted
<1>3. ASSUME NEW q, NEW a \in Booting, NEW b \in Booting, pc[p] \in Booting,
             SigTerm(p, q, <<a, b>>)
      PROVE  Advances(p)
  <2>1. Goto(p, a) \/ Goto(p, b)
    BY <1>3 DEF SigTerm
  <2> QED
    BY <1>3, <2>1, GotoAdvances
<1>4. ASSUME NEW step \in Booting, NEW after \in Booting, SigKillSurvivor(p, step, after)
      PROVE  Advances(p) \/ \E q \in Launches : Killed(q) /\ faults' = faults
  <2>1. Alive \subseteq Launches
    BY DEF Alive
  <2> QED
    BY <1>4, <2>1, GotoAdvances DEF SigKillSurvivor
<1>5. CASE AskShutdown(p)
  <2>1. pc[p] \in Booting
    BY <1>1, <1>5 DEF AskShutdown
  <2>2. Evicted(p) \/ Goto(p, "release") \/ Goto(p, "pidfile")
    BY <1>5 DEF AskShutdown
  <2> QED
    BY <1>1, <1>2, <2>1, <2>2, GotoAdvances
<1>6. CASE WaitForPortRelease(p)
  BY <1>1, <1>2, <1>6, GotoAdvances DEF WaitForPortRelease
<1>7. CASE TerminatePidfile(p)
  BY <1>1, <1>3, <1>7, GotoAdvances DEF TerminatePidfile
<1>8. CASE KillPidfile(p)
  BY <1>1, <1>4, <1>8 DEF KillPidfile
<1>9. CASE TerminateListener(p)
  BY <1>1, <1>3, <1>9, GotoAdvances DEF TerminateListener
<1>10. CASE KillListener(p)
  BY <1>1, <1>4, <1>10 DEF KillListener
<1>11. CASE CheckFreed(p)
  BY <1>1, <1>2, <1>11 DEF CheckFreed
<1> QED
  BY <1>5, <1>6, <1>7, <1>8, <1>9, <1>10, <1>11 DEF Evict

LEMMA BootSteps ==
    ASSUME TypeOK, NEW p \in Launches, Boot(p)
    PROVE  \/ Advances(p)
           \/ ExitOnly(p) /\ pc[p] \in Booting
           \/ BindAndFinalize(p) /\ ~ExitOnly(p)
           \/ WritePidfile(p)
<1>1. {"merge", "resolve", "recheck", "boot", "bind", "ask"} \subseteq Booting
  BY DEF Booting, Evicting
<1>2. ASSUME NEW n, pc[p] \in Booting, Decide(p, n) PROVE Advances(p)
  BY <1>1, <1>2 DEF Decide, Advances
<1>3. CASE MergeConfig(p)
  BY <1>1, <1>3 DEF MergeConfig, Advances
<1>4. CASE ResolvePort(p)
  <2>1. pc[p] \in Booting
    BY <1>1, <1>4 DEF ResolvePort
  <2>2. world.policy \in {"fail", "replace", "next"}
    BY WorldsAssumption DEF TypeOK, World
  <2>3. (\E n : Decide(p, n)) \/ ExitOnly(p) \/ EvictByPolicy(p)
    BY <1>4, <2>2 DEF ResolvePort
  <2> QED
    BY <1>1, <1>2, <2>1, <2>3 DEF EvictByPolicy, Advances
<1>5. CASE RecheckPort(p)
  BY <1>1, <1>2, <1>5 DEF RecheckPort
<1>6. CASE Bootstrap(p)
  <2>1. pc[p] \in Booting /\ Goto(p, "bind")
    BY <1>1, <1>6 DEF Bootstrap
  <2> QED
    BY <1>1, <2>1, GotoAdvances
<1>7. CASE BindAndFinalize(p)
  BY <1>1, <1>7 DEF BindAndFinalize
<1> QED
  BY <1>3, <1>4, <1>5, <1>6, <1>7 DEF Boot

-----------------------------------------------------------------------------
(* The session marker and the pidfile *)

\* Only a launch that serves drains.
DrainsServe == \A p \in Launches : drain[p] # "no" => pc[p] = "up"

\* A session that met no other is the only one up, and its traces are there.
LoneTraces == \A p \in alone : Up = {p}

MarkInv ==
    /\ DrainsServe /\ LoneTraces
    /\ MarkerTellsTheLastEnd /\ LoneSessionKeepsItsTraces

LEMMA InitMarkInv == Init => MarkInv
<1> SUFFICES ASSUME Init PROVE MarkInv
  OBVIOUS
<1>1. alone = {} /\ last = "none" /\ marker = FALSE
  BY Zenon DEF Init
<1>2. \A p \in Launches : drain[p] = "no"
  BY DEF Init
<1> QED
  BY <1>1, <1>2 DEF MarkInv, DrainsServe, LoneTraces, MarkerTellsTheLastEnd,
                    LoneSessionKeepsItsTraces

\* A launch that ends: the marker goes with an exit of one that was up.
LEMMA VanishMarks ==
    ASSUME TypeOK, MarkInv, NEW p \in Launches, NEW how \in Ends, Vanish(p, how),
           marker' <=> marker /\ ~(pc[p] = "up" /\ how = "gone"),
           pidfile' = pidfile
    PROVE  MarkInv'
<1>1. /\ \A q \in Launches : pc'[q] = IF q = p THEN how ELSE pc[q]
      /\ \A q \in Launches : drain'[q] = IF q = p THEN "no" ELSE drain[q]
      /\ how \in {"gone", "killed"} /\ alone' = alone \ {p} /\ writing' = writing \ {p}
  BY DEF Vanish, TypeOK, Ends
<1>2. Up' = Up \ {p} /\ alone \subseteq Up
  BY <1>1 DEF Up, TypeOK
<1>3. DrainsServe'
  BY <1>1 DEF MarkInv, DrainsServe
<1>4. CASE pc[p] # "up"
  <2>1. Up' = Up /\ alone' = alone /\ last' = last /\ (marker' <=> marker)
    BY <1>1, <1>2, <1>4 DEF Up, Vanish
  <2>2. LoneTraces'
    BY <2>1 DEF MarkInv, LoneTraces
  <2>3. MarkerTellsTheLastEnd'
    BY <2>1 DEF MarkInv, MarkerTellsTheLastEnd
  <2>4. \A q \in alone : q # p /\ q \in Launches
    BY <1>2, <1>4 DEF Up
  <2>5. \A q \in alone : marker'
    BY <2>1 DEF MarkInv, LoneSessionKeepsItsTraces
  <2>6. LoneSessionKeepsItsTraces'
    BY <1>1, <2>1, <2>4, <2>5 DEF MarkInv, LoneSessionKeepsItsTraces
  <2> QED
    BY <1>3, <2>2, <2>3, <2>6 DEF MarkInv
<1>5. CASE pc[p] = "up" /\ p \in alone
  <2>1. Up = {p} /\ marker
    BY <1>5 DEF MarkInv, LoneTraces, LoneSessionKeepsItsTraces
  <2>2. Up' = {} /\ alone' = {} /\ last' = how
    BY <1>1, <1>2, <1>5, <2>1 DEF Vanish
  <2>3. marker' <=> how = "killed"
    BY <1>1, <1>5, <2>1
  <2>4. MarkerTellsTheLastEnd'
    BY <2>2, <2>3 DEF MarkerTellsTheLastEnd
  <2> QED
    BY <1>3, <2>2, <2>4 DEF MarkInv, LoneTraces, LoneSessionKeepsItsTraces
<1>6. CASE pc[p] = "up" /\ p \notin alone
  <2>1. p \in Up
    BY <1>6 DEF Up
  <2>2. alone = {}
    BY <1>6, <2>1 DEF MarkInv, LoneTraces
  <2>3. alone' = {} /\ last' = "overlapped"
    BY <1>1, <1>6, <2>2 DEF Vanish
  <2> QED
    BY <1>3, <2>3 DEF MarkInv, LoneTraces, LoneSessionKeepsItsTraces, MarkerTellsTheLastEnd
<1> QED
  BY <1>4, <1>5, <1>6

LEMMA ExitMarks ==
    ASSUME TypeOK, MarkInv, NEW p \in Launches, Exit(p), pidfile' = pidfile
    PROVE  MarkInv'
<1>1. marker' <=> marker /\ ~(pc[p] = "up" /\ "gone" = "gone")
  BY DEF Exit, MarkerOnExit
<1> QED
  BY <1>1, VanishMarks DEF Exit, Ends

LEMMA KilledMarks ==
    ASSUME TypeOK, MarkInv, NEW p \in Launches, Killed(p) PROVE MarkInv'
<1>1. marker' <=> marker /\ ~(pc[p] = "up" /\ "killed" = "gone")
  BY DEF Killed, files
<1> QED
  BY <1>1, VanishMarks DEF Killed, Ends, files

\* A step that leaves the set of sessions and their traces as they are.
LEMMA OtherMarks ==
    ASSUME TypeOK, MarkInv, Up' = Up, UNCHANGED <<marker, alone, last, writing, pidfile>>,
           \A p \in Launches : drain'[p] = drain[p] \/ (pc[p] = "up" /\ drain[p] = "no"
                                                        /\ drain'[p] = "closing")
    PROVE  MarkInv'
<1>1. alone \subseteq Launches
  BY DEF TypeOK, Up
<1>2. \A p \in Launches : pc'[p] = "up" <=> pc[p] = "up"
  BY DEF Up
<1>3. DrainsServe'
  BY <1>2 DEF MarkInv, DrainsServe
<1>4. LoneTraces' /\ MarkerTellsTheLastEnd'
  BY DEF MarkInv, LoneTraces, MarkerTellsTheLastEnd
<1>5. LoneSessionKeepsItsTraces'
  BY <1>1 DEF MarkInv, LoneSessionKeepsItsTraces
<1> QED
  BY <1>3, <1>4, <1>5 DEF MarkInv

LEMMA AdvanceMarks ==
    ASSUME TypeOK, MarkInv, NEW p \in Launches, Advances(p) PROVE MarkInv'
<1>1. PICK step \in Booting : pc' = [pc EXCEPT ![p] = step]
  BY DEF Advances
<1>2. \A q \in Launches : pc'[q] = IF q = p THEN step ELSE pc[q]
  BY <1>1 DEF TypeOK
<1>3. Up' = Up
  BY <1>2 DEF Up, Advances, Booting, Evicting
<1> QED
  BY <1>3, OtherMarks DEF Advances, files, history

LEMMA BindMarks ==
    ASSUME TypeOK, MarkInv, NEW p \in Launches, BindAndFinalize(p), ~ExitOnly(p)
    PROVE  MarkInv'
<1>1. /\ pc[p] = "bind" /\ pc' = [pc EXCEPT ![p] = "up"] /\ writing' = writing \cup {p}
      /\ alone' = (IF Up = {} THEN {p} ELSE {})
      /\ UNCHANGED <<drain, last, pidfile>>
  BY DEF BindAndFinalize
<1>2. marker'
  BY DEF BindAndFinalize
<1>3. \A q \in Launches : pc'[q] = IF q = p THEN "up" ELSE pc[q]
  BY <1>1 DEF TypeOK
<1>4. Up' = Up \cup {p}
  BY <1>3 DEF Up
<1>5. DrainsServe'
  BY <1>1, <1>3 DEF MarkInv, DrainsServe
<1>6. LoneTraces' /\ MarkerTellsTheLastEnd'
  BY <1>1, <1>4 DEF LoneTraces, MarkerTellsTheLastEnd
<1>7. LoneSessionKeepsItsTraces'
  BY <1>1, <1>2 DEF LoneSessionKeepsItsTraces
<1> QED
  BY <1>5, <1>6, <1>7 DEF MarkInv

LEMMA WritePidfileMarks ==
    ASSUME TypeOK, MarkInv, NEW p \in Launches, WritePidfile(p) PROVE MarkInv'
<1>1. p \in writing /\ pidfile' = p /\ UNCHANGED <<pc, drain, marker, alone, last>>
  BY DEF WritePidfile, history
<1>2. p \in Up /\ Up' = Up
  BY <1>1 DEF TypeOK, Up
<1>3. \A q \in alone : q = p
  BY <1>2 DEF MarkInv, LoneTraces
<1>4. DrainsServe' /\ LoneTraces' /\ MarkerTellsTheLastEnd'
  BY <1>1, <1>2 DEF MarkInv, DrainsServe, LoneTraces, MarkerTellsTheLastEnd
<1>5. LoneSessionKeepsItsTraces'
  BY <1>1, <1>3 DEF MarkInv, LoneSessionKeepsItsTraces
<1> QED
  BY <1>4, <1>5 DEF MarkInv

LEMMA LeaveMarks ==
    ASSUME TypeOK, MarkInv, NEW p \in Launches, Leave(p) PROVE MarkInv'
<1>0. drain \in [Launches -> {"no", "closing", "unlinking", "clearing"}]
  BY DEF TypeOK
<1>1. ASSUME ExitOnly(p) PROVE MarkInv'
  BY <1>1, ExitMarks DEF ExitOnly
<1>2. ASSUME pc[p] = "up", StartsDrain(p),
             UNCHANGED <<pc, marker, alone, last, writing, pidfile>>
      PROVE  MarkInv'
  <2>1. Up' = Up
    BY <1>2 DEF Up
  <2>2. \A q \in Launches : drain'[q] = drain[q] \/ (pc[q] = "up" /\ drain[q] = "no"
                                                     /\ drain'[q] = "closing")
    BY <1>0, <1>2 DEF StartsDrain
  <2> QED
    BY <1>2, <2>1, <2>2, OtherMarks
<1>3. CASE HandleSigTerm(p)
  <2>1. CASE ExitOnly(p)
    BY <1>1, <2>1
  <2>2. CASE ~ExitOnly(p)
    BY <1>2, <1>3, <2>2 DEF HandleSigTerm, history
  <2> QED
    BY <2>1, <2>2
<1>4. CASE NoticeParentGone(p)
  BY <1>2, <1>4 DEF NoticeParentGone, history
<1>5. CASE CloseServers(p)
  <2>1. /\ UNCHANGED <<pc, marker, alone, last, writing, pidfile>>
        /\ drain[p] = "closing" /\ drain' = [drain EXCEPT ![p] = "unlinking"]
    BY <1>5 DEF CloseServers, files, history
  <2>2. Up' = Up /\ alone \subseteq Launches
    BY <2>1 DEF Up, TypeOK
  <2>3. \A q \in Launches : drain'[q] = IF q = p THEN "unlinking" ELSE drain[q]
    BY <1>0, <2>1
  <2>4. DrainsServe'
    BY <2>1, <2>3 DEF MarkInv, DrainsServe
  <2>5. LoneTraces' /\ MarkerTellsTheLastEnd'
    BY <2>1, <2>2 DEF MarkInv, LoneTraces, MarkerTellsTheLastEnd
  <2>6. LoneSessionKeepsItsTraces'
    BY <2>1, <2>2, <2>3 DEF MarkInv, LoneSessionKeepsItsTraces
  <2> QED
    BY <2>4, <2>5, <2>6 DEF MarkInv
<1>6. CASE RemovePidfile(p)
  <2>1. /\ UNCHANGED <<pc, marker, alone, last, writing>>
        /\ drain[p] = "unlinking" /\ drain' = [drain EXCEPT ![p] = "clearing"]
    BY <1>6 DEF RemovePidfile, history
  <2>2. Up' = Up /\ alone \subseteq Launches /\ p \in Up
    BY <2>1 DEF Up, TypeOK, MarkInv, DrainsServe
  <2>3. \A q \in Launches : drain'[q] = IF q = p THEN "clearing" ELSE drain[q]
    BY <1>0, <2>1
  <2>4. \A q \in alone : q = p
    BY <2>2 DEF MarkInv, LoneTraces
  <2>5. DrainsServe'
    BY <2>1, <2>3 DEF MarkInv, DrainsServe
  <2>6. LoneTraces' /\ MarkerTellsTheLastEnd'
    BY <2>1, <2>2 DEF MarkInv, LoneTraces, MarkerTellsTheLastEnd
  <2>7. LoneSessionKeepsItsTraces'
    BY <2>1, <2>2, <2>3, <2>4 DEF MarkInv, LoneSessionKeepsItsTraces
  <2> QED
    BY <2>5, <2>6, <2>7 DEF MarkInv
<1> QED
  BY <1>1, <1>3, <1>4, <1>5, <1>6
     DEF Leave, Stop, CleanupExits, DrainExits, WatchdogExits, AskedExit

LEMMA EnvironmentMarks == TypeOK /\ MarkInv /\ Environment => MarkInv'
<1> SUFFICES ASSUME TypeOK, MarkInv, Environment PROVE MarkInv'
  OBVIOUS
<1>1. ASSUME NEW p \in Launches, Start(p) PROVE MarkInv'
  <2>1. \E step \in {"merge", "ask"} : pc' = [pc EXCEPT ![p] = step]
    BY <1>1 DEF Start
  <2>2. Up' = Up
    BY <1>1, <2>1 DEF Start, Up, TypeOK
  <2> QED
    BY <1>1, <2>2, OtherMarks DEF Start, files, history
<1>2. ASSUME NEW p \in Launches, Kill(p) PROVE MarkInv'
  BY <1>2, KilledMarks DEF Kill
<1>3. ASSUME NEW p \in Launches, Throw(p) PROVE MarkInv'
  BY <1>3, ExitMarks DEF Throw
<1>4. ASSUME NEW p \in Launches, Signal(p) \/ Wedge(p) PROVE MarkInv'
  BY <1>4, OtherMarks DEF Signal, Wedge, files, Up
<1>5. CASE ShellDies
  BY <1>5, OtherMarks DEF ShellDies, processes, files, history, Up
<1>6. CASE EditSettings \/ MoveProgram
  BY <1>6, OtherMarks DEF EditSettings, MoveProgram, processes, Up
<1>7. ASSUME NEW actor, NEW on, ToggleRouting(actor, on) PROVE MarkInv'
  BY <1>7, OtherMarks DEF ToggleRouting, processes, Up
<1> QED
  BY <1>1, <1>2, <1>3, <1>4, <1>5, <1>6, <1>7 DEF Environment

LEMMA NextMarkInv == TypeOK /\ MarkInv /\ [Next]_vars => MarkInv'
<1> SUFFICES ASSUME TypeOK, MarkInv, [Next]_vars PROVE MarkInv'
  OBVIOUS
<1>1. ASSUME NEW p \in Launches, ExitOnly(p) PROVE MarkInv'
  BY <1>1, ExitMarks DEF ExitOnly
<1>2. ASSUME NEW p \in Launches, Evict(p) PROVE MarkInv'
  BY <1>1, <1>2, EvictSteps, AdvanceMarks, KilledMarks
<1>3. ASSUME NEW p \in Launches, Boot(p) PROVE MarkInv'
  BY <1>1, <1>3, BootSteps, AdvanceMarks, BindMarks, WritePidfileMarks
<1>4. CASE UNCHANGED vars
  BY <1>4, OtherMarks DEF vars, processes, files, history, Up
<1> QED
  BY <1>2, <1>3, <1>4, LeaveMarks, EnvironmentMarks DEF Next

\* What a boot says of the session before it is true: the marker is found exactly
\* when that session was killed, whatever was signalled, evicted or drained and
\* however many launches failed in between.
THEOREM MarkerTrue == Spec => []MarkerTellsTheLastEnd
<1>1. MarkInv => MarkerTellsTheLastEnd
  BY DEF MarkInv
<1> QED
  BY InitTyped, NextTyped, InitMarkInv, NextMarkInv, <1>1, PTL DEF Spec

\* No failed boot, eviction or late exit of another launch takes the marker or the
\* pidfile of a session that met no other.
THEOREM LoneSessionKeeps == Spec => []LoneSessionKeepsItsTraces
<1>1. MarkInv => LoneSessionKeepsItsTraces
  BY DEF MarkInv
<1> QED
  BY InitTyped, NextTyped, InitMarkInv, NextMarkInv, <1>1, PTL DEF Spec
-----------------------------------------------------------------------------
(* Claude Code's settings *)

\* A field without a snapshot: it is as the user had it, or gone because the
\* user's value cannot be told from ours, or ours over nothing of the user's.
Accounted(value, own, ours) ==
    GivenBack(value, own, ours) \/ (value \in ours /\ Absent \in own)

\* What makes settings `s` restorable, when `m` is what the user set last and `h`
\* what the last snapshot found: the snapshot, if there is one, is `h`, and each
\* field is ours or as the user set it since; if there is none, each field is
\* accounted for by itself.
Restorable(s, m, h) ==
    /\ s.prior # NoPrior =>
         /\ s.prior = h
         /\ s.url \in {Ours, m.url} /\ s.helper \in {Ours, Stale, m.helper}
    /\ s.prior = NoPrior =>
         /\ Accounted(s.url, {m.url, h.url}, {Ours})
         /\ Accounted(s.helper, {m.helper, h.helper}, {Ours, Stale})

SettingsInv == Restorable(settings, mine, had)

LEMMA FourValues ==
    /\ Absent # Ours /\ Absent # Stale /\ Absent # Theirs
    /\ Theirs # Ours /\ Theirs # Stale /\ Ours # Stale
    /\ NoPrior \notin Fields
  BY DEF Absent, Ours, Stale, Theirs, NoPrior, Fields, UrlValues, HelperValues

\* revertProxyBaseUrl gives each field back, and leaves settings restorable.
LEMMA RevertRestores ==
    ASSUME NEW s \in Settings, NEW m, NEW h, Restorable(s, m, h)
    PROVE  /\ Restorable(RevertProxyBaseUrl(s), m, h)
           /\ GivenBack(RevertProxyBaseUrl(s).url, {m.url, h.url}, {Ours})
           /\ GivenBack(RevertProxyBaseUrl(s).helper, {m.helper, h.helper}, {Ours, Stale})
<1> DEFINE r == RevertProxyBaseUrl(s)
<1>1. CASE ~(UrlIsOurs(s) \/ HelperIsOurs(s))
  <2>1. r = s /\ s.url # Ours /\ s.helper \notin {Ours, Stale}
    BY <1>1 DEF RevertProxyBaseUrl, UrlIsOurs, HelperIsOurs
  <2> QED
    BY <2>1 DEF Restorable, Accounted, GivenBack
<1>2. CASE (UrlIsOurs(s) \/ HelperIsOurs(s)) /\ s.prior # NoPrior
  <2>1. r.url = h.url /\ r.helper = h.helper /\ r.prior = NoPrior
    BY <1>2 DEF RevertProxyBaseUrl, StripBaseUrl, Restorable
  <2> QED
    BY <2>1 DEF Restorable, Accounted, GivenBack
<1>3. CASE (UrlIsOurs(s) \/ HelperIsOurs(s)) /\ s.prior = NoPrior
  <2>1. /\ r.url = IF s.url = Ours THEN Absent ELSE s.url
        /\ r.helper = IF s.helper \in {Ours, Stale} THEN Absent ELSE s.helper
        /\ r.prior = NoPrior
    BY <1>3 DEF RevertProxyBaseUrl, StripBaseUrl, UrlIsOurs, HelperIsOurs
  <2>2. GivenBack(r.url, {m.url, h.url}, {Ours})
    BY <1>3, <2>1, FourValues DEF Restorable, Accounted, GivenBack
  <2>3. GivenBack(r.helper, {m.helper, h.helper}, {Ours, Stale})
    BY <1>3, <2>1, FourValues DEF Restorable, Accounted, GivenBack
  <2> QED
    BY <2>1, <2>2, <2>3 DEF Restorable, Accounted
<1> QED
  BY <1>1, <1>2, <1>3

\* applyProxyBaseUrl, with the history of what it found when it takes a snapshot.
LEMMA ApplyRestorable ==
    ASSUME NEW s \in Settings, NEW m, NEW h, Restorable(s, m, h)
    PROVE  Restorable(ApplyProxyBaseUrl(s), m,
                      IF ApplyWrites(s) /\ s.prior = NoPrior THEN FieldsOf(s) ELSE h)
<1>1. CASE ~ApplyWrites(s)
  BY <1>1 DEF ApplyProxyBaseUrl
<1>2. CASE ApplyWrites(s) /\ s.prior # NoPrior
  <2> DEFINE r == ApplyProxyBaseUrl(s)
  <2>1. r.url = Ours /\ r.helper = Ours /\ r.prior = s.prior
    BY <1>2 DEF ApplyProxyBaseUrl, MergeBaseUrl, PriorOnMerge
  <2> QED
    BY <1>2, <2>1 DEF Restorable
<1>3. CASE ApplyWrites(s) /\ s.prior = NoPrior
  <2> DEFINE r == ApplyProxyBaseUrl(s)
  <2>1. r.url = Ours /\ r.helper = Ours /\ r.prior = FieldsOf(s)
    BY <1>3 DEF ApplyProxyBaseUrl, MergeBaseUrl, PriorOnMerge
  <2>2. FieldsOf(s) \in Fields
    BY DEF FieldsOf, Fields, Settings
  <2> QED
    BY <1>3, <2>1, <2>2, FourValues DEF Restorable
<1> QED
  BY <1>1, <1>2, <1>3

LEMMA InitSettingsInv == Init => SettingsInv
<1> SUFFICES ASSUME Init PROVE SettingsInv
  OBVIOUS
<1>1. CASE settings = [url |-> mine.url, helper |-> mine.helper, prior |-> NoPrior]
  BY <1>1 DEF SettingsInv, Restorable, Accounted, GivenBack
<1>2. CASE settings = [url |-> Ours, helper |-> Ours, prior |-> NoPrior] /\ mine = Unset
  BY <1>2 DEF SettingsInv, Restorable, Accounted, Unset
<1> QED
  BY <1>1, <1>2 DEF Init

\* What an exit, or the start of a drain, does to the settings.
LEMMA RevertedKeeps ==
    ASSUME TypeOK, SettingsInv, UNCHANGED <<mine, had>>,
           settings' = settings \/ settings' = RevertProxyBaseUrl(settings)
    PROVE  SettingsInv'
<1>1. settings \in Settings
  BY DEF TypeOK
<1> QED
  BY <1>1, RevertRestores DEF SettingsInv

LEMMA AppliedKeeps ==
    ASSUME TypeOK, SettingsInv, Applied, mine' = mine PROVE SettingsInv'
<1>1. settings \in Settings
  BY DEF TypeOK
<1>2. Restorable(ApplyProxyBaseUrl(settings), mine,
        IF ApplyWrites(settings) /\ settings.prior = NoPrior THEN FieldsOf(settings) ELSE had)
  BY <1>1, ApplyRestorable DEF SettingsInv
<1> QED
  BY <1>2 DEF SettingsInv, Applied

LEMMA ExitKeepsSettings ==
    ASSUME TypeOK, SettingsInv, NEW p \in Launches, Exit(p), UNCHANGED <<mine, had>>
    PROVE  SettingsInv'
  BY RevertedKeeps DEF Exit, SettingsOnExit, Reverted

\* The edits of the environment.
LEMMA EditsKeep ==
    ASSUME TypeOK, SettingsInv, EditSettings \/ MoveProgram PROVE SettingsInv'
<1>0. settings \in Settings /\ mine \in Fields /\ had \in Fields
  BY DEF TypeOK
<1>1. ASSUME NEW v \in UrlValues, EditSettings,
             settings' = [settings EXCEPT !.url = v], mine' = [mine EXCEPT !.url = v]
      PROVE  SettingsInv'
  <2>1. /\ settings'.url = v /\ settings'.helper = settings.helper
        /\ settings'.prior = settings.prior
        /\ mine'.url = v /\ mine'.helper = mine.helper /\ had' = had
    BY <1>0, <1>1 DEF EditSettings, Settings, Fields
  <2> QED
    BY <2>1 DEF SettingsInv, Restorable, Accounted, GivenBack
<1>2. ASSUME NEW v \in HelperValues, EditSettings,
             settings' = [settings EXCEPT !.helper = v], mine' = [mine EXCEPT !.helper = v]
      PROVE  SettingsInv'
  <2>1. /\ settings'.helper = v /\ settings'.url = settings.url
        /\ settings'.prior = settings.prior
        /\ mine'.helper = v /\ mine'.url = mine.url /\ had' = had
    BY <1>0, <1>2 DEF EditSettings, Settings, Fields
  <2> QED
    BY <2>1 DEF SettingsInv, Restorable, Accounted, GivenBack
<1>3. CASE MoveProgram
  <2> DEFINE AtMove(x) == IF x = Ours THEN Stale ELSE x
  <2>1. /\ settings.helper = Ours /\ settings'.helper = Stale
        /\ settings'.url = settings.url /\ settings'.prior = Moved(settings.prior)
        /\ mine' = Moved(mine) /\ had' = Moved(had)
    BY <1>0, <1>3 DEF MoveProgram, Moved, Settings
  <2>2. /\ mine'.url = mine.url /\ mine'.helper = AtMove(mine.helper)
        /\ had'.url = had.url /\ had'.helper = AtMove(had.helper)
    BY <1>0, <2>1 DEF Moved, Fields
  <2>3. settings'.prior = NoPrior <=> settings.prior = NoPrior
    <3>1. CASE settings.prior = NoPrior
      BY <2>1, <3>1 DEF Moved, NoPrior, Ours
    <3>2. CASE settings.prior \in Fields
      BY <2>1, <3>2, FourValues DEF Moved, Fields, HelperValues
    <3> QED
      BY <1>0, <3>1, <3>2 DEF Settings
  <2> QED
    BY <2>1, <2>2, <2>3, FourValues DEF SettingsInv, Restorable, Accounted, GivenBack
<1> QED
  BY <1>1, <1>2, <1>3 DEF EditSettings

LEMMA NextSettingsInv == TypeOK /\ SettingsInv /\ [Next]_vars => SettingsInv'
<1> SUFFICES ASSUME TypeOK, SettingsInv, [Next]_vars PROVE SettingsInv'
  OBVIOUS
<1>1. ASSUME UNCHANGED <<settings, mine, had>> PROVE SettingsInv'
  BY <1>1, RevertedKeeps
<1>2. ASSUME NEW p \in Launches, ExitOnly(p) PROVE SettingsInv'
  BY <1>2, ExitKeepsSettings, <1>1 DEF ExitOnly, Exit, Vanish
<1>3. ASSUME NEW p \in Launches, Killed(p) PROVE SettingsInv'
  BY <1>1, <1>3 DEF Killed, files
<1>4. ASSUME NEW p \in Launches, Advances(p) PROVE SettingsInv'
  BY <1>1, <1>4 DEF Advances, files, history
<1>5. ASSUME NEW p \in Launches, Evict(p) PROVE SettingsInv'
  BY <1>2, <1>3, <1>4, <1>5, EvictSteps
<1>6. ASSUME NEW p \in Launches, Boot(p) PROVE SettingsInv'
  <2>1. CASE WritePidfile(p)
    BY <1>1, <2>1 DEF WritePidfile, history
  <2>2. CASE BindAndFinalize(p) /\ ~ExitOnly(p)
    BY <1>1, <2>2, AppliedKeeps DEF BindAndFinalize
  <2> QED
    BY <1>2, <1>4, <1>6, <2>1, <2>2, BootSteps
<1>7. ASSUME NEW p \in Launches, Leave(p) PROVE SettingsInv'
  <2>1. ASSUME StartsDrain(p), UNCHANGED <<mine, had>> PROVE SettingsInv'
    BY <2>1, RevertedKeeps DEF StartsDrain, Reverted
  <2>2. CASE HandleSigTerm(p)
    BY <1>2, <2>1, <2>2 DEF HandleSigTerm, history
  <2>3. CASE NoticeParentGone(p)
    BY <2>1, <2>3 DEF NoticeParentGone, history
  <2>4. CASE CloseServers(p) \/ RemovePidfile(p)
    BY <1>1, <2>4 DEF CloseServers, RemovePidfile, files, history
  <2> QED
    BY <1>2, <1>7, <2>2, <2>3, <2>4
       DEF Leave, Stop, CleanupExits, DrainExits, WatchdogExits, AskedExit
<1>8. CASE Environment
  <2>1. ASSUME NEW p \in Launches, Start(p) \/ Signal(p) \/ Wedge(p) PROVE SettingsInv'
    BY <1>1, <2>1 DEF Start, Signal, Wedge, files, history
  <2>2. ASSUME NEW p \in Launches, Kill(p) PROVE SettingsInv'
    BY <1>3, <2>2 DEF Kill
  <2>3. ASSUME NEW p \in Launches, Throw(p) PROVE SettingsInv'
    BY <2>3, ExitKeepsSettings DEF Throw
  <2>4. CASE ShellDies
    BY <1>1, <2>4 DEF ShellDies, files, history
  <2>5. ASSUME NEW actor, NEW on, ToggleRouting(actor, on) PROVE SettingsInv'
    BY <2>5, AppliedKeeps, RevertedKeeps DEF ToggleRouting
  <2> QED
    BY <1>8, <2>1, <2>2, <2>3, <2>4, <2>5, EditsKeep DEF Environment
<1>9. CASE UNCHANGED vars
  BY <1>1, <1>9 DEF vars, files, history
<1> QED
  BY <1>5, <1>6, <1>7, <1>8, <1>9 DEF Next

-----------------------------------------------------------------------------
\* A launch that was up and is gone has left by its `exit` listener.
LEMMA GoneByExit ==
    ASSUME TypeOK, [Next]_vars, NEW p \in Launches, pc[p] = "up", pc'[p] = "gone"
    PROVE  Exit(p)
<1>0. pc \in [Launches -> {"off", "up"} \cup Booting \cup Ends]
  BY DEF TypeOK
<1>1. ASSUME NEW q \in Launches, NEW how, Vanish(q, how) PROVE q = p /\ how = "gone"
  BY <1>0, <1>1 DEF Vanish
<1>2. ASSUME NEW q \in Launches, Exit(q) PROVE Exit(p)
  BY <1>1, <1>2 DEF Exit
<1>3. ASSUME NEW q \in Launches, Killed(q) PROVE FALSE
  BY <1>1, <1>3 DEF Killed
<1>4. ASSUME NEW q \in Launches, NEW step, step # "gone",
             pc' = [pc EXCEPT ![q] = step]
      PROVE  FALSE
  BY <1>0, <1>4
<1>5. ASSUME NEW q \in Launches, Advances(q) PROVE FALSE
  BY <1>4, <1>5 DEF Advances, Booting, Evicting
<1>6. CASE \E q \in Launches : Evict(q)
  BY <1>2, <1>3, <1>5, <1>6, EvictSteps DEF ExitOnly
<1>7. ASSUME NEW q \in Launches, Boot(q) PROVE Exit(p)
  <2>1. ~WritePidfile(q)
    BY DEF WritePidfile
  <2>2. ~(BindAndFinalize(q) /\ ~ExitOnly(q))
    BY <1>4 DEF BindAndFinalize
  <2> QED
    BY <1>2, <1>5, <1>7, <2>1, <2>2, BootSteps DEF ExitOnly
<1>8. CASE \E q \in Launches : Leave(q)
  BY <1>2, <1>8 DEF Leave, Stop, HandleSigTerm, NoticeParentGone, CloseServers,
         RemovePidfile, CleanupExits, DrainExits, WatchdogExits, AskedExit, ExitOnly
<1>9. CASE Environment
  <2>1. ASSUME NEW q \in Launches, Start(q) PROVE FALSE
    BY <1>4, <2>1 DEF Start
  <2> QED
    BY <1>2, <1>3, <1>9, <2>1
       DEF Environment, Signal, Kill, Throw, Wedge, ShellDies, EditSettings, MoveProgram,
           ToggleRouting, processes
<1> QED
  BY <1>6, <1>7, <1>8, <1>9 DEF Next, vars, processes

\* Every exit but SIGKILL of a launch that routes Claude Code leaves in each field
\* what the user last set, or what it held when the snapshot was taken, or nothing
\* where one of these is a value this program takes for its own.
THEOREM ExitRestores == Spec => ExitGivesSettingsBack
<1>1. ASSUME TypeOK, SettingsInv, [Next]_vars, NEW p \in knows,
             pc[p] = "up", pc'[p] = "gone"
      PROVE  FieldsGivenBack(settings')
  <2>1. p \in Launches /\ settings \in Settings
    BY <1>1 DEF TypeOK, Alive
  <2>2. settings' = RevertProxyBaseUrl(settings)
    BY <1>1, <2>1, GoneByExit DEF Exit, SettingsOnExit, Reverted
  <2> QED
    BY <1>1, <2>1, <2>2, RevertRestores DEF SettingsInv, FieldsGivenBack
<1>2. TypeOK /\ SettingsInv /\ [Next]_vars
         => [\A p \in knows : pc[p] = "up" /\ pc'[p] = "gone" => FieldsGivenBack(settings')]_vars
  BY <1>1
<1> QED
  BY InitTyped, NextTyped, InitSettingsInv, NextSettingsInv, <1>2, PTL
     DEF Spec, ExitGivesSettingsBack
=============================================================================
