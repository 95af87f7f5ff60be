----------------------------- MODULE MCGateway -----------------------------
(***************************************************************************)
(* Instances of Gateway for TLC.                                           *)
(***************************************************************************)
EXTENDS Gateway

CONSTANTS a, b

World(clients, talk, turns) ==
  [clients |-> clients, talk |-> talk, turns |-> turns, system |-> "plain", models |-> {"claude"},
   catalog |-> "full", messagesApi |-> TRUE, limit |-> "none", manual |-> FALSE, clock |-> FALSE, counts |-> FALSE,
   faults |-> 0]

\* Conversations: every shape of content with each model and API; models changed midway.
RichTalks ==
  {[World({a}, "rich", 2) EXCEPT !.models = {m}, !.messagesApi = enabled, !.system = system] :
     <<m, enabled>> \in {<<"claude", FALSE>>} \cup (Models \X {TRUE}), system \in Systems}

VariedTalks ==
  {[World({a}, "varied", 2) EXCEPT !.models = Models],
   [World({a}, "varied", 2) EXCEPT !.catalog = "none", !.clock = TRUE]}

\* Traffic: a model list that was never loaded, the two rate limits with manual approval,
\* the usage of several clients.
Traffic ==
  {[World({a, b}, "short", 1) EXCEPT !.catalog = "none", !.clock = TRUE, !.faults = 0],
   [World({a, b}, "short", 1) EXCEPT !.limit = "reject", !.manual = TRUE, !.clock = TRUE],
   [World({a, b}, "short", 1) EXCEPT !.limit = "wait", !.clock = TRUE, !.faults = 1],
   [World({a, b}, "short", 1) EXCEPT !.counts = TRUE, !.faults = 1]}

CheckedWorlds == RichTalks \cup VariedTalks \cup Traffic
=============================================================================
