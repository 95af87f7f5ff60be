--------------------------- MODULE MCAuthSession ---------------------------
(* Model checking of AuthSession: the workloads of the runs. *)
EXTENDS AuthSession

Alone(es, ar) == [events |-> es, serial |-> TRUE, autoRecover |-> ar]
Together(es, ar) == [events |-> es, serial |-> FALSE, autoRecover |-> ar]

\* Everything one at a time, with and without auto-recovery; failing writes and
\* switches; and the overlaps, two or three kinds of event at once.
Mixed ==
    {Alone(Events \ {"switch", "writeFails"}, b) : b \in BOOLEAN} \cup
    {Alone({"switch", "start", "rearm", "writeFails"}, TRUE),
     Together({"start", "cancel", "signOut"}, FALSE),
     Together({"completion", "signOut"}, FALSE),
     Together({"completion", "signOut"}, TRUE),
     Together({"refresh", "signOut"}, FALSE),
     Together({"switch", "completion"}, FALSE),
     Together({"retry", "signOut"}, FALSE),
     Together({"retry", "signOut", "rearm"}, FALSE)}
=====
