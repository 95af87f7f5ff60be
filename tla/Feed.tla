-------------------------------- MODULE Feed --------------------------------
(***************************************************************************)
(* What the clients of the control feed are promised of the auth status,   *)
(* without snapshots, queues and drain loops.  A subscription starts from  *)
(* the status of its time; what a client shows moves on from there and     *)
(* never back, within a subscription or from one to the next; a dropped    *)
(* client is shown at most the one frame that was on its way.  This is the *)
(* abstract specification that ControlFeed is shown to implement.          *)
(***************************************************************************)
EXTENDS Naturals

CONSTANTS Clients

VARIABLES
  value,   \* version of the auth status
  shown,   \* per client: the version it shows
  reader   \* per client: its subscription; `left` says how much it may still
           \* be shown, `from` the oldest version that can be

vars == <<value, shown, reader>>

Nobody == [left |-> "none", from |-> 0]

Subscribed(version) == [left |-> "all", from |-> version]

Init ==
  /\ value = 0
  /\ shown = [c \in Clients |-> 0]
  /\ reader = [c \in Clients |-> Nobody]

\* What may happen to a subscription at any time: it is dropped, with a frame on its way or
\* without, or its client leaves.
Loses(c) ==
  \/ reader'[c] = reader[c]
  \/ reader[c].left = "all" /\ reader'[c] = [reader[c] EXCEPT !.left = "one"]
  \/ reader'[c] = Nobody

Losses ==
  /\ reader' = [c \in Clients |-> reader'[c]]
  /\ \A c \in Clients : Loses(c)

\* A change may be the one frame too many for any of the subscribers.
Change ==
  /\ value' = value + 1
  /\ Losses
  /\ UNCHANGED shown

Drop ==
  /\ Losses
  /\ UNCHANGED <<value, shown>>

Subscribe(c) ==
  /\ reader[c] = Nobody
  /\ reader' = [reader EXCEPT ![c] = Subscribed(value)]
  /\ UNCHANGED <<value, shown>>

Show(c) ==
  /\ reader[c].left # "none"
  /\ \E version \in reader[c].from .. value :
       /\ shown[c] <= version
       /\ shown' = [shown EXCEPT ![c] = version]
       /\ reader' = [reader EXCEPT
            ![c] = IF reader[c].left = "all" THEN Subscribed(version) ELSE Nobody]
  /\ UNCHANGED value

Next == Change \/ Drop \/ \E c \in Clients : Subscribe(c) \/ Show(c)

Spec == Init /\ [][Next]_vars
=============================================================================
