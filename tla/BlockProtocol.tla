--------------------------- MODULE BlockProtocol ---------------------------
(***************************************************************************)
(* What a client of /v1/messages is promised of a stream: it is started    *)
(* once, its content blocks are numbered 0, 1, 2, ... and open one at a    *)
(* time, a delta belongs to the block that is open, and it ends once: with *)
(* message_stop when no block is open, or with an error event at any time. *)
(* Nothing follows the end.  This is the abstract specification that the   *)
(* translators and the agent loop (MessageStream) are shown to implement.  *)
(***************************************************************************)
EXTENDS Naturals

VARIABLES
  phase,  \* "before", "open" (message_start sent) or "ended"
  block,  \* the state of the current block: "none" or "open"
  next,   \* the number of blocks started so far
  last    \* the last event (its type and block index) and its parity

vars == <<phase, block, next, last>>

\* The parity distinguishes an event from a stutter when it repeats the last.
Event(type, index) ==
  last' = [type |-> type, index |-> index, parity |-> 1 - last.parity]

Init ==
  /\ phase = "before"
  /\ block = "none"
  /\ next = 0
  /\ last = [type |-> "none", index |-> 0, parity |-> 0]

MessageStart ==
  /\ phase = "before"
  /\ phase' = "open"
  /\ Event("message_start", 0)
  /\ UNCHANGED <<block, next>>

BlockStart ==
  /\ phase = "open" /\ block = "none"
  /\ block' = "open"
  /\ next' = next + 1
  /\ Event("content_block_start", next)
  /\ UNCHANGED phase

BlockDelta ==
  /\ phase = "open" /\ block = "open"
  /\ Event("content_block_delta", next - 1)
  /\ UNCHANGED <<phase, block, next>>

BlockStop ==
  /\ phase = "open" /\ block = "open"
  /\ block' = "none"
  /\ Event("content_block_stop", next - 1)
  /\ UNCHANGED <<phase, next>>

Ping ==
  /\ phase = "open"
  /\ Event("ping", 0)
  /\ UNCHANGED <<phase, block, next>>

\* The stop reason and the usage, between the last block and the stop.
MessageDelta ==
  /\ phase = "open" /\ block = "none"
  /\ last.type # "message_delta"
  /\ Event("message_delta", 0)
  /\ UNCHANGED <<phase, block, next>>

MessageStop ==
  /\ phase = "open" /\ block = "none"
  /\ last.type = "message_delta"
  /\ phase' = "ended"
  /\ Event("message_stop", 0)
  /\ UNCHANGED <<block, next>>

\* The client is told that the answer is not complete; the block that is open
\* need not be closed, nor the message started.
Error ==
  /\ phase # "ended"
  /\ phase' = "ended"
  /\ Event("error", 0)
  /\ UNCHANGED <<block, next>>

Next ==
  \/ MessageStart \/ BlockStart \/ BlockDelta \/ BlockStop
  \/ Ping \/ MessageDelta \/ MessageStop \/ Error

Spec == Init /\ [][Next]_vars
=============================================================================
