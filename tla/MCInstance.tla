----------------------------- MODULE MCInstance -----------------------------
(***************************************************************************)
(* Instances of Instance for TLC.                                          *)
(***************************************************************************)
EXTENDS Instance

CONSTANTS a, b, c

ThreeLaunches == {a, b, c}
OneSidecar    == {b}

NothingSet == {Unset}
OneForeign == {Unset, [url |-> Theirs, helper |-> Absent]}

\* Edits and crashes, fields that hold anything, evictions and port conflicts,
\* and a race of two evictors.
CheckedWorlds ==
  [policy : {"fail"}, foreign : {FALSE}, launches : {{a, c}}, own : {OneForeign},
   edits : {1}, faults : {1}]
    \cup [policy : {"fail"}, foreign : {FALSE}, launches : {{a, b}}, own : {Fields},
          edits : {0}, faults : {1}]
    \cup [policy : {"next"}, foreign : {FALSE}, launches : {{a, b}}, own : {NothingSet},
          edits : {0}, faults : {1}]
    \cup [policy : {"replace"}, foreign : {FALSE}, launches : {{a, b}}, own : {NothingSet},
          edits : {0}, faults : {2}]
    \cup [policy : {"replace", "next"}, foreign : {TRUE}, launches : {{a, b}},
          own : {NothingSet}, edits : {0}, faults : {1}]
    \cup [policy : {"fail"}, foreign : {FALSE}, launches : {{a, b, c}}, own : {NothingSet},
          edits : {0}, faults : {0}]

\* One launch over any fields.
OwnWorlds ==
  [policy : {"fail"}, foreign : {FALSE}, launches : {{a}}, own : {Fields},
   edits : {0}, faults : {1}]
=============================================================================
