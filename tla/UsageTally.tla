----------------------------- MODULE UsageTally -----------------------------
(***************************************************************************)
(* Token usage from the request that spent it to the control feed: the     *)
(* queue of database writes (src/lib/token-usage/store.ts), the dirty mark *)
(* and the ticker that asks for the day's sum and flushes it to the feed   *)
(* (src/lib/live/service.ts).  A sum is the number of events it counts.    *)
(***************************************************************************)
EXTENDS Naturals, Sequences, SequencesExt

CONSTANT MaxEvents  \* bound: usage events recorded
ASSUME UsageAssumption == MaxEvents \in Nat

VARIABLES
  recorded,    \* events recorded, hence writes enqueued
  settled,     \* writes that are done; the queue runs them one after the other
  stored,      \* events in the database
  usageDirty,
  queries,     \* sums being taken: the write each waits for, and whether it still waits
  told,        \* the sum last flushed to the feed
  untold       \* whether the sum that settled last had failed

usageVars == <<recorded, settled, stored, usageDirty, queries, told, untold>>

UsageTypeOK ==
  /\ recorded \in 0..MaxEvents /\ settled \in 0..recorded
  /\ stored \in 0..settled /\ told \in 0..stored
  /\ usageDirty \in BOOLEAN /\ untold \in BOOLEAN
  /\ Len(queries) <= MaxEvents
  /\ \A q \in DOMAIN queries :
       queries[q].tail \in 0..recorded /\ queries[q].waits \in BOOLEAN

UsageInit ==
  /\ recorded = 0 /\ settled = 0 /\ stored = 0 /\ told = 0
  /\ usageDirty = FALSE /\ untold = FALSE /\ queries = <<>>

\* A request has its usage: the write is enqueued and the ticker's mark set, in one go.
recordTokenUsageEvent ==
  IF recorded = MaxEvents
    THEN UNCHANGED usageVars
    ELSE /\ recorded' = recorded + 1
         /\ usageDirty' = TRUE
         /\ UNCHANGED <<settled, stored, queries, told, untold>>

\* The write at the head of the queue ends; a failed one is logged and forgotten.
WriteSettles ==
  /\ settled < recorded
  /\ settled' = settled + 1
  /\ stored' \in {stored, stored + 1}
  /\ UNCHANGED <<recorded, usageDirty, queries, told, untold>>

\* Mutant of NewQuery: the sum is taken without waiting for the writes.
UnflushedQuery == [tail |-> recorded, waits |-> FALSE]

NewQuery == [tail |-> recorded, waits |-> TRUE]

\* The ticker: a sum is begun, which takes the queue's end as it is now.
TickerFires ==
  /\ usageDirty
  /\ usageDirty' = FALSE
  /\ queries' = Append(queries, NewQuery)
  /\ UNCHANGED <<recorded, settled, stored, told, untold>>

\* flushTokenUsageEvents: the write waited for is done; wait again if others came.
FlushGoesOn(q) ==
  /\ queries[q].waits /\ queries[q].tail <= settled
  /\ queries' = [queries EXCEPT ![q] =
                   [tail |-> recorded, waits |-> queries[q].tail # recorded]]
  /\ UNCHANGED <<recorded, settled, stored, usageDirty, told, untold>>

\* With the queue flushed the database is opened and read, and the sum told; or that fails.
SumEnds(q) ==
  /\ ~queries[q].waits
  /\ queries' = RemoveAt(queries, q)
  /\ \/ told' = stored /\ untold' = FALSE
     \/ told' = told   /\ untold' = TRUE
  /\ UNCHANGED <<recorded, settled, stored, usageDirty>>

QueryStep == \E q \in DOMAIN queries : FlushGoesOn(q) \/ SumEnds(q)
=============================================================================
