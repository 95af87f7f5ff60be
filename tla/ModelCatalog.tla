---------------------------- MODULE ModelCatalog ----------------------------
(***************************************************************************)
(* The cached list of upstream models (state.models, modelsCache) and the  *)
(* three ways a request makes the gateway fetch it: refreshIfStale of      *)
(* src/lib/models/refresh-models.ts primes a list that was never loaded    *)
(* and refreshes one that is stale, both in the background and one at a    *)
(* time; the model-list route primes an empty list and waits for it.       *)
(* Times are ages, counted in ticks and no further than they matter.       *)
(***************************************************************************)
EXTENDS Integers, FiniteSetsExt

CONSTANTS
  StaleAfter,     \* age above which a list is stale (STALE_AFTER_MS with its jitter)
  PrimeCooldown,  \* ticks before another prime may be tried (PRIME_COOLDOWN_MS)
  MaxListings     \* bound: model-list requests under way at once

ASSUME CatalogAssumption ==
  StaleAfter \in Nat /\ PrimeCooldown \in Nat \ {0} /\ MaxListings \in Nat

Never == -1

FetchKinds == {"prime", "refresh", "list"}
Lists      == {"none", "empty", "full"}

VARIABLES
  models,           \* the list held: not loaded, loaded without a model, with models
  loadedAge,        \* ticks since it was set (modelsCache.loadedAtMs)
  primeAge,         \* ticks since lastPrimeAttemptMs
  primeInFlight, refreshInFlight,
  fetches           \* how many requests to upstream's /models each way has under way

catalogVars == <<models, loadedAge, primeAge, primeInFlight, refreshInFlight, fetches>>

CatalogTypeOK ==
  /\ models \in Lists
  /\ loadedAge \in Never..(StaleAfter + 1) /\ (loadedAge = Never <=> models = "none")
  /\ primeAge \in Never..PrimeCooldown
  /\ primeInFlight \in BOOLEAN /\ refreshInFlight \in BOOLEAN
  /\ fetches["prime"] = (IF primeInFlight THEN 1 ELSE 0)
  /\ fetches["refresh"] = (IF refreshInFlight THEN 1 ELSE 0)
  /\ fetches["list"] \in 0..MaxListings

CatalogInit(list) ==
  /\ models = list
  /\ loadedAge = IF list = "none" THEN Never ELSE 0
  /\ primeAge = Never
  /\ primeInFlight = FALSE /\ refreshInFlight = FALSE
  /\ fetches = [k \in FetchKinds |-> 0]

\* setModels: the list and the time it was loaded.
setModels(list) == models' = list /\ loadedAge' = 0

Fetching(kind) == fetches' = [fetches EXCEPT ![kind] = @ + 1]

isStale == loadedAge > StaleAfter

PrimeCoolingDown == primeAge # Never /\ primeAge < PrimeCooldown

\* Mutant of MayPrime: only the cooldown keeps a second prime away.
PrimeByCooldown == ~PrimeCoolingDown

MayPrime == ~primeInFlight /\ ~PrimeCoolingDown

MayRefresh == ~refreshInFlight /\ isStale

\* Runs in front of every authenticated request, which goes on without waiting.
refreshIfStale ==
  \/ /\ loadedAge = Never /\ MayPrime
     /\ primeAge' = 0 /\ primeInFlight' = TRUE /\ Fetching("prime")
     /\ UNCHANGED <<models, loadedAge, refreshInFlight>>
  \/ /\ loadedAge # Never /\ MayRefresh
     /\ refreshInFlight' = TRUE /\ Fetching("refresh")
     /\ UNCHANGED <<models, loadedAge, primeAge, primeInFlight>>
  \/ /\ IF loadedAge = Never THEN ~MayPrime ELSE ~MayRefresh
     /\ UNCHANGED catalogVars

\* GET /models with an empty list: a fetch of its own, whatever else is under way.
\* (The background check has run before, in front of the same request.)
ListModels ==
  /\ models # "full" /\ fetches["list"] < MaxListings
  /\ Fetching("list")
  /\ UNCHANGED <<models, loadedAge, primeAge, primeInFlight, refreshInFlight>>

\* Mutant of StillGuarded: the guard is released by a fetch that succeeds.
GuardedAfterFailure(guard, own, kind, list) == guard /\ (kind # own \/ list = "none")

\* A background fetch that ends, however it ends, takes its guard down.
StillGuarded(guard, own, kind, list) == guard /\ kind # own

\* A fetch (cacheModels) ends: it fails and changes nothing, or it sets what upstream
\* offers, less the models the picker hides.
FetchSettles(kind, list) ==
  /\ fetches[kind] > 0
  /\ fetches' = [fetches EXCEPT ![kind] = @ - 1]
  /\ IF list = "none" THEN UNCHANGED <<models, loadedAge>> ELSE setModels(list)
  /\ primeInFlight' = StillGuarded(primeInFlight, "prime", kind, list)
  /\ refreshInFlight' = StillGuarded(refreshInFlight, "refresh", kind, list)
  /\ UNCHANGED primeAge

Older(age, most) == IF age = Never THEN Never ELSE Min({age + 1, most})

CatalogAges ==
  /\ loadedAge' = Older(loadedAge, StaleAfter + 1)
  /\ primeAge'  = Older(primeAge, PrimeCooldown)
  /\ UNCHANGED <<models, primeInFlight, refreshInFlight, fetches>>
=============================================================================
