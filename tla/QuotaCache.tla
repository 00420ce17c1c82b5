------------------------------ MODULE QuotaCache ------------------------------
(***************************************************************************)
(* The manager's quota cache entry of one account. A snapshot is the       *)
(* number of the fetch that brought it, the identity of the credential it  *)
(* was fetched with and the newest observation merged into it; an          *)
(* observation is what an answered request said of the quota. Time is in   *)
(* units of the 30 seconds of QUOTA_FRESH_SECONDS and QUOTA_RETRY_SECONDS. *)
(***************************************************************************)
EXTENDS Integers

CONSTANTS
  StaleTime  \* QUOTA_STALE_SECONDS, in units of 30 seconds

NoEntry == [revision |-> -1]
NoSnapshot == [fetch |-> 0]
NoObservation == [revision |-> -1, generation |-> 0]
NoView == [fetch |-> 0, error |-> FALSE]

Elapsed(now, then) == IF now > then THEN now - then ELSE 0

\* apply_observation.
Applies(entry, seen) ==
  /\ seen.revision = entry.revision
  /\ seen.generation > entry.generation

Applied(entry, seen) ==
  IF ~Applies(entry, seen) THEN entry
  ELSE [entry EXCEPT !.generation = seen.generation,
                     !.snapshot = IF @ = NoSnapshot THEN @
                                  ELSE [@ EXCEPT !.merged = seen.identity]]

\* cached_quota_entry_with_observation: an entry of another revision is dropped.
CachedEntry(entry, revision, seen) ==
  IF entry.revision # revision THEN NoEntry ELSE Applied(entry, seen)

\* Mutant of AnswersFromCache: any entry answers a forced request.
AnswersForced(entry, mode, moved, attempt, now) ==
  /\ entry # NoEntry
  /\ \/ mode = "force" /\ (moved \/ entry.attempt >= attempt)
     \/ entry.error /\ Elapsed(now, entry.tried) < 1
     \/ mode = "automatic" /\ ~entry.error /\ entry.snapshot # NoSnapshot
        /\ Elapsed(now, entry.fetched) < 1

\* The three early returns of fetch_quota_view once the gate is held.
AnswersFromCache(entry, mode, moved, attempt, now) ==
  /\ entry # NoEntry
  /\ \/ mode = "force" /\ (moved \/ entry.attempt > attempt)
     \/ entry.error /\ Elapsed(now, entry.tried) < 1
     \/ mode = "automatic" /\ ~entry.error /\ entry.snapshot # NoSnapshot
        /\ Elapsed(now, entry.fetched) < 1

Attempt(entry) == IF entry = NoEntry THEN 0 ELSE entry.attempt

\* observation_generation_at_start.
Baseline(entry, revision, seen) ==
  LET published == IF seen.revision = revision THEN seen.generation ELSE 0
  IN IF entry = NoEntry THEN published
     ELSE IF entry.generation > published THEN entry.generation ELSE published

\* The entry of a successful fetch, after merge_new_observation.
FetchedEntry(fetch, revision, identity, base, seen, now, attempt) ==
  LET newer == seen.revision = revision /\ seen.generation > base
  IN [revision |-> revision, fetched |-> now, tried |-> now, error |-> FALSE,
      attempt |-> attempt, generation |-> IF newer THEN seen.generation ELSE base,
      snapshot |-> [fetch |-> fetch, identity |-> identity,
                    merged |-> IF newer THEN seen.identity ELSE identity]]

\* The entry of a failed one: the snapshot stays while the credential does.
FailedEntry(cached, revision, now, attempt) ==
  IF cached.revision = revision
  THEN [cached EXCEPT !.error = TRUE, !.tried = now, !.attempt = attempt]
  ELSE [revision |-> revision, fetched |-> now, tried |-> now, error |-> TRUE,
        attempt |-> attempt, generation |-> 0, snapshot |-> NoSnapshot]

\* quota_cache_view.
QuotaCacheView(entry, now) ==
  IF entry = NoEntry THEN NoView
  ELSE [fetch |-> IF entry.snapshot # NoSnapshot /\ Elapsed(now, entry.fetched) <= StaleTime
                  THEN entry.snapshot.fetch ELSE 0,
        error |-> entry.error]
===============================================================================
