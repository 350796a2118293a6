------------------------------ MODULE TtlCache ------------------------------
(***************************************************************************)
(* TtlCache: the in-memory set of payers whose verification succeeded,     *)
(* each with the Instant at which that was recorded.  Both operations read *)
(* the clock before they take the lock, so an entry may be written with a  *)
(* time that has already passed, and after one with a later time, and be   *)
(* looked up with a time before its own.                                   *)
(***************************************************************************)
EXTENDS Naturals, FiniteSets

CONSTANTS
  Payers,     \* payer addresses, the keys
  None,       \* no entry; no payer
  TTL,        \* verify_cache_ttl_secs
  PruneAt,    \* the number of entries above which `record` prunes: 4096
  MaxTime     \* bound: the last reading of the clock

ASSUME CacheAssumption ==
  /\ TTL \in Nat /\ PruneAt \in Nat /\ MaxTime \in Nat
  /\ None \notin Nat \cup Payers

VARIABLES
  inner,      \* the map from payer to Instant
  now         \* Instant::now()

Time == 0..MaxTime

CacheInit ==
  /\ inner = [k \in Payers |-> None]
  /\ now = 0

CacheTypeOK ==
  /\ inner \in [Payers -> Time \cup {None}]
  /\ now \in Time

\* Instant::duration_since saturates at zero.
Elapsed(at, t) == IF at >= t THEN at - t ELSE 0

\* Mutant: trusted for one unit too long.
WithinInclusive(at, t) == t # None /\ Elapsed(at, t) <= TTL
Within(at, t) == t # None /\ Elapsed(at, t) < TTL

\* fresh(key) with the clock read at `at`.
fresh(key, at) == Within(at, inner[key])

(***************************************************************************)
(* record(key) with the clock read at `at`.  Mutants: a full cache is      *)
(* cleared; the end of the trust is stored instead of its beginning.       *)
(***************************************************************************)
Size(map) == Cardinality({k \in Payers : map[k] # None})

Retain(map, at) == [k \in Payers |-> IF Within(at, map[k]) THEN map[k] ELSE None]

RecordedCleared(key, at) ==
  LET map == [inner EXCEPT ![key] = at] IN
  IF Size(map) > PruneAt THEN [k \in Payers |-> IF k = key THEN at ELSE None] ELSE map

RecordedDeadline(key, at) == [inner EXCEPT ![key] = at + TTL]

Recorded(key, at) ==
  LET map == [inner EXCEPT ![key] = at] IN
  IF Size(map) > PruneAt THEN Retain(map, at) ELSE map

Tick == now < MaxTime /\ now' = now + 1
=============================================================================
