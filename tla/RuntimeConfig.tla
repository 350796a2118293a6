---------------------------- MODULE RuntimeConfig ---------------------------
(***************************************************************************)
(* config.rs, the knobs of the router: the [runtime] table of the TOML     *)
(* file with the AR_RUNTIME__ variables merged over it, read once at the   *)
(* start.  A table that is there must be complete: the defaults stand for  *)
(* a table that is absent, and only claim_interval_secs has its own.       *)
(***************************************************************************)
EXTENDS Naturals

CONSTANT Table   \* what is set of it, a record; {} of fields if nothing is

DefaultRuntime ==
  [settlement |-> "sync", verify_mode |-> "facilitator",
   verify_cache_ttl_secs |-> 30, claim_interval_secs |-> 0]

Required == {"settlement", "verify_mode", "verify_cache_ttl_secs"}

\* Config::load returns Ok.
Loads == DOMAIN Table = {} \/ Required \subseteq DOMAIN Table

runtime ==
  IF DOMAIN Table = {} THEN DefaultRuntime
  ELSE [field \in DOMAIN DefaultRuntime |->
          IF field \in DOMAIN Table THEN Table[field] ELSE DefaultRuntime[field]]

\* main: expect("load configuration").
ASSUME RuntimeAssumption ==
  /\ DOMAIN Table \subseteq DOMAIN DefaultRuntime
  /\ Loads
  /\ runtime.verify_cache_ttl_secs \in Nat

\* Any other word means the default mode.
Async == runtime.settlement = "async"
Cached == runtime.verify_mode = "cached"
=============================================================================
