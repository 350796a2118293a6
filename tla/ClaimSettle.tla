---------------------------- MODULE ClaimSettle -----------------------------
(***************************************************************************)
(* run_claim_settle: one claim of the latest voucher of every claimable    *)
(* channel, then one settle, then total_claimed is written back.  The lock *)
(* is held to read the batch and again to write it back, and released over *)
(* the two facilitator calls between.                                      *)
(*                                                                         *)
(* A run is the periodic task of main(), which loops and never overlaps    *)
(* itself, or an invocation of POST /admin/claim-settle, which may overlap *)
(* anything.  `pc` says what the run waits for:                            *)
(*                                                                         *)
(*   idle -> claim -> claimed -> settle -> settled -> idle                 *)
(*                                                                         *)
(* claimed and settled: the facilitator did it, its answer is on the way.  *)
(***************************************************************************)
EXTENDS Escrow

CONSTANTS
  Periodic,    \* {the periodic task}, or {} if claim_interval_secs = 0
  Admin        \* admin requests in flight: bounds how many overlap

VARIABLE run

Runs == Periodic \cup Admin

Batches == UNION {[S -> U128] : S \in SUBSET Cids}

RunState ==
  [pc : {"idle", "claim", "claimed", "settle", "settled"}, batch : Batches]

Idle == [pc |-> "idle", batch |-> [c \in {} |-> 0]]

RunInit == run = [k \in Runs |-> Idle]

RunTypeOK == run \in [Runs -> RunState]

\* A run that ends early returns what it knows and writes nothing back.
EndRun(k) ==
  /\ run' = [run EXCEPT ![k] = Idle]
  /\ UNCHANGED <<tableVars, escrowVars>>

\* Mutant: one run at a time.
StartRunAlone(k) ==
  /\ \A j \in Runs : run[j].pc = "idle"
  /\ ClaimableCids # {}
  /\ run' = [run EXCEPT ![k] = [pc |-> "claim", batch |-> ClaimBatch]]
  /\ UNCHANGED <<tableVars, escrowVars>>

\* The batch is read under the lock; a run that finds nothing to claim
\* returns at once and changes nothing.
StartRun(k) ==
  /\ run[k].pc = "idle"
  /\ ClaimableCids # {}
  /\ run' = [run EXCEPT ![k] = [pc |-> "claim", batch |-> ClaimBatch]]
  /\ UNCHANGED <<tableVars, escrowVars>>

ClaimExecuted(k) ==
  /\ run[k].pc = "claim"
  /\ ExecClaim(run[k].batch)
  /\ run' = [run EXCEPT ![k].pc = "claimed"]
  /\ UNCHANGED tableVars

\* "claim rejected", or "claim failed": an error before or after the
\* facilitator executed it.
ClaimFails(k) ==
  /\ PostErrs("claim") \/ (run[k].pc = "claim" /\ ~Covered(run[k].batch))
  /\ run[k].pc \in {"claim", "claimed"}
  /\ EndRun(k)

\* claim_resp.success: the settle is posted.
PostSettle(k) ==
  /\ run[k].pc = "claimed"
  /\ run' = [run EXCEPT ![k].pc = "settle"]
  /\ UNCHANGED <<tableVars, escrowVars>>

SettleExecuted(k) ==
  /\ run[k].pc = "settle"
  /\ ExecSettle
  /\ run' = [run EXCEPT ![k].pc = "settled"]
  /\ UNCHANGED tableVars

\* "settle rejected" or "settle failed": total_claimed is not written.
SettleFails(k) ==
  /\ PostErrs("settle")
  /\ run[k].pc \in {"settle", "settled"}
  /\ EndRun(k)

\* Mutant: written back as soon as the claim is answered.
ReconcileEarly(k) ==
  /\ run[k].pc = "claimed"
  /\ channels' = Reconciled(run[k].batch)
  /\ run' = [run EXCEPT ![k] = Idle]
  /\ UNCHANGED <<historyVars, escrowVars>>

Reconcile(k) ==
  /\ run[k].pc = "settled"
  /\ channels' = Reconciled(run[k].batch)
  /\ run' = [run EXCEPT ![k] = Idle]
  /\ UNCHANGED <<historyVars, escrowVars>>

\* The admin client goes away and its handler is dropped at an await.
DropRun(k) ==
  /\ "drop" \in Faults
  /\ k \in Admin
  /\ run[k].pc # "idle"
  /\ EndRun(k)

RunNext(k) ==
  \/ StartRun(k)
  \/ ClaimExecuted(k)
  \/ ClaimFails(k)
  \/ PostSettle(k)
  \/ SettleExecuted(k)
  \/ SettleFails(k)
  \/ Reconcile(k)
  \/ DropRun(k)
=============================================================================
