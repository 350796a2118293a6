--------------------------- MODULE BatchSettlement --------------------------
(***************************************************************************)
(* The batch-settlement half of the router: request handlers and claim     *)
(* runs interleaved over one channel table and one escrow contract, in a   *)
(* process that may restart with an empty table.                           *)
(***************************************************************************)
EXTENDS BatchHandler, ClaimSettle

vars == <<tableVars, escrowVars, req, run>>

Init == TableInit /\ EscrowInit /\ HandlerInit /\ RunInit

\* The table, the handlers and the runs live in memory only; what the
\* facilitator already did stays done.
Restart ==
  /\ "restart" \in Faults
  /\ channels' = [c \in Cids |-> None]
  /\ owed' = [c \in Cids |-> 0]
  /\ req' = [r \in Reqs |-> Blank("free")]
  /\ run' = [k \in Runs |-> Idle]
  /\ UNCHANGED <<ceiling, escrowVars>>

\* On chain, past the router: it does not watch for withdrawals (D12).
Withdraw(c, left) ==
  /\ ExecWithdraw(c, left)
  /\ UNCHANGED <<tableVars, req, run>>

Next ==
  \/ \E r \in Reqs : HandlerNext(r) /\ UNCHANGED run
  \/ \E k \in Runs : RunNext(k) /\ UNCHANGED req
  \/ \E c \in Cids, left \in Remainders : Withdraw(c, left)
  \/ Restart

Spec == Init /\ [][Next]_vars

-----------------------------------------------------------------------------
(* Invariants *)

(* Every variable has its type. *)
TypeOK == TableTypeOK /\ EscrowTypeOK /\ HandlerTypeOK /\ RunTypeOK

(***************************************************************************)
(* The charge of a channel pays for every request admitted on it since its *)
(* deposit, however handlers interleave, and the voucher kept for claiming *)
(* (main.rs `last_max`) is worth at least that charge.  The price is added *)
(* up exactly, the charge by saturating_add: a charge of u128::MAX pays    *)
(* for no more, and the same ceiling is admitted again for nothing.        *)
(***************************************************************************)
RevenueCovered ==
  \A c \in Present :
    /\ owed[c] <= channels[c].charged \/ channels[c].charged = MaxU128
    /\ channels[c].charged <= channels[c].lastMax

(***************************************************************************)
(* The server never believes more claimed than the contract has claimed:   *)
(* total_claimed, read from a snapshot that may be old or written back     *)
(* after two calls made without the lock, never writes off an amount that  *)
(* nobody claimed.                                                         *)
(***************************************************************************)
WrittenOffIsClaimed ==
  \A c \in Present : channels[c].totalClaimed <= claimed[c]

(***************************************************************************)
(* With one deposit per channel, what total_claimed writes off has also    *)
(* reached the receiver: the write-back waits for the settle.              *)
(***************************************************************************)
WrittenOffIsPaidOut ==
  \A c \in Present : channels[c].totalClaimed <= settled[c]

(***************************************************************************)
(* "every request carries a capital-backed EIP-712 voucher against an      *)
(* on-chain escrow" (README.md): no charge, no voucher kept for claiming   *)
(* and no claim in flight exceeds what the channel has in escrow, so the   *)
(* contract has no reason to refuse a batch.                               *)
(***************************************************************************)
CapitalBacked ==
  /\ \A c \in Present :
       channels[c].charged <= escrow[c] /\ channels[c].lastMax <= escrow[c]
  /\ \A k \in Runs : Covered(run[k].batch)

(***************************************************************************)
(* "aggregate the latest signed voucher of every channel with unclaimed    *)
(* value" (main.rs, run_claim_settle): a channel whose latest voucher      *)
(* exceeds its claimed total is claimable.                                 *)
(***************************************************************************)
UnclaimedIsClaimable ==
  \A c \in Present :
    channels[c].lastMax > channels[c].totalClaimed => Claimable(channels[c])

(***************************************************************************)
(* A payer that signs the price on top of the highest voucher it has ever  *)
(* handed over is never refused while the balance lasts: no late write-    *)
(* back, second deposit or restart raises charged or total_claimed beyond  *)
(* what the payer itself has signed (main.rs, the policy).                 *)
(***************************************************************************)
NextVoucherIsAdmitted ==
  \A c \in Present :
    LET next == ceiling[c] + Amount IN
    next <= channels[c].balance => Admits(channels[c], next)

(***************************************************************************)
(* "Payment verified but upstream fails: settlement is skipped; the client *)
(* keeps its funds; the router returns 502" (README.md): the voucher of a  *)
(* request answered 502 is not collected.                                  *)
(***************************************************************************)
FailedKeepsFunds ==
  \A r \in Reqs : req[r].pc = "502" => claimed[req[r].cid] < req[r].max

-----------------------------------------------------------------------------
(* Action properties *)

(***************************************************************************)
(* "Idempotent: ... a re-trigger is a no-op (no double-claim)" (main.rs,   *)
(* run_claim_settle): no run posts a claim that is already executed or     *)
(* that another run in flight has posted.                                  *)
(***************************************************************************)
NoDoubleClaim ==
  [][\A k \in Runs : StartRun(k) =>
       \A c \in DOMAIN run'[k].batch :
         /\ claimed[c] < run'[k].batch[c]
         /\ \A j \in Runs \ {k} :
              c \in DOMAIN run[j].batch => run[j].batch[c] < run'[k].batch[c]
    ]_vars

(***************************************************************************)
(* "total_claimed is reconciled to the claimed ceiling on success, so a    *)
(* re-trigger is a no-op" (main.rs, run_claim_settle): when a run writes   *)
(* back, what it writes off has reached the receiver, and it leaves a      *)
(* channel claimable only if a better voucher came in since it read its    *)
(* batch, though other runs, deposits and restarts overtake it.            *)
(***************************************************************************)
CompletedRunIsFinal ==
  [][\A k \in Runs : Reconcile(k) =>
       \A c \in DOMAIN run[k].batch :
         /\ run[k].batch[c] <= settled[c]
         /\ c \in ClaimableCids' => channels[c].lastMax > run[k].batch[c]
    ]_vars

-----------------------------------------------------------------------------
(* Refinement *)

Ledger == INSTANCE PaymentChannel WITH
            Channels <- Cids, funds <- escrow, ceiling <- ceiling,
            collected <- claimed, paidOut <- settled

(***************************************************************************)
(* Towards the payer the router is a payment channel: whatever is lost,    *)
(* repeated, overtaken or restarted, it collects at most what is in escrow *)
(* and at most the highest voucher it was handed.                          *)
(***************************************************************************)
IsPaymentChannel == Ledger!Spec
=============================================================================
