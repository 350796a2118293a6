--------------------------- MODULE SingleRunProofs --------------------------
(***************************************************************************)
(* "Idempotent: ... no double-claim" (main.rs, run_claim_settle) and what  *)
(* it takes: each channel is funded once, and runs neither overlap nor     *)
(* lose the answer to a claim or a settle.  Requests may fail and the      *)
(* process may restart at any point.                                       *)
(***************************************************************************)
EXTENDS OneDepositProofs

(***************************************************************************)
(* One run, which no error, and no client that goes away, ends between the *)
(* claim and the write-back.  MCOverlap shows the first to be needed.      *)
(***************************************************************************)
RunsAlone ==
  /\ \A j, k \in Runs : j = k
  /\ "claim" \notin Faults /\ "settle" \notin Faults
  /\ "drop" \notin Faults \/ Admin = {}

-----------------------------------------------------------------------------
(* The inductive invariant: the table knows what the contract has claimed, *)
(* except of the channels whose claim is executed and not yet written back *)

Executed(k) == run[k].pc \in {"claimed", "settle", "settled"}

BatchIsNew(k) ==
  \A c \in DOMAIN run[k].batch :
    /\ run[k].pc = "claim" => claimed[c] < run[k].batch[c]
    /\ Executed(k) => claimed[c] = run[k].batch[c]

\* Between the claim and the write-back the table is behind on c.
Behind(c) == \E k \in Runs : Executed(k) /\ c \in DOMAIN run[k].batch

TableKnows == \A c \in Present : claimed[c] = channels[c].totalClaimed \/ Behind(c)

KnownInv == TableKnows /\ \A k \in Runs : BatchIsNew(k)

-----------------------------------------------------------------------------
(* The steps of the run *)

\* What a run finds claimable the contract has not claimed.
LEMMA StartIsNew ==
  ASSUME TypeInv, RevenueCovered, KnownInv, RunsAlone, NEW k \in Runs, StartRun(k),
         NEW c \in DOMAIN run'[k].batch
  PROVE  /\ run'[k].pc = "claim" /\ c \in Present
         /\ claimed[c] = channels[c].totalClaimed
         /\ claimed[c] < run'[k].batch[c]
<1>1. run'[k] = [pc |-> "claim", batch |-> ClaimBatch]
  BY DEF StartRun, TypeInv, TypeOK, RunTypeOK
<1>2. c \in Present /\ Claimable(channels[c]) /\ run'[k].batch[c] = channels[c].lastMax
  BY <1>1 DEF ClaimBatch, ClaimableCids
<1>3. ~Behind(c)
  BY DEF StartRun, RunsAlone, Behind, Executed
<1>4. claimed[c] = channels[c].totalClaimed
  BY <1>2, <1>3 DEF KnownInv, TableKnows
<1>5. /\ channels[c].totalClaimed \in Nat /\ channels[c].charged \in Nat
      /\ channels[c].lastMax \in Nat
  BY <1>2, Constants DEF TypeInv, TypeOK, TableTypeOK, ChannelState, Present, U128
<1>6. channels[c].charged <= channels[c].lastMax
  BY <1>2 DEF RevenueCovered
<1> QED BY <1>1, <1>2, <1>4, <1>5, <1>6 DEF Claimable

LEMMA KnownStart ==
  ASSUME TypeInv, RevenueCovered, KnownInv, RunsAlone, NEW k \in Runs, StartRun(k)
  PROVE  KnownInv'
<1>1. UNCHANGED <<channels, claimed>>
  BY DEF StartRun, tableVars, escrowVars
<1>2. run'[k].pc = "claim" /\ \A j \in Runs : j = k
  BY DEF StartRun, TypeInv, TypeOK, RunTypeOK, RunsAlone
<1>3. \A c \in Present : claimed[c] = channels[c].totalClaimed
  BY <1>2 DEF KnownInv, TableKnows, Behind, Executed, StartRun
<1>4. \A c \in DOMAIN run'[k].batch : claimed[c] < run'[k].batch[c]
  BY StartIsNew
<1> QED BY <1>1, <1>2, <1>3, <1>4 DEF KnownInv, TableKnows, Present, BatchIsNew, Executed

\* The claim raises the contract's total to the voucher, which was higher.
LEMMA KnownClaimed ==
  ASSUME TypeInv, KnownInv, RunsAlone, NEW k \in Runs, ClaimExecuted(k)
  PROVE  KnownInv'
<1> DEFINE batch == run[k].batch
<1>1. UNCHANGED channels
  BY DEF ClaimExecuted, tableVars
<1>2. run'[k].pc = "claimed" /\ run'[k].batch = batch
  BY DEF ClaimExecuted, TypeInv, TypeOK, RunTypeOK, RunState
<1>3. \A j \in Runs : j = k
  BY DEF RunsAlone
<1>4. ASSUME NEW c \in DOMAIN batch
      PROVE  claimed'[c] = batch[c]
  <2>1. c \in Cids /\ batch[c] \in Nat /\ claimed[c] \in Nat
    BY BatchOf, Constants DEF TypeInv, TypeOK, EscrowTypeOK, U128
  <2>2. claimed[c] < batch[c]
    BY DEF KnownInv, BatchIsNew, ClaimExecuted
  <2> QED BY <2>1, <2>2 DEF ClaimExecuted, ExecClaim, MaxOf
<1>5. ASSUME NEW c \in Cids, c \notin DOMAIN batch
      PROVE  claimed'[c] = claimed[c]
  BY <1>5 DEF ClaimExecuted, ExecClaim
<1>6. \A c \in Present : ~Behind(c)
  BY <1>3 DEF Behind, Executed, ClaimExecuted
<1>7. TableKnows'
  <2> SUFFICES ASSUME NEW c \in Cids, channels[c] # None, c \notin DOMAIN batch
               PROVE  claimed'[c] = channels[c].totalClaimed
    BY <1>1, <1>2 DEF TableKnows, Present, Behind, Executed
  <2> QED BY <1>5, <1>6 DEF KnownInv, TableKnows, Present
<1> QED BY <1>2, <1>3, <1>4, <1>7 DEF KnownInv, BatchIsNew, Executed

\* The write-back brings the table up to what the contract has claimed.
LEMMA KnownReconciled ==
  ASSUME TypeInv, KnownInv, RunsAlone, NEW k \in Runs, Reconcile(k)
  PROVE  KnownInv'
<1> DEFINE batch == run[k].batch
<1>1. run'[k] = Idle /\ \A j \in Runs : j = k
  BY DEF Reconcile, TypeInv, TypeOK, RunTypeOK, RunsAlone
<1>2. UNCHANGED claimed /\ channels' = Reconciled(batch)
  BY DEF Reconcile, escrowVars
<1>3. ASSUME NEW c \in Cids, channels'[c] # None
      PROVE  claimed[c] = channels'[c].totalClaimed
  <2>1. CASE c \in DOMAIN batch /\ channels[c] # None
    <3>1. channels[c] \in ChannelState
      BY <2>1 DEF TypeInv, TypeOK, TableTypeOK
    <3>2. channels'[c].totalClaimed = batch[c]
      BY <1>2, <2>1, <3>1 DEF Reconciled, ChannelState
    <3>3. claimed[c] = batch[c]
      BY <2>1 DEF KnownInv, BatchIsNew, Executed, Reconcile
    <3> QED BY <3>2, <3>3
  <2>2. CASE ~(c \in DOMAIN batch /\ channels[c] # None)
    <3>1. channels'[c] = channels[c]
      BY <1>2, <2>2 DEF Reconciled
    <3>2. c \notin DOMAIN batch
      BY <1>3, <2>2, <3>1
    <3>3. ~Behind(c)
      BY <1>1, <3>2 DEF Behind
    <3> QED BY <1>3, <3>1, <3>3 DEF KnownInv, TableKnows, Present
  <2> QED BY <2>1, <2>2
<1> QED BY <1>1, <1>2, <1>3 DEF KnownInv, TableKnows, Present, BatchIsNew, Executed, Idle

\* The other steps of the run change no total, and end no run too early.
LEMMA KnownOther ==
  ASSUME TypeInv, KnownInv, RunsAlone, NEW k \in Runs,
         ClaimFails(k) \/ PostSettle(k) \/ SettleExecuted(k) \/ SettleFails(k) \/ DropRun(k)
  PROVE  KnownInv'
<1>1. UNCHANGED <<channels, claimed>>
  BY DEF ClaimFails, PostSettle, SettleExecuted, SettleFails, DropRun, EndRun, ExecSettle,
         tableVars, escrowVars
<1>2. \A j \in Runs : j = k
  BY DEF RunsAlone
<1>3. ~SettleFails(k) /\ ~DropRun(k)
  BY DEF SettleFails, DropRun, PostErrs, RunsAlone
<1>4. CASE ClaimFails(k)
  <2>1. run'[k] = Idle /\ ~Executed(k)
    BY <1>4 DEF ClaimFails, EndRun, PostErrs, RunsAlone, Executed,
                TypeInv, TypeOK, RunTypeOK
  <2>2. \A c \in Present : claimed[c] = channels[c].totalClaimed
    BY <1>2, <2>1 DEF KnownInv, TableKnows, Behind
  <2> QED BY <1>1, <1>2, <2>1, <2>2
          DEF KnownInv, TableKnows, Present, BatchIsNew, Executed, Idle
<1>5. CASE PostSettle(k) \/ SettleExecuted(k)
  <2>1. Executed(k) /\ run'[k].pc \in {"settle", "settled"}
        /\ run'[k].batch = run[k].batch
    BY <1>5 DEF PostSettle, SettleExecuted, Executed, TypeInv, TypeOK, RunTypeOK, RunState
  <2> QED BY <1>1, <1>2, <2>1
          DEF KnownInv, TableKnows, Present, Behind, BatchIsNew, Executed
<1> QED BY <1>3, <1>4, <1>5

-----------------------------------------------------------------------------
(* The steps of the requests, the payers and the process *)

\* A voucher leaves the total alone; a channel opens with nothing claimed.
LEMMA KnownFrame ==
  ASSUME TypeInv, OpenedOnce, KnownInv, [Next]_vars, ~Restart, UNCHANGED <<run, claimed>>
  PROVE  KnownInv'
<1>1. \A c \in Cids : Behind(c)' <=> Behind(c)
  BY DEF Behind, Executed
<1>2. ASSUME NEW c \in Cids, channels'[c] # None, ~Behind(c)
      PROVE  claimed[c] = channels'[c].totalClaimed
  <2>1. channels[c] # None =>
          channels[c] \in ChannelState /\ claimed[c] = channels[c].totalClaimed
    BY <1>2 DEF KnownInv, TableKnows, Present, TypeInv, TypeOK, TableTypeOK
  <2>2. CASE Untouched(c)
    BY <1>2, <2>1, <2>2 DEF Untouched
  <2>3. ASSUME NEW max \in Vouchers, Charged(c, max)
        PROVE  claimed[c] = channels'[c].totalClaimed
    BY <2>1, <2>3 DEF Charged, ChannelState
  <2>4. ASSUME NEW r \in Reqs, OpenedBy(r, c)
        PROVE  claimed[c] = channels'[c].totalClaimed
    <3>1. req[r].snap.totalClaimed = 0 /\ channels[c] = None
      BY <2>4, OpeningOfEntry
    <3>2. claimed[c] = 0
      BY <2>4, <3>1 DEF OpenedOnce, Unopened, Awaited, OpenedBy
    <3> QED BY <2>4, <3>1, <3>2 DEF OpenedBy, Opened
  <2>5. ~\E k \in Runs : WrittenBackBy(k, c)
    BY <1>2 DEF WrittenBackBy, Behind, Executed
  <2> QED BY <2>2, <2>3, <2>4, <2>5, EntrySteps
<1> QED BY <1>1, <1>2 DEF KnownInv, TableKnows, Present, BatchIsNew, Executed

LEMMA KnownStep ==
  ASSUME TypeInv, RevenueCovered, OpenedOnce, KnownInv, [Next]_vars, RunsAlone
  PROVE  KnownInv'
<1>1. ASSUME NEW k \in Runs, RunNext(k)
      PROVE  KnownInv'
  BY <1>1, KnownStart, KnownClaimed, KnownReconciled, KnownOther DEF RunNext
<1>2. CASE Restart
  BY <1>2 DEF Restart, Idle, KnownInv, TableKnows, Present, BatchIsNew, Executed
<1>3. ASSUME NEW r \in Reqs, HandlerNext(r), UNCHANGED run
      PROVE  UNCHANGED claimed
  BY <1>3 DEF HandlerNext, AdmitVoucher, RefuseVoucher, PresentDeposit, DepositVerified,
              DepositExecuted, ExecDeposit, DepositRefused, DepositErrs, OpenChannel,
              UpstreamServes, UpstreamFails, DropRequest, escrowVars
<1>4. ASSUME NEW c \in Cids, NEW left \in Remainders, Withdraw(c, left)
      PROVE  UNCHANGED <<run, claimed>>
  BY <1>4 DEF Withdraw, ExecWithdraw
<1>5. UNCHANGED vars => UNCHANGED <<run, claimed>>
  BY DEF vars, escrowVars
<1> QED BY <1>1, <1>2, <1>3, <1>4, <1>5, KnownFrame DEF Next

-----------------------------------------------------------------------------
(* The theorem *)

(***************************************************************************)
(* "a re-trigger is a no-op (no double-claim)": while each channel is      *)
(* funded once and runs neither overlap nor lose an answer, no run posts a *)
(* claim that is already executed, for any requests, vouchers, withdrawals *)
(* and restarts, a restart between a claim and its write-back included.    *)
(***************************************************************************)
THEOREM NoClaimIsRepeated ==
  ASSUME OneDeposit, RunsAlone
  PROVE  Spec => NoDoubleClaim
<1>1. Init => KnownInv
  BY DEF Init, TableInit, RunInit, Idle, KnownInv, TableKnows, Present, BatchIsNew, Executed
<1>2. BatchInv /\ OneDepositInv /\ KnownInv /\ [Next]_vars => KnownInv'
  BY KnownStep DEF BatchInv, OneDepositInv
<1>3. ASSUME BatchInv, KnownInv, NEW k \in Runs, StartRun(k),
             NEW c \in DOMAIN run'[k].batch
      PROVE  /\ claimed[c] < run'[k].batch[c]
             /\ \A j \in Runs \ {k} :
                  c \in DOMAIN run[j].batch => run[j].batch[c] < run'[k].batch[c]
  BY <1>3, StartIsNew DEF BatchInv, RunsAlone
<1>4. BatchInv /\ KnownInv =>
        [\A k \in Runs : StartRun(k) =>
           \A c \in DOMAIN run'[k].batch :
             /\ claimed[c] < run'[k].batch[c]
             /\ \A j \in Runs \ {k} :
                  c \in DOMAIN run[j].batch => run[j].batch[c] < run'[k].batch[c]]_vars
  BY <1>3
<1> QED BY <1>1, <1>2, <1>4, OneDepositInvariant, PTL DEF Spec, NoDoubleClaim
=============================================================================
