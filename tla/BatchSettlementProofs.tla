------------------------ MODULE BatchSettlementProofs ------------------------
(***************************************************************************)
(* The safety theorems of BatchSettlement, for every value of its          *)
(* constants: any channels, any requests in flight, any overlapping claim  *)
(* runs, any price, vouchers and deposits, every failure and every place a *)
(* snapshot may come from, unless a theorem says otherwise.                *)
(***************************************************************************)
EXTENDS BatchSettlementTypes

-----------------------------------------------------------------------------
(* Charges cover what was admitted: inductive relative to TypeInv, which   *)
(* knows that a verified deposit voucher pays for its own request.         *)

LEMMA RevenueStep ==
  ASSUME TypeInv, TypeInv', RevenueCovered, [Next]_vars
  PROVE  RevenueCovered'
<1> SUFFICES ASSUME NEW d \in Cids, channels'[d] # None
             PROVE  /\ owed'[d] <= channels'[d].charged \/ channels'[d].charged = MaxU128
                    /\ channels'[d].charged <= channels'[d].lastMax
  BY DEF RevenueCovered, Present
<1> USE DEF TypeInv, TypeOK, TableTypeOK
<1>1. ASSUME channels[d] # None
      PROVE  /\ channels[d] \in ChannelState /\ owed[d] \in Nat
             /\ owed[d] <= channels[d].charged \/ channels[d].charged = MaxU128
             /\ channels[d].charged <= channels[d].lastMax
  BY <1>1 DEF RevenueCovered, Present
<1>2. ASSUME channels'[d] = channels[d], owed'[d] = owed[d]
      PROVE  /\ owed'[d] <= channels'[d].charged \/ channels'[d].charged = MaxU128
             /\ channels'[d].charged <= channels'[d].lastMax
  BY <1>1, <1>2
<1>3. CASE UNCHANGED tableVars
  BY <1>2, <1>3 DEF tableVars, historyVars
<1>4. ASSUME NEW r \in Reqs, NEW c \in Cids, NEW max \in Vouchers,
             AdmitVoucher(r, c, max)
      PROVE  /\ owed'[d] <= channels'[d].charged \/ channels'[d].charged = MaxU128
             /\ channels'[d].charged <= channels'[d].lastMax
  <2>1. CASE c # d
    BY <1>2, <1>4, <2>1 DEF AdmitVoucher
  <2>2. CASE c = d
    <3>1. /\ channels[d] # None
          /\ max >= SatAdd(channels[d].charged, Amount)
      BY <1>4, <2>2 DEF AdmitVoucher, Accepts, Admits
    <3>2. /\ channels[d].charged \in Nat /\ channels[d].charged <= MaxU128
          /\ max \in Nat /\ max <= MaxU128 /\ Amount \in Nat /\ MaxU128 \in Nat
          /\ owed[d] \in Nat
      BY <1>1, <3>1, Constants DEF ChannelState, U128
    <3>3. channels[d].charged + Amount <= max \/ max = MaxU128
      BY <3>1, <3>2 DEF SatAdd
    <3>4. owed[d] + Amount <= max \/ max = MaxU128
      BY <1>1, <3>1, <3>2, <3>3
    <3>5. owed'[d] = owed[d] + Amount
      BY <1>4, <2>2 DEF AdmitVoucher
    <3>6. channels'[d] = Charge(channels[d], max)
      BY <1>4, <2>2 DEF AdmitVoucher
    <3>7. channels'[d].charged = max /\ channels'[d].lastMax = max
      BY <1>1, <3>1, <3>6 DEF Charge, ChannelState
    <3> QED BY <3>2, <3>4, <3>5, <3>7
  <2> QED BY <2>1, <2>2
<1>5. ASSUME NEW r \in Reqs, OpenChannel(r)
      PROVE  /\ owed'[d] <= channels'[d].charged \/ channels'[d].charged = MaxU128
             /\ channels'[d].charged <= channels'[d].lastMax
  <2>1. CASE req[r].cid # d
    BY <1>2, <1>5, <2>1 DEF OpenChannel
  <2>2. CASE req[r].cid = d
    <3>1. Amount <= req[r].max
      BY <1>5 DEF OpenChannel, RequestWF
    <3>2. owed'[d] = Amount /\ channels'[d] = Opened(req[r].max, req[r].snap)
      BY <1>5, <2>2 DEF OpenChannel
    <3> QED BY <3>1, <3>2, Constants DEF Opened, U128
  <2> QED BY <2>1, <2>2
<1>6. ASSUME NEW k \in Runs, Reconcile(k)
      PROVE  /\ owed'[d] <= channels'[d].charged \/ channels'[d].charged = MaxU128
             /\ channels'[d].charged <= channels'[d].lastMax
  <2>1. channels'[d] = Reconciled(run[k].batch)[d] /\ owed'[d] = owed[d]
    BY <1>6 DEF Reconcile, historyVars
  <2>2. channels[d] # None
    BY <2>1 DEF Reconciled
  <2>3. /\ channels'[d].charged = channels[d].charged
        /\ channels'[d].lastMax = channels[d].lastMax
    BY <1>1, <2>1, <2>2 DEF Reconciled, ChannelState
  <2> QED BY <1>1, <2>1, <2>2, <2>3
<1>7. CASE Restart
  BY <1>7 DEF Restart
<1> QED BY <1>3, <1>4, <1>5, <1>6, <1>7, TableSteps

(***************************************************************************)
(* The charge of a channel pays for every request admitted on it since its *)
(* deposit and the retained voucher is worth that charge, whatever the     *)
(* interleaving, the failures and the restarts.                            *)
(***************************************************************************)
THEOREM RevenueIsCovered == Spec => []RevenueCovered
<1>1. Init => RevenueCovered
  BY DEF Init, TableInit, RevenueCovered, Present
<1>2. TypeInv /\ TypeInv' /\ RevenueCovered /\ [Next]_vars => RevenueCovered'
  BY RevenueStep
<1> QED BY <1>1, <1>2, TypeInvariant, PTL DEF Spec

\* No charge reaches the edge when no voucher does.
BelowMax == \A c \in Present : channels[c].charged # MaxU128

LEMMA BelowMaxStep ==
  ASSUME MaxU128 \notin Vouchers, Amount # MaxU128, TypeInv, BelowMax, [Next]_vars
  PROVE  BelowMax'
<1> SUFFICES ASSUME NEW d \in Cids, channels'[d] # None
             PROVE  channels'[d].charged # MaxU128
  BY DEF BelowMax, Present
<1>1. /\ channels \in [Cids -> ChannelState \cup {None}]
      /\ channels[d] # None => channels[d].charged # MaxU128
  BY DEF BelowMax, Present, TypeInv, TypeOK, TableTypeOK
<1>2. CASE channels'[d] = channels[d]
  BY <1>1, <1>2
<1>3. ASSUME NEW r \in Reqs, NEW c \in Cids, NEW max \in Vouchers, AdmitVoucher(r, c, max)
      PROVE  channels'[d].charged # MaxU128
  <2>1. CASE c # d
    BY <1>1, <1>2, <1>3, <2>1 DEF AdmitVoucher
  <2>2. CASE c = d
    <3>1. channels[d] \in ChannelState /\ channels'[d] = Charge(channels[d], max)
      BY <1>1, <1>3, <2>2 DEF AdmitVoucher, Accepts
    <3>2. channels'[d].charged = max
      BY <3>1 DEF Charge, ChannelState
    <3> QED BY <3>2
  <2> QED BY <2>1, <2>2
<1>4. ASSUME NEW r \in Reqs, OpenChannel(r)
      PROVE  channels'[d].charged # MaxU128
  BY <1>1, <1>2, <1>4 DEF OpenChannel, Opened
<1>5. ASSUME NEW k \in Runs, Reconcile(k)
      PROVE  channels'[d].charged # MaxU128
  BY <1>1, <1>5 DEF Reconcile, Reconciled, ChannelState
<1>6. CASE UNCHANGED tableVars
  BY <1>2, <1>6 DEF tableVars
<1>7. CASE Restart
  BY <1>7 DEF Restart
<1> QED BY <1>3, <1>4, <1>5, <1>6, <1>7, TableSteps

(***************************************************************************)
(* Short of u128::MAX the charge of a channel is worth all the requests    *)
(* admitted on it since its deposit, their price added up exactly: where   *)
(* no price and no ceiling is u128::MAX, no voucher pays twice and no      *)
(* saturated sum admits a request for nothing.                             *)
(***************************************************************************)
THEOREM RequestsArePaidFor ==
  ASSUME MaxU128 \notin Vouchers, Amount # MaxU128
  PROVE  Spec => [](\A c \in Present : owed[c] <= channels[c].charged)
<1>1. Init => RevenueCovered /\ BelowMax
  BY DEF Init, TableInit, RevenueCovered, BelowMax, Present
<1>2. TypeInv /\ TypeInv' /\ RevenueCovered /\ BelowMax /\ [Next]_vars =>
        (RevenueCovered /\ BelowMax)'
  BY RevenueStep, BelowMaxStep
<1>3. RevenueCovered /\ BelowMax => \A c \in Present : owed[c] <= channels[c].charged
  BY DEF RevenueCovered, BelowMax
<1> QED BY <1>1, <1>2, <1>3, TypeInvariant, PTL DEF Spec

-----------------------------------------------------------------------------
(* What is written off was claimed.  The amount written to total_claimed   *)
(* comes from a snapshot taken earlier or from a batch sent earlier, so    *)
(* the invariant follows both from where they are read to where they are   *)
(* written; the contract's claimed total only grows in between.            *)

SnapshotIsPast(r) ==
  req[r].pc \in InFlight => req[r].snap.totalClaimed <= claimed[req[r].cid]

BatchIsClaimed(k) ==
  run[k].pc \in {"claimed", "settle", "settled"} =>
    \A c \in DOMAIN run[k].batch : run[k].batch[c] <= claimed[c]

ClaimsInv ==
  /\ WrittenOffIsClaimed
  /\ \A r \in Reqs : SnapshotIsPast(r)
  /\ \A k \in Runs : BatchIsClaimed(k)

\* The domain of a batch is a set of channels, its values are amounts.
LEMMA BatchOf ==
  ASSUME TypeInv, NEW k \in Runs
  PROVE  /\ DOMAIN run[k].batch \subseteq Cids
         /\ \A c \in DOMAIN run[k].batch : run[k].batch[c] \in U128
BY DEF TypeInv, TypeOK, RunTypeOK, RunState, Batches

\* The contract never takes a claim back.
LEMMA ClaimedGrows ==
  ASSUME TypeInv, [Next]_vars, NEW c \in Cids
  PROVE  /\ claimed[c] \in U128
         /\ claimed'[c] \in U128
         /\ claimed[c] <= claimed'[c]
<1>1. claimed[c] \in U128
  BY DEF TypeInv, TypeOK, EscrowTypeOK
<1>2. CASE claimed'[c] = claimed[c]
  BY <1>1, <1>2 DEF U128
<1>3. ASSUME NEW k \in Runs, ClaimExecuted(k)
      PROVE  claimed'[c] \in U128 /\ claimed[c] <= claimed'[c]
  <2>1. c \in DOMAIN run[k].batch => run[k].batch[c] \in U128
    BY BatchOf
  <2>2. claimed'[c] = IF c \in DOMAIN run[k].batch
                        THEN MaxOf(claimed[c], run[k].batch[c]) ELSE claimed[c]
    BY <1>3 DEF ClaimExecuted, ExecClaim
  <2> QED BY <1>1, <2>1, <2>2, MaxOfBounds DEF U128
<1> QED
  BY <1>1, <1>2, <1>3, EscrowSteps
     DEF escrowVars, DepositExecuted, ExecDeposit, SettleExecuted, ExecSettle,
         Withdraw, ExecWithdraw

LEMMA ClaimsStep ==
  ASSUME TypeInv, TypeInv', ClaimsInv, [Next]_vars
  PROVE  ClaimsInv'
<1>1. ASSUME NEW d \in Cids, channels'[d] # None
      PROVE  channels'[d].totalClaimed <= claimed'[d]
  <2>1. claimed[d] \in Nat /\ claimed'[d] \in Nat /\ claimed[d] <= claimed'[d]
    BY ClaimedGrows, Constants DEF U128
  <2>2. channels[d] # None =>
          /\ channels[d] \in ChannelState
          /\ channels[d].totalClaimed <= claimed[d]
    BY DEF TypeInv, TypeOK, TableTypeOK, ClaimsInv, WrittenOffIsClaimed, Present
  <2>3. channels[d] # None => channels[d].totalClaimed \in Nat
    BY <2>2, Constants DEF ChannelState, U128
  <2>4. CASE channels'[d] = channels[d]
    BY <1>1, <2>1, <2>2, <2>3, <2>4
  <2>5. ASSUME NEW r \in Reqs, NEW c \in Cids, NEW max \in Vouchers,
               AdmitVoucher(r, c, max), c = d
        PROVE  channels'[d].totalClaimed <= claimed'[d]
    <3>1. channels[d] # None /\ channels'[d] = Charge(channels[d], max)
      BY <2>5 DEF AdmitVoucher, Accepts, TypeInv, TypeOK, TableTypeOK
    <3>2. channels'[d].totalClaimed = channels[d].totalClaimed
      BY <2>2, <3>1 DEF Charge, ChannelState
    <3> QED BY <2>1, <2>2, <2>3, <3>1, <3>2
  <2>6. ASSUME NEW r \in Reqs, OpenChannel(r), req[r].cid = d
        PROVE  channels'[d].totalClaimed <= claimed'[d]
    <3>1. channels'[d] = Opened(req[r].max, req[r].snap)
      BY <2>6 DEF OpenChannel, TypeInv, TypeOK, TableTypeOK
    <3>2. req[r].snap.totalClaimed <= claimed[d]
      BY <2>6 DEF OpenChannel, ClaimsInv, SnapshotIsPast, InFlight
    <3>3. req[r].snap.totalClaimed \in Nat
      BY Constants DEF TypeInv, TypeOK, HandlerTypeOK, Request, Snapshot, U128
    <3> QED BY <2>1, <3>1, <3>2, <3>3 DEF Opened
  <2>7. ASSUME NEW k \in Runs, Reconcile(k), channels'[d] # channels[d]
        PROVE  channels'[d].totalClaimed <= claimed'[d]
    <3>1. /\ d \in DOMAIN run[k].batch /\ channels[d] # None
          /\ channels'[d] = [channels[d] EXCEPT !.totalClaimed = run[k].batch[d]]
      BY <2>7 DEF Reconcile, Reconciled
    <3>2. channels'[d].totalClaimed = run[k].batch[d]
      BY <2>2, <3>1 DEF ChannelState
    <3>3. run[k].batch[d] <= claimed[d]
      BY <2>7, <3>1 DEF Reconcile, ClaimsInv, BatchIsClaimed
    <3>4. run[k].batch[d] \in Nat
      BY <3>1, BatchOf, Constants DEF U128
    <3> QED BY <2>1, <3>2, <3>3, <3>4
  <2>8. CASE Restart
    BY <1>1, <2>8 DEF Restart
  <2>9. channels \in [Cids -> ChannelState \cup {None}]
    BY DEF TypeInv, TypeOK, TableTypeOK
  <2>10. ASSUME NEW r \in Reqs, NEW c \in Cids, NEW max \in Vouchers,
                AdmitVoucher(r, c, max), c # d
         PROVE  channels'[d] = channels[d]
    BY <2>9, <2>10 DEF AdmitVoucher
  <2>11. ASSUME NEW r \in Reqs, OpenChannel(r), req[r].cid # d
         PROVE  channels'[d] = channels[d]
    BY <2>9, <2>11 DEF OpenChannel
  <2>12. CASE UNCHANGED tableVars
    BY <2>4, <2>12 DEF tableVars
  <2> QED
    BY <2>4, <2>5, <2>6, <2>7, <2>8, <2>10, <2>11, <2>12, TableSteps
<1>2. ASSUME NEW s \in Reqs, req'[s].pc \in InFlight
      PROVE  req'[s].snap.totalClaimed <= claimed'[req'[s].cid]
  <2>1. req[s] \in Request /\ req'[s] \in Request
    BY DEF TypeInv, TypeOK, HandlerTypeOK
  <2>2. req'[s].cid \in Cids
    BY <1>2 DEF TypeInv, RequestWF
  <2>3. \A c \in Cids : claimed[c] \in Nat /\ claimed'[c] \in Nat
                          /\ claimed[c] <= claimed'[c]
    BY ClaimedGrows, Constants DEF U128
  <2>4. req'[s].snap.totalClaimed \in Nat
    BY <2>1, Constants DEF Request, Snapshot, U128
  <2>5. ASSUME req'[s].cid = req[s].cid, req[s].pc \in InFlight,
               req'[s].snap.totalClaimed = req[s].snap.totalClaimed
        PROVE  req'[s].snap.totalClaimed <= claimed'[req'[s].cid]
    <3>1. req[s].snap.totalClaimed <= claimed[req[s].cid]
      BY <2>5 DEF ClaimsInv, SnapshotIsPast
    <3> QED BY <2>2, <2>3, <2>4, <2>5, <3>1
  <2>6. ASSUME req'[s].snap = NoSnapshot
        PROVE  req'[s].snap.totalClaimed <= claimed'[req'[s].cid]
    BY <2>2, <2>3, <2>6 DEF NoSnapshot
  <2>7. ASSUME NEW c \in Cids, NEW max \in Vouchers, AdmitVoucher(s, c, max)
        PROVE  req'[s].snap = NoSnapshot
    BY <2>7 DEF AdmitVoucher, Become, Blank, TypeInv, TypeOK, HandlerTypeOK
  <2>8. ASSUME NEW c \in Cids, NEW max \in Vouchers, NEW value \in Deposits,
               PresentDeposit(s, c, max, value)
        PROVE  req'[s].snap = NoSnapshot
    BY <2>8 DEF PresentDeposit, Become, Blank, TypeInv, TypeOK, HandlerTypeOK
  <2>9. ASSUME DepositVerified(s)
        PROVE  req'[s].snap.totalClaimed <= claimed'[req'[s].cid]
    <3>1. req'[s] = [req[s] EXCEPT !.pc = "settle", !.snap = SnapshotOf(req[s].cid)]
      BY <2>9 DEF DepositVerified, Become, TypeInv, TypeOK, HandlerTypeOK
    <3>2. req'[s].cid = req[s].cid /\ req'[s].snap.totalClaimed = claimed[req[s].cid]
      BY <2>1, <3>1 DEF Request, SnapshotOf
    <3> QED BY <2>2, <2>3, <3>2
  <2>10. ASSUME NEW from \in SnapshotReplies, NEW lost \in SUBSET Unreadable,
                DepositExecuted(s, from, lost)
         PROVE  req'[s].snap.totalClaimed <= claimed'[req'[s].cid]
    <3> DEFINE after == [balance |-> escrow'[req[s].cid],
                         totalClaimed |-> claimed[req[s].cid]]
               snap == IF from = "settle" THEN after ELSE req[s].snap
    <3>1. req'[s] = [req[s] EXCEPT !.pc = "settled", !.snap = Parsed(snap, lost)]
      BY <2>10 DEF DepositExecuted, Become, TypeInv, TypeOK, HandlerTypeOK
    <3>2. req'[s].snap = Parsed(snap, lost) /\ req'[s].cid = req[s].cid
      BY <2>1, <3>1 DEF Request
    <3>3. req'[s].snap.totalClaimed \in {0, snap.totalClaimed}
      BY <3>2 DEF Parsed
    <3>4. CASE req'[s].snap.totalClaimed = 0
      BY <2>2, <2>3, <3>4
    <3>5. CASE from = "settle" /\ req'[s].snap.totalClaimed = snap.totalClaimed
      BY <2>2, <2>3, <3>2, <3>5
    <3>6. CASE from # "settle" /\ req'[s].snap.totalClaimed = snap.totalClaimed
      BY <2>5, <2>10, <3>2, <3>6 DEF DepositExecuted, InFlight
    <3> QED BY <3>3, <3>4, <3>5, <3>6
  <2>11. ASSUME OpenChannel(s)
         PROVE  req'[s].snap = NoSnapshot
    BY <2>1, <2>11
       DEF OpenChannel, Become, TypeInv, TypeOK, HandlerTypeOK, Request
  <2>12. CASE req'[s] = req[s]
    BY <1>2, <2>5, <2>12
  <2> QED
    BY <1>2, <2>6, <2>7, <2>8, <2>9, <2>10, <2>11, <2>12, SlotSteps
<1>3. ASSUME NEW j \in Runs, run'[j].pc \in {"claimed", "settle", "settled"},
             NEW c \in DOMAIN run'[j].batch
      PROVE  run'[j].batch[c] <= claimed'[c]
  <2>1. run[j] \in RunState /\ run'[j] \in RunState
    BY DEF TypeInv, TypeOK, RunTypeOK
  <2>2. c \in Cids /\ run'[j].batch[c] \in Nat
    BY <1>3, <2>1, Constants DEF RunState, Batches, U128
  <2>3. claimed[c] \in Nat /\ claimed'[c] \in Nat /\ claimed[c] <= claimed'[c]
    BY <2>2, ClaimedGrows, Constants DEF U128
  <2>4. ASSUME run'[j].batch = run[j].batch,
               run[j].pc \in {"claimed", "settle", "settled"}
        PROVE  run'[j].batch[c] <= claimed'[c]
    BY <1>3, <2>2, <2>3, <2>4 DEF ClaimsInv, BatchIsClaimed
  <2>5. CASE run'[j] = run[j]
    BY <1>3, <2>4, <2>5
  <2>6. CASE PostSettle(j) \/ SettleExecuted(j)
    BY <2>1, <2>4, <2>6
       DEF PostSettle, SettleExecuted, TypeInv, TypeOK, RunTypeOK, RunState
  <2>7. CASE ClaimExecuted(j)
    <3>1. run'[j].batch = run[j].batch
      BY <2>1, <2>7 DEF ClaimExecuted, TypeInv, TypeOK, RunTypeOK, RunState
    <3>2. claimed'[c] = MaxOf(claimed[c], run[j].batch[c])
      BY <1>3, <2>2, <2>7, <3>1 DEF ClaimExecuted, ExecClaim
    <3> QED BY <2>2, <2>3, <3>1, <3>2 DEF MaxOf
  <2>8. CASE StartRun(j) \/ run'[j] = Idle
    BY <1>3, <2>8 DEF StartRun, Idle, TypeInv, TypeOK, RunTypeOK
  <2> QED BY <2>5, <2>6, <2>7, <2>8, RunSteps
<1> QED
  BY <1>1, <1>2, <1>3
     DEF ClaimsInv, WrittenOffIsClaimed, Present, SnapshotIsPast, BatchIsClaimed

(***************************************************************************)
(* The server never writes off an amount that the contract has not         *)
(* claimed, whatever a snapshot or an overlapping run has overtaken.       *)
(***************************************************************************)
THEOREM WriteOffsAreClaimed == Spec => []WrittenOffIsClaimed
<1>1. Init => ClaimsInv
  BY DEF Init, TableInit, EscrowInit, HandlerInit, RunInit, Blank, Idle, InFlight,
         ClaimsInv, WrittenOffIsClaimed, Present, SnapshotIsPast, BatchIsClaimed
<1>2. TypeInv /\ TypeInv' /\ ClaimsInv /\ [Next]_vars => ClaimsInv'
  BY ClaimsStep
<1>3. ClaimsInv => WrittenOffIsClaimed
  BY DEF ClaimsInv
<1> QED BY <1>1, <1>2, <1>3, TypeInvariant, PTL DEF Spec

-----------------------------------------------------------------------------
(* The router implements PaymentChannel.  A claim stays within what was    *)
(* handed over because the retained vouchers and the batches read from     *)
(* them do; a settle pays out what is claimed.                             *)

CollectInv ==
  /\ \A c \in Present : channels[c].lastMax <= ceiling[c]
  /\ \A k \in Runs : \A c \in DOMAIN run[k].batch : run[k].batch[c] <= ceiling[c]
  /\ \A c \in Cids : settled[c] <= claimed[c] /\ claimed[c] <= escrow[c]

\* The highest ceiling handed over never falls, and only a request raises it.
LEMMA CeilingGrows ==
  ASSUME TypeInv, [Next]_vars, NEW c \in Cids
  PROVE  ceiling[c] \in Nat /\ ceiling'[c] \in Nat /\ ceiling[c] <= ceiling'[c]
<1>1. ceiling \in [Cids -> U128] /\ ceiling[c] \in Nat
  BY Constants DEF TypeInv, TypeOK, TableTypeOK, U128
<1>2. CASE ceiling' = ceiling
  BY <1>1, <1>2
<1>3. ASSUME NEW d \in Cids, NEW max \in U128, HandOver(d, max)
      PROVE  ceiling'[c] \in Nat /\ ceiling[c] <= ceiling'[c]
  <2>1. ceiling[d] \in U128 /\ ceiling' = [ceiling EXCEPT ![d] = MaxOf(ceiling[d], max)]
    BY <1>1, <1>3 DEF HandOver
  <2>2. MaxOf(ceiling[d], max) \in U128 /\ MaxOf(ceiling[d], max) >= ceiling[d]
    BY <1>3, <2>1, MaxOfBounds
  <2>3. MaxOf(ceiling[d], max) \in Nat
    BY <2>2, Constants DEF U128
  <2> QED BY <1>1, <2>1, <2>2, <2>3
<1>4. ASSUME NEW r \in Reqs, OpenChannel(r)
      PROVE  ceiling'[c] \in Nat /\ ceiling[c] <= ceiling'[c]
  <2>1. req[r].cid \in Cids /\ req[r].max \in U128
    BY <1>4 DEF OpenChannel, TypeInv, TypeOK, HandlerTypeOK, Request, RequestWF, InFlight
  <2> QED BY <1>3, <1>4, <2>1 DEF OpenChannel
<1>5. ASSUME NEW r \in Reqs, NEW d \in Cids, NEW max \in Vouchers, AdmitVoucher(r, d, max)
      PROVE  ceiling'[c] \in Nat /\ ceiling[c] <= ceiling'[c]
  BY <1>3, <1>5, Constants DEF AdmitVoucher
<1> QED
  BY <1>1, <1>2, <1>4, <1>5, TableSteps
     DEF tableVars, historyVars, Reconcile, Restart

LEMMA CollectStep ==
  ASSUME TypeInv, TypeInv', CollectInv, [Next]_vars
  PROVE  CollectInv'
<1>1. ASSUME NEW d \in Cids, channels'[d] # None
      PROVE  channels'[d].lastMax <= ceiling'[d]
  <2>1. ceiling[d] \in Nat /\ ceiling'[d] \in Nat /\ ceiling[d] <= ceiling'[d]
    BY CeilingGrows
  <2>2. channels \in [Cids -> ChannelState \cup {None}] /\ ceiling \in [Cids -> U128]
    BY DEF TypeInv, TypeOK, TableTypeOK
  <2>3. channels[d] # None =>
          /\ channels[d] \in ChannelState
          /\ channels[d].lastMax \in Nat
          /\ channels[d].lastMax <= ceiling[d]
    BY <2>2, Constants DEF CollectInv, Present, ChannelState, U128
  <2>4. ASSUME channels[d] # None, channels'[d].lastMax = channels[d].lastMax
        PROVE  channels'[d].lastMax <= ceiling'[d]
    BY <2>1, <2>3, <2>4
  <2>5. ASSUME NEW max \in U128, HandOver(d, max), channels'[d].lastMax = max
        PROVE  channels'[d].lastMax <= ceiling'[d]
    BY <2>2, <2>5, MaxOfBounds DEF HandOver
  <2>6. ASSUME NEW r \in Reqs, NEW c \in Cids, NEW max \in Vouchers,
               AdmitVoucher(r, c, max)
        PROVE  channels'[d].lastMax <= ceiling'[d]
    <3>1. CASE c # d
      BY <1>1, <2>2, <2>4, <2>6, <3>1 DEF AdmitVoucher
    <3>2. CASE c = d
      <4>1. channels'[d] = Charge(channels[d], max) /\ channels[d] # None
        BY <2>2, <2>6, <3>2 DEF AdmitVoucher, Accepts
      <4>2. channels'[d].lastMax = max
        BY <2>3, <4>1 DEF Charge, ChannelState
      <4> QED BY <2>5, <2>6, <3>2, <4>2, Constants DEF AdmitVoucher
    <3> QED BY <3>1, <3>2
  <2>7. ASSUME NEW r \in Reqs, OpenChannel(r)
        PROVE  channels'[d].lastMax <= ceiling'[d]
    <3>1. CASE req[r].cid # d
      BY <1>1, <2>2, <2>4, <2>7, <3>1 DEF OpenChannel
    <3>2. CASE req[r].cid = d
      <4>1. channels'[d].lastMax = req[r].max
        BY <2>2, <2>7, <3>2 DEF OpenChannel, Opened
      <4>2. req[r].max \in U128
        BY DEF TypeInv, TypeOK, HandlerTypeOK, Request
      <4> QED BY <2>5, <2>7, <3>2, <4>1, <4>2 DEF OpenChannel
    <3> QED BY <3>1, <3>2
  <2>8. ASSUME NEW k \in Runs, Reconcile(k)
        PROVE  channels'[d].lastMax <= ceiling'[d]
    <3>1. channels'[d] = Reconciled(run[k].batch)[d]
      BY <2>8 DEF Reconcile
    <3>2. channels[d] # None
      BY <1>1, <3>1 DEF Reconciled
    <3>3. channels'[d].lastMax = channels[d].lastMax
      BY <2>3, <3>1, <3>2 DEF Reconciled, ChannelState
    <3> QED BY <2>4, <3>2, <3>3
  <2>9. CASE UNCHANGED tableVars
    BY <1>1, <2>4, <2>9 DEF tableVars
  <2>10. CASE Restart
    BY <1>1, <2>10 DEF Restart
  <2> QED BY <2>6, <2>7, <2>8, <2>9, <2>10, TableSteps
<1>2. ASSUME NEW j \in Runs, NEW c \in DOMAIN run'[j].batch
      PROVE  run'[j].batch[c] <= ceiling'[c]
  <2>1. run[j] \in RunState /\ run'[j] \in RunState /\ run \in [Runs -> RunState]
    BY DEF TypeInv, TypeOK, RunTypeOK
  <2>2. c \in Cids /\ run'[j].batch[c] \in Nat
    BY <1>2, <2>1, Constants DEF RunState, Batches, U128
  <2>3. ceiling[c] \in Nat /\ ceiling'[c] \in Nat /\ ceiling[c] <= ceiling'[c]
    BY <2>2, CeilingGrows
  <2>4. CASE run'[j].batch = run[j].batch
    BY <1>2, <2>2, <2>3, <2>4 DEF CollectInv
  <2>5. CASE ClaimExecuted(j) \/ PostSettle(j) \/ SettleExecuted(j)
    BY <2>1, <2>4, <2>5 DEF ClaimExecuted, PostSettle, SettleExecuted, RunState
  <2>6. CASE StartRun(j)
    <3>1. run'[j].batch = ClaimBatch
      BY <2>1, <2>6 DEF StartRun
    <3>2. c \in Present /\ run'[j].batch[c] = channels[c].lastMax
      BY <1>2, <3>1 DEF ClaimBatch, ClaimableCids
    <3>3. channels[c].lastMax <= ceiling[c]
      BY <3>2 DEF CollectInv
    <3> QED BY <2>2, <2>3, <3>2, <3>3
  <2>7. CASE run'[j] = Idle
    BY <1>2, <2>7 DEF Idle
  <2> QED BY <2>4, <2>5, <2>6, <2>7, RunSteps
<1>3. ASSUME NEW c \in Cids
      PROVE  settled'[c] <= claimed'[c] /\ claimed'[c] <= escrow'[c]
  <2>1. /\ claimed[c] \in Nat /\ claimed'[c] \in Nat /\ claimed[c] <= claimed'[c]
        /\ settled[c] \in Nat /\ settled[c] <= claimed[c]
    BY ClaimedGrows, Constants
       DEF CollectInv, TypeInv, TypeOK, EscrowTypeOK, U128
  <2>2. settled'[c] = settled[c] \/ settled'[c] = claimed'[c]
    BY EscrowSteps DEF escrowVars, DepositExecuted, ExecDeposit, ClaimExecuted,
                       ExecClaim, SettleExecuted, ExecSettle, Withdraw, ExecWithdraw
  <2>3. /\ escrow \in [Cids -> 0..EscrowCap] /\ escrow[c] \in Nat
        /\ claimed[c] <= escrow[c]
    BY Constants DEF CollectInv, TypeInv, TypeOK, EscrowTypeOK, U128
  <2>4. ASSUME UNCHANGED <<escrow, claimed>>
        PROVE  claimed'[c] <= escrow'[c]
    BY <2>3, <2>4
  <2>5. ASSUME NEW r \in Reqs, NEW from \in SnapshotReplies,
               NEW lost \in SUBSET Unreadable, DepositExecuted(r, from, lost)
        PROVE  claimed'[c] <= escrow'[c]
    <3>1. req[r].value \in Nat
      BY Constants DEF TypeInv, TypeOK, HandlerTypeOK, Request, U128
    <3>2. /\ escrow' = [escrow EXCEPT ![req[r].cid] = @ + req[r].value]
          /\ claimed' = claimed
      BY <2>5 DEF DepositExecuted, ExecDeposit
    <3>3. CASE req[r].cid = c
      BY <2>1, <2>3, <3>1, <3>2, <3>3
    <3>4. CASE req[r].cid # c
      BY <2>1, <2>3, <3>2, <3>4
    <3> QED BY <3>3, <3>4
  <2>6. ASSUME NEW k \in Runs, ClaimExecuted(k)
        PROVE  claimed'[c] <= escrow'[c]
    <3>1. /\ c \in DOMAIN run[k].batch => run[k].batch[c] <= escrow[c]
          /\ claimed'[c] = IF c \in DOMAIN run[k].batch
                             THEN MaxOf(claimed[c], run[k].batch[c]) ELSE claimed[c]
          /\ escrow' = escrow
      BY <2>6 DEF ClaimExecuted, ExecClaim, Covered
    <3> QED BY <2>3, <3>1 DEF MaxOf
  <2>7. ASSUME NEW d \in Cids, NEW left \in Remainders, Withdraw(d, left)
        PROVE  claimed'[c] <= escrow'[c]
    <3>1. /\ left \in claimed[d]..escrow[d] /\ claimed' = claimed
          /\ escrow' = [escrow EXCEPT ![d] = left]
      BY <2>7 DEF Withdraw, ExecWithdraw
    <3>2. CASE c = d
      BY <2>1, <2>3, <3>1, <3>2
    <3>3. CASE c # d
      BY <2>3, <3>1, <3>3
    <3> QED BY <3>2, <3>3
  <2>8. claimed'[c] <= escrow'[c]
    BY <2>4, <2>5, <2>6, <2>7, EscrowSteps
       DEF escrowVars, SettleExecuted, ExecSettle
  <2> QED BY <2>1, <2>2, <2>8
<1> QED BY <1>1, <1>2, <1>3 DEF CollectInv, Present

\* Every step of the router is a step of the payment channel, or none.
LEMMA LedgerStep ==
  ASSUME TypeInv, TypeInv', CollectInv, [Next]_vars
  PROVE  [Ledger!Next]_Ledger!vars
<1> USE DEF Ledger!Next, Ledger!vars
<1>1. \A c \in Cids : ceiling[c] <= ceiling'[c] /\ ceiling[c] \in Nat
  BY CeilingGrows
<1>2. ASSUME UNCHANGED tableVars PROVE UNCHANGED ceiling
  BY <1>2 DEF tableVars, historyVars
<1>3. ASSUME UNCHANGED escrowVars PROVE [Ledger!Next]_Ledger!vars
  <2>1. \A c \in Cids : ceiling'[c] \in Nat /\ ceiling'[c] >= ceiling[c]
    BY CeilingGrows
  <2>2. Ledger!HandOver
    BY <1>3, <2>1 DEF Ledger!HandOver, escrowVars
  <2> QED BY <2>2
<1>4. ASSUME NEW r \in Reqs, NEW from \in SnapshotReplies,
             NEW lost \in SUBSET Unreadable, DepositExecuted(r, from, lost)
      PROVE  Ledger!Fund
  <2>1. escrow \in [Cids -> 0..EscrowCap] /\ EscrowCap \in Nat
    BY Constants DEF TypeInv, TypeOK, EscrowTypeOK, U128
  <2>2. req[r].value \in Nat
    BY Constants DEF TypeInv, TypeOK, HandlerTypeOK, Request, U128
  <2>3. escrow' = [escrow EXCEPT ![req[r].cid] = @ + req[r].value]
    BY <1>4 DEF DepositExecuted, ExecDeposit
  <2>4. \A c \in Cids : escrow'[c] >= escrow[c]
    BY <2>1, <2>2, <2>3
  <2> QED
    BY <1>2, <1>4, <2>4 DEF Ledger!Fund, DepositExecuted, ExecDeposit
<1>5. ASSUME NEW k \in Runs, ClaimExecuted(k)
      PROVE  Ledger!Collect
  <2>1. ASSUME NEW c \in Cids
        PROVE  /\ claimed'[c] >= claimed[c]
               /\ claimed'[c] > claimed[c] =>
                    claimed'[c] <= ceiling[c] /\ claimed'[c] <= escrow[c]
    <3>1. claimed[c] \in Nat /\ claimed'[c] \in Nat /\ claimed[c] <= claimed'[c]
      BY ClaimedGrows, Constants DEF U128
    <3>2. claimed'[c] = IF c \in DOMAIN run[k].batch
                          THEN MaxOf(claimed[c], run[k].batch[c]) ELSE claimed[c]
      BY <1>5 DEF ClaimExecuted, ExecClaim
    <3>3. c \in DOMAIN run[k].batch =>
            run[k].batch[c] <= escrow[c] /\ run[k].batch[c] <= ceiling[c]
      BY <1>5 DEF ClaimExecuted, ExecClaim, Covered, CollectInv
    <3>4. c \in DOMAIN run[k].batch => run[k].batch[c] \in Nat
      BY BatchOf, Constants DEF U128
    <3> QED BY <3>1, <3>2, <3>3, <3>4 DEF MaxOf
  <2> QED
    BY <1>2, <1>5, <2>1 DEF Ledger!Collect, ClaimExecuted, ExecClaim
<1>6. ASSUME NEW k \in Runs, SettleExecuted(k)
      PROVE  Ledger!PayOut
  <2>1. \A c \in Cids : /\ settled[c] \in Nat /\ claimed[c] \in Nat
                         /\ settled[c] <= claimed[c]
    BY Constants DEF CollectInv, TypeInv, TypeOK, EscrowTypeOK, U128
  <2>2. settled' = claimed
    BY <1>6 DEF SettleExecuted, ExecSettle
  <2>3. \A c \in Cids : settled'[c] \in settled[c]..claimed[c]
    BY <2>1, <2>2
  <2> QED
    BY <1>2, <1>6, <2>3 DEF Ledger!PayOut, SettleExecuted, ExecSettle
<1>7. ASSUME NEW c \in Cids, NEW left \in Remainders, Withdraw(c, left)
      PROVE  Ledger!Withdraw
  <2>1. \A d \in Cids : /\ escrow[d] \in Nat /\ claimed[d] \in Nat
                         /\ claimed[d] <= escrow[d]
    BY Constants DEF CollectInv, TypeInv, TypeOK, EscrowTypeOK, U128
  <2>2. /\ escrow' = [escrow EXCEPT ![c] = left]
        /\ left \in claimed[c]..escrow[c]
    BY <1>7 DEF Withdraw, ExecWithdraw
  <2>3. \A d \in Cids : escrow'[d] \in claimed[d]..escrow[d]
    BY <2>1, <2>2 DEF TypeInv, TypeOK, EscrowTypeOK
  <2> QED
    BY <1>2, <1>7, <2>3 DEF Ledger!Withdraw, Withdraw, ExecWithdraw
<1> QED BY <1>3, <1>4, <1>5, <1>6, <1>7, EscrowSteps

(***************************************************************************)
(* The router, its facilitator and its failures implement a payment        *)
(* channel: nothing is collected beyond the escrow or beyond the highest   *)
(* voucher handed over, and nothing is paid out that was not collected.    *)
(***************************************************************************)
THEOREM ImplementsPaymentChannel == Spec => IsPaymentChannel
<1>1. Init => CollectInv /\ Ledger!Init
  BY DEF Init, TableInit, EscrowInit, RunInit, Idle, CollectInv, Present, Ledger!Init
<1>2. TypeInv /\ TypeInv' /\ CollectInv /\ [Next]_vars => CollectInv'
  BY CollectStep
<1>3. TypeInv /\ TypeInv' /\ CollectInv /\ [Next]_vars => [Ledger!Next]_Ledger!vars
  BY LedgerStep
<1> QED
  BY <1>1, <1>2, <1>3, TypeInvariant, PTL DEF Spec, IsPaymentChannel, Ledger!Spec

-----------------------------------------------------------------------------
(* A run that writes back was paid out: its claim is executed before its   *)
(* settle, which pays out everything claimed, and neither is taken back.   *)

BatchIsPaidOut(k) ==
  run[k].pc = "settled" =>
    \A c \in DOMAIN run[k].batch : run[k].batch[c] <= settled[c]

\* The contract never takes a payment back.
LEMMA SettledGrows ==
  ASSUME TypeInv, CollectInv, [Next]_vars, NEW c \in Cids
  PROVE  settled[c] \in Nat /\ settled'[c] \in Nat /\ settled[c] <= settled'[c]
<1>1. settled[c] \in Nat /\ claimed[c] \in Nat /\ settled[c] <= claimed[c]
  BY Constants DEF TypeInv, TypeOK, EscrowTypeOK, CollectInv, U128
<1>2. settled'[c] = settled[c] \/ settled'[c] = claimed[c]
  BY EscrowSteps DEF escrowVars, DepositExecuted, ExecDeposit, ClaimExecuted,
                     ExecClaim, SettleExecuted, ExecSettle, Withdraw, ExecWithdraw
<1> QED BY <1>1, <1>2

LEMMA BatchIsPaidOutStep ==
  ASSUME TypeInv, TypeInv', ClaimsInv, CollectInv, [Next]_vars,
         NEW k \in Runs, BatchIsPaidOut(k)
  PROVE  BatchIsPaidOut(k)'
<1> SUFFICES ASSUME run'[k].pc = "settled", NEW c \in DOMAIN run'[k].batch
             PROVE  run'[k].batch[c] <= settled'[c]
  BY DEF BatchIsPaidOut
<1>1. c \in Cids /\ run'[k].batch[c] \in Nat
  BY Constants DEF TypeInv, TypeOK, RunTypeOK, RunState, Batches, U128
<1>2. settled[c] \in Nat /\ settled'[c] \in Nat /\ settled[c] <= settled'[c]
  BY <1>1, SettledGrows
<1>3. run \in [Runs -> RunState] /\ run[k] \in RunState
  BY DEF TypeInv, TypeOK, RunTypeOK
<1>4. CASE run'[k] = run[k]
  <2>1. run[k].batch[c] <= settled[c]
    BY <1>4 DEF BatchIsPaidOut
  <2> QED BY <1>1, <1>2, <1>4, <2>1
<1>5. CASE SettleExecuted(k)
  <2>1. run'[k].batch = run[k].batch /\ run[k].pc = "settle" /\ settled' = claimed
    BY <1>3, <1>5 DEF SettleExecuted, ExecSettle, RunState
  <2>2. run[k].batch[c] <= claimed[c]
    BY <2>1 DEF ClaimsInv, BatchIsClaimed
  <2> QED BY <2>1, <2>2
<1>6. CASE StartRun(k) \/ ClaimExecuted(k) \/ PostSettle(k) \/ run'[k] = Idle
  BY <1>3, <1>6 DEF StartRun, ClaimExecuted, PostSettle, Idle, RunState
<1> QED BY <1>4, <1>5, <1>6, RunSteps

\* What a write-back makes of an entry: it is claimable again only for a
\* charge, hence for a voucher, above the ceiling that was claimed.
LEMMA WriteBackEndsClaim ==
  ASSUME TypeInv, RevenueCovered, NEW k \in Runs, Reconcile(k),
         NEW c \in DOMAIN run[k].batch, c \in ClaimableCids'
  PROVE  channels[c].lastMax > run[k].batch[c]
<1>1. c \in Cids /\ run[k].batch[c] \in Nat
  BY BatchOf, Constants DEF U128
<1>2. channels'[c] = Reconciled(run[k].batch)[c] /\ channels'[c] # None
  BY DEF Reconcile, ClaimableCids, Present
<1>3. /\ channels[c] # None
      /\ channels'[c] = [channels[c] EXCEPT !.totalClaimed = run[k].batch[c]]
  BY <1>1, <1>2 DEF Reconciled
<1>4. channels[c] \in ChannelState
  BY <1>1, <1>3 DEF TypeInv, TypeOK, TableTypeOK
<1>5. channels'[c].charged = channels[c].charged /\ channels'[c].totalClaimed = run[k].batch[c]
  BY <1>3, <1>4 DEF ChannelState
<1>6. channels[c].charged > run[k].batch[c]
  BY <1>5 DEF ClaimableCids, Claimable
<1>7. channels[c].charged <= channels[c].lastMax
  BY <1>1, <1>3 DEF RevenueCovered, Present
<1>8. channels[c].charged \in Nat /\ channels[c].lastMax \in Nat
  BY <1>4, Constants DEF ChannelState, U128
<1> QED BY <1>1, <1>6, <1>7, <1>8

(***************************************************************************)
(* Whatever overlaps it, a run that completes has paid out what it writes  *)
(* off, and repeating it claims nothing that it has claimed already.       *)
(***************************************************************************)
THEOREM CompletedRunsAreFinal == Spec => CompletedRunIsFinal
<1> DEFINE RunInv == RevenueCovered /\ ClaimsInv /\ CollectInv
                     /\ \A k \in Runs : BatchIsPaidOut(k)
<1>1. Init => RunInv
  BY DEF Init, TableInit, EscrowInit, HandlerInit, RunInit, Idle, Blank, CollectInv,
         ClaimsInv, WrittenOffIsClaimed, SnapshotIsPast, InFlight, BatchIsClaimed,
         RevenueCovered, Present, BatchIsPaidOut
<1>2. TypeInv /\ TypeInv' /\ RunInv /\ [Next]_vars => RunInv'
  BY RevenueStep, ClaimsStep, CollectStep, BatchIsPaidOutStep
<1>3. ASSUME TypeInv, RunInv, NEW k \in Runs, Reconcile(k),
             NEW c \in DOMAIN run[k].batch
      PROVE  /\ run[k].batch[c] <= settled[c]
             /\ c \in ClaimableCids' => channels[c].lastMax > run[k].batch[c]
  BY <1>3, WriteBackEndsClaim DEF Reconcile, BatchIsPaidOut
<1>4. TypeInv /\ RunInv =>
        [\A k \in Runs : Reconcile(k) =>
           \A c \in DOMAIN run[k].batch :
             /\ run[k].batch[c] <= settled[c]
             /\ c \in ClaimableCids' => channels[c].lastMax > run[k].batch[c]]_vars
  BY <1>3
<1> QED BY <1>1, <1>2, <1>4, TypeInvariant, PTL DEF Spec, CompletedRunIsFinal

-----------------------------------------------------------------------------
(* The policy as the payer sees it: what it compares a voucher with, which *)
(* is charged and total_claimed, is within what the payer has signed.      *)

ClaimedIsSigned == \A c \in Cids : claimed[c] <= ceiling[c]

LEMMA ClaimedIsSignedStep ==
  ASSUME TypeInv, CollectInv, ClaimedIsSigned, [Next]_vars
  PROVE  ClaimedIsSigned'
<1> SUFFICES ASSUME NEW c \in Cids
             PROVE  claimed'[c] <= ceiling'[c]
  BY DEF ClaimedIsSigned
<1>1. /\ claimed[c] \in Nat /\ claimed[c] <= ceiling[c]
      /\ ceiling[c] \in Nat /\ ceiling'[c] \in Nat /\ ceiling[c] <= ceiling'[c]
  BY CeilingGrows, Constants DEF ClaimedIsSigned, TypeInv, TypeOK, EscrowTypeOK, U128
<1>2. CASE claimed' = claimed
  BY <1>1, <1>2
<1>3. ASSUME NEW k \in Runs, ClaimExecuted(k)
      PROVE  claimed'[c] <= ceiling'[c]
  <2>1. claimed'[c] = IF c \in DOMAIN run[k].batch
                        THEN MaxOf(claimed[c], run[k].batch[c]) ELSE claimed[c]
    BY <1>3 DEF ClaimExecuted, ExecClaim
  <2>2. c \in DOMAIN run[k].batch =>
          run[k].batch[c] \in Nat /\ run[k].batch[c] <= ceiling[c]
    BY BatchOf, Constants DEF CollectInv, U128
  <2> QED BY <1>1, <2>1, <2>2 DEF MaxOf
<1> QED
  BY <1>2, <1>3, EscrowSteps
     DEF escrowVars, DepositExecuted, ExecDeposit, SettleExecuted, ExecSettle,
         Withdraw, ExecWithdraw

(***************************************************************************)
(* If a request has a price, a payer that signs it on top of its highest   *)
(* voucher is admitted while the balance lasts, whatever runs, restarts    *)
(* and deposits have done to the entry.                                    *)
(***************************************************************************)
THEOREM PayersAreAdmitted ==
  ASSUME Amount > 0
  PROVE  Spec => []NextVoucherIsAdmitted
<1>1. Init => CollectInv /\ ClaimedIsSigned /\ ClaimsInv /\ RevenueCovered
  BY DEF Init, TableInit, EscrowInit, HandlerInit, RunInit, Idle, Blank, CollectInv,
         ClaimsInv, WrittenOffIsClaimed, SnapshotIsPast, InFlight, BatchIsClaimed,
         RevenueCovered, Present, ClaimedIsSigned
<1>2. TypeInv /\ TypeInv' /\ CollectInv /\ ClaimedIsSigned /\ ClaimsInv
        /\ RevenueCovered /\ [Next]_vars =>
        (CollectInv /\ ClaimedIsSigned /\ ClaimsInv /\ RevenueCovered)'
  BY CollectStep, ClaimedIsSignedStep, ClaimsStep, RevenueStep
<1>3. ASSUME TypeInv, CollectInv, ClaimedIsSigned, ClaimsInv, RevenueCovered,
             NEW c \in Present,
             ceiling[c] + Amount <= channels[c].balance
      PROVE  Admits(channels[c], ceiling[c] + Amount)
  <2> DEFINE s == channels[c]
  <2>1. /\ s.charged \in Nat /\ s.lastMax \in Nat /\ s.balance \in Nat
        /\ s.totalClaimed \in Nat /\ claimed[c] \in Nat /\ ceiling[c] \in Nat
        /\ Amount \in Nat /\ MaxU128 \in Nat /\ s.charged <= MaxU128
    BY <1>3, Constants
       DEF TypeInv, TypeOK, TableTypeOK, EscrowTypeOK, Present, ChannelState, U128
  <2>2. s.totalClaimed <= claimed[c] /\ claimed[c] <= ceiling[c]
    BY <1>3 DEF ClaimsInv, WrittenOffIsClaimed, ClaimedIsSigned, Present
  <2>3. s.charged <= s.lastMax /\ s.lastMax <= ceiling[c]
    BY <1>3 DEF RevenueCovered, CollectInv
  <2>4. SatAdd(s.charged, Amount) <= ceiling[c] + Amount
    BY <2>1, <2>3 DEF SatAdd
  <2> QED BY <1>3, <2>1, <2>2, <2>4 DEF Admits
<1>4. TypeInv /\ CollectInv /\ ClaimedIsSigned /\ ClaimsInv /\ RevenueCovered =>
        NextVoucherIsAdmitted
  BY <1>3 DEF NextVoucherIsAdmitted
<1> QED BY <1>1, <1>2, <1>4, TypeInvariant, PTL DEF Spec

-----------------------------------------------------------------------------
(* Capital backing, where the facilitator's /settle answer carries the     *)
(* balance, no payer withdraws and a request has a price.  The balance in  *)
(* the table is then a past reading of an escrow that only grows; a        *)
(* deposit voucher was checked against the escrow it is about to create,   *)
(* and its channel is not empty, so the sentinel is never used.            *)

StateAfterSettle ==
  /\ SnapshotReplies = {"settle"} /\ "balance" \notin Unreadable
  /\ Remainders = {}
  /\ Amount > 0

DepositIsBacked(r) ==
  LET q == req[r] IN
  /\ q.pc = "settle"  => q.max <= escrow[q.cid] + q.value
  /\ q.pc = "settled" => /\ q.max <= escrow[q.cid]
                         /\ 0 < q.snap.balance /\ q.snap.balance <= escrow[q.cid]

EntryIsBacked(s, funds) ==
  s.balance <= funds /\ s.charged <= funds /\ s.lastMax <= funds

CapitalInv ==
  /\ \A c \in Present : EntryIsBacked(channels[c], escrow[c])
  /\ \A r \in Reqs : DepositIsBacked(r)
  /\ \A k \in Runs : Covered(run[k].batch)

\* Where nobody withdraws the escrow of a channel only grows.
LEMMA EscrowGrows ==
  ASSUME StateAfterSettle, TypeInv, [Next]_vars, NEW c \in Cids
  PROVE  escrow[c] \in Nat /\ escrow'[c] \in Nat /\ escrow[c] <= escrow'[c]
<1>1. escrow \in [Cids -> 0..EscrowCap] /\ escrow[c] \in Nat
  BY Constants DEF TypeInv, TypeOK, EscrowTypeOK, U128
<1>2. CASE escrow' = escrow
  BY <1>1, <1>2
<1>3. ASSUME NEW r \in Reqs, NEW from \in SnapshotReplies,
             NEW lost \in SUBSET Unreadable, DepositExecuted(r, from, lost)
      PROVE  escrow'[c] \in Nat /\ escrow[c] <= escrow'[c]
  <2>1. req[r].value \in Nat
    BY Constants DEF TypeInv, TypeOK, HandlerTypeOK, Request, U128
  <2>2. escrow' = [escrow EXCEPT ![req[r].cid] = @ + req[r].value]
    BY <1>3 DEF DepositExecuted, ExecDeposit
  <2>3. CASE req[r].cid = c
    BY <1>1, <2>1, <2>2, <2>3
  <2>4. CASE req[r].cid # c
    BY <1>1, <2>2, <2>4
  <2> QED BY <2>3, <2>4
<1> QED
  BY <1>1, <1>2, <1>3, EscrowSteps
     DEF StateAfterSettle, escrowVars, ClaimExecuted, ExecClaim, SettleExecuted,
         ExecSettle, Withdraw, ExecWithdraw

LEMMA CapitalStep ==
  ASSUME StateAfterSettle, TypeInv, TypeInv', CapitalInv, [Next]_vars
  PROVE  CapitalInv'
<1>1. ASSUME NEW d \in Cids, channels'[d] # None
      PROVE  EntryIsBacked(channels'[d], escrow'[d])
  <2>1. escrow[d] \in Nat /\ escrow'[d] \in Nat /\ escrow[d] <= escrow'[d]
    BY EscrowGrows
  <2>2. channels \in [Cids -> ChannelState \cup {None}]
    BY DEF TypeInv, TypeOK, TableTypeOK
  <2>3. channels[d] # None =>
          /\ channels[d] \in ChannelState
          /\ channels[d].balance \in Nat /\ channels[d].charged \in Nat
          /\ channels[d].lastMax \in Nat
          /\ EntryIsBacked(channels[d], escrow[d])
    BY <2>2, Constants DEF CapitalInv, Present, ChannelState, U128
  <2>4. CASE channels'[d] = channels[d]
    BY <1>1, <2>1, <2>3, <2>4 DEF EntryIsBacked
  <2>5. ASSUME NEW r \in Reqs, NEW c \in Cids, NEW max \in Vouchers,
               AdmitVoucher(r, c, max)
        PROVE  EntryIsBacked(channels'[d], escrow'[d])
    <3>1. CASE c # d
      BY <2>2, <2>4, <2>5, <3>1 DEF AdmitVoucher
    <3>2. CASE c = d
      <4>1. /\ channels[d] # None /\ max <= channels[d].balance
            /\ channels'[d] = Charge(channels[d], max)
        BY <2>2, <2>5, <3>2 DEF AdmitVoucher, Accepts, Admits
      <4>2. /\ channels'[d].balance = channels[d].balance
            /\ channels'[d].charged = max /\ channels'[d].lastMax = max
        BY <2>3, <4>1 DEF Charge, ChannelState
      <4>3. max \in Nat
        BY Constants DEF U128
      <4> QED BY <2>1, <2>3, <4>1, <4>2, <4>3 DEF EntryIsBacked
    <3> QED BY <3>1, <3>2
  <2>6. ASSUME NEW r \in Reqs, OpenChannel(r)
        PROVE  EntryIsBacked(channels'[d], escrow'[d])
    <3>1. CASE req[r].cid # d
      BY <2>2, <2>4, <2>6, <3>1 DEF OpenChannel
    <3>2. CASE req[r].cid = d
      <4> DEFINE q == req[r]
      <4>1. channels'[d] = Opened(q.max, q.snap)
        BY <2>2, <2>6, <3>2 DEF OpenChannel
      <4>2. /\ q.max <= escrow[d] /\ Amount <= q.max
            /\ 0 < q.snap.balance /\ q.snap.balance <= escrow[d]
        BY <2>6, <3>2 DEF OpenChannel, CapitalInv, DepositIsBacked, TypeInv, RequestWF
      <4>3. q.max \in Nat /\ q.snap.balance \in Nat /\ Amount \in Nat
        BY Constants
           DEF TypeInv, TypeOK, HandlerTypeOK, Request, Snapshot, U128
      <4>4. /\ channels'[d].balance = q.snap.balance
            /\ channels'[d].charged = Amount /\ channels'[d].lastMax = q.max
        BY <4>1, <4>2, <4>3 DEF Opened
      <4> QED BY <2>1, <4>2, <4>3, <4>4 DEF EntryIsBacked
    <3> QED BY <3>1, <3>2
  <2>7. ASSUME NEW k \in Runs, Reconcile(k)
        PROVE  EntryIsBacked(channels'[d], escrow'[d])
    <3>1. channels'[d] = Reconciled(run[k].batch)[d]
      BY <2>7 DEF Reconcile
    <3>2. channels[d] # None
      BY <1>1, <3>1 DEF Reconciled
    <3>3. /\ channels'[d].balance = channels[d].balance
          /\ channels'[d].charged = channels[d].charged
          /\ channels'[d].lastMax = channels[d].lastMax
      BY <2>3, <3>1, <3>2 DEF Reconciled, ChannelState
    <3> QED BY <2>1, <2>3, <3>2, <3>3 DEF EntryIsBacked
  <2>8. CASE UNCHANGED tableVars
    BY <2>4, <2>8 DEF tableVars
  <2>9. CASE Restart
    BY <1>1, <2>9 DEF Restart
  <2> QED BY <2>5, <2>6, <2>7, <2>8, <2>9, TableSteps
<1>2. ASSUME NEW s \in Reqs
      PROVE  DepositIsBacked(s)'
  <2>1. req \in [Reqs -> Request] /\ req[s] \in Request /\ req'[s] \in Request
    BY DEF TypeInv, TypeOK, HandlerTypeOK
  <2>2. ASSUME req'[s].pc \notin {"settle", "settled"}
        PROVE  DepositIsBacked(s)'
    BY <2>2 DEF DepositIsBacked
  <2>3. ASSUME NEW pc \in InFlight, req[s].pc = pc
        PROVE  /\ req[s].cid \in Cids
               /\ escrow[req[s].cid] \in Nat /\ escrow'[req[s].cid] \in Nat
               /\ escrow[req[s].cid] <= escrow'[req[s].cid]
    BY <2>3, EscrowGrows DEF TypeInv, RequestWF
  <2>4. /\ req[s].max \in Nat /\ req[s].value \in Nat /\ req[s].snap.balance \in Nat
    BY <2>1, Constants DEF Request, Snapshot, U128
  <2>5. CASE req'[s] = req[s]
    <3>1. DepositIsBacked(s)
      BY DEF CapitalInv
    <3>2. CASE req[s].pc = "settle"
      BY <2>3, <2>4, <2>5, <3>1, <3>2 DEF DepositIsBacked, InFlight
    <3>3. CASE req[s].pc = "settled"
      BY <2>3, <2>4, <2>5, <3>1, <3>3 DEF DepositIsBacked, InFlight
    <3> QED BY <2>2, <2>5, <3>2, <3>3
  <2>6. ASSUME NEW c \in Cids, NEW max \in Vouchers, AdmitVoucher(s, c, max)
        PROVE  DepositIsBacked(s)'
    BY <2>1, <2>2, <2>6 DEF AdmitVoucher, Become, Blank
  <2>7. ASSUME NEW c \in Cids, NEW max \in Vouchers, NEW value \in Deposits,
               PresentDeposit(s, c, max, value)
        PROVE  DepositIsBacked(s)'
    BY <2>1, <2>2, <2>7 DEF PresentDeposit, Become, Blank
  <2>8. CASE DepositVerified(s)
    <3>1. /\ req[s].pc = "verify" /\ req[s].max <= escrow[req[s].cid] + req[s].value
          /\ req'[s] = [req[s] EXCEPT !.pc = "settle", !.snap = SnapshotOf(req[s].cid)]
          /\ escrow' = escrow
      BY <2>1, <2>8 DEF DepositVerified, Become, escrowVars
    <3>2. /\ req'[s].pc = "settle" /\ req'[s].max = req[s].max
          /\ req'[s].cid = req[s].cid /\ req'[s].value = req[s].value
      BY <2>1, <3>1 DEF Request
    <3> QED BY <3>1, <3>2 DEF DepositIsBacked
  <2>9. ASSUME NEW from \in SnapshotReplies, NEW lost \in SUBSET Unreadable,
               DepositExecuted(s, from, lost)
        PROVE  DepositIsBacked(s)'
    <3> DEFINE after == [balance |-> escrow'[req[s].cid],
                         totalClaimed |-> claimed[req[s].cid]]
    <3>1. from = "settle" /\ "balance" \notin lost
      BY DEF StateAfterSettle
    <3>2. req'[s] = [req[s] EXCEPT !.pc = "settled", !.snap = Parsed(after, lost)]
      BY <2>1, <2>9, <3>1 DEF DepositExecuted, Become
    <3>3. /\ req'[s].pc = "settled" /\ req'[s].max = req[s].max
          /\ req'[s].cid = req[s].cid
          /\ req'[s].snap.balance = escrow'[req[s].cid]
      BY <2>1, <3>1, <3>2 DEF Request, Parsed
    <3>4. req[s].cid \in Cids /\ req[s].pc = "settle"
      BY <2>3, <2>9 DEF DepositExecuted, InFlight
    <3>5. escrow'[req[s].cid] = escrow[req[s].cid] + req[s].value
      BY <2>9, <3>4
         DEF DepositExecuted, ExecDeposit, TypeInv, TypeOK, EscrowTypeOK
    <3>6. req[s].max <= escrow'[req[s].cid]
      BY <3>4, <3>5 DEF CapitalInv, DepositIsBacked
    <3>7. 0 < escrow'[req[s].cid]
      <4>1. Amount <= req[s].max /\ 0 < Amount /\ Amount \in Nat
        BY <3>4, Constants DEF TypeInv, RequestWF, StateAfterSettle, U128
      <4>2. escrow'[req[s].cid] \in Nat
        BY <2>3, <3>4 DEF InFlight
      <4> QED BY <2>4, <3>6, <4>1, <4>2
    <3> QED BY <2>3, <3>3, <3>4, <3>6, <3>7 DEF DepositIsBacked, InFlight
  <2>10. CASE OpenChannel(s)
    BY <2>1, <2>2, <2>10 DEF OpenChannel, Become, Request
  <2>11. CASE req'[s].pc \notin InFlight
    BY <2>2, <2>11 DEF InFlight
  <2> QED BY <2>5, <2>6, <2>7, <2>8, <2>9, <2>10, <2>11, SlotSteps
<1>3. ASSUME NEW j \in Runs, NEW c \in DOMAIN run'[j].batch
      PROVE  run'[j].batch[c] <= escrow'[c]
  <2>1. run[j] \in RunState /\ run'[j] \in RunState /\ run \in [Runs -> RunState]
    BY DEF TypeInv, TypeOK, RunTypeOK
  <2>2. c \in Cids /\ run'[j].batch[c] \in Nat
    BY <1>3, <2>1, Constants DEF RunState, Batches, U128
  <2>3. escrow[c] \in Nat /\ escrow'[c] \in Nat /\ escrow[c] <= escrow'[c]
    BY <2>2, EscrowGrows
  <2>4. CASE run'[j].batch = run[j].batch
    BY <1>3, <2>2, <2>3, <2>4 DEF CapitalInv, Covered
  <2>5. CASE ClaimExecuted(j) \/ PostSettle(j) \/ SettleExecuted(j)
    BY <2>1, <2>4, <2>5 DEF ClaimExecuted, PostSettle, SettleExecuted, RunState
  <2>6. CASE StartRun(j)
    <3>1. run'[j].batch = ClaimBatch
      BY <2>1, <2>6 DEF StartRun
    <3>2. c \in Present /\ run'[j].batch[c] = channels[c].lastMax
      BY <1>3, <3>1 DEF ClaimBatch, ClaimableCids
    <3>3. channels[c].lastMax <= escrow[c]
      BY <3>2 DEF CapitalInv, EntryIsBacked
    <3> QED BY <2>2, <2>3, <3>2, <3>3
  <2>7. CASE run'[j] = Idle
    BY <1>3, <2>7 DEF Idle
  <2> QED BY <2>4, <2>5, <2>6, <2>7, RunSteps
<1> QED BY <1>1, <1>2, <1>3 DEF CapitalInv, Present, Covered

(***************************************************************************)
(* If the facilitator answers a deposit's /settle with the balance of the  *)
(* channel, no payer withdraws and a request has a price, then no charge,  *)
(* no retained voucher and no claim in flight ever exceeds the escrow.     *)
(***************************************************************************)
THEOREM CapitalIsBacked ==
  ASSUME StateAfterSettle
  PROVE  Spec => []CapitalBacked
<1>1. Init => CapitalInv
  BY DEF Init, TableInit, EscrowInit, HandlerInit, RunInit, Blank, Idle, Covered,
         CapitalInv, Present, DepositIsBacked
<1>2. TypeInv /\ TypeInv' /\ CapitalInv /\ [Next]_vars => CapitalInv'
  BY StateAfterSettle, CapitalStep
<1>3. CapitalInv => CapitalBacked
  BY DEF CapitalInv, CapitalBacked, EntryIsBacked
<1> QED BY <1>1, <1>2, <1>3, TypeInvariant, PTL DEF Spec
=============================================================================
