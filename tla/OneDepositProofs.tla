-------------------------- MODULE OneDepositProofs --------------------------
(***************************************************************************)
(* What the batch half promises while each channel is funded once:         *)
(* total_claimed writes off only what was paid out, and the claim filter   *)
(* finds every unclaimed voucher.  A second deposit breaks both.           *)
(***************************************************************************)
EXTENDS BatchSettlementProofs

(***************************************************************************)
(* A channel that holds a deposit, or what its payer left when it withdrew *)
(* from it, takes no other.                                                *)
(***************************************************************************)
OneDeposit ==
  /\ \A e \in Deposits \cup Remainders :
       e > 0 /\ \A d \in Deposits : d + e > EscrowCap
  /\ Amount > 0

-----------------------------------------------------------------------------
(* The inductive invariant *)

Funded(c) == escrow[c] # 0

EscrowOnce ==
  /\ \A c \in Cids : Funded(c) => escrow[c] \in Deposits \cup Remainders
  /\ \A r \in Reqs : req[r].pc \in {"verify", "settle"} => req[r].value \in Deposits

\* The one deposit of a channel is on its way to the table.
Opening(r) ==
  req[r].pc = "settled" =>
    /\ Funded(req[r].cid)
    /\ channels[req[r].cid] = None
    /\ req[r].snap.totalClaimed = 0
    /\ \A s \in Reqs \ {r} : req[s].pc = "settled" => req[s].cid # req[r].cid

\* The channel may yet be opened.
Awaited(c) == ~Funded(c) \/ \E r \in Reqs : req[r].pc = "settled" /\ req[r].cid = c

\* Before there is an entry nothing was read by a run, or claimed.
Unopened(c) ==
  channels[c] = None =>
    /\ Awaited(c) => claimed[c] = 0
    /\ \A k \in Runs : c \notin DOMAIN run[k].batch

OpenedOnce ==
  /\ EscrowOnce
  /\ \A r \in Reqs : Opening(r)
  /\ \A c \in Cids : Unopened(c) /\ (channels[c] # None => Funded(c))

PaidOutInv == WrittenOffIsPaidOut /\ \A k \in Runs : BatchIsPaidOut(k)

\* Until the first voucher the charge, one price, may be below the deposit's
\* voucher; then every batch, and every total read from one, is that voucher.
FirstVoucher(c) ==
  /\ channels[c].charged > 0
  /\ channels[c].totalClaimed \in {0, channels[c].lastMax}
  /\ \A k \in Runs : c \in DOMAIN run[k].batch => run[k].batch[c] = channels[c].lastMax

RetainedIsCharged ==
  \A c \in Present : channels[c].charged = channels[c].lastMax \/ FirstVoucher(c)

BatchInv == TypeInv /\ RevenueCovered /\ ClaimsInv /\ CollectInv

OneDepositInv == OpenedOnce /\ PaidOutInv /\ RetainedIsCharged

-----------------------------------------------------------------------------
(* Frame lemmas: what a step does to one entry, one deposit, one batch *)

Charged(c, max) ==
  /\ channels[c] # None
  /\ Admits(channels[c], max)
  /\ channels'[c] = [channels[c] EXCEPT !.charged = max, !.lastMax = max]

OpenedBy(r, c) ==
  /\ req[r].pc = "settled" /\ req[r].cid = c
  /\ req'[r].pc = "upstream"
  /\ channels'[c] = Opened(req[r].max, req[r].snap)

WrittenBackBy(k, c) ==
  /\ run[k].pc = "settled" /\ c \in DOMAIN run[k].batch
  /\ channels[c] # None
  /\ channels'[c] = [channels[c] EXCEPT !.totalClaimed = run[k].batch[c]]

Untouched(c) == channels'[c] = channels[c]

LEMMA EntrySteps ==
  ASSUME TypeInv, [Next]_vars, NEW c \in Cids
  PROVE  \/ Untouched(c)
         \/ \E max \in Vouchers : Charged(c, max)
         \/ \E r \in Reqs : OpenedBy(r, c)
         \/ \E k \in Runs : WrittenBackBy(k, c)
         \/ Restart /\ channels'[c] = None
<1>1. /\ channels \in [Cids -> ChannelState \cup {None}]
      /\ req \in [Reqs -> Request]
  BY DEF TypeInv, TypeOK, TableTypeOK, HandlerTypeOK
<1>2. CASE UNCHANGED tableVars
  BY <1>2 DEF tableVars, historyVars, Untouched
<1>3. ASSUME NEW r \in Reqs, NEW d \in Cids, NEW max \in Vouchers, AdmitVoucher(r, d, max)
      PROVE  Untouched(c) \/ Charged(c, max)
  <2>1. CASE d = c
    BY <1>1, <1>3, <2>1 DEF AdmitVoucher, Accepts, Charge, Charged
  <2>2. CASE d # c
    BY <1>1, <1>3, <2>2 DEF AdmitVoucher, Untouched
  <2> QED BY <2>1, <2>2
<1>4. ASSUME NEW r \in Reqs, OpenChannel(r)
      PROVE  Untouched(c) \/ OpenedBy(r, c)
  <2>1. CASE req[r].cid = c
    <3>1. req'[r].pc = "upstream"
      BY <1>1, <1>4 DEF OpenChannel, Become, Request
    <3> QED BY <1>1, <1>4, <2>1, <3>1 DEF OpenChannel, OpenedBy
  <2>2. CASE req[r].cid # c
    BY <1>1, <1>4, <2>2 DEF OpenChannel, Untouched
  <2> QED BY <2>1, <2>2
<1>5. ASSUME NEW k \in Runs, Reconcile(k)
      PROVE  Untouched(c) \/ WrittenBackBy(k, c)
  BY <1>5 DEF Reconcile, Reconciled, historyVars, Untouched, WrittenBackBy
<1>6. CASE Restart
  BY <1>6 DEF Restart
<1> QED BY <1>2, <1>3, <1>4, <1>5, <1>6, TableSteps

\* An entry stays while the process is up.
LEMMA EntryStays ==
  ASSUME TypeInv, TypeInv', [Next]_vars, ~Restart, NEW c \in Cids, channels[c] # None
  PROVE  channels'[c] # None
<1>1. channels[c] \in ChannelState
  BY DEF TypeInv, TypeOK, TableTypeOK
<1>2. CASE \E max \in Vouchers : Charged(c, max)
  BY <1>1, <1>2, Constants, EntryAssumption DEF Charged, ChannelState
<1>3. ASSUME NEW r \in Reqs, OpenedBy(r, c) PROVE channels'[c] # None
  <2>1. req[r].max \in U128 /\ req[r].snap \in Snapshot
    BY DEF TypeInv, TypeOK, HandlerTypeOK, Request
  <2> QED BY <1>3, <2>1, OpenedType, EntryAssumption DEF OpenedBy
<1>4. ASSUME NEW k \in Runs, WrittenBackBy(k, c) PROVE channels'[c] # None
  <2>1. run[k].batch[c] \in U128
    BY <1>4, BatchOf DEF WrittenBackBy
  <2> QED BY <1>1, <1>4, <2>1, EntryAssumption DEF WrittenBackBy, ChannelState
<1> QED BY <1>1, <1>2, <1>3, <1>4, EntrySteps DEF Untouched

\* Who funds a channel: only a deposit that is being settled.  Who leaves
\* something else in it: only a payer that withdraws from a funded channel.
LEMMA FundingSteps ==
  ASSUME TypeInv, [Next]_vars, OneDeposit, NEW c \in Cids
  PROVE  \/ escrow'[c] = escrow[c]
         \/ Funded(c) /\ escrow'[c] \in Remainders
         \/ \E r \in Reqs :
              /\ req[r].pc = "settle" /\ req[r].cid = c
              /\ escrow[c] + req[r].value <= EscrowCap
              /\ escrow'[c] = escrow[c] + req[r].value
<1>1. escrow \in [Cids -> 0..EscrowCap]
  BY DEF TypeInv, TypeOK, EscrowTypeOK
<1>2. ASSUME NEW r \in Reqs, NEW from \in SnapshotReplies, NEW lost \in SUBSET Unreadable,
             DepositExecuted(r, from, lost)
      PROVE  \/ escrow'[c] = escrow[c]
             \/ /\ req[r].pc = "settle" /\ req[r].cid = c
                /\ escrow[c] + req[r].value <= EscrowCap
                /\ escrow'[c] = escrow[c] + req[r].value
  <2>1. CASE req[r].cid = c
    BY <1>1, <1>2, <2>1 DEF DepositExecuted, ExecDeposit
  <2>2. CASE req[r].cid # c
    BY <1>1, <1>2, <2>2 DEF DepositExecuted, ExecDeposit
  <2> QED BY <2>1, <2>2
<1>3. ASSUME NEW d \in Cids, NEW left \in Remainders, Withdraw(d, left)
      PROVE  \/ escrow'[c] = escrow[c]
             \/ Funded(c) /\ escrow'[c] \in Remainders
  <2>1. CASE d = c
    <3>1. escrow[c] \in Nat /\ claimed[c] \in Nat /\ left \in claimed[c]..escrow[c]
      BY <1>1, <1>3, <2>1, Constants
         DEF Withdraw, ExecWithdraw, TypeInv, TypeOK, EscrowTypeOK, U128
    <3>2. left > 0 /\ escrow'[c] = left
      BY <1>1, <1>3, <2>1 DEF Withdraw, ExecWithdraw, OneDeposit
    <3> QED BY <3>1, <3>2 DEF Funded
  <2>2. CASE d # c
    BY <1>1, <1>3, <2>2 DEF Withdraw, ExecWithdraw
  <2> QED BY <2>1, <2>2
<1> QED
  BY <1>2, <1>3, EscrowSteps
     DEF escrowVars, ClaimExecuted, ExecClaim, SettleExecuted, ExecSettle

\* Where a claim in a batch comes from.
LEMMA BatchSteps ==
  ASSUME TypeInv, TypeInv', [Next]_vars, NEW j \in Runs, NEW c \in DOMAIN run'[j].batch
  PROVE  /\ c \in Cids /\ run'[j].batch[c] \in U128
         /\ \/ run'[j].batch = run[j].batch
            \/ /\ run'[j].pc = "claim" /\ UNCHANGED tableVars
               /\ c \in Present /\ run'[j].batch[c] = channels[c].lastMax
<1>1. run[j] \in RunState /\ run'[j] \in RunState /\ run \in [Runs -> RunState]
  BY DEF TypeInv, TypeOK, RunTypeOK
<1>2. c \in Cids /\ run'[j].batch[c] \in U128
  BY <1>1 DEF RunState, Batches
<1>3. CASE run'[j] = run[j]
  BY <1>2, <1>3
<1>4. CASE ClaimExecuted(j) \/ PostSettle(j) \/ SettleExecuted(j)
  BY <1>1, <1>2, <1>4 DEF ClaimExecuted, PostSettle, SettleExecuted, RunState
<1>5. CASE StartRun(j)
  <2>1. run'[j] = [pc |-> "claim", batch |-> ClaimBatch]
    BY <1>1, <1>5 DEF StartRun
  <2>2. c \in Present /\ run'[j].batch[c] = channels[c].lastMax
    BY <2>1 DEF ClaimBatch, ClaimableCids
  <2> QED BY <1>2, <1>5, <2>1, <2>2 DEF StartRun
<1>6. CASE run'[j] = Idle
  BY <1>6 DEF Idle
<1> QED BY <1>3, <1>4, <1>5, <1>6, RunSteps

-----------------------------------------------------------------------------
(* A channel is funded once and opened once *)

LEMMA EscrowOnceStep ==
  ASSUME TypeInv, TypeInv', EscrowOnce, [Next]_vars, OneDeposit
  PROVE  EscrowOnce'
<1>1. ASSUME NEW c \in Cids, escrow'[c] # 0
      PROVE  escrow'[c] \in Deposits \cup Remainders
  <2>1. escrow[c] \in Nat /\ (escrow[c] # 0 => escrow[c] \in Deposits \cup Remainders)
    BY Constants DEF EscrowOnce, Funded, TypeInv, TypeOK, EscrowTypeOK, U128
  <2>2. ASSUME NEW r \in Reqs, req[r].pc = "settle",
               escrow[c] + req[r].value <= EscrowCap,
               escrow'[c] = escrow[c] + req[r].value
        PROVE  escrow'[c] \in Deposits \cup Remainders
    <3>1. req[r].value \in Deposits /\ req[r].value \in Nat
      BY <2>2, Constants DEF EscrowOnce, U128
    <3>2. escrow[c] \notin Deposits \cup Remainders
      BY <2>1, <2>2, <3>1, Constants DEF OneDeposit, U128
    <3>3. escrow'[c] = req[r].value
      BY <2>1, <2>2, <3>1, <3>2
    <3> QED BY <3>1, <3>3
  <2> QED BY <1>1, <2>1, <2>2, FundingSteps
<1>2. ASSUME NEW s \in Reqs, req'[s].pc \in {"verify", "settle"}
      PROVE  req'[s].value \in Deposits
  <2>1. req \in [Reqs -> Request] /\ req[s] \in Request
    BY DEF TypeInv, TypeOK, HandlerTypeOK
  <2>2. ASSUME NEW c \in Cids, NEW max \in Vouchers, NEW value \in Deposits,
               PresentDeposit(s, c, max, value)
        PROVE  req'[s].value \in Deposits
    BY <2>1, <2>2 DEF PresentDeposit, Become, Blank
  <2>3. CASE DepositVerified(s)
    BY <2>1, <2>3 DEF DepositVerified, Become, EscrowOnce, Request
  <2>4. ASSUME NEW c \in Cids, NEW max \in Vouchers, AdmitVoucher(s, c, max)
        PROVE  req'[s].pc = "upstream"
    BY <2>1, <2>4 DEF AdmitVoucher, Become, Blank
  <2>5. ASSUME NEW from \in SnapshotReplies, NEW lost \in SUBSET Unreadable,
               DepositExecuted(s, from, lost)
        PROVE  req'[s].pc = "settled"
    BY <2>1, <2>5 DEF DepositExecuted, Become, Request
  <2>6. ASSUME OpenChannel(s) PROVE req'[s].pc = "upstream"
    BY <2>1, <2>6 DEF OpenChannel, Become, Request
  <2> QED
    BY <1>2, <2>2, <2>3, <2>4, <2>5, <2>6, SlotSteps DEF EscrowOnce, InFlight
<1> QED BY <1>1, <1>2 DEF EscrowOnce, Funded

\* A slot becomes "settled" only by funding its channel, which was not funded.
LEMMA SettledSteps ==
  ASSUME TypeInv, ClaimsInv, OpenedOnce, [Next]_vars, OneDeposit,
         NEW r \in Reqs, req'[r].pc = "settled"
  PROVE  \/ req'[r] = req[r]
         \/ /\ req'[r].cid = req[r].cid /\ req[r].cid \in Cids
            /\ ~Funded(req[r].cid)
            /\ escrow'[req[r].cid] # 0
            /\ UNCHANGED channels
            /\ req'[r].snap.totalClaimed = 0
            /\ \A s \in Reqs \ {r} : req'[s] = req[s]
<1>0. req \in [Reqs -> Request]
  BY DEF TypeInv, TypeOK, HandlerTypeOK
<1>1. ASSUME NEW c \in Cids, NEW max \in Vouchers, AdmitVoucher(r, c, max)
      PROVE  req'[r].pc = "upstream"
  BY <1>0, <1>1 DEF AdmitVoucher, Become, Blank
<1>2. ASSUME NEW c \in Cids, NEW max \in Vouchers, NEW value \in Deposits,
             PresentDeposit(r, c, max, value)
      PROVE  req'[r].pc = "verify"
  BY <1>0, <1>2 DEF PresentDeposit, Become, Blank
<1>3. ASSUME DepositVerified(r) PROVE req'[r].pc = "settle"
  BY <1>0, <1>3 DEF DepositVerified, Become, Request
<1>4. ASSUME OpenChannel(r) PROVE req'[r].pc = "upstream"
  BY <1>0, <1>4 DEF OpenChannel, Become, Request
<1>5. ASSUME NEW from \in SnapshotReplies, NEW lost \in SUBSET Unreadable,
             DepositExecuted(r, from, lost)
      PROVE  /\ req'[r].cid = req[r].cid /\ req[r].cid \in Cids
             /\ ~Funded(req[r].cid)
             /\ escrow'[req[r].cid] # 0
             /\ UNCHANGED channels
             /\ req'[r].snap.totalClaimed = 0
             /\ \A s \in Reqs \ {r} : req'[s] = req[s]
  <2> DEFINE c == req[r].cid
             after == [balance |-> escrow'[c], totalClaimed |-> claimed[c]]
             snap == IF from = "settle" THEN after ELSE req[r].snap
  <2>1. c \in Cids /\ req[r].pc = "settle"
    BY <1>5 DEF DepositExecuted, TypeInv, RequestWF, InFlight
  <2>2. /\ escrow[c] \in Nat /\ req[r].value \in Nat /\ EscrowCap \in Nat
        /\ req[r].value \in Deposits
    <3>1. req[r].value \in Deposits
      BY <2>1 DEF OpenedOnce, EscrowOnce
    <3>2. escrow[c] \in Nat /\ EscrowCap \in Nat
      BY <2>1, Constants DEF TypeInv, TypeOK, EscrowTypeOK, U128
    <3>3. req[r].value \in Nat
      BY <1>0, Constants DEF Request, U128
    <3> QED BY <3>1, <3>2, <3>3
  <2>3. escrow[c] + req[r].value <= EscrowCap /\ escrow'[c] = escrow[c] + req[r].value
    BY <1>5, <2>1 DEF DepositExecuted, ExecDeposit, TypeInv, TypeOK, EscrowTypeOK
  <2>4. escrow[c] = 0 /\ escrow'[c] # 0
    BY <2>1, <2>2, <2>3 DEF OneDeposit, OpenedOnce, EscrowOnce, Funded
  <2>5. channels[c] = None /\ claimed[c] = 0
    BY <2>1, <2>4 DEF OpenedOnce, Unopened, Awaited, Funded
  <2>6. req[r].snap.totalClaimed = 0
    <3>1. req[r].snap.totalClaimed <= 0
      BY <2>1, <2>5 DEF ClaimsInv, SnapshotIsPast, InFlight
    <3>2. req[r].snap.totalClaimed \in Nat
      BY <1>0, Constants DEF Request, Snapshot, U128
    <3> QED BY <3>1, <3>2
  <2>7. req' = [req EXCEPT ![r] =
                  [req[r] EXCEPT !.pc = "settled", !.snap = Parsed(snap, lost)]]
    BY <1>5 DEF DepositExecuted, Become
  <2>8. req'[r].cid = req[r].cid /\ req'[r].snap = Parsed(snap, lost)
    BY <1>0, <2>7 DEF Request
  <2>9. req'[r].snap.totalClaimed = 0
    BY <2>5, <2>6, <2>8 DEF Parsed
  <2>10. \A s \in Reqs \ {r} : req'[s] = req[s]
    BY <1>0, <2>7
  <2> QED
    BY <1>5, <2>1, <2>4, <2>8, <2>9, <2>10 DEF DepositExecuted, tableVars, Funded
<1> QED
  BY <1>1, <1>2, <1>3, <1>4, <1>5, SlotSteps DEF InFlight

\* A channel once funded stays so.
LEMMA FundedStays ==
  ASSUME TypeInv, [Next]_vars, OneDeposit, NEW c \in Cids, Funded(c)
  PROVE  Funded(c)'
<1>1. escrow[c] \in Nat /\ escrow[c] # 0
  BY Constants DEF TypeInv, TypeOK, EscrowTypeOK, U128, Funded
<1>2. \A r \in Reqs : req[r].value \in Nat
  BY Constants DEF TypeInv, TypeOK, HandlerTypeOK, Request, U128
<1>3. \A left \in Remainders : left > 0 /\ left \in Nat
  BY EscrowAssumption, Constants DEF OneDeposit, U128
<1> QED BY <1>1, <1>2, <1>3, FundingSteps DEF Funded

LEMMA OpeningStep ==
  ASSUME TypeInv, TypeInv', ClaimsInv, OpenedOnce, [Next]_vars, OneDeposit
  PROVE  \A r \in Reqs : Opening(r)'
<1>1. req' \in [Reqs -> Request]
  BY DEF TypeInv, TypeOK, HandlerTypeOK
<1>2. ASSUME NEW r \in Reqs, req'[r].pc = "settled"
      PROVE  /\ escrow'[req'[r].cid] # 0
             /\ channels'[req'[r].cid] = None
             /\ req'[r].snap.totalClaimed = 0
  <2>1. CASE req'[r] = req[r]
    <3> DEFINE c == req[r].cid
    <3>1. /\ c \in Cids /\ Funded(c) /\ channels[c] = None
          /\ req[r].snap.totalClaimed = 0
          /\ \A s \in Reqs \ {r} : req[s].pc = "settled" => req[s].cid # c
      BY <1>2, <2>1 DEF OpenedOnce, Opening, TypeInv, RequestWF, InFlight
    <3>2. ~\E s \in Reqs : OpenedBy(s, c)
      BY <1>2, <2>1, <3>1 DEF OpenedBy
    <3>3. channels'[c] = None
      BY <3>1, <3>2, EntrySteps DEF Untouched, Charged, WrittenBackBy
    <3>4. escrow'[c] # 0
      BY <3>1, FundedStays DEF Funded
    <3> QED BY <2>1, <3>1, <3>3, <3>4
  <2>2. CASE req'[r] # req[r]
    <3>1. req[r].cid \in Cids /\ ~Funded(req[r].cid)
      BY <1>2, <2>2, SettledSteps
    <3>2. channels[req[r].cid] = None
      BY <3>1 DEF OpenedOnce
    <3> QED BY <1>2, <2>2, <3>2, SettledSteps
  <2> QED BY <2>1, <2>2
<1>3. ASSUME NEW r \in Reqs, NEW s \in Reqs, s # r,
             req'[r].pc = "settled", req'[s].pc = "settled"
      PROVE  req'[s].cid # req'[r].cid
  <2>1. CASE req'[r] = req[r] /\ req'[s] = req[s]
    BY <1>3, <2>1 DEF OpenedOnce, Opening
  <2>2. CASE req'[r] # req[r]
    <3>1. req'[s] = req[s] /\ ~Funded(req'[r].cid)
      BY <1>3, <2>2, SettledSteps
    <3>2. Funded(req'[s].cid)
      BY <1>3, <3>1 DEF OpenedOnce, Opening
    <3> QED BY <3>1, <3>2
  <2>3. CASE req'[s] # req[s]
    <3>1. req'[r] = req[r] /\ ~Funded(req'[s].cid)
      BY <1>3, <2>3, SettledSteps
    <3>2. Funded(req'[r].cid)
      BY <1>3, <3>1 DEF OpenedOnce, Opening
    <3> QED BY <3>1, <3>2
  <2> QED BY <2>1, <2>2, <2>3
<1> QED BY <1>2, <1>3 DEF Opening, Funded

LEMMA EntryIsFunded ==
  ASSUME TypeInv, OpenedOnce, [Next]_vars, OneDeposit,
         NEW c \in Cids, channels'[c] # None
  PROVE  Funded(c)'
<1>1. ASSUME NEW r \in Reqs, OpenedBy(r, c) PROVE Funded(c)
  BY <1>1 DEF OpenedBy, OpenedOnce, Opening
<1>2. channels[c] # None => Funded(c)
  BY DEF OpenedOnce
<1>3. Funded(c)
  BY <1>1, <1>2, EntrySteps DEF Untouched, Charged, WrittenBackBy
<1> QED BY <1>3, FundedStays

\* A channel that may yet be opened could be so before: losing its entry in a
\* restart does not bring its one deposit back.
LEMMA AwaitedStep ==
  ASSUME TypeInv, ClaimsInv, OpenedOnce, [Next]_vars, OneDeposit,
         NEW c \in Cids, Awaited(c)'
  PROVE  Awaited(c)
<1>1. CASE ~Funded(c)'
  BY <1>1, FundedStays DEF Awaited
<1>2. ASSUME NEW r \in Reqs, req'[r].pc = "settled", req'[r].cid = c
      PROVE  Awaited(c)
  BY <1>2, SettledSteps DEF Awaited
<1> QED BY <1>1, <1>2 DEF Awaited, Funded

\* A channel that has an entry is not awaited.
LEMMA EntryIsNotAwaited ==
  ASSUME OpenedOnce, NEW c \in Cids, Awaited(c)
  PROVE  channels[c] = None
BY DEF OpenedOnce, Opening, Awaited

LEMMA UnopenedStep ==
  ASSUME TypeInv, TypeInv', ClaimsInv, OpenedOnce, [Next]_vars, OneDeposit,
         NEW c \in Cids, channels'[c] = None
  PROVE  /\ Awaited(c)' => claimed'[c] = 0
         /\ \A k \in Runs : c \notin DOMAIN run'[k].batch
<1>1. CASE Restart
  <2>1. claimed' = claimed
    BY <1>1 DEF Restart, escrowVars
  <2>2. Awaited(c)' => claimed[c] = 0
    BY AwaitedStep, EntryIsNotAwaited DEF OpenedOnce, Unopened
  <2>3. \A k \in Runs : c \notin DOMAIN run'[k].batch
    BY <1>1 DEF Restart, Idle
  <2> QED BY <2>1, <2>2, <2>3
<1>2. CASE ~Restart
  <2>1. channels[c] = None
    BY <1>2, EntryStays
  <2>2. \A k \in Runs : c \notin DOMAIN run[k].batch
    BY <2>1 DEF OpenedOnce, Unopened
  <2>4. claimed'[c] = claimed[c]
    <3>1. ASSUME NEW k \in Runs, ClaimExecuted(k) PROVE claimed'[c] = claimed[c]
      BY <2>2, <3>1 DEF ClaimExecuted, ExecClaim
    <3> QED
      BY <3>1, EscrowSteps
         DEF escrowVars, DepositExecuted, ExecDeposit, SettleExecuted, ExecSettle,
             Withdraw, ExecWithdraw
  <2>5. Awaited(c)' => claimed[c] = 0
    BY <2>1, AwaitedStep DEF OpenedOnce, Unopened
  <2>6. ASSUME NEW k \in Runs, c \in DOMAIN run'[k].batch PROVE FALSE
    BY <2>1, <2>2, <2>6, BatchSteps DEF Present
  <2> QED BY <2>4, <2>5, <2>6
<1> QED BY <1>1, <1>2

LEMMA OpenedOnceStep ==
  ASSUME TypeInv, TypeInv', ClaimsInv, OpenedOnce, [Next]_vars, OneDeposit
  PROVE  OpenedOnce'
<1>1. EscrowOnce'
  BY EscrowOnceStep DEF OpenedOnce
<1>2. \A r \in Reqs : Opening(r)'
  BY OpeningStep
<1>3. \A c \in Cids : Unopened(c)'
  BY UnopenedStep DEF Unopened
<1>4. \A c \in Cids : channels'[c] # None => Funded(c)'
  BY EntryIsFunded
<1> QED BY <1>1, <1>2, <1>3, <1>4 DEF OpenedOnce

\* What the table, the contract and the runs know of a channel when it opens.
LEMMA OpeningOfEntry ==
  ASSUME OpenedOnce, NEW r \in Reqs, NEW c \in Cids, OpenedBy(r, c)
  PROVE  /\ channels[c] = None /\ req[r].snap.totalClaimed = 0
         /\ \A k \in Runs : c \notin DOMAIN run[k].batch
<1>1. Opening(r) /\ Unopened(c)
  BY DEF OpenedOnce
<1> QED BY <1>1 DEF OpenedBy, Opening, Unopened, Awaited

-----------------------------------------------------------------------------
(* What is written off was paid out *)

LEMMA PaidOutStep ==
  ASSUME TypeInv, TypeInv', ClaimsInv, CollectInv, OpenedOnce, PaidOutInv,
         [Next]_vars, OneDeposit
  PROVE  PaidOutInv'
<1>1. ASSUME NEW c \in Cids, channels'[c] # None
      PROVE  channels'[c].totalClaimed <= settled'[c]
  <2>1. settled[c] \in Nat /\ settled'[c] \in Nat /\ settled[c] <= settled'[c]
    BY SettledGrows
  <2>2. channels[c] # None =>
          /\ channels[c] \in ChannelState
          /\ channels[c].totalClaimed \in Nat
          /\ channels[c].totalClaimed <= settled[c]
    BY Constants DEF PaidOutInv, WrittenOffIsPaidOut, Present, TypeInv, TypeOK,
                     TableTypeOK, ChannelState, U128
  <2>3. CASE Untouched(c)
    BY <1>1, <2>1, <2>2, <2>3 DEF Untouched
  <2>4. ASSUME NEW max \in Vouchers, Charged(c, max)
        PROVE  channels'[c].totalClaimed <= settled'[c]
    <3>1. channels'[c].totalClaimed = channels[c].totalClaimed /\ channels[c] # None
      BY <2>2, <2>4 DEF Charged, ChannelState
    <3> QED BY <2>1, <2>2, <3>1
  <2>5. ASSUME NEW r \in Reqs, OpenedBy(r, c)
        PROVE  channels'[c].totalClaimed <= settled'[c]
    <3>1. req[r].snap.totalClaimed = 0
      BY <2>5, OpeningOfEntry
    <3>2. channels'[c].totalClaimed = 0
      BY <2>5, <3>1 DEF OpenedBy, Opened
    <3> QED BY <2>1, <3>2
  <2>6. ASSUME NEW k \in Runs, WrittenBackBy(k, c)
        PROVE  channels'[c].totalClaimed <= settled'[c]
    <3>1. channels'[c].totalClaimed = run[k].batch[c]
      BY <2>2, <2>6 DEF WrittenBackBy, ChannelState
    <3>2. run[k].batch[c] <= settled[c]
      BY <2>6 DEF WrittenBackBy, PaidOutInv, BatchIsPaidOut
    <3>3. run[k].batch[c] \in Nat
      BY <2>6, BatchOf, Constants DEF WrittenBackBy, U128
    <3> QED BY <2>1, <3>1, <3>2, <3>3
  <2> QED BY <1>1, <2>3, <2>4, <2>5, <2>6, EntrySteps
<1>2. \A k \in Runs : BatchIsPaidOut(k)'
  BY BatchIsPaidOutStep DEF PaidOutInv
<1> QED BY <1>1, <1>2 DEF PaidOutInv, WrittenOffIsPaidOut, Present

-----------------------------------------------------------------------------
(* The claim filter finds every unclaimed voucher *)

LEMMA RetainedStep ==
  ASSUME TypeInv, TypeInv', OpenedOnce, RetainedIsCharged, [Next]_vars, OneDeposit
  PROVE  RetainedIsCharged'
<1> SUFFICES ASSUME NEW c \in Cids, channels'[c] # None,
                    channels'[c].charged # channels'[c].lastMax
             PROVE  FirstVoucher(c)'
  BY DEF RetainedIsCharged, Present
<1>1. channels[c] # None => channels[c] \in ChannelState
  BY DEF TypeInv, TypeOK, TableTypeOK
<1>2. CASE channels[c] = None
  <2>1. PICK r \in Reqs : OpenedBy(r, c)
    BY <1>2, EntrySteps DEF Untouched, Charged, WrittenBackBy
  <2>2. req[r].snap.totalClaimed = 0
    BY <2>1, OpeningOfEntry
  <2>3. channels'[c].charged > 0 /\ channels'[c].totalClaimed = 0
    BY <2>1, <2>2 DEF OpenedBy, Opened, OneDeposit
  <2>4. \A k \in Runs : c \notin DOMAIN run'[k].batch
    BY <1>2, BatchSteps DEF OpenedOnce, Unopened, Present
  <2> QED BY <2>3, <2>4 DEF FirstVoucher
<1>3. CASE channels[c] # None
  <2>1. ~\E r \in Reqs : OpenedBy(r, c)
    BY <1>3, OpeningOfEntry
  <2>2. ~\E max \in Vouchers : Charged(c, max)
    BY <1>1 DEF Charged, ChannelState
  <2>3. /\ channels'[c].charged = channels[c].charged
        /\ channels'[c].lastMax = channels[c].lastMax
    BY <1>1, <1>3, <2>1, <2>2, EntrySteps DEF Untouched, WrittenBackBy, ChannelState
  <2>4. FirstVoucher(c)
    BY <1>3, <2>3 DEF RetainedIsCharged, Present
  <2>5. channels'[c].totalClaimed \in {0, channels[c].lastMax}
    <3>1. CASE Untouched(c)
      BY <2>4, <3>1 DEF Untouched, FirstVoucher
    <3>2. ASSUME NEW k \in Runs, WrittenBackBy(k, c)
          PROVE  channels'[c].totalClaimed = channels[c].lastMax
      <4>1. channels'[c].totalClaimed = run[k].batch[c]
        BY <1>1, <1>3, <3>2 DEF WrittenBackBy, ChannelState
      <4> QED BY <2>4, <3>2, <4>1 DEF WrittenBackBy, FirstVoucher
    <3> QED BY <2>1, <2>2, <3>1, <3>2, EntrySteps
  <2>6. ASSUME NEW k \in Runs, c \in DOMAIN run'[k].batch
        PROVE  run'[k].batch[c] = channels[c].lastMax
    BY <2>4, <2>6, BatchSteps DEF FirstVoucher
  <2> QED BY <2>3, <2>4, <2>5, <2>6 DEF FirstVoucher
<1> QED BY <1>2, <1>3

-----------------------------------------------------------------------------
(* The theorems *)

LEMMA OneDepositInvariant ==
  ASSUME OneDeposit
  PROVE  Spec => [](BatchInv /\ OneDepositInv)
<1>1. Init => RevenueCovered /\ ClaimsInv /\ CollectInv /\ OneDepositInv
  BY DEF Init, TableInit, EscrowInit, HandlerInit, RunInit, Blank, Idle, InFlight, Present,
         RevenueCovered, ClaimsInv, WrittenOffIsClaimed, SnapshotIsPast, BatchIsClaimed,
         CollectInv, OneDepositInv, OpenedOnce, EscrowOnce, Funded, Opening, Unopened,
         PaidOutInv, WrittenOffIsPaidOut, BatchIsPaidOut, RetainedIsCharged
<1>2. TypeInv /\ TypeInv' /\ RevenueCovered /\ ClaimsInv /\ CollectInv /\ OneDepositInv
        /\ [Next]_vars =>
        (RevenueCovered /\ ClaimsInv /\ CollectInv /\ OneDepositInv)'
  BY RevenueStep, ClaimsStep, CollectStep, OpenedOnceStep, PaidOutStep,
     RetainedStep DEF OneDepositInv
<1> QED BY <1>1, <1>2, TypeInvariant, PTL DEF Spec, BatchInv

(***************************************************************************)
(* With one deposit per channel, what total_claimed writes off has also    *)
(* reached the receiver, whatever calls fail, runs overlap and restarts.   *)
(***************************************************************************)
THEOREM WriteOffsArePaidOut ==
  ASSUME OneDeposit
  PROVE  Spec => []WrittenOffIsPaidOut
<1>1. OneDepositInv => WrittenOffIsPaidOut
  BY DEF OneDepositInv, PaidOutInv
<1> QED BY <1>1, OneDepositInvariant, PTL

(***************************************************************************)
(* With one deposit per channel, the next run finds every voucher that     *)
(* exceeds what is written off.                                            *)
(***************************************************************************)
THEOREM VouchersAreFound ==
  ASSUME OneDeposit
  PROVE  Spec => []UnclaimedIsClaimable
<1>1. ASSUME BatchInv, OneDepositInv, NEW c \in Present,
             channels[c].lastMax > channels[c].totalClaimed
      PROVE  Claimable(channels[c])
  <2>1. channels[c].totalClaimed \in Nat /\ channels[c].lastMax \in Nat
    BY <1>1, Constants
       DEF BatchInv, TypeInv, TypeOK, TableTypeOK, ChannelState, Present, U128
  <2>2. channels[c].charged = channels[c].lastMax \/ FirstVoucher(c)
    BY <1>1 DEF OneDepositInv, RetainedIsCharged
  <2> QED BY <1>1, <2>1, <2>2 DEF Claimable, FirstVoucher
<1>2. BatchInv /\ OneDepositInv => UnclaimedIsClaimable
  BY <1>1 DEF UnclaimedIsClaimable
<1> QED BY <1>2, OneDepositInvariant, PTL
=============================================================================
