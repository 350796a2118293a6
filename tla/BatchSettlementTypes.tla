------------------------ MODULE BatchSettlementTypes ------------------------
(***************************************************************************)
(* Type correctness of BatchSettlement for every value of its constants,   *)
(* the lemmas on its operators, and what a step may do to each variable.   *)
(***************************************************************************)
EXTENDS BatchSettlement, TLAPS

(***************************************************************************)
(* Proved first, by itself: the types, what a request in flight knows of   *)
(* its deposit, and that charges cover what was admitted.                  *)
(***************************************************************************)
RequestWF(q) ==
  /\ q.pc \in InFlight => q.cid \in Cids
  /\ q.pc \in {"settle", "settled"} => Amount <= q.max

TypeInv == TypeOK /\ \A r \in Reqs : RequestWF(req[r])

-----------------------------------------------------------------------------
(* Lemmas on the operators of ChannelTable and Escrow *)

\* The constants are numbers of 128 bits.
LEMMA Constants ==
  /\ MaxU128 \in Nat /\ Amount \in U128 /\ EscrowCap \in U128
  /\ Vouchers \subseteq U128 /\ Deposits \subseteq U128
  /\ None \notin Cids
BY TableAssumption, EscrowAssumption, HandlerAssumption DEF U128

LEMMA MaxOfBounds ==
  ASSUME NEW a \in U128, NEW b \in U128
  PROVE  MaxOf(a, b) \in U128 /\ MaxOf(a, b) >= a /\ MaxOf(a, b) >= b
BY Constants DEF MaxOf, U128

LEMMA SentinelType == Sentinel \in U128
BY Constants DEF Sentinel, U128

\* A deposit writes an entry of the table's type.
LEMMA OpenedType ==
  ASSUME NEW max \in U128, NEW snap \in Snapshot
  PROVE  Opened(max, snap) \in ChannelState
BY Constants, SentinelType DEF Opened, ChannelState, Snapshot

LEMMA BlankType ==
  ASSUME NEW pc \in InFlight \cup Answered
  PROVE  Blank(pc) \in Request
BY Constants DEF Blank, Request, NoSnapshot, Snapshot, U128

\* Reconciling any batch keeps the table's type.
LEMMA ReconciledType ==
  ASSUME TableTypeOK, NEW batch \in Batches
  PROVE  Reconciled(batch) \in [Cids -> ChannelState \cup {None}]
<1> SUFFICES ASSUME NEW c \in Cids, c \in DOMAIN batch, channels[c] # None
             PROVE  [channels[c] EXCEPT !.totalClaimed = batch[c]] \in ChannelState
  BY DEF Reconciled, TableTypeOK
<1>1. batch[c] \in U128
  BY DEF Batches
<1>2. channels[c] \in ChannelState
  BY DEF TableTypeOK
<1> QED BY <1>1, <1>2 DEF ChannelState

\* The batch a run reads from the table is one.
LEMMA ClaimBatchType ==
  ASSUME TableTypeOK
  PROVE  ClaimBatch \in Batches
<1>1. ClaimableCids \in SUBSET Cids
  BY DEF ClaimableCids, Present
<1>2. \A c \in ClaimableCids : channels[c].lastMax \in U128
  BY DEF ClaimableCids, Present, TableTypeOK, ChannelState
<1>3. ClaimBatch \in [ClaimableCids -> U128]
  BY <1>2 DEF ClaimBatch
<1> QED BY <1>1, <1>3 DEF Batches

\* Whatever is unreadable, a snapshot is one after parsing.
LEMMA ParsedType ==
  ASSUME NEW snap \in Snapshot, NEW lost \in SUBSET Unreadable
  PROVE  Parsed(snap, lost) \in Snapshot
BY Constants DEF Parsed, Snapshot, U128

-----------------------------------------------------------------------------
(* Type correctness *)

\* A step that gives one slot a well-formed request keeps them all so.
LEMMA BecomeWF ==
  ASSUME HandlerTypeOK, \A s \in Reqs : RequestWF(req[s]),
         NEW r \in Reqs, NEW q \in Request, RequestWF(q), Become(r, q)
  PROVE  HandlerTypeOK' /\ \A s \in Reqs : RequestWF(req'[s])
BY DEF HandlerTypeOK, Become

LEMMA RespondWF ==
  ASSUME HandlerTypeOK, \A s \in Reqs : RequestWF(req[s]),
         NEW r \in Reqs, Respond(r)
  PROVE  HandlerTypeOK' /\ \A s \in Reqs : RequestWF(req'[s])
<1>1. Blank("free") \in Request
  BY BlankType DEF Answered
<1>2. RequestWF(Blank("free"))
  BY DEF RequestWF, Blank, InFlight
<1> QED BY <1>1, <1>2, BecomeWF DEF Respond

LEMMA HandlerKeepsTypes ==
  ASSUME TypeInv, NEW r \in Reqs, HandlerNext(r), UNCHANGED run
  PROVE  TypeInv'
<1> USE DEF TypeInv, TypeOK
<1>1. RunTypeOK'
  BY DEF RunTypeOK
<1>2. HandlerTypeOK /\ req[r] \in Request /\ RequestWF(req[r])
  BY DEF HandlerTypeOK
<1>3. ASSUME UNCHANGED tableVars PROVE TableTypeOK'
  BY <1>3 DEF TableTypeOK, tableVars, historyVars
<1>4. ASSUME UNCHANGED escrowVars PROVE EscrowTypeOK'
  BY <1>4 DEF EscrowTypeOK, escrowVars
<1>5. ASSUME NEW c \in Cids, NEW max \in Vouchers, AdmitVoucher(r, c, max)
      PROVE  TypeInv'
  <2>1. max \in U128
    BY Constants
  <2>2. channels[c] \in ChannelState /\ owed[c] \in Nat /\ ceiling[c] \in U128
    BY <1>5 DEF AdmitVoucher, Accepts, TableTypeOK
  <2>3. Charge(channels[c], max) \in ChannelState
    BY <2>1, <2>2 DEF Charge, ChannelState
  <2>4. owed[c] + Amount \in Nat /\ MaxOf(ceiling[c], max) \in U128
    BY <2>1, <2>2, Constants, MaxOfBounds DEF U128
  <2>5. TableTypeOK'
    BY <1>5, <2>3, <2>4 DEF AdmitVoucher, HandOver, TableTypeOK
  <2>6. Blank("upstream") \in Request
    BY BlankType DEF InFlight
  <2> DEFINE q == [Blank("upstream") EXCEPT !.cid = c, !.max = max]
  <2>7. q \in Request /\ RequestWF(q)
    BY <2>1, <2>6 DEF Request, RequestWF, Blank
  <2>8. HandlerTypeOK' /\ \A s \in Reqs : RequestWF(req'[s])
    BY <1>2, <1>5, <2>7, BecomeWF DEF AdmitVoucher
  <2> QED BY <1>1, <1>4, <1>5, <2>5, <2>8 DEF AdmitVoucher
<1>6. ASSUME Respond(r), UNCHANGED <<tableVars, escrowVars>>
      PROVE  TypeInv'
  BY <1>1, <1>2, <1>3, <1>4, <1>6, RespondWF
<1>7. ASSUME NEW c \in Cids, NEW max \in Vouchers, NEW value \in Deposits,
             PresentDeposit(r, c, max, value)
      PROVE  TypeInv'
  <2>1. max \in U128 /\ value \in U128
    BY Constants
  <2>2. Blank("verify") \in Request
    BY BlankType DEF InFlight
  <2> DEFINE q == [Blank("verify") EXCEPT !.cid = c, !.max = max, !.value = value]
  <2>3. q \in Request /\ RequestWF(q)
    BY <2>1, <2>2 DEF Request, RequestWF, Blank
  <2>4. HandlerTypeOK' /\ \A s \in Reqs : RequestWF(req'[s])
    BY <1>2, <1>7, <2>3, BecomeWF DEF PresentDeposit
  <2> QED BY <1>1, <1>3, <1>4, <1>7, <2>4 DEF PresentDeposit
<1>8. ASSUME DepositVerified(r) PROVE TypeInv'
  <2>1. req[r].cid \in Cids
    BY <1>2, <1>8 DEF DepositVerified, RequestWF, InFlight
  <2>2. SnapshotOf(req[r].cid) \in Snapshot
    BY <2>1, Constants DEF SnapshotOf, Snapshot, EscrowTypeOK, U128
  <2> DEFINE q == [req[r] EXCEPT !.pc = "settle", !.snap = SnapshotOf(req[r].cid)]
  <2>3. q \in Request /\ RequestWF(q)
    BY <1>2, <1>8, <2>1, <2>2 DEF DepositVerified, Request, RequestWF, InFlight
  <2>4. HandlerTypeOK' /\ \A s \in Reqs : RequestWF(req'[s])
    BY <1>2, <1>8, <2>3, BecomeWF DEF DepositVerified
  <2> QED BY <1>1, <1>3, <1>4, <1>8, <2>4 DEF DepositVerified
<1>9. ASSUME NEW from \in SnapshotReplies, NEW lost \in SUBSET Unreadable,
             DepositExecuted(r, from, lost)
      PROVE  TypeInv'
  <2>1. req[r].cid \in Cids /\ Amount <= req[r].max
    BY <1>2, <1>9 DEF DepositExecuted, RequestWF, InFlight
  <2>2. escrow[req[r].cid] + req[r].value \in 0..EscrowCap
    BY <1>2, <1>9, <2>1, Constants
       DEF DepositExecuted, ExecDeposit, EscrowTypeOK, Request, U128
  <2>3. EscrowTypeOK'
    BY <1>9, <2>1, <2>2 DEF DepositExecuted, ExecDeposit, EscrowTypeOK
  <2> DEFINE after == [balance |-> escrow'[req[r].cid],
                       totalClaimed |-> claimed[req[r].cid]]
             snap == IF from = "settle" THEN after ELSE req[r].snap
             q == [req[r] EXCEPT !.pc = "settled", !.snap = Parsed(snap, lost)]
  <2>4. after \in Snapshot
    BY <2>1, <2>3, Constants DEF Snapshot, EscrowTypeOK, U128
  <2>5. Parsed(snap, lost) \in Snapshot
    BY <1>2, <2>4, ParsedType DEF Request
  <2>6. Become(r, q)
    BY <1>9 DEF DepositExecuted
  <2>7. q \in Request /\ RequestWF(q)
    BY <1>2, <2>1, <2>5 DEF Request, RequestWF, InFlight
  <2>8. HandlerTypeOK' /\ \A s \in Reqs : RequestWF(req'[s])
    BY <1>2, <2>6, <2>7, BecomeWF
  <2> QED BY <1>1, <1>3, <1>9, <2>3, <2>8 DEF DepositExecuted
<1>10. ASSUME OpenChannel(r) PROVE TypeInv'
  <2> DEFINE c == req[r].cid  max == req[r].max
  <2>1. c \in Cids /\ max \in U128 /\ req[r].snap \in Snapshot
    BY <1>2, <1>10 DEF OpenChannel, RequestWF, InFlight, Request
  <2>2. Opened(max, req[r].snap) \in ChannelState
    BY <2>1, OpenedType
  <2>3. ceiling[c] \in U128 /\ MaxOf(ceiling[c], max) \in U128 /\ Amount \in Nat
    <3>1. ceiling[c] \in U128
      BY <2>1 DEF TypeInv, TypeOK, TableTypeOK
    <3>2. MaxOf(ceiling[c], max) \in U128
      BY <2>1, <3>1, MaxOfBounds
    <3> QED BY <3>1, <3>2, Constants DEF U128
  <2>4. TableTypeOK'
    BY <1>10, <2>2, <2>3, Constants DEF OpenChannel, HandOver, TableTypeOK
  <2> DEFINE q == [req[r] EXCEPT !.pc = "upstream", !.value = 0, !.snap = NoSnapshot]
  <2>5. NoSnapshot \in Snapshot /\ 0 \in U128
    BY Constants DEF NoSnapshot, Snapshot, U128
  <2>6. q \in Request /\ RequestWF(q)
    BY <1>2, <2>1, <2>5 DEF Request, RequestWF, InFlight
  <2>7. HandlerTypeOK' /\ \A s \in Reqs : RequestWF(req'[s])
    BY <1>2, <1>10, <2>6, BecomeWF DEF OpenChannel
  <2> QED BY <1>1, <1>4, <1>10, <2>4, <2>7 DEF OpenChannel
<1>11. ASSUME UpstreamFails(r) PROVE TypeInv'
  <2> DEFINE q == [req[r] EXCEPT !.pc = "502"]
  <2>1. q \in Request /\ RequestWF(q)
    BY <1>2 DEF Request, RequestWF, InFlight, Answered
  <2>2. CASE Become(r, q)
    <3>1. HandlerTypeOK' /\ \A s \in Reqs : RequestWF(req'[s])
      BY <1>2, <2>1, <2>2, BecomeWF
    <3> QED BY <1>1, <1>3, <1>4, <1>11, <3>1 DEF UpstreamFails
  <2>3. CASE Respond(r)
    BY <1>6, <1>11, <2>3 DEF UpstreamFails
  <2> QED BY <1>11, <2>2, <2>3 DEF UpstreamFails
<1> QED
  BY <1>5, <1>6, <1>7, <1>8, <1>9, <1>10, <1>11
     DEF HandlerNext, RefuseVoucher, DepositRefused, DepositErrs,
         UpstreamServes, DropRequest

LEMMA IdleType == Idle \in RunState
<1>1. [c \in {} |-> 0] \in [{} -> U128]
  OBVIOUS
<1>2. {} \in SUBSET Cids
  OBVIOUS
<1>3. [c \in {} |-> 0] \in Batches
  BY <1>1, <1>2 DEF Batches
<1> QED BY <1>3 DEF Idle, RunState

LEMMA EndRunKeepsTypes ==
  ASSUME TypeInv, NEW k \in Runs, EndRun(k), UNCHANGED req
  PROVE  TypeInv'
<1>1. RunTypeOK'
  BY IdleType DEF TypeInv, TypeOK, EndRun, RunTypeOK
<1> QED
  BY <1>1 DEF TypeInv, TypeOK, EndRun, TableTypeOK, EscrowTypeOK, HandlerTypeOK,
              tableVars, historyVars, escrowVars

LEMMA RunKeepsTypes ==
  ASSUME TypeInv, NEW k \in Runs, RunNext(k), UNCHANGED req
  PROVE  TypeInv'
<1> USE DEF TypeInv, TypeOK
<1>1. HandlerTypeOK' /\ \A s \in Reqs : RequestWF(req'[s])
  BY DEF HandlerTypeOK
<1>2. run[k] \in RunState /\ Idle \in RunState
  BY IdleType DEF RunTypeOK
<1>3. ASSUME UNCHANGED tableVars PROVE TableTypeOK'
  BY <1>3 DEF TableTypeOK, tableVars, historyVars
<1>4. ASSUME UNCHANGED escrowVars PROVE EscrowTypeOK'
  BY <1>4 DEF EscrowTypeOK, escrowVars
<1>5. ASSUME NEW pc \in {"claimed", "settle", "settled"},
             run' = [run EXCEPT ![k].pc = pc]
      PROVE  RunTypeOK'
  BY <1>2, <1>5 DEF RunTypeOK, RunState
<1>6. CASE StartRun(k)
  <2>1. [pc |-> "claim", batch |-> ClaimBatch] \in RunState
    BY ClaimBatchType DEF RunState
  <2>2. RunTypeOK'
    BY <1>6, <2>1 DEF StartRun, RunTypeOK
  <2> QED BY <1>1, <1>3, <1>4, <1>6, <2>2 DEF StartRun
<1>7. CASE ClaimExecuted(k)
  <2>1. \A c \in DOMAIN run[k].batch : run[k].batch[c] \in U128
    BY <1>2 DEF RunState, Batches
  <2>2. \A c \in DOMAIN run[k].batch \cap Cids :
          MaxOf(claimed[c], run[k].batch[c]) \in U128
    BY <2>1, MaxOfBounds DEF EscrowTypeOK
  <2>3. EscrowTypeOK'
    BY <1>7, <2>2 DEF ClaimExecuted, ExecClaim, EscrowTypeOK
  <2> QED BY <1>1, <1>3, <1>5, <1>7, <2>3 DEF ClaimExecuted
<1>8. CASE PostSettle(k)
  BY <1>1, <1>3, <1>4, <1>5, <1>8 DEF PostSettle
<1>9. CASE SettleExecuted(k)
  <2>1. EscrowTypeOK'
    BY <1>9 DEF SettleExecuted, ExecSettle, EscrowTypeOK
  <2> QED BY <1>1, <1>3, <1>5, <1>9, <2>1 DEF SettleExecuted
<1>10. CASE Reconcile(k)
  <2>1. TableTypeOK'
    BY <1>2, <1>10, ReconciledType DEF Reconcile, RunState, TableTypeOK, historyVars
  <2>2. RunTypeOK'
    BY <1>2, <1>10 DEF Reconcile, RunTypeOK
  <2> QED BY <1>1, <1>4, <1>10, <2>1, <2>2 DEF Reconcile
<1>11. CASE EndRun(k)
  BY <1>11, EndRunKeepsTypes
<1> QED
  BY <1>6, <1>7, <1>8, <1>9, <1>10, <1>11
     DEF RunNext, ClaimFails, SettleFails, DropRun

LEMMA RestartKeepsTypes ==
  ASSUME TypeInv, Restart
  PROVE  TypeInv'
<1>1. Blank("free") \in Request /\ RequestWF(Blank("free"))
  BY BlankType DEF Answered, RequestWF, Blank, InFlight
<1>2. Idle \in RunState /\ 0 \in U128
  BY IdleType, Constants DEF U128
<1> QED
  BY <1>1, <1>2 DEF TypeInv, TypeOK, Restart, TableTypeOK, EscrowTypeOK,
                    HandlerTypeOK, RunTypeOK, escrowVars

LEMMA WithdrawKeepsTypes ==
  ASSUME TypeInv, NEW c \in Cids, NEW left \in Remainders, Withdraw(c, left)
  PROVE  TypeInv'
BY EscrowAssumption DEF TypeInv, TypeOK, Withdraw, ExecWithdraw, TableTypeOK, EscrowTypeOK,
       HandlerTypeOK, RunTypeOK, tableVars, historyVars

(***************************************************************************)
(* Every reachable state is well typed, and a deposit that the facilitator *)
(* has verified carries a voucher that pays for its request.               *)
(***************************************************************************)
THEOREM TypeInvariant == Spec => []TypeInv
<1>1. Init => TypeInv
  <2>1. Blank("free") \in Request /\ RequestWF(Blank("free"))
    BY BlankType DEF Answered, RequestWF, Blank, InFlight
  <2>2. Idle \in RunState /\ 0 \in U128 /\ 0 \in 0..EscrowCap
    BY IdleType, Constants DEF U128
  <2> QED
    BY <2>1, <2>2 DEF Init, TypeInv, TypeOK, TableInit, TableTypeOK, EscrowInit,
         EscrowTypeOK, HandlerInit, HandlerTypeOK, RunInit, RunTypeOK
<1>2. TypeInv /\ [Next]_vars => TypeInv'
  <2> SUFFICES ASSUME TypeInv, [Next]_vars PROVE TypeInv'
    OBVIOUS
  <2>1. CASE UNCHANGED vars
    BY <2>1 DEF vars, TypeInv, TypeOK, TableTypeOK, EscrowTypeOK, HandlerTypeOK,
                RunTypeOK, tableVars, historyVars, escrowVars
  <2> QED
    BY <2>1, HandlerKeepsTypes, RunKeepsTypes, WithdrawKeepsTypes, RestartKeepsTypes
       DEF Next
<1> QED BY <1>1, <1>2, PTL DEF Spec

\* Every variable has its type, in every reachable state.
THEOREM TypeCorrect == Spec => []TypeOK
BY TypeInvariant, PTL DEF TypeInv

-----------------------------------------------------------------------------
(* Frame lemmas: which steps touch the table, a slot, a run, the escrow *)

LEMMA TableSteps ==
  ASSUME [Next]_vars
  PROVE  \/ UNCHANGED tableVars
         \/ \E r \in Reqs, c \in Cids, max \in Vouchers : AdmitVoucher(r, c, max)
         \/ \E r \in Reqs : OpenChannel(r)
         \/ \E k \in Runs : Reconcile(k)
         \/ Restart
BY DEF Next, vars, HandlerNext, RunNext, RefuseVoucher, PresentDeposit,
       DepositVerified, DepositExecuted, DepositRefused, DepositErrs,
       UpstreamServes, UpstreamFails, DropRequest, StartRun, ClaimExecuted,
       ClaimFails, PostSettle, SettleExecuted, SettleFails, DropRun, EndRun, Withdraw

LEMMA EscrowSteps ==
  ASSUME [Next]_vars
  PROVE  \/ UNCHANGED escrowVars
         \/ \E r \in Reqs, from \in SnapshotReplies, lost \in SUBSET Unreadable :
               DepositExecuted(r, from, lost)
         \/ \E k \in Runs : ClaimExecuted(k) \/ SettleExecuted(k)
         \/ \E c \in Cids, left \in Remainders : Withdraw(c, left)
BY DEF Next, vars, HandlerNext, RunNext, AdmitVoucher, RefuseVoucher,
       PresentDeposit, DepositVerified, DepositRefused, DepositErrs,
       OpenChannel, UpstreamServes, UpstreamFails, DropRequest, StartRun,
       ClaimFails, PostSettle, SettleFails, Reconcile, DropRun, EndRun, Restart

LEMMA SlotSteps ==
  ASSUME TypeInv, [Next]_vars, NEW s \in Reqs
  PROVE  \/ req'[s] = req[s]
         \/ req'[s].pc \notin InFlight
         \/ \E c \in Cids, max \in Vouchers : AdmitVoucher(s, c, max)
         \/ \E c \in Cids, max \in Vouchers, value \in Deposits :
               PresentDeposit(s, c, max, value)
         \/ DepositVerified(s)
         \/ \E from \in SnapshotReplies, lost \in SUBSET Unreadable :
               DepositExecuted(s, from, lost)
         \/ OpenChannel(s)
<1>1. CASE UNCHANGED req
  BY <1>1
<1>2. ASSUME NEW r \in Reqs, HandlerNext(r), r # s
      PROVE  req'[s] = req[s]
  <2>1. ASSUME NEW q, Become(r, q) PROVE req'[s] = req[s]
    BY <1>2, <2>1 DEF Become, TypeInv, TypeOK, HandlerTypeOK
  <2> QED
    BY <1>2, <2>1
       DEF HandlerNext, AdmitVoucher, RefuseVoucher, PresentDeposit,
           DepositVerified, DepositExecuted, DepositRefused, DepositErrs,
           OpenChannel, UpstreamServes, UpstreamFails, DropRequest, Respond
<1>3. CASE HandlerNext(s)
  <2>1. req \in [Reqs -> Request] /\ req[s] \in Request
    BY DEF TypeInv, TypeOK, HandlerTypeOK
  <2>2. ASSUME Respond(s) PROVE req'[s].pc \notin InFlight
    BY <2>1, <2>2 DEF Respond, Become, Blank, InFlight
  <2>3. ASSUME UpstreamFails(s) PROVE req'[s].pc \notin InFlight
    BY <2>1, <2>2, <2>3 DEF UpstreamFails, Become, InFlight, Request
  <2> QED
    BY <1>3, <2>2, <2>3
       DEF HandlerNext, RefuseVoucher, DepositRefused, DepositErrs,
           UpstreamServes, DropRequest
<1>4. CASE Restart
  BY <1>4 DEF Restart, Blank, InFlight
<1>5. ASSUME NEW c \in Cids, NEW left \in Remainders, Withdraw(c, left)
      PROVE  UNCHANGED req
  BY <1>5 DEF Withdraw
<1> QED BY <1>1, <1>2, <1>3, <1>4, <1>5 DEF Next, vars

LEMMA RunSteps ==
  ASSUME TypeInv, [Next]_vars, NEW j \in Runs
  PROVE  \/ run'[j] = run[j]
         \/ run'[j] = Idle
         \/ StartRun(j) \/ ClaimExecuted(j) \/ PostSettle(j) \/ SettleExecuted(j)
<1>1. run \in [Runs -> RunState]
  BY DEF TypeInv, TypeOK, RunTypeOK
<1>2. CASE UNCHANGED run
  BY <1>2
<1>3. ASSUME NEW k \in Runs, RunNext(k), k # j
      PROVE  run'[j] = run[j]
  BY <1>1, <1>3
     DEF RunNext, StartRun, ClaimExecuted, ClaimFails, PostSettle,
         SettleExecuted, SettleFails, Reconcile, DropRun, EndRun
<1>4. CASE RunNext(j)
  BY <1>1, <1>4
     DEF RunNext, ClaimFails, SettleFails, Reconcile, DropRun, EndRun
<1>5. CASE Restart
  BY <1>5 DEF Restart
<1>6. ASSUME NEW c \in Cids, NEW left \in Remainders, Withdraw(c, left)
      PROVE  UNCHANGED run
  BY <1>6 DEF Withdraw
<1> QED BY <1>2, <1>3, <1>4, <1>5, <1>6 DEF Next, vars
=============================================================================
