------------------------- MODULE SignedChannelsProofs -----------------------
(***************************************************************************)
(* For any channels, signatures, payloads, requests and runs: following    *)
(* config and signature is BatchSettlement, and what a run posts was       *)
(* signed for just that.                                                   *)
(***************************************************************************)
EXTENDS SignedChannels, SingleRunProofs

\* What a client presents names a channel of the table and a ceiling.
LEMMA PresentedTypes ==
  ASSUME NEW p \in Payloads
  PROVE  /\ p.config \in ChannelConfig /\ p.sig \in Signatures
         /\ p.max \in Vouchers
         /\ KeyOf(p) \in Cids
         /\ verify_voucher(p, ChainId) => p.channelId = KeyOf(p)
<1>1. p \in Payload(Signatures) /\ p.config # Bad /\ p.sig # Bad /\ p.max \in Vouchers
  BY SignedAssumption
<1>2. p.config \in ChannelConfig /\ p.sig \in Signatures
  BY <1>1 DEF Payload
<1> QED BY <1>1, <1>2, SignedAssumption DEF KeyOf, verify_voucher

-----------------------------------------------------------------------------
(* The refinement *)

LEMMA SignedNextImplements ==
  ASSUME [SignedNext]_signedVars
  PROVE  [Next]_vars
<1>1. ASSUME NEW r \in Reqs, NEW p \in Payloads, Voucher(r, p)
      PROVE  Next
  <2>1. HandlerNext(r)
    BY <1>1, PresentedTypes DEF Voucher, HandlerNext
  <2> QED BY <1>1, <2>1 DEF Voucher, Next
<1>2. ASSUME NEW r \in Reqs, NEW p \in Payloads, NEW value \in Deposits,
             Deposit(r, p, value)
      PROVE  Next
  <2>1. HandlerNext(r)
    BY <1>2, PresentedTypes DEF Deposit, HandlerNext
  <2> QED BY <1>2, <2>1 DEF Deposit, Next
<1>3. ASSUME NEW r \in Reqs, Verified(r) \/ Open(r) \/ Proceed(r)
      PROVE  Next
  <2>1. HandlerNext(r) /\ UNCHANGED run
    BY <1>3 DEF Verified, Open, Proceed, HandlerNext
  <2> QED BY <2>1 DEF Next
<1>4. ASSUME NEW k \in Runs, Start(k) \/ Advance(k)
      PROVE  Next
  <2>1. RunNext(k) /\ UNCHANGED req
    BY <1>4 DEF Start, Advance, RunNext
  <2> QED BY <2>1 DEF Next
<1>5. ASSUME NEW c \in Cids, NEW left \in Remainders, TakeBack(c, left)
      PROVE  Next
  BY <1>5 DEF TakeBack, Next
<1>6. ASSUME Forget PROVE Next
  BY <1>6 DEF Forget, Next
<1>7. ASSUME UNCHANGED signedVars PROVE UNCHANGED vars
  BY <1>7 DEF signedVars
<1> QED BY <1>1, <1>2, <1>3, <1>4, <1>5, <1>6, <1>7 DEF SignedNext

(***************************************************************************)
(* Following config and signature changes nothing in what the channels do. *)
(***************************************************************************)
THEOREM SignedIsBatchSettlement == SignedSpec => Spec
<1>1. SignedInit => Init
  BY DEF SignedInit
<1>2. [SignedNext]_signedVars => [Next]_vars
  BY SignedNextImplements
<1> QED BY <1>1, <1>2, PTL DEF SignedSpec, Spec

-----------------------------------------------------------------------------
(* The inductive invariant *)

\* Config and signature stand for a voucher of channel c with ceiling max.
Backs(config, sig, c, max) ==
  /\ config \in ChannelConfig /\ sig \in Signatures
  /\ channel_id(config, ChainId) = c
  /\ Genuine(config, max, sig)

KeptInv ==
  /\ kept \in [Cids -> Signed \cup {None}]
  /\ \A c \in Present : Backs(kept[c].config, kept[c].sig, c, channels[c].lastMax)

\* A deposit in flight is that of its payload, and genuine once verified.
CarriedWF(q, p) ==
  /\ q.pc \in {"verify", "settle", "settled"} =>
       p \in Payloads /\ KeyOf(p) = q.cid /\ p.max = q.max
  /\ q.pc \in {"settle", "settled"} => Genuine(p.config, p.max, p.sig)

CarriedInv ==
  /\ carried \in [Reqs -> Payloads \cup {None}]
  /\ \A r \in Reqs : CarriedWF(req[r], carried[r])

\* The claims of a run are those of its batch.
PostedWF(batch, claims) ==
  /\ DOMAIN claims = DOMAIN batch
  /\ \A c \in DOMAIN claims :
       /\ claims[c].maxClaimableAmount = batch[c]
       /\ Backs(claims[c].channel, claims[c].signature, c, batch[c])

PostedInv ==
  /\ posted = [k \in Runs |-> posted[k]]
  /\ \A k \in Runs : PostedWF(run[k].batch, posted[k])

SignedInv == KeptInv /\ CarriedInv /\ PostedInv

(***************************************************************************)
(* A genuine signature in circulation was meant for just that.             *)
(***************************************************************************)
LEMMA BackedIsMeant ==
  ASSUME NEW config, NEW sig, NEW c, NEW max, Backs(config, sig, c, max)
  PROVE  sig.meant = [config |-> config, max |-> max, chain |-> ChainId]
<1>1. PICK cf \in ChannelConfig, m \in Ceilings, ch \in Chains, v \in {0, 27} :
        sig = SignedVoucher(cf, m, ch, v)
  BY SignedAssumption DEF Backs
<1>2. config.payerAuthorizer # Nobody
  BY VoucherAssumption DEF Backs, ChannelConfig
<1>3. sig.over = voucher_digest(channel_id(config, ChainId), max, ChainId)
  BY <1>2 DEF Backs, Genuine, recover_signer
<1>4. voucher_digest(channel_id(cf, ch), m, ch)
        = voucher_digest(channel_id(config, ChainId), max, ChainId)
  BY <1>1, <1>3 DEF SignedVoucher
<1>5. cf = config /\ m = max /\ ch = ChainId
  BY <1>4 DEF voucher_digest, channel_id
<1> QED BY <1>1, <1>5 DEF SignedVoucher

\* What verify_voucher lets through backs its channel and ceiling.
LEMMA VerifiedBacks ==
  ASSUME NEW p \in Payloads, verify_voucher(p, ChainId)
  PROVE  Backs(p.config, p.sig, p.channelId, p.max)
BY PresentedTypes DEF verify_voucher, Backs, Genuine, KeyOf

\* So does a deposit that the facilitator has verified.
LEMMA DepositBacks ==
  ASSUME CarriedInv, NEW r \in Reqs, req[r].pc \in {"settle", "settled"}
  PROVE  Backs(carried[r].config, carried[r].sig, req[r].cid, req[r].max)
BY PresentedTypes DEF CarriedInv, CarriedWF, Backs, KeyOf

-----------------------------------------------------------------------------
(* The steps *)

LEMMA SignedInvInit == SignedInit => SignedInv
<1> SUFFICES ASSUME SignedInit PROVE SignedInv
  OBVIOUS
<1>1. KeptInv
  BY DEF SignedInit, Init, TableInit, KeptInv, Present
<1>2. CarriedInv
  BY DEF SignedInit, Init, HandlerInit, Blank, CarriedInv, CarriedWF
<1>3. PostedInv
  BY DEF SignedInit, Init, RunInit, Idle, NoClaims, PostedInv, PostedWF
<1> QED BY <1>1, <1>2, <1>3 DEF SignedInv

\* An entry that is written comes with its evidence, and no other changes.
LEMMA KeepBacked ==
  ASSUME KeptInv, NEW c \in Cids, NEW p \in Payloads, NEW max,
         Keep(c, p), Backs(p.config, p.sig, c, max),
         channels'[c].lastMax = max,
         \A d \in Cids \ {c} : channels'[d] = channels[d]
  PROVE  KeptInv'
<1>1. Evidence(p) \in Signed
  BY PresentedTypes DEF Evidence, Signed
<1>2. kept' \in [Cids -> Signed \cup {None}]
  BY <1>1 DEF KeptInv, Keep
<1>3. ASSUME NEW d \in Present'
      PROVE  Backs(kept'[d].config, kept'[d].sig, d, channels'[d].lastMax)
  <2>1. d \in Cids /\ channels'[d] # None
    BY <1>3 DEF Present
  <2>2. CASE d = c
    <3>1. kept'[d] = Evidence(p)
      BY <2>2 DEF KeptInv, Keep
    <3> QED BY <2>2, <3>1 DEF Evidence
  <2>3. CASE d # c
    BY <2>1, <2>3 DEF KeptInv, Keep, Present
  <2> QED BY <2>2, <2>3
<1> QED BY <1>2, <1>3 DEF KeptInv, Backs, Genuine

LEMMA KeptStep ==
  ASSUME TypeInv, SignedInv, [SignedNext]_signedVars
  PROVE  KeptInv'
<1> USE DEF SignedInv
<1>1. channels \in [Cids -> ChannelState \cup {None}]
  BY DEF TypeInv, TypeOK, TableTypeOK
<1>2. ASSUME NEW r \in Reqs, NEW p \in Payloads, Voucher(r, p)
      PROVE  KeptInv'
  <2>1. p.channelId \in Cids /\ Backs(p.config, p.sig, p.channelId, p.max)
    BY <1>2, PresentedTypes, VerifiedBacks DEF Voucher
  <2>2. /\ channels[p.channelId] \in ChannelState
        /\ channels' = [channels EXCEPT ![p.channelId] = Charge(@, p.max)]
    BY <1>1, <1>2, <2>1 DEF Voucher, AdmitVoucher, Accepts
  <2>3. channels'[p.channelId].lastMax = p.max
    BY <1>1, <2>1, <2>2 DEF Charge, ChannelState
  <2> QED BY <1>1, <1>2, <2>1, <2>2, <2>3, KeepBacked DEF Voucher
<1>3. ASSUME NEW r \in Reqs, Open(r)
      PROVE  KeptInv'
  <2>1. /\ req[r].pc = "settled"
        /\ channels' = [channels EXCEPT ![req[r].cid] = Opened(req[r].max, req[r].snap)]
    BY <1>3 DEF Open, OpenChannel
  <2>2. req[r].cid \in Cids
    BY <2>1 DEF TypeInv, RequestWF, InFlight
  <2>3. Backs(carried[r].config, carried[r].sig, req[r].cid, req[r].max)
    BY <2>1, DepositBacks
  <2>4. carried[r] \in Payloads
    BY <2>1 DEF CarriedInv, CarriedWF
  <2>5. channels'[req[r].cid].lastMax = req[r].max
    BY <1>1, <2>1, <2>2 DEF Opened
  <2> QED BY <1>1, <1>3, <2>1, <2>2, <2>3, <2>4, <2>5, KeepBacked DEF Open
<1>4. ASSUME UNCHANGED kept, NEW k \in Runs, Reconcile(k)
      PROVE  KeptInv'
  <2>1. ASSUME NEW c \in Cids, channels'[c] # None
        PROVE  channels[c] # None /\ channels'[c].lastMax = channels[c].lastMax
    <3>1. channels'[c] = Reconciled(run[k].batch)[c]
      BY <1>4 DEF Reconcile
    <3>2. channels[c] # None
      BY <2>1, <3>1 DEF Reconciled
    <3>3. channels[c] \in ChannelState
      BY <1>1, <3>2
    <3> QED BY <3>1, <3>2, <3>3 DEF Reconciled, ChannelState
  <2> QED BY <1>4, <2>1 DEF KeptInv, Present, Backs, Genuine
<1>5. ASSUME UNCHANGED <<kept, channels>> PROVE KeptInv'
  BY <1>5 DEF KeptInv, Present, Backs, Genuine
<1>6. ASSUME Forget PROVE KeptInv'
  BY <1>6 DEF Forget, Restart, KeptInv, Present
<1>7. ASSUME NEW r \in Reqs,
             Verified(r) \/ Proceed(r)
               \/ \E p \in Payloads, value \in Deposits : Deposit(r, p, value)
      PROVE  UNCHANGED <<kept, channels>>
  BY <1>7 DEF Verified, Proceed, Deposit, DepositVerified, PresentDeposit,
     RefuseVoucher, DepositExecuted, DepositRefused, DepositErrs, UpstreamServes,
     UpstreamFails, DropRequest, tableVars
<1>8. ASSUME NEW k \in Runs, Start(k) \/ Advance(k), ~Reconcile(k)
      PROVE  UNCHANGED <<kept, channels>>
  BY <1>8 DEF Start, Advance, StartRun, ClaimExecuted, ClaimFails, PostSettle,
     SettleExecuted, SettleFails, DropRun, EndRun, tableVars
<1>9. ASSUME NEW k \in Runs, Start(k) \/ Advance(k) PROVE UNCHANGED kept
  BY <1>9 DEF Start, Advance
<1>10. ASSUME NEW c \in Cids, NEW left \in Remainders, TakeBack(c, left)
       PROVE  UNCHANGED <<kept, channels>>
  BY <1>10 DEF TakeBack, Withdraw, tableVars
<1>11. ASSUME UNCHANGED signedVars PROVE UNCHANGED <<kept, channels>>
  BY <1>11 DEF signedVars, vars, tableVars
<1> QED
  BY <1>2, <1>3, <1>4, <1>5, <1>6, <1>7, <1>8, <1>9, <1>10, <1>11 DEF SignedNext

\* One slot and its payload change, and fit together again.
LEMMA CarryOne ==
  ASSUME TypeInv, CarriedInv, NEW r \in Reqs, NEW q, NEW p \in Payloads \cup {None},
         Become(r, q), carried' = [carried EXCEPT ![r] = p], CarriedWF(q, p)
  PROVE  CarriedInv'
<1>1. req' = [req EXCEPT ![r] = q] /\ req \in [Reqs -> Request]
  BY DEF Become, TypeInv, TypeOK, HandlerTypeOK
<1>2. \A s \in Reqs : CarriedWF(req'[s], carried'[s])
  BY <1>1 DEF CarriedInv
<1> QED BY <1>2 DEF CarriedInv, CarriedWF, KeyOf, Genuine

LEMMA CarriedStep ==
  ASSUME TypeInv, SignedInv, [SignedNext]_signedVars
  PROVE  CarriedInv'
<1> USE DEF SignedInv
<1>1. req \in [Reqs -> Request] /\ carried \in [Reqs -> Payloads \cup {None}]
  BY DEF TypeInv, TypeOK, HandlerTypeOK, CarriedInv
<1>2. ASSUME NEW r \in Reqs, NEW q, Become(r, q),
             q.pc \notin {"verify", "settle", "settled"},
             carried' = carried \/ carried' = [carried EXCEPT ![r] = None]
      PROVE  CarriedInv'
  <2>1. CASE carried' = carried
    <3>1. carried' = [carried EXCEPT ![r] = carried[r]]
      BY <1>1, <2>1
    <3> QED BY <1>1, <1>2, <3>1, CarryOne DEF CarriedWF
  <2>2. CASE carried' = [carried EXCEPT ![r] = None]
    BY <1>2, <2>2, CarryOne DEF CarriedWF
  <2> QED BY <1>2, <2>1, <2>2
<1>3. ASSUME NEW r \in Reqs, NEW p \in Payloads, Voucher(r, p)
      PROVE  CarriedInv'
  <2> DEFINE q == [Blank("upstream") EXCEPT !.cid = p.channelId, !.max = p.max]
  <2>1. Become(r, q) /\ carried' = carried
    BY <1>3 DEF Voucher, AdmitVoucher
  <2>2. q.pc = "upstream"
    BY DEF Blank
  <2> QED BY <1>2, <2>1, <2>2
<1>4. ASSUME NEW r \in Reqs, NEW p \in Payloads, NEW value \in Deposits,
             Deposit(r, p, value)
      PROVE  CarriedInv'
  <2> DEFINE q == [Blank("verify") EXCEPT !.cid = KeyOf(p), !.max = p.max,
                                         !.value = value]
  <2>1. Become(r, q) /\ carried' = [carried EXCEPT ![r] = p]
    BY <1>4 DEF Deposit, PresentDeposit
  <2>2. q.pc = "verify" /\ q.cid = KeyOf(p) /\ q.max = p.max
    BY DEF Blank
  <2>3. CarriedWF(q, p)
    BY <2>2 DEF CarriedWF
  <2> QED BY <2>1, <2>3, CarryOne
<1>5. ASSUME NEW r \in Reqs, Verified(r)
      PROVE  CarriedInv'
  <2> DEFINE q == [req[r] EXCEPT !.pc = "settle", !.snap = SnapshotOf(req[r].cid)]
  <2>1. Become(r, q) /\ req[r].pc = "verify" /\ carried' = carried
        /\ Genuine(carried[r].config, carried[r].max, carried[r].sig)
    BY <1>5 DEF Verified, DepositVerified
  <2>2. q.pc = "settle" /\ q.cid = req[r].cid /\ q.max = req[r].max
    BY <1>1 DEF Request
  <2>3. CarriedWF(q, carried[r])
    BY <2>1, <2>2 DEF CarriedInv, CarriedWF
  <2>4. carried' = [carried EXCEPT ![r] = carried[r]]
    BY <1>1, <2>1
  <2> QED BY <1>1, <2>1, <2>3, <2>4, CarryOne
<1>6. ASSUME NEW r \in Reqs, Open(r)
      PROVE  CarriedInv'
  <2> DEFINE q == [req[r] EXCEPT !.pc = "upstream", !.value = 0, !.snap = NoSnapshot]
  <2>1. Become(r, q) /\ carried' = [carried EXCEPT ![r] = None]
    BY <1>6 DEF Open, OpenChannel
  <2>2. q.pc = "upstream"
    BY <1>1 DEF Request
  <2> QED BY <1>2, <2>1, <2>2
<1>7. ASSUME NEW r \in Reqs, Proceed(r)
      PROVE  CarriedInv'
  <2>1. carried' = [carried EXCEPT ![r] = IF req'[r].pc = "settled" THEN @ ELSE None]
    BY <1>7 DEF Proceed
  <2>2. ASSUME NEW from \in SnapshotReplies, NEW lost \in SUBSET Unreadable,
               DepositExecuted(r, from, lost)
        PROVE  CarriedInv'
    <3>1. PICK snap : Become(r, [req[r] EXCEPT !.pc = "settled", !.snap = snap])
      BY <2>2, <1>1 DEF DepositExecuted, Request
    <3> DEFINE q == [req[r] EXCEPT !.pc = "settled", !.snap = snap]
    <3>2. q.pc = "settled" /\ q.cid = req[r].cid /\ q.max = req[r].max
          /\ req[r].pc = "settle"
      BY <1>1, <2>2 DEF Request, DepositExecuted
    <3>3. req'[r] = q
      BY <1>1, <3>1 DEF Become
    <3>4. carried' = [carried EXCEPT ![r] = carried[r]]
      BY <2>1, <3>2, <3>3
    <3>5. CarriedWF(q, carried[r])
      BY <3>2 DEF CarriedInv, CarriedWF
    <3> QED BY <1>1, <3>1, <3>4, <3>5, CarryOne
  <2>3. ASSUME NEW q, Become(r, q), q.pc \notin {"verify", "settle", "settled"}
        PROVE  CarriedInv'
    <3>1. req'[r] = q
      BY <1>1, <2>3 DEF Become
    <3>2. carried' = [carried EXCEPT ![r] = None]
      BY <2>1, <2>3, <3>1
    <3> QED BY <1>2, <2>3, <3>2
  <2>4. ASSUME Respond(r) PROVE CarriedInv'
    BY <2>3, <2>4 DEF Respond, Blank
  <2>5. ASSUME UpstreamFails(r) PROVE CarriedInv'
    <3>1. [req[r] EXCEPT !.pc = "502"].pc = "502"
      BY <1>1 DEF Request
    <3> QED BY <2>3, <2>4, <2>5, <3>1 DEF UpstreamFails
  <2> QED
    BY <1>7, <2>2, <2>4, <2>5
       DEF Proceed, RefuseVoucher, DepositRefused, DepositErrs, UpstreamServes,
           DropRequest
<1>8. ASSUME Forget PROVE CarriedInv'
  BY <1>8 DEF Forget, Restart, Blank, CarriedInv, CarriedWF
<1>9. ASSUME UNCHANGED <<req, carried>> PROVE CarriedInv'
  BY <1>9 DEF CarriedInv, CarriedWF, KeyOf, Genuine
<1>10. ASSUME NEW k \in Runs, Start(k) \/ Advance(k)
       PROVE  UNCHANGED <<req, carried>>
  BY <1>10 DEF Start, Advance
<1>11. ASSUME NEW c \in Cids, NEW left \in Remainders, TakeBack(c, left)
       PROVE  UNCHANGED <<req, carried>>
  BY <1>11 DEF TakeBack, Withdraw
<1>12. ASSUME UNCHANGED signedVars PROVE UNCHANGED <<req, carried>>
  BY <1>12 DEF signedVars, vars
<1> QED
  BY <1>3, <1>4, <1>5, <1>6, <1>7, <1>8, <1>9, <1>10, <1>11, <1>12 DEF SignedNext

\* One run and its claims change, and fit together again.
LEMMA PostOne ==
  ASSUME TypeInv, PostedInv, NEW k \in Runs, NEW claims,
         posted' = [posted EXCEPT ![k] = claims],
         \A j \in Runs \ {k} : run'[j] = run[j],
         PostedWF(run'[k].batch, claims)
  PROVE  PostedInv'
<1>1. posted' = [j \in Runs |-> posted'[j]] /\ posted'[k] = claims
  BY DEF PostedInv
<1>2. \A j \in Runs : PostedWF(run'[j].batch, posted'[j])
  BY <1>1 DEF PostedInv
<1> QED BY <1>1, <1>2 DEF PostedInv, PostedWF, Backs, Genuine

LEMMA PostedStep ==
  ASSUME TypeInv, SignedInv, [SignedNext]_signedVars
  PROVE  PostedInv'
<1> USE DEF SignedInv
<1>1. run \in [Runs -> RunState]
  BY DEF TypeInv, TypeOK, RunTypeOK
<1>2. ASSUME NEW k \in Runs, Start(k)
      PROVE  PostedInv'
  <2>1. /\ run' = [run EXCEPT ![k] = [pc |-> "claim", batch |-> ClaimBatch]]
        /\ posted' = [posted EXCEPT ![k] = ClaimPayload]
    BY <1>2 DEF Start, StartRun
  <2>2. run'[k].batch = ClaimBatch /\ \A j \in Runs \ {k} : run'[j] = run[j]
    BY <1>1, <2>1
  <2>3. ASSUME NEW c \in ClaimableCids
        PROVE  /\ ClaimPayload[c].maxClaimableAmount = ClaimBatch[c]
               /\ Backs(ClaimPayload[c].channel, ClaimPayload[c].signature, c,
                        ClaimBatch[c])
    <3>1. /\ ClaimPayload[c].maxClaimableAmount = ClaimBatch[c]
          /\ ClaimPayload[c].channel = kept[c].config
          /\ ClaimPayload[c].signature = kept[c].sig
          /\ ClaimBatch[c] = channels[c].lastMax
      BY DEF ClaimPayload, VoucherClaim, ClaimBatch
    <3> QED BY <3>1 DEF KeptInv, ClaimableCids
  <2>4. PostedWF(ClaimBatch, ClaimPayload)
    BY <2>3 DEF PostedWF, ClaimPayload, ClaimBatch
  <2> QED BY <2>1, <2>2, <2>4, PostOne
<1>3. ASSUME NEW k \in Runs, Advance(k)
      PROVE  PostedInv'
  <2> DEFINE claims == IF run'[k].pc = "idle" THEN NoClaims ELSE posted[k]
  <2>1. posted' = [posted EXCEPT ![k] = claims]
    BY <1>3 DEF Advance
  <2>2. \/ run' = [run EXCEPT ![k] = Idle]
        \/ \E pc \in {"claimed", "settle", "settled"} : run' = [run EXCEPT ![k].pc = pc]
    BY <1>3 DEF Advance, ClaimExecuted, ClaimFails, PostSettle, SettleExecuted,
       SettleFails, Reconcile, DropRun, EndRun
  <2>3. \A j \in Runs \ {k} : run'[j] = run[j]
    BY <1>1, <2>2
  <2>4. CASE run' = [run EXCEPT ![k] = Idle]
    <3>1. run'[k] = Idle /\ claims = NoClaims
      BY <1>1, <2>4 DEF Idle
    <3>2. PostedWF(run'[k].batch, claims)
      BY <3>1 DEF Idle, NoClaims, PostedWF
    <3> QED BY <2>1, <2>3, <3>2, PostOne
  <2>5. ASSUME NEW pc \in {"claimed", "settle", "settled"},
               run' = [run EXCEPT ![k].pc = pc]
        PROVE  PostedInv'
    <3>1. run'[k].batch = run[k].batch /\ run'[k].pc = pc
      BY <1>1, <2>5 DEF RunState
    <3>2. PostedWF(run'[k].batch, claims)
      BY <3>1 DEF PostedInv
    <3> QED BY <2>1, <2>3, <3>2, PostOne
  <2> QED BY <2>2, <2>4, <2>5
<1>4. ASSUME Forget PROVE PostedInv'
  BY <1>4 DEF Forget, Restart, Idle, NoClaims, PostedInv, PostedWF
<1>5. ASSUME UNCHANGED <<run, posted>> PROVE PostedInv'
  BY <1>5 DEF PostedInv, PostedWF, Backs, Genuine
<1>6. ASSUME NEW r \in Reqs,
             Verified(r) \/ Open(r) \/ Proceed(r)
               \/ \E p \in Payloads : Voucher(r, p)
                    \/ \E value \in Deposits : Deposit(r, p, value)
      PROVE  UNCHANGED <<run, posted>>
  BY <1>6 DEF Verified, Open, Proceed, Voucher, Deposit
<1>7. ASSUME NEW c \in Cids, NEW left \in Remainders, TakeBack(c, left)
      PROVE  UNCHANGED <<run, posted>>
  BY <1>7 DEF TakeBack, Withdraw
<1>8. ASSUME UNCHANGED signedVars PROVE UNCHANGED <<run, posted>>
  BY <1>8 DEF signedVars, vars
<1> QED
  BY <1>2, <1>3, <1>4, <1>5, <1>6, <1>7, <1>8 DEF SignedNext

LEMMA SignedInvariant == SignedSpec => []SignedInv
<1>1. SignedSpec => []TypeInv
  BY SignedIsBatchSettlement, TypeInvariant, PTL
<1>2. TypeInv /\ SignedInv /\ [SignedNext]_signedVars => SignedInv'
  BY KeptStep, CarriedStep, PostedStep DEF SignedInv
<1> QED BY <1>1, <1>2, SignedInvInit, PTL DEF SignedSpec

(***************************************************************************)
(* What a run claims of a channel was signed by the channel's authorizer   *)
(* for that channel and ceiling (main.rs, run_claim_settle).               *)
(***************************************************************************)
THEOREM PostedClaimsAreSigned == SignedSpec => []ClaimsAreSigned
<1>1. SignedInv => ClaimsAreSigned
  <2> SUFFICES ASSUME SignedInv, NEW k \in Runs, NEW c \in DOMAIN posted[k]
               PROVE  LET claim == posted[k][c] IN
                      /\ channel_id(claim.channel, ChainId) = c
                      /\ claim.signature.meant =
                           [config |-> claim.channel, max |-> claim.maxClaimableAmount,
                            chain |-> ChainId]
    BY DEF ClaimsAreSigned
  <2>1. Backs(posted[k][c].channel, posted[k][c].signature, c,
              posted[k][c].maxClaimableAmount)
    BY DEF SignedInv, PostedInv, PostedWF
  <2> QED BY <2>1, BackedIsMeant DEF Backs
<1> QED BY <1>1, SignedInvariant, PTL

-----------------------------------------------------------------------------
(* What the channels promise, with their signatures *)

(***************************************************************************)
(* The contract has no reason to refuse a batch: the escrow covers each    *)
(* ceiling in it, and each signature is good for its config and ceiling.   *)
(***************************************************************************)
NoBatchIsRefused == \A k \in Runs : Covered(run[k].batch) /\ Taken(posted[k])

(***************************************************************************)
(* A batch is claimed whole or not at all, so one bad entry would hold up  *)
(* the revenue of every channel; there is none, whatever is presented with *)
(* whatever, if the table learns the balance from the settle answer, no    *)
(* payer withdraws and a request has a price.                              *)
(***************************************************************************)
THEOREM BatchesAreTaken ==
  ASSUME StateAfterSettle
  PROVE  SignedSpec => []NoBatchIsRefused
<1>1. SignedInv => \A k \in Runs : Taken(posted[k])
  BY DEF SignedInv, PostedInv, PostedWF, Backs, Taken
<1>2. CapitalBacked => \A k \in Runs : Covered(run[k].batch)
  BY DEF CapitalBacked
<1>3. CapitalBacked /\ SignedInv => NoBatchIsRefused
  BY <1>1, <1>2 DEF NoBatchIsRefused
<1> QED BY <1>3, SignedInvariant, SignedIsBatchSettlement, CapitalIsBacked, PTL

(***************************************************************************)
(* With its signatures the router is the same payment channel.             *)
(***************************************************************************)
COROLLARY SignedIsPaymentChannel == SignedSpec => IsPaymentChannel
BY SignedIsBatchSettlement, ImplementsPaymentChannel

(***************************************************************************)
(* With its signatures, and while each channel is funded once and runs     *)
(* neither overlap nor lose an answer, no run posts a claim twice.         *)
(***************************************************************************)
COROLLARY SignedClaimIsNotRepeated ==
  ASSUME OneDeposit, RunsAlone
  PROVE  SignedSpec => NoDoubleClaim
BY SignedIsBatchSettlement, NoClaimIsRepeated
=============================================================================
