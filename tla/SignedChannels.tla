--------------------------- MODULE SignedChannels ---------------------------
(***************************************************************************)
(* BatchSettlement with what its vouchers are made of: the ids computed    *)
(* from the configs that clients send, the signatures, and the claims that *)
(* a run builds from them.  A client may present any config with any id,   *)
(* ceiling and signature in circulation.  Every step is a step of          *)
(* BatchSettlement that also moves config and signature along.             *)
(***************************************************************************)
EXTENDS BatchSettlement, Voucher

CONSTANTS
  ChainId,      \* the chain in cfg.payment.network
  Signatures,   \* the signatures in circulation
  Payloads      \* what the clients present, where config and ceiling parse

ASSUME SignedAssumption ==
  /\ Cids = {channel_id(config, ChainId) : config \in ChannelConfig}
  /\ Signatures \subseteq
       {SignedVoucher(config, max, chain, v) :
          config \in ChannelConfig, max \in Ceilings, chain \in Chains, v \in {0, 27}}
  /\ Payloads \subseteq
       {p \in Payload(Signatures) :
          p.config # Bad /\ p.max \in Vouchers /\ p.sig # Bad}

VARIABLES
  kept,      \* ChannelState.config and last_sig of each entry
  carried,   \* the payload of a request that waits for the facilitator
  posted     \* the claims of a run, by channel

signedVars == <<vars, kept, carried, posted>>

Signed == [config : ChannelConfig, sig : Signatures]

\* The two channel fields are stored and copied together.
Evidence(p) == [config |-> p.config, sig |-> p.sig]

NoClaims == [c \in {} |-> None]

SignedInit ==
  /\ Init
  /\ kept = [c \in Cids |-> None]
  /\ carried = [r \in Reqs |-> None]
  /\ posted = [k \in Runs |-> NoClaims]

-----------------------------------------------------------------------------
(* requests *)

\* Mutant: a voucher replaces last_max and not last_sig.
KeepFirst(c, p) == kept' = [kept EXCEPT ![c] = IF @ = None THEN Evidence(p) ELSE @]
Keep(c, p) == kept' = [kept EXCEPT ![c] = Evidence(p)]

Voucher(r, p) ==
  /\ p.kind = "voucher"
  /\ verify_voucher(p, ChainId)
  /\ AdmitVoucher(r, p.channelId, p.max)
  /\ Keep(p.channelId, p)
  /\ UNCHANGED <<carried, posted, run>>

\* The table key of a deposit.  Mutant: what the client calls its channel.
KeyAsTold(p) == p.channelId
KeyOf(p) == channel_id(p.config, ChainId)

Deposit(r, p, value) ==
  /\ p.kind = "deposit"
  /\ PresentDeposit(r, KeyOf(p), p.max, value)
  /\ carried' = [carried EXCEPT ![r] = p]
  /\ UNCHANGED <<kept, posted, run>>

(***************************************************************************)
(* External: the facilitator and the contract compute the id themselves    *)
(* and check the signature.  The wallet behind the zero address answers    *)
(* for its own signatures (EIP-1271).                                      *)
(***************************************************************************)
Genuine(config, max, sig) ==
  recover_signer(voucher_digest(channel_id(config, ChainId), max, ChainId), sig)
    = config.payerAuthorizer

Verified(r) ==
  /\ DepositVerified(r)
  /\ Genuine(carried[r].config, carried[r].max, carried[r].sig)
  /\ UNCHANGED <<kept, carried, posted, run>>

Open(r) ==
  /\ OpenChannel(r)
  /\ Keep(req[r].cid, carried[r])
  /\ carried' = [carried EXCEPT ![r] = None]
  /\ UNCHANGED <<posted, run>>

\* The rest of the handler touches no voucher; one that answers drops its own.
Proceed(r) ==
  /\ \/ \E c \in Cids, max \in Vouchers : RefuseVoucher(r, c, max)
     \/ \E from \in SnapshotReplies, lost \in SUBSET Unreadable :
          DepositExecuted(r, from, lost)
     \/ DepositRefused(r) \/ DepositErrs(r)
     \/ UpstreamServes(r) \/ UpstreamFails(r) \/ DropRequest(r)
  /\ carried' = [carried EXCEPT ![r] = IF req'[r].pc = "settled" THEN @ ELSE None]
  /\ UNCHANGED <<kept, posted, run>>

-----------------------------------------------------------------------------
(* runs *)

\* VoucherClaim: total_claimed repeats the ceiling.
VoucherClaim(config, max, sig) ==
  [channel |-> config, maxClaimableAmount |-> max, signature |-> sig,
   totalClaimed |-> max]

ClaimPayload ==
  [c \in ClaimableCids |->
     VoucherClaim(kept[c].config, channels[c].lastMax, kept[c].sig)]

Start(k) ==
  /\ StartRun(k)
  /\ posted' = [posted EXCEPT ![k] = ClaimPayload]
  /\ UNCHANGED <<kept, carried, req>>

Taken(claims) ==
  \A c \in DOMAIN claims :
    Genuine(claims[c].channel, claims[c].maxClaimableAmount, claims[c].signature)

\* One claim that is not genuine, and the contract refuses the batch.
Advance(k) ==
  /\ \/ ClaimExecuted(k) /\ Taken(posted[k])
     \/ ClaimFails(k) \/ PostSettle(k) \/ SettleExecuted(k) \/ SettleFails(k)
     \/ Reconcile(k) \/ DropRun(k)
  /\ posted' = [posted EXCEPT ![k] = IF run'[k].pc = "idle" THEN NoClaims ELSE @]
  /\ UNCHANGED <<kept, carried, req>>

-----------------------------------------------------------------------------
Forget ==
  /\ Restart
  /\ kept' = [c \in Cids |-> None]
  /\ carried' = [r \in Reqs |-> None]
  /\ posted' = [k \in Runs |-> NoClaims]

TakeBack(c, left) == Withdraw(c, left) /\ UNCHANGED <<kept, carried, posted>>

SignedNext ==
  \/ \E r \in Reqs, p \in Payloads :
       Voucher(r, p) \/ \E value \in Deposits : Deposit(r, p, value)
  \/ \E r \in Reqs : Verified(r) \/ Open(r) \/ Proceed(r)
  \/ \E k \in Runs : Start(k) \/ Advance(k)
  \/ \E c \in Cids, left \in Remainders : TakeBack(c, left)
  \/ Forget

SignedSpec == SignedInit /\ [][SignedNext]_signedVars

-----------------------------------------------------------------------------
(* Properties *)

(***************************************************************************)
(* "aggregate the latest signed voucher of every channel" (main.rs,        *)
(* run_claim_settle): what a run claims of a channel is what the           *)
(* authorizer of that channel meant to sign, for that channel and ceiling, *)
(* whatever was presented with whatever, and however deposits, vouchers    *)
(* and runs overtook each other: config, ceiling and signature never come  *)
(* from different requests.  So the contract refuses no batch for one of   *)
(* its signatures.                                                         *)
(***************************************************************************)
ClaimsAreSigned ==
  \A k \in Runs : \A c \in DOMAIN posted[k] :
    LET claim == posted[k][c] IN
    /\ channel_id(claim.channel, ChainId) = c
    /\ claim.signature.meant =
         [config |-> claim.channel, max |-> claim.maxClaimableAmount, chain |-> ChainId]
=============================================================================
