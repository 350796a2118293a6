---------------------------- MODULE RouterProofs ----------------------------
(***************************************************************************)
(* For any set of payers, channels, chains and ceilings, and however many  *)
(* vouchers are in circulation: what verify_voucher lets through was       *)
(* signed for just that.                                                   *)
(***************************************************************************)
EXTENDS Router, TLAPS

(***************************************************************************)
(* The fact behind verify_voucher: a signature that recovers to an address *)
(* other than Nobody's was made by that address over that very digest.     *)
(***************************************************************************)
LEMMA RecoverBinds ==
  ASSUME NEW digest, NEW sig, NEW key, key # Nobody,
         recover_signer(digest, sig) = key
  PROVE  sig.over = digest /\ sig.by = key
BY DEF recover_signer

\* Made by Sign: over the digest of what was meant.
WellSigned(s) ==
  \E config, max, chain, v : s = SignedVoucher(config, max, chain, v)

(***************************************************************************)
(* verify_voucher binds the config, the id, the ceiling and the chain of a *)
(* payload whose signature is one of `signatures`.                         *)
(***************************************************************************)
LEMMA VerifiedIsSigned ==
  ASSUME NEW signatures, NEW p \in Payload(signatures),
         \A s \in signatures : WellSigned(s),
         verify_voucher(p, ChainId)
  PROVE  /\ p.sig \in signatures
         /\ p.sig.by = p.config.payerAuthorizer
         /\ p.sig.meant = Meaning(p)
<1>1. p.config \in ChannelConfig /\ p.sig \in signatures
  BY DEF verify_voucher, Payload
<1>2. p.config.payerAuthorizer # Nobody
  BY <1>1, VoucherAssumption DEF ChannelConfig
<1>3. /\ p.sig.over = voucher_digest(p.channelId, p.max, ChainId)
      /\ p.sig.by = p.config.payerAuthorizer
  BY <1>2, RecoverBinds DEF verify_voucher
<1>4. p.channelId = channel_id(p.config, ChainId)
  BY DEF verify_voucher
<1>5. PICK config, max, chain, v : p.sig = SignedVoucher(config, max, chain, v)
  BY <1>1 DEF WellSigned
<1>6. voucher_digest(channel_id(config, chain), max, chain)
        = voucher_digest(channel_id(p.config, ChainId), p.max, ChainId)
  BY <1>3, <1>4, <1>5 DEF SignedVoucher
<1>7. config = p.config /\ max = p.max /\ chain = ChainId
  BY <1>6 DEF voucher_digest, channel_id
<1> QED
  BY <1>1, <1>3, <1>5, <1>7 DEF SignedVoucher, Meaning

(***************************************************************************)
(* The strengthening: every signature is over the digest of what was meant *)
(* and a request at the policy passed verify_voucher with one of them.     *)
(***************************************************************************)
VoucherInv ==
  /\ \A s \in signed : WellSigned(s)
  /\ answer = "policy" =>
       last.payload \in Payload(signed) /\ verify_voucher(last.payload, ChainId)

\* A payload stays what it is when more is signed.
LEMMA PayloadMonotone ==
  ASSUME NEW S, NEW T, S \subseteq T
  PROVE  Payload(S) \subseteq Payload(T)
BY DEF Payload

LEMMA VoucherInvInit == Init => VoucherInv
BY RouterAssumption DEF Init, VoucherInv

LEMMA VoucherInvNext == VoucherInv /\ [Next]_vars => VoucherInv'
<1> SUFFICES ASSUME VoucherInv, [Next]_vars PROVE VoucherInv'
  OBVIOUS
<1>1. ASSUME NEW config \in ChannelConfig, NEW max \in Ceilings,
             NEW chain \in Chains, NEW v \in {0, 27}, Sign(config, max, chain, v)
      PROVE  VoucherInv'
  <2>1. \A s \in signed' : WellSigned(s)
    BY <1>1 DEF Sign, VoucherInv, WellSigned
  <2>2. Payload(signed) \subseteq Payload(signed')
    BY <1>1, PayloadMonotone DEF Sign
  <2> QED
    BY <1>1, <2>1, <2>2 DEF Sign, VoucherInv, verify_voucher
<1>2. ASSUME NEW q \in Requests(signed), Handle(q), answer' # "policy"
      PROVE  VoucherInv'
  <2>1. signed' = signed
    BY <1>2 DEF Handle, Answer, NoHeader, Undecodable, Unsupported, ExactMismatch,
       ExactGoesOn, BatchMalformed, UnknownKind, VoucherInvalid, VoucherGoesOn,
       DepositGoesOn
  <2> QED
    BY <1>2, <2>1 DEF VoucherInv
<1>3. ASSUME NEW q \in Requests(signed), VoucherGoesOn(q)
      PROVE  VoucherInv'
  <2>1. q.header = "payment" /\ q.scheme = "batch-settlement" /\ q.payload # Bad
    BY <1>3 DEF VoucherGoesOn, BatchKind, IsBatch, Supported
  <2>2. q \in Batch(signed)
    BY <2>1 DEF Requests, Undecoded, Exact
  <2>3. q.payload \in Payload(signed)
    BY <2>1, <2>2 DEF Batch
  <2>4. last' = q /\ signed' = signed /\ verify_voucher(q.payload, ChainId)
    BY <1>3 DEF VoucherGoesOn, Answer
  <2> QED
    BY <2>3, <2>4 DEF VoucherInv, verify_voucher
<1>4. ASSUME NEW q \in Requests(signed), Handle(q), answer' = "policy"
      PROVE  VoucherGoesOn(q)
  BY <1>4 DEF Handle, Answer, NoHeader, Undecodable, Unsupported, ExactMismatch,
     ExactGoesOn, BatchMalformed, UnknownKind, VoucherInvalid, DepositGoesOn
<1>5. ASSUME Done PROVE VoucherInv'
  BY <1>5, RouterAssumption DEF Done, VoucherInv
<1>6. ASSUME UNCHANGED vars PROVE VoucherInv'
  BY <1>6 DEF vars, VoucherInv, verify_voucher
<1> QED
  BY <1>1, <1>2, <1>3, <1>4, <1>5, <1>6 DEF Next

(***************************************************************************)
(* A voucher that reaches the policy was signed by the authorizer of its   *)
(* channel, for that channel, ceiling and chain (verify_voucher).          *)
(***************************************************************************)
THEOREM VouchersAreSigned == Spec => []AcceptedWasSigned
<1>1. VoucherInv => AcceptedWasSigned
  <2> SUFFICES ASSUME VoucherInv, answer = "policy" PROVE AcceptedWasSigned
    BY DEF AcceptedWasSigned
  <2>1. /\ \A s \in signed : WellSigned(s)
        /\ last.payload \in Payload(signed)
        /\ verify_voucher(last.payload, ChainId)
    BY DEF VoucherInv
  <2> QED
    BY <2>1, VerifiedIsSigned DEF AcceptedWasSigned
<1> QED
  BY <1>1, VoucherInvInit, VoucherInvNext, PTL DEF Spec

-----------------------------------------------------------------------------
(***************************************************************************)
(* The converse.  What the authorizer of a channel signed is over the      *)
(* digest that verify_voucher computes, so it recovers to the authorizer.  *)
(***************************************************************************)
WalletSigned(s) ==
  \E config \in ChannelConfig, max \in Ceilings, chain \in Chains, v \in {0, 27} :
    /\ config.payerAuthorizer # Zero
    /\ s = SignedVoucher(config, max, chain, v)

LEMMA MeantIsVerified ==
  ASSUME NEW p, WalletSigned(p.sig), p.sig # Bad, p.sig.meant = Meaning(p),
         p.channelId = channel_id(p.config, ChainId)
  PROVE  verify_voucher(p, ChainId)
<1>1. PICK config \in ChannelConfig, max \in Ceilings, chain \in Chains, v \in {0, 27} :
        config.payerAuthorizer # Zero /\ p.sig = SignedVoucher(config, max, chain, v)
  BY DEF WalletSigned
<1>2. p.config = config /\ p.max = max /\ chain = ChainId
  BY <1>1 DEF SignedVoucher, Meaning
<1>3. p.config # Bad /\ p.max # Bad /\ p.config.payerAuthorizer # Zero
  BY <1>1, <1>2, VoucherAssumption
<1>4. recover_signer(voucher_digest(p.channelId, p.max, ChainId), p.sig)
        = p.config.payerAuthorizer
  BY <1>1, <1>2 DEF SignedVoucher, recover_signer
<1> QED BY <1>3, <1>4 DEF verify_voucher

AcceptInv ==
  /\ \A s \in signed : WalletSigned(s)
  /\ answer # None /\ BatchKind(last, "voucher") =>
       /\ last.payload.sig \in signed \cup {Bad}
       /\ verify_voucher(last.payload, ChainId) => answer = "policy"

LEMMA AcceptInvNext == AcceptInv /\ [Next]_vars => AcceptInv'
<1> SUFFICES ASSUME AcceptInv, [Next]_vars PROVE AcceptInv'
  OBVIOUS
<1>1. ASSUME NEW config \in ChannelConfig, NEW max \in Ceilings,
             NEW chain \in Chains, NEW v \in {0, 27}, Sign(config, max, chain, v)
      PROVE  AcceptInv'
  <2>1. \A s \in signed' : WalletSigned(s)
    BY <1>1 DEF Sign, AcceptInv, WalletSigned
  <2> QED BY <1>1, <2>1 DEF Sign, AcceptInv
<1>2. ASSUME NEW q \in Requests(signed), Handle(q)
      PROVE  AcceptInv'
  <2>1. signed' = signed /\ last' = q
    BY <1>2 DEF Handle, Answer, NoHeader, Undecodable, Unsupported, ExactMismatch,
       ExactGoesOn, BatchMalformed, UnknownKind, VoucherInvalid, VoucherGoesOn,
       DepositGoesOn
  <2>2. ASSUME BatchKind(q, "voucher")
        PROVE  /\ q.payload.sig \in signed \cup {Bad}
               /\ verify_voucher(q.payload, ChainId) => answer' = "policy"
    <3>1. /\ q.header = "payment" /\ q.scheme = "batch-settlement"
          /\ q.version = X402Version /\ q.payload # Bad /\ q.payload.kind = "voucher"
      BY <2>2 DEF BatchKind, IsBatch, Supported
    <3>2. q \in Batch(signed)
      BY <3>1 DEF Requests, Undecoded, Exact
    <3>3. q.payload \in Payload(signed)
      BY <3>1, <3>2 DEF Batch
    <3>4. VoucherInvalid(q) \/ VoucherGoesOn(q)
      BY <1>2, <3>1 DEF Handle, NoHeader, Undecodable, Unsupported, ExactMismatch,
         ExactGoesOn, IsExact, Supported, BatchMalformed, UnknownKind, BatchKind,
         DepositGoesOn
    <3> QED BY <3>3, <3>4 DEF Payload, VoucherInvalid, VoucherGoesOn, Answer
  <2> QED BY <2>1, <2>2 DEF AcceptInv
<1>3. ASSUME Done PROVE AcceptInv'
  BY <1>3 DEF Done, AcceptInv
<1>4. ASSUME UNCHANGED vars PROVE AcceptInv'
  BY <1>4 DEF vars, AcceptInv
<1> QED BY <1>1, <1>2, <1>3, <1>4 DEF Next

(***************************************************************************)
(* No honest voucher is refused by verify_voucher, whichever form of the   *)
(* recovery id its wallet writes.                                          *)
(***************************************************************************)
THEOREM SignedVouchersAreAccepted == Spec => []SignedIsAccepted
<1>1. Init => AcceptInv
  BY DEF Init, AcceptInv
<1>2. AcceptInv => SignedIsAccepted
  <2> DEFINE p == last.payload
  <2> SUFFICES ASSUME AcceptInv, answer # None, BatchKind(last, "voucher"),
                      p.sig # Bad, p.sig.meant = Meaning(p),
                      p.channelId = channel_id(p.config, ChainId)
               PROVE  answer = "policy"
    BY DEF SignedIsAccepted
  <2>1. WalletSigned(p.sig)
    BY DEF AcceptInv
  <2>2. verify_voucher(p, ChainId)
    BY <2>1, MeantIsVerified
  <2> QED BY <2>2 DEF AcceptInv
<1> QED BY <1>1, <1>2, AcceptInvNext, PTL DEF Spec
=============================================================================
