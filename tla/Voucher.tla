------------------------------- MODULE Voucher ------------------------------
(***************************************************************************)
(* The cryptographic core of batch-settlement with symbolic hashes and     *)
(* signatures: a hash is the record of what is hashed, so different data   *)
(* have different hashes, and a signature says who made it over what.      *)
(* The contract address and the names in the EIP-712 domain are constants  *)
(* of the code; the chain id is what varies in a domain.                   *)
(***************************************************************************)
EXTENDS Naturals

CONSTANTS
  Keys,       \* addresses whose owners sign vouchers
  Zero,       \* the zero address, which stands for a contract wallet
  Nobody,     \* the address recovered from a signature over other data
  Salts,      \* the rest of a channel config: payer, receiver, token, salt
  Chains,     \* chain ids
  Ceilings,   \* amounts that are signed
  Bad         \* a field that does not parse: bad hex, length, number or JSON

ChannelConfig == [payerAuthorizer : Keys \cup {Zero}, salt : Salts]

ASSUME VoucherAssumption ==
  /\ Zero \notin Keys /\ Nobody \notin Keys \cup {Zero}
  /\ Bad \notin Ceilings /\ Bad \notin ChannelConfig

channel_id(config, chain) == [config |-> config, chain |-> chain]
Ids == {channel_id(config, chain) : config \in ChannelConfig, chain \in Chains}

\* Mutant: the digest of a voucher forgets the channel.
DigestUnbound(id, max, chain) == [channel |-> Zero, max |-> max, chain |-> chain]
voucher_digest(id, max, chain) == [channel |-> id, max |-> max, chain |-> chain]

(***************************************************************************)
(* A signed voucher: the signature with, for the properties only, what the *)
(* authorizer meant to sign.  The recovery id v is written as 0/1 or as    *)
(* 27/28.  Mutant: the second form is not understood.                      *)
(***************************************************************************)
SignedVoucher(config, max, chain, v) ==
  [by |-> config.payerAuthorizer, v |-> v,
   over |-> voucher_digest(channel_id(config, chain), max, chain),
   meant |-> [config |-> config, max |-> max, chain |-> chain]]

RecoverLowV(digest, sig) ==
  IF sig.over = digest /\ sig.v < 27 THEN sig.by ELSE Nobody
recover_signer(digest, sig) == IF sig.over = digest THEN sig.by ELSE Nobody

(***************************************************************************)
(* A payload of kind voucher or deposit: what the client says.             *)
(***************************************************************************)
Payload(signatures) ==
  [kind : {"voucher", "deposit", "other"},
   config : ChannelConfig \cup {Bad},
   channelId : Ids \cup {Bad},
   max : Ceilings \cup {Bad},
   sig : signatures \cup {Bad}]

\* Ok((channel_id, max)), or one of the errors in between.
verify_voucher(p, chain) ==
  /\ p.config # Bad
  /\ p.config.payerAuthorizer # Zero
  /\ p.channelId = channel_id(p.config, chain)
  /\ p.max # Bad
  /\ p.sig # Bad
  /\ recover_signer(voucher_digest(p.channelId, p.max, chain), p.sig)
       = p.config.payerAuthorizer
=============================================================================
