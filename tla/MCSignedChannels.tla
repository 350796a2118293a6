-------------------------- MODULE MCSignedChannels --------------------------
(***************************************************************************)
(* SignedChannels for TLC: two channels of one key, and what a client can  *)
(* put together from their configs, their ids and the vouchers in          *)
(* circulation, some of each channel and one for another chain.            *)
(***************************************************************************)
EXTENDS SignedChannels, TLC

CONSTANTS k1, s1, s2

Config(k, s) == [payerAuthorizer |-> k, salt |-> s]
Configs == {Config(k1, s1), Config(k1, s2)}

ComputedIds == {channel_id(config, ChainId) : config \in ChannelConfig}

InCirculation ==
  {SignedVoucher(config, max, 1, 27) : config \in Configs, max \in Vouchers}
    \cup {SignedVoucher(config, 1, 2, 27) : config \in Configs}

Everything ==
  {[kind |-> kind, config |-> config, channelId |-> id, max |-> max, sig |-> sig] :
     kind \in {"voucher", "deposit"}, config \in Configs,
     id \in {channel_id(config, 1) : config \in Configs},
     max \in Vouchers, sig \in InCirculation}

\* A deposit pays for one request, with its own id or its own signature.
Plausible(p) ==
  /\ p.max = Amount /\ p.sig.meant.max = Amount /\ p.sig.meant.chain = 1
  /\ p.channelId = channel_id(p.config, 1) \/ p.config = p.sig.meant.config

Presented == {p \in Everything : p.kind = "voucher" \/ Plausible(p)}

\* Requests are interchangeable, and so are the two channels.
Symmetry == Permutations(Reqs) \cup Permutations({s1, s2})
=============================================================================
