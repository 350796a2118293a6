------------------------------- MODULE Router -------------------------------
(***************************************************************************)
(* chat_completions up to its first await or lock: what the router makes   *)
(* of a request by looking at it.  Nothing is kept from one request to the *)
(* next; what changes is what the clients have signed.                     *)
(*                                                                         *)
(*   402, 400   refused                                                    *)
(*   exact      goes on to ExactHandler!Receive                            *)
(*   policy     goes on to BatchHandler!AdmitVoucher or RefuseVoucher      *)
(*   deposit    goes on to BatchHandler!PresentDeposit                     *)
(*                                                                         *)
(* External: the clients.  A signature is made by the owner of its key,    *)
(* and anybody may present it, with whatever else.  The configured network *)
(* and amount parse.                                                       *)
(***************************************************************************)
EXTENDS Voucher, FiniteSets

CONSTANTS
  ChainId,    \* the chain in cfg.payment.network
  Scheme,     \* cfg.payment.scheme
  None,       \* no request, no answer
  MaxSigned   \* bound: how many vouchers the clients sign

ASSUME RouterAssumption ==
  /\ ChainId \in Chains
  /\ Scheme \in {"exact", "batch-settlement"}
  /\ MaxSigned \in Nat
  /\ None \notin {"402", "400", "exact", "policy", "deposit"}

VARIABLES
  signed,     \* the signatures made so far
  last,       \* the request at hand, None between two requests
  answer      \* what becomes of it, None before it is decided

vars == <<signed, last, answer>>

X402Version == 2

(***************************************************************************)
(* A request is the least that distinguishes it.  terms: the fields of     *)
(* `accepted` that differ from the requirements (addresses up to the case  *)
(* of their digits).  auth: the same for the EIP-3009 authorization, Bad   *)
(* where the payload is no such thing.                                     *)
(***************************************************************************)
Undecoded == [header : {"absent", "not ascii", "not base64 json"}]

Exact ==
  [header : {"payment"}, version : {1, 2}, scheme : {"exact", "other"},
   terms : SUBSET {"network", "asset", "payTo", "amount"},
   auth : SUBSET {"value", "to"} \cup {Bad}]

Batch(signatures) ==
  [header : {"payment"}, version : {1, 2}, scheme : {"batch-settlement"},
   payload : Payload(signatures) \cup {Bad}]

Requests(signatures) == Undecoded \cup Exact \cup Batch(signatures)

Init == signed = {} /\ last = None /\ answer = None

Sign(config, max, chain, v) ==
  /\ config.payerAuthorizer # Zero
  /\ Cardinality(signed) < MaxSigned
  /\ signed' = signed \cup {SignedVoucher(config, max, chain, v)}
  /\ UNCHANGED <<last, answer>>

Answer(q, a) == last' = q /\ answer' = a /\ UNCHANGED signed

\* The next request is looked at.
Done ==
  /\ answer # None
  /\ last' = None
  /\ answer' = None
  /\ UNCHANGED signed

-----------------------------------------------------------------------------
NoHeader(q) ==
  /\ q.header \in {"absent", "not ascii"}
  /\ Answer(q, "402")

\* decode_header fails: AppError::X402, not a challenge.
Undecodable(q) ==
  /\ q.header = "not base64 json"
  /\ Answer(q, "400")

\* check_version
Unsupported(q) ==
  /\ q.header = "payment"
  /\ q.version # X402Version
  /\ Answer(q, "402")

Supported(q) == q.header = "payment" /\ q.version = X402Version

IsBatch(q) == Supported(q) /\ q.scheme = "batch-settlement"
IsExact(q) == Supported(q) /\ q.scheme # "batch-settlement"

local_matches(q) ==
  /\ q.scheme = Scheme
  /\ q.terms = {}
  /\ q.auth \in {{}, Bad}

ExactMismatch(q) == IsExact(q) /\ ~local_matches(q) /\ Answer(q, "402")
ExactGoesOn(q) == IsExact(q) /\ local_matches(q) /\ Answer(q, "exact")

\* serde_json::from_value fails.
BatchMalformed(q) == IsBatch(q) /\ q.payload = Bad /\ Answer(q, "400")

BatchKind(q, kind) == IsBatch(q) /\ q.payload # Bad /\ q.payload.kind = kind

UnknownKind(q) == BatchKind(q, "other") /\ Answer(q, "402")

VoucherInvalid(q) ==
  /\ BatchKind(q, "voucher")
  /\ ~verify_voucher(q.payload, ChainId)
  /\ Answer(q, "402")

VoucherGoesOn(q) ==
  /\ BatchKind(q, "voucher")
  /\ verify_voucher(q.payload, ChainId)
  /\ Answer(q, "policy")

DepositGoesOn(q) == BatchKind(q, "deposit") /\ Answer(q, "deposit")

Handle(q) ==
  \/ NoHeader(q) \/ Undecodable(q) \/ Unsupported(q)
  \/ ExactMismatch(q) \/ ExactGoesOn(q)
  \/ BatchMalformed(q) \/ UnknownKind(q)
  \/ VoucherInvalid(q) \/ VoucherGoesOn(q) \/ DepositGoesOn(q)

Next ==
  \/ \E config \in ChannelConfig, max \in Ceilings, chain \in Chains, v \in {0, 27} :
       Sign(config, max, chain, v)
  \/ answer = None /\ \E q \in Requests(signed) : Handle(q)
  \/ Done

Spec == Init /\ [][Next]_vars

-----------------------------------------------------------------------------
(* Properties *)

Meaning(p) == [config |-> p.config, max |-> p.max, chain |-> ChainId]

(***************************************************************************)
(* A voucher that reaches the policy was signed by the authorizer of that  *)
(* channel, for that channel, ceiling and chain: of all the signatures in  *)
(* circulation, of other channels of the same payer, other chains or other *)
(* ceilings, none will do (verify_voucher; "tampered amount" in its tests).*)
(***************************************************************************)
AcceptedWasSigned ==
  answer = "policy" =>
    \E s \in signed :
      /\ s.by = last.payload.config.payerAuthorizer
      /\ s.meant = Meaning(last.payload)

(***************************************************************************)
(* No honest voucher is refused: whoever presents what the authorizer has  *)
(* signed, with the config and the id of its channel, reaches the policy,  *)
(* whichever form of v its wallet writes.                                  *)
(***************************************************************************)
SignedIsAccepted ==
  answer # None /\ BatchKind(last, "voucher") =>
    LET p == last.payload IN
    (/\ p.sig # Bad
     /\ p.sig.meant = Meaning(p)
     /\ p.channelId = channel_id(p.config, ChainId))
      => answer = "policy"
=============================================================================
