---------------------------- MODULE BatchHandler ----------------------------
(***************************************************************************)
(* handle_batch_settlement: the axum handler of a batch-settlement         *)
(* request.  A slot of `req` is one HTTP request in flight; the handler    *)
(* yields at each `.await`, so a step below runs from one await to the     *)
(* next.                                                                   *)
(*                                                                         *)
(*   voucher: verify + policy under the lock --> upstream --> response     *)
(*   deposit: /verify --> /settle --> insert under the lock --> upstream   *)
(*                                                                         *)
(* Of the responses only 502 is kept, with its voucher, until the slot is  *)
(* reused: a slot answered 200, 400 or 402, or whose future was dropped at *)
(* an await because the client went away, is free.  Configuration errors   *)
(* (network, amount) refuse every request alike and are left out, and so   *)
(* is the body of the response.                                            *)
(***************************************************************************)
EXTENDS Escrow

CONSTANTS
  Reqs,             \* request slots: bounds the requests in flight
  Vouchers,         \* ceilings the clients sign: bounds their payments
  Deposits,         \* amounts the clients deposit
  SnapshotReplies,  \* which of its answers carries the channel's state
  Unreadable        \* its fields that may be absent or not parse

ASSUME HandlerAssumption ==
  /\ Vouchers \subseteq U128
  /\ Deposits \subseteq U128
  /\ SnapshotReplies \subseteq {"settle", "verify"}
  /\ Unreadable \subseteq {"balance", "totalClaimed"}

VARIABLE req

InFlight == {"verify", "settle", "settled", "upstream"}
Answered == {"free", "502"}

Request ==
  [pc : InFlight \cup Answered, cid : Cids \cup {None},
   max : U128, value : U128, snap : Snapshot]

Blank(pc) ==
  [pc |-> pc, cid |-> None, max |-> 0, value |-> 0, snap |-> NoSnapshot]

HandlerInit == req = [r \in Reqs |-> Blank("free")]

HandlerTypeOK == req \in [Reqs -> Request]

Become(r, q) == req' = [req EXCEPT ![r] = q]

\* A response that leaves no trace: 200, 400, 402, or none at all.
Respond(r) == Become(r, Blank("free"))

-----------------------------------------------------------------------------
(* kind = "voucher" *)

Accepts(c, max) == channels[c] # None /\ Admits(channels[c], max)

\* verify_voucher and the policy hold: the ceiling becomes the charge.
AdmitVoucher(r, c, max) ==
  /\ req[r].pc \in Answered
  /\ Accepts(c, max)
  /\ channels' = [channels EXCEPT ![c] = Charge(@, max)]
  /\ owed[c] + Amount <= MaxOwed
  /\ owed' = [owed EXCEPT ![c] = @ + Amount]
  /\ HandOver(c, max)
  /\ Become(r, [Blank("upstream") EXCEPT !.cid = c, !.max = max])
  /\ UNCHANGED escrowVars

\* No entry, or one of the three policy errors: a challenge.  (So is the
\* answer to a voucher that verify_voucher rejects.)
RefuseVoucher(r, c, max) ==
  /\ req[r].pc \in Answered
  /\ ~Accepts(c, max)
  /\ Respond(r)
  /\ UNCHANGED <<tableVars, escrowVars>>

-----------------------------------------------------------------------------
(* kind = "deposit" *)

PresentDeposit(r, c, max, value) ==
  /\ req[r].pc \in Answered
  /\ Become(r, [Blank("verify") EXCEPT !.cid = c, !.max = max, !.value = value])
  /\ UNCHANGED <<tableVars, escrowVars>>

\* The facilitator answers /verify with isValid: the voucher pays for this
\* request and the funded channel covers it (the handler checks neither).
\* vr.extra, if it carries the state, is the state before the deposit.
DepositVerified(r) ==
  LET q == req[r] IN
  /\ q.pc = "verify"
  /\ Amount <= q.max
  /\ q.max <= escrow[q.cid] + q.value
  /\ Become(r, [q EXCEPT !.pc = "settle", !.snap = SnapshotOf(q.cid)])
  /\ UNCHANGED <<tableVars, escrowVars>>

\* u128_field(..).unwrap_or(0), of each field by itself.
Parsed(snap, lost) ==
  [balance      |-> IF "balance" \in lost THEN 0 ELSE snap.balance,
   totalClaimed |-> IF "totalClaimed" \in lost THEN 0 ELSE snap.totalClaimed]

\* The facilitator executes /settle.  Its channel state is read from
\* settle.extra.channelState, else from vr.extra; no state at all is the same
\* as one with no readable field.
DepositExecuted(r, from, lost) ==
  LET q == req[r]
      after == [balance |-> escrow'[q.cid], totalClaimed |-> claimed[q.cid]] IN
  /\ q.pc = "settle"
  /\ ExecDeposit(q.cid, q.value)
  /\ Become(r, [q EXCEPT !.pc = "settled", !.snap =
                  Parsed(IF from = "settle" THEN after ELSE @, lost)])
  /\ UNCHANGED tableVars

\* isValid = false, or success = false: always possible.
DepositRefused(r) ==
  /\ req[r].pc \in {"verify", "settle"}
  /\ Respond(r)
  /\ UNCHANGED <<tableVars, escrowVars>>

\* A transport error, before or after the facilitator did its work, or a
\* channel config that does not parse after it did.
DepositErrs(r) ==
  /\ PostErrs("deposit")
  /\ req[r].pc \in {"verify", "settle", "settled"}
  /\ Respond(r)
  /\ UNCHANGED <<tableVars, escrowVars>>

\* channels.insert: whatever entry is there now is replaced.
OpenChannel(r) ==
  LET q == req[r] IN
  /\ q.pc = "settled"
  /\ channels' = [channels EXCEPT ![q.cid] = Opened(q.max, q.snap)]
  /\ owed' = [owed EXCEPT ![q.cid] = Amount]
  /\ HandOver(q.cid, q.max)
  /\ Become(r, [q EXCEPT !.pc = "upstream", !.value = 0, !.snap = NoSnapshot])
  /\ UNCHANGED escrowVars

-----------------------------------------------------------------------------
(* the upstream call, common to both kinds *)

UpstreamServes(r) ==
  /\ req[r].pc = "upstream"
  /\ Respond(r)
  /\ UNCHANGED <<tableVars, escrowVars>>

\* A body the provider adapter rejects (400), or an upstream that cannot be
\* reached, answers with an error or breaks off (502).
UpstreamFails(r) ==
  /\ "upstream" \in Faults
  /\ req[r].pc = "upstream"
  /\ Respond(r) \/ Become(r, [req[r] EXCEPT !.pc = "502"])
  /\ UNCHANGED <<tableVars, escrowVars>>

DropRequest(r) ==
  /\ "drop" \in Faults
  /\ req[r].pc \in InFlight
  /\ Respond(r)
  /\ UNCHANGED <<tableVars, escrowVars>>

HandlerNext(r) ==
  \/ \E c \in Cids, max \in Vouchers :
       AdmitVoucher(r, c, max) \/ RefuseVoucher(r, c, max)
  \/ \E c \in Cids, max \in Vouchers, value \in Deposits :
       PresentDeposit(r, c, max, value)
  \/ DepositVerified(r)
  \/ \E from \in SnapshotReplies, lost \in SUBSET Unreadable :
       DepositExecuted(r, from, lost)
  \/ DepositRefused(r)
  \/ DepositErrs(r)
  \/ OpenChannel(r)
  \/ UpstreamServes(r)
  \/ UpstreamFails(r)
  \/ DropRequest(r)
=============================================================================
