--------------------------- MODULE PaymentResponse --------------------------
(***************************************************************************)
(* The PAYMENT-RESPONSE header of the batch half and a buyer that relies   *)
(* on it.  The state of the channel is copied when the request is admitted *)
(* and sent after the upstream has answered: meanwhile the lock is free    *)
(* and runs claim and write back.  Everything else is BatchSettlement,     *)
(* other buyers of the channel included.                                   *)
(*                                                                         *)
(* External: a buyer that follows opens its channel with a voucher for the *)
(* price of one request, has one request in flight, and signs the price on *)
(* top of what it was told was charged.  One whose answer is lost, or      *)
(* whose channel somebody else uses, cannot follow any longer.             *)
(***************************************************************************)
EXTENDS BatchSettlement

VARIABLES
  carried,    \* of each request: the state that its answer will carry, None
              \* if no buyer follows it
  told        \* of each channel: the last answer to a buyer that follows,
              \* None while it waits for one and where there is no such buyer

answerVars == <<carried, told>>
toldVars == <<vars, answerVars>>

\* snap_charged, snap_balance, snap_claimed.
ChannelStateOf(c) ==
  [charged |-> channels'[c].charged, balance |-> channels'[c].balance,
   totalClaimed |-> channels'[c].totalClaimed]

NextCeiling(c) == told[c].charged + Amount

ToldInit ==
  /\ Init
  /\ carried = [r \in Reqs |-> None]
  /\ told = [c \in Cids |-> None]

\* The answer of r will be for a buyer that follows.
Follows(r, c) ==
  /\ carried' = [carried EXCEPT ![r] = ChannelStateOf(c)]
  /\ told' = [told EXCEPT ![c] = None]

\* Somebody else used channel c.
Strays(c) ==
  /\ carried' = [r \in Reqs |-> IF req[r].cid = c THEN None ELSE carried[r]]
  /\ told' = [told EXCEPT ![c] = None]

Voucher(r, c, max) ==
  /\ AdmitVoucher(r, c, max)
  /\ IF told[c] # None /\ max = NextCeiling(c) THEN Follows(r, c) ELSE Strays(c)
  /\ UNCHANGED run

Open(r) ==
  LET q == req[r] IN
  /\ OpenChannel(r)
  /\ IF channels[q.cid] = None /\ q.max = Amount THEN Follows(r, q.cid) ELSE Strays(q.cid)
  /\ UNCHANGED run

\* 200, with the header.
Serve(r) ==
  /\ UpstreamServes(r)
  /\ told' = IF carried[r] = None THEN told ELSE [told EXCEPT ![req[r].cid] = carried[r]]
  /\ carried' = [carried EXCEPT ![r] = None]
  /\ UNCHANGED run

\* The other answers say nothing of the channel.
Fail(r) ==
  /\ UpstreamFails(r) \/ DropRequest(r)
  /\ carried' = [carried EXCEPT ![r] = None]
  /\ UNCHANGED <<told, run>>

Proceed(r) ==
  /\ \/ \E c \in Cids, max \in Vouchers :
          RefuseVoucher(r, c, max) \/ \E value \in Deposits : PresentDeposit(r, c, max, value)
     \/ \E from \in SnapshotReplies, lost \in SUBSET Unreadable :
          DepositExecuted(r, from, lost)
     \/ DepositVerified(r) \/ DepositRefused(r) \/ DepositErrs(r)
  /\ UNCHANGED <<answerVars, run>>

Forget ==
  /\ Restart
  /\ carried' = [r \in Reqs |-> None]
  /\ told' = [c \in Cids |-> None]

ToldNext ==
  \/ \E r \in Reqs :
       \/ \E c \in Cids, max \in Vouchers : Voucher(r, c, max)
       \/ Open(r) \/ Serve(r) \/ Fail(r) \/ Proceed(r)
  \/ \E k \in Runs : RunNext(k) /\ UNCHANGED <<req, answerVars>>
  \/ \E c \in Cids, left \in Remainders : Withdraw(c, left) /\ UNCHANGED answerVars
  \/ Forget

ToldSpec == ToldInit /\ [][ToldNext]_toldVars

(***************************************************************************)
(* A buyer that follows the answers of the router is served as long as its *)
(* deposit lasts, and not longer: however old the state it was told has    *)
(* become, whatever runs have claimed and written back since, its next     *)
(* voucher passes the policy exactly if the balance it was told covers it  *)
(* (with one deposit per channel; "the client then transitions to          *)
(* vouchers", DECISIONS.md).                                               *)
(***************************************************************************)
FollowersAreServed ==
  \A c \in Cids : told[c] # None =>
    /\ c \in Present
    /\ Admits(channels[c], NextCeiling(c)) <=> NextCeiling(c) <= told[c].balance
=============================================================================
