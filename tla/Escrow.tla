------------------------------- MODULE Escrow -------------------------------
(***************************************************************************)
(* External: the x402BatchSettlement contract behind the facilitator, as   *)
(* poc-x402-llm uses it.  A deposit funds a channel; a claim raises what   *)
(* the receiver has claimed of it up to a signed ceiling; a settle pays    *)
(* every claimed amount out to the receiver.  The facilitator may refuse   *)
(* any of them: refusals are steps of the modules that call it.            *)
(***************************************************************************)
EXTENDS ChannelTable

CONSTANTS
  EscrowCap,   \* bound: the most that is deposited into one channel
  Remainders,  \* what a payer leaves in a channel that it withdraws from:
               \* bounds the withdrawals, {} for none
  Faults       \* the failures of the world around the router, see below

(***************************************************************************)
(* deposit, claim, settle: such a call to the facilitator ends in an       *)
(* error.  upstream: the LLM call fails.  drop: a client goes away.        *)
(* restart: the router's process restarts.                                 *)
(***************************************************************************)
ASSUME EscrowAssumption ==
  /\ EscrowCap \in U128
  /\ Remainders \subseteq 0..EscrowCap
  /\ Faults \subseteq
       {"deposit", "upstream", "drop", "claim", "settle", "restart"}

VARIABLES
  escrow,    \* what has been deposited into each channel
  claimed,   \* the contract's totalClaimed of each channel
  settled    \* how much of it has been paid out to the receiver

escrowVars == <<escrow, claimed, settled>>

EscrowInit ==
  /\ escrow = [c \in Cids |-> 0]
  /\ claimed = [c \in Cids |-> 0]
  /\ settled = [c \in Cids |-> 0]

EscrowTypeOK ==
  /\ escrow \in [Cids -> 0..EscrowCap]
  /\ claimed \in [Cids -> U128]
  /\ settled \in [Cids -> U128]

\* post() returns an error: the call is not sent, or its answer is lost, has a
\* status other than 2xx or a body that does not decode.  The facilitator may
\* have done the work or not.
PostErrs(call) == call \in Faults

SnapshotOf(c) == [balance |-> escrow[c], totalClaimed |-> claimed[c]]

ExecDeposit(c, value) ==
  /\ escrow[c] + value <= EscrowCap
  /\ escrow' = [escrow EXCEPT ![c] = @ + value]
  /\ UNCHANGED <<claimed, settled>>

(***************************************************************************)
(* A batch of claims is executed whole or not at all, and only if every    *)
(* ceiling is covered by the escrow.  A ceiling at or below the claimed    *)
(* total moves nothing.                                                    *)
(***************************************************************************)
Covered(batch) == \A c \in DOMAIN batch : batch[c] <= escrow[c]

ExecClaim(batch) ==
  /\ Covered(batch)
  /\ claimed' = [c \in Cids |->
                   IF c \in DOMAIN batch THEN MaxOf(claimed[c], batch[c])
                                         ELSE claimed[c]]
  /\ UNCHANGED <<escrow, settled>>

ExecSettle ==
  /\ settled' = claimed
  /\ UNCHANGED <<escrow, claimed>>

\* A payer withdraws what is not claimed, after its withdraw delay.
ExecWithdraw(c, left) ==
  /\ left \in claimed[c]..escrow[c]
  /\ escrow' = [escrow EXCEPT ![c] = left]
  /\ UNCHANGED <<claimed, settled>>
=============================================================================
