---------------------------- MODULE ChannelTable ----------------------------
(***************************************************************************)
(* AppState.channels: the in-memory map from channel id to ChannelState    *)
(* that the batch-settlement handler and the claim/settle job share, and   *)
(* the critical sections they run on it.  Every operator below is one      *)
(* critical section of `app.channels.lock()`, so it is evaluated in one    *)
(* step.                                                                   *)
(*                                                                         *)
(* A channel id is hex32(channel_id), computed by the server from the      *)
(* config, so equal ids are equal channels.  ChannelState.config and       *)
(* last_sig are not kept: both writers store them with last_max from the   *)
(* same verified payload, so `config` is Some and `last_sig` is non-empty  *)
(* in every entry, and last_max stands for the signed voucher.             *)
(***************************************************************************)
EXTENDS Naturals

CONSTANTS
  Cids,       \* channel ids the clients use
  None,       \* no entry in the map; no channel
  Amount,     \* requirements.amount, the price of one request
  MaxU128,    \* u128::MAX (a small number in the runs)
  MaxOwed     \* bound: the price of the requests admitted between deposits

ASSUME TableAssumption ==
  /\ MaxU128 \in Nat
  /\ Amount \in 0..MaxU128
  /\ MaxOwed \in Nat
  /\ None \notin Cids

VARIABLES
  channels,   \* the map itself
  owed,       \* history: price of the requests admitted since the deposit
  ceiling     \* history: highest voucher ceiling ever admitted

historyVars == <<owed, ceiling>>
tableVars == <<channels, historyVars>>

U128 == 0..MaxU128

ChannelState ==
  [charged : U128, balance : U128, totalClaimed : U128, lastMax : U128]

ASSUME EntryAssumption == None \notin ChannelState

(***************************************************************************)
(* What the facilitator says of a channel.                                 *)
(***************************************************************************)
Snapshot == [balance : U128, totalClaimed : U128]
NoSnapshot == [balance |-> 0, totalClaimed |-> 0]

MaxOf(a, b) == IF a >= b THEN a ELSE b

\* u128::saturating_add
SatAdd(a, b) == IF a + b > MaxU128 THEN MaxU128 ELSE a + b

\* History of a request admitted on c with ceiling max.
HandOver(c, max) == ceiling' = [ceiling EXCEPT ![c] = MaxOf(@, max)]

Present == {c \in Cids : channels[c] # None}

(***************************************************************************)
(* The voucher policy.  Mutants: no balance check; the previous ceiling    *)
(* itself is enough; the addition wraps instead of saturating.             *)
(***************************************************************************)
AdmitsUnbacked(s, max) ==
  max > s.totalClaimed /\ max >= SatAdd(s.charged, Amount)
AdmitsReplay(s, max) ==
  max <= s.balance /\ max > s.totalClaimed /\ max >= s.charged
AdmitsWrapping(s, max) ==
  /\ max <= s.balance
  /\ max > s.totalClaimed
  /\ max >= (s.charged + Amount) % (MaxU128 + 1)

Admits(s, max) ==
  /\ max <= s.balance
  /\ max > s.totalClaimed
  /\ max >= SatAdd(s.charged, Amount)

Charge(s, max) == [s EXCEPT !.charged = max, !.lastMax = max]

(***************************************************************************)
(* The entry a deposit writes.  A zero balance is replaced by a sentinel.  *)
(***************************************************************************)
Sentinel == MaxU128 \div 2

Opened(max, snap) ==
  [charged      |-> Amount,
   balance      |-> IF snap.balance = 0 THEN Sentinel ELSE snap.balance,
   totalClaimed |-> snap.totalClaimed,
   lastMax      |-> max]

(***************************************************************************)
(* What the claim job reads under the lock: the latest voucher of every    *)
(* channel with charged > total_claimed.                                   *)
(***************************************************************************)
Claimable(s) == s.charged > s.totalClaimed

ClaimableCids == {c \in Present : Claimable(channels[c])}

ClaimAll == [c \in ClaimableCids |-> channels[c].balance]
ClaimBatch == [c \in ClaimableCids |-> channels[c].lastMax]

(***************************************************************************)
(* What it writes back: the ceilings it claimed, not the present ones.     *)
(* Mutants: the present charges; nothing at all; added to what is there.   *)
(***************************************************************************)
ReconciledToPresent(batch) ==
  [c \in Cids |-> IF c \in DOMAIN batch \cap Present
                    THEN [channels[c] EXCEPT !.totalClaimed = channels[c].charged]
                    ELSE channels[c]]
NotReconciled(batch) == channels
ReconciledByDelta(batch) ==
  [c \in Cids |-> IF c \in DOMAIN batch \cap Present
                    THEN [channels[c] EXCEPT !.totalClaimed = @ + batch[c]]
                    ELSE channels[c]]

Reconciled(batch) ==
  [c \in Cids |->
     IF c \in DOMAIN batch /\ channels[c] # None
       THEN [channels[c] EXCEPT !.totalClaimed = batch[c]]
       ELSE channels[c]]

TableInit ==
  /\ channels = [c \in Cids |-> None]
  /\ owed = [c \in Cids |-> 0]
  /\ ceiling = [c \in Cids |-> 0]

TableTypeOK ==
  /\ channels \in [Cids -> ChannelState \cup {None}]
  /\ owed \in [Cids -> Nat]
  /\ ceiling \in [Cids -> U128]
=============================================================================
