--------------------------- MODULE PaymentChannel ---------------------------
(***************************************************************************)
(* What a unidirectional payment channel promises its payer, whatever the  *)
(* payee does: the payee collects only what the payer has put in escrow    *)
(* and only up to a ceiling the payer has handed over, what is paid out    *)
(* was collected first, and none of it is ever taken back.                 *)
(***************************************************************************)
EXTENDS Naturals

CONSTANT Channels

VARIABLES
  funds,      \* what the payer has put in escrow
  ceiling,    \* the highest ceiling the payer has handed to the payee
  collected,  \* what the payee has claimed
  paidOut     \* what has reached the payee

vars == <<funds, ceiling, collected, paidOut>>

Init ==
  /\ funds = [c \in Channels |-> 0]
  /\ ceiling = [c \in Channels |-> 0]
  /\ collected = [c \in Channels |-> 0]
  /\ paidOut = [c \in Channels |-> 0]

Fund ==
  /\ \A c \in Channels : funds'[c] >= funds[c]
  /\ UNCHANGED <<ceiling, collected, paidOut>>

\* The payer takes back what is not collected.
Withdraw ==
  /\ \A c \in Channels : funds'[c] \in collected[c]..funds[c]
  /\ UNCHANGED <<ceiling, collected, paidOut>>

HandOver ==
  /\ \A c \in Channels : ceiling'[c] >= ceiling[c]
  /\ UNCHANGED <<funds, collected, paidOut>>

Collect ==
  /\ \A c \in Channels :
       /\ collected'[c] >= collected[c]
       /\ collected'[c] > collected[c] =>
            collected'[c] <= ceiling[c] /\ collected'[c] <= funds[c]
  /\ UNCHANGED <<funds, ceiling, paidOut>>

PayOut ==
  /\ \A c \in Channels : paidOut'[c] \in paidOut[c]..collected[c]
  /\ UNCHANGED <<funds, ceiling, collected>>

Next == Fund \/ Withdraw \/ HandOver \/ Collect \/ PayOut

Spec == Init /\ [][Next]_vars
=============================================================================
