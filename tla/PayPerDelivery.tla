--------------------------- MODULE PayPerDelivery ---------------------------
(***************************************************************************)
(* What a seller that is paid by single-use authorizations promises its    *)
(* payers: nobody is charged for what was not delivered, and no            *)
(* authorization is charged twice.  It may deliver without being paid.     *)
(***************************************************************************)
EXTENDS Naturals

CONSTANTS Payments, Accounts, PayerOf, Funds

VARIABLES
  funds,      \* how many payments each account can still make
  charged,    \* the payments that were charged
  delivered   \* how often the goods of a payment were delivered

vars == <<funds, charged, delivered>>

Init ==
  /\ funds = [a \in Accounts |-> Funds]
  /\ charged = {}
  /\ delivered = [p \in Payments |-> 0]

Deliver(p) ==
  /\ delivered' = [delivered EXCEPT ![p] = @ + 1]
  /\ UNCHANGED <<funds, charged>>

Charge(p) ==
  /\ delivered[p] > 0
  /\ p \notin charged
  /\ funds[PayerOf[p]] > 0
  /\ charged' = charged \cup {p}
  /\ funds' = [funds EXCEPT ![PayerOf[p]] = @ - 1]
  /\ UNCHANGED delivered

SpendElsewhere(a) ==
  /\ funds[a] > 0
  /\ funds' = [funds EXCEPT ![a] = @ - 1]
  /\ UNCHANGED <<charged, delivered>>

Next ==
  \/ \E p \in Payments : Deliver(p) \/ Charge(p)
  \/ \E a \in Accounts : SpendElsewhere(a)

Spec == Init /\ [][Next]_vars
=============================================================================
