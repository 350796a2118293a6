-------------------------- MODULE ExactHandlerProofs ------------------------
(***************************************************************************)
(* For any payers, payments, requests, configuration and faults: the       *)
(* `exact` handler charges its payers as PayPerDelivery says, each 200 has *)
(* a settle of its own, and its cache trusts nobody longer than it may.    *)
(***************************************************************************)
EXTENDS ExactHandler, FiniteSetTheorems, TLAPS

\* Numbers and names, as the assumptions on the constants give them.
LEMMA ConstantTypes ==
  /\ TTL \in Nat /\ MaxTime \in Nat /\ Funds \in Nat /\ MaxSends \in Nat
  /\ None \notin Payers /\ None \notin Time
  /\ PayerOf \in [Payments -> Accounts]
  /\ \A p \in Payments : PayerOf[p] # None => PayerOf[p] \in Payers
  /\ 0 \in Time
BY CacheAssumption, ExactAssumption DEF Time, Accounts

\* Either branch of `record` leaves a map of readings of the clock.
LEMMA RecordedType ==
  ASSUME CacheTypeOK, NEW key, NEW at \in Time
  PROVE  Recorded(key, at) \in [Payers -> Time \cup {None}]
BY DEF CacheTypeOK, Recorded, Retain

\* A reading of the clock before t counts less of the time since e than t.
LEMMA ElapsedMonotone ==
  ASSUME NEW at \in Nat, NEW t \in Nat, NEW e \in Nat, at <= t
  PROVE  Elapsed(at, e) <= Elapsed(t, e)
BY DEF Elapsed

-----------------------------------------------------------------------------
(* Types *)

\* A slot in use holds a payment.
PayOK == \A r \in Reqs : req[r].pc # "free" => req[r].pay \in Payments

TypeInv == TypeOK /\ PayOK

LEMMA TypeInvInit ==
  ASSUME Init
  PROVE  TypeInv
<1>1. Free \in Request
  BY ConstantTypes DEF Free, Request
<1>2. CacheTypeOK
  BY ConstantTypes DEF Init, CacheInit, CacheTypeOK
<1>3. TypeOK
  BY <1>1, <1>2, ConstantTypes DEF Init, TypeOK
<1>4. PayOK
  BY DEF Init, PayOK, Free
<1> QED BY <1>3, <1>4 DEF TypeInv

\* What a step does to one slot, it does to a request of the right type.
LEMMA BecomeTypes ==
  ASSUME TypeInv, NEW r \in Reqs, NEW q \in Request, Become(r, q),
         q.pc # "free" => q.pay \in Payments
  PROVE  req' \in [Reqs -> Request] /\ PayOK'
BY DEF TypeInv, TypeOK, PayOK, Become

LEMMA FreeTypes == Free \in Request /\ Free.pc = "free"
BY ConstantTypes DEF Free, Request

\* A transfer keeps the chain's types.
LEMMA TransferTypes ==
  ASSUME TypeInv, NEW p \in Payments, Transfer(p)
  PROVE  funds' \in [Accounts -> 0..Funds] /\ spent' \subseteq Payments
<1>1. PayerOf[p] \in Accounts /\ funds[PayerOf[p]] \in 0..Funds
  BY ConstantTypes DEF TypeInv, TypeOK
<1>2. funds[PayerOf[p]] - 1 \in 0..Funds
  BY <1>1, ConstantTypes DEF Transfer, Valid
<1> QED BY <1>1, <1>2 DEF Transfer, TypeInv, TypeOK

\* A counter that goes up by one is still a counter.
LEMMA CountedType ==
  ASSUME NEW count \in [Payments -> Nat], NEW p \in Payments
  PROVE  Counted(count, p) \in [Payments -> Nat]
BY DEF Counted

LEMMA TypeInvNext ==
  ASSUME TypeInv, [Next]_vars
  PROVE  TypeInv'
<1> USE DEF TypeInv
<1>a. /\ req \in [Reqs -> Request] /\ now \in Time
      /\ spawned \in [Payments -> Nat] /\ delivered \in [Payments -> Nat]
      /\ served \in [Payments -> Nat] /\ refused \in [Payments -> Nat]
      /\ logged \in [Payments -> Nat]
  BY DEF TypeOK, CacheTypeOK
<1>1. ASSUME NEW r \in Reqs, NEW p \in Payments, Receive(r, p)
      PROVE  TypeInv'
  <2> DEFINE q == [Free EXCEPT !.pc = IF Cached /\ PayerOf[p] # None THEN "fresh"
                                                                  ELSE "verify",
                               !.pay = p, !.at = now]
  <2>1. q \in Request /\ q.pay = p
    BY <1>a DEF Free, Request
  <2>2. req' \in [Reqs -> Request] /\ PayOK'
    BY <1>1, <2>1, BecomeTypes DEF Receive
  <2>3. sent' \in 0..MaxSends
    BY <1>1, ConstantTypes DEF Receive, TypeOK
  <2> QED BY <1>1, <2>2, <2>3 DEF Receive, TypeOK, CacheTypeOK, cacheVars, chainVars
\* Steps that change one slot only, or free it.
<1>2. ASSUME NEW r \in Reqs, NEW q \in Request, Become(r, q),
             q.pc # "free" => q.pay \in Payments,
             UNCHANGED <<cacheVars, spawned, chainVars, historyVars>>
      PROVE  TypeInv'
  BY <1>2, BecomeTypes DEF TypeOK, CacheTypeOK, cacheVars, chainVars, historyVars
<1>3. ASSUME NEW r \in Reqs, EndRequest(r)
      PROVE  TypeInv'
  BY <1>3, <1>2, FreeTypes DEF EndRequest
<1>4. ASSUME NEW r \in Reqs, Lookup(r)
      PROVE  TypeInv'
  <2>1. [req[r] EXCEPT !.pc = IF fresh(PayerOf[req[r].pay], req[r].at)
                              THEN "upstream" ELSE "verify"] \in Request
    BY <1>a DEF Request
  <2>2. req[r].pay \in Payments
    BY <1>4 DEF Lookup, PayOK
  <2> QED BY <1>4, <1>2, <1>a, <2>1, <2>2 DEF Lookup, Request
<1>5. ASSUME NEW r \in Reqs, VerifyValid(r)
      PROVE  TypeInv'
  <2> DEFINE p == req[r].pay
             q == [req[r] EXCEPT !.pc = IF Cached /\ PayerOf[p] # None THEN "record"
                                                                   ELSE "upstream",
                                 !.at = now, !.checked = TRUE]
  <2>1. p \in Payments /\ q \in Request /\ q.pay = p
    BY <1>5, <1>a DEF VerifyValid, PayOK, Request
  <2>2. req' \in [Reqs -> Request] /\ PayOK'
    BY <1>5, <2>1, BecomeTypes DEF VerifyValid
  <2>3. trusted' \in [Payers -> SUBSET Time]
    BY <1>5, <1>a DEF VerifyValid, TypeOK
  <2> QED BY <1>5, <2>2, <2>3 DEF VerifyValid, TypeOK, CacheTypeOK, cacheVars, chainVars
<1>6. ASSUME NEW r \in Reqs, Record(r)
      PROVE  TypeInv'
  <2>1. [req[r] EXCEPT !.pc = "upstream"] \in Request /\ req[r].pay \in Payments
        /\ req[r].at \in Time
    BY <1>6, <1>a DEF Record, PayOK, Request
  <2>2. req' \in [Reqs -> Request] /\ PayOK'
    BY <1>6, <1>a, <2>1, BecomeTypes DEF Record, Request
  <2>3. inner' \in [Payers -> Time \cup {None}]
    BY <1>6, <2>1, RecordedType DEF Record, TypeOK
  <2> QED BY <1>6, <2>2, <2>3 DEF Record, TypeOK, CacheTypeOK, chainVars, historyVars
<1>7. ASSUME NEW r \in Reqs, UpstreamServesSync(r)
      PROVE  TypeInv'
  <2>1. [req[r] EXCEPT !.pc = "settle"] \in Request /\ req[r].pay \in Payments
    BY <1>7, <1>a DEF UpstreamServesSync, PayOK, Request
  <2>2. req' \in [Reqs -> Request] /\ PayOK'
    BY <1>7, <1>a, <2>1, BecomeTypes DEF UpstreamServesSync, Request
  <2>3. delivered' \in [Payments -> Nat]
    BY <1>7, <1>a, <2>1, CountedType DEF UpstreamServesSync
  <2> QED BY <1>7, <2>2, <2>3
          DEF UpstreamServesSync, TypeOK, CacheTypeOK, cacheVars, chainVars
<1>8. ASSUME NEW r \in Reqs, UpstreamServesAsync(r)
      PROVE  TypeInv'
  <2>1. req' \in [Reqs -> Request] /\ PayOK'
    BY <1>8, FreeTypes, BecomeTypes DEF UpstreamServesAsync
  <2>2. req[r].pay \in Payments
    BY <1>8 DEF UpstreamServesAsync, PayOK
  <2>3. /\ delivered' \in [Payments -> Nat] /\ spawned' \in [Payments -> Nat]
        /\ served' \in [Payments -> Nat]
    BY <1>8, <1>a, <2>2, CountedType DEF UpstreamServesAsync
  <2> QED BY <1>8, <2>1, <2>3
          DEF UpstreamServesAsync, TypeOK, CacheTypeOK, cacheVars, chainVars
<1>9. ASSUME NEW r \in Reqs, SettleExecuted(r)
      PROVE  TypeInv'
  <2> DEFINE q == [req[r] EXCEPT !.pc = "settled"]
  <2>1. q \in Request /\ q.pay = req[r].pay /\ req[r].pay \in Payments
    BY <1>9, <1>a DEF SettleExecuted, PayOK, Request
  <2>2. req' \in [Reqs -> Request] /\ PayOK'
    BY <1>9, <2>1, BecomeTypes DEF SettleExecuted
  <2>3. funds' \in [Accounts -> 0..Funds] /\ spent' \subseteq Payments
    BY <1>9, <2>1, TransferTypes DEF SettleExecuted
  <2> QED BY <1>9, <2>2, <2>3
          DEF SettleExecuted, TypeOK, CacheTypeOK, cacheVars, historyVars
<1>10. ASSUME NEW r \in Reqs, SettleAnswered(r)
       PROVE  TypeInv'
  <2>1. req' \in [Reqs -> Request] /\ PayOK'
    BY <1>10, FreeTypes, BecomeTypes DEF SettleAnswered
  <2>2. req[r].pay \in Payments
    BY <1>10 DEF SettleAnswered, PayOK
  <2>3. served' \in [Payments -> Nat]
    BY <1>10, <1>a, <2>2, CountedType DEF SettleAnswered
  <2> QED BY <1>10, <2>1, <2>3
          DEF SettleAnswered, TypeOK, CacheTypeOK, cacheVars, chainVars
<1>11. ASSUME NEW p \in Payments, TaskEnds(p)
       PROVE  TypeInv'
  <2>1. spawned' \in [Payments -> Nat]
    BY <1>11, <1>a DEF TaskEnds, TaskSettles, TaskRefused, TaskFails, Join
  <2>2. funds' \in [Accounts -> 0..Funds] /\ spent' \subseteq Payments
    BY <1>11, TransferTypes
       DEF TaskEnds, TaskSettles, TaskRefused, TaskFails, chainVars, TypeOK
  <2>3. refused' \in [Payments -> Nat] /\ logged' \in [Payments -> Nat]
    BY <1>11, <1>a, CountedType DEF TaskEnds, TaskSettles, TaskRefused, TaskFails
  <2>4. UNCHANGED <<cacheVars, req, sent, delivered, served, trusted>>
    BY <1>11 DEF TaskEnds, TaskSettles, TaskRefused, TaskFails, Join
  <2> QED BY <2>1, <2>2, <2>3, <2>4 DEF TypeOK, CacheTypeOK, cacheVars, PayOK
<1>12. ASSUME NEW a \in Accounts, Withdraw(a)
       PROVE  TypeInv'
  <2>1. funds' \in [Accounts -> 0..Funds]
    BY <1>12, ConstantTypes DEF Withdraw, TypeOK
  <2> QED BY <1>12, <2>1
          DEF Withdraw, TypeOK, CacheTypeOK, cacheVars, historyVars, PayOK
<1>13. ASSUME Restart
       PROVE  TypeInv'
  BY <1>13, FreeTypes
     DEF Restart, TypeOK, CacheTypeOK, chainVars, historyVars, PayOK
<1>14. ASSUME Clock
       PROVE  TypeInv'
  <2>1. now' \in Time
    BY <1>14, <1>a, ConstantTypes DEF Clock, Tick, Time
  <2> QED BY <1>14, <2>1
          DEF Clock, Tick, TypeOK, CacheTypeOK, chainVars, historyVars, PayOK
<1>15. ASSUME UNCHANGED vars
       PROVE  TypeInv'
  BY <1>15 DEF vars, TypeOK, CacheTypeOK, cacheVars, chainVars, historyVars, PayOK
<1>16. ASSUME NEW r \in Reqs,
              VerifyFails(r) \/ UpstreamFails(r) \/ SettleErrs(r) \/ DropRequest(r)
       PROVE  EndRequest(r)
  BY <1>16 DEF VerifyFails, UpstreamFails, SettleErrs, DropRequest
<1>17. ASSUME NEW r \in Reqs, VerifyExecuted(r)
       PROVE  TypeInv'
  <2>1. /\ [req[r] EXCEPT !.pc = "verified"] \in Request
        /\ [req[r] EXCEPT !.pc = "verified"].pay = req[r].pay
        /\ req[r].pay \in Payments
    BY <1>17, <1>a DEF VerifyExecuted, PayOK, Request
  <2> QED BY <1>17, <1>2, <2>1 DEF VerifyExecuted
<1>18. ASSUME NEW r \in Reqs, SettleRefused(r)
       PROVE  TypeInv'
  <2> DEFINE q == [req[r] EXCEPT !.pc = "rejected"]
  <2>1. q \in Request /\ q.pay = req[r].pay /\ req[r].pay \in Payments
    BY <1>18, <1>a DEF SettleRefused, PayOK, Request
  <2>2. req' \in [Reqs -> Request] /\ PayOK'
    BY <1>18, <2>1, BecomeTypes DEF SettleRefused
  <2>3. refused' \in [Payments -> Nat]
    BY <1>18, <1>a, <2>1, CountedType DEF SettleRefused
  <2> QED BY <1>18, <2>2, <2>3
          DEF SettleRefused, TypeOK, CacheTypeOK, cacheVars, chainVars
<1> QED BY <1>1, <1>3, <1>4, <1>5, <1>6, <1>7, <1>8, <1>9, <1>10, <1>11, <1>12,
           <1>13, <1>14, <1>15, <1>16, <1>17, <1>18 DEF Next, TaskEnds

(***************************************************************************)
(* Every variable keeps its type, whatever the clients and the facilitator *)
(* do: in particular `inner` holds readings of the clock only.             *)
(***************************************************************************)
THEOREM ExactTypeCorrect == Spec => []TypeOK
<1>1. Spec => []TypeInv
  BY TypeInvInit, TypeInvNext, PTL DEF Spec
<1>2. TypeInv => TypeOK
  BY DEF TypeInv
<1> QED BY <1>1, <1>2, PTL

-----------------------------------------------------------------------------
(* The refinement *)

\* A settle that was posted, or waits for its task, is that of a delivery.
OwedInv ==
  /\ \A r \in Reqs : req[r].pc \in {"settle", "settled", "rejected"} =>
                       delivered[req[r].pay] > 0
  /\ \A p \in Payments : spawned[p] > 0 => delivered[p] > 0

DeliveryInv == TypeInv /\ OwedInv

\* The steps that post no settle, for all that matters here.
LEMMA OwedInvFrame ==
  ASSUME TypeInv, OwedInv, NEW r \in Reqs, NEW q \in Request, Become(r, q),
         q.pc \in {"settle", "settled", "rejected"} =>
           /\ q.pay = req[r].pay
           /\ req[r].pc \in {"settle", "settled", "rejected"},
         UNCHANGED <<spawned, delivered>>
  PROVE  OwedInv'
BY DEF TypeInv, TypeOK, OwedInv, Become

\* One more delivery of p, and what it is owed for.
LEMMA OwedInvServes ==
  ASSUME TypeInv, OwedInv, NEW r \in Reqs,
         UpstreamServesSync(r) \/ UpstreamServesAsync(r)
  PROVE  OwedInv'
<1> DEFINE p == req[r].pay
<1>1. p \in Payments
  BY DEF UpstreamServesSync, UpstreamServesAsync, TypeInv, PayOK
<1>2. /\ req \in [Reqs -> Request] /\ spawned \in [Payments -> Nat]
      /\ delivered \in [Payments -> Nat]
  BY DEF TypeInv, TypeOK
<1>3. delivered' = [delivered EXCEPT ![p] = @ + 1]
  BY DEF UpstreamServesSync, UpstreamServesAsync, Counted
<1>4. \A x \in Payments : delivered'[x] >= delivered[x] /\ delivered'[p] > 0
  BY <1>1, <1>2, <1>3
<1>5. \A x \in Payments : spawned'[x] > 0 => delivered'[x] > 0
  <2>1. \A x \in Payments \ {p} : spawned'[x] = spawned[x]
    BY <1>2 DEF UpstreamServesSync, UpstreamServesAsync, Counted
  <2> QED BY <1>1, <1>2, <1>3, <1>4, <2>1 DEF OwedInv
<1>6. \A x \in Reqs : req'[x].pc \in {"settle", "settled", "rejected"} =>
                        delivered'[req'[x].pay] > 0
  <2> SUFFICES ASSUME NEW x \in Reqs, req'[x].pc \in {"settle", "settled", "rejected"}
               PROVE  delivered'[req'[x].pay] > 0
    OBVIOUS
  <2>1. CASE x = r
    <3>1. req'[x] = [req[r] EXCEPT !.pc = "settle"] \/ req'[x] = Free
      BY <1>2, <2>1 DEF UpstreamServesSync, UpstreamServesAsync, Become
    <3>2. req'[x].pay = p
      BY <1>2, <3>1 DEF Request, Free
    <3> QED BY <1>4, <3>2, <1>1
  <2>2. CASE x # r
    <3>1. req'[x] = req[x]
      BY <1>2, <2>2 DEF UpstreamServesSync, UpstreamServesAsync, Become
    <3>2. req[x].pay \in Payments /\ delivered[req[x].pay] > 0
      BY <3>1 DEF OwedInv, TypeInv, PayOK
    <3> QED BY <1>2, <1>3, <3>1, <3>2
  <2> QED BY <2>1, <2>2
<1> QED BY <1>5, <1>6 DEF OwedInv

LEMMA DeliveryInvNext ==
  ASSUME DeliveryInv, [Next]_vars
  PROVE  DeliveryInv'
<1> USE DEF DeliveryInv
<1>a. req \in [Reqs -> Request] /\ spawned \in [Payments -> Nat]
  BY DEF TypeInv, TypeOK
<1>b. TypeInv'
  BY TypeInvNext
<1>1. ASSUME NEW r \in Reqs, UpstreamServesSync(r) \/ UpstreamServesAsync(r)
      PROVE  DeliveryInv'
  BY <1>1, <1>b, OwedInvServes
<1>2. ASSUME NEW r \in Reqs, EndRequest(r) \/ SettleAnswered(r)
      PROVE  DeliveryInv'
  BY <1>2, <1>b, OwedInvFrame, FreeTypes DEF EndRequest, SettleAnswered, historyVars
<1>3. ASSUME NEW r \in Reqs, NEW p \in Payments, Receive(r, p)
      PROVE  DeliveryInv'
  <2> DEFINE q == [Free EXCEPT !.pc = IF Cached /\ PayerOf[p] # None THEN "fresh"
                                                                  ELSE "verify",
                               !.pay = p, !.at = now]
  <2>1. q \in Request /\ Become(r, q) /\ q.pc \in {"fresh", "verify"}
    BY <1>3 DEF Receive, Free, Request, TypeInv, TypeOK, CacheTypeOK
  <2> QED BY <1>3, <1>b, <2>1, OwedInvFrame DEF Receive
<1>4. ASSUME NEW r \in Reqs,
             Lookup(r) \/ VerifyExecuted(r) \/ VerifyValid(r) \/ Record(r)
      PROVE  DeliveryInv'
  <2>1. \A x \in Reqs : req'[x].pc \in {"settle", "settled", "rejected"} =>
                          req'[x] = req[x]
    <3>1. CASE Lookup(r)
      BY <3>1, <1>a DEF Lookup, Become, Request
    <3>2. CASE VerifyExecuted(r)
      BY <3>2, <1>a DEF VerifyExecuted, Become, Request
    <3>3. CASE VerifyValid(r)
      BY <3>3, <1>a DEF VerifyValid, Become, Request
    <3>4. CASE Record(r)
      BY <3>4, <1>a DEF Record, Become, Request
    <3> QED BY <1>4, <3>1, <3>2, <3>3, <3>4
  <2>2. UNCHANGED <<spawned, delivered>>
    BY <1>4 DEF Lookup, VerifyExecuted, VerifyValid, Record, historyVars
  <2> QED BY <1>b, <2>1, <2>2 DEF OwedInv
<1>5. ASSUME NEW r \in Reqs, SettleExecuted(r) \/ SettleRefused(r)
      PROVE  DeliveryInv'
  <2>1. PICK q \in Request : Become(r, q) /\ q.pay = req[r].pay
    BY <1>5, <1>a DEF SettleExecuted, SettleRefused, Request
  <2> QED BY <1>5, <1>b, <2>1, OwedInvFrame DEF SettleExecuted, SettleRefused, historyVars
<1>6. ASSUME NEW p \in Payments, TaskEnds(p)
      PROVE  DeliveryInv'
  <2>1. Join(p) /\ UNCHANGED <<req, delivered>>
    BY <1>6 DEF TaskEnds, TaskSettles, TaskRefused, TaskFails, Join
  <2>2. \A x \in Payments : spawned'[x] > 0 => spawned[x] > 0
    BY <1>a, <2>1 DEF Join
  <2> QED BY <1>b, <2>1, <2>2 DEF OwedInv
<1>7. ASSUME Restart
      PROVE  DeliveryInv'
  BY <1>7, <1>b DEF Restart, Free, historyVars, OwedInv
<1>8. ASSUME (\E a \in Accounts : Withdraw(a)) \/ Clock \/ UNCHANGED vars
      PROVE  DeliveryInv'
  <2>1. UNCHANGED <<req, spawned, delivered>>
    BY <1>8 DEF Withdraw, Clock, vars, historyVars
  <2> QED BY <1>b, <2>1 DEF OwedInv
<1>9. ASSUME NEW r \in Reqs,
             VerifyFails(r) \/ UpstreamFails(r) \/ SettleErrs(r) \/ DropRequest(r)
      PROVE  EndRequest(r)
  BY <1>9 DEF VerifyFails, UpstreamFails, SettleErrs, DropRequest
<1> QED BY <1>1, <1>2, <1>3, <1>4, <1>5, <1>6, <1>7, <1>8, <1>9 DEF Next, TaskEnds

LEMMA DeliveryInvariant == Spec => []DeliveryInv
<1>1. Init => DeliveryInv
  <2> SUFFICES ASSUME Init PROVE DeliveryInv
    OBVIOUS
  <2> QED BY TypeInvInit DEF Init, DeliveryInv, OwedInv, Free
<1> QED BY <1>1, DeliveryInvNext, PTL DEF Spec

\* A transfer is a charge for what was delivered.
LEMMA TransferCharges ==
  ASSUME NEW p \in Payments, delivered[p] > 0, Transfer(p), UNCHANGED delivered
  PROVE  [Sale!Next]_Sale!vars
<1>1. Sale!Charge(p)
  BY DEF Transfer, Valid, Sale!Charge
<1> QED BY <1>1 DEF Sale!Next

LEMMA SaleNext ==
  ASSUME DeliveryInv, [Next]_vars
  PROVE  [Sale!Next]_Sale!vars
<1> USE DEF DeliveryInv
<1>1. ASSUME NEW r \in Reqs, UpstreamServesSync(r) \/ UpstreamServesAsync(r)
      PROVE  [Sale!Next]_Sale!vars
  <2>1. req[r].pay \in Payments
    BY <1>1 DEF UpstreamServesSync, UpstreamServesAsync, TypeInv, PayOK
  <2>2. Sale!Deliver(req[r].pay)
    BY <1>1 DEF UpstreamServesSync, UpstreamServesAsync, Counted, chainVars, Sale!Deliver
  <2> QED BY <2>1, <2>2 DEF Sale!Next
<1>2. ASSUME NEW r \in Reqs, SettleExecuted(r)
      PROVE  [Sale!Next]_Sale!vars
  <2>1. req[r].pay \in Payments /\ delivered[req[r].pay] > 0
    BY <1>2 DEF SettleExecuted, TypeInv, PayOK, OwedInv
  <2> QED BY <1>2, <2>1, TransferCharges DEF SettleExecuted, historyVars
<1>3. ASSUME NEW p \in Payments, TaskEnds(p)
      PROVE  [Sale!Next]_Sale!vars
  <2>1. delivered[p] > 0 /\ UNCHANGED delivered
    BY <1>3 DEF TaskEnds, TaskSettles, TaskRefused, TaskFails, Join, OwedInv
  <2>2. CASE Transfer(p)
    BY <2>1, <2>2, TransferCharges
  <2>3. CASE UNCHANGED chainVars
    BY <2>1, <2>3 DEF chainVars, Sale!vars
  <2> QED BY <1>3, <2>2, <2>3 DEF TaskEnds, TaskSettles, TaskRefused, TaskFails
<1>4. ASSUME NEW a \in Accounts, Withdraw(a)
      PROVE  [Sale!Next]_Sale!vars
  <2>1. Sale!SpendElsewhere(a)
    BY <1>4 DEF Withdraw, historyVars, Sale!SpendElsewhere
  <2> QED BY <1>4, <2>1 DEF Sale!Next
<1>5. ASSUME UNCHANGED <<chainVars, delivered>>
      PROVE  [Sale!Next]_Sale!vars
  BY <1>5 DEF chainVars, Sale!vars
<1>6. ASSUME NEW r \in Reqs,
             \/ \E p \in Payments : Receive(r, p)
             \/ Lookup(r) \/ VerifyExecuted(r) \/ VerifyValid(r) \/ Record(r)
             \/ VerifyFails(r) \/ UpstreamFails(r) \/ SettleRefused(r)
             \/ SettleAnswered(r) \/ SettleErrs(r) \/ DropRequest(r)
      PROVE  UNCHANGED <<chainVars, delivered>>
  BY <1>6 DEF Receive, Lookup, VerifyExecuted, VerifyValid, Record, VerifyFails,
              UpstreamFails, SettleRefused, SettleAnswered, SettleErrs, DropRequest,
              EndRequest, historyVars
<1>7. ASSUME Restart \/ Clock \/ UNCHANGED vars
      PROVE  UNCHANGED <<chainVars, delivered>>
  BY <1>7 DEF Restart, Clock, vars, historyVars
<1> QED BY <1>1, <1>2, <1>3, <1>4, <1>5, <1>6, <1>7 DEF Next, TaskEnds

(***************************************************************************)
(* "Payment verified but resource not delivered: never settle": towards    *)
(* its payers the `exact` handler is a sale paid by single-use             *)
(* authorizations, with no charge before a delivery and no second one, for *)
(* any faults, retries and restarts, sync or async.                        *)
(***************************************************************************)
THEOREM ExactIsPayPerDelivery == Spec => IsPayPerDelivery
<1>1. Init => Sale!Init
  BY DEF Init, Sale!Init
<1> QED BY <1>1, SaleNext, DeliveryInvariant, PTL DEF Spec, Sale!Spec, IsPayPerDelivery

-----------------------------------------------------------------------------
(* What was answered 200 *)

CameBack == {"settled", "rejected"}

\* The requests about to be answered: the settles of p that came back.
Answering(p) == {r \in Reqs : req[r].pc \in CameBack /\ req[r].pay = p}

(***************************************************************************)
(* Whoever is answered, or about to be, has a settle of its own among      *)
(* those that ended and those that wait.  Nothing is spawned where settles *)
(* are awaited, so that there a restart has no task to lose.               *)
(***************************************************************************)
Balanced(p) == served[p] + Cardinality(Answering(p)) <= Outcomes(p) + spawned[p]

AccountInv ==
  /\ \A p \in Payments : Balanced(p)
  /\ ~Async => \A p \in Payments : logged[p] = 0 /\ spawned[p] = 0

LEMMA AnsweringFinite ==
  ASSUME NEW p
  PROVE  IsFiniteSet(Answering(p)) /\ Cardinality(Answering(p)) \in Nat
<1>1. Answering(p) \subseteq Reqs
  BY DEF Answering
<1> QED BY <1>1, ExactAssumption, FS_Subset, FS_CardinalityType

LEMMA OutcomesType ==
  ASSUME TypeInv, NEW p \in Payments
  PROVE  Outcomes(p) \in Nat
BY DEF TypeInv, TypeOK, Outcomes

\* Fewer requests are about to be answered for p.
LEMMA AnsweringFalls ==
  ASSUME TypeInv, NEW p \in Payments, NEW S, S \subseteq Answering(p)
  PROVE  Cardinality(S) \in Nat /\ Cardinality(S) <= Cardinality(Answering(p))
BY AnsweringFinite, FS_Subset, FS_CardinalityType

\* One slot changes and is not about to be answered afterwards.
LEMMA AnsweringLeaves ==
  ASSUME TypeInv, NEW r \in Reqs, NEW q, Become(r, q), q.pc \notin CameBack,
         NEW p \in Payments
  PROVE  Answering(p)' = Answering(p) \ {r}
BY DEF TypeInv, TypeOK, Answering, Become

\* One slot changes and is about to be answered for p, and not before.
LEMMA AnsweringEnters ==
  ASSUME TypeInv, NEW r \in Reqs, NEW q, Become(r, q), req[r].pc \notin CameBack,
         q.pc \in CameBack, NEW p \in Payments
  PROVE  /\ q.pay = p => Cardinality(Answering(p)') = Cardinality(Answering(p)) + 1
         /\ q.pay # p => Answering(p)' = Answering(p)
<1>1. CASE q.pay = p
  <2>1. Answering(p)' = Answering(p) \cup {r} /\ r \notin Answering(p)
    BY <1>1 DEF TypeInv, TypeOK, Answering, Become
  <2> QED BY <1>1, <2>1, AnsweringFinite, FS_AddElement
<1>2. CASE q.pay # p
  BY <1>2 DEF TypeInv, TypeOK, Answering, Become
<1> QED BY <1>1, <1>2

\* A step of one request that answers nobody and is no settle.
LEMMA AccountFrame ==
  ASSUME TypeInv, AccountInv, NEW r \in Reqs, NEW q, Become(r, q), q.pc \notin CameBack,
         UNCHANGED <<served, spent, refused, logged, spawned>>
  PROVE  AccountInv'
<1>1. ASSUME NEW p \in Payments
      PROVE  Balanced(p)'
  <2>1. /\ Cardinality(Answering(p)') \in Nat
        /\ Cardinality(Answering(p)') <= Cardinality(Answering(p))
    BY AnsweringLeaves, AnsweringFalls
  <2>2. Outcomes(p)' = Outcomes(p)
    BY DEF Outcomes
  <2>3. served[p] \in Nat /\ spawned[p] \in Nat /\ Cardinality(Answering(p)) \in Nat
    BY AnsweringFinite DEF TypeInv, TypeOK
  <2> QED BY <2>1, <2>2, <2>3, OutcomesType DEF AccountInv, Balanced
<1> QED BY <1>1 DEF AccountInv

\* The settle of a request comes back and is counted.
LEMMA AccountSettles ==
  ASSUME TypeInv, AccountInv, NEW r \in Reqs, SettleExecuted(r) \/ SettleRefused(r)
  PROVE  AccountInv'
<1> DEFINE s == req[r].pay
<1>1. /\ req \in [Reqs -> Request] /\ refused \in [Payments -> Nat] /\ s \in Payments
      /\ req[r].pc \notin CameBack
  BY DEF SettleExecuted, SettleRefused, TypeInv, TypeOK, PayOK, CameBack
<1>2. PICK q : Become(r, q) /\ q.pc \in CameBack /\ q.pay = s
  BY <1>1 DEF SettleExecuted, SettleRefused, CameBack, Request
<1>3. UNCHANGED <<served, logged, spawned>>
  BY DEF SettleExecuted, SettleRefused, historyVars
<1>4. ASSUME NEW p \in Payments
      PROVE  Balanced(p)'
  <2>1. /\ served[p] \in Nat /\ spawned[p] \in Nat /\ logged[p] \in Nat
        /\ refused[p] \in Nat /\ Cardinality(Answering(p)) \in Nat
    BY AnsweringFinite DEF TypeInv, TypeOK
  <2>2. CASE p = s
    <3>1. Cardinality(Answering(p)') = Cardinality(Answering(p)) + 1
      BY <1>1, <1>2, <2>2, AnsweringEnters
    <3>2. Outcomes(p)' = Outcomes(p) + 1
      <4>1. CASE SettleExecuted(r)
        BY <2>1, <2>2, <4>1
           DEF SettleExecuted, Transfer, Valid, historyVars, Outcomes
      <4>2. CASE SettleRefused(r)
        BY <1>1, <2>1, <2>2, <4>2 DEF SettleRefused, Counted, chainVars, Outcomes
      <4> QED BY <4>1, <4>2
    <3> QED BY <1>3, <2>1, <3>1, <3>2, OutcomesType DEF AccountInv, Balanced
  <2>3. CASE p # s
    <3>1. Answering(p)' = Answering(p)
      BY <1>1, <1>2, <2>3, AnsweringEnters
    <3>2. Outcomes(p)' = Outcomes(p)
      BY <1>1, <2>3 DEF SettleExecuted, SettleRefused, Transfer, Counted, chainVars,
                        historyVars, Outcomes
    <3> QED BY <1>3, <3>1, <3>2 DEF AccountInv, Balanced
  <2> QED BY <2>2, <2>3
<1> QED BY <1>3, <1>4 DEF AccountInv

\* A settle that came back is answered 200.
LEMMA AccountAnswered ==
  ASSUME TypeInv, AccountInv, NEW r \in Reqs, SettleAnswered(r)
  PROVE  AccountInv'
<1> DEFINE s == req[r].pay
<1>1. /\ s \in Payments /\ served \in [Payments -> Nat]
      /\ Become(r, Free) /\ Free.pc \notin CameBack
      /\ UNCHANGED <<spent, refused, logged, spawned>>
      /\ served' = [served EXCEPT ![s] = @ + 1]
  BY DEF SettleAnswered, TypeInv, TypeOK, PayOK, CameBack, Free, chainVars, Counted
<1>2. ASSUME NEW p \in Payments
      PROVE  Balanced(p)'
  <2>1. Answering(p)' = Answering(p) \ {r}
    BY <1>1, AnsweringLeaves
  <2>2. /\ served[p] \in Nat /\ spawned[p] \in Nat /\ Outcomes(p) \in Nat
        /\ Cardinality(Answering(p)) \in Nat /\ Outcomes(p)' = Outcomes(p)
    BY <1>1, AnsweringFinite, OutcomesType DEF TypeInv, TypeOK, Outcomes
  <2>3. CASE p = s
    <3>1. r \in Answering(p)
      BY <2>3 DEF SettleAnswered, Answering, CameBack
    <3>2. Cardinality(Answering(p)') = Cardinality(Answering(p)) - 1
      BY <2>1, <3>1, AnsweringFinite, FS_RemoveElement
    <3> QED BY <1>1, <2>2, <2>3, <3>2 DEF AccountInv, Balanced
  <2>4. CASE p # s
    <3>1. /\ Cardinality(Answering(p)') \in Nat
          /\ Cardinality(Answering(p)') <= Cardinality(Answering(p))
      BY <2>1, AnsweringFalls
    <3> QED BY <1>1, <2>2, <2>4, <3>1 DEF AccountInv, Balanced
  <2> QED BY <2>3, <2>4
<1> QED BY <1>1, <1>2 DEF AccountInv

\* A completion is answered 200 and its settle is spawned.
LEMMA AccountSpawns ==
  ASSUME TypeInv, AccountInv, NEW r \in Reqs, UpstreamServesAsync(r)
  PROVE  AccountInv'
<1> DEFINE s == req[r].pay
<1>1. /\ s \in Payments /\ served \in [Payments -> Nat] /\ spawned \in [Payments -> Nat]
      /\ Become(r, Free) /\ Free.pc \notin CameBack
      /\ UNCHANGED <<spent, refused, logged>>
      /\ served' = [served EXCEPT ![s] = @ + 1]
      /\ spawned' = [spawned EXCEPT ![s] = @ + 1]
  BY DEF UpstreamServesAsync, TypeInv, TypeOK, PayOK, CameBack, Free, chainVars, Counted
<1>2. ASSUME NEW p \in Payments
      PROVE  Balanced(p)'
  <2>1. /\ Cardinality(Answering(p)') \in Nat
        /\ Cardinality(Answering(p)') <= Cardinality(Answering(p))
    BY <1>1, AnsweringLeaves, AnsweringFalls
  <2>2. /\ served[p] \in Nat /\ spawned[p] \in Nat /\ Outcomes(p) \in Nat
        /\ Cardinality(Answering(p)) \in Nat /\ Outcomes(p)' = Outcomes(p)
    BY <1>1, AnsweringFinite, OutcomesType DEF TypeInv, TypeOK, Outcomes
  <2>3. served'[p] - served[p] = spawned'[p] - spawned[p]
        /\ served'[p] \in Nat /\ spawned'[p] \in Nat
    BY <1>1
  <2> QED BY <2>1, <2>2, <2>3 DEF AccountInv, Balanced
<1>3. Async
  BY DEF UpstreamServesAsync
<1> QED BY <1>2, <1>3 DEF AccountInv

\* A spawned settle comes to an end.
LEMMA AccountTaskEnds ==
  ASSUME TypeInv, AccountInv, NEW s \in Payments, TaskEnds(s)
  PROVE  AccountInv'
<1>1. /\ spawned \in [Payments -> Nat] /\ refused \in [Payments -> Nat]
      /\ logged \in [Payments -> Nat] /\ spawned[s] > 0
      /\ spawned' = [spawned EXCEPT ![s] = @ - 1] /\ UNCHANGED <<req, served>>
  BY DEF TypeInv, TypeOK, TaskEnds, TaskSettles, TaskRefused, TaskFails, Join
<1>2. ASSUME NEW p \in Payments
      PROVE  Balanced(p)'
  <2>1. Answering(p)' = Answering(p)
    BY <1>1 DEF Answering
  <2>2. /\ served[p] \in Nat /\ spawned[p] \in Nat /\ Outcomes(p) \in Nat
        /\ Cardinality(Answering(p)) \in Nat /\ refused[p] \in Nat /\ logged[p] \in Nat
    BY AnsweringFinite, OutcomesType DEF TypeInv, TypeOK
  <2>3. CASE p = s
    <3>1. Outcomes(p)' \in Nat /\ Outcomes(p)' >= Outcomes(p) + 1
      <4>1. CASE TaskSettles(s)
        BY <2>2, <2>3, <4>1 DEF TaskSettles, Transfer, Valid, Outcomes
      <4>2. CASE TaskRefused(s)
        BY <1>1, <2>2, <2>3, <4>2 DEF TaskRefused, Counted, chainVars, Outcomes
      <4>3. CASE TaskFails(s)
        <5>1. /\ refused' = refused /\ logged'[p] = logged[p] + 1
              /\ p \in spent => p \in spent'
          BY <1>1, <2>3, <4>3 DEF TaskFails, Counted, Transfer, chainVars
        <5> QED BY <2>2, <5>1 DEF Outcomes
      <4> QED BY <4>1, <4>2, <4>3 DEF TaskEnds
    <3>2. spawned'[p] = spawned[p] - 1
      BY <1>1, <2>3
    <3> QED BY <1>1, <2>1, <2>2, <3>1, <3>2 DEF AccountInv, Balanced
  <2>4. CASE p # s
    <3>1. Outcomes(p)' = Outcomes(p)
      <4>1. UNCHANGED <<refused[p], logged[p]>> /\ (p \in spent' <=> p \in spent)
        BY <1>1, <2>4 DEF TaskEnds, TaskSettles, TaskRefused, TaskFails, Transfer,
                          Counted, chainVars
      <4> QED BY <4>1 DEF Outcomes
    <3>2. spawned'[p] = spawned[p]
      BY <1>1, <2>4
    <3> QED BY <1>1, <2>1, <3>1, <3>2 DEF AccountInv, Balanced
  <2> QED BY <2>3, <2>4
<1>3. Async
  BY <1>1 DEF AccountInv
<1> QED BY <1>2, <1>3 DEF AccountInv

\* Nobody is about to be answered after a restart, and no task was lost.
LEMMA AccountRestart ==
  ASSUME ~Async \/ "restart" \notin Faults, TypeInv, AccountInv, Restart
  PROVE  AccountInv'
<1>1. /\ ~Async /\ spawned \in [Payments -> Nat]
      /\ UNCHANGED <<served, spent, refused, logged>>
      /\ spawned' = [p \in Payments |-> 0] /\ req' = [r \in Reqs |-> Free]
  BY DEF Restart, chainVars, historyVars, TypeInv, TypeOK
<1>2. ASSUME NEW p \in Payments
      PROVE  Balanced(p)'
  <2>1. Answering(p)' \subseteq Answering(p)
    BY <1>1 DEF Answering, Free, CameBack
  <2>2. /\ Cardinality(Answering(p)') \in Nat
        /\ Cardinality(Answering(p)') <= Cardinality(Answering(p))
    BY <2>1, AnsweringFalls
  <2>3. /\ served[p] \in Nat /\ Outcomes(p) \in Nat /\ Cardinality(Answering(p)) \in Nat
        /\ spawned[p] = 0 /\ spawned'[p] = 0 /\ Outcomes(p)' = Outcomes(p)
    BY <1>1, AnsweringFinite, OutcomesType DEF TypeInv, TypeOK, AccountInv, Outcomes
  <2> QED BY <1>1, <2>2, <2>3 DEF AccountInv, Balanced
<1> QED BY <1>1, <1>2 DEF AccountInv

LEMMA AccountInvNext ==
  ASSUME ~Async \/ "restart" \notin Faults, TypeInv, AccountInv, [Next]_vars
  PROVE  AccountInv'
<1>a. req \in [Reqs -> Request]
  BY DEF TypeInv, TypeOK
<1>1. ASSUME NEW r \in Reqs, NEW p \in Payments, Receive(r, p)
      PROVE  AccountInv'
  <2> DEFINE q == [Free EXCEPT !.pc = IF Cached /\ PayerOf[p] # None THEN "fresh"
                                                                  ELSE "verify",
                               !.pay = p, !.at = now]
  <2>1. Become(r, q) /\ q.pc \in {"fresh", "verify"}
    BY <1>1 DEF Receive, Free
  <2> QED BY <1>1, <2>1, AccountFrame DEF Receive, chainVars, CameBack
<1>2. ASSUME NEW r \in Reqs,
             \/ Lookup(r) \/ VerifyExecuted(r) \/ VerifyValid(r) \/ Record(r)
             \/ UpstreamServesSync(r)
      PROVE  AccountInv'
  <2>1. UNCHANGED <<served, spent, refused, logged, spawned>>
    BY <1>2 DEF Lookup, VerifyExecuted, VerifyValid, Record, UpstreamServesSync,
                chainVars, historyVars
  <2>2. PICK q : /\ Become(r, q)
                 /\ q.pc \in {"verify", "verified", "record", "upstream", "settle"}
    <3>1. CASE Lookup(r)
      BY <3>1, <1>a DEF Lookup, Request
    <3>2. CASE VerifyExecuted(r)
      BY <3>2, <1>a DEF VerifyExecuted, Request
    <3>3. CASE VerifyValid(r)
      <4> DEFINE q == [req[r] EXCEPT !.pc = IF Cached /\ PayerOf[req[r].pay] # None
                                            THEN "record" ELSE "upstream",
                                     !.at = now, !.checked = TRUE]
      <4>1. Become(r, q) /\ q.pc \in {"record", "upstream"}
        BY <3>3, <1>a DEF VerifyValid, Request
      <4> QED BY <4>1
    <3>4. CASE Record(r)
      BY <3>4, <1>a DEF Record, Request
    <3>5. CASE UpstreamServesSync(r)
      BY <3>5, <1>a DEF UpstreamServesSync, Request
    <3> QED BY <1>2, <3>1, <3>2, <3>3, <3>4, <3>5
  <2> QED BY <2>1, <2>2, AccountFrame DEF CameBack
<1>3. ASSUME NEW r \in Reqs, EndRequest(r)
      PROVE  AccountInv'
  BY <1>3, AccountFrame DEF EndRequest, Free, chainVars, historyVars, CameBack
<1>4. ASSUME (\E a \in Accounts : Withdraw(a)) \/ Clock \/ UNCHANGED vars
      PROVE  AccountInv'
  <2>1. UNCHANGED <<req, served, spent, refused, logged, spawned>>
    BY <1>4 DEF Withdraw, Clock, vars, chainVars, historyVars
  <2> QED BY <2>1 DEF AccountInv, Balanced, Answering, Outcomes
<1>5. ASSUME NEW r \in Reqs,
             VerifyFails(r) \/ UpstreamFails(r) \/ SettleErrs(r) \/ DropRequest(r)
      PROVE  EndRequest(r)
  BY <1>5 DEF VerifyFails, UpstreamFails, SettleErrs, DropRequest
<1> QED BY <1>1, <1>2, <1>3, <1>4, <1>5, AccountSettles, AccountAnswered, AccountSpawns,
           AccountTaskEnds, AccountRestart DEF Next, TaskEnds

LEMMA AccountInvariant ==
  ASSUME ~Async \/ "restart" \notin Faults
  PROVE  Spec => [](TypeInv /\ AccountInv)
<1>1. Init => TypeInv /\ AccountInv
  <2> SUFFICES ASSUME Init PROVE AccountInv
    BY TypeInvInit
  <2>1. ASSUME NEW p \in Payments
        PROVE  Balanced(p)
    <3>1. Answering(p) = {}
      BY DEF Init, Free, Answering, CameBack
    <3>2. served[p] = 0 /\ spawned[p] = 0 /\ Cardinality(Answering(p)) = 0
      BY <3>1, FS_EmptySet DEF Init
    <3> QED BY <3>2, TypeInvInit, OutcomesType DEF Balanced
  <2> QED BY <2>1 DEF Init, AccountInv
<1>2. TypeInv /\ AccountInv /\ [Next]_vars => (TypeInv /\ AccountInv)'
  BY TypeInvNext, AccountInvNext
<1> QED BY <1>1, <1>2, PTL DEF Spec

\* What is about to be answered can only make a balance worse.
LEMMA BalancedServed ==
  ASSUME TypeInv, NEW p \in Payments, Balanced(p)
  PROVE  served[p] <= Outcomes(p) + spawned[p]
BY AnsweringFinite, OutcomesType DEF TypeInv, TypeOK, Balanced

(***************************************************************************)
(* No settle is lost but with the process: for any payments, signed or     *)
(* not, any requests and any faults, each completion answered 200 has a    *)
(* settle of its own, done, refused, logged or waiting.  The hypothesis is *)
(* the one loss that is left, a restart that takes the spawned tasks along.*)
(***************************************************************************)
THEOREM ServedAreAccountedFor ==
  ASSUME ~Async \/ "restart" \notin Faults
  PROVE  Spec => []ServedIsAccountedFor
<1>1. TypeInv /\ AccountInv => ServedIsAccountedFor
  BY BalancedServed DEF AccountInv, ServedIsAccountedFor
<1> QED BY <1>1, AccountInvariant, PTL

(***************************************************************************)
(* "none (strict)", README.md, and what is left of it: with awaited        *)
(* settles, whatever fails, is dropped or restarts, the completions        *)
(* answered 200 for an authorization are the one that it paid and those    *)
(* whose settle the facilitator refused.                                   *)
(***************************************************************************)
THEOREM StrictLossIsRefused ==
  ASSUME ~Async
  PROVE  Spec => [](\A p \in Payments :
                      served[p] <= (IF p \in spent THEN 1 ELSE 0) + refused[p])
<1>1. ASSUME TypeInv, AccountInv, NEW p \in Payments
      PROVE  served[p] <= (IF p \in spent THEN 1 ELSE 0) + refused[p]
  <2>1. logged[p] = 0 /\ spawned[p] = 0 /\ refused[p] \in Nat /\ served[p] \in Nat
    BY <1>1 DEF AccountInv, TypeInv, TypeOK
  <2>2. served[p] <= Outcomes(p) + spawned[p]
    BY <1>1, BalancedServed DEF AccountInv
  <2> QED BY <2>1, <2>2 DEF Outcomes
<1>2. TypeInv /\ AccountInv =>
        \A p \in Payments : served[p] <= (IF p \in spent THEN 1 ELSE 0) + refused[p]
  BY <1>1
<1> QED BY <1>2, AccountInvariant, PTL

-----------------------------------------------------------------------------
(* Trust *)

Beyond == {"upstream", "settle", "settled", "rejected"}

\* The right of request q to be where it is, by the verifies in `trust`.
Earned(q, trust) ==
  \/ q.checked
  \/ /\ Cached /\ PayerOf[q.pay] # None
     /\ \E t \in trust[PayerOf[q.pay]] : Elapsed(q.at, t) < TTL

\* What a request holds: a clock that was read, and for whom it was read.
Holds(q, trust, clock) ==
  /\ q.at <= clock
  /\ q.pc \in {"fresh", "record"} => Cached /\ PayerOf[q.pay] \in Payers
  /\ q.pc = "record" => q.checked /\ q.at \in trust[PayerOf[q.pay]]
  /\ q.pc \in Beyond => Earned(q, trust)

\* An entry of the cache is the time of a verify, however late it is written.
CacheInv == \A k \in Payers : inner[k] # None => inner[k] \in trusted[k]

HoldsInv == \A r \in Reqs : Holds(req[r], trusted, now)

TrustInv == TypeInv /\ CacheInv /\ HoldsInv

\* Trust and time only grow: what a request held it still holds.
LEMMA HoldsGrows ==
  ASSUME NEW q \in Request, q.pc # "free" => q.pay \in Payments,
         NEW trust, NEW clock \in Nat, NEW trustNext, NEW clockNext \in Nat,
         Holds(q, trust, clock), clock <= clockNext,
         \A k \in Payers : trust[k] \subseteq trustNext[k]
  PROVE  Holds(q, trustNext, clockNext)
<1>1. q.at \in Nat
  BY ConstantTypes DEF Request, Time
<1>2. q.pc # "free" => PayerOf[q.pay] \in Payers \/ PayerOf[q.pay] = None
  BY ConstantTypes
<1>3. q.pc \in Beyond => Earned(q, trustNext)
  BY <1>2 DEF Beyond, Holds, Earned
<1>4. q.pc = "record" => q.checked /\ q.at \in trustNext[PayerOf[q.pay]]
  BY DEF Holds
<1> QED BY <1>1, <1>3, <1>4 DEF Holds

\* One request takes a step; the others hold what they held.
LEMMA HoldsStep ==
  ASSUME TrustInv, NEW r \in Reqs, NEW q, Become(r, q), Holds(q, trusted', now'),
         now' \in Nat, now <= now',
         \A k \in Payers : trusted[k] \subseteq trusted'[k]
  PROVE  HoldsInv'
<1>0. req \in [Reqs -> Request] /\ now \in Nat
  BY DEF TrustInv, TypeInv, TypeOK, CacheTypeOK, Time
<1>1. ASSUME NEW x \in Reqs, x # r
      PROVE  Holds(req'[x], trusted', now')
  <2>1. req'[x] = req[x] /\ req[x] \in Request
    BY <1>0, <1>1 DEF Become
  <2>2. Holds(req[x], trusted, now) /\ (req[x].pc # "free" => req[x].pay \in Payments)
    BY <1>1 DEF TrustInv, TypeInv, PayOK, HoldsInv
  <2> QED BY <1>0, <2>1, <2>2, HoldsGrows
<1>2. req'[r] = q
  BY <1>0 DEF Become
<1> QED BY <1>1, <1>2 DEF HoldsInv

\* The same when no request takes a step.
LEMMA HoldsFrame ==
  ASSUME TrustInv, UNCHANGED <<req, trusted>>, now' \in Nat, now <= now'
  PROVE  HoldsInv'
<1>0. req \in [Reqs -> Request] /\ now \in Nat
  BY DEF TrustInv, TypeInv, TypeOK, CacheTypeOK, Time
<1>1. ASSUME NEW x \in Reqs
      PROVE  Holds(req[x], trusted, now')
  <2>1. Holds(req[x], trusted, now) /\ (req[x].pc # "free" => req[x].pay \in Payments)
    BY DEF TrustInv, TypeInv, PayOK, HoldsInv
  <2> QED BY <1>0, <2>1, HoldsGrows
<1> QED BY <1>1 DEF HoldsInv

LEMMA TrustInvNext ==
  ASSUME TrustInv, [Next]_vars
  PROVE  TrustInv'
<1>a. TypeInv'
  BY TypeInvNext DEF TrustInv
<1>b. /\ req \in [Reqs -> Request] /\ now \in Time /\ now \in Nat /\ now <= now
      /\ inner \in [Payers -> Time \cup {None}] /\ trusted \in [Payers -> SUBSET Time]
  BY DEF TrustInv, TypeInv, TypeOK, CacheTypeOK, Time
<1>c. \A r \in Reqs : /\ Holds(req[r], trusted, now)
                      /\ req[r].pc # "free" => req[r].pay \in Payments
                      /\ req[r].at \in Nat
  BY <1>b DEF TrustInv, TypeInv, PayOK, HoldsInv, Request, Time
<1>d. \A p \in Payments : PayerOf[p] # None => PayerOf[p] \in Payers
  BY ConstantTypes
<1>e. Holds(Free, trusted, now)
  BY <1>b DEF Holds, Free, Beyond, Time
<1>1. ASSUME NEW r \in Reqs, NEW p \in Payments, Receive(r, p)
      PROVE  TrustInv'
  <2> DEFINE q == [Free EXCEPT !.pc = IF Cached /\ PayerOf[p] # None THEN "fresh"
                                                                  ELSE "verify",
                               !.pay = p, !.at = now]
  <2>1. Holds(q, trusted, now)
    BY <1>b, <1>d DEF Holds, Free, Beyond
  <2>2. HoldsInv'
    BY <1>1, <1>b, <2>1, HoldsStep DEF Receive, cacheVars
  <2> QED BY <1>1, <1>a, <2>2 DEF Receive, cacheVars, TrustInv, CacheInv
<1>2. ASSUME NEW r \in Reqs, Lookup(r)
      PROVE  TrustInv'
  <2> DEFINE q == req[r]
             k == PayerOf[q.pay]
             next == [q EXCEPT !.pc = IF fresh(k, q.at) THEN "upstream" ELSE "verify"]
  <2>1. Cached /\ k \in Payers /\ k # None
    BY <1>2, <1>c, ConstantTypes DEF Lookup, Holds
  <2>2. fresh(k, q.at) => \E t \in trusted[k] : Elapsed(q.at, t) < TTL
    BY <2>1 DEF fresh, Within, TrustInv, CacheInv
  <2>3. /\ next.at = q.at /\ next.pay = q.pay
        /\ next.pc = IF fresh(k, q.at) THEN "upstream" ELSE "verify"
    BY <1>b DEF Request
  <2>4. Holds(next, trusted, now)
    BY <1>c, <2>1, <2>2, <2>3 DEF Holds, Earned, Beyond
  <2>5. HoldsInv'
    BY <1>2, <1>b, <2>4, HoldsStep DEF Lookup, cacheVars, historyVars
  <2> QED BY <1>2, <1>a, <2>5 DEF Lookup, cacheVars, historyVars, TrustInv, CacheInv
<1>3. ASSUME NEW r \in Reqs, VerifyValid(r)
      PROVE  TrustInv'
  <2> DEFINE p == req[r].pay
             k == PayerOf[p]
             q == [req[r] EXCEPT !.pc = IF Cached /\ k # None THEN "record" ELSE "upstream",
                                 !.at = now, !.checked = TRUE]
  <2>1. k = None \/ k \in Payers
    BY <1>3, <1>c, <1>d DEF VerifyValid
  <2>2. \A x \in Payers : trusted[x] \subseteq trusted'[x]
    BY <1>3, <1>b DEF VerifyValid
  <2>3. k # None => now \in trusted'[k]
    BY <1>3, <1>b, <2>1 DEF VerifyValid
  <2>4. /\ q.at = now /\ q.pay = p /\ q.checked
        /\ q.pc = IF Cached /\ k # None THEN "record" ELSE "upstream"
    BY <1>b DEF Request
  <2>5. Holds(q, trusted', now)
    BY <1>b, <2>1, <2>3, <2>4 DEF Holds, Earned, Beyond
  <2>6. HoldsInv'
    BY <1>3, <1>b, <2>2, <2>5, HoldsStep DEF VerifyValid, cacheVars
  <2>7. CacheInv'
    BY <1>3, <2>2 DEF VerifyValid, cacheVars, TrustInv, CacheInv
  <2> QED BY <1>a, <2>6, <2>7 DEF TrustInv
<1>4. ASSUME NEW r \in Reqs, Record(r)
      PROVE  TrustInv'
  <2> DEFINE q == req[r]
             k == PayerOf[q.pay]
             next == [q EXCEPT !.pc = "upstream"]
  <2>1. q.checked /\ k \in Payers /\ q.at \in trusted[k]
    BY <1>4, <1>c DEF Record, Holds
  <2>2. next.at = q.at /\ next.pay = q.pay /\ next.pc = "upstream" /\ next.checked
    BY <1>b, <2>1 DEF Request
  <2>3. Holds(next, trusted, now)
    BY <1>c, <2>2 DEF Holds, Earned, Beyond
  <2>4. HoldsInv'
    BY <1>4, <1>b, <2>3, HoldsStep DEF Record, historyVars
  <2>5. \A x \in Payers : inner'[x] \in {inner[x], None} \/ (x = k /\ inner'[x] = q.at)
    BY <1>4, <1>b DEF Record, Recorded, Retain
  <2>6. CacheInv'
    BY <1>4, <2>1, <2>5 DEF Record, historyVars, TrustInv, CacheInv
  <2> QED BY <1>a, <2>4, <2>6 DEF TrustInv
<1>5. ASSUME NEW r \in Reqs, EndRequest(r)
      PROVE  TrustInv'
  <2>1. HoldsInv'
    BY <1>5, <1>b, <1>e, HoldsStep DEF EndRequest, cacheVars, historyVars
  <2> QED BY <1>5, <1>a, <2>1 DEF EndRequest, cacheVars, historyVars, TrustInv, CacheInv
<1>6. ASSUME NEW r \in Reqs,
             UpstreamServesSync(r) \/ UpstreamServesAsync(r) \/ SettleAnswered(r)
      PROVE  TrustInv'
  <2>1. PICK q : Become(r, q) /\ (q = Free \/ (q = [req[r] EXCEPT !.pc = "settle"] /\
                                               req[r].pc = "upstream"))
    BY <1>6 DEF UpstreamServesSync, UpstreamServesAsync, SettleAnswered
  <2>2. Holds(q, trusted, now)
    <3>1. CASE q = Free
      BY <1>e, <3>1
    <3>2. CASE q = [req[r] EXCEPT !.pc = "settle"] /\ req[r].pc = "upstream"
      <4>1. /\ q.at = req[r].at /\ q.pay = req[r].pay
            /\ q.checked = req[r].checked /\ q.pc = "settle"
        BY <1>b, <3>2 DEF Request
      <4> QED BY <1>c, <3>2, <4>1 DEF Holds, Earned, Beyond
    <3> QED BY <2>1, <3>1, <3>2
  <2>3. UNCHANGED <<inner, now, trusted>>
    BY <1>6 DEF UpstreamServesSync, UpstreamServesAsync, SettleAnswered, cacheVars
  <2>4. HoldsInv'
    BY <1>b, <2>1, <2>2, <2>3, HoldsStep
  <2> QED BY <1>a, <2>3, <2>4 DEF TrustInv, CacheInv
<1>7. ASSUME NEW r \in Reqs, VerifyExecuted(r) \/ SettleExecuted(r) \/ SettleRefused(r)
      PROVE  TrustInv'
  <2>1. PICK pc \in {"verified", "settled", "rejected"} :
          /\ Become(r, [req[r] EXCEPT !.pc = pc])
          /\ pc # "verified" => req[r].pc = "settle"
    BY <1>7 DEF VerifyExecuted, SettleExecuted, SettleRefused
  <2> DEFINE q == [req[r] EXCEPT !.pc = pc]
  <2>2. /\ q.at = req[r].at /\ q.pay = req[r].pay /\ q.checked = req[r].checked
        /\ q.pc = pc
    BY <1>b DEF Request
  <2>3. Holds(q, trusted, now)
    BY <1>c, <2>1, <2>2 DEF Holds, Earned, Beyond
  <2>4. UNCHANGED <<inner, now, trusted>>
    BY <1>7 DEF VerifyExecuted, SettleExecuted, SettleRefused, cacheVars, historyVars
  <2>5. HoldsInv'
    BY <1>b, <2>1, <2>3, <2>4, HoldsStep
  <2> QED BY <1>a, <2>4, <2>5 DEF TrustInv, CacheInv
<1>8. ASSUME Restart
      PROVE  TrustInv'
  <2>1. \A r \in Reqs : req'[r] = Free
    BY <1>8 DEF Restart
  <2>2. HoldsInv'
    BY <1>8, <1>e, <2>1 DEF Restart, historyVars, HoldsInv
  <2>3. CacheInv'
    BY <1>8 DEF Restart, CacheInv
  <2> QED BY <1>a, <2>2, <2>3 DEF TrustInv
<1>9. ASSUME UNCHANGED <<inner, req, trusted>>, now' \in Nat, now <= now'
      PROVE  TrustInv'
  BY <1>9, <1>a, HoldsFrame DEF TrustInv, CacheInv
<1>10. ASSUME Clock
       PROVE  TrustInv'
  BY <1>10, <1>9, <1>b DEF Clock, Tick, historyVars
<1>11. ASSUME \/ \E p \in Payments : TaskEnds(p)
              \/ \E a \in Accounts : Withdraw(a)
              \/ UNCHANGED vars
       PROVE  TrustInv'
  BY <1>11, <1>9, <1>b
     DEF TaskEnds, TaskSettles, TaskRefused, TaskFails, Join, Withdraw, vars, cacheVars,
         historyVars
<1>12. ASSUME NEW r \in Reqs,
              VerifyFails(r) \/ UpstreamFails(r) \/ SettleErrs(r) \/ DropRequest(r)
       PROVE  EndRequest(r)
  BY <1>12 DEF VerifyFails, UpstreamFails, SettleErrs, DropRequest
<1> QED BY <1>1, <1>2, <1>3, <1>4, <1>5, <1>6, <1>7, <1>8, <1>10, <1>11, <1>12
        DEF Next, TaskEnds

LEMMA TrustInvariant == Spec => []TrustInv
<1>1. Init => TrustInv
  <2> SUFFICES ASSUME Init PROVE TrustInv
    OBVIOUS
  <2>1. CacheInv
    BY DEF Init, CacheInit, CacheInv
  <2>2. HoldsInv
    BY DEF Init, CacheInit, HoldsInv, Holds, Free, Beyond
  <2> QED BY TypeInvInit, <2>1, <2>2 DEF TrustInv
<1> QED BY <1>1, TrustInvNext, PTL DEF Spec

(***************************************************************************)
(* "trusts a payer for verify_cache_ttl_secs after a first successful      *)
(* verify": for any number of requests and payers, and however late the    *)
(* facilitator answers, a request is beyond the verification by a positive *)
(* answer of its own or by one for its payer that arrived within the TTL.  *)
(***************************************************************************)
THEOREM CachedTrustIsEarned == Spec => []TrustIsEarned
<1>1. TrustInv => TrustIsEarned
  BY DEF TrustInv, HoldsInv, Holds, Earned, Beyond, TrustIsEarned
<1> QED BY <1>1, TrustInvariant, PTL

(***************************************************************************)
(* Pruning by a clock that was read before the lock ends no trust that the *)
(* current time would not have ended.                                      *)
(***************************************************************************)
THEOREM PruningKeepsTrust == Spec => TrustOutlivesPruning
<1>1. ASSUME TrustInv, NEW r \in Reqs, Record(r),
             NEW k \in Payers \ {PayerOf[req[r].pay]}, fresh(k, now)
      PROVE  fresh(k, now)'
  <2> DEFINE at == req[r].at
  <2>1. at \in Nat /\ now \in Nat /\ at <= now
    BY <1>1 DEF TrustInv, TypeInv, TypeOK, CacheTypeOK, Request, Time, HoldsInv, Holds
  <2>2. inner[k] \in Nat /\ inner \in [Payers -> Time \cup {None}]
    BY <1>1 DEF fresh, Within, TrustInv, TypeInv, TypeOK, CacheTypeOK, Time
  <2>3. Elapsed(at, inner[k]) <= Elapsed(now, inner[k])
    BY <2>1, <2>2, ElapsedMonotone
  <2>4. Elapsed(at, inner[k]) \in Nat /\ Elapsed(now, inner[k]) \in Nat
    BY <2>1, <2>2 DEF Elapsed
  <2>5. Within(at, inner[k])
    BY <1>1, <2>3, <2>4, ConstantTypes DEF fresh, Within
  <2>6. inner'[k] = inner[k] /\ now' = now
    BY <1>1, <2>2, <2>5 DEF Record, Recorded, Retain
  <2> QED BY <1>1, <2>6 DEF fresh
<1>2. TrustInv =>
        [\A r \in Reqs : Record(r) =>
           \A k \in Payers \ {PayerOf[req[r].pay]} :
             fresh(k, now) => fresh(k, now)']_vars
  BY <1>1
<1> QED BY <1>2, TrustInvariant, PTL DEF TrustOutlivesPruning
=============================================================================
