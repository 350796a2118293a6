---------------------------- MODULE ExactHandler ----------------------------
(***************************************************************************)
(* chat_completions for the `exact` scheme: verify, call the upstream,     *)
(* settle.  Runtime configuration chooses whether a payer verified less    *)
(* than TTL ago is verified again (Cached) and whether the settlement is   *)
(* awaited or spawned (Async).  A slot of `req` is one HTTP request in     *)
(* flight and a step runs from one `.await` to the next, or to a lock that *)
(* is taken after the clock was read:                                      *)
(*                                                                         *)
(*   [fresh] --> verify --> [record] --> upstream --> settle --> answer    *)
(*                                            (or a spawned settle)        *)
(*                                                                         *)
(* verified, settled, rejected: the facilitator has done its work and its  *)
(* answer is on the way, for as long as it takes: no call has a timeout.   *)
(*                                                                         *)
(* External: the facilitator and the token contract.  An authorization is  *)
(* good for one transfer, in its window, while its payer has the funds.    *)
(***************************************************************************)
EXTENDS TtlCache, RuntimeConfig

CONSTANTS
  Reqs,       \* request slots: bounds the requests in flight
  Payments,   \* the authorizations presented, all matching the requirements
  PayerOf,    \* the payer each names, None where it is not EIP-3009
  Window,     \* validAfter to validBefore; {} if its payer did not sign it
  Funds,      \* how many payments a payer can make
  MaxSends,   \* bound: how often the clients present a payment
  Stuck,      \* payments whose spawned settles may wait for ever
  Faults      \* the failures a run explores

ASSUME ExactAssumption ==
  /\ IsFiniteSet(Reqs)
  /\ PayerOf \in [Payments -> Payers \cup {None}]
  /\ Window \in [Payments -> SUBSET Time]
  /\ Stuck \subseteq Payments
  /\ TTL = runtime.verify_cache_ttl_secs
  /\ Funds \in Nat /\ MaxSends \in Nat
  /\ Faults \subseteq {"verify", "upstream", "settle", "drop", "restart", "withdraw"}

VARIABLES
  req,        \* the requests in flight
  spawned,    \* how many settle tasks are spawned for a payment
  funds,      \* how many payments a payer can still make
  spent,      \* the payments whose transfer is executed
  sent,       \* history: times a payment was presented
  delivered,  \* history: times the upstream delivered for a payment
  served,     \* history: times a payment was answered 200
  refused,    \* history: times its settle ended with success = false
  logged,     \* history: times it was logged as "async settle failed"
  trusted     \* history: when an is_valid for a payer's payment arrived

cacheVars == <<inner, now>>
chainVars == <<funds, spent>>
historyVars == <<sent, delivered, served, refused, logged, trusted>>
vars == <<cacheVars, req, spawned, chainVars, historyVars>>

\* The accounts that pay; payments without a readable payer share one.
Accounts == {PayerOf[p] : p \in Payments}

(***************************************************************************)
(* pay: the payment.  at: the clock, as read to look up or record a payer. *)
(* checked: an is_valid for this very payment arrived.                     *)
(***************************************************************************)
Request ==
  [pc : {"free", "fresh", "verify", "verified", "record",
         "upstream", "settle", "settled", "rejected"},
   pay : Payments \cup {None}, at : Time, checked : BOOLEAN]

Free == [pc |-> "free", pay |-> None, at |-> 0, checked |-> FALSE]

Init ==
  /\ CacheInit
  /\ req = [r \in Reqs |-> Free]
  /\ spawned = [p \in Payments |-> 0]
  /\ funds = [a \in Accounts |-> Funds]
  /\ spent = {}
  /\ sent = 0
  /\ delivered = [p \in Payments |-> 0]
  /\ served = [p \in Payments |-> 0]
  /\ refused = [p \in Payments |-> 0]
  /\ logged = [p \in Payments |-> 0]
  /\ trusted = [k \in Payers |-> {}]

TypeOK ==
  /\ CacheTypeOK
  /\ req \in [Reqs -> Request]
  /\ funds \in [Accounts -> 0..Funds]
  /\ spent \subseteq Payments
  /\ trusted \in [Payers -> SUBSET Time]
  /\ sent \in 0..MaxSends
  /\ \A count \in {spawned, delivered, served, refused, logged} :
       count \in [Payments -> Nat]

Counted(count, p) == [count EXCEPT ![p] = @ + 1]

\* What the facilitator checks and the contract enforces.
Valid(p) == now \in Window[p] /\ p \notin spent /\ funds[PayerOf[p]] > 0

\* The transfer: it is made, or the contract reverts.
Transfer(p) ==
  /\ Valid(p)
  /\ spent' = spent \cup {p}
  /\ funds' = [funds EXCEPT ![PayerOf[p]] = @ - 1]

Become(r, q) == req' = [req EXCEPT ![r] = q]

-----------------------------------------------------------------------------
(* verify *)

\* A payload that matches the requirements, all that is looked at here: neither
\* its signature nor its window.  The clock is read for `fresh`.
Receive(r, p) ==
  /\ req[r].pc = "free"
  /\ sent < MaxSends
  /\ sent' = sent + 1
  /\ Become(r, [Free EXCEPT !.pc = IF Cached /\ PayerOf[p] # None THEN "fresh"
                                                                  ELSE "verify",
                            !.pay = p, !.at = now])
  /\ UNCHANGED <<cacheVars, spawned, chainVars, delivered, served, refused, logged,
                 trusted>>

\* `fresh` has the lock: a cache hit skips the verify.
Lookup(r) ==
  LET q == req[r] IN
  /\ q.pc = "fresh"
  /\ Become(r, [q EXCEPT !.pc = IF fresh(PayerOf[q.pay], q.at) THEN "upstream" ELSE "verify"])
  /\ UNCHANGED <<cacheVars, spawned, chainVars, historyVars>>

\* The facilitator finds the payment valid.
VerifyExecuted(r) ==
  /\ req[r].pc = "verify"
  /\ Valid(req[r].pay)
  /\ Become(r, [req[r] EXCEPT !.pc = "verified"])
  /\ UNCHANGED <<cacheVars, spawned, chainVars, historyVars>>

\* Its is_valid arrives: in cached mode the clock is read, to record the payer.
VerifyValid(r) ==
  LET k == PayerOf[req[r].pay] IN
  /\ req[r].pc = "verified"
  /\ Become(r, [req[r] EXCEPT !.pc = IF Cached /\ k # None THEN "record" ELSE "upstream",
                              !.at = now, !.checked = TRUE])
  /\ trusted' = IF k = None THEN trusted ELSE [trusted EXCEPT ![k] = @ \cup {now}]
  /\ UNCHANGED <<cacheVars, spawned, chainVars, sent, delivered, served, refused, logged>>

Record(r) ==
  /\ req[r].pc = "record"
  /\ inner' = Recorded(PayerOf[req[r].pay], req[r].at)
  /\ Become(r, [req[r] EXCEPT !.pc = "upstream"])
  /\ UNCHANGED <<now, spawned, chainVars, historyVars>>

\* The request ends with an error, or with no answer at all.
EndRequest(r) ==
  /\ Become(r, Free)
  /\ UNCHANGED <<cacheVars, spawned, chainVars, historyVars>>

\* is_valid = false, for whatever reason (402), or an error of the call before
\* or after the facilitator did its work (400).
VerifyFails(r) ==
  /\ \/ req[r].pc = "verify"
     \/ req[r].pc = "verified" /\ "verify" \in Faults
  /\ EndRequest(r)

-----------------------------------------------------------------------------
(* upstream and settle *)

\* Mutant: the settle is posted before the upstream has answered.
SettlesFirst(r) ==
  /\ ~Async
  /\ req[r].pc = "upstream"
  /\ Become(r, [req[r] EXCEPT !.pc = "settle"])
  /\ UNCHANGED <<cacheVars, spawned, chainVars, historyVars>>

\* The whole body has arrived, the settle is posted and awaited.
UpstreamServesSync(r) ==
  /\ ~Async
  /\ req[r].pc = "upstream"
  /\ delivered' = Counted(delivered, req[r].pay)
  /\ Become(r, [req[r] EXCEPT !.pc = "settle"])
  /\ UNCHANGED <<cacheVars, spawned, chainVars, sent, served, refused, logged, trusted>>

\* Mutants: the settle dies with the request; it is spawned before the upstream
\* has answered; one settle is spawned for all the requests of a payment.
ServesUnsettled(r) ==
  LET p == req[r].pay IN
  /\ Async
  /\ req[r].pc = "upstream"
  /\ delivered' = Counted(delivered, p)
  /\ served' = Counted(served, p)
  /\ Become(r, Free)
  /\ UNCHANGED <<cacheVars, spawned, chainVars, sent, refused, logged, trusted>>
SpawnsFirst(r) ==
  LET p == req[r].pay IN
  /\ Async
  /\ req[r].pc = "upstream"
  /\ spawned' = Counted(spawned, p)
  /\ Become(r, Free)
  /\ UNCHANGED <<cacheVars, chainVars, historyVars>>
SpawnsOnce(r) ==
  LET p == req[r].pay IN
  /\ Async
  /\ req[r].pc = "upstream"
  /\ delivered' = Counted(delivered, p)
  /\ spawned' = IF spawned[p] > 0 THEN spawned ELSE Counted(spawned, p)
  /\ served' = Counted(served, p)
  /\ Become(r, Free)
  /\ UNCHANGED <<cacheVars, chainVars, sent, refused, logged, trusted>>

\* The whole body has arrived, the settle is spawned and 200 answered.
UpstreamServesAsync(r) ==
  LET p == req[r].pay IN
  /\ Async
  /\ req[r].pc = "upstream"
  /\ delivered' = Counted(delivered, p)
  /\ spawned' = Counted(spawned, p)
  /\ served' = Counted(served, p)
  /\ Become(r, Free)
  /\ UNCHANGED <<cacheVars, chainVars, sent, refused, logged, trusted>>

\* 400 for a body the adapter rejects, 502 for an upstream that fails.
UpstreamFails(r) ==
  /\ "upstream" \in Faults
  /\ req[r].pc = "upstream"
  /\ EndRequest(r)

SettleExecuted(r) ==
  /\ req[r].pc = "settle"
  /\ Transfer(req[r].pay)
  /\ Become(r, [req[r] EXCEPT !.pc = "settled"])
  /\ UNCHANGED <<cacheVars, spawned, historyVars>>

\* success = false, for whatever reason the facilitator has.
SettleRefused(r) ==
  /\ req[r].pc = "settle"
  /\ refused' = Counted(refused, req[r].pay)
  /\ Become(r, [req[r] EXCEPT !.pc = "rejected"])
  /\ UNCHANGED <<cacheVars, spawned, chainVars, sent, delivered, served, logged, trusted>>

\* Ok(s): answered 200 whatever s.success says.
SettleAnswered(r) ==
  /\ req[r].pc \in {"settled", "rejected"}
  /\ served' = Counted(served, req[r].pay)
  /\ Become(r, Free)
  /\ UNCHANGED <<cacheVars, spawned, chainVars, sent, delivered, refused, logged, trusted>>

\* Mutant: the error is swallowed.
SettleErrsServed(r) ==
  /\ "settle" \in Faults
  /\ req[r].pc \in {"settle", "settled", "rejected"}
  /\ served' = Counted(served, req[r].pay)
  /\ Become(r, Free)
  /\ UNCHANGED <<cacheVars, spawned, chainVars, sent, delivered, refused, logged, trusted>>

\* An error of the call, before or after the facilitator did its work.
SettleErrs(r) ==
  /\ "settle" \in Faults
  /\ req[r].pc \in {"settle", "settled", "rejected"}
  /\ EndRequest(r)

DropRequest(r) ==
  /\ "drop" \in Faults
  /\ req[r].pc \in {"verify", "verified", "upstream", "settle", "settled", "rejected"}
  /\ EndRequest(r)

-----------------------------------------------------------------------------
(* the spawned settles, the process and the world *)

Join(p) ==
  /\ spawned[p] > 0
  /\ spawned' = [spawned EXCEPT ![p] = @ - 1]
  /\ UNCHANGED <<cacheVars, req, sent, delivered, served, trusted>>

TaskSettles(p) == Join(p) /\ Transfer(p) /\ UNCHANGED <<refused, logged>>

\* success = false, for whatever reason: it is an Ok(..), nobody looks.
TaskRefused(p) ==
  /\ Join(p)
  /\ refused' = Counted(refused, p)
  /\ UNCHANGED <<chainVars, logged>>

\* "async settle failed (reconciliation needed)", before or after the
\* facilitator did its work: nothing retries it.
TaskFails(p) ==
  /\ "settle" \in Faults
  /\ Join(p)
  /\ Transfer(p) \/ UNCHANGED chainVars
  /\ logged' = Counted(logged, p)
  /\ UNCHANGED refused

TaskEnds(p) == TaskSettles(p) \/ TaskRefused(p) \/ TaskFails(p)

\* The cache, the requests and the spawned tasks live in memory only.
Restart ==
  /\ "restart" \in Faults
  /\ inner' = [k \in Payers |-> None]
  /\ req' = [r \in Reqs |-> Free]
  /\ spawned' = [p \in Payments |-> 0]
  /\ UNCHANGED <<now, chainVars, historyVars>>

\* A payer spends its funds elsewhere.
Withdraw(a) ==
  /\ "withdraw" \in Faults
  /\ funds[a] > 0
  /\ funds' = [funds EXCEPT ![a] = @ - 1]
  /\ UNCHANGED <<cacheVars, req, spawned, spent, historyVars>>

Clock == Tick /\ UNCHANGED <<inner, req, spawned, chainVars, historyVars>>

Next ==
  \/ \E r \in Reqs :
       \/ \E p \in Payments : Receive(r, p)
       \/ Lookup(r) \/ VerifyExecuted(r) \/ VerifyValid(r) \/ Record(r)
       \/ VerifyFails(r)
       \/ UpstreamServesSync(r) \/ UpstreamServesAsync(r) \/ UpstreamFails(r)
       \/ SettleExecuted(r) \/ SettleRefused(r) \/ SettleAnswered(r) \/ SettleErrs(r)
       \/ DropRequest(r)
  \/ \E p \in Payments : TaskSettles(p) \/ TaskRefused(p) \/ TaskFails(p)
  \/ \E a \in Accounts : Withdraw(a)
  \/ Restart
  \/ Clock

Spec == Init /\ [][Next]_vars

\* The calls of the tasks are answered in the end, those of Stuck excepted, and
\* tokio polls every task whose answer has arrived: each is spawned by itself.
FairSpec == Spec /\ \A p \in Payments \ Stuck : WF_vars(TaskEnds(p))

-----------------------------------------------------------------------------
(* Properties *)

(***************************************************************************)
(* "Payment verified but resource not delivered: never settle" (main.rs,   *)
(* chat_completions).  Towards the payers the router sells completions:    *)
(* whatever is retried, dropped, spawned or restarted, a payment is        *)
(* charged at most once, for a completion that was delivered before.       *)
(***************************************************************************)
Sale == INSTANCE PayPerDelivery WITH charged <- spent

IsPayPerDelivery == Sale!Spec

(***************************************************************************)
(* "trusts a payer for verify_cache_ttl_secs after a first successful      *)
(* verify" (config.rs): a request reaches the upstream only if an is_valid *)
(* arrived for its own payment, or for one that names its payer less than  *)
(* TTL before the request looked it up, though the cache is written with   *)
(* clocks that were read before the lock, and later.  The TTL runs from    *)
(* the arrival; when the facilitator found it so, nobody knows.            *)
(***************************************************************************)
TrustIsEarned ==
  \A r \in Reqs :
    LET q == req[r] IN
    q.pc \in {"upstream", "settle", "settled", "rejected"} =>
      \/ q.checked
      \/ /\ Cached /\ PayerOf[q.pay] # None
         /\ \E t \in trusted[PayerOf[q.pay]] : Elapsed(q.at, t) < TTL

(***************************************************************************)
(* Recording one payer in a full cache prunes it (cache.rs, `record`), by  *)
(* a clock that was read before the lock; it ends the trust in no other.   *)
(***************************************************************************)
TrustOutlivesPruning ==
  [][\A r \in Reqs : Record(r) =>
       \A k \in Payers \ {PayerOf[req[r].pay]} : fresh(k, now) => fresh(k, now)']_vars

(***************************************************************************)
(* The strict mode adds no risk ("none (strict)", README.md): with sync    *)
(* settlement and facilitator verification, what was answered 200 was      *)
(* paid.                                                                   *)
(***************************************************************************)
ServedIsPaid == \A p \in Payments : served[p] > 0 => p \in spent

\* How many settles of a payment came to an end that somebody could know of.
Outcomes(p) == (IF p \in spent THEN 1 ELSE 0) + refused[p] + logged[p]

(***************************************************************************)
(* Each completion answered 200 has a settle of its own, also where one    *)
(* authorization is presented again and served again: the transfer, a      *)
(* refusal, a line in the log, or a task that waits.  A refusal the router *)
(* neither sees nor logs; nothing else is lost but with the process.       *)
(***************************************************************************)
ServedIsAccountedFor ==
  \A p \in Payments : served[p] <= Outcomes(p) + spawned[p]

(***************************************************************************)
(* Async settlement: each completion answered 200 in advance is settled in *)
(* the end, refused, or logged as "async settle failed (reconciliation     *)
(* needed)", unless the process dies; a settle that is never answered      *)
(* keeps no other waiting.                                                 *)
(***************************************************************************)
EveryServedEnds ==
  \A p \in Payments \ Stuck, n \in 1..MaxSends :
    served[p] >= n ~> Outcomes(p) >= n
=============================================================================
