# Verification of the x402 batch-settlement router

TLA+ modules, TLC configurations and TLAPS proofs for the router of this
repository: `src/poc-x402-llm` (the axum service) over `src/crates/x402` (the
protocol core). All line numbers below are of `poc-x402-llm/src/main.rs` unless
another file is named.

## 1. The system

The router sells LLM completions. A client attaches a payment to each request;
the router verifies it, forwards the request to an OpenAI-compatible upstream and
collects the money through a *facilitator*, an HTTP service that talks to the chain.

| component | code | state | operations | what makes it correct |
|---|---|---|---|---|
| channel table | `ChannelState` 30-39, `AppState.channels` 47 | `HashMap<id, ChannelState>` behind a mutex, memory only | policy and charge of a voucher 491-511, insert 571-581, claim filter 327-338, write-back 407-414 | charges pay for what was admitted; nothing is written off that was not claimed |
| batch-settlement handler | `handle_batch_settlement` 446-659 | one future per request | voucher (local check, no await before the charge), deposit (`/verify`, `/settle`, insert), upstream, response | as above, however requests interleave, fail or are dropped |
| claim/settle job | `run_claim_settle` 313-422, periodic task 71-81, `POST /admin/claim-settle` 424-426 | a batch of vouchers over two awaits | read batch, claim, settle, write back | no double claim, nothing lost, everything is paid out in the end |
| exact handler | `chat_completions` 158-299 | one future per request, spawned settles | cache lookup, verify, record, upstream, settle | no settle without delivery; bounded trust; each answer keeps a settle |
| verification cache | `cache.rs` | `HashMap<payer, Instant>` behind a mutex | `fresh`, `record` with pruning above 4096 entries | nobody is trusted beyond the TTL, pruning ends nobody's trust |
| request front end | 108-192, `codec.rs`, `payment.rs` | none | header, decode, version, dispatch on the scheme, `local_matches` | every request gets the documented status |
| voucher verification | `crates/x402/src/batch_settlement.rs` | none | `verify_voucher`, EIP-712 digests, signer recovery | a voucher binds one channel, chain and ceiling |
| payment response | 507-509, 620-659 | the channel state each answer carries | copied under the lock, sent after the upstream | a buyer that goes by it is served |
| configuration | `config.rs` | immutable after the start | `Config::load` with defaults and environment | the default mode is the strict one |
| facilitator and contracts | external; `facilitator.rs` is the client | escrow, claimed and settled totals, token balances | verify, deposit, claim, settle, transfer, withdraw | (environment) |
| upstream adapter, wire types, test agents | `provider.rs`, `payment.rs`, `test-agent/` | none | pure transformations, scripts | — |

Interaction: handlers and claim runs share the channel table and nothing else;
each critical section holds the lock without awaiting, and every `.await` (facilitator,
upstream) happens with the lock released. So everything read before an await may be
old when it is used after it: the deposit's snapshot, the batch of a claim run, the
finding that a verification reports. The facilitator executes first and answers later;
an answer may be lost, or never come: no call has a timeout. A client that disconnects drops its handler's future at an
await. A restart empties all memory; the chain remembers.

What is hard to test here is listed line by line under `hazards` in `PROJECT.json`:
overlapping claim runs, vouchers admitted during a run, a deposit inserted over a newer
entry, a claim without its settle, charge-before-upstream, the sentinel balance,
the top of `u128`, restarts, lost deposit answers, and for `exact` the ignored
`success` flag, spawned settles, the trust window, the cache hit that stands for the only check, and the pruning; answers that are
old when the buyer reads them, withdrawals nobody watches.

## 2. The modules

    ChannelTable              the mutex-protected map: state and critical sections
      Escrow                  external: the contract behind the facilitator
        BatchHandler          one action per handler step between two awaits
        ClaimSettle           the same for run_claim_settle
          BatchSettlement     composition, restart, withdrawals, properties
            MCBatchSettlement          symmetry for TLC
            BatchLiveness              calls that hang, fairness, liveness
            SignedChannels             with Voucher: configs, ids and signatures of the vouchers
              MCSignedChannels         what clients present, for TLC
              SignedChannelsProofs     proofs: each claim is what its channel signed
            PaymentResponse            the state in the answers and a buyer that goes by it
              MCPaymentResponse        symmetry for TLC
              PaymentResponseProofs    proofs: such a buyer is served (with OneDepositProofs)
            BatchSettlementTypes       proofs: operators, types, frames
              BatchSettlementProofs    proofs: safety, refinement
                OneDepositProofs       proofs: what one deposit per channel adds
                  SingleRunProofs      proofs: what runs that do not overlap add
    PaymentChannel            abstract specification that BatchSettlement implements
    RuntimeConfig             config.rs, [runtime]
    TtlCache                  cache.rs
      ExactHandler            with RuntimeConfig: chat_completions for `exact`, properties
        MCExactHandler        payers, payments and configurations for TLC
        ExactHandlerProofs    proofs: types, refinement, accounts, trust
    PayPerDelivery            abstract specification that ExactHandler implements
    Voucher                   verify_voucher with symbolic hashes and signatures
      Router                  chat_completions before the first await, properties
        MCRouter              symmetry for TLC
        RouterProofs          proofs: what passes verify_voucher was signed, and conversely

### Batch settlement

`channels[c]` is the map entry of channel `c` or `None`; its fields `charged`, `balance`,
`totalClaimed`, `lastMax` are those of `ChannelState`. `config` and `last_sig`
are always written together with `last_max` from the same payload, so they are always
present and `lastMax` stands for the signed voucher. A channel id is computed by the server
from the config (`hex32(channel_id)`), so equal ids are equal channels.

| action | code | what it does in one step |
|---|---|---|
| `AdmitVoucher`, `RefuseVoucher` | 485-518 | voucher verification, policy and charge; no await inside |
| `PresentDeposit` | 519-524 | posts `/verify` |
| `DepositVerified` / `DepositRefused` / `DepositErrs` | 521-544 | answers of the facilitator; a transport error may come before or after it executed |
| `DepositExecuted` | 533-561 | the contract is funded; the snapshot is in the settle answer or in the (older) verify answer, and each of its fields may be absent or unreadable (`Parsed`, 437-444) |
| `OpenChannel` | 545-581 | sentinel, then `insert` over whatever is there |
| `UpstreamServes`, `UpstreamFails`, `DropRequest` | 589-659 | 200; 400 or 502; client gone |
| `StartRun` | 327-353 | reads the batch under the lock |
| `ClaimExecuted`, `ClaimFails`, `PostSettle`, `SettleExecuted`, `SettleFails` | 355-405 | the two calls, each split into its effect and its answer |
| `Reconcile`, `DropRun` | 407-426 | write-back of the claimed ceilings; admin client gone |
| `Restart` | 50-64 | table, handlers and runs are gone; the contract is not |
| `Withdraw` | external | a payer takes back what is not claimed; the router is not told |

`owed` and `ceiling` are history variables: the price of what was admitted since the last insert, added up exactly
where the code saturates, and the highest ceiling ever admitted. `MaxOwed` bounds `owed` for TLC: it is 9 in MCTopUps, where `u128::MAX` is 5,
and is never reached elsewhere.

Abstractions. `Amount` and the network are parsed from an immutable configuration, so
the errors they cause refuse every request alike and are left out. Signature checks are
part of `RefuseVoucher` (a bad voucher changes nothing). `max.parse::<u128>()` in the write-back succeeds
for every voucher that `verify_voucher` parsed; for a deposit's voucher the facilitator
checked it. Of the responses only a 502 is remembered, with its voucher, until
the slot is used again. A run that finds nothing to claim changes nothing.
The facilitator accepts a deposit whose voucher pays for one request and is covered by
the escrow including the deposit: the handler itself checks neither. A batch claim is
all-or-nothing. `PostErrs` is every way `post` (`facilitator.rs` 20-42) can fail, before or after the facilitator worked.
Withdrawals are modelled as the one step the router could not stop: down to `Remainders`, never below what is claimed.
Refunds, and the delay before a withdrawal, are not modelled.

`SignedChannels` refines each step with what travels beside the amounts: a client presents any config with any id, ceiling and signature in
circulation; `kept` is `ChannelState.config` and `last_sig`, `carried` the payload of a deposit that waits for the facilitator, `posted` the
`ClaimPayload` of a run. A voucher goes through `verify_voucher` (`Voucher`), a deposit is entered under `hex32(channel_id(config))`
(545-549), whatever id the client gave. The contract takes a batch only if every signature in it is good.

| action | code | what it adds |
|---|---|---|
| `Voucher` | 485-518 | `verify_voucher`, then config and signature are stored |
| `Deposit`, `Verified`, `Open` | 519-524, 521-535, 571-581 | the table key from the config, the facilitator's own check, the stored evidence |
| `Start`, `Advance` | 327-360, 361-422 | one `VoucherClaim` per entry, posted and then dropped |
| `Proceed`, `Forget`, `TakeBack` | the rest | nothing but the end of what a slot or a run carried |

`PaymentResponse` adds the answers: `carried[r]` is the state that the answer of request `r` will carry, copied at admission
(`snap_charged`, `snap_balance`, `snap_claimed`), `told[c]` the one its buyer last got. `Voucher` and `Open` copy it, `Serve` sends it,
`Fail` loses it. The buyer is external: it opens its channel with a voucher for one price, waits for each answer and signs the
price on top of it. Anyone else may use the channel at any time; then it is no longer followed (`Strays`).

`BatchLiveness` lets every call to the facilitator hang for ever except those of one run, which nobody can tell in advance.

### Exact

A slot of `req` goes `verify`, `verified`, `record`, `upstream`, `settle`, then `settled` or `rejected`. In `verified`, `settled` and
`rejected` the facilitator has done its work and its answer is on the way, for as long as it takes: `VerifyExecuted` is the finding, `VerifyValid` its
arrival, where the code reads the clock it records (204-208). `Record` is a step of its own because `TtlCache::record` reads the clock before it takes
the lock: another thread may record or prune in between; `Lookup` is one because `fresh` does the same. `spawned[p]` counts the detached settle
tasks.

A payment is whatever matches the requirements: `local_matches` (133-156) looks at neither the signature nor the window of an authorization.
`Window[p]` is the time in which the contract takes it, empty if the payer it names never signed it. The facilitator finds a payment valid and the
contract transfers it (`Valid`, `Transfer`) only in its window, once, while its payer has funds; on a cache hit nobody looks before the settle. A settle
may be refused (`success = false`: `SettleRefused`, `TaskRefused`) for these and any other reasons, and a verification may be too.
`sent`, `delivered`, `served`, `refused`, `logged` and `trusted` are history variables.

| action | code | what it does in one step |
|---|---|---|
| `Receive`, `Lookup` | 185-202 | the payload is taken, the clock read; `fresh` decides under the lock |
| `VerifyExecuted`, `VerifyValid`, `Record`, `VerifyFails` | 203-222 | the finding, its arrival, the record; 402 or 400 |
| `UpstreamServesSync`, `UpstreamServesAsync`, `UpstreamFails` | 225-268 | the body has arrived, the settle is posted or spawned; 400 or 502 |
| `SettleExecuted`, `SettleRefused`, `SettleAnswered`, `SettleErrs` | 269-298 | the transfer or the refusal; 200 for both; an error before or after |
| `TaskSettles`, `TaskRefused`, `TaskFails` | 264-268 | the spawned settle: paid; refused and dropped; an error, logged |
| `DropRequest`, `Restart`, `Withdraw`, `Clock` | 158, 50-64, external | client gone; memory gone; the payer spends its funds; time |

The mode comes from `RuntimeConfig`: `Table` is what the TOML file and the environment set of `[runtime]`, `runtime` the record the
handlers read, with the defaults where the table is absent (`Async`, `Cached`, TTL). A table that is there but incomplete does not load, and the router does not start.

### Front end

`Router` has an action for every return of `chat_completions` before its first await or lock (158-191), and of the
batch handler before it reaches the table or the facilitator (462-490, 519, 583-585). The requests that go on are answered `exact`, `policy` or
`deposit` and enter `ExactHandler!Receive`, `BatchHandler!AdmitVoucher`/`RefuseVoucher` and `BatchHandler!PresentDeposit`: there the
voucher `<<c, max>>` stands for a payload that passed `verify_voucher`. A request is reduced to what the code
distinguishes: the fields that differ from the requirements, the part that fails to parse. In `Voucher` a hash is the record of what is hashed
and a signature names its key, its digest and, for the properties only, what its maker meant to sign; a signature over another digest recovers
to an address that nobody owns. Anybody may present any signature with any config, id and ceiling. A header that is not Base64 JSON is
answered 400 without a challenge (`AppError::X402`), as the model says, where `README.md` 177 announces a 402.

## 3. Properties and runs

`PROJECT.json` lists for each property a plausible bug that makes TLC find it violated.

| run | instance | properties |
|---|---|---|
| MCInterleaving | 1 channel, 2 requests, the periodic and an admin run, all faults but the upstream's, every kind of snapshot, in whole or in part | `RevenueCovered`, `WrittenOffIsClaimed`, `NextVoucherIsAdmitted`, `CompletedRunIsFinal`, `IsPaymentChannel` |
| MCTopUps | 1 channel, 2 requests, price 2, `u128::MAX` = 5, requests for up to 9, escrow up to 5 in steps of 2 or 3, restarts, a total that does not parse | `TypeOK`, `CapitalBacked`, `RevenueCovered` |
| MCSignedChannels | 2 channels of one key, 2 requests, 1 run, withdrawals, restarts, 2 chains, whatever can be put together from 6 signatures in circulation | `ClaimsAreSigned`, `NoDoubleClaim`, `IsPaymentChannel` |
| MCOneDeposit | 1 channel funded once, withdrawals, 2 requests, the periodic and an admin run, all faults, a buyer that goes by its answers | `WrittenOffIsPaidOut`, `UnclaimedIsClaimable`, `FollowersAreServed` |
| MCLiveness | 1 channel funded once, 1 request, 2 runs of which either may hang, all faults but restarts | `ChargesArePaidOut` |
| MCExactSync | 2 payers and an unreadable one, 4 payments of which one lapses and one is not signed by the payer it names, 2 requests, 3 presentations, TTL 2, pruning above 1 entry, all faults but withdrawals | `TypeOK`, `TrustIsEarned`, `ServedIsAccountedFor`, `TrustOutlivesPruning`, `IsPayPerDelivery` |
| MCExactAsync | 1 payer, the payment that lapses and the one it did not sign, whose settles may hang, 2 requests, 3 presentations, withdrawals, all faults but restarts | `ServedIsAccountedFor`, `EveryServedEnds`, `IsPayPerDelivery` |
| MCRouter | 2 payers with 2 channels each and those of a contract wallet, 2 chains, 2 ceilings, 2 signatures in circulation | `AcceptedWasSigned`, `SignedIsAccepted` |

What they say:

* `RevenueCovered` — `charged` pays for every request admitted since the deposit, and the retained
  voucher is worth `charged`; two concurrent vouchers can never be paid by one charge. The one exception is a charge of `u128::MAX`: the saturated
  sum asks for no more than that, so the same ceiling is admitted again for nothing. The run reaches it and shows that it is the only one.
* `WrittenOffIsClaimed` — `total_claimed` never exceeds what the contract has claimed, although it comes
  from old snapshots and from write-backs that overlap each other and new vouchers. This is why the write-back must use the
  ceilings of the batch and not the present charge.
* `WrittenOffIsPaidOut` — with one deposit, it does not exceed what was paid out either: the
  write-back waits for the settle.
* `IsPaymentChannel` — `BatchSettlement` implements `PaymentChannel`: the payee collects at most what is in
  escrow and at most a ceiling it was handed, nothing is taken back, nothing is paid out that was not collected.
* `NextVoucherIsAdmitted` — no late write-back, second deposit, stale snapshot or restart raises `charged` or `total_claimed`
  above what the payer itself has signed: a payer that signs the price on top of its highest voucher is admitted while the balance lasts.
* `FollowersAreServed` — with one deposit, a buyer that signs on top of its last `PAYMENT-RESPONSE` is admitted exactly as long as the
  balance it was told lasts, however many runs have claimed and written back since the answer was copied.
* `ClaimsAreSigned` — config, ceiling and signature of every claim in a batch belong together and to the channel they are claimed
  of, although they are three fields written by different requests; one bad signature would cost the whole batch.
* `CapitalBacked` — if the facilitator's settle answer carries the balance after the deposit and nobody withdraws, every charge,
  every retained voucher and every batch in flight is within the escrow, so no batch is refused for lack of funds.
* `UnclaimedIsClaimable` — with one deposit per channel, the filter finds every unclaimed voucher. MCTopUp shows what a second deposit does.
* `CompletedRunIsFinal` — a run that writes back has been paid out, and leaves a channel claimable only if a better voucher came in since
  it read its batch, though other runs, deposits and restarts overtake it. That is of the moment it writes back: a run that read an older
  batch and writes back later lowers `total_claimed` again, and the next run repeats a claim that the contract ignores.
* `NoDoubleClaim` — no run posts a claim that is executed or in flight: so it is while runs do not overlap and claims do not fail.
* `ChargesArePaidOut` — every charge is eventually paid out: a run or a request that waits for ever holds neither the lock
  nor anything else that another run needs.
* `IsPayPerDelivery` — `ExactHandler` implements `PayPerDelivery`: a payment is charged at most once, and only for a completion that
  was delivered before, through retries, spawned tasks that fail half-way, drops and restarts.
* `TrustIsEarned`, `TrustOutlivesPruning` — a request skips `/verify` only within the TTL of the arrival of an `is_valid` for a payment that names its
  payer, and a record that prunes the cache ends no other payer's trust. The TTL runs from the arrival: nothing bounds the time the answer takes, so what the
  facilitator found may be older than the TTL when a request relies on it, where `cache.rs` 5-8 calls the risk "bounded by the TTL".
* `AcceptedWasSigned` — a voucher that reaches the policy was signed by its channel's authorizer for that channel, ceiling and chain;
  `SignedIsAccepted` — what was so signed is never refused, whichever convention the wallet uses for the recovery id.
* `ServedIsAccountedFor` — each 200 has a settle of its own, also where one authorization is served again and again: a transfer, a refusal, a line in
  the log, or a spawned task that waits. What goes unpaid and unlogged is a refusal, or is lost with the process.
* `EveryServedEnds` — each 200 given in advance is settled in the end, refused or logged, though tasks of other payments hang for ever.

Bounds. Two requests in flight and two runs are the smallest number of actors
for which a check, an await and a write can be overtaken; a third adds no new pair. A channel's numbers are compared only with
each other and with sums of one price, so three or four ceilings reach every order of charge, claim, balance and escrow;
`EscrowCap` bounds what is deposited in total and allows a top-up of a channel that has claims; a run with one deposit per channel has one amount,
of which the escrow holds one, or what a withdrawal leaves of it. Mixing evidence needs two channels, and a key that signs for both. `MaxU128` is
small so that saturation is reached. For `exact`, three presentations allow
a payment to be retried or a second payer to come in while a slow request holds the clock it has read, and an answer to be overtaken by the clock, TTL and all; `MaxSends` and
`MaxTime` stop the clients and the clock, which is the only reason why deadlock is not checked there.
Requests, channels, admin runs and symmetric payers are permuted; the liveness runs use no symmetry.

Fairness. `BatchLiveness!FairSpec`: of one run, the `prompt` one, the timer fires or an operator triggers it again and again (weak fairness of
`StartRun`), and of infinitely many of its calls some are executed and answered (strong fairness of its other steps). The code retries only by
running again, so without the latter nothing can be promised. Nothing is assumed of any other run, request, client or upstream: `reqwest::Client::new()`
sets no timeout, so a connection that never answers stops the periodic loop, and then only an admin request claims again.
The runs stay up: a restart forgets vouchers, and their charges with them. `ExactHandler!FairSpec`: tokio polls each
spawned task by itself, and the calls of a task are answered in the end. The latter is an assumption on the facilitator, and is not made of the payments in `Stuck`.

### Where the code and its documents disagree

| run | property | what TLC shows |
|---|---|---|
| MCOverlap | `NoDoubleClaim` | the periodic and an admin run both read the batch before either writes it back, and claim it twice; "a re-trigger is a no-op (no double-claim)" (317). The contract ignores the second claim (`WrittenOffIsClaimed` and `IsPaymentChannel` hold), so what is lost is gas. |
| MCUpstreamFails | `FailedKeepsFunds` | the voucher was charged and retained before the upstream failed, and the next run claims it; "the client keeps its funds; the router returns 502" (`README.md` 179-180). |
| MCTopUp | `UnclaimedIsClaimable` | a second deposit resets `charged` below `total_claimed`, and the filter overlooks the channel; "every channel with unclaimed value" (313-315). `docs/DECISIONS.md` reports the symptom "nothing to claim". |
| MCExactUnpaid | `ServedIsPaid` | `Ok(s)` with `success = false` is answered 200, though nothing fails and each payment is genuine and was verified; "settlement fails → surfaced as an error" (`README.md` 181). |

More limits show up when a bound of a passing run is lifted: a second deposit also lets a ceiling pay twice
and writes off what a claim has not yet paid out (`WrittenOffIsPaidOut`); a withdrawal leaves charges in the table that the escrow
does not cover (`CapitalBacked`), and the batch they are in is refused whole; a facilitator that returns no channel state brings in the sentinel balance and breaks
`CapitalBacked` (the code logs "measurement only"); a deposit that is inserted after newer vouchers replaces the retained voucher by its own.

Two limits of the exact half are within its passing runs. A spawned settle that is refused is neither paid nor logged, since `Ok(success = false)` is not an `Err` (264-268), where the
log is the place that says "reconciliation needed". And a cache hit, looked up by the payer that a payload claims, admits an authorization that this payer did not sign or
that has lapsed; it is served, and its settle refused. `cache.rs` 5-8 speaks of underfunded payments only. `ServedIsAccountedFor` counts both as refusals.

## 4. Proofs

`tlapm` checks every leaf, for all values of the constants (any number of channels, requests and runs, any price, any width).

| theorem | statement | assumptions |
|---|---|---|
| `TypeCorrect` | `Spec => []TypeOK` (of `BatchSettlement`) | those of the modules |
| `RevenueIsCovered` | `Spec => []RevenueCovered` | " |
| `RequestsArePaidFor` | `Spec => []` the charge pays for every request, without exception | no voucher is signed for `u128::MAX`, which is not the price either |
| `WriteOffsAreClaimed` | `Spec => []WrittenOffIsClaimed` | " |
| `ImplementsPaymentChannel` | `Spec => IsPaymentChannel` | " |
| `PayersAreAdmitted` | `Spec => []NextVoucherIsAdmitted` | `Amount > 0` |
| `CapitalIsBacked` | `Spec => []CapitalBacked` | `SnapshotReplies = {"settle"}`, a readable balance, no withdrawals, `Amount > 0` |
| `CompletedRunsAreFinal` | `Spec => CompletedRunIsFinal` | those of the modules |
| `WriteOffsArePaidOut` | `Spec => []WrittenOffIsPaidOut` | `OneDeposit`: a deposit exceeds `EscrowCap` together with another one, or with what a withdrawal leaves; `Amount > 0` |
| `VouchersAreFound` | `Spec => []UnclaimedIsClaimable` | `OneDeposit` |
| `NoClaimIsRepeated` | `Spec => NoDoubleClaim` | `OneDeposit`, `RunsAlone`: one run, `claim` and `settle` are not in `Faults`, and it is not an admin request that may be dropped |
| `ToldIsBatchSettlement` | `ToldSpec => Spec` | those of the modules |
| `FollowersAreServedAlways` | `ToldSpec => []FollowersAreServed` | `OneDeposit` |
| `SignedIsBatchSettlement` | `SignedSpec => Spec` | those of the modules |
| `PostedClaimsAreSigned` | `SignedSpec => []ClaimsAreSigned` | hashes are injective, nobody signs with a key it does not own |
| `BatchesAreTaken` | `SignedSpec => []NoBatchIsRefused` | those of `CapitalIsBacked`, and the line above |
| `ExactTypeCorrect` | `Spec => []TypeOK` (of `ExactHandler`) | those of the modules |
| `ExactIsPayPerDelivery` | `Spec => IsPayPerDelivery` | " |
| `ServedAreAccountedFor` | `Spec => []ServedIsAccountedFor` | settles are awaited, or the process does not restart |
| `StrictLossIsRefused` | `Spec => []` a payment is answered 200 at most once more than it was refused, and only as often if it was never transferred | settles are awaited |
| `CachedTrustIsEarned` | `Spec => []TrustIsEarned` | those of the modules |
| `PruningKeepsTrust` | `Spec => TrustOutlivesPruning` | " |
| `VouchersAreSigned` | `Spec => []AcceptedWasSigned` (of `Router`) | hashes are injective, nobody signs with a key it does not own |
| `SignedVouchersAreAccepted` | `Spec => []SignedIsAccepted` | " |

`BatchSettlementTypes` proves the typing of the operators of `ChannelTable`, the inductive invariant `TypeInv` (types, and the
well-formedness of each handler state: a request that waits for the facilitator has a channel), and the frame lemmas
`TableSteps`, `EscrowSteps`, `SlotSteps` and `RunSteps`, which say once which steps can change which variables and how. Every
later step proof cites them and has a case only for those steps.

`BatchSettlementProofs`:

* `RevenueCovered` is inductive with the types: `Admits` bounds the new ceiling from below by the saturated
  sum, so it pays for one request more or is `u128::MAX`; an insert starts at the price with a voucher that pays it (this is where the facilitator's check comes in), and the
  write-back touches neither side. If no voucher is signed for `u128::MAX` no charge gets there (`BelowMax`): hence `RequestsArePaidFor`.
* `WrittenOffIsClaimed` is not: a snapshot on its way to the table and a batch in flight carry the values that will be
  written. The strengthening says that every snapshot of a deposit is at most the contract's claimed total, and every batch of a run
  that has been claimed is covered by it; the total only grows, so both survive any delay.
* The refinement needs that every ceiling in a batch in flight, and every one retained, was handed over (`<= ceiling`),
  and that paid-out never exceeds claimed.
* `CompletedRunIsFinal` needs that the batch of a run whose settle is executed was paid out (`BatchIsPaidOut`): the claim put it within the
  contract's total, the settle pays that total out, and neither falls. The write-back then leaves `total_claimed` at the batch, so `charged` exceeds it only by a newer voucher.
* `NextVoucherIsAdmitted` needs that the contract's total is within what was handed over (`ClaimedIsSigned`); the write-offs are within that
  total and the charges within the retained voucher. The price must be positive for the ceiling to exceed `total_claimed`.
* `CapitalBacked` needs that the balance an entry has, or a deposit in flight will give it, is within the escrow, and not zero,
  so that the sentinel is never used: hence `Amount > 0` (a deposit pays at least the price) and the assumption about the answer.

`OneDepositProofs` starts from one fact, `OpenedOnce`: a channel is funded by one deposit, at most one request is on its way to open
it, and before it is opened nothing is claimed or in a batch. A restart loses the entry for good, since nothing can fund
the channel again (`Awaited`). From it follow, each inductive beside it, `PaidOutInv` (a batch that is settled was paid out)
and `RetainedIsCharged` (charge and retained voucher differ only
until the second voucher, and then every batch holds that first voucher, so the filter cannot overlook it).

`SingleRunProofs` is about equality where `WrittenOffIsClaimed` is about a bound: the table knows exactly what the contract has claimed (`TableKnows`), except
of the channels whose claim is executed and not yet written back (`Behind`), and of those the batch knows it (`BatchIsNew`). So a run that starts finds
only vouchers above the contract's total. Every assumption guards an end of the run between claim and write-back, or an entry that opens with
an old total. The process may restart there: the table then has no entry that could be claimed again.

`PaymentResponseProofs`: what an answer says of charge and balance stays true until the channel is used again, and no batch in flight and
no write-back exceeds that charge (`Current`); at most one answer of a followed channel is under way (`Carries`).

`SignedChannelsProofs`: the config and signature in an entry, in a deposit that passed `/verify` and in a posted claim all `Back` the same channel
and amount (`SignedInv`); the voucher they were taken from was checked once, by `verify_voucher` or by the facilitator, before they were stored together.
With `CapitalIsBacked` it follows that the contract has no reason to refuse a batch, for its signatures or for lack of funds. Since `SignedSpec` implements `Spec`,
it is a payment channel too, and under the assumptions of `NoClaimIsRepeated` it repeats no claim.

`ExactHandlerProofs`: `DeliveryInv` adds that a settle that was posted, by a request or a spawned task, is that of a payment with a delivery (`OwedInv`), so each transfer is a charge
that `PayPerDelivery` allows, and the refinement follows. `TrustInv` says that a cache entry is a reading of the clock, not later than now, at which an `is_valid` for its payer arrived; a
reading that is older than an entry only shortens the time that seems to have passed.

`AccountInv` counts settles. In `Balanced(p)` the answers given for `p`, together with the requests whose settle has come back and whose answer is due
(`Answering`), are at most the transfers, refusals and log lines of `p` and the tasks that wait. An awaited settle adds to both sides when it comes back, a spawned
one when it is spawned; a task that ends moves from one place to another, whatever the facilitator answered, and a request that is dropped takes from the smaller side only. Where settles
are awaited nothing is ever spawned or logged, so a restart has nothing to lose, and what is left of the sum is `StrictLossIsRefused`: a strict router serves without
pay exactly by ignoring `success`, as MCExactUnpaid does.

`RouterProofs`: every signature in circulation is over the digest of what was meant, and an accepted payload passed `verify_voucher` with one
of them (`VoucherInv`); `VerifiedIsSigned` then follows the checks of the code from the recovered address to the digest, and from the digest to the config, ceiling and chain.
`AcceptInv` is the converse: a payload that repeats what was meant passes each check, in either convention of the recovery id.

Model-checked only: the liveness properties, `ChargesArePaidOut` and `EveryServedEnds`, which are beyond the prover. Their safety halves are proved:
what is charged and not paid out is found by the next run (`WriteOffsArePaidOut` with `VouchersAreFound`), a run that completes has paid its batch out
(`CompletedRunsAreFinal`), and each answer keeps its settle (`ServedAreAccountedFor`). Of the properties that TLC refutes, `NoDoubleClaim`
is proved under the assumptions that exclude the counterexample, and `UnclaimedIsClaimable` for channels that are funded once; of `ServedIsPaid`, `StrictLossIsRefused` says by how much it fails;
`FailedKeepsFunds` has no such theorem, since the code charges before it calls the upstream.

## 5. Not modelled

* Keccak, EIP-712 encoding, ECDSA recovery, hex parsing: bit-level, pinned by golden vectors in `crates/x402/tests`.
* `provider.rs` beyond the fact that it may reject a body: it rewrites two fields of a JSON value. Response bodies, the headers other than `PAYMENT-RESPONSE`, logging, timing.
* The payment, upstream and server tables of the configuration: immutable values, the CONSTANTS of the modules.
* Refunds and the delay before a withdrawal: the router takes no part in them. `test-agent/`: measuring clients.

## 6. Plan

1. (done) Channel table, handlers, claim runs, their composition; exact handler and cache; front end and voucher verification.
2. (done) Withdrawals, partial snapshots, calls that hang; the signed vouchers through table and runs; the answers and the buyer that follows them; the
   configuration; the abstract sale and its refinement; theorems for every safety property the runs check.
3. (done) `NoDoubleClaim` for runs that do not overlap; one deposit with withdrawals; completed runs; what was served in the strict mode and in either mode, whatever authorizations are presented.
4. The front end composed with the two halves, so that a request is followed from its header to its claim.
