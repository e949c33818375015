# A TLA+ model of the stablecoin settlement engine

The repository moves stablecoin payments: an HTTP API records a *payment
intent*, a pool of *relayer* workers broadcasts it, a *listener* waits until
the chain has it for good, and a *reconciliation* engine compares books and
chain. Payouts take another way: a file is read, cut into batches and paid by a
contract on Solana, an EVM chain or Sui. The promise is "move money exactly
once" although workers stop at any line, jobs are delivered more than once and
a broadcast may end with nobody knowing whether it left. The modules here are
translated from the sources (`src/backend/internal/...`, `src/contracts/...`);
PROJECT.json names the lines of each definition.

## The system

| part (package) | state | operations | what makes it correct | module |
|---|---|---|---|---|
| `intent` | intents by id, with a version and a history | `New`, `Apply`, `Save` (compare-and-swap), `Get`, `Advance` | every saved history is a walk along the transition table; no save overwrites an unseen step; settled names the confirmed transaction | Intent |
| `queue` | jobs, their order, attempt counts, leases | `Enqueue`, `Lease`, `Ack`, `Nack` | a lost lease voids the receipt; the order lists the jobs | Queue |
| `relayer` pool, throttle | goroutines, the phase of the stop, slots, tokens | `Pool.Run`, `Acquire`, `Release` | Run returns; slots and tokens come back | Pool |
| `dlq` | parked notes | `Park`, `Redrive`, `Drop`, `Resolve` | a redriven job is on the queue | Pool |
| `txseq` | per wallet: next number, number out, gap | `Reserve`, `ReserveGap`, `Resolve`, `Sync` | no number handed out twice unless to replace, none dropped | Counter |
| `ledger` | append-only rows with a hash chain | `Append`, `Balances`, `Verify` | a hold resolves once; replays are silent; money is conserved; edits are found | Journal |
| `relayer` worker | broadcasts per intent, locals of each worker | `RunOnce` (`process`, `rescue`, `poison`) | a payment leaves at most once; books before broadcast; "failed" means not sent; a payment is handled or parked | Relayer |
| `txfee`, `txfail` | none | `Decide`, `Judge` | order of the branches | Relayer |
| `listener`, `finality` | none (reads intent and chain) | `Check`, `Judge` | settled and posted only when irreversible and paid | Listener, Finality |
| `recon` | cursor | `Run` | what settles and is posted was paid for good; overlapping engines do no harm | Recon |
| `idempotency`, `api` | records by key | `Claim`, `Complete`, `Sweep`, `Handler` | one answer a key | Idempotency |
| `intake`, `bulk` | none | `Read`, `Pack`, `Trace` | rows are taken once; a batch is traced to its lines | Bulk |
| `merkle`, `chain/solanamsg.go` | none | trees, proofs, messages | a proof is of one leaf at one place | Merkle, PayoutRun |
| Solana `payout-run` | runs with vault and bitmap | `init_run`, `pay_batch`, `clawback` | only the list is paid; bits, paid and the money that left agree | PayoutRun |
| EVM `Settlement.sol` | `paid[ref]`, holds, relayers | pay, settle, batch, hold, release, refund | a ref moves money once, escrow is backed, also when the token calls back | Settlement |
| Sui `settlement.move` | Books, Hold objects | open_book, pay, hold, release, refund | a Book pays a ref once; no coin is lost | SuiSettlement |

They meet in shared objects, each behind a mutex: workers, listener and
reconciliation share the intent store and the journal; API, reconciliation and
dead letters put jobs on the queue; workers share the counter. There is no
transaction over two objects. So the hard behaviours are: any two actors
between two calls of a third; a lease that ends while its worker is alive; a
call that fails, or a panic, between two writes; a send of unknown outcome;
a retry of what was already done; on the contracts' side a transfer that fails,
keeps a fee or calls back, and messages that are sent again.

## Modules

Each call on a shared object is one action; what is computed between two calls
belongs to the action before it. `MC*` modules give the constants small values.

```
Intent   Counter   Queue ---- Pool            Token   Merkle
   \  \     |      /                            |  \ /
    \  +- Relayer +-- Journal                   |  PayoutRun  Settlement  SuiSettlement
     \               /                          |       \        |        /
      +- Listener --+ -- Finality               +------- Payout (with Bulk)
            |
          Recon                          Idempotency
```

* **Intent** - `store` is `MemoryStore.m`; `copy[c]` is the clone a client
  reads, changes with `Apply` and saves. `Advance` / `Conflict` are the two
  outcomes of a save by a client that read earlier, `AdvanceNow` is
  `intent.Advance`. `Rules` is the table; requests without effect (replays,
  refusals) are not steps.
* **Queue** - `slot`, `order` are the fields of `MemoryQueue`. Time is cut down
  to what `Lease` compares: ready, delayed, leased; `Surface` ends a lease or a
  delay at any moment. `held` is the delivery a worker works with; `round`
  counts enqueues of one id (history).
* **Counter** - `next`, `out`, `gap` are the fields of `account`; the semaphore
  token is free when `out` is `None`. `res` is the reservation a caller holds.
  `live` and `undone` (history: numbers that may have been sent, and those of
  them that `Sync` took the counter back over) and `mined` (the chain) are what
  the properties talk about.
* **Journal** - `rows`, `resolved` are the fields of `MemoryJournal`; `byID` is
  the search `RowsOf`. The hash of a row is the value hashed, so the hash is
  collision-free. `Proposals` is the set of entries callers try.
* **Relayer** - composes the four with INSTANCE and adds `casts` (Broadcasts:
  the last row and the number of rows), `parked` (the dead letters) and
  `run[w]`, the place of worker `w` in `RunOnce` and its local variables. A
  `Fault` is an error of a call that had no effect. A sender answers sent (a
  transaction left), not sent (none left) or unknown (maybe); `txs` is the
  history of the transactions that may have left.

How `run[w].pc` follows the code:

| pc | call made next | code |
|---|---|---|
| idle, read | `queue.Lease`, `intents.Get` | `RunOnce`, `process` |
| slot | limiter and `Reserve` | `process`, authorized |
| claim, confirm, review, clear, suspend, fail | `advance` to settling, confirming, needs_review, failed | `process`, `rescue`, `giveUp` (table `CasSteps`) |
| hold, void | `journal.Append` | `process`, `giveUp` |
| send, replace | `Send`/`SendAt`, `Replace`/`Cancel` | `process`, `rescue` |
| record | `Broadcasts.Record` | `Worker.record` |
| unwind | the deferred `Sequencer.Resolve` | `process`, `rescue` |
| rescue, gap, fresh | `Broadcasts.Last` and `Decide`, `ReserveGap`, `Reserve` | `rescue`, `reserveFor` |
| judge, giveup, weigh, park | `Judge`, `Get`, `Last`, `Park` | `RunOnce`, `poison` |
| ack, nack, drop | `Ack`, `Nack`, neither | end of `RunOnce`, a recovered panic |

* **Pool** - extends Queue with the goroutines of `Pool.Run`: `at[w]` is the
  place of goroutine `w` (loop, lease, work, ask for a slot, bucket, sleep for
  a token, send, then done, retry, or park and ack). `stop` is the two-phase
  stop; `sem`, `tokens`, `wake` the throttle, whose bucket may go below zero
  as its tokens are lent; `record`, `op` the dead letters and the people at
  them, whose `Redrive` is three calls. What `process` does to the payment is in
  Relayer; here it needs a send slot or not and ends in one of its outcomes.
  `early` and `slip` are history: a redrive whose `Enqueue` found the job still
  with the worker that parked it, or whose `Resolve` found a later letter.
* **Finality, Listener** - `Judge` as a pure function, and `Check` as its four
  calls: get, lookup, post, then one of three saves. The chain includes,
  reorganises what is not final, and finalizes; an own transaction that shares
  a number with another excludes it (`OneOf`), a stranger's does not.
* **Recon** - `Run` as sweep, window, compare, evidence, cursor, with `eng[e]`
  its place and locals; a crash loses the cursor. The relayer is cut down to
  its effects on what the engine reads. A job is in two stores, the queue and
  the dead letters (`job`); the sweep's look into the second and its `Enqueue`
  are two steps (`asked`). `verdicts` is what Run wrote down.
* **Idempotency** - requests that claim, create and complete while leases and
  records expire on a clock. `sent` is the history of answers that left.
* **Bulk, Merkle, Token, PayoutRun, Settlement, SuiSettlement, Payout** -
  `Submit` reads a file by a policy, packs it and hashes it; what is sent back
  is repaired and submitted again. On Solana only transactions that succeed are
  steps. The EVM contract is a stack of calls (`stack`), each with the steps it
  has to take and the state to go back to: during a transfer the payer may call
  back in, up to `MaxDepth`, which includes taking back a hold whose own
  refund line (`RefundLines`) has passed. A Sui transaction calls nothing and
  takes effect as a whole, so it is one step; `SuiSettlement` is the Move module.
  A message to `payout-run` names the run's vault and SPL Token or does not
  (`own`): the program looks at neither, and with another program in their place
  it marks and counts rows and no token moves. So `bits` and `paid` are what the
  program keeps, `sent` (history) the rows whose money left, and `closed` the
  runs that were closed and left their vault behind.

## Runs

Each property of a passing run has a mutant: a plausible bug of a mapped
definition (the operator is defined next to it and marked) under which the same
run finds the property violated.

| run | instance | shows |
|---|---|---|
| `counter` | 2 wallets, 2 callers, 4 numbers, chain starts at 0 or 1 | `Outstanding`, `NeverReissued`, `NoNumberDropped` |
| `intent` | 1 intent, 2 clients that may act for anybody, 2 hashes, versions up to 9 | `HistoryIsAWalk`, `SettledByTheConfirmedHash`, `NoLostUpdate` |
| `journal` | 2 payments, 2 assets, 3 accounts, 5 rows, 29 proposals, some of them refused | `JournalTypeOK`, `HoldResolvedOnce`, `ReplayIsSilent`, `BalancesAreTheBooks`, `EditsAreFound` |
| `relayer_plain` | 1 payment, 2 workers, no numbers (Solana, Sui), failing calls and panics, 4 deliveries, 2 rounds | `PaidAtMostOnce`, `GivenUpMeansNotSent`, `FailedLeavesNoHold`, `NotForgotten` |
| `relayer_replace` | 1 payment, 2 workers, numbers and replacement (EVM, TON), 3 deliveries, no failing calls | `RelayerTypeOK`, `HoldBeforeBroadcast`, `ConfirmedByAPayment`, and `Handled` under fairness |
| `pool` | 1 job, 2 goroutines, 1 slot, 1 token, 1 person, 2 rounds | `OrderListsTheJobs`, `OneReceiptARound`, `ThrottleIsWhole`, `RedriveIsNotLost`, `JobsLeaveWorkedOff`, and `ShutdownEnds` under fairness |
| `recon` | 1 payment, 1 engine that may crash, 1 more listener, 2 transactions, 2 blocks | `ReconTypeOK`, `PostIsIdempotent`, `SettledIsPaid`, `PostIsPaid`, `ReviewIsForGood` |
| `idempotency` | 4 requests of one key, 2 bodies, a lease of 1 tick, records of 3, clock up to 5 | `OneAnswerAKey`, `AnswerIsForThatRequest`, `SecondIntentOnlyAfterTheLease` |
| `payout` | 5 files of 3 to 5 rows, 3 policies, 3 chains, token fees 0 and 1, 2 refund lines | `IntentPaidOnce`, `OnlyTheListIsPaid`, `VaultIsTheRest`, `UnpaidLinesAreNamed`, `EscrowIsBacked` |
| `relayer_paid_twice` | 2 payments of one wallet, 1 worker | finding 1 |
| `recon_post`, `recon_cursor` | that of `recon` | findings 2 and 3 |

Bounds. Two actors are enough for every race between a read and a write of
one object, since the third party of each such race is the object. Versions up
to 9 allow two reorgs and an ending. Four deliveries with a budget of two let a
lease be lost twice before and during the giving-up; two rounds let a job come
back after its Ack. In `relayer_replace` the budget is two and there are two
workers, so a third delivery is the most that can start before the job is
given up: `MaxDeliveries = 3` never keeps a job from being delivered, which is
what `Handled` needs. One job in `pool` is enough because jobs meet only in
`order`, and what is said of `order` is proved for any jobs. In `recon` two
transactions are what a replacement, a stranger's payment or two transfers of
one ref need, and two blocks let one be final while the other is dropped;
versions up to 7 allow a hand-back and a second confirmation. In `payout` a
block has two leaves (`BlockLog2 = 1`) so files of three and five rows end in a
short block and pad the tree; two signings of a list, one call back inside a
call (`MaxDepth = 2`) and two Books on Sui are the least with which those cases
occur; the two refund lines let one hold be refunded inside the deposit of
another. Symmetry (interchangeable model values) is used only in runs without
liveness. Deadlock is not checked where everything may be finished or a bound
is reached.

Fairness. `FairSpec` of Relayer has weak fairness of each worker's next step
(goroutines run; a call returns, with whatever answer) and of the end of each
lease or delay (time passes). Nothing is assumed of the API, of answers of the
sender, or of when `StuckAfter` is over. `relayer_replace` has no failing
calls: a store that fails for ever prevents everything, and a sender that
panics for ever is never judged by the code (no Nack, so no attempt budget: the
job comes back after every lease), so `Handled` is not claimed with `Panics`.
`PoolSpec` has weak fairness of the steps a goroutine takes by itself, of the
drain timer and of the return of Run, and of every wait only once `hardStop`
has cancelled its context: before that a sender may hang for ever, and
`ShutdownEnds` must not depend on it.

## What the runs found

1. `relayer_paid_twice`: `rescue` takes the gap of the *account*. With two
   payments in flight from one wallet one payment can take the gap the other
   left; the other then finds no gap, is sent again at a second number, and
   both of its transactions may be taken. A missing gap is read as "the last
   one was certainly not sent". With failing calls one payment is enough: its
   send succeeds, the save to confirming fails, the number is resolved as sent,
   and rescue takes a new number. The EVM contract's guard by ref would still
   refuse the second payment; a plain transfer would not.
2. `recon_post`: the post's time is that of the copy `Check` read. After a
   stale post, a hand-back and a second confirmation the post of the present
   copy has other content under the same id, `Append` refuses it, and every
   later `Engine.Run` ends there.
3. `recon_cursor`: a transfer whose push lost a race is "compared again next
   time", says the comment (engine.go:279); the cursor passes it, and no later
   run compares it unless the process restarts.

## Limits of what holds

Conditions under which a property above is stated, each of them a behaviour of
the code that a reader should know.

* **The hold before the broadcast.** `HoldBeforeBroadcast` is checked where no
  call fails. When the append of the hold itself fails (relayer.go:335), the
  intent is already settling; the next delivery goes to `rescue`, which finds
  no row, takes the broadcast for one of unknown outcome, sends the payment
  with `Replace` and never appends the hold. So relayer.go:11 and :334 (the
  hold is on the books before anything is broadcast) do not hold of senders
  that can replace. Setting `Faults = TRUE` in RelayerReplace.cfg shows the
  trace. Senders that cannot replace go to needs_review instead.
* **Failed after a send.** `GivenUpMeansNotSent` is checked for senders that
  cannot replace. `giveUp` looks at the last broadcast only (poison.go:69), so
  with the others an unknown first send and a replacement that was not sent end
  in failed with the hold released, although the first may still be taken.
  RelayerPaidTwice.cfg with one intent, two attempts and
  `GivenUpMeansNotSent` for the property shows the trace.
* **`Counter.Sync`.** It takes the counter to the chain's number while sent
  transactions still wait to be taken, and it keeps a gap that the chain has not
  walked past (counter.go:141, and the test at counter_test.go:86-96), which
  leaves the counter on the gap; `Resolve` of a fill relies on the counter being
  past it (counter.go:105). So the filled number is handed out again.
  `NeverReissued` allows exactly that: a number that a Sync has moved the
  counter back over (`undone`), once. Nothing in the program calls `Sync`
  while it runs.
* **Receipts.** `OneReceiptARound` is about one round of a job. A receipt is the
  id and the attempt (memory.go:116), and the attempts start again after an Ack
  and an Enqueue, so the receipt of an earlier round is good again, for another
  worker's delivery; queue.go:68 says it is good for the present one only.
* **Redrive.** `RedriveIsNotLost` excepts two cases. The worker that parked the
  job has not acknowledged it yet: `Redrive` does not read whether its
  `Enqueue` did anything, the Ack takes the job away, and the record says
  redriven. And the job was parked again between the look and `Resolve`, which
  does not compare `Cycles` (dlq/memory.go:88). It does cover a tool that dies
  before `Resolve` and is started again, and a job that somebody else has put
  back.
* **The throttle.** Two sends may leave in one burst after a cancelled wait for
  a token; slots and tokens still come back. A goroutine may lease one more job
  after ctx has ended, because it looks at ctx before the Lease.
* **Reconciliation.** A second payment of the same ref, confirmed on replay, is
  ignored (machine.go:56, engine.go:251). What the engine writes down is
  promised by no property of a passing run. Besides finding 3: when it offers a
  transfer of the payer as evidence while the relayer confirms another hash,
  `Apply` takes the push for a replay, and the transfer is listed as a match
  though it is on nobody's books. And a job that is parked between the sweep's
  look into the dead letters and its `Enqueue` (engine.go:147-154) is queued
  again though no person decided; both steps are in the model.
* **Idempotency.** `InTime` assumes that a handler ends before its record
  expires (24 hours by default, nothing enforces it). Without it a late handler
  finds no record (the failure handler.go:148 says the memory store does not
  have) or, as `Attempt` starts at 1 again in the next life of the key,
  completes that life's record.
  Nobody calls `Sweep` outside tests; the model has it at any time.
* **The accounts of a run.** lib.rs:5-7 says that at worst the relayer does not
  pay, and that what is not paid goes back to the payer after the deadline; a
  bit once set is never cleared (lib.rs:79). But `pay_batch` (lib.rs:268-269) and `clawback` (lib.rs:403-407, 475-485)
  compare neither the vault nor the token program they are handed with the run's
  (the vault's bump is stored at line 232 and never read). Built with
  another program, a batch of the list is marked as paid and no money moves: its
  lines get nothing until the payer has the rest back and signs again. A
  `clawback` built so closes the run account all the same; the vault keeps the
  money, and only the run's address signs for it. So `VaultIsTheRest` is what
  holds of `payout-run` with any vault and token program: bits and paid agree,
  money leaves for no row twice or without its bit, and none is lost if the
  vaults left behind are counted. That a bit means money, or that a clawback
  returns the rest, does not hold. The program put in place of SPL Token moves
  nothing in the model; another token account that the run could sign for,
  with money of its own, is left out.
* **Payout.** After a clawback the payer may sign the same list again, and then
  every row may be paid again: `IntentPaidOnce` counts signatures. On Sui it
  counts Books: nothing stops a payer from opening several, each with its own
  table of refs. A row whose id could not be read, repaired to an id that the
  first file already had, is a new row of a new file: no file knows of another.
  `NewRun` takes 65536 rows while `leaf_count` is a u16; the limits of `Pack`
  refuse such a list earlier.

## Proofs

`tlapm` checks every theorem for all values of the constants; each states a
property of a run, where TLC checked it first, unless marked (+).

| module | theorems | inductive invariant |
|---|---|---|
| CounterProofs | `ReservationStaysOutstanding`, `NoNumberIsDropped`, `NoNumberIsReissued` | `CounterInv` |
| JournalProofs | `JournalTypeCorrect`, `HoldIsResolvedOnce`, `ReplayStaysSilent`, `VerifyFindsEdits`, `BalancesMeanTheBooks` | `JournalInv` |
| PoolProofs | of Queue `QueueTypeCorrect` (+), `OrderIsTheJobs`, `OneReceiptIsGood`, `LeaseHidesTheJob` (+) | `ListInv`, `DeliveryInv` |
| | of Pool `OnlyDoneJobsLeave`, `PoolHasOneReceipt`, `PoolKeepsTheOrder`, `ThrottleStaysWhole`, `RedriveLosesNothing` | `PoolInv` |
| IntentProofs | `IntentTypeCorrect` (+), `HistoriesAreWalks`, `SettledHashIsConfirmed`, `SavesLoseNothing` | `IntentInv` |
| RelayerProofs | `StoresKeepTheirPromises` (+), `ConfirmedHashPays`, `NoPaymentIsForgotten`, `RelayerTypeCorrect`; `TheBooksComeFirst` for `CanReplace => ~Faults`; for `~CanReplace` `PlainSenderPaysOnce`, `PlainGivenUpIsNotSent`, `PlainFailureFreesTheHold` | `Base`, `KeptInv`, `PlainInv`, `RelayerInv`, `FirstInv` |
| IdempotencyProofs | for `InTime` `OneAnswerLeaves`, `AnswersFitTheRequest`, `SecondIntentCostsALease` | `IdempotencyInv` |
| ReconProofs | `ReconTypeCorrect`, `PostsAreNotRefused`; for `Rule.marker` `ListenerSettlesWhatIsPaid`, `ReviewIsWarranted`, `BooksFollowTheChain` | `ReconInv` |
| PayoutProofs | `EscrowStaysBacked`, `OnlyTheListIsPaidHolds`, `VaultIsTheRestHolds`, `IntentPaidOnceHolds`, `UnpaidLinesAreNamedHolds` | `PayoutInv`, `ListedInv`, `MoneyInv`, `PaidInv`, `WholeOK` |
| | of Merkle `BatchIsOfTheList` (+), `RootNamesTheList` (+), `EveryBlockIsProven` (+) | |

**Counter.** The properties are not inductive by themselves; `CounterInv` adds
`HeldShape` (a fill holds the gap's number, a first send the number just
behind the counter, and there is no gap then) and `GapLive` (a gap is a
number that may have been sent). `HeldShape` is why taking a number back
never passes over another one: the window of one. `NoNumberIsReissued`
adds `LiveBehind`: counter and first sends lie past every live number that no
Sync has moved the counter back over.

**Journal.** `JournalInv` joins `HoldResolvedOnce` with `ResolvedIsNamed` (the
map `resolved` is what the posts and voids on the list name, so looking there is
looking at the list) and `RowsChained` (a sequence of validated entries,
numbered and linked). Hashes are compared as the values hashed (lemma
`HashCovers`), so `VerifyFindsEdits` is about what the hash covers and which
links `Verify` follows, not about the strength of SHA-256.
`BalancesMeanTheBooks` is about folds. That `SumOver` of the community modules
takes the elements of a set in any order is proved first (`Folding`, by the
least element at which two sums would differ), then that a list one row longer
folds to one `Step` more (`OneStepLonger`); the invariant is that the projection
is `AreTheBooks` and that the hold `Step` looks for is the one that is open.

**Queue and Pool.** `Lease` writes to the slot of the id it finds in the order,
so types and order need each other (`ListInv`). `OneReceiptARound` follows from
`DeliveryInv`: the slot has counted every delivery of the present round, so no
two of them have the same number, and no delivery is of a round to come. In the
pool, lemma `PoolStepsTheQueue` shows each step to be a step of Queue or a
stutter, which carries both invariants over. `OnlyDoneJobsLeave`: the only
step that empties a slot is the Ack of a worker at the end of its process or
past its Park, and there the letter is on record (`ParkedBeforeAck`), which
nobody can take away again. `ThrottleInv` says
who holds each slot and who owes each token. `RedriveInv` says in which
round each letter was parked and that what a person has looked at is of the
past. Goroutines are assumed to be finitely many.

**Intent.** `IntentInv`: what is stored and what is copied are walks
(`Sound`), and a copy is of the past and equal to the store at its own version
(`CopyIsPast`) - the reason why comparing versions is enough in `Save`.

**Relayer.** `Base` has the types of the workers' local variables, the
invariants of Intent and Queue (proved in their own modules and carried over by
step simulation), that a worker in the deferred Resolve returns to an end of
RunOnce, and that the hash it will confirm is of a transaction it sent.
`KeptInv`: on the way to an Ack the payment has been moved on or parked, a job
leaves the queue only then, and a payment read as settling and since changed
has left settling for good. `PlainInv`, for senders that cannot replace: one
worker at a time is past the claim of an intent and short of its first record
(`OneSender`, from the compare-and-swap); it sends once (`SentOnce`); a payment
is given up only after a record of not-sent (`GivenUpInv`); and a void is on
the books before the intent fails, with or without a hold (`HoldsInv`). Without
`~CanReplace` the first two are false: that is finding 1, and the limit *Failed
after a send*. `RelayerInv`:
who holds the wallet's number is between `Reserve` and the deferred `Resolve`,
and a fee stays within its ceiling. `FirstInv`, for `TheBooksComeFirst`: after the
call of the journal the hold is on the books, because `Validate` takes it (its
legs balance, lemma `HoldIsValid`) and a row of its id is all that could be in
the way. A worker that rescues has taken no hold; it sends only with the
wallet's number, one worker at a time has that (`OneNumber`), and a worker at
the append has it (`NumberInHand`). So a payment claimed but not on the books
keeps every rescuer waiting. The hypothesis `CanReplace => ~Faults` is the limit
*The hold before the broadcast*: a failing append releases the number and leaves no hold.

**Idempotency.** A handler at work has its record, in flight as long as nobody
took it over (`WorkHoldsARecord`), no two handlers make the same attempt
(`AttemptsDiffer`), and an answer that left is on record until that expires
(`SentIsOnRecord`): so a second answer has nowhere to come from. `LeasesFollow`
says of all attempts at one life of a key that each begins when the lease of
the one before has ended, which is what a second intent costs. The assumption
`InTime` is used in one place, the step of the clock.

**Recon.** `ReconInv` carries `IntentInv` over from IntentProofs (`StoreInv`,
with the fact that a copy's history begins that of the store, `CopiesBegin`).
`ChainInv` and lemma `Later`: a block at or below the mark is there for good,
and what is final stays final. `CheckInv` says what a caller between two calls
of `Check` still knows: its copy is in confirming, and what it is about to post,
settle or send to review was judged on a final transaction. `RunSound` says of
an engine between two steps that what is final, in its window and no longer in
its list has a verdict (lemma `NothingIsSkipped`: every transfer behind the
cursor was compared once, with any number of engines, callers and crashes). `BooksInv` (`ThePost`): every post is the one
computed from a step into confirming that the saved history has, so two callers
that confirm once compute the same post, and `Append` takes it as a replay.
`Decided`: what the listener settled or sent to review it decided for good. The
three theorems under `Rule.marker` are about chains with a finality marker of
their own, which is every chain `finality` has a rule for by default; without
it, a reorg deeper than the confirmations asked for refutes them.

**Payout.** `EscrowIsBacked` is about the money and the records; what makes it
inductive is on the stack (`StackOK`). Call *spare* what the contract has
beyond its promises. Each call in progress, from the state it would go back to
(`saved`), is in one of four conditions: it pays past the contract and the spare
is what it was (`SettlesTo`); it has not yet deleted its record (`BeginsAt`); it
has, and the spare has grown by exactly what its remaining transfers take
(`PaysTo`, `Due`); or it is a deposit, whose spare has grown by what arrived and
was not yet recorded (`DepositsTo`). Every hold has a refund line of its own, so
a hold can be refunded, by the payer called back, inside another's deposit. Calls inside calls only let money and
records go (`Shrinks`), which is what a deposit that is called back in needs:
what it measures as arrived is then at most what is there. So an undone call
finds a state that is backed, and a call that ends passes its condition on to
the caller. Only the outermost call is a deposit, because the relayer makes it
and the payer is called back.

`BatchIsOfTheList` is what the check of `pay_batch` is worth. Its first half,
about `merkle.go`, is that each level of the tree halves the one below
(`NodeIs`), so that a node is known by its level and place. Its second, about
the contract, reads the recomputation backwards from the root: hashes are equal
only if what was hashed is, so each step up the proof was a node of the list's
tree, and the position it claims is the one it has; below the proof, the batch's
own levels are descended the same way to the leaves. It needs the two conditions
`pay_batch` checks first, the length of the proof and the number of items
(`ProofHashes`, `BlockSize`): a shorter proof would end at an inner node.
`EveryBlockIsProven` is the other direction: what `payout.go` makes of any block
of a list passes all the checks, while the run is of that list and the block is
unpaid, so no order of the batches gets stuck on a proof. The leaves of a
block, padded, are a subtree of the list's tree (`OverTheBlock`), and the
siblings that `Proof` reads out of the tree are those `pay_batch` joins, on the
side the position says (`UpItsProof`).

`OnlyTheListIsPaidHolds` adds to `PayoutInv` that a run is open only under the
root of an accepted list and with that list's number of leaves (`RunsSay`), so
what goes up to the root is of a list the payer signed. On the EVM chains and
on Sui the merchant is the one in the record, and every step still to run and
every record that an undone call would bring back name the merchant of their
ref (`StackSays`, `SuiSays`).

`RootNamesTheList`: lists with the same root are one list, item by item. The
runs of the program are kept by root and the lists of the intake are not, so
every statement below that relates the two needs it. Two trees with one root
are descended together. A leaf and an inner node are hashed under different
tags, so they are equally deep; padding is neither, so the two lists end at the
same place.

`VaultIsTheRestHolds`. `MoneyInv` says of a run that its vault is its total less
the rows whose money left, that these are among the rows whose bits are set,
that bits are places in the list and that what it counts as paid is the sum of
those rows (`RunOK`); of a Hold, that the Book that made it knows its ref. A payment of one
block sets its bits and counts the sum of its items, with SPL Token it moves
that sum too, and `BatchIsOfTheList` says
that these are the same rows; the check that no bit of the block is set makes
the two sums disjoint. Balances and vaults are folds over finite sets
(`Folding` of JournalProofs again), of which each step changes two terms by
opposite amounts.

`IntentPaidOnceHolds`. Two halves. The intake (`IdsOK`): an id is in one row of
one list, and no longer in the file that is submitted next, because `Read` takes
a good id once and `Returned` sends no duplicates back. And the chains, each
with its own bound on what was sent for a ref. On Solana (`RunsPayOnce`): as
often as its root was signed, and once less until the row is
among those sent. On Sui
(`BooksPayOnce`): in no more Books than know the ref and have no Hold for it. On
the EVM chains (`CallsPayOnce`), seen from every state that a call in progress
might go back to: a ref was paid, or is in escrow, or one step of one of the
calls above will pay it, and no two of these at once; and only if it is taken. A
call *claims* a ref when it will pay for it without taking it first
(`Claims`): it begins with no claim, gets one at the `reserve` or by deleting the
record, and loses it at the transfer. A call back in the middle of that transfer
finds the ref taken, the record gone and the claim in the call below; that is
all the lock there is, and it suffices.

`UnpaidLinesAreNamedHolds`. `WholeOK`: the bits of a run are whole blocks of the
list, the last one cut short where the list ends, and the batches of a list are
`PackAligned` of its items. Batch `k` is then block `k - 1` (`Pieces`,
`FirstBlocks`: the first `k` batches in a row are the first `k` blocks of
items), so the lines `Trace` finds by counting through the batches are the
lines of the rows whose bits `pay_batch` looks at. That a row was sent its
money exactly when it is among those the run sent comes from `PaidInv`, for a
list that was signed once.

The assumptions are those named in the modules: `None` is none of the values it
is compared with, and bounds are natural numbers,
as is the size of a block as a power of two (`BlockLog2`). The bounds of the instances
inside Relayer (nine versions, nine rows) are part of the theorems there, and its
goroutines are finitely many. `PartiesDiffer` of Payout: no merchant, payer or
fee collector is the settlement contract, which Settlement.sol does not refuse
(such a payment would stay in it for ever), and the relayer is not the payer. A
relayer called back in the middle of its own `hold` could deposit for a second
ref, and with a token that keeps a fee both records could stand on one arrival:
`hold` compares balances, and only the ref is taken before the transfer
(Settlement.sol:271-272). Merchants are finitely many, as balances are summed
up. `UnreadableIdsAreNew`, used once, where `IdsOK` holds of the first file: an id
that a row spells so badly that it cannot be read is not, once repaired, the id
of another row. The intake has no way to know, and would pay both.
`IntentPaidOnceHolds` and `UnpaidLinesAreNamedHolds` stand on it.

Only model-checked: liveness (`Handled`, `ShutdownEnds`), the findings, and what they
refute in part (`HoldBeforeBroadcast` with failing calls holds of no sender that
replaces). Every other property of a passing run is one of the theorems above.

## What is left out

* Time as a number, but for Idempotency and the contracts' deadlines: durations
  only choose between branches that are both allowed. The backoff's length,
  jitter, the rate of the bucket.
* The rounding of the fee: a fee is its number of bumps below the ceiling.
* Wording, logging, reports, observers, statistics; `intent/table.go` and the
  HTTP routes that only read.
* Jobs that name an intent that does not exist; errors of the context.
* The listener's moves of an intent in Relayer: there a payment ends in
  confirming. The reorg that hands it back is in Intent and Recon, and
  `NoPaymentIsForgotten` is about the way to confirming.
* In Recon: rules with `confirmations` above zero or a node that lags behind
  (their "wait" is that of a transaction not final yet); more than one engine
  together with more than one listener; a chain source that answers outside its
  window. The runs have no transfer without a ref or with an unknown one, which
  is only written down; the theorems do.
* In Payout: several tokens and payers, accounts and seeds on Solana, EIP-712
  signatures (a permit is its nonce and deadline), gas and sponsors. The party
  called back is the payer. The numbers of `bulk/limits.go` are small ones.
* Encoders and readers (`boc`, `chain/ton*.go`, `chain/evmcall.go`,
  `paymentref`), the vendored TON contracts, mocks, scripts and `cmd`: bytes
  without control, or tooling.

## Plan

What could follow, in this order: an abstract *Payment* (asked, held, sent
once, ended) that Relayer implements with `~CanReplace`; the chain of Listener
under Relayer, so that hand-backs and replacements meet; the reading of TON
transactions (`chain/tonread.go`) as a source of `Judge`.
