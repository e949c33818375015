------------------------------- MODULE Payout -------------------------------
(***************************************************************************)
(* A payout from the file to the chain.  An operator submits a file, the   *)
(* intake accepts some of its rows, bulk cuts them into batches, and the   *)
(* batches are paid by the contract of one chain: PayoutRun on Solana,     *)
(* Settlement on an EVM chain, SuiSettlement on Sui.  What the intake sent *)
(* back is repaired and submitted again, as a file of its own.             *)
(***************************************************************************)
EXTENDS Bulk, PayoutRun, Settlement

CONSTANTS
    Files,          \* the files an operator may start with
    Policies,       \* intake.Policy: skip and max
    Ready,          \* the merchants that have a token account at the start
    Fees,           \* what the token may keep of a transfer
    RefundLines,    \* when the payer of an escrow may take it back unasked
    Funds,          \* what the payer has
    MaxBooks,       \* bound: the Books the payer opens on Sui
    MaxNow          \* bound: the last instant

\* A row as the operator meant it, and what is unreadable in it.
FileRow == [id : STRING, merchant : Merchants, amount : Nat,
            fault : {"none", "fields", "intent_id", "merchant", "amount"}]

ASSUME PayoutAssumption ==
    /\ Limits["solana"].align = Block
    /\ Limits["evm"].align = 0 /\ Limits["sui"].align = 0
    /\ Ready \subseteq Merchants /\ IsFiniteSet(Merchants)
    /\ Funds \in Nat /\ MaxNow \in Nat /\ BlockLog2 \in Nat
    /\ Fees \subseteq Nat /\ HoldFee \in Nat
    /\ Files \subseteq Seq(FileRow)

\* Nobody is paid at the address of the contract, which signs nothing.
ASSUME PartiesDiffer ==
    /\ Contract \notin Merchants \cup {Payer, Collector}
    /\ Relayer # Payer

\* An id that a row spells so badly that the intake cannot read it is not the
\* id of another row of the file: the intake could not know.
ASSUME UnreadableIdsAreNew ==
    \A f \in Files : \A n, k \in DOMAIN f :
        f[n].fault \in {"fields", "intent_id"} /\ f[k].fault \notin {"fields", "intent_id"}
            => f[n].id # f[k].id

VARIABLES
    chain,          \* Terms.Chain: where this file is paid
    file,           \* the file to submit next
    books, escrows, \* the objects on Sui
    lists           \* what was accepted, one list for each file

Sui == INSTANCE SuiSettlement

intakeVars == <<chain, file, lists>>
runVars    == <<runs, open, signed, closed>>
evmVars    == <<paid, holds, isRelayer, fee, stack>>
suiVars    == <<books, escrows>>
vars       == <<now, bal, credits, runVars, evmVars, suiVars, intakeVars>>

Init ==
    /\ chain \in {"evm", "solana", "sui"}
    /\ file \in Files
    /\ lists = <<>>
    /\ now = 0
    /\ bal = [h \in Merchants \cup {Payer, Contract, Collector} |-> IF h = Payer THEN Funds ELSE 0]
    /\ credits = <<>>
    /\ runs = <<>> /\ signed = <<>> /\ open = Ready /\ closed = {}
    /\ paid = {} /\ holds = <<>> /\ isRelayer = TRUE /\ stack = <<>>
    /\ books = <<>> /\ escrows = <<>>
    /\ fee \in IF chain = "evm" THEN Fees ELSE {0}

-----------------------------------------------------------------------------

\* What goes back to the operator, put right: the rows that were not taken.
\* A second row for an intent is not a row to repair.
Returned(lines) ==
    LET back == Lines(file, {n \in DOMAIN file \ ToSet(lines) : Reason(file, n) # "duplicate"})
    IN  [k \in 1..Len(back) |-> [file[back[k]] EXCEPT !.fault = "none"]]

Plan(lines) ==
    LET items == [k \in 1..Len(lines) |-> PayoutOf(file[lines[k]], open)]
    IN  [lines   |-> lines,
         items   |-> items,
         batches |-> Batches(items, Limits[chain]),
         prepare |-> PackPrepare(items, Limits[chain]),
         root    |-> IF chain = "solana" THEN Root(items) ELSE <<>>]

Submit(policy) ==
    LET lines == Read(file, policy)
        hashes == IF chain = "solana" THEN ProofHashes(Len(lines)) ELSE 0
    IN  /\ file # <<>> /\ stack = <<>>
        /\ file' = Returned(lines)
        /\ lists' = IF lines # <<>> /\ Packs(Plan(lines).items, Limits[chain], hashes)
                    THEN Append(lists, Plan(lines)) ELSE lists
        /\ UNCHANGED <<chain, now, bal, credits, runVars, evmVars, suiVars>>

\* The payer states the total himself, and may fall short.
OnSolana(list) ==
    \/ \E total \in {Total(list.items), Total(list.items) - 1}, deadline \in Deadlines :
           InitRun(list, total, deadline)
    \/ \E b \in 0..(Blocks(Len(list.items)) - 1) :
           LET m == PayBatchMessage(list, b)
           IN  \E sent \in {m} \cup Misbuilt(m, Blocks(Len(list.items))) : PayBatch(sent)
    \/ \E own \in BOOLEAN : Clawback(list.root, own)
    \/ \E k \in DOMAIN list.prepare : Prepare(list.prepare[k])

OnEvm(list) ==
    \/ \E k \in DOMAIN list.batches : SettleBatch(list.batches[k])
    \/ \E i \in DOMAIN list.items :
           \/ Pay(list.items[i])
           \/ Settle(list.items[i])
           \/ SettleWithPermit(list.items[i])
           \/ \E line \in RefundLines : Hold(list.items[i], line)

OnSui(list) ==
    \E b \in DOMAIN books :
        \/ \E k \in DOMAIN list.batches : Sui!Pay(b, list.batches[k])
        \/ \E i \in DOMAIN list.items :
               \/ Sui!Pay(b, <<list.items[i]>>)
               \/ \E line \in RefundLines : Sui!Hold(b, list.items[i], line)

SuiEscrow ==
    \E h \in DOMAIN escrows : Sui!Release(h) \/ Sui!Refund(h) \/ Sui!RefundExpired(h)

\* What an EVM transaction does once it has begun, and the entry points that
\* need an escrow only.
EvmStep ==
    \/ \E ref \in DOMAIN holds :
           \/ Release(ref)
           \/ \E who \in {Payer, Relayer} : Refund(who, ref)
    \/ \E allowed \in BOOLEAN : SetRelayer(allowed)
    \/ Reserve \/ Measure \/ Transfer \/ Moved \/ Record \/ Drop \/ Leave \/ Revert

Tick ==
    /\ now < MaxNow /\ stack = <<>>
    /\ now' = now + 1
    /\ UNCHANGED <<bal, credits, runVars, evmVars, suiVars, intakeVars>>

Next ==
    \/ \E policy \in Policies : Submit(policy)
    \/ /\ chain = "solana"
       /\ \/ \E l \in DOMAIN lists : OnSolana(lists[l])
          \/ \E m \in Merchants : CloseAccount(m)
       /\ UNCHANGED <<evmVars, suiVars, intakeVars>>
    \/ /\ chain = "evm"
       /\ \/ \E l \in DOMAIN lists : OnEvm(lists[l])
          \/ EvmStep
       /\ UNCHANGED <<runVars, suiVars, intakeVars>>
    \/ /\ chain = "sui"
       /\ \/ \E l \in DOMAIN lists : OnSui(lists[l])
          \/ SuiEscrow \/ Sui!OpenBook
       /\ UNCHANGED <<runVars, evmVars, intakeVars>>
    \/ Tick

Spec == Init /\ [][Next]_vars

-----------------------------------------------------------------------------

\* How often money was sent to a merchant for an intent.
Sent(id) ==
    MapThenSumSet(LAMBDA key : credits[key], {key \in DOMAIN credits : key[1].id = id})

Holds(list, id) == \E i \in DOMAIN list.items : list.items[i].ref.id = id

\* What the payer agreed to: a run for each time he signed the list, a Book
\* for each one he opened; the EVM contract has one table of refs.
Allowed(list) ==
    CASE chain = "evm"    -> 1
      [] chain = "solana" -> Count(signed, list.root)
      [] chain = "sui"    -> Len(books)

\* An intent is paid at most once, or once for each time the payer signed its
\* list (Solana) and for each Book he opened (Sui), over everything an operator does with one file:
\* submitting it, repairing what came back, submitting that; and whatever a
\* relayer retries, in whatever order, also from inside a transfer.  (check()
\* remembering the id of a rejected row, the bitmap of the run, _reserve and
\* Move's reserve.)
IntentPaidOnce ==
    \A id \in {key[1].id : key \in DOMAIN credits} :
        \E l \in DOMAIN lists :
            /\ Holds(lists[l], id)
            /\ Sent(id) <= Allowed(lists[l])

\* The program pays nobody but the merchants of the list, and each what the
\* row of its ref says, however a batch was put together: accounts swapped,
\* amounts changed, another block's items or number.  (pay_batch hashing the
\* accounts it was really given.)
OnlyTheListIsPaid ==
    \A key \in DOMAIN credits :
        /\ key[2] = key[1].merchant
        /\ chain = "solana" => key[3] = key[1].amount

\* The sum of these rows of a list, by the numbers of their bits.
Rows(items, bits) == MapThenSumSet(LAMBDA i : items[i + 1].amount, bits)

\* The vault of a run is the total less the rows whose money left it, what the
\* program counts as paid is the sum of the rows whose bits are set, and money
\* is sent for no row whose bit is clear.  No token is lost: the balances and
\* the vaults, those of closed runs included, add up to what the payer started
\* with, and so they do with the Hold objects on Sui.  (init_run, pay_batch
\* rolling back as a whole, clawback; Move's release splitting the fee off.)
VaultIsTheRest ==
    /\ chain = "solana" =>
        /\ \A l \in DOMAIN lists : lists[l].root \in DOMAIN runs =>
              LET run == runs[lists[l].root]
              IN  /\ run.sent \subseteq run.bits
                  /\ run.vault = run.total - Rows(lists[l].items, run.sent)
                  /\ run.paid = Rows(lists[l].items, run.bits)
        /\ MapThenSumSet(LAMBDA h : bal[h], DOMAIN bal)
             + MapThenSumSet(LAMBDA root : runs[root].vault, DOMAIN runs) = Funds
    /\ chain = "sui" => MapThenSumSet(LAMBDA h : bal[h], DOMAIN bal) + Sui!InEscrow = Funds

\* Lines of a list, by the numbers of their bits.
LinesOf(list, bits) == {list.lines[i] : i \in {i \in DOMAIN list.items : i - 1 \in bits}}

\* The lines no money was sent for are exactly those that Trace names for the
\* blocks a run has not marked as paid, and those of the blocks it marked with
\* no transfer.  (Trace counting through the batches, Pack keeping the order of
\* the list, block k-1 of the tree being batch k, pay_batch paying the whole of
\* a block or, called with another token program, marking it and paying
\* nothing.)
UnpaidLinesAreNamed ==
    \A l \in DOMAIN lists :
        LET list == lists[l]
            run  == runs[list.root]
        IN  list.root \in DOMAIN runs /\ signed[list.root] = 1 =>
                {list.lines[i] : i \in {i \in DOMAIN list.items : Sent(list.items[i].ref.id) = 0}}
                = LinesOf(list, run.bits \ run.sent)
                  \cup UNION {ToSet(Trace(list, k)) :
                                k \in {k \in DOMAIN list.batches : (k - 1) * Block \notin run.bits}}

\* What the contract owes to the payments in escrow.
Promised(records) == SumFunction([ref \in DOMAIN records |-> records[ref].amount])

\* The contract holds at least what its escrow records promise at every
\* moment, inside a transfer too, and exactly that between transactions.
\* (hold() measuring what arrived before it writes the record, release() and
\* refund() deleting the record before the money leaves.)
EscrowIsBacked ==
    /\ bal[Contract] >= Promised(holds)
    /\ stack = <<>> => bal[Contract] = Promised(holds)
=============================================================================
