----------------------------- MODULE PayoutRun ------------------------------
(***************************************************************************)
(* The Solana program contracts/solana/payout-run and the messages built   *)
(* for it (internal/chain/solanamsg.go).  The payer signs once: init_run   *)
(* locks the total in a vault and writes the root of the list.  Anyone may *)
(* then carry an aligned block of it to pay_batch until the deadline, and  *)
(* anyone may send clawback after it.                                      *)
(*                                                                         *)
(* A transaction that fails changes nothing, so only those that succeed    *)
(* are steps.  Nothing is remembered of a message that was sent: a batch   *)
(* may be retried under a new blockhash, land late or land twice, and all  *)
(* of that is pay_batch being possible at any time.                        *)
(***************************************************************************)
EXTENDS Merkle, Token

CONSTANTS
    Merchants,      \* their token accounts
    MaxU64,         \* the largest amount an SPL transfer carries
    Deadlines,      \* the clawback lines a payer may choose
    MaxSigned       \* bound: times the payer signs one list

VARIABLES
    runs,           \* the run accounts that exist, by root
    open,           \* the token accounts that exist
    signed,         \* times init_run succeeded, by root
    closed          \* roots of the runs that were closed and left their vault behind

-----------------------------------------------------------------------------
(* solanamsg.go                                                            *)

\* NewRun takes the list: an amount that does not fit stops the whole run.
NewRunTakes(items) ==
    /\ items # <<>>
    /\ \A i \in DOMAIN items : items[i].amount \in 1..MaxU64

Blocks(n) == (n + Block - 1) \div Block

\* How many items block b of a list of n holds.
BlockSize(n, b) == IF (b + 1) * Block <= n THEN Block ELSE n - b * Block

\* The message for one block: its items and the proof they share.  The vault
\* it names is the run's own and the token program is SPL Token.
PayBatchMessage(list, b) ==
    LET n == Len(list.items)
    IN  [root  |-> list.root,
         own   |-> TRUE,
         block |-> b,
         items |-> SubSeq(list.items, b * Block + 1, b * Block + BlockSize(n, b)),
         proof |-> BlockProof(list.items, b)]

-----------------------------------------------------------------------------
(* lib.rs                                                                  *)

\* The leaves of a block, by position from 0.
LeavesOf(b, size) == (b * Block)..(b * Block + size - 1)

\* The payer locks total for the list.  The address of a run is derived from
\* the payer and the root, and that of the vault from the run's, so a second
\* one cannot be opened while either is there.
InitRun(list, total, deadline) ==
    /\ NewRunTakes(list.items)
    /\ total > 0
    /\ now < deadline
    /\ list.root \notin DOMAIN runs
    /\ bal[Payer] >= total
    /\ Count(signed, list.root) < MaxSigned
    /\ runs' = With(runs, list.root,
                    [total |-> total, leaves |-> Len(list.items), vault |-> total,
                     paid |-> 0, bits |-> {}, sent |-> {}, deadline |-> deadline])
    /\ bal' = [bal EXCEPT ![Payer] = @ - total]
    /\ signed' = With(signed, list.root, Count(signed, list.root) + 1)
    /\ UNCHANGED <<now, credits, open, closed>>

\* The batch is whole, the accounts and amounts it really carries hash to the
\* root, and none of its leaves was paid.
Proven(m) ==
    LET run == runs[m.root]
    IN  /\ m.block * Block < run.leaves
        /\ Len(m.items) = BlockSize(run.leaves, m.block)
        /\ Len(m.proof) = ProofHashes(run.leaves)
        /\ Recompute(m.block, m.items, m.proof) = m.root
        /\ run.bits \cap LeavesOf(m.block, Len(m.items)) = {}

\* What the program keeps of a batch: its bits, and its total as paid.
Booked(run, m) ==
    [run EXCEPT !.bits = @ \cup LeavesOf(m.block, Len(m.items)), !.paid = @ + Total(m.items)]

\* What SPL Token does for it: the money of these rows leaves the vault.  That
\* is no field of the account (sent).
Drawn(run, m, moved) ==
    [Booked(run, m) EXCEPT !.sent  = @ \cup LeavesOf(m.block, Len(m.items)),
                           !.vault = @ - Total(moved)]

\* A slip: a transfer that fails is skipped, its bit stays set.
TransfersThatWork(m) ==
    LET there == SelectSeq(m.items, LAMBDA it : it.account \in open)
    IN  /\ runs[m.root].vault >= Total(there)
        /\ runs' = [runs EXCEPT ![m.root] = Drawn(@, m, there)]
        /\ credits' = Credited(there)
        /\ bal' = Paid(there)

\* The bits are set, then the transfers are made one by one: a missing token
\* account or a vault that is short fails the transaction as a whole.
Transfers(m) ==
    /\ \A i \in DOMAIN m.items : m.items[i].account \in open
    /\ runs[m.root].vault >= Total(m.items)
    /\ runs' = [runs EXCEPT ![m.root] = Drawn(@, m, m.items)]
    /\ credits' = Credited(m.items)
    /\ bal' = Paid(m.items)

\* The program compares neither the vault nor the token program it is handed
\* with anything.  Called on a program that does nothing, every transfer
\* succeeds and no token moves.
CallsThatDoNothing(m) ==
    /\ runs' = [runs EXCEPT ![m.root] = Booked(@, m)]
    /\ UNCHANGED <<credits, bal>>

\* Anyone may send it.
PayBatch(m) ==
    /\ m.root \in DOMAIN runs \ closed
    /\ now < runs[m.root].deadline
    /\ Proven(m)
    /\ IF m.own THEN Transfers(m) ELSE CallsThatDoNothing(m)
    /\ UNCHANGED <<now, open, signed, closed>>

\* What is left goes back to the payer who signed, and the run account and
\* its vault are closed.  Anyone may send it, and again with another vault or
\* token program (~own): the run account is closed all the same, the vault
\* stays, and with it in the way the run cannot be opened again.
Clawback(root, own) ==
    /\ root \in DOMAIN runs \ closed
    /\ now >= runs[root].deadline
    /\ IF own
       THEN /\ bal' = [bal EXCEPT ![Payer] = @ + runs[root].vault]
            /\ runs' = Restrict(runs, DOMAIN runs \ {root})
            /\ UNCHANGED closed
       ELSE /\ closed' = closed \cup {root}
            /\ UNCHANGED <<bal, runs>>
    /\ UNCHANGED <<now, credits, open, signed>>

\* A prepare batch opens the accounts that are missing (CreateIdempotent).
Prepare(batch) ==
    /\ open' = open \cup {batch[i].account : i \in DOMAIN batch}
    /\ UNCHANGED <<now, bal, credits, runs, signed, closed>>

\* A merchant closes its token account.
CloseAccount(m) ==
    /\ open' = open \ {m}
    /\ UNCHANGED <<now, bal, credits, runs, signed, closed>>

\* A batch put together wrongly: other accounts, other amounts, another
\* block's items or another block's number, another vault or token program.
Misbuilt(m, blocks) ==
    {[m EXCEPT !.items[1].account = a] : a \in Merchants}
    \cup {[m EXCEPT !.items[1].amount = @ + 1], [m EXCEPT !.items = SubSeq(@, 2, Len(@))]}
    \cup {[m EXCEPT !.block = b] : b \in 0..(blocks - 1)} \cup {[m EXCEPT !.own = FALSE]}
=============================================================================
