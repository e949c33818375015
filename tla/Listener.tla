------------------------------ MODULE Listener ------------------------------
(***************************************************************************)
(* The listener of confirming intents (Listener.Check) over a chain that   *)
(* takes transactions into blocks, drops blocks that are not final yet and *)
(* declares blocks final.                                                  *)
(*                                                                         *)
(* A caller is a goroutine inside Check; its four calls on shared objects  *)
(* (Get, Lookup, Append, Save) are four steps, and check[c].pc names the   *)
(* one it makes next.  Whoever calls Check sees check[c].pc = "done" and   *)
(* check[c].outcome.  Time is a choice: a confirming intent may or may not *)
(* be older than LostAfter.                                                *)
(***************************************************************************)
EXTENDS Integers, Sequences, FiniteSets, Finality

CONSTANTS Intents,     \* payments; the ref of a payment is named like it
          Callers,     \* goroutines that call Check
          None,
          NumTxs,      \* transactions are 1 .. NumTxs
          OneOf,       \* do the own transactions of a payment share a number?
          Rule,        \* finality.Policy of the chain
          MaxHeight,   \* bound: blocks
          MaxVersion   \* bound: versions of an intent

Txs == 1 .. NumTxs

\* What a transaction does when it executes: moves the asked amount, moves
\* another amount, moves nothing, moves money of another token, payer or
\* merchant than the intent's.
Effects == {"right", "short", "phantom", "other"}

ASSUME ListenerAssumption ==
  /\ NumTxs \in Nat /\ MaxHeight \in Nat /\ MaxVersion \in Nat
  /\ Rule \in Policy /\ OneOf \in BOOLEAN

VARIABLES
  store, copy,       \* Intent
  books, resolved,   \* Journal
  tip, mark,         \* the chain: number of blocks, how many of them final
  block,             \* block[x]: the height x is at, 0 when in no block
  reverted,          \* transactions whose execution failed in their block
  what,              \* what[x]: ref, effect and signer of x; None: no such yet
  check              \* check[c]: c's place in Check and its local variables

intentVars == <<store, copy>>
bookVars == <<books, resolved>>
chainVars == <<tip, mark, block, reverted, what>>
-----------------------------------------------------------------------------
I == INSTANCE Intent WITH Clients <- Callers, Hashes <- Txs

Asked == 2
Amount(x) == IF what[x].effect = "short" THEN Asked - 1 ELSE Asked

Legs(n) == [a \in {"payer", "merchant"} |-> IF a = "payer" THEN -n ELSE n]

\* Note stands for At, the time of an intent's last move, which its version
\* tells, and for TxHash; a hold has no hash.
Note(version, x) == version * (NumTxs + 1) + x
TxOfNote(n) == n % (NumTxs + 1)

HoldEntry(i, it) ==
  [id |-> <<i, "hold">>, ref |-> i, kind |-> "hold", holds |-> None,
   asset |-> "asset", legs |-> Legs(Asked), note |-> Note(it.version, 0)]

\* Mutant of PostEntry: At is the listener's clock, here the tip.
PostAtTheClock(i, it) ==
  [id |-> <<i, "post">>, ref |-> i, kind |-> "post", holds |-> <<i, "hold">>,
   asset |-> "asset", legs |-> Legs(Amount(it.tx)), note |-> Note(tip, it.tx)]

PostEntry(i, it) ==
  [id |-> <<i, "post">>, ref |-> i, kind |-> "post", holds |-> <<i, "hold">>,
   asset |-> "asset", legs |-> Legs(Amount(it.tx)),
   note |-> Note(it.version, it.tx)]

J == INSTANCE Journal WITH rows <- books, Refs <- Intents,
       Assets <- {"asset"}, Accounts <- {"payer", "merchant"},
       Ids <- Intents \X {"hold", "post"}, MaxEntries <- 9,
       Proposals <- {}

ASSUME NoneIsNothing ==
  /\ None \notin Nat /\ None \notin I!IntentRecord /\ None \notin I!Copy
  /\ None \notin Intents \X {"hold", "post"}
-----------------------------------------------------------------------------
(***************************************************************************)
(* The chain, one transaction a block.                                     *)
(***************************************************************************)
Idle == [pc |-> "idle", intent |-> None, outcome |-> "no-op"]

InitListener ==
  /\ J!Init
  /\ copy = [c \in Callers |-> None]
  /\ tip = 0 /\ mark = 0
  /\ block = [x \in Txs |-> 0]
  /\ reverted = {}
  /\ what = [x \in Txs |-> None]
  /\ check = [c \in Callers |-> Idle]

\* The relayer (own) or somebody else broadcasts a transaction, with a ref or
\* None; they are numbered as they come.
Broadcast(x, ref, effect, own) ==
  /\ \A y \in Txs : what[y] # None <=> y < x
  /\ what' = [what EXCEPT ![x] = [ref |-> ref, effect |-> effect, own |-> own]]
  /\ UNCHANGED <<tip, mark, block, reverted>>

\* Two own transactions of a payment that share a number exclude each other.
Excluded(x) ==
  OneOf /\ what[x].own
        /\ \E y \in Txs : /\ block[y] # 0 /\ what[y].own
                          /\ what[y].ref = what[x].ref

\* A block takes x; the state it executes on decides whether it reverts.
Include(x) ==
  /\ what[x] # None
  /\ block[x] = 0
  /\ ~Excluded(x)
  /\ tip < MaxHeight
  /\ tip' = tip + 1
  /\ block' = [block EXCEPT ![x] = tip + 1]
  /\ reverted' \in {reverted, reverted \union {x}}
  /\ UNCHANGED <<mark, what>>

\* The last block is dropped; its transaction is in no block.
Reorg ==
  /\ tip > mark
  /\ tip' = tip - 1
  /\ block' = [x \in Txs |-> IF block[x] = tip THEN 0 ELSE block[x]]
  /\ reverted' = {x \in reverted : block[x] # tip}
  /\ UNCHANGED <<mark, what>>

Finalize ==
  /\ mark < tip
  /\ mark' = mark + 1
  /\ UNCHANGED <<tip, block, reverted, what>>

Final(x) == block[x] \in 1 .. mark

\* In its block x moved money, in the right amount or not.
Moved(x) ==
  /\ block[x] # 0 /\ x \notin reverted
  /\ what[x].effect # "phantom"
Paid(x) == Final(x) /\ x \notin reverted /\ what[x].effect = "right"
-----------------------------------------------------------------------------
(***************************************************************************)
(* Check, one caller.                                                      *)
(***************************************************************************)
At(c, pcs) == check[c].pc \in pcs
Return(c, outcome) ==
  check' = [check EXCEPT ![c] = [Idle EXCEPT !.pc = "done", !.outcome = outcome]]
Goto(c, pc) == check' = [check EXCEPT ![c].pc = pc]

\* The caller enters Check for intent i.
Enter(c, i) == check' = [check EXCEPT ![c] = [Idle EXCEPT !.pc = "get",
                                                          !.intent = i]]

\* Get; a no-op unless the intent is in confirming.
Get(c) ==
  /\ At(c, {"get"})
  /\ IF store[check[c].intent].state = "confirming"
     THEN I!Read(c, check[c].intent) /\ Goto(c, "lookup")
     ELSE UNCHANGED intentVars /\ Return(c, "no-op")
  /\ UNCHANGED <<bookVars, chainVars>>

\* What Lookup says of the transaction on record.
Sighting(x) ==
  [included |-> block[x] # 0, height |-> block[x], head |-> tip,
   final |-> Final(x), succeeded |-> x \notin reverted]

\* Mutant of AfterLookup: a final transaction is taken for a payment.
FinalIsEnough(x, verdict) ==
  CASE verdict = "lost"   -> "settling"
    [] verdict = "failed" -> "needs_review"
    [] verdict = "final"  -> "post"

\* What follows a verdict that is not "pending": hand back, review, or books
\* first.  Final says the outcome will not change, not that the money moved.
AfterLookup(x, verdict) ==
  CASE verdict = "lost" -> "settling"
    [] verdict = "failed" -> "needs_review"
    [] verdict = "final" ->
         IF what[x].effect = "right" THEN "post" ELSE "needs_review"

\* Lookup and Judge.
Look(c) ==
  /\ At(c, {"lookup"})
  /\ LET x == copy[c].it.tx
     IN  \E old \in BOOLEAN :
           LET verdict == Judge(Rule, Sighting(x), old)
           IN  IF verdict = "pending" THEN Return(c, "wait")
               ELSE Goto(c, AfterLookup(x, verdict))
  /\ UNCHANGED <<intentVars, bookVars, chainVars>>

\* Mutant of Post: the state goes first, the books after it.
PostLater(c) ==
  /\ At(c, {"post"})
  /\ Goto(c, "settled")
  /\ UNCHANGED <<intentVars, bookVars, chainVars>>

\* The post goes on the books before the state moves; one that is already
\* there is fine, a refused one is an error.
Post(c) ==
  LET e == PostEntry(check[c].intent, copy[c].it)
  IN  /\ At(c, {"post"})
      /\ \/ J!Fresh(e) /\ J!Append1(e) /\ Goto(c, "settled")
         \/ J!Replay(e) /\ UNCHANGED bookVars /\ Goto(c, "settled")
         \/ ~J!Fresh(e) /\ ~J!Replay(e) /\ UNCHANGED bookVars
            /\ Return(c, "error")
      /\ UNCHANGED <<intentVars, chainVars>>

\* The three exits of confirming; pc is the state asked for.
Exits == {"settling", "needs_review", "settled"}
Asks(c) ==
  LET to == check[c].pc
  IN  [to |-> to, by |-> "listener", late |-> FALSE,
       tx |-> IF to = "settled" THEN copy[c].it.tx ELSE None,
       reason |-> to # "settled"]

\* push: Apply and Save with the version Get read.
Push(c) ==
  /\ At(c, Exits)
  /\ \/ I!Advance(c, Asks(c)) /\ Return(c, check[c].pc)
     \/ I!Conflict(c, Asks(c)) /\ Return(c, "conflict")
  /\ UNCHANGED <<bookVars, chainVars>>

CheckStep(c) == Get(c) \/ Look(c) \/ Post(c) \/ Push(c)
=============================================================================
