------------------------------ MODULE Relayer ------------------------------
(***************************************************************************)
(* The relayer: workers that lease settle jobs, and for each job move one  *)
(* payment from authorized to confirming.  The module composes the intent  *)
(* store, the job queue, the nonce counter and the journal, and adds what  *)
(* Worker keeps itself: the record of broadcasts and the dead letters.     *)
(*                                                                         *)
(* A worker is a goroutine inside RunOnce; every call it makes on a shared *)
(* object is one step, so other workers, the API and the clock interleave  *)
(* between any two of them.  run[w].pc names the call w makes next.        *)
(*                                                                         *)
(* Time is a choice: a lease may end at any moment, a wait for a send slot *)
(* or a number may be over, and an intent may or may not have been in      *)
(* settling for StuckAfter.  The limiter is one more reason not to get a   *)
(* slot.                                                                   *)
(***************************************************************************)
EXTENDS Integers, Sequences, FiniteSets

CONSTANTS Workers,        \* goroutines of the pool
          Intents,        \* payments; the job of i is "<i>/settle", named i
          None,
          Wallet,         \* the account all payments are sent from
          Ordered,        \* is the sender an OrderedSender?
          CanReplace,     \* is the sender a ReplacingSender?
          Faults,         \* may calls on the store, journal or dlq fail?
          Panics,         \* may the sender panic?
          MaxAttempts,    \* txfail.Policy.MaxAttempts
          MaxTries,       \* txfee.Policy.MaxTries
          MaxFee,         \* bumps of the fee that stay below MaxCap
          MaxDeliveries,  \* bound: deliveries of a job since its Enqueue
          MaxRounds       \* bound: times a job is enqueued

ASSUME RelayerAssumption ==
  /\ IsFiniteSet(Workers)
  /\ {Ordered, CanReplace, Faults, Panics} \subseteq BOOLEAN
  /\ CanReplace => Ordered
  /\ {MaxAttempts, MaxTries, MaxFee, MaxDeliveries, MaxRounds} \subseteq Nat

VARIABLES
  store, copy,                  \* Intent
  slot, order, held, round,     \* Queue
  next, out, gap, res, live,    \* Counter
  books, resolved,              \* Journal
  casts,    \* casts[i]: the last row of MemoryBroadcasts.rows[i] and how many
  parked,   \* jobs in the dead-letter store
  run,      \* run[w]: where worker w is, and its local variables
  txs       \* txs[i]: history: transactions of i that may have left

intentVars == <<store, copy>>
queueVars == <<slot, order, held, round>>
counterVars == <<next, out, gap, res, live>>
bookVars == <<books, resolved>>
vars == <<store, copy, slot, order, held, round, next, out, gap, res, live,
          books, resolved, casts, parked, run, txs>>
-----------------------------------------------------------------------------
MaxSends == MaxDeliveries * MaxRounds

I == INSTANCE Intent WITH Clients <- Workers, Hashes <- Nat \ {0},
                          MaxVersion <- 9

Q == INSTANCE Queue WITH Jobs <- Intents

S == INSTANCE Counter WITH Accounts <- {Wallet}, Holders <- Workers,
       MaxNumber <- MaxSends * Cardinality(Intents), Boot <- 0,
       undone <- [a \in {Wallet} |-> {}], mined <- [a \in {Wallet} |-> 0]

\* holdEntry and voidEntry: At is the time the intent entered settling, which
\* its version stands for.  One asset and one payer and merchant a payment.
Legs(n) == [a \in {"payer", "merchant"} |-> IF a = "payer" THEN -n ELSE n]
HoldEntry(i, at) ==
  [id |-> <<i, "hold">>, ref |-> i, kind |-> "hold", holds |-> None,
   asset |-> "asset", legs |-> Legs(1), note |-> at]
VoidEntry(i, at) ==
  [id |-> <<i, "void">>, ref |-> i, kind |-> "void", holds |-> <<i, "hold">>,
   asset |-> "asset", legs |-> Legs(0), note |-> at]

J == INSTANCE Journal WITH rows <- books, Refs <- Intents,
       Assets <- {"asset"}, Accounts <- {"payer", "merchant"},
       Ids <- Intents \X {"hold", "void"}, MaxEntries <- 9,
       Proposals <- {HoldEntry(i, v) : i \in Intents, v \in 1 .. 9}
                      \union {VoidEntry(i, v) : i \in Intents, v \in 1 .. 9}

ASSUME NoneIsNothing ==
  /\ None \notin Nat /\ None \notin Intents \X {"hold", "void"}
  /\ None \notin I!IntentRecord
  /\ None \notin Q!Slot /\ None \notin Q!Delivery /\ None \notin S!Reservation
-----------------------------------------------------------------------------
\* A worker's local variables: the call it makes next, where it returns to
\* after the deferred Resolve, what to resolve the number with, whether its
\* error is ErrPoison, what rescue decided to send at which fee, and the hash.
Idle == [pc |-> "idle", then |-> "idle", sent |-> "not-sent", poison |-> FALSE,
         kind |-> "pay", fee |-> 0, tx |-> 0]

At(w, pcs) == run[w].pc \in pcs
Goto(w, pc) == run' = [run EXCEPT ![w].pc = pc]

\* Mutant of Leave: the deferred Resolve is missing.
LeaveWithTheNumber(w, dest) ==
  run' = [run EXCEPT ![w] = [Idle EXCEPT !.pc = dest, !.poison = run[w].poison]]

\* Return from process: a number in hand is resolved on the way out.
Leave(w, dest) ==
  run' = [run EXCEPT ![w] =
            IF res[w] = None
            THEN [Idle EXCEPT !.pc = dest, !.poison = run[w].poison]
            ELSE [@ EXCEPT !.pc = "unwind", !.then = dest]]

Job(w) == held[w].job

Init ==
  /\ I!Init /\ Q!Init /\ S!Init /\ J!Init
  /\ casts = [i \in Intents |-> None]
  /\ parked = {}
  /\ run = [w \in Workers |-> Idle]
  /\ txs = [i \in Intents |-> <<>>]
-----------------------------------------------------------------------------
(***************************************************************************)
(* Around the relayer: the API creates, authorizes and cancels intents;    *)
(* producers (the API, the reconciliation sweep) enqueue jobs; leases and  *)
(* delays end.  The sweep looks at the intent and at the dead letters      *)
(* before it enqueues, but both may have changed when it does.             *)
(***************************************************************************)
ByAPI(to) == [to |-> to, by |-> "api", tx |-> None,
              reason |-> to = "canceled", late |-> FALSE]

Create(i) ==
  /\ I!Create(i)
  /\ UNCHANGED <<queueVars, counterVars, bookVars, casts, parked, run, txs>>

APIAdvance(i, to) ==
  /\ I!AdvanceNow(i, ByAPI(to))
  /\ UNCHANGED <<queueVars, counterVars, bookVars, casts, parked, run, txs>>

Enqueue(i) ==
  /\ store[i] # None
  /\ Q!Enqueue(i)
  /\ UNCHANGED <<intentVars, counterVars, bookVars, casts, parked, run, txs>>

Surface(i) ==
  /\ Q!Surface(i)
  /\ UNCHANGED <<intentVars, counterVars, bookVars, casts, parked, run, txs>>
-----------------------------------------------------------------------------
\* RunOnce leases a job.
Lease(w) ==
  /\ At(w, {"idle"})
  /\ Q!Lease(w)
  /\ Goto(w, "read")
  /\ UNCHANGED <<intentVars, counterVars, bookVars, casts, parked, txs>>

\* Mutant of Branch: an intent in settling is sent again.
SendsAgain(i) ==
  IF store[i].state = "created" THEN "judge"
  ELSE IF store[i].state = "authorized" THEN "slot"
  ELSE IF store[i].state = "settling" THEN "send" ELSE "ack"

\* process reads the intent and branches on its state.
Branch(i) ==
  IF store[i].state = "created" THEN "judge"
  ELSE IF store[i].state = "authorized" THEN "slot"
  ELSE IF store[i].state = "settling" THEN "rescue" ELSE "ack"

Read(w) ==
  /\ At(w, {"read"})
  /\ I!Read(w, Job(w))
  /\ Goto(w, Branch(Job(w)))
  /\ UNCHANGED <<queueVars, counterVars, bookVars, casts, parked, txs>>

\* The send slot, and on an ordered chain the next number.
TakeSlot(w) ==
  /\ At(w, {"slot", "fresh"})
  /\ IF Ordered THEN S!Reserve(w, Wallet) ELSE UNCHANGED counterVars
  /\ Goto(w, IF At(w, {"slot"}) THEN "claim" ELSE "replace")
  /\ UNCHANGED <<intentVars, queueVars, bookVars, casts, parked, txs>>

\* Throttled, the deadline passes while waiting, or ErrGap: nothing written.
NoSlot(w) ==
  /\ At(w, {"slot", "gap", "fresh"})
  /\ Leave(w, "judge")
  /\ UNCHANGED <<intentVars, queueVars, counterVars, bookVars, casts, parked,
                 txs>>

\* The compare-and-swaps a worker makes: to which state, where to go when
\* it succeeds, and where when the intent was moved by somebody else.
CasSteps ==
  [claim   |-> [to |-> "settling", ok |-> "hold", lost |-> "judge"],
   confirm |-> [to |-> "confirming", ok |-> "ack", lost |-> "judge"],
   review  |-> [to |-> "needs_review", ok |-> "ack", lost |-> "judge"],
   clear   |-> [to |-> "needs_review", ok |-> "ack", lost |-> "ack"],
   suspend |-> [to |-> "needs_review", ok |-> "park", lost |-> "nack"],
   fail    |-> [to |-> "failed", ok |-> "park", lost |-> "nack"]]

Asks(w) ==
  LET to == CasSteps[run[w].pc].to
  IN  [to |-> to, by |-> "relayer", late |-> FALSE,
       tx |-> IF to = "confirming" THEN run[w].tx ELSE None,
       reason |-> to \in {"needs_review", "failed"}]

Cas(w) ==
  /\ At(w, DOMAIN CasSteps)
  /\ I!Advance(w, Asks(w))
  /\ LET to == CasSteps[run[w].pc].ok
     IN  IF to \in {"ack"} THEN Leave(w, to) ELSE Goto(w, to)
  /\ UNCHANGED <<queueVars, counterVars, bookVars, casts, parked, txs>>

CasLost(w) ==
  /\ At(w, DOMAIN CasSteps)
  /\ I!Conflict(w, Asks(w))
  /\ Leave(w, CasSteps[run[w].pc].lost)
  /\ UNCHANGED <<queueVars, counterVars, bookVars, casts, parked, txs>>

\* Mutant of Hold: the transaction leaves, the books are left for later.
HoldLater(w) ==
  /\ At(w, {"hold"})
  /\ Goto(w, "send")
  /\ UNCHANGED <<intentVars, queueVars, counterVars, bookVars, casts, parked,
                 txs>>

\* The hold goes on the books before the transaction leaves.
Hold(w) ==
  LET e == HoldEntry(Job(w), copy[w].it.version)
  IN  /\ At(w, {"hold"})
      /\ IF J!Fresh(e) THEN J!Append1(e) ELSE UNCHANGED bookVars
      /\ IF J!Conflict(e) THEN Leave(w, "judge") ELSE Goto(w, "send")
      /\ UNCHANGED <<intentVars, queueVars, counterVars, casts, parked, txs>>

\* What a Sender may answer, and whether a transaction left.
Outcomes ==
  {[sent |-> "sent", away |-> TRUE, poison |-> FALSE]}
  \union [sent : {"unknown"}, away : BOOLEAN, poison : BOOLEAN]
  \union [sent : {"not-sent"}, away : {FALSE}, poison : BOOLEAN]

Away(w, away) ==
  txs' = IF ~away THEN txs
         ELSE [txs EXCEPT ![Job(w)] = Append(@,
                 [kind |-> run[w].kind,
                  nonce |-> IF Ordered THEN res[w].value ELSE None,
                  fill |-> Ordered /\ res[w].fill])]

\* Send, SendAt, Replace or Cancel returns.
Send(w) ==
  /\ At(w, {"send", "replace"})
  /\ \E o \in Outcomes :
       /\ Away(w, o.away)
       /\ run' = [run EXCEPT ![w] = [@ EXCEPT !.pc = "record", !.sent = o.sent,
                    !.poison = o.poison,
                    !.tx = IF o.sent = "sent" THEN Len(txs'[Job(w)]) ELSE 0]]
  /\ UNCHANGED <<intentVars, queueVars, counterVars, bookVars, casts, parked>>

\* The sender panics: Pool.runOne recovers, no Ack and no Nack.  The deferred
\* Resolve runs with the value sent had before the call.
Panic(w) ==
  /\ Panics
  /\ At(w, {"send", "replace"})
  /\ \E away \in BOOLEAN : Away(w, away)
  /\ Leave(w, "drop")
  /\ UNCHANGED <<intentVars, queueVars, counterVars, bookVars, casts, parked>>

\* Mutant of LastCast: no row is taken for nothing sent.
NoRowNothingSent(i) ==
  IF casts[i] = None THEN [sent |-> "not-sent", fee |-> 0, tries |-> 1]
  ELSE casts[i]

\* Broadcasts.Last; with no row, what rescue and giveUp assume.
LastCast(i) ==
  IF casts[i] = None THEN [sent |-> "unknown", fee |-> 0, tries |-> 1]
  ELSE casts[i]

\* Mutant of Record: a cancellation confirms the payment.
RecordThenConfirm(w) ==
  /\ At(w, {"record"})
  /\ casts' = [casts EXCEPT ![Job(w)] =
                 [sent |-> run[w].sent, fee |-> run[w].fee,
                  tries |-> IF @ = None THEN 1 ELSE @.tries + 1]]
  /\ IF run[w].sent # "sent" THEN Leave(w, "judge") ELSE Goto(w, "confirm")
  /\ UNCHANGED <<intentVars, queueVars, counterVars, bookVars, parked, txs>>

\* Worker.record, after every call of the sender that returns.  A row that
\* cannot be written is lost in silence.
Record(w) ==
  /\ At(w, {"record"})
  /\ \/ casts' = [casts EXCEPT ![Job(w)] =
                    [sent |-> run[w].sent, fee |-> run[w].fee,
                     tries |-> IF @ = None THEN 1 ELSE @.tries + 1]]
     \/ Faults /\ casts' = casts
  /\ IF run[w].sent # "sent" THEN Leave(w, "judge")
     ELSE Goto(w, IF run[w].kind = "cancel" THEN "clear" ELSE "confirm")
  /\ UNCHANGED <<intentVars, queueVars, counterVars, bookVars, parked, txs>>

\* The deferred Sequencer.Resolve.
Unwind(w) ==
  /\ At(w, {"unwind"})
  /\ S!Resolve(w, run[w].sent)
  /\ run' = [run EXCEPT ![w] = [Idle EXCEPT !.pc = run[w].then,
                                            !.poison = run[w].poison]]
  /\ UNCHANGED <<intentVars, queueVars, bookVars, casts, parked, txs>>
-----------------------------------------------------------------------------
\* rescue, the intent is young: wait.
RescueWait(w) ==
  /\ At(w, {"rescue"})
  /\ Leave(w, "judge")
  /\ UNCHANGED <<intentVars, queueVars, counterVars, bookVars, casts, parked,
                 txs>>

\* rescue, the intent has been in settling for StuckAfter: txfee's Decide on
\* the last broadcast.
Rescue(w) ==
  LET last == LastCast(Job(w))
      fee == IF last.sent = "not-sent" THEN 0 ELSE last.fee + 1
  IN  /\ At(w, {"rescue"})
      /\ IF fee > MaxFee \/ ~CanReplace THEN Goto(w, "review")
         ELSE run' = [run EXCEPT ![w] = [@ EXCEPT !.pc = "gap", !.fee = fee,
                        !.kind = IF last.tries >= MaxTries THEN "cancel"
                                 ELSE "pay"]]
      /\ UNCHANGED <<intentVars, queueVars, counterVars, bookVars, casts,
                     parked, txs>>

\* reserveFor: the gap's number if there is a gap.
TakeGap(w) ==
  /\ At(w, {"gap"})
  /\ S!ReserveGap(w, Wallet)
  /\ Goto(w, "replace")
  /\ UNCHANGED <<intentVars, queueVars, bookVars, casts, parked, txs>>

\* reserveFor finds no gap: a cancellation has nothing to clear, a payment
\* goes on to Reserve.
NoGap(w) ==
  /\ At(w, {"gap"})
  /\ S!ErrNoGap(Wallet)
  /\ Goto(w, IF run[w].kind = "cancel" THEN "review" ELSE "fresh")
  /\ UNCHANGED <<intentVars, queueVars, counterVars, bookVars, casts, parked,
                 txs>>
-----------------------------------------------------------------------------
\* Mutants of Judge: a job given up is not parked; no delivery is the last.
GivesUpQuietly(w) ==
  /\ At(w, {"judge"})
  /\ Goto(w, IF run[w].poison \/ held[w].attempt >= MaxAttempts
             THEN "ack" ELSE "nack")
  /\ UNCHANGED <<intentVars, queueVars, counterVars, bookVars, casts, parked,
                 txs>>

NeverGivesUp(w) ==
  /\ At(w, {"judge"})
  /\ Goto(w, "nack")
  /\ UNCHANGED <<intentVars, queueVars, counterVars, bookVars, casts, parked,
                 txs>>

\* txfail's Judge on a delivery that failed.
Judge(w) ==
  /\ At(w, {"judge"})
  /\ Goto(w, IF run[w].poison \/ held[w].attempt >= MaxAttempts
             THEN "giveup" ELSE "nack")
  /\ UNCHANGED <<intentVars, queueVars, counterVars, bookVars, casts, parked,
                 txs>>

\* giveUp reads the intent again; only one in settling is the relayer's.
GiveUp(w) ==
  /\ At(w, {"giveup"})
  /\ I!Read(w, Job(w))
  /\ Goto(w, IF store[Job(w)].state = "settling" THEN "weigh" ELSE "park")
  /\ UNCHANGED <<queueVars, counterVars, bookVars, casts, parked, txs>>

\* What the last broadcast was decides between failed and needs_review.
Weigh(w) ==
  /\ At(w, {"weigh"})
  /\ Goto(w, IF LastCast(Job(w)).sent = "not-sent" THEN "void" ELSE "suspend")
  /\ UNCHANGED <<intentVars, queueVars, counterVars, bookVars, casts, parked,
                 txs>>

\* Mutant of Void: the intent fails and the hold is left.
FailsFirst(w) ==
  /\ At(w, {"void"})
  /\ Goto(w, "fail")
  /\ UNCHANGED <<intentVars, queueVars, counterVars, bookVars, casts, parked,
                 txs>>

\* The hold is let go before the intent fails.  No hold, or a resolved one,
\* is no obstacle.
Void(w) ==
  LET e == VoidEntry(Job(w), copy[w].it.version)
  IN  /\ At(w, {"void"})
      /\ IF J!Fresh(e) THEN J!Append1(e) ELSE UNCHANGED bookVars
      /\ Goto(w, IF J!Conflict(e) THEN "drop" ELSE "fail")
      /\ UNCHANGED <<intentVars, queueVars, counterVars, casts, parked, txs>>

\* The job goes to the dead letters.
Park(w) ==
  /\ At(w, {"park"})
  /\ parked' = parked \union {Job(w)}
  /\ Goto(w, "ack")
  /\ UNCHANGED <<intentVars, queueVars, counterVars, bookVars, casts, txs>>

\* A call on the store, the broadcasts, the journal or the dead letters
\* answers an error: in process the delivery has failed, in poison RunOnce
\* returns without Ack or Nack.
Fault(w) ==
  /\ Faults
  /\ \/ /\ At(w, {"read", "claim", "hold", "confirm", "review", "clear",
                  "rescue"})
        /\ Leave(w, "judge")
     \/ /\ At(w, {"giveup", "weigh", "suspend", "void", "fail", "park"})
        /\ Leave(w, "drop")
  /\ UNCHANGED <<intentVars, queueVars, counterVars, bookVars, casts, parked,
                 txs>>

\* RunOnce ends: Ack, Nack, or neither.  A stale receipt, or a queue that
\* answers an error, changes nothing.
EndOfRun(w) ==
  /\ \/ At(w, {"ack"}) /\ Q!Ack(w)
     \/ At(w, {"nack"}) /\ Q!Nack(w)
     \/ At(w, {"ack", "nack"}) /\ (Faults \/ ~Q!Current(w)) /\ Q!Drop(w)
     \/ At(w, {"drop"}) /\ Q!Drop(w)
  /\ run' = [run EXCEPT ![w] = Idle]
  /\ IF copy[w] = None THEN UNCHANGED intentVars ELSE I!Forget(w)
  /\ UNCHANGED <<counterVars, bookVars, casts, parked, txs>>
-----------------------------------------------------------------------------
WorkerStep(w) ==
  \/ Lease(w) \/ Read(w) \/ TakeSlot(w) \/ NoSlot(w) \/ Cas(w) \/ CasLost(w)
  \/ Hold(w) \/ Send(w) \/ Panic(w) \/ Record(w) \/ Unwind(w)
  \/ RescueWait(w) \/ Rescue(w) \/ TakeGap(w) \/ NoGap(w)
  \/ Judge(w) \/ GiveUp(w) \/ Weigh(w) \/ Void(w) \/ Park(w)
  \/ Fault(w) \/ EndOfRun(w)

Next ==
  \/ \E i \in Intents : Create(i) \/ Enqueue(i) \/ Surface(i)
  \/ \E i \in Intents : APIAdvance(i, "authorized") \/ APIAdvance(i, "canceled")
  \/ \E w \in Workers : WorkerStep(w)

Spec == Init /\ [][Next]_vars

\* A goroutine that can take a step takes one, and leases and delays end.
FairSpec == /\ Spec
            /\ \A w \in Workers : WF_vars(WorkerStep(w))
            /\ \A i \in Intents : WF_vars(Surface(i))
-----------------------------------------------------------------------------
RelayerTypeOK ==
  /\ casts \in [Intents -> [sent : S!Sent, fee : 0 .. MaxFee, tries : Nat]
                             \union {None}]
  /\ parked \subseteq Intents
  /\ \A w \in Workers :
       /\ At(w, {"idle"}) <=> held[w] = None
       /\ res[w] # None => At(w, {"claim", "hold", "send", "record", "confirm",
                                  "replace", "clear", "unwind"})

\* Paid(i): the sends of i that move money.
Pays(i) == {k \in DOMAIN txs[i] : txs[i][k].kind = "pay"}

\* A payment moves money at most once (README): of two payments of an intent
\* that may have left, the chain takes at most one, because they carry the
\* same number of the same account.
PaidAtMostOnce ==
  \A i \in Intents : \A j, k \in Pays(i) :
    j # k => txs[i][j].nonce = txs[i][k].nonce /\ txs[i][j].nonce # None

\* The books come first (relayer.go:11): a payment that may have left has its
\* hold, as long as the append itself does not fail (README, limits).
HoldBeforeBroadcast ==
  \A i \in Intents : Pays(i) # {} => J!RowsOf(<<i, "hold">>) # {}

\* "No money moved": when an intent is failed, or its hold is released, no
\* payment of it may have left (StateFailed; the reason giveUp gives).
GivenUpMeansNotSent ==
  \A i \in Intents :
    \/ J!RowsOf(<<i, "void">>) # {}
    \/ store[i] # None /\ store[i].state = "failed"
    => Pays(i) = {}

\* A failed payment leaves no hold behind, in whatever order the workers
\* that gave it up, and the one that was still sending it, came.
FailedLeavesNoHold ==
  \A i \in Intents :
    store[i] # None /\ store[i].state = "failed"
    => \/ J!RowsOf(<<i, "hold">>) = {}
       \/ <<i, "hold">> \in resolved

\* i is the relayer's to move.
Open(i) == store[i] # None /\ store[i].state \in {"authorized", "settling"}

\* A payment the relayer has to move is not forgotten: once enqueued, its job
\* is queued or parked until it leaves authorized and settling.
NotForgotten ==
  \A i \in Intents :
    round[i] > 0 /\ Open(i) => slot[i] # None \/ i \in parked

\* The hash on record is that of a payment of this intent, never of the
\* transaction that only clears a slot.
ConfirmedByAPayment ==
  \A i \in Intents :
    store[i] # None /\ store[i].state = "confirming" => store[i].tx \in Pays(i)

\* An enqueued payment is handled: it leaves authorized and settling, or its
\* job is parked for a person, however slow the workers are.
Handled ==
  \A i \in Intents :
    round[i] > 0 /\ Open(i) ~> ~Open(i) \/ i \in parked
=============================================================================
