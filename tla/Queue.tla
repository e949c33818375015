------------------------------- MODULE Queue -------------------------------
(***************************************************************************)
(* The at-least-once job queue, queue.MemoryQueue.  Lease hides a job for  *)
(* a lease period and gives a delivery; Ack and Nack ask for the receipt   *)
(* of the present delivery, which is the job id with the attempt count.    *)
(*                                                                         *)
(* Time is abstracted to what Lease asks of it: a job is ready, delayed    *)
(* (notBefore is ahead) or leased (leaseUntil is ahead), and may become    *)
(* ready at any moment, because leases and delays end and a worker may be  *)
(* slow without bound.                                                     *)
(***************************************************************************)
EXTENDS Naturals, Sequences, SequencesExt

CONSTANTS Jobs,            \* job ids
          Workers,         \* goroutines that lease
          None,            \* no slot, no delivery
          MaxDeliveries,   \* bound: deliveries of a job since its Enqueue
          MaxRounds        \* bound: times a job is enqueued

ASSUME QueueAssumption == MaxDeliveries \in Nat /\ MaxRounds \in Nat

VARIABLES slot,    \* MemoryQueue.jobs: slot[j], or None when j is not queued
          order,   \* MemoryQueue.order
          held,    \* held[w]: the delivery worker w works on, or None
          round    \* round[j]: history: how often j was enqueued

queueVars == <<slot, order, held, round>>

Slot == [attempt : Nat, vis : {"ready", "delayed", "leased"}]
Delivery == [job : Jobs, attempt : Nat \ {0}, round : Nat]

ASSUME NoneIsNoSlot == None \notin Slot

Init ==
  /\ slot = [j \in Jobs |-> None]
  /\ order = <<>>
  /\ held = [w \in Workers |-> None]
  /\ round = [j \in Jobs |-> 0]
-----------------------------------------------------------------------------
\* Enqueue: a new slot, visible at once.  While the id is queued or leased
\* it is a no-op, which changes nothing.
Enqueue(j) ==
  /\ slot[j] = None
  /\ round[j] < MaxRounds
  /\ slot' = [slot EXCEPT ![j] = [attempt |-> 0, vis |-> "ready"]]
  /\ order' = Append(order, j)
  /\ round' = [round EXCEPT ![j] = @ + 1]
  /\ UNCHANGED held

\* Lease may take the k-th job of the order.
Visible(k) == slot[order[k]].vis = "ready"

\* The k-th job of the order is j, and Lease comes to it first.
Foremost(k, j) ==
  order[k] = j /\ Visible(k) /\ \A l \in 1 .. k - 1 : ~Visible(l)

\* Lease: the first visible job in order, one more attempt, hidden for the
\* lease period.
Lease(w) ==
  /\ held[w] = None
  /\ \E j \in Jobs, k \in DOMAIN order :
       LET n == slot[j].attempt + 1
       IN  /\ Foremost(k, j)
           /\ n <= MaxDeliveries
           /\ slot' = [slot EXCEPT ![j] = [attempt |-> n, vis |-> "leased"]]
           /\ held' = [held EXCEPT
                         ![w] = [job |-> j, attempt |-> n, round |-> round[j]]]
  /\ UNCHANGED <<order, round>>

\* The lease runs out, or the delay of a Nack does: the job is visible again.
Surface(j) ==
  /\ slot[j] # None
  /\ slot[j].vis # "ready"
  /\ slot' = [slot EXCEPT ![j].vis = "ready"]
  /\ UNCHANGED <<order, held, round>>

AnyReceipt(w) == held[w] # None /\ slot[held[w].job] # None  \* mutant
\* The receipt of w's delivery is the present one of its job.
Current(w) ==
  /\ held[w] # None
  /\ slot[held[w].job] # None
  /\ slot[held[w].job].attempt = held[w].attempt

\* Mutant of Ack: the id stays in the order.
AckKeepsTheOrder(w) ==
  /\ Current(w)
  /\ slot' = [slot EXCEPT ![held[w].job] = None]
  /\ held' = [held EXCEPT ![w] = None]
  /\ UNCHANGED <<order, round>>

\* Ack with the present receipt: the job leaves the queue.  Its id is in the
\* order, once (OrderListsTheJobs).
Ack(w) ==
  /\ Current(w)
  /\ slot' = [slot EXCEPT ![held[w].job] = None]
  /\ \E k \in DOMAIN order : /\ order[k] = held[w].job
                              /\ order' = RemoveAt(order, k)
  /\ held' = [held EXCEPT ![w] = None]
  /\ UNCHANGED round

\* Nack with the present receipt: the lease is let go and the job is delayed;
\* the attempt count stays.
Nack(w) ==
  /\ Current(w)
  /\ slot' = [slot EXCEPT ![held[w].job].vis = "delayed"]
  /\ held' = [held EXCEPT ![w] = None]
  /\ UNCHANGED <<order, round>>

\* Ack or Nack answers ErrStaleReceipt or ErrNotFound, or the worker panics:
\* the delivery is gone and the queue is as it was.
Drop(w) ==
  /\ held[w] # None
  /\ held' = [held EXCEPT ![w] = None]
  /\ UNCHANGED <<slot, order, round>>

Next ==
  \/ \E j \in Jobs : Enqueue(j) \/ Surface(j)
  \/ \E w \in Workers : Lease(w) \/ Ack(w) \/ Nack(w) \/ Drop(w)

Spec == Init /\ [][Next]_queueVars
-----------------------------------------------------------------------------
QueueTypeOK ==
  /\ slot \in [Jobs -> Slot \union {None}]
  /\ order \in Seq(Jobs)
  /\ held \in [Workers -> Delivery \union {None}]
  /\ round \in [Jobs -> Nat]

\* Order lists every queued job once, and nothing else: Lease never follows
\* an id to a slot that Ack deleted, and never misses a job.
OrderListsTheJobs ==
  /\ ToSet(order) = {j \in Jobs : slot[j] # None}
  /\ IsInjective(order)

\* Of the deliveries of one round of a job only the last one counts: when a
\* lease is taken over, the receipt of the worker that lost it is void.
OneReceiptARound ==
  \A v, w \in Workers :
    /\ v # w /\ Current(v) /\ Current(w) /\ held[v].job = held[w].job
    => held[v].round # held[w].round

\* A leased job is hidden: only a worker's Ack or Nack or the end of the
\* lease ends it, so a job goes to a second worker only after that.
LeaseHides ==
  [][\A j \in Jobs : slot[j] # None /\ slot'[j] # None
       /\ slot[j].vis = "leased" => slot'[j].attempt = slot[j].attempt
    ]_queueVars
=============================================================================
