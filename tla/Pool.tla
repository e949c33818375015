-------------------------------- MODULE Pool --------------------------------
(***************************************************************************)
(* The goroutines around a job: the worker pool with its two-phase stop    *)
(* (Pool.Run), the throttle in front of the sender (Throttle) and the      *)
(* dead-letter store with the people who redrive its jobs (dlq).           *)
(*                                                                         *)
(* What a worker does to the payment is in Relayer; here process only      *)
(* needs a send slot or not, and ends in one of its outcomes.  at[w] names *)
(* the next step of goroutine w.  Time is a Tick of the token bucket; a    *)
(* lease ends when its job surfaces.                                       *)
(***************************************************************************)
EXTENDS Queue, Integers, FiniteSets

CONSTANTS Operators,    \* people at the dead-letter tool
          MaxInFlight,  \* capacity of the semaphore
          Burst         \* capacity of the token bucket

ASSUME PoolAssumption ==
  /\ IsFiniteSet(Workers)
  /\ MaxInFlight \in Nat \ {0} /\ Burst \in Nat \ {0}

VARIABLES
  stop,     \* "run"; "drain": ctx is done; "hard": hardStop was called;
            \* "back": Run has returned
  at,       \* at[w]: where goroutine w of the pool is
  sem,      \* slots taken
  tokens,   \* tokens in the bucket; below 0: lent to goroutines asleep
  wake,     \* wake[w]: ticks until w's token is earned
  record,   \* record[j]: the dead letter of job j, or NoRecord
  op,       \* op[o]: where person o is in Redrive, and with which job
  slip      \* slip[j]: history: the redrive that resolved the record of j came
            \* too early or too late for it (RedriveIsNotLost)

throttle == <<sem, tokens, wake>>
letters == <<record, op, slip>>
poolVars == <<slot, order, held, round, stop, at, sem, tokens, wake,
              record, op, slip>>

\* A record of the dead-letter store, and a Redrive under way.
Letter == [status : {"parked", "redriven", "dropped"}, cycles : Nat, round : Nat]
Errand == [pc : {"enqueue", "resolve"}, job : Jobs, early : BOOLEAN, cycles : Nat]
Idle == [pc |-> "idle"]
NoRecord == [status |-> "none"]

ASSUME NoneIsNoDelivery == None \notin Delivery

PoolInit ==
  /\ Init
  /\ stop = "run"
  /\ at = [w \in Workers |-> "loop"]
  /\ sem = 0 /\ tokens = Burst
  /\ wake = [w \in Workers |-> 0]
  /\ record = [j \in Jobs |-> NoRecord]
  /\ op = [o \in Operators |-> Idle]
  /\ slip = [j \in Jobs |-> FALSE]

At(w, pcs) == at[w] \in pcs
Goto(w, pc) == at' = [at EXCEPT ![w] = pc]
Job(w) == held[w].job
-----------------------------------------------------------------------------
(***************************************************************************)
(* The loop of a goroutine: look at ctx, lease, process, Ack or Nack.      *)
(***************************************************************************)
Loop(w) ==
  /\ At(w, {"loop"})
  /\ Goto(w, IF stop = "run" THEN "lease" ELSE "gone")
  /\ UNCHANGED <<queueVars, stop, throttle, letters>>

LeaseJob(w) ==
  /\ At(w, {"lease"})
  /\ Lease(w)
  /\ Goto(w, "work")
  /\ UNCHANGED <<stop, throttle, letters>>

\* The queue is empty (or the bound on deliveries is reached): sleep Idle.
NoJob(w) ==
  /\ At(w, {"lease"})
  /\ \A k \in DOMAIN order :
       Visible(k) => \/ \E l \in 1 .. k - 1 : Visible(l)
                     \/ slot[order[k]].attempt = MaxDeliveries
  /\ Goto(w, "loop")
  /\ UNCHANGED <<queueVars, stop, throttle, letters>>

\* process: an authorized payment asks for a slot, any other one does not.
Process(w) ==
  /\ At(w, {"work"})
  /\ \E pc \in {"ask", "done"} : Goto(w, pc)
  /\ UNCHANGED <<queueVars, stop, throttle, letters>>

\* Mutant of Panic: the recover acknowledges the job.
PanicAcks(w) ==
  /\ At(w, {"work", "send", "done", "retry", "ack"})
  /\ IF Current(w) THEN Ack(w) ELSE Drop(w)
  /\ sem' = IF At(w, {"send"}) THEN sem - 1 ELSE sem
  /\ Goto(w, "loop")
  /\ UNCHANGED <<stop, tokens, wake, letters>>

\* A panic anywhere in RunOnce, or Park or the queue fails: no Ack, no Nack.
\* The deferred Release has run.
Panic(w) ==
  /\ At(w, {"work", "send", "done", "retry", "ack"})
  /\ Drop(w)
  /\ sem' = IF At(w, {"send"}) THEN sem - 1 ELSE sem
  /\ Goto(w, "loop")
  /\ UNCHANGED <<stop, tokens, wake, letters>>

\* The outcome of process is done with the job, to be tried again, or given
\* up, which is Park and then Ack.  ErrStaleReceipt is no error.
AckJob(w) ==
  /\ At(w, {"done", "ack"})
  /\ IF Current(w) THEN Ack(w) ELSE Drop(w)
  /\ Goto(w, "loop")
  /\ UNCHANGED <<stop, throttle, letters>>

NackJob(w) ==
  /\ At(w, {"done", "retry"})
  /\ IF Current(w) THEN Nack(w) ELSE Drop(w)
  /\ Goto(w, "loop")
  /\ UNCHANGED <<stop, throttle, letters>>
-----------------------------------------------------------------------------
(***************************************************************************)
(* The throttle: a slot of the semaphore, then a token of the bucket.      *)
(***************************************************************************)
\* The context of Acquire ends with the lease and with hardStop.
CtxDone(w) ==
  stop = "hard" \/ ~(Current(w) /\ slot[Job(w)].vis = "leased")

\* One token more, up to the capacity.  The code refills when a token is asked
\* for, with what the time since the last request has earned.
Refilled == IF tokens < Burst THEN tokens + 1 ELSE tokens

\* A free slot is taken at once, whatever the context.
TakeSlot(w) ==
  /\ At(w, {"ask", "blocked"})
  /\ sem < MaxInFlight
  /\ sem' = sem + 1
  /\ Goto(w, "bucket")
  /\ UNCHANGED <<queueVars, stop, tokens, wake, letters>>

Block(w) ==
  /\ At(w, {"ask"})
  /\ sem = MaxInFlight
  /\ Goto(w, "blocked")
  /\ UNCHANGED <<queueVars, stop, throttle, letters>>

\* The wait for a slot is cancelled: throttled, to be tried again.
Unblock(w) ==
  /\ At(w, {"blocked"})
  /\ CtxDone(w)
  /\ Goto(w, "retry")
  /\ UNCHANGED <<queueVars, stop, throttle, letters>>

\* waitToken takes a token, or borrows one and sleeps until it is earned.
TakeToken(w) ==
  /\ At(w, {"bucket"})
  /\ tokens' = tokens - 1
  /\ wake' = [wake EXCEPT ![w] = IF tokens > 0 THEN 0 ELSE 1 - tokens]
  /\ Goto(w, IF tokens > 0 THEN "send" ELSE "sleep")
  /\ UNCHANGED <<queueVars, stop, sem, letters>>

Wake(w) ==
  /\ At(w, {"sleep"})
  /\ wake[w] = 0
  /\ Goto(w, "send")
  /\ UNCHANGED <<queueVars, stop, throttle, letters>>

\* Mutant of Cancel: the slot is given back, the borrowed token is not.
CancelKeepsTheToken(w) ==
  /\ At(w, {"sleep"})
  /\ CtxDone(w)
  /\ sem' = sem - 1
  /\ wake' = [wake EXCEPT ![w] = 0]
  /\ Goto(w, "retry")
  /\ UNCHANGED <<queueVars, stop, tokens, letters>>

\* The sleep is cancelled: token and slot go back.
Cancel(w) ==
  /\ At(w, {"sleep"})
  /\ CtxDone(w)
  /\ tokens' = Refilled
  /\ sem' = sem - 1
  /\ wake' = [wake EXCEPT ![w] = 0]
  /\ Goto(w, "retry")
  /\ UNCHANGED <<queueVars, stop, letters>>

\* The call of the sender returns, sooner or later or cancelled, and process
\* ends: Release.
Sent(w) ==
  /\ At(w, {"send"})
  /\ sem' = sem - 1
  /\ Goto(w, "done")
  /\ UNCHANGED <<queueVars, stop, tokens, wake, letters>>

\* Time passes: one token is earned.
Tick ==
  /\ tokens' = Refilled
  /\ wake' = [w \in Workers |-> IF wake[w] = 0 THEN 0 ELSE wake[w] - 1]
  /\ UNCHANGED <<queueVars, stop, at, sem, letters>>
-----------------------------------------------------------------------------
(***************************************************************************)
(* Pool.Run: ctx ends, the jobs in hand are finished, then cancelled.      *)
(***************************************************************************)
Shutdown ==
  /\ stop = "run"
  /\ stop' = "drain"
  /\ UNCHANGED <<queueVars, at, throttle, letters>>

AllGone == \A w \in Workers : At(w, {"gone"})

\* Mutant of DrainTimeout: the jobs are counted as abandoned, not cancelled.
AbandonOnly ==
  /\ stop = "drain" /\ ~AllGone
  /\ UNCHANGED poolVars

\* DrainTimeout is over: hardStop.
DrainTimeout ==
  /\ stop = "drain" /\ ~AllGone
  /\ stop' = "hard"
  /\ UNCHANGED <<queueVars, at, throttle, letters>>

Return ==
  /\ stop \in {"drain", "hard"} /\ AllGone
  /\ stop' = "back"
  /\ UNCHANGED <<queueVars, at, throttle, letters>>
-----------------------------------------------------------------------------
(***************************************************************************)
(* Dead letters: Park by the worker that gives a job up; Redrive and Drop  *)
(* by people.  A record carries, as history, the round it was parked in.   *)
(***************************************************************************)
Parked(j) == record[j] # NoRecord /\ record[j].status = "parked"

\* Park is a no-op for a job that is parked; Ack comes after it.
Park(w) ==
  LET j == Job(w)
      before == IF record[j] = NoRecord THEN 0 ELSE record[j].cycles
  IN  /\ At(w, {"done", "retry"})
      /\ record' = IF Parked(j) THEN record
                   ELSE [record EXCEPT ![j] =
                           [status |-> "parked", cycles |-> before + 1,
                            round |-> held[w].round]]
      /\ Goto(w, "ack")
      /\ UNCHANGED <<queueVars, stop, throttle, op, slip>>

\* Redrive, first the look: a job that is not parked is not put back.
Look(o, j) ==
  /\ op[o].pc = "idle"
  /\ Parked(j)
  /\ op' = [op EXCEPT ![o] = [pc |-> "enqueue", job |-> j, early |-> FALSE,
                              cycles |-> record[j].cycles]]
  /\ UNCHANGED <<queueVars, stop, at, throttle, record, slip>>

\* Mutant of PutBack: the record is resolved before the job is put back.
ResolveFirst(o) ==
  /\ op[o].pc = "enqueue"
  /\ record' = [record EXCEPT ![op[o].job].status = "redriven"]
  /\ op' = [op EXCEPT ![o].pc = "late"]
  /\ UNCHANGED <<queueVars, stop, at, throttle, slip>>

\* Then Enqueue, a no-op for a job that is on the queue: because somebody has
\* put it back already, or (early) because whoever parked it has not yet
\* acknowledged it.
PutBack(o) ==
  LET j == op[o].job
  IN  /\ op[o].pc = "enqueue"
      /\ IF slot[j] = None THEN Enqueue(j) ELSE UNCHANGED queueVars
      /\ op' = [op EXCEPT ![o] = [@ EXCEPT !.pc = "resolve",
                                          !.early = /\ slot[j] # None
                                                    /\ round[j] = record[j].round]]
      /\ UNCHANGED <<stop, at, throttle, record, slip>>

\* Then Resolve, which only one of several people gets through.  It asks for
\* a parked record, not for the one Redrive looked at.
Resolve(o) ==
  LET j == op[o].job
  IN  /\ op[o].pc = "resolve"
      /\ IF Parked(j)
         THEN /\ record' = [record EXCEPT ![j].status = "redriven"]
              /\ slip' = [slip EXCEPT ![j] = \/ op[o].early
                                             \/ record[j].cycles # op[o].cycles]
         ELSE UNCHANGED <<record, slip>>
      /\ op' = [op EXCEPT ![o] = Idle]
      /\ UNCHANGED <<queueVars, stop, at, throttle>>

\* The tool dies in the middle of Redrive.
Quit(o) ==
  /\ op[o].pc # "idle"
  /\ op' = [op EXCEPT ![o] = Idle]
  /\ UNCHANGED <<queueVars, stop, at, throttle, record, slip>>

DropLetter(j) ==
  /\ Parked(j)
  /\ record' = [record EXCEPT ![j].status = "dropped"]
  /\ UNCHANGED <<queueVars, stop, at, throttle, op, slip>>

\* The API and the reconciliation sweep put jobs on the queue; leases and
\* delays end.
Produce(j) ==
  /\ Enqueue(j)
  /\ UNCHANGED <<stop, at, throttle, letters>>

SurfaceJob(j) ==
  /\ Surface(j)
  /\ UNCHANGED <<stop, at, throttle, letters>>
-----------------------------------------------------------------------------
\* The steps a goroutine takes by itself; a panic, a return of the sender
\* and the two waits in front of it take their time.
GoOn(w) ==
  \/ Loop(w) \/ LeaseJob(w) \/ NoJob(w) \/ Process(w) \/ Park(w)
  \/ AckJob(w) \/ NackJob(w) \/ Block(w) \/ TakeToken(w)
Waits(w) == TakeSlot(w) \/ Unblock(w) \/ Wake(w) \/ Cancel(w) \/ Sent(w)

PoolNext ==
  \/ \E w \in Workers : GoOn(w) \/ Waits(w) \/ Panic(w)
  \/ \E o \in Operators : \/ \E j \in Jobs : Look(o, j)
                          \/ PutBack(o) \/ Resolve(o) \/ Quit(o)
  \/ \E j \in Jobs : DropLetter(j) \/ Produce(j) \/ SurfaceJob(j)
  \/ Tick \/ Shutdown \/ DrainTimeout \/ Return

\* Goroutines run; every wait ends once hardStop has cancelled its context,
\* the sender's too; the timer of DrainTimeout goes off.
PoolSpec ==
  /\ PoolInit /\ [][PoolNext]_poolVars
  /\ \A w \in Workers : /\ WF_poolVars(GoOn(w))
                        /\ WF_poolVars(stop = "hard" /\ Waits(w))
  /\ WF_poolVars(DrainTimeout) /\ WF_poolVars(Return)
-----------------------------------------------------------------------------
\* Acquire and Release: a slot is taken exactly while a goroutine is between
\* the two, and no more tokens are lent than goroutines sleep for one.  A
\* cancelled wait that kept either would shrink the throttle for good.
ThrottleIsWhole ==
  /\ sem = Cardinality({w \in Workers : At(w, {"bucket", "sleep", "send"})})
  /\ -tokens <= Cardinality({w \in Workers : At(w, {"sleep"})})

\* Some worker saw the process of job j end, or gave j up and had it parked.
WorkedOff(j) ==
  \E w \in Workers :
    /\ held[w] # None /\ Job(w) = j
    /\ At(w, {"done", "ack"})
    /\ At(w, {"ack"}) => record[j] # NoRecord

\* A job leaves the queue by the Ack of a worker that has worked it off: no
\* panic, lost lease, cancelled wait or stop takes for done what was not (the
\* comment of runOne on its recover), and the letter comes before the Ack.
JobsLeaveWorkedOff ==
  [][\A j \in Jobs : slot[j] # None /\ slot'[j] = None => WorkedOff(j)]_poolVars

\* Redrive puts the job back before it resolves the record: a job its record
\* calls redriven has been put on the queue in a round after the one it was
\* parked in, also when the tool died before Resolve and was started again,
\* and when somebody else put the job back.  Two exceptions: Enqueue came too
\* early, when the worker that parked the job had not acknowledged it yet; or
\* Resolve came too late, for a letter that was written after the look.
RedriveIsNotLost ==
  \A j \in Jobs :
    record[j] # NoRecord /\ record[j].status = "redriven" /\ ~slip[j]
      => round[j] > record[j].round

\* Pool.Run returns after ctx ends, whatever its goroutines wait for: a slot,
\* a token, a sender that answers only when it is cancelled.
ShutdownEnds == stop # "run" ~> stop = "back"
=============================================================================
