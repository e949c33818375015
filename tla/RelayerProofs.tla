---------------------------- MODULE RelayerProofs ----------------------------
(***************************************************************************)
(* Theorems of Relayer, for every set of workers and payments, any number  *)
(* of deliveries, with faults and panics.  First that the relayer uses the *)
(* intent store and the queue only as their modules allow, so that what is *)
(* proved of them holds of the composition (Base); then what the relayer   *)
(* itself must not do, with any sender and with one that cannot replace.   *)
(***************************************************************************)
EXTENDS Relayer, SequenceTheorems, FiniteSetTheorems, TLAPS

IP == INSTANCE IntentProofs WITH Clients <- Workers, Hashes <- Nat \ {0},
                                 MaxVersion <- 9
\* Of the pool only what it proves of the queue is used; its own goroutines,
\* throttle and dead letters are given no state.
QP == INSTANCE PoolProofs WITH Jobs <- Intents, Operators <- {},
        MaxInFlight <- 1, Burst <- 1, stop <- "run", at <- <<>>, sem <- 0,
        tokens <- 0, wake <- <<>>, record <- <<>>, op <- <<>>, slip <- <<>>
JP == INSTANCE JournalProofs WITH rows <- books, Refs <- Intents,
        Assets <- {"asset"}, Accounts <- {"payer", "merchant"},
        Ids <- Intents \X {"hold", "void"}, MaxEntries <- 9, Proposals <- {}

\* The calls and waits of a worker.
Calls == {"idle", "read", "slot", "claim", "hold", "send", "record", "confirm",
          "rescue", "gap", "fresh", "replace", "review", "clear", "unwind",
          "judge", "giveup", "weigh", "suspend", "void", "fail", "park",
          "ack", "nack", "drop"}
Local == [pc : Calls, then : Calls, sent : {"sent", "not-sent", "unknown"},
          poison : BOOLEAN, kind : {"pay", "cancel"}, fee : Nat, tx : Nat]
Cast == [sent : {"sent", "not-sent", "unknown"}, fee : Nat, tries : Nat]

\* What the relayer keeps itself has the shape of its step.
LocalsTyped ==
  /\ run \in [Workers -> Local]
  /\ casts \in [Intents -> Cast \union {None}]
  /\ DOMAIN txs = Intents /\ \A i \in Intents : \E T : txs[i] \in Seq(T)

\* A worker away from the start of RunOnce has a delivery, and its copy is of
\* the intent of that delivery.
CopyIsOfTheJob ==
  \A w \in Workers :
    /\ At(w, {"idle"}) <=> held[w] = None
    /\ copy[w] # None => held[w] # None /\ copy[w].id = Job(w)

\* The shape of the state, and what the stores' own theorems say of it.
Shape ==
  /\ LocalsTyped /\ CopyIsOfTheJob
  /\ IP!IntentInv /\ QP!ListInv
-----------------------------------------------------------------------------
\* Goto changes the call of one worker.
LEMMA GotoMoves ==
  ASSUME LocalsTyped, NEW w \in Workers, NEW pc \in Calls, Goto(w, pc)
  PROVE  /\ run' \in [Workers -> Local]
         /\ run'[w].pc = pc
         /\ run'[w].then = run[w].then /\ run'[w].sent = run[w].sent
         /\ run'[w].kind = run[w].kind /\ run'[w].tx = run[w].tx
         /\ \A v \in Workers : v # w => run'[v] = run[v]
<1>1. run[w] \in Local /\ run \in [Workers -> Local]
  BY DEF LocalsTyped
<1>2. PICK l : l = [run[w] EXCEPT !.pc = pc]
  OBVIOUS
<1>3. /\ l \in Local /\ l.pc = pc /\ l.then = run[w].then /\ l.sent = run[w].sent
      /\ l.kind = run[w].kind /\ l.tx = run[w].tx
  BY <1>1, <1>2 DEF Local
<1>4. run' = [run EXCEPT ![w] = l]
  BY <1>2 DEF Goto
<1>5. QED
  BY <1>1, <1>3, <1>4

\* Leave ends process, with a stop at Resolve if a number is in hand.
LEMMA LeaveMoves ==
  ASSUME LocalsTyped, NEW w \in Workers, NEW dest \in Calls, Leave(w, dest)
  PROVE  /\ run' \in [Workers -> Local]
         /\ \/ run'[w].pc = dest
            \/ run'[w].pc = "unwind" /\ run'[w].then = dest
         /\ \A v \in Workers : v # w => run'[v] = run[v]
<1>1. run[w] \in Local /\ run \in [Workers -> Local]
  BY DEF LocalsTyped
<1>2. PICK l : l = IF res[w] = None
                   THEN [Idle EXCEPT !.pc = dest, !.poison = run[w].poison]
                   ELSE [run[w] EXCEPT !.pc = "unwind", !.then = dest]
  OBVIOUS
<1>3. l \in Local /\ (l.pc = dest \/ (l.pc = "unwind" /\ l.then = dest))
  <2>1. CASE res[w] = None
    BY <2>1, <1>1, <1>2 DEF Local, Idle, Calls
  <2>2. CASE res[w] # None
    <3>1. PICK m : m = [run[w] EXCEPT !.pc = "unwind"]
      OBVIOUS
    <3>2. m \in Local /\ m.pc = "unwind"
      BY <3>1, <1>1 DEF Local, Calls
    <3>3. l = [m EXCEPT !.then = dest]
      BY <2>2, <3>1, <1>2
    <3>4. l \in Local /\ l.pc = "unwind" /\ l.then = dest
      BY <3>2, <3>3 DEF Local
    <3>5. QED
      BY <3>4
  <2>3. QED
    BY <2>1, <2>2
<1>4. run' = [run EXCEPT ![w] = l]
  BY <1>2 DEF Leave
<1>5. QED
  BY <1>1, <1>3, <1>4
-----------------------------------------------------------------------------
\* A call of the sender adds at most one transaction to the payment's.
LEMMA AwayAppends ==
  ASSUME LocalsTyped, NEW w \in Workers, NEW away \in BOOLEAN, Away(w, away),
         Job(w) \in Intents
  PROVE  /\ DOMAIN txs' = Intents /\ \A i \in Intents : \E T : txs'[i] \in Seq(T)
         /\ \A i \in Intents : i # Job(w) => txs'[i] = txs[i]
         /\ ~away => txs' = txs
         /\ away => /\ Len(txs'[Job(w)]) = Len(txs[Job(w)]) + 1
                    /\ txs'[Job(w)][Len(txs[Job(w)]) + 1].kind = run[w].kind
         /\ Len(txs[Job(w)]) \in Nat /\ Len(txs'[Job(w)]) \in Nat
         /\ \A k \in 1 .. Len(txs[Job(w)]) : txs'[Job(w)][k] = txs[Job(w)][k]
<1>1. PICK i \in Intents : i = Job(w)
  OBVIOUS
<1>2. PICK T : txs[i] \in Seq(T)
  BY DEF LocalsTyped
<1>3. Len(txs[i]) \in Nat
  BY <1>2, LenProperties
<1>4. CASE ~away
  <2>1. txs' = txs
    BY <1>4 DEF Away
  <2>2. QED
    BY <2>1, <1>1, <1>3, <1>4 DEF LocalsTyped
<1>5. CASE away
  <2>1. PICK t : t = [kind |-> run[w].kind,
                      nonce |-> IF Ordered THEN res[w].value ELSE None,
                      fill |-> Ordered /\ res[w].fill]
    OBVIOUS
  <2>2. t.kind = run[w].kind
    BY <2>1
  <2>3. txs' = [txs EXCEPT ![i] = Append(txs[i], t)]
    BY <1>1, <1>5, <2>1 DEF Away
  <2>4. txs[i] \in Seq(T \union {t}) /\ t \in T \union {t}
    BY <1>2
  <2>5. /\ Append(txs[i], t) \in Seq(T \union {t})
        /\ Len(Append(txs[i], t)) = Len(txs[i]) + 1
        /\ Append(txs[i], t)[Len(txs[i]) + 1] = t
        /\ \A k \in 1 .. Len(txs[i]) : Append(txs[i], t)[k] = txs[i][k]
    BY <2>4, AppendProperties, LenProperties
  <2>6. /\ DOMAIN txs' = Intents /\ txs'[i] = Append(txs[i], t)
        /\ \A j \in Intents : j # i => txs'[j] = txs[j]
    BY <2>3 DEF LocalsTyped
  <2>7. \A j \in Intents : \E R : txs'[j] \in Seq(R)
    BY <2>5, <2>6 DEF LocalsTyped
  <2>8. QED
    BY <1>1, <1>3, <1>5, <2>2, <2>5, <2>6, <2>7
<1>6. QED
  BY <1>4, <1>5

\* What a sender may answer: sent only when the transaction left, and not-sent
\* only when it did not.
LEMMA OutcomesTyped ==
  ASSUME NEW o \in Outcomes
  PROVE  /\ o.sent \in {"sent", "not-sent", "unknown"}
         /\ o.away \in BOOLEAN /\ o.poison \in BOOLEAN
         /\ o.sent = "sent" => o.away
         /\ o.sent = "not-sent" => ~o.away
<1>1. CASE o = [sent |-> "sent", away |-> TRUE, poison |-> FALSE]
  BY <1>1
<1>2. CASE o \in [sent : {"unknown"}, away : BOOLEAN, poison : BOOLEAN]
  BY <1>2
<1>3. CASE o \in [sent : {"not-sent"}, away : {FALSE}, poison : BOOLEAN]
  BY <1>3
<1>4. QED
  BY <1>1, <1>2, <1>3 DEF Outcomes

\* The relayer's own state keeps its shape, and a worker writes only its own
\* locals.
LEMMA LocalsStep ==
  ASSUME LocalsTyped, CopyIsOfTheJob, QP!ListInv, NEW w \in Workers, WorkerStep(w)
  PROVE  LocalsTyped' /\ \A v \in Workers : v # w => run'[v] = run[v]
<1>t. /\ run \in [Workers -> Local]
      /\ casts \in [Intents -> Cast \union {None}]
      /\ run[w] \in Local
  BY DEF LocalsTyped
<1>j. run[w].pc # "idle" => Job(w) \in Intents
  BY DEF CopyIsOfTheJob, At, Job, QP!ListInv, QP!QueueTypeOK, QP!Delivery
<1>g. ASSUME NEW pc \in Calls, Goto(w, pc), UNCHANGED <<casts, txs>>
      PROVE  LocalsTyped' /\ \A v \in Workers : v # w => run'[v] = run[v]
  BY <1>g, GotoMoves DEF LocalsTyped
<1>l. ASSUME NEW pc \in Calls, Leave(w, pc), UNCHANGED <<casts, txs>>
      PROVE  LocalsTyped' /\ \A v \in Workers : v # w => run'[v] = run[v]
  BY <1>l, LeaveMoves DEF LocalsTyped
<1>u. ASSUME NEW l \in Local, run' = [run EXCEPT ![w] = l], UNCHANGED <<casts, txs>>
      PROVE  LocalsTyped' /\ \A v \in Workers : v # w => run'[v] = run[v]
  BY <1>u, <1>t DEF LocalsTyped
<1>1. CASE Lease(w)
  BY <1>1, <1>g DEF Lease, Calls
<1>2. CASE Read(w)
  BY <1>2, <1>g DEF Read, Branch, Calls
<1>3. CASE TakeSlot(w)
  BY <1>3, <1>g DEF TakeSlot, Calls
<1>4. CASE NoSlot(w)
  BY <1>4, <1>l DEF NoSlot, Calls
<1>5. CASE Cas(w)
  <2>1. CasSteps[run[w].pc].ok \in Calls
    BY <1>5 DEF Cas, At, CasSteps, Calls
  <2>2. QED
    BY <1>5, <2>1, <1>g, <1>l DEF Cas
<1>6. CASE CasLost(w)
  <2>1. CasSteps[run[w].pc].lost \in Calls
    BY <1>6 DEF CasLost, At, CasSteps, Calls
  <2>2. QED
    BY <1>6, <2>1, <1>l DEF CasLost
<1>7. CASE Hold(w)
  BY <1>7, <1>g, <1>l DEF Hold, Calls
<1>8. CASE Send(w)
  <2>1. PICK o \in Outcomes :
          /\ Away(w, o.away)
          /\ run' = [run EXCEPT ![w] = [@ EXCEPT !.pc = "record",
                       !.sent = o.sent, !.poison = o.poison,
                       !.tx = IF o.sent = "sent" THEN Len(txs'[Job(w)]) ELSE 0]]
    BY <1>8 DEF Send
  <2>2. /\ o.sent \in {"sent", "not-sent", "unknown"}
        /\ o.away \in BOOLEAN /\ o.poison \in BOOLEAN
    BY OutcomesTyped
  <2>3. Job(w) \in Intents
    BY <1>8, <1>j DEF Send, At
  <2>4. /\ DOMAIN txs' = Intents /\ \A i \in Intents : \E T : txs'[i] \in Seq(T)
        /\ Len(txs'[Job(w)]) \in Nat
    BY <2>1, <2>2, <2>3, AwayAppends
  <2>5. PICK n \in Nat : n = IF o.sent = "sent" THEN Len(txs'[Job(w)]) ELSE 0
    BY <2>4
  <2>6. PICK a : a = [run[w] EXCEPT !.pc = "record"]
    OBVIOUS
  <2>7. PICK b : b = [a EXCEPT !.sent = o.sent]
    OBVIOUS
  <2>8. PICK c : c = [b EXCEPT !.poison = o.poison]
    OBVIOUS
  <2>9. PICK d : d = [c EXCEPT !.tx = n]
    OBVIOUS
  <2>10. a \in Local
    BY <2>6, <1>t DEF Local, Calls
  <2>11. b \in Local
    BY <2>2, <2>7, <2>10 DEF Local
  <2>12. c \in Local
    BY <2>2, <2>8, <2>11 DEF Local
  <2>13. d \in Local
    BY <2>5, <2>9, <2>12 DEF Local
  <2>14. run' = [run EXCEPT ![w] = d]
    BY <2>1, <2>5, <2>6, <2>7, <2>8, <2>9
  <2>15. casts' = casts
    BY <1>8 DEF Send
  <2>16. QED
    BY <2>4, <2>13, <2>14, <2>15, <1>t DEF LocalsTyped
<1>9. CASE Panic(w)
  <2>1. PICK away \in BOOLEAN : Away(w, away)
    BY <1>9 DEF Panic
  <2>2. /\ DOMAIN txs' = Intents /\ \A i \in Intents : \E T : txs'[i] \in Seq(T)
    BY <2>1, <1>9, <1>j, AwayAppends DEF Panic, At
  <2>3. Leave(w, "drop") /\ casts' = casts
    BY <1>9 DEF Panic
  <2>4. QED
    BY <2>2, <2>3, LeaveMoves, <1>t DEF Calls, LocalsTyped
<1>10. CASE Record(w)
  <2>1. PICK i \in Intents : i = Job(w)
    BY <1>10, <1>j DEF Record, At
  <2>2. casts' \in [Intents -> Cast \union {None}]
    <3>1. [sent |-> run[w].sent, fee |-> run[w].fee,
           tries |-> IF casts[i] = None THEN 1 ELSE casts[i].tries + 1] \in Cast
      BY <1>t DEF Local, Cast
    <3>2. QED
      BY <1>10, <2>1, <3>1, <1>t DEF Record
  <2>3. txs' = txs
    BY <1>10 DEF Record
  <2>4. run' \in [Workers -> Local] /\ \A v \in Workers : v # w => run'[v] = run[v]
    BY <1>10, GotoMoves, LeaveMoves DEF Record, Calls
  <2>5. QED
    BY <2>2, <2>3, <2>4 DEF LocalsTyped
<1>11. CASE Unwind(w)
  <2>1. PICK l : l = [Idle EXCEPT !.pc = run[w].then, !.poison = run[w].poison]
    OBVIOUS
  <2>2. l \in Local
    BY <2>1, <1>t DEF Local, Idle, Calls
  <2>3. QED
    BY <1>11, <2>1, <2>2, <1>u DEF Unwind
<1>12. CASE RescueWait(w) \/ NoGap(w) \/ Judge(w) \/ Weigh(w) \/ Fault(w)
  BY <1>12, <1>g, <1>l DEF RescueWait, NoGap, Judge, Weigh, Fault, Calls
<1>13. CASE TakeGap(w) \/ GiveUp(w) \/ Void(w) \/ Park(w)
  BY <1>13, <1>g DEF TakeGap, GiveUp, Void, Park, Calls
<1>14. CASE Rescue(w)
  <2>1. PICK fee : fee = IF LastCast(Job(w)).sent = "not-sent" THEN 0
                         ELSE LastCast(Job(w)).fee + 1
    OBVIOUS
  <2>2. fee \in Nat
    BY <1>14, <2>1, <1>j, <1>t DEF Rescue, At, LastCast, Cast
  <2>3. PICK kind \in {"pay", "cancel"} :
          kind = IF LastCast(Job(w)).tries >= MaxTries THEN "cancel" ELSE "pay"
    OBVIOUS
  <2>4. UNCHANGED <<casts, txs>>
    BY <1>14 DEF Rescue
  <2>5. \/ Goto(w, "review")
        \/ run' = [run EXCEPT ![w] = [@ EXCEPT !.pc = "gap", !.fee = fee,
                                               !.kind = kind]]
    BY <1>14, <2>1, <2>3 DEF Rescue
  <2>6. PICK a : a = [run[w] EXCEPT !.pc = "gap"]
    OBVIOUS
  <2>7. PICK b : b = [a EXCEPT !.fee = fee]
    OBVIOUS
  <2>8. PICK c : c = [b EXCEPT !.kind = kind]
    OBVIOUS
  <2>9. a \in Local
    BY <2>6, <1>t DEF Local, Calls
  <2>10. b \in Local
    BY <2>2, <2>7, <2>9 DEF Local
  <2>11. c \in Local
    BY <2>8, <2>10 DEF Local
  <2>12. Goto(w, "review") \/ run' = [run EXCEPT ![w] = c]
    BY <2>5, <2>6, <2>7, <2>8
  <2>13. QED
    BY <2>4, <2>11, <2>12, <1>g, <1>u DEF Calls
<1>15. CASE EndOfRun(w)
  BY <1>15, <1>u DEF EndOfRun, Idle, Local, Calls
<1>16. QED
  BY <1>1, <1>2, <1>3, <1>4, <1>5, <1>6, <1>7, <1>8, <1>9, <1>10, <1>11, <1>12,
     <1>13, <1>14, <1>15 DEF WorkerStep
-----------------------------------------------------------------------------
\* Where Leave may lead.
Ends == {"judge", "ack", "nack", "drop"}
LeavesToAnEnd == \A w \in Workers : At(w, {"unwind"}) => run[w].then \in Ends

\* On the way to an Ack, with or without a stop at Resolve.
Acking(w) == At(w, {"ack"}) \/ (At(w, {"unwind"}) /\ run[w].then = "ack")

\* Which action leads to the calls the invariants speak of.
LEMMA WhereFrom ==
  ASSUME LocalsTyped, LeavesToAnEnd, NEW w \in Workers, WorkerStep(w)
  PROVE  LET pc == run'[w].pc
         IN  /\ pc = "idle" => EndOfRun(w)
             /\ pc = "hold" => Cas(w) /\ At(w, {"claim"})
             /\ pc = "send" => Hold(w)
             /\ pc = "record" => Send(w)
             /\ pc = "confirm" => Record(w)
             /\ pc = "void" => Weigh(w)
             /\ pc = "fail" => Void(w)
             /\ pc \in {"gap", "fresh", "replace"} =>
                  \/ At(w, {"gap", "fresh"})
                  \/ CanReplace
             /\ pc = "unwind" => run'[w].then \in Ends
             /\ Acking(w)' => Read(w) \/ Cas(w) \/ CasLost(w) \/ Park(w)
                              \/ (Unwind(w) /\ Acking(w))
<1> DEFINE Fine == LET pc == run'[w].pc
         IN  /\ pc = "idle" => EndOfRun(w)
             /\ pc = "hold" => Cas(w) /\ At(w, {"claim"})
             /\ pc = "send" => Hold(w)
             /\ pc = "record" => Send(w)
             /\ pc = "confirm" => Record(w)
             /\ pc = "void" => Weigh(w)
             /\ pc = "fail" => Void(w)
             /\ pc \in {"gap", "fresh", "replace"} =>
                  \/ At(w, {"gap", "fresh"})
                  \/ CanReplace
             /\ pc = "unwind" => run'[w].then \in Ends
             /\ Acking(w)' => Read(w) \/ Cas(w) \/ CasLost(w) \/ Park(w)
                              \/ (Unwind(w) /\ Acking(w))
<1>t. run \in [Workers -> Local] /\ run[w] \in Local
  BY DEF LocalsTyped
<1>l. ASSUME NEW pc \in Ends, pc # "ack", Leave(w, pc)
      PROVE  Fine
  <2>1. run'[w].pc = pc \/ (run'[w].pc = "unwind" /\ run'[w].then = pc)
    BY <1>l, LeaveMoves DEF Ends, Calls
  <2>2. QED
    BY <1>l, <2>1 DEF Acking, At, Ends
<1>1. CASE Lease(w)
  <2>1. run'[w].pc = "read"
    BY <1>1, GotoMoves DEF Lease, Calls
  <2>2. QED
    BY <2>1 DEF Acking, At
<1>2. CASE Read(w)
  <2>1. run'[w].pc \in {"judge", "slot", "rescue", "ack"}
    BY <1>2, GotoMoves DEF Read, Branch, Calls
  <2>2. QED
    BY <1>2, <2>1 DEF Acking, At
<1>3. CASE TakeSlot(w)
  <2>1. \/ run'[w].pc = "claim"
        \/ run'[w].pc = "replace" /\ At(w, {"gap", "fresh"})
    BY <1>3, GotoMoves DEF TakeSlot, At, Calls
  <2>2. QED
    BY <2>1 DEF Acking, At
<1>4. CASE NoSlot(w) \/ RescueWait(w) \/ Fault(w) \/ Panic(w)
  BY <1>4, <1>l DEF NoSlot, RescueWait, Fault, Panic, Ends
<1>5. CASE Cas(w)
  <2>1. PICK to \in {"hold", "ack", "park"} : to = CasSteps[run[w].pc].ok
    BY <1>5 DEF Cas, At, CasSteps
  <2>2. to = "hold" => At(w, {"claim"})
    BY <1>5, <2>1 DEF Cas, At, CasSteps
  <2>3. \/ run'[w].pc = to
        \/ run'[w].pc = "unwind" /\ run'[w].then = to /\ to = "ack"
    BY <1>5, <2>1, GotoMoves, LeaveMoves DEF Cas, Calls
  <2>4. QED
    BY <1>5, <2>2, <2>3 DEF Acking, At, Ends
<1>6. CASE CasLost(w)
  <2>1. PICK to \in Ends : to = CasSteps[run[w].pc].lost
    BY <1>6 DEF CasLost, At, CasSteps, Ends
  <2>2. run'[w].pc = to \/ (run'[w].pc = "unwind" /\ run'[w].then = to)
    BY <1>6, <2>1, LeaveMoves DEF CasLost, Calls, Ends
  <2>3. QED
    BY <1>6, <2>2 DEF Acking, At, Ends
<1>7. CASE Hold(w)
  <2>1. CASE Goto(w, "send")
    <3>1. run'[w].pc = "send"
      BY <2>1, GotoMoves DEF Calls
    <3>2. QED
      BY <1>7, <3>1 DEF Acking, At
  <2>2. QED
    BY <1>7, <2>1, <1>l DEF Hold, Ends
<1>8. CASE Send(w)
  <2>1. run'[w].pc = "record"
    BY <1>8, <1>t DEF Send, Local
  <2>2. QED
    BY <1>8, <2>1 DEF Acking, At
<1>9. CASE Record(w)
  <2>1. CASE Leave(w, "judge")
    BY <2>1, <1>l DEF Ends
  <2>2. CASE Goto(w, "clear") \/ Goto(w, "confirm")
    <3>1. run'[w].pc \in {"clear", "confirm"}
      BY <2>2, GotoMoves DEF Calls
    <3>2. QED
      BY <1>9, <3>1 DEF Acking, At
  <2>3. QED
    BY <1>9, <2>1, <2>2 DEF Record
<1>10. CASE Unwind(w)
  <2>1. PICK l : l = [Idle EXCEPT !.pc = run[w].then, !.poison = run[w].poison]
    OBVIOUS
  <2>2. l.pc = run[w].then /\ run[w].then \in Ends
    BY <1>10, <2>1 DEF Unwind, Idle, LeavesToAnEnd
  <2>3. run'[w].pc = run[w].then
    BY <1>10, <1>t, <2>1, <2>2 DEF Unwind
  <2>4. QED
    BY <1>10, <2>2, <2>3 DEF Acking, At, Ends, Unwind
<1>11. CASE Rescue(w)
  <2>1. CASE Goto(w, "review")
    <3>1. run'[w].pc = "review"
      BY <2>1, GotoMoves DEF Calls
    <3>2. QED
      BY <3>1 DEF Acking, At
  <2>2. CASE ~Goto(w, "review")
    <3>1. CanReplace /\ run'[w].pc = "gap"
      BY <1>11, <2>2, <1>t DEF Rescue, Local
    <3>2. QED
      BY <3>1 DEF Acking, At
  <2>3. QED
    BY <2>1, <2>2
<1>12. CASE TakeGap(w)
  <2>1. run'[w].pc = "replace" /\ At(w, {"gap", "fresh"})
    BY <1>12, GotoMoves DEF TakeGap, Calls, At
  <2>2. QED
    BY <2>1 DEF Acking, At
<1>13. CASE NoGap(w)
  <2>1. run'[w].pc \in {"review", "fresh"} /\ At(w, {"gap", "fresh"})
    BY <1>13, GotoMoves DEF NoGap, Calls, At
  <2>2. QED
    BY <2>1 DEF Acking, At
<1>14. CASE Judge(w)
  <2>1. run'[w].pc \in {"giveup", "nack"}
    BY <1>14, GotoMoves DEF Judge, Calls
  <2>2. QED
    BY <2>1 DEF Acking, At
<1>15. CASE GiveUp(w)
  <2>1. run'[w].pc \in {"weigh", "park"}
    BY <1>15, GotoMoves DEF GiveUp, Calls
  <2>2. QED
    BY <2>1 DEF Acking, At
<1>16. CASE Weigh(w)
  <2>1. run'[w].pc \in {"void", "suspend"}
    BY <1>16, GotoMoves DEF Weigh, Calls
  <2>2. QED
    BY <1>16, <2>1 DEF Acking, At
<1>17. CASE Void(w)
  <2>1. run'[w].pc \in {"drop", "fail"}
    BY <1>17, GotoMoves DEF Void, Calls
  <2>2. QED
    BY <1>17, <2>1 DEF Acking, At
<1>18. CASE Park(w)
  <2>1. run'[w].pc = "ack"
    BY <1>18, GotoMoves DEF Park, Calls
  <2>2. QED
    BY <1>18, <2>1 DEF Acking, At
<1>19. CASE EndOfRun(w)
  <2>1. run'[w].pc = "idle"
    BY <1>19, <1>t DEF EndOfRun, Idle
  <2>2. QED
    BY <1>19, <2>1 DEF Acking, At
<1>20. QED
  BY <1>1, <1>2, <1>3, <1>4, <1>5, <1>6, <1>7, <1>8, <1>9, <1>10, <1>11, <1>12,
     <1>13, <1>14, <1>15, <1>16, <1>17, <1>18, <1>19 DEF WorkerStep
-----------------------------------------------------------------------------
\* A worker takes and ends its own deliveries and copies; a delivery stays as
\* long as the worker is away from the start of RunOnce.
LEMMA DeliveriesStay ==
  ASSUME LocalsTyped, CopyIsOfTheJob, LeavesToAnEnd, IP!IntentInv, QP!ListInv,
         NEW w \in Workers, WorkerStep(w)
  PROVE  /\ \A v \in Workers : v # w => held'[v] = held[v] /\ copy'[v] = copy[v]
         /\ run[w].pc # "idle" /\ run'[w].pc # "idle" => held'[w] = held[w]
         /\ CopyIsOfTheJob'
<1>t. /\ run \in [Workers -> Local] /\ run[w] \in Local
      /\ held \in [Workers -> QP!Delivery \union {None}]
      /\ copy \in [Workers -> IP!Copy \union {None}]
  BY DEF LocalsTyped, QP!ListInv, QP!QueueTypeOK, IP!IntentInv
<1>n. /\ run' \in [Workers -> Local]
      /\ \A v \in Workers : v # w => run'[v] = run[v]
      /\ run'[w].pc = "idle" => EndOfRun(w)
  BY LocalsStep, WhereFrom DEF LocalsTyped
<1>d. None \notin QP!Delivery
  BY NoneIsNothing DEF Q!Delivery, QP!Delivery
<1>a. \A v \in Workers : v # w => (At(v, {"idle"})' <=> held[v] = None)
  BY <1>n DEF CopyIsOfTheJob, At
<1>o. \A v \in Workers : At(v, {"idle"}) <=> held[v] = None
  BY DEF CopyIsOfTheJob
<1>i. /\ At(w, {"idle"}) => Lease(w)
      /\ Lease(w) => At(w, {"idle"}) /\ run'[w].pc = "read"
      /\ EndOfRun(w) => run'[w].pc = "idle"
  <2>1. At(w, {"idle"}) => Lease(w)
    BY DEF WorkerStep, At, Lease, Read, TakeSlot, NoSlot, Cas, CasLost, CasSteps,
           Hold, Send, Panic, Record, Unwind, RescueWait, Rescue, TakeGap, NoGap,
           Judge, GiveUp, Weigh, Void, Park, Fault, EndOfRun
  <2>2. Lease(w) => At(w, {"idle"}) /\ run'[w].pc = "read"
    BY GotoMoves DEF Lease, Calls
  <2>3. EndOfRun(w) => run'[w].pc = "idle"
    BY <1>t DEF EndOfRun, Idle
  <2>4. QED
    BY <2>1, <2>2, <2>3
<1>1. CASE Lease(w)
  <2>1. PICK d \in QP!Delivery : held' = [held EXCEPT ![w] = d] /\ held[w] = None
    <3>1. PICK j \in Intents, k \in DOMAIN order :
            LET n == slot[j].attempt + 1
            IN  /\ Q!Foremost(k, j)
                /\ n <= MaxDeliveries
                /\ slot' = [slot EXCEPT ![j] = [attempt |-> n, vis |-> "leased"]]
                /\ held' = [held EXCEPT
                      ![w] = [job |-> j, attempt |-> n, round |-> round[j]]]
      BY <1>1 DEF Lease, Q!Lease
    <3>2. slot[j].attempt \in Nat /\ round[j] \in Nat
      <4>1. PICK n \in Nat : DOMAIN order = 1 .. n
        BY LenProperties DEF QP!ListInv, QP!QueueTypeOK
      <4>2. slot[j] # None /\ slot \in [Intents -> QP!Slot \union {None}]
        BY <3>1, <4>1 DEF QP!ListInv, QP!OrderListsTheJobs, QP!QueueTypeOK,
                          Q!Foremost, QP!ToSet
      <4>3. QED
        BY <4>2 DEF QP!ListInv, QP!QueueTypeOK, QP!Slot
    <3>3. [job |-> j, attempt |-> slot[j].attempt + 1, round |-> round[j]]
            \in QP!Delivery
      BY <3>2 DEF QP!Delivery
    <3>4. held[w] = None
      BY <1>1 DEF Lease, Q!Lease
    <3>5. QED
      BY <3>1, <3>3, <3>4
  <2>2. copy' = copy
    BY <1>1 DEF Lease, intentVars
  <2>3. held'[w] # None /\ \A v \in Workers : v # w => held'[v] = held[v]
    BY <2>1, <1>t, <1>d
  <2>4. copy[w] = None
    BY <2>1 DEF CopyIsOfTheJob
  <2>5. CopyIsOfTheJob'
    BY <2>2, <2>3, <2>4, <1>1, <1>a, <1>i DEF CopyIsOfTheJob, At, Job
  <2>6. QED
    BY <2>2, <2>3, <2>5, <1>1, <1>i DEF At
<1>2. CASE EndOfRun(w)
  <2>1. held' = [held EXCEPT ![w] = None]
    BY <1>2 DEF EndOfRun, Q!Ack, Q!Nack, Q!Drop
  <2>2. copy' = [copy EXCEPT ![w] = None]
    BY <1>2, <1>t DEF EndOfRun, I!Forget, intentVars
  <2>3. /\ held'[w] = None /\ copy'[w] = None
        /\ \A v \in Workers : v # w => held'[v] = held[v] /\ copy'[v] = copy[v]
    BY <2>1, <2>2, <1>t
  <2>4. CopyIsOfTheJob'
    BY <2>3, <1>2, <1>a, <1>i DEF CopyIsOfTheJob, At, Job
  <2>5. QED
    BY <2>3, <2>4, <1>2, <1>i
<1>3. CASE ~Lease(w) /\ ~EndOfRun(w)
  <2>1. held' = held
    BY <1>3 DEF WorkerStep, Read, TakeSlot, NoSlot, Cas, CasLost,
           Hold, Send, Panic, Record, Unwind, RescueWait, Rescue, TakeGap, NoGap,
           Judge, GiveUp, Weigh, Void, Park, Fault, queueVars
  <2>2. \/ copy' = copy
        \/ Read(w) \/ GiveUp(w) \/ Cas(w) \/ CasLost(w)
    BY <1>3 DEF WorkerStep, TakeSlot, NoSlot, intentVars,
           Hold, Send, Panic, Record, Unwind, RescueWait, Rescue, TakeGap, NoGap,
           Judge, Weigh, Void, Park, Fault
  <2>3. /\ \A v \in Workers : v # w => copy'[v] = copy[v]
        /\ copy'[w] # None => held[w] # None /\ copy'[w].id = Job(w)
    <3>0. held[w] # None
      BY <1>3, <1>i, <1>o
    <3>1. CASE copy' = copy
      BY <3>1 DEF CopyIsOfTheJob
    <3>2. CASE Read(w) \/ GiveUp(w)
      BY <3>2, <3>0, <1>t DEF Read, GiveUp, I!Read
    <3>3. CASE CasLost(w)
      BY <3>3, <3>0, <1>t DEF CasLost, I!Conflict
    <3>4. CASE Cas(w)
      <4>1. /\ copy[w] # None
            /\ copy' = [copy EXCEPT ![w].it = I!Applied(copy[w].it, Asks(w))]
        BY <3>4 DEF Cas, I!Advance
      <4>2. copy[w] \in IP!Copy
        BY <4>1, <1>t
      <4>3. PICK c : c = [copy[w] EXCEPT !.it = I!Applied(copy[w].it, Asks(w))]
        OBVIOUS
      <4>4. c.id = copy[w].id /\ copy' = [copy EXCEPT ![w] = c]
        BY <4>1, <4>2, <4>3 DEF IP!Copy
      <4>5. QED
        BY <4>1, <4>4, <3>0, <1>t DEF CopyIsOfTheJob
    <3>5. QED
      BY <2>2, <3>1, <3>2, <3>3, <3>4
  <2>4. CopyIsOfTheJob'
    <3>1. ~At(w, {"idle"}) /\ ~At(w, {"idle"})'
      BY <1>3, <1>i, <1>n DEF At
    <3>2. QED
      BY <2>1, <2>3, <3>1, <1>a, <1>o DEF CopyIsOfTheJob, Job
  <2>5. QED
    BY <2>1, <2>3, <2>4
<1>4. QED
  BY <1>1, <1>2, <1>3
-----------------------------------------------------------------------------
\* The relayer uses the queue only through its operations.
LEMMA QueueUsed ==
  ASSUME RelayerAssumption, Next
  PROVE  [QP!Next]_queueVars
<1>1. ASSUME NEW i \in Intents, Create(i) \/ APIAdvance(i, "authorized")
                                \/ APIAdvance(i, "canceled")
      PROVE  UNCHANGED queueVars
  BY <1>1 DEF Create, APIAdvance, queueVars
<1>2. ASSUME NEW i \in Intents, Enqueue(i)
      PROVE  QP!Next
  BY <1>2 DEF Enqueue, Q!Enqueue, QP!Next, QP!Enqueue
<1>3. ASSUME NEW i \in Intents, Surface(i)
      PROVE  QP!Next
  BY <1>3 DEF Surface, Q!Surface, QP!Next, QP!Surface
<1>4. ASSUME NEW w \in Workers, WorkerStep(w)
      PROVE  [QP!Next]_queueVars
  <2>1. CASE Lease(w)
    <3>1. QP!Lease(w)
      BY <2>1 DEF Lease, Q!Lease, QP!Lease, Q!Foremost, QP!Foremost, Q!Visible,
                  QP!Visible
    <3>2. QED
      BY <3>1 DEF QP!Next
  <2>2. CASE EndOfRun(w)
    <3>1. \/ Q!Ack(w) /\ QP!Ack(w)
          \/ Q!Nack(w) /\ QP!Nack(w)
          \/ Q!Drop(w) /\ QP!Drop(w)
      BY <2>2 DEF EndOfRun, Q!Ack, QP!Ack, Q!Nack, QP!Nack, Q!Drop, QP!Drop,
                  Q!Current, QP!Current, Q!RemoveAt, QP!RemoveAt
    <3>2. QED
      BY <3>1 DEF QP!Next
  <2>3. CASE ~Lease(w) /\ ~EndOfRun(w)
    BY <1>4, <2>3 DEF WorkerStep, Read, TakeSlot, NoSlot, Cas, CasLost,
           Hold, Send, Panic, Record, Unwind, RescueWait, Rescue, TakeGap, NoGap,
           Judge, GiveUp, Weigh, Void, Park, Fault
  <2>4. QED
    BY <2>1, <2>2, <2>3
<1>5. QED
  BY <1>1, <1>2, <1>3, <1>4 DEF Next

\* A worker that asks for a transition asks for one of the requests the intent
\* store knows, if the hash it names is that of a transaction.
LEMMA AsksARequest ==
  ASSUME LocalsTyped, NEW w \in Workers, At(w, DOMAIN CasSteps),
         At(w, {"confirm"}) => run[w].tx # 0
  PROVE  /\ Asks(w) \in IP!Requests
         /\ Asks(w).to = CasSteps[run[w].pc].to /\ Asks(w).by = "relayer"
         /\ At(w, {"confirm"}) => Asks(w).tx = run[w].tx
         /\ At(w, {"confirm"}) <=> Asks(w).to = "confirming"
         /\ Asks(w).to \in {"settling", "confirming", "needs_review", "failed"}
<1>1. run[w].tx \in Nat
  BY DEF LocalsTyped, Local
<1>2. run[w].pc \in {"claim", "confirm", "review", "clear", "suspend", "fail"}
  BY DEF At, CasSteps
<1>3. PICK to \in {"settling", "confirming", "needs_review", "failed"} :
        to = CasSteps[run[w].pc].to
  BY <1>2 DEF CasSteps
<1>4. to = "confirming" <=> At(w, {"confirm"})
  BY <1>2, <1>3 DEF CasSteps, At
<1>5. PICK tx \in (Nat \ {0}) \union {None} :
        tx = IF to = "confirming" THEN run[w].tx ELSE None
  BY <1>1, <1>4
<1>6. PICK reason \in BOOLEAN : reason = (to \in {"needs_review", "failed"})
  <2>1. (to \in {"needs_review", "failed"}) \in BOOLEAN
    OBVIOUS
  <2>2. QED
    BY <2>1, Zenon
<1>7. Asks(w) = [to |-> to, by |-> "relayer", late |-> FALSE, tx |-> tx,
                 reason |-> reason]
  BY <1>3, <1>5, <1>6 DEF Asks
<1>8. QED
  BY <1>3, <1>4, <1>5, <1>7 DEF IP!Requests, IP!States, IP!Terminals, IP!Actors
-----------------------------------------------------------------------------
\* The transaction a worker is about to put on record is one of its payment,
\* and only one that pays is ever confirmed.
TxKnown ==
  \A w \in Workers :
    At(w, {"confirm"}) \/ (At(w, {"record"}) /\ run[w].sent = "sent") =>
      /\ run[w].tx \in 1 .. Len(txs[Job(w)])
      /\ txs[Job(w)][run[w].tx].kind = run[w].kind
      /\ At(w, {"confirm"}) => run[w].kind = "pay"

Base == Shape /\ LeavesToAnEnd /\ TxKnown

\* The API's requests are ones the intent store knows.
LEMMA APIAsksARequest ==
  ASSUME NEW to \in {"authorized", "canceled"}
  PROVE  ByAPI(to) \in IP!Requests
<1>1. PICK reason \in BOOLEAN : reason = (to = "canceled")
  <2>1. (to = "canceled") \in BOOLEAN
    OBVIOUS
  <2>2. QED
    BY <2>1, Zenon
<1>2. ByAPI(to) = [to |-> to, by |-> "api", tx |-> None, reason |-> reason,
                   late |-> FALSE]
  BY <1>1 DEF ByAPI
<1>3. QED
  BY <1>2 DEF IP!Requests, IP!States, IP!Terminals, IP!Actors

\* The relayer uses the intent store only through its operations.
LEMMA IntentsUsed ==
  ASSUME Base, Next
  PROVE  [IP!Next]_intentVars
<1>1. ASSUME NEW i \in Intents, Create(i)
      PROVE  IP!Next
  <2>1. IP!Create(i)
    BY <1>1 DEF Create, I!Create, IP!Create, I!NewIntent, IP!NewIntent
  <2>2. QED
    BY <2>1 DEF IP!Next
<1>2. ASSUME NEW i \in Intents, NEW to \in {"authorized", "canceled"},
             APIAdvance(i, to)
      PROVE  IP!Next
  <2>3. ByAPI(to) \in IP!Requests
    BY APIAsksARequest
  <2>4. IP!AdvanceNow(i, ByAPI(to))
    BY <1>2 DEF APIAdvance, I!AdvanceNow, IP!AdvanceNow, I!Accepts, IP!Accepts,
       I!Rules, IP!Rules, I!Row, IP!Row, I!Guard, IP!Guard, I!Evidence, IP!Evidence,
       I!Terminals, IP!Terminals, I!Applied, IP!Applied, I!TxAfter, IP!TxAfter
  <2>5. QED
    BY <2>3, <2>4 DEF IP!Next
<1>3. ASSUME NEW i \in Intents, Enqueue(i) \/ Surface(i)
      PROVE  UNCHANGED intentVars
  BY <1>3 DEF Enqueue, Surface, intentVars
<1>4. ASSUME NEW w \in Workers, WorkerStep(w)
      PROVE  [IP!Next]_intentVars
  <2>1. CASE Read(w) \/ GiveUp(w)
    <3>1. IP!Read(w, Job(w))
      BY <2>1 DEF Read, GiveUp, I!Read, IP!Read
    <3>2. held[w] # None
      BY <2>1 DEF Read, GiveUp, At, Base, Shape, CopyIsOfTheJob
    <3>3. Job(w) \in Intents
      BY <3>2 DEF Base, Shape, QP!ListInv, QP!QueueTypeOK, QP!Delivery, Job
    <3>4. QED
      BY <3>1, <3>3 DEF IP!Next
  <2>2. CASE Cas(w) \/ CasLost(w)
    <3>1. At(w, DOMAIN CasSteps) /\ (At(w, {"confirm"}) => run[w].tx # 0)
      BY <2>2 DEF Cas, CasLost, Base, TxKnown
    <3>2. Asks(w) \in IP!Requests
      BY <3>1, AsksARequest DEF Base, Shape
    <3>3. IP!Advance(w, Asks(w)) \/ IP!Conflict(w, Asks(w))
      BY <2>2 DEF Cas, CasLost, I!Advance, IP!Advance, I!Conflict, IP!Conflict,
         I!Accepts, IP!Accepts, I!Current, IP!Current,
         I!Rules, IP!Rules, I!Row, IP!Row, I!Guard, IP!Guard, I!Evidence,
         IP!Evidence, I!Terminals, IP!Terminals, I!Applied, IP!Applied,
         I!TxAfter, IP!TxAfter
    <3>4. QED
      BY <3>2, <3>3 DEF IP!Next
  <2>3. CASE EndOfRun(w)
    <3>1. IP!Forget(w) \/ UNCHANGED intentVars
      BY <2>3 DEF EndOfRun, I!Forget, IP!Forget
    <3>2. QED
      BY <3>1 DEF IP!Next
  <2>4. CASE ~(Read(w) \/ GiveUp(w) \/ Cas(w) \/ CasLost(w) \/ EndOfRun(w))
    BY <1>4, <2>4 DEF WorkerStep, Lease, TakeSlot, NoSlot, Hold, Send, Panic,
       Record, Unwind, RescueWait, Rescue, TakeGap, NoGap, Judge, Weigh, Void,
       Park, Fault
  <2>5. QED
    BY <2>1, <2>2, <2>3, <2>4
<1>5. QED
  BY <1>1, <1>2, <1>3, <1>4 DEF Next

\* So what is proved of the intent store and of the queue holds here.
LEMMA StoresStaySound ==
  ASSUME Base, Next
  PROVE  IP!IntentInv' /\ QP!ListInv'
<1>1. [IP!Next]_intentVars /\ [QP!Next]_queueVars
  BY IntentsUsed, QueueUsed, RelayerAssumption
<1>2. IP!IntentInv'
  <2>1. None \notin Nat \ {0} /\ None \notin IP!IntentRecord
    BY NoneIsNothing DEF I!IntentRecord, IP!IntentRecord, I!States, IP!States,
       I!Terminals, IP!Terminals, I!Transition, IP!Transition, I!Actors, IP!Actors
  <2>2. [IP!Next]_IP!intentVars
    BY <1>1 DEF intentVars, IP!intentVars
  <2>3. QED
    BY <2>1, <2>2, IP!IntentInvInductive
       DEF Base, Shape, IP!IntentAssumption, IP!NoneIsNoIntent
<1>3. QP!ListInv'
  <2>1. None \notin QP!Slot /\ MaxDeliveries \in Nat /\ MaxRounds \in Nat
    BY NoneIsNothing, RelayerAssumption DEF Q!Slot, QP!Slot
  <2>2. None \notin QP!Delivery
    BY NoneIsNothing DEF Q!Delivery, QP!Delivery
  <2>3. QP!PoolAssumption
    BY RelayerAssumption DEF QP!PoolAssumption, QP!IsFiniteSet, IsFiniteSet
  <2>4. [QP!Next]_QP!queueVars
    BY <1>1 DEF queueVars, QP!queueVars
  <2>5. QED
    BY <2>1, <2>2, <2>3, <2>4, QP!ListInvInductive
       DEF Base, Shape, QP!QueueAssumption, QP!NoneIsNoSlot, QP!NoneIsNoDelivery
<1>4. QED
  BY <1>2, <1>3
-----------------------------------------------------------------------------
\* Transactions are only added, by a worker in a call of the sender, to its
\* own payment.
LEMMA TxsGrow ==
  ASSUME LocalsTyped, CopyIsOfTheJob, QP!ListInv, NEW w \in Workers, WorkerStep(w),
         NEW i \in Intents
  PROVE  /\ Len(txs[i]) \in Nat /\ Len(txs'[i]) \in Nat
         /\ DOMAIN txs[i] = 1 .. Len(txs[i]) /\ DOMAIN txs'[i] = 1 .. Len(txs'[i])
         /\ Len(txs[i]) <= Len(txs'[i])
         /\ \A k \in 1 .. Len(txs[i]) : txs'[i][k] = txs[i][k]
         /\ txs'[i] # txs[i] => /\ At(w, {"send", "replace"}) /\ i = Job(w)
                                /\ Len(txs'[i]) = Len(txs[i]) + 1
<1>0. LocalsTyped'
  BY LocalsStep
<1>1. /\ Len(txs[i]) \in Nat /\ Len(txs'[i]) \in Nat
      /\ DOMAIN txs[i] = 1 .. Len(txs[i]) /\ DOMAIN txs'[i] = 1 .. Len(txs'[i])
  BY <1>0, LenProperties DEF LocalsTyped
<1>2. CASE txs' = txs
  BY <1>1, <1>2
<1>3. CASE At(w, {"send", "replace"}) /\ \E away \in BOOLEAN : Away(w, away)
  <2>1. PICK away \in BOOLEAN : Away(w, away)
    BY <1>3
  <2>2. Job(w) \in Intents
    BY <1>3 DEF CopyIsOfTheJob, At, Job, QP!ListInv, QP!QueueTypeOK, QP!Delivery
  <2>3. QED
    BY <1>1, <1>3, <2>1, <2>2, AwayAppends
<1>4. CASE Send(w)
  BY <1>4, <1>3, OutcomesTyped DEF Send
<1>5. CASE Panic(w)
  BY <1>5, <1>3 DEF Panic
<1>6. CASE ~Send(w) /\ ~Panic(w)
  BY <1>2, <1>6 DEF WorkerStep, Lease, Read, TakeSlot, NoSlot, Cas, CasLost, Hold,
     Record, Unwind, RescueWait, Rescue, TakeGap, NoGap, Judge, GiveUp, Weigh, Void,
     Park, Fault, EndOfRun
<1>7. QED
  BY <1>4, <1>5, <1>6

\* What a request makes of a sound record is a record.
LEMMA AppliedIsARecord ==
  ASSUME NEW it, IP!Sound(it), NEW req \in IP!Requests, I!Accepts(it, req)
  PROVE  I!Applied(it, req) # None
<1>1. IP!Accepts(it, req) /\ I!Applied(it, req) = IP!Applied(it, req)
  BY DEF I!Accepts, IP!Accepts, I!Rules, IP!Rules, I!Row, IP!Row, I!Guard, IP!Guard,
     I!Evidence, IP!Evidence, I!Terminals, IP!Terminals, I!Applied, IP!Applied,
     I!TxAfter, IP!TxAfter
<1>2. None \notin Nat \ {0} /\ None \notin IP!IntentRecord
  BY NoneIsNothing DEF I!IntentRecord, IP!IntentRecord, I!States, IP!States,
     I!Terminals, IP!Terminals, I!Transition, IP!Transition, I!Actors, IP!Actors
<1>3. IP!Applied(it, req) \in IP!IntentRecord
  BY <1>1, <1>2, IP!ApplyIsSound DEF IP!IntentAssumption, IP!NoneIsNoIntent
<1>4. QED
  BY <1>1, <1>2, <1>3

\* What the API does to an intent.
LEMMA APIMoves ==
  ASSUME Base, NEW j \in Intents,
         Create(j) \/ APIAdvance(j, "authorized") \/ APIAdvance(j, "canceled"),
         NEW i \in Intents, store'[i] # store[i]
  PROVE  /\ store'[i] # None
         /\ \/ store[i] = None /\ store'[i].state = "created"
            \/ store[i] # None /\ store[i].state = "created"
                 /\ store'[i].state = "authorized"
            \/ store[i] # None /\ store[i].state \in {"created", "authorized"}
                 /\ store'[i].state = "canceled"
<1>t. store \in [Intents -> IP!IntentRecord \union {None}]
  BY DEF Base, Shape, IP!IntentInv
<1>n. None \notin IP!IntentRecord
  BY NoneIsNothing DEF I!IntentRecord, IP!IntentRecord, I!States, IP!States,
     I!Terminals, IP!Terminals, I!Transition, IP!Transition, I!Actors, IP!Actors
<1>s. IP!IntentInv'
  <2>1. Next
    BY DEF Next
  <2>2. QED
    BY <2>1, StoresStaySound
<1>1. CASE Create(j)
  <2>1. store[j] = None /\ store' = [store EXCEPT ![j] = I!NewIntent]
    BY <1>1 DEF Create, I!Create
  <2>2. i = j /\ store'[i] = I!NewIntent
    BY <2>1, <1>t
  <2>3. I!NewIntent \in IP!IntentRecord
    BY <2>2, <1>s, <2>1, <1>t, <1>n DEF I!NewIntent, IP!IntentInv,
       IP!IntentRecord, IP!States
  <2>4. QED
    BY <2>1, <2>2, <2>3, <1>n DEF I!NewIntent
<1>2. ASSUME NEW to \in {"authorized", "canceled"}, APIAdvance(j, to)
      PROVE  /\ i = j /\ store[i] # None /\ store'[i] # None
             /\ store'[i].state = to
             /\ store[i].state \in {"created", "authorized"}
             /\ to = "authorized" => store[i].state = "created"
  <2>1. /\ store[j] # None /\ I!Accepts(store[j], ByAPI(to))
        /\ store' = [store EXCEPT ![j] = I!Applied(store[j], ByAPI(to))]
    BY <1>2 DEF APIAdvance, I!AdvanceNow
  <2>2. ByAPI(to).to = to
    BY DEF ByAPI
  <2>3. PICK r \in I!Rules : r.from = store[j].state /\ r.to = to
    BY <2>1, <2>2 DEF I!Accepts
  <2>4. /\ r.from \in {"created", "authorized"}
        /\ to = "authorized" => r.from = "created"
    BY <2>3 DEF I!Rules, I!Row
  <2>5. i = j /\ store'[i] = I!Applied(store[j], ByAPI(to))
    BY <2>1, <1>t
  <2>6. store'[i].state = to
    BY <2>2, <2>5 DEF I!Applied
  <2>7. store'[i] # None
    <3>1. IP!Sound(store[j])
      BY <2>1 DEF Base, Shape, IP!IntentInv
    <3>2. QED
      BY <2>1, <2>5, <3>1, APIAsksARequest, AppliedIsARecord
  <2>8. QED
    BY <2>1, <2>3, <2>4, <2>5, <2>6, <2>7
<1>3. QED
  BY <1>1, <1>2

\* What a successful save of a worker does: one transition of its own payment,
\* from the state of its copy, which is the saved one.
LEMMA CasDoes ==
  ASSUME Base, NEW w \in Workers, Cas(w), NEW i, i = Job(w)
  PROVE  /\ i \in Intents /\ store[i] # None /\ store'[i] # None
         /\ \A j \in Intents : j # i => store'[j] = store[j]
         /\ store'[i].state = CasSteps[run[w].pc].to
         /\ store[i].state = IF At(w, {"claim"}) THEN "authorized" ELSE "settling"
         /\ At(w, {"confirm"}) => store'[i].tx = run[w].tx
<1>t. /\ store \in [Intents -> IP!IntentRecord \union {None}]
      /\ copy \in [Workers -> IP!Copy \union {None}]
  BY DEF Base, Shape, IP!IntentInv
<1>2. PICK j : j = copy[w].id
  OBVIOUS
<1>3. PICK it : it = copy[w].it
  OBVIOUS
<1>4. /\ copy[w] # None /\ I!Accepts(it, Asks(w)) /\ I!Current(w)
      /\ store' = [store EXCEPT ![j] = I!Applied(it, Asks(w))]
  BY <1>2, <1>3 DEF Cas, I!Advance
<1>5. j = Job(w) /\ j \in Intents
  BY <1>2, <1>4, <1>t DEF Base, Shape, CopyIsOfTheJob, IP!Copy
<1>6. /\ store[j] = it /\ store[j] # None /\ IP!Sound(it)
  BY <1>2, <1>3, <1>4 DEF I!Current, Base, Shape, IP!IntentInv, IP!CopyIsPast
<1>7. i = j /\ store'[i] = I!Applied(it, Asks(w))
  BY <1>4, <1>5, <1>t
<1>8. At(w, DOMAIN CasSteps) /\ (At(w, {"confirm"}) => run[w].tx # 0)
  BY DEF Cas, Base, TxKnown
<1>9. /\ Asks(w) \in IP!Requests
      /\ Asks(w).to = CasSteps[run[w].pc].to /\ Asks(w).by = "relayer"
      /\ At(w, {"confirm"}) => Asks(w).tx = run[w].tx
      /\ At(w, {"confirm"}) <=> Asks(w).to = "confirming"
      /\ Asks(w).to \in {"settling", "confirming", "needs_review", "failed"}
  BY <1>8, AsksARequest DEF Base, Shape
<1>10. store'[i] # None
  BY <1>4, <1>6, <1>7, <1>9, AppliedIsARecord
<1>11. it.state = IF At(w, {"claim"}) THEN "authorized" ELSE "settling"
  <2>1. PICK r \in I!Rules : /\ r.from = it.state /\ r.to = Asks(w).to
                             /\ "relayer" \in r.by
    BY <1>4, <1>9 DEF I!Accepts
  <2>2. /\ r.to = "settling" => r.from = "authorized"
        /\ r.to # "settling" => r.from = "settling"
    BY <2>1 DEF I!Rules, I!Row
  <2>3. Asks(w).to = "settling" <=> At(w, {"claim"})
    BY <1>8, <1>9 DEF At, CasSteps
  <2>4. QED
    BY <2>1, <2>2, <2>3
<1>12. /\ store'[i].state = Asks(w).to
       /\ Asks(w).to = "confirming" => store'[i].tx = Asks(w).tx
  BY <1>7 DEF I!Applied, I!TxAfter
<1>13. QED
  BY <1>4, <1>5, <1>6, <1>7, <1>t, <1>9, <1>10, <1>11, <1>12

\* Nothing else a worker does changes an intent.
LEMMA CasMoves ==
  ASSUME Base, NEW w \in Workers, WorkerStep(w),
         NEW i \in Intents, store'[i] # store[i]
  PROVE  Cas(w) /\ i = Job(w)
<1>1. Cas(w)
  BY DEF WorkerStep, Lease, Read, TakeSlot, NoSlot, CasLost, Hold, Send, Panic,
     Record, Unwind, RescueWait, Rescue, TakeGap, NoGap, Judge, GiveUp, Weigh, Void,
     Park, Fault, EndOfRun, I!Read, I!Conflict, I!Forget, intentVars
<1>2. QED
  BY <1>1, CasDoes

\* What the worker knows of its transaction stays true until it is on record.
LEMMA TxStaysKnown ==
  ASSUME Base, NEW w \in Workers, WorkerStep(w)
  PROVE  TxKnown'
<1>s. /\ LocalsTyped /\ CopyIsOfTheJob /\ LeavesToAnEnd /\ QP!ListInv
      /\ IP!IntentInv
  BY DEF Base, Shape
<1>t. /\ LocalsTyped' /\ CopyIsOfTheJob' /\ run[w] \in Local
      /\ \A v \in Workers : v # w => run'[v] = run[v] /\ held'[v] = held[v]
      /\ run[w].pc # "idle" /\ run'[w].pc # "idle" => held'[w] = held[w]
  BY <1>s, LocalsStep, DeliveriesStay DEF LocalsTyped
<1>j. \A v \in Workers : run[v].pc # "idle" => Job(v) \in Intents
  BY <1>s DEF CopyIsOfTheJob, At, Job, QP!ListInv, QP!QueueTypeOK, QP!Delivery
<1>g. \A i \in Intents :
        /\ Len(txs[i]) \in Nat /\ Len(txs'[i]) \in Nat
        /\ Len(txs[i]) <= Len(txs'[i])
        /\ \A k \in 1 .. Len(txs[i]) : txs'[i][k] = txs[i][k]
  BY <1>s, TxsGrow
<1> SUFFICES ASSUME NEW v \in Workers,
                    At(v, {"confirm"})' \/ (At(v, {"record"})' /\ run'[v].sent = "sent")
             PROVE  /\ run'[v].tx \in 1 .. Len(txs'[held'[v].job])
                    /\ txs'[held'[v].job][run'[v].tx].kind = run'[v].kind
                    /\ run'[v].pc = "confirm" => run'[v].kind = "pay"
  BY DEF TxKnown, At, Job
<1>1. CASE v # w
  <2>1. /\ run'[v] = run[v] /\ held'[v].job = Job(v) /\ Job(v) \in Intents
        /\ run[v].pc \in {"confirm", "record"}
    BY <1>1, <1>t, <1>j DEF At, Job
  <2>2. /\ run[v].tx \in 1 .. Len(txs[Job(v)])
        /\ txs[Job(v)][run[v].tx].kind = run[v].kind
        /\ run[v].pc = "confirm" => run[v].kind = "pay"
    BY <2>1 DEF Base, TxKnown, At
  <2>3. PICK i \in Intents : i = Job(v)
    BY <2>1
  <2>4. run[v].tx \in 1 .. Len(txs'[i]) /\ txs'[i][run[v].tx] = txs[i][run[v].tx]
    BY <2>2, <2>3, <1>g
  <2>5. QED
    BY <2>1, <2>2, <2>3, <2>4
<1>2. CASE v = w /\ run'[w].pc = "confirm"
  <2>1. Record(w)
    BY <1>2, <1>s, WhereFrom
  <2>2. /\ At(w, {"record"}) /\ txs' = txs /\ run[w].sent = "sent"
        /\ Goto(w, "confirm") /\ run[w].kind # "cancel"
    <3>1. ASSUME Leave(w, "judge") PROVE FALSE
      BY <3>1, <1>s, <1>2, LeaveMoves DEF Calls
    <3>2. ASSUME Goto(w, "clear") PROVE FALSE
      BY <3>2, <1>s, <1>2, GotoMoves DEF Calls
    <3>3. QED
      BY <2>1, <3>1, <3>2 DEF Record
  <2>3. run[w].kind = "pay"
    BY <2>2, <1>t DEF Local
  <2>4. /\ run'[w].tx = run[w].tx /\ run'[w].kind = run[w].kind
        /\ held'[w] = held[w]
    BY <2>2, <1>s, <1>t, <1>2, GotoMoves DEF Calls, At
  <2>5. QED
    BY <1>2, <2>2, <2>3, <2>4 DEF Base, TxKnown, Job
<1>3. CASE v = w /\ run'[w].pc = "record"
  <2>0. run'[w].sent = "sent"
    BY <1>3 DEF At
  <2>1. PICK o \in Outcomes :
          /\ Away(w, o.away)
          /\ run' = [run EXCEPT ![w] = [@ EXCEPT !.pc = "record",
                       !.sent = o.sent, !.poison = o.poison,
                       !.tx = IF o.sent = "sent" THEN Len(txs'[Job(w)]) ELSE 0]]
    BY <1>3, <1>s, WhereFrom DEF Send
  <2>2. At(w, {"send", "replace"})
    BY <1>3, <1>s, WhereFrom DEF Send
  <2>3. PICK i \in Intents : i = Job(w)
    BY <2>2, <1>j DEF At
  <2>4. held'[w] = held[w]
    BY <1>3, <2>2, <1>t DEF At
  <2>5. /\ run'[w].kind = run[w].kind /\ run'[w].sent = o.sent
        /\ o.sent = "sent" => run'[w].tx = Len(txs'[i])
    BY <2>1, <2>3, <1>s, <1>t DEF Local, LocalsTyped
  <2>6. o.sent = "sent" /\ o.away
    BY <2>0, <2>5, OutcomesTyped
  <2>7. /\ Len(txs'[i]) = Len(txs[i]) + 1 /\ Len(txs[i]) \in Nat
        /\ txs'[i][Len(txs[i]) + 1].kind = run[w].kind
    BY <2>1, <2>3, <2>6, <1>s, AwayAppends
  <2>8. PICK n \in Nat : n = Len(txs[i]) + 1
    BY <2>7
  <2>9. held'[v].job = i /\ run'[v].tx = n /\ Len(txs'[i]) = n /\ n \in 1 .. n
    BY <1>3, <2>3, <2>4, <2>5, <2>6, <2>7, <2>8 DEF Job
  <2>10. txs'[i][n].kind = run'[v].kind
    BY <1>3, <2>5, <2>7, <2>8
  <2>11. QED
    BY <1>3, <2>9, <2>10
<1>4. QED
  BY <1>1, <1>2, <1>3 DEF At

\* The API, producers and the clock touch nothing a worker keeps.
APIStep(j) ==
  Create(j) \/ APIAdvance(j, "authorized") \/ APIAdvance(j, "canceled")
WorldStep(j) == APIStep(j) \/ Enqueue(j) \/ Surface(j)

LEMMA WorldLeavesWorkers ==
  ASSUME NEW j \in Intents, WorldStep(j)
  PROVE  /\ UNCHANGED <<copy, held, counterVars, bookVars, casts, parked, run, txs>>
         /\ ~APIStep(j) => store' = store
         /\ APIStep(j) => UNCHANGED queueVars
BY DEF WorldStep, APIStep, Create, APIAdvance, Enqueue, Surface, I!Create,
       I!AdvanceNow, Q!Enqueue, Q!Surface, intentVars, queueVars

LEMMA BaseInductive == Base /\ [Next]_vars => Base'
<1> SUFFICES ASSUME Base, [Next]_vars PROVE Base'
  OBVIOUS
<1>1. CASE UNCHANGED vars
  BY <1>1 DEF vars, Base, Shape, LocalsTyped, CopyIsOfTheJob, LeavesToAnEnd,
     TxKnown, At, Job, IP!IntentInv, IP!CopyIsPast, QP!ListInv, QP!QueueTypeOK,
     QP!OrderListsTheJobs
<1>2. ASSUME NEW j \in Intents, WorldStep(j), Next
      PROVE  Base'
  <2>1. UNCHANGED <<copy, held, casts, run, txs>>
    BY <1>2, WorldLeavesWorkers
  <2>2. IP!IntentInv' /\ QP!ListInv'
    BY <1>2, StoresStaySound
  <2>3. LocalsTyped' /\ CopyIsOfTheJob' /\ LeavesToAnEnd' /\ TxKnown'
    BY <2>1 DEF Base, Shape, LocalsTyped, CopyIsOfTheJob, LeavesToAnEnd, TxKnown,
                At, Job
  <2>4. QED
    BY <2>2, <2>3 DEF Base, Shape
<1>3. ASSUME NEW w \in Workers, WorkerStep(w), Next
      PROVE  Base'
  <2>1. IP!IntentInv' /\ QP!ListInv'
    BY <1>3, StoresStaySound
  <2>2. LocalsTyped' /\ CopyIsOfTheJob' /\ \A v \in Workers : v # w => run'[v] = run[v]
    BY <1>3, LocalsStep, DeliveriesStay DEF Base, Shape
  <2>3. LeavesToAnEnd'
    BY <1>3, <2>2, WhereFrom DEF LeavesToAnEnd, At, Base, Shape
  <2>4. TxKnown'
    BY <1>3, TxStaysKnown
  <2>5. QED
    BY <2>1, <2>2, <2>3, <2>4 DEF Base, Shape
<1>4. QED
  BY <1>1, <1>2, <1>3 DEF Next, WorldStep, APIStep

LEMMA BaseAtFirst == Init => Base
<1> SUFFICES ASSUME Init PROVE Base
  OBVIOUS
<1>1. LocalsTyped
  <2>1. Idle \in Local
    BY DEF Idle, Local, Calls
  <2>2. <<>> \in Seq({})
    OBVIOUS
  <2>3. QED
    BY <2>1, <2>2 DEF Init, LocalsTyped
<1>2. CopyIsOfTheJob /\ LeavesToAnEnd /\ TxKnown
  BY DEF Init, I!Init, Q!Init, CopyIsOfTheJob, LeavesToAnEnd, TxKnown, At, Idle
<1>3. IP!IntentInv
  BY DEF Init, I!Init, IP!IntentInv, IP!CopyIsPast
<1>4. QP!ListInv
  <2>1. QP!QueueTypeOK
    BY DEF Init, Q!Init, QP!QueueTypeOK
  <2>2. DOMAIN order = {}
    BY DEF Init, Q!Init
  <2>3. QED
    BY <2>1, <2>2 DEF Init, Q!Init, QP!ListInv, QP!OrderListsTheJobs, QP!ToSet,
                      QP!IsInjective
<1>5. QED
  BY <1>1, <1>2, <1>3, <1>4 DEF Base, Shape

LEMMA BaseHolds == Spec => []Base
BY BaseAtFirst, BaseInductive, PTL DEF Spec

\* RunOnce, the API and the sweep together use the intent store and the queue
\* as their modules say: histories are walks along the table, and the order
\* lists the jobs, in every interleaving of the composition.
THEOREM StoresKeepTheirPromises ==
  Spec => [](IP!HistoryIsAWalk /\ QP!OrderListsTheJobs)
<1>1. Base => IP!HistoryIsAWalk /\ QP!OrderListsTheJobs
  BY DEF Base, Shape, IP!IntentInv, IP!Sound, IP!HistoryIsAWalk, QP!ListInv
<1>2. QED
  BY <1>1, BaseHolds, PTL
-----------------------------------------------------------------------------
\* Record, then confirm: whatever is interleaved, the hash the relayer puts on
\* record is that of a transaction which pays this intent; that of a
\* transaction which only clears a slot is never put there.
THEOREM ConfirmedHashPays == Spec => []ConfirmedByAPayment
<1>1. Init => ConfirmedByAPayment
  BY DEF Init, I!Init, ConfirmedByAPayment
<1>2. ASSUME Base, ConfirmedByAPayment, [Next]_vars
      PROVE  ConfirmedByAPayment'
  <2>1. CASE UNCHANGED vars
    BY <1>2, <2>1 DEF vars, ConfirmedByAPayment, Pays
  <2>2. ASSUME NEW j \in Intents, WorldStep(j)
        PROVE  ConfirmedByAPayment'
    <3> SUFFICES ASSUME NEW i \in Intents, store'[i] # None,
                        store'[i].state = "confirming"
                 PROVE  store'[i].tx \in Pays(i)'
      BY DEF ConfirmedByAPayment
    <3>1. txs' = txs
      BY <2>2, WorldLeavesWorkers
    <3>2. store'[i] = store[i]
      BY <1>2, <2>2, APIMoves, WorldLeavesWorkers DEF APIStep
    <3>3. QED
      BY <1>2, <3>1, <3>2 DEF ConfirmedByAPayment, Pays
  <2>3. ASSUME NEW w \in Workers, WorkerStep(w)
        PROVE  ConfirmedByAPayment'
    <3> SUFFICES ASSUME NEW i \in Intents, store'[i] # None,
                        store'[i].state = "confirming"
                 PROVE  store'[i].tx \in Pays(i)'
      BY DEF ConfirmedByAPayment
    <3>1. /\ Len(txs[i]) \in Nat /\ Len(txs'[i]) \in Nat
          /\ DOMAIN txs[i] = 1 .. Len(txs[i]) /\ DOMAIN txs'[i] = 1 .. Len(txs'[i])
          /\ Len(txs[i]) <= Len(txs'[i])
          /\ \A k \in 1 .. Len(txs[i]) : txs'[i][k] = txs[i][k]
      BY <1>2, <2>3, TxsGrow DEF Base, Shape
    <3>2. Pays(i) \subseteq Pays(i)'
      BY <3>1 DEF Pays
    <3>3. CASE store'[i] = store[i]
      BY <1>2, <3>2, <3>3 DEF ConfirmedByAPayment
    <3>4. CASE store'[i] # store[i]
      <4>1. /\ Cas(w) /\ i = Job(w)
            /\ store'[i].state = CasSteps[run[w].pc].to
            /\ At(w, {"confirm"}) => store'[i].tx = run[w].tx
        BY <1>2, <2>3, <3>4, CasMoves, CasDoes
      <4>2. At(w, {"confirm"})
        BY <4>1 DEF Cas, At, CasSteps
      <4>3. run[w].tx \in Pays(i)
        BY <1>2, <3>1, <4>1, <4>2 DEF Base, TxKnown, Pays
      <4>4. QED
        BY <3>2, <4>1, <4>2, <4>3
    <3>5. QED
      BY <3>3, <3>4
  <2>4. QED
    BY <1>2, <2>1, <2>2, <2>3 DEF Next, WorldStep, APIStep
<1>3. QED
  BY <1>1, <1>2, BaseHolds, PTL DEF Spec
-----------------------------------------------------------------------------
\* The relayer is done with a payment, or a person has its job.
Done(i) ==
  store[i] # None /\ store[i].state \notin {"created", "authorized", "settling"}
Due(i) == i \in parked \/ Done(i)

\* A job is acknowledged only when it is due, and kept until then; a worker
\* whose copy in settling is stale knows that somebody moved the payment on.
AckIsDue == \A w \in Workers : Acking(w) => Due(Job(w))
JobIsKept == \A i \in Intents : round[i] > 0 => slot[i] # None \/ Due(i)
SettlingIsPast ==
  \A w \in Workers : copy[w] # None /\ copy[w].it.state = "settling" =>
    Done(copy[w].id) \/ store[copy[w].id] = copy[w].it
KeptInv == AckIsDue /\ JobIsKept /\ SettlingIsPast

\* Nothing brings a payment back to the relayer, and what leaves settling is
\* done.
LEMMA MovesOn ==
  ASSUME Base, Next, NEW i \in Intents
  PROVE  /\ Done(i) => Done(i)'
         /\ store[i] # None /\ store[i].state = "settling" /\ store'[i] # store[i]
              => Done(i)'
<1>1. CASE store'[i] = store[i]
  BY <1>1 DEF Done
<1>2. CASE store'[i] # store[i]
  <2>1. ASSUME NEW j \in Intents, APIStep(j)
        PROVE  ~Done(i) /\ ~(store[i] # None /\ store[i].state = "settling")
    BY <1>2, <2>1, APIMoves DEF APIStep, Done
  <2>2. ASSUME NEW w \in Workers, WorkerStep(w)
        PROVE  /\ ~Done(i)
               /\ store[i].state = "settling" => Done(i)'
    <3>1. Cas(w) /\ i = Job(w)
      BY <1>2, <2>2, CasMoves
    <3>2. /\ store'[i] # None /\ store'[i].state = CasSteps[run[w].pc].to
          /\ store[i].state = IF At(w, {"claim"}) THEN "authorized" ELSE "settling"
      BY <3>1, CasDoes
    <3>3. ~At(w, {"claim"}) =>
            CasSteps[run[w].pc].to \in {"confirming", "needs_review", "failed"}
      BY <3>1 DEF Cas, At, CasSteps
    <3>4. QED
      BY <3>2, <3>3 DEF Done
  <2>3. ASSUME NEW j \in Intents, Enqueue(j) \/ Surface(j)
        PROVE  FALSE
    BY <1>2, <2>3 DEF Enqueue, Surface, intentVars
  <2>4. QED
    BY <2>1, <2>2, <2>3 DEF Next, APIStep
<1>3. QED
  BY <1>1, <1>2

\* A worker's new copy is the saved intent.
LEMMA CopyIsFresh ==
  ASSUME Base, NEW w \in Workers, WorkerStep(w), copy'[w] # None, copy'[w] # copy[w]
  PROVE  copy'[w].it = store'[copy'[w].id]
<1>t. /\ store \in [Intents -> IP!IntentRecord \union {None}]
      /\ copy \in [Workers -> IP!Copy \union {None}]
  BY DEF Base, Shape, IP!IntentInv
<1>1. CASE Read(w) \/ GiveUp(w)
  BY <1>1, <1>t DEF Read, GiveUp, I!Read
<1>2. CASE Cas(w)
  <2>1. PICK it : it = I!Applied(copy[w].it, Asks(w))
    OBVIOUS
  <2>2. /\ copy[w] \in IP!Copy
        /\ copy' = [copy EXCEPT ![w].it = it]
        /\ store' = [store EXCEPT ![copy[w].id] = it]
    BY <1>2, <2>1, <1>t DEF Cas, I!Advance
  <2>3. PICK c : c = [copy[w] EXCEPT !.it = it]
    OBVIOUS
  <2>4. c.id = copy[w].id /\ c.it = it /\ copy' = [copy EXCEPT ![w] = c]
    BY <2>2, <2>3 DEF IP!Copy
  <2>5. QED
    BY <2>2, <2>4, <1>t DEF IP!Copy
<1>3. CASE CasLost(w) \/ EndOfRun(w)
  BY <1>3, <1>t DEF CasLost, EndOfRun, I!Conflict, I!Forget, intentVars
<1>4. CASE ~(Read(w) \/ GiveUp(w) \/ Cas(w) \/ CasLost(w) \/ EndOfRun(w))
  BY <1>4 DEF WorkerStep, Lease, TakeSlot, NoSlot, Hold, Send, Panic,
     Record, Unwind, RescueWait, Rescue, TakeGap, NoGap, Judge, Weigh, Void,
     Park, Fault, intentVars
<1>5. QED
  BY <1>1, <1>2, <1>3, <1>4

\* Only the Ack of a job takes it out of the queue, and only Enqueue counts.
LEMMA JobsStay ==
  ASSUME Base, Next, NEW i \in Intents
  PROVE  /\ slot[i] # None /\ slot'[i] = None =>
              \E w \in Workers : At(w, {"ack"}) /\ i = Job(w) /\ EndOfRun(w)
         /\ round'[i] # round[i] => slot'[i] # None
<1>t. /\ slot \in [Intents -> QP!Slot \union {None}] /\ order \in Seq(Intents)
      /\ round \in [Intents -> Nat]
      /\ QP!ToSet(order) = {j \in Intents : slot[j] # None}
      /\ QP!ToSet(order') = {j \in Intents : slot'[j] # None}
  BY StoresStaySound DEF Base, Shape, QP!ListInv, QP!QueueTypeOK,
     QP!OrderListsTheJobs
<1>1. CASE order' = order /\ round' = round
  BY <1>1, <1>t
<1>2. ASSUME NEW j \in Intents, Enqueue(j)
      PROVE  slot'[i] # None \/ (slot'[i] = slot[i] /\ round'[i] = round[i])
  <2>1. /\ slot' = [slot EXCEPT ![j] = [attempt |-> 0, vis |-> "ready"]]
        /\ round' = [round EXCEPT ![j] = @ + 1]
    BY <1>2 DEF Enqueue, Q!Enqueue
  <2>2. [attempt |-> 0, vis |-> "ready"] # None
    BY NoneIsNothing DEF Q!Slot
  <2>3. QED
    BY <2>1, <2>2, <1>t
<1>3. ASSUME NEW w \in Workers, EndOfRun(w), At(w, {"ack"}), Q!Ack(w)
      PROVE  round' = round /\ (slot[i] # None /\ slot'[i] = None => i = Job(w))
  BY <1>3, <1>t DEF Q!Ack, Job
<1>4. ASSUME NEW w \in Workers, WorkerStep(w)
      PROVE  \/ order' = order /\ round' = round
             \/ EndOfRun(w) /\ At(w, {"ack"}) /\ Q!Ack(w)
  BY <1>4 DEF WorkerStep, Lease, Q!Lease, Read, TakeSlot, NoSlot, Cas, CasLost, Hold,
     Send, Panic, Record, Unwind, RescueWait, Rescue, TakeGap, NoGap, Judge, GiveUp,
     Weigh, Void, Park, Fault, EndOfRun, Q!Nack, Q!Drop, queueVars
<1>5. ASSUME NEW j \in Intents, APIStep(j) \/ Surface(j)
      PROVE  order' = order /\ round' = round
  BY <1>5 DEF APIStep, Create, APIAdvance, Surface, Q!Surface, queueVars
<1>6. QED
  BY <1>1, <1>2, <1>3, <1>4, <1>5 DEF Next, APIStep

\* A worker on its way to an Ack has a reason to acknowledge.
LEMMA AckStaysDue ==
  ASSUME Base, KeptInv, NEW w \in Workers, WorkerStep(w), Next
  PROVE  AckIsDue'
<1>s. /\ LocalsTyped /\ CopyIsOfTheJob /\ LeavesToAnEnd /\ QP!ListInv
      /\ IP!IntentInv
  BY DEF Base, Shape
<1>t. /\ LocalsTyped' /\ run' \in [Workers -> Local] /\ run[w] \in Local
      /\ \A v \in Workers : v # w => run'[v] = run[v] /\ held'[v] = held[v]
      /\ run[w].pc # "idle" /\ run'[w].pc # "idle" => held'[w] = held[w]
  BY <1>s, LocalsStep, DeliveriesStay DEF LocalsTyped
<1>j. \A v \in Workers : run[v].pc # "idle" => Job(v) \in Intents
  BY <1>s DEF CopyIsOfTheJob, At, Job, QP!ListInv, QP!QueueTypeOK, QP!Delivery
<1>p. parked \subseteq parked'
  BY DEF WorkerStep, Lease, Read, TakeSlot, NoSlot, Cas, CasLost, Hold,
     Send, Panic, Record, Unwind, RescueWait, Rescue, TakeGap, NoGap, Judge, GiveUp,
     Weigh, Void, Park, Fault, EndOfRun
<1>d. \A i \in Intents : Due(i) => Due(i)'
  BY <1>p, MovesOn DEF Due, Done
<1> SUFFICES ASSUME NEW v \in Workers, Acking(v)'
             PROVE  Due(Job(v))'
  BY DEF AckIsDue, Job
<1>1. CASE v # w
  <2>1. Acking(v) /\ held'[v].job = Job(v) /\ Job(v) \in Intents
    BY <1>1, <1>t, <1>j DEF Acking, At, Job
  <2>2. QED
    BY <2>1, <1>d DEF KeptInv, AckIsDue, Due, Done, Job
<1>2. CASE v = w
  <2>1. Read(w) \/ Cas(w) \/ CasLost(w) \/ Park(w) \/ (Unwind(w) /\ Acking(w))
    BY <1>2, <1>s, WhereFrom
  <2>2. run[w].pc # "idle" /\ run'[w].pc # "idle"
    BY <1>2, <2>1 DEF Read, Cas, CasLost, Park, Unwind, Acking, At, CasSteps
  <2>3. PICK i \in Intents : i = Job(w) /\ held'[v].job = i
    BY <1>2, <2>2, <1>t, <1>j DEF Job
  <2>4. CASE Read(w)
    <3>1. store[i] # None /\ store' = store /\ Goto(w, Branch(i))
      BY <2>4, <2>3 DEF Read, I!Read
    <3>2. run'[w].pc = Branch(i)
      BY <3>1, <1>s, GotoMoves DEF Branch, Calls
    <3>3. Branch(i) = "ack"
      BY <1>2, <3>2 DEF Acking, At, Branch
    <3>4. QED
      BY <2>3, <3>1, <3>3 DEF Branch, Due, Done, Job
  <2>5. CASE Cas(w)
    <3>1. CasSteps[run[w].pc].ok = "ack"
      <4>1. PICK to \in {"hold", "ack", "park"} : to = CasSteps[run[w].pc].ok
        BY <2>5 DEF Cas, At, CasSteps
      <4>2. CASE to \in {"hold", "park"}
        <5>1. run'[w].pc = to
          BY <2>5, <4>1, <4>2, <1>s, GotoMoves DEF Cas, Calls
        <5>2. QED
          BY <1>2, <4>2, <5>1 DEF Acking, At
      <4>3. QED
        BY <4>1, <4>2
    <3>2. CasSteps[run[w].pc].to \in {"confirming", "needs_review"}
      BY <2>5, <3>1 DEF Cas, At, CasSteps
    <3>3. store'[i] # None /\ store'[i].state = CasSteps[run[w].pc].to
      BY <2>3, <2>5, CasDoes
    <3>4. QED
      BY <2>3, <3>2, <3>3 DEF Due, Done, Job
  <2>6. CASE CasLost(w)
    <3>1. PICK to \in Ends : to = CasSteps[run[w].pc].lost
      BY <2>6 DEF CasLost, At, CasSteps, Ends
    <3>2. run'[w].pc = to \/ (run'[w].pc = "unwind" /\ run'[w].then = to)
      BY <2>6, <3>1, <1>s, LeaveMoves DEF CasLost, Calls, Ends
    <3>3. to = "ack"
      BY <1>2, <3>1, <3>2 DEF Acking, At, Ends
    <3>4. run[w].pc = "clear"
      BY <2>6, <3>1, <3>3 DEF CasLost, At, CasSteps
    <3>5. /\ copy[w] # None /\ I!Accepts(copy[w].it, Asks(w)) /\ ~I!Current(w)
          /\ store' = store
      BY <2>6 DEF CasLost, I!Conflict
    <3>6. Asks(w).to = "needs_review" /\ Asks(w).by = "relayer"
      BY <3>4 DEF Asks, CasSteps
    <3>7. copy[w].it.state = "settling"
      <4>1. PICK r \in I!Rules : /\ r.from = copy[w].it.state
                                 /\ r.to = "needs_review" /\ "relayer" \in r.by
        BY <3>5, <3>6 DEF I!Accepts
      <4>2. QED
        BY <4>1 DEF I!Rules, I!Row
    <3>8. copy[w].id = i
      BY <2>3, <3>5, <1>s DEF CopyIsOfTheJob
    <3>9. store[i] # copy[w].it
      BY <3>5, <3>8 DEF I!Current
    <3>10. Done(i)
      BY <3>5, <3>7, <3>8, <3>9 DEF KeptInv, SettlingIsPast
    <3>11. QED
      BY <2>3, <3>5, <3>10 DEF Due, Done, Job
  <2>7. CASE Park(w)
    BY <2>3, <2>7 DEF Park, Due, Job
  <2>8. CASE Acking(w)
    BY <2>3, <2>8, <1>d DEF KeptInv, AckIsDue, Due, Done, Job
  <2>9. QED
    BY <2>1, <2>4, <2>5, <2>6, <2>7, <2>8
<1>3. QED
  BY <1>1, <1>2

LEMMA KeptInvInductive == Base /\ KeptInv /\ [Next]_vars => KeptInv'
<1> SUFFICES ASSUME Base, KeptInv, [Next]_vars PROVE KeptInv'
  OBVIOUS
<1>1. CASE UNCHANGED vars
  BY <1>1 DEF vars, KeptInv, AckIsDue, Acking, At, Job, JobIsKept, SettlingIsPast,
     Due, Done
<1>2. CASE Next
  <2>t. /\ copy \in [Workers -> IP!Copy \union {None}]
        /\ \A w \in Workers : At(w, {"idle"}) <=> held[w] = None
        /\ \A w \in Workers : held[w] # None => Job(w) \in Intents
        /\ round \in [Intents -> Nat]
    BY DEF Base, Shape, IP!IntentInv, CopyIsOfTheJob, QP!ListInv, QP!QueueTypeOK,
           QP!Delivery, Job
  <2>p. parked \subseteq parked'
    BY <1>2 DEF Next, WorkerStep, Lease, Read, TakeSlot, NoSlot, Cas, CasLost, Hold,
       Send, Panic, Record, Unwind, RescueWait, Rescue, TakeGap, NoGap, Judge, GiveUp,
       Weigh, Void, Park, Fault, EndOfRun, Create, APIAdvance, Enqueue, Surface
  <2>d. \A i \in Intents : Due(i) => Due(i)'
    BY <1>2, <2>p, MovesOn DEF Due, Done
  <2>1. AckIsDue'
    <3>1. ASSUME NEW j \in Intents, WorldStep(j)
          PROVE  AckIsDue'
      <4> SUFFICES ASSUME NEW v \in Workers, Acking(v)'
                   PROVE  Due(Job(v))'
        BY DEF AckIsDue, Job
      <4>1. Acking(v) /\ held' = held
        BY <3>1, WorldLeavesWorkers DEF Acking, At
      <4>2. Job(v) \in Intents
        BY <4>1, <2>t DEF Acking, At
      <4>3. QED
        BY <4>1, <4>2, <2>d DEF KeptInv, AckIsDue, Due, Done, Job
    <3>2. QED
      BY <1>2, <3>1, AckStaysDue DEF Next, WorldStep, APIStep
  <2>2. JobIsKept'
    <3> SUFFICES ASSUME NEW i \in Intents, round'[i] > 0, slot'[i] = None
                 PROVE  Due(i)'
      BY DEF JobIsKept
    <3>1. round'[i] = round[i]
      BY <1>2, JobsStay
    <3>2. CASE slot[i] = None
      BY <3>1, <3>2, <2>d DEF KeptInv, JobIsKept
    <3>3. CASE slot[i] # None
      <4>1. PICK w \in Workers : At(w, {"ack"}) /\ i = Job(w)
        BY <1>2, <3>3, JobsStay
      <4>2. QED
        BY <4>1, <2>d DEF KeptInv, AckIsDue, Acking
    <3>4. QED
      BY <3>2, <3>3
  <2>3. SettlingIsPast'
    <3> SUFFICES ASSUME NEW v \in Workers, copy'[v] # None,
                        copy'[v].it.state = "settling"
                 PROVE  (Done(copy[v].id) \/ store[copy[v].id] = copy[v].it)'
      BY DEF SettlingIsPast
    <3>1. CASE copy'[v] = copy[v]
      <4>1. PICK i \in Intents : i = copy[v].id
        BY <3>1, <2>t DEF IP!Copy
      <4>2. Done(i) \/ (store[i] = copy[v].it /\ store[i] # None)
        BY <3>1, <4>1 DEF KeptInv, SettlingIsPast, Base, Shape, IP!IntentInv,
                          IP!CopyIsPast
      <4>3. QED
        BY <3>1, <4>1, <4>2, <1>2, MovesOn DEF Done
    <3>2. CASE copy'[v] # copy[v]
      <4>1. PICK w \in Workers : WorkerStep(w)
        BY <1>2, <3>2, WorldLeavesWorkers DEF Next, WorldStep, APIStep
      <4>2. v = w
        BY <4>1, <3>2, DeliveriesStay DEF Base, Shape
      <4>3. QED
        BY <3>2, <4>1, <4>2, CopyIsFresh
    <3>3. QED
      BY <3>1, <3>2
  <2>4. QED
    BY <2>1, <2>2, <2>3 DEF KeptInv
<1>3. QED
  BY <1>1, <1>2

\* RunOnce acknowledges a job only when the payment has left the relayer or
\* the job is parked: with faults, panics, taken-over leases and lost
\* compare-and-swaps, an enqueued payment that the relayer has to move is
\* queued or with a person.
THEOREM NoPaymentIsForgotten == Spec => []NotForgotten
<1>1. Init => KeptInv
  BY DEF Init, I!Init, Q!Init, KeptInv, AckIsDue, Acking, At, Idle, JobIsKept,
         SettlingIsPast
<1>2. KeptInv => NotForgotten
  BY DEF KeptInv, JobIsKept, Due, Done, NotForgotten, Open
<1>3. QED
  BY <1>1, <1>2, KeptInvInductive, BaseHolds, PTL DEF Spec
-----------------------------------------------------------------------------
(***************************************************************************)
(* A sender that cannot replace a transaction.  The run with one that can  *)
(* shows that the first two of these theorems do not hold for it.          *)
(***************************************************************************)
\* A worker that is about to send, or has sent and not written it down.
Sending(w) == At(w, {"hold", "send", "record"})
\* Nobody has claimed i yet.
Unclaimed(i) == store[i] = None \/ store[i].state \in {"created", "authorized"}
\* The last broadcast of i is on record as not sent.
NotSent(i) == casts[i] # None /\ casts[i].sent = "not-sent"
Failed(i) == store[i] # None /\ store[i].state = "failed"
Voided(i) == J!RowsOf(<<i, "void">>) # {}

\* From the claim to the record of the broadcast a payment has one worker, and
\* the claim is made once.
OneSender ==
  /\ \A w \in Workers : ~At(w, {"gap", "fresh", "replace"})
  /\ \A w \in Workers : Sending(w) => ~Unclaimed(Job(w)) /\ casts[Job(w)] = None
  /\ \A v, w \in Workers : v # w /\ Sending(v) /\ Sending(w) => Job(v) # Job(w)
  /\ \A i \in Intents : Unclaimed(i) => casts[i] = None /\ Len(txs[i]) = 0

\* That worker sends once, and a broadcast on record as not sent was not.
SentOnce ==
  /\ \A i \in Intents : Len(txs[i]) <= 1
  /\ \A w \in Workers :
       At(w, {"hold", "send"}) \/ (At(w, {"record"}) /\ run[w].sent = "not-sent")
       => Len(txs[Job(w)]) = 0
  /\ \A i \in Intents : NotSent(i) => Len(txs[i]) = 0

\* A payment is given up as not sent only after such a record.
GivenUpInv ==
  /\ \A w \in Workers : At(w, {"void", "fail"}) => NotSent(Job(w))
  /\ \A i \in Intents : Failed(i) \/ Voided(i) => NotSent(i)

\* What a void leaves behind.
NoHold(i) == J!RowsOf(<<i, "hold">>) = {} \/ <<i, "hold">> \in resolved
HoldsInv ==
  /\ \E T : books \in Seq(T)
  /\ \A k \in DOMAIN books : \E i \in Intents : \E n :
       books[k].entry \in {HoldEntry(i, n), VoidEntry(i, n)}
  /\ \A i \in Intents : Voided(i) => <<i, "hold">> \in resolved
  /\ \A w \in Workers : At(w, {"fail"}) => NoHold(Job(w))
  /\ \A i \in Intents : Failed(i) => NoHold(i)
PlainInv == OneSender /\ SentOnce /\ GivenUpInv /\ HoldsInv

\* The row that Append writes, and what the list says of ids then.
LEMMA RowAdded ==
  ASSUME \E T : books \in Seq(T), NEW e, J!Append1(e)
  PROVE  /\ \E T : books' \in Seq(T)
         /\ \A k \in DOMAIN books' : \/ books'[k].entry = e
                                     \/ k \in DOMAIN books /\ books'[k] = books[k]
         /\ \A id : J!RowsOf(id)' # {} <=> J!RowsOf(id) # {} \/ e.id = id
         /\ resolved' = resolved \union (IF e.kind = "hold" THEN {} ELSE {e.holds})
<1>1. PICK row : row = J!JournalRow(e)
  OBVIOUS
<1>2. /\ books' = Append(books, row) /\ row.entry = e
      /\ resolved' = resolved \union (IF e.kind = "hold" THEN {} ELSE {e.holds})
  BY <1>1 DEF J!Append1, J!JournalRow, J!RowOf
<1>3. PICK T : books \in Seq(T)
  OBVIOUS
<1>4. books \in Seq(T \union {row}) /\ row \in T \union {row}
  BY <1>3
<1>5. PICK n \in Nat : n = Len(books)
  BY <1>3, LenProperties
<1>6. /\ books' \in Seq(T \union {row})
      /\ DOMAIN books = 1 .. n /\ DOMAIN books' = 1 .. n + 1
      /\ books'[n + 1] = row
      /\ \A k \in 1 .. n : books'[k] = books[k]
  BY <1>2, <1>4, <1>5, AppendProperties, LenProperties
<1>7. ASSUME NEW id
      PROVE  J!RowsOf(id)' # {} <=> J!RowsOf(id) # {} \/ e.id = id
  <2>1. J!RowsOf(id)' = {k \in 1 .. n + 1 : books'[k].entry.id = id}
    BY <1>6 DEF J!RowsOf
  <2>2. J!RowsOf(id) = {k \in 1 .. n : books[k].entry.id = id}
    BY <1>6 DEF J!RowsOf
  <2>3. ASSUME e.id = id PROVE n + 1 \in J!RowsOf(id)'
    BY <2>1, <2>3, <1>2, <1>6
  <2>4. J!RowsOf(id) \subseteq J!RowsOf(id)'
    BY <2>1, <2>2, <1>6
  <2>5. ASSUME NEW k \in J!RowsOf(id)', e.id # id PROVE k \in J!RowsOf(id)
    BY <2>1, <2>2, <2>5, <1>2, <1>6
  <2>6. QED
    BY <2>3, <2>4, <2>5
<1>8. \A k \in DOMAIN books' : \/ books'[k].entry = e
                               \/ k \in DOMAIN books /\ books'[k] = books[k]
  BY <1>2, <1>6
<1>9. QED
  BY <1>2, <1>6, <1>7, <1>8
-----------------------------------------------------------------------------
\* What a step of worker w does to the payments, as far as the others and
\* their broadcasts are concerned.
LEMMA PlainStep ==
  ASSUME ~CanReplace, Base, OneSender, NEW w \in Workers, WorkerStep(w)
  PROVE  /\ \A v \in Workers : v # w => run'[v] = run[v] /\ held'[v] = held[v]
         /\ \A v \in Workers : run[v].pc # "idle" => Job(v) \in Intents
         /\ run[w].pc # "idle" /\ run'[w].pc # "idle" => held'[w] = held[w]
         /\ \A i \in Intents : Unclaimed(i)' => Unclaimed(i)
         /\ \A i \in Intents : casts'[i] # casts[i] =>
              /\ At(w, {"record"}) /\ i = Job(w) /\ txs' = txs
              /\ casts'[i].sent = run[w].sent
         /\ \A i \in Intents : Len(txs[i]) \in Nat /\ Len(txs'[i]) \in Nat
         /\ \A i \in Intents : txs'[i] # txs[i] =>
              At(w, {"send"}) /\ i = Job(w) /\ Len(txs'[i]) = Len(txs[i]) + 1
         /\ Sending(w)' =>
              /\ ~At(w, {"record"}) /\ ~At(w, {"idle"})
              /\ Sending(w) \/ (Cas(w) /\ At(w, {"claim"}))
<1>s. /\ LocalsTyped /\ CopyIsOfTheJob /\ LeavesToAnEnd /\ QP!ListInv
      /\ IP!IntentInv
  BY DEF Base, Shape
<1>1. /\ LocalsTyped' /\ \A v \in Workers : v # w => run'[v] = run[v] /\ held'[v] = held[v]
      /\ run[w].pc # "idle" /\ run'[w].pc # "idle" => held'[w] = held[w]
  BY <1>s, LocalsStep, DeliveriesStay
<1>2. \A v \in Workers : run[v].pc # "idle" => Job(v) \in Intents
  BY <1>s DEF CopyIsOfTheJob, At, Job, QP!ListInv, QP!QueueTypeOK, QP!Delivery
<1>3. ASSUME NEW i \in Intents, Unclaimed(i)'
      PROVE  Unclaimed(i)
  <2>1. CASE store'[i] = store[i]
    BY <1>3, <2>1 DEF Unclaimed
  <2>2. CASE store'[i] # store[i]
    <3>1. Cas(w) /\ i = Job(w)
      BY <2>2, CasMoves
    <3>2. store'[i] # None /\ store'[i].state = CasSteps[run[w].pc].to
      BY <3>1, CasDoes
    <3>3. CasSteps[run[w].pc].to \notin {"created", "authorized"}
      BY <3>1 DEF Cas, At, CasSteps
    <3>4. QED
      BY <1>3, <3>2, <3>3 DEF Unclaimed
  <2>3. QED
    BY <2>1, <2>2
<1>4. ASSUME NEW i \in Intents, casts'[i] # casts[i]
      PROVE  /\ At(w, {"record"}) /\ i = Job(w) /\ txs' = txs
             /\ casts'[i].sent = run[w].sent
  <2>1. Record(w)
    BY <1>4 DEF WorkerStep, Lease, Read, TakeSlot, NoSlot, Cas, CasLost, Hold, Send,
       Panic, Unwind, RescueWait, Rescue, TakeGap, NoGap, Judge, GiveUp, Weigh, Void,
       Park, Fault, EndOfRun
  <2>2. PICK n : casts' = [casts EXCEPT ![Job(w)] =
                    [sent |-> run[w].sent, fee |-> run[w].fee, tries |-> n]]
    BY <1>4, <2>1 DEF Record
  <2>3. QED
    BY <1>4, <1>s, <2>1, <2>2 DEF Record, LocalsTyped
<1>5. ASSUME NEW i \in Intents
      PROVE  /\ Len(txs[i]) \in Nat /\ Len(txs'[i]) \in Nat
             /\ txs'[i] # txs[i] =>
                  At(w, {"send"}) /\ i = Job(w) /\ Len(txs'[i]) = Len(txs[i]) + 1
  <2>1. /\ Len(txs[i]) \in Nat /\ Len(txs'[i]) \in Nat
        /\ txs'[i] # txs[i] => /\ At(w, {"send", "replace"}) /\ i = Job(w)
                               /\ Len(txs'[i]) = Len(txs[i]) + 1
    BY <1>s, TxsGrow
  <2>2. QED
    BY <2>1 DEF OneSender, At
<1>6. ASSUME Sending(w)'
      PROVE  /\ ~At(w, {"record"}) /\ ~At(w, {"idle"})
             /\ Sending(w) \/ (Cas(w) /\ At(w, {"claim"}))
  <2>1. \/ Cas(w) /\ At(w, {"claim"})
        \/ Hold(w)
        \/ Send(w)
    BY <1>6, <1>s, WhereFrom DEF Sending, At
  <2>2. Hold(w) => At(w, {"hold"})
    BY DEF Hold
  <2>3. Send(w) => At(w, {"send"})
    BY DEF Send, OneSender, At
  <2>4. QED
    BY <2>1, <2>2, <2>3 DEF Sending, At
<1>7. QED
  BY <1>1, <1>2, <1>3, <1>4, <1>5, <1>6

LEMMA OneSenderStep ==
  ASSUME ~CanReplace, Base, OneSender, NEW w \in Workers, WorkerStep(w)
  PROVE  OneSender'
<1>1. /\ \A v \in Workers : v # w => run'[v] = run[v] /\ held'[v] = held[v]
      /\ \A v \in Workers : run[v].pc # "idle" => Job(v) \in Intents
      /\ run[w].pc # "idle" /\ run'[w].pc # "idle" => held'[w] = held[w]
      /\ \A i \in Intents : Unclaimed(i)' => Unclaimed(i)
  BY PlainStep
<1>2. /\ \A i \in Intents : casts'[i] # casts[i] => At(w, {"record"}) /\ i = Job(w)
      /\ \A i \in Intents : txs'[i] # txs[i] => At(w, {"send"}) /\ i = Job(w)
  BY PlainStep
<1>3. Sending(w)' => /\ ~At(w, {"record"}) /\ ~At(w, {"idle"})
                     /\ Sending(w) \/ (Cas(w) /\ At(w, {"claim"}))
  BY PlainStep
<1>4. ASSUME Cas(w), At(w, {"claim"}), NEW i \in Intents, i = Job(w)
      PROVE  Unclaimed(i) /\ ~Unclaimed(i)'
  <2>1. store[i] # None /\ store[i].state = "authorized"
    BY <1>4, CasDoes
  <2>2. store'[i] # None /\ store'[i].state = "settling"
    BY <1>4, CasDoes DEF At, CasSteps
  <2>3. QED
    BY <2>1, <2>2 DEF Unclaimed
<1>5. \A v \in Workers : ~At(v, {"gap", "fresh", "replace"})'
  <2>1. ~At(w, {"gap", "fresh", "replace"})'
    BY WhereFrom DEF Base, Shape, OneSender, At
  <2>2. QED
    BY <1>1, <2>1 DEF OneSender, At
<1>6. ASSUME NEW v \in Workers, Sending(v)'
      PROVE  /\ held'[v].job = Job(v) /\ Job(v) \in Intents
             /\ ~Unclaimed(Job(v))' /\ casts'[held'[v].job] = None
             /\ v # w => Sending(v)
  <2>1. run[v].pc # "idle" /\ run'[v].pc # "idle"
    BY <1>6, <1>1, <1>3 DEF Sending, At
  <2>2. held'[v].job = Job(v) /\ Job(v) \in Intents
    BY <2>1, <1>1 DEF Job
  <2>3. v # w => Sending(v)
    BY <1>6, <1>1 DEF Sending, At
  <2>4. PICK i \in Intents : i = Job(v)
    BY <2>2
  <2>5. CASE Sending(v)
    <3>1. ~Unclaimed(i) /\ casts[i] = None
      BY <2>4, <2>5 DEF OneSender
    <3>2. casts'[i] = casts[i]
      <4>1. ASSUME At(w, {"record"}), i = Job(w) PROVE FALSE
        <5>1. v # w
          BY <4>1, <1>3, <1>6
        <5>2. Sending(w)
          BY <4>1 DEF Sending, At
        <5>3. QED
          BY <4>1, <5>1, <5>2, <2>4, <2>5 DEF OneSender
      <4>2. QED
        BY <4>1, <1>2
    <3>3. ~Unclaimed(i)'
      BY <3>1, <1>1
    <3>4. QED
      BY <2>2, <2>3, <2>4, <3>1, <3>2, <3>3 DEF Unclaimed, Job
  <2>6. CASE ~Sending(v)
    <3>1. v = w /\ Cas(w) /\ At(w, {"claim"})
      BY <2>3, <2>6, <1>3, <1>6
    <3>2. Unclaimed(i) /\ ~Unclaimed(i)'
      BY <3>1, <2>4, <1>4
    <3>3. casts[i] = None /\ casts'[i] = casts[i]
      BY <3>1, <3>2, <1>2 DEF OneSender, At
    <3>4. QED
      BY <2>2, <2>3, <2>4, <3>2, <3>3 DEF Unclaimed, Job
  <2>7. QED
    BY <2>5, <2>6
<1>7. ASSUME NEW u \in Workers, NEW v \in Workers, u # v, Sending(u)', Sending(v)'
      PROVE  held'[u].job # held'[v].job
  <2>1. /\ held'[u].job = Job(u) /\ Job(u) \in Intents /\ (u # w => Sending(u))
        /\ held'[v].job = Job(v) /\ Job(v) \in Intents /\ (v # w => Sending(v))
    BY <1>6, <1>7
  <2>2. CASE Sending(u) /\ Sending(v)
    BY <2>1, <2>2, <1>7 DEF OneSender
  <2>3. CASE ~Sending(u)
    <3>1. u = w /\ v # w /\ Sending(v) /\ Cas(w) /\ At(w, {"claim"})
      BY <2>1, <2>3, <1>3, <1>7
    <3>2. Unclaimed(Job(u)) /\ ~Unclaimed(Job(v))
      BY <3>1, <2>1, <1>4 DEF OneSender
    <3>3. QED
      BY <3>2, <2>1
  <2>4. CASE ~Sending(v)
    <3>1. v = w /\ u # w /\ Sending(u) /\ Cas(w) /\ At(w, {"claim"})
      BY <2>1, <2>4, <1>3, <1>7
    <3>2. Unclaimed(Job(v)) /\ ~Unclaimed(Job(u))
      BY <3>1, <2>1, <1>4 DEF OneSender
    <3>3. QED
      BY <3>2, <2>1
  <2>5. QED
    BY <2>2, <2>3, <2>4
<1>8. ASSUME NEW i \in Intents, Unclaimed(i)'
      PROVE  casts'[i] = None /\ Len(txs'[i]) = 0
  <2>1. Unclaimed(i)
    BY <1>1, <1>8
  <2>2. ~(Sending(w) /\ i = Job(w))
    BY <2>1 DEF OneSender
  <2>3. casts'[i] = casts[i] /\ txs'[i] = txs[i]
    BY <2>2, <1>2 DEF Sending, At
  <2>4. QED
    BY <2>1, <2>3 DEF OneSender
<1>9. QED
  BY <1>5, <1>6, <1>7, <1>8 DEF OneSender, Job, Unclaimed

LEMMA SentOnceStep ==
  ASSUME ~CanReplace, Base, OneSender, SentOnce, NEW w \in Workers, WorkerStep(w)
  PROVE  SentOnce' /\ \A i \in Intents : NotSent(i) => NotSent(i)'
<1>s. LocalsTyped /\ LeavesToAnEnd /\ run \in [Workers -> Local]
  BY DEF Base, Shape, LocalsTyped
<1>1. /\ \A v \in Workers : v # w => run'[v] = run[v] /\ held'[v] = held[v]
      /\ \A v \in Workers : run[v].pc # "idle" => Job(v) \in Intents
      /\ run[w].pc # "idle" /\ run'[w].pc # "idle" => held'[w] = held[w]
  BY PlainStep
<1>2. /\ \A i \in Intents : casts'[i] # casts[i] =>
           /\ At(w, {"record"}) /\ i = Job(w) /\ txs' = txs
           /\ casts'[i].sent = run[w].sent
      /\ \A i \in Intents : Len(txs[i]) \in Nat /\ Len(txs'[i]) \in Nat
      /\ \A i \in Intents : txs'[i] # txs[i] =>
           At(w, {"send"}) /\ i = Job(w) /\ Len(txs'[i]) = Len(txs[i]) + 1
  BY PlainStep
<1>3. ASSUME NEW i \in Intents
      PROVE  Len(txs'[i]) <= 1
  <2>1. CASE txs'[i] = txs[i]
    BY <2>1 DEF SentOnce
  <2>2. CASE txs'[i] # txs[i]
    BY <2>2, <1>2 DEF SentOnce, At
  <2>3. QED
    BY <2>1, <2>2
<1>4. ASSUME NEW i \in Intents, NotSent(i)
      PROVE  NotSent(i)' /\ Len(txs'[i]) = 0
  <2>1. ~(Sending(w) /\ i = Job(w))
    BY <1>4 DEF OneSender, NotSent
  <2>2. casts'[i] = casts[i] /\ txs'[i] = txs[i]
    BY <2>1, <1>2 DEF Sending, At
  <2>3. QED
    BY <1>4, <2>2 DEF NotSent, SentOnce
<1>5. ASSUME NEW i \in Intents, NotSent(i)', ~NotSent(i)
      PROVE  Len(txs'[i]) = 0
  <2>1. casts'[i] # casts[i] /\ casts'[i].sent = "not-sent"
    BY <1>5 DEF NotSent
  <2>2. /\ At(w, {"record"}) /\ i = Job(w) /\ txs' = txs
        /\ run[w].sent = "not-sent"
    BY <2>1, <1>2
  <2>3. QED
    BY <2>2 DEF SentOnce
<1>6. ASSUME NEW v \in Workers,
             \/ At(v, {"hold", "send"})'
             \/ At(v, {"record"})' /\ run'[v].sent = "not-sent"
      PROVE  Len(txs'[held'[v].job]) = 0
  <2>1. CASE v # w
    <3>1. /\ run'[v] = run[v] /\ held'[v].job = Job(v) /\ Job(v) \in Intents
      BY <1>6, <2>1, <1>1 DEF Job, At
    <3>2. Sending(v) /\ Len(txs[Job(v)]) = 0
      BY <1>6, <3>1 DEF Sending, At, SentOnce
    <3>3. ~(At(w, {"send"}) /\ Job(v) = Job(w))
      BY <2>1, <3>2 DEF OneSender, Sending, At
    <3>4. txs'[Job(v)] = txs[Job(v)]
      BY <3>1, <3>3, <1>2
    <3>5. QED
      BY <3>1, <3>2, <3>4
  <2>2. CASE v = w /\ run'[w].pc = "hold"
    <3>1. Cas(w) /\ At(w, {"claim"})
      BY <2>2, <1>s, WhereFrom
    <3>2. held'[w] = held[w] /\ Job(w) \in Intents
      BY <2>2, <3>1, <1>1 DEF At
    <3>3. Unclaimed(Job(w))
      BY <3>1, CasDoes DEF Unclaimed
    <3>4. txs'[Job(w)] = txs[Job(w)]
      BY <3>1, <3>2, <1>2 DEF At
    <3>5. QED
      BY <2>2, <3>2, <3>3, <3>4 DEF OneSender, Job
  <2>3. CASE v = w /\ run'[w].pc = "send"
    <3>1. Hold(w)
      BY <2>3, <1>s, WhereFrom
    <3>2. At(w, {"hold"}) /\ txs' = txs
      BY <3>1 DEF Hold
    <3>3. held'[w] = held[w]
      BY <2>3, <3>2, <1>1 DEF At
    <3>4. QED
      BY <2>3, <3>2, <3>3 DEF SentOnce, Job, At
  <2>4. CASE v = w /\ run'[w].pc = "record"
    <3>1. Send(w)
      BY <2>4, <1>s, WhereFrom
    <3>2. At(w, {"send"})
      BY <3>1 DEF Send, OneSender, At
    <3>3. held'[w] = held[w] /\ Job(w) \in Intents
      BY <2>4, <3>2, <1>1 DEF At
    <3>4. PICK o \in Outcomes :
            /\ Away(w, o.away)
            /\ run' = [run EXCEPT ![w] = [@ EXCEPT !.pc = "record",
                         !.sent = o.sent, !.poison = o.poison,
                         !.tx = IF o.sent = "sent" THEN Len(txs'[Job(w)]) ELSE 0]]
      BY <3>1 DEF Send
    <3>5. run'[w].sent = o.sent
      BY <3>4, <1>s DEF Local
    <3>6. o.sent = "not-sent"
      BY <1>6, <2>4, <3>5 DEF At
    <3>7. txs' = txs
      BY <3>4, <3>6, OutcomesTyped DEF Away
    <3>8. QED
      BY <2>4, <3>2, <3>3, <3>7 DEF SentOnce, Job, At
  <2>5. QED
    BY <1>6, <2>1, <2>2, <2>3, <2>4 DEF At
<1>7. QED
  BY <1>3, <1>4, <1>5, <1>6 DEF SentOnce, Job

\* The journal's rows are the relayer's, each written at its place.
LEMMA BookStep ==
  ASSUME NEW w \in Workers, WorkerStep(w)
  PROVE  \/ UNCHANGED bookVars
         \/ At(w, {"hold"}) /\ \E n : J!Append1(HoldEntry(Job(w), n))
         \/ At(w, {"void"}) /\ Void(w) /\ \E n : J!Append1(VoidEntry(Job(w), n))
BY DEF WorkerStep, Lease, Read, TakeSlot, NoSlot, Cas, CasLost, Hold, Send, Panic,
       Record, Unwind, RescueWait, Rescue, TakeGap, NoGap, Judge, GiveUp, Weigh,
       Void, Park, Fault, EndOfRun

LEMMA GivenUpStep ==
  ASSUME ~CanReplace, Base, OneSender, SentOnce, GivenUpInv, HoldsInv,
         NEW w \in Workers, WorkerStep(w)
  PROVE  GivenUpInv'
<1>s. LocalsTyped /\ LeavesToAnEnd
  BY DEF Base, Shape
<1>1. /\ \A v \in Workers : v # w => run'[v] = run[v] /\ held'[v] = held[v]
      /\ \A v \in Workers : run[v].pc # "idle" => Job(v) \in Intents
      /\ run[w].pc # "idle" /\ run'[w].pc # "idle" => held'[w] = held[w]
  BY PlainStep
<1>2. \A i \in Intents : NotSent(i) => NotSent(i)'
  BY SentOnceStep
<1>3. ASSUME NEW v \in Workers, At(v, {"void", "fail"})'
      PROVE  NotSent(Job(v))'
  <2>1. ASSUME NEW i \in Intents, NotSent(i), i = Job(v), held'[v] = held[v]
        PROVE  NotSent(Job(v))'
    BY <2>1, <1>2 DEF NotSent, Job
  <2>2. CASE v # w
    <3>1. /\ At(v, {"void", "fail"}) /\ held'[v] = held[v] /\ Job(v) \in Intents
      BY <1>3, <2>2, <1>1 DEF At
    <3>2. QED
      BY <3>1, <2>1 DEF GivenUpInv
  <2>3. CASE v = w /\ run'[w].pc = "void"
    <3>1. Weigh(w)
      BY <2>3, <1>s, WhereFrom
    <3>2. held'[w] = held[w] /\ Job(w) \in Intents
      BY <2>3, <3>1, <1>1 DEF Weigh, At
    <3>3. LastCast(Job(w)).sent = "not-sent"
      <4>1. ASSUME Goto(w, "suspend") PROVE FALSE
        BY <4>1, <2>3, <1>s, GotoMoves DEF Calls
      <4>2. QED
        BY <3>1, <4>1 DEF Weigh
    <3>4. NotSent(Job(w))
      BY <3>3 DEF LastCast, NotSent
    <3>5. QED
      BY <2>1, <2>3, <3>2, <3>4
  <2>4. CASE v = w /\ run'[w].pc = "fail"
    <3>1. At(w, {"void"})
      BY <2>4, <1>s, WhereFrom DEF Void
    <3>2. held'[w] = held[w] /\ Job(w) \in Intents
      BY <2>4, <3>1, <1>1 DEF At
    <3>3. NotSent(Job(w))
      BY <3>1 DEF GivenUpInv, At
    <3>4. QED
      BY <2>1, <2>4, <3>2, <3>3
  <2>5. QED
    BY <1>3, <2>2, <2>3, <2>4 DEF At
<1>4. ASSUME NEW i \in Intents, Failed(i)'
      PROVE  NotSent(i)
  <2>1. CASE store'[i] = store[i]
    BY <1>4, <2>1 DEF Failed, GivenUpInv
  <2>2. CASE store'[i] # store[i]
    <3>1. Cas(w) /\ i = Job(w)
      BY <2>2, CasMoves
    <3>2. CasSteps[run[w].pc].to = "failed"
      BY <1>4, <3>1, CasDoes DEF Failed
    <3>3. At(w, {"fail"})
      BY <3>1, <3>2 DEF Cas, At, CasSteps
    <3>4. QED
      BY <3>1, <3>3 DEF GivenUpInv, At
  <2>3. QED
    BY <2>1, <2>2
<1>5. ASSUME NEW i \in Intents, Voided(i)'
      PROVE  NotSent(i)
  <2>1. CASE Voided(i)
    BY <2>1 DEF GivenUpInv
  <2>2. CASE ~Voided(i)
    <3>1. ~UNCHANGED bookVars
      BY <1>5, <2>2 DEF Voided, J!RowsOf, bookVars
    <3>2. ASSUME NEW e, J!Append1(e)
          PROVE  e.id = <<i, "void">>
      BY <1>5, <2>2, <3>2, RowAdded DEF HoldsInv, Voided
    <3>3. ASSUME NEW n, J!Append1(HoldEntry(Job(w), n)) PROVE FALSE
      BY <3>2, <3>3 DEF HoldEntry
    <3>4. PICK n : At(w, {"void"}) /\ J!Append1(VoidEntry(Job(w), n))
      BY <3>1, <3>3, BookStep
    <3>5. VoidEntry(Job(w), n).id = <<Job(w), "void">>
      BY DEF VoidEntry
    <3>6. Job(w) = i
      BY <3>2, <3>4, <3>5
    <3>7. QED
      BY <3>4, <3>6 DEF GivenUpInv, At
  <2>3. QED
    BY <2>1, <2>2
<1>6. QED
  BY <1>2, <1>3, <1>4, <1>5 DEF GivenUpInv

\* Letting a hold go leaves none: the void is written, or there was no hold,
\* or it was resolved.
LEMMA VoidLeavesNoHold ==
  ASSUME HoldsInv, NEW w \in Workers, Void(w), Job(w) \in Intents, Goto(w, "fail"),
         ~Goto(w, "drop")
  PROVE  NoHold(Job(w))'
<1>1. PICK i \in Intents : i = Job(w)
  OBVIOUS
<1>2. PICK e : e = VoidEntry(i, copy[w].it.version)
  OBVIOUS
<1>3. /\ e.id = <<i, "void">> /\ e.ref = i /\ e.kind = "void"
      /\ e.holds = <<i, "hold">> /\ e.asset = "asset" /\ e.legs = Legs(0)
  BY <1>2 DEF VoidEntry
<1>4. J!Valid(e)
  <2>1. <<i, "hold">> # None
    BY NoneIsNothing
  <2>2. Legs(0) = [a \in {"payer", "merchant"} |-> 0]
    <3>1. -0 = 0
      <4>1. \A n \in Int : -n = 0 - n
        OBVIOUS
      <4>2. 0 \in Int /\ 0 - 0 = 0
        OBVIOUS
      <4>3. QED
        BY <4>1, <4>2, Zenon
    <3>2. \A a : (IF a = "payer" THEN -0 ELSE 0) = 0
      BY <3>1
    <3>3. QED
      BY <3>2, Zenon DEF Legs
  <2>3. QED
    BY <1>3, <2>1, <2>2 DEF J!Valid, J!NoLegs
<1>5. /\ IF J!Fresh(e) THEN J!Append1(e) ELSE UNCHANGED bookVars
      /\ ~J!Conflict(e)
  BY <1>1, <1>2 DEF Void
<1>6. CASE J!Fresh(e)
  <2>1. <<i, "hold">> \in resolved'
    BY <1>3, <1>5, <1>6 DEF J!Append1
  <2>2. held'[w] = held[w]
    BY DEF Void, queueVars
  <2>3. QED
    BY <1>1, <2>1, <2>2 DEF NoHold, Job
<1>7. CASE ~J!Fresh(e)
  <2>1. J!HasHold(e) \/ J!RowsOf(<<i, "hold">>) = {}
    <3>1. ASSUME NEW k \in J!RowsOf(<<i, "hold">>)
          PROVE  /\ books[k].entry.kind = "hold" /\ books[k].entry.ref = i
                 /\ books[k].entry.asset = "asset"
      <4>1. k \in DOMAIN books /\ books[k].entry.id = <<i, "hold">>
        BY <3>1 DEF J!RowsOf
      <4>a. PICK j \in Intents :
              \E n : books[k].entry \in {HoldEntry(j, n), VoidEntry(j, n)}
        BY <4>1 DEF HoldsInv
      <4>2. PICK n :
              books[k].entry = HoldEntry(j, n) \/ books[k].entry = VoidEntry(j, n)
        BY <4>a
      <4>3. books[k].entry # VoidEntry(j, n)
        BY <4>1 DEF VoidEntry
      <4>4. books[k].entry = HoldEntry(i, n)
        BY <4>1, <4>2, <4>3 DEF HoldEntry
      <4>5. QED
        BY <4>4 DEF HoldEntry
    <3>2. QED
      BY <3>1, <1>3 DEF J!HasHold
  <2>2. \/ Voided(i)
        \/ J!RowsOf(<<i, "hold">>) = {}
        \/ <<i, "hold">> \in resolved
    BY <1>3, <1>4, <1>7, <2>1 DEF J!Fresh, J!New, J!Known, J!ErrNoSuchHold,
       J!ErrAlreadyResolved, Voided
  <2>3. J!RowsOf(<<i, "hold">>) = {} \/ <<i, "hold">> \in resolved
    BY <2>2 DEF HoldsInv
  <2>4. books' = books /\ resolved' = resolved /\ held' = held
    BY <1>5, <1>7 DEF bookVars, Void, queueVars
  <2>5. QED
    BY <1>1, <2>3, <2>4 DEF NoHold, J!RowsOf, Job
<1>8. QED
  BY <1>6, <1>7

LEMMA HoldsStep ==
  ASSUME ~CanReplace, Base, OneSender, SentOnce, GivenUpInv, HoldsInv,
         NEW w \in Workers, WorkerStep(w)
  PROVE  HoldsInv'
<1>s. LocalsTyped /\ LeavesToAnEnd
  BY DEF Base, Shape
<1>1. /\ \A v \in Workers : v # w => run'[v] = run[v] /\ held'[v] = held[v]
      /\ \A v \in Workers : run[v].pc # "idle" => Job(v) \in Intents
      /\ run[w].pc # "idle" /\ run'[w].pc # "idle" => held'[w] = held[w]
  BY PlainStep
<1>2. ASSUME NEW e, J!Append1(e),
             \/ At(w, {"hold"}) /\ \E n : e = HoldEntry(Job(w), n)
             \/ At(w, {"void"}) /\ \E n : e = VoidEntry(Job(w), n)
      PROVE  /\ \E T : books' \in Seq(T)
             /\ resolved \subseteq resolved'
             /\ \A k \in DOMAIN books' : \E i \in Intents : \E n :
                  books'[k].entry \in {HoldEntry(i, n), VoidEntry(i, n)}
             /\ \A i \in Intents : Voided(i)' => <<i, "hold">> \in resolved'
             /\ \A i \in Intents : NotSent(i) /\ NoHold(i) => NoHold(i)'
  <2>1. PICK j \in Intents : j = Job(w)
    BY <1>1, <1>2 DEF At
  <2>2. PICK n : \/ At(w, {"hold"}) /\ e = HoldEntry(j, n)
                 \/ At(w, {"void"}) /\ e = VoidEntry(j, n)
    BY <1>2, <2>1
  <2>3. /\ \E T : books' \in Seq(T)
        /\ \A k \in DOMAIN books' : \/ books'[k].entry = e
                                    \/ k \in DOMAIN books /\ books'[k] = books[k]
        /\ \A id : J!RowsOf(id)' # {} <=> J!RowsOf(id) # {} \/ e.id = id
        /\ resolved' = resolved \union (IF e.kind = "hold" THEN {} ELSE {e.holds})
    BY <1>2, RowAdded DEF HoldsInv
  <2>4. /\ resolved \subseteq resolved'
        /\ \A k \in DOMAIN books' : \E i \in Intents : \E m :
             books'[k].entry \in {HoldEntry(i, m), VoidEntry(i, m)}
    <3>1. resolved \subseteq resolved'
      BY <2>3
    <3>2. ASSUME NEW k \in DOMAIN books'
          PROVE  \E i \in Intents : \E m :
                   books'[k].entry \in {HoldEntry(i, m), VoidEntry(i, m)}
      <4>1. CASE books'[k].entry = e
        BY <2>2, <4>1
      <4>2. CASE k \in DOMAIN books /\ books'[k] = books[k]
        BY <4>2 DEF HoldsInv
      <4>3. QED
        BY <4>1, <4>2, <2>3
    <3>3. QED
      BY <3>1, <3>2
  <2>5. ASSUME NEW i \in Intents, Voided(i)'
        PROVE  <<i, "hold">> \in resolved'
    <3>1. CASE Voided(i)
      BY <3>1, <2>3 DEF HoldsInv
    <3>2. CASE ~Voided(i)
      <4>1. e.id = <<i, "void">>
        BY <2>3, <2>5, <3>2 DEF Voided
      <4>2. e = VoidEntry(j, n)
        BY <2>2, <4>1 DEF HoldEntry
      <4>3. e.holds = <<i, "hold">> /\ e.kind = "void"
        BY <4>1, <4>2 DEF VoidEntry
      <4>4. QED
        BY <2>3, <4>3
    <3>3. QED
      BY <3>1, <3>2
  <2>6. ASSUME NEW i \in Intents, NotSent(i), NoHold(i)
        PROVE  NoHold(i)'
    <3>1. CASE <<i, "hold">> \in resolved
      BY <3>1, <2>4 DEF NoHold
    <3>2. CASE J!RowsOf(<<i, "hold">>) = {}
      <4>1. ASSUME e.id = <<i, "hold">> PROVE FALSE
        <5>1. At(w, {"hold"}) /\ j = i
          BY <2>2, <4>1 DEF HoldEntry, VoidEntry
        <5>2. Sending(w) /\ Job(w) = i
          BY <5>1, <2>1 DEF Sending, At
        <5>3. QED
          BY <5>2, <2>6 DEF OneSender, NotSent
      <4>2. J!RowsOf(<<i, "hold">>)' = {}
        BY <3>2, <4>1, <2>3
      <4>3. QED
        BY <4>2 DEF NoHold
    <3>3. QED
      BY <3>1, <3>2, <2>6 DEF NoHold
  <2>7. QED
    BY <2>3, <2>4, <2>5, <2>6
<1>3. /\ \E T : books' \in Seq(T)
      /\ \A k \in DOMAIN books' : \E i \in Intents : \E n :
           books'[k].entry \in {HoldEntry(i, n), VoidEntry(i, n)}
      /\ \A i \in Intents : Voided(i)' => <<i, "hold">> \in resolved'
      /\ \A i \in Intents : NotSent(i) /\ NoHold(i) => NoHold(i)'
  <2>1. CASE UNCHANGED bookVars
    BY <2>1 DEF bookVars, HoldsInv, Voided, NoHold, J!RowsOf
  <2>2. CASE At(w, {"hold"}) /\ \E n : J!Append1(HoldEntry(Job(w), n))
    BY <2>2, <1>2
  <2>3. CASE At(w, {"void"}) /\ \E n : J!Append1(VoidEntry(Job(w), n))
    BY <2>3, <1>2
  <2>4. QED
    BY <2>1, <2>2, <2>3, BookStep
<1>4. ASSUME NEW v \in Workers, At(v, {"fail"})'
      PROVE  NoHold(Job(v))'
  <2>1. CASE v # w
    <3>1. At(v, {"fail"}) /\ held'[v] = held[v] /\ Job(v) \in Intents
      BY <1>4, <2>1, <1>1 DEF At
    <3>2. PICK i \in Intents : i = Job(v) /\ held'[v].job = i
      BY <3>1 DEF Job
    <3>3. NotSent(i) /\ NoHold(i)
      BY <3>1, <3>2 DEF GivenUpInv, HoldsInv, At
    <3>4. NoHold(i)'
      BY <3>3, <1>3
    <3>5. QED
      BY <3>2, <3>4 DEF NoHold, Job, J!RowsOf
  <2>2. CASE v = w
    <3>1. Void(w) /\ run'[w].pc = "fail"
      BY <1>4, <2>2, <1>s, WhereFrom DEF At
    <3>2. Job(w) \in Intents
      BY <3>1, <1>1 DEF Void, At
    <3>3. ~Goto(w, "drop")
      BY <3>1, <1>s, GotoMoves DEF Calls
    <3>4. Goto(w, "fail")
      BY <3>1, <3>3 DEF Void
    <3>5. QED
      BY <2>2, <3>1, <3>2, <3>3, <3>4, VoidLeavesNoHold
  <2>3. QED
    BY <2>1, <2>2
<1>5. ASSUME NEW i \in Intents, Failed(i)'
      PROVE  NoHold(i)'
  <2>1. CASE store'[i] = store[i]
    <3>1. Failed(i)
      BY <1>5, <2>1 DEF Failed
    <3>2. QED
      BY <3>1, <1>3 DEF GivenUpInv, HoldsInv
  <2>2. CASE store'[i] # store[i]
    <3>1. Cas(w) /\ i = Job(w)
      BY <2>2, CasMoves
    <3>2. CasSteps[run[w].pc].to = "failed"
      BY <1>5, <3>1, CasDoes DEF Failed
    <3>3. At(w, {"fail"})
      BY <3>1, <3>2 DEF Cas, At, CasSteps
    <3>4. NotSent(i) /\ NoHold(i)
      BY <3>1, <3>3 DEF GivenUpInv, HoldsInv, At
    <3>5. QED
      BY <3>4, <1>3
  <2>3. QED
    BY <2>1, <2>2
<1>6. QED
  BY <1>3, <1>4, <1>5 DEF HoldsInv
-----------------------------------------------------------------------------
LEMMA PlainInvInductive ==
  ~CanReplace => (Base /\ PlainInv /\ [Next]_vars => PlainInv')
<1> SUFFICES ASSUME ~CanReplace, Base, PlainInv, [Next]_vars PROVE PlainInv'
  OBVIOUS
<1>1. CASE UNCHANGED vars
  BY <1>1 DEF vars, PlainInv, OneSender, SentOnce, GivenUpInv, HoldsInv, Sending,
     Unclaimed, NotSent, Failed, Voided, NoHold, At, Job, J!RowsOf
<1>2. ASSUME NEW j \in Intents, WorldStep(j), Next
      PROVE  PlainInv'
  <2>1. /\ UNCHANGED <<held, casts, run, txs, books, resolved>>
        /\ ~APIStep(j) => store' = store
    BY <1>2, WorldLeavesWorkers DEF bookVars
  <2>2. ASSUME NEW i \in Intents
        PROVE  (Unclaimed(i)' => Unclaimed(i)) /\ (Failed(i)' => Failed(i))
    <3>1. CASE store'[i] = store[i]
      BY <3>1 DEF Unclaimed, Failed
    <3>2. CASE store'[i] # store[i]
      <4>1. APIStep(j)
        BY <2>1, <3>2
      <4>2. /\ store'[i] # None
            /\ \/ store[i] = None /\ store'[i].state = "created"
               \/ store[i] # None /\ store[i].state = "created"
                    /\ store'[i].state = "authorized"
               \/ store[i] # None /\ store[i].state \in {"created", "authorized"}
                    /\ store'[i].state = "canceled"
        BY <3>2, <4>1, APIMoves DEF APIStep
      <4>3. QED
        BY <4>2 DEF Unclaimed, Failed
    <3>3. QED
      BY <3>1, <3>2
  <2>3. \A w \in Workers : Sending(w) => Job(w) \in Intents
    BY DEF Base, Shape, CopyIsOfTheJob, At, Sending, Job, QP!ListInv,
           QP!QueueTypeOK, QP!Delivery
  <2>4. OneSender'
    <3>1. \A w \in Workers : Sending(w) => ~Unclaimed(Job(w))'
      BY <2>1, <2>2, <2>3 DEF PlainInv, OneSender, Unclaimed, Job
    <3>2. QED
      BY <2>1, <2>2, <3>1 DEF PlainInv, OneSender, Sending, At, Job, Unclaimed
  <2>5. SentOnce'
    BY <2>1 DEF PlainInv, SentOnce, NotSent, At, Job
  <2>6. GivenUpInv'
    BY <2>1, <2>2 DEF PlainInv, GivenUpInv, NotSent, Voided, J!RowsOf, At, Job
  <2>7. HoldsInv'
    BY <2>1, <2>2 DEF PlainInv, HoldsInv, Voided, NoHold, J!RowsOf, At, Job
  <2>8. QED
    BY <2>4, <2>5, <2>6, <2>7 DEF PlainInv
<1>3. ASSUME NEW w \in Workers, WorkerStep(w)
      PROVE  PlainInv'
  BY <1>3, OneSenderStep, SentOnceStep, GivenUpStep, HoldsStep DEF PlainInv
<1>4. QED
  BY <1>1, <1>2, <1>3 DEF Next, WorldStep, APIStep

LEMMA PlainInvHolds == ~CanReplace => (Spec => []PlainInv)
<1>1. Init => PlainInv
  <2> SUFFICES ASSUME Init PROVE PlainInv
    OBVIOUS
  <2>1. DOMAIN books = {} /\ books \in Seq({})
    BY DEF Init, J!Init
  <2>2. \A i \in Intents : Len(txs[i]) = 0
    BY DEF Init
  <2>3. /\ \A w \in Workers : run[w] = Idle
        /\ \A i \in Intents : casts[i] = None /\ store[i] = None
    BY DEF Init, I!Init
  <2>4. \A w \in Workers : ~Sending(w)
    BY <2>3 DEF Sending, At, Idle
  <2>5. \A i \in Intents : ~Failed(i) /\ ~Voided(i) /\ ~NotSent(i)
    BY <2>1, <2>3 DEF Failed, Voided, NotSent, J!RowsOf
  <2>6. OneSender /\ SentOnce /\ GivenUpInv /\ HoldsInv
    BY <2>1, <2>2, <2>3, <2>4, <2>5 DEF OneSender, SentOnce, GivenUpInv, HoldsInv,
       At, Idle
  <2>7. QED
    BY <2>6 DEF PlainInv
<1>2. CASE ~CanReplace
  <2>1. Base /\ PlainInv /\ [Next]_vars => PlainInv'
    BY <1>2, PlainInvInductive
  <2>2. QED
    BY <1>1, <2>1, BaseHolds, PTL DEF Spec
<1>3. QED
  BY <1>2

\* process claims, then sends, then records: however leases end and workers
\* take over, with faults and panics, a payment is sent at most once by a
\* sender that cannot replace.
THEOREM PlainSenderPaysOnce == ~CanReplace => (Spec => []PaidAtMostOnce)
<1>1. ASSUME Base, PlainInv PROVE PaidAtMostOnce
  <2>1. ASSUME NEW i \in Intents, NEW j \in Pays(i), NEW k \in Pays(i)
        PROVE  j = k
    <3>1. PICK T : txs[i] \in Seq(T)
      BY <1>1 DEF Base, Shape, LocalsTyped
    <3>2. PICK n \in Nat : n = Len(txs[i]) /\ DOMAIN txs[i] = 1 .. n
      BY <3>1, LenProperties
    <3>3. n <= 1 /\ j \in 1 .. n /\ k \in 1 .. n
      BY <3>2, <1>1 DEF PlainInv, SentOnce, Pays
    <3>4. QED
      BY <3>3
  <2>2. QED
    BY <2>1 DEF PaidAtMostOnce
<1>2. CASE ~CanReplace
  <2>1. Spec => []PlainInv
    BY <1>2, PlainInvHolds
  <2>2. QED
    BY <1>1, <2>1, BaseHolds, PTL
<1>3. QED
  BY <1>2

\* giveUp fails an intent, or lets its hold go, only when nothing of it was
\* sent: "no money moved" is true of a sender that cannot replace.
THEOREM PlainGivenUpIsNotSent == ~CanReplace => (Spec => []GivenUpMeansNotSent)
<1>1. ASSUME Base, PlainInv PROVE GivenUpMeansNotSent
  <2>1. ASSUME NEW i \in Intents, Voided(i) \/ Failed(i)
        PROVE  Pays(i) = {}
    <3>1. PICK T : txs[i] \in Seq(T)
      BY <1>1 DEF Base, Shape, LocalsTyped
    <3>2. Len(txs[i]) = 0
      BY <2>1, <1>1 DEF PlainInv, SentOnce, GivenUpInv
    <3>3. DOMAIN txs[i] = 1 .. 0
      BY <3>1, <3>2, LenProperties
    <3>4. QED
      BY <3>3 DEF Pays
  <2>2. QED
    BY <2>1 DEF GivenUpMeansNotSent, Voided, Failed
<1>2. CASE ~CanReplace
  <2>1. Spec => []PlainInv
    BY <1>2, PlainInvHolds
  <2>2. QED
    BY <1>1, <2>1, BaseHolds, PTL
<1>3. QED
  BY <1>2

\* The void comes before the failure, and no worker is left that could still
\* put a hold on the books: a failed payment reserves no money.
THEOREM PlainFailureFreesTheHold == ~CanReplace => (Spec => []FailedLeavesNoHold)
<1>1. PlainInv => FailedLeavesNoHold
  BY DEF PlainInv, HoldsInv, FailedLeavesNoHold, Failed, NoHold
<1>2. CASE ~CanReplace
  <2>1. Spec => []PlainInv
    BY <1>2, PlainInvHolds
  <2>2. QED
    BY <1>1, <2>1, PTL
<1>3. QED
  BY <1>2
-----------------------------------------------------------------------------
(***************************************************************************)
(* The types of the relayer's own state, with the one fact about them that *)
(* is not a type: whoever has the wallet's number is on the way from Reserve *)
(* to the deferred Resolve.                                                *)
(***************************************************************************)
Numbered == {"claim", "hold", "send", "record", "confirm", "replace", "clear",
             "unwind"}
NumberInv ==
  /\ DOMAIN res = Workers
  /\ \A w \in Workers : res[w] # None => At(w, Numbered)
FeesInv ==
  /\ \A w \in Workers : run[w].fee \in 0 .. MaxFee
  /\ \A i \in Intents : casts[i] # None => casts[i].fee \in 0 .. MaxFee
RelayerInv == NumberInv /\ FeesInv /\ parked \subseteq Intents

\* The job of a worker that is past the Lease is one of the payments.
LEMMA TheJobIsOne ==
  ASSUME Base, NEW w \in Workers, ~At(w, {"idle"})
  PROVE  Job(w) \in Intents
BY DEF Base, Shape, CopyIsOfTheJob, At, Job, QP!ListInv, QP!QueueTypeOK, QP!Delivery

\* A worker's step moves no other worker's number, and a worker that leaves
\* the calls between Reserve and Resolve has none.
LEMMA NumbersAndFees ==
  ASSUME Base, NumberInv, FeesInv, NEW w \in Workers, WorkerStep(w)
  PROVE  /\ DOMAIN res' = Workers /\ \A v \in Workers : v # w => res'[v] = res[v]
         /\ res'[w] # None => At(w, Numbered)'
         /\ run'[w].fee \in 0 .. MaxFee
         /\ \A i \in Intents : casts'[i] # None => casts'[i].fee \in 0 .. MaxFee
<1> DEFINE Stays == /\ DOMAIN res' = Workers
                    /\ \A v \in Workers : v # w => res'[v] = res[v]
           Rows == \A i \in Intents :
                     casts'[i] # None => casts'[i].fee \in 0 .. MaxFee
           Fee == run'[w].fee \in 0 .. MaxFee
           Hand == res'[w] # None => At(w, Numbered)'
<1>1. /\ run \in [Workers -> Local] /\ run[w] \in Local /\ run[w].fee \in 0 .. MaxFee
      /\ res[w] # None => At(w, Numbered)
      /\ DOMAIN res = Workers /\ MaxFee \in Nat
  BY RelayerAssumption DEF Base, Shape, LocalsTyped, NumberInv, FeesInv
<1>2. UNCHANGED casts => Rows
  BY DEF FeesInv
<1>3. UNCHANGED counterVars => Stays /\ res' = res
  BY <1>1 DEF counterVars
<1>4. ASSUME NEW pc \in Calls, Goto(w, pc)
      PROVE  run'[w].pc = pc /\ Fee
  BY <1>1, <1>4 DEF Goto, Local
<1>5. ASSUME NEW pc \in Calls, Leave(w, pc), UNCHANGED counterVars
      PROVE  Hand /\ Fee
  <2>1. CASE res[w] = None
    <3>1. run'[w] = [Idle EXCEPT !.pc = pc, !.poison = run[w].poison]
      BY <1>1, <1>5, <2>1 DEF Leave
    <3>2. run'[w].fee = 0
      BY <3>1 DEF Idle
    <3>3. QED
      BY <1>1, <1>3, <1>5, <2>1, <3>2
  <2>2. CASE res[w] # None
    <3>1. run'[w] = [run[w] EXCEPT !.pc = "unwind", !.then = pc]
      BY <1>1, <1>5, <2>2 DEF Leave
    <3>2. run'[w].pc = "unwind" /\ run'[w].fee = run[w].fee
      BY <1>1, <3>1 DEF Local
    <3>3. QED
      BY <1>1, <3>2 DEF At, Numbered
  <2>3. QED
    BY <2>1, <2>2
<1>6. ASSUME UNCHANGED counterVars, ~At(w, Numbered)
      PROVE  Hand
  BY <1>1, <1>3, <1>6
<1>7. ASSUME NEW pc \in Calls, Goto(w, pc), UNCHANGED <<counterVars, casts>>,
             pc \in Numbered \/ ~At(w, Numbered)
      PROVE  Stays /\ Hand /\ Fee /\ Rows
  BY <1>2, <1>3, <1>4, <1>6, <1>7 DEF At
<1>8. ASSUME NEW pc \in Calls, Leave(w, pc), UNCHANGED <<counterVars, casts>>
      PROVE  Stays /\ Hand /\ Fee /\ Rows
  BY <1>2, <1>3, <1>5, <1>8
<1>9. CASE Lease(w)
  BY <1>7, <1>9 DEF Lease, At, Numbered, Calls
<1>10. CASE Read(w)
  <2>1. Branch(Job(w)) \in Calls
    BY DEF Branch, Calls
  <2>2. QED
    BY <1>7, <1>10, <2>1 DEF Read, At, Numbered
<1>11. CASE TakeSlot(w)
  <2>1. Fee /\ run'[w].pc \in {"claim", "replace"}
    BY <1>4, <1>11 DEF TakeSlot, Calls
  <2>2. Rows
    BY <1>2, <1>11 DEF TakeSlot
  <2>3. Stays
    BY <1>1, <1>3, <1>11 DEF TakeSlot, S!Reserve, S!Give
  <2>4. QED
    BY <2>1, <2>2, <2>3 DEF At, Numbered
<1>12. CASE NoSlot(w)
  BY <1>8, <1>12 DEF NoSlot, Calls
<1>13. CASE Cas(w)
  <2>1. UNCHANGED <<counterVars, casts>> /\ At(w, DOMAIN CasSteps)
    BY <1>13 DEF Cas
  <2>2. PICK to \in {"hold", "ack", "park"} : to = CasSteps[run[w].pc].ok
    BY <2>1 DEF At, CasSteps
  <2>3. to = "park" => ~At(w, Numbered)
    BY <2>1, <2>2 DEF At, CasSteps, Numbered
  <2>4. IF to = "ack" THEN Leave(w, to) ELSE Goto(w, to)
    BY <1>13, <2>2 DEF Cas
  <2>5. QED
    BY <1>7, <1>8, <2>1, <2>2, <2>3, <2>4 DEF Numbered, Calls
<1>14. CASE CasLost(w)
  <2>1. CasSteps[run[w].pc].lost \in Calls
    BY <1>14 DEF CasLost, CasSteps, Calls, At
  <2>2. QED
    BY <1>8, <1>14, <2>1 DEF CasLost
<1>15. CASE Hold(w)
  <2>1. Leave(w, "judge") \/ Goto(w, "send")
    BY <1>15 DEF Hold
  <2>2. QED
    BY <1>7, <1>8, <1>15, <2>1 DEF Hold, Numbered, Calls
<1>16. CASE Send(w)
  <2>1. run'[w].pc = "record" /\ run'[w].fee = run[w].fee
    BY <1>1, <1>16 DEF Send, Local
  <2>2. QED
    BY <1>1, <1>2, <1>3, <1>16, <2>1 DEF Send, At, Numbered
<1>17. CASE Panic(w)
  BY <1>8, <1>17 DEF Panic, Calls
<1>18. CASE Record(w)
  <2>1. Rows
    BY <1>1, <1>18 DEF Record, FeesInv, Base, Shape, LocalsTyped, CopyIsOfTheJob
  <2>2. CASE Leave(w, "judge")
    BY <1>3, <1>5, <1>18, <2>1, <2>2 DEF Record, Calls
  <2>3. CASE Goto(w, "clear") \/ Goto(w, "confirm")
    BY <1>3, <1>4, <1>18, <2>1, <2>3 DEF Record, Calls, At, Numbered
  <2>4. QED
    BY <1>18, <2>2, <2>3 DEF Record
<1>19. CASE Unwind(w)
  <2>1. Stays /\ res'[w] = None
    BY <1>1, <1>19 DEF Unwind, S!Resolve
  <2>2. run'[w] = [Idle EXCEPT !.pc = run[w].then, !.poison = run[w].poison]
    BY <1>1, <1>19 DEF Unwind
  <2>3. run'[w].fee = 0
    BY <2>2 DEF Idle
  <2>4. QED
    BY <1>1, <1>2, <1>19, <2>1, <2>3 DEF Unwind
<1>20. CASE RescueWait(w)
  BY <1>8, <1>20 DEF RescueWait, Calls
<1>21. CASE Rescue(w)
  <2>1. CASE Goto(w, "review")
    BY <1>7, <1>21, <2>1 DEF Rescue, At, Numbered, Calls
  <2>2. CASE ~Goto(w, "review")
    <3>1. PICK last : last = LastCast(Job(w))
      OBVIOUS
    <3>2. PICK fee : fee = IF last.sent = "not-sent" THEN 0 ELSE last.fee + 1
      OBVIOUS
    <3>3. ~(fee > MaxFee) /\ run' = [run EXCEPT ![w] =
             [@ EXCEPT !.pc = "gap", !.fee = fee,
                !.kind = IF last.tries >= MaxTries THEN "cancel" ELSE "pay"]]
      BY <1>21, <2>2, <3>1, <3>2 DEF Rescue
    <3>4. last.fee \in Nat
      <4>1. Job(w) \in Intents
        BY <1>21, TheJobIsOne DEF Rescue, At
      <4>2. QED
        BY <3>1, <4>1 DEF LastCast, Base, Shape, LocalsTyped, Cast
    <3>5. fee \in 0 .. MaxFee
      BY <1>1, <3>2, <3>3, <3>4
    <3>6. run'[w].fee = fee
      BY <1>1, <3>3 DEF Local
    <3>7. QED
      BY <1>2, <1>3, <1>6, <1>21, <3>5, <3>6 DEF Rescue, At, Numbered
  <2>3. QED
    BY <2>1, <2>2
<1>22. CASE TakeGap(w)
  <2>1. Fee /\ run'[w].pc = "replace"
    BY <1>4, <1>22 DEF TakeGap, Calls
  <2>2. Rows
    BY <1>2, <1>22 DEF TakeGap
  <2>3. Stays
    BY <1>1, <1>22 DEF TakeGap, S!ReserveGap, S!Give
  <2>4. QED
    BY <2>1, <2>2, <2>3 DEF At, Numbered
<1>23. CASE NoGap(w)
  <2>1. Goto(w, "review") \/ Goto(w, "fresh")
    BY <1>23 DEF NoGap
  <2>2. QED
    BY <1>7, <1>23, <2>1 DEF NoGap, At, Numbered, Calls
<1>24. CASE Judge(w)
  <2>1. Goto(w, "giveup") \/ Goto(w, "nack")
    BY <1>24 DEF Judge
  <2>2. QED
    BY <1>7, <1>24, <2>1 DEF Judge, At, Numbered, Calls
<1>25. CASE GiveUp(w)
  <2>1. Goto(w, "weigh") \/ Goto(w, "park")
    BY <1>25 DEF GiveUp
  <2>2. QED
    BY <1>7, <1>25, <2>1 DEF GiveUp, At, Numbered, Calls
<1>26. CASE Weigh(w)
  <2>1. Goto(w, "void") \/ Goto(w, "suspend")
    BY <1>26 DEF Weigh
  <2>2. QED
    BY <1>7, <1>26, <2>1 DEF Weigh, At, Numbered, Calls
<1>27. CASE Void(w)
  <2>1. Goto(w, "drop") \/ Goto(w, "fail")
    BY <1>27 DEF Void
  <2>2. QED
    BY <1>7, <1>27, <2>1 DEF Void, At, Numbered, Calls
<1>28. CASE Park(w)
  BY <1>7, <1>28 DEF Park, At, Numbered, Calls
<1>29. CASE Fault(w)
  BY <1>8, <1>29 DEF Fault, Calls
<1>30. CASE EndOfRun(w)
  <2>1. run'[w] = Idle /\ UNCHANGED <<counterVars, casts>>
    BY <1>1, <1>30 DEF EndOfRun
  <2>2. ~At(w, Numbered)
    BY <1>30 DEF EndOfRun, At, Numbered
  <2>3. QED
    BY <1>1, <1>2, <1>3, <1>6, <2>1, <2>2 DEF Idle
<1>31. QED
  BY <1>9, <1>10, <1>11, <1>12, <1>13, <1>14, <1>15, <1>16, <1>17, <1>18, <1>19,
     <1>20, <1>21, <1>22, <1>23, <1>24, <1>25, <1>26, <1>27, <1>28, <1>29, <1>30
     DEF WorkerStep

LEMMA RelayerInvInductive == Base /\ RelayerInv /\ [Next]_vars => RelayerInv'
<1> SUFFICES ASSUME Base, RelayerInv, [Next]_vars PROVE RelayerInv'
  OBVIOUS
<1>1. CASE UNCHANGED vars
  BY <1>1 DEF RelayerInv, NumberInv, FeesInv, At, vars, counterVars
<1>2. ASSUME NEW j \in Intents, WorldStep(j)
      PROVE  RelayerInv'
  BY <1>2, WorldLeavesWorkers
     DEF RelayerInv, NumberInv, FeesInv, At, counterVars
<1>3. ASSUME NEW w \in Workers, WorkerStep(w)
      PROVE  RelayerInv'
  <2>1. \A v \in Workers : v # w => run'[v] = run[v]
    BY <1>3, LocalsStep DEF Base, Shape
  <2>2. NumberInv' /\ FeesInv'
    BY <1>3, <2>1, NumbersAndFees DEF RelayerInv, NumberInv, FeesInv, At
  <2>3. parked' \subseteq Intents
    <3>1. CASE Park(w)
      <4>1. ~At(w, {"idle"})
        BY <3>1 DEF Park, At
      <4>2. Job(w) \in Intents
        BY <4>1, TheJobIsOne
      <4>3. QED
        BY <3>1, <4>2 DEF Park, RelayerInv
    <3>2. CASE ~Park(w)
      BY <1>3, <3>2
         DEF RelayerInv, WorkerStep, Lease, Read, TakeSlot, NoSlot, Cas, CasLost,
             Hold, Send, Panic, Record, Unwind, RescueWait, Rescue, TakeGap,
             NoGap, Judge, GiveUp, Weigh, Void, Fault, EndOfRun
    <3>3. QED
      BY <3>1, <3>2
  <2>4. QED
    BY <2>2, <2>3 DEF RelayerInv
<1>4. QED
  BY <1>1, <1>2, <1>3 DEF Next, WorldStep, APIStep

\* The deferred Resolve gives the wallet's number back on every way out of
\* process and rescue, panics and errors included: a worker that has it is
\* between Reserve and Resolve.  With it the types of what the worker keeps.
THEOREM RelayerTypeCorrect == Spec => []RelayerTypeOK
<1>1. Init => RelayerInv
  BY RelayerAssumption
     DEF Init, S!Init, RelayerInv, NumberInv, FeesInv, At, Idle
<1>2. Base /\ RelayerInv => RelayerTypeOK
  BY DEF Base, Shape, LocalsTyped, CopyIsOfTheJob, RelayerInv, NumberInv, FeesInv,
         RelayerTypeOK, Cast, At, Numbered, S!Sent
<1>3. QED
  BY <1>1, <1>2, RelayerInvInductive, BaseHolds, PTL DEF Spec
-----------------------------------------------------------------------------
(***************************************************************************)
(* The books come first.  With a sender that cannot replace, what is sent  *)
(* went past the append of the hold.  With one that can, a payment may be  *)
(* rescued by a worker that took no hold; then it is the wallet's number   *)
(* that keeps the rescuer from sending while the worker that claimed the   *)
(* payment is still before the append.                                     *)
(***************************************************************************)
HeldFor(i) == J!RowsOf(<<i, "hold">>) # {}
\* i went into settling.
Claimed(i) ==
  store[i] # None /\ store[i].state \notin {"created", "authorized", "canceled"}
InRescue(w) == At(w, {"rescue", "gap", "fresh", "replace"})

\* One worker at a time has the wallet's number, from Reserve to Resolve.
NumbersTyped ==
  /\ next \in [{Wallet} -> Nat] /\ gap \in [{Wallet} -> Nat \union {None}]
  /\ out \in [{Wallet} -> Nat \union {None}]
  /\ res \in [Workers -> S!Reservation \union {None}]
OneNumber ==
  /\ NumbersTyped
  /\ \A w \in Workers : res[w] # None => res[w].acct = Wallet /\ out[Wallet] # None
  /\ \A v, w \in Workers : res[v] # None /\ res[w] # None => v = w
NumberInHand ==
  Ordered => \A w \in Workers :
    At(w, {"claim", "hold", "send", "replace"}) => res[w] # None

\* Only a sender that can replace is asked to.
ReplacersOnly == \A w \in Workers : At(w, {"gap", "fresh", "replace"}) => CanReplace

\* A worker at the hold has the number, so a rescuer with the number is after it.
BooksFirst ==
  /\ \E T : books \in Seq(T)
  /\ \A w \in Workers : At(w, {"send"}) => HeldFor(Job(w))
  /\ \A i \in Intents : Len(txs[i]) > 0 => HeldFor(i)
RescuesAreLate ==
  /\ \A w \in Workers : InRescue(w) => Claimed(Job(w))
  /\ \A i \in Intents : Claimed(i) =>
       HeldFor(i) \/ \E w \in Workers : At(w, {"hold"}) /\ Job(w) = i
FirstInv ==
  /\ OneNumber /\ NumberInHand /\ BooksFirst
  /\ ReplacersOnly /\ (CanReplace => RescuesAreLate)

\* Legs of a payer and a merchant balance, so Validate takes the hold.
LEMMA HoldIsValid ==
  ASSUME NEW i \in Intents, NEW n
  PROVE  J!Valid(HoldEntry(i, n))
<1>1. PICK e : e = HoldEntry(i, n)
  OBVIOUS
<1>2. PICK f : f = Legs(1)
  OBVIOUS
<1>3. e.kind = "hold" /\ e.holds = None /\ e.legs = f
  BY <1>1, <1>2 DEF HoldEntry
<1>4. f["payer"] = -1 /\ f["merchant"] = 1
  BY <1>2 DEF Legs
<1>5. J!SumOver({"payer", "merchant"}, f) = 0
  <2>1. JP!JournalAssumption /\ JP!ProposalsAssumption
    BY NoneIsNothing DEF JP!JournalAssumption, JP!ProposalsAssumption
  <2>2. f["payer"] \in Int /\ f["merchant"] \in Int /\ "payer" # "merchant"
    BY <1>4
  <2>3. JP!SumOver({"payer", "merchant"}, f) = f["payer"] + f["merchant"]
    BY <2>1, <2>2, JP!SumOfTwo
  <2>4. J!SumOver({"payer", "merchant"}, f) = JP!SumOver({"payer", "merchant"}, f)
    BY DEF J!SumOver, J!FoldFunctionOnSet, J!MapThenFoldSet,
           JP!SumOver, JP!FoldFunctionOnSet, JP!MapThenFoldSet
  <2>5. QED
    BY <1>4, <2>3, <2>4
<1>6. J!LegsOf(e) = {"payer", "merchant"}
  BY <1>3, <1>4 DEF J!LegsOf
<1>7. J!Cardinality(J!LegsOf(e)) >= 2
  <2>1. PICK S1, x : S1 = {"payer"} /\ x = "merchant"
    OBVIOUS
  <2>2. IsFiniteSet(S1) /\ Cardinality(S1) = 1
    BY <2>1, FS_Singleton
  <2>3. x \notin S1
    BY <2>1
  <2>4. Cardinality(S1 \union {x}) = IF x \in S1 THEN Cardinality(S1)
                                     ELSE Cardinality(S1) + 1
    BY <2>2, FS_AddElement
  <2>5. PICK U : U = S1 \union {x}
    OBVIOUS
  <2>6. U = J!LegsOf(e)
    BY <1>6, <2>1, <2>5
  <2>7. J!Cardinality(U) = Cardinality(U)
    BY DEF J!Cardinality, Cardinality
  <2>8. Cardinality(U) = 2
    BY <2>2, <2>3, <2>4, <2>5
  <2>9. QED
    BY <2>6, <2>7, <2>8
<1>8. J!SumOver({"payer", "merchant"}, e.legs) = 0
  BY <1>3, <1>5
<1>9. J!Balanced(e)
  BY <1>7, <1>8 DEF J!Balanced
<1>10. J!Valid(e)
  BY <1>3, <1>9 DEF J!Valid
<1>11. QED
  BY <1>1, <1>10

\* After the call of the journal the hold is on the books: appended now, or
\* there already with the same content or with another.
LEMMA HoldIsOnTheBooks ==
  ASSUME \E T : books \in Seq(T), NEW w \in Workers, Hold(w), NEW i \in Intents,
         i = Job(w)
  PROVE  HeldFor(i)'
<1>1. PICK e : e = HoldEntry(i, copy[w].it.version)
  OBVIOUS
<1>2. J!Valid(e)
  BY <1>1, HoldIsValid
<1>3. e.id = <<i, "hold">> /\ e.kind = "hold"
  BY <1>1 DEF HoldEntry
<1>4. IF J!Fresh(e) THEN J!Append1(e) ELSE UNCHANGED bookVars
  BY <1>1 DEF Hold
<1>5. CASE J!Fresh(e)
  <2>1. J!RowsOf(e.id)' # {} <=> J!RowsOf(e.id) # {} \/ e.id = e.id
    BY <1>4, <1>5, RowAdded
  <2>2. QED
    BY <1>3, <2>1 DEF HeldFor
<1>6. CASE ~J!Fresh(e)
  <2>1. J!RowsOf(<<i, "hold">>) # {}
    BY <1>2, <1>3, <1>6
       DEF J!Fresh, J!New, J!Known, J!ErrNoSuchHold, J!ErrAlreadyResolved
  <2>2. books' = books
    BY <1>4, <1>6 DEF bookVars
  <2>3. QED
    BY <2>1, <2>2 DEF HeldFor, J!RowsOf
<1>7. QED
  BY <1>5, <1>6

\* No step takes a row away.
LEMMA BooksGrow ==
  ASSUME \E T : books \in Seq(T), NEW w \in Workers, WorkerStep(w)
  PROVE  /\ \E T : books' \in Seq(T)
         /\ \A i : HeldFor(i) => HeldFor(i)'
<1>1. CASE UNCHANGED bookVars
  BY <1>1 DEF bookVars, HeldFor, J!RowsOf
<1>2. ASSUME NEW e, J!Append1(e)
      PROVE  /\ \E T : books' \in Seq(T)
             /\ \A i : HeldFor(i) => HeldFor(i)'
  <2>1. /\ \E T : books' \in Seq(T)
        /\ \A id : J!RowsOf(id)' # {} <=> J!RowsOf(id) # {} \/ e.id = id
    BY <1>2, RowAdded
  <2>2. QED
    BY <2>1 DEF HeldFor
<1>3. QED
  BY <1>1, <1>2, BookStep
-----------------------------------------------------------------------------
\* Which action leads to the calls that need the number, and who is in rescue.
LEMMA WhereNumbered ==
  ASSUME LocalsTyped, LeavesToAnEnd, NEW w \in Workers, WorkerStep(w)
  PROVE  /\ run'[w].pc = "claim" => TakeSlot(w)
         /\ run'[w].pc = "replace" => TakeSlot(w) \/ TakeGap(w)
         /\ InRescue(w)' => \/ InRescue(w) /\ ~Unwind(w) /\ ~EndOfRun(w)
                            \/ Read(w) /\ store[Job(w)].state = "settling"
<1> DEFINE Fine == /\ run'[w].pc = "claim" => TakeSlot(w)
                   /\ run'[w].pc = "replace" => TakeSlot(w) \/ TakeGap(w)
                   /\ InRescue(w)' => \/ InRescue(w) /\ ~Unwind(w) /\ ~EndOfRun(w)
                                      \/ Read(w) /\ store[Job(w)].state = "settling"
           Here == {"claim", "rescue", "gap", "fresh", "replace"}
<1>t. run \in [Workers -> Local] /\ run[w] \in Local
  BY DEF LocalsTyped
<1>e. run'[w].pc \notin Here => Fine
  BY DEF InRescue, At
<1>g. ASSUME NEW pc \in Calls, pc \notin Here, Goto(w, pc)
      PROVE  Fine
  BY <1>e, <1>g, GotoMoves
<1>l. ASSUME NEW pc \in Ends, Leave(w, pc)
      PROVE  Fine
  <2>1. run'[w].pc = pc \/ run'[w].pc = "unwind"
    BY <1>l, LeaveMoves DEF Ends, Calls
  <2>2. QED
    BY <1>e, <2>1 DEF Ends
<1>r. InRescue(w) => ~Unwind(w) /\ ~EndOfRun(w)
  BY DEF InRescue, Unwind, EndOfRun, At
<1>1. CASE Lease(w)
  BY <1>1, <1>g DEF Lease, Calls
<1>2. CASE Read(w)
  <2>1. PICK pc \in {"judge", "slot", "rescue", "ack"} : pc = Branch(Job(w))
    BY DEF Branch
  <2>2. run'[w].pc = pc
    BY <1>2, <2>1, GotoMoves DEF Read, Calls
  <2>3. pc = "rescue" => store[Job(w)].state = "settling"
    BY <2>1 DEF Branch
  <2>4. QED
    BY <1>2, <2>2, <2>3 DEF InRescue, At
<1>3. CASE TakeSlot(w)
  <2>1. \/ run'[w].pc = "claim"
        \/ run'[w].pc = "replace" /\ At(w, {"fresh"})
    BY <1>3, GotoMoves DEF TakeSlot, At, Calls
  <2>2. QED
    BY <1>3, <1>r, <2>1 DEF InRescue, At
<1>4. CASE NoSlot(w) \/ RescueWait(w) \/ Fault(w) \/ Panic(w)
  BY <1>4, <1>l DEF NoSlot, RescueWait, Fault, Panic, Ends
<1>5. CASE Cas(w)
  <2>1. PICK to \in {"hold", "ack", "park"} : to = CasSteps[run[w].pc].ok
    BY <1>5 DEF Cas, At, CasSteps
  <2>2. run'[w].pc = to \/ run'[w].pc = "unwind"
    BY <1>5, <2>1, GotoMoves, LeaveMoves DEF Cas, Calls
  <2>3. QED
    BY <1>e, <2>2
<1>6. CASE CasLost(w)
  <2>1. CasSteps[run[w].pc].lost \in Ends
    BY <1>6 DEF CasLost, At, CasSteps, Ends
  <2>2. QED
    BY <1>6, <2>1, <1>l DEF CasLost
<1>7. CASE Hold(w)
  BY <1>7, <1>g, <1>l DEF Hold, Ends, Calls
<1>8. CASE Send(w)
  BY <1>8, <1>t, <1>e DEF Send, Local
<1>9. CASE Record(w)
  <2>1. Leave(w, "judge") \/ Goto(w, "clear") \/ Goto(w, "confirm")
    BY <1>9 DEF Record
  <2>2. QED
    BY <2>1, <1>g, <1>l DEF Ends, Calls
<1>10. CASE Unwind(w)
  <2>1. PICK l : l = [Idle EXCEPT !.pc = run[w].then, !.poison = run[w].poison]
    OBVIOUS
  <2>2. l.pc = run[w].then /\ run[w].then \in Ends
    BY <1>10, <2>1 DEF Unwind, Idle, LeavesToAnEnd
  <2>3. run'[w].pc = run[w].then
    BY <1>10, <1>t, <2>1, <2>2 DEF Unwind
  <2>4. QED
    BY <1>e, <2>2, <2>3 DEF Ends
<1>11. CASE Rescue(w)
  BY <1>11, <1>t, <1>r DEF Rescue, InRescue, At, Local, Goto
<1>12. CASE TakeGap(w)
  <2>1. run'[w].pc = "replace" /\ At(w, {"gap"})
    BY <1>12, GotoMoves DEF TakeGap, Calls
  <2>2. QED
    BY <1>12, <1>r, <2>1 DEF InRescue, At
<1>13. CASE NoGap(w)
  <2>1. run'[w].pc \in {"review", "fresh"} /\ At(w, {"gap"})
    BY <1>13, GotoMoves DEF NoGap, Calls
  <2>2. QED
    BY <1>r, <2>1 DEF InRescue, At
<1>14. CASE Judge(w)
  <2>1. Goto(w, "giveup") \/ Goto(w, "nack")
    BY <1>14 DEF Judge
  <2>2. QED
    BY <2>1, <1>g DEF Calls
<1>15. CASE GiveUp(w)
  <2>1. Goto(w, "weigh") \/ Goto(w, "park")
    BY <1>15 DEF GiveUp
  <2>2. QED
    BY <2>1, <1>g DEF Calls
<1>16. CASE Weigh(w)
  <2>1. Goto(w, "void") \/ Goto(w, "suspend")
    BY <1>16 DEF Weigh
  <2>2. QED
    BY <2>1, <1>g DEF Calls
<1>17. CASE Void(w)
  <2>1. Goto(w, "drop") \/ Goto(w, "fail")
    BY <1>17 DEF Void
  <2>2. QED
    BY <2>1, <1>g DEF Calls
<1>18. CASE Park(w)
  BY <1>18, <1>g DEF Park, Calls
<1>19. CASE EndOfRun(w)
  BY <1>19, <1>t, <1>e DEF EndOfRun, Idle
<1>20. QED
  BY <1>1, <1>2, <1>3, <1>4, <1>5, <1>6, <1>7, <1>8, <1>9, <1>10, <1>11, <1>12,
     <1>13, <1>14, <1>15, <1>16, <1>17, <1>18, <1>19 DEF WorkerStep

\* The semaphore: Reserve waits until nobody has the wallet's number, and
\* whoever takes it keeps it until Resolve.
LEMMA NumberGiven ==
  ASSUME OneNumber, NEW w \in Workers, NEW n \in Nat, NEW fill \in BOOLEAN,
         out[Wallet] = None, S!Give(w, Wallet, n, fill),
         next' \in [{Wallet} -> Nat], gap' = gap
  PROVE  OneNumber' /\ res'[w] # None /\ \A v \in Workers : v # w => res'[v] = res[v]
<1>1. None \notin Nat /\ None \notin S!Reservation
  BY NoneIsNothing
<1>2. PICK r : r = [acct |-> Wallet, value |-> n, fill |-> fill]
  OBVIOUS
<1>3. r \in S!Reservation /\ r # None /\ r.acct = Wallet
  BY <1>1, <1>2 DEF S!Reservation
<1>4. out' = [out EXCEPT ![Wallet] = n] /\ res' = [res EXCEPT ![w] = r]
  BY <1>2 DEF S!Give
<1>5. \A v \in Workers : res[v] = None
  BY DEF OneNumber
<1>6. NumbersTyped'
  BY <1>3, <1>4 DEF OneNumber, NumbersTyped
<1>7. /\ out'[Wallet] # None /\ res'[w] = r
      /\ \A v \in Workers : v # w => res'[v] = None
  BY <1>1, <1>4, <1>5 DEF OneNumber, NumbersTyped
<1>8. QED
  BY <1>3, <1>5, <1>6, <1>7 DEF OneNumber

LEMMA NumberTaken ==
  ASSUME OneNumber, NEW w \in Workers, Ordered, TakeSlot(w) \/ TakeGap(w)
  PROVE  OneNumber' /\ res'[w] # None /\ \A v \in Workers : v # w => res'[v] = res[v]
<1>1. CASE TakeSlot(w)
  <2>1. PICK n \in Nat : n = next[Wallet]
    BY DEF OneNumber, NumbersTyped
  <2>2. S!Reserve(w, Wallet)
    BY <1>1 DEF TakeSlot
  <2>3. /\ out[Wallet] = None /\ S!Give(w, Wallet, n, FALSE) /\ gap' = gap
    BY <2>1, <2>2 DEF S!Reserve, S!ErrNoGap, S!Free
  <2>4. next' = [next EXCEPT ![Wallet] = n + 1]
    BY <2>1, <2>2 DEF S!Reserve
  <2>5. next' \in [{Wallet} -> Nat]
    BY <2>4 DEF OneNumber, NumbersTyped
  <2>6. QED
    BY <2>3, <2>5, NumberGiven
<1>2. CASE TakeGap(w)
  <2>1. S!ReserveGap(w, Wallet)
    BY <1>2 DEF TakeGap
  <2>2. PICK n \in Nat : n = gap[Wallet]
    BY <2>1 DEF OneNumber, NumbersTyped, S!ReserveGap, S!ErrGap
  <2>3. /\ out[Wallet] = None /\ S!Give(w, Wallet, n, TRUE)
        /\ next' \in [{Wallet} -> Nat] /\ gap' = gap
    BY <2>1, <2>2 DEF S!ReserveGap, S!ErrGap, S!Free, OneNumber, NumbersTyped
  <2>4. QED
    BY <2>3, NumberGiven
<1>3. QED
  BY <1>1, <1>2

LEMMA NumberResolved ==
  ASSUME OneNumber, NEW w \in Workers, Unwind(w)
  PROVE  OneNumber' /\ \A v \in Workers : v # w => res'[v] = res[v]
<1>1. PICK r \in S!Reservation : r = res[w] /\ r # None
  BY DEF Unwind, S!Resolve, OneNumber, NumbersTyped
<1>2. r.acct = Wallet /\ r.value \in Nat
  BY <1>1 DEF OneNumber, S!Reservation
<1>3. PICK n, g : n = S!NextAfter(r, run[w].sent) /\ g = S!GapAfter(r, run[w].sent)
  OBVIOUS
<1>4. /\ next' = [next EXCEPT ![Wallet] = n] /\ gap' = [gap EXCEPT ![Wallet] = g]
      /\ out' = [out EXCEPT ![Wallet] = None] /\ res' = [res EXCEPT ![w] = None]
  BY <1>1, <1>2, <1>3 DEF Unwind, S!Resolve
<1>5. n \in Nat /\ g \in Nat \union {None}
  BY <1>2, <1>3 DEF S!NextAfter, S!GapAfter, OneNumber, NumbersTyped
<1>6. NumbersTyped'
  BY <1>4, <1>5 DEF OneNumber, NumbersTyped
<1>7. \A v \in Workers : res'[v] = None
  BY <1>1, <1>4 DEF OneNumber, NumbersTyped
<1>8. \A v \in Workers : v # w => res'[v] = res[v]
  BY <1>4 DEF OneNumber, NumbersTyped
<1>9. QED
  BY <1>6, <1>7, <1>8 DEF OneNumber

LEMMA NumberStep ==
  ASSUME Base, OneNumber, NumberInHand, ReplacersOnly, NEW w \in Workers, WorkerStep(w)
  PROVE  OneNumber' /\ NumberInHand'
<1>s. /\ LocalsTyped /\ LeavesToAnEnd
      /\ \A v \in Workers : v # w => run'[v] = run[v]
  BY LocalsStep DEF Base, Shape
<1>1. OneNumber' /\ \A v \in Workers : v # w => res'[v] = res[v]
  <2>1. CASE UNCHANGED counterVars
    BY <2>1 DEF OneNumber, NumbersTyped, counterVars
  <2>2. CASE (TakeSlot(w) \/ TakeGap(w)) /\ Ordered
    BY <2>2, NumberTaken
  <2>3. CASE TakeGap(w) /\ ~Ordered
    BY <2>3, RelayerAssumption DEF TakeGap, ReplacersOnly, At
  <2>4. CASE Unwind(w)
    BY <2>4, NumberResolved
  <2>5. QED
    BY <2>1, <2>2, <2>3, <2>4 DEF WorkerStep, Lease, Read, TakeSlot, NoSlot, Cas,
       CasLost, Hold, Send, Panic, Record, RescueWait, Rescue, NoGap, Judge, GiveUp,
       Weigh, Void, Park, Fault, EndOfRun
<1>2. ASSUME Ordered, NEW v \in Workers, At(v, {"claim", "hold", "send", "replace"})'
      PROVE  res'[v] # None
  <2>1. CASE v # w
    BY <1>2, <2>1, <1>s, <1>1 DEF NumberInHand, At
  <2>2. CASE v = w /\ (TakeSlot(w) \/ TakeGap(w))
    BY <1>2, <2>2, NumberTaken
  <2>3. CASE v = w /\ ~(TakeSlot(w) \/ TakeGap(w))
    <3>1. (Cas(w) /\ At(w, {"claim"})) \/ Hold(w)
      BY <1>2, <2>3, <1>s, WhereFrom, WhereNumbered DEF At
    <3>2. At(w, {"claim", "hold"}) /\ res' = res
      BY <3>1 DEF Hold, Cas, At, counterVars
    <3>3. QED
      BY <1>2, <2>3, <3>2 DEF NumberInHand, At
  <2>4. QED
    BY <2>1, <2>2, <2>3
<1>3. QED
  BY <1>1, <1>2 DEF NumberInHand

\* What a step means for the books and the claimed payments, when the append
\* of a hold does not fail under a sender that can replace.
LEMMA BooksFirstStep ==
  ASSUME Base, FirstInv, NEW w \in Workers, WorkerStep(w)
  PROVE  BooksFirst' /\ ReplacersOnly'
<1>s. /\ LocalsTyped /\ LeavesToAnEnd /\ CopyIsOfTheJob /\ QP!ListInv
      /\ OneNumber /\ NumberInHand /\ BooksFirst /\ ReplacersOnly
      /\ \E T : books \in Seq(T)
  BY DEF Base, Shape, FirstInv, BooksFirst
<1>1. /\ \A v \in Workers : v # w => run'[v] = run[v] /\ held'[v] = held[v]
      /\ run[w].pc # "idle" /\ run'[w].pc # "idle" => held'[w] = held[w]
  BY LocalsStep, DeliveriesStay DEF Base, Shape
<1>2. (\E T : books' \in Seq(T)) /\ \A i : HeldFor(i) => HeldFor(i)'
  BY <1>s, BooksGrow
<1>3. ASSUME NEW v \in Workers, At(v, {"send"})', NEW i, i = held'[v].job
      PROVE  HeldFor(i)'
  <2>1. CASE v # w
    <3>1. HeldFor(i)
      BY <1>3, <2>1, <1>1, <1>s DEF BooksFirst, At, Job
    <3>2. QED
      BY <1>2, <3>1
  <2>2. CASE v = w
    <3>1. Hold(w)
      BY <1>3, <2>2, <1>s, WhereFrom DEF At
    <3>2. i = Job(w) /\ Job(w) \in Intents
      BY <1>1, <1>3, <2>2, <3>1, TheJobIsOne DEF Hold, At, Job
    <3>3. QED
      BY <1>s, <3>1, <3>2, HoldIsOnTheBooks
  <2>3. QED
    BY <2>1, <2>2
<1>4. ASSUME NEW i \in Intents, Len(txs'[i]) > 0
      PROVE  HeldFor(i)
  <2>1. CASE txs'[i] = txs[i]
    BY <1>4, <2>1, <1>s DEF BooksFirst
  <2>2. CASE txs'[i] # txs[i]
    <3>1. At(w, {"send", "replace"}) /\ i = Job(w)
      BY <1>s, <2>2, TxsGrow
    <3>2. CASE At(w, {"send"})
      BY <3>1, <3>2, <1>s DEF BooksFirst
    <3>3. CASE At(w, {"replace"})
      <4>1. CanReplace /\ Ordered /\ Claimed(i)
        BY <3>1, <3>3, <1>s, RelayerAssumption
           DEF ReplacersOnly, FirstInv, RescuesAreLate, InRescue, At
      <4>2. ASSUME NEW v \in Workers, At(v, {"hold"}), Job(v) = i PROVE FALSE
        <5>1. res[v] # None /\ res[w] # None
          BY <4>1, <4>2, <3>3, <1>s DEF NumberInHand, At
        <5>2. v = w
          BY <5>1, <1>s DEF OneNumber
        <5>3. QED
          BY <5>2, <4>2, <3>3 DEF At
      <4>3. QED
        BY <4>1, <4>2 DEF FirstInv, RescuesAreLate
    <3>4. QED
      BY <3>1, <3>2, <3>3 DEF At
  <2>3. QED
    BY <2>1, <2>2
<1>5. BooksFirst'
  <2>1. \A v \in Workers : At(v, {"send"})' => HeldFor(Job(v))'
    <3>1. SUFFICES ASSUME NEW v \in Workers, At(v, {"send"})' PROVE HeldFor(Job(v))'
      OBVIOUS
    <3>2. PICK i : i = held'[v].job
      OBVIOUS
    <3>3. HeldFor(i)'
      BY <1>3, <3>1, <3>2
    <3>4. QED
      BY <3>2, <3>3 DEF HeldFor, Job, J!RowsOf
  <2>2. QED
    BY <1>2, <1>4, <2>1 DEF BooksFirst
<1>6. ReplacersOnly'
  <2>1. ASSUME NEW v \in Workers, At(v, {"gap", "fresh", "replace"})'
        PROVE  CanReplace
    <3>1. CASE v # w
      BY <2>1, <3>1, <1>1, <1>s DEF ReplacersOnly, At
    <3>2. CASE v = w
      BY <2>1, <3>2, <1>s, WhereFrom DEF ReplacersOnly, At
    <3>3. QED
      BY <3>1, <3>2
  <2>2. QED
    BY <2>1 DEF ReplacersOnly
<1>7. QED
  BY <1>5, <1>6

LEMMA RescuesStep ==
  ASSUME Base, FirstInv, CanReplace, ~Faults, NEW w \in Workers, WorkerStep(w)
  PROVE  RescuesAreLate'
<1>s. /\ LocalsTyped /\ LeavesToAnEnd /\ RescuesAreLate
      /\ \E T : books \in Seq(T)
  BY DEF Base, Shape, FirstInv, BooksFirst
<1>1. /\ \A v \in Workers : v # w => run'[v] = run[v] /\ held'[v] = held[v]
      /\ run[w].pc # "idle" /\ run'[w].pc # "idle" => held'[w] = held[w]
  BY LocalsStep, DeliveriesStay DEF Base, Shape
<1>2. \A i : HeldFor(i) => HeldFor(i)'
  BY <1>s, BooksGrow
<1>3. ASSUME NEW i \in Intents
      PROVE  /\ Claimed(i) => Claimed(i)'
             /\ Claimed(i)' => Claimed(i) \/ (Cas(w) /\ At(w, {"claim"}) /\ i = Job(w))
  <2>1. CASE store'[i] = store[i]
    BY <2>1 DEF Claimed
  <2>2. CASE store'[i] # store[i]
    <3>1. Cas(w) /\ i = Job(w)
      BY <2>2, CasMoves
    <3>2. /\ store[i] # None /\ store'[i] # None
          /\ store'[i].state = CasSteps[run[w].pc].to
          /\ store[i].state = IF At(w, {"claim"}) THEN "authorized" ELSE "settling"
      BY <3>1, CasDoes
    <3>3. CasSteps[run[w].pc].to \notin {"created", "authorized", "canceled"}
      BY <3>1 DEF Cas, At, CasSteps
    <3>4. QED
      BY <3>1, <3>2, <3>3 DEF Claimed
  <2>3. QED
    BY <2>1, <2>2
<1>4. ASSUME NEW v \in Workers, InRescue(v)', NEW i, i = held'[v].job
      PROVE  Claimed(i)'
  <2>1. CASE InRescue(v)
    <3>1. run[v].pc # "idle" /\ run'[v].pc # "idle"
      BY <1>4, <2>1 DEF InRescue, At
    <3>2. i = Job(v) /\ i \in Intents
      BY <3>1, <1>1, <1>4, TheJobIsOne DEF At, Job
    <3>3. QED
      BY <1>3, <1>s, <2>1, <3>2 DEF RescuesAreLate
  <2>2. CASE ~InRescue(v)
    <3>1. v = w
      BY <1>1, <1>4, <2>2 DEF InRescue, At
    <3>2. Read(w) /\ store[Job(w)].state = "settling"
      BY <1>4, <2>2, <3>1, <1>s, WhereNumbered
    <3>3. store' = store /\ held' = held /\ store[Job(w)] # None
      BY <3>2 DEF Read, I!Read, queueVars
    <3>4. i = Job(w)
      BY <1>4, <3>1, <3>3 DEF Job
    <3>5. QED
      BY <3>2, <3>3, <3>4 DEF Claimed
  <2>3. QED
    BY <2>1, <2>2
<1>5. ASSUME NEW i \in Intents, Claimed(i)', ~HeldFor(i)'
      PROVE  \E v \in Workers : run'[v].pc = "hold" /\ held'[v].job = i
  <2>1. CASE ~Claimed(i)
    <3>1. Cas(w) /\ At(w, {"claim"}) /\ i = Job(w)
      BY <1>3, <1>5, <2>1
    <3>2. Goto(w, "hold")
      BY <3>1 DEF Cas, At, CasSteps
    <3>3. run'[w].pc = "hold"
      BY <3>2, <1>s, GotoMoves DEF Calls
    <3>4. held' = held
      BY <3>1 DEF Cas, queueVars
    <3>5. QED
      BY <3>1, <3>3, <3>4 DEF Job
  <2>2. CASE Claimed(i)
    <3>1. PICK v \in Workers : At(v, {"hold"}) /\ Job(v) = i
      BY <1>2, <1>5, <1>s, <2>2 DEF RescuesAreLate
    <3>2. v # w
      <4>1. ASSUME v = w PROVE Hold(w)
        BY <3>1, <4>1
           DEF WorkerStep, Lease, Read, TakeSlot, NoSlot, Cas, CasLost, Send, Panic,
               Record, Unwind, RescueWait, Rescue, TakeGap, NoGap, Judge, GiveUp,
               Weigh, Void, Park, Fault, EndOfRun, At, CasSteps
      <4>2. ASSUME v = w PROVE HeldFor(i)'
        BY <1>s, <3>1, <4>1, <4>2, HoldIsOnTheBooks
      <4>3. QED
        BY <4>2, <1>5
    <3>3. QED
      BY <3>1, <3>2, <1>1 DEF At, Job
  <2>3. QED
    BY <2>1, <2>2
<1>6. QED
  <2>1. \A v \in Workers : InRescue(v)' => Claimed(Job(v))'
    <3>1. SUFFICES ASSUME NEW v \in Workers, InRescue(v)' PROVE Claimed(Job(v))'
      OBVIOUS
    <3>2. PICK i : i = held'[v].job
      OBVIOUS
    <3>3. Claimed(i)'
      BY <1>4, <3>1, <3>2
    <3>4. QED
      BY <3>2, <3>3 DEF Claimed, Job
  <2>2. \A i \in Intents : Claimed(i)' =>
          HeldFor(i)' \/ \E v \in Workers : At(v, {"hold"})' /\ Job(v)' = i
    BY <1>5 DEF At, Job
  <2>3. QED
    BY <2>1, <2>2 DEF RescuesAreLate

LEMMA FirstInvInductive ==
  (CanReplace => ~Faults) => (Base /\ FirstInv /\ [Next]_vars => FirstInv')
<1> SUFFICES ASSUME CanReplace => ~Faults, Base, FirstInv, [Next]_vars PROVE FirstInv'
  OBVIOUS
<1> DEFINE Kept == UNCHANGED <<held, counterVars, bookVars, run, txs>>
<1>1. ASSUME Kept, \A i \in Intents : Claimed(i)' <=> Claimed(i)
      PROVE  FirstInv'
  <2>1. OneNumber' /\ NumberInHand' /\ ReplacersOnly'
    BY <1>1 DEF FirstInv, OneNumber, NumbersTyped, NumberInHand, ReplacersOnly, At,
       counterVars
  <2>2. \A i : HeldFor(i)' <=> HeldFor(i)
    BY <1>1 DEF HeldFor, J!RowsOf, bookVars
  <2>3. BooksFirst'
    BY <1>1, <2>2 DEF FirstInv, BooksFirst, At, Job, HeldFor, J!RowsOf, bookVars
  <2>4. ASSUME CanReplace PROVE RescuesAreLate'
    <3>1. ASSUME NEW v \in Workers, InRescue(v), NEW i, i = Job(v)
          PROVE  Claimed(i)'
      <4>1. i \in Intents
        BY <3>1, TheJobIsOne DEF InRescue, At
      <4>2. QED
        BY <1>1, <2>4, <3>1, <4>1 DEF FirstInv, RescuesAreLate
    <3>2. \A v \in Workers : InRescue(v)' => Claimed(Job(v))'
      <4>1. SUFFICES ASSUME NEW v \in Workers, InRescue(v)' PROVE Claimed(Job(v))'
        OBVIOUS
      <4>2. InRescue(v) /\ held'[v].job = Job(v)
        BY <1>1, <4>1 DEF InRescue, At, Job
      <4>3. PICK i : i = Job(v)
        OBVIOUS
      <4>4. Claimed(i)'
        BY <3>1, <4>2, <4>3
      <4>5. QED
        BY <4>2, <4>3, <4>4 DEF Claimed, Job
    <3>3. ASSUME NEW i \in Intents, Claimed(i)', ~HeldFor(i)'
          PROVE  \E v \in Workers : At(v, {"hold"})' /\ Job(v)' = i
      BY <1>1, <2>2, <2>4, <3>3 DEF FirstInv, RescuesAreLate, At, Job
    <3>4. QED
      BY <3>2, <3>3 DEF RescuesAreLate
  <2>5. QED
    BY <2>1, <2>3, <2>4 DEF FirstInv
<1>2. CASE UNCHANGED vars
  <2>1. Kept /\ \A i \in Intents : Claimed(i)' <=> Claimed(i)
    BY <1>2 DEF vars, counterVars, bookVars, Claimed
  <2>2. QED
    BY <2>1, <1>1
<1>3. ASSUME NEW j \in Intents, WorldStep(j)
      PROVE  FirstInv'
  <2>1. Kept /\ (~APIStep(j) => store' = store)
    BY <1>3, WorldLeavesWorkers
  <2>2. ASSUME NEW i \in Intents PROVE Claimed(i)' <=> Claimed(i)
    <3>1. CASE store'[i] = store[i]
      BY <3>1 DEF Claimed
    <3>2. CASE store'[i] # store[i]
      <4>1. APIStep(j)
        BY <2>1, <3>2
      <4>2. ~Claimed(i) /\ ~Claimed(i)'
        BY <3>2, <4>1, APIMoves DEF APIStep, Claimed
      <4>3. QED
        BY <4>2
    <3>3. QED
      BY <3>1, <3>2
  <2>3. QED
    BY <1>1, <2>1, <2>2
<1>4. ASSUME NEW w \in Workers, WorkerStep(w)
      PROVE  FirstInv'
  <2>1. OneNumber' /\ NumberInHand'
    BY <1>4, NumberStep DEF FirstInv
  <2>2. BooksFirst' /\ ReplacersOnly'
    BY <1>4, BooksFirstStep
  <2>3. CanReplace => RescuesAreLate'
    BY <1>4, RescuesStep
  <2>4. QED
    BY <2>1, <2>2, <2>3 DEF FirstInv
<1>5. QED
  BY <1>2, <1>3, <1>4 DEF Next, WorldStep, APIStep

\* process appends the hold before it sends, and rescue sends only with the
\* wallet's number, which the worker that claimed the payment has until it is
\* past the append: nothing leaves before its hold is on the books, with any
\* sender that cannot replace, faults and panics included, and with one that
\* can as long as no call on the stores fails.
THEOREM TheBooksComeFirst ==
  (CanReplace => ~Faults) => (Spec => []HoldBeforeBroadcast)
<1>1. Init => FirstInv
  <2> SUFFICES ASSUME Init PROVE FirstInv
    OBVIOUS
  <2>1. /\ \A w \in Workers : run[w] = Idle /\ res[w] = None
        /\ \A i \in Intents : store[i] = None /\ Len(txs[i]) = 0
        /\ DOMAIN books = {} /\ books \in Seq({})
    BY DEF Init, I!Init, S!Init, J!Init
  <2>2. NumbersTyped
    BY DEF Init, S!Init, NumbersTyped
  <2>3. OneNumber /\ NumberInHand /\ ReplacersOnly
    BY <2>1, <2>2 DEF OneNumber, NumberInHand, ReplacersOnly, At, Idle
  <2>4. BooksFirst /\ RescuesAreLate
    BY <2>1 DEF BooksFirst, RescuesAreLate, Claimed, InRescue, At, Idle
  <2>5. QED
    BY <2>3, <2>4 DEF FirstInv
<1>2. Base /\ FirstInv => HoldBeforeBroadcast
  <2> SUFFICES ASSUME Base, FirstInv, NEW i \in Intents, NEW k \in Pays(i)
               PROVE  HeldFor(i)
    BY DEF HoldBeforeBroadcast, HeldFor
  <2>1. PICK T : txs[i] \in Seq(T)
    BY DEF Base, Shape, LocalsTyped
  <2>2. PICK n \in Nat : n = Len(txs[i]) /\ DOMAIN txs[i] = 1 .. n
    BY <2>1, LenProperties
  <2>3. k \in 1 .. n
    BY <2>2 DEF Pays
  <2>4. Len(txs[i]) > 0
    BY <2>2, <2>3
  <2>5. QED
    BY <2>4 DEF FirstInv, BooksFirst
<1>3. CASE CanReplace => ~Faults
  <2>1. Base /\ FirstInv /\ [Next]_vars => FirstInv'
    BY <1>3, FirstInvInductive
  <2>2. QED
    BY <1>1, <1>2, <2>1, BaseHolds, PTL DEF Spec
<1>4. QED
  BY <1>3
=============================================================================
