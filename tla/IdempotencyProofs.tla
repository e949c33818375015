------------------------- MODULE IdempotencyProofs -------------------------
(***************************************************************************)
(* Theorems of Idempotency, for every set of requests, keys, bodies and    *)
(* ids and every lease and life of a record: one answer of a key leaves    *)
(* the server, it is that of the request, and a second intent costs a      *)
(* whole lease.  All three rest on InTime: a handler ends before its       *)
(* record expires.                                                         *)
(***************************************************************************)
EXTENDS Idempotency, TLAPS

Answer == [status : {201, 400, 500}, id : Ids \union {None}]
Place == [pc : {"idle", "done", "dead"}]
         \union [pc : {"create"}, key : Keys, fp : Bodies, rec : Record]
         \union [pc : {"complete"}, key : Keys, fp : Bodies, rec : Record,
                 answer : Answer]
Sent == [key : Keys, fp : Bodies, until : Nat, answer : Answer]

Typed ==
  /\ now \in Nat
  /\ records \in [Keys -> Record \union {None}]
  /\ req \in [Requests -> Place]
  /\ intents \in [Ids -> IntentRecord \union {None}]
  /\ sent \in SUBSET Sent

\* An intent made for key k and body fp.
IsFor(id, k, fp) ==
  /\ intents[id] # None /\ intents[id].key = k /\ intents[id].fp = fp

\* A handler at work: its record is there and has not expired; no answer is
\* on it as long as nobody took it over.
WorkHoldsARecord ==
  \A r \in Requests : At(r, Running) =>
    LET k == req[r].key
        c == req[r].rec
    IN  /\ c.expiresAt > now /\ c.leaseUntil - Lease <= now
        /\ records[k] # None /\ records[k].fp = req[r].fp
        /\ records[k].expiresAt = c.expiresAt
        /\ records[k].attempt = c.attempt => records[k].status = "in_flight"

\* No attempt at a key is made by two handlers.
AttemptsDiffer ==
  \A r, s \in Requests :
    At(r, Running) /\ At(s, Running) /\ r # s /\ req[r].key = req[s].key =>
      req[r].rec.attempt # req[s].rec.attempt

\* Answers, on record or on their way, are about intents of that request.
AnswersAreOwn ==
  /\ \A k \in Keys :
       records[k] # None /\ records[k].status = "completed" =>
         /\ records[k].response \in Answer
         /\ records[k].response.id # None =>
              IsFor(records[k].response.id, k, records[k].fp)
  /\ \A r \in Requests :
       At(r, {"complete"}) /\ req[r].answer.id # None =>
         IsFor(req[r].answer.id, req[r].key, req[r].fp)
  /\ \A s \in sent : s.answer.id # None => IsFor(s.answer.id, s.key, s.fp)

\* An answer that was sent is on record until the record expires.
SentIsOnRecord ==
  \A s \in sent : s.until > now =>
    /\ records[s.key] # None /\ records[s.key].expiresAt = s.until
    /\ records[s.key].status = "completed"
    /\ records[s.key].response = s.answer

\* Attempt c at key k, by a handler at work or by the one that made an intent.
Attempted(k, c) ==
  \/ \E r \in Requests : At(r, Running) /\ req[r].key = k /\ req[r].rec = c
  \/ \E id \in Ids :
       intents[id] # None /\ intents[id].key = k /\ intents[id].rec = c

\* Attempt c was over when d began.
Over(c, d) == c.leaseUntil <= d.leaseUntil - Lease

\* The attempts at one life of a key are no later than the one on record, and
\* each begins when the lease of the one before it has ended.
LeasesFollow ==
  /\ \A k \in Keys, c \in Record :
       Attempted(k, c) /\ c.expiresAt > now =>
         /\ records[k] # None /\ records[k].expiresAt = c.expiresAt
         /\ c.attempt <= records[k].attempt
         /\ c.attempt < records[k].attempt => Over(c, records[k])
         /\ c.attempt = records[k].attempt =>
              c.leaseUntil = records[k].leaseUntil
  /\ \A k \in Keys, c, d \in Record :
       /\ Attempted(k, c) /\ Attempted(k, d)
       /\ c.expiresAt = d.expiresAt /\ c.attempt < d.attempt
       => Over(c, d)

\* Intents are made while their attempt is at work, one by an attempt.
IntentsAreDated ==
  /\ \A id \in Ids : intents[id] # None =>
       intents[id].rec.leaseUntil - Lease <= intents[id].at
  /\ \A id \in Ids, r \in Requests :
       /\ intents[id] # None /\ At(r, {"create"})
       /\ intents[id].key = req[r].key
       /\ intents[id].rec.expiresAt = req[r].rec.expiresAt
       => intents[id].rec.attempt # req[r].rec.attempt

IdempotencyInv ==
  /\ Typed /\ WorkHoldsARecord /\ AttemptsDiffer /\ AnswersAreOwn
  /\ SentIsOnRecord /\ LeasesFollow /\ IntentsAreDated
  /\ OneAnswerAKey /\ SecondIntentOnlyAfterTheLease
-----------------------------------------------------------------------------
\* The fields of a record.
LEMMA RecordFields ==
  ASSUME NEW c \in Record
  PROVE  /\ c.fp \in Bodies /\ c.status \in {"in_flight", "completed"}
         /\ c.attempt \in Nat \ {0} /\ c.leaseUntil \in Nat
         /\ c.expiresAt \in Nat /\ c.response \in Answer \union {None}
BY DEF Record, Answer

\* The handler's local variables, where it has them.
LEMMA PlaceFields ==
  ASSUME Typed, NEW r \in Requests
  PROVE  /\ At(r, Running) =>
              /\ req[r].key \in Keys /\ req[r].fp \in Bodies
              /\ req[r].rec \in Record
         /\ At(r, {"complete"}) => req[r].answer \in Answer
<1>1. req[r] \in Place
  BY DEF Typed
<1> QED
  BY <1>1 DEF Place, At, Running

\* A record on the books, and what a claim makes of it.
LEMMA LiveFields ==
  ASSUME Typed, NEW k \in Keys
  PROVE  /\ records[k] # None => records[k] \in Record
         /\ Live(k) \in BOOLEAN
BY DEF Typed, Live

\* A fresh claim leaves a record in flight, with a lease from now on; taken
\* over, it is the next attempt at the same life of the key.
LEMMA ClaimedFields ==
  ASSUME Typed, NEW k \in Keys, NEW fp \in Bodies, Outcome(k, fp) = "fresh"
  PROVE  LET c == Claimed(k, fp)
         IN  /\ c \in Record /\ c # None
             /\ c.fp = fp /\ c.status = "in_flight"
             /\ c.leaseUntil = now + Lease /\ c.expiresAt > now
             /\ Live(k) => /\ c.attempt = records[k].attempt + 1
                           /\ c.expiresAt = records[k].expiresAt
                           /\ records[k].status = "in_flight"
                           /\ records[k].leaseUntil <= now
<1>a. now \in Nat /\ Lease \in Nat \ {0} /\ TTL \in Nat \ {0}
  BY IdempotencyAssumption DEF Typed
<1>1. CASE Live(k)
  <2>1. records[k] \in Record /\ records[k] # None
    BY <1>1, LiveFields DEF Live
  <2>2. /\ records[k].fp = fp /\ records[k].status # "completed"
        /\ ~(records[k].leaseUntil > now)
    BY <1>1 DEF Outcome
  <2>3. Claimed(k, fp) =
          [records[k] EXCEPT !.attempt = records[k].attempt + 1,
                             !.leaseUntil = now + Lease]
    BY <1>1 DEF Claimed
  <2>4. records[k].expiresAt > now
    BY <1>1 DEF Live
  <2>5. records[k].attempt + 1 \in Nat \ {0} /\ now + Lease \in Nat
    BY <1>a, <2>1, RecordFields
  <2> DEFINE R == Answer \union {None}
             Rec == [fp : Bodies, status : {"in_flight", "completed"},
                     attempt : Nat \ {0}, leaseUntil : Nat,
                     expiresAt : Nat, response : R]
  <2>6. Record = Rec
    BY DEF Record, Answer
  <2> HIDE DEF R
  <2>7. LET c == Claimed(k, fp)
        IN  /\ c \in Rec /\ c.fp = records[k].fp
            /\ c.status = records[k].status
            /\ c.expiresAt = records[k].expiresAt
            /\ c.attempt = records[k].attempt + 1 /\ c.leaseUntil = now + Lease
    <3> DEFINE n == records[k].attempt + 1
               l == now + Lease
    <3> HIDE DEF n, l
    <3>1. n \in Nat \ {0} /\ l \in Nat
      BY <2>5 DEF n, l
    <3>2. Claimed(k, fp) =
            [records[k] EXCEPT !.attempt = n, !.leaseUntil = l]
      BY <2>3 DEF n, l
    <3>3. records[k] \in Rec
      BY <2>1, <2>6
    <3>4. LET c == Claimed(k, fp)
          IN  /\ c \in Rec /\ c.fp = records[k].fp
              /\ c.status = records[k].status
              /\ c.expiresAt = records[k].expiresAt
              /\ c.attempt = n /\ c.leaseUntil = l
      BY <3>1, <3>2, <3>3
    <3> QED
      BY <3>4 DEF n, l
  <2>8. records[k].status = "in_flight" /\ records[k].leaseUntil <= now
    BY <1>a, <2>1, <2>2, RecordFields
  <2> QED
    BY <1>1, <2>2, <2>4, <2>6, <2>7, <2>8, NoneIsNoRecord
<1>2. CASE ~Live(k)
  <2>1. Claimed(k, fp) =
          [fp |-> fp, status |-> "in_flight", attempt |-> 1,
           leaseUntil |-> now + Lease, expiresAt |-> now + TTL,
           response |-> None]
    BY <1>2 DEF Claimed
  <2>2. Claimed(k, fp) \in Record
    BY <1>a, <2>1 DEF Record
  <2> QED
    BY <1>a, <1>2, <2>1, <2>2, NoneIsNoRecord
<1> QED
  BY <1>1, <1>2
-----------------------------------------------------------------------------
\* A handler at a new place.
LEMMA AtAfter ==
  ASSUME Typed, NEW r \in Requests, NEW p, p \in Place,
         req' = [req EXCEPT ![r] = p]
  PROVE  /\ req' \in [Requests -> Place] /\ req'[r] = p
         /\ \A s \in Requests : s # r => req'[s] = req[s]
BY DEF Typed

\* Where a request is when it is over.
LEMMA DonePlaces == Done \in Place /\ [pc |-> "dead"] \in Place
BY DEF Place, Done

\* What Finish writes on the record of its key.
LEMMA WithAnswerFields ==
  ASSUME NEW c \in Record, NEW a \in Answer, c # None
  PROVE  LET d == WithAnswer(c, a)
         IN  /\ d \in Record /\ d # None
             /\ d.fp = c.fp /\ d.attempt = c.attempt
             /\ d.leaseUntil = c.leaseUntil /\ d.expiresAt = c.expiresAt
             /\ d.status = "completed"
             /\ c.status = "completed" => d = c
             /\ c.status = "in_flight" => d.response = a
<1>1. CASE c.status = "completed"
  BY <1>1 DEF WithAnswer
<1>2. CASE c.status = "in_flight"
  <2> DEFINE R == Answer \union {None}
             Rec == [fp : Bodies, status : {"in_flight", "completed"},
                     attempt : Nat \ {0}, leaseUntil : Nat,
                     expiresAt : Nat, response : R]
  <2>1. Record = Rec /\ a \in R
    BY DEF Record, Answer
  <2> HIDE DEF R
  <2>2. WithAnswer(c, a) =
          [c EXCEPT !.status = "completed", !.response = a]
    BY <1>2 DEF WithAnswer
  <2>3. LET d == WithAnswer(c, a)
        IN  /\ d \in Rec
            /\ d.fp = c.fp /\ d.attempt = c.attempt
            /\ d.leaseUntil = c.leaseUntil /\ d.expiresAt = c.expiresAt
            /\ d.status = "completed" /\ d.response = a
    BY <2>1, <2>2
  <2> QED
    BY <1>2, <2>1, <2>3, NoneIsNoRecord
<1> QED
  BY <1>1, <1>2, RecordFields

\* Fresh, in terms of the old and the new state.
LEMMA FreshStep ==
  ASSUME Typed, NEW r \in Requests, NEW k \in Keys, NEW fp \in Bodies,
         Fresh(r, k, fp)
  PROVE  /\ Typed' /\ ~At(r, Running)
         /\ UNCHANGED <<now, intents, sent>>
         /\ records' \in [Keys -> Record \union {None}]
         /\ records'[k] = Claimed(k, fp)
         /\ \A j \in Keys : j # k => records'[j] = records[j]
         /\ req'[r].pc = "create" /\ req'[r].key = k /\ req'[r].fp = fp
         /\ req'[r].rec = Claimed(k, fp)
         /\ \A s \in Requests : s # r => req'[s] = req[s]
<1> DEFINE c == Claimed(k, fp)
           p == [pc |-> "create", key |-> k, fp |-> fp, rec |-> c]
<1>1. /\ c \in Record
      /\ At(r, {"idle"})
      /\ records' = [records EXCEPT ![k] = c]
      /\ req' = [req EXCEPT ![r] = p]
      /\ UNCHANGED <<now, intents, sent>>
  BY ClaimedFields DEF Fresh
<1> HIDE DEF c
<1>2. p \in Place
  BY <1>1 DEF Place
<1>3. /\ req' \in [Requests -> Place] /\ req'[r] = p
      /\ \A s \in Requests : s # r => req'[s] = req[s]
  BY <1>1, <1>2, AtAfter
<1>4. /\ records' \in [Keys -> Record \union {None}] /\ records'[k] = c
      /\ \A j \in Keys : j # k => records'[j] = records[j]
  BY <1>1 DEF Typed
<1>5. Typed'
  BY <1>1, <1>3, <1>4 DEF Typed
<1>6. ~At(r, Running)
  BY <1>1 DEF At, Running
<1> QED
  BY <1>1, <1>3, <1>4, <1>5, <1>6 DEF c

\* A request that leaves: a replay, a refusal, a panic.
LEMMA LeaveStep ==
  ASSUME Typed, AnswersAreOwn,
         NEW r \in Requests, NEW k, NEW fp,
         \/ /\ k \in Keys /\ fp \in Bodies
            /\ Replay(r, k, fp) \/ Refuse(r, k, fp)
         \/ Malformed(r) \/ Panic(r)
  PROVE  /\ Typed'
         /\ UNCHANGED <<now, records, intents>>
         /\ ~(req'[r].pc \in Running)
         /\ \A s \in Requests : s # r => req'[s] = req[s]
         /\ \/ sent' = sent
            \/ \E s \in Sent :
                 /\ sent' = sent \union {s}
                 /\ k \in Keys /\ s.key = k /\ s.fp = fp
                 /\ records[k] # None /\ records[k].fp = fp
                 /\ records[k].status = "completed"
                 /\ s.until = records[k].expiresAt /\ s.until > now
                 /\ s.answer = records[k].response
<1>1. PICK p \in {Done, [pc |-> "dead"]} : req' = [req EXCEPT ![r] = p]
  BY DEF Replay, Malformed, Refuse, Panic
<1>2. p \in Place /\ ~(p.pc \in Running)
  BY DonePlaces DEF Done, Running
<1>3. /\ req' \in [Requests -> Place] /\ req'[r] = p
      /\ \A s \in Requests : s # r => req'[s] = req[s]
  BY <1>1, <1>2, AtAfter
<1>4. UNCHANGED <<now, records, intents>>
  BY DEF Replay, Malformed, Refuse, Panic
<1>5. CASE k \in Keys /\ fp \in Bodies /\ Replay(r, k, fp)
  <2> DEFINE s == [key |-> k, fp |-> fp, until |-> records[k].expiresAt,
                   answer |-> records[k].response]
  <2>1. /\ records[k] # None /\ records[k].expiresAt > now
        /\ records[k].status = "completed" /\ records[k].fp = fp
    BY <1>5 DEF Replay, Outcome, Live
  <2>2. records[k].response \in Answer /\ records[k].expiresAt \in Nat
    BY <1>5, <2>1, LiveFields, RecordFields DEF AnswersAreOwn
  <2>3. s \in Sent /\ sent' = sent \union {s}
    BY <1>5, <2>2 DEF Sent, Replay, Send
  <2>4. Typed'
    BY <1>3, <1>4, <2>3 DEF Typed
  <2> QED
    BY <1>2, <1>3, <1>4, <1>5, <2>1, <2>3, <2>4
<1>6. CASE Malformed(r) \/ Refuse(r, k, fp) \/ Panic(r)
  BY <1>2, <1>3, <1>4, <1>6 DEF Typed, Malformed, Refuse, Panic
<1> QED
  BY <1>5, <1>6

\* createIntent, in terms of the old and the new state.
LEMMA CreateStep ==
  ASSUME Typed, NEW r \in Requests, NEW id \in Ids, CreateIntent(r, id)
  PROVE  /\ Typed' /\ At(r, {"create"})
         /\ UNCHANGED <<now, records, sent>>
         /\ req'[r].pc = "complete" /\ req'[r].key = req[r].key
         /\ req'[r].fp = req[r].fp /\ req'[r].rec = req[r].rec
         /\ \A s \in Requests : s # r => req'[s] = req[s]
         /\ \/ UNCHANGED intents /\ req'[r].answer.id = None
            \/ /\ intents[id] = None /\ intents'[id] # None
               /\ intents'[id].key = req[r].key /\ intents'[id].fp = req[r].fp
               /\ intents'[id].rec = req[r].rec /\ intents'[id].at = now
               /\ \A j \in Ids : j # id => intents'[j] = intents[j]
               /\ req'[r].answer.id = id
<1>1. /\ At(r, {"create"}) /\ At(r, Running)
      /\ UNCHANGED <<now, records, sent>>
  BY DEF CreateIntent, At, Running
<1>2. /\ req[r].key \in Keys /\ req[r].fp \in Bodies /\ req[r].rec \in Record
  BY <1>1, PlaceFields
<1>3. PICK a \in Answer :
        /\ req' = [req EXCEPT ![r] = [pc |-> "complete", key |-> req[r].key,
                     fp |-> req[r].fp, rec |-> req[r].rec, answer |-> a]]
        /\ \/ UNCHANGED intents /\ a.id = None
           \/ /\ intents[id] = None /\ a.id = id
              /\ intents' = [intents EXCEPT ![id] =
                   [key |-> req[r].key, fp |-> req[r].fp,
                    rec |-> req[r].rec, at |-> now]]
  <2> DEFINE Ans(st, i) == [status |-> st, id |-> i]
  <2>1. Ans(201, id) \in Answer /\ Ans(400, None) \in Answer
        /\ Ans(500, None) \in Answer
    BY DEF Answer
  <2>2. CASE Answered(r, 400, None) /\ UNCHANGED intents
    <3> USE <2>1
    <3> WITNESS Ans(400, None) \in Answer
    <3> QED
      BY <2>2 DEF Answered
  <2>3. CASE Answered(r, 500, None) /\ UNCHANGED intents
    <3> USE <2>1
    <3> WITNESS Ans(500, None) \in Answer
    <3> QED
      BY <2>3 DEF Answered
  <2>4. CASE /\ Answered(r, 201, id) /\ intents[id] = None
             /\ intents' = [intents EXCEPT ![id] =
                  [key |-> req[r].key, fp |-> req[r].fp,
                   rec |-> req[r].rec, at |-> now]]
    <3> USE <2>1
    <3> WITNESS Ans(201, id) \in Answer
    <3> QED
      BY <2>4 DEF Answered
  <2> QED
    BY <2>1, <2>2, <2>3, <2>4 DEF CreateIntent
<1> DEFINE p == [pc |-> "complete", key |-> req[r].key, fp |-> req[r].fp,
                 rec |-> req[r].rec, answer |-> a]
           x == [key |-> req[r].key, fp |-> req[r].fp, rec |-> req[r].rec,
                 at |-> now]
<1>4. p \in Place /\ x \in IntentRecord /\ x # None
  BY <1>2, NoneIsNoRecord DEF Place, IntentRecord, Typed
<1>5. /\ req' \in [Requests -> Place] /\ req'[r] = p
      /\ \A s \in Requests : s # r => req'[s] = req[s]
  BY <1>3, <1>4, AtAfter
<1>6. CASE UNCHANGED intents /\ a.id = None
  BY <1>1, <1>5, <1>6 DEF Typed
<1>7. CASE /\ intents[id] = None /\ a.id = id
           /\ intents' = [intents EXCEPT ![id] = x]
  <2>1. /\ intents' \in [Ids -> IntentRecord \union {None}]
        /\ intents'[id] = x
        /\ \A j \in Ids : j # id => intents'[j] = intents[j]
    BY <1>4, <1>7 DEF Typed
  <2>2. Typed'
    BY <1>1, <1>5, <2>1 DEF Typed
  <2> QED
    BY <1>1, <1>4, <1>5, <1>7, <2>1, <2>2
<1> QED
  BY <1>3, <1>6, <1>7

\* Finish, in terms of the old and the new state.
LEMMA FinishStep ==
  ASSUME Typed, WorkHoldsARecord, NEW r \in Requests, Finish(r)
  PROVE  LET k == req[r].key
             c == req[r].rec
         IN  /\ Typed' /\ At(r, {"complete"}) /\ UNCHANGED <<now, intents>>
             /\ ~(req'[r].pc \in Running)
             /\ \A s \in Requests : s # r => req'[s] = req[s]
             /\ \/ records' = records /\ sent' = sent
                \/ /\ records[k].attempt = c.attempt
                   /\ records[k].status = "in_flight"
                   /\ records'[k] = WithAnswer(records[k], req[r].answer)
                   /\ \A j \in Keys : j # k => records'[j] = records[j]
                   /\ \E s \in Sent :
                        /\ sent' = sent \union {s}
                        /\ s.key = k /\ s.fp = req[r].fp
                        /\ s.until = c.expiresAt /\ s.until > now
                        /\ s.answer = req[r].answer
<1> DEFINE k == req[r].key
           c == req[r].rec
<1>1. /\ At(r, {"complete"}) /\ At(r, Running) /\ UNCHANGED <<now, intents>>
      /\ req' = [req EXCEPT ![r] = Done]
  BY DEF Finish, At, Running
<1>2. k \in Keys /\ req[r].fp \in Bodies /\ c \in Record
      /\ req[r].answer \in Answer
  BY <1>1, PlaceFields
<1>3. /\ req' \in [Requests -> Place] /\ req'[r] = Done
      /\ \A s \in Requests : s # r => req'[s] = req[s]
  BY <1>1, DonePlaces, AtAfter
<1>4. ~(req'[r].pc \in Running)
  BY <1>3 DEF Done, Running
<1>5. /\ records[k] # None /\ records[k] \in Record /\ c.expiresAt > now
      /\ records[k].attempt = c.attempt => records[k].status = "in_flight"
  BY <1>1, <1>2, LiveFields DEF WorkHoldsARecord
<1>6. CASE records' = records /\ sent' = sent
  BY <1>1, <1>3, <1>4, <1>6 DEF Typed
<1>7. CASE /\ ~Superseded(k, c.attempt)
           /\ records' = [records EXCEPT ![k] =
                            WithAnswer(records[k], req[r].answer)]
           /\ Send(k, req[r].fp, c, req[r].answer)
  <2> DEFINE s == [key |-> k, fp |-> req[r].fp, until |-> c.expiresAt,
                   answer |-> req[r].answer]
             d == WithAnswer(records[k], req[r].answer)
  <2>1. records[k].attempt = c.attempt
    BY <1>5, <1>7 DEF Superseded
  <2>2. d \in Record
    BY <1>2, <1>5, WithAnswerFields
  <2> HIDE DEF d
  <2>3. /\ records' \in [Keys -> Record \union {None}] /\ records'[k] = d
        /\ \A j \in Keys : j # k => records'[j] = records[j]
    BY <1>2, <1>7, <2>2 DEF Typed, d
  <2>4. s \in Sent /\ sent' = sent \union {s}
    BY <1>2, <1>7, RecordFields DEF Sent, Send
  <2>5. Typed'
    BY <1>1, <1>3, <2>3, <2>4 DEF Typed
  <2> QED
    BY <1>1, <1>3, <1>4, <1>5, <2>1, <2>3, <2>4, <2>5 DEF d
<1> QED
  BY <1>6, <1>7 DEF Finish
-----------------------------------------------------------------------------
\* A request that leaves changes nothing that others rely on.
LEMMA LeaveKeeps ==
  ASSUME IdempotencyInv, NEW r \in Requests, NEW k, NEW fp,
         \/ /\ k \in Keys /\ fp \in Bodies
            /\ Replay(r, k, fp) \/ Refuse(r, k, fp)
         \/ Malformed(r) \/ Panic(r)
  PROVE  IdempotencyInv'
<1>1. /\ Typed' /\ UNCHANGED <<now, records, intents>>
      /\ ~At(r, Running)' /\ ~At(r, {"create"})' /\ ~At(r, {"complete"})'
      /\ \A s \in Requests : s # r => req'[s] = req[s]
  BY LeaveStep DEF IdempotencyInv, At, Running
<1>2. WorkHoldsARecord' /\ AttemptsDiffer'
  BY <1>1 DEF IdempotencyInv, WorkHoldsARecord, AttemptsDiffer, At
<1>3. LeasesFollow' /\ IntentsAreDated' /\ SecondIntentOnlyAfterTheLease'
  <2>1. \A j, c : Attempted(j, c)' => Attempted(j, c)
    BY <1>1 DEF Attempted, At
  <2>2. LeasesFollow'
    BY <1>1, <2>1 DEF IdempotencyInv, LeasesFollow, Over
  <2>3. IntentsAreDated' /\ SecondIntentOnlyAfterTheLease'
    BY <1>1 DEF IdempotencyInv, IntentsAreDated,
                SecondIntentOnlyAfterTheLease, At
  <2> QED
    BY <2>2, <2>3
<1>4. AnswersAreOwn' /\ SentIsOnRecord' /\ OneAnswerAKey'
  <2>1. CASE sent' = sent
    BY <1>1, <2>1 DEF IdempotencyInv, AnswersAreOwn, SentIsOnRecord,
                      OneAnswerAKey, IsFor, At
  <2>2. CASE \E s \in Sent :
               /\ sent' = sent \union {s}
               /\ k \in Keys /\ s.key = k /\ s.fp = fp
               /\ records[k] # None /\ records[k].fp = fp
               /\ records[k].status = "completed"
               /\ s.until = records[k].expiresAt /\ s.until > now
               /\ s.answer = records[k].response
    <3>1. PICK s \in Sent :
            /\ sent' = sent \union {s}
            /\ k \in Keys /\ s.key = k /\ s.fp = fp
            /\ records[k] # None /\ records[k].fp = fp
            /\ records[k].status = "completed"
            /\ s.until = records[k].expiresAt /\ s.until > now
            /\ s.answer = records[k].response
      BY <2>2
    <3>2. AnswersAreOwn'
      BY <1>1, <3>1 DEF IdempotencyInv, AnswersAreOwn, IsFor, At
    <3>3. SentIsOnRecord'
      BY <1>1, <3>1 DEF IdempotencyInv, SentIsOnRecord
    <3>4. \A t \in sent : t.key = s.key /\ t.until = s.until =>
                            t.answer = s.answer
      BY <3>1 DEF IdempotencyInv, SentIsOnRecord
    <3>5. OneAnswerAKey'
      BY <3>1, <3>4 DEF IdempotencyInv, OneAnswerAKey
    <3> QED
      BY <3>2, <3>3, <3>5
  <2> QED
    BY <2>1, <2>2, LeaveStep DEF IdempotencyInv
<1> QED
  BY <1>1, <1>2, <1>3, <1>4 DEF IdempotencyInv

\* A claim is of an attempt past all those at this life of the key.
LEMMA FreshKeeps ==
  ASSUME IdempotencyInv, NEW r \in Requests, NEW k \in Keys, NEW fp \in Bodies,
         Fresh(r, k, fp)
  PROVE  IdempotencyInv'
<1> DEFINE c == Claimed(k, fp)
<1>a. now \in Nat /\ Lease \in Nat
  BY IdempotencyAssumption DEF IdempotencyInv, Typed
<1>1. /\ Typed' /\ ~At(r, Running) /\ UNCHANGED <<now, intents, sent>>
      /\ records'[k] = c
      /\ \A j \in Keys : j # k => records'[j] = records[j]
      /\ req'[r].pc = "create" /\ req'[r].key = k /\ req'[r].fp = fp
      /\ req'[r].rec = c
      /\ \A s \in Requests : s # r => req'[s] = req[s]
  BY FreshStep DEF IdempotencyInv
<1>2. /\ c \in Record /\ c # None /\ c.fp = fp /\ c.status = "in_flight"
      /\ c.leaseUntil = now + Lease /\ c.expiresAt > now
      /\ Live(k) => /\ c.attempt = records[k].attempt + 1
                    /\ c.expiresAt = records[k].expiresAt
                    /\ records[k].status = "in_flight"
                    /\ records[k].leaseUntil <= now
  BY ClaimedFields DEF IdempotencyInv, Fresh
<1> HIDE DEF c
<1>3. c.attempt \in Nat /\ c.leaseUntil \in Nat /\ c.expiresAt \in Nat
  BY <1>2, RecordFields
<1>4. Live(k) => /\ records[k] \in Record /\ records[k].attempt \in Nat
                 /\ records[k].leaseUntil \in Nat
  BY LiveFields, RecordFields DEF IdempotencyInv, Live
\* The other attempts at this life are over, and earlier.
<1>5. ASSUME NEW d \in Record, Attempted(k, d), d.expiresAt > now
      PROVE  /\ d.attempt < c.attempt /\ d.leaseUntil <= now
             /\ d.expiresAt = c.expiresAt
  <2>1. /\ records[k] # None /\ records[k].expiresAt = d.expiresAt
        /\ d.attempt <= records[k].attempt
        /\ d.attempt < records[k].attempt => Over(d, records[k])
        /\ d.attempt = records[k].attempt =>
             d.leaseUntil = records[k].leaseUntil
    BY <1>5 DEF IdempotencyInv, LeasesFollow
  <2>2. Live(k)
    BY <1>5, <2>1 DEF Live
  <2>3. d.attempt \in Nat /\ d.leaseUntil \in Nat
    BY RecordFields
  <2> QED
    BY <1>a, <1>2, <1>4, <2>1, <2>2, <2>3 DEF Over
<1>6. \A s \in Requests : s # r /\ At(s, Running) /\ req[s].key = k =>
        /\ req[s].rec \in Record /\ req[s].rec.expiresAt > now
        /\ Attempted(k, req[s].rec)
  BY PlaceFields DEF IdempotencyInv, WorkHoldsARecord, Attempted
<1>7. WorkHoldsARecord'
  <2> SUFFICES ASSUME NEW s \in Requests, At(s, Running)'
               PROVE  LET j == req'[s].key
                          d == req'[s].rec
                      IN  /\ d.expiresAt > now /\ d.leaseUntil - Lease <= now
                          /\ records'[j] # None /\ records'[j].fp = req'[s].fp
                          /\ records'[j].expiresAt = d.expiresAt
                          /\ records'[j].attempt = d.attempt =>
                               records'[j].status = "in_flight"
    BY <1>1 DEF WorkHoldsARecord
  <2>1. CASE s = r
    BY <1>a, <1>1, <1>2, <1>3, <2>1
  <2>2. CASE s # r /\ req[s].key = k
    <3>1. req'[s] = req[s] /\ At(s, Running)
      BY <1>1, <2>2 DEF At
    <3>2. /\ req[s].rec.expiresAt > now
          /\ req[s].rec.leaseUntil - Lease <= now
          /\ records[k] # None /\ records[k].fp = req[s].fp
          /\ records[k].expiresAt = req[s].rec.expiresAt
      BY <2>2, <3>1 DEF IdempotencyInv, WorkHoldsARecord
    <3>3. Live(k) /\ ~(records[k].fp # fp)
      BY <3>2 DEF Live, Fresh, Outcome
    <3> QED
      BY <1>1, <1>2, <2>2, <3>1, <3>2, <3>3
  <2>3. CASE s # r /\ req[s].key # k
    <3>1. req'[s] = req[s] /\ At(s, Running) /\ req[s].key \in Keys
      BY <1>1, <2>3, PlaceFields DEF At, IdempotencyInv
    <3> QED
      BY <1>1, <2>3, <3>1 DEF IdempotencyInv, WorkHoldsARecord
  <2> QED
    BY <2>1, <2>2, <2>3
<1>8. AttemptsDiffer'
  <2>1. \A s \in Requests : s # r /\ At(s, Running) /\ req[s].key = k =>
          req[s].rec.attempt # c.attempt
    <3> SUFFICES ASSUME NEW s \in Requests, s # r, At(s, Running),
                        req[s].key = k
                 PROVE  req[s].rec.attempt # c.attempt
      OBVIOUS
    <3>1. req[s].rec.attempt < c.attempt
      BY <1>5, <1>6
    <3> QED
      BY <1>3, <1>6, <3>1, RecordFields
  <2> QED
    BY <1>1, <2>1 DEF IdempotencyInv, AttemptsDiffer, At
<1>9. AnswersAreOwn'
  BY <1>1, <1>2 DEF IdempotencyInv, AnswersAreOwn, IsFor, At
<1>10. SentIsOnRecord'
  <2> SUFFICES ASSUME NEW s \in sent, s.until > now
               PROVE  /\ records'[s.key] # None
                      /\ records'[s.key].expiresAt = s.until
                      /\ records'[s.key].status = "completed"
                      /\ records'[s.key].response = s.answer
    BY <1>1 DEF SentIsOnRecord
  <2>1. /\ records[s.key] # None /\ records[s.key].expiresAt = s.until
        /\ records[s.key].status = "completed"
        /\ records[s.key].response = s.answer
    BY DEF IdempotencyInv, SentIsOnRecord
  <2>2. s.key \in Keys
    BY DEF IdempotencyInv, Typed, Sent
  <2>3. s.key # k
    <3> SUFFICES ASSUME s.key = k PROVE FALSE
      OBVIOUS
    <3>1. Live(k)
      BY <2>1 DEF Live
    <3> QED
      BY <1>2, <2>1, <3>1
  <2> QED
    BY <1>1, <2>1, <2>2, <2>3
<1>11. OneAnswerAKey' /\ SecondIntentOnlyAfterTheLease'
  BY <1>1 DEF IdempotencyInv, OneAnswerAKey, SecondIntentOnlyAfterTheLease
<1>12. ASSUME NEW j \in Keys, NEW d \in Record, Attempted(j, d)'
       PROVE  Attempted(j, d) \/ (j = k /\ d = c)
  BY <1>1, <1>12 DEF Attempted, At
<1>13. LeasesFollow'
  <2>1. ASSUME NEW j \in Keys, NEW d \in Record, Attempted(j, d)',
               d.expiresAt > now
        PROVE  /\ records'[j] # None /\ records'[j].expiresAt = d.expiresAt
               /\ d.attempt <= records'[j].attempt
               /\ d.attempt < records'[j].attempt => Over(d, records'[j])
               /\ d.attempt = records'[j].attempt =>
                    d.leaseUntil = records'[j].leaseUntil
    <3>0. d.attempt \in Nat /\ d.leaseUntil \in Nat
      BY RecordFields
    <3>1. CASE j = k /\ d = c
      BY <1>1, <1>2, <1>3, <3>1
    <3>2. CASE j = k /\ Attempted(j, d)
      BY <1>a, <1>1, <1>2, <1>3, <1>5, <2>1, <3>0, <3>2 DEF Over
    <3>3. CASE j # k /\ Attempted(j, d)
      BY <1>1, <2>1, <3>3 DEF IdempotencyInv, LeasesFollow
    <3> QED
      BY <1>12, <2>1, <3>1, <3>2, <3>3
  <2>2. ASSUME NEW j \in Keys, NEW d \in Record, NEW e \in Record,
               Attempted(j, d)', Attempted(j, e)',
               d.expiresAt = e.expiresAt, d.attempt < e.attempt
        PROVE  Over(d, e)
    <3>0. /\ d.attempt \in Nat /\ e.attempt \in Nat /\ d.leaseUntil \in Nat
      BY RecordFields
    <3>1. CASE Attempted(j, d) /\ Attempted(j, e)
      BY <2>2, <3>1 DEF IdempotencyInv, LeasesFollow
    <3>2. CASE j = k /\ e = c /\ Attempted(j, d)
      BY <1>a, <1>2, <1>5, <2>2, <3>0, <3>2 DEF Over
    <3>3. CASE j = k /\ d = c /\ Attempted(j, e)
      BY <1>2, <1>5, <2>2, <3>0, <3>3
    <3>4. CASE d = c /\ e = c
      BY <2>2, <3>0, <3>4
    <3> QED
      BY <1>12, <2>2, <3>1, <3>2, <3>3, <3>4
  <2> QED
    BY <1>1, <2>1, <2>2 DEF LeasesFollow, Over
<1>14. IntentsAreDated'
  <2>1. \A id \in Ids : intents[id] # None =>
          /\ intents[id].rec \in Record
          /\ Attempted(intents[id].key, intents[id].rec)
    BY DEF IdempotencyInv, Typed, IntentRecord, Attempted
  <2>2. \A id \in Ids : /\ intents[id] # None /\ intents[id].key = k
                        /\ intents[id].rec.expiresAt = c.expiresAt
                        => intents[id].rec.attempt # c.attempt
    <3> SUFFICES ASSUME NEW id \in Ids, intents[id] # None,
                        intents[id].key = k,
                        intents[id].rec.expiresAt = c.expiresAt
                 PROVE  intents[id].rec.attempt # c.attempt
      OBVIOUS
    <3>1. intents[id].rec.attempt < c.attempt
      BY <1>2, <1>5, <2>1
    <3> QED
      BY <1>3, <2>1, <3>1, RecordFields
  <2> QED
    BY <1>1, <2>2 DEF IdempotencyInv, IntentsAreDated, At
<1> QED
  BY <1>1, <1>7, <1>8, <1>9, <1>10, <1>11, <1>13, <1>14 DEF IdempotencyInv

\* An attempt makes its intent while its record is there.
LEMMA CreateKeeps ==
  ASSUME IdempotencyInv, NEW r \in Requests, NEW id \in Ids,
         CreateIntent(r, id)
  PROVE  IdempotencyInv'
<1>a. now \in Nat /\ Lease \in Nat
  BY IdempotencyAssumption DEF IdempotencyInv, Typed
<1>1. /\ Typed' /\ At(r, {"create"}) /\ At(r, Running) /\ At(r, Running)'
      /\ ~At(r, {"create"})'
      /\ UNCHANGED <<now, records, sent>>
      /\ req'[r].key = req[r].key /\ req'[r].fp = req[r].fp
      /\ req'[r].rec = req[r].rec
      /\ \A s \in Requests : s # r => req'[s] = req[s]
  BY CreateStep DEF IdempotencyInv, At, Running
<1>2. \/ UNCHANGED intents /\ req'[r].answer.id = None
      \/ /\ intents[id] = None /\ intents'[id] # None
         /\ intents'[id].key = req[r].key /\ intents'[id].fp = req[r].fp
         /\ intents'[id].rec = req[r].rec /\ intents'[id].at = now
         /\ \A j \in Ids : j # id => intents'[j] = intents[j]
         /\ req'[r].answer.id = id
  BY CreateStep DEF IdempotencyInv
<1>3. /\ req[r].key \in Keys /\ req[r].rec \in Record
      /\ Attempted(req[r].key, req[r].rec)
      /\ req[r].rec.leaseUntil - Lease <= now
      /\ req[r].rec.leaseUntil \in Nat /\ req[r].rec.attempt \in Nat
  BY <1>1, PlaceFields, RecordFields
  DEF IdempotencyInv, WorkHoldsARecord, Attempted
<1>4. WorkHoldsARecord' /\ AttemptsDiffer'
  BY <1>1 DEF IdempotencyInv, WorkHoldsARecord, AttemptsDiffer, At
<1>5. AnswersAreOwn' /\ SentIsOnRecord' /\ OneAnswerAKey'
  <2>1. \A j \in Ids : \A k, fp : IsFor(j, k, fp) => IsFor(j, k, fp)'
    BY <1>2 DEF IsFor
  <2>2. \A k \in Keys :
          records[k] # None /\ records[k].status = "completed" =>
            records[k].response.id \in Ids \union {None}
    BY DEF IdempotencyInv, AnswersAreOwn, Answer
  <2>3. \A s \in Requests : At(s, {"complete"}) =>
          req[s].answer.id \in Ids \union {None}
    BY PlaceFields DEF IdempotencyInv, Answer
  <2>4. \A s \in sent : s.answer.id \in Ids \union {None}
    BY DEF IdempotencyInv, Typed, Sent, Answer
  <2>5. req'[r].answer.id # None =>
          IsFor(req[r].answer.id, req[r].key, req[r].fp)'
    BY <1>1, <1>2 DEF IsFor
  <2>6. AnswersAreOwn'
    BY <1>1, <2>1, <2>2, <2>3, <2>4, <2>5 DEF IdempotencyInv, AnswersAreOwn, At
  <2>7. SentIsOnRecord' /\ OneAnswerAKey'
    BY <1>1 DEF IdempotencyInv, SentIsOnRecord, OneAnswerAKey
  <2> QED
    BY <2>6, <2>7
<1>6. LeasesFollow'
  <2>1. \A k, c : Attempted(k, c)' => Attempted(k, c)
    BY <1>1, <1>2 DEF Attempted, At
  <2> QED
    BY <1>1, <2>1 DEF IdempotencyInv, LeasesFollow, Over
<1>7. IntentsAreDated'
  <2>1. CASE UNCHANGED intents
    BY <1>1, <2>1 DEF IdempotencyInv, IntentsAreDated, At
  <2>2. CASE /\ intents[id] = None /\ intents'[id].key = req[r].key
             /\ intents'[id].rec = req[r].rec /\ intents'[id].at = now
             /\ \A j \in Ids : j # id => intents'[j] = intents[j]
    <3>1. \A s \in Requests :
            /\ s # r /\ At(s, Running) /\ req[s].key = req[r].key
            => req[s].rec.attempt # req[r].rec.attempt
      BY <1>1 DEF IdempotencyInv, AttemptsDiffer
    <3>2. \A s \in Requests : At(s, {"create"})' => s # r /\ At(s, Running)
      BY <1>1 DEF At, Running
    <3>3. ASSUME NEW j \in Ids, NEW s \in Requests,
                 intents'[j] # None, At(s, {"create"})',
                 intents'[j].key = req'[s].key,
                 intents'[j].rec.expiresAt = req'[s].rec.expiresAt
          PROVE  intents'[j].rec.attempt # req'[s].rec.attempt
      <4>1. CASE j = id
        BY <1>1, <2>2, <3>1, <3>2, <3>3, <4>1
      <4>2. CASE j # id
        BY <1>1, <2>2, <3>2, <3>3, <4>2 DEF IdempotencyInv, IntentsAreDated, At
      <4> QED
        BY <4>1, <4>2
    <3>4. \A j \in Ids : intents'[j] # None =>
            intents'[j].rec.leaseUntil - Lease <= intents'[j].at
      BY <1>3, <2>2 DEF IdempotencyInv, IntentsAreDated
    <3> QED
      BY <1>1, <3>3, <3>4 DEF IntentsAreDated
  <2> QED
    BY <1>2, <2>1, <2>2
<1>8. SecondIntentOnlyAfterTheLease'
  <2>1. CASE UNCHANGED intents
    BY <2>1 DEF IdempotencyInv, SecondIntentOnlyAfterTheLease
  <2>2. CASE /\ intents[id] = None /\ intents'[id].key = req[r].key
             /\ intents'[id].rec = req[r].rec /\ intents'[id].at = now
             /\ \A j \in Ids : j # id => intents'[j] = intents[j]
    <3> DEFINE c == req[r].rec
    <3>1. ASSUME NEW j \in Ids, j # id, intents[j] # None,
                 intents[j].key = req[r].key,
                 intents[j].rec.expiresAt = c.expiresAt
          PROVE  LET d == intents[j].rec
                 IN  \/ d.attempt < c.attempt /\ d.leaseUntil <= now
                     \/ c.attempt < d.attempt /\ c.leaseUntil <= intents[j].at
      <4> DEFINE d == intents[j].rec
      <4>1. /\ d \in Record /\ intents[j].at \in Nat
            /\ d.attempt \in Nat /\ d.leaseUntil \in Nat
        BY <3>1, RecordFields DEF IdempotencyInv, Typed, IntentRecord
      <4>2. Attempted(req[r].key, d)
        BY <3>1 DEF Attempted
      <4>3. d.attempt # c.attempt /\ d.leaseUntil - Lease <= intents[j].at
        BY <1>1, <3>1 DEF IdempotencyInv, IntentsAreDated
      <4>4. /\ d.attempt < c.attempt => Over(d, c)
            /\ c.attempt < d.attempt => Over(c, d)
        BY <1>3, <3>1, <4>1, <4>2 DEF IdempotencyInv, LeasesFollow
      <4> HIDE DEF c, d
      <4>5. c.attempt \in Nat /\ c.leaseUntil \in Nat
            /\ c.leaseUntil - Lease <= now
        BY <1>3 DEF c
      <4>6. \/ d.attempt < c.attempt /\ d.leaseUntil <= now
            \/ c.attempt < d.attempt /\ c.leaseUntil <= intents[j].at
        BY <1>a, <4>1, <4>3, <4>4, <4>5 DEF Over
      <4> QED
        BY <4>6 DEF c, d
    <3> SUFFICES ASSUME NEW a \in Ids, NEW b \in Ids, a # b,
                        intents'[a] # None, intents'[b] # None,
                        intents'[a].key = intents'[b].key,
                        intents'[a].rec.expiresAt = intents'[b].rec.expiresAt
                 PROVE
                   LET x == intents'[a]
                       y == intents'[b]
                   IN  \/ /\ x.rec.attempt < y.rec.attempt
                          /\ x.rec.leaseUntil <= y.at
                       \/ /\ y.rec.attempt < x.rec.attempt
                          /\ y.rec.leaseUntil <= x.at
      BY DEF SecondIntentOnlyAfterTheLease
    <3>2. CASE a # id /\ b # id
      BY <2>2, <3>2 DEF IdempotencyInv, SecondIntentOnlyAfterTheLease
    <3>3. CASE b = id
      BY <2>2, <3>1, <3>3
    <3>4. CASE a = id
      BY <2>2, <3>1, <3>4
    <3> QED
      BY <3>2, <3>3, <3>4
  <2> QED
    BY <1>2, <2>1, <2>2
<1> QED
  BY <1>1, <1>4, <1>5, <1>6, <1>7, <1>8 DEF IdempotencyInv

\* The answer of an attempt that nobody took over goes on a record without one.
LEMMA FinishKeeps ==
  ASSUME IdempotencyInv, NEW r \in Requests, Finish(r)
  PROVE  IdempotencyInv'
<1> DEFINE k == req[r].key
           c == req[r].rec
           d == WithAnswer(records[k], req[r].answer)
<1>1. /\ Typed' /\ At(r, {"complete"}) /\ At(r, Running)
      /\ UNCHANGED <<now, intents>>
      /\ ~At(r, Running)' /\ ~At(r, {"create"})' /\ ~At(r, {"complete"})'
      /\ \A s \in Requests : s # r => req'[s] = req[s]
  BY FinishStep DEF IdempotencyInv, At, Running
<1>2. k \in Keys /\ c \in Record /\ req[r].answer \in Answer
  BY <1>1, PlaceFields DEF IdempotencyInv
<1>3. /\ records[k] # None /\ records[k] \in Record /\ c.expiresAt > now
      /\ records[k].fp = req[r].fp /\ records[k].expiresAt = c.expiresAt
      /\ records[k].attempt = c.attempt => records[k].status = "in_flight"
  BY <1>1, <1>2, LiveFields DEF IdempotencyInv, WorkHoldsARecord
<1>4. \A j, e : Attempted(j, e)' => Attempted(j, e)
  BY <1>1 DEF Attempted, At
<1>5. IntentsAreDated' /\ SecondIntentOnlyAfterTheLease' /\ AttemptsDiffer'
  BY <1>1 DEF IdempotencyInv, IntentsAreDated, At,
              SecondIntentOnlyAfterTheLease, AttemptsDiffer
<1>6. CASE records' = records /\ sent' = sent
  <2>1. WorkHoldsARecord'
    BY <1>1, <1>6 DEF IdempotencyInv, WorkHoldsARecord, At
  <2>2. AnswersAreOwn' /\ SentIsOnRecord' /\ OneAnswerAKey'
    BY <1>1, <1>6 DEF IdempotencyInv, AnswersAreOwn, SentIsOnRecord,
                      OneAnswerAKey, IsFor, At
  <2>3. LeasesFollow'
    BY <1>1, <1>4, <1>6 DEF IdempotencyInv, LeasesFollow, Over
  <2> QED
    BY <1>1, <1>5, <2>1, <2>2, <2>3 DEF IdempotencyInv
<1>7. ASSUME records[k].attempt = c.attempt, records[k].status = "in_flight",
             records'[k] = d,
             \A j \in Keys : j # k => records'[j] = records[j],
             NEW s \in Sent, sent' = sent \union {s},
             s.key = k, s.fp = req[r].fp, s.until = c.expiresAt,
             s.until > now, s.answer = req[r].answer
      PROVE  IdempotencyInv'
  <2>1. /\ d # None /\ d.fp = records[k].fp
        /\ d.attempt = records[k].attempt
        /\ d.leaseUntil = records[k].leaseUntil
        /\ d.expiresAt = records[k].expiresAt
        /\ d.status = "completed" /\ d.response = req[r].answer
    BY <1>2, <1>3, <1>7, WithAnswerFields
  <2> HIDE DEF d
  <2>2. WorkHoldsARecord'
    <3>1. \A p \in Requests : At(p, Running)' => p # r /\ At(p, Running)
      BY <1>1 DEF At
    <3>2. \A p \in Requests : At(p, Running) => req[p].key \in Keys
      BY PlaceFields DEF IdempotencyInv
    <3>3. \A p \in Requests : p # r /\ At(p, Running) /\ req[p].key = k =>
            req[p].rec.attempt # c.attempt
      BY <1>1 DEF IdempotencyInv, AttemptsDiffer
    <3> QED
      BY <1>1, <1>7, <2>1, <3>1, <3>2, <3>3
      DEF IdempotencyInv, WorkHoldsARecord
  <2>3. IsFor(req[r].answer.id, k, req[r].fp) \/ req[r].answer.id = None
    BY <1>1 DEF IdempotencyInv, AnswersAreOwn
  <2>4. AnswersAreOwn'
    <3>1. ASSUME NEW j \in Keys, records'[j] # None,
                 records'[j].status = "completed"
          PROVE  /\ records'[j].response \in Answer
                 /\ records'[j].response.id # None =>
                      IsFor(records'[j].response.id, j, records'[j].fp)
      <4>1. CASE j = k
        BY <1>2, <1>3, <1>7, <2>1, <2>3, <4>1
      <4>2. CASE j # k
        BY <1>7, <3>1, <4>2 DEF IdempotencyInv, AnswersAreOwn
      <4> QED
        BY <4>1, <4>2
    <3>2. ASSUME NEW p \in Requests, At(p, {"complete"})',
                 req'[p].answer.id # None
          PROVE  IsFor(req'[p].answer.id, req'[p].key, req'[p].fp)
      BY <1>1, <3>2 DEF IdempotencyInv, AnswersAreOwn, At
    <3>3. ASSUME NEW x \in sent', x.answer.id # None
          PROVE  IsFor(x.answer.id, x.key, x.fp)
      <4>1. CASE x = s
        BY <1>7, <2>3, <3>3, <4>1
      <4>2. CASE x \in sent
        BY <3>3, <4>2 DEF IdempotencyInv, AnswersAreOwn
      <4> QED
        BY <1>7, <4>1, <4>2
    <3> HIDE DEF k, c
    <3>4. \A j \in Keys :
            records'[j] # None /\ records'[j].status = "completed" =>
              /\ records'[j].response \in Answer
              /\ records'[j].response.id # None =>
                   IsFor(records[j].response.id, j, records[j].fp)'
      BY <1>1, <3>1 DEF IsFor
    <3>5. \A p \in Requests :
            At(p, {"complete"})' /\ req'[p].answer.id # None =>
              IsFor(req[p].answer.id, req[p].key, req[p].fp)'
      BY <1>1, <3>2 DEF IsFor
    <3>6. \A x \in sent' : x.answer.id # None =>
            IsFor(x.answer.id, x.key, x.fp)'
      BY <1>1, <3>3 DEF IsFor
    <3> QED
      BY <3>4, <3>5, <3>6 DEF AnswersAreOwn
  <2>5. \A t \in sent : t.until > now => t.key # k
    BY <1>7 DEF IdempotencyInv, SentIsOnRecord
  <2>6. SentIsOnRecord'
    <3>1. \A t \in sent : t.key \in Keys
      BY DEF IdempotencyInv, Typed, Sent
    <3> QED
      BY <1>1, <1>3, <1>7, <2>1, <2>5, <3>1 DEF IdempotencyInv, SentIsOnRecord
  <2>7. OneAnswerAKey'
    BY <1>7, <2>5 DEF IdempotencyInv, OneAnswerAKey
  <2>8. LeasesFollow'
    <3>1. \A j \in Keys :
            /\ records'[j] # None <=> records[j] # None
            /\ records'[j].expiresAt = records[j].expiresAt
            /\ records'[j].attempt = records[j].attempt
            /\ records'[j].leaseUntil = records[j].leaseUntil
      BY <1>3, <1>7, <2>1
    <3> QED
      BY <1>1, <1>4, <3>1 DEF IdempotencyInv, LeasesFollow, Over
  <2> QED
    BY <1>1, <1>5, <2>2, <2>4, <2>6, <2>7, <2>8 DEF IdempotencyInv
<1> HIDE DEF d
<1> QED
  BY <1>6, <1>7, FinishStep DEF IdempotencyInv, d

\* Clean-up: what goes has expired, and no handler works on it.
LEMMA SweepKeeps ==
  ASSUME IdempotencyInv, Sweep
  PROVE  IdempotencyInv'
<1>1. /\ \A k \in Keys : records'[k] = IF Live(k) THEN records[k] ELSE None
      /\ records' \in [Keys -> Record \union {None}]
      /\ UNCHANGED <<now, req, intents, sent>>
  BY DEF IdempotencyInv, Typed, Sweep
<1>2. \A k \in Keys : /\ Live(k) => records'[k] = records[k]
                      /\ ~Live(k) => records'[k] = None
                      /\ Live(k) <=> (records[k] # None /\ records[k].expiresAt > now)
  BY <1>1 DEF Live
<1>3. Typed' /\ AttemptsDiffer' /\ IntentsAreDated' /\ OneAnswerAKey'
      /\ SecondIntentOnlyAfterTheLease'
  BY <1>1 DEF IdempotencyInv, Typed, AttemptsDiffer, IntentsAreDated,
              OneAnswerAKey, SecondIntentOnlyAfterTheLease, At
<1>4. WorkHoldsARecord'
  <2>1. \A r \in Requests : At(r, Running) => req[r].key \in Keys
    BY PlaceFields DEF IdempotencyInv
  <2> QED
    BY <1>1, <1>2, <2>1 DEF IdempotencyInv, WorkHoldsARecord, At
<1>5. AnswersAreOwn'
  BY <1>1, <1>2 DEF IdempotencyInv, AnswersAreOwn, IsFor, At
<1>6. SentIsOnRecord'
  <2>1. \A t \in sent : t.key \in Keys
    BY DEF IdempotencyInv, Typed, Sent
  <2> QED
    BY <1>1, <1>2, <2>1 DEF IdempotencyInv, SentIsOnRecord
<1>7. LeasesFollow'
  <2>1. \A j, e : Attempted(j, e)' => Attempted(j, e)
    BY <1>1 DEF Attempted, At
  <2> QED
    BY <1>1, <1>2, <2>1 DEF IdempotencyInv, LeasesFollow, Over
<1> QED
  BY <1>3, <1>4, <1>5, <1>6, <1>7 DEF IdempotencyInv

\* Time moves on only while every handler has some left.
LEMMA TickKeeps ==
  ASSUME IdempotencyInv, InTime, Tick
  PROVE  IdempotencyInv'
<1>a. now \in Nat /\ Lease \in Nat
  BY IdempotencyAssumption DEF IdempotencyInv, Typed
<1>1. /\ now' = now + 1
      /\ \A r \in Requests : At(r, Running) => req[r].rec.expiresAt > now + 1
      /\ UNCHANGED <<records, req, intents, sent>>
  BY DEF Tick
<1>2. Typed' /\ AttemptsDiffer' /\ IntentsAreDated' /\ OneAnswerAKey'
      /\ SecondIntentOnlyAfterTheLease' /\ AnswersAreOwn'
  BY <1>1 DEF IdempotencyInv, Typed, AttemptsDiffer, IntentsAreDated, At,
              OneAnswerAKey, SecondIntentOnlyAfterTheLease, AnswersAreOwn,
              IsFor
<1>3. WorkHoldsARecord'
  <2>1. \A r \in Requests : At(r, Running) => req[r].rec.leaseUntil \in Nat
    BY PlaceFields, RecordFields DEF IdempotencyInv
  <2> QED
    BY <1>a, <1>1, <2>1 DEF IdempotencyInv, WorkHoldsARecord, At
<1>4. SentIsOnRecord'
  <2>1. \A t \in sent : t.until \in Nat
    BY DEF IdempotencyInv, Typed, Sent
  <2> QED
    BY <1>a, <1>1, <2>1 DEF IdempotencyInv, SentIsOnRecord
<1>5. LeasesFollow'
  <2>1. \A j, e : Attempted(j, e)' => Attempted(j, e)
    BY <1>1 DEF Attempted, At
  <2>2. \A e \in Record : e.expiresAt > now + 1 => e.expiresAt > now
    BY <1>a, RecordFields
  <2> QED
    BY <1>1, <2>1, <2>2 DEF IdempotencyInv, LeasesFollow, Over
<1> QED
  BY <1>2, <1>3, <1>4, <1>5 DEF IdempotencyInv

\* The invariant is inductive.
LEMMA IdempotencyInvHolds ==
  /\ Init => IdempotencyInv
  /\ InTime /\ IdempotencyInv /\ [Next]_vars => IdempotencyInv'
<1>1. Init => IdempotencyInv
  <2> SUFFICES ASSUME Init PROVE IdempotencyInv
    OBVIOUS
  <2>1. Typed
    BY DEF Init, Typed, Place
  <2>2. \A r \in Requests : ~At(r, Running) /\ ~At(r, {"create"})
                            /\ ~At(r, {"complete"})
    BY DEF Init, At, Running
  <2> QED
    BY <2>1, <2>2
    DEF Init, IdempotencyInv, WorkHoldsARecord, AttemptsDiffer, AnswersAreOwn,
        SentIsOnRecord, LeasesFollow, Attempted, IntentsAreDated,
        OneAnswerAKey, SecondIntentOnlyAfterTheLease
<1>2. ASSUME InTime, IdempotencyInv, [Next]_vars
      PROVE  IdempotencyInv'
  <2>1. ASSUME NEW r \in Requests, NEW k \in Keys, NEW fp \in Bodies,
               Fresh(r, k, fp) \/ Replay(r, k, fp) \/ Refuse(r, k, fp)
        PROVE  IdempotencyInv'
    BY <1>2, <2>1, FreshKeeps, LeaveKeeps
  <2>2. ASSUME NEW r \in Requests, Malformed(r) \/ Panic(r)
        PROVE  IdempotencyInv'
    BY <1>2, <2>2, LeaveKeeps
  <2>3. ASSUME NEW r \in Requests, NEW id \in Ids, CreateIntent(r, id)
        PROVE  IdempotencyInv'
    BY <1>2, <2>3, CreateKeeps
  <2>4. ASSUME NEW r \in Requests, Finish(r)
        PROVE  IdempotencyInv'
    BY <1>2, <2>4, FinishKeeps
  <2>5. CASE Sweep
    BY <1>2, <2>5, SweepKeeps
  <2>6. CASE Tick
    BY <1>2, <2>6, TickKeeps
  <2>7. CASE UNCHANGED vars
    BY <1>2, <2>7
    DEF vars, IdempotencyInv, Typed, WorkHoldsARecord, AttemptsDiffer,
        AnswersAreOwn, SentIsOnRecord, LeasesFollow, Attempted, Over, At,
        IsFor, IntentsAreDated, OneAnswerAKey, SecondIntentOnlyAfterTheLease
  <2> QED
    BY <1>2, <2>1, <2>2, <2>3, <2>4, <2>5, <2>6, <2>7 DEF Next, Request
<1> QED
  BY <1>1, <1>2
-----------------------------------------------------------------------------
\* The invariant of every behaviour whose handlers end in time.
LEMMA IdempotencyInvAlways ==
  ASSUME InTime
  PROVE  Spec => []IdempotencyInv
<1>1. IdempotencyInv /\ [Next]_vars => IdempotencyInv'
  BY IdempotencyInvHolds
<1> QED
  BY <1>1, IdempotencyInvHolds, PTL DEF Spec

\* Handler, Claim and Complete: whatever attempts, retries, take-overs, panics
\* and clean-ups there are, one answer of a key leaves the server while its
\* record lives.
THEOREM OneAnswerLeaves ==
  ASSUME InTime
  PROVE  Spec => []OneAnswerAKey
<1>1. IdempotencyInv => OneAnswerAKey
  BY DEF IdempotencyInv
<1> QED
  BY <1>1, IdempotencyInvAlways, PTL

\* Claim's comparison of fingerprints: the intent an answer names was made for
\* the key and the body of the request that gets it.
THEOREM AnswersFitTheRequest ==
  ASSUME InTime
  PROVE  Spec => []AnswerIsForThatRequest
<1>1. IdempotencyInv => AnswerIsForThatRequest
  BY DEF IdempotencyInv, AnswersAreOwn, AnswerIsForThatRequest, IsFor
<1> QED
  BY <1>1, IdempotencyInvAlways, PTL

\* Claim's lease: of two intents made in one life of a key, the later attempt
\* made its own after the earlier one's lease was over.
THEOREM SecondIntentCostsALease ==
  ASSUME InTime
  PROVE  Spec => []SecondIntentOnlyAfterTheLease
<1>1. IdempotencyInv => SecondIntentOnlyAfterTheLease
  BY DEF IdempotencyInv
<1> QED
  BY <1>1, IdempotencyInvAlways, PTL
=============================================================================
