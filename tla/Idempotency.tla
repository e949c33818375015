---------------------------- MODULE Idempotency ----------------------------
(***************************************************************************)
(* Idempotency keys in front of POST /v1/payment_intents: the store of     *)
(* answers (MemoryStore), the middleware around the handler (Handler) and  *)
(* the handler itself (createIntent), which does not deduplicate.          *)
(*                                                                         *)
(* A request is a goroutine with three calls on shared objects: Claim on   *)
(* the store, Save of a new intent, Complete on the store.  A key stands   *)
(* for a merchant's key, the pair (scope, key); a body for everything the  *)
(* fingerprint covers: method, path and bytes.                             *)
(***************************************************************************)
EXTENDS Integers, FiniteSets

CONSTANTS Requests,   \* goroutines of the HTTP server, one a request
          Keys, Bodies,
          Invalid,    \* bodies createIntent refuses
          None,
          Ids,        \* ids of intents
          Lease, TTL, \* Policy, in ticks of the clock
          InTime,     \* does a handler always end before its record expires?
          MaxNow      \* bound: the clock

ASSUME IdempotencyAssumption ==
  /\ Lease \in Nat \ {0} /\ TTL \in Nat \ {0} /\ MaxNow \in Nat
  /\ InTime \in BOOLEAN /\ Invalid \subseteq Bodies
  /\ None \notin Ids

VARIABLES
  now,
  records,  \* records[k]: the store's record of k, or None
  req,      \* req[r]: r's place in the handler and its copy of the record
  intents,  \* intents[id]: which attempt made it and when, or None
  sent      \* answers of createIntent that left the server

vars == <<now, records, req, intents, sent>>

\* A record Claim makes; it is deleted when now reaches expiresAt, so that
\* the pair of a key and expiresAt names one life of the key.
Record == [fp : Bodies, status : {"in_flight", "completed"},
           attempt : Nat \ {0}, leaseUntil : Nat, expiresAt : Nat,
           response : [status : {201, 400, 500}, id : Ids \union {None}]
                        \union {None}]

\* An intent: the attempt that made it, what was asked for, and when.
IntentRecord == [key : Keys, fp : Bodies, rec : Record, at : Nat]

ASSUME NoneIsNoRecord == None \notin Record /\ None \notin IntentRecord

Init ==
  /\ now = 0
  /\ records = [k \in Keys |-> None]
  /\ req = [r \in Requests |-> [pc |-> "idle"]]
  /\ intents = [id \in Ids |-> None]
  /\ sent = {}
-----------------------------------------------------------------------------
(***************************************************************************)
(* The store: Claim and Complete, each under the lock.                     *)
(***************************************************************************)
Live(k) == records[k] # None /\ records[k].expiresAt > now

\* Mutant of Outcome: an answer on record is given before bodies are compared.
AnswersFirst(k, fp) ==
  IF ~Live(k) THEN "fresh"
  ELSE IF records[k].status = "completed" THEN "replay"
  ELSE IF records[k].fp # fp THEN "mismatch"
  ELSE IF records[k].leaseUntil > now THEN "in_flight" ELSE "fresh"

\* Mutant of Outcome: a retry does not wait for the lease.
NoLease(k, fp) ==
  IF ~Live(k) THEN "fresh"
  ELSE IF records[k].fp # fp THEN "mismatch"
  ELSE IF records[k].status = "completed" THEN "replay" ELSE "fresh"

\* What Claim answers.
Outcome(k, fp) ==
  IF ~Live(k) THEN "fresh"
  ELSE IF records[k].fp # fp THEN "mismatch"
  ELSE IF records[k].status = "completed" THEN "replay"
  ELSE IF records[k].leaseUntil > now THEN "in_flight"
  ELSE "fresh"

\* The record a fresh claim leaves: a new one, or the same one taken over.
Claimed(k, fp) ==
  IF Live(k)
  THEN [records[k] EXCEPT !.attempt = @ + 1, !.leaseUntil = now + Lease]
  ELSE [fp |-> fp, status |-> "in_flight", attempt |-> 1,
        leaseUntil |-> now + Lease, expiresAt |-> now + TTL,
        response |-> None]

\* Mutant of Superseded: Complete does not look at the attempt.
NeverSuperseded(k, attempt) == FALSE

\* Complete refuses an attempt that another one has taken over from.
Superseded(k, attempt) == records[k] # None /\ records[k].attempt # attempt

\* What Complete makes of a record: no record stays none, an answer is never
\* written over.
WithAnswer(rec, answer) ==
  IF rec = None \/ rec.status = "completed" THEN rec
  ELSE [rec EXCEPT !.status = "completed", !.response = answer]

\* Clean-up of the records that have expired; reading them does the same.
Sweep ==
  /\ \E k \in Keys : records[k] # None /\ ~Live(k)
  /\ records' = [k \in Keys |-> IF Live(k) THEN records[k] ELSE None]
  /\ UNCHANGED <<now, req, intents, sent>>
-----------------------------------------------------------------------------
(***************************************************************************)
(* The middleware and the handler.                                         *)
(***************************************************************************)
Running == {"create", "complete"}
At(r, pcs) == req[r].pc \in pcs

\* An answer of createIntent leaves the server for request r.
Send(key, fp, rec, answer) ==
  sent' = sent \union
    {[key |-> key, fp |-> fp, until |-> rec.expiresAt, answer |-> answer]}

Done == [pc |-> "done"]

\* The first claim of a key, or the claim of a retry whose lease is over.
Fresh(r, k, fp) ==
  /\ At(r, {"idle"})
  /\ Outcome(k, fp) = "fresh"
  /\ records' = [records EXCEPT ![k] = Claimed(k, fp)]
  /\ req' = [req EXCEPT ![r] = [pc |-> "create", key |-> k, fp |-> fp,
                                rec |-> Claimed(k, fp)]]
  /\ UNCHANGED <<now, intents, sent>>

Replay(r, k, fp) ==
  /\ At(r, {"idle"})
  /\ Outcome(k, fp) = "replay"
  /\ Send(k, fp, records[k], records[k].response)
  /\ req' = [req EXCEPT ![r] = Done]
  /\ UNCHANGED <<now, records, intents>>

\* 401, 400 or 413: no owner, no valid key, an unreadable or too large body.
Malformed(r) ==
  /\ At(r, {"idle"})
  /\ req' = [req EXCEPT ![r] = Done]
  /\ UNCHANGED <<now, records, intents, sent>>

\* 422 or 409: the endpoint does not run and nothing is recorded.
Refuse(r, k, fp) ==
  /\ At(r, {"idle"})
  /\ Outcome(k, fp) \in {"mismatch", "in_flight"}
  /\ req' = [req EXCEPT ![r] = Done]
  /\ UNCHANGED <<now, records, intents, sent>>

Answered(r, status, id) ==
  req' = [req EXCEPT ![r] = [pc |-> "complete", key |-> @.key, fp |-> @.fp,
            rec |-> @.rec, answer |-> [status |-> status, id |-> id]]]

\* createIntent: a body it cannot use is a 400, an id in use a 500.
CreateIntent(r, id) ==
  /\ At(r, {"create"})
  /\ \/ /\ req[r].fp \in Invalid
        /\ Answered(r, 400, None)
        /\ UNCHANGED intents
     \/ /\ req[r].fp \notin Invalid /\ intents[id] # None
        /\ Answered(r, 500, None)
        /\ UNCHANGED intents
     \/ /\ req[r].fp \notin Invalid /\ intents[id] = None
        /\ intents' = [intents EXCEPT ![id] =
             [key |-> req[r].key, fp |-> req[r].fp, rec |-> req[r].rec,
              at |-> now]]
        /\ Answered(r, 201, id)
  /\ UNCHANGED <<now, records, sent>>

\* Complete, and the answer unless the attempt was superseded: that is a 409.
Finish(r) ==
  LET k == req[r].key
      rec == req[r].rec
  IN  /\ At(r, {"complete"})
      /\ \/ Superseded(k, rec.attempt) /\ UNCHANGED <<records, sent>>
         \/ /\ ~Superseded(k, rec.attempt)
            /\ records' = [records EXCEPT ![k] = WithAnswer(@, req[r].answer)]
            /\ Send(k, req[r].fp, rec, req[r].answer)
      /\ req' = [req EXCEPT ![r] = Done]
      /\ UNCHANGED <<now, intents>>

\* A panic in the handler ends its goroutine; the record stays in flight.
Panic(r) ==
  /\ At(r, Running)
  /\ req' = [req EXCEPT ![r] = [pc |-> "dead"]]
  /\ UNCHANGED <<now, records, intents, sent>>

Tick ==
  /\ now < MaxNow
  /\ InTime => \A r \in Requests :
                 At(r, Running) => req[r].rec.expiresAt > now + 1
  /\ now' = now + 1
  /\ UNCHANGED <<records, req, intents, sent>>

Request(r) ==
  \/ \E k \in Keys, fp \in Bodies :
       Fresh(r, k, fp) \/ Replay(r, k, fp) \/ Refuse(r, k, fp)
  \/ Malformed(r)
  \/ \E id \in Ids : CreateIntent(r, id)
  \/ Finish(r)
  \/ Panic(r)

Next == (\E r \in Requests : Request(r)) \/ Sweep \/ Tick

Spec == Init /\ [][Next]_vars
-----------------------------------------------------------------------------
\* Handler: one answer of a key leaves the server, be it the first one or a
\* replay, to whichever of several attempts and retries it goes, until the
\* record of the key expires.
OneAnswerAKey ==
  \A s, t \in sent : s.key = t.key /\ s.until = t.until => s.answer = t.answer

\* Handler and Claim: an answer goes to nobody who asked for something else.
\* The intent it names was made from the very body of the request.
AnswerIsForThatRequest ==
  \A s \in sent : s.answer.id # None =>
    /\ intents[s.answer.id].key = s.key
    /\ intents[s.answer.id].fp = s.fp

\* Claim: the price of the lease.  One life of a key makes a second intent
\* only after the attempt that made the first has used up its whole lease.
SecondIntentOnlyAfterTheLease ==
  \A a, b \in Ids :
    LET x == intents[a]
        y == intents[b]
    IN  a # b /\ x # None /\ y # None =>
          \/ x.key # y.key \/ x.rec.expiresAt # y.rec.expiresAt
          \/ x.rec.attempt < y.rec.attempt /\ x.rec.leaseUntil <= y.at
          \/ y.rec.attempt < x.rec.attempt /\ y.rec.leaseUntil <= x.at
=============================================================================
