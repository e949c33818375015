------------------------------- MODULE Intent -------------------------------
(***************************************************************************)
(* Payment intents: the transition table and Apply of package intent, and  *)
(* its Store.  A client reads a copy, applies a request to the copy and    *)
(* saves it with a compare-and-swap on the version it read; between the    *)
(* read and the save any other client may have moved the intent.           *)
(*                                                                         *)
(* Terms (chain, token, payer, merchant, amount) never change after New,   *)
(* so the ref Save derives from them always matches and is left out.       *)
(***************************************************************************)
EXTENDS Naturals, Sequences

CONSTANTS Intents,     \* intent ids
          Clients,     \* components that read and save intents
          Hashes,      \* transaction hashes
          None,        \* no intent, no copy, the empty hash
          MaxVersion   \* bound: requests are applied below this version

ASSUME IntentAssumption == None \notin Hashes /\ MaxVersion \in Nat

VARIABLES store,   \* MemoryStore.m
          copy     \* copy[c]: the intent client c last read or saved

intentVars == <<store, copy>>

Terminals == {"settled", "failed", "canceled"}
States == Terminals \union
  {"created", "authorized", "settling", "confirming", "needs_review"}
Actors == {"api", "relayer", "listener", "operator", "system"}

\* One row of the table.  A row needs a transaction hash, a reason, both or
\* neither as evidence.
Row(from, to, by, needs) ==
  [from |-> from, to |-> to, by |-> by, needs |-> needs]

Rules ==
  { Row("created", "authorized", {"api"}, {}),
    Row("created", "canceled", {"api", "operator", "system"}, {"reason"}),
    Row("authorized", "settling", {"relayer"}, {}),
    Row("authorized", "canceled", {"api", "operator"}, {"reason"}),
    Row("settling", "confirming", {"relayer", "listener"}, {"tx"}),
    Row("settling", "failed", {"relayer"}, {"reason"}),
    Row("settling", "needs_review", {"relayer"}, {"reason"}),
    Row("confirming", "settled", {"listener"}, {"tx"}),
    Row("confirming", "settling", {"listener"}, {"reason"}),
    Row("confirming", "needs_review", {"listener"}, {"reason"}),
    Row("needs_review", "settled", {"operator"}, {"tx", "reason"}),
    Row("needs_review", "failed", {"operator"}, {"reason"}) }

\* A request: where to, by whom, with which hash, with a reason or not, and
\* whether it is made after the intent's ExpiresAt.  Callers put a hash only
\* in requests to confirming and settled, and only the deadline of created ->
\* authorized looks at the time.
Requests ==
  { req \in [to : States, by : Actors, tx : Hashes \union {None},
             reason : BOOLEAN, late : BOOLEAN] :
      /\ req.tx # None => req.to \in {"confirming", "settled"}
      /\ req.late => req.to = "authorized" }

Evidence(req) ==
  (IF req.tx # None THEN {"tx"} ELSE {}) \union
  (IF req.reason THEN {"reason"} ELSE {})

Transition == [from : States, to : States, by : Actors,
               tx : Hashes \union {None}]
IntentRecord == [state : States, version : Nat, tx : Hashes \union {None},
                 history : Seq(Transition)]
Copy == [id : Intents, it : IntentRecord]

ASSUME NoneIsNoIntent == None \notin IntentRecord
-----------------------------------------------------------------------------
\* guard: created -> authorized has a deadline; settled must name the hash on
\* record, if there is one.
NoGuard(it, req) == it.state = "created" /\ req.to = "authorized" => ~req.late
Guard(it, req) ==
  /\ it.state = "created" /\ req.to = "authorized" => ~req.late
  /\ req.to = "settled" => it.tx \in {None, req.tx}

AcceptsAnyRow(it, req) ==                  \* mutant of Accepts: any row's to
  /\ it.state # req.to
  /\ \E r \in Rules : r.to = req.to /\ req.by \in r.by
                      /\ r.needs \subseteq Evidence(req)
  /\ Guard(it, req)

\* Apply makes the transition.  When it does not (replay, terminal state, no
\* such row, wrong actor, missing evidence, guard) nothing changes.
Accepts(it, req) ==
  /\ it.state # req.to
  /\ it.state \notin Terminals
  /\ \E r \in Rules : /\ r.from = it.state /\ r.to = req.to
                      /\ req.by \in r.by
                      /\ r.needs \subseteq Evidence(req)
  /\ Guard(it, req)

\* The hash on record: set when a transaction is in a block, cleared when a
\* reorg takes it out.
TxAfter(it, req) ==
  IF req.to \in {"confirming", "settled"} THEN req.tx
  ELSE IF req.to = "settling" THEN None ELSE it.tx

Applied(it, req) ==
  [state   |-> req.to,
   version |-> it.version + 1,
   tx      |-> TxAfter(it, req),
   history |-> Append(it.history, [from |-> it.state, to |-> req.to,
                                   by |-> req.by, tx |-> req.tx])]
-----------------------------------------------------------------------------
NewIntent == [state |-> "created", version |-> 1, tx |-> None, history |-> <<>>]

\* New, then Save with expected version 0: only an id not in the store.
Create(i) ==
  /\ store[i] = None
  /\ store' = [store EXCEPT ![i] = NewIntent]
  /\ UNCHANGED copy

\* Store.Get: a copy, which nobody else sees.
Read(c, i) ==
  /\ store[i] # None
  /\ copy' = [copy EXCEPT ![c] = [id |-> i, it |-> store[i]]]
  /\ UNCHANGED store

NoCAS(c) == TRUE                           \* mutant of Current: blind write
\* Save's compare: nobody saved the intent since client c read it.
Current(c) == store[copy[c].id].version = copy[c].it.version

\* Apply to the copy, then Save it: the store and the copy both advance.
Advance(c, req) ==
  /\ copy[c] # None
  /\ Accepts(copy[c].it, req)
  /\ copy[c].it.version < MaxVersion
  /\ Current(c)
  /\ LET it == Applied(copy[c].it, req)
     IN  /\ copy' = [copy EXCEPT ![c].it = it]
         /\ store' = [store EXCEPT ![copy[c].id] = it]

\* Save answers ErrVersionConflict; every caller then lets go of its copy.
Conflict(c, req) ==
  /\ copy[c] # None
  /\ Accepts(copy[c].it, req)
  /\ ~Current(c)
  /\ copy' = [copy EXCEPT ![c] = None]
  /\ UNCHANGED store

\* The caller is done with its copy.
Forget(c) ==
  /\ copy[c] # None
  /\ copy' = [copy EXCEPT ![c] = None]
  /\ UNCHANGED store

\* intent.Advance: read, apply and save with nothing in between.  An
\* interleaved one loses the compare-and-swap and changes nothing.
AdvanceNow(i, req) ==
  /\ store[i] # None
  /\ Accepts(store[i], req)
  /\ store[i].version < MaxVersion
  /\ store' = [store EXCEPT ![i] = Applied(@, req)]
  /\ UNCHANGED copy

Init ==
  /\ store = [i \in Intents |-> None]
  /\ copy = [c \in Clients |-> None]

Next ==
  \/ \E i \in Intents : Create(i) \/ \E req \in Requests : AdvanceNow(i, req)
  \/ \E c \in Clients : Forget(c) \/ \E i \in Intents : Read(c, i)
  \/ \E c \in Clients, req \in Requests : Advance(c, req) \/ Conflict(c, req)

Spec == Init /\ [][Next]_intentVars
-----------------------------------------------------------------------------
\* Records have their shape; one that waits for a transaction has no hash of
\* an earlier one, and one that is confirming has a hash.
WellFormed(it) ==
  /\ it \in IntentRecord
  /\ it.state \in {"created", "authorized", "settling"} => it.tx = None
  /\ it.state = "confirming" => it.tx # None

IntentTypeOK ==
  /\ \A i \in Intents : store[i] # None => WellFormed(store[i])
  /\ copy \in [Clients -> Copy \union {None}]

\* The state after the k-th step of a history.
Reached(h, k) == IF k = 0 THEN "created" ELSE h[k].to

\* One row a version from created to the present state, each by an actor the
\* table allows.
Walk(it) ==
  LET h == it.history
  IN  /\ it.version = Len(h) + 1
      /\ it.state = Reached(h, Len(h))
      /\ \A k \in DOMAIN h :
           /\ h[k].from = Reached(h, k - 1)
           /\ \E r \in Rules : /\ r.from = h[k].from /\ r.to = h[k].to
                               /\ h[k].by \in r.by

\* A saved history is a walk along the table from created to the present
\* state, one row a version, each row by an actor it allows: no interleaving
\* of clients saves a step the table does not have.
HistoryIsAWalk == \A i \in Intents : store[i] # None => Walk(store[i])

\* The hash of the last step to confirming is the one on record.
LastConfirmed(it) ==
  LET confirmed == {k \in DOMAIN it.history : it.history[k].to = "confirming"}
  IN  \E k \in confirmed : /\ \A j \in confirmed : j <= k
                           /\ it.history[k].tx = it.tx

\* A listener declares an intent settled only with the hash of the last
\* transaction that went into a block, whatever reorgs came before.
SettledByTheConfirmedHash ==
  \A i \in Intents : store[i] # None /\ store[i].state = "settled" =>
    LET h == store[i].history
    IN  h[Len(h)].by = "listener" => LastConfirmed(store[i])

\* Nobody's save overwrites a step it did not see: a save adds one transition
\* to the history the store has, and a terminal intent never changes.
NoLostUpdate ==
  [][\A i \in Intents : store[i] # None /\ store'[i] # store[i] =>
       /\ store[i].state \notin Terminals
       /\ store'[i].version = store[i].version + 1
       /\ store'[i].history =
            Append(store[i].history, store'[i].history[store[i].version])
       /\ store'[i].history[store[i].version].from = store[i].state
    ]_intentVars
=============================================================================
