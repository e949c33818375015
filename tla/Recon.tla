------------------------------- MODULE Recon -------------------------------
(***************************************************************************)
(* The reconciliation engine (Engine.Run) with the listener it calls, over *)
(* a chain, beside a relayer and an operator.  A run sweeps the open       *)
(* intents (it asks again for the job of one that nobody moves and hands a *)
(* confirming one to Check), compares every final transfer above its       *)
(* cursor with the intent that owns its ref, and advances the cursor.      *)
(*                                                                         *)
(* Engines may run at the same time (schedules overlap, two replicas); one *)
(* engine is one caller of Check.  A block holds one transaction, so the   *)
(* order by height is the order Run sorts by.                              *)
(***************************************************************************)
EXTENDS Listener

CONSTANTS Engines,   \* callers that run reconciliation; the others only Check
          Sends,     \* what own transactions may do
          Strange,   \* refs and effects of transactions of strangers
          Crashes    \* may an engine lose its process, and its cursor with it?

ASSUME ReconAssumption ==
  /\ Engines \subseteq Callers /\ Sends \subseteq Effects /\ Crashes \in BOOLEAN
  /\ \A s \in Strange : DOMAIN s = {"ref", "effect"} /\ s.effect \in Effects

\* What is known of a transaction: its ref, what it does, whose it is.
Transaction == [ref : Intents \union {s.ref : s \in Strange},
                effect : Effects, own : BOOLEAN]

ASSUME NoneIsNoTransaction == None \notin Transaction

VARIABLES
  job,      \* job[i]: the stores that have its settle job: "queued", "parked"
  asked,    \* asked[e]: the payment whose job e found not parked and enqueues
            \* next, or None
  work,     \* work[i]: the relayer's send of i in progress, or None
  eng,      \* eng[e]: e's place in Run and its local variables
  cursor,   \* Engine.cursor
  verdicts  \* verdicts[e][x]: history: what Run wrote down about transfer x

sideVars == <<job, asked, work>>
runVars == <<eng, cursor, verdicts>>
vars == <<intentVars, bookVars, chainVars, check, sideVars, runVars>>

Open == {"authorized", "settling", "confirming"}
Asleep == [pc |-> "idle", todo |-> {}, to |-> 0, x |-> None]
Unseen == [x \in Txs |-> "unseen"]

\* Authorized; the process may have died before it enqueued the job.
Init ==
  /\ InitListener
  /\ store = [i \in Intents |->
                I!Applied(I!NewIntent, [to |-> "authorized", by |-> "api",
                   tx |-> None, reason |-> FALSE, late |-> FALSE])]
  /\ job \in [Intents -> {{}, {"queued"}}]
  /\ asked = [e \in Engines |-> None]
  /\ work = [i \in Intents |-> None]
  /\ eng = [e \in Engines |-> Asleep]
  /\ cursor = [e \in Engines |-> 0]
  /\ verdicts = [e \in Engines |-> Unseen]
-----------------------------------------------------------------------------
(***************************************************************************)
(* Others: the relayer, cut down to its effects on what the engine reads,  *)
(* an operator, and anybody who broadcasts a transaction of his own.       *)
(***************************************************************************)
ByRelayer(to, x) ==
  [to |-> to, by |-> "relayer", tx |-> x, late |-> FALSE,
   reason |-> to = "needs_review"]
ByOperator(to, x) ==
  [to |-> to, by |-> "operator", tx |-> x, late |-> FALSE, reason |-> TRUE]

Queued(i) == "queued" \in job[i]

\* A worker claims the payment.  It dies before the hold, or books it.
Claim(i) ==
  /\ Queued(i)
  /\ store[i].state = "authorized"
  /\ I!AdvanceNow(i, ByRelayer("settling", None))
  /\ \/ UNCHANGED bookVars
     \/ J!Append1(HoldEntry(i, store'[i]))
  /\ UNCHANGED <<chainVars, check, sideVars, runVars>>

Held(i) == \E k \in DOMAIN books : books[k].entry.id = <<i, "hold">>

\* It broadcasts: the first time, or another transaction in place of a first.
Send(i) ==
  /\ Queued(i)
  /\ store[i].state = "settling"
  /\ work[i] = None
  /\ Held(i)
  /\ \E x \in Txs, f \in Sends :
       /\ Broadcast(x, i, f, TRUE)
       /\ work' = [work EXCEPT ![i] = [tx |-> x, version |-> store[i].version]]
  /\ UNCHANGED <<intentVars, bookVars, check, job, asked, runVars>>

\* It saves the hash, if the intent is still as it was read; otherwise, or
\* when it dies, the hash is forgotten.
Confirm(i) ==
  /\ work[i] # None
  /\ \/ /\ store[i].version = work[i].version
        /\ I!AdvanceNow(i, ByRelayer("confirming", work[i].tx))
     \/ UNCHANGED intentVars
  /\ work' = [work EXCEPT ![i] = None]
  /\ UNCHANGED <<bookVars, chainVars, check, job, asked, runVars>>

\* The outcome of its sends is unknown: a person decides.
Suspend(i) ==
  /\ Queued(i)
  /\ store[i].state = "settling"
  /\ I!AdvanceNow(i, ByRelayer("needs_review", None))
  /\ UNCHANGED <<bookVars, chainVars, check, sideVars, runVars>>

\* The job leaves the queue, as there is nothing to do for it, or it is given
\* up: parked first, then out of the queue, if the worker lives to do that.
Ack(i) ==
  /\ Queued(i)
  /\ \/ /\ store[i].state \notin {"authorized", "settling"}
        /\ job' = [job EXCEPT ![i] = @ \ {"queued"}]
     \/ job' \in {[job EXCEPT ![i] = {"parked"}],
                  [job EXCEPT ![i] = {"queued", "parked"}]}
  /\ UNCHANGED <<intentVars, bookVars, chainVars, check, asked, work, runVars>>

\* A person puts a parked job back.
Redrive(i) ==
  /\ "parked" \in job[i]
  /\ job' = [job EXCEPT ![i] = {"queued"}]
  /\ UNCHANGED <<intentVars, bookVars, chainVars, check, asked, work, runVars>>

Operate(i) ==
  /\ store[i].state = "needs_review"
  /\ \/ \E x \in Txs : /\ what[x] # None
                       /\ I!AdvanceNow(i, ByOperator("settled", x))
     \/ I!AdvanceNow(i, ByOperator("failed", None))
  /\ UNCHANGED <<bookVars, chainVars, check, sideVars, runVars>>

Foreign(x) ==
  /\ \E s \in Strange : Broadcast(x, s.ref, s.effect, FALSE)
  /\ UNCHANGED <<intentVars, bookVars, check, sideVars, runVars>>

OnChain ==
  /\ Reorg \/ Finalize \/ \E x \in Txs : Include(x)
  /\ UNCHANGED <<intentVars, bookVars, check, sideVars, runVars>>
-----------------------------------------------------------------------------
(***************************************************************************)
(* Run.                                                                    *)
(***************************************************************************)
Is(e, pc) == eng[e].pc = pc
Step(e, rec) == eng' = [eng EXCEPT ![e] = rec]
Writes(e, x, v) == verdicts' = [verdicts EXCEPT ![e][x] = v]

\* The sweep lists the open intents with the state they are in.
Start(e) ==
  /\ Is(e, "idle")
  /\ Step(e, [Asleep EXCEPT !.pc = "sweep",
        !.todo = {<<i, store[i].state>> : i \in
                    {j \in Intents : store[j].state \in Open}}])
  /\ UNCHANGED <<intentVars, bookVars, chainVars, check, sideVars, cursor,
                 verdicts>>

\* One of them: a confirming one goes to Check.  Of one that nobody moves, a
\* parked job waits for a person; any other is enqueued in the next step.
Sweep(e) ==
  /\ Is(e, "sweep")
  /\ asked[e] = None
  /\ \E s \in eng[e].todo :
       /\ IF s[2] = "confirming"
          THEN /\ Enter(e, s[1])
               /\ Step(e, [eng[e] EXCEPT !.pc = "swept", !.todo = @ \ {s}])
               /\ UNCHANGED asked
          ELSE /\ asked' = [asked EXCEPT ![e] =
                              IF "parked" \in job[s[1]] THEN None ELSE s[1]]
               /\ Step(e, [eng[e] EXCEPT !.todo = @ \ {s}])
               /\ UNCHANGED check
  /\ UNCHANGED <<intentVars, bookVars, chainVars, job, work, cursor, verdicts>>

\* Enqueue, which does nothing when the queue has the job.
Enqueue(e) ==
  /\ asked[e] # None
  /\ job' = [job EXCEPT ![asked[e]] = @ \union {"queued"}]
  /\ asked' = [asked EXCEPT ![e] = None]
  /\ UNCHANGED <<intentVars, bookVars, chainVars, check, work, runVars>>

\* Check returns: a lost race is tolerated, any other error ends the run.
Swept(e) ==
  /\ Is(e, "swept")
  /\ check[e].pc = "done"
  /\ check' = [check EXCEPT ![e] = Idle]
  /\ copy' = [copy EXCEPT ![e] = None]
  /\ Step(e, IF check[e].outcome = "error" THEN Asleep
             ELSE [eng[e] EXCEPT !.pc = "sweep"])
  /\ UNCHANGED <<store, bookVars, chainVars, sideVars, cursor, verdicts>>

\* Transfers of blocks from .. to: what moved money.
Transfers(from, to) == {x \in Txs : block[x] \in from .. to /\ Moved(x)}

\* Mutant of Finalized: transfers are compared before they are final.
ToTheTip == tip

\* Source.Finalized.
Finalized == mark

\* Finalized and Transfers: the window above the cursor, if there is one.
Window(e) ==
  /\ Is(e, "sweep")
  /\ eng[e].todo = {} /\ asked[e] = None
  /\ Step(e, IF Finalized <= cursor[e] THEN Asleep
             ELSE [Asleep EXCEPT !.pc = "compare", !.to = Finalized,
                                 !.todo = Transfers(cursor[e] + 1, Finalized)])
  /\ UNCHANGED <<intentVars, bookVars, chainVars, check, sideVars, cursor,
                 verdicts>>

PostsOf(i) == {k \in DOMAIN books : books[k].entry.id = <<i, "post">>}

\* A transfer against the settled intent that owns its ref: the post decides,
\* its hash first, then what its merchant leg says.
AgainstThePost(i, x) ==
  LET posts == {books[k].entry : k \in PostsOf(i)}
  IN  IF posts = {} THEN "mismatch"
      ELSE IF \A p \in posts : TxOfNote(p.note) # x THEN "paid_twice"
      ELSE IF \A p \in posts : p.legs["merchant"] # Amount(x) THEN "mismatch"
      ELSE "match"

\* What reconcile writes down at once, or "evidence" when it goes on.
Compared(x) ==
  LET i == what[x].ref
  IN  IF i = None THEN "unreferenced"
      ELSE IF i \notin Intents THEN "unknown_ref"
      ELSE IF what[x].effect = "other" THEN "unexpected"
      ELSE IF store[i].state = "settled" THEN AgainstThePost(i, x)
      ELSE IF store[i].state \in {"settling", "confirming"} THEN "evidence"
      ELSE "unexpected"

\* Where the evidence has to go: another hash is taken back first.
Missing(x) ==
  LET it == store[what[x].ref]
  IN  IF it.state = "settling" THEN "confirm"
      ELSE IF it.tx # x THEN "back" ELSE "check"

\* The next transfer in the order of the chain.
Compare(e) ==
  /\ Is(e, "compare")
  /\ \E x \in eng[e].todo :
       /\ \A y \in eng[e].todo : block[x] <= block[y]
       /\ IF Compared(x) # "evidence"
          THEN /\ Writes(e, x, Compared(x))
               /\ Step(e, [eng[e] EXCEPT !.todo = @ \ {x}])
               /\ UNCHANGED check
          ELSE /\ UNCHANGED verdicts
               /\ Step(e, [eng[e] EXCEPT !.pc = Missing(x), !.x = x])
               /\ IF Missing(x) = "check" THEN Enter(e, what[x].ref)
                  ELSE UNCHANGED check
  /\ UNCHANGED <<intentVars, bookVars, chainVars, sideVars, cursor>>

\* intent.Advance, its first half: read again.
ReadAgain(e) ==
  /\ eng[e].pc \in {"back", "confirm"}
  /\ I!Read(e, what[eng[e].x].ref)
  /\ Step(e, [eng[e] EXCEPT !.pc = IF @ = "back" THEN "save-back"
                                                ELSE "save-confirm"])
  /\ UNCHANGED <<bookVars, chainVars, check, sideVars, cursor, verdicts>>

Evidence(e) ==
  LET back == Is(e, "save-back")
  IN  [to |-> IF back THEN "settling" ELSE "confirming", by |-> "listener",
       tx |-> IF back THEN None ELSE eng[e].x, reason |-> back, late |-> FALSE]

\* The push went through, or the intent was there already: on to the second
\* one, or to Check.
Pushed(e) ==
  IF Is(e, "save-back")
  THEN Step(e, [eng[e] EXCEPT !.pc = "confirm"]) /\ UNCHANGED check
  ELSE Step(e, [eng[e] EXCEPT !.pc = "check"]) /\ Enter(e, what[eng[e].x].ref)

\* Back to the list, without the transfer just compared.
Proceed(e) ==
  Step(e, [eng[e] EXCEPT !.pc = "compare", !.x = None, !.todo = @ \ {eng[e].x}])

\* raced: somebody else moved the intent.
Lost(e) ==
  /\ Proceed(e)
  /\ Writes(e, eng[e].x, "raced")

\* Its second half: Apply and Save.  An illegal or terminal transition and a
\* version conflict all mean a lost race.
SaveEvidence(e) ==
  /\ eng[e].pc \in {"save-back", "save-confirm"}
  /\ LET req == Evidence(e)
         it == copy[e].it
     IN  \/ /\ it.state = req.to
            /\ Pushed(e) /\ UNCHANGED <<intentVars, verdicts>>
         \/ /\ I!Advance(e, req)
            /\ Pushed(e) /\ UNCHANGED verdicts
         \/ /\ I!Conflict(e, req)
            /\ Lost(e) /\ UNCHANGED check
         \/ /\ it.state # req.to /\ ~I!Accepts(it, req)
            /\ Lost(e) /\ UNCHANGED <<intentVars, check>>
  /\ UNCHANGED <<bookVars, chainVars, sideVars, cursor>>

\* Check returns: a match whatever it found, unless the race was lost or the
\* run ends with the error.
Checked(e) ==
  /\ Is(e, "check")
  /\ check[e].pc = "done"
  /\ check' = [check EXCEPT ![e] = Idle]
  /\ copy' = [copy EXCEPT ![e] = None]
  /\ CASE check[e].outcome = "error" -> Step(e, Asleep) /\ UNCHANGED verdicts
       [] check[e].outcome = "conflict" -> Lost(e)
       [] OTHER ->
            /\ Proceed(e)
            /\ Writes(e, eng[e].x, "match")
  /\ UNCHANGED <<store, bookVars, chainVars, sideVars, cursor>>

\* The whole window is compared.
Finish(e) ==
  /\ Is(e, "compare")
  /\ eng[e].todo = {}
  /\ cursor' = [cursor EXCEPT ![e] = eng[e].to]
  /\ Step(e, Asleep)
  /\ UNCHANGED <<intentVars, bookVars, chainVars, check, sideVars, verdicts>>

\* A call fails and Run returns, or the process ends and another one starts
\* with a cursor at zero.
Stop(e) ==
  /\ ~Is(e, "idle")
  /\ Step(e, Asleep)
  /\ check' = [check EXCEPT ![e] = Idle]
  /\ copy' = [copy EXCEPT ![e] = None]
  /\ \/ UNCHANGED <<cursor, verdicts>>
     \/ /\ Crashes
        /\ cursor' = [cursor EXCEPT ![e] = 0]
        /\ verdicts' = [verdicts EXCEPT ![e] = Unseen]
  /\ asked' = [asked EXCEPT ![e] = None]
  /\ UNCHANGED <<store, bookVars, chainVars, job, work>>

CheckInRun(e) == CheckStep(e) /\ UNCHANGED <<sideVars, runVars>>

\* A caller that only checks: any intent, any time.
CheckAlone(c) ==
  \/ /\ At(c, {"idle"})
     /\ \E i \in Intents : store[i].state = "confirming" /\ Enter(c, i)
     /\ UNCHANGED <<intentVars, bookVars, chainVars, sideVars, runVars>>
  \/ /\ At(c, {"done"})
     /\ check' = [check EXCEPT ![c] = Idle]
     /\ copy' = [copy EXCEPT ![c] = None]
     /\ UNCHANGED <<store, bookVars, chainVars, sideVars, runVars>>
  \/ CheckInRun(c)

Run(e) ==
  \/ Start(e) \/ Sweep(e) \/ Enqueue(e) \/ Swept(e) \/ Window(e) \/ Compare(e)
  \/ ReadAgain(e) \/ SaveEvidence(e) \/ Checked(e) \/ Finish(e)
  \/ CheckInRun(e)

Next ==
  \/ \E i \in Intents : \/ Claim(i) \/ Send(i) \/ Confirm(i) \/ Suspend(i)
                         \/ Ack(i) \/ Redrive(i) \/ Operate(i)
  \/ \E x \in Txs : Foreign(x)
  \/ OnChain
  \/ \E e \in Engines : Run(e) \/ Stop(e)
  \/ \E c \in Callers \ Engines : CheckAlone(c)

Spec == Init /\ [][Next]_vars
-----------------------------------------------------------------------------
\* A caller is inside Check exactly while it waits for it, with the intent it
\* read; the hashes of what it compares are transactions of that intent.
ReconTypeOK ==
  /\ \A i \in Intents : I!WellFormed(store[i])
  /\ \A k \in DOMAIN books : books[k].entry \in J!Entry
  /\ \A e \in Engines :
       /\ (eng[e].pc \in {"swept", "check"}) <=> (check[e].pc # "idle")
       /\ eng[e].x # None => what[eng[e].x].ref \in Intents /\ Final(eng[e].x)
       /\ cursor[e] <= mark
  /\ \A c \in Callers :
       check[c].pc \in {"lookup", "post"} \union Exits =>
         copy[c].id = check[c].intent /\ copy[c].it.state = "confirming"

\* Settled by the listener: the transaction on record is final and moved the
\* asked amount, and the post that ends the hold names it.  Neither reorgs nor
\* other engines, hand-backs and exchanged hashes between Check's read and its
\* save make it settle anything else.
SettledIsPaid ==
  \A i \in Intents :
    LET h == store[i].history
    IN  store[i].state = "settled" /\ h[Len(h)].by = "listener" =>
          /\ Paid(store[i].tx)
          /\ \E k \in PostsOf(i) : TxOfNote(books[k].entry.note) = store[i].tx

\* What the books say was received was received, and stays so.
PostIsPaid ==
  \A i \in Intents : \A k \in PostsOf(i) : Paid(TxOfNote(books[k].entry.note))

\* The listener sends to review what will not change any more: the
\* transaction on record is final and did not pay.
ReviewIsForGood ==
  \A i \in Intents :
    LET h == store[i].history
    IN  store[i].state = "needs_review" /\ h[Len(h)].by = "listener" =>
          Final(store[i].tx) /\ ~Paid(store[i].tx)

\* Caller c is about to post, nobody moved the intent since c read it, and its
\* hold is on the books.
Posts(c) ==
  /\ check[c].pc = "post"
  /\ Held(check[c].intent)
  /\ store[check[c].intent] = copy[c].it
Accepted(c) ==
  LET e == PostEntry(check[c].intent, copy[c].it) IN J!Fresh(e) \/ J!Replay(e)

\* An intent that went into confirming once: the post is the same whoever
\* computes it and however often he died between the post and settled, so it
\* is never refused.
PostIsIdempotent ==
  \A c \in Callers :
    LET h == copy[c].it.history
    IN  Posts(c) /\ Cardinality({k \in DOMAIN h : h[k].to = "confirming"}) = 1
        => Accepted(c)

\* Whoever computes the post, the first time or again, it is the same (comment
\* of postEntry), and engines may overlap (comment of Engine): with one
\* transfer of the ref on the chain no Check ends in an error.
PostIsNeverRefused ==
  \A c \in Callers :
    /\ Posts(c)
    /\ Cardinality({x \in Txs : what[x] # None}) = 1
    => Accepted(c)

\* A transfer whose race was lost is compared again: "the same window is
\* compared once more next time" (comment of raced), so the cursor does not
\* pass it.
RacesAreRerun ==
  \A e \in Engines : \A x \in Transfers(1, cursor[e]) : verdicts[e][x] # "raced"
=============================================================================
