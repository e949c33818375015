----------------------------- MODULE ReconProofs -----------------------------
(***************************************************************************)
(* Theorems of Recon, for every set of payments, callers and engines, any  *)
(* number of transactions and blocks, with engines that die.  The chain    *)
(* only ever adds to what is final (Later); the intent store is used as    *)
(* its module allows; a caller of Check, a run of the engine and the books *)
(* each have an invariant of their own, and they lean on one another.      *)
(***************************************************************************)
EXTENDS Recon, SequenceTheorems, FiniteSetTheorems, TLAPS

IP == INSTANCE IntentProofs WITH Clients <- Callers, Hashes <- Txs
JP == INSTANCE JournalProofs WITH rows <- books, Refs <- Intents,
        Assets <- {"asset"}, Accounts <- {"payer", "merchant"},
        Ids <- Intents \X {"hold", "post"}, MaxEntries <- 9,
        Proposals <- {}

\* Where a caller of Check may be, and what it may have been told.
Looking == {"lookup", "post"} \union Exits
Places == {"idle", "get", "done"} \union Looking
Outcomes == {"no-op", "wait", "error", "conflict"} \union Exits
Place == [pc : Places, intent : Intents \union {None}, outcome : Outcomes]

\* Where a run may be; Weighing: it has a transfer in hand.
Weighing == {"back", "save-back", "confirm", "save-confirm", "check"}
RunPlaces == {"idle", "sweep", "swept", "compare"} \union Weighing
RunTyped(r) ==
  /\ r = [pc |-> r.pc, todo |-> r.todo, to |-> r.to, x |-> r.x]
  /\ r.pc \in RunPlaces /\ r.to \in Nat /\ r.x \in Txs \union {None}

\* Blocks up to the mark are there, and hold transactions that were sent.
ChainInv ==
  /\ tip \in Nat /\ mark \in Nat /\ mark <= tip
  /\ block \in [Txs -> Nat]
  /\ what \in [Txs -> Transaction \union {None}]
  /\ \A x \in Txs : block[x] <= tip /\ (block[x] # 0 => what[x] # None)

\* A caller's copy is of the intent it checks, and it only posts, settles or
\* gives up on what the chain will not take back.
Booked(i, x) == \E k \in PostsOf(i) : TxOfNote(books[k].entry.note) = x
CheckInv(c) ==
  LET here == check[c]
      x == copy[c].it.tx
  IN  /\ here \in Place
      /\ here.pc \in Looking \union {"get"} => here.intent \in Intents
      /\ here.pc \in Looking => /\ copy[c] # None
                                /\ copy[c].id = here.intent
                                /\ copy[c].it.state = "confirming"
      /\ here.pc \in {"post", "settled"} => what[x] # None
      /\ here.pc = "settled" => Booked(here.intent, x)
      /\ Rule.marker => /\ here.pc \in {"post", "settled"} => Paid(x)
                        /\ here.pc = "needs_review" => Final(x) /\ ~Paid(x)

\* A run is in Check while it waits for it; the window it compares is final,
\* and what it does not have before it any more it has written down.
RunSound(r, top, seen, inside) ==
  /\ RunTyped(r)
  /\ r.pc \in {"swept", "check"} <=> inside
  /\ r.pc \in {"sweep", "swept"} => r.todo \subseteq Intents \X I!States
  /\ r.pc \in Weighing => r.x # None
  /\ r.x # None => what[r.x].ref \in Intents /\ Final(r.x)
  /\ top \in Nat /\ top <= mark
  /\ \A x \in Transfers(1, top) : seen[x] # "unseen"
  /\ r.pc \in Weighing \union {"compare"} =>
       /\ r.to <= mark
       /\ r.todo \subseteq Transfers(1, r.to)
       /\ \A x \in Transfers(1, r.to) \ r.todo : seen[x] # "unseen"
RunInv(e) == RunSound(eng[e], cursor[e], verdicts[e], check[e].pc # "idle")

\* A post is that of a step to confirming of the saved history, whoever
\* computed it.
ThePost(i, e) ==
  \E n \in DOMAIN store[i].history :
    LET t == store[i].history[n]
    IN  /\ t.to = "confirming" /\ t.tx \in Txs /\ what[t.tx] # None
        /\ e = PostEntry(i, [version |-> n + 1, tx |-> t.tx])
        /\ Rule.marker => Paid(t.tx)

BooksInv ==
  /\ \E S : books \in Seq(S)
  /\ \A k \in DOMAIN books : books[k].entry \in J!Entry
  /\ \A i \in Intents :
       /\ \A k \in J!RowsOf(<<i, "hold">>) :
            LET e == books[k].entry
            IN  e.kind = "hold" /\ e.ref = i /\ e.asset = "asset"
       /\ \A k \in PostsOf(i) : ThePost(i, books[k].entry)
       /\ <<i, "hold">> \in resolved => PostsOf(i) # {}

\* What the listener decided about a payment it decided for good.
Decided(i) ==
  LET h == store[i].history
  IN  h[Len(h)].by = "listener" =>
        /\ store[i].state \in {"settled", "needs_review"} => store[i].tx \in Txs
        /\ store[i].state = "settled" =>
             Paid(store[i].tx) /\ Booked(i, store[i].tx)
        /\ store[i].state = "needs_review" =>
             Final(store[i].tx) /\ ~Paid(store[i].tx)

\* The stores of intents and of sends in progress.
StoreInv ==
  /\ IP!IntentInv /\ IP!CopiesBegin
  /\ \A i \in Intents : store[i] # None
  /\ \A i \in Intents : work[i] # None => work[i].tx \in Txs

\* The functions have their domains.
Domains ==
  /\ DOMAIN check = Callers /\ DOMAIN work = Intents
  /\ DOMAIN eng = Engines /\ DOMAIN cursor = Engines
  /\ DOMAIN verdicts = Engines
  /\ \A e \in Engines : DOMAIN verdicts[e] = Txs

ReconInv ==
  /\ Domains /\ ChainInv /\ StoreInv /\ BooksInv
  /\ \A c \in Callers : CheckInv(c)
  /\ \A e \in Engines : RunInv(e)
  /\ Rule.marker => \A i \in Intents : Decided(i)
-----------------------------------------------------------------------------
\* The transaction of a note is the one it was computed from.
LEMMA RestOfSum ==
  ASSUME NEW b \in Nat, b > 0, NEW v \in Nat, NEW x \in Nat, x < b
  PROVE  v * b + x \in Nat /\ (v * b + x) % b = x
OBVIOUS

LEMMA NoteNamesItsTx ==
  ASSUME NEW v \in Nat, NEW x \in Txs
  PROVE  Note(v, x) \in Nat /\ TxOfNote(Note(v, x)) = x
<1>1. PICK b \in Nat : b = NumTxs + 1 /\ b > 0 /\ x \in Nat /\ x < b
  BY ListenerAssumption DEF Txs
<1>2. v * b + x \in Nat /\ (v * b + x) % b = x
  BY <1>1, RestOfSum
<1>3. QED
  BY <1>1, <1>2 DEF Note, TxOfNote
-----------------------------------------------------------------------------
\* Nothing that was sent or became final changes.
Later ==
  /\ mark <= mark'
  /\ \A x \in Txs : what[x] # None => what'[x] = what[x]
  /\ \A x \in Txs : block[x] \in 1 .. mark =>
       block'[x] = block[x] /\ (x \in reverted' <=> x \in reverted)
  /\ \A x \in Txs : block'[x] \in 1 .. mark => block'[x] = block[x]

LEMMA BroadcastIsLater ==
  ASSUME ChainInv, NEW x \in Txs, NEW ref, NEW effect \in Effects,
         NEW own \in BOOLEAN, ref \in Intents \union {s.ref : s \in Strange},
         Broadcast(x, ref, effect, own)
  PROVE  ChainInv' /\ Later
<1>1. PICK t \in Transaction : t = [ref |-> ref, effect |-> effect, own |-> own]
  BY DEF Transaction
<1>2. what' = [what EXCEPT ![x] = t] /\ UNCHANGED <<tip, mark, block, reverted>>
  BY <1>1 DEF Broadcast
<1>3. what[x] = None
  BY ListenerAssumption DEF Broadcast, Txs
<1>4. QED
  BY <1>2, <1>3, NoneIsNoTransaction DEF ChainInv, Later

LEMMA OnChainIsLater ==
  ASSUME ChainInv, OnChain
  PROVE  ChainInv' /\ Later
<1>1. CASE Reorg
  <2>1. /\ tip' = tip - 1 /\ tip > mark
        /\ block' = [x \in Txs |-> IF block[x] = tip THEN 0 ELSE block[x]]
        /\ reverted' = {x \in reverted : block[x] # tip}
        /\ UNCHANGED <<mark, what>>
    BY <1>1 DEF Reorg
  <2>2. QED
    BY <2>1 DEF ChainInv, Later
<1>2. CASE Finalize
  BY <1>2 DEF Finalize, ChainInv, Later
<1>3. ASSUME NEW x \in Txs, Include(x)
      PROVE  ChainInv' /\ Later
  <2>1. /\ what[x] # None /\ block[x] = 0 /\ tip' = tip + 1
        /\ block' = [block EXCEPT ![x] = tip + 1]
        /\ reverted' \in {reverted, reverted \union {x}}
        /\ UNCHANGED <<mark, what>>
    BY <1>3 DEF Include
  <2>2. QED
    BY <2>1 DEF ChainInv, Later
<1>4. QED
  BY <1>1, <1>2, <1>3 DEF OnChain

\* Every step: what is final stays, and what was sent stays what it is.
LEMMA ChainStep ==
  ASSUME ChainInv, [Next]_vars
  PROVE  ChainInv' /\ Later
<1>1. CASE UNCHANGED chainVars
  BY <1>1 DEF chainVars, ChainInv, Later
<1>2. ASSUME NEW i \in Intents, Send(i)
      PROVE  ChainInv' /\ Later
  <2>1. PICK x \in Txs, f \in Sends : Broadcast(x, i, f, TRUE)
    BY <1>2 DEF Send
  <2>2. QED
    BY <2>1, ReconAssumption, BroadcastIsLater
<1>3. ASSUME NEW x \in Txs, Foreign(x)
      PROVE  ChainInv' /\ Later
  <2>1. PICK s \in Strange : Broadcast(x, s.ref, s.effect, FALSE)
    BY <1>3 DEF Foreign
  <2>2. s.effect \in Effects
    BY ReconAssumption
  <2>3. QED
    BY <2>1, <2>2, BroadcastIsLater
<1>4. CASE OnChain
  BY <1>4, OnChainIsLater
<1>5. ASSUME NEW i \in Intents,
             Claim(i) \/ Confirm(i) \/ Suspend(i) \/ Ack(i) \/ Redrive(i) \/ Operate(i)
      PROVE  UNCHANGED chainVars
  BY <1>5 DEF Claim, Confirm, Suspend, Ack, Redrive, Operate
<1>6. ASSUME NEW c \in Callers, CheckStep(c)
      PROVE  UNCHANGED chainVars
  BY <1>6 DEF CheckStep, Get, Look, Post, Push
<1>7. ASSUME NEW e \in Engines, Run(e) \/ Stop(e)
      PROVE  UNCHANGED chainVars
  BY <1>6, <1>7, ReconAssumption
     DEF Run, Stop, Start, Sweep, Enqueue, Swept, Window, Compare, ReadAgain,
         SaveEvidence, Checked, Finish, CheckInRun
<1>8. ASSUME NEW c \in Callers, CheckAlone(c)
      PROVE  UNCHANGED chainVars
  BY <1>6, <1>8 DEF CheckAlone, CheckInRun
<1>9. QED
  BY <1>1, <1>2, <1>3, <1>4, <1>5, <1>7, <1>8 DEF Next, vars, chainVars

\* Final transactions stay final, with what came of them.
LEMMA FinalStays ==
  ASSUME ChainInv, ChainInv', Later, NEW x \in Txs, Final(x)
  PROVE  Final(x)' /\ (Paid(x)' <=> Paid(x)) /\ (Moved(x)' <=> Moved(x))
<1>1. /\ block[x] \in 1 .. mark /\ block'[x] = block[x]
      /\ x \in reverted' <=> x \in reverted
      /\ mark \in Nat /\ mark' \in Nat /\ mark' >= mark /\ block[x] # 0
  BY DEF Later, Final, ChainInv
<1>2. what'[x] = what[x]
  BY <1>1 DEF ChainInv, Later
<1>3. Final(x)'
  BY <1>1 DEF Final
<1>4. QED
  BY <1>1, <1>2, <1>3 DEF Paid, Moved

\* The transfers of final blocks stay the same.
LEMMA TransfersStay ==
  ASSUME ChainInv, ChainInv', Later, NEW n \in Nat, n <= mark
  PROVE  /\ Transfers(1, n)' = Transfers(1, n)
         /\ \A x \in Transfers(1, n) : x \in Txs /\ Final(x)
<1>1. \A x \in Txs : block[x] \in 1 .. n => Final(x)
  BY DEF Final, ChainInv
<1>2. \A x \in Txs : block'[x] \in 1 .. n <=> block[x] \in 1 .. n
  BY DEF Later, ChainInv
<1>3. \A x \in Txs : block[x] \in 1 .. n => (Moved(x)' <=> Moved(x))
  BY <1>1, FinalStays
<1>4. QED
  BY <1>1, <1>2, <1>3 DEF Transfers
-----------------------------------------------------------------------------
LEMMA NoneIsNone ==
  /\ None \notin Txs /\ None \notin IP!IntentRecord
  /\ None \notin IP!Copy
  /\ IP!IntentAssumption /\ IP!NoneIsNoIntent
<1>1. None \notin Txs
  BY NoneIsNothing, ListenerAssumption DEF Txs
<1>2. None \notin IP!IntentRecord
  BY NoneIsNothing DEF I!IntentRecord, IP!IntentRecord, I!States, IP!States,
     I!Terminals, IP!Terminals, I!Transition, IP!Transition, I!Actors, IP!Actors
<1>3. None \notin IP!Copy
  BY NoneIsNothing DEF I!Copy, IP!Copy, I!IntentRecord, IP!IntentRecord, I!States,
     IP!States, I!Terminals, IP!Terminals, I!Transition, IP!Transition, I!Actors,
     IP!Actors
<1>4. QED
  BY <1>1, <1>2, <1>3, ListenerAssumption DEF IP!IntentAssumption, IP!NoneIsNoIntent

\* What is asked of the store is a request.
LEMMA ClaimsAsk ==
  /\ ByRelayer("settling", None) \in IP!Requests
  /\ ByRelayer("needs_review", None) \in IP!Requests
  /\ ByOperator("failed", None) \in IP!Requests
<1>1. {"settling", "needs_review", "failed"} \subseteq IP!States
  BY DEF IP!States, IP!Terminals
<1>2. {"relayer", "operator"} \subseteq IP!Actors
  BY DEF IP!Actors
<1>3. QED
  BY <1>1, <1>2 DEF IP!Requests, ByRelayer, ByOperator

LEMMA OthersAsk ==
  ASSUME NEW x \in Txs
  PROVE  /\ ByRelayer("confirming", x) \in IP!Requests
         /\ ByOperator("settled", x) \in IP!Requests
<1>1. {"confirming", "settled"} \subseteq IP!States
  BY DEF IP!States, IP!Terminals
<1>2. {"relayer", "operator"} \subseteq IP!Actors
  BY DEF IP!Actors
<1>3. QED
  BY <1>1, <1>2 DEF IP!Requests, ByRelayer, ByOperator

LEMMA AsksIsARequest ==
  ASSUME ReconInv, NEW c \in Callers, At(c, Exits)
  PROVE  /\ Asks(c) \in IP!Requests
         /\ Asks(c).to = check[c].pc /\ Asks(c).by = "listener"
<1>1. copy[c] # None /\ copy[c] \in IP!Copy
  BY DEF ReconInv, CheckInv, At, Looking, StoreInv, IP!IntentInv
<1>2. copy[c].it.tx \in Txs \union {None}
  BY <1>1 DEF IP!Copy, IP!IntentRecord
<1>3. check[c].pc \in {"settling", "needs_review", "settled"}
  BY DEF At, Exits
<1>4. check[c].pc \in IP!States /\ "listener" \in IP!Actors
  BY <1>3 DEF IP!States, IP!Terminals, IP!Actors
<1>5. QED
  BY <1>2, <1>3, <1>4 DEF Asks, IP!Requests

LEMMA EvidenceIsARequest ==
  ASSUME ReconInv, NEW e \in Engines, eng[e].pc \in {"save-back", "save-confirm"}
  PROVE  /\ Evidence(e) \in IP!Requests /\ Evidence(e).by = "listener"
         /\ Evidence(e).to \in {"settling", "confirming"}
<1>1. eng[e].x \in Txs
  BY DEF ReconInv, RunInv, RunSound, RunTyped, Weighing
<1>2. {"settling", "confirming"} \subseteq IP!States /\ "listener" \in IP!Actors
  BY DEF IP!States, IP!Terminals, IP!Actors
<1>3. QED
  BY <1>1, <1>2 DEF Evidence, Is, IP!Requests

\* What a step may do to the store and the copies.  Only the exits of Check
\* settle or send to review in the listener's name.
Moves == \E i \in Intents, req \in IP!Requests :
           IP!AdvanceNow(i, req) /\ req.by # "listener"
Gets == \E c \in Callers, i \in Intents : IP!Read(c, i)
Saves == \E c \in Callers, req \in IP!Requests :
           /\ IP!Advance(c, req) \/ IP!Conflict(c, req)
           /\ req.to \in {"settled", "needs_review"} =>
                At(c, Exits) /\ req = Asks(c)
Forgets == \E c \in Callers : store' = store /\ copy' = [copy EXCEPT ![c] = None]

LEMMA SameAdvance ==
  ASSUME NEW req
  PROVE  /\ \A i \in Intents : I!AdvanceNow(i, req) => IP!AdvanceNow(i, req)
         /\ \A c \in Callers : /\ I!Advance(c, req) => IP!Advance(c, req)
                               /\ I!Conflict(c, req) => IP!Conflict(c, req)
BY DEF I!Advance, IP!Advance, I!Conflict, IP!Conflict, I!AdvanceNow,
   IP!AdvanceNow, I!Accepts, IP!Accepts, I!Current, IP!Current,
   I!Rules, IP!Rules, I!Row, IP!Row, I!Guard, IP!Guard, I!Evidence,
   IP!Evidence, I!Terminals, IP!Terminals, I!Applied, IP!Applied,
   I!TxAfter, IP!TxAfter

LEMMA CheckUsesTheStore ==
  ASSUME ReconInv, NEW c \in Callers, CheckStep(c)
  PROVE  Gets \/ Saves \/ UNCHANGED intentVars
<1>1. CASE Get(c)
  <2>1. check[c].intent \in Intents
    BY <1>1 DEF Get, At, ReconInv, CheckInv
  <2>2. I!Read(c, check[c].intent) \/ UNCHANGED intentVars
    BY <1>1 DEF Get
  <2>3. QED
    BY <2>1, <2>2 DEF I!Read, IP!Read, Gets
<1>2. CASE Look(c) \/ Post(c)
  BY <1>2 DEF Look, Post
<1>3. CASE Push(c)
  <2>1. At(c, Exits) /\ (I!Advance(c, Asks(c)) \/ I!Conflict(c, Asks(c)))
    BY <1>3 DEF Push
  <2>2. IP!Advance(c, Asks(c)) \/ IP!Conflict(c, Asks(c))
    BY <2>1, SameAdvance
  <2>3. Asks(c) \in IP!Requests
    BY <2>1, AsksIsARequest
  <2>4. QED
    BY <2>1, <2>2, <2>3 DEF Saves
<1>4. QED
  BY <1>1, <1>2, <1>3 DEF CheckStep

LEMMA RunUsesTheStore ==
  ASSUME ReconInv, NEW e \in Engines, Run(e) \/ Stop(e)
  PROVE  Gets \/ Saves \/ Forgets \/ UNCHANGED intentVars
<1>e. e \in Callers
  BY ReconAssumption
<1>1. CASE CheckInRun(e)
  BY <1>1, <1>e, CheckUsesTheStore DEF CheckInRun
<1>2. CASE Swept(e) \/ Checked(e) \/ Stop(e)
  BY <1>2, <1>e DEF Swept, Checked, Stop, Forgets
<1>3. CASE ReadAgain(e)
  <2>1. eng[e].pc \in Weighing /\ I!Read(e, what[eng[e].x].ref)
    BY <1>3 DEF ReadAgain, Weighing
  <2>2. what[eng[e].x].ref \in Intents
    BY <2>1 DEF ReconInv, RunInv, RunSound
  <2>3. QED
    BY <1>e, <2>1, <2>2 DEF I!Read, IP!Read, Gets
<1>4. CASE SaveEvidence(e)
  <2>1. PICK req : req = Evidence(e)
    OBVIOUS
  <2>2. I!Advance(e, req) \/ I!Conflict(e, req) \/ UNCHANGED intentVars
    BY <1>4, <2>1 DEF SaveEvidence, intentVars
  <2>3. IP!Advance(e, req) \/ IP!Conflict(e, req) \/ UNCHANGED intentVars
    BY <1>e, <2>2, SameAdvance
  <2>4. req \in IP!Requests /\ req.to \notin {"settled", "needs_review"}
    BY <1>4, <2>1, EvidenceIsARequest DEF SaveEvidence
  <2>5. QED
    BY <1>e, <2>3, <2>4 DEF Saves
<1>5. CASE Start(e) \/ Sweep(e) \/ Enqueue(e) \/ Window(e) \/ Compare(e) \/ Finish(e)
  BY <1>5 DEF Start, Sweep, Enqueue, Window, Compare, Finish
<1>6. QED
  BY <1>1, <1>2, <1>3, <1>4, <1>5 DEF Run

LEMMA OthersUseTheStore ==
  ASSUME ReconInv, NEW i \in Intents,
         Claim(i) \/ Send(i) \/ Confirm(i) \/ Suspend(i) \/ Ack(i) \/ Redrive(i) \/ Operate(i)
  PROVE  Moves \/ UNCHANGED intentVars
<1>a. ASSUME NEW req \in IP!Requests, I!AdvanceNow(i, req), req.by # "listener"
      PROVE  Moves
  BY <1>a, SameAdvance DEF Moves
<1>r. /\ \A to, x : ByRelayer(to, x).by # "listener"
      /\ \A to, x : ByOperator(to, x).by # "listener"
  BY DEF ByRelayer, ByOperator
<1>1. CASE Claim(i)
  BY <1>1, <1>a, <1>r, ClaimsAsk DEF Claim
<1>2. CASE Suspend(i)
  BY <1>2, <1>a, <1>r, ClaimsAsk DEF Suspend
<1>3. CASE Confirm(i)
  <2>1. work[i].tx \in Txs
    BY <1>3 DEF Confirm, ReconInv, StoreInv
  <2>2. QED
    BY <1>3, <2>1, <1>a, <1>r, OthersAsk DEF Confirm
<1>4. CASE Operate(i)
  BY <1>4, <1>a, <1>r, OthersAsk, ClaimsAsk DEF Operate
<1>5. CASE Send(i) \/ Ack(i) \/ Redrive(i)
  BY <1>5 DEF Send, Ack, Redrive
<1>6. QED
  BY <1>1, <1>2, <1>3, <1>4, <1>5

\* Every step uses the intent store as its module allows.
LEMMA StepUsesTheStore ==
  ASSUME ReconInv, [Next]_vars
  PROVE  Moves \/ Gets \/ Saves \/ Forgets \/ UNCHANGED intentVars
<1>1. ASSUME NEW x \in Txs, Foreign(x)
      PROVE  UNCHANGED intentVars
  BY <1>1 DEF Foreign
<1>2. ASSUME NEW c \in Callers \ Engines, CheckAlone(c)
      PROVE  Gets \/ Saves \/ Forgets \/ UNCHANGED intentVars
  BY <1>2, CheckUsesTheStore DEF CheckAlone, CheckInRun, Forgets
<1>3. QED
  BY <1>1, <1>2, RunUsesTheStore, OthersUseTheStore
     DEF Next, OnChain, vars, intentVars

LEMMA StepIsAnIntentStep ==
  ASSUME ReconInv, [Next]_vars
  PROVE  [IP!Next]_IP!intentVars
<1>1. CASE Moves
  BY <1>1 DEF Moves, IP!Next
<1>2. CASE Gets
  BY <1>2 DEF Gets, IP!Next
<1>3. CASE Saves
  BY <1>3 DEF Saves, IP!Next
<1>4. CASE Forgets
  <2>1. PICK c \in Callers : store' = store /\ copy' = [copy EXCEPT ![c] = None]
    BY <1>4 DEF Forgets
  <2>2. CASE copy[c] # None
    BY <2>1, <2>2 DEF IP!Forget, IP!Next
  <2>3. CASE copy[c] = None
    BY <2>1, <2>3 DEF IP!intentVars, ReconInv, StoreInv, IP!IntentInv
  <2>4. QED
    BY <2>2, <2>3
<1>5. QED
  BY <1>1, <1>2, <1>3, <1>4, StepUsesTheStore DEF intentVars, IP!intentVars

LEMMA StoreStep ==
  ASSUME ReconInv, [Next]_vars
  PROVE  StoreInv'
<1>1. IP!IntentInv /\ IP!CopiesBegin /\ [IP!Next]_IP!intentVars
  BY StepIsAnIntentStep DEF ReconInv, StoreInv
<1>2. IP!IntentInv'
  BY <1>1, NoneIsNone, IP!IntentInvInductive
<1>3. IP!CopiesBegin'
  BY <1>1, NoneIsNone, IP!CopiesBeginInductive
<1>4. \A i \in Intents : store'[i] # None
  BY <1>1, NoneIsNone, IP!SavesExtend DEF ReconInv, StoreInv
<1>5. \A i \in Intents : work'[i] # None => work'[i].tx \in Txs
  <2>1. CASE work' = work
    BY <2>1 DEF ReconInv, StoreInv
  <2>2. ASSUME NEW i \in Intents, Send(i)
        PROVE  \A j \in Intents : work'[j] # None => work'[j].tx \in Txs
    BY <2>2 DEF Send, ReconInv, StoreInv, Domains
  <2>3. ASSUME NEW i \in Intents, Confirm(i)
        PROVE  \A j \in Intents : work'[j] # None => work'[j].tx \in Txs
    BY <2>3 DEF Confirm, ReconInv, StoreInv, Domains
  <2>4. ASSUME NEW e \in Engines, Run(e) \/ Stop(e)
        PROVE  work' = work
    BY <2>4 DEF Run, Stop, Start, Sweep, Enqueue, Swept, Window, Compare, ReadAgain,
       SaveEvidence, Checked, Finish, CheckInRun, sideVars
  <2>5. ASSUME NEW c \in Callers, CheckAlone(c)
        PROVE  work' = work
    BY <2>5 DEF CheckAlone, CheckInRun, sideVars
  <2>6. ASSUME NEW i \in Intents, Claim(i) \/ Suspend(i) \/ Ack(i) \/ Redrive(i) \/ Operate(i)
        PROVE  work' = work
    BY <2>6 DEF Claim, Suspend, Ack, Redrive, Operate, sideVars
  <2>7. QED
    BY <2>1, <2>2, <2>3, <2>4, <2>5, <2>6
       DEF Next, Foreign, OnChain, vars, sideVars
<1>6. QED
  BY <1>2, <1>3, <1>4, <1>5 DEF StoreInv

LEMMA DomainsStep ==
  ASSUME Domains, [Next]_vars
  PROVE  Domains'
<1>1. ASSUME NEW i \in Intents, Claim(i) \/ Send(i) \/ Confirm(i) \/ Suspend(i)
                                \/ Ack(i) \/ Redrive(i) \/ Operate(i)
      PROVE  Domains'
  BY <1>1 DEF Claim, Send, Confirm, Suspend, Ack, Redrive, Operate, sideVars, runVars, Domains
<1>c. ASSUME NEW c \in Callers, CheckStep(c)
      PROVE  DOMAIN check' = DOMAIN check
  BY <1>c DEF CheckStep, Get, Look, Post, Push, Goto, Return
<1>2. ASSUME NEW e \in Engines, CheckInRun(e)
      PROVE  Domains'
  BY <1>2, <1>c, ReconAssumption DEF CheckInRun, sideVars, runVars, Domains
<1>3. ASSUME NEW e \in Engines, Start(e) \/ Sweep(e) \/ Enqueue(e) \/ Swept(e)
                                \/ Window(e) \/ Finish(e)
      PROVE  Domains'
  BY <1>3 DEF Start, Sweep, Enqueue, Swept, Window, Finish, Step, Enter, sideVars,
         runVars, Domains
<1>4. ASSUME NEW e \in Engines, Compare(e) \/ ReadAgain(e) \/ Checked(e)
      PROVE  Domains'
  BY <1>4 DEF Compare, ReadAgain, Checked, Lost, Proceed, Step, Enter, Writes,
         sideVars, Domains
<1>5. ASSUME NEW e \in Engines, SaveEvidence(e)
      PROVE  Domains'
  BY <1>5 DEF SaveEvidence, Pushed, Lost, Proceed, Step, Enter, Writes,
         sideVars, Domains
<1>6. ASSUME NEW e \in Engines, Stop(e)
      PROVE  Domains'
  BY <1>6 DEF Stop, Step, Unseen, sideVars, Domains
<1>7. ASSUME NEW c \in Callers, CheckAlone(c)
      PROVE  Domains'
  BY <1>7, <1>c DEF CheckAlone, CheckInRun, Enter, sideVars, runVars, Domains
<1>8. QED
  BY <1>1, <1>2, <1>3, <1>4, <1>5, <1>6, <1>7
     DEF Next, Run, Foreign, OnChain, vars, sideVars, runVars, Domains
-----------------------------------------------------------------------------
\* A row more: the other rows stay, and so do their ids.
LEMMA RowAdded ==
  ASSUME \E T : books \in Seq(T), NEW e, J!Append1(e)
  PROVE  /\ \E T : books' \in Seq(T)
         /\ \A k \in DOMAIN books : k \in DOMAIN books' /\ books'[k] = books[k]
         /\ \A k \in DOMAIN books' : \/ books'[k].entry = e
                                     \/ k \in DOMAIN books /\ books'[k] = books[k]
         /\ \E k \in DOMAIN books' : books'[k].entry = e
         /\ resolved' = resolved \union (IF e.kind = "hold" THEN {} ELSE {e.holds})
<1>1. PICK row : row = J!JournalRow(e)
  OBVIOUS
<1>2. /\ books' = Append(books, row) /\ row.entry = e
      /\ resolved' = resolved \union (IF e.kind = "hold" THEN {} ELSE {e.holds})
  BY <1>1 DEF J!Append1, J!JournalRow, J!RowOf
<1>3. PICK T : books \in Seq(T)
  OBVIOUS
<1>4. books \in Seq(T \union {row}) /\ row \in T \union {row}
  BY <1>3
<1>5. PICK n \in Nat : n = Len(books)
  BY <1>3, LenProperties
<1>6. /\ books' \in Seq(T \union {row})
      /\ DOMAIN books = 1 .. n /\ DOMAIN books' = 1 .. n + 1
      /\ books'[n + 1] = row
      /\ \A k \in 1 .. n : books'[k] = books[k]
  BY <1>2, <1>4, <1>5, AppendProperties, LenProperties
<1>7. QED
  BY <1>2, <1>6

\* The entries callers write, field by field.
LEMMA HoldFields ==
  ASSUME NEW i \in Intents, NEW it, it.version \in Nat
  PROVE  LET e == HoldEntry(i, it)
         IN  /\ e \in J!Entry /\ e.id = <<i, "hold">> /\ e.kind = "hold"
             /\ e.ref = i /\ e.asset = "asset"
<1>1. Note(it.version, 0) \in Nat
  BY ListenerAssumption, RestOfSum DEF Note
<1>2. Legs(Asked) \in [{"payer", "merchant"} -> Int]
  BY DEF Legs, Asked
<1>3. QED
  BY <1>1, <1>2 DEF HoldEntry, J!Entry

LEMMA PostFields ==
  ASSUME NEW i \in Intents, NEW it, it.version \in Nat, it.tx \in Txs
  PROVE  LET e == PostEntry(i, it)
         IN  /\ e \in J!Entry /\ e.id = <<i, "post">> /\ e.kind = "post"
             /\ e.holds = <<i, "hold">> /\ e.ref = i /\ e.asset = "asset"
             /\ e.legs = Legs(Amount(it.tx))
             /\ TxOfNote(e.note) = it.tx
<1>1. Note(it.version, it.tx) \in Nat /\ TxOfNote(Note(it.version, it.tx)) = it.tx
  BY NoteNamesItsTx
<1>2. Legs(Amount(it.tx)) \in [{"payer", "merchant"} -> Int]
  BY DEF Legs, Amount, Asked
<1>3. QED
  BY <1>1, <1>2 DEF PostEntry, J!Entry

\* What a caller inside Check has read: the step to confirming that the saved
\* history still has.
LEMMA WhatCheckRead ==
  ASSUME ReconInv, NEW c \in Callers, check[c].pc \in Looking
  PROVE  \E i \in Intents, n \in Nat :
           LET it == copy[c].it
               h == store[i].history
           IN  /\ i = check[c].intent /\ i = copy[c].id
               /\ n \in DOMAIN h /\ n \in DOMAIN it.history
               /\ it.version = n + 1 /\ it.tx \in Txs
               /\ it.history[n].to = "confirming"
               /\ h[n] = it.history[n] /\ h[n].tx = it.tx
<1>1. PICK i \in Intents : i = check[c].intent
  BY DEF ReconInv, CheckInv
<1>2. PICK it : it = copy[c].it
  OBVIOUS
<1>3. /\ copy[c] # None /\ copy[c].id = i /\ it.state = "confirming"
      /\ IP!Sound(it)
      /\ IP!Begins(it.history, store[i].history)
  BY <1>1, <1>2 DEF ReconInv, CheckInv, StoreInv, IP!CopiesBegin, IP!IntentInv
<1>4. /\ it.tx \in Txs /\ IP!Walk(it)
      /\ it.history[Len(it.history)].tx = it.tx
      /\ it.history \in Seq(IP!Transition)
  BY <1>3, NoneIsNone DEF IP!Sound, IP!WellFormed, IP!IntentRecord
<1>5. PICK n \in Nat : n = Len(it.history) /\ DOMAIN it.history = 1 .. n
  BY <1>4, LenProperties
<1>6. n # 0 /\ it.version = n + 1 /\ it.history[n].to = "confirming"
  BY <1>3, <1>4, <1>5 DEF IP!Walk, IP!Reached
<1>7. n \in DOMAIN it.history
  BY <1>5, <1>6
<1>8. QED
  BY <1>1, <1>2, <1>3, <1>4, <1>5, <1>6, <1>7 DEF IP!Begins
-----------------------------------------------------------------------------
\* What a step may do to the books: nothing, a hold of a claim, or a post of a
\* caller that looked.
HoldAdded == \E i \in Intents : J!Append1(HoldEntry(i, store'[i]))
PostAdded == \E c \in Callers : At(c, {"post"}) /\ store' = store
                /\ J!Append1(PostEntry(check[c].intent, copy[c].it))
RowsStay ==
  \A k \in DOMAIN books : k \in DOMAIN books' /\ books'[k] = books[k]

LEMMA StepUsesTheBooks ==
  ASSUME [Next]_vars
  PROVE  UNCHANGED bookVars \/ HoldAdded \/ PostAdded
<1>1. ASSUME NEW i \in Intents, Claim(i) \/ Send(i) \/ Confirm(i) \/ Suspend(i)
                                \/ Ack(i) \/ Redrive(i) \/ Operate(i)
      PROVE  UNCHANGED bookVars \/ HoldAdded
  BY <1>1 DEF Claim, Send, Confirm, Suspend, Ack, Redrive, Operate, bookVars, HoldAdded
<1>2. ASSUME NEW c \in Callers, CheckStep(c)
      PROVE  UNCHANGED bookVars \/ PostAdded
  <2>1. CASE Get(c) \/ Look(c) \/ Push(c)
    BY <2>1 DEF Get, Look, Push
  <2>2. CASE Post(c)
    BY <2>2 DEF Post, PostAdded, intentVars
  <2>3. QED
    BY <1>2, <2>1, <2>2 DEF CheckStep
<1>3. ASSUME NEW e \in Engines, Run(e) \/ Stop(e)
      PROVE  UNCHANGED bookVars \/ PostAdded
  BY <1>2, <1>3, ReconAssumption
     DEF Run, Stop, Start, Sweep, Enqueue, Swept, Window, Compare, ReadAgain,
         SaveEvidence, Checked, Finish, CheckInRun
<1>4. ASSUME NEW c \in Callers, CheckAlone(c)
      PROVE  UNCHANGED bookVars \/ PostAdded
  BY <1>2, <1>4 DEF CheckAlone, CheckInRun
<1>5. QED
  BY <1>1, <1>3, <1>4 DEF Next, Foreign, OnChain, vars, bookVars

\* A post stays the post of a step of the history.
LEMMA ThePostStays ==
  ASSUME ReconInv, [Next]_vars, NEW i \in Intents, NEW e, ThePost(i, e)
  PROVE  ThePost(i, e)'
<1>1. ChainInv /\ ChainInv' /\ Later
  BY ChainStep DEF ReconInv
<1>2. PICK n \in DOMAIN store[i].history :
        LET t == store[i].history[n]
        IN  /\ t.to = "confirming" /\ t.tx \in Txs /\ what[t.tx] # None
            /\ e = PostEntry(i, [version |-> n + 1, tx |-> t.tx])
            /\ Rule.marker => Paid(t.tx)
  BY DEF ThePost
<1>3. PICK t : t = store[i].history[n]
  OBVIOUS
<1>4. n \in DOMAIN store'[i].history /\ store'[i].history[n] = t
  <2>1. IP!Begins(store[i].history, store'[i].history)
    BY NoneIsNone, StepIsAnIntentStep, IP!SavesExtend DEF ReconInv, StoreInv
  <2>2. QED
    BY <1>2, <1>3, <2>1 DEF IP!Begins
<1>5. /\ t.to = "confirming" /\ t.tx \in Txs /\ what'[t.tx] = what[t.tx]
      /\ what'[t.tx] # None
  BY <1>1, <1>2, <1>3 DEF Later
<1>6. PICK r : r = [version |-> n + 1, tx |-> t.tx]
  OBVIOUS
<1>7. e = PostEntry(i, r) /\ PostEntry(i, r)' = PostEntry(i, r)
  BY <1>2, <1>3, <1>5, <1>6 DEF PostEntry, Amount
<1>8. Rule.marker => Paid(t.tx)'
  BY <1>1, <1>2, <1>3, <1>5, FinalStays DEF Paid
<1>9. QED
  BY <1>4, <1>5, <1>6, <1>7, <1>8 DEF ThePost

LEMMA BooksStep ==
  ASSUME ReconInv, [Next]_vars
  PROVE  BooksInv' /\ RowsStay
<1>b. BooksInv
  BY DEF ReconInv
<1>o. ASSUME NEW i \in Intents, NEW k \in DOMAIN books,
             books[k].entry.id = <<i, "post">>, books'[k] = books[k]
      PROVE  ThePost(i, books[k].entry)'
  <2>1. PICK e : e = books[k].entry
    OBVIOUS
  <2>2. ThePost(i, e)
    BY <1>b, <1>o, <2>1 DEF BooksInv, PostsOf
  <2>3. ThePost(i, e)'
    BY <2>2, ThePostStays
  <2>4. e = books'[k].entry
    BY <1>o, <2>1
  <2>5. QED
    BY <2>3, <2>4 DEF ThePost
<1>1. CASE UNCHANGED bookVars
  BY <1>1, <1>b, <1>o DEF BooksInv, RowsStay, bookVars, J!RowsOf, PostsOf
<1>2. ASSUME NEW e \in J!Entry, NEW i \in Intents, J!Append1(e),
             e.id = <<i, "hold">> => /\ e.kind = "hold" /\ e.ref = i
                                     /\ e.asset = "asset",
             e.id \in {<<i, "hold">>, <<i, "post">>},
             e.id = <<i, "post">> => ThePost(i, e)' /\ e.holds = <<i, "hold">>,
             e.kind # "hold" => e.id = <<i, "post">>
      PROVE  BooksInv' /\ RowsStay
  <2>1. /\ \E T : books' \in Seq(T)
        /\ \A k \in DOMAIN books : k \in DOMAIN books' /\ books'[k] = books[k]
        /\ \A k \in DOMAIN books' : \/ books'[k].entry = e
                                    \/ k \in DOMAIN books /\ books'[k] = books[k]
        /\ \E k \in DOMAIN books' : books'[k].entry = e
        /\ resolved' = resolved \union (IF e.kind = "hold" THEN {} ELSE {e.holds})
    BY <1>2, <1>b, RowAdded DEF BooksInv
  <2>2. \A k \in DOMAIN books' : books'[k].entry \in J!Entry
    BY <1>b, <2>1 DEF BooksInv
  <2>3. ASSUME NEW j \in Intents, NEW k \in J!RowsOf(<<j, "hold">>)'
        PROVE  LET f == books'[k].entry
               IN  f.kind = "hold" /\ f.ref = j /\ f.asset = "asset"
    <3>1. CASE books'[k].entry = e
      BY <1>2, <2>3, <3>1 DEF J!RowsOf
    <3>2. CASE k \in DOMAIN books /\ books'[k] = books[k]
      <4>1. k \in J!RowsOf(<<j, "hold">>)
        BY <2>3, <3>2 DEF J!RowsOf
      <4>2. QED
        BY <1>b, <3>2, <4>1 DEF BooksInv
    <3>3. QED
      BY <2>1, <2>3, <3>1, <3>2 DEF J!RowsOf
  <2>4. ASSUME NEW j \in Intents, NEW k \in PostsOf(j)'
        PROVE  ThePost(j, books[k].entry)'
    <3>1. CASE books'[k].entry = e
      <4>1. j = i /\ e.id = <<i, "post">>
        BY <1>2, <2>4, <3>1 DEF PostsOf
      <4>2. QED
        BY <1>2, <3>1, <4>1 DEF ThePost
    <3>2. CASE k \in DOMAIN books /\ books'[k] = books[k]
      BY <1>o, <2>4, <3>2 DEF PostsOf
    <3>3. QED
      BY <2>1, <2>4, <3>1, <3>2 DEF PostsOf
  <2>5. ASSUME NEW j \in Intents, <<j, "hold">> \in resolved'
        PROVE  PostsOf(j)' # {}
    <3>1. CASE <<j, "hold">> \in resolved
      <4>1. PICK k : k \in PostsOf(j)
        BY <1>b, <3>1 DEF BooksInv
      <4>2. k \in PostsOf(j)'
        BY <2>1, <4>1 DEF PostsOf
      <4>3. QED
        BY <4>2
    <3>2. CASE <<j, "hold">> \notin resolved
      <4>1. e.kind # "hold" /\ e.holds = <<j, "hold">>
        BY <2>1, <2>5, <3>2
      <4>2. e.id = <<j, "post">>
        BY <1>2, <4>1
      <4>3. QED
        BY <2>1, <4>2 DEF PostsOf
    <3>3. QED
      BY <3>1, <3>2
  <2>6. QED
    BY <2>1, <2>2, <2>3, <2>4, <2>5 DEF BooksInv, RowsStay
<1>3. CASE HoldAdded
  <2>1. PICK i \in Intents : J!Append1(HoldEntry(i, store'[i]))
    BY <1>3 DEF HoldAdded
  <2>2. store'[i].version \in Nat
    BY StoreStep DEF StoreInv, IP!IntentInv, IP!IntentRecord
  <2>3. PICK it : it = store'[i]
    OBVIOUS
  <2>4. PICK e : e = HoldEntry(i, it)
    OBVIOUS
  <2>5. /\ e \in J!Entry /\ e.id = <<i, "hold">> /\ e.kind = "hold"
        /\ e.ref = i /\ e.asset = "asset"
    BY <2>2, <2>3, <2>4, HoldFields
  <2>6. J!Append1(e)
    BY <2>1, <2>3, <2>4
  <2>7. QED
    BY <1>2, <2>5, <2>6
<1>4. CASE PostAdded
  <2>1. PICK c \in Callers : /\ At(c, {"post"}) /\ store' = store
                             /\ J!Append1(PostEntry(check[c].intent, copy[c].it))
    BY <1>4 DEF PostAdded
  <2>2. check[c].pc = "post" /\ check[c].pc \in Looking
    BY <2>1 DEF At, Looking
  <2>3. PICK it : it = copy[c].it
    OBVIOUS
  <2>4. PICK i \in Intents, n \in Nat :
          LET h == store[i].history
          IN  /\ i = check[c].intent
              /\ n \in DOMAIN h /\ it.version = n + 1 /\ it.tx \in Txs
              /\ h[n].to = "confirming" /\ h[n].tx = it.tx
    BY <2>2, <2>3, WhatCheckRead
  <2>5. PICK e : e = PostEntry(i, it)
    OBVIOUS
  <2>6. what[it.tx] # None /\ (Rule.marker => Paid(it.tx))
    BY <2>2, <2>3 DEF ReconInv, CheckInv
  <2>7. /\ e \in J!Entry /\ e.id = <<i, "post">> /\ e.kind = "post"
        /\ e.holds = <<i, "hold">>
    BY <2>4, <2>5, PostFields
  <2>8. ThePost(i, e)
    <3>1. PICK r : r = [version |-> n + 1, tx |-> it.tx]
      OBVIOUS
    <3>2. r.version = it.version /\ r.tx = it.tx
      BY <2>4, <3>1
    <3>3. e = PostEntry(i, r)
      BY <2>5, <3>2 DEF PostEntry
    <3>4. QED
      BY <2>4, <2>6, <3>1, <3>3 DEF ThePost
  <2>9. ThePost(i, e)'
    BY <2>8, ThePostStays
  <2>10. J!Append1(e)
    BY <2>1, <2>3, <2>4, <2>5
  <2>11. QED
    BY <1>2, <2>7, <2>9, <2>10
<1>5. QED
  BY <1>1, <1>3, <1>4, StepUsesTheBooks
-----------------------------------------------------------------------------
\* A caller's place and what it read stay as they are; or it starts again.
Waits(c) == /\ check'[c] = check[c]
            /\ check[c].pc \in Looking => copy'[c] = copy[c]
Starts(c) == /\ check'[c] \in Place
             /\ check'[c].pc \in {"idle", "get"}
             /\ check'[c].pc = "get" => check'[c].intent \in Intents

LEMMA EnterStarts ==
  ASSUME Domains, NEW c \in Callers, NEW i \in Intents, Enter(c, i)
  PROVE  Starts(c) /\ check'[c].pc = "get"
         /\ \A d \in Callers : d # c => check'[d] = check[d]
<1>1. PICK p : p = [Idle EXCEPT !.pc = "get", !.intent = i]
  OBVIOUS
<1>2. p = [pc |-> "get", intent |-> i, outcome |-> "no-op"]
  BY <1>1 DEF Idle
<1>3. p \in Place /\ p.pc = "get" /\ p.intent = i
  BY <1>2 DEF Place, Places, Outcomes
<1>4. check' = [check EXCEPT ![c] = p]
  BY <1>1 DEF Enter
<1>5. QED
  BY <1>3, <1>4 DEF Starts, Domains

LEMMA IdleStarts ==
  ASSUME Domains, NEW c \in Callers, check' = [check EXCEPT ![c] = Idle]
  PROVE  Starts(c) /\ check'[c].pc = "idle"
         /\ \A d \in Callers : d # c => check'[d] = check[d]
<1>1. Idle \in Place /\ Idle.pc = "idle"
  BY DEF Idle, Place, Places, Outcomes
<1>2. QED
  BY <1>1 DEF Starts, Domains

\* A save or a read of one client leaves the copies of the others.
LEMMA CopiesOfOthers ==
  ASSUME NEW c \in Callers, NEW d \in Callers, c # d, NEW req, NEW i,
         copy \in [Callers -> IP!Copy \union {None}],
         \/ I!Read(d, i) \/ I!Advance(d, req) \/ I!Conflict(d, req)
         \/ copy' = [copy EXCEPT ![d] = None]
  PROVE  copy'[c] = copy[c]
BY DEF I!Read, I!Advance, I!Conflict

LEMMA CheckStepIsOwn ==
  ASSUME ReconInv, NEW d \in Callers, CheckStep(d), NEW c \in Callers, c # d
  PROVE  Waits(c)
<1>1. check'[c] = check[c]
  BY DEF CheckStep, Get, Look, Post, Push, Goto, Return, ReconInv, Domains
<1>2. copy'[c] = copy[c]
  <2>1. copy \in [Callers -> IP!Copy \union {None}]
    BY DEF ReconInv, StoreInv, IP!IntentInv
  <2>2. CASE Get(d)
    BY <2>1, <2>2, CopiesOfOthers DEF Get, intentVars
  <2>3. CASE Look(d) \/ Post(d)
    BY <2>3 DEF Look, Post, intentVars
  <2>4. CASE Push(d)
    BY <2>1, <2>4, CopiesOfOthers DEF Push
  <2>5. QED
    BY <2>2, <2>3, <2>4 DEF CheckStep
<1>3. QED
  BY <1>1, <1>2 DEF Waits

\* While a run saves evidence it is not inside Check.
LEMMA NotInCheck ==
  ASSUME ReconInv, NEW e \in Engines, eng[e].pc \notin {"swept", "check"}
  PROVE  check[e].pc = "idle"
BY DEF ReconInv, RunInv, RunSound

LEMMA RunMovesCallers ==
  ASSUME ReconInv, NEW e \in Engines, Run(e) \/ Stop(e), NEW c \in Callers
  PROVE  Waits(c) \/ CheckStep(c) \/ Starts(c)
<1>e. e \in Callers
  BY ReconAssumption
<1>d. Domains
  BY DEF ReconInv
<1>t. copy \in [Callers -> IP!Copy \union {None}]
  BY DEF ReconInv, StoreInv, IP!IntentInv
<1>1. CASE CheckInRun(e)
  BY <1>1, <1>e, CheckStepIsOwn DEF CheckInRun
<1>2. CASE Start(e) \/ Enqueue(e) \/ Window(e) \/ Finish(e)
  BY <1>2 DEF Start, Enqueue, Window, Finish, Waits, intentVars
<1>3. CASE Swept(e) \/ Checked(e) \/ Stop(e)
  <2>1. check' = [check EXCEPT ![e] = Idle] /\ copy' = [copy EXCEPT ![e] = None]
    BY <1>3 DEF Swept, Checked, Stop
  <2>2. QED
    BY <2>1, <1>d, <1>e, <1>t, IdleStarts, CopiesOfOthers DEF Waits
<1>4. CASE Sweep(e)
  <2>1. copy' = copy
    BY <1>4 DEF Sweep, intentVars
  <2>2. PICK s \in eng[e].todo : Enter(e, s[1]) \/ UNCHANGED check
    BY <1>4 DEF Sweep
  <2>3. s[1] \in Intents
    BY <1>4 DEF Sweep, Is, ReconInv, RunInv, RunSound
  <2>4. QED
    BY <2>1, <2>2, <2>3, <1>d, <1>e, EnterStarts DEF Waits
<1>5. CASE Compare(e)
  <2>1. copy' = copy
    BY <1>5 DEF Compare, intentVars
  <2>2. PICK x \in eng[e].todo : \/ UNCHANGED check
                                 \/ Compared(x) = "evidence" /\ Enter(e, what[x].ref)
    BY <1>5 DEF Compare
  <2>3. Compared(x) = "evidence" => what[x].ref \in Intents
    BY DEF Compared, AgainstThePost
  <2>4. QED
    BY <2>1, <2>2, <2>3, <1>d, <1>e, EnterStarts DEF Waits
<1>6. CASE ReadAgain(e)
  <2>1. check' = check /\ check[e].pc = "idle"
    BY <1>6, NotInCheck DEF ReadAgain
  <2>2. I!Read(e, what[eng[e].x].ref)
    BY <1>6 DEF ReadAgain
  <2>3. c # e => copy'[c] = copy[c]
    BY <2>2, <1>e, <1>t, CopiesOfOthers
  <2>4. QED
    BY <2>1, <2>3 DEF Waits, Looking, Exits
<1>7. CASE SaveEvidence(e)
  <2>1. check[e].pc = "idle" /\ eng[e].pc \in {"save-back", "save-confirm"}
    BY <1>7, NotInCheck DEF SaveEvidence
  <2>2. what[eng[e].x].ref \in Intents
    BY <2>1 DEF ReconInv, RunInv, RunSound, Weighing
  <2>3. UNCHANGED check \/ Enter(e, what[eng[e].x].ref)
    BY <1>7 DEF SaveEvidence, Pushed
  <2>4. c # e => copy'[c] = copy[c]
    <3>1. PICK req : req = Evidence(e)
      OBVIOUS
    <3>2. I!Advance(e, req) \/ I!Conflict(e, req) \/ copy' = copy
      BY <1>7, <3>1 DEF SaveEvidence, intentVars
    <3>3. QED
      BY <3>2, <1>e, <1>t, CopiesOfOthers
  <2>5. QED
    BY <2>1, <2>2, <2>3, <2>4, <1>d, <1>e, EnterStarts DEF Waits, Looking, Exits
<1>8. QED
  BY <1>1, <1>2, <1>3, <1>4, <1>5, <1>6, <1>7 DEF Run

LEMMA StepMovesCallers ==
  ASSUME ReconInv, [Next]_vars, NEW c \in Callers
  PROVE  Waits(c) \/ CheckStep(c) \/ Starts(c)
<1>d. Domains
  BY DEF ReconInv
<1>t. copy \in [Callers -> IP!Copy \union {None}]
  BY DEF ReconInv, StoreInv, IP!IntentInv
<1>1. ASSUME NEW i \in Intents, Claim(i) \/ Send(i) \/ Confirm(i) \/ Suspend(i)
                                \/ Ack(i) \/ Redrive(i) \/ Operate(i)
      PROVE  Waits(c)
  BY <1>1 DEF Claim, Send, Confirm, Suspend, Ack, Redrive, Operate, I!AdvanceNow,
              intentVars, Waits
<1>2. ASSUME NEW d \in Callers, CheckAlone(d)
      PROVE  Waits(c) \/ CheckStep(c) \/ Starts(c)
  <2>1. ASSUME NEW i \in Intents, Enter(d, i), UNCHANGED intentVars
        PROVE  Waits(c) \/ Starts(c)
    BY <2>1, <1>d, EnterStarts DEF Waits, intentVars
  <2>2. ASSUME check' = [check EXCEPT ![d] = Idle], copy' = [copy EXCEPT ![d] = None]
        PROVE  Waits(c) \/ Starts(c)
    BY <2>2, <1>d, <1>t, IdleStarts, CopiesOfOthers DEF Waits
  <2>3. QED
    BY <1>2, <2>1, <2>2, CheckStepIsOwn DEF CheckAlone, CheckInRun
<1>3. QED
  BY <1>1, <1>2, RunMovesCallers
     DEF Next, Foreign, OnChain, vars, intentVars, Waits

\* What a caller relies on stays true while it waits.
LEMMA WaitingIsSafe ==
  ASSUME ReconInv, [Next]_vars, NEW c \in Callers, Waits(c)
  PROVE  CheckInv(c)'
<1>c. CheckInv(c)
  BY DEF ReconInv
<1>1. CASE check[c].pc \notin Looking
  BY <1>1, <1>c DEF CheckInv, Waits, Looking, Exits
<1>2. CASE check[c].pc \in Looking
  <2>1. ChainInv /\ ChainInv' /\ Later /\ RowsStay
    BY ChainStep, BooksStep DEF ReconInv
  <2>2. check'[c] = check[c] /\ copy'[c] = copy[c]
    BY <1>2 DEF Waits
  <2>3. PICK x \in Txs : x = copy[c].it.tx
    BY <1>2, WhatCheckRead
  <2>4. what[x] # None => what'[x] # None
    BY <2>1 DEF Later
  <2>5. PICK i : i = check[c].intent
    OBVIOUS
  <2>6. Booked(i, x) => Booked(i, x)'
    BY <2>1 DEF Booked, PostsOf, RowsStay
  <2>7. /\ Paid(x) => Paid(x)'
        /\ Final(x) /\ ~Paid(x) => Final(x)' /\ ~Paid(x)'
    BY <2>1, FinalStays DEF Paid
  <2>8. /\ check[c].pc \in {"post", "settled"} => what[x] # None
        /\ check[c].pc = "settled" => Booked(i, x)
        /\ Rule.marker => /\ check[c].pc \in {"post", "settled"} => Paid(x)
                          /\ check[c].pc = "needs_review" => Final(x) /\ ~Paid(x)
    BY <1>c, <2>3, <2>5 DEF CheckInv
  <2>9. /\ check'[c].pc \in {"post", "settled"} => what'[x] # None
        /\ check'[c].pc = "settled" => Booked(i, x)'
        /\ Rule.marker => /\ check'[c].pc \in {"post", "settled"} => Paid(x)'
                          /\ check'[c].pc = "needs_review" => Final(x)' /\ ~Paid(x)'
    BY <2>2, <2>4, <2>6, <2>7, <2>8
  <2>10. x = copy'[c].it.tx /\ i = check'[c].intent
    BY <2>2, <2>3, <2>5
  <2>11. /\ check'[c] \in Place
         /\ check'[c].pc \in Looking \union {"get"} => check'[c].intent \in Intents
         /\ check'[c].pc \in Looking => /\ copy'[c] # None
                                        /\ copy'[c].id = check'[c].intent
                                        /\ copy'[c].it.state = "confirming"
    BY <1>c, <2>2 DEF CheckInv
  <2>12. QED
    BY <2>9, <2>10, <2>11 DEF CheckInv, Booked, Paid, Final
<1>3. QED
  BY <1>1, <1>2

\* A new start relies on nothing.
LEMMA StartingIsSafe ==
  ASSUME NEW c \in Callers, Starts(c)
  PROVE  CheckInv(c)'
BY DEF Starts, CheckInv, Looking, Exits

\* Where a verdict leads: final is what the chain will not take back, with the
\* marker, and settles only what paid.
LEMMA VerdictsAreFinal ==
  ASSUME ChainInv, NEW x \in Txs, NEW old \in BOOLEAN, NEW v,
         v = Judge(Rule, Sighting(x), old), v # "pending"
  PROVE  LET pc == AfterLookup(x, v)
         IN  /\ pc \in Looking
             /\ pc # "settled"
             /\ pc = "post" => what[x] # None
             /\ Rule.marker => /\ pc = "post" => Paid(x)
                               /\ pc = "needs_review" => Final(x) /\ ~Paid(x)
<1>1. PICK s : s = Sighting(x)
  OBVIOUS
<1>2. /\ s.included <=> block[x] # 0
      /\ s.final <=> Final(x)
      /\ s.succeeded <=> x \notin reverted
  BY <1>1 DEF Sighting
<1>3. v \in {"lost", "failed", "final"}
  BY DEF Judge
<1>4. CASE v = "lost"
  BY <1>4 DEF AfterLookup, Looking, Exits
<1>5. CASE v = "failed"
  <2>1. Irreversible(Rule, s) /\ ~s.succeeded
    BY <1>1, <1>5 DEF Judge
  <2>2. Rule.marker => Final(x) /\ ~Paid(x)
    BY <1>2, <2>1 DEF Irreversible, Paid
  <2>3. AfterLookup(x, v) = "needs_review"
    BY <1>5 DEF AfterLookup
  <2>4. QED
    BY <2>2, <2>3 DEF Looking, Exits
<1>6. CASE v = "final"
  <2>1. Irreversible(Rule, s) /\ s.succeeded
    BY <1>1, <1>6 DEF Judge
  <2>2. /\ what[x] # None
        /\ Rule.marker => Final(x) /\ x \notin reverted
    BY <1>2, <2>1 DEF Irreversible, ChainInv
  <2>3. AfterLookup(x, v) = IF what[x].effect = "right" THEN "post"
                            ELSE "needs_review"
    BY <1>6 DEF AfterLookup
  <2>4. CASE what[x].effect = "right"
    BY <2>2, <2>3, <2>4 DEF Looking, Paid
  <2>5. CASE what[x].effect # "right"
    BY <2>2, <2>3, <2>5 DEF Looking, Exits, Paid
  <2>6. QED
    BY <2>4, <2>5
<1>7. QED
  BY <1>3, <1>4, <1>5, <1>6

LEMMA GotoPlaces ==
  ASSUME ReconInv, NEW c \in Callers, NEW pc \in Places, Goto(c, pc)
  PROVE  check'[c] \in Place /\ check'[c].pc = pc /\ check'[c].intent = check[c].intent
<1>1. check[c] \in Place /\ DOMAIN check = Callers
  BY DEF ReconInv, CheckInv, Domains
<1>2. PICK p : p = [check[c] EXCEPT !.pc = pc]
  OBVIOUS
<1>3. p \in Place /\ p.pc = pc /\ p.intent = check[c].intent
  BY <1>1, <1>2 DEF Place
<1>4. check' = [check EXCEPT ![c] = p]
  BY <1>2 DEF Goto
<1>5. QED
  BY <1>1, <1>3, <1>4

LEMMA ReturnEnds ==
  ASSUME Domains, NEW c \in Callers, NEW outcome \in Outcomes, Return(c, outcome)
  PROVE  check'[c] \in Place /\ check'[c].pc = "done"
<1>1. PICK p : p = [Idle EXCEPT !.pc = "done", !.outcome = outcome]
  OBVIOUS
<1>2. p = [pc |-> "done", intent |-> None, outcome |-> outcome]
  BY <1>1 DEF Idle
<1>3. p \in Place /\ p.pc = "done"
  BY <1>2 DEF Place, Places
<1>4. check' = [check EXCEPT ![c] = p]
  BY <1>1 DEF Return
<1>5. QED
  BY <1>3, <1>4 DEF Domains

\* Check itself.
LEMMA GetIsSafe ==
  ASSUME ReconInv, NEW c \in Callers, Get(c)
  PROVE  CheckInv(c)' /\ check'[c].pc # "idle"
<1>d. Domains
  BY DEF ReconInv
<1>1. PICK i \in Intents : i = check[c].intent
  BY DEF Get, At, ReconInv, CheckInv
<1>2. CASE store[i].state = "confirming"
  <2>1. I!Read(c, i) /\ Goto(c, "lookup")
    BY <1>1, <1>2 DEF Get
  <2>2. check'[c] \in Place /\ check'[c].pc = "lookup" /\ check'[c].intent = i
    BY <1>1, <2>1, GotoPlaces DEF Places, Looking
  <2>3. PICK r : r = [id |-> i, it |-> store[i]]
    OBVIOUS
  <2>4. copy' = [copy EXCEPT ![c] = r] /\ r.id = i /\ r.it = store[i]
    BY <2>1, <2>3 DEF I!Read
  <2>5. copy'[c] = r
    BY <2>4 DEF ReconInv, StoreInv, IP!IntentInv
  <2>6. r # None
    <3>1. store[i] \in IP!IntentRecord
      BY DEF ReconInv, StoreInv, IP!IntentInv
    <3>2. r \in IP!Copy
      BY <2>3, <3>1 DEF IP!Copy
    <3>3. QED
      BY <3>2, NoneIsNone
  <2>7. QED
    BY <1>2, <2>2, <2>4, <2>5, <2>6 DEF CheckInv, Looking, Exits
<1>3. CASE store[i].state # "confirming"
  <2>1. Return(c, "no-op")
    BY <1>1, <1>3 DEF Get
  <2>2. check'[c] \in Place /\ check'[c].pc = "done"
    BY <1>d, <2>1, ReturnEnds DEF Outcomes
  <2>3. QED
    BY <2>2 DEF CheckInv, Looking, Exits
<1>4. QED
  BY <1>2, <1>3

LEMMA LookIsSafe ==
  ASSUME ReconInv, NEW c \in Callers, Look(c)
  PROVE  CheckInv(c)' /\ check'[c].pc # "idle"
<1>d. Domains /\ ChainInv /\ CheckInv(c)
  BY DEF ReconInv
<1>1. check[c].pc \in Looking
  BY DEF Look, At, Looking
<1>2. PICK x \in Txs : x = copy[c].it.tx
  BY <1>1, WhatCheckRead
<1>3. PICK old \in BOOLEAN :
        LET v == Judge(Rule, Sighting(x), old)
        IN  IF v = "pending" THEN Return(c, "wait") ELSE Goto(c, AfterLookup(x, v))
  BY <1>2 DEF Look
<1>4. PICK v : v = Judge(Rule, Sighting(x), old)
  OBVIOUS
<1>5. CASE v = "pending"
  <2>1. check'[c] \in Place /\ check'[c].pc = "done"
    BY <1>3, <1>4, <1>5, <1>d, ReturnEnds DEF Outcomes
  <2>2. QED
    BY <2>1 DEF CheckInv, Looking, Exits
<1>6. CASE v # "pending"
  <2>1. PICK pc : pc = AfterLookup(x, v)
    OBVIOUS
  <2>2. /\ pc \in Looking /\ pc # "settled"
        /\ pc = "post" => what[x] # None
        /\ Rule.marker => /\ pc = "post" => Paid(x)
                          /\ pc = "needs_review" => Final(x) /\ ~Paid(x)
    BY <1>d, <1>4, <1>6, <2>1, VerdictsAreFinal
  <2>3. /\ check'[c] \in Place /\ check'[c].pc = pc
        /\ check'[c].intent = check[c].intent
    BY <1>3, <1>4, <1>6, <2>1, <2>2, GotoPlaces DEF Places
  <2>4. UNCHANGED <<copy, tip, mark, block, reverted, what>>
    BY DEF Look, intentVars, chainVars
  <2>5. QED
    BY <1>1, <1>2, <1>d, <2>2, <2>3, <2>4
       DEF CheckInv, Looking, Exits, Paid, Final
<1>7. QED
  BY <1>5, <1>6

LEMMA PostIsSafe ==
  ASSUME ReconInv, [Next]_vars, NEW c \in Callers, Post(c)
  PROVE  CheckInv(c)' /\ check'[c].pc # "idle"
<1>d. Domains /\ CheckInv(c) /\ BooksInv
  BY DEF ReconInv
<1>1. check[c].pc = "post" /\ check[c].pc \in Looking
  BY DEF Post, At, Looking
<1>2. PICK it : it = copy[c].it
  OBVIOUS
<1>3. PICK i \in Intents, n \in Nat, x \in Txs :
        /\ i = check[c].intent /\ i = copy[c].id
        /\ it.version = n + 1 /\ it.tx = x
  BY <1>1, <1>2, WhatCheckRead
<1>4. PICK e : e = PostEntry(i, it)
  OBVIOUS
<1>5. e.id = <<i, "post">> /\ TxOfNote(e.note) = it.tx
  BY <1>3, <1>4, PostFields
<1>6. UNCHANGED <<store, copy, tip, mark, block, reverted, what>>
  BY DEF Post, intentVars, chainVars
<1>s. ASSUME Goto(c, "settled"), Booked(i, x)'
      PROVE  CheckInv(c)' /\ check'[c].pc # "idle"
  <2>1. check'[c] \in Place /\ check'[c].pc = "settled" /\ check'[c].intent = i
    BY <1>s, <1>3, GotoPlaces DEF Places, Looking, Exits
  <2>2. what[x] # None /\ (Rule.marker => Paid(x))
    BY <1>1, <1>2, <1>3, <1>d DEF CheckInv
  <2>3. what'[x] # None /\ (Rule.marker => Paid(x)')
    BY <1>6, <2>2 DEF Paid, Final
  <2>4. /\ copy'[c] # None /\ copy'[c].id = i
        /\ copy'[c].it.state = "confirming" /\ x = copy'[c].it.tx
    BY <1>1, <1>2, <1>3, <1>6, <1>d DEF CheckInv
  <2>5. QED
    BY <1>s, <2>1, <2>3, <2>4 DEF CheckInv, Paid, Final, Booked
<1>7. CASE J!Append1(e) /\ Goto(c, "settled")
  <2>1. PICK k \in DOMAIN books' : books'[k].entry = e
    BY <1>7, <1>d, RowAdded DEF BooksInv
  <2>2. Booked(i, x)'
    BY <1>3, <1>5, <2>1 DEF Booked, PostsOf
  <2>3. QED
    BY <1>7, <2>2, <1>s
<1>8. CASE J!Replay(e) /\ UNCHANGED bookVars /\ Goto(c, "settled")
  <2>1. PICK k \in DOMAIN books : books[k].entry = e
    BY <1>8 DEF J!Replay, J!Same, J!RowsOf
  <2>2. Booked(i, x)'
    BY <1>3, <1>5, <1>8, <2>1 DEF Booked, PostsOf, bookVars
  <2>3. QED
    BY <1>8, <2>2, <1>s
<1>9. CASE Return(c, "error")
  <2>1. check'[c] \in Place /\ check'[c].pc = "done"
    BY <1>9, <1>d, ReturnEnds DEF Outcomes
  <2>2. QED
    BY <2>1 DEF CheckInv, Looking, Exits
<1>10. QED
  BY <1>2, <1>3, <1>4, <1>7, <1>8, <1>9 DEF Post

LEMMA PushIsSafe ==
  ASSUME ReconInv, NEW c \in Callers, Push(c)
  PROVE  CheckInv(c)' /\ check'[c].pc # "idle"
<1>1. PICK o \in Outcomes : Return(c, o)
  BY DEF Push, At, Outcomes
<1>2. check'[c] \in Place /\ check'[c].pc = "done"
  BY <1>1, ReturnEnds DEF ReconInv
<1>3. QED
  BY <1>2 DEF CheckInv, Looking, Exits
-----------------------------------------------------------------------------
\* What a run relies on stays true whatever the chain does.
LEMMA SoundStays ==
  ASSUME ChainInv, ChainInv', Later, NEW r, NEW top, NEW seen, NEW inside,
         RunSound(r, top, seen, inside)
  PROVE  RunSound(r, top, seen, inside)'
<1>1. top \in Nat /\ top <= mark /\ mark <= mark' /\ mark \in Nat /\ mark' \in Nat
  BY DEF RunSound, ChainInv, Later
<1>2. Transfers(1, top)' = Transfers(1, top)
  BY <1>1, TransfersStay
<1>3. RunTyped(r) /\ r.to \in Nat /\ r.x \in Txs \union {None}
  BY DEF RunSound, RunTyped
<1>4. ASSUME r.x # None
      PROVE  what'[r.x].ref \in Intents /\ Final(r.x)'
  <2>1. PICK x \in Txs : x = r.x
    BY <1>3, <1>4
  <2>2. what[x].ref \in Intents /\ Final(x) /\ what[x] # None
    BY <1>4, <2>1 DEF RunSound, Final, ChainInv
  <2>3. Final(x)' /\ what'[x] = what[x]
    BY <2>2, FinalStays DEF Later
  <2>4. QED
    BY <2>1, <2>2, <2>3
<1>5. ASSUME r.pc \in Weighing \union {"compare"}
      PROVE  /\ r.to <= mark'
             /\ Transfers(1, r.to)' = Transfers(1, r.to)
  <2>1. r.to <= mark
    BY <1>5 DEF RunSound
  <2>2. QED
    BY <1>1, <1>3, <2>1, TransfersStay
<1>6. top <= mark'
  BY <1>1
<1>7. RunTyped(r)'
  BY <1>3 DEF RunTyped
<1>8. QED
  BY <1>1, <1>2, <1>4, <1>5, <1>6, <1>7 DEF RunSound

\* A step of others, or inside Check.
LEMMA RunWaits ==
  ASSUME ReconInv, [Next]_vars, NEW e \in Engines,
         eng'[e] = eng[e], cursor'[e] = cursor[e], verdicts'[e] = verdicts[e],
         check'[e].pc = "idle" <=> check[e].pc = "idle"
  PROVE  RunInv(e)'
<1>1. PICK r, top, seen : r = eng[e] /\ top = cursor[e] /\ seen = verdicts[e]
  OBVIOUS
<1>2. PICK inside \in BOOLEAN : inside <=> check[e].pc # "idle"
  OBVIOUS
<1>3. RunSound(r, top, seen, inside)
  BY <1>1, <1>2 DEF ReconInv, RunInv, RunSound
<1>4. RunSound(r, top, seen, inside)'
  BY <1>3, ChainStep, SoundStays DEF ReconInv
<1>5. QED
  BY <1>1, <1>2, <1>4 DEF RunInv, RunSound

\* A step of its own, that leads to a sound place.
LEMMA RunMoves ==
  ASSUME ReconInv, [Next]_vars, NEW e \in Engines, NEW r, NEW top, NEW seen,
         NEW inside \in BOOLEAN, RunSound(r, top, seen, inside),
         eng'[e] = r, cursor'[e] = top, verdicts'[e] = seen,
         check'[e].pc # "idle" <=> inside
  PROVE  RunInv(e)'
<1>1. RunSound(r, top, seen, inside)'
  BY ChainStep, SoundStays DEF ReconInv
<1>2. QED
  BY <1>1 DEF RunInv, RunSound
-----------------------------------------------------------------------------
\* What Step leaves in an engine's place, and what the run had before.
LEMMA StepSets ==
  ASSUME ReconInv, NEW e \in Engines, NEW r, Step(e, r)
  PROVE  eng'[e] = r /\ \A d \in Engines : d # e => eng'[d] = eng[d]
BY DEF Step, ReconInv, Domains

LEMMA RunHere ==
  ASSUME ReconInv, NEW e \in Engines
  PROVE  /\ e \in Callers /\ Domains /\ ChainInv
         /\ RunSound(eng[e], cursor[e], verdicts[e], check[e].pc # "idle")
         /\ RunTyped(eng[e])
         /\ cursor[e] \in Nat /\ cursor[e] <= mark
         /\ \A x \in Transfers(1, cursor[e]) : verdicts[e][x] # "unseen"
BY ReconAssumption DEF ReconInv, RunInv, RunSound

\* Nothing in hand.
LEMMA AsleepIsSound ==
  ASSUME NEW top \in Nat, top <= mark, NEW seen,
         \A x \in Transfers(1, top) : seen[x] # "unseen"
  PROVE  RunSound(Asleep, top, seen, FALSE)
<1>1. RunTyped(Asleep) /\ Asleep.pc = "idle" /\ Asleep.x = None
  BY DEF RunTyped, Asleep, RunPlaces
<1>2. QED
  BY <1>1 DEF RunSound, Weighing

LEMMA StartKeepsRun ==
  ASSUME ReconInv, [Next]_vars, NEW e \in Engines, Start(e)
  PROVE  RunInv(e)'
<1>1. PICK T : T = {<<i, store[i].state>> : i \in {j \in Intents :
                                                  store[j].state \in Open}}
  OBVIOUS
<1>2. PICK r : r = [Asleep EXCEPT !.pc = "sweep", !.todo = T]
  OBVIOUS
<1>3. r = [pc |-> "sweep", todo |-> T, to |-> 0, x |-> None]
  BY <1>2 DEF Asleep
<1>4. Step(e, r) /\ check' = check /\ cursor' = cursor /\ verdicts' = verdicts
  BY <1>1, <1>2 DEF Start
<1>5. eng'[e] = r
  BY <1>4, StepSets
<1>6. T \subseteq Intents \X I!States
  BY <1>1 DEF Open, I!States, I!Terminals
<1>7. RunTyped(r) /\ r.pc = "sweep" /\ r.x = None /\ r.todo = T
  BY <1>3 DEF RunTyped, RunPlaces
<1>8. check[e].pc = "idle"
  BY NotInCheck DEF Start, Is
<1>9. RunSound(r, cursor[e], verdicts[e], FALSE)
  BY <1>6, <1>7, RunHere DEF RunSound, Weighing
<1>10. QED
  BY <1>4, <1>5, <1>8, <1>9, RunMoves

LEMMA SweepKeepsRun ==
  ASSUME ReconInv, [Next]_vars, NEW e \in Engines, Sweep(e)
  PROVE  RunInv(e)'
<1>1. PICK q : q = eng[e]
  OBVIOUS
<1>2. /\ RunTyped(q) /\ q.pc = "sweep" /\ q.todo \subseteq Intents \X I!States
      /\ q.x # None => what[q.x].ref \in Intents /\ Final(q.x)
      /\ q = [pc |-> q.pc, todo |-> q.todo, to |-> q.to, x |-> q.x]
  BY <1>1, RunHere DEF Sweep, Is, RunSound, RunTyped
<1>3. PICK s \in q.todo :
        IF s[2] = "confirming"
        THEN /\ Enter(e, s[1])
             /\ Step(e, [q EXCEPT !.pc = "swept", !.todo = @ \ {s}])
        ELSE /\ Step(e, [q EXCEPT !.todo = @ \ {s}])
             /\ UNCHANGED check
  BY <1>1 DEF Sweep
<1>4. PICK T : T = q.todo \ {s}
  OBVIOUS
<1>5. cursor' = cursor /\ verdicts' = verdicts
  BY DEF Sweep
<1>s. ASSUME NEW p \in {"sweep", "swept"}, NEW r, Step(e, r),
             r = [pc |-> p, todo |-> T, to |-> q.to, x |-> q.x],
             check'[e].pc # "idle" <=> p = "swept"
      PROVE  RunInv(e)'
  <2>1. RunTyped(r) /\ r.pc = p /\ r.todo = T /\ r.x = q.x
    BY <1>2, <1>s DEF RunTyped, RunPlaces
  <2>2. T \subseteq Intents \X I!States
    BY <1>2, <1>4
  <2>3. RunSound(r, cursor[e], verdicts[e], p = "swept")
    BY <1>2, <2>1, <2>2, RunHere DEF RunSound, Weighing
  <2>4. eng'[e] = r
    BY <1>s, StepSets
  <2>5. (p = "swept") \in BOOLEAN
    OBVIOUS
  <2>6. QED
    BY <1>5, <1>s, <2>3, <2>4, <2>5, RunMoves
<1>6. CASE s[2] = "confirming"
  <2>1. PICK r : r = [q EXCEPT !.pc = "swept", !.todo = @ \ {s}]
    OBVIOUS
  <2>2. r = [pc |-> "swept", todo |-> T, to |-> q.to, x |-> q.x]
    BY <1>2, <1>4, <2>1
  <2>3. s[1] \in Intents
    BY <1>2
  <2>4. check'[e].pc = "get"
    BY <1>3, <1>6, <2>3, RunHere, EnterStarts
  <2>5. QED
    BY <1>3, <1>6, <1>s, <2>1, <2>2, <2>4
<1>7. CASE s[2] # "confirming"
  <2>1. PICK r : r = [q EXCEPT !.todo = @ \ {s}]
    OBVIOUS
  <2>2. r = [pc |-> "sweep", todo |-> T, to |-> q.to, x |-> q.x]
    BY <1>2, <1>4, <2>1
  <2>3. check'[e].pc = "idle"
    BY <1>1, <1>2, <1>3, <1>7, NotInCheck
  <2>4. QED
    BY <1>3, <1>7, <1>s, <2>1, <2>2, <2>3
<1>8. QED
  BY <1>6, <1>7

LEMMA SweptKeepsRun ==
  ASSUME ReconInv, [Next]_vars, NEW e \in Engines, Swept(e)
  PROVE  RunInv(e)'
<1>1. PICK q : q = eng[e]
  OBVIOUS
<1>2. /\ RunTyped(q) /\ q.pc = "swept" /\ q.todo \subseteq Intents \X I!States
      /\ q.x # None => what[q.x].ref \in Intents /\ Final(q.x)
      /\ q = [pc |-> q.pc, todo |-> q.todo, to |-> q.to, x |-> q.x]
  BY <1>1, RunHere DEF Swept, Is, RunSound, RunTyped
<1>3. check'[e].pc = "idle" /\ cursor' = cursor /\ verdicts' = verdicts
  BY RunHere, IdleStarts DEF Swept
<1>4. Step(e, Asleep) \/ Step(e, [q EXCEPT !.pc = "sweep"])
  BY <1>1 DEF Swept
<1>5. CASE Step(e, Asleep)
  <2>1. eng'[e] = Asleep
    BY <1>5, StepSets
  <2>2. RunSound(Asleep, cursor[e], verdicts[e], FALSE)
    BY RunHere, AsleepIsSound
  <2>3. QED
    BY <1>3, <2>1, <2>2, RunMoves
<1>6. CASE Step(e, [q EXCEPT !.pc = "sweep"])
  <2>1. PICK r : r = [q EXCEPT !.pc = "sweep"]
    OBVIOUS
  <2>2. r = [pc |-> "sweep", todo |-> q.todo, to |-> q.to, x |-> q.x]
    BY <1>2, <2>1
  <2>3. RunTyped(r) /\ r.pc = "sweep" /\ r.todo = q.todo /\ r.x = q.x
    BY <1>2, <2>2 DEF RunTyped, RunPlaces
  <2>4. RunSound(r, cursor[e], verdicts[e], FALSE)
    BY <1>2, <2>3, RunHere DEF RunSound, Weighing
  <2>5. eng'[e] = r
    BY <1>6, <2>1, StepSets
  <2>6. QED
    BY <1>3, <2>4, <2>5, RunMoves
<1>7. QED
  BY <1>4, <1>5, <1>6

LEMMA WindowKeepsRun ==
  ASSUME ReconInv, [Next]_vars, NEW e \in Engines, Window(e)
  PROVE  RunInv(e)'
<1>1. /\ check[e].pc = "idle" /\ check' = check
      /\ cursor' = cursor /\ verdicts' = verdicts
  BY NotInCheck DEF Window, Is
<1>2. PICK top \in Nat : top = cursor[e]
  BY RunHere
<1>3. PICK T : T = Transfers(top + 1, mark)
  OBVIOUS
<1>4. PICK r : r = [Asleep EXCEPT !.pc = "compare", !.to = mark, !.todo = T]
  OBVIOUS
<1>5. r = [pc |-> "compare", todo |-> T, to |-> mark, x |-> None]
  BY <1>4 DEF Asleep
<1>6. Step(e, Asleep) \/ Step(e, r)
  BY <1>2, <1>3, <1>4 DEF Window, Finalized
<1>7. CASE Step(e, Asleep)
  <2>1. eng'[e] = Asleep
    BY <1>7, StepSets
  <2>2. RunSound(Asleep, cursor[e], verdicts[e], FALSE)
    BY RunHere, AsleepIsSound
  <2>3. QED
    BY <1>1, <2>1, <2>2, RunMoves
<1>8. CASE Step(e, r)
  <2>1. mark \in Nat /\ block \in [Txs -> Nat]
    BY RunHere DEF ChainInv
  <2>2. RunTyped(r) /\ r.pc = "compare" /\ r.todo = T /\ r.to = mark /\ r.x = None
    BY <1>5, <2>1 DEF RunTyped, RunPlaces
  <2>3. T \subseteq Transfers(1, mark)
    BY <1>2, <1>3, <2>1 DEF Transfers
  <2>4. \A x \in Transfers(1, mark) \ T : x \in Transfers(1, top)
    BY <1>2, <1>3, <2>1 DEF Transfers
  <2>5. \A x \in Transfers(1, mark) \ T : verdicts[e][x] # "unseen"
    BY <1>2, <2>4, RunHere
  <2>6. RunSound(r, cursor[e], verdicts[e], FALSE)
    BY <2>1, <2>2, <2>3, <2>5, RunHere DEF RunSound, Weighing
  <2>7. eng'[e] = r
    BY <1>8, StepSets
  <2>8. QED
    BY <1>1, <2>6, <2>7, RunMoves
<1>9. QED
  BY <1>6, <1>7, <1>8

LEMMA FinishKeepsRun ==
  ASSUME ReconInv, [Next]_vars, NEW e \in Engines, Finish(e)
  PROVE  RunInv(e)'
<1>1. PICK n : n = eng[e].to
  OBVIOUS
<1>2. n \in Nat /\ n <= mark /\ \A x \in Transfers(1, n) : verdicts[e][x] # "unseen"
  BY <1>1, RunHere DEF Finish, Is, RunSound, RunTyped
<1>3. /\ check[e].pc = "idle" /\ check' = check /\ verdicts' = verdicts
      /\ Step(e, Asleep) /\ cursor'[e] = n
  BY <1>1, NotInCheck DEF Finish, Is, ReconInv, Domains
<1>4. RunSound(Asleep, n, verdicts[e], FALSE)
  BY <1>2, AsleepIsSound
<1>5. eng'[e] = Asleep
  BY <1>3, StepSets
<1>6. QED
  BY <1>3, <1>4, <1>5, RunMoves

LEMMA StopKeepsRun ==
  ASSUME ReconInv, [Next]_vars, NEW e \in Engines, Stop(e)
  PROVE  RunInv(e)'
<1>1. eng'[e] = Asleep /\ check'[e].pc = "idle"
  BY RunHere, StepSets, IdleStarts DEF Stop
<1>2. CASE UNCHANGED <<cursor, verdicts>>
  <2>1. RunSound(Asleep, cursor[e], verdicts[e], FALSE)
    BY RunHere, AsleepIsSound
  <2>2. QED
    BY <1>1, <1>2, <2>1, RunMoves
<1>3. CASE /\ cursor' = [cursor EXCEPT ![e] = 0]
           /\ verdicts' = [verdicts EXCEPT ![e] = Unseen]
  <2>1. cursor'[e] = 0 /\ verdicts'[e] = Unseen
    BY <1>3, RunHere DEF Domains
  <2>2. Transfers(1, 0) = {}
    BY DEF Transfers
  <2>3. 0 \in Nat /\ 0 <= mark
    BY RunHere DEF ChainInv
  <2>4. RunSound(Asleep, 0, Unseen, FALSE)
    BY <2>2, <2>3, AsleepIsSound
  <2>5. QED
    BY <1>1, <2>1, <2>4, RunMoves
<1>4. QED
  BY <1>2, <1>3 DEF Stop
-----------------------------------------------------------------------------
\* A run that compares its window.
Comparing(e) == eng[e].pc \in Weighing \union {"compare"}

LEMMA ComparesHere ==
  ASSUME ReconInv, NEW e \in Engines, Comparing(e)
  PROVE  LET q == eng[e]
         IN  /\ q = [pc |-> q.pc, todo |-> q.todo, to |-> q.to, x |-> q.x]
             /\ q.to \in Nat /\ q.to <= mark /\ q.x \in Txs \union {None}
             /\ q.todo \subseteq Transfers(1, q.to)
             /\ \A x \in Transfers(1, q.to) \ q.todo : verdicts[e][x] # "unseen"
             /\ \A x \in q.todo : x \in Txs /\ Final(x)
             /\ q.pc \in Weighing => q.x # None
             /\ q.x # None => what[q.x].ref \in Intents /\ Final(q.x)
<1>1. PICK q : q = eng[e]
  OBVIOUS
<1>2. /\ q = [pc |-> q.pc, todo |-> q.todo, to |-> q.to, x |-> q.x]
      /\ q.to \in Nat /\ q.to <= mark /\ q.x \in Txs \union {None}
      /\ q.todo \subseteq Transfers(1, q.to)
      /\ \A x \in Transfers(1, q.to) \ q.todo : verdicts[e][x] # "unseen"
      /\ q.pc \in Weighing => q.x # None
      /\ q.x # None => what[q.x].ref \in Intents /\ Final(q.x)
  BY <1>1, RunHere DEF Comparing, RunSound, RunTyped
<1>3. \A x \in Transfers(1, q.to) : x \in Txs /\ Final(x)
  BY <1>2, RunHere DEF Transfers, Final, ChainInv
<1>4. QED
  BY <1>1, <1>2, <1>3

\* It goes on comparing: what leaves the list is written down.
LEMMA GoesOnComparing ==
  ASSUME ReconInv, [Next]_vars, NEW e \in Engines, Comparing(e),
         NEW p \in Weighing \union {"compare"}, NEW T \in SUBSET eng[e].todo,
         NEW y \in Txs \union {None},
         Step(e, [pc |-> p, todo |-> T, to |-> eng[e].to, x |-> y]),
         p \in Weighing => y # None,
         y # None => what[y].ref \in Intents /\ Final(y),
         check'[e].pc # "idle" <=> p = "check",
         cursor' = cursor,
         \A x \in Txs : verdicts[e][x] # "unseen" => verdicts'[e][x] # "unseen",
         \A x \in eng[e].todo \ T : verdicts'[e][x] # "unseen"
  PROVE  RunInv(e)'
<1>1. PICK q : q = eng[e]
  OBVIOUS
<1>2. PICK r : r = [pc |-> p, todo |-> T, to |-> q.to, x |-> y]
  OBVIOUS
<1>3. r.pc = p /\ r.todo = T /\ r.to = q.to /\ r.x = y
  BY <1>2
<1>4. /\ q.to \in Nat /\ q.to <= mark
      /\ q.todo \subseteq Transfers(1, q.to)
      /\ \A x \in Transfers(1, q.to) \ q.todo : verdicts[e][x] # "unseen"
  BY <1>1, ComparesHere
<1>5. RunTyped(r)
  BY <1>2, <1>3, <1>4 DEF RunTyped, RunPlaces
<1>6. PICK seen : seen = verdicts'[e]
  OBVIOUS
<1>7. \A x \in Txs : verdicts[e][x] # "unseen" => seen[x] # "unseen"
  BY <1>6
<1>8. \A x \in Transfers(1, q.to) \ T : seen[x] # "unseen"
  <2> SUFFICES ASSUME NEW x \in Transfers(1, q.to), x \notin T
               PROVE  seen[x] # "unseen"
    OBVIOUS
  <2>1. CASE x \in q.todo
    BY <1>1, <1>6, <2>1
  <2>2. CASE x \notin q.todo
    BY <1>4, <1>7, <2>2 DEF Transfers
  <2>3. QED
    BY <2>1, <2>2
<1>9. \A x \in Transfers(1, cursor[e]) : seen[x] # "unseen"
  BY <1>7, RunHere DEF Transfers
<1>10. T \subseteq Transfers(1, q.to)
  BY <1>1, <1>4
<1>11. RunSound(r, cursor[e], seen, p = "check")
  BY <1>3, <1>4, <1>5, <1>8, <1>9, <1>10, RunHere DEF RunSound, Weighing
<1>12. eng'[e] = r
  BY <1>1, <1>2, StepSets
<1>13. (p = "check") \in BOOLEAN
  OBVIOUS
<1>14. QED
  BY <1>6, <1>11, <1>12, <1>13, RunMoves

LEMMA CompareKeepsRun ==
  ASSUME ReconInv, [Next]_vars, NEW e \in Engines, Compare(e)
  PROVE  RunInv(e)'
<1>1. PICK q : q = eng[e]
  OBVIOUS
<1>2. q.pc = "compare" /\ Comparing(e) /\ check[e].pc = "idle"
  BY <1>1, NotInCheck DEF Compare, Is, Comparing, Weighing
<1>3. PICK x \in q.todo :
        IF Compared(x) # "evidence"
        THEN /\ Writes(e, x, Compared(x))
             /\ Step(e, [q EXCEPT !.todo = @ \ {x}])
             /\ UNCHANGED check
        ELSE /\ UNCHANGED verdicts
             /\ Step(e, [q EXCEPT !.pc = Missing(x), !.x = x])
             /\ IF Missing(x) = "check" THEN Enter(e, what[x].ref)
                ELSE UNCHANGED check
  BY <1>1 DEF Compare
<1>4. x \in Txs /\ Final(x)
  BY <1>1, <1>2, ComparesHere
<1>5. cursor' = cursor
  BY DEF Compare
<1>6. q = [pc |-> q.pc, todo |-> q.todo, to |-> q.to, x |-> q.x]
  BY <1>1, <1>2, ComparesHere
<1>7. CASE Compared(x) # "evidence"
  <2>1. PICK v : v = Compared(x)
    OBVIOUS
  <2>2. v # "unseen"
    BY <2>1 DEF Compared, AgainstThePost
  <2>3. verdicts' = [verdicts EXCEPT ![e][x] = v]
    BY <1>3, <1>7, <2>1 DEF Writes
  <2>4. /\ verdicts'[e][x] = v
        /\ \A y \in Txs : y # x => verdicts'[e][y] = verdicts[e][y]
    BY <1>4, <2>3, RunHere DEF Domains
  <2>5. PICK T : T = q.todo \ {x}
    OBVIOUS
  <2>6. [q EXCEPT !.todo = @ \ {x}] =
          [pc |-> "compare", todo |-> T, to |-> q.to, x |-> q.x]
    BY <1>2, <1>6, <2>5
  <2>7. Step(e, [pc |-> "compare", todo |-> T, to |-> q.to, x |-> q.x])
    BY <1>3, <1>7, <2>6
  <2>8. check'[e].pc = "idle"
    BY <1>2, <1>3, <1>7
  <2>9. /\ q.x \in Txs \union {None}
        /\ q.x # None => what[q.x].ref \in Intents /\ Final(q.x)
    BY <1>1, <1>2, ComparesHere
  <2>10. /\ \A y \in Txs : verdicts[e][y] # "unseen" => verdicts'[e][y] # "unseen"
         /\ \A y \in q.todo \ T : verdicts'[e][y] # "unseen"
         /\ T \in SUBSET q.todo
    BY <2>2, <2>4, <2>5
  <2>11. "compare" \notin Weighing
    BY DEF Weighing
  <2>12. QED
    BY <1>1, <1>2, <1>5, <2>7, <2>8, <2>9, <2>10, <2>11, GoesOnComparing
<1>8. CASE Compared(x) = "evidence"
  <2>1. PICK p : p = Missing(x)
    OBVIOUS
  <2>2. p \in {"confirm", "back", "check"}
    BY <2>1 DEF Missing
  <2>3. what[x].ref \in Intents
    BY <1>8 DEF Compared, AgainstThePost
  <2>4. [q EXCEPT !.pc = p, !.x = x] =
          [pc |-> p, todo |-> q.todo, to |-> q.to, x |-> x]
    <3>1. PICK a : a = [q EXCEPT !.pc = p]
      OBVIOUS
    <3>2. a = [pc |-> p, todo |-> q.todo, to |-> q.to, x |-> q.x]
      BY <1>6, <3>1
    <3>3. [a EXCEPT !.x = x] = [pc |-> p, todo |-> q.todo, to |-> q.to, x |-> x]
      BY <3>2
    <3>4. QED
      BY <3>1, <3>3
  <2>5. Step(e, [pc |-> p, todo |-> q.todo, to |-> q.to, x |-> x])
    <3>1. Step(e, [q EXCEPT !.pc = p, !.x = x])
      BY <1>3, <1>8, <2>1
    <3>2. QED
      BY <2>4, <3>1
  <2>6. check'[e].pc # "idle" <=> p = "check"
    <3>1. CASE p = "check"
      <4>1. check'[e].pc = "get"
        BY <1>3, <1>8, <2>1, <2>3, <3>1, RunHere, EnterStarts
      <4>2. QED
        BY <3>1, <4>1
    <3>2. CASE p # "check"
      BY <1>2, <1>3, <1>8, <2>1, <3>2
    <3>3. QED
      BY <3>1, <3>2
  <2>7. p \in Weighing \union {"compare"}
    BY <2>2 DEF Weighing
  <2>8. x # None
    BY <1>4, NoneIsNone
  <2>9. verdicts' = verdicts
    BY <1>3, <1>8
  <2>10. QED
    BY <1>1, <1>2, <1>4, <1>5, <2>3, <2>5, <2>6, <2>7, <2>8, <2>9, GoesOnComparing
<1>9. QED
  BY <1>7, <1>8

LEMMA ReadAgainKeepsRun ==
  ASSUME ReconInv, [Next]_vars, NEW e \in Engines, ReadAgain(e)
  PROVE  RunInv(e)'
<1>1. PICK q : q = eng[e]
  OBVIOUS
<1>2. PICK p : p = IF q.pc = "back" THEN "save-back" ELSE "save-confirm"
  OBVIOUS
<1>3. /\ q.pc \in Weighing /\ Comparing(e) /\ check[e].pc = "idle"
      /\ p \in Weighing /\ p # "check"
  BY <1>1, <1>2, NotInCheck DEF ReadAgain, Comparing, Weighing
<1>4. /\ q = [pc |-> q.pc, todo |-> q.todo, to |-> q.to, x |-> q.x]
      /\ q.x \in Txs \union {None} /\ q.x # None
      /\ what[q.x].ref \in Intents /\ Final(q.x)
  BY <1>1, <1>3, ComparesHere
<1>5. [q EXCEPT !.pc = p] = [pc |-> p, todo |-> q.todo, to |-> q.to, x |-> q.x]
  BY <1>4
<1>6. Step(e, [q EXCEPT !.pc = p])
  BY <1>1, <1>2 DEF ReadAgain
<1>7. Step(e, [pc |-> p, todo |-> q.todo, to |-> q.to, x |-> q.x])
  BY <1>5, <1>6
<1>8. check' = check /\ cursor' = cursor /\ verdicts' = verdicts
  BY DEF ReadAgain
<1>9. QED
  BY <1>1, <1>3, <1>4, <1>7, <1>8, GoesOnComparing

\* The transfer in hand is done with, and written down.
LEMMA ProceedKeepsRun ==
  ASSUME ReconInv, [Next]_vars, NEW e \in Engines, eng[e].pc \in Weighing,
         Proceed(e), NEW v, v # "unseen", Writes(e, eng[e].x, v),
         check'[e].pc = "idle", cursor' = cursor
  PROVE  RunInv(e)'
<1>1. PICK q : q = eng[e]
  OBVIOUS
<1>2. Comparing(e)
  BY DEF Comparing
<1>3. /\ q = [pc |-> q.pc, todo |-> q.todo, to |-> q.to, x |-> q.x]
      /\ q.x \in Txs
  BY <1>1, <1>2, ComparesHere
<1>4. PICK T : T = q.todo \ {q.x}
  OBVIOUS
<1>5. PICK r : r = [q EXCEPT !.pc = "compare", !.x = None, !.todo = @ \ {q.x}]
  OBVIOUS
<1>6. r = [pc |-> "compare", todo |-> T, to |-> q.to, x |-> None]
  BY <1>3, <1>4, <1>5
<1>7. Step(e, r)
  BY <1>1, <1>5 DEF Proceed
<1>8. /\ verdicts'[e][q.x] = v
      /\ \A y \in Txs : y # q.x => verdicts'[e][y] = verdicts[e][y]
  BY <1>1, <1>3, RunHere DEF Writes, Domains
<1>9. /\ \A y \in Txs : verdicts[e][y] # "unseen" => verdicts'[e][y] # "unseen"
      /\ \A y \in q.todo \ T : verdicts'[e][y] # "unseen"
      /\ T \in SUBSET q.todo
  BY <1>4, <1>8
<1>10. "compare" \notin Weighing
  BY DEF Weighing
<1>11. QED
  BY <1>1, <1>2, <1>6, <1>7, <1>9, <1>10, GoesOnComparing

LEMMA SaveEvidenceKeepsRun ==
  ASSUME ReconInv, [Next]_vars, NEW e \in Engines, SaveEvidence(e)
  PROVE  RunInv(e)'
<1>1. PICK q : q = eng[e]
  OBVIOUS
<1>2. /\ q.pc \in Weighing /\ Comparing(e) /\ check[e].pc = "idle"
      /\ cursor' = cursor
  BY <1>1, NotInCheck DEF SaveEvidence, Comparing, Weighing
<1>3. /\ q = [pc |-> q.pc, todo |-> q.todo, to |-> q.to, x |-> q.x]
      /\ q.x \in Txs \union {None} /\ q.x # None
      /\ what[q.x].ref \in Intents /\ Final(q.x)
  BY <1>1, <1>2, ComparesHere
<1>4. \/ Pushed(e) /\ UNCHANGED verdicts
      \/ Lost(e) /\ UNCHANGED check
  BY DEF SaveEvidence
<1>5. CASE Lost(e) /\ UNCHANGED check
  BY <1>1, <1>2, <1>5, ProceedKeepsRun DEF Lost
<1>6. CASE Pushed(e) /\ UNCHANGED verdicts
  <2>1. PICK p \in {"confirm", "check"} :
          /\ Step(e, [q EXCEPT !.pc = p])
          /\ p = "confirm" => UNCHANGED check
          /\ p = "check" => Enter(e, what[q.x].ref)
    BY <1>1, <1>6 DEF Pushed
  <2>2. [q EXCEPT !.pc = p] = [pc |-> p, todo |-> q.todo, to |-> q.to, x |-> q.x]
    BY <1>3
  <2>3. Step(e, [pc |-> p, todo |-> q.todo, to |-> q.to, x |-> q.x])
    BY <2>1, <2>2
  <2>4. check'[e].pc # "idle" <=> p = "check"
    <3>1. CASE p = "check"
      <4>1. check'[e].pc = "get"
        BY <1>3, <2>1, <3>1, RunHere, EnterStarts
      <4>2. QED
        BY <3>1, <4>1
    <3>2. CASE p = "confirm"
      BY <1>2, <2>1, <3>2
    <3>3. QED
      BY <3>1, <3>2
  <2>5. p \in Weighing
    BY DEF Weighing
  <2>6. QED
    BY <1>1, <1>2, <1>3, <1>6, <2>3, <2>4, <2>5, GoesOnComparing
<1>7. QED
  BY <1>4, <1>5, <1>6

LEMMA CheckedKeepsRun ==
  ASSUME ReconInv, [Next]_vars, NEW e \in Engines, Checked(e)
  PROVE  RunInv(e)'
<1>1. eng[e].pc \in Weighing /\ check'[e].pc = "idle" /\ cursor' = cursor
  BY RunHere, IdleStarts DEF Checked, Is, Weighing
<1>2. CASE Step(e, Asleep) /\ UNCHANGED verdicts
  <2>1. eng'[e] = Asleep
    BY <1>2, StepSets
  <2>2. RunSound(Asleep, cursor[e], verdicts[e], FALSE)
    BY RunHere, AsleepIsSound
  <2>3. QED
    BY <1>1, <1>2, <2>1, <2>2, RunMoves
<1>3. CASE Lost(e)
  BY <1>1, <1>3, ProceedKeepsRun DEF Lost
<1>4. CASE Proceed(e) /\ Writes(e, eng[e].x, "match")
  BY <1>1, <1>4, ProceedKeepsRun
<1>5. QED
  BY <1>2, <1>3, <1>4 DEF Checked
-----------------------------------------------------------------------------
\* A step of Check keeps what its caller relies on, and leads to no start.
LEMMA CheckStepIsSafe ==
  ASSUME ReconInv, [Next]_vars, NEW c \in Callers, CheckStep(c)
  PROVE  CheckInv(c)' /\ check'[c].pc # "idle" /\ check[c].pc # "idle"
<1>1. check[c].pc # "idle"
  BY DEF CheckStep, Get, Look, Post, Push, At, Exits
<1>2. QED
  BY <1>1, GetIsSafe, LookIsSafe, PostIsSafe, PushIsSafe DEF CheckStep

LEMMA CallersStep ==
  ASSUME ReconInv, [Next]_vars, NEW c \in Callers
  PROVE  CheckInv(c)'
BY StepMovesCallers, WaitingIsSafe, StartingIsSafe, CheckStepIsSafe

\* An engine writes nothing of another one.
LEMMA RunIsOwn ==
  ASSUME ReconInv, NEW d \in Engines, Run(d) \/ Stop(d), NEW e \in Engines, e # d
  PROVE  /\ eng'[e] = eng[e] /\ cursor'[e] = cursor[e]
         /\ verdicts'[e] = verdicts[e] /\ check'[e] = check[e]
<1>d. Domains /\ d \in Callers /\ e \in Callers
  BY ReconAssumption DEF ReconInv
<1>1. CASE Start(d) \/ Enqueue(d) \/ Window(d) \/ Finish(d) \/ ReadAgain(d)
  BY <1>1, <1>d DEF Start, Enqueue, Window, Finish, ReadAgain, Step, runVars, Domains
<1>2. CASE Swept(d) \/ Stop(d)
  BY <1>2, <1>d DEF Swept, Stop, Step, Domains
<1>3. CASE Sweep(d)
  BY <1>3, <1>d DEF Sweep, Step, Enter, Domains
<1>4. CASE Compare(d)
  BY <1>4, <1>d DEF Compare, Step, Enter, Writes, Domains
<1>5. CASE SaveEvidence(d)
  <2>1. cursor' = cursor
    BY <1>5 DEF SaveEvidence
  <2>2. \/ Pushed(d) /\ UNCHANGED verdicts
        \/ Lost(d) /\ UNCHANGED check
    BY <1>5 DEF SaveEvidence
  <2>3. QED
    BY <2>1, <2>2, <1>d DEF Pushed, Lost, Proceed, Step, Enter, Writes, Domains
<1>6. CASE Checked(d)
  <2>1. cursor' = cursor /\ check' = [check EXCEPT ![d] = Idle]
    BY <1>6 DEF Checked
  <2>2. \/ Step(d, Asleep) /\ UNCHANGED verdicts
        \/ Lost(d)
        \/ Proceed(d) /\ Writes(d, eng[d].x, "match")
    BY <1>6 DEF Checked
  <2>3. QED
    BY <2>1, <2>2, <1>d DEF Lost, Proceed, Step, Writes, Domains
<1>7. CASE CheckInRun(d)
  BY <1>7, <1>d, CheckStepIsOwn DEF CheckInRun, runVars, Waits
<1>8. QED
  BY <1>1, <1>2, <1>3, <1>4, <1>5, <1>6, <1>7 DEF Run

LEMMA RunsStep ==
  ASSUME ReconInv, [Next]_vars, NEW e \in Engines
  PROVE  RunInv(e)'
<1>d. Domains /\ e \in Callers
  BY ReconAssumption DEF ReconInv
<1>w. ASSUME eng'[e] = eng[e], cursor'[e] = cursor[e], verdicts'[e] = verdicts[e],
             check'[e] = check[e]
      PROVE  RunInv(e)'
  BY <1>w, RunWaits
<1>1. CASE CheckInRun(e)
  BY <1>1, <1>d, CheckStepIsSafe, RunWaits DEF CheckInRun, runVars
<1>q. CASE Enqueue(e)
  BY <1>q, RunWaits DEF Enqueue, runVars
<1>2. CASE Run(e) \/ Stop(e)
  BY <1>1, <1>q, <1>2, StartKeepsRun, SweepKeepsRun, SweptKeepsRun, WindowKeepsRun,
     CompareKeepsRun, ReadAgainKeepsRun, SaveEvidenceKeepsRun, CheckedKeepsRun,
     FinishKeepsRun, StopKeepsRun DEF Run
<1>3. ASSUME NEW d \in Engines, Run(d) \/ Stop(d), d # e
      PROVE  RunInv(e)'
  BY <1>3, <1>w, RunIsOwn
<1>4. ASSUME NEW i \in Intents, Claim(i) \/ Send(i) \/ Confirm(i) \/ Suspend(i)
                                \/ Ack(i) \/ Redrive(i) \/ Operate(i)
      PROVE  RunInv(e)'
  BY <1>4, <1>w DEF Claim, Send, Confirm, Suspend, Ack, Redrive, Operate, runVars
<1>5. ASSUME NEW c \in Callers \ Engines, CheckAlone(c)
      PROVE  RunInv(e)'
  <2>1. CASE CheckInRun(c)
    BY <2>1, <1>5, <1>d, <1>w, CheckStepIsOwn DEF CheckInRun, runVars, Waits
  <2>2. CASE ~CheckInRun(c)
    BY <2>2, <1>5, <1>d, <1>w DEF CheckAlone, Enter, runVars, Domains
  <2>3. QED
    BY <2>1, <2>2
<1>6. QED
  BY <1>2, <1>3, <1>4, <1>5, <1>w DEF Next, Foreign, OnChain, vars, runVars

\* The last step of a history says who made it.
LEMMA LastStep ==
  ASSUME NEW it, IP!Sound(it), NEW req \in IP!Requests,
         NEW new, new = IP!Applied(it, req)
  PROVE  /\ new.state = req.to /\ new.tx = IP!TxAfter(it, req)
         /\ new.history[Len(new.history)].by = req.by
BY NoneIsNone, IP!AppliedLast

\* What Check decides for good.
LEMMA DecidedStep ==
  ASSUME ReconInv, [Next]_vars, Rule.marker, NEW i \in Intents
  PROVE  Decided(i)'
<1>1. ChainInv /\ ChainInv' /\ Later /\ RowsStay
  BY ChainStep, BooksStep DEF ReconInv
<1>s. ASSUME NEW x \in Txs
      PROVE  /\ Booked(i, x) => Booked(i, x)'
             /\ Paid(x) => Paid(x)'
             /\ Final(x) /\ ~Paid(x) => Final(x)' /\ ~Paid(x)'
  BY <1>1, FinalStays DEF Booked, PostsOf, RowsStay, Paid
<1>2. CASE store'[i] = store[i]
  <2>1. PICK it : it = store[i]
    OBVIOUS
  <2>2. PICK x : x = it.tx
    OBVIOUS
  <2>3. CASE x \in Txs
    <3>1. it.history[Len(it.history)].by = "listener" =>
            /\ it.state = "settled" => Paid(x) /\ Booked(i, x)
            /\ it.state = "needs_review" => Final(x) /\ ~Paid(x)
      BY <2>1, <2>2 DEF ReconInv, Decided
    <3>2. it.history[Len(it.history)].by = "listener" =>
            /\ it.state = "settled" => Paid(x)' /\ Booked(i, x)'
            /\ it.state = "needs_review" => Final(x)' /\ ~Paid(x)'
      BY <3>1, <2>3, <1>s
    <3>3. QED
      BY <1>2, <2>1, <2>2, <2>3, <3>2 DEF Decided, Paid, Final, Booked
  <2>4. CASE x \notin Txs
    <3>1. it.history[Len(it.history)].by = "listener" =>
            it.state \notin {"settled", "needs_review"}
      BY <2>1, <2>2, <2>4 DEF ReconInv, Decided
    <3>2. QED
      BY <1>2, <2>1, <3>1 DEF Decided
  <2>5. QED
    BY <2>3, <2>4
<1>3. CASE store'[i] # store[i]
  <2>t. /\ store \in [Intents -> IP!IntentRecord \union {None}]
        /\ copy \in [Callers -> IP!Copy \union {None}]
        /\ store[i] # None /\ IP!Sound(store[i])
    BY DEF ReconInv, StoreInv, IP!IntentInv
  <2>1. CASE Moves
    <3>1. PICK req \in IP!Requests : store'[i] = IP!Applied(store[i], req)
                                     /\ req.by # "listener"
      BY <2>1, <2>t, <1>3 DEF Moves, IP!AdvanceNow
    <3>2. QED
      BY <3>1, <2>t, LastStep DEF Decided
  <2>2. CASE Saves
    <3>1. PICK c \in Callers, req \in IP!Requests :
            /\ IP!Advance(c, req) \/ IP!Conflict(c, req)
            /\ req.to \in {"settled", "needs_review"} =>
                 At(c, Exits) /\ req = Asks(c)
      BY <2>2 DEF Saves
    <3>2. PICK it : it = copy[c].it
      OBVIOUS
    <3>3. /\ IP!Advance(c, req) /\ copy[c] # None /\ copy[c].id = i
          /\ store'[i] = IP!Applied(it, req)
      BY <1>3, <2>t, <3>1, <3>2 DEF IP!Advance, IP!Conflict
    <3>4. IP!Sound(it)
      BY <3>2, <3>3 DEF ReconInv, StoreInv, IP!IntentInv
    <3>5. store'[i].state = req.to /\ store'[i].tx = IP!TxAfter(it, req)
      BY <3>3, <3>4, LastStep
    <3>6. CASE req.to \notin {"settled", "needs_review"}
      BY <3>5, <3>6 DEF Decided
    <3>7. CASE req.to \in {"settled", "needs_review"}
      <4>1. At(c, Exits) /\ req = Asks(c) /\ check[c].pc \in Looking
        BY <3>1, <3>7 DEF At, Looking
      <4>2. check[c].pc = req.to /\ (req.to = "settled" => req.tx = it.tx)
        BY <4>1, <3>2 DEF Asks
      <4>3. PICK x \in Txs : x = it.tx /\ check[c].intent = i
        BY <4>1, <3>2, <3>3, WhatCheckRead
      <4>4. store'[i].tx = x
        BY <3>5, <3>7, <4>2, <4>3 DEF IP!TxAfter
      <4>5. /\ req.to = "settled" => Paid(x) /\ Booked(i, x)
            /\ req.to = "needs_review" => Final(x) /\ ~Paid(x)
        BY <3>2, <4>2, <4>3 DEF ReconInv, CheckInv
      <4>6. /\ req.to = "settled" => Paid(x)' /\ Booked(i, x)'
            /\ req.to = "needs_review" => Final(x)' /\ ~Paid(x)'
        BY <4>5, <1>s
      <4>7. QED
        BY <3>5, <4>4, <4>6 DEF Decided, Paid, Final, Booked
    <3>8. QED
      BY <3>6, <3>7
  <2>3. QED
    BY <1>3, <2>1, <2>2, StepUsesTheStore DEF Gets, IP!Read, Forgets, intentVars
<1>4. QED
  BY <1>2, <1>3
-----------------------------------------------------------------------------
\* The first state.
LEMMA InitStore ==
  ASSUME Init
  PROVE  StoreInv /\ \A i \in Intents : Decided(i)
<1>1. PICK req : req = [to |-> "authorized", by |-> "api", tx |-> None,
                        reason |-> FALSE, late |-> FALSE]
  OBVIOUS
<1>2. PICK it : it = IP!NewIntent
  OBVIOUS
<1>3. it = I!NewIntent /\ it.state = "created"
  BY <1>2 DEF I!NewIntent, IP!NewIntent
<1>4. /\ req \in IP!Requests /\ req.by = "api" /\ req.to = "authorized"
      /\ req.late = FALSE
  BY <1>1 DEF IP!Requests, IP!States, IP!Terminals, IP!Actors
<1>5. IP!Sound(it)
  BY <1>2, NoneIsNone, IP!NewIsSound
<1>6. IP!Accepts(it, req)
  <2>1. PICK r : r = IP!Row("created", "authorized", {"api"}, {})
    OBVIOUS
  <2>2. /\ r \in IP!Rules /\ r.from = "created" /\ r.to = "authorized"
        /\ r.by = {"api"} /\ r.needs = {}
    BY <2>1 DEF IP!Rules, IP!Row
  <2>3. IP!Guard(it, req)
    BY <1>4 DEF IP!Guard
  <2>4. QED
    BY <1>3, <1>4, <2>2, <2>3 DEF IP!Accepts, IP!Terminals
<1>7. PICK new : new = IP!Applied(it, req)
  OBVIOUS
<1>8. /\ IP!Sound(new) /\ new \in IP!IntentRecord
  BY <1>4, <1>5, <1>6, <1>7, NoneIsNone, IP!ApplyIsSound
<1>9. new = I!Applied(I!NewIntent, req)
  BY <1>3, <1>7 DEF IP!Applied, I!Applied, IP!TxAfter, I!TxAfter
<1>10. /\ store = [i \in Intents |-> new]
       /\ copy = [c \in Callers |-> None]
       /\ work = [i \in Intents |-> None]
  BY <1>1, <1>9 DEF Init, InitListener
<1>11. IP!IntentInv /\ IP!CopiesBegin
  BY <1>8, <1>10 DEF IP!IntentInv, IP!CopyIsPast, IP!CopiesBegin
<1>12. new.history[Len(new.history)].by = "api"
  BY <1>4, <1>5, <1>7, LastStep
<1>13. QED
  BY <1>8, <1>10, <1>11, <1>12, NoneIsNone DEF StoreInv, Decided

LEMMA InitInv == Init => ReconInv
<1> SUFFICES ASSUME Init PROVE ReconInv
  OBVIOUS
<1>1. Domains
  BY DEF Init, InitListener, Domains, Unseen
<1>2. ChainInv
  BY DEF Init, InitListener, ChainInv
<1>3. BooksInv
  <2>1. books = <<>> /\ resolved = {}
    BY DEF Init, InitListener, J!Init
  <2>2. books \in Seq({}) /\ DOMAIN books = {}
    BY <2>1
  <2>3. QED
    BY <2>1, <2>2 DEF BooksInv, J!RowsOf, PostsOf
<1>4. \A c \in Callers : check[c] = Idle
  BY DEF Init, InitListener
<1>5. Idle \in Place /\ Idle.pc = "idle"
  BY DEF Idle, Place, Places, Outcomes
<1>6. \A c \in Callers : CheckInv(c)
  BY <1>4, <1>5 DEF CheckInv, Looking, Exits
<1>7. ASSUME NEW e \in Engines
      PROVE  RunInv(e)
  <2>1. /\ eng[e] = Asleep /\ cursor[e] = 0 /\ verdicts[e] = Unseen
        /\ check[e].pc = "idle"
    BY <1>4, <1>5, ReconAssumption DEF Init
  <2>2. Transfers(1, 0) = {}
    BY DEF Transfers
  <2>3. 0 \in Nat /\ 0 <= mark
    BY <1>2 DEF ChainInv
  <2>4. RunSound(Asleep, 0, Unseen, FALSE)
    BY <2>2, <2>3, AsleepIsSound
  <2>5. QED
    BY <2>1, <2>4 DEF RunInv, RunSound
<1>8. QED
  BY <1>1, <1>2, <1>3, <1>6, <1>7, InitStore DEF ReconInv

\* The invariant of reconciliation: however engines, listeners, the relayer,
\* an operator and the chain interleave.
LEMMA ReconInvHolds == Spec => []ReconInv
<1>1. ReconInv /\ [Next]_vars => ReconInv'
  <2> SUFFICES ASSUME ReconInv, [Next]_vars PROVE ReconInv'
    OBVIOUS
  <2>1. Domains' /\ ChainInv' /\ StoreInv' /\ BooksInv'
    BY DomainsStep, ChainStep, StoreStep, BooksStep DEF ReconInv
  <2>2. \A c \in Callers : CheckInv(c)'
    BY CallersStep
  <2>3. \A e \in Engines : RunInv(e)'
    BY RunsStep
  <2>4. Rule.marker => \A i \in Intents : Decided(i)'
    BY DecidedStep
  <2>5. QED
    BY <2>1, <2>2, <2>3, <2>4 DEF ReconInv
<1>2. QED
  BY <1>1, InitInv, PTL DEF Spec
-----------------------------------------------------------------------------
\* A caller is inside Check exactly while its engine waits for it, with the
\* intent it read, and the cursor stays below the chain's own mark.
THEOREM ReconTypeCorrect == Spec => []ReconTypeOK
<1>1. ReconInv => ReconTypeOK
  <2> SUFFICES ASSUME ReconInv PROVE ReconTypeOK
    OBVIOUS
  <2>1. \A i \in Intents : I!WellFormed(store[i])
    BY DEF ReconInv, StoreInv, IP!IntentInv, IP!Sound, IP!WellFormed, I!WellFormed,
       IP!IntentRecord, I!IntentRecord, IP!States, I!States, IP!Terminals,
       I!Terminals, IP!Transition, I!Transition, IP!Actors, I!Actors
  <2>2. \A k \in DOMAIN books : books[k].entry \in J!Entry
    BY DEF ReconInv, BooksInv
  <2>3. ASSUME NEW e \in Engines
        PROVE  /\ (eng[e].pc \in {"swept", "check"}) <=> (check[e].pc # "idle")
               /\ eng[e].x # None => what[eng[e].x].ref \in Intents /\ Final(eng[e].x)
               /\ cursor[e] <= mark
    BY DEF ReconInv, RunInv, RunSound
  <2>4. ASSUME NEW c \in Callers, check[c].pc \in {"lookup", "post"} \union Exits
        PROVE  copy[c].id = check[c].intent /\ copy[c].it.state = "confirming"
    BY <2>4 DEF ReconInv, CheckInv, Looking
  <2>5. QED
    BY <2>1, <2>2, <2>3, <2>4 DEF ReconTypeOK
<1>2. QED
  BY <1>1, ReconInvHolds, PTL

\* Run: the cursor moves only over transfers the run looked at.  It may have
\* lost the race for one of them, which RacesAreRerun is about.
LEMMA NothingIsSkipped ==
  Spec => [](\A e \in Engines : \A x \in Transfers(1, cursor[e]) :
               verdicts[e][x] # "unseen")
<1>1. ReconInv => \A e \in Engines : \A x \in Transfers(1, cursor[e]) :
                    verdicts[e][x] # "unseen"
  BY DEF ReconInv, RunInv, RunSound
<1>2. QED
  BY <1>1, ReconInvHolds, PTL

\* Check with the chain's own marker: what it settles is final and paid, and
\* the post that ends the hold names the transaction.
THEOREM ListenerSettlesWhatIsPaid == ASSUME Rule.marker PROVE Spec => []SettledIsPaid
<1>1. ReconInv => SettledIsPaid
  BY Rule.marker DEF ReconInv, Decided, Booked, SettledIsPaid
<1>2. QED
  BY <1>1, ReconInvHolds, PTL

\* Check with the marker: what it sends to review is final and did not pay.
THEOREM ReviewIsWarranted == ASSUME Rule.marker PROVE Spec => []ReviewIsForGood
<1>1. ReconInv => ReviewIsForGood
  BY Rule.marker DEF ReconInv, Decided, ReviewIsForGood
<1>2. QED
  BY <1>1, ReconInvHolds, PTL

\* Post with the marker: no row of the books says a payment was received that
\* was not, or that a reorg took back.
THEOREM BooksFollowTheChain == ASSUME Rule.marker PROVE Spec => []PostIsPaid
<1>1. ReconInv => PostIsPaid
  <2> SUFFICES ASSUME ReconInv, NEW i \in Intents, NEW k \in PostsOf(i)
               PROVE  Paid(TxOfNote(books[k].entry.note))
    BY DEF PostIsPaid
  <2>1. PICK n \in DOMAIN store[i].history :
          LET t == store[i].history[n]
          IN  /\ t.tx \in Txs /\ (Rule.marker => Paid(t.tx))
              /\ books[k].entry = PostEntry(i, [version |-> n + 1, tx |-> t.tx])
    BY DEF ReconInv, BooksInv, ThePost
  <2>2. n \in Nat
    BY LenProperties DEF ReconInv, StoreInv, IP!IntentInv, IP!IntentRecord
  <2>3. PICK r : r = [version |-> n + 1, tx |-> store[i].history[n].tx]
    OBVIOUS
  <2>4. r.version \in Nat /\ r.tx \in Txs /\ Paid(r.tx)
    BY Rule.marker, <2>1, <2>2, <2>3
  <2>5. TxOfNote(PostEntry(i, r).note) = r.tx
    BY <2>4, PostFields
  <2>6. QED
    BY <2>1, <2>3, <2>4, <2>5
<1>2. QED
  BY <1>1, ReconInvHolds, PTL
-----------------------------------------------------------------------------
\* Legs of a payer and a merchant balance.
LEMMA PostIsValid ==
  ASSUME NEW i \in Intents, NEW it, it.version \in Nat, it.tx \in Txs
  PROVE  J!Valid(PostEntry(i, it))
<1>1. PICK e : e = PostEntry(i, it)
  OBVIOUS
<1>2. PICK n \in {1, 2} : n = Amount(it.tx)
  BY DEF Amount, Asked
<1>3. /\ e.kind = "post" /\ e.holds = <<i, "hold">> /\ e.legs = Legs(n)
  BY <1>1, <1>2, PostFields
<1>4. PICK f : f = Legs(n)
  OBVIOUS
<1>5. f["payer"] = -n /\ f["merchant"] = n
  BY <1>4 DEF Legs
<1>6. J!SumOver({"payer", "merchant"}, f) = 0
  <2>1. JP!JournalAssumption /\ JP!ProposalsAssumption
    BY NoneIsNothing DEF JP!JournalAssumption, JP!ProposalsAssumption
  <2>2. f["payer"] \in Int /\ f["merchant"] \in Int /\ "payer" # "merchant"
    BY <1>5
  <2>3. JP!SumOver({"payer", "merchant"}, f) = f["payer"] + f["merchant"]
    BY <2>1, <2>2, JP!SumOfTwo
  <2>4. J!SumOver({"payer", "merchant"}, f) = JP!SumOver({"payer", "merchant"}, f)
    BY DEF J!SumOver, J!FoldFunctionOnSet, J!MapThenFoldSet,
           JP!SumOver, JP!FoldFunctionOnSet, JP!MapThenFoldSet
  <2>5. QED
    BY <1>5, <2>3, <2>4
<1>7. Cardinality(J!LegsOf(e)) = 2
  <2>1. J!LegsOf(e) = {"payer", "merchant"}
    BY <1>3, <1>4, <1>5 DEF J!LegsOf
  <2>2. PICK S, x : S = {"payer"} /\ x = "merchant"
    OBVIOUS
  <2>3. IsFiniteSet(S) /\ Cardinality(S) = 1
    BY <2>2, FS_Singleton
  <2>4. x \notin S
    BY <2>2
  <2>5. Cardinality(S \union {x}) = IF x \in S THEN Cardinality(S)
                                    ELSE Cardinality(S) + 1
    BY <2>3, FS_AddElement
  <2>6. Cardinality(S \union {x}) = 2
    BY <2>3, <2>4, <2>5
  <2>7. {"payer", "merchant"} = S \union {x}
    BY <2>2
  <2>8. QED
    BY <2>1, <2>6, <2>7
<1>8. e.holds # None
  BY <1>3, NoneIsNothing
<1>9. J!Balanced(e)
  <2>1. e.legs = f
    BY <1>3, <1>4
  <2>2. J!SumOver({"payer", "merchant"}, e.legs) = 0
    BY <1>6, <2>1
  <2>3. J!Cardinality(J!LegsOf(e)) >= 2
    <3>1. PICK S : S = J!LegsOf(e)
      OBVIOUS
    <3>2. J!Cardinality(S) = Cardinality(S)
      BY DEF J!Cardinality, Cardinality
    <3>3. QED
      BY <1>7, <3>1, <3>2
  <2>4. QED
    BY <2>2, <2>3 DEF J!Balanced
<1>10. J!Valid(e)
  BY <1>3, <1>8, <1>9 DEF J!Valid
<1>11. QED
  BY <1>1, <1>10

\* Post, of an intent that went into confirming once: whoever computes it, and
\* however often it is computed again after a crash, the journal takes it.
THEOREM PostsAreNotRefused == Spec => []PostIsIdempotent
<1>1. ReconInv => PostIsIdempotent
  <2> SUFFICES ASSUME ReconInv, NEW c \in Callers, Posts(c),
                      LET h == copy[c].it.history
                      IN  Cardinality({k \in DOMAIN h : h[k].to = "confirming"}) = 1
               PROVE  Accepted(c)
    BY DEF PostIsIdempotent
  <2>b. BooksInv
    BY DEF ReconInv
  <2>1. PICK it : it = copy[c].it
    OBVIOUS
  <2>2. PICK h : h = it.history
    OBVIOUS
  <2>3. PICK i \in Intents, n \in Nat :
          /\ i = check[c].intent /\ store[i] = it
          /\ n \in DOMAIN h /\ h[n].to = "confirming"
          /\ it.version = n + 1 /\ it.tx \in Txs /\ h[n].tx = it.tx
    <3>1. check[c].pc \in Looking /\ store[check[c].intent] = it
      BY <2>1 DEF Posts, Looking
    <3>2. QED
      BY <3>1, <2>1, <2>2, WhatCheckRead
  <2>4. PICK e : e = PostEntry(i, it)
    OBVIOUS
  <2>5. /\ e.id = <<i, "post">> /\ e.kind = "post" /\ e.holds = <<i, "hold">>
        /\ e.ref = i /\ e.asset = "asset" /\ J!Valid(e)
    BY <2>3, <2>4, PostFields, PostIsValid
  <2>6. J!RowsOf(<<i, "post">>) = PostsOf(i)
    BY DEF J!RowsOf, PostsOf
  <2>7. CASE PostsOf(i) = {}
    <3>1. J!New(e)
      BY <2>5, <2>6, <2>7 DEF J!New, J!Known
    <3>2. J!HasHold(e)
      <4>1. PICK k \in DOMAIN books : books[k].entry.id = <<i, "hold">>
        BY <2>3 DEF Posts, Held
      <4>2. k \in J!RowsOf(<<i, "hold">>)
        BY <4>1 DEF J!RowsOf
      <4>3. /\ books[k].entry.kind = "hold" /\ books[k].entry.ref = i
            /\ books[k].entry.asset = "asset"
        BY <4>2, <2>b DEF BooksInv
      <4>4. QED
        BY <2>5, <4>2, <4>3 DEF J!HasHold
    <3>3. e.holds \notin resolved
      BY <2>5, <2>7, <2>b DEF BooksInv
    <3>4. QED
      BY <2>3, <2>1, <2>4, <3>1, <3>2, <3>3
         DEF Accepted, J!Fresh, J!ErrNoSuchHold, J!ErrAlreadyResolved
  <2>8. CASE PostsOf(i) # {}
    <3>1. PICK k \in PostsOf(i) : TRUE
      BY <2>8
    <3>2. PICK m \in DOMAIN h :
            /\ h[m].to = "confirming"
            /\ books[k].entry = PostEntry(i, [version |-> m + 1, tx |-> h[m].tx])
      <4>1. ThePost(i, books[k].entry)
        BY <3>1, <2>b DEF BooksInv
      <4>2. store[i].history = h
        BY <2>2, <2>3
      <4>3. QED
        BY <4>1, <4>2 DEF ThePost
    <3>3. m = n
      <4>1. PICK S : S = {j \in DOMAIN h : h[j].to = "confirming"}
        OBVIOUS
      <4>2. m \in S /\ n \in S /\ Cardinality(S) = 1
        BY <2>1, <2>2, <2>3, <3>2, <4>1
      <4>3. IsFiniteSet(S)
        <5>1. it \in IP!IntentRecord
          BY <2>3, NoneIsNone DEF ReconInv, StoreInv, IP!IntentInv
        <5>2. DOMAIN h = 1 .. Len(h) /\ Len(h) \in Nat
          BY <2>2, <5>1, LenProperties DEF IP!IntentRecord
        <5>3. IsFiniteSet(1 .. Len(h))
          BY <5>2, FS_Interval
        <5>4. QED
          BY <4>1, <5>2, <5>3, FS_Subset
      <4>4. QED
        BY <4>2, <4>3, FS_Singleton
    <3>4. PICK r : r = [version |-> n + 1, tx |-> h[n].tx]
      OBVIOUS
    <3>5. r.version = it.version /\ r.tx = it.tx
      BY <2>3, <3>4
    <3>6. PostEntry(i, r) = e
      BY <2>4, <3>5 DEF PostEntry
    <3>7. books[k].entry = e
      BY <3>2, <3>3, <3>4, <3>6
    <3>8. k \in J!RowsOf(e.id)
      BY <2>5, <2>6, <3>1
    <3>9. J!Replay(e)
      BY <2>5, <3>7, <3>8 DEF J!Replay, J!Same
    <3>10. QED
      BY <2>1, <2>3, <2>4, <3>9 DEF Accepted
  <2>9. QED
    BY <2>7, <2>8
<1>2. QED
  BY <1>1, ReconInvHolds, PTL
=============================================================================
