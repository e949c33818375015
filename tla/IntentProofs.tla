---------------------------- MODULE IntentProofs ----------------------------
(***************************************************************************)
(* Theorems of Intent, for every set of intents, clients and hashes and    *)
(* every number of versions.  What the table guarantees is said of one     *)
(* record (Sound) and kept by Apply; what the compare-and-swap guarantees  *)
(* is that a copy at the store's version is the store's record.            *)
(***************************************************************************)
EXTENDS Intent, SequenceTheorems, TLAPS

\* What every record has, saved or not: its shape, its history, and the hash
\* of the history when it is confirming, or settled by a listener.
Sound(it) ==
  /\ WellFormed(it) /\ Walk(it)
  /\ it.state = "confirming" => it.history[Len(it.history)].tx = it.tx
  /\ it.state = "settled" /\ it.history[Len(it.history)].by = "listener"
       => LastConfirmed(it)

\* A copy is of a saved intent, not ahead of it, and the same at its version.
CopyIsPast ==
  \A c \in Clients : copy[c] # None =>
    LET saved == store[copy[c].id]
    IN  /\ saved # None
        /\ copy[c].it.version <= saved.version
        /\ copy[c].it.version = saved.version => copy[c].it = saved

IntentInv ==
  /\ store \in [Intents -> IntentRecord \union {None}]
  /\ copy \in [Clients -> Copy \union {None}]
  /\ \A i \in Intents : store[i] # None => Sound(store[i])
  /\ \A c \in Clients : copy[c] # None => Sound(copy[c].it)
  /\ CopyIsPast
-----------------------------------------------------------------------------
\* What Accepts lets through is a row of the table, by one of its actors and
\* with its evidence.
LEMMA AcceptedRows ==
  ASSUME NEW it, NEW req \in Requests, Accepts(it, req)
  PROVE  /\ it.state # req.to /\ it.state \notin Terminals
         /\ \E r \in Rules : r.from = it.state /\ r.to = req.to /\ req.by \in r.by
         /\ req.to = "confirming" => req.tx # None
         /\ req.to \in {"authorized", "canceled"} =>
              it.state \in {"created", "authorized"}
         /\ req.to = "authorized" => it.state = "created"
         /\ req.to = "settled" /\ req.by = "listener" => it.state = "confirming"
         /\ req.to = "settled" => it.tx \in {None, req.tx}
         /\ req.to # "created"
<1>1. PICK r \in Rules : /\ r.from = it.state /\ r.to = req.to
                         /\ req.by \in r.by /\ r.needs \subseteq Evidence(req)
  BY DEF Accepts
<1>2. /\ r.to # "created"
      /\ r.to = "confirming" => "tx" \in r.needs
      /\ r.to \in {"authorized", "canceled"} => r.from \in {"created", "authorized"}
      /\ r.to = "authorized" => r.from = "created"
      /\ r.to = "settled" /\ "listener" \in r.by => r.from = "confirming"
  BY DEF Rules, Row
<1>3. req.to = "confirming" => req.tx # None
  BY <1>1, <1>2 DEF Evidence
<1>4. QED
  BY <1>1, <1>2, <1>3 DEF Accepts, Guard

\* The history after Apply: the one before, and one step more.
LEMMA AppliedHistory ==
  ASSUME NEW it, Sound(it), NEW req \in Requests
  PROVE  LET h == it.history
             g == Applied(it, req).history
         IN  /\ Len(h) \in Nat
             /\ DOMAIN h = 1 .. Len(h)
             /\ g \in Seq(Transition)
             /\ Len(g) = Len(h) + 1
             /\ DOMAIN g = 1 .. Len(h) + 1
             /\ \A k \in 1 .. Len(h) : g[k] = h[k]
             /\ g[Len(h) + 1] = [from |-> it.state, to |-> req.to,
                                 by |-> req.by, tx |-> req.tx]
<1>1. it.history \in Seq(Transition) /\ it.state \in States
  BY DEF Sound, WellFormed, IntentRecord
<1>2. [from |-> it.state, to |-> req.to, by |-> req.by, tx |-> req.tx]
        \in Transition
  BY <1>1 DEF Requests, Transition
<1>3. QED
  BY <1>1, <1>2, AppendProperties, LenProperties DEF Applied

\* Its last step is the request's.
LEMMA AppliedLast ==
  ASSUME NEW it, Sound(it), NEW req \in Requests, NEW new, new = Applied(it, req)
  PROVE  /\ new.state = req.to /\ new.tx = TxAfter(it, req)
         /\ new.history[Len(new.history)].by = req.by
<1>1. new.state = req.to /\ new.tx = TxAfter(it, req)
  BY DEF Applied
<1>2. PICK n \in Nat : n = Len(it.history)
  BY AppliedHistory
<1>3. PICK g : g = Applied(it, req).history
  OBVIOUS
<1>4. PICK e : e = [from |-> it.state, to |-> req.to, by |-> req.by,
                    tx |-> req.tx]
  OBVIOUS
<1>5. Len(g) = n + 1 /\ g[n + 1] = e
  BY <1>2, <1>3, <1>4, AppliedHistory
<1>6. e.by = req.by
  BY <1>4
<1>7. QED
  BY <1>1, <1>3, <1>5, <1>6

\* Apply keeps a record sound.
LEMMA ApplyIsSound ==
  ASSUME NEW it, Sound(it), NEW req \in Requests, Accepts(it, req)
  PROVE  /\ Sound(Applied(it, req)) /\ Applied(it, req) \in IntentRecord
         /\ Applied(it, req).version = it.version + 1
         /\ it.version \in Nat
<1>1. PICK n \in Nat : n = Len(it.history)
  BY AppliedHistory
<1>2. PICK g : g = Applied(it, req).history
  OBVIOUS
<1>3. /\ DOMAIN it.history = 1 .. n
      /\ g \in Seq(Transition)
      /\ Len(g) = n + 1
      /\ DOMAIN g = 1 .. n + 1
      /\ \A k \in 1 .. n : g[k] = it.history[k]
      /\ g[n + 1] = [from |-> it.state, to |-> req.to, by |-> req.by,
                     tx |-> req.tx]
  BY <1>1, <1>2, AppliedHistory
<1>4. /\ it \in IntentRecord /\ it.version \in Nat /\ it.version = n + 1
      /\ it.state = Reached(it.history, n)
      /\ it.tx \in Hashes \union {None}
      /\ req.to \in States /\ req.tx \in Hashes \union {None}
  BY <1>1 DEF Sound, WellFormed, IntentRecord, Walk, Requests
<1>5. PICK new : new = Applied(it, req)
  OBVIOUS
<1>6. /\ new = [state |-> req.to, version |-> it.version + 1,
                tx |-> TxAfter(it, req), history |-> g]
      /\ new.state = req.to /\ new.version = n + 2
      /\ new.tx = TxAfter(it, req) /\ new.history = g
  BY <1>2, <1>4, <1>5 DEF Applied
<1>7. new \in IntentRecord
  <2>1. TxAfter(it, req) \in Hashes \union {None}
    BY <1>4 DEF TxAfter
  <2>2. QED
    BY <2>1, <1>3, <1>4, <1>6 DEF IntentRecord
<1>8. WellFormed(new)
  <2>1. new.state \in {"created", "authorized", "settling"} => new.tx = None
    BY <1>6, AcceptedRows DEF TxAfter, Sound, WellFormed
  <2>2. new.state = "confirming" => new.tx # None
    BY <1>6, AcceptedRows DEF TxAfter
  <2>3. QED
    BY <1>7, <2>1, <2>2 DEF WellFormed
<1>9. Walk(new)
  <2>1. new.state = Reached(g, n + 1)
    BY <1>1, <1>3, <1>6 DEF Reached
  <2>2. ASSUME NEW k \in 1 .. n + 1
        PROVE  /\ g[k].from = Reached(g, k - 1)
               /\ \E r \in Rules : r.from = g[k].from /\ r.to = g[k].to
                                   /\ g[k].by \in r.by
    <3>1. CASE k = n + 1
      <4>1. g[k].from = it.state /\ g[k].to = req.to /\ g[k].by = req.by
        BY <3>1, <1>3
      <4>2. it.state = Reached(g, n)
        BY <1>1, <1>3, <1>4 DEF Reached
      <4>3. QED
        BY <3>1, <4>1, <4>2, <1>1, AcceptedRows
    <3>2. CASE k \in 1 .. n
      <4>1. /\ it.history[k].from = Reached(it.history, k - 1)
            /\ \E r \in Rules : /\ r.from = it.history[k].from
                                /\ r.to = it.history[k].to
                                /\ it.history[k].by \in r.by
        BY <3>2, <1>3 DEF Sound, Walk
      <4>2. Reached(g, k - 1) = Reached(it.history, k - 1)
        BY <3>2, <1>1, <1>3 DEF Reached
      <4>3. QED
        BY <3>2, <4>1, <4>2, <1>3
    <3>3. QED
      BY <3>1, <3>2, <1>1
  <2>3. QED
    BY <2>1, <2>2, <1>1, <1>3, <1>6 DEF Walk
<1>10. new.state = "confirming" => g[n + 1].tx = new.tx
  BY <1>3, <1>6 DEF TxAfter
<1>11. ASSUME new.state = "settled", g[n + 1].by = "listener"
       PROVE  LastConfirmed(new)
  <2>0. req.to = "settled" /\ req.by = "listener"
    BY <1>3, <1>6, <1>11
  <2>1. it.state = "confirming" /\ it.tx \in {None, req.tx}
    BY <2>0, AcceptedRows
  <2>2. it.tx # None /\ it.history[n].tx = it.tx
    BY <2>1, <1>1 DEF Sound, WellFormed
  <2>3. n \in 1 .. n /\ it.history[n].to = "confirming"
    BY <2>1, <1>1, <1>4 DEF Reached
  <2>4. g[n].to = "confirming" /\ g[n].tx = new.tx
    BY <2>1, <2>2, <2>3, <1>3, <1>6, <1>11 DEF TxAfter
  <2>5. g[n + 1].to # "confirming"
    BY <1>3, <1>6, <1>11
  <2>6. \A j \in 1 .. n + 1 : g[j].to = "confirming" => j <= n
    BY <2>5, <1>1
  <2>7. n \in DOMAIN g
    BY <1>1, <1>3, <2>3
  <2>8. QED
    BY <2>4, <2>6, <2>7, <1>3, <1>6 DEF LastConfirmed
<1>12. QED
  BY <1>3, <1>4, <1>5, <1>6, <1>7, <1>8, <1>9, <1>10, <1>11 DEF Sound
-----------------------------------------------------------------------------
\* New makes a sound record.
LEMMA NewIsSound == NewIntent \in IntentRecord /\ Sound(NewIntent)
<1>1. NewIntent \in IntentRecord /\ WellFormed(NewIntent)
  BY DEF NewIntent, IntentRecord, States, WellFormed
<1>2. QED
  BY <1>1 DEF NewIntent, Sound, Walk, Reached

\* Every step keeps saved records and copies sound, and copies in the past.
LEMMA IntentInvInductive == IntentInv /\ [Next]_intentVars => IntentInv'
<1> SUFFICES ASSUME IntentInv, [Next]_intentVars PROVE IntentInv'
  OBVIOUS
<1>t. /\ store \in [Intents -> IntentRecord \union {None}]
      /\ copy \in [Clients -> Copy \union {None}]
  BY DEF IntentInv
<1>s. /\ \A i \in Intents : store[i] # None => Sound(store[i])
      /\ \A c \in Clients : copy[c] # None => Sound(copy[c].it)
      /\ CopyIsPast
  BY DEF IntentInv
<1>c. \A c \in Clients : copy[c] # None =>
        /\ copy[c] \in Copy /\ copy[c].id \in Intents
        /\ store[copy[c].id] # None
        /\ copy[c].it.version <= store[copy[c].id].version
        /\ copy[c].it.version = store[copy[c].id].version =>
             copy[c].it = store[copy[c].id]
  BY <1>t, <1>s DEF CopyIsPast, Copy
<1>v. /\ \A i \in Intents : store[i] # None => store[i].version \in Nat
      /\ \A c \in Clients : copy[c] # None => copy[c].it.version \in Nat
  BY <1>t DEF IntentRecord, Copy
<1>1. ASSUME NEW i \in Intents, Create(i)
      PROVE  IntentInv'
  <2>1. NewIntent \in IntentRecord
    BY NewIsSound
  <2>2. Sound(NewIntent)
    BY NewIsSound
  <2>3. /\ store' = [store EXCEPT ![i] = NewIntent] /\ copy' = copy
        /\ store[i] = None
    BY <1>1 DEF Create
  <2>4. CopyIsPast'
    BY <2>3, <1>t, <1>c DEF CopyIsPast
  <2>5. QED
    BY <2>1, <2>2, <2>3, <2>4, <1>t, <1>s DEF IntentInv
<1>2. ASSUME NEW i \in Intents, NEW req \in Requests, AdvanceNow(i, req)
      PROVE  IntentInv'
  <2>1. PICK it : it = Applied(store[i], req)
    OBVIOUS
  <2>2. /\ store' = [store EXCEPT ![i] = it] /\ copy' = copy
        /\ store[i] # None /\ Accepts(store[i], req)
    BY <1>2, <2>1 DEF AdvanceNow
  <2>3. Sound(it) /\ it \in IntentRecord /\ it.version = store[i].version + 1
    BY <2>1, <2>2, <1>s, ApplyIsSound
  <2>4. CopyIsPast'
    BY <2>2, <2>3, <1>t, <1>c, <1>v, NoneIsNoIntent DEF CopyIsPast
  <2>5. QED
    BY <2>2, <2>3, <2>4, <1>t, <1>s DEF IntentInv
<1>3. ASSUME NEW c \in Clients, NEW req \in Requests, Advance(c, req)
      PROVE  IntentInv'
  <2>1. PICK i \in Intents : i = copy[c].id
    BY <1>3, <1>c DEF Advance
  <2>2. PICK it : it = Applied(copy[c].it, req)
    OBVIOUS
  <2>3. /\ store' = [store EXCEPT ![i] = it]
        /\ copy' = [copy EXCEPT ![c].it = it]
        /\ copy[c] # None /\ Accepts(copy[c].it, req)
        /\ store[i].version = copy[c].it.version
    BY <1>3, <2>1, <2>2 DEF Advance, Current
  <2>4. Sound(it) /\ it \in IntentRecord /\ it.version = store[i].version + 1
    BY <2>2, <2>3, <1>s, ApplyIsSound
  <2>5. copy[c] \in Copy /\ [copy[c] EXCEPT !.it = it] \in Copy
    BY <2>3, <2>4, <1>c DEF Copy
  <2>6. copy' = [copy EXCEPT ![c] = [copy[c] EXCEPT !.it = it]]
    BY <2>3
  <2>7. /\ copy'[c].it = it /\ copy'[c].id = i
        /\ \A d \in Clients : d # c => copy'[d] = copy[d]
    BY <2>1, <2>5, <2>6, <1>t DEF Copy
  <2>8. /\ store'[i] = it
        /\ \A j \in Intents : j # i => store'[j] = store[j]
    BY <2>3, <1>t
  <2>9. CopyIsPast'
    <3> SUFFICES ASSUME NEW d \in Clients, copy'[d] # None
                 PROVE  /\ store'[copy'[d].id] # None
                        /\ copy'[d].it.version <= store'[copy'[d].id].version
                        /\ copy'[d].it.version = store'[copy'[d].id].version
                             => copy'[d].it = store'[copy'[d].id]
      BY DEF CopyIsPast
    <3>1. it # None /\ it.version \in Nat /\ store[i].version \in Nat
      BY <2>1, <2>3, <2>4, <1>c, <1>v, NoneIsNoIntent DEF IntentRecord
    <3>2. CASE d = c
      BY <3>1, <3>2, <2>7, <2>8
    <3>3. CASE d # c /\ copy[d].id = i
      BY <3>1, <3>3, <2>4, <2>7, <2>8, <1>c, <1>v
    <3>4. CASE d # c /\ copy[d].id # i
      BY <3>4, <2>7, <2>8, <1>c
    <3>5. QED
      BY <3>2, <3>3, <3>4
  <2>10. QED
    BY <2>3, <2>4, <2>5, <2>6, <2>7, <2>8, <2>9, <1>t, <1>s DEF IntentInv
<1>4. ASSUME NEW c \in Clients, NEW i \in Intents, Read(c, i)
      PROVE  IntentInv'
  <2>1. /\ store' = store /\ store[i] # None
        /\ copy' = [copy EXCEPT ![c] = [id |-> i, it |-> store[i]]]
    BY <1>4 DEF Read
  <2>2. [id |-> i, it |-> store[i]] \in Copy
    BY <2>1, <1>t DEF Copy
  <2>3. /\ copy'[c].id = i /\ copy'[c].it = store[i]
        /\ \A d \in Clients : d # c => copy'[d] = copy[d]
    BY <2>1, <1>t
  <2>4. CopyIsPast'
    BY <2>1, <2>3, <1>c, <1>v DEF CopyIsPast
  <2>5. QED
    BY <2>1, <2>2, <2>3, <2>4, <1>t, <1>s DEF IntentInv
<1>5. ASSUME NEW c \in Clients,
             store' = store, copy' = [copy EXCEPT ![c] = None]
      PROVE  IntentInv'
  BY <1>5, <1>t, <1>s, <1>c DEF IntentInv, CopyIsPast
<1>6. ASSUME NEW c \in Clients, NEW req \in Requests, Conflict(c, req)
      PROVE  IntentInv'
  BY <1>5, <1>6 DEF Conflict
<1>7. ASSUME NEW c \in Clients, Forget(c)
      PROVE  IntentInv'
  BY <1>5, <1>7 DEF Forget
<1>8. CASE UNCHANGED intentVars
  BY <1>8, <1>t, <1>s DEF intentVars, IntentInv, CopyIsPast
<1>9. QED
  BY <1>1, <1>2, <1>3, <1>4, <1>6, <1>7, <1>8 DEF Next

LEMMA IntentInvHolds == Spec => []IntentInv
<1>1. Init => IntentInv
  BY DEF Init, IntentInv, CopyIsPast
<1>2. QED
  BY <1>1, IntentInvInductive, PTL DEF Spec
-----------------------------------------------------------------------------
\* Whoever saves an intent, its record becomes what Apply makes of the saved
\* one: a copy that is current is the saved record.
LEMMA SavesApply ==
  ASSUME IntentInv, [Next]_intentVars, NEW i \in Intents,
         store[i] # None, store'[i] # store[i]
  PROVE  \E req \in Requests : /\ store'[i] = Applied(store[i], req)
                               /\ Accepts(store[i], req)
<1>t. /\ store \in [Intents -> IntentRecord \union {None}]
      /\ copy \in [Clients -> Copy \union {None}]
  BY DEF IntentInv
<1>1. ASSUME NEW j \in Intents, NEW req \in Requests, AdvanceNow(j, req)
      PROVE  store'[i] = Applied(store[i], req) /\ Accepts(store[i], req)
  BY <1>1, <1>t DEF AdvanceNow
<1>2. ASSUME NEW c \in Clients, NEW req \in Requests, Advance(c, req)
      PROVE  store'[i] = Applied(store[i], req) /\ Accepts(store[i], req)
  <2>1. /\ copy[c].id = i
        /\ store'[i] = Applied(copy[c].it, req)
        /\ copy[c] # None /\ Accepts(copy[c].it, req) /\ Current(c)
    BY <1>2, <1>t DEF Advance
  <2>2. copy[c].it = store[i]
    BY <2>1 DEF Current, IntentInv, CopyIsPast
  <2>3. QED
    BY <2>1, <2>2
<1>3. ASSUME NEW j \in Intents, Create(j)
      PROVE  FALSE
  BY <1>3, <1>t DEF Create
<1>4. QED
  BY <1>1, <1>2, <1>3 DEF Next, Read, Conflict, Forget, intentVars

\* One history is how another begins.
Begins(h, g) == \A n \in DOMAIN h : n \in DOMAIN g /\ g[n] = h[n]
CopiesBegin ==
  \A c \in Clients : copy[c] # None =>
    Begins(copy[c].it.history, store[copy[c].id].history)

LEMMA ApplyExtends ==
  ASSUME NEW it, Sound(it), NEW req \in Requests
  PROVE  Begins(it.history, Applied(it, req).history)
<1>1. PICK n \in Nat : n = Len(it.history)
  BY AppliedHistory
<1>2. PICK g : g = Applied(it, req).history
  OBVIOUS
<1>3. /\ DOMAIN it.history = 1 .. n
      /\ DOMAIN g = 1 .. n + 1
      /\ \A k \in 1 .. n : g[k] = it.history[k]
  BY <1>1, <1>2, AppliedHistory
<1>4. QED
  BY <1>1, <1>2, <1>3 DEF Begins

\* No save rewrites a step of the saved history.
LEMMA SavesExtend ==
  ASSUME IntentInv, [Next]_intentVars, NEW i \in Intents, store[i] # None
  PROVE  store'[i] # None /\ Begins(store[i].history, store'[i].history)
<1>1. CASE store'[i] = store[i]
  BY <1>1 DEF Begins
<1>2. CASE store'[i] # store[i]
  <2>1. PICK req \in Requests : /\ store'[i] = Applied(store[i], req)
                                /\ Accepts(store[i], req)
    BY <1>2, SavesApply
  <2>2. PICK it : it = store[i] /\ Sound(it)
    BY DEF IntentInv
  <2>3. Applied(it, req) \in IntentRecord
    BY <2>1, <2>2, ApplyIsSound
  <2>4. Begins(it.history, Applied(it, req).history)
    BY <2>2, ApplyExtends
  <2>5. QED
    BY <2>1, <2>2, <2>3, <2>4, NoneIsNoIntent
<1>3. QED
  BY <1>1, <1>2

\* What a client read or saved stays the beginning of what is saved later.
LEMMA CopiesBeginInductive ==
  IntentInv /\ CopiesBegin /\ [Next]_intentVars => CopiesBegin'
<1> SUFFICES ASSUME IntentInv, CopiesBegin, [Next]_intentVars,
                    NEW c \in Clients, copy'[c] # None
             PROVE  Begins(copy'[c].it.history, store'[copy'[c].id].history)
  BY DEF CopiesBegin
<1>t. /\ store \in [Intents -> IntentRecord \union {None}]
      /\ copy \in [Clients -> Copy \union {None}]
  BY DEF IntentInv
<1>1. CASE copy'[c] = copy[c]
  <2>1. PICK i \in Intents : i = copy[c].id
    BY <1>1, <1>t DEF Copy
  <2>2. store[i] # None /\ Begins(copy[c].it.history, store[i].history)
    BY <1>1, <2>1 DEF CopiesBegin, IntentInv, CopyIsPast
  <2>3. Begins(store[i].history, store'[i].history)
    BY <2>2, SavesExtend
  <2>4. QED
    BY <1>1, <2>1, <2>2, <2>3 DEF Begins
<1>2. CASE copy'[c] # copy[c]
  <2>1. copy'[c].it = store'[copy'[c].id]
    <3>1. ASSUME NEW d \in Clients, NEW i \in Intents, Read(d, i)
          PROVE  copy'[c].it = store'[copy'[c].id]
      BY <1>2, <1>t, <3>1 DEF Read
    <3>2. ASSUME NEW d \in Clients, NEW req \in Requests, Advance(d, req)
          PROVE  copy'[c].it = store'[copy'[c].id]
      <4>1. d = c
        BY <1>2, <1>t, <3>2 DEF Advance
      <4>2. PICK it : it = Applied(copy[c].it, req)
        OBVIOUS
      <4>3. /\ copy' = [copy EXCEPT ![c] = [copy[c] EXCEPT !.it = it]]
            /\ store' = [store EXCEPT ![copy[c].id] = it]
            /\ copy[c] \in Copy
        BY <3>2, <4>1, <4>2, <1>t DEF Advance
      <4>4. copy'[c] = [copy[c] EXCEPT !.it = it]
        BY <4>3, <1>t
      <4>5. copy'[c].it = it /\ copy'[c].id = copy[c].id /\ copy[c].id \in Intents
        BY <4>3, <4>4 DEF Copy
      <4>6. QED
        BY <4>3, <4>5, <1>t
    <3>3. ASSUME NEW d \in Clients, copy' = [copy EXCEPT ![d] = None]
          PROVE  FALSE
      BY <1>2, <1>t, <3>3
    <3>4. QED
      BY <1>2, <3>1, <3>2, <3>3
         DEF Next, Create, AdvanceNow, Conflict, Forget, intentVars
  <2>2. QED
    BY <2>1 DEF Begins
<1>3. QED
  BY <1>1, <1>2
-----------------------------------------------------------------------------
\* Saved intents and copies have their shape: one that waits for a block has
\* no hash of an earlier transaction, and one that is confirming has a hash.
THEOREM IntentTypeCorrect == Spec => []IntentTypeOK
<1>1. IntentInv => IntentTypeOK
  BY DEF IntentInv, IntentTypeOK, Sound
<1>2. QED
  BY <1>1, IntentInvHolds, PTL

\* No interleaving of Apply and Save by any number of clients puts a step in
\* a history that the transition table does not have.
THEOREM HistoriesAreWalks == Spec => []HistoryIsAWalk
<1>1. IntentInv => HistoryIsAWalk
  BY DEF IntentInv, HistoryIsAWalk, Sound
<1>2. QED
  BY <1>1, IntentInvHolds, PTL

\* The guard of Apply on settled: what a listener declares settled is the
\* transaction that went into a block last, after any number of reorgs.
THEOREM SettledHashIsConfirmed == Spec => []SettledByTheConfirmedHash
<1>1. IntentInv => SettledByTheConfirmedHash
  <2> SUFFICES ASSUME IntentInv, NEW i \in Intents, store[i] # None,
                      store[i].state = "settled",
                      store[i].history[Len(store[i].history)].by = "listener"
               PROVE  LastConfirmed(store[i])
    BY DEF SettledByTheConfirmedHash
  <2>1. Sound(store[i])
    BY DEF IntentInv
  <2>2. QED
    BY <2>1 DEF Sound
<1>2. QED
  BY <1>1, IntentInvHolds, PTL

\* Save's compare-and-swap on the version loses no update: a save extends
\* the saved history by one step from its last state.
THEOREM SavesLoseNothing == Spec => NoLostUpdate
<1>1. ASSUME IntentInv, [Next]_intentVars, NEW i \in Intents,
             store[i] # None, store'[i] # store[i]
      PROVE  /\ store[i].state \notin Terminals
             /\ store'[i].version = store[i].version + 1
             /\ store'[i].history =
                  Append(store[i].history, store'[i].history[store[i].version])
             /\ store'[i].history[store[i].version].from = store[i].state
  <2>1. PICK req \in Requests :
          /\ store'[i] = Applied(store[i], req)
          /\ Accepts(store[i], req)
    BY <1>1, SavesApply
  <2>2. Sound(store[i])
    BY <1>1 DEF IntentInv
  <2>3. PICK it : it = store[i] /\ Sound(it) /\ Accepts(it, req)
    BY <2>1, <2>2
  <2>4. PICK e : e = [from |-> it.state, to |-> req.to, by |-> req.by,
                      tx |-> req.tx]
    OBVIOUS
  <2>5. /\ it.version = Len(it.history) + 1
        /\ it.state \notin Terminals
        /\ Applied(it, req).version = it.version + 1
    BY <2>3, ApplyIsSound, AcceptedRows DEF Sound, Walk
  <2>6. Applied(it, req).history[Len(it.history) + 1] = e
    BY <2>3, <2>4, AppliedHistory
  <2>7. Applied(it, req).history = Append(it.history, e)
    BY <2>4 DEF Applied
  <2>8. e.from = it.state
    BY <2>4
  <2>9. QED
    BY <2>1, <2>3, <2>5, <2>6, <2>7, <2>8
<1>2. IntentInv /\ [Next]_intentVars =>
        [\A i \in Intents : store[i] # None /\ store'[i] # store[i] =>
          /\ store[i].state \notin Terminals
          /\ store'[i].version = store[i].version + 1
          /\ store'[i].history =
               Append(store[i].history, store'[i].history[store[i].version])
          /\ store'[i].history[store[i].version].from = store[i].state
        ]_intentVars
  BY <1>1
<1>3. QED
  BY <1>2, IntentInvHolds, PTL DEF Spec, NoLostUpdate
=============================================================================
