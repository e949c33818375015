------------------------------ MODULE Counter ------------------------------
(***************************************************************************)
(* The nonce line: txseq.Counter, the Sequencer of the EVM nonce and the   *)
(* TON seqno.  Every sending account has one counter and a semaphore of    *)
(* capacity one, so an account has at most one number out at a time.  A    *)
(* caller takes a number (Reserve, or ReserveGap to fill a gap), sends the *)
(* transaction, and resolves the reservation with what is known about the  *)
(* send.  Sync aligns the counter with the chain.                          *)
(*                                                                         *)
(* A call that returns ErrGap, ErrNoGap, ErrBusy or the context's error    *)
(* changes nothing; its condition is an operator that the callers use.     *)
(***************************************************************************)
EXTENDS Integers

CONSTANTS Accounts,     \* the sending accounts (wallets)
          Holders,      \* the callers that take numbers (relayer workers)
          None,         \* a nil pointer: no number, no reservation
          MaxNumber,    \* bound: numbers below it are handed out
          Boot          \* bound: the chain's next number when the process starts

ASSUME CounterAssumption ==
  /\ MaxNumber \in Nat
  /\ Boot \in Nat
  /\ None \notin Nat

VARIABLES next,   \* next[a]: account.next, the number the next Reserve gives
          out,    \* out[a]:  account.out, the number out and not resolved, or None
          gap,    \* gap[a]:  account.gap, the number unaccounted for, or None
          res,    \* res[h]:  the reservation caller h holds, or None
          live,   \* live[a]: history: numbers resolved "sent" or "unknown"
          undone, \* undone[a]: history: live numbers that Sync took the counter
                  \* back over, until they are sent again
          mined   \* mined[a]: the chain's next number of a (external)

counterVars == <<next, out, gap, res, live, undone, mined>>

\* txseq.Sent: what is known about a send when its reservation is resolved.
Sent == {"sent", "not-sent", "unknown"}

\* txseq.Reservation of an ordered chain.
Reservation == [acct : Accounts, value : Nat, fill : BOOLEAN]

Init ==
  /\ next = [a \in Accounts |-> 0]
  /\ out = [a \in Accounts |-> None]
  /\ gap = [a \in Accounts |-> None]
  /\ res = [h \in Holders |-> None]
  /\ live = [a \in Accounts |-> {}]
  /\ undone = [a \in Accounts |-> {}]
  /\ mined \in [Accounts -> 0 .. Boot]
-----------------------------------------------------------------------------
\* Mutant of Free: the semaphore is not waited for.
AlwaysFree(a) == TRUE

\* The semaphore token of account a is available: nobody holds its number.
\* A caller without it waits until its context ends and then changes nothing.
Free(a) == out[a] = None

\* Reserve answers ErrGap, ReserveGap answers ErrNoGap.
ErrGap(a) == Free(a) /\ gap[a] # None
ErrNoGap(a) == Free(a) /\ gap[a] = None

\* Hand number v of account a to caller h.
Give(h, a, v, fill) ==
  /\ out' = [out EXCEPT ![a] = v]
  /\ res' = [res EXCEPT ![h] = [acct |-> a, value |-> v, fill |-> fill]]

\* Counter.Reserve: the next number, and the counter moves past it.
Reserve(h, a) ==
  /\ ErrNoGap(a)
  /\ res[h] = None
  /\ next[a] < MaxNumber
  /\ Give(h, a, next[a], FALSE)
  /\ next' = [next EXCEPT ![a] = @ + 1]
  /\ UNCHANGED <<gap, live, undone, mined>>

\* Counter.ReserveGap: the gap's number once more, for a replacement.
ReserveGap(h, a) ==
  /\ ErrGap(a)
  /\ res[h] = None
  /\ Give(h, a, gap[a], TRUE)
  /\ UNCHANGED <<next, gap, live, undone, mined>>
-----------------------------------------------------------------------------
\* Plausible bugs of the rewind, exchanged for NextAfter by the mutants: an
\* unknown send rewinds; nothing rewinds.
UnknownRewinds(r, s) ==
  IF ~r.fill /\ s # "sent" THEN r.value ELSE next[r.acct]
NeverRewinds(r, s) == next[r.acct]

\* Where Resolve leaves the counter of r's account.  Filling a gap never
\* moves it; a number that was certainly not sent is taken back.
NextAfter(r, s) ==
  IF ~r.fill /\ s = "not-sent" THEN r.value ELSE next[r.acct]

\* Where Resolve leaves the gap of r's account: a fill that was sent closes
\* it, a first send of unknown outcome opens one.
GapAfter(r, s) ==
  IF r.fill THEN IF s = "sent" THEN None ELSE gap[r.acct]
            ELSE IF s = "unknown" THEN r.value ELSE gap[r.acct]

\* Counter.Resolve: settle the outstanding number and free the account.
\* A reservation that is not the outstanding one is refused with ErrStale;
\* Outstanding says that this never happens to a caller that resolves once.
Resolve(h, s) ==
  /\ res[h] # None
  /\ LET r == res[h]
     IN  /\ out[r.acct] = r.value
         /\ next' = [next EXCEPT ![r.acct] = NextAfter(r, s)]
         /\ gap' = [gap EXCEPT ![r.acct] = GapAfter(r, s)]
         /\ out' = [out EXCEPT ![r.acct] = None]
         /\ live' = [live EXCEPT ![r.acct] =
                       IF s = "not-sent" THEN @ ELSE @ \union {r.value}]
         /\ undone' = [undone EXCEPT ![r.acct] =
                         IF r.fill \/ s = "not-sent" THEN @ ELSE @ \ {r.value}]
  /\ res' = [res EXCEPT ![h] = None]
  /\ UNCHANGED mined
-----------------------------------------------------------------------------
\* External: a block takes the transaction that carries the account's next
\* number.  One of unknown outcome may or may not be there to be taken.
Mine(a) ==
  /\ mined[a] \in live[a]
  /\ mined' = [mined EXCEPT ![a] = @ + 1]
  /\ UNCHANGED <<next, out, gap, res, live, undone>>

\* What was sent, or may have been, and the chain has not taken yet.
Pending(a) == {n \in live[a] : n >= mined[a]}

\* Counter.Sync with the chain's next number (eth_getTransactionCount at
\* "latest"); refused with ErrBusy while a number is out.  The gap goes only
\* when the chain has walked past it.
Sync(a) ==
  /\ Free(a)
  /\ next' = [next EXCEPT ![a] = mined[a]]
  /\ gap' = [gap EXCEPT ![a] =
               IF @ # None /\ mined[a] > @ THEN None ELSE @]
  /\ undone' = [undone EXCEPT ![a] = @ \union Pending(a)]
  /\ UNCHANGED <<out, res, live, mined>>

Next ==
  \/ \E h \in Holders, a \in Accounts : Reserve(h, a) \/ ReserveGap(h, a)
  \/ \E h \in Holders, s \in Sent : Resolve(h, s)
  \/ \E a \in Accounts : Mine(a) \/ Sync(a)

Spec == Init /\ [][Next]_counterVars
-----------------------------------------------------------------------------
CounterTypeOK ==
  /\ next \in [Accounts -> Nat]
  /\ out \in [Accounts -> Nat \union {None}]
  /\ gap \in [Accounts -> Nat \union {None}]
  /\ res \in [Holders -> Reservation \union {None}]
  /\ live \in [Accounts -> SUBSET Nat]
  /\ undone \in [Accounts -> SUBSET Nat]
  /\ mined \in [Accounts -> Nat]

\* A caller's reservation is the one its account has out, until the caller
\* itself resolves it: nothing (another caller, Sync) takes it away or hands
\* it to a second caller, so Resolve never answers ErrStale.
Outstanding ==
  /\ \A h \in Holders : res[h] # None => out[res[h].acct] = res[h].value
  /\ \A g, h \in Holders :
       g # h /\ res[g] # None /\ res[h] # None => res[g].acct # res[h].acct

\* Reserve never hands out a number whose transaction was sent, or may have
\* been: reusing a nonce that may sit in the mempool is the expensive mistake.
\* Only Sync can bring it about, when the chain has not taken that number yet,
\* and then once: NextAfter, the gap that is kept and its fill never do.
NeverReissued ==
  \A h \in Holders :
    res[h] # None /\ ~res[h].fill =>
      res[h].value \notin live[res[h].acct] \ undone[res[h].acct]

\* Every number behind the counter was sent, may have been sent, is out, or
\* was taken by the chain: no number is dropped, which would park everything
\* the account sends later.
NoNumberDropped ==
  \A a \in Accounts : \A n \in 0 .. next[a] - 1 :
    n \in live[a] \/ n = out[a] \/ n < mined[a]
=============================================================================
