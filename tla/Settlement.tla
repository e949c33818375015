----------------------------- MODULE Settlement -----------------------------
(***************************************************************************)
(* The EVM contract contracts/evm/src/Settlement.sol.                      *)
(*                                                                         *)
(* A transaction runs alone, but every token transfer is a call out of the *)
(* contract, in which the payer may call back in before the call returns.  *)
(* So a call is a frame on a stack: the steps it still has to take, and    *)
(* the state to go back to when it reverts.  What the code does between    *)
(* two transfers is a few steps that nothing else can come between.        *)
(*                                                                         *)
(* The token moves the exact amount, or takes a fee on the way (Fee), or   *)
(* fails.  The party called back is the payer, who is not on the relayer   *)
(* list.                                                                   *)
(***************************************************************************)
EXTENDS Token, SequencesExt

CONSTANTS
    Relayer,
    Contract,
    Collector,      \* the fee recipient of an escrow
    PermitUntil,    \* the deadline of the permits the payer signs
    HoldFee,        \* what the collector gets when an escrow is released
    MaxDepth        \* bound: calls inside calls

VARIABLES
    paid,           \* the refs taken
    holds,          \* the escrows, by ref
    isRelayer,      \* whether Relayer is on the list
    fee,            \* what the token keeps of each transfer
    stack           \* the calls in progress, innermost first

Does(what) == stack # <<>> /\ Head(stack).code # <<>> /\ Head(Head(stack).code).do = what
This == Head(Head(stack).code)

\* The innermost call takes its next step.
Advance == stack' = <<[Head(stack) EXCEPT !.code = Tail(@)]>> \o Tail(stack)

\* A new transaction, or the payer called back during a transfer.
MayCall(who) ==
    \/ stack = <<>> /\ (who = Relayer => isRelayer)
    \/ /\ who = Payer
       /\ Len(stack) < MaxDepth
       /\ Does("move") \/ Does("moved")

Call(who, code) ==
    /\ MayCall(who)
    /\ stack' = <<[code |-> code, before |-> 0,
                   saved |-> [bal |-> bal, credits |-> credits, paid |-> paid, holds |-> holds]]>>
                \o stack
    /\ UNCHANGED <<now, bal, credits, paid, holds, isRelayer, fee>>

-----------------------------------------------------------------------------
(* The entry points: who may call them, and what they do in which order.   *)

Move(ref, from, to, amount) ==
    << [do |-> "move", ref |-> ref, from |-> from, to |-> to, amount |-> amount],
       [do |-> "moved"] >>

\* A slip the comment on _reserve describes: the ref is taken afterwards.
SettleThenReserve(who, it) ==
    Move(it.ref, who, it.account, it.amount) \o <<[do |-> "reserve", ref |-> it.ref]>>

\* _settle: the ref is taken first, and only then the money is moved.
SettleOne(who, it) ==
    <<[do |-> "reserve", ref |-> it.ref]>> \o Move(it.ref, who, it.account, it.amount)

Pay(it) == Call(Payer, SettleOne(Payer, it))

Settle(it) == Call(Relayer, SettleOne(Payer, it))

\* The same through Permit2, on a signature of the payer for this ref and
\* merchant.  The ref is its nonce, so it is spent exactly when paid is set.
SettleWithPermit(it) == now <= PermitUntil /\ Call(Relayer, SettleOne(Payer, it))

\* The three steps of the first item, then those of the second, and so on.
SettleBatch(items) ==
    Call(Relayer, [k \in 1..(3 * Len(items)) |->
                      SettleOne(Payer, items[((k - 1) \div 3) + 1])[((k - 1) % 3) + 1]])

HoldOf(it, refundAfter) ==
    [ref |-> it.ref, payer |-> Payer, merchant |-> it.account, amount |-> it.amount,
     fee |-> HoldFee, refundAfter |-> refundAfter]

\* Each escrow has its own line after which the payer may take it back unasked.
Hold(it, refundAfter) ==
    /\ HoldFee < it.amount
    /\ now < refundAfter
    /\ Call(Relayer, <<[do |-> "reserve", ref |-> it.ref], [do |-> "measure"]>>
                     \o Move(it.ref, Payer, Contract, it.amount)
                     \o <<[do |-> "record", hold |-> HoldOf(it, refundAfter)]>>)

Release(ref) ==
    /\ ref \in DOMAIN holds
    /\ LET h == holds[ref]
       IN  Call(Relayer, <<[do |-> "drop", ref |-> ref]>>
                         \o Move(ref, Contract, h.merchant, h.amount - h.fee)
                         \o (IF h.fee > 0 THEN Move(ref, Contract, Collector, h.fee) ELSE <<>>))

Refund(who, ref) ==
    /\ ref \in DOMAIN holds
    /\ who # Relayer => holds[ref].payer = who /\ now >= holds[ref].refundAfter
    /\ Call(who, <<[do |-> "drop", ref |-> ref]>>
                 \o Move(ref, Contract, holds[ref].payer, holds[ref].amount))

\* The owner changes the relayer list.
SetRelayer(allowed) ==
    /\ stack = <<>>
    /\ isRelayer' = allowed
    /\ UNCHANGED <<now, bal, credits, paid, holds, fee, stack>>

-----------------------------------------------------------------------------
(* The steps of a call.                                                    *)

Reserve ==
    /\ Does("reserve")
    /\ This.ref \notin paid
    /\ paid' = paid \cup {This.ref}
    /\ Advance
    /\ UNCHANGED <<now, bal, credits, holds, isRelayer, fee>>

Measure ==
    /\ Does("measure")
    /\ stack' = <<[Head(stack) EXCEPT !.code = Tail(@), !.before = bal[Contract]]>> \o Tail(stack)
    /\ UNCHANGED <<now, bal, credits, paid, holds, isRelayer, fee>>

\* The transfer itself, of a token that may keep something for itself.
Transfer ==
    /\ Does("move")
    /\ bal[This.from] >= This.amount
    /\ bal' = [bal EXCEPT ![This.from] = @ - This.amount,
                          ![This.to]   = @ + (IF fee < This.amount THEN This.amount - fee ELSE 0)]
    /\ credits' = IF This.to \in {Payer, Contract, Collector} THEN credits
                  ELSE Credited(<<[ref |-> This.ref, account |-> This.to, amount |-> This.amount]>>)
    /\ Advance
    /\ UNCHANGED <<now, paid, holds, isRelayer, fee>>

Moved ==
    /\ Does("moved")
    /\ Advance
    /\ UNCHANGED <<now, bal, credits, paid, holds, isRelayer, fee>>

\* A slip: the amount asked for is taken for the amount that arrived.
TakenOnTrust(h) == h.amount > 0

\* The deposit is what arrived, so a record is money in the contract.
ArrivedWhole(h) == bal[Contract] - Head(stack).before = h.amount

Record ==
    /\ Does("record")
    /\ ArrivedWhole(This.hold)
    /\ holds' = With(holds, This.hold.ref, This.hold)
    /\ Advance
    /\ UNCHANGED <<now, bal, credits, paid, isRelayer, fee>>

Drop ==
    /\ Does("drop")
    /\ holds' = Restrict(holds, DOMAIN holds \ {This.ref})
    /\ Advance
    /\ UNCHANGED <<now, bal, credits, paid, isRelayer, fee>>

\* The call returns to whoever made it.
Leave ==
    /\ stack # <<>>
    /\ Head(stack).code = <<>>
    /\ stack' = Tail(stack)
    /\ UNCHANGED <<now, bal, credits, paid, holds, isRelayer, fee>>

\* A failed require, or a transfer the token refuses: everything since the
\* call began is undone, and the caller goes on or fails in turn.
Fails ==
    \/ Does("move")
    \/ Does("reserve") /\ This.ref \in paid
    \/ Does("record") /\ ~ArrivedWhole(This.hold)

Revert ==
    /\ Fails
    /\ bal' = Head(stack).saved.bal
    /\ credits' = Head(stack).saved.credits
    /\ paid' = Head(stack).saved.paid
    /\ holds' = Head(stack).saved.holds
    /\ stack' = Tail(stack)
    /\ UNCHANGED <<now, isRelayer, fee>>
=============================================================================
