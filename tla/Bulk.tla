-------------------------------- MODULE Bulk --------------------------------
(***************************************************************************)
(* From a payout file to a plan: internal/intake reads the file row by     *)
(* row, internal/bulk cuts what it accepted into batches, and Trace says   *)
(* which lines of the file a batch stands for.                             *)
(*                                                                         *)
(* A row carries what it should say and, in fault, the column that is      *)
(* unreadable: "none", "fields", "intent_id", "merchant" or "amount".      *)
(* Lines are numbered from 1 without the header.                           *)
(***************************************************************************)
EXTENDS Integers, Sequences, FiniteSets, SequencesExt

CONSTANT Limits     \* per chain: rules, align and prepare (bulk.Limits)

-----------------------------------------------------------------------------
(* intake                                                                  *)

\* A slip the comment in check() warns of: an id counts only once its whole
\* row is good.
SeenWhenAccepted(file, n) ==
    {file[k].id : k \in {k \in 1..(n - 1) : file[k].fault = "none"}}

\* The intent ids line n is compared with: every earlier row that got as far
\* as the duplicate check, whatever became of the rest of that row.
Seen(file, n) ==
    {file[k].id : k \in {k \in 1..(n - 1) : file[k].fault \notin {"fields", "intent_id"}}}

\* Why line n is rejected; "none" if it is not.
Reason(file, n) ==
    IF /\ file[n].fault \notin {"fields", "intent_id"}
       /\ file[n].id \in Seen(file, n)
    THEN "duplicate"
    ELSE file[n].fault

\* The chosen lines of a file, row by row.
Lines(file, chosen) ==
    FoldLeftDomain(LAMBDA lines, n : IF n \in chosen THEN Append(lines, n) ELSE lines, <<>>, file)

Good(file) == Lines(file, {n \in DOMAIN file : Reason(file, n) = "none"})

\* The lines that go on: all the good ones, or none when the policy returns
\* the file.
Read(file, policy) ==
    LET rejects == Len(file) - Len(Good(file))
    IN  IF /\ rejects > 0
           /\ ~policy.skip \/ (policy.max > 0 /\ rejects > policy.max)
        THEN <<>>
        ELSE Good(file)

\* The payout of a row.  The ref is derived from the terms, so it is them.
PayoutOf(row, open) ==
    [ref     |-> [id |-> row.id, merchant |-> row.merchant, amount |-> row.amount],
     account |-> row.merchant,
     amount  |-> row.amount,
     creates |-> row.merchant \notin open]

-----------------------------------------------------------------------------
(* bulk                                                                    *)

\* One more item still keeps every rule.
FitsRules(batch, rules) ==
    \A r \in rules : r.base + (Len(batch) + 1) * r.item <= r.cap

\* Item by item into the last batch, a new batch when it would not fit.
PackGreedy(items, rules) ==
    LET Put(batches, it) ==
            IF batches # <<>> /\ FitsRules(Last(batches), rules)
            THEN [batches EXCEPT ![Len(batches)] = Append(@, it)]
            ELSE Append(batches, <<it>>)
    IN  FoldLeft(Put, <<>>, items)

\* Cut at the multiples of the aligned block, so that a batch is a block of
\* the tree.
PackAligned(items, align) ==
    [k \in 1..((Len(items) + align - 1) \div align) |->
        SubSeq(items, (k - 1) * align + 1,
               IF k * align > Len(items) THEN Len(items) ELSE k * align)]

\* A list that breaks a rule even one item (or one whole block) at a time is
\* refused.  hashes is the length of the proof each aligned batch carries.
Packs(items, limits, hashes) ==
    /\ items # <<>>
    /\ limits.rules # {}
    /\ \A r \in limits.rules :
          r.base + hashes * r.perLevel
                 + (IF limits.align = 0 THEN 1 ELSE limits.align) * r.item <= r.cap
    /\ (\E it \in ToSet(items) : it.creates) => \A r \in limits.prepare : r.base + r.item <= r.cap

Batches(items, limits) ==
    IF limits.align = 0 THEN PackGreedy(items, limits.rules)
                        ELSE PackAligned(items, limits.align)

\* The batches that open the missing token accounts before any money moves.
PackPrepare(items, limits) ==
    IF limits.prepare = {} THEN <<>>
    ELSE PackGreedy(SelectSeq(items, LAMBDA it : it.creates), limits.prepare)

\* A slip of the count: the batch just before k is not counted.
TraceOffByOne(list, k) ==
    LET at == Len(FlattenSeq(SubSeq(list.batches, 1, k - 2)))
    IN  SubSeq(list.lines, at + 1, at + Len(list.batches[k]))

\* The lines of the file that batch k of a list stands for: count the items
\* of the batches before it, then read off the next ones.  (The merchant of
\* each is compared once more; Pack drops and moves nothing, so they agree.)
Trace(list, k) ==
    LET at == Len(FlattenSeq(SubSeq(list.batches, 1, k - 1)))
    IN  SubSeq(list.lines, at + 1, at + Len(list.batches[k]))
=============================================================================
