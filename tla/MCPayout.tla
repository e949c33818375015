------------------------------ MODULE MCPayout ------------------------------
EXTENDS Payout

Row(id, merchant, amount, fault) ==
    [id |-> id, merchant |-> merchant, amount |-> amount, fault |-> fault]

CONSTANTS m1, m2

MCFiles ==
    { << Row("a", m1, 2, "none"), Row("b", m2, 1, "none"), Row("c", m1, 2, "none") >>,
      << Row("a", m1, 1, "amount"), Row("a", m1, 2, "none"), Row("b", m2, 2, "none") >>,
      << Row("a", m1, 2, "none"), Row("b", m2, 2, "fields"), Row("c", m2, 2, "none") >>,
      << Row("a", m1, 2, "none"), Row("b", m2, 1, "merchant"), Row("b", m2, 2, "none"),
         Row("c", m2, 3, "none") >>,
      << Row("a", m1, 2, "none"), Row("b", m2, 1, "none"), Row("c", m1, 2, "none"),
         Row("d", m2, 1, "none"), Row("e", m1, 1, "none") >> }

MCPolicies == { [skip |-> FALSE, max |-> 0], [skip |-> TRUE, max |-> 0], [skip |-> TRUE, max |-> 1] }

\* Two items fill a transaction on each chain.
MCLimits ==
    [evm    |-> [align |-> 0, prepare |-> {},
                 rules |-> {[base |-> 1, item |-> 1, perLevel |-> 0, cap |-> 3]}],
     sui    |-> [align |-> 0, prepare |-> {},
                 rules |-> {[base |-> 1, item |-> 1, perLevel |-> 0, cap |-> 3],
                            [base |-> 0, item |-> 2, perLevel |-> 0, cap |-> 5]}],
     solana |-> [align |-> 2,
                 prepare |-> {[base |-> 1, item |-> 1, perLevel |-> 0, cap |-> 2]},
                 rules |-> {[base |-> 1, item |-> 1, perLevel |-> 1, cap |-> 5],
                            [base |-> 1, item |-> 1, perLevel |-> 0, cap |-> 3]}]]
=============================================================================
