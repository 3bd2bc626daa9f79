----------------------------- MODULE MCLayers -------------------------------
(***************************************************************************)
(* Two experiments of one layer with disjoint bucket ranges and, as M5     *)
(* gives every experiment its own, different salts.                        *)
(***************************************************************************)
EXTENDS Assignment

NoOperands == [v \in {} |-> {}]

Regular(salt, first, last) ==
    [state |-> "RUNNING", type |-> "AB", salt |-> salt, layer |-> "L", start |-> first, end |-> last,
     holdout |-> FALSE, targeting |-> None, cross_session |-> FALSE, arms |-> None, switchback |-> None,
     variants |-> <<[id |-> "c", fraction |-> 2, control |-> TRUE],
                    [id |-> "t", fraction |-> 2, control |-> FALSE]>>]
LayerConfigs == {[a |-> Regular(1, 0, 1), b |-> Regular(2, 2, 3)]}
=============================================================================
