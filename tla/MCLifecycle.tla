---------------------------- MODULE MCLifecycle ----------------------------
(* ExperimentLifecycle for TLC.                                            *)
EXTENDS ExperimentLifecycle, TLC

\* Experiments, layers and request slots are interchangeable.
MCSymmetry == Permutations(Exps) \cup Permutations(Layers) \cup Permutations(Reqs)
=============================================================================
