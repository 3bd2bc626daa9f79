------------------------- MODULE ExperimentContract -------------------------
(***************************************************************************)
(* What M5 promises about an experiment and its hash buckets, without      *)
(* requests, transactions, locks or time: the state machine of             *)
(* internal/state/machine.go, and an owner for every bucket of a layer.    *)
(* An experiment acquires a contiguous block of free buckets in the step   *)
(* in which it becomes RUNNING, keeps all of it until it is CONCLUDED, and *)
(* a bucket goes from one experiment to another only by being free first.  *)
(***************************************************************************)
EXTENDS Integers

CONSTANTS Exps, Layers, TotalBuckets, None

VARIABLES
    phase,  \* lifecycle state of each experiment
    owner   \* experiment that holds each bucket of each layer, or None

contractVars == <<phase, owner>>

LayerBuckets == 0 .. TotalBuckets - 1

\* Creation, and validTransitions of machine.go without the step to RUNNING.
validTransitions ==
    {<<"ABSENT", "DRAFT">>, <<"DRAFT", "STARTING">>, <<"STARTING", "DRAFT">>,
     <<"RUNNING", "CONCLUDING">>, <<"CONCLUDING", "CONCLUDED">>,
     <<"CONCLUDED", "ARCHIVED">>}

ContractInit ==
    /\ phase = [e \in Exps |-> "ABSENT"]
    /\ owner = [l \in Layers |-> [b \in LayerBuckets |-> None]]

Transition(e, to) ==
    /\ <<phase[e], to>> \in validTransitions
    /\ phase' = [phase EXCEPT ![e] = to]
    /\ UNCHANGED owner

\* STARTING -> RUNNING takes the free buckets first .. last of layer l.
Activate(e, l, first, last) ==
    /\ phase[e] = "STARTING"
    /\ first <= last
    /\ \A b \in first .. last : owner[l][b] = None
    /\ phase' = [phase EXCEPT ![e] = "RUNNING"]
    /\ owner' = [owner EXCEPT ![l] =
                  [b \in LayerBuckets |->
                     IF b \in first .. last THEN e ELSE owner[l][b]]]

\* Cooldowns run out: buckets of finished experiments become free.  Several
\* experiments may lose theirs at once.
Reclaim ==
    /\ \E done \in SUBSET {e \in Exps : phase[e] \in {"CONCLUDED", "ARCHIVED"}} :
         owner' = [l \in Layers |-> [b \in LayerBuckets |->
                     IF owner[l][b] \in done THEN None ELSE owner[l][b]]]
    /\ UNCHANGED phase

\* A cooldown of zero, or one that ran out while the release waited for its
\* locks: the experiment's buckets are free as soon as it is CONCLUDED.
ConcludeAndReclaim(e) ==
    /\ phase[e] = "CONCLUDING"
    /\ phase' = [phase EXCEPT ![e] = "CONCLUDED"]
    /\ owner' = [l \in Layers |-> [b \in LayerBuckets |->
                   IF owner[l][b] = e THEN None ELSE owner[l][b]]]

ContractNext ==
    \/ \E e \in Exps :
          \/ \E to \in {"DRAFT", "STARTING", "CONCLUDING", "CONCLUDED", "ARCHIVED"} :
                Transition(e, to)
          \/ \E l \in Layers, first, last \in LayerBuckets : Activate(e, l, first, last)
          \/ ConcludeAndReclaim(e)
    \/ Reclaim

ContractSpec == ContractInit /\ [][ContractNext]_contractVars
=============================================================================
