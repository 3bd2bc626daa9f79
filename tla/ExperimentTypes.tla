-------------------------- MODULE ExperimentTypes --------------------------
(***************************************************************************)
(* What M5 asks of an experiment before it starts, by its type.  Durations *)
(* are in M1's units (Assignment), weights in parts of Whole, instants in  *)
(* signed integers up to MaxInstant, as the code keeps nanoseconds in i64. *)
(***************************************************************************)
EXTENDS Assignment

CONSTANTS
    TypedExperiments,   \* experiments with their type's config
    MaxInstant,         \* i64::MAX
    NanosPerSecond

Modulus == 2 * (MaxInstant + 1)

ASSUME TypesAssumption ==
    /\ MaxInstant \in Nat /\ NanosPerSecond \in Nat
    /\ \A x \in TypedExperiments : x.config # None =>
          /\ x.type = "SWITCHBACK" => x.config.duration \in Int
          /\ x.type = "QUASI" => \A t \in {x.config.pre, x.config.treatment} :
                t # None => t.seconds \in Int /\ t.nanos \in Int

Precondition(condition) == IF condition THEN "ok" ELSE "failed_precondition"

validate_meta_config(cfg, variants) ==
    FirstFailure(<<
        Precondition(cfg.algorithm # "UNSPECIFIED"),
        Precondition(cfg.outcomes # {}),
        Precondition(Len(cfg.objectives) = Len(variants)),
        Precondition(\A i \in 1 .. Len(cfg.objectives) :
            /\ cfg.objectives[i] # <<>>
            /\ None \notin Elements(cfg.objectives[i])
            /\ SumOf(cfg.objectives[i]) = Whole)>>)

\* A missing block duration counts as 0 seconds.
validate_switchback_config(cfg) ==
    FirstFailure(<<Precondition(cfg.cycles >= MinCycles), Precondition(cfg.duration >= MinBlock)>>)

\* pre.seconds * 1_000_000_000 + pre.nanos, in two's complement.
Wrap(x) == ((x + MaxInstant + 1) % Modulus) - (MaxInstant + 1)
Instant(t) == Wrap(Wrap(t.seconds * NanosPerSecond) + t.nanos)

NotBefore(pre, treatment) == Instant(pre) >= Instant(treatment)

validate_quasi_config(cfg) ==
    FirstFailure(<<
        Precondition(cfg.treated # ""),
        Precondition(Len(cfg.donors) >= 2),
        Precondition(cfg.outcome # ""),
        Precondition(cfg.pre # None /\ cfg.treatment # None),
        Precondition(cfg.pre # None /\ cfg.treatment # None => ~NotBefore(cfg.pre, cfg.treatment))>>)

\* validate_equivalence_test_config; the start passes no metric type, so the
\* relative margin is never refused for a metric it does not fit.
validate_equivalence_test_config(eq) ==
    FirstFailure(<<Precondition(eq.delta # None /\ eq.delta > 0),
                   Precondition(eq.alpha # 0 => eq.alpha > 0 /\ 2 * eq.alpha < Whole),
                   Precondition(eq.relative # 0 => eq.relative > 0)>>)

\* validate_meta, validate_switchback, validate_quasi: the config is there.
validate_starting(exp) ==
    FirstFailure(<<
        IF exp.type \notin {"META", "SWITCHBACK", "QUASI"} THEN "ok"
        ELSE IF exp.config = None THEN Precondition(FALSE)
        ELSE CASE exp.type = "META"       -> validate_meta_config(exp.config, exp.variants)
               [] exp.type = "SWITCHBACK" -> validate_switchback_config(exp.config)
               [] exp.type = "QUASI"      -> validate_quasi_config(exp.config),
        IF exp.equivalence = None THEN "ok"
        ELSE validate_equivalence_test_config(exp.equivalence)>>)

TypesInit == \E x \in TypedExperiments : st = [algo |-> "types", exp |-> x]

ServingSpec ==
    /\ TargetingInit \/ SlateInit \/ VariantsInit \/ AssignmentInit \/ TypesInit
    /\ [][AssignmentNext]_st

-----------------------------------------------------------------------------
(* Properties.                                                             *)

\* A switchback that M5 lets start is one M1 serves, provided its washout is
\* shorter than its block: that condition only M1 checks.
StartedSwitchbackIsServed ==
    Running("types") /\ st.exp.type = "SWITCHBACK" /\ validate_starting(st.exp) = "ok" =>
        LET s == st.exp.config IN s.washout \in 0 .. s.duration - 1 => ValidSwitchback(s)

Representable(t) == t.seconds * NanosPerSecond + t.nanos \in -(MaxInstant + 1) .. MaxInstant

\* A quasi-experiment that starts has a pre-treatment period: its start
\* precedes the treatment, to the nanosecond - for instants whose nanoseconds
\* fit the integer (until the year 2262), beyond which they wrap around.
QuasiHasAPrePeriod ==
    Running("types") /\ st.exp.type = "QUASI" /\ validate_starting(st.exp) = "ok" =>
        LET p == st.exp.config.pre
            t == st.exp.config.treatment
        IN  Representable(p) /\ Representable(t) =>
                p.seconds * NanosPerSecond + p.nanos < t.seconds * NanosPerSecond + t.nanos

\* Who takes part in an experiment is served as it was set up: M1's answers
\* are controlled assignments, and an experiment M5 lets start meets the
\* conditions of the services that run it.
ExperimentsAreServed ==
    /\ AssignmentIsSound /\ StartedSwitchbackIsServed /\ QuasiHasAPrePeriod
=============================================================================
