----------------------------- MODULE MCPipeline -----------------------------
(* Instances of EventPipeline for TLC.  Two retraining events share a key,  *)
(* and an invalid event has the id of a valid one; one event does not fit   *)
(* the buffer, one is not finite.                                           *)
EXTENDS EventPipeline

Event(i, kind, k, c, h) == [id |-> i, kind |-> kind, key |-> k, check |-> c, huge |-> h]

E1  == Event("e1", "exposure", "k1", "ok", FALSE)
Bad == Event("bad", "exposure", "k1", "invalid", FALSE)
E2  == Event("e2", "retraining", "k2", "ok", FALSE)
E3  == Event("e3", "retraining", "k2", "ok", FALSE)
Big == Event("big", "reward", "k3", "ok", TRUE)
NaN == Event("nan", "metric", "k4", "panic", FALSE)
Q   == Event("q", "qoe", "k5", "ok", FALSE)

MCEvents  == {E1, Bad, E2, E3, Big, NaN, Q}
MCBatches == {<<Bad, E1>>, <<NaN>>, <<Q, Q>>}
=============================================================================
