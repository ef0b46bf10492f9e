---------------------------- MODULE MCOperations ----------------------------
(* The operations the callers of a run may ask for. *)
EXTENDS Nesting

Everything == UNION {DOMAIN Programs[g] : g \in Gens}

Rivals == {"jog", "stopRapid"}

\* One caller runs every operation in turn, the other one those that share the jog's
\* hold and the stop.
MCAsks == [c \in Callers |-> IF c = "c1" THEN Everything ELSE Rivals]
=============================================================================
