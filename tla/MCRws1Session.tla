---------------------------- MODULE MCRws1Session ----------------------------
(* A small instance of Rws1Session: a read, a write, the create of a        *)
(* subscription group, and a stop, a release and /logout behind them.       *)
EXTENDS Rws1Session

MCKind == [r \in Requests |-> CASE r = "g" -> "get" [] r = "p" -> "post" [] r = "c" -> "create"
                                [] r = "s" -> "stop" [] r = "m" -> "release" [] OTHER -> "logout"]
==============================================================================
