--------------------------- MODULE MCRws2Session ---------------------------
(* Small instances of Rws2Session: a read, and a write of the operation    *)
(* that has the turn.                                                      *)
EXTENDS Rws2Session
============================================================================
