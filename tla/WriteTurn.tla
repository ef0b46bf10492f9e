----------------------------- MODULE WriteTurn -----------------------------
(***************************************************************************)
(* What the write turn promises, with no access, controller or chain: one  *)
(* operation has it, the others stand in line, and whoever has stood       *)
(* longest is next.  Operations leave the line when their time is up, and  *)
(* all of them when the session ends its turns; then nobody gets in line   *)
(* or takes the turn until turns are allowed again, and the one who has it *)
(* keeps it to its end.                                                    *)
(***************************************************************************)
EXTENDS SequencesExt

CONSTANTS Ops, NoTurn

VARIABLES
    open,  \* turns are allowed
    turn,  \* who has it
    line   \* who waits for it, longest first

Init == open = TRUE /\ turn = NoTurn /\ line = <<>>

(* A turn that is free has no line: the first to come has it. *)
Enter(p) ==
    /\ open /\ turn = NoTurn /\ line = <<>>
    /\ turn' = p
    /\ UNCHANGED <<open, line>>

GetInLine(p) ==
    /\ open /\ turn \notin {NoTurn, p} /\ p \notin Range(line)
    /\ line' = Append(line, p)
    /\ UNCHANGED <<open, turn>>

(* From any place in the line; the others keep their order. *)
GiveUp(i) ==
    /\ line' = RemoveAt(line, i)
    /\ UNCHANGED <<open, turn>>

(* The turn ends, with nobody in line. *)
Free ==
    /\ turn # NoTurn /\ line = <<>>
    /\ turn' = NoTurn
    /\ UNCHANGED <<open, line>>

(* The turn ends and is the next one's at the same moment. *)
HandOn ==
    /\ open /\ turn # NoTurn /\ line # <<>>
    /\ turn' = Head(line) /\ line' = Tail(line)
    /\ UNCHANGED open

Refuse ==
    /\ open' = FALSE /\ line' = <<>>
    /\ UNCHANGED turn

Allow ==
    /\ ~open /\ line = <<>>
    /\ open' = TRUE
    /\ UNCHANGED <<turn, line>>

Next ==
    \/ \E p \in Ops : Enter(p) \/ GetInLine(p)
    \/ \E i \in DOMAIN line : GiveUp(i)
    \/ Free \/ HandOn \/ Refuse \/ Allow

Spec == Init /\ [][Next]_<<open, turn, line>>

============================================================================
