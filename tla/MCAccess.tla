------------------------------ MODULE MCAccess ------------------------------
(* Small instances of Access.  RobotWare 8 has one lock: p1 nests a write  *)
(* that takes it again.  RobotWare 7 has two, RobotWare 6 three: p1 takes  *)
(* two.  p2 and the public holds u1, u2 take the first lock, v1 the second *)
(* one; the group g has a hold on each.  p3, where there is one, writes    *)
(* without a lock: it makes a line of two behind the turn.                 *)
EXTENDS Access

MCHold == {"p1a", "p1b", "p1n", "p2a", "u1", "u2", "v1", "g1", "g2", "g3"}
MCLockOf == [h \in MCHold |-> CASE h \in {"p1b", "v1", "g2"} /\ "l2" \in Locks -> "l2"
                                [] h = "g3" /\ "l3" \in Locks -> "l3"
                                [] OTHER -> "l1"]
MCOwner == [h \in MCHold |-> CASE h \in {"p1a", "p1b", "p1n"} /\ "p1" \in Ops -> "p1"
                               [] h = "p2a" /\ "p2" \in Ops -> "p2"
                               [] OTHER -> NoTurn]
MCOuter == [p \in Ops |-> CASE p = "p2" -> <<"p2a">>
                            [] p = "p1" /\ "l2" \in Locks -> <<"p1a", "p1b">>
                            [] p = "p1" -> <<"p1a">>
                            [] OTHER -> <<>>]
MCInner == [p \in Ops |-> IF p = "p1" /\ "l2" \notin Locks THEN <<"p1n">> ELSE <<>>]
MCGroupHolds == [g \in Groups |-> {"g1"} \cup (IF "l2" \in Locks THEN {"g2"} ELSE {})
                                        \cup (IF "l3" \in Locks THEN {"g3"} ELSE {})]

=============================================================================
