---------------------------- MODULE CountedLock ----------------------------
(***************************************************************************)
(* What reference-counted holds promise, with no wire, queue or turn: the  *)
(* users of a lock share one grant of the controller.  A request is made,  *)
(* and a release takes effect, only while the lock has no user; a user     *)
(* joins only a lock that was granted; only somebody else ends a lock that *)
(* is in use.                                                              *)
(***************************************************************************)
CONSTANTS Locks, Hold, LockOf

VARIABLES
    honoured,  \* the locks the controller counts as this session's
    users,     \* the holds that rely on them
    revoked    \* locks that somebody else ended since their last grant

InUse(l) == \E h \in users : LockOf[h] = l

Init == honoured = {} /\ users = {} /\ revoked = {}

(* The controller grants a request for the locks L. *)
Grant(L) ==
    /\ \A l \in L : ~InUse(l)
    /\ honoured' = honoured \cup L
    /\ revoked' = revoked \ L
    /\ UNCHANGED users

(* Holds join locks granted before. *)
Join ==
    /\ users \subseteq users' /\ users' \subseteq Hold
    /\ \A h \in users' \ users : LockOf[h] \in honoured \cup revoked
    /\ UNCHANGED <<honoured, revoked>>

(* Holds end, released or lost. *)
Leave ==
    /\ users' \subseteq users
    /\ UNCHANGED <<honoured, revoked>>

(* The release of this client takes effect. *)
Drop(L) ==
    /\ \A l \in L : ~InUse(l)
    /\ honoured' = honoured \ L
    /\ UNCHANGED <<users, revoked>>

(* Somebody else, or the end of the session, ends the locks L; holds may   *)
(* end with it.                                                            *)
Revoke(L) ==
    /\ L \subseteq honoured
    /\ honoured' = honoured \ L
    /\ revoked' = revoked \cup L
    /\ users' \subseteq users

Next ==
    \/ Join \/ Leave
    \/ \E L \in SUBSET Locks : Grant(L) \/ Drop(L) \/ Revoke(L)

Spec == Init /\ [][Next]_<<honoured, users, revoked>>

============================================================================
