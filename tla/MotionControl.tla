---------------------------- MODULE MotionControl ----------------------------
(***************************************************************************)
(* The motion-control allowance of RobotWare 8 (src/rws2/core.ts): a       *)
(* person allows it for the control station, and the client sees to it     *)
(* that none of its own stands unseen.  It withdraws what it may have      *)
(* allowed at a disconnect, at a registration and after a re-issued        *)
(* session, and what it finds left from an earlier run.                    *)
(*                                                                         *)
(* Each call of setAllowMotionControl, each read, each write that needs    *)
(* the registration and each re-issued session is a routine of its own,    *)
(* next to the one withdrawal, the step of RobotManager.disconnect and the *)
(* teardown of the client.  The station is the one of the client's         *)
(* options.                                                                *)
(***************************************************************************)
EXTENDS Naturals, Sequences, SequencesExt

CONSTANTS
    Calls,        \* callers of the client, each with one call at a time
    Setters,      \* those of them that call setAllowMotionControl
    Reissues,     \* bound: re-issued sessions whose withdrawal is not over
    MaxPosts,     \* bound: calls begin and sessions end while fewer allowance POSTs are on their way
    Overtaking    \* whether requests may overtake each other on their connections

ASSUME MotionControlAssumption ==
    /\ Setters \subseteq Calls
    /\ Calls \cap Reissues = {}
    /\ {"withdrawal", "nobody"} \cap (Calls \cup Reissues) = {}
    /\ MaxPosts \in Nat
    /\ Overtaking \in BOOLEAN

VARIABLES
    phase,      \* "open", "closing", "closed"
    me,         \* what the client knows: its fields
    run,        \* the routines
    flying,     \* allowInFlight: the calls of setAllowMotionControl(true) in progress
    wd,         \* withdrawing, the withdrawal in progress
    stray,      \* a registration of a withdrawal whose deadline has passed
    manager,    \* the step of RobotManager.disconnect
    teardown,   \* Rws2Core.teardown
    posts,      \* allowance POSTs the controller has not taken, in the order they were sent
    station,    \* whether the session is registered on the controller
    gone,       \* whether the session has ended
    allowed,    \* the station's allowance: "no", "own" (by this client), "left" (by another)
    told        \* history: a withdrawal failed, and said so, since the last POST true

vars == <<phase, me, run, flying, wd, stray, manager, teardown, posts, station, gone, allowed, told>>
controller == <<station, gone, allowed>>

Routines == Calls \cup Reissues
Places == {"idle", "register", "join", "joined", "read", "leftjoin", "leftjoined", "leftread", "post", "snapshot"}
Steps == {"off", "wait", "join", "woken", "done"}
Answers == {"none", "ok", "refused", "noStation"}
Kinds == {"allow", "deny", "get", "write", "reissue"}

TypeOK ==
    /\ phase \in {"open", "closing", "closed"}
    /\ me \in [registered : BOOLEAN, known : {"unknown", "yes", "no"}, declared : BOOLEAN,
               unanswered : BOOLEAN, checking : BOOLEAN, covered : BOOLEAN,
               latest : Routines \cup {"withdrawal", "nobody"}]
    /\ run \in [Routines -> [at : Places, kind : Kinds, second : BOOLEAN, before : BOOLEAN,
                             answer : Answers, withdrawn : BOOLEAN, seen : BOOLEAN]]
    /\ flying \subseteq Calls
    /\ wd \in [at : {"off", "register", "post"}, trigger : {"disconnect", "registration", "leftover", "reissue"},
               second : BOOLEAN, covers : BOOLEAN, answer : Answers]
    /\ stray \in BOOLEAN
    /\ manager \in Steps
    /\ teardown \in Steps
    /\ posts \in Seq([who : Routines \cup {"withdrawal", "nobody"}, allow : BOOLEAN])
    /\ station \in BOOLEAN
    /\ gone \in BOOLEAN
    /\ allowed \in {"no", "own", "left"}
    /\ told \in BOOLEAN

Idle == [at |-> "idle", kind |-> "get", second |-> FALSE, before |-> FALSE,
         answer |-> "none", withdrawn |-> FALSE, seen |-> FALSE]
Off == [at |-> "off", trigger |-> "disconnect", second |-> FALSE, covers |-> TRUE, answer |-> "none"]

\* A new process; an earlier one of the same station may have left the allowance standing.
\* Of the numbers of the POSTs only the latest is ever asked for: `latest` is who made that POST,
\* `covered` whether teardownAttemptSeq is its number, wd.covers whether the withdrawal's is.
Init ==
    /\ phase = "open"
    /\ me = [registered |-> FALSE, known |-> "unknown", declared |-> FALSE, unanswered |-> FALSE,
             checking |-> FALSE, covered |-> FALSE, latest |-> "nobody"]
    /\ run = [p \in Routines |-> Idle]
    /\ flying = {}
    /\ wd = Off
    /\ stray = FALSE
    /\ manager = "off"
    /\ teardown = "off"
    /\ posts = <<>>
    /\ station = FALSE
    /\ gone = FALSE
    /\ allowed \in {"no", "left"}
    /\ told = FALSE

-----------------------------------------------------------------------------
(* The fields of the client. *)

\* Mutant: an answer that is not there counts as a refusal.
ForgetsUnanswered(m) == m

\* A POST true got no answer: it may be taken after any read.
CountsUnanswered(m) == [m EXCEPT !.unanswered = TRUE]

AllowanceEnded(m) == [m EXCEPT !.declared = FALSE, !.unanswered = FALSE]

\* A POST of who gets the next number.
Numbered(m, who) == [m EXCEPT !.latest = who, !.covered = FALSE]

LeftoverCandidate(m) == ~m.declared /\ flying = {} /\ phase = "open"

\* noteAllowanceRead
NoteAllowanceRead(m, enabled) ==
    IF enabled /\ m.checking /\ LeftoverCandidate(m) THEN m
    ELSE [(IF ~enabled /\ flying = {} /\ ~m.unanswered THEN AllowanceEnded(m) ELSE m)
             EXCEPT !.known = IF enabled THEN "yes" ELSE "no"]

\* getAllowMotionControl once it is answered
Noted(m, enabled) == IF m.registered THEN NoteAllowanceRead(m, enabled) ELSE m

\* What a read finds: a session that is not registered reads false.
Reads == station /\ allowed # "no"
Found(p) == {Reads} \cup {v \in {run[p].seen} : Overtaking}

\* A closing client sends what belongs to the write in progress, and nothing once closed.
MaySend(p) == phase = "open" \/ (phase = "closing" /\ run[p].kind = "write")

Goes(p, place) == run' = [run EXCEPT ![p].at = place, ![p].seen = Overtaking /\ Reads]
Ended(p) == run' = [run EXCEPT ![p] = Idle]

-----------------------------------------------------------------------------
(* withdrawMotionControl. *)

\* The POST false of a withdrawal, its number and what it covers.
SendWithdrawal(m, w) ==
    /\ me' = Numbered(m, "withdrawal")
    /\ wd' = [w EXCEPT !.at = "post", !.covers = TRUE, !.answer = "none"]
    /\ posts' = IF phase = "closed" THEN posts ELSE Append(posts, [who |-> "withdrawal", allow |-> FALSE])

StartWithdrawal(m, trigger) ==
    LET w == [Off EXCEPT !.trigger = trigger]
    IN  IF m.registered
        THEN SendWithdrawal(m, w)
        ELSE me' = m /\ wd' = [w EXCEPT !.at = "register"] /\ UNCHANGED posts

\* A second trigger joins the withdrawal in progress.
Withdraw(m, trigger) ==
    IF wd.at = "off" THEN StartWithdrawal(m, trigger) ELSE me' = m /\ UNCHANGED <<wd, posts>>

\* A withdrawal that was taken ends the count, unless a later POST counts instead.
Settled(m, withdrawn) ==
    IF withdrawn /\ wd.covers THEN [AllowanceEnded(m) EXCEPT !.known = "no"]
    ELSE IF ~withdrawn /\ wd.trigger = "leftover" THEN [m EXCEPT !.known = "unknown"]
    ELSE m

\* Those who wait for it go on before anything else happens; a disconnect's attempt is recorded.
EndWithdrawal(m, withdrawn) ==
    /\ wd' = Off
    /\ me' = [Settled(m, withdrawn)
                EXCEPT !.covered = IF "join" \in {manager, teardown} THEN wd.covers ELSE @]
    /\ run' = [p \in Routines |->
                 CASE run[p].at = "join" -> [run[p] EXCEPT !.at = "joined"]
                   [] run[p].at = "leftjoin" -> [run[p] EXCEPT !.at = "leftjoined", !.withdrawn = withdrawn]
                   [] OTHER -> run[p]]
    /\ manager' = CASE manager = "wait" -> "woken" [] manager = "join" -> "done" [] OTHER -> manager
    /\ teardown' = CASE teardown = "wait" -> "woken" [] teardown = "join" -> "done" [] OTHER -> teardown
    /\ told' = (told \/ ~withdrawn)
    /\ UNCHANGED <<phase, flying>>

\* Nobody waits any more for what is under way of who.
Abandoned(who) == [i \in DOMAIN posts |-> IF posts[i].who = who THEN [posts[i] EXCEPT !.who = "nobody"] ELSE posts[i]]

WithdrawalRegisters ==
    /\ wd.at = "register"
    /\ ~gone
    /\ station' = TRUE
    /\ SendWithdrawal([me EXCEPT !.registered = TRUE], wd)
    /\ UNCHANGED <<phase, run, flying, stray, manager, teardown, gone, allowed, told>>

WithdrawalAnswered ==
    /\ wd.at = "post"
    /\ \/ /\ wd.answer = "ok"
          /\ EndWithdrawal(me, TRUE)
       \/ /\ wd.answer = "refused" \/ (wd.answer = "noStation" /\ wd.second)
          /\ EndWithdrawal([me EXCEPT !.registered = @ /\ wd.answer # "noStation"], FALSE)
       \/ /\ wd.answer = "noStation" /\ ~wd.second
          /\ me' = [me EXCEPT !.registered = FALSE]
          /\ wd' = [wd EXCEPT !.at = "register", !.second = TRUE, !.answer = "none"]
          /\ UNCHANGED <<phase, run, flying, manager, teardown, told>>
    /\ UNCHANGED <<stray, posts, controller>>

\* Its request fails, or WITHDRAW_DEADLINE_MS have passed: what is under way may still be taken.
WithdrawalFails ==
    /\ wd.at # "off"
    /\ EndWithdrawal(me, FALSE)
    /\ posts' = Abandoned("withdrawal")
    /\ stray' = (stray \/ wd.at = "register")
    /\ UNCHANGED controller

\* The registration that a withdrawal past its deadline had sent.
StrayEnds ==
    /\ stray
    /\ stray' = FALSE
    /\ \/ ~gone /\ station' = TRUE /\ me' = [me EXCEPT !.registered = TRUE]
       \/ UNCHANGED <<station, me>>
    /\ UNCHANGED <<phase, run, flying, wd, manager, teardown, posts, gone, allowed, told>>

-----------------------------------------------------------------------------
(* setAllowMotionControl, and the registration it shares with the writes. *)

\* postAllowance: a true is counted before it goes out, and refused once the client closes.
PostAllowance(p, m) ==
    LET allow == run[p].kind = "allow"
    IN  \/ /\ phase = "open"
           /\ me' = [Numbered(m, p) EXCEPT !.declared = @ \/ allow]
           /\ wd' = [wd EXCEPT !.covers = FALSE]
           /\ run' = [run EXCEPT ![p].at = "post", ![p].answer = "none"]
           /\ posts' = Append(posts, [who |-> p, allow |-> allow])
           /\ told' = (told /\ ~allow)
           /\ UNCHANGED flying
        \/ /\ phase # "open"
           /\ me' = IF allow THEN m ELSE Numbered(m, "nobody")
           /\ wd' = IF allow THEN wd ELSE [wd EXCEPT !.covers = FALSE]
           /\ Ended(p)
           /\ flying' = flying \ {p}
           /\ UNCHANGED <<posts, told>>

\* The session is registered: the write is sent, or the operation goes on.
Proceed(p, m) ==
    IF run[p].kind = "write"
    THEN me' = m /\ Ended(p) /\ UNCHANGED <<flying, wd, posts, told>>
    ELSE PostAllowance(p, m)

\* A read of afterRegistration, or what follows when there is nothing to read.
ReadThen(p, place) ==
    IF me.registered /\ MaySend(p)
    THEN me' = [me EXCEPT !.checking = TRUE] /\ Goes(p, place) /\ UNCHANGED <<flying, wd, posts, told>>
    ELSE Proceed(p, [me EXCEPT !.checking = FALSE])

Start(p, kind) ==
    /\ run[p].at = "idle"
    /\ phase = "open"
    /\ Len(posts) < MaxPosts
    /\ kind \in {"allow", "deny"} => p \in Setters
    /\ kind = "allow" => manager = "off"
    /\ kind = "get" => me.registered
    /\ kind = "write" => ~me.registered
    /\ LET begun == [run EXCEPT ![p] = [Idle EXCEPT !.kind = kind, !.before = me.declared]]
       IN  \/ /\ kind = "get"
              /\ run' = [begun EXCEPT ![p].at = "snapshot", ![p].seen = Overtaking /\ Reads]
              /\ UNCHANGED <<me, wd, posts, told>>
           \/ /\ kind # "get" /\ ~me.registered
              /\ run' = [begun EXCEPT ![p].at = "register"]
              /\ UNCHANGED <<me, wd, posts, told>>
           \/ /\ kind \in {"allow", "deny"} /\ me.registered
              /\ me' = [Numbered(me, p) EXCEPT !.declared = @ \/ kind = "allow"]
              /\ wd' = [wd EXCEPT !.covers = FALSE]
              /\ run' = [begun EXCEPT ![p].at = "post"]
              /\ posts' = Append(posts, [who |-> p, allow |-> kind = "allow"])
              /\ told' = (told /\ kind # "allow")
    /\ flying' = IF kind = "allow" THEN flying \cup {p} ELSE flying
    /\ UNCHANGED <<phase, stray, manager, teardown, controller>>

\* afterRegistration: what may stand is withdrawn, then the allowance is read.
Registers(p) ==
    /\ run[p].at = "register"
    /\ ~gone
    /\ station' = TRUE
    /\ LET m == [me EXCEPT !.registered = TRUE]
       IN  \/ /\ m.declared
              /\ Withdraw(m, "registration")
              /\ Goes(p, "join")
              /\ UNCHANGED <<flying, told>>
           \/ /\ ~m.declared /\ MaySend(p)
              /\ me' = [m EXCEPT !.checking = TRUE]
              /\ run' = [run EXCEPT ![p].at = "read", ![p].seen = Overtaking /\ allowed # "no"]
              /\ UNCHANGED <<flying, wd, posts, told>>
           \/ /\ ~m.declared /\ ~MaySend(p)
              /\ Proceed(p, [m EXCEPT !.checking = FALSE])
    /\ UNCHANGED <<phase, stray, manager, teardown, gone, allowed>>

\* Refused or not answered; the controller may have registered the session.
RegisterFails(p) ==
    /\ run[p].at = "register"
    /\ \/ ~gone /\ station' = TRUE
       \/ UNCHANGED station
    /\ Ended(p)
    /\ flying' = flying \ {p}
    /\ UNCHANGED <<phase, me, wd, stray, manager, teardown, posts, gone, allowed, told>>

\* The withdrawal a registration, or a re-issued session, waited for is over.
Resume(p) ==
    /\ \/ /\ run[p].at = "joined" /\ run[p].kind # "reissue"
          /\ ReadThen(p, "read")
       \/ /\ run[p].at = "joined" /\ run[p].kind = "reissue"
          /\ IF me.registered /\ phase = "open" THEN Goes(p, "snapshot") ELSE Ended(p)
          /\ UNCHANGED <<me, flying, wd, posts, told>>
       \/ /\ run[p].at = "leftjoined" /\ run[p].withdrawn
          /\ ReadThen(p, "leftread")
       \/ /\ run[p].at = "leftjoined" /\ ~run[p].withdrawn
          /\ Proceed(p, me)
    /\ UNCHANGED <<phase, stray, manager, teardown, controller>>

\* It is read once; allowed, and not by this client, it is withdrawn as a leftover.
ReadEnds(p) ==
    /\ run[p].at = "read"
    /\ \/ /\ ~gone
          /\ \E enabled \in Found(p) :
                LET m == [Noted(me, enabled) EXCEPT !.checking = FALSE]
                IN  \/ /\ enabled /\ LeftoverCandidate(m)
                       /\ Withdraw([m EXCEPT !.declared = TRUE], "leftover")
                       /\ Goes(p, "leftjoin")
                       /\ UNCHANGED <<flying, told>>
                    \/ /\ ~(enabled /\ LeftoverCandidate(m))
                       /\ Proceed(p, m)
       \/ Proceed(p, [me EXCEPT !.checking = FALSE])
    /\ UNCHANGED <<phase, stray, manager, teardown, controller>>

\* The leftover is read back: when it still reads allowed it counts again.
LeftoverReadEnds(p) ==
    /\ run[p].at = "leftread"
    /\ \/ /\ ~gone
          /\ \E enabled \in Found(p) :
                LET m == [Noted(me, enabled) EXCEPT !.checking = FALSE]
                IN  Proceed(p, IF enabled THEN [m EXCEPT !.declared = TRUE, !.known = "unknown"] ELSE m)
       \/ Proceed(p, [me EXCEPT !.checking = FALSE])
    /\ UNCHANGED <<phase, stray, manager, teardown, controller>>

\* getAllowMotionControl, the read after a set without an answer, the read after a re-issue.
SnapshotEnds(p) ==
    /\ run[p].at = "snapshot"
    /\ \/ /\ ~gone
          /\ \E enabled \in Found(p) : me' = Noted(me, enabled)
       \/ UNCHANGED me
    /\ Ended(p)
    /\ UNCHANGED <<phase, flying, wd, stray, manager, teardown, posts, controller, told>>

\* An answer counts only for the latest POST.
PostTaken(p) ==
    /\ run[p].at = "post"
    /\ run[p].answer = "ok"
    /\ me' = IF me.latest # p THEN me
             ELSE IF run[p].kind = "allow" THEN [me EXCEPT !.known = "yes"]
             ELSE [AllowanceEnded(me) EXCEPT !.known = "no"]
    /\ Ended(p)
    /\ flying' = flying \ {p}
    /\ UNCHANGED <<phase, wd, stray, manager, teardown, posts, controller, told>>

\* Refused; -1073435871 registers and sends once more.
PostRefused(p) ==
    /\ run[p].at = "post"
    /\ \/ /\ run[p].answer = "refused" \/ (run[p].answer = "noStation" /\ run[p].second)
          /\ me' = [me EXCEPT !.registered = @ /\ run[p].answer # "noStation"]
          /\ Ended(p)
          /\ flying' = flying \ {p}
       \/ /\ run[p].answer = "noStation" /\ ~run[p].second
          /\ LET m == IF run[p].kind = "allow" /\ ~run[p].before /\ flying = {p} THEN AllowanceEnded(me) ELSE me
             IN  me' = [m EXCEPT !.registered = FALSE]
          /\ \/ /\ MaySend(p)
                /\ run' = [run EXCEPT ![p].at = "register", ![p].second = TRUE, ![p].answer = "none"]
                /\ UNCHANGED flying
             \/ /\ ~MaySend(p)
                /\ Ended(p)
                /\ flying' = flying \ {p}
    /\ UNCHANGED <<phase, wd, stray, manager, teardown, posts, controller, told>>

\* No answer: it may have been taken, or be taken later.
PostUnanswered(p) ==
    /\ run[p].at = "post"
    /\ posts' = Abandoned(p)
    /\ me' = [(IF run[p].kind = "allow" THEN CountsUnanswered(me) ELSE me) EXCEPT !.known = "unknown"]
    /\ flying' = flying \ {p}
    /\ IF me.registered /\ MaySend(p) THEN Goes(p, "snapshot") ELSE Ended(p)
    /\ UNCHANGED <<phase, wd, stray, manager, teardown, controller, told>>

-----------------------------------------------------------------------------
(* Disconnecting. *)

\* withdrawMotionControl('disconnect'): it waits for a withdrawal of another trigger first.
DisconnectStep(step) ==
    IF wd.at # "off" /\ wd.trigger # "disconnect"
    THEN step' = "wait" /\ UNCHANGED <<me, wd, posts>>
    ELSE IF me.declared
    THEN step' = "join" /\ Withdraw(me, "disconnect")
    ELSE step' = "done" /\ UNCHANGED <<me, wd, posts>>

\* The first request of RobotManager.disconnect.
ManagerDisconnects ==
    /\ manager = "off" /\ phase = "open"
    /\ DisconnectStep(manager)
    /\ UNCHANGED <<phase, run, flying, stray, teardown, controller, told>>

ManagerResumes ==
    /\ manager = "woken"
    /\ DisconnectStep(manager)
    /\ UNCHANGED <<phase, run, flying, stray, teardown, controller, told>>

\* Mutant: once the manager has tried, the teardown does not.
TriedIsEnough(m) == TRUE

\* The manager's attempt covers every POST made so far.
Covered(m) == m.covered

TeardownStep ==
    IF wd.at # "off" THEN teardown' = "wait" /\ UNCHANGED <<me, wd, posts>>
    ELSE IF Covered(me) THEN teardown' = "done" /\ UNCHANGED <<me, wd, posts>>
    ELSE DisconnectStep(teardown)

\* disconnect() of the client, by the manager or by its owner.
TeardownBegins ==
    /\ phase = "open" /\ manager \in {"off", "done"}
    /\ phase' = "closing"
    /\ TeardownStep
    /\ UNCHANGED <<run, flying, stray, manager, controller, told>>

TeardownResumes ==
    /\ teardown = "woken"
    /\ TeardownStep
    /\ UNCHANGED <<phase, run, flying, stray, manager, controller, told>>

\* The write in progress has ended or was waited for long enough; /logout is queued.
CloseClient ==
    /\ phase = "closing" /\ teardown = "done"
    /\ phase' = "closed"
    /\ UNCHANGED <<me, run, flying, wd, stray, manager, teardown, posts, controller, told>>

\* The session ends, and with it the requests that are left.
LogoutEnds ==
    /\ phase = "closed" /\ teardown = "done"
    /\ teardown' = "off"
    /\ manager' = "off"
    /\ me' = [me EXCEPT !.registered = FALSE, !.known = "unknown"]
    /\ posts' = <<>>
    /\ station' = FALSE
    /\ gone' = TRUE
    /\ allowed' \in {allowed, "no"}
    /\ UNCHANGED <<phase, run, flying, wd, stray, told>>

\* connect() of the same client, once the sockets of the last session have reported their end.
Connect ==
    /\ phase = "closed" /\ teardown = "off"
    /\ \A p \in Routines : run[p].at = "idle"
    /\ wd.at = "off" /\ ~stray
    /\ phase' = "open"
    /\ me' = [me EXCEPT !.covered = FALSE]
    /\ gone' = FALSE
    /\ UNCHANGED <<run, flying, wd, stray, manager, teardown, posts, station, allowed, told>>

-----------------------------------------------------------------------------
(* The controller. *)

\* The next POST is served; a session that is no control station is told so.
Serves ==
    \E i \in DOMAIN posts, answer \in {"ok", "refused", "noStation"} :
        /\ ~gone
        /\ i = 1 \/ Overtaking
        /\ station <=> answer # "noStation"
        /\ allowed' = IF answer # "ok" THEN allowed ELSE IF posts[i].allow THEN "own" ELSE "no"
        /\ posts' = RemoveAt(posts, i)
        /\ run' = [p \in Routines |-> IF posts[i].who = p THEN [run[p] EXCEPT !.answer = answer] ELSE run[p]]
        /\ wd' = IF posts[i].who = "withdrawal" THEN [wd EXCEPT !.answer = answer] ELSE wd
        /\ UNCHANGED <<phase, me, flying, stray, manager, teardown, station, gone, told>>

\* A POST nobody waits for never arrives.
Drops ==
    \E i \in DOMAIN posts :
        /\ posts[i].who = "nobody"
        /\ posts' = RemoveAt(posts, i)
        /\ UNCHANGED <<phase, me, run, flying, wd, stray, manager, teardown, controller, told>>

\* A restart, or an idle session; the station's last session takes the allowance along.
SessionEnds ==
    /\ ~gone /\ phase # "closed"
    /\ Len(posts) < MaxPosts
    /\ gone' = TRUE
    /\ station' = FALSE
    /\ allowed' \in {allowed, "no"}
    /\ UNCHANGED <<phase, me, run, flying, wd, stray, manager, teardown, posts, told>>

\* Another session of the same station allows, or withdraws.
OtherSession ==
    /\ allowed' \in {"left", "no"}
    /\ allowed = "own" => allowed' = "no"
    /\ UNCHANGED <<phase, me, run, flying, wd, stray, manager, teardown, posts, station, gone, told>>

\* adoptSessionCookie: a 401 and the login after it brought a new session.  A request of the old
\* one that nobody waits for is not sent again: by now it was dropped.
Reissued ==
    /\ gone /\ phase # "closed"
    /\ gone' = FALSE
    /\ \A i \in DOMAIN posts : posts[i].who # "nobody"
    /\ LET m == [me EXCEPT !.registered = FALSE, !.known = "unknown"]
       IN  \/ /\ m.declared /\ phase = "open"
              /\ \E p \in Reissues :
                    /\ run[p].at = "idle"
                    /\ run' = [run EXCEPT ![p] = [Idle EXCEPT !.at = "join", !.kind = "reissue"]]
              /\ me' = m
              /\ wd' = IF wd.at # "off" THEN wd
                       ELSE [Off EXCEPT !.at = "register", !.trigger = "reissue"]
           \/ /\ ~(m.declared /\ phase = "open")
              /\ me' = m
              /\ UNCHANGED <<run, wd>>
    /\ UNCHANGED <<phase, flying, stray, manager, teardown, posts, station, allowed, told>>

-----------------------------------------------------------------------------

\* Continuations of a promise that is settled run before the next event.
Woken ==
    \/ \E p \in Routines : run[p].at \in {"joined", "leftjoined"}
    \/ "woken" \in {manager, teardown}

Continue == ManagerResumes \/ TeardownResumes \/ \E p \in Routines : Resume(p)

WithdrawalStep == WithdrawalRegisters \/ WithdrawalAnswered \/ WithdrawalFails

RoutineStep(p) ==
    \/ Registers(p) \/ RegisterFails(p)
    \/ ReadEnds(p) \/ LeftoverReadEnds(p) \/ SnapshotEnds(p)
    \/ PostTaken(p) \/ PostRefused(p) \/ PostUnanswered(p)

Environment == Serves \/ Drops \/ SessionEnds \/ OtherSession \/ Reissued

Event ==
    /\ ~Woken
    /\ \/ \E p \in Calls, kind \in Kinds \ {"reissue"} : Start(p, kind)
       \/ \E p \in Routines : RoutineStep(p)
       \/ WithdrawalStep \/ StrayEnds
       \/ ManagerDisconnects \/ TeardownBegins \/ CloseClient \/ LogoutEnds \/ Connect
       \/ Environment

Next == Continue \/ Event

Spec == Init /\ [][Next]_vars

\* A withdrawal has its deadline, promises continue, and the teardown goes on.
FairSpec ==
    /\ Spec
    /\ WF_vars(Continue)
    /\ WF_vars(~Woken /\ WithdrawalStep)
    /\ WF_vars(~Woken /\ CloseClient)

-----------------------------------------------------------------------------
(* Properties. *)

\* An allowance that this client made and that stands is one it counts (`maybeDeclared`), so that
\* the next disconnect, registration or re-issued session withdraws it: no refusal, deadline, late
\* POST or read makes the client forget it, where one caller at most sets the allowance and the
\* controller serves requests in the order they were sent.  With two setters, or when an answer
\* to a read overtakes one to a POST, it is false.
StandingIsCounted == allowed = "own" => me.declared

\* When a client has disconnected and its allowance still stands, its withdrawal was tried after
\* the last POST true and was reported as failed: also when that POST was made while the
\* manager's own withdrawal was on the wire.  One setter and requests served in order, as above.
LeftIsTold == phase = "closed" /\ teardown = "off" /\ allowed = "own" => told

\* A disconnect that has begun ends, of the manager and of the client, although it waits for the
\* withdrawals that registrations and re-issued sessions started, and they for its own.
DisconnectEnds ==
    /\ manager \in {"wait", "join", "woken"} ~> manager \in {"off", "done"}
    /\ phase = "closing" ~> phase = "closed"
=============================================================================
