----------------------------- MODULE Operations -----------------------------
(***************************************************************************)
(* RobotManager.call(key, args) and RobotManager's own methods at work on  *)
(* one controller: the programs of Requests, found through the catalogue   *)
(* and the method tables, run by concurrent callers that share the write   *)
(* turn, the counted access, the jog's own hold and its release timer.     *)
(* The controller may refuse any request, answer any write "not held",     *)
(* and take any time over it.  AccessManager itself is the module Access;  *)
(* here its queue is kept to what orders these callers: a release of the   *)
(* jog's hold that is queued runs before any access asked for after it.    *)
(***************************************************************************)
EXTENDS Catalogue, Rws2Methods, Rws1Methods, ManagerMethods, Integers, FiniteSets, FiniteSetsExt

CONSTANTS Gens,      \* the RobotWare generations of the controller
          Callers,   \* independent users of one RobotManager
          Asks,      \* the operations each of them may ask for
          MaxCalls,  \* how many each of them asks for
          MayHold    \* whether a user takes motion mastership explicitly

None == "none"

ASSUME OperationsAssumption ==
    /\ Gens \subseteq Generations
    /\ None \notin Callers
    /\ MaxCalls \in Nat \ {0}
    /\ MayHold \in BOOLEAN

VARIABLES gen,      \* the generation the session found
          call,     \* each caller's operation: key, program, next instruction, failure, whether its turn
                    \* lost access and whether it found the motion lock nobody else's
          made,     \* calls each caller has begun
          turn,     \* the write turn: who is in it and how deep
          own,      \* holds each caller's operation counts on each lock
          temp,     \* temporary files whose save was accepted and whose deletion was not asked for
          jogHold,  \* the jog's own hold on the motion lock
          timer,    \* its release timer is set
          freeing,  \* the release of the jog's hold is queued or on the wire
          public    \* a user holds the motion lock by requestMastership('motion')

vars == <<gen, call, made, turn, own, temp, jogHold, timer, freeing, public>>

-----------------------------------------------------------------------------
(* Programs. *)

Adapter(g) == IF g = "rw6" THEN Rws1 ELSE Rws2(g)

(* Mutant: what the session's web services offer is not looked at. *)
AsRouted(g, k, A) ==
    \/ Via(k) = "none"
    \/ k \notin {"writeSignalByName", "pushModule", "startJob", "setControllerState"}
       /\ MethodOf(k) \notin DOMAIN A

\* call() refuses a key before anything is sent: the generation does not have the
\* operation, the key is not callable, or the adapter lacks the method.
Refuses(g, k, A) ==
    \/ Api(g) \notin Catalogue[k].apis
    \/ Via(k) = "none"
    \/ k \notin {"writeSignalByName", "pushModule", "startJob", "setControllerState"}
       /\ MethodOf(k) \notin DOMAIN A

\* Sent before any access is asked for.
SentFirst == {"stopRapid", "setMotorsOff", "setControllerState"}

\* The method behind a key; setControllerState is routed by its argument.
Routed(k, A, M) ==
    IF k = "setControllerState" THEN Either(M["setMotorsOn"], M["setMotorsOff"])
    ELSE IF Via(k) = "manager" THEN M[MethodOf(k)]
    ELSE A[MethodOf(k)]

\* On RobotWare 8 call() holds write access around a write whose method does not.
Wrapped(g, k, p) == IF g = "rw8" /\ Rw8Access(k) = "call" THEN Under({"rapid"}, p) ELSE p

\* Every operation of a generation: the keys call() accepts, and the methods of
\* RobotManager that no key names.
Programs ==
    [g \in Generations |->
        LET A == Adapter(g)
            M == Manager(A, g)
        IN  [k \in {x \in DOMAIN Catalogue : ~Refuses(g, x, A)} |->
                Wrapped(g, k, Routed(k, A, M))] @@
            [k \in DOMAIN M \ DOMAIN Catalogue |-> M[k]]]

\* The program of k, none if this generation refuses it.
ProgramsOf(k) == {Programs[gen][x] : x \in DOMAIN Programs[gen] \cap {k}}

Idle == [key |-> None, prog |-> Fixed, pc |-> 1, fail |-> 0, how |-> "", lost |-> FALSE, clear |-> FALSE]

Prog(c) == call[c].prog

Running(c) == call[c].key # None

At(c) == Prog(c)[call[c].pc]

\* Caller c is about to run one of the instructions O.
Runs(c, O) == Running(c) /\ At(c).op \in O

-----------------------------------------------------------------------------
(* Where a failing operation goes on. *)

Openers == {"enter", "take", "trytake", "make"}

Closers == {"leave", "give", "drop"}

\* What was opened at i or after it, before j, is closed before j as well.
LOCAL Level(p, i, j) ==
    Cardinality({x \in i .. j - 1 : p[x].op \in Openers})
        = Cardinality({x \in i + 1 .. j - 1 : p[x].op \in Closers})

LOCAL Catches(p, j, f, how) ==
    /\ j - p[j].back <= f
    /\ \/ p[j].op = "else"
       \/ p[j].op = "some" /\ how # "notheld"
       \/ p[j].op = "notheld" /\ how = "notheld"

\* The operation failed at f and has unwound to i: the next block to close around it, or
\* the handler of the failure, or the end.
Land(p, i, f, how) ==
    LET S == {j \in i + 1 .. Len(p) :
                /\ Level(p, i, j)
                /\ p[j].op \in Closers \/ Catches(p, j, f, how)}
    IN  IF S = {} THEN Len(p) + 1 ELSE Min(S)

\* A call at pc k: past the last instruction the caller is idle again.
Placed(r, k, p) == IF k > Len(p) THEN Idle ELSE [r EXCEPT !.pc = k]

Moved(c, k) == [call EXCEPT ![c] = Placed(@, k, Prog(c))]

\* The next instruction, or the next one the failing operation still runs.
Advanced(c) ==
    Moved(c, IF call[c].fail = 0 THEN call[c].pc + 1
             ELSE Land(Prog(c), call[c].pc, call[c].fail, call[c].how))

Failed(c, how) ==
    [call EXCEPT ![c] = Placed([@ EXCEPT !.fail = call[c].pc, !.how = how],
                               Land(Prog(c), call[c].pc, call[c].pc, how), Prog(c))]

-----------------------------------------------------------------------------
(* Access. *)

MotionLock == LockOf(gen, "motion")

\* Holds counted on a lock.  A hold whose release is queued still counts.
Count(l) ==
    MapThenSumSet(LAMBDA c : own[c][l], Callers)
        + (IF l = MotionLock /\ (jogHold \/ freeing) THEN 1 ELSE 0)
        + (IF l = MotionLock /\ public THEN 1 ELSE 0)

LocksOf(D) == {LockOf(gen, d) : d \in D}

Counted(c, L, k) == [own EXCEPT ![c] = [l \in Locks |-> IF l \in L THEN @[l] + k ELSE @[l]]]

\* Locks the session turned out not to hold: every hold on them has ended, and an
\* operation whose turn held one asks for no more access in that turn.
LoseLocks(L, nextCall) ==
    /\ own' = [c \in Callers |-> [l \in Locks |-> IF l \in L THEN 0 ELSE own[c][l]]]
    /\ call' = [c \in Callers |->
                    [nextCall[c] EXCEPT !.lost = @ \/ (turn.who = c /\ \E l \in L : own[c][l] > 0)]]
    /\ jogHold' = (jogHold /\ MotionLock \notin L)
    /\ public' = (public /\ MotionLock \notin L)

-----------------------------------------------------------------------------
(* One instruction of an operation. *)

Read(c) ==
    /\ Runs(c, {"get", "ask", "quiet"})
    /\ \/ call' = Advanced(c)
       \/ At(c).op # "quiet" /\ call' = Failed(c, "refused")
    /\ UNCHANGED <<gen, made, turn, own, temp, jogHold, timer, freeing, public>>

Write(c) ==
    /\ Runs(c, {"put"})
    /\ call' = Advanced(c) \/ call' = Failed(c, "refused")
    /\ UNCHANGED <<gen, made, turn, own, temp, jogHold, timer, freeing, public>>

\* The write is refused as "not held": the locks held around it are gone.
WriteNotHeld(c) ==
    /\ Runs(c, {"put"})
    /\ LoseLocks({l \in Locks : own[c][l] > 0}
                    \cup (IF call[c].key = "jog" THEN {MotionLock} ELSE {}), Failed(c, "notheld"))
    /\ UNCHANGED <<gen, made, turn, temp, timer, freeing>>

\* The client refuses by itself.
Throw(c) ==
    /\ Runs(c, {"throw", "never"})
    /\ call' = Failed(c, At(c).op)
    /\ UNCHANGED <<gen, made, turn, own, temp, jogHold, timer, freeing, public>>

Branch(c) ==
    /\ Runs(c, {"may", "skip"})
    /\ \/ At(c).op = "may" /\ call' = Moved(c, call[c].pc + 1)
       \/ call' = Moved(c, call[c].pc + 1 + At(c).n)
    /\ UNCHANGED <<gen, made, turn, own, temp, jogHold, timer, freeing, public>>

\* A handler: passed over by an operation that has not failed.
Handle(c) ==
    /\ Runs(c, {"else", "some", "notheld"})
    /\ \/ /\ call[c].fail = 0
          /\ call' = Moved(c, call[c].pc + 1 + At(c).n)
       \/ /\ call[c].fail # 0
          /\ call' = [call EXCEPT ![c] =
                        Placed([@ EXCEPT !.fail = 0, !.how = ""], @.pc + 1, Prog(c))]
       \/ /\ call[c].fail # 0 /\ At(c).op = "some"
          /\ call' = Advanced(c)
    /\ UNCHANGED <<gen, made, turn, own, temp, jogHold, timer, freeing, public>>

EnterTurn(c) ==
    /\ Runs(c, {"enter"})
    /\ turn.who \in {None, c}
    /\ turn' = [who |-> c, depth |-> turn.depth + 1]
    /\ call' = Advanced(c)
    /\ UNCHANGED <<gen, made, own, temp, jogHold, timer, freeing, public>>

(* Mutant: the turn is kept. *)
StaysInTurn(c) ==
    /\ Runs(c, {"leave"})
    /\ turn' = [who |-> c, depth |-> turn.depth - 1]
    /\ call' = Advanced(c)
    /\ UNCHANGED <<gen, made, own, temp, jogHold, timer, freeing, public>>

LeaveTurn(c) ==
    /\ Runs(c, {"leave"})
    /\ turn' = [who |-> IF turn.depth = 1 THEN None ELSE c, depth |-> turn.depth - 1]
    /\ call' = [Advanced(c) EXCEPT ![c].lost = @ /\ turn.depth > 1]
    /\ UNCHANGED <<gen, made, own, temp, jogHold, timer, freeing, public>>

(* Mutant: a lock somebody already counts is not counted again. *)
TakesOnce(c) ==
    /\ Runs(c, {"take", "trytake"})
    /\ ~freeing
    /\ own' = Counted(c, {l \in LocksOf(At(c).on) : Count(l) = 0}, 1)
    /\ call' = Advanced(c)
    /\ UNCHANGED <<gen, made, turn, temp, jogHold, timer, freeing, public>>

(* Mutant: access is asked for ahead of a release that is queued. *)
TakesAhead(c) ==
    /\ Runs(c, {"take", "trytake"})
    /\ own' = Counted(c, LocksOf(At(c).on), 1)
    /\ call' = Advanced(c)
    /\ UNCHANGED <<gen, made, turn, temp, jogHold, timer, freeing, public>>

\* Access is counted.  Only a lock nobody counts yet is asked for, and only that can be
\* refused; in a turn that lost access nothing is asked for.
Take(c) ==
    /\ Runs(c, {"take", "trytake"})
    /\ ~freeing
    /\ LET L == LocksOf(At(c).on)
           Refused == IF At(c).op = "take" THEN Failed(c, "refused") ELSE Advanced(c)
       IN  \/ ~call[c].lost /\ own' = Counted(c, L, 1) /\ call' = Advanced(c)
           \/ /\ call[c].lost \/ \E l \in L : Count(l) = 0
              /\ call' = Refused
              /\ UNCHANGED own
    /\ UNCHANGED <<gen, made, turn, temp, jogHold, timer, freeing, public>>

(* Mutant: an operation that failed does not give its access back. *)
GivesWhenDone(c) ==
    /\ Runs(c, {"give"})
    /\ ~freeing
    /\ own' = IF call[c].fail = 0 THEN Counted(c, {l \in LocksOf(At(c).on) : own[c][l] > 0}, -1) ELSE own
    /\ call' = Advanced(c)
    /\ UNCHANGED <<gen, made, turn, temp, jogHold, timer, freeing, public>>

Give(c) ==
    /\ Runs(c, {"give"})
    /\ ~freeing
    /\ own' = Counted(c, {l \in LocksOf(At(c).on) : own[c][l] > 0}, -1)
    /\ call' = Advanced(c)
    /\ UNCHANGED <<gen, made, turn, temp, jogHold, timer, freeing, public>>

TempFile(c) ==
    /\ Runs(c, {"make", "drop"})
    /\ \/ /\ temp' = [temp EXCEPT ![c] = IF At(c).op = "make" THEN @ + 1 ELSE @ - 1]
          /\ call' = Advanced(c)
       \/ /\ At(c).op = "make"
          /\ call' = Failed(c, "refused")
          /\ UNCHANGED temp
    /\ UNCHANGED <<gen, made, turn, own, jogHold, timer, freeing, public>>

\* sendFirst after "not held": what the session counted is given up before access is
\* requested; on RobotWare 8 that is everything it holds.
Forfeit(c) ==
    /\ Runs(c, {"forfeit"})
    /\ LoseLocks({l \in (IF gen = "rw8" THEN Locks ELSE {LockOf(gen, "rapid")}) : Count(l) > 0},
                 Advanced(c))
    /\ UNCHANGED <<gen, made, turn, temp, timer, freeing>>

-----------------------------------------------------------------------------
(* The jog's own hold. *)

\* A user's hold covers the jog, and so does its own, whose timer starts again; otherwise
\* one is requested.
JogAsk(c) ==
    /\ Runs(c, {"jogask"})
    /\ call' = Moved(c, call[c].pc + (IF public \/ jogHold THEN 2 ELSE 1))
    /\ timer' = (timer \/ (jogHold /\ ~public))
    /\ UNCHANGED <<gen, made, turn, own, temp, jogHold, freeing, public>>

(* Mutant: the timer starts with the second jog. *)
TakeUntimed(c) ==
    /\ Runs(c, {"jogtake"})
    /\ ~freeing
    /\ jogHold' = TRUE
    /\ call' = Advanced(c)
    /\ UNCHANGED <<gen, made, turn, own, temp, timer, freeing, public>>

\* The timer starts as soon as the hold is there, before the jog is sent.
JogTake(c) ==
    /\ Runs(c, {"jogtake"})
    /\ ~freeing
    /\ \/ /\ ~call[c].lost
          /\ jogHold' = TRUE /\ timer' = TRUE
          /\ call' = Advanced(c)
       \/ /\ call[c].lost \/ Count(MotionLock) = 0
          /\ call' = Failed(c, "refused")
          /\ UNCHANGED <<jogHold, timer>>
    /\ UNCHANGED <<gen, made, turn, own, temp, freeing, public>>

\* The timer is cleared and the release of the hold, if there is one, is queued.
EndJogHold ==
    /\ timer' = FALSE
    /\ jogHold' = FALSE
    /\ freeing' = (freeing \/ jogHold)

JogEnd(c) ==
    /\ Runs(c, {"jogend"})
    /\ call' = [Advanced(c) EXCEPT ![c].clear = ~public]
    /\ IF gen # "rw8" /\ jogHold /\ ~public THEN EndJogHold
                                            ELSE UNCHANGED <<jogHold, timer, freeing>>
    /\ UNCHANGED <<gen, made, turn, own, temp, public>>

\* Two seconds after it was set.
TimerFires ==
    /\ timer
    /\ EndJogHold
    /\ UNCHANGED <<gen, call, made, turn, own, temp, public>>

Freed ==
    /\ freeing
    /\ freeing' = FALSE
    /\ UNCHANGED <<gen, call, made, turn, own, temp, jogHold, timer, public>>

\* A user's requestMastership('motion'), which replaces the jog's own hold.
RequestMotion ==
    /\ MayHold /\ ~public /\ ~freeing
    /\ public' = TRUE
    /\ EndJogHold
    /\ UNCHANGED <<gen, call, made, turn, own, temp>>

\* releaseMastership('motion'): without a user's hold it ends the jog's.
ReleaseMotion ==
    /\ MayHold /\ ~freeing
    /\ public \/ jogHold
    /\ public' = FALSE
    /\ IF public THEN UNCHANGED <<jogHold, timer, freeing>> ELSE EndJogHold
    /\ UNCHANGED <<gen, call, made, turn, own, temp>>

-----------------------------------------------------------------------------
Begin(c, k) ==
    /\ ~Running(c)
    /\ made[c] < MaxCalls
    /\ \E p \in ProgramsOf(k) : call' = [call EXCEPT ![c] = Placed([Idle EXCEPT !.key = k, !.prog = p], 1, p)]
    /\ made' = [made EXCEPT ![c] = @ + 1]
    /\ UNCHANGED <<gen, turn, own, temp, jogHold, timer, freeing, public>>

Step(c) ==
    \/ Read(c) \/ Write(c) \/ WriteNotHeld(c) \/ Throw(c) \/ Branch(c) \/ Handle(c)
    \/ EnterTurn(c) \/ LeaveTurn(c) \/ Take(c) \/ Give(c) \/ TempFile(c) \/ Forfeit(c)
    \/ JogAsk(c) \/ JogTake(c) \/ JogEnd(c)

Init ==
    /\ gen \in Gens
    /\ call = [c \in Callers |-> Idle]
    /\ made = [c \in Callers |-> 0]
    /\ turn = [who |-> None, depth |-> 0]
    /\ own = [c \in Callers |-> [l \in Locks |-> 0]]
    /\ temp = [c \in Callers |-> 0]
    /\ jogHold = FALSE /\ timer = FALSE /\ freeing = FALSE /\ public = FALSE

Next ==
    \/ \E c \in Callers : Step(c) \/ \E k \in Asks[c] : Begin(c, k)
    \/ TimerFires \/ Freed \/ RequestMotion \/ ReleaseMotion

Spec == Init /\ [][Next]_vars

\* Every request is answered or given up by its limit, a queued release runs, and a timer
\* that is set fires.
FairSpec ==
    /\ Spec
    /\ \A c \in Callers : WF_vars(Step(c))
    /\ WF_vars(TimerFires) /\ WF_vars(Freed)

-----------------------------------------------------------------------------
TypeOK ==
    /\ gen \in Gens
    /\ \A c \in Callers : /\ Running(c) => call[c].pc \in DOMAIN Prog(c)
                          /\ own[c] \in [Locks -> Nat]
                          /\ temp[c] \in Nat
    /\ turn.who \in Callers \cup {None}
    /\ turn.who = None <=> turn.depth = 0
    /\ {jogHold, timer, freeing, public} \subseteq BOOLEAN

\* An operation that is over, however it ended, leaves no access counted, no turn taken
\* and no temporary file that was saved and not asked to be deleted; what stays counted is
\* the jog's own hold, and then its timer runs or a user's hold has taken over.
CleanEnd ==
    /\ \A c \in Callers : ~Running(c) =>
            /\ \A l \in Locks : own[c][l] = 0
            /\ temp[c] = 0
            /\ turn.who # c
    /\ jogHold => timer

\* On RobotWare 8 every write whose catalogue entry says that its method or call() takes
\* write access is sent under write access its own operation counts, or after that access
\* turned out to be lost.  Stop and motors off are sent first; the jog has its own hold.
UnderAccess ==
    \A c \in Callers :
        Runs(c, {"put"}) /\ gen = "rw8" /\ call[c].key \in DOMAIN Catalogue =>
            \/ Rw8Access(call[c].key) = "none"
            \/ call[c].key \in SentFirst \cup {"jog"}
            \/ own[c]["writeaccess"] > 0
            \/ call[c].lost

\* An operation the catalogue lists for the session's web services never turns out to be
\* one the client refuses to send, but for the two reads only RobotWare 8 has; and the
\* read named as the one that verifies a write is one call() accepts there, and changes
\* nothing.
AdvertisedMeansSent ==
    \A c \in Callers : Running(c) /\ call[c].key \in DOMAIN Catalogue =>
        /\ Runs(c, {"never"}) =>
              gen = "rw7" /\ call[c].key \in {"getWriteAccessStatus", "getAllowMotionControl"}
        /\ call[c].key \in DOMAIN ReadBacks /\ Api(gen) \in ReadBacks[call[c].key].apis =>
              \E p \in ProgramsOf(ReadBacks[call[c].key].key) :
                  \A i \in DOMAIN p : p[i].op \notin {"put", "never"}

Reads == {k \in DOMAIN Catalogue : Catalogue[k].effect = "read"}

\* A read takes no access and leaves nothing on the controller, and neither a read nor a
\* stop or motors off waits for the write turn of another operation.
ReadsAndStopsAreFree ==
    \A c \in Callers : Running(c) =>
        /\ call[c].key \in {"stopRapid", "setMotorsOff"} => ~Runs(c, {"enter"})
        /\ call[c].key \in Reads => ~Runs(c, {"put", "enter", "take", "make"})

\* Where motion has a lock of its own, a start or step that found no caller's hold on it is
\* not sent while the jog still holds it: neither the live hold nor one whose release is
\* queued, and no jog has taken it again in between.
StartWithoutMotion ==
    \A c \in Callers :
        Runs(c, {"put"}) /\ gen # "rw8" /\ call[c].key \in {"startRapid", "stepRapid"}
            /\ call[c].clear => ~(jogHold \/ freeing)

\* A call under way only goes forward: each step of its caller takes it further down its
\* program, whatever fails there and whatever the others do, so a call has at most as many
\* steps as its program is long. A handler that went back would send its requests again.
GoesForward ==
    [][\A c \in Callers : Running(c) /\ Running(c)' =>
            /\ call'[c].key = call[c].key /\ call'[c].prog = call[c].prog
            /\ call'[c].pc >= call[c].pc
            /\ Step(c) => call'[c].pc > call[c].pc]_vars

\* What a call waits for: a turn that another one has, or the queued release of the jog's hold.
Waits(c) ==
    \/ Runs(c, {"enter"}) /\ turn.who \notin {None, c}
    \/ Runs(c, {"take", "trytake", "give", "jogtake"}) /\ freeing

\* A call that does not wait can go on.
OnlyTheseWait == \A c \in Callers : Running(c) /\ ~Waits(c) => ENABLED Step(c)

\* Calls never all wait for each other: while some are under way, a release is on its way
\* or one of them does not wait.
SomebodyGoesOn ==
    (\E c \in Callers : Running(c)) => freeing \/ \E c \in Callers : Running(c) /\ ~Waits(c)

\* Every call comes to an end.
CallEnds == \A c \in Callers : Running(c) ~> ~Running(c)

\* The jog's hold is let go of without anybody asking.
JogLetGo == jogHold ~> ~jogHold

\* The jog is sent while the session counts the motion lock.
JogUnderHold ==
    \A c \in Callers :
        Runs(c, {"put"}) /\ call[c].key = "jog" => Count(MotionLock) > 0
=============================================================================
