------------------------------- MODULE Access -------------------------------
(***************************************************************************)
(* The AccessManager of one controller session: reference-counted holds    *)
(* on the controller's locks (mastership domains, RobotWare 8 write        *)
(* access), the chain of wire steps, the turn of the one write in          *)
(* progress, and the ways a hold is lost.                                  *)
(*                                                                         *)
(* The client is single-threaded: an action is what it does between two    *)
(* awaits.  A wire step that awaits an answer is split in three: the       *)
(* client sends (Start...), the controller serves or the call fails        *)
(* (Serve..., external), the client acts on the answer (Answer...).        *)
(* Whatever else the client does may come in between.                      *)
(***************************************************************************)
EXTENDS Naturals, Sequences, FiniteSets, SequencesExt

CONSTANTS
    Locks,      \* driver.locks(): the real locks of the generation
    Ops,        \* operations (withAccess callers)
    Hold,       \* identities of AccessHold objects
    Public,     \* the holds requestPublic creates
    Groups,     \* the hold groups requestPublicAll creates
    GroupHolds, \* [Groups -> SUBSET Hold]: one hold per lock
    Outer,      \* [Ops -> Seq(Hold)]: the holds of an operation's withAccess
    Inner,      \* [Ops -> Seq(Hold)]: those of a withAccess nested in its fn
    LockOf,     \* lockOfHold
    Owner,      \* [Hold -> Ops \cup {NoTurn}]: the turn a hold is taken in
    NoTurn,
    CanRead,    \* the driver has heldByMe and confirmHeld (RobotWare 8)
    Unanswered, \* requests may go unanswered (FALSE: a network that drops none)
    Watched,    \* locks whose watchdog may lapse (RobotWare 7 edit)
    MaxQueue    \* bound: callers make a public call only on a shorter chain

(* What the constants must satisfy: holds are created by one operation     *)
(* frame, one public request or one group, and a group has a hold on each  *)
(* lock.                                                                   *)
ASSUME ConstAssumption ==
    /\ CanRead \in BOOLEAN /\ Unanswered \in BOOLEAN
    /\ Watched \subseteq Locks /\ MaxQueue \in Nat
    /\ Public \subseteq Hold
    /\ NoTurn \notin Ops
    /\ LockOf \in [Hold -> Locks]
    /\ Owner \in [Hold -> Ops \cup {NoTurn}]
    /\ Outer \in [Ops -> Seq(Hold)] /\ Inner \in [Ops -> Seq(Hold)]
    /\ \A p \in Ops : \A i \in 1..Len(Outer[p]) : Owner[Outer[p][i]] = p
    /\ \A p \in Ops : \A i \in 1..Len(Inner[p]) : Owner[Inner[p][i]] = p
    /\ GroupHolds \in [Groups -> SUBSET Hold]
    /\ \A g \in Groups : \A h \in GroupHolds[g] : Owner[h] = NoTurn
    /\ \A h \in Public : Owner[h] = NoTurn

VARIABLES
    holder,   \* controller: who holds each lock
    revoked,  \* controller: locks taken from this session since their grant
    session,  \* "open", "closing" (turnsRefused, draining) or "closed"
    holds,    \* this.holds: the live holds
    public,   \* this.publicHolds, oldest first, dead ones included
    groups,   \* this.publicAll, oldest first
    asked,    \* public holds and groups whose request is on the chain
    record,   \* records: how the last run of holds on a lock ended
    chain,    \* the steps queued or running; the head is the running one
    wire,     \* the call the running step awaits
    loop,     \* where the running step's loop over locks has got to
    mutexBusy,
    waiters,  \* operations queued for the turn
    pc,       \* where each operation is
    nested,   \* it is inside its nested withAccess
    taken,    \* how many holds of the current frame it has taken
    outcome,  \* how its fn ended
    lost,     \* turn.lost
    doubted,  \* history: locks recorded as lost, not granted or read as held since
    check,    \* the confirmHeld read in flight for each lock
    affected  \* the holds that read is about

controller == <<holder, revoked>>
opVars == <<pc, nested, taken, outcome>>
turnVars == <<mutexBusy, waiters>>
checkVars == <<check, affected>>
lossVars == <<lost, doubted>>
publicVars == <<public, groups, asked>>
chainVars == <<chain, wire, loop>>
vars == <<controller, session, holds, publicVars, record, chainVars,
          turnVars, opVars, lossVars, checkVars>>

-----------------------------------------------------------------------------
(* Steps on the chain, calls on the wire.                                  *)

Step == [kind : {"acquire", "release", "forget"}, hold : Hold]
        \cup [kind : {"plainRelease"}, lock : Locks]
        \cup [kind : {"afterLoss"}, locks : SUBSET Locks]
        \cup [kind : {"acquireAll"}, group : Groups]
        \cup [kind : {"releaseAll"}, ending : SUBSET Hold, own : BOOLEAN]

NoWire == [msg |-> "none", locks |-> {}, answer |-> "pending"]
Call(m, L) == [msg |-> m, locks |-> L, answer |-> "pending"]
NoLoop == [todo |-> {}, done |-> {}]

Running == Head(chain)
Starts(kind) == chain # <<>> /\ wire = NoWire /\ Running.kind = kind
Answered(m) == wire.msg = m /\ wire.answer # "pending"

(* With nothing in flight enqueue runs the step in the same tick, and a    *)
(* step starts as soon as the one before it is done: nothing else happens  *)
(* while the head of the chain has not started.                            *)
Quiet == chain = <<>> \/ wire # NoWire

Room == Len(chain) < MaxQueue

Enqueue(s) == chain' = Append(chain, s) /\ UNCHANGED <<wire, loop>>
StepDone == chain' = Tail(chain) /\ wire' = NoWire /\ loop' = NoLoop
Send(m, L) == wire' = Call(m, L) /\ UNCHANGED chain

(* count(lock) > 0 in a set of live holds. *)
CountedIn(S, l) == \E h \in S : LockOf[h] = l
Counted(l) == CountedIn(holds, l)
heldLocks == {l \in Locks : Counted(l)}

(* Mutant: a release that failed is taken for one that worked. *)
MarkedIdle(L, how) ==
    record' = [l \in Locks |-> IF l \in L THEN (IF how = "lost" THEN "lost" ELSE "idle")
                                           ELSE record[l]]
MarkEnded(L, how) == record' = [l \in Locks |-> IF l \in L THEN how ELSE record[l]]

-----------------------------------------------------------------------------
(* The turn and the operations.                                            *)

InTurn(p) == pc[p] \notin {"idle", "waiting"}
Frame(p) == IF nested[p] THEN Inner[p] ELSE Outer[p]
NextPc(p, k) == IF k < Len(Frame(p)) THEN "take" ELSE "body"

FirstPc(p) == IF Outer[p] = <<>> THEN "body" ELSE "take"

(* exclusive(), called outside a turn, and enterTurn(). *)
EnterTurn(p) ==
    /\ Quiet /\ pc[p] = "idle" /\ session = "open"
    /\ mutexBusy' = TRUE
    /\ IF ~mutexBusy
         THEN pc' = [pc EXCEPT ![p] = FirstPc(p)] /\ UNCHANGED waiters
         ELSE pc' = [pc EXCEPT ![p] = "waiting"] /\ waiters' = Append(waiters, p)
    /\ UNCHANGED <<controller, session, holds, publicVars, record, chainVars,
                   nested, taken, outcome, lossVars, checkVars>>

(* The queue timeout of a waiting operation: CONTROLLER_BUSY. *)
QueueTimeout(p) ==
    /\ Quiet
    /\ \E i \in 1..Len(waiters) :
          /\ waiters[i] = p
          /\ waiters' = RemoveAt(waiters, i)
    /\ pc' = [pc EXCEPT ![p] = "idle"]
    /\ UNCHANGED <<controller, session, holds, publicVars, record, chainVars,
                   mutexBusy, nested, taken, outcome, lossVars, checkVars>>

(* Mutant: the turn is free again, and nobody who waits is told. *)
FreeOnly(p) ==
    mutexBusy' = FALSE /\ pc' = [pc EXCEPT ![p] = "idle"] /\ UNCHANGED waiters

(* Mutant: the turn goes to the last one who came. *)
LastFirst(p) ==
    IF waiters = <<>>
      THEN mutexBusy' = FALSE /\ pc' = [pc EXCEPT ![p] = "idle"] /\ UNCHANGED waiters
      ELSE /\ waiters' = Front(waiters)
           /\ pc' = [pc EXCEPT ![p] = "idle", ![Last(waiters)] = FirstPc(Last(waiters))]
           /\ UNCHANGED mutexBusy

(* leaveTurn(): the turn goes to the first waiter. *)
HandOn(p) ==
    IF waiters = <<>>
      THEN /\ mutexBusy' = FALSE
           /\ pc' = [pc EXCEPT ![p] = "idle"]
           /\ UNCHANGED waiters
      ELSE /\ waiters' = Tail(waiters)
           /\ pc' = [pc EXCEPT ![p] = "idle", ![Head(waiters)] = FirstPc(Head(waiters))]
           /\ UNCHANGED mutexBusy

(* Mutant: the turn is left before the holds have ended. *)
FnEnded(p) == pc[p] = "unwind" /\ ~nested[p]
Unwound(p) == pc[p] = "unwind" /\ taken[p] = 0 /\ ~nested[p]

(* The end of exclusive(): p's turn token is gone and the turn handed on. *)
LeaveTurn(p) ==
    /\ Quiet /\ Unwound(p)
    /\ lost' = [lost EXCEPT ![p] = FALSE]
    /\ outcome' = [outcome EXCEPT ![p] = "none"]
    /\ HandOn(p)
    /\ UNCHANGED <<controller, session, holds, publicVars, record, chainVars,
                   nested, taken, doubted, checkVars>>

(* withAccess asks for its next hold.  acquire() rejects at once when this *)
(* operation has lost a hold.                                              *)
Take(p) ==
    /\ Quiet /\ pc[p] = "take"
    /\ IF lost[p]
         THEN /\ pc' = [pc EXCEPT ![p] = "unwind"]
              /\ outcome' = [outcome EXCEPT ![p] = "failed"]
              /\ UNCHANGED chainVars
         ELSE /\ pc' = [pc EXCEPT ![p] = "taking"]
              /\ Enqueue([kind |-> "acquire", hold |-> Frame(p)[taken[p] + 1]])
              /\ UNCHANGED outcome
    /\ UNCHANGED <<controller, session, holds, publicVars, record, turnVars,
                   nested, taken, lossVars, checkVars>>

(* fn calls a further access-taking write: exclusive() is re-entrant. *)
Nest(p) ==
    /\ Quiet /\ pc[p] = "body" /\ ~nested[p] /\ Inner[p] # <<>>
    /\ nested' = [nested EXCEPT ![p] = TRUE]
    /\ taken' = [taken EXCEPT ![p] = 0]
    /\ pc' = [pc EXCEPT ![p] = "take"]
    /\ UNCHANGED <<controller, session, holds, publicVars, record, chainVars,
                   turnVars, outcome, lossVars, checkVars>>

LiveTaken(p) == {Frame(p)[i] : i \in 1..taken[p]} \cap holds
LiveLocks(p) == {LockOf[h] : h \in LiveTaken(p)}

(* Mutant: a loss ends one hold of a lock, as a release does. *)
EndOne(L) ==
    /\ holds' = holds \ {CHOOSE h \in holds : LockOf[h] = l : l \in {k \in L : Counted(k)}}
    /\ lost' = [p \in Ops |-> lost[p] \/ (InTurn(p) /\ \E h \in holds :
                                  LockOf[h] \in L /\ Owner[h] = p)]
    /\ doubted' = doubted \cup L

(* recordLoss ends every hold on L, and the operation that took one of     *)
(* them is told; the locks are marked lost.                                *)
EndHolds(L) ==
    /\ holds' = {h \in holds : LockOf[h] \notin L}
    /\ lost' = [p \in Ops |-> lost[p] \/ (InTurn(p) /\ \E h \in holds :
                                  LockOf[h] \in L /\ Owner[h] = p)]
    /\ doubted' = doubted \cup L
RecordLoss(L) == EndHolds(L) /\ MarkEnded(L, "lost")

(* fn returned or threw an error that says nothing of access. *)
BodyEnds(p, how) ==
    /\ Quiet /\ pc[p] \in {"body", "rest"}
    /\ pc' = [pc EXCEPT ![p] = "unwind"]
    /\ outcome' = [outcome EXCEPT ![p] = how]
    /\ UNCHANGED <<controller, session, holds, publicVars, record, chainVars,
                   turnVars, nested, taken, lossVars, checkVars>>

(* fn failed with "not held" (a lock of it is no longer this session's, or *)
(* it passes on the refusal of a nested write): noteRefusal.               *)
BodyRefused(p) ==
    /\ Quiet /\ pc[p] \in {"body", "rest"}
    /\ (\E l \in LiveLocks(p) : holder[l] # "me") \/ outcome[p] = "refused"
    /\ RecordLoss(LiveLocks(p))
    /\ pc' = [pc EXCEPT ![p] = "unwind"]
    /\ outcome' = [outcome EXCEPT ![p] = "refused"]
    /\ UNCHANGED <<controller, session, publicVars, chainVars, turnVars,
                   nested, taken, checkVars>>

(* fn restarts the controller (releaseOnSuccess: false).  The controller   *)
(* goes down and ends every hold of the session.                           *)
BodyRestarts(p) ==
    /\ Quiet /\ pc[p] \in {"body", "rest"} /\ ~nested[p]
    /\ holder' = [l \in Locks |-> "none"]
    /\ revoked' = revoked \cup {l \in Locks : holder[l] = "me"}
    /\ pc' = [pc EXCEPT ![p] = "unwind"]
    /\ outcome' = [outcome EXCEPT ![p] = "restart"]
    /\ UNCHANGED <<session, holds, publicVars, record, chainVars, turnVars,
                   nested, taken, lossVars, checkVars>>

(* withAccess ends its holds in reverse; a nested one then returns to fn,  *)
(* which goes on (it may catch a failure) without nesting again.           *)
Unwind(p) ==
    /\ Quiet /\ pc[p] = "unwind"
    /\ \/ /\ taken[p] > 0
          /\ Enqueue([kind |-> IF outcome[p] = "restart" THEN "forget" ELSE "release",
                      hold |-> Frame(p)[taken[p]]])
          /\ pc' = [pc EXCEPT ![p] = "ending"]
          /\ UNCHANGED <<nested, taken>>
       \/ /\ taken[p] = 0 /\ nested[p]
          /\ nested' = [nested EXCEPT ![p] = FALSE]
          /\ taken' = [taken EXCEPT ![p] = Len(Outer[p])]
          /\ pc' = [pc EXCEPT ![p] = "rest"]
          /\ UNCHANGED chainVars
    /\ UNCHANGED <<controller, session, holds, publicVars, record, turnVars,
                   outcome, lossVars, checkVars>>

-----------------------------------------------------------------------------
(* acquire: the step of an operation's hold or of a public one.            *)

(* The hold is counted and handed to its caller.  A hold identity stands   *)
(* for a new object each time, so an older status read is not about it.    *)
Granted(h) ==
    /\ holds' = holds \cup {h}
    /\ affected' = [l \in Locks |-> affected[l] \ {h}]
    /\ IF Owner[h] \in Ops
         THEN LET p == Owner[h] IN
              /\ taken' = [taken EXCEPT ![p] = @ + 1]
              /\ pc' = [pc EXCEPT ![p] = NextPc(p, taken[p] + 1)]
              /\ UNCHANGED publicVars
         ELSE /\ public' = Append(public, h)
              /\ asked' = asked \ {h}
              /\ UNCHANGED <<groups, taken, pc>>
    /\ StepDone
    /\ UNCHANGED <<nested, outcome>>

(* Mutant: the error is dropped, and the caller waits on. *)
Unheard(h) == StepDone /\ UNCHANGED <<holds, affected, publicVars, opVars>>

(* The request failed: the error goes to the caller, nothing is counted. *)
NotGranted(h) ==
    /\ IF Owner[h] \in Ops
         THEN /\ pc' = [pc EXCEPT ![Owner[h]] = "unwind"]
              /\ outcome' = [outcome EXCEPT ![Owner[h]] = "failed"]
              /\ UNCHANGED asked
         ELSE asked' = asked \ {h} /\ UNCHANGED <<pc, outcome>>
    /\ StepDone
    /\ UNCHANGED <<holds, affected, public, groups, nested, taken>>

(* requestPublic: a caller's own hold, outside any turn. *)
RequestPublic(h) ==
    /\ Quiet /\ Room /\ h \in Public \ (holds \cup Range(public) \cup asked)
    /\ asked' = asked \cup {h}
    /\ Enqueue([kind |-> "acquire", hold |-> h])
    /\ UNCHANGED <<controller, session, holds, public, groups, record,
                   turnVars, opVars, lossVars, checkVars>>

(* The operation lost a hold while its request was queued. *)
Queued(h) == FALSE  \* mutant: the loss is looked at only before queueing
Barred(h) == Owner[h] \in Ops /\ lost[Owner[h]]

StartAcquire ==
    /\ Starts("acquire")
    /\ LET h == Running.hold IN
       \/ Barred(h) /\ NotGranted(h)
       \/ ~Barred(h) /\ Counted(LockOf[h]) /\ Granted(h)
       \/ /\ ~Barred(h) /\ ~Counted(LockOf[h])
          /\ Send("request", {LockOf[h]})
          /\ UNCHANGED <<loop, holds, affected, publicVars, opVars>>
    /\ UNCHANGED <<controller, session, record, turnVars, lossVars, check>>

(* The request's answer: granted, already this session's, not answered     *)
(* (read who holds it where the driver can) or refused.                    *)
AnswerAcquire ==
    /\ Answered("request") /\ Running.kind = "acquire"
    /\ LET h == Running.hold IN
       \/ /\ wire.answer \in {"ok", "alreadyHeld"}
          /\ Granted(h)
       \/ /\ wire.answer = "noAnswer" /\ CanRead
          /\ Send("heldByMe", {LockOf[h]})
          /\ UNCHANGED <<loop, holds, affected, publicVars, opVars>>
       \/ /\ wire.answer = "refused" \/ (wire.answer = "noAnswer" /\ ~CanRead)
          /\ NotGranted(h)
    /\ UNCHANGED <<controller, session, record, turnVars, lossVars, check>>

(* grantedAfterAll: what the status read says of an unanswered request. *)
AnswerHeldByMe ==
    /\ Answered("heldByMe")
    /\ LET h == Running.hold IN
       \/ wire.answer = "held" /\ Granted(h) /\ UNCHANGED record
       \/ wire.answer = "notHeld" /\ NotGranted(h) /\ UNCHANGED record
       \/ /\ wire.answer = "failed" /\ NotGranted(h)
          /\ MarkEnded({l \in {LockOf[h]} : ~Counted(l)}, "uncertain")
    /\ UNCHANGED <<controller, session, turnVars, lossVars, check>>

-----------------------------------------------------------------------------
(* Releases.                                                               *)

(* The end of an operation's release or forget step: withAccess goes on. *)
HoldEnded(h) ==
    IF Owner[h] \in Ops
      THEN /\ pc' = [pc EXCEPT ![Owner[h]] = "unwind"]
           /\ taken' = [taken EXCEPT ![Owner[h]] = @ - 1]
           /\ UNCHANGED <<nested, outcome>>
      ELSE UNCHANGED opVars

(* Mutant: every live hold is taken for the last. *)
LiveHold(h) == h \in holds
LastHold(h) == h \in holds /\ ~CountedIn(holds \ {h}, LockOf[h])

(* releaseHold: only the release that ends the last live hold on the lock  *)
(* goes on the wire.                                                       *)
StartRelease ==
    /\ Starts("release")
    /\ LET h == Running.hold IN
       /\ holds' = holds \ {h}
       /\ IF LastHold(h)
            THEN Send("release", {LockOf[h]}) /\ UNCHANGED <<loop, opVars>>
            ELSE StepDone /\ HoldEnded(h)
    /\ UNCHANGED <<controller, session, publicVars, record, turnVars, lossVars, checkVars>>

(* forget: the controller ends the hold itself, nothing is sent. *)
StartForget ==
    /\ Starts("forget")
    /\ LET h == Running.hold IN
       /\ holds' = holds \ {h}
       /\ IF LastHold(h) THEN MarkEnded({LockOf[h]}, "idle") ELSE UNCHANGED record
       /\ StepDone /\ HoldEnded(h)
    /\ UNCHANGED <<controller, session, publicVars, turnVars, lossVars, checkVars>>

(* What wireRelease records for its answer about the locks L.  `ending` is *)
(* the lock whose counted release this is (this.releasing): "not held"     *)
(* means its hold had been lost before.                                    *)
Released(L, ending) ==
    LET free == {l \in L : ~Counted(l)}
        missed == {l \in L : l \in ending \/ Counted(l)}
    IN \/ /\ wire.answer = "ok"
          /\ MarkEnded(free, "idle") /\ UNCHANGED <<holds, lossVars>>
       \/ /\ wire.answer = "failed"
          /\ MarkEnded(free, "uncertain") /\ UNCHANGED <<holds, lossVars>>
       \/ /\ wire.answer = "notHeld"
          /\ EndHolds(missed)
          /\ record' = [l \in Locks |-> IF l \in missed THEN "lost"
                                         ELSE IF l \in L THEN "idle" ELSE record[l]]

AnswerRelease ==
    /\ Answered("release") /\ Running.kind = "release"
    /\ Released(wire.locks, wire.locks)
    /\ StepDone /\ HoldEnded(Running.hold)
    /\ UNCHANGED <<controller, session, publicVars, turnVars, checkVars>>

(* takePublicHold: the caller's newest live hold on the lock, else the     *)
(* newest dead one.                                                        *)
PublicAt(l, S) == {i \in 1..Len(public) : LockOf[public[i]] = l /\ public[i] \in S}
Newest(I) == {i \in I : \A j \in I : j <= i}

(* releasePublic. *)
ReleasePublic(l) ==
    /\ Quiet /\ Room
    /\ LET live == PublicAt(l, holds)
           dead == PublicAt(l, Hold \ holds)
       IN \/ \E i \in Newest(live) :
             /\ public' = RemoveAt(public, i)
             /\ Enqueue([kind |-> "release", hold |-> public[i]])
          \/ /\ live = {}
             /\ \E i \in Newest(dead) : public' = RemoveAt(public, i)
             /\ UNCHANGED chainVars
          \/ /\ live = {} /\ dead = {}
             /\ Enqueue([kind |-> "plainRelease", lock |-> l])
             /\ UNCHANGED public
    /\ UNCHANGED <<controller, session, holds, groups, asked, record,
                   turnVars, opVars, lossVars, checkVars>>

StartPlainRelease ==
    /\ Starts("plainRelease")
    /\ IF Counted(Running.lock)
         THEN StepDone
         ELSE Send("release", {Running.lock}) /\ UNCHANGED loop
    /\ UNCHANGED <<controller, session, holds, publicVars, record, turnVars,
                   opVars, lossVars, checkVars>>

AnswerPlainRelease ==
    /\ Answered("release") /\ Running.kind = "plainRelease"
    /\ Released(wire.locks, {})
    /\ StepDone
    /\ UNCHANGED <<controller, session, publicVars, turnVars, opVars, checkVars>>

-----------------------------------------------------------------------------
(* The all-locks request and release.                                      *)

(* requestPublicAll. *)
RequestPublicAll(g) ==
    /\ Quiet /\ Room /\ g \in Groups \ (Range(groups) \cup asked)
    /\ GroupHolds[g] \cap holds = {}
    /\ asked' = asked \cup {g}
    /\ Enqueue([kind |-> "acquireAll", group |-> g])
    /\ UNCHANGED <<controller, session, holds, public, groups, record,
                   turnVars, opVars, lossVars, checkVars>>

GroupGranted(g) ==
    /\ holds' = holds \cup GroupHolds[g]
    /\ affected' = [l \in Locks |-> affected[l] \ GroupHolds[g]]
    /\ groups' = Append(groups, g)
    /\ asked' = asked \ {g}
    /\ StepDone

GroupRefused(g) ==
    /\ asked' = asked \ {g}
    /\ StepDone
    /\ UNCHANGED <<holds, affected, groups>>

(* acquireAll: one call when every lock is free, else one request per free *)
(* lock.                                                                   *)
StartAcquireAll ==
    /\ Starts("acquireAll")
    /\ LET free == {l \in Locks : ~Counted(l)} IN
       \/ free = {} /\ GroupGranted(Running.group)
       \/ /\ free = Locks /\ free # {}
          /\ Send("request", Locks)
          /\ UNCHANGED <<loop, holds, affected, groups, asked>>
       \/ /\ free \notin {{}, Locks}
          /\ \E l \in free : /\ Send("request", {l})
                             /\ loop' = [NoLoop EXCEPT !.todo = free \ {l}]
          /\ UNCHANGED <<holds, affected, groups, asked>>
    /\ UNCHANGED <<controller, session, public, record, turnVars, opVars, lossVars, check>>

(* A refused lock releases the ones requested before it; how those         *)
(* releases go is only logged.                                             *)
AnswerAcquireAll ==
    /\ Answered("request") /\ Running.kind = "acquireAll"
    /\ LET done == loop.done \cup wire.locks IN
       \/ /\ wire.answer = "ok" /\ loop.todo = {}
          /\ GroupGranted(Running.group)
       \/ /\ wire.answer = "ok"
          /\ \E l \in loop.todo :
                /\ Send("request", {l})
                /\ loop' = [loop EXCEPT !.todo = @ \ {l}, !.done = done]
          /\ UNCHANGED <<holds, affected, groups, asked>>
       \/ /\ wire.answer # "ok" /\ loop.done = {}
          /\ GroupRefused(Running.group)
       \/ /\ wire.answer # "ok"
          /\ \E l \in loop.done :
                /\ Send("release", {l})
                /\ loop' = [loop EXCEPT !.done = @ \ {l}]
          /\ UNCHANGED <<holds, affected, groups, asked>>
    /\ UNCHANGED <<controller, session, public, record, turnVars, opVars, lossVars, check>>

AnswerUndo ==
    /\ Answered("release") /\ Running.kind = "acquireAll"
    /\ \/ /\ loop.done = {}
          /\ GroupRefused(Running.group)
       \/ \E l \in loop.done :
             /\ Send("release", {l})
             /\ loop' = [loop EXCEPT !.done = @ \ {l}]
             /\ UNCHANGED <<holds, affected, groups, asked>>
    /\ UNCHANGED <<controller, session, public, record, turnVars, opVars, lossVars, check>>

(* releasePublicAll: the newest group, or without one every public hold. *)
ReleasePublicAll ==
    /\ Quiet /\ Room
    /\ IF groups # <<>>
         THEN /\ groups' = SubSeq(groups, 1, Len(groups) - 1)
              /\ Enqueue([kind |-> "releaseAll", own |-> TRUE,
                          ending |-> GroupHolds[groups[Len(groups)]]])
              /\ UNCHANGED public
         ELSE /\ public' = <<>>
              /\ Enqueue([kind |-> "releaseAll", own |-> FALSE, ending |-> Range(public)])
              /\ UNCHANGED groups
    /\ UNCHANGED <<controller, session, holds, asked, record, turnVars,
                   opVars, lossVars, checkVars>>

(* The locks of L on which none of the holds S is left. *)
AllOf(S, L) == L  \* mutant: every lock of the group is released
Freed(S, L) == {l \in L : ~CountedIn(S, l)}

StartReleaseAll ==
    /\ Starts("releaseAll")
    /\ LET left == holds \ Running.ending
           affects == {LockOf[h] : h \in Running.ending \cap holds}
           free == Freed(left, IF Running.own THEN affects ELSE Locks)
       IN /\ holds' = left
          /\ \/ free = {} /\ StepDone
             \/ /\ free # {} /\ free = Locks
                /\ Send("release", free) /\ UNCHANGED loop
             \/ /\ free # Locks
                /\ \E l \in free : /\ Send("release", {l})
                                   /\ loop' = [NoLoop EXCEPT !.todo = free \ {l}]
    /\ UNCHANGED <<controller, session, publicVars, record, turnVars, opVars,
                   lossVars, checkVars>>

(* releaseLocks goes on to the next lock, unless wireRelease threw. *)
AnswerReleaseAll ==
    /\ Answered("release") /\ Running.kind = "releaseAll"
    /\ Released(wire.locks, IF Running.own /\ \E l \in Locks : wire.locks = {l}
                              THEN wire.locks ELSE {})
    /\ \/ /\ loop.todo = {} \/ wire.answer = "failed"
          /\ StepDone
       \/ /\ wire.answer # "failed"
          /\ \E l \in loop.todo :
                /\ Send("release", {l})
                /\ loop' = [loop EXCEPT !.todo = @ \ {l}]
    /\ UNCHANGED <<controller, session, publicVars, turnVars, opVars, checkVars>>

-----------------------------------------------------------------------------
(* Losses and session ends.                                                *)

(* A loss recorded from outside an operation; with `release` the locks are *)
(* released once, to be sure, by steps queued in the same tick.            *)
Lose(L, release) ==
    /\ RecordLoss(L)
    /\ IF release /\ L # {}
         THEN Enqueue([kind |-> "afterLoss", locks |-> L])
         ELSE UNCHANGED chainVars

(* releaseAfterLoss: skipped for a lock granted again since.  The locks of *)
(* one step are the steps queued in one tick, one after another, each with *)
(* its own look at the count.                                              *)
NextAfterLoss(todo) ==
    \E skip \in SUBSET {l \in todo : Counted(l)} :
       \/ todo = skip /\ StepDone
       \/ \E l \in todo \ skip :
             /\ ~Counted(l)
             /\ Send("release", {l})
             /\ loop' = [NoLoop EXCEPT !.todo = todo \ (skip \cup {l})]

StartAfterLoss ==
    /\ Starts("afterLoss")
    /\ NextAfterLoss(Running.locks)
    /\ UNCHANGED <<controller, session, holds, publicVars, record, turnVars,
                   opVars, lossVars, checkVars>>

(* The lock keeps its lost state whatever the answer. *)
AnswerAfterLoss ==
    /\ Answered("release") /\ Running.kind = "afterLoss"
    /\ NextAfterLoss(loop.todo)
    /\ UNCHANGED <<controller, session, holds, publicVars, record, turnVars,
                   opVars, lossVars, checkVars>>

(* noteModeChange without confirmHeld (RobotWare 6 and 7): every lock held *)
(* is lost and released.                                                   *)
ModeChange ==
    /\ Quiet /\ ~CanRead /\ heldLocks # {}
    /\ Lose(heldLocks, TRUE)
    /\ UNCHANGED <<controller, session, publicVars, turnVars, opVars, checkVars>>

(* noteModeChange with confirmHeld (RobotWare 8): one status read per lock *)
(* held.  Bound: one read in flight per lock.                              *)
ModeChangeRead ==
    /\ Quiet /\ CanRead /\ heldLocks # {}
    /\ \A l \in heldLocks : check[l] = "unread"
    /\ check' = [l \in Locks |-> IF Counted(l) THEN "sent" ELSE check[l]]
    /\ affected' = [l \in Locks |-> IF Counted(l) THEN {h \in holds : LockOf[h] = l}
                                                  ELSE affected[l]]
    /\ UNCHANGED <<controller, session, holds, publicVars, record, chainVars,
                   turnVars, opVars, lossVars>>

(* The answer of that read: only holds counted at the change, and still    *)
(* counted, are in question.                                               *)
CheckAnswered(l) ==
    /\ Quiet /\ check[l] \notin {"unread", "sent"}
    /\ check' = [check EXCEPT ![l] = "unread"]
    /\ affected' = [affected EXCEPT ![l] = {}]
    /\ IF affected[l] \cap holds # {} /\ check[l] # "me"
         THEN Lose({l}, TRUE)
         ELSE UNCHANGED <<holds, lossVars, record, chainVars>>
    /\ UNCHANGED <<controller, session, publicVars, turnVars, opVars>>

(* The watchdog of RobotWare 7's edit mastership lapses while a hold on    *)
(* the lock is counted.                                                    *)
WatchdogLapse(l) ==
    /\ Quiet /\ l \in Watched /\ Counted(l)
    /\ Lose({l}, TRUE)
    /\ UNCHANGED <<controller, session, publicVars, turnVars, opVars, checkVars>>

(* RobotManager gives the connection up after three failed polls. *)
ConnectionLost ==
    /\ Quiet /\ heldLocks # {}
    /\ Lose(heldLocks, FALSE)
    /\ UNCHANGED <<controller, session, publicVars, turnVars, opVars, checkVars>>

(* sessionEnded('session-reissued'): the controller had ended the session  *)
(* and with it what it held.                                               *)
SessionReissued ==
    /\ Quiet /\ session = "open"
    /\ holder' = [l \in Locks |-> IF holder[l] = "me" THEN "none" ELSE holder[l]]
    /\ revoked' = revoked \cup {l \in Locks : holder[l] = "me"}
    /\ RecordLoss(heldLocks)
    /\ public' = <<>> /\ groups' = <<>>
    /\ UNCHANGED <<session, asked, chainVars, turnVars, opVars, checkVars>>

(* Mutant: only calls made from now on are refused. *)
KeepWaiters == UNCHANGED <<waiters, pc>>
RejectWaiters ==
    /\ waiters' = <<>>
    /\ pc' = [p \in Ops |-> IF pc[p] = "waiting" THEN "idle" ELSE pc[p]]

(* The session's teardown begins: refuseNewTurns() rejects every waiter. *)
RefuseNewTurns ==
    /\ Quiet /\ session = "open"
    /\ session' = "closing"
    /\ RejectWaiters
    /\ UNCHANGED <<controller, holds, publicVars, record, chainVars,
                   mutexBusy, nested, taken, outcome, lossVars, checkVars>>

Idle == chain = <<>> /\ ~mutexBusy

(* The teardown after drain() - everything idle, or its time ran out (see  *)
(* DrainTimeout).  The logout ends what the session holds; RobotWare 8     *)
(* write access is released before it, and for the locks in `failed` that  *)
(* release is refused (noteReleaseFailed).  Then                           *)
(* sessionEnded('disconnect').                                             *)
Teardown(failed) ==
    /\ holder' = [l \in Locks |-> IF holder[l] = "me" /\ l \notin failed
                                    THEN "none" ELSE holder[l]]
    /\ revoked' = revoked \cup {l \in Locks \ failed : holder[l] = "me"}
    /\ session' = "closed"
    /\ holds' = {} /\ public' = <<>> /\ groups' = <<>>
    /\ record' = [l \in Locks |-> IF l \in failed THEN "uncertain" ELSE "null"]
    /\ UNCHANGED <<asked, chainVars, turnVars, opVars, lossVars, checkVars>>

MayFail == IF CanRead THEN SUBSET Locks ELSE {{}}
Disconnect == Quiet /\ session = "closing" /\ Idle /\ \E F \in MayFail : Teardown(F)
DrainTimeout == Quiet /\ session = "closing" /\ ~Idle /\ \E F \in MayFail : Teardown(F)

(* connect(): allowTurns(). *)
Connect ==
    /\ Quiet /\ session = "closed"
    /\ session' = "open"
    /\ UNCHANGED <<controller, holds, publicVars, record, chainVars, turnVars,
                   opVars, lossVars, checkVars>>

-----------------------------------------------------------------------------
(* The controller and the network (external): a lock has one holder, RWS   *)
(* keeps no count, a release ends the hold however many requests came      *)
(* before it, and any call may fail before or after it took effect.        *)

Answer(a) == wire' = [wire EXCEPT !.answer = a]

ServeRequest ==
    /\ wire.msg = "request" /\ wire.answer = "pending"
    /\ \/ /\ session # "closed" /\ \A l \in wire.locks : holder[l] # "other"
          /\ holder' = [l \in Locks |-> IF l \in wire.locks THEN "me" ELSE holder[l]]
          /\ revoked' = revoked \ wire.locks
          /\ doubted' = doubted \ wire.locks
          /\ \/ Answer("ok") \/ (Unanswered /\ Answer("noAnswer"))
             \/ /\ \A l \in wire.locks : holder[l] = "me"
                /\ Answer("alreadyHeld")
       \/ /\ Answer("refused") \/ (Unanswered /\ Answer("noAnswer"))
          /\ UNCHANGED <<controller, doubted>>
    /\ UNCHANGED <<session, holds, publicVars, record, chain, loop, turnVars,
                   opVars, lost, checkVars>>

ServeRelease ==
    /\ wire.msg = "release" /\ wire.answer = "pending"
    /\ \/ /\ session # "closed"
          /\ holder' = [l \in Locks |-> IF l \in wire.locks /\ holder[l] = "me"
                                          THEN "none" ELSE holder[l]]
          /\ \/ Answer("ok") \/ Answer("failed")
             \/ /\ \A l \in wire.locks : holder[l] # "me"
                /\ Answer("notHeld")
       \/ Answer("failed") /\ UNCHANGED holder
    /\ UNCHANGED <<revoked, session, holds, publicVars, record, chain, loop,
                   turnVars, opVars, lossVars, checkVars>>

ServeHeldByMe ==
    /\ wire.msg = "heldByMe" /\ wire.answer = "pending"
    /\ \/ Answer("failed") /\ UNCHANGED doubted
       \/ /\ \A l \in wire.locks : holder[l] = "me"
          /\ Answer("held") /\ doubted' = doubted \ wire.locks
       \/ /\ \E l \in wire.locks : holder[l] # "me"
          /\ Answer("notHeld") /\ UNCHANGED doubted
    /\ UNCHANGED <<controller, session, holds, publicVars, record, chain, loop,
                   turnVars, opVars, lost, checkVars>>

ServeCheck(l) ==
    /\ check[l] = "sent"
    /\ \E a \in {holder[l], "failed"} : check' = [check EXCEPT ![l] = a]
    /\ UNCHANGED <<controller, session, holds, publicVars, record, chainVars,
                   turnVars, opVars, lossVars, affected>>

(* The FlexPendant, a mode change or another client takes a lock, or lets  *)
(* it go.                                                                  *)
Revoke(l) ==
    /\ \E who \in {"none", "other"} \ {holder[l]} :
          holder' = [holder EXCEPT ![l] = who]
    /\ revoked' = IF holder[l] = "me" THEN revoked \cup {l} ELSE revoked
    /\ UNCHANGED <<session, holds, publicVars, record, chainVars, turnVars,
                   opVars, lossVars, checkVars>>

-----------------------------------------------------------------------------
Init ==
    /\ holder = [l \in Locks |-> "none"] /\ revoked = {}
    /\ session = "open"
    /\ holds = {} /\ public = <<>> /\ groups = <<>> /\ asked = {}
    /\ record = [l \in Locks |-> "null"]
    /\ chain = <<>> /\ wire = NoWire /\ loop = NoLoop
    /\ mutexBusy = FALSE /\ waiters = <<>>
    /\ pc = [p \in Ops |-> "idle"]
    /\ nested = [p \in Ops |-> FALSE]
    /\ taken = [p \in Ops |-> 0]
    /\ outcome = [p \in Ops |-> "none"]
    /\ lost = [p \in Ops |-> FALSE] /\ doubted = {}
    /\ check = [l \in Locks |-> "unread"]
    /\ affected = [l \in Locks |-> {}]

Operation(p) ==
    \/ EnterTurn(p) \/ QueueTimeout(p) \/ LeaveTurn(p)
    \/ Take(p) \/ Nest(p) \/ Unwind(p)
    \/ BodyEnds(p, "done") \/ BodyEnds(p, "failed")
    \/ BodyRefused(p) \/ BodyRestarts(p)

PublicCall ==
    \/ \E h \in Public : RequestPublic(h)
    \/ \E l \in Locks : ReleasePublic(l)
    \/ \E g \in Groups : RequestPublicAll(g)
    \/ Groups # {} /\ ReleasePublicAll

ChainStep ==
    \/ StartAcquire \/ StartRelease \/ StartForget \/ StartPlainRelease
    \/ StartAcquireAll \/ StartReleaseAll \/ StartAfterLoss
    \/ AnswerAcquire \/ AnswerHeldByMe \/ AnswerRelease \/ AnswerPlainRelease
    \/ AnswerAcquireAll \/ AnswerUndo \/ AnswerReleaseAll \/ AnswerAfterLoss

LossEvent ==
    \/ ModeChange \/ ModeChangeRead \/ ConnectionLost \/ SessionReissued
    \/ \E l \in Locks : CheckAnswered(l) \/ WatchdogLapse(l)

SessionStep == RefuseNewTurns \/ Disconnect \/ DrainTimeout \/ Connect

Serve == ServeRequest \/ ServeRelease \/ ServeHeldByMe

Controller == Serve \/ \E l \in Locks : ServeCheck(l) \/ Revoke(l)

Next ==
    \/ \E p \in Ops : Operation(p)
    \/ PublicCall \/ ChainStep \/ LossEvent \/ SessionStep \/ Controller

Spec == Init /\ [][Next]_vars

(* An operation goes on by itself, its fn ends, the chain runs, and every  *)
(* call is answered or fails: HTTP requests have a timeout.  Strong for an *)
(* operation because Quiet disables it for the instant in which a step of  *)
(* another caller starts.  Nothing says that a waiting operation times     *)
(* out, that a caller calls or that the controller takes a lock back.      *)
GoesOn(p) == Take(p) \/ Unwind(p) \/ LeaveTurn(p) \/ BodyEnds(p, "done")
Fairness ==
    /\ \A p \in Ops : SF_vars(GoesOn(p))
    /\ WF_vars(ChainStep) /\ WF_vars(Serve)

FairSpec == Spec /\ Fairness

-----------------------------------------------------------------------------
(* Properties.                                                             *)

WireType ==
    [msg : {"none", "request", "release", "heldByMe"},
     locks : SUBSET Locks,
     answer : {"pending", "ok", "alreadyHeld", "refused", "noAnswer",
               "failed", "held", "notHeld"}]

ControllerType ==
    /\ holder \in [Locks -> {"none", "me", "other"}]
    /\ revoked \subseteq Locks
    /\ session \in {"open", "closing", "closed"}
HoldType ==
    /\ holds \subseteq Hold
    /\ public \in Seq(Public) /\ groups \in Seq(Groups)
    /\ asked \subseteq Public \cup Groups
    /\ record \in [Locks -> {"null", "idle", "uncertain", "lost"}]
    /\ doubted \subseteq Locks
    /\ check \in [Locks -> {"unread", "sent", "none", "me", "other", "failed"}]
    /\ affected \in [Locks -> SUBSET Hold]
ChainType ==
    /\ chain \in Seq(Step)
    /\ wire \in WireType
    /\ loop \in [todo : SUBSET Locks, done : SUBSET Locks]
PcType == {"idle", "waiting", "take", "taking", "body", "rest", "unwind", "ending"}
TurnType ==
    /\ mutexBusy \in BOOLEAN
    /\ waiters \in Seq(Ops)
    /\ pc \in [Ops -> PcType]
    /\ nested \in [Ops -> BOOLEAN]
    /\ taken \in [Ops -> Nat]
    /\ outcome \in [Ops -> {"none", "done", "failed", "refused", "restart"}]
    /\ lost \in [Ops -> BOOLEAN]

(* Type invariant: every variable of the manager has its type. *)
TypeOK == ControllerType /\ HoldType /\ ChainType /\ TurnType

(* Reference counting, as the controller sees it: a lock this session      *)
(* counts a hold on is this session's, unless something other than this    *)
(* client took it since its grant.  The client never ends a hold that it   *)
(* still counts, and never counts one it was not granted.                  *)
HoldsHonoured ==
    \A l \in Locks : Counted(l) => holder[l] = "me" \/ l \in revoked

(* A loss is never papered over: once a lock is recorded as lost, a hold   *)
(* on it is counted again only after the controller granted a new request, *)
(* or named this session as its holder when asked.                         *)
FreshAfterLoss == \A l \in Locks : Counted(l) => l \notin doubted

(* While a release is on the wire nothing is counted on its locks, however *)
(* steps, losses, group releases and rollbacks interleave.                 *)
ReleaseSparesHolds ==
    wire.msg = "release" => \A l \in wire.locks : ~Counted(l)

(* One write at a time: the turn has one holder, it is busy exactly while  *)
(* someone has it, and nobody waits for a free turn.                       *)
OneTurn ==
    /\ \A p, q \in Ops : InTurn(p) /\ InTurn(q) => p = q
    /\ mutexBusy <=> \E p \in Ops : InTurn(p)
    /\ waiters # <<>> => mutexBusy

(* The holds of an operation end with it: none is still counted once the   *)
(* operation has left its turn, on any path.                               *)
HoldsEndWithTurn ==
    \A h \in holds : Owner[h] \in Ops => InTurn(Owner[h])

(* An operation that has lost a hold sends no request for access, neither  *)
(* for its next domain nor for a nested write nor one queued before the    *)
(* loss.                                                                   *)
LostAsksNoMore ==
    [][\A p \in Ops : (wire' # wire /\ wire' = Call("request", wire'.locks)
                        /\ Running.kind = "acquire" /\ Owner[Running.hold] = p)
                       => ~lost[p]]_vars

(* Once the teardown has begun no operation gets the turn, not even one    *)
(* that waited for it, until the client connects again.                    *)
NoTurnWhileClosing ==
    [][session # "open" => \A p \in Ops : InTurn(p)' => InTurn(p)]_vars

(* With no step in flight, a lock reported `idle` is not held by this      *)
(* session on the controller.                                              *)
IdleIsNotHeld ==
    chain = <<>> => \A l \in Locks :
        ~Counted(l) /\ record[l] \in {"null", "idle"} => holder[l] # "me"

(* The manager implements a counted lock: see CountedLock. *)
Abs == INSTANCE CountedLock
    WITH honoured <- {l \in Locks : holder[l] = "me"}, users <- holds
CountedLockSpec == Abs!Spec

(* The manager implements a first come, first served turn: see WriteTurn. *)
TurnHolder == IF \E p \in Ops : InTurn(p) THEN CHOOSE p \in Ops : InTurn(p) ELSE NoTurn
InLine == INSTANCE WriteTurn
    WITH open <- session = "open", turn <- TurnHolder, line <- waiters
WriteTurnSpec == InLine!Spec

(* Every operation that gets the turn ends and gives it up. *)
OperationEnds == \A p \in Ops : InTurn(p) ~> ~InTurn(p)

(* A waiting operation is not starved: the turn is handed on in order, so  *)
(* it gets the turn or is refused even if its queue timeout never fires.   *)
WaiterServed == \A p \in Ops : pc[p] = "waiting" ~> pc[p] # "waiting"

(* What that rests on, beside the fairness: whoever waits for the turn is  *)
(* in line, and somebody has the turn; whoever waits for a hold has its    *)
(* step on the chain; and the call the chain waits for is one its step     *)
(* goes on from, whatever the answer.  A waiter dropped from the line or a *)
(* step from the chain, or an answer nobody handles, would hang its caller *)
(* and all that come after.                                                *)
StepOf(s, p) == s.kind \in {"acquire", "release", "forget"} /\ Owner[s.hold] = p
MayAsk(kind) ==
    CASE kind = "acquire" -> {"request", "heldByMe"}
      [] kind = "acquireAll" -> {"request", "release"}
      [] kind \in {"release", "plainRelease", "releaseAll", "afterLoss"} -> {"release"}
      [] OTHER -> {}
MayHear(msg) ==
    CASE msg = "request" -> {"ok", "alreadyHeld", "noAnswer", "refused"}
      [] msg = "release" -> {"ok", "notHeld", "failed"}
      [] msg = "heldByMe" -> {"held", "notHeld", "failed"}

InLineOK == \A p \in Ops : pc[p] = "waiting" =>
    /\ \E i \in DOMAIN waiters : waiters[i] = p
    /\ \E q \in Ops : InTurn(q)
OnChainOK ==
    \A p \in Ops : pc[p] \in {"taking", "ending"} => \E i \in DOMAIN chain : StepOf(chain[i], p)
HeardOK ==
    wire # NoWire => /\ chain # <<>> /\ wire.msg \in MayAsk(Running.kind)
                     /\ wire.answer \in {"pending"} \cup MayHear(wire.msg)
NobodyIsForgotten == InLineOK /\ OnChainOK /\ HeardOK

============================================================================
