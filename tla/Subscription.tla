---------------------------- MODULE Subscription ----------------------------
(***************************************************************************)
(* One event subscription of a client: the group it registers on the       *)
(* controller, the WebSocket on which the group's events come, and what    *)
(* brings both back when they are lost.  `adapter` says which of the two   *)
(* clients it is:                                                          *)
(*   "rws1"  WsSubscriber (src/WsSubscriber.ts), which first reopens the   *)
(*           socket of the group it has and registers again only when that *)
(*           fails;                                                        *)
(*   "rws2"  Rws2Core.subscribe (src/rws2/core.ts), which makes a new      *)
(*           group for every socket.                                       *)
(* The asynchronous routine that registers and opens is `job`; stop(),     *)
(* closeAll(), the heartbeat, the DELETEs nobody waits for, the network    *)
(* and the controller move next to it at each of its awaits.               *)
(*                                                                         *)
(* A group is a number; a request that fails took effect or did not.  What *)
(* is told apart of the subscribed resources is whether a panel resource,  *)
(* which has two spellings, and whether another one was left out.          *)
(***************************************************************************)
EXTENDS Naturals, FiniteSets

CONSTANTS
    Adapters,      \* which of "rws1", "rws2" this subscription may be made with
    MaxAttempts,   \* maxReconnectAttempts
    MaxGroups      \* bound: groups the controller makes; later creates fail

ASSUME SubscriptionAssumption ==
    /\ Adapters \subseteq {"rws1", "rws2"}
    /\ MaxAttempts \in Nat
    /\ MaxGroups \in Nat

VARIABLES
    adapter,     \* "rws1" or "rws2", fixed
    user,        \* "new", "subscribing", "subscribed", "failed": the caller's subscribe()
    job,         \* the routine that registers a group and opens its socket
    sub,         \* ActiveSubscription / conn
    heard,       \* the callbacks: lost counts onLost, restored flips at each onRestored
    dels,        \* DELETEs on their way whose answer decides nothing
    link,        \* "up" or "frozen": a frozen link answers nothing and breaks nothing
    groups,      \* the groups of this subscription on the controller
    made,        \* how many it made so far
    lacking,     \* [panel, other]: the groups made without that resource
    unread,      \* groups kept although their listing could not be read
    orphans      \* groups no DELETE can be counted on: its answer, or the create's, was lost

vars == <<adapter, user, job, sub, heard, dels, link, groups, made, lacking, unread, orphans>>
controller == <<groups, made, lacking, unread, orphans>>

\* 0 is no group: the empty deleteUrl
Groups == 1 .. MaxGroups

\* Awaits of the routine: a DELETE of the group held before, the POST, the group's listing,
\* a DELETE before the second POST, a DELETE before giving the registration up, the upgrade
\* of the socket, and a DELETE before subscribe() rejects.
Awaits == {"none", "drop", "create", "list", "undo", "reject", "upgrade", "abandon"}

TypeOK ==
    /\ adapter \in Adapters
    /\ user \in {"new", "subscribing", "subscribed", "failed"}
    /\ job \in [at : Awaits, stored : BOOLEAN, second : BOOLEAN, cut : BOOLEAN, fresh : Groups \cup {0}]
    /\ sub \in [closed : BOOLEAN, attempts : 0 .. MaxAttempts, timer : BOOLEAN,
                url : Groups \cup {0}, unbound : BOOLEAN, mapped : BOOLEAN,
                open : BOOLEAN, alive : BOOLEAN, probe : BOOLEAN]
    /\ heard \in [lost : Nat, restored : BOOLEAN]
    /\ dels \subseteq Groups
    /\ link \in {"up", "frozen"}
    /\ groups \subseteq Groups
    /\ made \in 0 .. MaxGroups
    /\ lacking \in [panel : SUBSET Groups, other : SUBSET Groups]
    /\ unread \subseteq Groups
    /\ orphans \subseteq Groups

Init ==
    /\ adapter \in Adapters
    /\ user = "new"
    /\ job = [at |-> "none", stored |-> FALSE, second |-> FALSE, cut |-> FALSE, fresh |-> 0]
    /\ sub = [closed |-> FALSE, attempts |-> 0, timer |-> FALSE, url |-> 0, unbound |-> FALSE,
              mapped |-> FALSE, open |-> FALSE, alive |-> FALSE, probe |-> FALSE]
    /\ heard = [lost |-> 0, restored |-> FALSE]
    /\ dels = {}
    /\ link = "up"
    /\ groups = {}
    /\ made = 0
    /\ lacking = [panel |-> {}, other |-> {}]
    /\ unread = {}
    /\ orphans = {}

-----------------------------------------------------------------------------
(* The controller and the network. *)

\* A DELETE of g ends: the group is gone, or the request failed and it may be there for ever.
Deleted(g) ==
    /\ \/ /\ link = "up"
          /\ groups' = groups \ {g}
          /\ UNCHANGED orphans
       \/ /\ orphans' = orphans \cup ({g} \cap groups)
          /\ UNCHANGED groups
    /\ UNCHANGED <<made, lacking, unread>>

\* The best-effort DELETE that nobody waits for.
DropGroup(g) == dels \cup ({g} \ {0})

DeleteEnds ==
    \E g \in dels :
        /\ dels' = dels \ {g}
        /\ Deleted(g)
        /\ UNCHANGED <<adapter, user, job, sub, heard, link>>

-----------------------------------------------------------------------------
(* Reconnecting. *)

\* Mutant: the guard on an unsubscribed handle is gone.
EvenClosed(closed) == FALSE

\* scheduleReconnect returns at once when the caller has left.
Left(closed) == closed

\* The attempts are used up: the group is let go and onLost is called.
GiveUp(s) ==
    /\ dels' = DropGroup(s.url)
    /\ sub' = [s EXCEPT !.url = IF adapter = "rws2" THEN 0 ELSE @, !.unbound = FALSE, !.mapped = FALSE]
    /\ heard' = [heard EXCEPT !.lost = @ + 1]

\* Mutant: a failed attempt that is not followed by another.
NoTimer(s) == [s EXCEPT !.attempts = @ + 1]

\* The next attempt waits for its backoff.
Rearmed(s) == [s EXCEPT !.attempts = @ + 1, !.timer = TRUE]

ScheduleReconnect(s) ==
    IF Left(s.closed)
    THEN sub' = s /\ UNCHANGED <<dels, heard>>
    ELSE IF s.attempts >= MaxAttempts
    THEN GiveUp(s)
    ELSE sub' = Rearmed(s) /\ UNCHANGED <<dels, heard>>

Finished == [at |-> "none", stored |-> FALSE, second |-> FALSE, cut |-> FALSE, fresh |-> 0]

\* The registration, or the socket, failed: subscribe() rejects, a reconnect counts.
Failed ==
    /\ job' = Finished
    /\ IF user = "subscribing"
       THEN user' = "failed" /\ UNCHANGED <<sub, dels, heard>>
       ELSE ScheduleReconnect(sub) /\ UNCHANGED user

TimerFires ==
    /\ sub.timer
    /\ sub' = [sub EXCEPT !.timer = FALSE]
    /\ job' = [Finished EXCEPT !.at = IF adapter = "rws1" THEN "upgrade" ELSE IF sub.url # 0 THEN "drop" ELSE "create",
                               !.stored = adapter = "rws1"]
    /\ UNCHANGED <<adapter, user, heard, dels, link, controller>>

-----------------------------------------------------------------------------
(* Registering a group: register / createBoundSubscription. *)

Subscribe ==
    /\ user = "new"
    /\ user' = "subscribing"
    /\ job' = [job EXCEPT !.at = "create"]
    /\ UNCHANGED <<adapter, sub, heard, dels, link, controller>>

\* Mutant: what the new group left out is not taken over.
OnlyUrl(s, g, without) == [s EXCEPT !.url = g]

\* The group is kept: the handle names it and what it left out.
Held(s, g, without) == [s EXCEPT !.url = g, !.unbound = g \in without]

\* openWebSocket of the RWS 1.0 client throws when its subscription was closed meanwhile; the
\* RWS 2.0 client looks only once the socket is open.
Registered(g, without) ==
    /\ sub' = [Held(sub, g, without) EXCEPT !.mapped = adapter = "rws1"]
    /\ job' = IF adapter = "rws1" /\ sub.closed THEN Finished ELSE [Finished EXCEPT !.at = "upgrade"]
    /\ UNCHANGED <<user, heard, dels>>

\* A panel resource is missing: once more in the other spelling, or not at all.
Unbound(g) ==
    /\ job' = [job EXCEPT !.at = IF job.second THEN "reject" ELSE "undo", !.fresh = g]
    /\ UNCHANGED <<user, sub, heard, dels>>

\* The POST is answered with a new group g, made without the panel resource (noPanel) and
\* without another one (noOther).  The RWS 2.0 answer may only be suspect: it names nothing
\* and has no event for the resource, and the listing decides.
CreateAnswered ==
    /\ job.at = "create"
    /\ ~job.cut
    /\ link = "up"
    /\ made < MaxGroups
    /\ made' = made + 1
    /\ groups' = groups \cup {made + 1}
    /\ \E noPanel, noOther, suspect \in BOOLEAN :
        /\ suspect => adapter = "rws2"
        /\ lacking' = [panel |-> lacking.panel \cup {g \in {made + 1} : noPanel},
                       other |-> lacking.other \cup {g \in {made + 1} : noOther}]
        /\ \/ /\ suspect
              /\ job' = [job EXCEPT !.at = "list", !.fresh = made + 1]
              /\ UNCHANGED <<user, sub, heard, dels>>
           \/ ~suspect /\ noPanel /\ Unbound(made + 1)
           \/ ~suspect /\ ~noPanel /\ Registered(made + 1, lacking'.other)
    /\ UNCHANGED <<adapter, link, unread, orphans>>

\* 400 for the one panel resource asked for: sent again in the other spelling.
CreateRespelled ==
    /\ job.at = "create"
    /\ adapter = "rws2"
    /\ ~job.second
    /\ link = "up"
    /\ job' = [job EXCEPT !.second = TRUE]
    /\ UNCHANGED <<adapter, user, sub, heard, dels, link, controller>>

\* The POST fails: refused, not sent because the client closes, cut short by the DELETE of stop()
\* (HttpSession.enqueue), or not answered; the controller may then have made the group.
CreateFails ==
    /\ job.at = "create"
    /\ Failed
    /\ \/ UNCHANGED controller
       \/ /\ made < MaxGroups
          /\ made' = made + 1
          /\ groups' = groups \cup {made + 1}
          /\ orphans' = orphans \cup {made + 1}
          /\ UNCHANGED <<lacking, unread>>
    /\ UNCHANGED <<adapter, link>>

ListAnswered ==
    /\ job.at = "list"
    /\ link = "up"
    /\ job.fresh \in groups
    /\ IF job.fresh \in lacking.panel THEN Unbound(job.fresh) ELSE Registered(job.fresh, lacking.other)
    /\ UNCHANGED <<adapter, link, controller>>

\* The listing cannot be read: the group is kept.
ListFails ==
    /\ job.at = "list"
    /\ unread' = unread \cup {job.fresh}
    /\ Registered(job.fresh, lacking.other)
    /\ UNCHANGED <<adapter, link, groups, made, lacking, orphans>>

Undone ==
    /\ job.at = "undo"
    /\ Deleted(job.fresh)
    /\ job' = [job EXCEPT !.at = "create", !.second = TRUE, !.fresh = 0]
    /\ UNCHANGED <<adapter, user, sub, heard, dels, link>>

Rejected ==
    /\ job.at = "reject"
    /\ Deleted(job.fresh)
    /\ Failed
    /\ UNCHANGED <<adapter, link>>

\* The group held before is let go, and nothing is held until the POST is answered.
Dropped ==
    /\ job.at = "drop"
    /\ Deleted(sub.url)
    /\ sub' = [sub EXCEPT !.unbound = FALSE, !.url = IF adapter = "rws2" THEN 0 ELSE @]
    /\ job' = [Finished EXCEPT !.at = "create"]
    /\ UNCHANGED <<adapter, user, heard, dels, link>>

-----------------------------------------------------------------------------
(* The socket. *)

\* The stream stands; after a reconnect onRestored is called.
Opened(s) ==
    /\ sub' = [s EXCEPT !.open = TRUE, !.alive = TRUE, !.probe = FALSE, !.attempts = 0]
    /\ user' = "subscribed"
    /\ heard' = [heard EXCEPT !.restored = IF s.attempts > 0 THEN ~@ ELSE @]
    /\ UNCHANGED dels

\* Mutant: a socket that opens after stop() is taken.
TakenAnyway(closed) == FALSE

\* `conn.closed` once the socket is open.
Discards(closed) == closed

\* The controller upgrades the socket of a group it has.  The RWS 1.0 client's stop() closed a
\* socket that was connecting, so only the RWS 2.0 one can open after it.
UpgradeOpens ==
    /\ job.at = "upgrade"
    /\ link = "up"
    /\ sub.url \in groups
    /\ adapter = "rws1" => ~sub.closed
    /\ job' = Finished
    /\ IF Discards(sub.closed)
       THEN /\ dels' = DropGroup(sub.url)
            /\ sub' = [sub EXCEPT !.url = 0, !.unbound = FALSE]
            /\ UNCHANGED <<user, heard>>
       ELSE Opened(sub)
    /\ UNCHANGED <<adapter, link, controller>>

\* Refused, timed out or closed before it opened.
UpgradeFailsRws1 ==
    /\ job.at = "upgrade"
    /\ adapter = "rws1"
    /\ \/ /\ user = "subscribing"
          /\ sub' = [sub EXCEPT !.closed = TRUE, !.mapped = FALSE]
          /\ job' = [job EXCEPT !.at = "abandon"]
          /\ UNCHANGED <<user, dels, heard>>
       \/ /\ user # "subscribing" /\ job.stored
          /\ job' = IF sub.closed THEN Finished ELSE [Finished EXCEPT !.at = "drop"]
          /\ UNCHANGED <<user, sub, dels, heard>>
       \/ /\ user # "subscribing" /\ ~job.stored
          /\ Failed
    /\ UNCHANGED <<adapter, link, controller>>

UpgradeFailsRws2 ==
    /\ job.at = "upgrade"
    /\ adapter = "rws2"
    /\ job' = Finished
    /\ \/ /\ user = "subscribing"
          /\ user' = "failed"
          /\ dels' = DropGroup(sub.url)
          /\ UNCHANGED <<sub, heard>>
       \/ /\ user # "subscribing"
          /\ UNCHANGED user
          /\ \/ ~Left(sub.closed) /\ sub.attempts >= MaxAttempts /\ GiveUp(sub)
             \/ /\ Left(sub.closed) \/ sub.attempts < MaxAttempts
                /\ dels' = DropGroup(sub.url)
                /\ sub' = IF Left(sub.closed) THEN sub ELSE Rearmed(sub)
                /\ UNCHANGED heard
    /\ UNCHANGED <<adapter, link, controller>>

\* subscribe() of the RWS 1.0 client deletes its registration and rejects.
Abandoned ==
    /\ job.at = "abandon"
    /\ Deleted(sub.url)
    /\ job' = Finished
    /\ user' = "failed"
    /\ UNCHANGED <<adapter, sub, heard, dels, link>>

\* The close event of an open stream.
Closes == ScheduleReconnect([sub EXCEPT !.open = FALSE, !.alive = FALSE, !.probe = FALSE])

SocketDrops ==
    /\ sub.open
    /\ Closes
    /\ UNCHANGED <<adapter, user, job, link, controller>>

-----------------------------------------------------------------------------
(* The heartbeat: a ping on the RWS 1.0 socket, a GET beside the RWS 2.0 one. *)

\* Two ticks without a sign of life end the socket.
Tick ==
    /\ sub.open
    /\ IF sub.alive
       THEN /\ sub' = [sub EXCEPT !.alive = FALSE, !.probe = TRUE]
            /\ UNCHANGED <<heard, dels>>
       ELSE Closes
    /\ UNCHANGED <<adapter, user, job, link, controller>>

\* A pong, or an event on the RWS 2.0 socket.
SignOfLife ==
    /\ sub.open
    /\ link = "up"
    /\ sub' = [sub EXCEPT !.alive = TRUE, !.probe = @ /\ adapter = "rws2"]
    /\ UNCHANGED <<adapter, user, job, heard, dels, link, controller>>

\* Mutant: a probe that failed counts as life too.
AnyAnswer(ok) == TRUE

\* Only an answer shows that the link lives.
ProvesLife(ok) == ok

ProbeEnds ==
    /\ adapter = "rws2"
    /\ sub.open
    /\ sub.probe
    /\ \E ok \in BOOLEAN :
        /\ ok => link = "up"
        /\ sub' = [sub EXCEPT !.probe = FALSE, !.alive = @ \/ ProvesLife(ok)]
    /\ UNCHANGED <<adapter, user, job, heard, dels, link, controller>>

-----------------------------------------------------------------------------
(* The caller and the environment. *)

\* stop() and closeAll(): timers cleared, socket closed, group deleted.  The RWS 1.0 session cuts
\* a create that is queued or sent short for a DELETE of a group.
Ends ==
    /\ job' = [job EXCEPT !.cut = @ \/ (adapter = "rws1" /\ job.at = "create")]
    /\ sub' = [sub EXCEPT !.closed = TRUE, !.timer = FALSE, !.mapped = FALSE,
                          !.open = FALSE, !.alive = FALSE, !.probe = FALSE]
    /\ dels' = DropGroup(sub.url)

\* The function subscribe() returned.
Stop ==
    /\ user = "subscribed"
    /\ ~sub.closed
    /\ Ends
    /\ UNCHANGED <<adapter, user, heard, link, controller>>

\* disconnect() of the RWS 1.0 client, for a subscription in its map.
CloseAll ==
    /\ adapter = "rws1"
    /\ sub.mapped
    /\ Ends
    /\ UNCHANGED <<adapter, user, heard, link, controller>>

Freeze ==
    /\ link' = IF link = "up" THEN "frozen" ELSE "up"
    /\ UNCHANGED <<adapter, user, job, sub, heard, dels, controller>>

\* A restart of the controller ends its groups and their sockets.
Restart ==
    /\ groups' = {}
    /\ IF sub.open THEN Closes ELSE UNCHANGED <<sub, heard, dels>>
    /\ UNCHANGED <<adapter, user, job, link, made, lacking, unread, orphans>>

JobStep ==
    \/ CreateAnswered \/ CreateRespelled \/ CreateFails
    \/ ListAnswered \/ ListFails
    \/ Undone \/ Rejected \/ Dropped
    \/ UpgradeOpens \/ UpgradeFailsRws1 \/ UpgradeFailsRws2 \/ Abandoned

Next ==
    \/ Subscribe \/ Stop \/ CloseAll
    \/ JobStep
    \/ TimerFires \/ SocketDrops
    \/ Tick \/ SignOfLife \/ ProbeEnds
    \/ DeleteEnds
    \/ Freeze \/ Restart

Spec == Init /\ [][Next]_vars

\* Every request is answered or times out, and timers fire.
FairSpec == Spec /\ WF_vars(JobStep) /\ WF_vars(TimerFires) /\ WF_vars(Tick)

-----------------------------------------------------------------------------
(* Properties. *)

\* Nothing of this subscription is under way.
Quiet == job.at = "none" /\ ~sub.timer /\ dels = {}

\* When a subscription is over (unsubscribed, lost or never begun) and its requests have ended,
\* no group of it is left on the controller, whatever the reconnect was doing when it ended; a
\* group whose create or DELETE went unanswered cannot be helped.  The RWS 1.0 client may leave
\* the group of a registration that was under way at stop() (WsSubscriber.reRegister does not
\* look at `closed`); it is in the client's map, where closeAll() finds it.
NothingLeft ==
    (Quiet /\ ~sub.open /\ user # "subscribing") =>
        groups \subseteq orphans \cup {g \in {sub.url} : sub.mapped}

\* An open stream is that of a group the controller has, with the panel resources in it (a group
\* whose listing could not be read is kept unchecked), and what the handle calls unbound is
\* what this group left out, not an earlier one; the RWS 2.0 client tells all of it.
StreamIsWhole ==
    sub.open =>
        /\ sub.url \in groups
        /\ sub.url \in lacking.panel => sub.url \in unread
        /\ sub.unbound => sub.url \in lacking.other
        /\ adapter = "rws2" /\ sub.url \in lacking.other => sub.unbound

\* Once the caller has unsubscribed, or was told that the stream is lost, it is called no more:
\* no onRestored for a stream it gave up, no onLost twice.
SilentAfterEnd == [][sub.closed \/ heard.lost > 0 => UNCHANGED heard]_vars

\* A stream that is down comes back, or its caller learns that it is lost: no failure of a
\* create, a DELETE, a listing or an upgrade leaves the subscription silently dead.
StreamSettles ==
    (user # "new" /\ ~sub.open) ~> (sub.open \/ sub.closed \/ heard.lost > 0 \/ user = "failed")

\* What that rests on, beside the fairness.  A subscription that was begun, whose stream is down
\* and whose end nobody was told has a routine or the timer of the next attempt.
NeverSilentlyDead ==
    (user # "new" /\ ~sub.open) =>
        \/ job.at # "none" \/ sub.timer
        \/ sub.closed \/ heard.lost > 0 \/ user = "failed"

\* How far a routine is: the socket of the group it has, the first POST, the second, the socket.
Stage(j) ==
    CASE j.at = "upgrade" /\ j.stored -> 0
      [] j.at = "drop" -> 1
      [] j.at = "create" /\ ~j.second -> 2
      [] j.at = "list" /\ ~j.second -> 3
      [] j.at = "undo" -> 4
      [] j.at = "create" /\ j.second -> 5
      [] j.at = "list" /\ j.second -> 6
      [] j.at = "reject" -> 7
      [] j.at = "upgrade" /\ ~j.stored -> 8
      [] j.at = "abandon" -> 9
      [] j.at = "none" -> 10

\* Whatever fails in it, and whoever unsubscribes meanwhile, a routine never returns to an await
\* it has left; and the attempts are counted until the stream stands again.
RoutineGoesForward ==
    [][/\ job.at # "none" => job' = [job EXCEPT !.cut = job'.cut] \/ Stage(job') > Stage(job)
       /\ sub'.attempts < sub.attempts => ~sub.open /\ sub'.open]_vars

\* A socket that is open on a frozen link is given up: the heartbeat notices what no event tells.
FrozenNoticed == (sub.open /\ link = "frozen") ~> (~sub.open \/ link = "up")

\* On a frozen link nothing is taken for a sign of life: the second tick from now ends the socket.
FrozenIsSilent ==
    [][sub.open /\ sub'.open /\ link = "frozen" /\ sub'.alive => sub.alive]_vars

\* "The resources the controller left out of the group it holds now ... read live" are listed on
\* the handle of an open stream, so that the manager polls them (WsSubscriber.ts:328-331).
UnboundIsTold == sub.open => (sub.url \in lacking.other => sub.unbound)

\* An unsubscribed subscription leaves no group, though its reconnect was registering one.
StopFreesGroup == (Quiet /\ sub.closed) => groups \subseteq orphans
=============================================================================
