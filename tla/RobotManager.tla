---------------------------- MODULE RobotManager ----------------------------
(***************************************************************************)
(* The connection of one RobotManager: connect attempts that coalesce or   *)
(* supersede each other, disconnects, the poll and its timer, the status   *)
(* group with its retries, and the connection quality.  An action is what  *)
(* the manager does between two awaits.  The adapter and the controller    *)
(* are external: sessions holds the adapters that are logged in, groups    *)
(* the subscription groups that exist.                                     *)
(***************************************************************************)
EXTENDS Integers, FiniteSets

CONSTANTS
    Attempts,       \* names for calls of connect(); an adapter is named after the attempt that built it
    Users,          \* names for calls of disconnect()
    Retries,        \* names for subscribe retries
    Targets,        \* connection arguments (host, port, credentials)
    MaxFails,       \* failed polls in a row that end the connection (3 in the code)
    MaxLost,        \* bound: stream losses and restores explored
    Null

\* What the fields below hold: poll timers, the poll in flight, the subscribe retry in flight.
Timers == [gen : Nat, slow : BOOLEAN]
Polls == [gen : Nat, by : Attempts \cup {Null}, pc : {"reading", "tearing"}]
RetryStates == [name : Retries, adapter : Attempts, epoch : Nat, gen : Nat, h : Attempts \cup Retries \cup {Null},
                pc : {"letgo", "create", "undo"}]

ASSUME NullAssumption == /\ Null \notin Attempts \cup Users \cup Retries \cup Targets \cup Nat
                         /\ Null \notin Timers /\ Null \notin Polls /\ Null \notin RetryStates
ASSUME NamesAssumption == Attempts \cap Users = {} /\ "poll" \notin Attempts \cup Users
ASSUME BoundAssumption == MaxFails \in Nat \ {0} /\ MaxLost \in Nat

VARIABLES
    att,            \* ConnectAttempt records and how far each has come
    connecting,     \* connectingPromise / connectingArgs
    epoch,          \* connectEpoch
    sessEpoch,      \* sessionEpoch
    gen,            \* pollGeneration
    timer,          \* the poll timer: its generation and rate, or Null
    connected,      \* _state.connected
    adapter,        \* the adapter, kept across disconnects; its target is adapterConfig
    unsub,          \* unsubscribeFn: the group it deletes, or Null
    subActive,      \* subscriptionActive
    unbound,        \* a status resource the poll reads was left out of the group
    due,            \* subscribeRetryDueAt is set
    retry,          \* the subscribe retry in flight
    fetch,          \* the fetchAll in flight (fetchInFlight)
    fails,          \* consecutiveFails
    quality,
    td,             \* teardowns by their caller
    sessions, groups,   \* external: what the controller holds
    lost,           \* stream losses and restores so far
    retried,        \* subscribe retries so far
    overtaken       \* ghost: a connection was made while a teardown was still running

link == <<epoch, sessEpoch, gen, timer>>
stream == <<unsub, subActive, unbound, due>>
vars == <<att, connecting, link, connected, adapter, stream, retry, fetch, fails,
          quality, td, sessions, groups, lost, retried, overtaken>>

Callers == Attempts \cup Users \cup {"poll"}
NoAttempt == [pc |-> "unused", tgt |-> Null, epoch |-> 0, cancelled |-> FALSE, after |-> Null, gen |-> 0, h |-> Null]
NoTeardown == [pc |-> "none", h |-> Null]

Init ==
    /\ att = [a \in Attempts |-> NoAttempt]
    /\ connecting = Null
    /\ epoch = 0 /\ sessEpoch = Null /\ gen = 0 /\ timer = Null
    /\ connected = FALSE /\ adapter = Null
    /\ unsub = Null /\ subActive = FALSE /\ unbound = FALSE /\ due = FALSE
    /\ retry = Null /\ fetch = Null /\ fails = 0
    /\ quality = "disconnected"
    /\ td = [c \in Callers |-> NoTeardown]
    /\ sessions = {} /\ groups = {} /\ lost = 0 /\ retried = {} /\ overtaken = FALSE

-----------------------------------------------------------------------------
(* Quality and poll rate.                                                  *)

StreamBringsStatus(active, left) == active /\ ~left
StreamQuality(active, left) == IF StreamBringsStatus(active, left) THEN "live" ELSE "polling"
QualityNow == StreamQuality(subActive, unbound)
\* installPollTimer: pinned to a generation, slow while the stream brings the status
PollTimer(g, active, left) == [gen |-> g, slow |-> StreamBringsStatus(active, left)]
Reading(g, by) == [gen |-> g, by |-> by, pc |-> "reading"]

-----------------------------------------------------------------------------
(* Teardown, run for a disconnect, for an attempt or for a failed poll.    *)

\* The group's handle is called, or without one the adapter's disconnect().
NextTeardown == IF unsub # Null THEN [pc |-> "unsub", h |-> unsub] ELSE [pc |-> "bye", h |-> adapter]

\* The synchronous head: epochs, generation and timer, before any await.
BeginTeardown(c) ==
    /\ epoch' = epoch + 1
    /\ sessEpoch' = Null
    /\ gen' = gen + 1
    /\ timer' = Null
    /\ \E busy \in IF connected THEN BOOLEAN ELSE {FALSE} :
         td' = [td EXCEPT ![c] = CASE adapter = Null -> [pc |-> "done", h |-> Null]
                                   [] adapter # Null /\ busy -> [pc |-> "quiesce", h |-> Null]
                                   [] OTHER -> NextTeardown]

\* Motion control withdrawn, jog hold and RMMP given back: on to the group, if there is one.
TeardownQuiesced(c) ==
    /\ td[c].pc = "quiesce"
    /\ td' = [td EXCEPT ![c] = NextTeardown]
    /\ UNCHANGED <<att, connecting, link, connected, adapter, stream, retry, fetch, fails,
                   quality, sessions, groups, lost, retried, overtaken>>

\* The handle's DELETE is answered; the field is cleared, whatever it holds by now.
TeardownUnsubscribed(c) ==
    /\ td[c].pc = "unsub"
    /\ groups' = groups \ {td[c].h}
    /\ unsub' = Null
    /\ subActive' = FALSE /\ unbound' = FALSE
    /\ td' = [td EXCEPT ![c] = [pc |-> "bye", h |-> adapter]]
    /\ UNCHANGED <<att, connecting, link, connected, adapter, due, retry, fetch, fails,
                   quality, sessions, lost, retried, overtaken>>

\* adapter.disconnect() is answered (at once without an adapter): the state is reset.
TeardownEnd(c) ==
    /\ td[c].pc = "bye"
    /\ sessions' = sessions \ {td[c].h}
    /\ fails' = 0
    /\ due' = FALSE
    /\ connected' = FALSE
    /\ quality' = "disconnected"
    /\ td' = [td EXCEPT ![c].pc = "done"]
    /\ UNCHANGED <<att, connecting, link, adapter, unsub, subActive, unbound, retry, fetch,
                   groups, lost, retried, overtaken>>

\* disconnect(): cancels the attempt in flight for good, then tears down.
Disconnect(u) ==
    /\ td[u].pc = "none"
    /\ att' = IF connecting = Null THEN att ELSE [att EXCEPT ![connecting].cancelled = TRUE]
    /\ BeginTeardown(u)
    /\ quality' = IF adapter = Null THEN "disconnected" ELSE quality
    /\ UNCHANGED <<connecting, connected, adapter, stream, retry, fetch, fails,
                   sessions, groups, lost, retried, overtaken>>

-----------------------------------------------------------------------------
(* Connect.                                                                *)

\* disconnect() cancelled the attempt for good; a teardown that cancelled nothing only moves the epoch
Cancelled(r) == r.cancelled
ByFlag(a) == Cancelled(att[a])  \* mutant: the epoch is not looked at
Aborted(a) == Cancelled(att[a]) \/ att[a].epoch # epoch
\* A call with the target of an attempt that is still good gets that attempt's promise.
Coalesces(t) ==
    /\ connecting # Null
    /\ att[connecting].tgt = t
    /\ att[connecting].epoch = epoch
    /\ ~att[connecting].cancelled
Settle(a) == connecting' = IF connecting \in {a, Null} THEN Null ELSE connecting
SetAttempt(a, r) == att' = [att EXCEPT ![a] = r]

\* The head of doConnect: nothing to do, a teardown of the old connection, or the probe.
\* owner is what connectingPromise holds while the attempt goes on.
DoConnect(a, r, owner) ==
    \/ /\ connected /\ adapter # Null /\ att[adapter].tgt = r.tgt
       /\ SetAttempt(a, [r EXCEPT !.pc = "done"])
       /\ Settle(a)
       /\ quality' = QualityNow
       /\ UNCHANGED <<link, td>>
    \/ /\ connected /\ (adapter = Null \/ att[adapter].tgt # r.tgt)
       /\ SetAttempt(a, [r EXCEPT !.pc = "ownTd"])
       /\ connecting' = owner
       /\ quality' = "reconnecting"
       /\ BeginTeardown(a)
    \/ /\ ~connected
       /\ SetAttempt(a, [r EXCEPT !.epoch = epoch, !.pc = IF Cancelled(r) THEN "done" ELSE "probe"])
       /\ IF Cancelled(r) THEN Settle(a) ELSE connecting' = owner
       /\ quality' = "reconnecting"
       /\ UNCHANGED <<link, td>>

\* connect() and startConnect: a new attempt supersedes the one in flight, if any.
Connect(t) ==
    LET new == CHOOSE a \in Attempts : att[a].pc = "unused"
        r == [pc |-> "superTd", tgt |-> t, epoch |-> epoch, cancelled |-> FALSE, after |-> connecting, gen |-> 0, h |-> Null]
    IN /\ \E a \in Attempts : att[a].pc = "unused"
       /\ ~Coalesces(t)
       /\ \/ /\ connecting # Null
             /\ SetAttempt(new, r)
             /\ connecting' = new
             /\ BeginTeardown(new)
             /\ quality' = IF adapter = Null THEN "disconnected" ELSE quality
          \/ connecting = Null /\ DoConnect(new, r, new)
       /\ UNCHANGED <<connected, adapter, stream, retry, fetch, fails, sessions, groups, lost, retried, overtaken>>

\* The teardown of the superseding attempt is over: its own epoch counts from here.
SupersedeTornDown(a) ==
    /\ att[a].pc = "superTd" /\ td[a].pc = "done"
    /\ td' = [td EXCEPT ![a] = NoTeardown]
    /\ SetAttempt(a, [att[a] EXCEPT !.pc = "superWait", !.epoch = epoch])
    /\ UNCHANGED <<connecting, link, connected, adapter, stream, retry, fetch, fails, quality,
                   sessions, groups, lost, retried, overtaken>>

(* Mutant: the attempt waits for connectingPromise, which is its own by now. *)
WaitsForItself(a) ==
    /\ att[a].pc = "superWait" /\ att[connecting].pc = "done"
    /\ DoConnect(a, att[a], connecting)
    /\ UNCHANGED <<connected, adapter, stream, retry, fetch, fails, sessions, groups, lost, retried, overtaken>>

\* The superseded attempt has unwound.
SupersedeGo(a) ==
    /\ att[a].pc = "superWait" /\ att[att[a].after].pc = "done"
    /\ DoConnect(a, att[a], connecting)
    /\ UNCHANGED <<connected, adapter, stream, retry, fetch, fails, sessions, groups, lost, retried, overtaken>>

\* The attempt's teardown of the old connection is over: the epoch is read again.
OwnTornDown(a) ==
    /\ att[a].pc = "ownTd" /\ td[a].pc = "done"
    /\ td' = [td EXCEPT ![a] = NoTeardown]
    /\ SetAttempt(a, [att[a] EXCEPT !.epoch = epoch, !.pc = IF Cancelled(att[a]) THEN "done" ELSE "probe"])
    /\ IF Cancelled(att[a])
       THEN Settle(a) /\ quality' = IF connected THEN QualityNow ELSE quality
       ELSE UNCHANGED <<connecting, quality>>
    /\ UNCHANGED <<link, connected, adapter, stream, retry, fetch, fails, sessions, groups, lost, retried, overtaken>>

\* The attempt fails: its caller gets the error.
Throw(a) ==
    /\ SetAttempt(a, [att[a] EXCEPT !.pc = "done"])
    /\ Settle(a)
    /\ quality' = "disconnected"

\* The attempt ends without an error; the quality follows only if there is a connection.
Return(a) ==
    /\ SetAttempt(a, [att[a] EXCEPT !.pc = "done"])
    /\ Settle(a)
    /\ quality' = IF connected THEN QualityNow ELSE quality

\* Probe, identity check and recovery are over: no controller, aborted, or an
\* adapter, which is kept only for the same target at the same port.
Probed(a) ==
    /\ att[a].pc = "probe"
    /\ \/ Throw(a) /\ UNCHANGED adapter
       \/ Aborted(a) /\ Return(a) /\ UNCHANGED adapter
       \/ /\ ~Aborted(a)
          /\ \E moved \in BOOLEAN :
               LET keep == ~moved /\ adapter # Null /\ att[adapter].tgt = att[a].tgt
               IN adapter' = IF keep THEN adapter ELSE a
          /\ SetAttempt(a, [att[a] EXCEPT !.pc = "login"])
          /\ UNCHANGED <<connecting, quality>>
    /\ UNCHANGED <<link, connected, stream, retry, fetch, fails, td, sessions, groups, lost, retried, overtaken>>

\* adapter.connect() is answered.  Accepted, it is the connection, unless the attempt was aborted.
LoggedIn(a) ==
    /\ att[a].pc = "login"
    /\ \/ Throw(a) /\ UNCHANGED <<connected, sessEpoch, due, sessions, overtaken>>
       \/ /\ sessions' = sessions \cup {adapter}
          /\ UNCHANGED <<connecting, quality>>
          /\ \/ /\ Aborted(a)
                /\ SetAttempt(a, [att[a] EXCEPT !.pc = "closing", !.h = adapter])
                /\ UNCHANGED <<connected, sessEpoch, due, overtaken>>
             \/ /\ ~Aborted(a)
                /\ connected' = TRUE
                /\ sessEpoch' = att[a].epoch
                /\ due' = FALSE
                /\ overtaken' = (overtaken \/ \E c \in Callers : td[c].pc \notin {"none", "done"})
                /\ SetAttempt(a, [att[a] EXCEPT !.pc = "subWait"])
    /\ UNCHANGED <<epoch, gen, timer, adapter, unsub, subActive, unbound, retry, fetch, fails,
                   td, groups, lost, retried>>

\* An aborted attempt logged its session out again.
Closed(a) ==
    /\ att[a].pc = "closing"
    /\ sessions' = sessions \ {att[a].h}
    /\ Return(a)
    /\ UNCHANGED <<link, connected, adapter, stream, retry, fetch, fails, td, groups, lost, retried, overtaken>>

\* startSubscriptions waits for a retry still out on this adapter, then subscribes
\* unless the connection was torn down meanwhile.
SubscribeStart(a) ==
    /\ att[a].pc = "subWait"
    /\ retry # Null => retry.adapter # adapter
    /\ SetAttempt(a, [att[a] EXCEPT !.pc = IF att[a].epoch = epoch THEN "subscribe" ELSE "subDone"])
    /\ UNCHANGED <<connecting, link, connected, adapter, stream, retry, fetch, fails, quality, td,
                   sessions, groups, lost, retried, overtaken>>

\* The group's create is answered: a stream (perhaps without a status resource), or a failure
\* with a retry due later, or never for an adapter that cannot subscribe.
Subscribed(a) ==
    /\ att[a].pc = "subscribe"
    /\ SetAttempt(a, [att[a] EXCEPT !.pc = "subDone"])
    /\ \/ /\ \E u \in BOOLEAN : unbound' = u
          /\ groups' = groups \cup {a}
          /\ unsub' = a
          /\ subActive' = TRUE
          /\ UNCHANGED due
       \/ /\ subActive' = FALSE /\ unbound' = FALSE
          /\ \E can \in BOOLEAN : due' = IF att[a].epoch = epoch THEN can ELSE due
          /\ UNCHANGED <<groups, unsub>>
    /\ UNCHANGED <<connecting, link, connected, adapter, retry, fetch, fails, quality, td, sessions, lost, retried, overtaken>>

\* After the subscribe: an aborted attempt undoes it; otherwise a new poll generation and its first poll,
\* which is skipped while a poll of an earlier connection is still out.
FirstPoll(a) ==
    /\ att[a].pc = "subDone"
    /\ \/ /\ Aborted(a)
          /\ SetAttempt(a, IF unsub = Null THEN [att[a] EXCEPT !.pc = "closing", !.h = adapter]
                                         ELSE [att[a] EXCEPT !.pc = "undo", !.h = unsub])
          /\ IF unsub = Null THEN subActive' = FALSE /\ unbound' = FALSE ELSE UNCHANGED <<subActive, unbound>>
          /\ UNCHANGED <<connecting, gen, fails, fetch, timer, quality>>
       \/ /\ ~Aborted(a)
          /\ gen' = gen + 1
          /\ fails' = 0
          /\ UNCHANGED <<subActive, unbound>>
          /\ \/ /\ fetch = Null
                /\ fetch' = Reading(gen', a)
                /\ SetAttempt(a, [att[a] EXCEPT !.pc = "polling", !.gen = gen'])
                /\ UNCHANGED <<connecting, timer, quality>>
             \/ /\ fetch # Null
                /\ timer' = PollTimer(gen', subActive, unbound)
                /\ Return(a)
                /\ UNCHANGED fetch
    /\ UNCHANGED <<epoch, sessEpoch, connected, adapter, unsub, due, retry, td, sessions, groups, lost, retried, overtaken>>

\* The aborted attempt's group is deleted.
Undone(a) ==
    /\ att[a].pc = "undo"
    /\ groups' = groups \ {att[a].h}
    /\ unsub' = Null
    /\ subActive' = FALSE /\ unbound' = FALSE
    /\ SetAttempt(a, [att[a] EXCEPT !.pc = "closing", !.h = adapter])
    /\ UNCHANGED <<connecting, link, connected, adapter, due, retry, fetch, fails, quality, td, sessions, lost, retried, overtaken>>

\* The first poll is over: the timer starts, unless the attempt was aborted.
ConnectEnd(a) ==
    /\ att[a].pc = "polled"
    /\ IF Aborted(a) THEN UNCHANGED timer ELSE timer' = PollTimer(att[a].gen, subActive, unbound)
    /\ Return(a)
    /\ UNCHANGED <<epoch, sessEpoch, gen, connected, adapter, stream, retry, fetch, fails, td,
                   sessions, groups, lost, retried, overtaken>>

-----------------------------------------------------------------------------
(* The poll: fetchAll, pinned to a generation, one at a time.              *)

\* The attempt whose first poll this was goes on when the poll is over.
PollOver(by) == att' = IF by \in Attempts THEN [att EXCEPT ![by].pc = "polled"] ELSE att

\* The timer fires, or refresh() is called.
Tick ==
    /\ timer # Null /\ fetch = Null /\ timer.gen = gen /\ adapter # Null
    /\ fetch' = Reading(timer.gen, Null)
    /\ UNCHANGED <<att, connecting, link, connected, adapter, stream, retry, fails, quality, td,
                   sessions, groups, lost, retried, overtaken>>
Refresh ==
    /\ connected /\ fetch = Null /\ adapter # Null
    /\ fetch' = Reading(gen, Null)
    /\ UNCHANGED <<att, connecting, link, connected, adapter, stream, retry, fails, quality, td,
                   sessions, groups, lost, retried, overtaken>>

\* A poll of an earlier generation ends: it changes nothing.
PollStale ==
    /\ fetch # Null /\ fetch.pc = "reading" /\ fetch.gen # gen
    /\ fetch' = Null
    /\ PollOver(fetch.by)
    /\ UNCHANGED <<connecting, link, connected, adapter, stream, retry, fails, quality, td,
                   sessions, groups, lost, retried, overtaken>>

\* retrySubscriptionsIfDue; the handle of a stream that was given up is let go first.
RetryDue ==
    /\ ~subActive /\ due /\ retry = Null
    /\ adapter # Null /\ connected /\ connecting = Null
    /\ sessEpoch = epoch
    /\ retried # Retries
RetryStart ==
    LET r == CHOOSE x \in Retries : x \notin retried
    IN /\ retry' = [name |-> r, adapter |-> adapter, epoch |-> epoch, gen |-> gen, h |-> unsub,
                    pc |-> IF unsub = Null THEN "create" ELSE "letgo"]
       /\ retried' = retried \cup {r}
       /\ unsub' = Null

\* A poll succeeds: a stale connection heals, and a due subscribe retry starts.
PollOk ==
    /\ fetch # Null /\ fetch.pc = "reading" /\ fetch.gen = gen
    /\ fetch' = Null
    /\ PollOver(fetch.by)
    /\ fails' = 0
    /\ quality' = IF quality = "stale" THEN QualityNow ELSE quality
    /\ \/ RetryDue /\ RetryStart
       \/ UNCHANGED <<retry, retried, unsub>>
    /\ UNCHANGED <<connecting, link, connected, adapter, subActive, unbound, due, td, sessions, groups, lost, overtaken>>

\* A poll fails: the data is stale, and after MaxFails in a row the connection is given up.
PollFailed ==
    /\ fetch # Null /\ fetch.pc = "reading" /\ fetch.gen = gen
    /\ fails' = fails + 1
    /\ \/ /\ fails' < MaxFails
          /\ quality' = "stale"
          /\ fetch' = Null
          /\ PollOver(fetch.by)
          /\ UNCHANGED <<link, td>>
       \/ /\ fails' >= MaxFails
          /\ BeginTeardown("poll")
          /\ fetch' = [fetch EXCEPT !.pc = "tearing"]
          /\ UNCHANGED <<quality, att>>
    /\ UNCHANGED <<connecting, connected, adapter, stream, retry, sessions, groups, lost, retried, overtaken>>

PollTornDown ==
    /\ fetch # Null /\ fetch.pc = "tearing" /\ td["poll"].pc = "done"
    /\ td' = [td EXCEPT !["poll"] = NoTeardown]
    /\ quality' = "disconnected"
    /\ fetch' = Null
    /\ PollOver(fetch.by)
    /\ UNCHANGED <<connecting, link, connected, adapter, stream, retry, fails, sessions, groups, lost, retried, overtaken>>

-----------------------------------------------------------------------------
(* The subscribe retry and what the adapter reports of its stream.         *)

RetryCurrent ==
    /\ retry.epoch = epoch /\ retry.gen = gen /\ retry.adapter = adapter
    /\ connected /\ ~subActive

RetryLetGo ==
    /\ retry # Null /\ retry.pc = "letgo"
    /\ groups' = groups \ {retry.h}
    /\ retry' = IF RetryCurrent THEN [retry EXCEPT !.pc = "create"] ELSE Null
    /\ UNCHANGED <<att, connecting, link, connected, adapter, stream, fetch, fails, quality, td,
                   sessions, lost, retried, overtaken>>

\* A failed retry schedules the next one, if it is still this connection's.
RetryFailed ==
    /\ retry # Null /\ retry.pc = "create"
    /\ retry' = Null
    /\ \E can \in BOOLEAN : due' = IF RetryCurrent THEN can ELSE due
    /\ UNCHANGED <<att, connecting, link, connected, adapter, unsub, subActive, unbound, fetch, fails,
                   quality, td, sessions, groups, lost, retried, overtaken>>

(* Mutant: a group that lands late is forgotten. *)
ForgottenGroup ==
    /\ retry # Null /\ retry.pc = "create" /\ ~RetryCurrent
    /\ groups' = groups \cup {retry.name}
    /\ retry' = Null
    /\ UNCHANGED <<att, connecting, link, connected, adapter, stream, fetch, fails, quality, td,
                   sessions, lost, retried, overtaken>>

\* A group that lands late is not this connection's: it is deleted again.
RetryLate ==
    /\ retry # Null
    /\ \/ /\ retry.pc = "create" /\ ~RetryCurrent
          /\ groups' = groups \cup {retry.name}
          /\ retry' = [retry EXCEPT !.pc = "undo"]
       \/ /\ retry.pc = "undo"
          /\ groups' = groups \ {retry.name}
          /\ retry' = Null
    /\ UNCHANGED <<att, connecting, link, connected, adapter, stream, fetch, fails, quality, td,
                   sessions, lost, retried, overtaken>>

\* The retry ends as a subscribe at connect does, and polls once to catch up.
RetrySubscribed ==
    /\ retry # Null /\ retry.pc = "create" /\ RetryCurrent
    /\ retry' = Null
    /\ groups' = groups \cup {retry.name}
    /\ unsub' = retry.name
    /\ subActive' = TRUE
    /\ due' = FALSE
    /\ \E u \in BOOLEAN :
         /\ unbound' = u
         /\ timer' = IF timer = Null THEN Null ELSE PollTimer(gen, TRUE, u)
         /\ quality' = IF quality = "stale" THEN quality ELSE StreamQuality(TRUE, u)
    /\ fetch' = IF fetch = Null THEN Reading(gen, Null) ELSE fetch
    /\ UNCHANGED <<att, connecting, epoch, sessEpoch, gen, connected, adapter, fails, td, sessions, lost, retried, overtaken>>

\* A handle that was called reports nothing any more.
LetGo == {td[c].h : c \in {d \in Callers : td[d].pc = "unsub"}}
         \cup {att[a].h : a \in {b \in Attempts : att[b].pc = "undo"}}
         \cup (IF retry = Null THEN {} ELSE {retry.h} \cup IF retry.pc = "undo" THEN {retry.name} ELSE {})

\* The adapter gave a stream up: back to fast polling, and a retry is due.
StreamLost(g) ==
    /\ g \in groups \ LetGo /\ lost < MaxLost
    /\ lost' = lost + 1
    /\ groups' = groups \ {g}
    /\ IF subActive
       THEN /\ subActive' = FALSE /\ unbound' = FALSE
            /\ IF connected /\ sessEpoch = epoch
               THEN /\ due' = TRUE
                    /\ quality' = IF timer = Null THEN quality ELSE "polling"
                    /\ timer' = IF timer = Null THEN Null ELSE PollTimer(gen, FALSE, FALSE)
               ELSE UNCHANGED <<due, quality, timer>>
       ELSE UNCHANGED <<subActive, unbound, due, quality, timer>>
    /\ UNCHANGED <<att, connecting, epoch, sessEpoch, gen, connected, adapter, unsub, retry, fetch, fails, td,
                   sessions, retried, overtaken>>

\* The adapter's stream is back after a gap, with a new group judged on its own answer: poll once.
StreamRestored(g) ==
    /\ g \in groups \ LetGo /\ lost < MaxLost
    /\ lost' = lost + 1
    /\ subActive /\ connected
    /\ \E u \in BOOLEAN :
         /\ unbound' = IF unsub = g THEN u ELSE unbound
         /\ timer' = IF timer = Null \/ timer.slow = StreamBringsStatus(TRUE, unbound')
                     THEN timer ELSE PollTimer(gen, TRUE, unbound')
         /\ quality' = StreamQuality(TRUE, unbound')
    /\ fetch' = IF fetch = Null THEN Reading(gen, Null) ELSE fetch
    /\ UNCHANGED <<att, connecting, epoch, sessEpoch, gen, connected, adapter, unsub, subActive, due, retry, fails,
                   td, sessions, groups, retried, overtaken>>

-----------------------------------------------------------------------------
\* What resumes as soon as what it awaited is over, before anything else runs.
Resumes(a) ==
    \/ att[a].pc \in {"subDone", "polled"}
    \/ att[a].pc \in {"superTd", "ownTd"} /\ td[a].pc = "done"
    \/ att[a].pc = "superWait" /\ att[att[a].after].pc = "done"
    \/ att[a].pc = "subWait" /\ (retry # Null => retry.adapter # adapter)
PollResumes == fetch # Null /\ fetch.pc = "tearing" /\ td["poll"].pc = "done"
Resume ==
    \/ PollTornDown
    \/ \E a \in Attempts :
         \/ SupersedeTornDown(a) \/ SupersedeGo(a) \/ OwnTornDown(a)
         \/ SubscribeStart(a) \/ FirstPoll(a) \/ ConnectEnd(a)
Settled == ~PollResumes /\ \A a \in Attempts : ~Resumes(a)

Answer(a) == Probed(a) \/ LoggedIn(a) \/ Closed(a) \/ Subscribed(a) \/ Undone(a)
TeardownStep(c) == TeardownQuiesced(c) \/ TeardownUnsubscribed(c) \/ TeardownEnd(c)
PollStep == PollStale \/ PollOk \/ PollFailed
RetryStep == RetryLetGo \/ RetryFailed \/ RetryLate \/ RetrySubscribed

Next ==
    \/ Resume
    \/ /\ Settled
       /\ \/ \E t \in Targets : Connect(t)
          \/ \E u \in Users : Disconnect(u)
          \/ \E a \in Attempts : Answer(a)
          \/ \E c \in Callers : TeardownStep(c)
          \/ Tick \/ Refresh \/ PollStep \/ RetryStep
          \/ \E g \in groups : StreamLost(g) \/ StreamRestored(g)

Spec == Init /\ [][Next]_vars

\* Every answer arrives or times out; calls, ticks and stream reports may stop.
Fairness ==
    /\ WF_vars(Resume)
    /\ \A a \in Attempts : WF_vars(Settled /\ Answer(a))
    /\ \A c \in Callers : WF_vars(Settled /\ TeardownStep(c))
    /\ WF_vars(Settled /\ PollStep) /\ WF_vars(Settled /\ RetryStep)
FairSpec == Spec /\ Fairness

-----------------------------------------------------------------------------
Pending(a) == att[a].pc \notin {"unused", "done"}
\* No call, poll, retry or teardown is under way.
Quiet ==
    /\ retry = Null /\ fetch = Null
    /\ \A a \in Attempts : ~Pending(a)
    /\ \A c \in Callers : td[c].pc \in {"none", "done"}

AttemptStates == [pc : {"unused", "superTd", "superWait", "ownTd", "probe", "login", "closing", "subWait",
                        "subscribe", "subDone", "undo", "polling", "polled", "done"},
                  tgt : Targets \cup {Null}, epoch : Nat, cancelled : BOOLEAN, after : Attempts \cup {Null},
                  gen : Nat, h : Attempts \cup Retries \cup {Null}]
TeardownStates == [pc : {"none", "quiesce", "unsub", "bye", "done"}, h : Attempts \cup Retries \cup {Null}]
\* The values the manager's fields can take; failed polls are never counted past MaxFails.
TypeOK ==
    /\ att \in [Attempts -> AttemptStates] /\ td \in [Callers -> TeardownStates]
    /\ retry \in RetryStates \cup {Null} /\ retried \subseteq Retries
    /\ fetch \in Polls \cup {Null}
    /\ connecting \in Attempts \cup {Null} /\ adapter \in Attempts \cup {Null}
    /\ epoch \in Nat /\ sessEpoch \in Nat \cup {Null} /\ gen \in Nat
    /\ timer \in Timers \cup {Null}
    /\ {connected, subActive, unbound, due, overtaken} \subseteq BOOLEAN
    /\ unsub \in Attempts \cup Retries \cup {Null} /\ groups \subseteq Attempts \cup Retries
    /\ fails \in 0 .. MaxFails
    /\ quality \in {"disconnected", "reconnecting", "polling", "live", "stale"}
    /\ sessions \subseteq Attempts /\ lost \in Nat

\* However connects, disconnects, polls and retries interleaved: once all of them are over and the
\* manager is not connected, no poll timer runs and the controller holds no session and no group of it.
NothingLeft == ~overtaken /\ Quiet /\ ~connected => timer = Null /\ sessions = {} /\ groups = {}

\* Once all is over and the manager is connected, its poll runs in the current generation, its adapter
\* has the only session, and the only group that may be left is the one unsubscribeFn deletes.
Whole == ~overtaken /\ Quiet /\ connected =>
    timer # Null /\ timer.gen = gen /\ sessions = {adapter} /\ groups \subseteq {unsub}

\* A connection that polls and calls itself live has a stream that brings every status field, and its
\* polls are slow: a consumer that budgets its own requests on the quality counts what is sent.
LiveIsSlow == ~overtaken /\ quality = "live" /\ timer # Null =>
    connected /\ subActive /\ ~unbound /\ timer.slow

\* "live: WebSocket subscriptions streaming", also before the first poll of the connection is over.
LiveIsStreaming == ~overtaken /\ quality = "live" /\ sessEpoch = epoch => connected /\ subActive /\ ~unbound

\* Every connect() comes to an end, also one that waits for the attempt it superseded.
ConnectEnds == (\E a \in Attempts : Pending(a)) ~> (\A a \in Attempts : ~Pending(a))

\* The attempt waits for no other one, but for an answer, a teardown, a poll or a retry that is
\* under way: whoever superseded somebody finds him unwound.
WaitsForNoOther(a) ==
    \/ att[a].pc \in {"probe", "login", "closing", "subWait", "subscribe", "subDone", "undo", "polled"}
    \/ att[a].pc \in {"superTd", "ownTd"} /\ td[a].pc # "none"
    \/ att[a].pc = "superWait" /\ att[att[a].after].pc = "done"
    \/ /\ att[a].pc = "polling" /\ fetch # Null /\ fetch.by = a
       /\ fetch.pc = "tearing" => td["poll"].pc # "none"

\* What that rests on, beside the fairness: connects never wait for each other in a circle, however
\* many supersede each other.
SomebodyGoesOn == (\E a \in Attempts : Pending(a)) => \E a \in Attempts : WaitsForNoOther(a)

\* "this tears down the DEAD connection": the teardown of a failed poll ends no newer connection.
PollSparesTheNext == [][TeardownEnd("poll") => sessEpoch = Null]_vars

=============================================================================
