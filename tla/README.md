# A TLA+ model of abb-rws-client

`abb-rws-client` is a TypeScript client for ABB robot controllers (Robot Web
Services 1.0 on RobotWare 6, 2.0 on RobotWare 7 and 8). A write to a controller
needs a lock of the controller (a mastership domain, on RobotWare 8 the one
control-station write access), is refused in some modes, and may be lost to the
FlexPendant or to a restart at any moment. The client is single-threaded, but
everything it does is asynchronous: what it knew before an `await` may be false
after it. This project models the parts where that matters.

All paths below are relative to the repository root, which is `src/` here: the
library's code is `src/src/`.

## 1. The system

### Components and their state

| Component | State | Operations | Interacts with |
|---|---|---|---|
| `access/AccessManager.ts` | live holds, public holds, groups, record per lock, chain of wire steps, turn and waiters | withAccess, exclusive, acquire, release, forget, request/releasePublic(All), recordLoss, noteModeChange, sessionEnded, refuseNewTurns, drain | its driver (RWS 1.0, 2.0), the watchdog (events), RobotManager |
| `access/MastershipWatchdog.ts` | running, timer, last accepted / busy answer, reset in flight, epochs, configuration | start, stop, tick, accepted, refused, busy, lose, adopt | AccessManager (events in, recordLoss out), RWS 2.0 core |
| `access/motionControl.ts`, part of `rws2/core.ts` | allowance known / maybe declared, POST numbers, withdrawal in progress | allow, withdraw, read, withdraw a leftover | RWS 2.0 core, RobotManager |
| `access/rmmp.ts` | request pending, deadline | the wait for the operator's answer | RobotManager |
| `rws2/core.ts` | cookie, sessionGone, login in progress, request slot, closing/closed, registration, subscriptions | connect, disconnect, req, withLogin, logIn, adoptSessionCookie, subscribe | AccessManager, watchdog |
| `rws2/*.ts` (resources), `RwsClient.ts`, `RWS1Adapter.ts` | none of their own | one method per operation of the controller | the sessions, AccessManager |
| `HttpSession.ts` | digest challenge, cookies, request queue, closings | request, close, reopen | RWS 1.0 client |
| `WsSubscriber.ts`, `subscribe` of `rws2/core.ts` | group, socket, reconnect attempts, heartbeat, unbound resources | subscribe, stop, closeAll, reconnect | the sessions, RobotManager |
| `RobotManager.ts` | adapter, connect attempt, epochs, polling generation, failures, quality, status group, jog hold | connect, disconnect, poll, the operations, jog | every component above |
| `paths/*`, `operations/*` | none | which operation exists where, how `call()` routes it, what access it takes | RobotManager |
| `MultiRobotManager.ts` | managers and configurations by id, active id | add, remove, connect | RobotManager |
| `discovery/*`, `detect.ts`, `MdnsDiscovery.ts` | probes in flight, results | scan, probe, merge | none |
| `refusal.ts`, parsers, `types.ts` | none | pure functions | all |

### What is hard

* a step on the chain awaits the controller while losses, releases, session
  ends and further requests happen;
* the controller may end a hold without telling; a request or a release may
  take effect although its answer is lost;
* an operation may lose its hold between two of its own steps, or while a
  request of it is queued; a method of several requests fails in the middle;
* a queue timeout, a teardown and a hand-over compete for the same waiter;
* the teardown gives up on a write that is still running;
* a timer judges a hold by an answer that may belong to an earlier one;
* the session cookie expires under several requests at once, whose 401 answers
  arrive in any order, while one login replaces it;
* requests are sent again after a login, on a dead connection, after a 503 and
  for a fallback, and the client may have been closed in between;
* a connect is superseded, cancelled or overtaken by a disconnect at any of its
  awaits, and so is a reconnect of an event stream;
* an allowance of motion control must not outlive the client unseen, although
  its POST may be taken long after the client stopped waiting for it.

Every one of these is an entry of `hazards` in `PROJECT.json`, at its line.
The hazards of that list without a property have a note that says why. They
do go wrong, and section 3 says how: the all-domains release that stops half way
(`AccessManager.ts:969`), the teardown after failed polls
(`RobotManager.ts:5731`), two setters of motion control (`rws2/core.ts:2203`),
and the jog that takes a hold of its own beside the user's
(`RobotManager.ts:4627`). Further situations that no property covers:

* `AccessManager.ts:943` (rollback of an all-domains request) and `:884`
  (`releasePublic` before its request is answered) are in the model `Access`, but
  what the code should do there is not stated anywhere;
* `rws2/core.ts:1174` (the watchdog stops before the write in progress ends),
  `:951` (several logins before the first cookie), `:1212` (a logout that logs in
  first) and `:1113` (`connect()` during a teardown) are situations for which
  neither the code nor its documentation says what should happen;
* `MultiRobotManager.ts:221` writes back a configuration read before the await,
  which loses a concurrent `updateConfig` or brings back a removed robot's, and
  `:239` may make a robot active that was removed meanwhile.

## 2. Modules

| Module | Models |
|---|---|
| `Access` | `AccessManager`: one action per stretch of client code between two awaits, and the controller as an external party |
| `CountedLock` | what reference counting promises, without wire, queue or turn |
| `WriteTurn` | what the turn promises: one operation at a time, first come, first served, nobody once the teardown has begun |
| `Watchdog` | `MastershipWatchdog` in ticks of time: the reset timer, the reset in flight, the busy run, the configuration reads |
| `Rws2Session` | the HTTP session of `rws2/core.ts`: slots, cookie, login, retry, fallback, teardown |
| `Rws1Session` | `HttpSession`: the queue and what it cuts short, the sends of one request, the cookies, close and reopen |
| `Subscription` | one event subscription of either client: group, socket, reconnect, heartbeat, stop |
| `RobotManager` | the connection of a manager: connect attempts, teardowns, polls, the status group and its retries, the quality |
| `MotionControl` | the RobotWare 8 allowance: calls, registrations, withdrawals, re-issued sessions, disconnects |
| `Catalogue` | the tables of `paths/*` and `operations/*`: effect, web services, route, RobotWare 8 access, read-back of every operation |
| `Requests` | the instructions a method is made of, and the wrappers of the code (`withAccess`, `exclusive`, handlers, loops) as functions on programs |
| `Rws2Methods`, `Rws1Methods`, `ManagerMethods` | every method of the RWS 2.0 client, of the RWS 1.0 client and adapter, and of `RobotManager`, as a program |
| `Operations` | composes these five: callers run operations next to each other over the write turn, the counted access and the jog's hold |
| `Nesting` | the blocks (turns, counted access, temporary files) that are open before each instruction of a program, as its text says, and `ProgramsNest`: those of every method nest |
| `MCAccess`, `MCWatchdog`, `MCRws2Session`, `MCRws1Session`, `MCOperations` | small instances |
| `AccessProofs`, `WatchdogProofs`, `Rws2SessionProofs`, `Rws1SessionProofs`, `SubscriptionProofs`, `RobotManagerProofs`, `MotionControlProofs`, `OperationsProofs` | theorems, for every instance |

The models meet at events and are otherwise checked apart. What one sees of
another is an action that may happen at any time: `Access` has `WatchdogLapse`
for the watchdog's loss and `SessionReissued`, `RefuseNewTurns`, `Disconnect`,
`DrainTimeout` for what the session does; `Watchdog` has `Acquire`, `HoldEnds`
and `Reissued`; `Rws2Session` takes the operation that has the turn as the set
`InTurn` of calls that a closing client still sends; `RobotManager` sees the
adapter as logins, polls and groups that succeed or fail; `Subscription` sees
the session as requests that take effect, fail, or take effect unanswered;
`MotionControl` contains the manager's disconnect and the client's teardown.

### How state and actions correspond to the code

The client runs on one event loop, so an action is what it does between two
awaits. A call to the controller is split: the client sends, the controller
serves it (external, with every outcome: done, refused, done with the answer
lost), the client acts on the answer. Continuations of a promise that has just
settled run before the next event; where that matters (`RobotManager`,
`MotionControl`) it is the action `Resume` or `Continue`, and no event happens
while one is due.

* `Access`: `holds`, `public`, `groups`, `record`, `mutexBusy`, `waiters` are
  the fields of the class; `chain` is the promise chain of `enqueue`, its head
  the running step; `pc`, `nested`, `taken`, `outcome` say where each
  `withAccess` call is. `holder` and `revoked` are the controller's. `doubted`
  is history. Lock names, hold labels and messages are left out.
* `Watchdog`: a time stamp of the code is its age here, `timer` the time left.
  Of the controller's answers only the class counts that the code gives them
  (accepted, busy, refused, gone, not got through).
* `Rws2Session`: `pc` says where each request is: waiting for a slot (the
  first, one after `waitForLogin`, one of `withLogin`'s second send, one of the
  retry), on the wire, waiting for the login (before the first send or after a
  401). `queue` is the chain of `takeRequestSlot`, whose steps are apart: its head
  reads the clock (`rested`: `MIN_MS` have passed since `lastReqTime`), goes to
  sleep when it is too early (`asleep`, then `awake`), and stores the time and
  sends without reading the clock again. A fallback to XHTML is a
  `req()` inside a `req()`: `spare` is what the outer one may still do when the
  inner one fails. `alive` and `issued` are the controller's sessions; `done`
  and `quiet` are history.
* `Rws1Session`: `queue` is `requestQueue`, its head the request that runs;
  `try` says which of the sends of `execute()` is on the wire. `closings` are
  the `close()` calls that wait for the queue to end.
* `Subscription`: `job` is the routine that registers a group and opens its
  socket, at the await where it stands; `sub` is the code's record of the
  subscription. `groups`, `lacking`, `unread`, `orphans` are what became of the
  groups on the controller. One subscription is modelled: two of one client
  share only the map that `closeAll` walks, so the client is assumed to own no
  other group.
* `RobotManager`: `att` are the calls of `connect()` and how far each has come;
  `epoch`, `sessEpoch` and `gen` are the counters by which the code tells
  overtaken work. `sessions` and `groups` are the controller's.
* `Operations`: `call` holds the program each caller runs and its next
  instruction. A program keeps which requests change the controller, their
  order, the access around them and what a failure skips, repeats or still
  runs; what they say is left out. `turn`, `own`, `jogHold`, `timer`, `freeing`
  are the write turn, the counted access and the jog's hold with its release.
* `MotionControl`: `me` are the fields of the client, `run` the routines (calls
  and re-issued sessions) at their awaits, `wd` the withdrawal in progress. Of
  the numbers of the POSTs only the latest is ever asked for, so the model
  keeps who made it (`latest`) and whether the two recorded numbers are it
  (`covered`, `wd.covers`). `posts` are the POSTs the controller has not taken;
  one that nobody waits for any more may still arrive. `told` is history.

`PROJECT.json` (`map`) gives the lines of every definition.

## 3. What the runs check

| Run | Instance | Shows |
|---|---|---|
| `AccessRw7` | two locks, an operation that takes both, a caller's hold on one, a watchdog on the other, lost answers | counted locks are this session's or were taken from it (`HoldsHonoured`); an operation that lost a hold asks for nothing more (`LostAsksNoMore`); the manager implements `CountedLock` |
| `AccessRw8` | one lock that can be read, two operations, one nesting a second hold on it | one turn, holds end with it; a lock reported idle is not held; a lock that was lost, or read as somebody else's, is counted again only after a new grant or when the controller names this session (`FreshAfterLoss`) |
| `AccessGroupRw6` | three locks, the all-domains request and release, a caller's hold | a release never hits a lock that is counted, with the loop over the locks, its rollback and its failures |
| `AccessLive` | one lock, three operations, a line of two, lost answers | every operation ends, every waiter is served, in the order of the line (the manager implements `WriteTurn`) |
| `Watchdog` | one Timeout of 4 ticks, intervals 1 to 2, resets that take up to 3 | how long a hold outlives the controller's silence or its busy answers; the timer never stops; no answer is taken for another hold's |
| `Rws2Session` | a read, a write of the operation in progress, two sessions | only a session that is gone is given up; a write is taken once; nothing follows /logout; requests are paced |
| `Rws2Live` | a write, connect, disconnect, the login | every request settles, the teardown with it |
| `Rws1Session` | a read, a create, a stop, a release; two sessions, two closes | what changes the controller is carried out once, whatever is sent again; no stop waits for a create, and none that was cut short is sent, or sent again; a replaced session is reported exactly when it was; close() breaks no request |
| `Subscription` | either client, two reconnect attempts, three groups | nothing is left on the controller; an open stream is that of a whole group; no `onLost` or `onRestored` after the end; every stream settles, and a frozen one is noticed |
| `RobotManager` | two connects to two targets, one disconnect, one retry, two failed polls, one lost stream | no session or group is left over (`NothingLeft`); one connection stands, whole, or none (`Whole`); every connect ends |
| `Operations` | every operation and method of RobotWare 6, 7 and 8, next to a caller that jogs or stops and a user who takes motion mastership | whatever fails, turn, access and temporary files are given back (`CleanEnd`); every write is under the access it needs (`UnderAccess`); what the catalogue offers is sent (`AdvertisedMeansSent`); a start never meets the jog's own hold; every call ends, every jog's hold too |
| `MotionControl` | one caller, one re-issued session, two POSTs on their way, leftovers of another process | an allowance this client made and that stands is one it counts, so that the next disconnect, registration or re-issue withdraws it; it outlives a disconnect only when a withdrawal failed and said so |

Further configurations ask what no run of the list has room for. These hold:

| Configuration | Module | Checks |
|---|---|---|
| `WatchdogMore.cfg` | `MCWatchdog` | `RiskReported`, `HoldReadFresh`, `RunsWhileHeld` |
| `RobotManagerMore.cfg` | `RobotManager` | `LiveIsSlow`: while the manager polls, a quality "live" means a stream that brings everything and slow polls; `SomebodyGoesOn`: connects never wait for each other in a circle |
| `OperationsMore.cfg` | `MCOperations` | `ReadsAndStopsAreFree`: no read takes access, no stop waits for a turn; `GoesForward`, `SomebodyGoesOn`, `OnlyTheseWait`: what `CallEnds` rests on beside the fairness |
| `MotionControlPair.cfg` | `MotionControl` | types and both invariants with a second caller that reads and writes |
| `MotionControlLive.cfg` | `MotionControl` | `DisconnectEnds`: withdrawals that wait for each other hold up no disconnect (4 to 5 minutes) |

### Where the code departs from what it says

In these TLC finds the named property violated; the counterexamples are what
the code does.

| Configuration, property | The code | The statement |
|---|---|---|
| `AccessGroupIdle`, `IdleIsNotHeld` | the all-domains release stops at its first failure | "`idle`: this session holds nothing on it." |
| `AccessGroupDoubt`, `FreshAfterLoss` | a lock lost while the all-domains request awaits an answer is counted again | "once a hold is in doubt it is no longer counted" |
| `WatchdogDoubled`, `OneOnTheWire` | a new hold's reset goes out while the earlier hold's is unanswered | "At most one reset is on the wire at a time" |
| `WatchdogConfig`, `ConfigOfThisSession` | a HeartBeat read of an earlier session is adopted | "a read begun before is dropped" |
| `Rws2Login`, `OneLogin` | the retry on a fresh connection does not wait for the login | "log in once, not once each" |
| `RobotManagerPoll`, `PollSparesTheNext` | the teardown after failed polls awaits the old adapter's requests, then resets the state whatever it is by then (`RobotManager.ts:5731`): a connection made meanwhile is reported disconnected | "this tears down the DEAD connection" (`RobotManager.ts:5728`) |
| `RobotManagerLive`, `LiveIsStreaming` | a stream restored and then lost while the first poll of a connect is out: the restore sets the quality "live", the loss finds no poll timer and leaves it (`RobotManager.ts:5121`), so "live" is said without a stream until the connect ends | "'live' - WebSocket subscriptions streaming" (`types.ts:803`) |
| `SubscriptionUnbound`, `UnboundIsTold` | the RWS 1.0 client clears `unbound` before it registers again (`WsSubscriber.ts:490`); when that create fails and the next attempt reopens the socket of the old group after all, what that group left out is no longer told | "left out of the group it holds now ..., read live" (`WsSubscriber.ts:329`) |
| `SubscriptionStop`, `StopFreesGroup` | `stop()` during a registration of the RWS 1.0 client leaves the group it makes to `closeAll()` | (an expectation of a caller, not a statement of the code) |
| `OperationsJog`, `JogUnderHold` | the jog's 2 s release timer runs from the moment the hold is granted; the reads and the unit selection before the jog may take longer, and the jog is then sent without the hold | "it only fires after 2 s of no jogging" (`RobotManager.ts:4628`) |
| `MotionControlTwo`, `StandingIsCounted` | with two callers, one's POST true goes unanswered, then the other's is refused as no control station: `beforeRetry` looks at a `standingBefore` read before both (`rws2/core.ts:2203`) and clears the count of both | "From then on only a POST `false` that is taken ends `maybeDeclared`" (`rws2/core.ts:414`) |
| `MotionControlOvertaking`, `StandingIsCounted` | when requests may overtake each other, a read of false that was answered late, after the answer to POST true, ends the count | the numbering of the POSTs relies on the order in which they are served |

`IdleIsNotHeld` is checked on RobotWare 8 only: without a read of the holder a
request that was granted and never answered leaves the lock `idle` on
RobotWare 6 and 7. Two more observations have no configuration: a jog asked for
while `requestMastership('motion')` is still being granted takes a hold of its
own next to the user's; and operations whose `rw8Access` is `none` include writes
sent as POST, where `operations/index.ts` speaks of "a write sent as a GET".

### Bounds

* `Access`: `MaxQueue` limits the public calls made while the chain is long, not
  the steps of operations or losses. Two operations suffice for one turn at a
  time, since a waiter and a holder are all that tells apart; the order of the
  line takes a holder and two who wait (`AccessLive`); one hold per kind of owner
  and lock suffices for the counting, which asks only whether a lock has a hold.
* `Watchdog`: the durations keep the order of the real ones (interval half the
  Timeout, first backoff below the interval, a reset that may outlast the
  Timeout, a longer busy limit). No age is capped: the watchdog's own limits
  bound them, which is what the run shows. The proofs cover every other choice.
* `Rws2Session`, `Rws1Session`: `MaxSession` and `MaxSessions` = 2 let one
  session replace another, so answers of the earlier one meet the later one; a
  third adds names only. With no session left the controller refuses, which the
  code must survive anyway. `MaxCloses` = 2 is the least for which a close can
  end under the next one's requests.
* `Subscription`: `MaxAttempts` = 2 has a first, a last and a given-up attempt;
  `MaxGroups` = 3 has a group, its successor and one more that is refused.
* `RobotManager`: two attempts to two targets coalesce, supersede and cancel;
  `MaxFails` = 2 instead of 3 has a failure that is tolerated and one that ends
  the connection; `MaxLost` = 1 allows a stream one loss and one restore.
* `Operations`: each caller makes one call (`MaxCalls`); the first runs every
  operation, the second those that share state with it without asking for the
  same turn (the jog and the stop). What one call leaves behind is judged by
  `CleanEnd`, so a second call of the same caller starts as the first did.
* `MotionControl`: `MaxPosts` = 2 lets a POST that nobody waits for meet a later
  one; it bounds what begins, never what runs. `Setters` has one member: with
  two the code forgets an allowance (above).

### Fairness

* `Access`: the steps of an operation, of the chain and the answers. The event
  loop runs what is ready, and every HTTP request has an idle timeout and, unless
  it is turned off, a deadline. An operation's step is strongly fair because a
  step of another caller may disable it for an instant. The queue timeout,
  losses and callers are not assumed to happen.
* `Rws2Session`: the pace timer, the head of the slot chain, the end of each
  request on the wire (an answer, its timeout, or the error of its destroyed
  socket) and the teardown. The controller is not assumed to answer.
* `RobotManager`: continuations, and the end of every request a connect, a
  teardown, a poll or a retry waits for. Calls, ticks and stream reports may stop.
* `Operations`: the steps of a call, the jog's timer and a queued release.
* `Subscription`: the routine's requests end, the reconnect timer fires and the
  heartbeat ticks. Whether a probe or a DELETE is answered is left open.
* `MotionControl` (`FairSpec`): continuations, the end of a withdrawal within its
  deadline, the end of the teardown.

## 4. What is proved

TLAPS proves these for every value of the constants that the named assumptions
(`ConstAssumption`, `TimeAssumption`, `CallAssumption`, `Rws1Assumption`,
`SubscriptionAssumption`; of `RobotManager` `NullAssumption`, `NamesAssumption`,
`BoundAssumption`; `OperationsAssumption`) allow. These only say that numbers
are numbers, that bounds are not zero, and that names of different things
differ; `NestingAssumption` of `Operations` is explained there. Each result is the
consequence of an inductive invariant that holds initially and is kept by every
action.

* `Access`. `TypeCorrect` and `TurnIsExclusive` from `TurnInv`: types, plus that
  those in `waiters` wait and are there once, that an operation waits for each of
  its steps on the chain, and how far its holds can be; without
  these a hand-over could give the turn to an operation that has left. From the
  same invariant `TeardownGivesNoTurn` (the waiters are sent away when the
  teardown begins, so a hand-over finds none) and `LostOperationAsksNothing` (a
  step looks at the loss when it starts to run, not when it is queued).
  `CountIsHonoured` and `ReleaseIsLast` from `LockInv`: what is on the wire is
  not counted, a grant on its way stays a grant, and the loop of an all-domains
  request has every lock requested, pending or safe. `ImplementsCountedLock`
  uses both: every step of the manager is a step of `CountedLock` or leaves its
  variables alone. `ImplementsWriteTurn` shows the same of `WriteTurn`, whose
  line is `waiters`: a hand-over takes the first, whoever times out leaves the
  others in their order, and the teardown leaves no line (`NobodyQueues`).
  `NobodyHangs` (`NobodyIsForgotten`) is the converse of the invariant's parts:
  whoever waits for the turn is in line and whoever waits for a hold has its step
  on the chain, whatever times out, fails or ends; and the chain goes on from
  every answer its running step may get.
* `Access`, the holds and the records. `OperationLeavesNothing` from `OwnInv`: a
  counted hold of an operation is one it has taken and not yet released, they
  are taken and released in order, and the places an operation can end at have
  none left. `LossIsRemembered`, where there are no groups, from `FreshInv`: a
  loss hits counted locks only, and no call on the wire is about a counted lock,
  so what the controller granted, or named as this session's, is not in doubt
  when the client acts on it; with groups it is false (`AccessGroupDoubt`).
  `IdleIsTrue`, where there are no groups, and either the holder can be read or
  no answer is lost, from `IdleInv`: a lock that this session has while its
  record says idle is one the call on the wire is about, and the answer may
  still tell (`Settled`); a release is believed only when it took effect
  (`ReleaseTold`). Without the second condition it is false: an unanswered grant
  cannot be told from a refusal.
* `Watchdog`. `WatchdogTypes`, `TimerIsArmed`, `SilenceIsBounded`,
  `BusyIsBounded` from one invariant: a running watchdog has a timer within one
  interval, and the ages of the last answer, of the reset in flight and of the
  timer add up to no more than the bound; a bound on one age alone is not kept
  by the passing of time. `JudgedByOwnReset` (a reset in flight is of the hold
  there is, or was retired with its own: it neither ends nor credits another), `ResetsRunWhileHeld`, `RiskIsReported`
  and `HoldReadsAreFresh` (a hold's read that still counts is of the session
  there is, and that session is open).
* `Rws2Session`. `SessionTypes` (`TypeOK` holds the line: who waits for a slot is
  in the chain exactly once), `LogoutIsLast` (a closed client's /logout is the
  last in line, or the line is empty), `OnlyAGoneSessionIsGivenUp` (every cookie
  in use was issued, and a 401 on its way is of a session that is gone),
  `NoWriteTwice` (a write that may still be sent was not taken),
  `RequestsArePaced` (`PaceOK`: only the head of the chain has read the clock; once
  it was late enough, or the head's timer ran out, nobody stored a time since).
  `NobodyWaitsInACircle`: the calls that wait for a login have one, and it waits
  for a slot or its own answer and never for a login (`WaitOK`).
* `Rws1Session`. `NoWriteTwice`, `StopsGoAhead`, `ReplacementIsReported`,
  `CloseBreaksNothing` from one invariant: the queue holds the unsettled requests
  once each and only its head was sent (`QueueOK`); every create that is still
  ahead of a stop is cut short (`CreatesCut`); a request that is still being
  sent was not carried out (`TakenOK`: every answer that follows a carried-out
  send ends the request); a cookie held before a request is held until the retry
  without it (`HeldOK`); and what was queued since a `close()` is known to it
  (`ClosingOK`).
* `Subscription`. `NothingIsLeft`, `StreamsAreWhole`, `EndIsSilent` from one
  invariant: the routine, the timer and the open socket exclude each other and
  end with the subscription (`ActivityOK`); groups are numbered as they are made
  (`MadeOK`); every group on the controller has somebody who will delete it, or
  an unanswered request to blame (`AccountOK`, which says at each await of the
  routine who that is; `NothingLeft` alone is silent until all is over); and
  what the handle says is about the group it names (`StreamOK`).
  `NeverDeadInSilence` from the same: every step that ends a routine or an open
  stream arms the timer, ends the subscription or reports it. `RoutinesGoForward`
  ranks the awaits of a routine (`Stage`); `FrozenGivesNoLife` looks at every step
  that sets `alive`.
* `RobotManager`. `TypeCorrect`, `NothingIsLeft`, `ConnectionIsWhole` from one
  invariant: the attempts that are not over form a queue in which each waits for
  the one before it and only the first is past the wait (`ChainInv`, an order
  that exists, not one the code keeps); an epoch in anybody's hands is not from
  the future (`EpochInv`); and, as long as no connection overtook a teardown,
  the session's epoch is set exactly while a connection stands that nobody tears
  down (`ConnInv`), and every timer, session, handle and group is that
  connection's or in the hands of somebody who is about to end it (`TimerInv`,
  `SessInv`, `HandleInv`, `RetryInv`, `GroupInv`). The condition is part of both
  properties, because the code does overwrite a connection made during the
  teardown of a failed poll (`RobotManagerPoll`). `LiveMeansSlow` adds that a
  timer has the rate the stream asks for; the attempt to prove it without the
  timer led to `RobotManagerLive` above. `NoCircleOfConnects`: of the attempts
  that are not over the first in the queue of `ChainInv` waits for no other, and
  the teardown or the poll it may wait for is there (`PlacesOK`). That a set of
  attempts has a first, however many there are, is the well-foundedness of the
  naturals, a library theorem about sets that needs no operator parameter.
* `MotionControl`. `TypeCorrect` for every instance; `NothingForgotten` and
  `NothingUntold` where one caller at most sets the allowance and requests are
  served in order (`OneSetter`): with two setters or with overtaking the code
  forgets an allowance (`MotionControlTwo`, `MotionControlOvertaking`). The
  invariant says who waits for each POST on its way (`RoutinePosts`,
  `WithdrawalPosts`, `OneEach`), that the last POST of the queue is the one the
  number names (`LatestInv`), that an allowance that stands or may still be made
  is counted by a field, a routine or the withdrawal that would otherwise clear
  it (`Counted`, `RoutineInv`, `WithdrawalInv`, `FirstPostInv`), and that what is
  left when the teardown is over was told (`TeardownInv`).

* `Operations`. `TypeCorrect`, `NothingStaysOpen` (`CleanEnd`), `WritesAreCovered`
  (`UnderAccess`) and `StartsAfterTheJog` (`StartWithoutMotion`) for every number
  of callers and calls, whatever each of them asks for. The argument has two
  halves. What is open before each instruction of a program is a matter of its
  text, and that every program opens and closes in pairs, that a jump and a
  failure stay inside the blocks they are in, and where its writes are, is
  `ProgramsNest` (`Nesting`): a statement about the tables alone, without a
  constant or a variable, which TLC evaluates to the end at the start of the
  run `Operations` (`NestingAssumption`). The proof takes it from there: the
  turn and the temporary files a caller has are those that are open where its
  operation is, and it counts no more access than that (`BlocksOK`); on
  RobotWare 8 it counts exactly that unless its turn lost it (`AccessOK`, which
  needs that access is only open inside a turn, or a loss could hit a caller
  that nobody tells); a start that found no caller's hold keeps the turn, and
  with it every jog, out (`StartOK`). A table entry that is wrong, a wrapper that
  forgets its `finally` or a start that ends the jog's hold before its turn
  falsifies the assumption, and TLC reports that before it runs anything.
  `CallsGoForward` (jumps go down the program, which is part of `ProgramsNest`,
  and nothing but its own step moves a call) and `NotAllWait` (whoever has the
  turn waits for no turn) are what `CallEnds` rests on beside the fairness.

Only model-checked: the liveness properties, because fairness is beyond the
prover. Where a theorem above states what they rest on (`OperationEnds`,
`WaiterServed`, `Settles`, `StreamSettles`, `FrozenNoticed`, `ConnectEnds`,
`CallEnds`), what is left to TLC is that fair steps which are not blocked for ever
are taken. `OnlyTheseWait` of `Operations` uses `ENABLED` and stays with TLC too,
and so does `AdvertisedMeansSent`, which is about the tables alone and is
evaluated for each of them; as a theorem it would be its own hypothesis.

Some properties are stated by theorems and by no run of the list:
`NobodyIsForgotten` and `NoTurnWhileClosing` of `Access` (the latter follows from
`WriteTurn`), `NeverSilentlyDead`, `RoutineGoesForward` and `FrozenIsSilent` of
`Subscription`, `SomebodyGoesOn` of `Rws2Session`. TLC finds them true on the
instances of the runs as well, when they are added to the configurations.

## 5. What is not modelled

`PROJECT.json` lists every component.

* RMMP (`access/rmmp.ts`): one caller asks, reads in a loop until a deadline or
  an abort, and gives back at a disconnect; there is no second actor in the
  client, and the operator's side is the controller's. Its calls are programs of
  `Operations`.
* `MultiRobotManager`: a map of managers, which share nothing; its one await is
  described in section 1.
* Discovery: probes of the network and of the process list, nothing kept
  between two sweeps, nothing written to a controller.
* Refusal classification, parsers, small helpers: text, no state.
* Inside the modelled parts: wording, logging, listeners, and what a request or
  an answer says beyond the class that decides. `Rws2Session` leaves out requests
  outside the queue (subscriptions), the with-id mastership tokens and the
  teardown's own requests before /logout, which are sent as the operation's
  are; `connect()` and `disconnect()` are awaited by their caller. `RobotManager`
  leaves out what a poll reads and merges, the event log and the signal table.
  `MotionControl` leaves out a registration as another station, the mode-change
  and take-back triggers (off in this release) and calls before the first
  `connect()`. The RWS 1.0 client's own connect and disconnect call the session
  and the subscriptions in turn and are not actions of their own.
* Smaller simplifications. `Access` ends the session in one step (`Teardown`):
  the drain of the chain, the releases, `/logout` and `sessionEnded` have awaits
  between them (`rws2/core.ts:1190`), so a request still on the wire when the
  drain gives up, and granted behind the release, is not a state; `/logout` ends
  that hold too. `Rws1Session` has one cookie, `-http-session-`; to the code
  `ABBCX` alone is a held session as well (`HttpSession.ts:624`). `Subscription`
  has no create that is answered 201 without a link to its group
  (`rws2/core.ts:2818`, `:2889`), no socket that is dead while HTTP is still
  answered (the code claims nothing for it: its probe is an HTTP read), and no consumer's event
  handler: `SilentAfterEnd` is about `onLost` and `onRestored`, and the message
  handler of RWS 2.0 does not look at `closed` (`rws2/core.ts:3147`).
* `RobotManager` is checked with two connects, one of which supersedes the
  other. For a third, and any number, there is the theorem `NoCircleOfConnects`,
  and fairness is left.

## 6. Plan

1. `MotionControl` with a second station, and composed with `Rws2Session`
   instead of its own summary of the session.
2. `MultiRobotManager`, once the intended outcome of its two interleavings is
   decided.
