------------------------------ MODULE Watchdog ------------------------------
(***************************************************************************)
(* MastershipWatchdog: the timed resets of RobotWare 7's edit-mastership   *)
(* watchdog while this session holds `edit`, and the three ways an answer  *)
(* is read: accepted, busy, refused or not got through.                    *)
(*                                                                         *)
(* Time passes in ticks.  A time stamp of the code is the age it has now,  *)
(* so the ages grow together; a timer fires in the tick it is due (the     *)
(* event loop is not blocked for a whole tick).  The hold itself is the    *)
(* AccessManager's: here it is only counted or not.                        *)
(***************************************************************************)
EXTENDS Integers

CONSTANTS
    Timeouts,       \* the HeartBeat Timeouts a controller may have configured
    DefaultTimeout, \* DEFAULT_TIMEOUT_MS
    LongestTimeout, \* no timeout is longer
    MinInterval, MaxInterval,
    BusyRetryMin,   \* BUSY_RETRY_MIN_MS
    BusyLimit,      \* BUSY_LIMIT_MS
    RequestLimit    \* a reset that is not answered fails after this time

(* The durations are whole ticks, and the shortest interval is not zero. *)
ASSUME TimeAssumption ==
    /\ Timeouts \subseteq Nat \ {0} /\ DefaultTimeout \in Nat \ {0}
    /\ LongestTimeout \in Nat
    /\ \A t \in Timeouts \cup {DefaultTimeout} : t <= LongestTimeout
    /\ MinInterval \in Nat \ {0} /\ MaxInterval \in Nat /\ MinInterval <= MaxInterval
    /\ BusyRetryMin \in Nat /\ BusyLimit \in Nat /\ RequestLimit \in Nat

VARIABLES
    session,     \* "open", "closing" (teardown begun), "closed" (or not connected yet)
    service,     \* the mastership service exists (FALSE after a 410)
    held,        \* access.count('edit') > 0
    running,
    timer,       \* time until the timer fires
    sinceSent,   \* age of anchor
    sinceOk,     \* age of lastOkAt
    sinceBusy,   \* age of lastBusyAt
    busyFor,     \* age of busySince
    backoff,     \* the retry delay the next busy answer gets
    atRisk,
    kickInFlight,
    flight,      \* age of the reset on the wire that belongs to this epoch
    retired,     \* a reset of an earlier epoch is on the wire
    config,      \* the Timeout read
    configPending,
    reads,       \* configuration reads begun
    sent,        \* history: a reset was sent for this hold
    foreign      \* history: config was read for an earlier session

None == -1       \* null: no timer, no stamp, no reset, configuration not read
Unknown == 0     \* the configuration was read and has no Timeout

busyVars == <<sinceBusy, busyFor, backoff>>
ages == <<sinceSent, sinceOk>>
kickVars == <<kickInFlight, flight, retired>>
configVars == <<config, configPending, reads, foreign>>
outer == <<session, service>>
vars == <<outer, held, running, timer, ages, busyVars, atRisk, kickVars, configVars, sent>>

(* `due` waits for its timer, `hold` is the read of the first hold, and    *)
(* `session` the one connect() or a re-issued session makes.               *)
Read == [by : {"due", "hold", "session"},
         current : BOOLEAN,   \* its epoch is configEpoch
         mine : BOOLEAN]      \* it is of the session there is now

Least(a, b) == IF a <= b THEN a ELSE b
Greatest(a, b) == IF a >= b THEN a ELSE b

(* timeoutMs() and intervalMs(). *)
Chosen(c) == IF c > 0 THEN c ELSE DefaultTimeout
timeoutMs == Chosen(config)
IntervalOf(t) == Least(MaxInterval, Greatest(MinInterval, t \div 2))
intervalMs == IntervalOf(timeoutMs)

applies == session # "closed" /\ service
holding == running /\ held /\ applies

(* The time since the controller last answered a reset of this hold. *)
silent == IF sinceBusy = None THEN sinceOk ELSE Least(sinceOk, sinceBusy)

ClearBusy == sinceBusy' = None /\ busyFor' = None /\ backoff' = BusyRetryMin

(* Mutant: the epoch is not bumped, a late answer still counts. *)
KeepEpoch == UNCHANGED <<flight, retired>>
Retire == flight' = None /\ retired' = (retired \/ flight # None)

(* stop(): a reset on the wire is retired, kickInFlight stays as it is. *)
Halt == running' = FALSE /\ atRisk' = FALSE /\ timer' = None /\ ClearBusy
Stopped == Halt /\ Retire /\ UNCHANGED <<kickInFlight, ages>>

-----------------------------------------------------------------------------
(* The hold.                                                               *)

(* The `acquired` event of the first hold on edit: start(). *)
Acquire ==
    /\ ~held
    /\ held' = TRUE
    /\ IF running \/ ~applies
         THEN UNCHANGED <<running, timer, ages, busyVars, atRisk, kickInFlight,
                          configPending, reads, sent>>
         ELSE /\ running' = TRUE /\ atRisk' = FALSE
              /\ kickInFlight' = FALSE /\ sent' = FALSE
              /\ sinceSent' = 0 /\ sinceOk' = 0 /\ ClearBusy
              /\ timer' = intervalMs
              /\ IF config = None /\ ~configPending
                   THEN /\ configPending' = TRUE
                        /\ reads' = reads \cup {[by |-> "due", current |-> TRUE, mine |-> TRUE]}
                   ELSE UNCHANGED <<configPending, reads>>
    /\ UNCHANGED <<outer, flight, retired, config, foreign>>

(* The last hold on edit ends, released or lost for another reason. *)
HoldEnds ==
    /\ held /\ held' = FALSE
    /\ Stopped
    /\ UNCHANGED <<outer, configVars, sent>>

-----------------------------------------------------------------------------
(* Resets.                                                                 *)

ResetDue == ~kickInFlight

(* tick(). *)
TimerFires ==
    /\ running /\ timer = 0
    /\ IF ~holding
         THEN Stopped /\ UNCHANGED sent
         ELSE /\ sinceSent' = 0
              /\ timer' = intervalMs
              /\ IF ResetDue
                   THEN kickInFlight' = TRUE /\ flight' = 0 /\ sent' = TRUE
                   ELSE UNCHANGED <<kickInFlight, flight, sent>>
              /\ UNCHANGED <<running, sinceOk, busyVars, atRisk, retired>>
    /\ UNCHANGED <<outer, held, configVars>>

(* An answer of the reset of this epoch.  Once the teardown has begun a    *)
(* reset fails before it is sent: its timer is not in an operation's turn. *)
Settles == flight # None /\ kickInFlight' = FALSE /\ flight' = None /\ UNCHANGED retired
Answers == Settles /\ session = "open"

(* lose(): recordLoss ends every hold on edit, whose event stops the       *)
(* resets.  The reset that was judged is no longer on the wire.            *)
Lose == held' = FALSE /\ Halt

(* accepted(): a reset taken later than the Timeout after the last answer  *)
(* is a loss all the same.                                                 *)
Accepted ==
    /\ Answers /\ service
    /\ sinceOk' = 0
    /\ \/ holding /\ silent > timeoutMs /\ Lose
       \/ /\ ~holding \/ silent <= timeoutMs
          /\ ClearBusy
          /\ atRisk' = (atRisk /\ ~holding)
          /\ UNCHANGED <<held, running, timer>>
    /\ UNCHANGED <<outer, sinceSent, configVars, sent>>

(* refused() for an HTTP error status that is not "busy". *)
Refused ==
    /\ Answers
    /\ IF holding THEN Lose ELSE UNCHANGED <<held, running, timer, busyVars, atRisk>>
    /\ UNCHANGED <<outer, ages, configVars, sent>>

(* A 410: the service is gone, and the watchdog no longer applies. *)
Gone ==
    /\ Answers
    /\ service' = FALSE
    /\ UNCHANGED <<session, held, running, timer, ages, busyVars, atRisk, configVars, sent>>

(* Mutant: a run of failed resets is never taken as silence. *)
NeverSilent == FALSE
Silent == silent > timeoutMs

(* refused() for a reset that did not get through. *)
NotThrough ==
    /\ Settles
    /\ \/ holding /\ Silent /\ Lose
       \/ /\ ~holding \/ ~Silent
          /\ atRisk' = (atRisk \/ holding)
          /\ UNCHANGED <<held, running, timer, busyVars>>
    /\ UNCHANGED <<outer, ages, configVars, sent>>

(* Mutant: busy answers keep the hold for ever. *)
NeverTooLong == FALSE
BusyRun == IF busyFor = None THEN 0 ELSE busyFor
BusyTooLong == BusyRun > BusyLimit

Overdue == atRisk \/ sinceOk > timeoutMs

(* busy(): an answer, so the hold stays, and the reset is sent again after *)
(* the backoff.                                                            *)
Busy ==
    /\ Answers /\ service
    /\ \/ holding /\ BusyTooLong /\ Lose
       \/ /\ holding /\ ~BusyTooLong
          /\ busyFor' = BusyRun /\ sinceBusy' = 0
          /\ backoff' = Least(MaxInterval, 2 * backoff)
          /\ atRisk' = Overdue
          /\ timer' = Least(intervalMs, backoff)
          /\ UNCHANGED <<held, running>>
       \/ ~holding /\ UNCHANGED <<held, running, timer, busyVars, atRisk>>
    /\ UNCHANGED <<outer, ages, configVars, sent>>

(* The answer of a reset sent for a hold that has ended: its epoch has     *)
(* moved on, nothing happens.                                              *)
RetiredAnswer ==
    /\ retired /\ retired' = FALSE
    /\ UNCHANGED <<outer, held, running, timer, ages, busyVars, atRisk,
                   kickInFlight, flight, configVars, sent>>

-----------------------------------------------------------------------------
(* The HeartBeat configuration.                                            *)

(* The time left of the interval that the configuration c gives. *)
Unclamped(c) == IntervalOf(Chosen(c)) - sinceSent  \* mutant: a time in the past
Remaining(c) == Greatest(0, IntervalOf(Chosen(c)) - sinceSent)

(* adopt(): a shorter interval counts from the last reset sent. *)
Adopt(r, c) ==
    /\ config' = c /\ configPending' = FALSE /\ foreign' = ~r.mine
    /\ timer' = IF running /\ timer # None THEN Remaining(c) ELSE timer

OfEpoch(r) == r.current

(* readConfigOnce(): the timer, then the read, which fails at once when    *)
(* the teardown has begun.                                                 *)
ReadDue(r) ==
    /\ r \in reads /\ r.by = "due"
    /\ \/ /\ r.current /\ applies /\ session = "open"
          /\ reads' = (reads \ {r}) \cup {[r EXCEPT !.by = "hold", !.mine = TRUE]}
          /\ UNCHANGED <<timer, config, configPending, foreign>>
       \/ /\ r.current /\ applies /\ session = "closing"
          /\ reads' = reads \ {r}
          /\ Adopt([r EXCEPT !.mine = TRUE], Unknown)
       \/ /\ ~(r.current /\ applies)
          /\ reads' = reads \ {r}
          /\ configPending' = (configPending /\ ~r.current)
          /\ UNCHANGED <<timer, config, foreign>>
    /\ UNCHANGED <<outer, held, running, ages, busyVars, atRisk, kickVars, sent>>

ReadAnswered(r, c) ==
    /\ r \in reads /\ r.by = "hold"
    /\ reads' = reads \ {r}
    /\ IF OfEpoch(r) THEN Adopt(r, c)
                     ELSE UNCHANGED <<timer, config, configPending, foreign>>
    /\ UNCHANGED <<outer, held, running, ages, busyVars, atRisk, kickVars, sent>>

(* adoptConfig(), of the read connect() or a re-issued session made. *)
SessionReadAnswered(r, c) ==
    /\ r \in reads /\ r.by = "session"
    /\ reads' = {[q EXCEPT !.current = FALSE] : q \in reads \ {r}}
    /\ Adopt(r, c)
    /\ UNCHANGED <<outer, held, running, ages, busyVars, atRisk, kickVars, sent>>

(* sessionEnded(): stop, and forget the configuration. *)
Forget == config' = None /\ configPending' = FALSE /\ foreign' = FALSE
Outdated(mine) == {[q EXCEPT !.current = FALSE, !.mine = @ /\ mine] : q \in reads}
NewRead == {[by |-> "session", current |-> TRUE, mine |-> TRUE]}

-----------------------------------------------------------------------------
(* The session.                                                            *)

(* disconnect(): the watchdog stops before the write in progress has       *)
(* finished.                                                               *)
TeardownBegins ==
    /\ session = "open" /\ session' = "closing"
    /\ Stopped /\ Forget /\ reads' = Outdated(TRUE)
    /\ UNCHANGED <<service, held, sent>>

(* The end of the teardown: a hold still counted ends with the session. *)
Closed ==
    /\ session = "closing" /\ session' = "closed"
    /\ held' = FALSE
    /\ IF held THEN Stopped
               ELSE UNCHANGED <<running, atRisk, timer, busyVars, kickVars, ages>>
    /\ reads' = {[q EXCEPT !.mine = FALSE] : q \in reads}
    /\ UNCHANGED <<service, config, configPending, foreign, sent>>

(* connect(): the version names the service again. *)
Connect ==
    /\ session = "closed" /\ session' = "open" /\ service' = TRUE
    /\ reads' = reads \cup NewRead
    /\ UNCHANGED <<held, running, timer, ages, busyVars, atRisk, kickVars,
                   config, configPending, foreign, sent>>

(* adoptSessionCookie() of a new session: a hold still counted is lost. *)
Reissued ==
    /\ session # "closed"
    /\ held' = FALSE
    /\ Stopped /\ Forget /\ reads' = Outdated(FALSE) \cup NewRead
    /\ UNCHANGED <<outer, sent>>

-----------------------------------------------------------------------------
(* One tick.  The ages matter while the resets run; a timer that is due    *)
(* fires first, and a reset fails when its time is up.                     *)
Older(age) == IF age = None THEN None ELSE age + 1
Elapse ==
    /\ running /\ timer # 0
    /\ flight < RequestLimit /\ (flight # None => session = "open")
    /\ timer' = timer - 1
    /\ sinceSent' = sinceSent + 1 /\ sinceOk' = sinceOk + 1
    /\ sinceBusy' = Older(sinceBusy) /\ busyFor' = Older(busyFor)
    /\ flight' = Older(flight)
    /\ UNCHANGED <<outer, held, running, backoff, atRisk, kickInFlight, retired,
                   configVars, sent>>

Init ==
    /\ session = "closed" /\ service = TRUE /\ held = FALSE
    /\ running = FALSE /\ timer = None /\ atRisk = FALSE
    /\ sinceSent = 0 /\ sinceOk = 0
    /\ sinceBusy = None /\ busyFor = None /\ backoff = BusyRetryMin
    /\ kickInFlight = FALSE /\ flight = None /\ retired = FALSE
    /\ config = None /\ configPending = FALSE /\ reads = {}
    /\ sent = FALSE /\ foreign = FALSE

Reset == TimerFires \/ Accepted \/ Refused \/ Gone \/ NotThrough \/ Busy \/ RetiredAnswer
Configure ==
    \E r \in reads : ReadDue(r) \/ \E c \in Timeouts \cup {Unknown} :
                                      ReadAnswered(r, c) \/ SessionReadAnswered(r, c)
Session == TeardownBegins \/ Closed \/ Connect \/ Reissued

Next == Acquire \/ HoldEnds \/ Reset \/ Configure \/ Session \/ Elapse

Spec == Init /\ [][Next]_vars

-----------------------------------------------------------------------------
(* Properties.                                                             *)

Stamp == Nat \cup {None}

FlagType ==
    /\ service \in BOOLEAN /\ held \in BOOLEAN /\ running \in BOOLEAN
    /\ atRisk \in BOOLEAN /\ kickInFlight \in BOOLEAN /\ retired \in BOOLEAN
    /\ configPending \in BOOLEAN /\ sent \in BOOLEAN /\ foreign \in BOOLEAN
ClockType ==
    /\ session \in {"open", "closing", "closed"}
    /\ timer \in Stamp /\ sinceBusy \in Stamp /\ busyFor \in Stamp /\ flight \in Stamp
    /\ sinceSent \in Nat /\ sinceOk \in Nat /\ backoff \in Nat
    /\ config \in Timeouts \cup {None, Unknown}

(* Type invariant: the flags, the stamps and the reads have their types. *)
TypeOK == FlagType /\ ClockType /\ reads \subseteq Read

(* The longest silence a hold can outlive: a reset judged within the       *)
(* Timeout, the wait for the next one, and that one failing.               *)
Patience == LongestTimeout + MaxInterval + RequestLimit

(* A hold is not relied on for longer than that when the controller has    *)
(* stopped answering, whatever mix of busy answers, failures, changed      *)
(* configurations and late answers came before.                            *)
SilenceBounded == holding => silent <= Patience

(* Busy answers do not keep a hold alive for ever: the run of them a hold  *)
(* is kept on ends within BusyLimit and one more silence.                  *)
BusyBounded == holding => busyFor <= BusyLimit + Patience

(* The resets never stall: while they run a timer is set, no further away  *)
(* than one interval.                                                      *)
NeverStalls == running => timer \in 0..MaxInterval

(* The answer to a reset counts for the hold: as a sign of life, or as     *)
(* time bought by a busy controller, or as the end of the risk.            *)
Credited ==
    \/ sinceOk' < sinceOk
    \/ sinceBusy' = 0 /\ sinceBusy # 0
    \/ atRisk /\ ~atRisk'

(* A reset belongs to the hold it was sent for: its answer neither ends    *)
(* nor credits a hold for which the watchdog has not sent one, though the  *)
(* answer to an earlier hold's reset may still come.                       *)
JudgedByItsOwnReset ==
    [][held /\ flight # None /\ flight' = None /\ (~held' \/ Credited) => sent]_vars

(* The resets of a hold stop only with it, with its session, or when the   *)
(* controller turns out to have no watchdog.                               *)
RunsWhileHeld ==
    [][running /\ ~running' => ~held' \/ ~service \/ session' # session]_vars

(* A hold that outlives the Timeout on busy answers has been reported at   *)
(* risk by the last of them.                                               *)
RiskReported ==
    holding /\ sinceBusy # None /\ sinceOk - sinceBusy > LongestTimeout => atRisk

(* The read of a first hold is dropped once its session has ended: a       *)
(* configuration of an earlier session can only come from a read that      *)
(* connect() or a re-issued session made.                                  *)
HoldReadFresh ==
    [][foreign' /\ ~foreign => \E r \in reads : r.by = "session" /\ ~r.mine]_vars

(* No configuration read for an earlier session is in force. *)
ConfigOfThisSession == ~foreign

(* At most one reset is on the wire at a time. *)
OneOnTheWire == ~(retired /\ flight # None)

============================================================================
