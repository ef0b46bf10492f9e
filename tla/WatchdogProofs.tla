--------------------------- MODULE WatchdogProofs ---------------------------
(***************************************************************************)
(* The watchdog's time bounds, for every choice of the durations: how long *)
(* a hold may outlive the controller's silence, and how long busy answers  *)
(* may keep it; then what an answer is judged by, and the reports and      *)
(* reads around a hold.                                                    *)
(***************************************************************************)
EXTENDS Watchdog, TLAPS

(* The resets run only for a counted hold of a session that is not closed, *)
(* and the wire has a reset of this epoch exactly while kickInFlight.      *)
RunOK ==
    /\ running => held /\ session # "closed" /\ timer \in 0..MaxInterval
    /\ running => (kickInFlight <=> flight # None)
    /\ ~running => timer = None /\ flight = None

(* A reset on the wire was sent no later than one interval after the last  *)
(* judgement; without one, the next is due by then, also when a changed    *)
(* configuration moves the timer.                                          *)
SilenceOK ==
    holding =>
        /\ flight <= RequestLimit
        /\ flight = None => /\ silent + timer <= LongestTimeout + MaxInterval
                            /\ silent <= LongestTimeout + sinceSent
        /\ flight # None => silent <= LongestTimeout + MaxInterval + flight

(* The last busy answer came within BusyLimit of the first of its run, and *)
(* after the last accepted reset.                                          *)
BusyOK ==
    /\ sinceBusy = None <=> busyFor = None
    /\ sinceBusy # None => busyFor - sinceBusy <= BusyLimit /\ sinceBusy <= sinceOk

Inv == TypeOK /\ RunOK /\ SilenceOK /\ BusyOK

-----------------------------------------------------------------------------
LEMMA Interval ==
    ASSUME NEW t \in Nat
    PROVE  IntervalOf(t) \in 1..MaxInterval
  <1>1. t \div 2 \in Int
    OBVIOUS
  <1>2. Greatest(MinInterval, t \div 2) \in Int /\ Greatest(MinInterval, t \div 2) >= MinInterval
    BY <1>1, TimeAssumption DEF Greatest
  <1> QED
    BY <1>2, TimeAssumption DEF IntervalOf, Least

LEMMA ChosenTimeout ==
    ASSUME NEW c \in Timeouts \cup {None, Unknown}
    PROVE  Chosen(c) \in Nat /\ Chosen(c) <= LongestTimeout
  BY TimeAssumption DEF Chosen, None, Unknown

LEMMA Together ==
    ASSUME NEW a \in Int, NEW b \in Int, NEW c \in Int, NEW m \in Int, NEW n \in Int,
           a <= m + c, b + c <= n
    PROVE  a + b <= m + n
  OBVIOUS

LEMMA InitInv == Init => Inv
  <1> SUFFICES ASSUME Init PROVE Inv
    OBVIOUS
  <1>1. FlagType
    BY Zenon DEF Init, FlagType
  <1>2. ClockType /\ reads \subseteq Read
    BY TimeAssumption DEF Init, ClockType, Stamp, None, Unknown
  <1>3. RunOK
    BY DEF Init, RunOK
  <1>4. SilenceOK
    BY DEF Init, SilenceOK, holding
  <1>5. BusyOK
    BY DEF Init, BusyOK
  <1> QED
    BY <1>1, <1>2, <1>3, <1>4, <1>5 DEF Inv, TypeOK

(* An interval or a timeout of a configuration of the right type. *)
LEMMA Durations ==
    ASSUME TypeOK
    PROVE  /\ timeoutMs \in Nat /\ timeoutMs <= LongestTimeout
           /\ intervalMs \in 1..MaxInterval
           /\ \A c \in Timeouts \cup {Unknown} : IntervalOf(Chosen(c)) \in 1..MaxInterval
  <1>1. timeoutMs \in Nat /\ timeoutMs <= LongestTimeout
    BY ChosenTimeout DEF TypeOK, ClockType, timeoutMs
  <1>2. intervalMs \in 1..MaxInterval
    BY <1>1, Interval DEF intervalMs
  <1>3. \A c \in Timeouts \cup {Unknown} : IntervalOf(Chosen(c)) \in 1..MaxInterval
    BY ChosenTimeout, Interval
  <1> QED
    BY <1>1, <1>2, <1>3

LEMMA FlagStep == TypeOK /\ [Next]_vars => FlagType'
  <1> SUFFICES ASSUME TypeOK, [Next]_vars PROVE FlagType'
    OBVIOUS
  <1>0. FlagType
    BY DEF TypeOK
  <1>1. CASE Acquire
    BY <1>0, <1>1, Zenon DEF Acquire, ClearBusy, FlagType,
       outer, ages, busyVars, kickVars, configVars
  <1>2. CASE HoldEnds
    BY <1>0, <1>2, Zenon DEF HoldEnds, Stopped, Halt, Retire, ClearBusy, FlagType,
       outer, ages, busyVars, kickVars, configVars
  <1>3. CASE TimerFires
    BY <1>0, <1>3, Zenon DEF TimerFires, Stopped, Halt, Retire, ClearBusy, FlagType,
       outer, ages, busyVars, kickVars, configVars
  <1>4. CASE Accepted
    BY <1>0, <1>4, Zenon DEF Accepted, Answers, Settles, Lose, Halt, ClearBusy, FlagType,
       outer, ages, busyVars, kickVars, configVars
  <1>5. CASE Refused
    BY <1>0, <1>5, Zenon DEF Refused, Answers, Settles, Lose, Halt, ClearBusy, FlagType,
       outer, ages, busyVars, kickVars, configVars
  <1>6. CASE Gone
    BY <1>0, <1>6, Zenon DEF Gone, Answers, Settles, FlagType,
       outer, ages, busyVars, kickVars, configVars
  <1>7. CASE NotThrough
    BY <1>0, <1>7, Zenon DEF NotThrough, Settles, Lose, Halt, ClearBusy, FlagType,
       outer, ages, busyVars, kickVars, configVars
  <1>8. CASE Busy
    BY <1>0, <1>8, Zenon DEF Busy, Answers, Settles, Lose, Overdue, Halt, ClearBusy, FlagType,
       outer, ages, busyVars, kickVars, configVars
  <1>9. CASE RetiredAnswer
    BY <1>0, <1>9, Zenon DEF RetiredAnswer, FlagType,
       outer, ages, busyVars, kickVars, configVars
  <1>10. CASE TeardownBegins
    BY <1>0, <1>10, Zenon DEF TeardownBegins, Stopped, Halt, Retire, ClearBusy, Forget, FlagType,
       outer, ages, busyVars, kickVars, configVars
  <1>11. CASE Closed
    BY <1>0, <1>11, Zenon DEF Closed, Stopped, Halt, Retire, ClearBusy, FlagType,
       outer, ages, busyVars, kickVars, configVars
  <1>12. CASE Connect
    BY <1>0, <1>12, Zenon DEF Connect, FlagType,
       outer, ages, busyVars, kickVars, configVars
  <1>13. CASE Reissued
    BY <1>0, <1>13, Zenon DEF Reissued, Stopped, Halt, Retire, ClearBusy, Forget, FlagType,
       outer, ages, busyVars, kickVars, configVars
  <1>14. CASE Elapse
    BY <1>0, <1>14, Zenon DEF Elapse, Older, FlagType,
       outer, ages, busyVars, kickVars, configVars
  <1>20. CASE Configure
    <2>1. PICK r \in reads : \/ ReadDue(r)
                             \/ \E c \in Timeouts \cup {Unknown} :
                                   ReadAnswered(r, c) \/ SessionReadAnswered(r, c)
      BY <1>20 DEF Configure
    <2>2. ASSUME NEW q, NEW c, Adopt(q, c) PROVE foreign' \in BOOLEAN /\ configPending' \in BOOLEAN
      BY <2>2, Zenon DEF Adopt
    <2>3. CASE ReadDue(r)
      BY <1>0, <2>2, <2>3, Zenon DEF ReadDue, FlagType, outer, ages, busyVars, kickVars
    <2>4. ASSUME NEW c, ReadAnswered(r, c) PROVE FlagType'
      BY <1>0, <2>2, <2>4, Zenon DEF ReadAnswered, FlagType, outer, ages, busyVars, kickVars
    <2>5. ASSUME NEW c, SessionReadAnswered(r, c) PROVE FlagType'
      BY <1>0, <2>2, <2>5, Zenon DEF SessionReadAnswered, FlagType, outer, ages, busyVars, kickVars
    <2> QED
      BY <2>1, <2>3, <2>4, <2>5
  <1>21. CASE UNCHANGED vars
    BY <1>0, <1>21, Zenon DEF vars, FlagType, outer, ages, busyVars, kickVars, configVars
  <1> QED
    BY <1>1, <1>2, <1>3, <1>4, <1>5, <1>6, <1>7, <1>8, <1>9, <1>10, <1>11, <1>12, <1>13, <1>14, <1>20,
       <1>21 DEF Next, Reset, Session

LEMMA ClockStep == TypeOK /\ RunOK /\ [Next]_vars => ClockType'
  <1> SUFFICES ASSUME TypeOK, RunOK, [Next]_vars PROVE ClockType'
    OBVIOUS
  <1> USE TimeAssumption DEF None, Unknown
  <1>0. ClockType
    BY DEF TypeOK
  <1>1. CASE Acquire
    BY <1>0, <1>1, Durations DEF Acquire, ClearBusy, ClockType, Stamp,
       Retire, outer, ages, busyVars, kickVars, configVars
  <1>2. CASE HoldEnds
    BY <1>0, <1>2 DEF HoldEnds, Stopped, Halt, ClearBusy, ClockType, Stamp, Retire,
       outer, ages, busyVars, kickVars, configVars
  <1>3. CASE TimerFires
    <2>1. CASE ~holding
      BY <1>0, <1>3, <2>1 DEF TimerFires, Stopped, Halt, ClearBusy, ClockType, Stamp,
         Retire, outer, ages, busyVars, kickVars, configVars
    <2>2. CASE holding
      BY <1>0, <1>3, <2>2, Durations DEF TimerFires, ClockType, Stamp,
         outer, busyVars, configVars
    <2> QED
      BY <2>1, <2>2
  <1>4. CASE Accepted
    BY <1>0, <1>4 DEF Accepted, Answers, Settles, Lose, Halt, ClearBusy, ClockType, Stamp, Retire,
       outer, ages, busyVars, kickVars, configVars
  <1>5. CASE Refused
    BY <1>0, <1>5 DEF Refused, Answers, Settles, Lose, Halt, ClearBusy, ClockType, Stamp, Retire,
       outer, ages, busyVars, kickVars, configVars
  <1>6. CASE Gone
    BY <1>0, <1>6 DEF Gone, Answers, Settles, ClockType, Stamp, Retire,
       outer, ages, busyVars, kickVars, configVars
  <1>7. CASE NotThrough
    BY <1>0, <1>7 DEF NotThrough, Settles, Lose, Halt, ClearBusy, ClockType, Stamp, Retire,
       outer, ages, busyVars, kickVars, configVars
  <1>8. CASE Busy
    <2>1. Least(MaxInterval, 2 * backoff) \in Nat
      BY <1>0 DEF ClockType, Least
    <2>2. Least(intervalMs, backoff) \in Nat
      BY <1>0, Durations DEF ClockType, Least
    <2>3. BusyRun \in Nat
      BY <1>0 DEF ClockType, Stamp, BusyRun
    <2> QED
      BY <1>0, <1>8, <2>1, <2>2, <2>3 DEF Busy, Answers, Settles, Lose, Halt, ClearBusy, ClockType, Stamp,
         outer, ages, busyVars, kickVars, configVars
  <1>9. CASE RetiredAnswer
    BY <1>0, <1>9 DEF RetiredAnswer, ClockType, Stamp, Retire,
       outer, ages, busyVars, kickVars, configVars
  <1>10. CASE TeardownBegins
    BY <1>0, <1>10 DEF TeardownBegins, Stopped, Halt, ClearBusy, Forget, ClockType, Stamp, Retire,
       outer, ages, busyVars, kickVars, configVars
  <1>11. CASE Closed
    BY <1>0, <1>11 DEF Closed, Stopped, Halt, ClearBusy, ClockType, Stamp, Retire,
       outer, ages, busyVars, kickVars, configVars
  <1>12. CASE Connect
    BY <1>0, <1>12 DEF Connect, ClockType, Stamp, Retire,
       outer, ages, busyVars, kickVars, configVars
  <1>13. CASE Reissued
    BY <1>0, <1>13 DEF Reissued, Stopped, Halt, ClearBusy, Forget, ClockType, Stamp, Retire,
       outer, ages, busyVars, kickVars, configVars
  <1>14. CASE Elapse
    BY <1>0, <1>14 DEF Elapse, Older, RunOK, ClockType, Stamp,
       outer, ages, busyVars, kickVars, configVars
  <1>20. CASE Configure
    <2>1. \A c \in Timeouts \cup {Unknown} : Remaining(c) \in Nat
      BY <1>0, Durations DEF ClockType, Remaining, Greatest
    <2>2. PICK r \in reads : \/ ReadDue(r)
                             \/ \E c \in Timeouts \cup {Unknown} :
                                   ReadAnswered(r, c) \/ SessionReadAnswered(r, c)
      BY <1>20 DEF Configure
    <2>3. ASSUME NEW q, NEW c \in Timeouts \cup {Unknown}, Adopt(q, c)
          PROVE  timer' \in Stamp /\ config' \in Timeouts \cup {None, Unknown}
      BY <1>0, <2>1, <2>3 DEF Adopt, ClockType, Stamp
    <2>4. CASE ReadDue(r)
      BY <1>0, <2>3, <2>4 DEF ReadDue, ClockType, Stamp, outer, ages, busyVars, kickVars
    <2>5. ASSUME NEW c \in Timeouts \cup {Unknown}, ReadAnswered(r, c) PROVE ClockType'
      BY <1>0, <2>3, <2>5 DEF ReadAnswered, ClockType, Stamp, outer, ages, busyVars, kickVars
    <2>6. ASSUME NEW c \in Timeouts \cup {Unknown}, SessionReadAnswered(r, c) PROVE ClockType'
      BY <1>0, <2>3, <2>6 DEF SessionReadAnswered, ClockType, Stamp, outer, ages, busyVars, kickVars
    <2> QED
      BY <2>2, <2>4, <2>5, <2>6
  <1>21. CASE UNCHANGED vars
    BY <1>0, <1>21 DEF vars, ClockType, outer, ages, busyVars, kickVars, configVars
  <1> QED
    BY <1>1, <1>2, <1>3, <1>4, <1>5, <1>6, <1>7, <1>8, <1>9, <1>10, <1>11, <1>12, <1>13, <1>14, <1>20,
       <1>21 DEF Next, Reset, Session

LEMMA ReadsStep == TypeOK /\ [Next]_vars => (reads \subseteq Read)'
  <1> SUFFICES ASSUME TypeOK, [Next]_vars PROVE reads' \subseteq Read
    OBVIOUS
  <1>0. reads \subseteq Read
    BY DEF TypeOK
  <1>1. /\ NewRead \subseteq Read
        /\ \A b \in BOOLEAN : Outdated(b) \subseteq Read
        /\ {[q EXCEPT !.mine = FALSE] : q \in reads} \subseteq Read
        /\ [by |-> "due", current |-> TRUE, mine |-> TRUE] \in Read
    <2>1. \A q \in Read, b, m \in BOOLEAN : [q EXCEPT !.current = FALSE, !.mine = q.mine /\ m] \in Read
      BY Zenon DEF Read
    <2>2. \A b \in BOOLEAN : Outdated(b) \subseteq Read
      BY <1>0, <2>1, Zenon DEF Outdated
    <2>3. {[q EXCEPT !.mine = FALSE] : q \in reads} \subseteq Read
      BY <1>0 DEF Read
    <2> QED
      BY <2>2, <2>3 DEF Read, NewRead
  <1>2. CASE Acquire
    BY <1>0, <1>1, <1>2 DEF Acquire
  <1>3. CASE Configure
    <2>1. PICK r \in reads : \/ ReadDue(r)
                             \/ \E c \in Timeouts \cup {Unknown} :
                                   ReadAnswered(r, c) \/ SessionReadAnswered(r, c)
      BY <1>3 DEF Configure
    <2>2. [r EXCEPT !.by = "hold", !.mine = TRUE] \in Read
      BY <1>0 DEF Read
    <2>3. {[q EXCEPT !.current = FALSE] : q \in reads \ {r}} \subseteq Read
      BY <1>0 DEF Read
    <2> QED
      BY <1>0, <2>1, <2>2, <2>3 DEF ReadDue, ReadAnswered, SessionReadAnswered
  <1>4. CASE Session
    BY <1>0, <1>1, <1>4 DEF Session, TeardownBegins, Closed, Connect, Reissued
  <1>5. CASE HoldEnds \/ Reset \/ Elapse \/ UNCHANGED vars
    BY <1>0, <1>5 DEF HoldEnds, Reset, TimerFires, Accepted, Refused, Gone, NotThrough, Busy,
       RetiredAnswer, Elapse, vars, configVars
  <1> QED
    BY <1>2, <1>3, <1>4, <1>5 DEF Next

LEMMA RunStep == Inv /\ [Next]_vars => RunOK'
  <1> SUFFICES ASSUME Inv, [Next]_vars PROVE RunOK'
    OBVIOUS
  <1> USE TimeAssumption DEF None, Unknown
  <1>0. TypeOK /\ FlagType /\ ClockType /\ RunOK /\ SilenceOK /\ BusyOK
    BY DEF Inv, TypeOK
  <1>1. CASE Acquire
    BY <1>0, <1>1, Durations DEF Acquire, ClearBusy, RunOK, applies, outer, kickVars
  <1>2. CASE HoldEnds
    BY <1>0, <1>2 DEF HoldEnds, Stopped, Halt, Retire, ClearBusy, RunOK,
       outer, ages, busyVars, kickVars, configVars
  <1>3. CASE TimerFires
    <2>1. CASE ~holding
      BY <1>0, <1>3, <2>1 DEF TimerFires, Stopped, Halt, Retire, RunOK, outer
    <2>2. CASE holding
      BY <1>0, <1>3, <2>2, Durations DEF TimerFires, ResetDue, RunOK, outer, kickVars
    <2> QED
      BY <2>1, <2>2
  <1>4. CASE Accepted
    BY <1>0, <1>4 DEF Accepted, Answers, Settles, Lose, Halt, ClearBusy, RunOK,
       outer, ages, busyVars, kickVars, configVars
  <1>5. CASE Refused
    BY <1>0, <1>5 DEF Refused, Answers, Settles, Lose, Halt, ClearBusy, RunOK,
       outer, ages, busyVars, kickVars, configVars
  <1>6. CASE Gone
    BY <1>0, <1>6 DEF Gone, Answers, Settles, RunOK,
       outer, ages, busyVars, kickVars, configVars
  <1>7. CASE NotThrough
    BY <1>0, <1>7 DEF NotThrough, Settles, Lose, Silent, Halt, ClearBusy, RunOK,
       outer, ages, busyVars, kickVars, configVars
  <1>8. CASE Busy
    <2>1. Least(intervalMs, backoff) \in 0..MaxInterval
      BY <1>0, Durations DEF Least, ClockType
    <2> QED
      BY <1>0, <1>8, <2>1 DEF Busy, Answers, Settles, Lose, Halt, RunOK, holding, outer
  <1>9. CASE RetiredAnswer
    BY <1>0, <1>9 DEF RetiredAnswer, RunOK,
       outer, ages, busyVars, kickVars, configVars
  <1>10. CASE TeardownBegins
    BY <1>0, <1>10 DEF TeardownBegins, Stopped, Halt, Retire, ClearBusy, Forget, RunOK,
       outer, ages, busyVars, kickVars, configVars
  <1>11. CASE Closed
    BY <1>0, <1>11 DEF Closed, Stopped, Halt, Retire, ClearBusy, RunOK,
       outer, ages, busyVars, kickVars, configVars
  <1>12. CASE Connect
    BY <1>0, <1>12 DEF Connect, RunOK,
       outer, ages, busyVars, kickVars, configVars
  <1>13. CASE Reissued
    BY <1>0, <1>13 DEF Reissued, Stopped, Halt, Retire, ClearBusy, Forget, RunOK,
       outer, ages, busyVars, kickVars, configVars
  <1>14. CASE Elapse
    BY <1>0, <1>14 DEF Elapse, Older, RunOK, ClockType, Stamp, outer
  <1>20. CASE Configure
    <2>1. PICK r \in reads : \/ ReadDue(r)
                             \/ \E c \in Timeouts \cup {Unknown} :
                                   ReadAnswered(r, c) \/ SessionReadAnswered(r, c)
      BY <1>20 DEF Configure
    <2>2. UNCHANGED <<held, running, session, kickInFlight, flight>> /\ timer' \in {timer} \cup 0..MaxInterval
          /\ (timer' # timer => timer # None)
      <3>1. ASSUME NEW c \in Timeouts \cup {Unknown} PROVE Remaining(c) \in 0..MaxInterval
        BY <1>0, Durations DEF Remaining, Greatest, ClockType
      <3> QED
        BY <2>1, <3>1 DEF ReadDue, ReadAnswered, SessionReadAnswered, Adopt, outer, kickVars
    <2> QED
      BY <1>0, <2>2 DEF RunOK, FlagType
  <1>21. CASE UNCHANGED vars
    BY <1>0, <1>21 DEF vars, RunOK,
       outer, ages, busyVars, kickVars, configVars
  <1> QED
    BY <1>1, <1>2, <1>3, <1>4, <1>5, <1>6, <1>7, <1>8, <1>9, <1>10, <1>11, <1>12, <1>13, <1>14, <1>20,
       <1>21 DEF Next, Reset, Session

LEMMA SilenceStep == Inv /\ [Next]_vars => SilenceOK'
  <1> SUFFICES ASSUME Inv, [Next]_vars PROVE SilenceOK'
    OBVIOUS
  <1> USE TimeAssumption DEF None, Unknown
  <1>0. TypeOK /\ FlagType /\ ClockType /\ RunOK /\ SilenceOK /\ BusyOK
    BY DEF Inv, TypeOK
  <1>1. CASE Acquire
    <2>1. ~running /\ flight' = None /\ applies' = applies
      BY <1>0, <1>1 DEF Acquire, RunOK, applies, outer
    <2>2. CASE ~applies
      BY <2>1, <2>2, Zenon DEF SilenceOK, holding
    <2>3. CASE applies
      <3>1. sinceOk' = 0 /\ sinceSent' = 0 /\ sinceBusy' = None /\ timer' = intervalMs
        BY <1>1, <2>1, <2>3 DEF Acquire, ClearBusy
      <3>2. silent' = 0
        BY <3>1 DEF silent
      <3> QED
        BY <1>0, <2>1, <3>1, <3>2, Durations DEF SilenceOK
    <2> QED
      BY <2>2, <2>3
  <1>2. CASE HoldEnds
    <2>1. ~running'
      BY <1>0, <1>2 DEF HoldEnds, Stopped, Halt
    <2> QED
      BY <2>1, Zenon DEF SilenceOK, holding
  <1>3. CASE TimerFires
    <2>1. CASE ~holding
      BY <1>0, <1>3, <2>1 DEF TimerFires, Stopped, Halt, SilenceOK, holding
    <2>2. CASE holding
      <3>1. silent' = silent /\ silent \in Nat
        BY <1>0, <1>3, <2>2 DEF TimerFires, silent, Least, busyVars, ClockType, Stamp
      <3>2. flight = None => silent <= LongestTimeout + MaxInterval
        BY <1>0, <1>3, <2>2, <3>1 DEF TimerFires, SilenceOK
      <3>3. CASE kickInFlight
        BY <1>0, <1>3, <2>2, <3>1, <3>3 DEF TimerFires, ResetDue, SilenceOK, RunOK, holding, kickVars
      <3>4. CASE ~kickInFlight
        BY <1>0, <1>3, <2>2, <3>1, <3>2, <3>4 DEF TimerFires, ResetDue, SilenceOK, RunOK, holding
      <3> QED
        BY <3>3, <3>4
    <2> QED
      BY <2>1, <2>2
  <1>4. CASE Accepted
    <2>1. CASE ~running'
      BY <2>1, Zenon DEF SilenceOK, holding
    <2>2. CASE running'
      <3>1. silent' = 0
        BY <1>4, <2>2 DEF Accepted, Lose, Halt, ClearBusy, silent
      <3> QED
        BY <1>0, <1>4, <2>2, <3>1 DEF Accepted, Answers, Settles, Lose, Halt, SilenceOK, RunOK, ClockType
    <2> QED
      BY <2>1, <2>2
  <1>5. CASE Refused
    <2>1. CASE holding
      BY <1>5, <2>1 DEF Refused, Lose, Halt, SilenceOK, holding
    <2>2. CASE ~holding
      BY <1>5, <2>2 DEF Refused, SilenceOK, holding, applies, outer
    <2> QED
      BY <2>1, <2>2
  <1>6. CASE Gone
    BY <1>6 DEF Gone, SilenceOK, holding, applies
  <1>7. CASE NotThrough
    <2>1. CASE holding /\ ~Silent
      <3>1. silent' = silent /\ silent \in Nat
        BY <1>0, <1>7, <2>1 DEF NotThrough, silent, Least, ages, busyVars, ClockType, Stamp
      <3>2. silent <= LongestTimeout
        BY <1>0, <2>1, <3>1, Durations DEF Silent
      <3> QED
        BY <1>0, <1>7, <2>1, <3>1, <3>2 DEF NotThrough, Settles, SilenceOK, RunOK, holding, ages, ClockType
    <2>2. CASE holding /\ Silent
      BY <1>7, <2>2 DEF NotThrough, Lose, Halt, SilenceOK, holding
    <2>3. CASE ~holding
      BY <1>7, <2>3 DEF NotThrough, SilenceOK, holding, applies, outer
    <2> QED
      BY <2>1, <2>2, <2>3
  <1>8. CASE Busy
    <2>1. CASE ~holding
      BY <1>8, <2>1 DEF Busy, SilenceOK, holding, applies, outer
    <2>2. CASE ~running'
      BY <2>2, Zenon DEF SilenceOK, holding
    <2>3. CASE holding /\ running'
      <3>1. sinceBusy' = 0 /\ timer' = Least(intervalMs, backoff) /\ UNCHANGED ages /\ flight' = None
        BY <1>8, <2>3 DEF Busy, Lose, Halt, Answers, Settles
      <3>2. timer' \in 0..MaxInterval
        BY <1>0, <3>1, Durations DEF Least, ClockType
      <3>3. silent' = 0
        BY <1>0, <3>1 DEF silent, Least, ages, ClockType
      <3> QED
        BY <1>0, <3>1, <3>2, <3>3 DEF SilenceOK, ages, ClockType
    <2> QED
      BY <2>1, <2>2, <2>3
  <1>9. CASE RetiredAnswer
    BY <1>0, <1>9 DEF RetiredAnswer, SilenceOK, holding, applies, silent, outer, ages, busyVars
  <1>10. CASE TeardownBegins
    <2>1. ~running'
      BY <1>0, <1>10 DEF TeardownBegins, Stopped, Halt
    <2> QED
      BY <2>1, Zenon DEF SilenceOK, holding
  <1>11. CASE Closed
    <2>1. ~running'
      BY <1>0, <1>11 DEF Closed, RunOK, Stopped, Halt
    <2> QED
      BY <2>1, Zenon DEF SilenceOK, holding
  <1>12. CASE Connect
    <2>1. ~running'
      BY <1>0, <1>12 DEF Connect, RunOK
    <2> QED
      BY <2>1, Zenon DEF SilenceOK, holding
  <1>13. CASE Reissued
    <2>1. ~running'
      BY <1>0, <1>13 DEF Reissued, Stopped, Halt
    <2> QED
      BY <2>1, Zenon DEF SilenceOK, holding
  <1>14. CASE Elapse
    <2>1. CASE ~holding
      BY <1>14, <2>1 DEF Elapse, SilenceOK, holding, applies, outer
    <2>2. CASE holding
      <3>1. silent' = silent + 1 /\ silent \in Nat
        BY <1>0, <1>14 DEF Elapse, Older, silent, Least, ClockType, Stamp
      <3> QED
        BY <1>0, <1>14, <2>2, <3>1 DEF Elapse, Older, SilenceOK, RunOK, holding, ClockType, Stamp
    <2> QED
      BY <2>1, <2>2
  <1>20. CASE Configure
    <2>1. PICK r \in reads : \/ ReadDue(r)
                             \/ \E c \in Timeouts \cup {Unknown} :
                                   ReadAnswered(r, c) \/ SessionReadAnswered(r, c)
      BY <1>20 DEF Configure
    <2>2. /\ UNCHANGED <<held, running, outer, flight, ages, busyVars>>
          /\ timer' = timer \/ timer' = 0 \/ timer' + sinceSent \in 1..MaxInterval
      <3>1. ASSUME NEW c \in Timeouts \cup {Unknown}
            PROVE  Remaining(c) = 0 \/ Remaining(c) + sinceSent \in 1..MaxInterval
        BY <1>0, Durations DEF Remaining, Greatest, ClockType
      <3> QED
        BY <2>1, <3>1 DEF ReadDue, ReadAnswered, SessionReadAnswered, Adopt, kickVars
    <2>3. timer' \in Int
      BY <1>0, ClockStep DEF ClockType, Stamp
    <2>4. silent' = silent /\ silent \in Nat
      BY <1>0, <2>2 DEF silent, Least, ages, busyVars, ClockType, Stamp
    <2>5. CASE ~holding
      BY <2>2, <2>5 DEF SilenceOK, holding, applies, outer
    <2>6. CASE holding /\ timer' = timer
      BY <1>0, <2>2, <2>4, <2>6 DEF SilenceOK, holding, ages
    <2>7. CASE holding /\ timer' # timer
      <3>1. /\ flight <= RequestLimit /\ timer \in Nat /\ sinceSent' = sinceSent /\ flight' = flight
            /\ flight = None => /\ silent + timer <= LongestTimeout + MaxInterval
                                /\ silent <= LongestTimeout + sinceSent
            /\ flight # None => silent <= LongestTimeout + MaxInterval + flight
        BY <1>0, <2>2, <2>7 DEF SilenceOK, RunOK, holding, ages
      <3>2. sinceSent \in Nat /\ (timer' = 0 \/ timer' + sinceSent <= MaxInterval)
        BY <1>0, <2>2, <2>7 DEF ClockType
      <3>3. flight = None => silent + timer' <= LongestTimeout + MaxInterval
        <4> SUFFICES ASSUME flight = None PROVE silent + timer' <= LongestTimeout + MaxInterval
          OBVIOUS
        <4>1. CASE timer' = 0
          BY <2>4, <3>1, <4>1
        <4>2. CASE timer' + sinceSent <= MaxInterval
          <5>1. silent \in Int /\ timer' \in Int /\ sinceSent \in Int
            BY <2>3, <2>4, <3>2
          <5>2. LongestTimeout \in Int /\ MaxInterval \in Int
            OBVIOUS
          <5>3. silent <= LongestTimeout + sinceSent
            BY <3>1
          <5> HIDE TimeAssumption DEF TimeAssumption, None, Unknown
          <5> QED
            BY <4>2, <5>1, <5>2, <5>3, Together
        <4> QED
          BY <3>2, <4>1, <4>2
      <3> QED
        BY <2>4, <3>1, <3>3 DEF SilenceOK
    <2> QED
      BY <2>5, <2>6, <2>7
  <1>21. CASE UNCHANGED vars
    BY <1>0, <1>21 DEF vars, SilenceOK, holding, applies, silent,
       outer, ages, busyVars, kickVars, configVars
  <1> QED
    BY <1>1, <1>2, <1>3, <1>4, <1>5, <1>6, <1>7, <1>8, <1>9, <1>10, <1>11, <1>12, <1>13, <1>14, <1>20,
       <1>21 DEF Next, Reset, Session

LEMMA BusyStep == Inv /\ [Next]_vars => BusyOK'
  <1> SUFFICES ASSUME Inv, [Next]_vars PROVE BusyOK'
    OBVIOUS
  <1> USE TimeAssumption DEF None, Unknown
  <1>0. TypeOK /\ FlagType /\ ClockType /\ RunOK /\ SilenceOK /\ BusyOK
    BY DEF Inv, TypeOK
  <1>1. CASE Acquire
    BY <1>0, <1>1 DEF Acquire, ClearBusy, BusyOK, busyVars, ages
  <1>2. CASE HoldEnds
    BY <1>0, <1>2 DEF HoldEnds, Stopped, Halt, Retire, ClearBusy, BusyOK, busyVars, ages
  <1>3. CASE TimerFires
    BY <1>0, <1>3 DEF TimerFires, ResetDue, Stopped, Halt, Retire, ClearBusy, BusyOK, busyVars, ages
  <1>4. CASE Accepted
    BY <1>0, <1>4 DEF Accepted, Lose, Halt, ClearBusy, BusyOK
  <1>5. CASE Refused
    BY <1>0, <1>5 DEF Refused, Answers, Settles, Lose, Halt, ClearBusy, BusyOK, busyVars, ages
  <1>6. CASE Gone
    BY <1>0, <1>6 DEF Gone, Answers, Settles, BusyOK, busyVars, ages
  <1>7. CASE NotThrough
    BY <1>0, <1>7 DEF NotThrough, Settles, Lose, Silent, Halt, ClearBusy, BusyOK, busyVars, ages
  <1>8. CASE Busy
    <2>1. CASE UNCHANGED busyVars
      BY <1>0, <1>8, <2>1 DEF Busy, BusyOK, busyVars, ages
    <2>2. CASE sinceBusy' = None /\ busyFor' = None
      BY <2>2 DEF BusyOK
    <2>3. CASE sinceBusy' = 0 /\ busyFor' = BusyRun /\ ~BusyTooLong
      BY <1>0, <1>8, <2>3 DEF Busy, ages, BusyOK, BusyTooLong, BusyRun, ClockType, Stamp
    <2> QED
      BY <1>8, <2>1, <2>2, <2>3 DEF Busy, Lose, Halt, ClearBusy
  <1>9. CASE RetiredAnswer
    BY <1>0, <1>9 DEF RetiredAnswer, BusyOK, busyVars, ages
  <1>10. CASE TeardownBegins
    BY <1>0, <1>10 DEF TeardownBegins, Stopped, Halt, Retire, ClearBusy, Forget, BusyOK, busyVars, ages
  <1>11. CASE Closed
    BY <1>0, <1>11 DEF Closed, Stopped, Halt, Retire, ClearBusy, BusyOK, busyVars, ages
  <1>12. CASE Connect
    BY <1>0, <1>12 DEF Connect, BusyOK, busyVars, ages
  <1>13. CASE Reissued
    BY <1>0, <1>13 DEF Reissued, Stopped, Halt, Retire, ClearBusy, Forget, BusyOK, busyVars, ages
  <1>14. CASE Elapse
    BY <1>0, <1>14 DEF Elapse, Older, BusyOK, ClockType, Stamp
  <1>20. CASE Configure
    <2>1. PICK r \in reads : \/ ReadDue(r)
                             \/ \E c \in Timeouts \cup {Unknown} :
                                   ReadAnswered(r, c) \/ SessionReadAnswered(r, c)
      BY <1>20 DEF Configure
    <2> QED
      BY <1>0, <2>1 DEF ReadDue, ReadAnswered, SessionReadAnswered, BusyOK, busyVars, ages
  <1>21. CASE UNCHANGED vars
    BY <1>0, <1>21 DEF vars, BusyOK,
       outer, ages, busyVars, kickVars, configVars
  <1> QED
    BY <1>1, <1>2, <1>3, <1>4, <1>5, <1>6, <1>7, <1>8, <1>9, <1>10, <1>11, <1>12, <1>13, <1>14, <1>20,
       <1>21 DEF Next, Reset, Session

-----------------------------------------------------------------------------
LEMMA StepInv == Inv /\ [Next]_vars => Inv'
  <1> SUFFICES ASSUME Inv, [Next]_vars PROVE Inv'
    OBVIOUS
  <1>1. TypeOK /\ RunOK
    BY DEF Inv
  <1>2. FlagType' /\ ClockType' /\ (reads \subseteq Read)'
    BY <1>1, FlagStep, ClockStep, ReadsStep
  <1>3. RunOK' /\ SilenceOK' /\ BusyOK'
    BY RunStep, SilenceStep, BusyStep
  <1> QED
    BY <1>2, <1>3 DEF Inv, TypeOK

LEMMA Invariance == Spec => []Inv
  <1>1. Init => Inv
    BY InitInv
  <1>2. Inv /\ [Next]_vars => Inv'
    BY StepInv
  <1> QED
    BY <1>1, <1>2, PTL DEF Spec

(* Every reachable state of the watchdog is well typed. *)
THEOREM WatchdogTypes == Spec => []TypeOK
  <1>1. Inv => TypeOK
    BY DEF Inv
  <1> QED
    BY <1>1, Invariance, PTL

(* The resets never stall: a running watchdog has a timer that is due      *)
(* within one interval, whatever rescheduled it.                           *)
THEOREM TimerIsArmed == Spec => []NeverStalls
  <1>1. Inv => NeverStalls
    BY DEF Inv, RunOK, NeverStalls
  <1> QED
    BY <1>1, Invariance, PTL

(* A hold outlives the controller's silence by no more than the longest    *)
(* Timeout, one interval and the time a reset may take to fail.            *)
THEOREM SilenceIsBounded == Spec => []SilenceBounded
  <1>1. Inv => SilenceBounded
    <2> SUFFICES ASSUME Inv, holding PROVE silent <= Patience
      BY DEF SilenceBounded
    <2>1. ClockType /\ RunOK /\ SilenceOK /\ silent \in Nat
      BY DEF Inv, TypeOK, ClockType, Stamp, silent, Least, None
    <2> QED
      BY <2>1, TimeAssumption DEF SilenceOK, RunOK, holding, ClockType, Stamp, Patience, None
  <1> QED
    BY <1>1, Invariance, PTL

(* Busy answers keep a hold for no longer than BusyLimit and one silence. *)
THEOREM BusyIsBounded == Spec => []BusyBounded
  <1>1. Inv => BusyBounded
    <2> SUFFICES ASSUME Inv, holding PROVE busyFor <= BusyLimit + Patience
      BY DEF BusyBounded
    <2>1. ClockType /\ RunOK /\ SilenceOK /\ BusyOK
      BY DEF Inv, TypeOK
    <2>2. silent \in Nat /\ (sinceBusy # None => silent = sinceBusy)
      BY <2>1 DEF ClockType, Stamp, BusyOK, silent, Least, None
    <2>3. silent <= Patience
      BY <2>1, <2>2, TimeAssumption DEF SilenceOK, RunOK, holding, ClockType, Stamp, Patience, None
    <2> QED
      BY <2>1, <2>2, <2>3, TimeAssumption DEF BusyOK, ClockType, Stamp, Patience, None
  <1> QED
    BY <1>1, Invariance, PTL

-----------------------------------------------------------------------------
(* What ends a hold, and what it is judged by.                             *)

(* A reset of this epoch on the wire was sent for the hold there is. *)
OwnReset == flight # None => sent

LEMMA OwnResetStep == Inv /\ OwnReset /\ [Next]_vars => OwnReset'
  <1> SUFFICES ASSUME Inv, OwnReset, [Next]_vars PROVE OwnReset'
    OBVIOUS
  <1>0. RunOK /\ ClockType
    BY DEF Inv, TypeOK
  <1>1. CASE Acquire
    BY <1>0, <1>1 DEF Acquire, RunOK, OwnReset
  <1>2. CASE TimerFires
    BY <1>2 DEF TimerFires, Stopped, Retire, OwnReset
  <1>3. CASE Elapse
    BY <1>3 DEF Elapse, Older, OwnReset
  <1>4. CASE sent' = sent /\ flight' \in {flight, None}
    BY <1>4 DEF OwnReset
  <1>5. CASE Configure
    BY <1>4, <1>5 DEF Configure, ReadDue, ReadAnswered, SessionReadAnswered, kickVars
  <1> QED
    BY <1>1, <1>2, <1>3, <1>4, <1>5 DEF Next, HoldEnds, Reset, Accepted, Refused, Gone, NotThrough, Busy,
       RetiredAnswer, Answers, Settles, Session, TeardownBegins, Closed, Connect, Reissued, Stopped, Retire,
       vars, kickVars

(* The watchdog judges a hold by a reset that was sent for it: whatever    *)
(* order of holds, releases and late answers, an answer that ends a hold,  *)
(* or speaks for it, is of that hold's own epoch.                          *)
THEOREM JudgedByOwnReset == Spec => JudgedByItsOwnReset
  <1>1. Init => OwnReset
    BY DEF Init, OwnReset
  <1>2. OwnReset /\ [Next]_vars => [held /\ flight # None /\ flight' = None /\ (~held' \/ Credited) => sent]_vars
    BY DEF OwnReset
  <1> QED
    BY <1>1, <1>2, OwnResetStep, Invariance, PTL DEF Spec, JudgedByItsOwnReset

(* The resets stop only with the hold, with the session or with a service  *)
(* that is gone: no answer and no configuration stops them alone.          *)
THEOREM ResetsRunWhileHeld == Spec => RunsWhileHeld
  <1>1. Inv /\ [Next]_vars => [running /\ ~running' => ~held' \/ ~service \/ session' # session]_vars
    <2> SUFFICES ASSUME Inv, Next, running, ~running', held', service, session' = session PROVE FALSE
      BY DEF vars
    <2>0. RunOK
      BY DEF Inv
    <2>1. ~TimerFires
      BY <2>0 DEF TimerFires, RunOK, holding, applies
    <2>2. ~Configure
      BY DEF Configure, ReadDue, ReadAnswered, SessionReadAnswered
    <2> QED
      BY <2>1, <2>2 DEF Next, Acquire, HoldEnds, Reset, Accepted, Refused, Gone, NotThrough, Busy, Lose,
         RetiredAnswer, Session, TeardownBegins, Closed, Connect, Reissued, Elapse
  <1> QED
    BY <1>1, Invariance, PTL DEF Spec, RunsWhileHeld

LEMMA RiskStep == Inv /\ RiskReported /\ [Next]_vars => RiskReported'
  <1> SUFFICES ASSUME Inv, RiskReported, [Next]_vars, holding', sinceBusy' # None,
                      sinceOk' - sinceBusy' > LongestTimeout
               PROVE  atRisk'
    BY DEF RiskReported
  <1> USE TimeAssumption DEF None
  <1>0. TypeOK /\ ClockType /\ RunOK /\ sinceOk \in Nat /\ sinceBusy \in Nat \cup {-1}
        /\ timeoutMs \in Nat /\ timeoutMs <= LongestTimeout
    BY Durations DEF Inv, TypeOK, ClockType, Stamp
  <1>1. CASE Acquire
    BY <1>0, <1>1 DEF Acquire, ClearBusy, RunOK, holding, applies, outer, RiskReported, busyVars, ages
  <1>2. CASE TimerFires
    BY <1>2 DEF TimerFires, Stopped, Halt, ClearBusy, holding, applies, outer, RiskReported, busyVars
  <1>3. CASE Accepted
    BY <1>3 DEF Accepted, Lose, Halt, ClearBusy
  <1>4. CASE Refused \/ Gone \/ NotThrough \/ RetiredAnswer
    BY <1>4 DEF Refused, Gone, NotThrough, RetiredAnswer, Lose, Halt, ClearBusy, holding, applies, outer,
       RiskReported, busyVars, ages
  <1>5. CASE Busy
    <2>1. CASE holding /\ ~BusyTooLong
      <3>1. atRisk' = Overdue /\ sinceOk' = sinceOk /\ sinceBusy' = 0
        BY <1>5, <2>1 DEF Busy, Lose, Halt, ClearBusy, ages
      <3>2. sinceOk > timeoutMs
        BY <1>0, <3>1
      <3> QED
        BY <3>1, <3>2, Zenon DEF Overdue
    <2>2. CASE ~(holding /\ ~BusyTooLong)
      BY <1>5, <2>2 DEF Busy, Lose, Halt, ClearBusy, holding, applies, outer
    <2> QED
      BY <2>1, <2>2
  <1>6. CASE HoldEnds \/ TeardownBegins \/ Reissued
    BY <1>6 DEF HoldEnds, TeardownBegins, Reissued, Stopped, Halt, ClearBusy
  <1>7. CASE Closed \/ Connect
    BY <1>0, <1>7 DEF Closed, Connect, RunOK, holding, applies
  <1>8. CASE Elapse
    BY <1>0, <1>8 DEF Elapse, Older, holding, applies, outer, RiskReported
  <1>9. CASE Configure
    <2>1. UNCHANGED <<sinceOk, sinceBusy, atRisk, running, held, session, service>>
      BY <1>9 DEF Configure, ReadDue, ReadAnswered, SessionReadAnswered, outer, busyVars, ages
    <2> QED
      BY <2>1 DEF holding, applies, RiskReported
  <1>10. CASE UNCHANGED vars
    BY <1>10 DEF vars, holding, applies, outer, RiskReported, busyVars, ages
  <1> QED
    BY <1>1, <1>2, <1>3, <1>4, <1>5, <1>6, <1>7, <1>8, <1>9, <1>10 DEF Next, Reset, Session

(* A hold that busy answers carry past the longest Timeout is at risk, and *)
(* says so.                                                                *)
THEOREM RiskIsReported == Spec => []RiskReported
  <1>1. Init => RiskReported
    BY DEF Init, RiskReported
  <1> QED
    BY <1>1, RiskStep, Invariance, PTL DEF Spec

(* The read of a hold that still counts is of the session there is, and    *)
(* that session is open.                                                   *)
ReadOK == \A r \in reads : r.by = "hold" /\ r.current => r.mine /\ session = "open"

LEMMA ReadStep == Inv /\ ReadOK /\ [Next]_vars => ReadOK'
  <1> SUFFICES ASSUME Inv, ReadOK, [Next]_vars PROVE ReadOK'
    OBVIOUS
  <1>0. reads \subseteq Read
    BY DEF Inv, TypeOK
  <1>1. CASE reads' \subseteq reads /\ session' = session
    BY <1>1 DEF ReadOK
  <1>2. CASE Acquire
    <2>1. session' = session /\ \A r \in reads' : r \in reads \/ r.by = "due"
      BY <1>2 DEF Acquire, outer
    <2> QED
      BY <2>1 DEF ReadOK
  <1>3. ASSUME NEW r \in reads, ReadDue(r) PROVE ReadOK'
    <2>1. session' = session
      BY <1>3 DEF ReadDue, outer
    <2>2. CASE r.current /\ applies /\ session = "open"
      <3>1. [r EXCEPT !.by = "hold", !.mine = TRUE].mine
        BY <1>0 DEF Read
      <3>2. \A q \in reads' : q \in reads \/ q = [r EXCEPT !.by = "hold", !.mine = TRUE]
        BY <1>3, <2>2 DEF ReadDue
      <3> QED
        BY <2>1, <2>2, <3>1, <3>2 DEF ReadOK
    <2>3. CASE ~(r.current /\ applies /\ session = "open")
      BY <1>1, <1>3, <2>1, <2>3 DEF ReadDue
    <2> QED
      BY <2>2, <2>3
  <1>4. ASSUME NEW r \in reads, NEW c, ReadAnswered(r, c) PROVE ReadOK'
    BY <1>1, <1>4 DEF ReadAnswered, outer
  <1>5. ASSUME \A q \in reads' : ~q.current \/ q.by = "session" PROVE ReadOK'
    BY <1>5 DEF ReadOK
  <1>6. \A q \in reads : \A b \in BOOLEAN :
           ~[q EXCEPT !.current = FALSE].current /\ ~[q EXCEPT !.current = FALSE, !.mine = b].current
    BY <1>0 DEF Read
  <1>7. ASSUME NEW r \in reads, NEW c, SessionReadAnswered(r, c) PROVE ReadOK'
    BY <1>5, <1>6, <1>7 DEF SessionReadAnswered
  <1>8. CASE TeardownBegins \/ Reissued
    <2>1. \A b \in BOOLEAN : \A q \in Outdated(b) : ~q.current
      BY <1>0 DEF Outdated, Read
    <2>2. \A q \in NewRead : q.by = "session"
      BY DEF NewRead
    <2> QED
      BY <1>5, <1>8, <2>1, <2>2 DEF TeardownBegins, Reissued
  <1>9. CASE Closed
    <2>2. \A q \in reads : ~(q.by = "hold" /\ q.current)
      BY <1>9 DEF Closed, ReadOK
    <2>3. \A n \in reads' : \E q \in reads : n = [q EXCEPT !.mine = FALSE]
      BY <1>9 DEF Closed
    <2>4. ASSUME NEW n \in reads' PROVE ~(n.by = "hold" /\ n.current)
      <3>1. PICK q \in reads : n = [q EXCEPT !.mine = FALSE]
        BY <2>3
      <3>2. q \in Read
        BY <1>0
      <3>3. n.by = q.by /\ n.current = q.current
        BY <3>1, <3>2 DEF Read
      <3> QED
        BY <2>2, <3>3
    <2> QED
      BY <2>4 DEF ReadOK
  <1>10. CASE Connect
    <2>1. \A q \in reads' : q \in reads \/ q.by = "session"
      BY <1>10 DEF Connect, NewRead
    <2> QED
      BY <1>10, <2>1 DEF Connect, ReadOK
  <1> QED
    BY <1>1, <1>2, <1>3, <1>4, <1>7, <1>8, <1>9, <1>10 DEF Next, HoldEnds, Reset, TimerFires, Accepted,
       Refused, Gone, NotThrough, Busy, RetiredAnswer, Configure, Session, Elapse, vars, outer, configVars

(* The read of a hold is dropped once its session has ended: a             *)
(* configuration of an earlier session comes only from a read that         *)
(* connect() or a re-issued session made.                                  *)
THEOREM HoldReadsAreFresh == Spec => HoldReadFresh
  <1>1. Init => ReadOK
    BY DEF Init, ReadOK
  <1>2. Inv /\ ReadOK /\ [Next]_vars =>
          [foreign' /\ ~foreign => \E r \in reads : r.by = "session" /\ ~r.mine]_vars
    <2> SUFFICES ASSUME Inv, ReadOK, Next, foreign', ~foreign
                 PROVE  \E r \in reads : r.by = "session" /\ ~r.mine
      BY DEF vars
    <2>0. reads \subseteq Read
      BY DEF Inv, TypeOK
    <2>1. Configure
      BY DEF Next, Acquire, HoldEnds, Reset, TimerFires, Accepted, Refused, Gone, NotThrough, Busy,
         RetiredAnswer, Session, TeardownBegins, Closed, Connect, Reissued, Forget, Elapse, configVars
    <2>2. PICK r \in reads : \/ ReadDue(r)
                             \/ \E c \in Timeouts \cup {Unknown} :
                                   ReadAnswered(r, c) \/ SessionReadAnswered(r, c)
      BY <2>1 DEF Configure
    <2>3. [r EXCEPT !.mine = TRUE].mine
      BY <2>0 DEF Read
    <2>4. ~ReadDue(r)
      BY <2>3 DEF ReadDue, Adopt
    <2>5. PICK c \in Timeouts \cup {Unknown} : ReadAnswered(r, c) \/ SessionReadAnswered(r, c)
      BY <2>2, <2>4
    <2>6. ~ReadAnswered(r, c)
      BY DEF ReadAnswered, OfEpoch, Adopt, ReadOK
    <2> QED
      BY <2>5, <2>6 DEF SessionReadAnswered, Adopt
  <1> QED
    BY <1>1, <1>2, ReadStep, Invariance, PTL DEF Spec, HoldReadFresh

=============
