------------------------- MODULE RobotManagerProofs -------------------------
(***************************************************************************)
(* The connection of one manager, for every number of connects,            *)
(* disconnects and retries: what a quiet manager leaves on the controller, *)
(* and that the quality promises no more than the stream brings.           *)
(***************************************************************************)
EXTENDS RobotManager, WellFoundedInduction, TLAPS

Super == {"superTd", "superWait"}
\* From its own teardown to the login, and the way back out of an aborted attempt.
Early == {"ownTd", "probe", "login", "closing", "undo"}
\* Logged in: the attempt's connection is the manager's.
Late == {"subWait", "subscribe", "subDone", "polling", "polled"}
Inactive == {"unused", "done"} \cup Super
Running(c) == td[c].pc \in {"quiesce", "unsub", "bye"}
Active(a) == att[a].pc \notin Inactive
\* The attempt this one supersedes has unwound.
Ready(a) == att[a].pc = "superWait" /\ att[a].after \in Attempts /\ att[att[a].after].pc = "done"

(***************************************************************************)
(* The inductive invariant.  The attempts that are not over form a queue   *)
(* (f ranks them): each waits for the one before it, connecting is the     *)
(* last, and only the first can be past the wait.                          *)
(***************************************************************************)
Chain(f) ==
    /\ f \in [Attempts -> Nat]
    /\ connecting # Null => Pending(connecting)
    /\ \A a \in Attempts : Pending(a) => connecting # Null /\ f[a] <= f[connecting]
    /\ \A a, b \in Attempts : Pending(a) /\ Pending(b) /\ f[a] = f[b] => a = b
    /\ \A b \in Attempts : att[b].pc \in Super =>
         /\ att[b].after \in Attempts /\ att[att[b].after].pc # "unused" /\ f[att[b].after] < f[b]
         /\ \A a \in Attempts : Pending(a) /\ f[a] < f[b] => f[a] <= f[att[b].after]
         /\ att[att[b].after].pc = "done" => \A a \in Attempts : Pending(a) => f[a] > f[att[b].after]
    /\ \A b \in Attempts : Active(b) => \A a \in Attempts : Pending(a) => f[b] <= f[a]
ChainInv == \E f : Chain(f)

\* Who runs a teardown is at the place that waits for it.
TdInv ==
    /\ \A a \in Attempts : td[a].pc # "none" => att[a].pc \in {"superTd", "ownTd"}
    /\ td["poll"].pc # "none" => fetch # Null /\ fetch.pc = "tearing"
FetchInv == fetch # Null /\ fetch.by # Null => att[fetch.by].pc = "polling"
FailsInv == fails < MaxFails \/ (fetch # Null /\ fetch.pc = "tearing" /\ Running("poll"))
AdapterInv ==
    /\ adapter = Null => ~connected /\ unsub = Null /\ fetch = Null
    /\ \A a \in Attempts : att[a].pc \in Late \cup {"login", "closing", "undo"} => adapter # Null
\* Nobody holds an epoch that is still to come.
EpochInv ==
    /\ sessEpoch # Null => sessEpoch = epoch
    /\ \A a \in Attempts : att[a].epoch <= epoch
    /\ retry # Null => retry.epoch <= epoch
    /\ \A a \in Attempts : att[a].pc \in {"polling", "polled"} /\ att[a].epoch = epoch => att[a].gen = gen

\* The session's epoch is set exactly while there is a connection that nobody tears down.
ConnInv ==
    /\ sessEpoch # Null => connected /\ \A c \in Callers : ~Running(c)
    /\ connected /\ sessEpoch = Null => \E c \in Callers : Running(c)
    /\ \A a \in Attempts : att[a].pc \in {"probe", "login"} \/ (att[a].pc = "ownTd" /\ td[a].pc = "done") => ~connected
    /\ \A a \in Attempts : att[a].pc \in Early => sessEpoch = Null
    /\ \A a \in Attempts : att[a].pc \in Late => (sessEpoch # Null <=> att[a].epoch = epoch)
    /\ \A a \in Attempts : att[a].pc \in Late /\ sessEpoch # Null => ~att[a].cancelled
TimerInv ==
    /\ timer # Null => sessEpoch # Null /\ timer.gen = gen
    /\ \A a \in Attempts : att[a].pc \in Late => timer = Null
    /\ sessEpoch # Null => timer # Null \/ \E a \in Attempts : att[a].pc \in Late
\* Every session is the connection's, or an aborted attempt is closing it.
SessInv ==
    /\ sessEpoch # Null => adapter \in sessions
    /\ \A s \in sessions : (connected /\ s = adapter) \/ \E a \in Attempts : att[a].pc = "closing" /\ att[a].h = s
    /\ \A c \in Callers : connected /\ td[c].pc = "bye" => td[c].h = adapter
\* The handle is the connection's, or somebody is about to call it.
HandleInv ==
    /\ \A c \in Callers : td[c].pc = "unsub" => unsub \in {Null, td[c].h}
    /\ \A a \in Attempts : att[a].pc = "undo" => unsub \in {Null, att[a].h}
    /\ \A a \in Attempts : att[a].pc \in {"subWait", "subscribe"} => unsub = Null /\ \A c \in Callers : td[c].pc # "unsub"
    /\ unsub # Null => \/ sessEpoch # Null
                       \/ \E c \in Callers : td[c].pc \in {"quiesce", "unsub"}
                       \/ \E a \in Attempts : att[a].pc \in {"subDone", "undo"}
\* A retry of this epoch has the stream to itself.
RetryInv ==
    retry # Null /\ retry.epoch = epoch =>
        /\ sessEpoch # Null /\ unsub = Null
        /\ \A a \in Attempts : att[a].pc \notin Late
\* Every group is the handle's, or somebody is deleting it.
GroupInv ==
    \A g \in groups :
        \/ g = unsub
        \/ \E c \in Callers : td[c].pc = "unsub" /\ td[c].h = g
        \/ \E a \in Attempts : att[a].pc = "undo" /\ att[a].h = g
        \/ retry # Null /\ ((retry.pc = "letgo" /\ retry.h = g) \/ (retry.pc = "undo" /\ retry.name = g))

Basic == TdInv /\ FetchInv /\ FailsInv /\ AdapterInv /\ EpochInv
Clean == ConnInv /\ TimerInv /\ SessInv /\ HandleInv /\ RetryInv /\ GroupInv
IInv == TypeOK /\ ChainInv /\ Basic /\ (~overtaken => Clean)

-----------------------------------------------------------------------------
(* The queue of attempts.                                                  *)

LEMMA ActiveAlone ==
    ASSUME TypeOK, ChainInv, NEW a \in Attempts, Active(a) \/ Ready(a)
    PROVE  /\ connecting \in Attempts
           /\ \A b \in Attempts : b # a => att[b].pc \in Inactive
  <1>1. PICK f : Chain(f)
    BY DEF ChainInv
  <1>2. \A b \in Attempts : Pending(b) => f[a] <= f[b]
    BY <1>1 DEF Chain, Active, Ready, Inactive, Super, Pending, TypeOK
  <1>3. Pending(a)
    BY DEF Active, Ready, Inactive, Super, Pending
  <1>4. ASSUME NEW b \in Attempts, Active(b) PROVE b = a
    <2>1. Pending(b)
      BY <1>4 DEF Active, Inactive, Pending
    <2>2. f[b] <= f[a] /\ f[a] <= f[b] /\ f[a] \in Nat /\ f[b] \in Nat
      BY <1>1, <1>2, <1>3, <1>4, <2>1 DEF Chain
    <2> QED
      BY <1>1, <1>3, <2>1, <2>2 DEF Chain
  <1>5. connecting # Null
    BY <1>1, <1>3 DEF Chain
  <1> QED
    BY <1>4, <1>5 DEF Active, TypeOK

LEMMA NobodyConnecting ==
    ASSUME ChainInv, connecting = Null
    PROVE  \A a \in Attempts : att[a].pc \in {"unused", "done"}
  BY DEF ChainInv, Chain, Pending

\* An attempt goes on, and stays where it is in the queue.
LEMMA ChainGoesOn ==
    ASSUME TypeOK, ChainInv, connecting' = connecting,
           \A b \in Attempts :
              /\ att'[b].pc = "unused" <=> att[b].pc = "unused"
              /\ att'[b].pc = "done" <=> att[b].pc = "done"
              /\ att'[b].pc \in Super => att[b].pc \in Super
              /\ att'[b].after = att[b].after
              /\ att'[b].pc \notin Inactive => Active(b) \/ Ready(b)
    PROVE  ChainInv'
  <1>1. PICK f : Chain(f)
    BY DEF ChainInv
  <1>2. \A b \in Attempts : Pending(b)' <=> Pending(b)
    BY DEF Pending
  <1>3. \A b \in Attempts : Active(b)' => Active(b) \/ Ready(b)
    BY DEF Active
  <1>4. \A b \in Attempts : Ready(b) => \A a \in Attempts : Pending(a) => f[b] <= f[a]
    BY <1>1 DEF Chain, Ready, Super, Pending, TypeOK
  <1>5. \A b \in Attempts : Active(b)' => \A a \in Attempts : Pending(a)' => f[b] <= f[a]
    BY <1>1, <1>2, <1>3, <1>4 DEF Chain
  <1>6. connecting # Null => connecting \in Attempts
    BY DEF TypeOK
  <1>7. \A b \in Attempts : att'[b].pc \in Super =>
         /\ att'[b].after \in Attempts /\ att'[att'[b].after].pc # "unused" /\ f[att'[b].after] < f[b]
         /\ \A a \in Attempts : Pending(a)' /\ f[a] < f[b] => f[a] <= f[att'[b].after]
         /\ att'[att'[b].after].pc = "done" => \A a \in Attempts : Pending(a)' => f[a] > f[att'[b].after]
    BY <1>1, <1>2 DEF Chain
  <1>8. Chain(f)'
    BY <1>1, <1>2, <1>5, <1>6, <1>7 DEF Chain
  <1> QED
    BY <1>8 DEF ChainInv

\* The first of the queue ends: the promise is cleared if it is its own.
LEMMA ChainEnds ==
    ASSUME TypeOK, ChainInv, NEW a \in Attempts, Active(a) \/ Ready(a), Settle(a), att'[a].pc = "done",
           \A b \in Attempts : b # a => att'[b].pc = att[b].pc /\ att'[b].after = att[b].after
    PROVE  ChainInv'
  <1>1. PICK f : Chain(f)
    BY DEF ChainInv
  <1>2. Pending(a) /\ connecting # Null /\ connecting \in Attempts
    BY ActiveAlone, NullAssumption DEF Active, Ready, Inactive, Super, Pending
  <1>3. \A b \in Attempts : b # a => (Pending(b)' <=> Pending(b)) /\ (Active(b)' <=> Active(b))
    BY DEF Pending, Active
  <1>4. ~Pending(a)' /\ ~Active(a)'
    BY DEF Pending, Active, Inactive
  <1>5. \A b \in Attempts : Pending(b) => f[a] <= f[b]
    BY <1>1 DEF Chain, Active, Ready, Inactive, Super, Pending, TypeOK
  <1>6. connecting' = IF connecting = a THEN Null ELSE connecting
    BY <1>2 DEF Settle
  <1>7. \A b \in Attempts : Pending(b) /\ b # a => f[a] < f[b]
    BY <1>1, <1>2, <1>5 DEF Chain
  <1>8. \A b \in Attempts : Pending(b)' => connecting' # Null /\ f[b] <= f[connecting']
    <2> SUFFICES ASSUME NEW b \in Attempts, Pending(b)' PROVE connecting' # Null /\ f[b] <= f[connecting']
      OBVIOUS
    <2>1. b # a /\ Pending(b)
      BY <1>3, <1>4
    <2>2. f[a] < f[b] /\ f[b] <= f[connecting] /\ f[a] \in Nat /\ f[b] \in Nat
      BY <1>1, <1>7, <2>1 DEF Chain
    <2>3. connecting # a
      BY <2>2
    <2> QED
      BY <1>2, <1>6, <2>2, <2>3
  <1>9. connecting' # Null => Pending(connecting)'
    <2>1. connecting' # Null => Pending(connecting) /\ connecting \in Attempts /\ connecting # a /\ connecting' = connecting
      BY <1>1, <1>2, <1>6 DEF Chain
    <2>2. connecting' # Null => att'[connecting'].pc = att[connecting].pc
      BY <2>1
    <2> QED
      BY <2>1, <2>2 DEF Pending
  <1>10. ASSUME NEW b \in Attempts, att'[b].pc \in Super
         PROVE  /\ att'[b].after \in Attempts /\ att'[att'[b].after].pc # "unused" /\ f[att'[b].after] < f[b]
                /\ \A c \in Attempts : Pending(c)' /\ f[c] < f[b] => f[c] <= f[att'[b].after]
                /\ att'[att'[b].after].pc = "done" => \A c \in Attempts : Pending(c)' => f[c] > f[att'[b].after]
    <2>1. b # a /\ att[b].pc \in Super /\ att'[b].after = att[b].after
      BY <1>10 DEF Super
    <2>2. /\ att[b].after \in Attempts /\ att[att[b].after].pc # "unused" /\ f[att[b].after] < f[b]
          /\ \A c \in Attempts : Pending(c) /\ f[c] < f[b] => f[c] <= f[att[b].after]
          /\ att[att[b].after].pc = "done" => \A c \in Attempts : Pending(c) => f[c] > f[att[b].after]
      BY <1>1, <2>1 DEF Chain
    <2>3. \A c \in Attempts : Pending(c)' => Pending(c) /\ f[c] > f[a]
      BY <1>1, <1>3, <1>4, <1>7 DEF Chain
    <2>4. att'[att'[b].after].pc = "done" => att[b].after = a \/ att[att[b].after].pc = "done"
      BY <2>1, <2>2
    <2> QED
      BY <2>1, <2>2, <2>3, <2>4
  <1>11. \A b \in Attempts : Active(b)' => \A c \in Attempts : Pending(c)' => f[b] <= f[c]
    BY <1>1, <1>3, <1>4 DEF Chain
  <1>12. \A b, c \in Attempts : Pending(b)' /\ Pending(c)' /\ f[b] = f[c] => b = c
    BY <1>1, <1>3, <1>4 DEF Chain
  <1>13. Chain(f)'
    BY <1>1, <1>8, <1>9, <1>10, <1>11, <1>12 DEF Chain
  <1> QED
    BY <1>13 DEF ChainInv

\* A new attempt queues up behind the one in flight.
LEMMA ChainGrows ==
    ASSUME TypeOK, ChainInv, NEW a \in Attempts, att[a].pc = "unused", connecting # Null,
           connecting' = a, att'[a].pc = "superTd", att'[a].after = connecting,
           \A b \in Attempts : b # a => att'[b].pc = att[b].pc /\ att'[b].after = att[b].after
    PROVE  ChainInv'
  <1>1. PICK f : Chain(f)
    BY DEF ChainInv
  <1>2. connecting \in Attempts /\ Pending(connecting) /\ connecting # a /\ f[connecting] \in Nat
    BY <1>1 DEF Chain, Pending, TypeOK
  <1>3. PICK h \in [Attempts -> Nat] : h[a] = f[connecting] + 1 /\ \A b \in Attempts : b # a => h[b] = f[b]
    <2> DEFINE g == [f EXCEPT ![a] = f[connecting] + 1]
    <2>1. g \in [Attempts -> Nat] /\ g[a] = f[connecting] + 1 /\ \A b \in Attempts : b # a => g[b] = f[b]
      BY <1>1, <1>2 DEF Chain
    <2> HIDE DEF g
    <2> QED
      BY <2>1
  <1>4. \A b \in Attempts : b # a => (Pending(b)' <=> Pending(b)) /\ (Active(b)' <=> Active(b))
    BY DEF Pending, Active
  <1>5. Pending(a)' /\ ~Active(a)' /\ ~Pending(a)
    BY DEF Pending, Active, Inactive, Super
  <1>6. \A b \in Attempts : Pending(b) => f[b] <= f[connecting] /\ f[b] \in Nat
    BY <1>1 DEF Chain
  <1>7. \A b \in Attempts : Pending(b)' => h[b] <= h[a]
    BY <1>2, <1>3, <1>4, <1>6
  <1>8. \A b, c \in Attempts : Pending(b)' /\ Pending(c)' /\ h[b] = h[c] => b = c
    <2>1. \A b \in Attempts : b # a /\ Pending(b)' => h[b] < h[a]
      BY <1>2, <1>3, <1>4, <1>6
    <2>2. \A b, c \in Attempts : b # a /\ c # a /\ Pending(b)' /\ Pending(c)' /\ h[b] = h[c] => b = c
      BY <1>1, <1>3, <1>4 DEF Chain
    <2> QED
      BY <1>3, <2>1, <2>2
  <1>9. ASSUME NEW b \in Attempts, att'[b].pc \in Super
        PROVE  /\ att'[b].after \in Attempts /\ att'[att'[b].after].pc # "unused" /\ h[att'[b].after] < h[b]
               /\ \A c \in Attempts : Pending(c)' /\ h[c] < h[b] => h[c] <= h[att'[b].after]
               /\ att'[att'[b].after].pc = "done" => \A c \in Attempts : Pending(c)' => h[c] > h[att'[b].after]
    <2>1. CASE b = a
      <3>1. att'[b].after = connecting /\ att'[connecting].pc = att[connecting].pc
        BY <1>2, <2>1
      <3>2. att'[connecting].pc \notin {"unused", "done"} /\ h[connecting] = f[connecting]
        BY <1>2, <1>3, <3>1 DEF Pending
      <3>3. \A c \in Attempts : Pending(c)' /\ h[c] < h[b] => h[c] <= h[connecting]
        BY <1>2, <1>3, <1>4, <1>6, <2>1
      <3> QED
        BY <1>2, <1>3, <2>1, <3>1, <3>2, <3>3
    <2>2. CASE b # a
      <3>1. att[b].pc \in Super /\ att'[b].after = att[b].after
        BY <1>9, <2>2
      <3>2. /\ att[b].after \in Attempts /\ att[att[b].after].pc # "unused" /\ f[att[b].after] < f[b]
            /\ \A c \in Attempts : Pending(c) /\ f[c] < f[b] => f[c] <= f[att[b].after]
            /\ att[att[b].after].pc = "done" => \A c \in Attempts : Pending(c) => f[c] > f[att[b].after]
        BY <1>1, <3>1 DEF Chain
      <3>3. att[b].after # a /\ att'[att[b].after].pc = att[att[b].after].pc /\ h[att[b].after] = f[att[b].after]
        BY <1>3, <3>2
      <3>4. h[b] = f[b] /\ f[b] < h[a] /\ Pending(b)
        BY <1>2, <1>3, <1>6, <2>2, <3>1 DEF Pending, Super
      <3>5. \A c \in Attempts : Pending(c)' /\ h[c] < h[b] => h[c] <= h[att[b].after]
        BY <1>3, <1>4, <3>2, <3>3, <3>4
      <3>6. att'[att'[b].after].pc = "done" => \A c \in Attempts : Pending(c)' => h[c] > h[att'[b].after]
        <4> SUFFICES ASSUME att'[att'[b].after].pc = "done", NEW c \in Attempts, Pending(c)'
                     PROVE  h[c] > h[att'[b].after]
          OBVIOUS
        <4>1. CASE c = a
          BY <1>1, <1>3, <3>1, <3>2, <3>3, <3>4, <4>1 DEF Chain
        <4>2. CASE c # a
          BY <1>3, <1>4, <3>1, <3>2, <3>3, <4>2
        <4> QED
          BY <4>1, <4>2
      <3> QED
        BY <2>2, <3>1, <3>2, <3>3, <3>4, <3>5, <3>6
    <2> QED
      BY <2>1, <2>2
  <1>10. ASSUME NEW b \in Attempts, Active(b)', NEW c \in Attempts, Pending(c)' PROVE h[b] <= h[c]
    <2>1. b # a /\ Active(b) /\ Pending(b) /\ h[b] = f[b]
      BY <1>3, <1>4, <1>5, <1>10 DEF Active, Pending, Inactive
    <2>2. CASE c = a
      BY <1>2, <1>3, <1>6, <2>1, <2>2
    <2>3. CASE c # a
      BY <1>1, <1>3, <1>4, <1>10, <2>1, <2>3 DEF Chain
    <2> QED
      BY <2>2, <2>3
  <1>11. a # Null
    BY NullAssumption
  <1>12. Chain(h)'
    BY <1>3, <1>5, <1>7, <1>8, <1>9, <1>10, <1>11 DEF Chain
  <1> QED
    BY <1>12 DEF ChainInv

\* A new attempt with nobody in flight is alone, or over at once.
LEMMA ChainStarts ==
    ASSUME TypeOK, ChainInv, NEW a \in Attempts, connecting = Null,
           att'[a].pc \notin {"unused"} \cup Super,
           connecting' = IF att'[a].pc = "done" THEN Null ELSE a,
           \A b \in Attempts : b # a => att'[b].pc = att[b].pc
    PROVE  ChainInv'
  <1>1. PICK f : Chain(f)
    BY DEF ChainInv
  <1>2. \A b \in Attempts : b # a => ~Pending(b)' /\ ~Active(b)' /\ att'[b].pc \notin Super
    BY NobodyConnecting DEF Pending, Active, Inactive, Super
  <1>3. a # Null /\ (Pending(a)' <=> att'[a].pc # "done")
    BY NullAssumption DEF Pending
  <1>4. f \in [Attempts -> Nat] /\ \A b \in Attempts : f[b] <= f[b]
    BY <1>1 DEF Chain
  <1>5. Chain(f)'
    BY <1>2, <1>3, <1>4 DEF Chain
  <1> QED
    BY <1>5 DEF ChainInv

-----------------------------------------------------------------------------
(* Teardowns.                                                              *)

LEMMA TeardownHead ==
    ASSUME TypeOK, AdapterInv, NEW c \in Callers, BeginTeardown(c)
    PROVE  /\ epoch' = epoch + 1 /\ sessEpoch' = Null /\ gen' = gen + 1 /\ timer' = Null
           /\ td' \in [Callers -> TeardownStates]
           /\ \A d \in Callers : d # c => td'[d] = td[d]
           /\ td'[c].pc # "none"
           /\ adapter # Null => td'[c].pc \in {"quiesce", "unsub", "bye"}
           /\ unsub # Null => td'[c].pc \in {"quiesce", "unsub"}
           /\ td'[c].pc = "unsub" => unsub # Null /\ td'[c].h = unsub
           /\ td'[c].pc = "bye" => td'[c].h = adapter
  <1> DEFINE Head(r) == /\ r \in TeardownStates /\ r.pc # "none"
                        /\ adapter # Null => r.pc \in {"quiesce", "unsub", "bye"}
                        /\ unsub # Null => r.pc \in {"quiesce", "unsub"}
                        /\ r.pc = "unsub" => unsub # Null /\ r.h = unsub
                        /\ r.pc = "bye" => r.h = adapter
  <1>1. adapter # Null => Head(NextTeardown)
    BY DEF NextTeardown, TypeOK, TeardownStates
  <1>2. Head([pc |-> "quiesce", h |-> Null])
    BY DEF TeardownStates
  <1>3. adapter = Null => Head([pc |-> "done", h |-> Null])
    BY DEF TeardownStates, AdapterInv
  <1> HIDE DEF Head
  <1>4. PICK busy : td' = [td EXCEPT ![c] = CASE adapter = Null -> [pc |-> "done", h |-> Null]
                                   [] adapter # Null /\ busy -> [pc |-> "quiesce", h |-> Null]
                                   [] OTHER -> NextTeardown]
    BY DEF BeginTeardown
  <1>5. PICK r : Head(r) /\ td' = [td EXCEPT ![c] = r]
    <2>1. CASE adapter = Null
      BY <1>3, <1>4, <2>1
    <2>2. CASE adapter # Null /\ busy
      BY <1>2, <1>4, <2>2
    <2>3. CASE adapter # Null /\ ~busy
      BY <1>1, <1>4, <2>3
    <2> QED
      BY <2>1, <2>2, <2>3
  <1>6. td' \in [Callers -> TeardownStates] /\ td'[c] = r /\ \A d \in Callers : d # c => td'[d] = td[d]
    BY <1>5 DEF Head, TypeOK
  <1> QED
    BY <1>5, <1>6 DEF Head, BeginTeardown

\* What the synchronous head leaves: everything that carries the old epoch is out of date.
LEMMA TeardownBegun ==
    ASSUME TypeOK, Basic, NEW c \in Callers, td[c].pc = "none", BeginTeardown(c),
           UNCHANGED <<connected, adapter, unsub, retry, sessions, groups>>,
           \A x \in Attempts :
              \/ /\ att'[x].pc = att[x].pc /\ att'[x].epoch = att[x].epoch
                 /\ att'[x].h = att[x].h /\ att'[x].gen = att[x].gen
              \/ /\ x = c /\ att[x].pc \in {"unused", "superWait"}
                 /\ att'[x].pc \in {"superTd", "ownTd"} /\ att'[x].epoch \in 0 .. epoch
    PROVE  /\ EpochInv'
           /\ Clean => Clean'
  <1>1. AdapterInv /\ EpochInv
    BY DEF Basic
  <1>2. /\ epoch' = epoch + 1 /\ sessEpoch' = Null /\ gen' = gen + 1 /\ timer' = Null
        /\ \A d \in Callers : d # c => td'[d] = td[d]
        /\ adapter # Null => td'[c].pc \in {"quiesce", "unsub", "bye"}
        /\ unsub # Null => td'[c].pc \in {"quiesce", "unsub"}
        /\ td'[c].pc = "unsub" => unsub # Null /\ td'[c].h = unsub
        /\ td'[c].pc = "bye" => td'[c].h = adapter
    BY <1>1, TeardownHead
  <1>3. \A x \in Attempts : att'[x].epoch \in 0 .. epoch /\ att'[x].epoch # epoch'
    BY <1>1, <1>2 DEF EpochInv, TypeOK, AttemptStates
  <1>4. retry # Null => retry.epoch <= epoch /\ retry.epoch # epoch'
    BY <1>1, <1>2 DEF EpochInv, TypeOK, RetryStates
  <1>5. EpochInv'
    <2>1. \A x \in Attempts : att'[x].epoch <= epoch'
      BY <1>2, <1>3 DEF TypeOK
    <2> QED
      BY <1>2, <1>3, <1>4, <2>1 DEF EpochInv, TypeOK, RetryStates
  <1>6. ASSUME Clean PROVE Clean'
    <2>1. \A x \in Attempts : \/ att'[x].pc = att[x].pc /\ att'[x].h = att[x].h
                              \/ x = c /\ att'[x].pc \in {"superTd", "ownTd"} /\ att[x].pc \in {"unused", "superWait"}
      OBVIOUS
    <2>2. ConnInv'
      <3>1. connected => adapter # Null
        BY <1>1 DEF AdapterInv
      <3>2. connected' => Running(c)'
        BY <1>2, <3>1 DEF Running
      <3>3. \A x \in Attempts : att'[x].pc \in {"probe", "login"} \/ (att'[x].pc = "ownTd" /\ td'[x].pc = "done") => ~connected'
        BY <1>2, <1>6, <2>1, <3>1 DEF Clean, ConnInv, Callers
      <3> QED
        BY <1>2, <1>3, <3>2, <3>3 DEF ConnInv
    <2>3. TimerInv'
      BY <1>2 DEF TimerInv
    <2>4. SessInv'
      <3>1. \A x \in Attempts : att[x].pc = "closing" => att'[x].pc = "closing" /\ att'[x].h = att[x].h
        BY <2>1
      <3> QED
        BY <1>2, <1>6, <3>1 DEF Clean, SessInv
    <2>5. HandleInv'
      <3>1. \A x \in Attempts : att'[x].pc \in {"undo", "subWait", "subscribe"} => att'[x].pc = att[x].pc /\ att'[x].h = att[x].h
        BY <2>1
      <3> QED
        BY <1>2, <1>6, <3>1 DEF Clean, HandleInv
    <2>6. RetryInv'
      BY <1>4 DEF RetryInv
    <2>7. GroupInv'
      <3>1. \A x \in Attempts : att[x].pc = "undo" => att'[x].pc = "undo" /\ att'[x].h = att[x].h
        BY <2>1
      <3>2. \A d \in Callers : td[d].pc = "unsub" => td'[d] = td[d]
        BY <1>2
      <3> QED
        BY <1>6, <3>1, <3>2 DEF Clean, GroupInv
    <2> QED
      BY <2>2, <2>3, <2>4, <2>5, <2>6, <2>7 DEF Clean
  <1> QED
    BY <1>5, <1>6

LEMMA ChainStands ==
    ASSUME ChainInv, UNCHANGED <<att, connecting>>
    PROVE  ChainInv'
  <1>1. PICK f : Chain(f)
    BY DEF ChainInv
  <1>2. Chain(f)'
    BY <1>1 DEF Chain, Pending, Active
  <1> QED
    BY <1>2 DEF ChainInv

LEMMA QuiescedStep ==
    ASSUME IInv, NEW c \in Callers, TeardownQuiesced(c)
    PROVE  IInv'
  <1> USE DEF TeardownQuiesced, link, stream
  <1>1. TypeOK /\ Basic
    BY DEF IInv
  <1>2. NextTeardown \in TeardownStates
    BY <1>1 DEF NextTeardown, TypeOK, TeardownStates
  <1>3. td'[c] = NextTeardown /\ \A d \in Callers : d # c => td'[d] = td[d]
    BY <1>1 DEF TypeOK
  <1>4. TypeOK'
    BY <1>1, <1>2 DEF TypeOK
  <1>5. ChainInv'
    BY ChainStands DEF IInv
  <1>6. td'[c].pc \in {"unsub", "bye"} /\ (unsub # Null => td'[c].pc = "unsub")
        /\ (td'[c].pc = "unsub" => unsub # Null /\ td'[c].h = unsub) /\ (td'[c].pc = "bye" => td'[c].h = adapter)
    BY <1>3 DEF NextTeardown
  <1>7. Basic'
    BY <1>1, <1>3, <1>6 DEF Basic, TdInv, FetchInv, FailsInv, AdapterInv, EpochInv, Running, Callers
  <1>8. ASSUME ~overtaken' PROVE Clean'
    <2>1. Clean
      BY <1>8 DEF IInv
    <2>2. ConnInv'
      BY <1>3, <1>6, <2>1 DEF Clean, ConnInv, Running, Callers
    <2>3. TimerInv' /\ RetryInv'
      BY <2>1 DEF Clean, TimerInv, RetryInv
    <2>4. SessInv'
      BY <1>3, <1>6, <2>1 DEF Clean, SessInv
    <2>5. HandleInv'
      BY <1>3, <1>6, <2>1 DEF Clean, HandleInv
    <2>6. GroupInv'
      BY <1>3, <1>6, <2>1 DEF Clean, GroupInv
    <2> QED
      BY <2>2, <2>3, <2>4, <2>5, <2>6 DEF Clean
  <1> QED
    BY <1>4, <1>5, <1>7, <1>8 DEF IInv

LEMMA UnsubscribedStep ==
    ASSUME IInv, NEW c \in Callers, TeardownUnsubscribed(c)
    PROVE  IInv'
  <1> USE DEF TeardownUnsubscribed, link, stream
  <1>1. TypeOK /\ Basic
    BY DEF IInv
  <1>2. td'[c] = [pc |-> "bye", h |-> adapter] /\ \A d \in Callers : d # c => td'[d] = td[d]
    BY <1>1 DEF TypeOK
  <1>3. TypeOK'
    BY <1>1 DEF TypeOK, TeardownStates
  <1>4. ChainInv'
    BY ChainStands DEF IInv
  <1>5. Basic'
    BY <1>1, <1>2 DEF Basic, TdInv, FetchInv, FailsInv, AdapterInv, EpochInv, Running, Callers
  <1>6. ASSUME ~overtaken' PROVE Clean'
    <2>1. Clean
      BY <1>6 DEF IInv
    <2>2. ConnInv'
      BY <1>2, <2>1 DEF Clean, ConnInv, Running, Callers
    <2>3. TimerInv' /\ RetryInv'
      BY <2>1 DEF Clean, TimerInv, RetryInv
    <2>4. SessInv'
      BY <1>2, <2>1 DEF Clean, SessInv
    <2>5. HandleInv'
      BY <1>2, <2>1 DEF Clean, HandleInv
    <2>6. GroupInv'
      <3>1. \A g \in groups' : g # Null /\ g # td[c].h /\ g # unsub
        BY <1>1, <2>1, NullAssumption DEF Clean, HandleInv, TypeOK
      <3> QED
        BY <1>2, <2>1, <3>1 DEF Clean, GroupInv
    <2> QED
      BY <2>2, <2>3, <2>4, <2>5, <2>6 DEF Clean
  <1> QED
    BY <1>3, <1>4, <1>5, <1>6 DEF IInv

LEMMA TeardownEndStep ==
    ASSUME IInv, NEW c \in Callers, TeardownEnd(c)
    PROVE  IInv'
  <1> USE DEF TeardownEnd, link, stream
  <1>1. TypeOK /\ Basic
    BY DEF IInv
  <1>2. /\ td' \in [Callers -> TeardownStates]
        /\ td'[c].pc = "done" /\ td'[c].h = td[c].h /\ \A d \in Callers : d # c => td'[d] = td[d]
    BY <1>1 DEF TypeOK, TeardownStates
  <1>3. TypeOK'
    <2>1. sessions' \subseteq Attempts /\ fails' \in 0 .. MaxFails
      BY <1>1, BoundAssumption DEF TypeOK
    <2> QED
      BY <1>1, <1>2, <2>1 DEF TypeOK
  <1>4. ChainInv'
    BY ChainStands DEF IInv
  <1>5. Basic'
    BY <1>1, <1>2, BoundAssumption DEF Basic, TdInv, FetchInv, FailsInv, AdapterInv, EpochInv, Callers
  <1>6. ASSUME ~overtaken' PROVE Clean'
    <2>1. Clean
      BY <1>6 DEF IInv
    <2>2. sessEpoch = Null
      BY <2>1 DEF Clean, ConnInv, Running
    <2>3. ConnInv'
      BY <1>2, <2>1, <2>2 DEF Clean, ConnInv
    <2>4. TimerInv' /\ RetryInv'
      BY <2>1 DEF Clean, TimerInv, RetryInv
    <2>5. SessInv'
      BY <1>2, <2>1, <2>2 DEF Clean, SessInv
    <2>6. HandleInv'
      BY <1>2, <2>1 DEF Clean, HandleInv
    <2>7. GroupInv'
      BY <1>2, <2>1 DEF Clean, GroupInv
    <2> QED
      BY <2>3, <2>4, <2>5, <2>6, <2>7 DEF Clean
  <1> QED
    BY <1>3, <1>4, <1>5, <1>6 DEF IInv

LEMMA DisconnectStep ==
    ASSUME IInv, NEW u \in Users, Disconnect(u)
    PROVE  IInv'
  <1> USE DEF Disconnect, stream
  <1>1. TypeOK /\ Basic /\ AdapterInv /\ u \in Callers
    BY DEF IInv, Basic, Callers
  <1>2. /\ epoch' = epoch + 1 /\ sessEpoch' = Null /\ gen' = gen + 1 /\ timer' = Null
        /\ td' \in [Callers -> TeardownStates] /\ \A d \in Callers : d # u => td'[d] = td[d]
    BY <1>1, TeardownHead
  <1>3. /\ att' \in [Attempts -> AttemptStates]
        /\ \A x \in Attempts : /\ att'[x].pc = att[x].pc /\ att'[x].epoch = att[x].epoch /\ att'[x].after = att[x].after
                               /\ att'[x].h = att[x].h /\ att'[x].gen = att[x].gen
    <2>1. CASE connecting = Null
      BY <1>1, <2>1 DEF TypeOK
    <2>2. CASE connecting \in Attempts
      <3> DEFINE q == [att[connecting] EXCEPT !.cancelled = TRUE]
      <3>1. att' = [att EXCEPT ![connecting] = q]
        BY <2>2, NullAssumption
      <3>2. /\ q \in AttemptStates /\ q.pc = att[connecting].pc /\ q.epoch = att[connecting].epoch
            /\ q.after = att[connecting].after /\ q.h = att[connecting].h /\ q.gen = att[connecting].gen
        BY <1>1, <2>2 DEF TypeOK, AttemptStates
      <3> HIDE DEF q
      <3> QED
        BY <1>1, <2>2, <3>1, <3>2 DEF TypeOK
    <2> QED
      BY <1>1, <2>1, <2>2 DEF TypeOK
  <1>4. TypeOK'
    BY <1>1, <1>2, <1>3 DEF TypeOK
  <1>5. ChainInv'
    BY <1>1, <1>3, ChainGoesOn DEF IInv, Active
  <1>6. EpochInv' /\ (Clean => Clean')
    BY <1>1, <1>3, TeardownBegun
  <1>7. TdInv' /\ FetchInv' /\ FailsInv' /\ AdapterInv'
    BY <1>1, <1>2, <1>3, NamesAssumption DEF Basic, TdInv, FetchInv, FailsInv, AdapterInv, Callers, Running, TypeOK, Polls
  <1> QED
    BY <1>4, <1>5, <1>6, <1>7 DEF IInv, Basic

-----------------------------------------------------------------------------
(* Connects.                                                               *)

LEMMA DoConnectStep ==
    ASSUME IInv, NEW a \in Attempts, NEW r \in AttemptStates, NEW owner, DoConnect(a, r, owner), r.epoch <= epoch,
           \/ att[a].pc = "unused" /\ connecting = Null /\ owner = a
           \/ Ready(a) /\ owner = connecting /\ r = att[a],
           UNCHANGED <<connected, adapter, stream, retry, fetch, fails, sessions, groups, lost, retried, overtaken>>
    PROVE  IInv'
  <1> USE DEF stream
  <1>1. TypeOK /\ Basic /\ AdapterInv /\ ChainInv /\ a \in Callers /\ att[a].pc \in {"unused", "superWait"} /\ td[a].pc = "none"
    BY DEF IInv, Basic, Callers, TdInv, Ready, TypeOK, TeardownStates
  <1>2. \A x \in Attempts : att[x].pc \in Inactive
    BY <1>1, ActiveAlone, NobodyConnecting DEF Inactive, Super
  <1>3. CASE /\ connected /\ (adapter = Null \/ att[adapter].tgt # r.tgt)
             /\ SetAttempt(a, [r EXCEPT !.pc = "ownTd"])
             /\ connecting' = owner
             /\ quality' = "reconnecting"
             /\ BeginTeardown(a)
    <2>1. /\ epoch' = epoch + 1 /\ sessEpoch' = Null /\ gen' = gen + 1 /\ timer' = Null
          /\ td' \in [Callers -> TeardownStates] /\ \A d \in Callers : d # a => td'[d] = td[d]
      BY <1>1, <1>3, TeardownHead
    <2>2. /\ att' \in [Attempts -> AttemptStates] /\ \A x \in Attempts : x # a => att'[x] = att[x]
          /\ att'[a].pc = "ownTd" /\ att'[a].epoch = r.epoch /\ att'[a].after = r.after
      BY <1>1, <1>3 DEF SetAttempt, TypeOK, AttemptStates
    <2>3. TypeOK'
      BY <1>1, <1>3, <2>1, <2>2 DEF TypeOK
    <2>4. ChainInv'
      <3>1. CASE connecting = Null
        <4>1. ~Ready(a)
          BY <1>1, <3>1, ActiveAlone, NullAssumption
        <4> QED
          BY <1>1, <1>3, <2>2, <3>1, <4>1, ChainStarts DEF Super
      <3>2. CASE connecting # Null
        BY <1>1, <1>3, <2>2, <3>2, ChainGoesOn DEF Super, Ready, Inactive, Active
      <3> QED
        BY <3>1, <3>2
    <2>5. EpochInv' /\ (Clean => Clean')
      BY <1>1, <1>3, <2>2, TeardownBegun DEF AttemptStates, TypeOK
    <2>6. TdInv' /\ FetchInv' /\ FailsInv' /\ AdapterInv'
      BY <1>1, <2>1, <2>2, NamesAssumption DEF Basic, TdInv, FetchInv, FailsInv, AdapterInv, Callers, Running, Late, TypeOK, Polls
    <2> QED
      BY <2>3, <2>4, <2>5, <2>6 DEF IInv, Basic
  <1>4. ASSUME NEW q \in AttemptStates, att' = [att EXCEPT ![a] = q], UNCHANGED <<link, td>>,
               q.pc \in {"done", "probe"}, q.epoch <= epoch, q.after = r.after, q.pc = "probe" => ~connected,
               IF q.pc = "done" THEN Settle(a) ELSE connecting' = owner,
               quality' \in {"disconnected", "reconnecting", "polling", "live", "stale"}
        PROVE  IInv'
    <2>1. /\ att' \in [Attempts -> AttemptStates] /\ att'[a] = q
          /\ \A x \in Attempts : x # a => att'[x] = att[x]
      BY <1>1, <1>4 DEF TypeOK
    <2>2. owner \in Attempts /\ connecting' \in Attempts \cup {Null}
      BY <1>1, <1>4, ActiveAlone DEF Settle, TypeOK
    <2>3. TypeOK'
      BY <1>1, <1>4, <2>1, <2>2 DEF TypeOK, link
    <2>4. ChainInv'
      <3>1. CASE connecting = Null
        <4>1. ~Ready(a)
          BY <1>1, <3>1, ActiveAlone, NullAssumption
        <4>2. connecting' = IF att'[a].pc = "done" THEN Null ELSE a
          BY <1>4, <2>1, <3>1, <4>1 DEF Settle
        <4> QED
          BY <1>1, <1>4, <2>1, <3>1, <4>2, ChainStarts DEF Super
      <3>2. CASE connecting # Null /\ q.pc = "probe"
        BY <1>1, <1>4, <2>1, <3>2, ChainGoesOn DEF Super, Ready, Inactive, Active
      <3>3. CASE connecting # Null /\ q.pc = "done"
        BY <1>1, <1>4, <2>1, <3>3, ChainEnds
      <3> QED
        BY <1>4, <3>1, <3>2, <3>3
    <2>5. Basic'
      BY <1>1, <1>4, <2>1 DEF Basic, TdInv, FetchInv, FailsInv, AdapterInv, EpochInv, Running, Late, TypeOK, Polls, link
    <2>6. ASSUME ~overtaken' PROVE Clean'
      <3>1. Clean
        BY <2>6 DEF IInv
      <3>2. \A x \in Attempts : x # a => att'[x].pc = att[x].pc /\ att'[x].epoch = att[x].epoch /\ att'[x].h = att[x].h
        BY <2>1
      <3>3. ConnInv'
        BY <1>4, <2>1, <3>1 DEF Clean, ConnInv, Running, Early, Late, link
      <3>4. TimerInv' /\ RetryInv'
        BY <1>1, <1>4, <2>1, <3>1 DEF Clean, TimerInv, RetryInv, Late, link
      <3>5. SessInv'
        BY <1>1, <1>4, <2>1, <3>1 DEF Clean, SessInv, link
      <3>6. HandleInv'
        BY <1>1, <1>4, <2>1, <3>1 DEF Clean, HandleInv, link
      <3>7. GroupInv'
        BY <1>1, <1>4, <2>1, <3>1 DEF Clean, GroupInv, link
      <3> QED
        BY <3>3, <3>4, <3>5, <3>6, <3>7 DEF Clean
    <2> QED
      BY <2>3, <2>4, <2>5, <2>6 DEF IInv
  <1>5. CASE /\ connected /\ adapter # Null /\ att[adapter].tgt = r.tgt
             /\ SetAttempt(a, [r EXCEPT !.pc = "done"])
             /\ Settle(a)
             /\ quality' = QualityNow
             /\ UNCHANGED <<link, td>>
    <2> DEFINE q == [r EXCEPT !.pc = "done"]
    <2>1. q \in AttemptStates /\ q.pc = "done" /\ q.epoch = r.epoch /\ q.after = r.after
      BY DEF AttemptStates
    <2> HIDE DEF q
    <2>2. att' = [att EXCEPT ![a] = q]
      BY <1>5 DEF q, SetAttempt
    <2> QED
      BY <1>4, <1>5, <2>1, <2>2 DEF QualityNow, StreamQuality
  <1>6. CASE /\ ~connected
             /\ SetAttempt(a, [r EXCEPT !.epoch = epoch, !.pc = IF Cancelled(r) THEN "done" ELSE "probe"])
             /\ IF Cancelled(r) THEN Settle(a) ELSE connecting' = owner
             /\ quality' = "reconnecting"
             /\ UNCHANGED <<link, td>>
    <2> DEFINE q == [r EXCEPT !.epoch = epoch, !.pc = IF Cancelled(r) THEN "done" ELSE "probe"]
    <2>1. q \in AttemptStates /\ q.pc = (IF Cancelled(r) THEN "done" ELSE "probe") /\ q.epoch = epoch /\ q.after = r.after
      BY <1>1 DEF AttemptStates, TypeOK
    <2> HIDE DEF q
    <2>2. att' = [att EXCEPT ![a] = q]
      BY <1>6 DEF q, SetAttempt
    <2>3. epoch <= epoch
      BY <1>1 DEF TypeOK
    <2> QED
      BY <1>4, <1>6, <2>1, <2>2, <2>3
  <1> QED
    BY <1>3, <1>5, <1>6 DEF DoConnect

LEMMA ConnectStep ==
    ASSUME IInv, NEW t \in Targets, Connect(t)
    PROVE  IInv'
  <1> DEFINE r == [pc |-> "superTd", tgt |-> t, epoch |-> epoch, cancelled |-> FALSE, after |-> connecting, gen |-> 0, h |-> Null]
  <1>1. TypeOK /\ Basic /\ AdapterInv /\ ChainInv
    BY DEF IInv, Basic
  <1>2. PICK a \in Attempts : /\ a = (CHOOSE x \in Attempts : att[x].pc = "unused") /\ att[a].pc = "unused"
    BY DEF Connect
  <1>3. r \in AttemptStates /\ r.epoch <= epoch /\ r.pc = "superTd" /\ r.epoch = epoch /\ r.after = connecting
    BY <1>1 DEF AttemptStates, TypeOK
  <1>4. CASE connecting = Null /\ DoConnect(a, r, a)
    <2> HIDE DEF r
    <2>1. UNCHANGED <<connected, adapter, stream, retry, fetch, fails, sessions, groups, lost, retried, overtaken>>
      BY DEF Connect
    <2> QED
      BY <1>2, <1>3, <1>4, <2>1, DoConnectStep
  <1>5. CASE /\ connecting # Null
             /\ SetAttempt(a, r)
             /\ connecting' = a
             /\ BeginTeardown(a)
             /\ quality' = IF adapter = Null THEN "disconnected" ELSE quality
    <2> HIDE DEF r
    <2>1. UNCHANGED <<connected, adapter, stream, retry, fetch, fails, sessions, groups, lost, retried, overtaken>>
      BY DEF Connect
    <2> USE DEF stream
    <2>2. a \in Callers /\ td[a].pc = "none"
      BY <1>1, <1>2 DEF Basic, TdInv, Callers
    <2>3. /\ epoch' = epoch + 1 /\ sessEpoch' = Null /\ gen' = gen + 1 /\ timer' = Null
          /\ td' \in [Callers -> TeardownStates] /\ \A d \in Callers : d # a => td'[d] = td[d]
      BY <1>1, <1>5, <2>2, TeardownHead
    <2>4. att' \in [Attempts -> AttemptStates] /\ att'[a] = r /\ \A x \in Attempts : x # a => att'[x] = att[x]
      BY <1>1, <1>3, <1>5 DEF SetAttempt, TypeOK
    <2>5. TypeOK'
      BY <1>1, <1>5, <2>1, <2>3, <2>4 DEF TypeOK
    <2>6. ChainInv'
      BY <1>1, <1>2, <1>3, <1>5, <2>4, ChainGrows
    <2>7. EpochInv' /\ (Clean => Clean')
      <3>1. r.epoch \in 0 .. epoch
        BY <1>1, <1>3 DEF TypeOK
      <3> QED
        BY <1>1, <1>2, <1>3, <1>5, <2>1, <2>2, <2>4, <3>1, TeardownBegun
    <2>8. att'[a].pc = "superTd" /\ "poll" # a /\ "poll" \in Callers
      BY <1>3, <2>4, NamesAssumption DEF Callers
    <2>9. TdInv' /\ FailsInv'
      BY <1>1, <1>2, <2>1, <2>3, <2>4, <2>8 DEF Basic, TdInv, FailsInv, Callers, Running
    <2>10. FetchInv' /\ AdapterInv'
      BY <1>1, <1>2, <2>1, <2>4, <2>8 DEF Basic, FetchInv, AdapterInv, Late, TypeOK, Polls
    <2> QED
      BY <2>1, <2>5, <2>6, <2>7, <2>9, <2>10 DEF IInv, Basic
  <1> QED
    BY <1>2, <1>4, <1>5 DEF Connect

\* The superseding attempt is at its place in the queue.
LEMMA SupersededIs ==
    ASSUME TypeOK, ChainInv, NEW a \in Attempts, att[a].pc \in Super
    PROVE  att[a].after \in Attempts
  BY DEF ChainInv, Chain

LEMMA SupersedeGoStep ==
    ASSUME IInv, NEW a \in Attempts, SupersedeGo(a)
    PROVE  IInv'
  <1>1. TypeOK /\ ChainInv /\ EpochInv
    BY DEF IInv, Basic
  <1>2. att[a] \in AttemptStates /\ att[a].epoch <= epoch /\ Ready(a)
    BY <1>1, SupersededIs DEF TypeOK, EpochInv, Ready, Super, SupersedeGo
  <1> QED
    BY <1>2, DoConnectStep DEF SupersedeGo

LEMMA SupersedeTornDownStep ==
    ASSUME IInv, NEW a \in Attempts, SupersedeTornDown(a)
    PROVE  IInv'
  <1> USE DEF SupersedeTornDown, link, stream
  <1> DEFINE q == [att[a] EXCEPT !.pc = "superWait", !.epoch = epoch]
  <1>1. TypeOK /\ Basic /\ ChainInv /\ a \in Callers
    BY DEF IInv, Callers
  <1>2. q \in AttemptStates /\ q.pc = "superWait" /\ q.epoch = epoch /\ q.after = att[a].after
    BY <1>1 DEF TypeOK, AttemptStates
  <1>3. att' = [att EXCEPT ![a] = q]
    BY DEF SetAttempt
  <1> HIDE DEF q
  <1>4. att' \in [Attempts -> AttemptStates] /\ att'[a] = q /\ \A x \in Attempts : x # a => att'[x] = att[x]
    BY <1>1, <1>2, <1>3 DEF TypeOK
  <1>5. /\ td' \in [Callers -> TeardownStates] /\ td'[a].pc = "none"
        /\ \A d \in Callers : d # a => td'[d] = td[d]
    BY <1>1, NullAssumption DEF TypeOK, TeardownStates, NoTeardown
  <1>6. TypeOK'
    BY <1>1, <1>4, <1>5 DEF TypeOK
  <1>7. ChainInv'
    BY <1>1, <1>2, <1>4, ChainGoesOn DEF Super, Inactive, Active
  <1>8. Basic'
    BY <1>1, <1>2, <1>4, <1>5, NamesAssumption
       DEF Basic, TdInv, FetchInv, FailsInv, AdapterInv, EpochInv, Running, Late, TypeOK, Polls, Callers
  <1>9. ASSUME ~overtaken' PROVE Clean'
    <2>1. Clean
      BY <1>9 DEF IInv
    <2>2. ConnInv'
      BY <1>1, <1>2, <1>4, <1>5, <2>1 DEF Clean, ConnInv, Running, Early, Late, Callers
    <2>3. TimerInv' /\ RetryInv'
      BY <1>1, <1>2, <1>4, <2>1 DEF Clean, TimerInv, RetryInv, Late
    <2>4. SessInv'
      BY <1>1, <1>2, <1>4, <1>5, <2>1 DEF Clean, SessInv
    <2>5. HandleInv'
      BY <1>1, <1>2, <1>4, <1>5, <2>1 DEF Clean, HandleInv
    <2>6. GroupInv'
      BY <1>1, <1>2, <1>4, <1>5, <2>1 DEF Clean, GroupInv
    <2> QED
      BY <2>2, <2>3, <2>4, <2>5, <2>6 DEF Clean
  <1> QED
    BY <1>6, <1>7, <1>8, <1>9 DEF IInv

\* An attempt under way reaches its next place.
LEMMA AttemptGoesOn ==
    ASSUME TypeOK, ChainInv, NEW a \in Attempts, Active(a), NEW q \in AttemptStates, q.pc \notin Inactive,
           q.after = att[a].after, att' = [att EXCEPT ![a] = q], connecting' = connecting
    PROVE  /\ att' \in [Attempts -> AttemptStates] /\ att'[a] = q
           /\ \A x \in Attempts : x # a => att'[x] = att[x] /\ att[x].pc \in Inactive
           /\ ChainInv'
  <1>1. att' \in [Attempts -> AttemptStates] /\ att'[a] = q /\ \A x \in Attempts : x # a => att'[x] = att[x]
    BY DEF TypeOK
  <1>2. \A x \in Attempts : x # a => att[x].pc \in Inactive
    BY ActiveAlone
  <1>3. att[a].pc \notin Inactive /\ att'[a].pc \notin Super \cup {"unused", "done"}
    BY <1>1 DEF Active, Inactive
  <1>4. ChainInv'
    BY <1>1, <1>2, <1>3, ChainGoesOn DEF Inactive, Active
  <1> QED
    BY <1>1, <1>2, <1>4

\* An attempt under way ends.
LEMMA AttemptOver ==
    ASSUME TypeOK, ChainInv, NEW a \in Attempts, Active(a), Settle(a), NEW q \in AttemptStates, q.pc = "done",
           att' = [att EXCEPT ![a] = q]
    PROVE  /\ att' \in [Attempts -> AttemptStates] /\ att'[a] = q
           /\ \A x \in Attempts : x # a => att'[x] = att[x] /\ att[x].pc \in Inactive
           /\ connecting' \in Attempts \cup {Null}
           /\ ChainInv'
  <1>1. att' \in [Attempts -> AttemptStates] /\ att'[a] = q /\ \A x \in Attempts : x # a => att'[x] = att[x]
    BY DEF TypeOK
  <1>2. \A x \in Attempts : x # a => att[x].pc \in Inactive
    BY ActiveAlone
  <1>3. ChainInv'
    BY <1>1, ChainEnds
  <1> QED
    BY <1>1, <1>2, <1>3 DEF Settle, TypeOK

LEMMA OwnTornDownStep ==
    ASSUME IInv, NEW a \in Attempts, OwnTornDown(a)
    PROVE  IInv'
  <1> USE DEF OwnTornDown, link, stream
  <1> DEFINE p == IF Cancelled(att[a]) THEN "done" ELSE "probe"
             q == [att[a] EXCEPT !.epoch = epoch, !.pc = p]
  <1>1. TypeOK /\ Basic /\ ChainInv /\ a \in Callers /\ Active(a)
    BY DEF IInv, Callers, Active, Inactive, Super
  <1>2. q \in AttemptStates /\ q.pc = p /\ q.epoch = epoch /\ q.after = att[a].after /\ p \in {"done", "probe"}
    <2>1. p \in {"done", "probe"}
      OBVIOUS
    <2> HIDE DEF p
    <2> QED
      BY <1>1, <2>1 DEF TypeOK, AttemptStates
  <1>3. att' = [att EXCEPT ![a] = q]
    BY DEF SetAttempt
  <1> HIDE DEF q
  <1>4. /\ att' \in [Attempts -> AttemptStates] /\ att'[a] = q
        /\ \A x \in Attempts : x # a => att'[x] = att[x] /\ att[x].pc \in Inactive
        /\ connecting' \in Attempts \cup {Null} /\ ChainInv'
    <2>1. CASE Cancelled(att[a])
      BY <1>1, <1>2, <1>3, <2>1, AttemptOver
    <2>2. CASE ~Cancelled(att[a])
      BY <1>1, <1>2, <1>3, <2>2, AttemptGoesOn DEF Inactive, Super, TypeOK
    <2> QED
      BY <2>1, <2>2
  <1>5. /\ td' \in [Callers -> TeardownStates] /\ td'[a].pc = "none"
        /\ \A d \in Callers : d # a => td'[d] = td[d]
    BY <1>1, NullAssumption DEF TypeOK, TeardownStates, NoTeardown
  <1>6. TypeOK'
    BY <1>1, <1>4, <1>5 DEF TypeOK, QualityNow, StreamQuality
  <1>7. Basic'
    BY <1>1, <1>2, <1>4, <1>5, NamesAssumption
       DEF Basic, TdInv, FetchInv, FailsInv, AdapterInv, EpochInv, Running, Late, TypeOK, Polls, Callers
  <1>8. ASSUME ~overtaken' PROVE Clean'
    <2>1. Clean
      BY <1>8 DEF IInv
    <2>2. ConnInv'
      BY <1>1, <1>2, <1>4, <1>5, <2>1 DEF Clean, ConnInv, Running, Early, Late, Callers
    <2>3. TimerInv' /\ RetryInv'
      BY <1>1, <1>2, <1>4, <2>1 DEF Clean, TimerInv, RetryInv, Late
    <2>4. SessInv'
      BY <1>1, <1>2, <1>4, <1>5, <2>1 DEF Clean, SessInv
    <2>5. HandleInv'
      BY <1>1, <1>2, <1>4, <1>5, <2>1 DEF Clean, HandleInv
    <2>6. GroupInv'
      BY <1>1, <1>2, <1>4, <1>5, <2>1 DEF Clean, GroupInv
    <2> QED
      BY <2>2, <2>3, <2>4, <2>5, <2>6 DEF Clean
  <1> QED
    BY <1>4, <1>6, <1>7, <1>8 DEF IInv

Qualities == {"disconnected", "reconnecting", "polling", "live", "stale"}
LEMMA QualityIs ==
    ASSUME TypeOK
    PROVE  QualityNow \in Qualities /\ quality \in Qualities
  BY DEF TypeOK, QualityNow, StreamQuality, Qualities

\* The attempt ends before or without a connection.
LEMMA EarlyOver ==
    ASSUME IInv, NEW a \in Attempts, att[a].pc \in {"probe", "login"},
           SetAttempt(a, [att[a] EXCEPT !.pc = "done"]), Settle(a), quality' \in Qualities,
           UNCHANGED <<link, connected, adapter, stream, retry, fetch, fails, td, sessions, groups, lost, retried, overtaken>>
    PROVE  IInv'
  <1> USE DEF link, stream
  <1> DEFINE q == [att[a] EXCEPT !.pc = "done"]
  <1>1. TypeOK /\ Basic /\ ChainInv /\ Active(a)
    BY DEF IInv, Active, Inactive, Super
  <1>2. q \in AttemptStates /\ q.pc = "done" /\ q.epoch = att[a].epoch
    BY <1>1 DEF TypeOK, AttemptStates
  <1>3. att' = [att EXCEPT ![a] = q]
    BY DEF SetAttempt
  <1> HIDE DEF q
  <1>4. /\ att' \in [Attempts -> AttemptStates] /\ att'[a] = q
        /\ \A x \in Attempts : x # a => att'[x] = att[x] /\ att[x].pc \in Inactive
        /\ connecting' \in Attempts \cup {Null} /\ ChainInv'
    BY <1>1, <1>2, <1>3, AttemptOver
  <1>5. TypeOK'
    BY <1>1, <1>4 DEF TypeOK, Qualities
  <1>6. Basic'
    BY <1>1, <1>2, <1>4 DEF Basic, TdInv, FetchInv, FailsInv, AdapterInv, EpochInv, Running, Late, TypeOK, Polls
  <1>7. ASSUME ~overtaken' PROVE Clean'
    <2>1. Clean
      BY <1>7 DEF IInv
    <2>2. ConnInv'
      BY <1>1, <1>2, <1>4, <2>1 DEF Clean, ConnInv, Running, Early, Late
    <2>3. TimerInv' /\ RetryInv'
      BY <1>1, <1>2, <1>4, <2>1 DEF Clean, TimerInv, RetryInv, Late
    <2>4. SessInv'
      BY <1>1, <1>2, <1>4, <2>1 DEF Clean, SessInv
    <2>5. HandleInv'
      BY <1>1, <1>2, <1>4, <2>1 DEF Clean, HandleInv
    <2>6. GroupInv'
      BY <1>1, <1>2, <1>4, <2>1 DEF Clean, GroupInv
    <2> QED
      BY <2>2, <2>3, <2>4, <2>5, <2>6 DEF Clean
  <1> QED
    BY <1>4, <1>5, <1>6, <1>7 DEF IInv

LEMMA ProbedStep ==
    ASSUME IInv, NEW a \in Attempts, Probed(a)
    PROVE  IInv'
  <1> DEFINE Rest == UNCHANGED <<link, connected, stream, retry, fetch, fails, td, sessions, groups, lost, retried, overtaken>>
  <1>1. TypeOK /\ Basic /\ ChainInv /\ att[a].pc = "probe" /\ Active(a) /\ Rest
    BY DEF IInv, Active, Inactive, Super, Probed
  <1> HIDE DEF Rest
  <1>2. CASE Throw(a) /\ UNCHANGED adapter
    BY <1>1, <1>2, EarlyOver DEF Throw, Qualities, Rest
  <1>3. CASE Aborted(a) /\ Return(a) /\ UNCHANGED adapter
    BY <1>1, <1>3, EarlyOver, QualityIs DEF Return, Rest
  <1>4. CASE /\ adapter' \in {adapter, a} /\ (adapter = Null => adapter' = a)
             /\ SetAttempt(a, [att[a] EXCEPT !.pc = "login"])
             /\ UNCHANGED <<connecting, quality>>
    <2> USE DEF link, stream, Rest
    <2> DEFINE q == [att[a] EXCEPT !.pc = "login"]
    <2>1. q \in AttemptStates /\ q.pc = "login" /\ q.epoch = att[a].epoch /\ q.after = att[a].after
      BY <1>1 DEF TypeOK, AttemptStates
    <2>2. att' = [att EXCEPT ![a] = q]
      BY <1>4 DEF SetAttempt
    <2> HIDE DEF q
    <2>3. /\ att' \in [Attempts -> AttemptStates] /\ att'[a] = q
          /\ \A x \in Attempts : x # a => att'[x] = att[x] /\ att[x].pc \in Inactive
          /\ ChainInv'
      BY <1>1, <1>4, <2>1, <2>2, AttemptGoesOn DEF Inactive, Super
    <2>4. TypeOK' /\ adapter' # Null
      BY <1>1, <1>4, <2>3, NullAssumption DEF TypeOK
    <2>5. Basic'
      BY <1>1, <2>1, <2>3, <2>4 DEF Basic, TdInv, FetchInv, FailsInv, AdapterInv, EpochInv, Running, Late, TypeOK, Polls
    <2>6. ASSUME ~overtaken' PROVE Clean'
      <3>1. Clean /\ ~connected /\ sessEpoch = Null
        BY <1>1, <2>6 DEF IInv, Clean, ConnInv, Early
      <3>2. ConnInv'
        BY <1>1, <2>1, <2>3, <3>1 DEF Clean, ConnInv, Running, Early, Late
      <3>3. TimerInv' /\ RetryInv'
        BY <1>1, <2>1, <2>3, <3>1 DEF Clean, TimerInv, RetryInv, Late
      <3>4. sessions = {}
        BY <1>1, <2>3, <3>1 DEF Clean, SessInv, Inactive, Super
      <3>5. SessInv'
        BY <1>1, <3>1, <3>4 DEF SessInv
      <3>6. HandleInv'
        BY <1>1, <2>1, <2>3, <3>1 DEF Clean, HandleInv
      <3>7. GroupInv'
        BY <1>1, <2>1, <2>3, <3>1 DEF Clean, GroupInv
      <3> QED
        BY <3>2, <3>3, <3>5, <3>6, <3>7 DEF Clean
    <2> QED
      BY <2>3, <2>4, <2>5, <2>6 DEF IInv
  <1> QED
    BY <1>2, <1>3, <1>4 DEF Probed

LEMMA LoggedInStep ==
    ASSUME IInv, NEW a \in Attempts, LoggedIn(a)
    PROVE  IInv'
  <1>1. /\ TypeOK /\ Basic /\ ChainInv /\ att[a].pc = "login" /\ Active(a)
        /\ UNCHANGED <<epoch, gen, timer, adapter, unsub, subActive, unbound, retry, fetch, fails, td, groups, lost, retried>>
    BY DEF IInv, Active, Inactive, Super, LoggedIn
  <1>2. CASE Throw(a) /\ UNCHANGED <<connected, sessEpoch, due, sessions, overtaken>>
    BY <1>1, <1>2, EarlyOver DEF Throw, Qualities, link, stream
  <1>3. adapter \in Attempts
    BY <1>1 DEF Basic, AdapterInv, TypeOK
  <1>4. CASE /\ sessions' = sessions \cup {adapter}
             /\ SetAttempt(a, [att[a] EXCEPT !.pc = "closing", !.h = adapter])
             /\ UNCHANGED <<connecting, quality, connected, sessEpoch, due, overtaken>>
    <2> DEFINE q == [att[a] EXCEPT !.pc = "closing", !.h = adapter]
    <2>1. q \in AttemptStates /\ q.pc = "closing" /\ q.h = adapter /\ q.epoch = att[a].epoch /\ q.after = att[a].after
      BY <1>1, <1>3 DEF TypeOK, AttemptStates
    <2>2. att' = [att EXCEPT ![a] = q]
      BY <1>4 DEF SetAttempt
    <2> HIDE DEF q
    <2>3. /\ att' \in [Attempts -> AttemptStates] /\ att'[a] = q
          /\ \A x \in Attempts : x # a => att'[x] = att[x] /\ att[x].pc \in Inactive
          /\ ChainInv'
      BY <1>1, <1>4, <2>1, <2>2, AttemptGoesOn DEF Inactive, Super
    <2>4. TypeOK'
      BY <1>1, <1>3, <1>4, <2>3 DEF TypeOK
    <2>5. Basic'
      BY <1>1, <1>4, <2>1, <2>3 DEF Basic, TdInv, FetchInv, FailsInv, AdapterInv, EpochInv, Running, Late, TypeOK, Polls
    <2>6. ASSUME ~overtaken' PROVE Clean'
      <3>1. Clean
        BY <1>4, <2>6 DEF IInv
      <3>2. ConnInv'
        BY <1>1, <1>4, <2>1, <2>3, <3>1 DEF Clean, ConnInv, Running, Early, Late
      <3>3. TimerInv' /\ RetryInv'
        BY <1>1, <1>4, <2>1, <2>3, <3>1 DEF Clean, TimerInv, RetryInv, Late
      <3>4. SessInv'
        BY <1>1, <1>4, <2>1, <2>3, <3>1 DEF Clean, SessInv, Inactive, Super
      <3>5. HandleInv'
        BY <1>1, <1>4, <2>1, <2>3, <3>1 DEF Clean, HandleInv
      <3>6. GroupInv'
        BY <1>1, <1>4, <2>1, <2>3, <3>1 DEF Clean, GroupInv
      <3> QED
        BY <3>2, <3>3, <3>4, <3>5, <3>6 DEF Clean
    <2> QED
      BY <2>3, <2>4, <2>5, <2>6 DEF IInv
  <1>5. CASE /\ sessions' = sessions \cup {adapter} /\ ~Aborted(a)
             /\ connected' = TRUE
             /\ sessEpoch' = att[a].epoch
             /\ due' = FALSE
             /\ overtaken' = (overtaken \/ \E c \in Callers : td[c].pc \notin {"none", "done"})
             /\ SetAttempt(a, [att[a] EXCEPT !.pc = "subWait"])
             /\ UNCHANGED <<connecting, quality>>
    <2> DEFINE q == [att[a] EXCEPT !.pc = "subWait"]
    <2>1. /\ q \in AttemptStates /\ q.pc = "subWait" /\ q.epoch = att[a].epoch /\ q.after = att[a].after
          /\ q.cancelled = att[a].cancelled
      BY <1>1, <1>3 DEF TypeOK, AttemptStates
    <2>2. att' = [att EXCEPT ![a] = q]
      BY <1>5 DEF SetAttempt
    <2> HIDE DEF q
    <2>3. /\ att' \in [Attempts -> AttemptStates] /\ att'[a] = q
          /\ \A x \in Attempts : x # a => att'[x] = att[x] /\ att[x].pc \in Inactive
          /\ ChainInv'
      BY <1>1, <1>5, <2>1, <2>2, AttemptGoesOn DEF Inactive, Super
    <2>4. att[a].epoch = epoch /\ ~att[a].cancelled /\ epoch \in Nat /\ epoch # Null
      BY <1>1, <1>5, NullAssumption DEF Aborted, Cancelled, TypeOK
    <2>5. TypeOK'
      BY <1>1, <1>3, <1>5, <2>3, <2>4 DEF TypeOK
    <2>6. Basic'
      BY <1>1, <1>3, <1>5, <2>1, <2>3, <2>4, NullAssumption
         DEF Basic, TdInv, FetchInv, FailsInv, AdapterInv, EpochInv, Running, Late, TypeOK, Polls
    <2>7. ASSUME ~overtaken' PROVE Clean'
      <3>1. Clean /\ \A c \in Callers : td[c].pc \in {"none", "done"}
        BY <1>5, <2>7 DEF IInv
      <3>2. ~connected /\ sessEpoch = Null /\ timer = Null
        BY <1>1, <3>1 DEF Clean, ConnInv, TimerInv, Early
      <3>3. unsub = Null
        BY <1>1, <2>3, <3>1, <3>2 DEF Clean, HandleInv, Inactive, Super
      <3>4. sessions = {}
        BY <1>1, <2>3, <3>1, <3>2 DEF Clean, SessInv, Inactive, Super
      <3>5. ConnInv'
        BY <1>1, <1>5, <2>1, <2>3, <2>4, <3>1 DEF ConnInv, Running, Early, Late, Inactive, Super
      <3>6. TimerInv'
        BY <1>1, <1>5, <2>1, <2>3, <3>2 DEF TimerInv, Late
      <3>7. RetryInv'
        BY <1>1, <3>1, <3>2 DEF Clean, RetryInv
      <3>8. SessInv'
        BY <1>1, <1>5, <3>1, <3>4 DEF SessInv
      <3>9. HandleInv'
        BY <1>1, <3>1, <3>3, <2>1, <2>3 DEF HandleInv, Inactive, Super
      <3>10. GroupInv'
        BY <1>1, <2>1, <2>3, <3>1 DEF Clean, GroupInv
      <3> QED
        BY <3>5, <3>6, <3>7, <3>8, <3>9, <3>10 DEF Clean
    <2> QED
      BY <2>3, <2>5, <2>6, <2>7 DEF IInv
  <1> QED
    BY <1>2, <1>4, <1>5 DEF LoggedIn

LEMMA ClosedStep ==
    ASSUME IInv, NEW a \in Attempts, Closed(a)
    PROVE  IInv'
  <1> USE DEF Closed, link, stream
  <1> DEFINE q == [att[a] EXCEPT !.pc = "done"]
  <1>1. TypeOK /\ Basic /\ ChainInv /\ Active(a) /\ quality' \in Qualities
    BY QualityIs DEF IInv, Active, Inactive, Super, Return
  <1>2. q \in AttemptStates /\ q.pc = "done" /\ q.epoch = att[a].epoch
    BY <1>1 DEF TypeOK, AttemptStates
  <1>3. att' = [att EXCEPT ![a] = q] /\ Settle(a)
    BY DEF SetAttempt, Return
  <1> HIDE DEF q
  <1>4. /\ att' \in [Attempts -> AttemptStates] /\ att'[a] = q
        /\ \A x \in Attempts : x # a => att'[x] = att[x] /\ att[x].pc \in Inactive
        /\ connecting' \in Attempts \cup {Null} /\ ChainInv'
    BY <1>1, <1>2, <1>3, AttemptOver
  <1>5. TypeOK'
    BY <1>1, <1>4 DEF TypeOK, Qualities
  <1>6. Basic'
    BY <1>1, <1>2, <1>4 DEF Basic, TdInv, FetchInv, FailsInv, AdapterInv, EpochInv, Running, Late, TypeOK, Polls
  <1>7. ASSUME ~overtaken' PROVE Clean'
    <2>1. Clean /\ sessEpoch = Null
      BY <1>7 DEF IInv, Clean, ConnInv, Early
    <2>2. ConnInv'
      BY <1>1, <1>2, <1>4, <2>1 DEF Clean, ConnInv, Running, Early, Late
    <2>3. TimerInv' /\ RetryInv'
      BY <1>1, <1>2, <1>4, <2>1 DEF Clean, TimerInv, RetryInv, Late
    <2>4. SessInv'
      BY <1>1, <1>2, <1>4, <2>1 DEF Clean, SessInv, Inactive, Super
    <2>5. HandleInv'
      BY <1>1, <1>2, <1>4, <2>1 DEF Clean, HandleInv
    <2>6. GroupInv'
      BY <1>1, <1>2, <1>4, <2>1 DEF Clean, GroupInv
    <2> QED
      BY <2>2, <2>3, <2>4, <2>5, <2>6 DEF Clean
  <1> QED
    BY <1>4, <1>5, <1>6, <1>7 DEF IInv

LEMMA SubscribeStartStep ==
    ASSUME IInv, NEW a \in Attempts, SubscribeStart(a)
    PROVE  IInv'
  <1> USE DEF SubscribeStart, link, stream
  <1> DEFINE p == IF att[a].epoch = epoch THEN "subscribe" ELSE "subDone"
             q == [att[a] EXCEPT !.pc = p]
  <1>1. TypeOK /\ Basic /\ ChainInv /\ Active(a) /\ p \in {"subscribe", "subDone"}
    BY DEF IInv, Active, Inactive, Super
  <1>2. att' = [att EXCEPT ![a] = q]
    BY DEF SetAttempt
  <1> HIDE DEF p
  <1>3. /\ q \in AttemptStates /\ q.pc = p /\ q.epoch = att[a].epoch /\ q.after = att[a].after
        /\ q.cancelled = att[a].cancelled
    BY <1>1 DEF TypeOK, AttemptStates
  <1> HIDE DEF q
  <1>4. /\ att' \in [Attempts -> AttemptStates] /\ att'[a] = q
        /\ \A x \in Attempts : x # a => att'[x] = att[x] /\ att[x].pc \in Inactive
        /\ ChainInv'
    BY <1>1, <1>2, <1>3, AttemptGoesOn DEF Inactive, Super
  <1>5. TypeOK'
    BY <1>1, <1>4 DEF TypeOK
  <1>6. Basic'
    BY <1>1, <1>3, <1>4 DEF Basic, TdInv, FetchInv, FailsInv, AdapterInv, EpochInv, Running, Late, TypeOK, Polls
  <1>7. ASSUME ~overtaken' PROVE Clean'
    <2>1. Clean
      BY <1>7 DEF IInv
    <2>2. ConnInv'
      BY <1>1, <1>3, <1>4, <2>1 DEF Clean, ConnInv, Running, Early, Late
    <2>3. TimerInv' /\ RetryInv'
      BY <1>1, <1>3, <1>4, <2>1 DEF Clean, TimerInv, RetryInv, Late
    <2>4. SessInv'
      BY <1>1, <1>3, <1>4, <2>1 DEF Clean, SessInv
    <2>5. HandleInv'
      BY <1>1, <1>3, <1>4, <2>1 DEF Clean, HandleInv
    <2>6. GroupInv'
      BY <1>1, <1>3, <1>4, <2>1 DEF Clean, GroupInv
    <2> QED
      BY <2>2, <2>3, <2>4, <2>5, <2>6 DEF Clean
  <1> QED
    BY <1>4, <1>5, <1>6, <1>7 DEF IInv

LEMMA SubscribedStep ==
    ASSUME IInv, NEW a \in Attempts, Subscribed(a)
    PROVE  IInv'
  <1> DEFINE q == [att[a] EXCEPT !.pc = "subDone"]
  <1>1. /\ TypeOK /\ Basic /\ ChainInv /\ Active(a) /\ att[a].pc = "subscribe"
        /\ UNCHANGED <<connecting, epoch, sessEpoch, gen, timer, connected, adapter, retry, fetch, fails, quality, td,
                       sessions, lost, retried, overtaken>>
    BY DEF IInv, Active, Inactive, Super, Subscribed, link
  <1>2. att' = [att EXCEPT ![a] = q]
    BY DEF SetAttempt, Subscribed
  <1>3. /\ q \in AttemptStates /\ q.pc = "subDone" /\ q.epoch = att[a].epoch /\ q.after = att[a].after
        /\ q.cancelled = att[a].cancelled
    BY <1>1 DEF TypeOK, AttemptStates
  <1> HIDE DEF q
  <1>4. /\ att' \in [Attempts -> AttemptStates] /\ att'[a] = q
        /\ \A x \in Attempts : x # a => att'[x] = att[x] /\ att[x].pc \in Inactive
        /\ ChainInv'
    BY <1>1, <1>2, <1>3, AttemptGoesOn DEF Inactive, Super
  <1>5. /\ subActive' \in BOOLEAN /\ unbound' \in BOOLEAN /\ due' \in BOOLEAN
        /\ \/ groups' = groups \cup {a} /\ unsub' = a
           \/ groups' = groups /\ unsub' = unsub
    BY <1>1 DEF Subscribed, TypeOK
  <1>6. TypeOK'
    BY <1>1, <1>4, <1>5 DEF TypeOK
  <1>7. Basic'
    BY <1>1, <1>3, <1>4, <1>5 DEF Basic, TdInv, FetchInv, FailsInv, AdapterInv, EpochInv, Running, Late, TypeOK, Polls
  <1>8. ASSUME ~overtaken' PROVE Clean'
    <2>1. Clean /\ unsub = Null /\ \A c \in Callers : td[c].pc # "unsub"
      BY <1>1, <1>8 DEF IInv, Clean, HandleInv
    <2>2. ConnInv'
      BY <1>1, <1>3, <1>4, <2>1 DEF Clean, ConnInv, Running, Early, Late
    <2>3. TimerInv' /\ RetryInv'
      BY <1>1, <1>3, <1>4, <2>1 DEF Clean, TimerInv, RetryInv, Late
    <2>4. SessInv'
      BY <1>1, <1>3, <1>4, <2>1 DEF Clean, SessInv
    <2>5. HandleInv'
      BY <1>1, <1>3, <1>4, <1>5, <2>1 DEF Clean, HandleInv, Inactive, Super
    <2>6. GroupInv'
      <3>1. \A g \in groups : g # Null
        BY <1>1, NullAssumption DEF TypeOK
      <3> QED
        BY <1>1, <1>3, <1>4, <1>5, <2>1, <3>1 DEF Clean, GroupInv
    <2> QED
      BY <2>2, <2>3, <2>4, <2>5, <2>6 DEF Clean
  <1> QED
    BY <1>4, <1>6, <1>7, <1>8 DEF IInv

LEMMA PollTimerIs ==
    ASSUME NEW g \in Nat
    PROVE  \A active, left : /\ PollTimer(g, active, left) \in Timers /\ PollTimer(g, active, left).gen = g
                             /\ PollTimer(g, active, left) # Null
  <1> SUFFICES ASSUME NEW active, NEW left
               PROVE  /\ PollTimer(g, active, left) \in Timers /\ PollTimer(g, active, left).gen = g
                      /\ PollTimer(g, active, left) # Null
    OBVIOUS
  <1>1. PollTimer(g, active, left) \in Timers /\ PollTimer(g, active, left).gen = g
    BY DEF PollTimer, Timers, StreamBringsStatus
  <1> QED
    BY <1>1, NullAssumption

LEMMA UndoneStep ==
    ASSUME IInv, NEW a \in Attempts, Undone(a)
    PROVE  IInv'
  <1> DEFINE q == [att[a] EXCEPT !.pc = "closing", !.h = adapter]
  <1>1. TypeOK /\ Basic /\ ChainInv /\ Active(a) /\ adapter \in Attempts
    BY DEF IInv, Active, Inactive, Super, Basic, AdapterInv, TypeOK, Undone
  <1>2. att' = [att EXCEPT ![a] = q]
    BY DEF SetAttempt, Undone
  <1>3. /\ q \in AttemptStates /\ q.pc = "closing" /\ q.epoch = att[a].epoch /\ q.after = att[a].after
    BY <1>1 DEF TypeOK, AttemptStates
  <1> HIDE DEF q
  <1> USE DEF Undone, link
  <1>4. /\ att' \in [Attempts -> AttemptStates] /\ att'[a] = q
        /\ \A x \in Attempts : x # a => att'[x] = att[x] /\ att[x].pc \in Inactive
        /\ ChainInv'
    BY <1>1, <1>2, <1>3, AttemptGoesOn DEF Inactive, Super
  <1>5. TypeOK'
    BY <1>1, <1>4 DEF TypeOK
  <1>6. Basic'
    BY <1>1, <1>3, <1>4 DEF Basic, TdInv, FetchInv, FailsInv, AdapterInv, EpochInv, Running, Late, TypeOK, Polls
  <1>7. ASSUME ~overtaken' PROVE Clean'
    <2>1. Clean
      BY <1>7 DEF IInv
    <2>2. ConnInv'
      BY <1>1, <1>3, <1>4, <2>1 DEF Clean, ConnInv, Running, Early, Late
    <2>3. TimerInv' /\ RetryInv'
      BY <1>1, <1>3, <1>4, <2>1 DEF Clean, TimerInv, RetryInv, Late
    <2>4. SessInv'
      BY <1>1, <1>3, <1>4, <2>1 DEF Clean, SessInv
    <2>5. HandleInv'
      BY <1>1, <1>3, <1>4, <2>1 DEF Clean, HandleInv, Inactive, Super
    <2>6. GroupInv'
      <3>1. \A g \in groups' : g \in groups /\ g # Null /\ g # att[a].h /\ g # unsub
        BY <1>1, <2>1, NullAssumption DEF Clean, HandleInv, TypeOK
      <3> QED
        BY <1>1, <1>3, <1>4, <2>1, <3>1 DEF Clean, GroupInv
    <2> QED
      BY <2>2, <2>3, <2>4, <2>5, <2>6 DEF Clean
  <1> QED
    BY <1>4, <1>5, <1>6, <1>7 DEF IInv

LEMMA ConnectEndStep ==
    ASSUME IInv, NEW a \in Attempts, ConnectEnd(a)
    PROVE  IInv'
  <1> DEFINE q == [att[a] EXCEPT !.pc = "done"]
  <1>1. /\ TypeOK /\ Basic /\ ChainInv /\ Active(a) /\ quality' \in Qualities /\ att[a].pc = "polled"
        /\ UNCHANGED <<epoch, sessEpoch, gen, connected, adapter, unsub, subActive, unbound, due, retry, fetch, fails, td,
                       sessions, groups, lost, retried, overtaken>>
    BY QualityIs DEF IInv, Active, Inactive, Super, Return, ConnectEnd, stream
  <1>2. q \in AttemptStates /\ q.pc = "done" /\ q.epoch = att[a].epoch
    BY <1>1 DEF TypeOK, AttemptStates
  <1>3. att' = [att EXCEPT ![a] = q] /\ Settle(a)
    BY DEF SetAttempt, Return, ConnectEnd
  <1> HIDE DEF q
  <1>4. /\ att' \in [Attempts -> AttemptStates] /\ att'[a] = q
        /\ \A x \in Attempts : x # a => att'[x] = att[x] /\ att[x].pc \in Inactive
        /\ connecting' \in Attempts \cup {Null} /\ ChainInv'
    BY <1>1, <1>2, <1>3, AttemptOver
  <1>5. \/ Aborted(a) /\ timer' = timer
        \/ ~Aborted(a) /\ timer' \in Timers /\ timer'.gen = att[a].gen
    <2>1. att[a].gen \in Nat
      BY <1>1 DEF TypeOK, AttemptStates
    <2> QED
      BY <2>1, PollTimerIs DEF ConnectEnd
  <1>6. TypeOK'
    BY <1>1, <1>4, <1>5 DEF TypeOK, Qualities
  <1>7. Basic'
    BY <1>1, <1>2, <1>4 DEF Basic, TdInv, FetchInv, FailsInv, AdapterInv, EpochInv, Running, Late, TypeOK, Polls
  <1>8. ASSUME ~overtaken' PROVE Clean'
    <2>1. Clean
      BY <1>1, <1>8 DEF IInv
    <2>2. ConnInv'
      BY <1>1, <1>2, <1>4, <2>1 DEF Clean, ConnInv, Running, Early, Late
    <2>3. TimerInv'
      <3>1. Aborted(a) => sessEpoch = Null /\ timer = Null
        BY <1>1, <2>1 DEF Clean, ConnInv, TimerInv, Aborted, Cancelled, Late
      <3>2. ~Aborted(a) => sessEpoch # Null /\ att[a].gen = gen
        BY <1>1, <2>1 DEF Clean, ConnInv, Basic, EpochInv, Aborted, Cancelled, Late
      <3> QED
        BY <1>1, <1>2, <1>4, <1>5, <3>1, <3>2, NullAssumption DEF TimerInv, Late, Inactive, Super
    <2>4. RetryInv'
      BY <1>1, <1>2, <1>4, <2>1 DEF Clean, RetryInv, Late
    <2>5. SessInv'
      BY <1>1, <1>2, <1>4, <2>1 DEF Clean, SessInv
    <2>6. HandleInv'
      BY <1>1, <1>2, <1>4, <2>1 DEF Clean, HandleInv
    <2>7. GroupInv'
      BY <1>1, <1>2, <1>4, <2>1 DEF Clean, GroupInv
    <2> QED
      BY <2>2, <2>3, <2>4, <2>5, <2>6, <2>7 DEF Clean
  <1> QED
    BY <1>4, <1>6, <1>7, <1>8 DEF IInv

LEMMA LeftWith ==
    ASSUME NEW r \in AttemptStates, NEW p \in {"closing", "undo"}, NEW v \in Attempts \cup Retries \cup {Null}
    PROVE  /\ [r EXCEPT !.pc = p, !.h = v] \in AttemptStates /\ [r EXCEPT !.pc = p, !.h = v].pc = p
           /\ [r EXCEPT !.pc = p, !.h = v].h = v /\ [r EXCEPT !.pc = p, !.h = v].epoch = r.epoch
           /\ [r EXCEPT !.pc = p, !.h = v].after = r.after
  BY DEF AttemptStates

LEMMA FirstPollStep ==
    ASSUME IInv, NEW a \in Attempts, FirstPoll(a)
    PROVE  IInv'
  <1>1. /\ TypeOK /\ Basic /\ ChainInv /\ Active(a) /\ att[a].pc = "subDone" /\ adapter \in Attempts
        /\ UNCHANGED <<epoch, sessEpoch, connected, adapter, unsub, due, retry, td, sessions, groups, lost, retried, overtaken>>
    BY DEF IInv, Basic, AdapterInv, Late, TypeOK, Active, Inactive, Super, FirstPoll
  <1>2. CASE Aborted(a)
    <2> DEFINE q == IF unsub = Null THEN [att[a] EXCEPT !.pc = "closing", !.h = adapter]
                                    ELSE [att[a] EXCEPT !.pc = "undo", !.h = unsub]
    <2>1. att' = [att EXCEPT ![a] = q]
      BY <1>2 DEF SetAttempt, FirstPoll
    <2>2. /\ q \in AttemptStates /\ q.epoch = att[a].epoch /\ q.after = att[a].after
          /\ q.pc = (IF unsub = Null THEN "closing" ELSE "undo") /\ (unsub # Null => q.h = unsub)
      <3>1. att[a] \in AttemptStates /\ {adapter, unsub} \subseteq Attempts \cup Retries \cup {Null}
        BY <1>1 DEF TypeOK
      <3>2. CASE unsub = Null
        <4>1. q = [att[a] EXCEPT !.pc = "closing", !.h = adapter]
          BY <3>2
        <4> HIDE DEF q
        <4>2. /\ q \in AttemptStates /\ q.pc = "closing"
              /\ q.epoch = att[a].epoch /\ q.after = att[a].after
          BY <3>1, <4>1, LeftWith
        <4> QED
          BY <3>2, <4>2
      <3>3. CASE unsub # Null
        <4>1. q = [att[a] EXCEPT !.pc = "undo", !.h = unsub]
          BY <3>3
        <4> HIDE DEF q
        <4>2. /\ q \in AttemptStates /\ q.pc = "undo" /\ q.h = unsub
              /\ q.epoch = att[a].epoch /\ q.after = att[a].after
          BY <3>1, <4>1, LeftWith
        <4> QED
          BY <3>3, <4>2
      <3> QED
        BY <3>2, <3>3
    <2> HIDE DEF q
    <2>3. UNCHANGED <<connecting, gen, fails, fetch, timer, quality>> /\ subActive' \in BOOLEAN /\ unbound' \in BOOLEAN
      BY <1>1, <1>2 DEF FirstPoll, TypeOK
    <2>4. /\ att' \in [Attempts -> AttemptStates] /\ att'[a] = q
          /\ \A x \in Attempts : x # a => att'[x] = att[x] /\ att[x].pc \in Inactive
          /\ ChainInv'
      BY <1>1, <2>1, <2>2, <2>3, AttemptGoesOn DEF Inactive, Super
    <2>5. TypeOK'
      BY <1>1, <2>3, <2>4 DEF TypeOK
    <2>6. Basic'
      BY <1>1, <2>2, <2>3, <2>4, NullAssumption
      DEF Basic, TdInv, FetchInv, FailsInv, AdapterInv, EpochInv, Running, Late, TypeOK, Polls
    <2>7. ASSUME ~overtaken' PROVE Clean'
      <3>1. Clean /\ sessEpoch = Null /\ timer = Null
        BY <1>1, <1>2, <2>7 DEF IInv, Clean, ConnInv, TimerInv, Aborted, Cancelled, Late
      <3>2. ConnInv'
        BY <1>1, <2>2, <2>4, <3>1 DEF Clean, ConnInv, Running, Early, Late
      <3>3. TimerInv' /\ RetryInv'
        BY <1>1, <2>2, <2>3, <2>4, <3>1 DEF Clean, TimerInv, RetryInv, Late
      <3>4. SessInv'
        BY <1>1, <2>2, <2>4, <3>1 DEF Clean, SessInv
      <3>5. HandleInv'
        BY <1>1, <2>2, <2>4, <3>1 DEF Clean, HandleInv, Inactive, Super
      <3>6. GroupInv'
        BY <1>1, <2>2, <2>4, <3>1 DEF Clean, GroupInv
      <3> QED
        BY <3>2, <3>3, <3>4, <3>5, <3>6 DEF Clean
    <2> QED
      BY <2>4, <2>5, <2>6, <2>7 DEF IInv
  <1>3. CASE ~Aborted(a) /\ fetch = Null /\ FirstPoll(a)
    <2> DEFINE q == [att[a] EXCEPT !.pc = "polling", !.gen = gen']
    <2>1. /\ att' = [att EXCEPT ![a] = q] /\ fetch' = [gen |-> gen', by |-> a, pc |-> "reading"]
          /\ gen' = gen + 1 /\ fails' = 0 /\ UNCHANGED <<connecting, timer, quality, subActive, unbound>>
      BY <1>1, <1>3 DEF SetAttempt, FirstPoll, Reading
    <2>2. gen' \in Nat
      BY <1>1, <2>1 DEF TypeOK
    <2>3. /\ q \in AttemptStates /\ q.epoch = att[a].epoch /\ q.after = att[a].after /\ q.pc = "polling" /\ q.gen = gen'
          /\ q.cancelled = att[a].cancelled
      <3>1. att[a] \in AttemptStates
        BY <1>1 DEF TypeOK
      <3> QED
        BY <2>2, <3>1 DEF AttemptStates
    <2> HIDE DEF q
    <2>4. /\ att' \in [Attempts -> AttemptStates] /\ att'[a] = q
          /\ \A x \in Attempts : x # a => att'[x] = att[x] /\ att[x].pc \in Inactive
          /\ ChainInv'
      BY <1>1, <2>1, <2>3, AttemptGoesOn DEF Inactive, Super
    <2>5. fetch' \in Polls /\ fetch'.by = a /\ fetch'.pc = "reading" /\ fails' \in 0 .. MaxFails /\ fails' < MaxFails
      BY <2>1, <2>2, BoundAssumption DEF Polls
    <2>6. TypeOK'
      BY <1>1, <2>1, <2>2, <2>4, <2>5 DEF TypeOK
    <2>7. TdInv' /\ FetchInv' /\ FailsInv' /\ AdapterInv'
      BY <1>1, <1>3, <2>3, <2>4, <2>5, NullAssumption DEF Basic, TdInv, FetchInv, FailsInv, AdapterInv, Late
    <2>8. EpochInv'
      BY <1>1, <2>3, <2>4 DEF Basic, EpochInv, Inactive, Super
    <2>9. ASSUME ~overtaken' PROVE Clean'
      <3>1. Clean /\ sessEpoch # Null /\ timer = Null
        BY <1>1, <1>3, <2>9 DEF IInv, Clean, ConnInv, TimerInv, Aborted, Late
      <3>2. ConnInv'
        BY <1>1, <2>3, <2>4, <3>1 DEF Clean, ConnInv, Running, Early, Late
      <3>3. TimerInv' /\ RetryInv'
        BY <1>1, <2>1, <2>3, <2>4, <3>1 DEF Clean, TimerInv, RetryInv, Late
      <3>4. SessInv'
        BY <1>1, <2>3, <2>4, <3>1 DEF Clean, SessInv
      <3>5. HandleInv'
        BY <1>1, <2>3, <2>4, <3>1 DEF Clean, HandleInv
      <3>6. GroupInv'
        BY <1>1, <2>3, <2>4, <3>1 DEF Clean, GroupInv
      <3> QED
        BY <3>2, <3>3, <3>4, <3>5, <3>6 DEF Clean
    <2> QED
      BY <2>4, <2>6, <2>7, <2>8, <2>9 DEF IInv, Basic
  <1>4. CASE ~Aborted(a) /\ fetch # Null /\ FirstPoll(a)
    <2> DEFINE q == [att[a] EXCEPT !.pc = "done"]
    <2>1. /\ att' = [att EXCEPT ![a] = q] /\ Settle(a) /\ quality' \in Qualities
          /\ gen' = gen + 1 /\ fails' = 0 /\ timer' = PollTimer(gen', subActive, unbound)
          /\ UNCHANGED <<fetch, subActive, unbound>>
      BY <1>1, <1>4, QualityIs DEF SetAttempt, FirstPoll, Return
    <2>2. gen' \in Nat /\ timer' \in Timers /\ timer'.gen = gen' /\ fails' \in 0 .. MaxFails /\ fails' < MaxFails
      BY <1>1, <2>1, PollTimerIs, BoundAssumption DEF TypeOK
    <2>3. q \in AttemptStates /\ q.epoch = att[a].epoch /\ q.pc = "done"
      BY <1>1, <2>2 DEF TypeOK, AttemptStates
    <2> HIDE DEF q
    <2>4. /\ att' \in [Attempts -> AttemptStates] /\ att'[a] = q
          /\ \A x \in Attempts : x # a => att'[x] = att[x] /\ att[x].pc \in Inactive
          /\ connecting' \in Attempts \cup {Null} /\ ChainInv'
      BY <1>1, <2>1, <2>3, AttemptOver
    <2>5. TypeOK'
      BY <1>1, <2>1, <2>2, <2>4 DEF TypeOK, Qualities
    <2>6. TdInv' /\ FetchInv' /\ FailsInv' /\ AdapterInv'
      BY <1>1, <2>1, <2>2, <2>3, <2>4 DEF Basic, TdInv, FetchInv, FailsInv, AdapterInv, Late, TypeOK, Polls
    <2>7. EpochInv'
      BY <1>1, <2>3, <2>4 DEF Basic, EpochInv, Inactive, Super
    <2>8. ASSUME ~overtaken' PROVE Clean'
      <3>1. Clean /\ sessEpoch # Null
        BY <1>1, <1>4, <2>8 DEF IInv, Clean, ConnInv, TimerInv, Aborted, Late
      <3>2. ConnInv'
        BY <1>1, <2>3, <2>4, <3>1 DEF Clean, ConnInv, Running, Early, Late
      <3>3. TimerInv'
        BY <1>1, <2>2, <2>3, <2>4, <3>1, NullAssumption DEF TimerInv, Late, Inactive, Super
      <3>4. RetryInv'
        BY <1>1, <2>1, <2>3, <2>4, <3>1 DEF Clean, RetryInv, Late
      <3>5. SessInv'
        BY <1>1, <2>3, <2>4, <3>1 DEF Clean, SessInv
      <3>6. HandleInv'
        BY <1>1, <2>3, <2>4, <3>1 DEF Clean, HandleInv
      <3>7. GroupInv'
        BY <1>1, <2>3, <2>4, <3>1 DEF Clean, GroupInv
      <3> QED
        BY <3>2, <3>3, <3>4, <3>5, <3>6, <3>7 DEF Clean
    <2> QED
      BY <2>4, <2>5, <2>6, <2>7, <2>8 DEF IInv, Basic
  <1> QED
    BY <1>2, <1>3, <1>4

-----------------------------------------------------------------------------
(* Polls.                                                                  *)

LEMMA PollOverIs ==
    ASSUME TypeOK, ChainInv, FetchInv, fetch # Null, PollOver(fetch.by), connecting' = connecting
    PROVE  /\ att' \in [Attempts -> AttemptStates] /\ ChainInv'
           /\ \A x \in Attempts :
                 /\ att'[x].pc = att[x].pc \/ (att[x].pc = "polling" /\ att'[x].pc = "polled")
                 /\ att'[x].epoch = att[x].epoch /\ att'[x].after = att[x].after /\ att'[x].h = att[x].h
                 /\ att'[x].gen = att[x].gen /\ att'[x].cancelled = att[x].cancelled
           /\ connecting = Null => att' = att
  <1>1. CASE fetch.by \in Attempts
    <2> DEFINE b == fetch.by
               q == [att[b] EXCEPT !.pc = "polled"]
    <2>1. b \in Attempts /\ att[b].pc = "polling"
      BY <1>1, NullAssumption DEF FetchInv
    <2>2. att' = [att EXCEPT ![b] = q]
      BY <1>1 DEF PollOver
    <2> HIDE DEF b
    <2>3. /\ q \in AttemptStates /\ q.pc = "polled" /\ q.epoch = att[b].epoch /\ q.after = att[b].after
          /\ q.h = att[b].h /\ q.gen = att[b].gen /\ q.cancelled = att[b].cancelled
      BY <2>1 DEF TypeOK, AttemptStates
    <2> HIDE DEF q
    <2>4. att' \in [Attempts -> AttemptStates] /\ att'[b] = q /\ (\A x \in Attempts : x # b => att'[x] = att[x]) /\ ChainInv'
      BY <2>1, <2>2, <2>3, AttemptGoesOn DEF Active, Inactive, Super
    <2>5. connecting # Null
      BY <2>1, NobodyConnecting
    <2> QED
      BY <2>1, <2>3, <2>4, <2>5
  <1>2. CASE fetch.by \notin Attempts
    <2>1. att' = att
      BY <1>2 DEF PollOver
    <2> QED
      BY <2>1, ChainStands DEF TypeOK
  <1> QED
    BY <1>1, <1>2

\* The poll ends, and the attempt whose first poll it was goes on.
LEMMA PollOverKeeps ==
    ASSUME IInv, fetch # Null, PollOver(fetch.by), fetch' = Null, td'["poll"].pc = "none",
           \A c \in Callers : td'[c] = td[c] \/ (~Running(c) /\ c = "poll"), fails' < MaxFails,
           UNCHANGED <<connecting, link, connected, adapter, unsub, retry, sessions, groups, overtaken>>
    PROVE  att' \in [Attempts -> AttemptStates] /\ ChainInv' /\ Basic' /\ (~overtaken' => Clean')
  <1> USE DEF link
  <1>1. TypeOK /\ Basic /\ ChainInv /\ FetchInv
    BY DEF IInv, Basic
  <1>2. /\ att' \in [Attempts -> AttemptStates] /\ ChainInv'
        /\ \A x \in Attempts :
              /\ att'[x].pc = att[x].pc \/ (att[x].pc = "polling" /\ att'[x].pc = "polled")
              /\ att'[x].epoch = att[x].epoch /\ att'[x].h = att[x].h
              /\ att'[x].gen = att[x].gen /\ att'[x].cancelled = att[x].cancelled
    BY <1>1, PollOverIs
  <1>3. \A x \in Attempts : x \in Callers /\ x # "poll" /\ td'[x] = td[x]
    BY NamesAssumption DEF Callers
  <1>4. \A x \in Attempts : /\ att'[x].pc \in Late <=> att[x].pc \in Late
                            /\ att[x].pc \in Early \cup {"superTd", "subWait", "subscribe", "subDone"} => att'[x].pc = att[x].pc
                            /\ att'[x].pc \in Early \cup {"subWait", "subscribe", "subDone"} => att'[x].pc = att[x].pc
    BY <1>2 DEF Late, Early
  <1>5. Basic'
    <2>1. TdInv' /\ FetchInv' /\ FailsInv'
      BY <1>1, <1>3, <1>4 DEF Basic, TdInv, FetchInv, FailsInv, Early
    <2>2. AdapterInv'
      BY <1>1, <1>4 DEF Basic, AdapterInv, Early, Late
    <2>3. EpochInv'
      BY <1>1, <1>2 DEF Basic, EpochInv
    <2> QED
      BY <2>1, <2>2, <2>3 DEF Basic
  <1>6. \A c \in Callers : /\ td'[c].pc \in {"quiesce", "unsub", "bye"} => td'[c] = td[c]
                           /\ td[c].pc \in {"quiesce", "unsub", "bye"} => td'[c] = td[c]
    BY DEF Running
  <1>7. ASSUME ~overtaken' PROVE Clean'
    <2>1. Clean
      BY <1>7 DEF IInv
    <2>2. ConnInv'
      <3>1. \A c \in Callers : Running(c)' <=> Running(c)
        BY <1>6 DEF Running
      <3> QED
        BY <1>2, <1>3, <1>4, <2>1, <3>1 DEF Clean, ConnInv, Early
    <2>3. TimerInv' /\ RetryInv'
      BY <1>2, <1>4, <2>1 DEF Clean, TimerInv, RetryInv
    <2>4. SessInv'
      BY <1>2, <1>4, <1>6, <2>1 DEF Clean, SessInv, Early
    <2>5. HandleInv'
      BY <1>2, <1>4, <1>6, <2>1 DEF Clean, HandleInv, Early
    <2>6. GroupInv'
      BY <1>2, <1>4, <1>6, <2>1 DEF Clean, GroupInv, Early
    <2> QED
      BY <2>2, <2>3, <2>4, <2>5, <2>6 DEF Clean
  <1> QED
    BY <1>2, <1>5, <1>7

LEMMA PollIsOut ==
    ASSUME TypeOK, Basic, fetch # Null, fetch.pc = "reading"
    PROVE  td["poll"].pc = "none" /\ fails \in Nat /\ fails < MaxFails /\ fetch \in Polls /\ adapter # Null
  BY DEF Basic, TdInv, FailsInv, AdapterInv, Running, TypeOK

LEMMA PollStarts ==
    ASSUME IInv, NEW q \in Polls, q.by = Null, fetch' = q, fetch = Null \/ q = fetch, adapter # Null,
           UNCHANGED <<att, connecting, link, connected, adapter, stream, retry, fails, quality, td,
                       sessions, groups, lost, retried, overtaken>>
    PROVE  IInv'
  <1> USE DEF link, stream
  <1>1. TypeOK'
    BY DEF IInv, TypeOK
  <1>2. ChainInv'
    BY ChainStands DEF IInv
  <1>3. Basic'
    BY NullAssumption DEF IInv, Basic, TdInv, FetchInv, FailsInv, AdapterInv, EpochInv, Running
  <1>4. Clean => Clean'
    BY DEF Clean, ConnInv, TimerInv, SessInv, HandleInv, RetryInv, GroupInv, Running
  <1> QED
    BY <1>1, <1>2, <1>3, <1>4 DEF IInv

LEMMA TickStep ==
    ASSUME IInv, Tick \/ Refresh
    PROVE  IInv'
  <1>1. PICK g \in Nat : fetch' = [gen |-> g, by |-> Null, pc |-> "reading"]
    BY DEF Tick, Refresh, Reading, IInv, TypeOK, Timers
  <1>2. fetch' \in Polls /\ fetch'.by = Null
    BY <1>1 DEF Polls
  <1> QED
    BY <1>2, PollStarts DEF Tick, Refresh

LEMMA PollStaleStep ==
    ASSUME IInv, PollStale
    PROVE  IInv'
  <1>1. TypeOK /\ Basic
    BY DEF IInv
  <1>2. att' \in [Attempts -> AttemptStates] /\ ChainInv' /\ Basic' /\ (~overtaken' => Clean')
    BY <1>1, PollIsOut, PollOverKeeps DEF PollStale, link, stream
  <1>3. TypeOK'
    BY <1>1, <1>2 DEF PollStale, TypeOK, link, stream
  <1> QED
    BY <1>2, <1>3 DEF IInv

LEMMA PollTornDownStep ==
    ASSUME IInv, PollTornDown
    PROVE  IInv'
  <1>1. TypeOK /\ Basic /\ "poll" \in Callers
    BY DEF IInv, Callers
  <1>2. /\ td' \in [Callers -> TeardownStates] /\ td'["poll"].pc = "none" /\ ~Running("poll")
        /\ \A c \in Callers : c # "poll" => td'[c] = td[c]
    BY <1>1, NullAssumption DEF PollTornDown, NoTeardown, TypeOK, TeardownStates, Running
  <1>3. fails < MaxFails
    BY <1>1, <1>2 DEF Basic, FailsInv
  <1>4. att' \in [Attempts -> AttemptStates] /\ ChainInv' /\ Basic' /\ (~overtaken' => Clean')
    BY <1>2, <1>3, PollOverKeeps DEF PollTornDown, link, stream
  <1>5. TypeOK'
    BY <1>1, <1>2, <1>4 DEF PollTornDown, TypeOK, link, stream
  <1> QED
    BY <1>4, <1>5 DEF IInv

LEMMA PollOkStep ==
    ASSUME IInv, PollOk
    PROVE  IInv'
  <1>1. /\ TypeOK /\ Basic /\ ChainInv /\ fetch # Null /\ fetch.pc = "reading" /\ fetch' = Null /\ PollOver(fetch.by)
        /\ fails' = 0 /\ fails' < MaxFails /\ fails' \in 0 .. MaxFails /\ quality' \in Qualities
        /\ UNCHANGED <<connecting, epoch, sessEpoch, gen, timer, connected, adapter, subActive, unbound, due, td, sessions,
                       groups, lost, overtaken>>
    BY QualityIs, BoundAssumption DEF IInv, PollOk, link
  <1>2. CASE UNCHANGED <<retry, retried, unsub>>
    <2>1. att' \in [Attempts -> AttemptStates] /\ ChainInv' /\ Basic' /\ (~overtaken' => Clean')
      BY <1>1, <1>2, PollIsOut, PollOverKeeps DEF link
    <2>2. TypeOK'
      BY <1>1, <1>2, <2>1 DEF TypeOK, Qualities
    <2> QED
      BY <2>1, <2>2 DEF IInv
  <1>3. CASE RetryDue /\ RetryStart
    <2>1. connecting = Null /\ att' = att /\ ChainInv' /\ \A a \in Attempts : att[a].pc \in {"unused", "done"}
      BY <1>1, <1>3, PollOverIs, NobodyConnecting DEF RetryDue, Basic
    <2> DEFINE r == CHOOSE x \in Retries : x \notin retried
               q == [name |-> r, adapter |-> adapter, epoch |-> epoch, gen |-> gen, h |-> unsub,
                     pc |-> IF unsub = Null THEN "create" ELSE "letgo"]
    <2>2. retry' = q /\ retried' = retried \cup {r} /\ unsub' = Null
      BY <1>3 DEF RetryStart
    <2>3. r \in Retries
      BY <1>1, <1>3 DEF RetryDue, TypeOK
    <2> HIDE DEF r
    <2>4. q \in RetryStates /\ q.epoch = epoch /\ q.h = unsub /\ q.pc = (IF unsub = Null THEN "create" ELSE "letgo")
      BY <1>1, <1>3, <2>3 DEF RetryStates, RetryDue, TypeOK
    <2> HIDE DEF q
    <2>5. TypeOK'
      BY <1>1, <2>1, <2>2, <2>3, <2>4 DEF TypeOK, Qualities
    <2>6. TdInv' /\ FetchInv' /\ FailsInv' /\ AdapterInv' /\ EpochInv'
      BY <1>1, <2>1, <2>2, <2>4, PollIsOut DEF Basic, TdInv, FetchInv, FailsInv, AdapterInv, EpochInv, TypeOK
    <2>7. ASSUME ~overtaken' PROVE Clean'
      <3>1. Clean /\ sessEpoch = epoch /\ epoch # Null /\ retry = Null
        BY <1>1, <1>3, <2>7, NullAssumption DEF IInv, RetryDue, TypeOK
      <3>2. ConnInv' /\ TimerInv' /\ SessInv'
        BY <1>1, <2>1, <3>1 DEF Clean, ConnInv, TimerInv, SessInv, Running
      <3>3. HandleInv'
        BY <1>1, <2>1, <2>2, <3>1 DEF Clean, HandleInv
      <3>4. RetryInv'
        BY <1>1, <2>1, <2>2, <3>1 DEF RetryInv, Late
      <3>5. GroupInv'
        <4>1. \A g \in groups : g # Null
          BY <1>1, NullAssumption DEF TypeOK
        <4>2. retry' # Null
          BY <2>2, <2>4, NullAssumption
        <4> QED
          BY <1>1, <2>1, <2>2, <2>4, <3>1, <4>1, <4>2 DEF Clean, GroupInv
      <3> QED
        BY <3>2, <3>3, <3>4, <3>5 DEF Clean
    <2> QED
      BY <2>1, <2>5, <2>6, <2>7 DEF IInv, Basic
  <1> QED
    BY <1>2, <1>3 DEF PollOk

LEMMA PollFailedStep ==
    ASSUME IInv, PollFailed
    PROVE  IInv'
  <1>1. /\ TypeOK /\ Basic /\ ChainInv /\ fetch # Null /\ fetch.pc = "reading" /\ fails' = fails + 1 /\ "poll" \in Callers
        /\ UNCHANGED <<connecting, connected, adapter, unsub, subActive, unbound, due, retry, sessions,
                       groups, lost, retried, overtaken>>
    BY DEF IInv, PollFailed, stream, Callers
  <1>2. td["poll"].pc = "none" /\ fails \in Nat /\ fails < MaxFails /\ fetch \in Polls /\ adapter # Null
    BY <1>1, PollIsOut
  <1>3. fails' \in 0 .. MaxFails
    BY <1>1, <1>2, BoundAssumption
  <1>4. CASE /\ fails' < MaxFails
             /\ quality' = "stale"
             /\ fetch' = Null
             /\ PollOver(fetch.by)
             /\ UNCHANGED <<link, td>>
    <2>1. att' \in [Attempts -> AttemptStates] /\ ChainInv' /\ Basic' /\ (~overtaken' => Clean')
      BY <1>1, <1>2, <1>4, PollOverKeeps
    <2>2. TypeOK'
      BY <1>1, <1>3, <1>4, <2>1 DEF TypeOK, link
    <2> QED
      BY <2>1, <2>2 DEF IInv
  <1>5. CASE /\ fails' >= MaxFails
             /\ BeginTeardown("poll")
             /\ fetch' = [fetch EXCEPT !.pc = "tearing"]
             /\ UNCHANGED <<quality, att>>
    <2>1. fetch' \in Polls /\ fetch'.by = fetch.by /\ fetch'.pc = "tearing" /\ fetch' # Null
      BY <1>2, <1>5, NullAssumption DEF Polls
    <2>2. /\ epoch' = epoch + 1 /\ sessEpoch' = Null /\ gen' = gen + 1 /\ timer' = Null
          /\ td' \in [Callers -> TeardownStates] /\ (\A d \in Callers : d # "poll" => td'[d] = td[d])
          /\ td'["poll"].pc \in {"quiesce", "unsub", "bye"}
      BY <1>1, <1>2, <1>5, TeardownHead DEF Basic
    <2>3. TypeOK'
      BY <1>1, <1>3, <1>5, <2>1, <2>2 DEF TypeOK
    <2>4. ChainInv'
      BY <1>1, <1>5, ChainStands
    <2>5. EpochInv' /\ (Clean => Clean')
      BY <1>1, <1>2, <1>5, TeardownBegun
    <2>6. TdInv' /\ FetchInv' /\ FailsInv' /\ AdapterInv'
      BY <1>1, <1>2, <1>5, <2>1, <2>2, NamesAssumption DEF Basic, TdInv, FetchInv, FailsInv, AdapterInv, Running, Callers
    <2> QED
      BY <1>1, <2>3, <2>4, <2>5, <2>6 DEF IInv, Basic
  <1> QED
    BY <1>4, <1>5 DEF PollFailed

-----------------------------------------------------------------------------
(* Subscribe retries and reports of the stream.                            *)

LEMMA RetryLetGoStep ==
    ASSUME IInv, RetryLetGo
    PROVE  IInv'
  <1> USE DEF RetryLetGo, link, stream
  <1>1. TypeOK /\ Basic /\ retry \in RetryStates
    BY DEF IInv, TypeOK
  <1>2. retry' \in RetryStates \cup {Null} /\ (retry' # Null => retry'.epoch = retry.epoch)
    BY <1>1 DEF RetryStates
  <1>3. TypeOK'
    BY <1>1, <1>2 DEF TypeOK
  <1>4. ChainInv'
    BY ChainStands DEF IInv
  <1>5. Basic'
    BY <1>1, <1>2 DEF Basic, TdInv, FetchInv, FailsInv, AdapterInv, EpochInv, Running
  <1>6. ASSUME ~overtaken' PROVE Clean'
    <2>1. Clean
      BY <1>6 DEF IInv
    <2>2. ConnInv' /\ TimerInv' /\ SessInv' /\ HandleInv'
      BY <2>1 DEF Clean, ConnInv, TimerInv, SessInv, HandleInv, Running
    <2>3. RetryInv'
      BY <1>2, <2>1 DEF Clean, RetryInv
    <2>4. GroupInv'
      BY <1>1, <2>1 DEF Clean, GroupInv
    <2> QED
      BY <2>2, <2>3, <2>4 DEF Clean
  <1> QED
    BY <1>3, <1>4, <1>5, <1>6 DEF IInv

LEMMA RetryFailedStep ==
    ASSUME IInv, RetryFailed
    PROVE  IInv'
  <1> USE DEF RetryFailed, link, stream
  <1>1. TypeOK /\ Basic
    BY DEF IInv
  <1>2. TypeOK'
    BY <1>1 DEF TypeOK
  <1>3. ChainInv'
    BY ChainStands DEF IInv
  <1>4. Basic'
    BY <1>1 DEF Basic, TdInv, FetchInv, FailsInv, AdapterInv, EpochInv, Running
  <1>5. Clean => Clean'
    BY DEF Clean, ConnInv, TimerInv, SessInv, HandleInv, RetryInv, GroupInv, Running
  <1> QED
    BY <1>2, <1>3, <1>4, <1>5 DEF IInv

LEMMA RetryLateStep ==
    ASSUME IInv, RetryLate
    PROVE  IInv'
  <1>1. /\ TypeOK /\ Basic /\ ChainInv /\ retry \in RetryStates
        /\ UNCHANGED <<att, connecting, link, connected, adapter, stream, fetch, fails, quality, td, sessions, lost, retried,
                       overtaken>>
    BY DEF IInv, TypeOK, RetryLate
  <1>2. \/ /\ retry.pc = "create" /\ groups' = groups \cup {retry.name} /\ retry' \in RetryStates /\ retry'.pc = "undo"
           /\ retry'.name = retry.name /\ retry'.epoch = retry.epoch
        \/ retry.pc = "undo" /\ groups' = groups \ {retry.name} /\ retry' = Null
    BY <1>1 DEF RetryLate, RetryStates
  <1> USE DEF link, stream
  <1>3. TypeOK'
    BY <1>1, <1>2 DEF TypeOK, RetryStates
  <1>4. ChainInv'
    BY <1>1, ChainStands
  <1>5. Basic'
    BY <1>1, <1>2, NullAssumption DEF Basic, TdInv, FetchInv, FailsInv, AdapterInv, EpochInv, Running
  <1>6. ASSUME ~overtaken' PROVE Clean'
    <2>1. Clean
      BY <1>1, <1>6 DEF IInv
    <2>2. ConnInv' /\ TimerInv' /\ SessInv' /\ HandleInv'
      BY <1>1, <2>1 DEF Clean, ConnInv, TimerInv, SessInv, HandleInv, Running
    <2>3. RetryInv'
      BY <1>1, <1>2, <2>1, NullAssumption DEF Clean, RetryInv
    <2>4. GroupInv'
      BY <1>1, <1>2, <2>1, NullAssumption DEF Clean, GroupInv
    <2> QED
      BY <2>2, <2>3, <2>4 DEF Clean
  <1> QED
    BY <1>3, <1>4, <1>5, <1>6 DEF IInv

LEMMA RetrySubscribedStep ==
    ASSUME IInv, RetrySubscribed
    PROVE  IInv'
  <1>1. /\ TypeOK /\ Basic /\ ChainInv /\ retry \in RetryStates /\ retry # Null /\ retry.pc = "create" /\ RetryCurrent
        /\ retry' = Null /\ groups' = groups \cup {retry.name} /\ unsub' = retry.name /\ subActive' = TRUE /\ due' = FALSE
        /\ UNCHANGED <<att, connecting, epoch, sessEpoch, gen, connected, adapter, fails, td, sessions, lost, retried, overtaken>>
    BY DEF IInv, TypeOK, RetrySubscribed
  <1>2. /\ unbound' \in BOOLEAN /\ timer' \in Timers \cup {Null} /\ (timer' # Null <=> timer # Null)
        /\ timer' # Null => timer'.gen = gen
        /\ quality' \in Qualities
    <2>1. gen \in Nat /\ quality \in Qualities
      BY <1>1 DEF TypeOK, Qualities
    <2>2. PICK u \in BOOLEAN : /\ unbound' = u /\ timer' = (IF timer = Null THEN Null ELSE PollTimer(gen, TRUE, u))
                               /\ quality' = IF quality = "stale" THEN quality ELSE StreamQuality(TRUE, u)
      BY DEF RetrySubscribed
    <2>3. PollTimer(gen, TRUE, u) \in Timers /\ PollTimer(gen, TRUE, u).gen = gen /\ PollTimer(gen, TRUE, u) # Null
      BY <2>1, PollTimerIs, Zenon
    <2>4. quality' \in Qualities
      BY <2>1, <2>2 DEF StreamQuality, Qualities
    <2> QED
      BY <2>2, <2>3, <2>4
  <1>3. fetch' \in Polls \cup {Null} /\ (fetch # Null => fetch' = fetch) /\ (fetch = Null => fetch' # Null /\ fetch'.by = Null)
    <2>1. gen \in Nat
      BY <1>1 DEF TypeOK
    <2>2. Reading(gen, Null) \in Polls /\ Reading(gen, Null).by = Null /\ Reading(gen, Null) # Null
      BY <2>1, NullAssumption DEF Reading, Polls
    <2> QED
      BY <1>1, <2>2 DEF RetrySubscribed, TypeOK
  <1>4. TypeOK'
    BY <1>1, <1>2, <1>3 DEF TypeOK, RetryStates, Qualities
  <1>5. ChainInv'
    BY <1>1, ChainStands
  <1>6. Basic'
    BY <1>1, <1>3 DEF Basic, TdInv, FetchInv, FailsInv, AdapterInv, EpochInv, Running, RetryCurrent
  <1>7. ASSUME ~overtaken' PROVE Clean'
    <2>1. Clean /\ sessEpoch # Null /\ unsub = Null /\ \A a \in Attempts : att[a].pc \notin Late
      BY <1>1, <1>7 DEF IInv, Clean, RetryInv, RetryCurrent
    <2>2. ConnInv' /\ SessInv'
      BY <1>1, <2>1 DEF Clean, ConnInv, SessInv, Running
    <2>3. TimerInv' /\ RetryInv'
      BY <1>1, <1>2, <2>1 DEF Clean, TimerInv, RetryInv
    <2>4. HandleInv'
      BY <1>1, <2>1 DEF Clean, ConnInv, HandleInv, Running, Early, Late
    <2>5. GroupInv'
      <3>1. \A g \in groups : g # Null
        BY <1>1, NullAssumption DEF TypeOK
      <3> QED
        BY <1>1, <2>1, <3>1 DEF Clean, GroupInv
    <2> QED
      BY <2>2, <2>3, <2>4, <2>5 DEF Clean
  <1> QED
    BY <1>4, <1>5, <1>6, <1>7 DEF IInv

LEMMA StreamLostStep ==
    ASSUME IInv, NEW g \in groups, StreamLost(g)
    PROVE  IInv'
  <1>1. /\ TypeOK /\ Basic /\ ChainInv /\ groups' = groups \ {g} /\ lost' = lost + 1
        /\ UNCHANGED <<att, connecting, epoch, sessEpoch, gen, connected, adapter, unsub, retry, fetch, fails, td,
                       sessions, retried, overtaken>>
    BY DEF IInv, TypeOK, StreamLost
  <1>2. /\ {subActive', unbound', due'} \subseteq BOOLEAN /\ quality' \in Qualities
        /\ timer' \in Timers \cup {Null} /\ (timer' # Null <=> timer # Null)
        /\ timer' = timer \/ (timer' # Null => timer'.gen = gen)
    <2>1. gen \in Nat /\ quality \in Qualities /\ timer \in Timers \cup {Null} /\ {subActive, unbound, due} \subseteq BOOLEAN
      BY <1>1 DEF TypeOK, Qualities
    <2>2. PollTimer(gen, FALSE, FALSE) \in Timers /\ PollTimer(gen, FALSE, FALSE).gen = gen
          /\ PollTimer(gen, FALSE, FALSE) # Null
      BY <2>1, PollTimerIs, Zenon
    <2>3. {subActive', unbound', due'} \subseteq BOOLEAN /\ quality' \in {quality, "polling"}
      BY <2>1 DEF StreamLost
    <2>4. timer' = timer \/ (timer # Null /\ timer' = PollTimer(gen, FALSE, FALSE))
      BY DEF StreamLost
    <2> QED
      BY <2>1, <2>2, <2>3, <2>4 DEF Qualities
  <1>3. TypeOK'
    BY <1>1, <1>2 DEF TypeOK, Qualities
  <1>4. ChainInv'
    BY <1>1, ChainStands
  <1>5. Basic'
    BY <1>1 DEF Basic, TdInv, FetchInv, FailsInv, AdapterInv, EpochInv, Running
  <1>6. ASSUME ~overtaken' PROVE Clean'
    <2>1. Clean
      BY <1>1, <1>6 DEF IInv
    <2>2. ConnInv' /\ SessInv' /\ HandleInv' /\ RetryInv' /\ GroupInv'
      BY <1>1, <2>1 DEF Clean, ConnInv, SessInv, HandleInv, RetryInv, GroupInv, Running
    <2>3. TimerInv'
      BY <1>1, <1>2, <2>1 DEF Clean, TimerInv
    <2> QED
      BY <2>2, <2>3 DEF Clean
  <1> QED
    BY <1>3, <1>4, <1>5, <1>6 DEF IInv

LEMMA StreamRestoredStep ==
    ASSUME IInv, NEW g \in groups, StreamRestored(g)
    PROVE  IInv'
  <1>1. /\ TypeOK /\ Basic /\ ChainInv /\ lost' = lost + 1 /\ connected
        /\ UNCHANGED <<att, connecting, epoch, sessEpoch, gen, connected, adapter, unsub, subActive, due, retry, fails,
                       td, sessions, groups, retried, overtaken>>
    BY DEF IInv, TypeOK, StreamRestored
  <1>2. /\ unbound' \in BOOLEAN /\ quality' \in Qualities
        /\ timer' \in Timers \cup {Null} /\ (timer' # Null <=> timer # Null)
        /\ timer' = timer \/ (timer' # Null => timer'.gen = gen)
    <2>1. gen \in Nat /\ timer \in Timers \cup {Null} /\ unbound \in BOOLEAN
      BY <1>1 DEF TypeOK
    <2>2. PollTimer(gen, TRUE, unbound') \in Timers /\ PollTimer(gen, TRUE, unbound').gen = gen
          /\ PollTimer(gen, TRUE, unbound') # Null
      BY <2>1, PollTimerIs, Zenon
    <2>3. unbound' \in BOOLEAN /\ quality' \in Qualities
      BY <2>1 DEF StreamRestored, StreamQuality, Qualities
    <2>4. timer' = timer \/ (timer # Null /\ timer' = PollTimer(gen, TRUE, unbound'))
      BY DEF StreamRestored
    <2> QED
      BY <2>1, <2>2, <2>3, <2>4
  <1>3. fetch' \in Polls \cup {Null} /\ (fetch # Null => fetch' = fetch) /\ (fetch = Null => fetch' # Null /\ fetch'.by = Null)
    <2>1. gen \in Nat
      BY <1>1 DEF TypeOK
    <2>2. Reading(gen, Null) \in Polls /\ Reading(gen, Null).by = Null /\ Reading(gen, Null) # Null
      BY <2>1, NullAssumption DEF Reading, Polls
    <2> QED
      BY <1>1, <2>2 DEF StreamRestored, TypeOK
  <1>4. TypeOK'
    BY <1>1, <1>2, <1>3 DEF TypeOK, Qualities
  <1>5. ChainInv'
    BY <1>1, ChainStands
  <1>6. Basic'
    BY <1>1, <1>3 DEF Basic, TdInv, FetchInv, FailsInv, AdapterInv, EpochInv, Running
  <1>7. ASSUME ~overtaken' PROVE Clean'
    <2>1. Clean
      BY <1>1, <1>7 DEF IInv
    <2>2. ConnInv' /\ SessInv' /\ HandleInv' /\ RetryInv' /\ GroupInv'
      BY <1>1, <2>1 DEF Clean, ConnInv, SessInv, HandleInv, RetryInv, GroupInv, Running
    <2>3. TimerInv'
      BY <1>1, <1>2, <2>1 DEF Clean, TimerInv
    <2> QED
      BY <2>2, <2>3 DEF Clean
  <1> QED
    BY <1>4, <1>5, <1>6, <1>7 DEF IInv

-----------------------------------------------------------------------------
(* The specification.                                                      *)

LEMMA Initially ==
    ASSUME Init
    PROVE  IInv
  <1> USE DEF Init
  <1>1. \A a \in Attempts : att[a] = NoAttempt
    OBVIOUS
  <1>2. NoAttempt.pc = "unused" /\ NoAttempt.epoch = 0 /\ NoAttempt \in AttemptStates
    BY NullAssumption DEF NoAttempt, AttemptStates
  <1>3. \A c \in Callers : td[c] = NoTeardown
    OBVIOUS
  <1>4. NoTeardown.pc = "none" /\ NoTeardown \in TeardownStates
    BY NullAssumption DEF NoTeardown, TeardownStates
  <1>5. TypeOK
    <2>1. att \in [Attempts -> AttemptStates] /\ td \in [Callers -> TeardownStates]
      BY <1>2, <1>4
    <2>2. fails \in 0 .. MaxFails
      BY BoundAssumption
    <2> QED
      BY <2>1, <2>2 DEF TypeOK
  <1>6. ChainInv
    <2> DEFINE f == [a \in Attempts |-> 0]
    <2>1. f \in [Attempts -> Nat]
      OBVIOUS
    <2> HIDE DEF f
    <2>2. Chain(f)
      BY <1>1, <1>2, <2>1 DEF Chain, Pending, Active, Inactive, Super
    <2> QED
      BY <2>2 DEF ChainInv
  <1>7. Basic
    BY <1>1, <1>2, <1>3, <1>4, BoundAssumption DEF Basic, TdInv, FetchInv, FailsInv, AdapterInv, EpochInv, Late, Callers
  <1>8. Clean
    BY <1>1, <1>2, <1>3, <1>4 DEF Clean, ConnInv, TimerInv, SessInv, HandleInv, RetryInv, GroupInv, Running, Early, Late
  <1> QED
    BY <1>5, <1>6, <1>7, <1>8 DEF IInv

LEMMA Inductive ==
    ASSUME IInv, [Next]_vars
    PROVE  IInv'
  <1>1. CASE Resume
    BY <1>1, PollTornDownStep, SupersedeTornDownStep, SupersedeGoStep, OwnTornDownStep, SubscribeStartStep,
       FirstPollStep, ConnectEndStep DEF Resume
  <1>2. CASE (\E t \in Targets : Connect(t)) \/ (\E u \in Users : Disconnect(u))
    BY <1>2, ConnectStep, DisconnectStep
  <1>3. CASE \E a \in Attempts : Answer(a)
    BY <1>3, ProbedStep, LoggedInStep, ClosedStep, SubscribedStep, UndoneStep DEF Answer
  <1>4. CASE \E c \in Callers : TeardownStep(c)
    BY <1>4, QuiescedStep, UnsubscribedStep, TeardownEndStep DEF TeardownStep
  <1>5. CASE Tick \/ Refresh \/ PollStep
    BY <1>5, TickStep, PollStaleStep, PollOkStep, PollFailedStep DEF PollStep
  <1>6. CASE RetryStep
    BY <1>6, RetryLetGoStep, RetryFailedStep, RetryLateStep, RetrySubscribedStep DEF RetryStep
  <1>7. CASE \E g \in groups : StreamLost(g) \/ StreamRestored(g)
    BY <1>7, StreamLostStep, StreamRestoredStep
  <1>8. CASE UNCHANGED vars
    <2> USE <1>8 DEF vars, link, stream
    <2>1. ChainInv'
      BY ChainStands DEF IInv
    <2>2. TypeOK'
      BY DEF IInv, TypeOK
    <2>3. Basic'
      BY DEF IInv, Basic, TdInv, FetchInv, FailsInv, AdapterInv, EpochInv, Running
    <2>4. Clean => Clean'
      BY DEF Clean, ConnInv, TimerInv, SessInv, HandleInv, RetryInv, GroupInv, Running
    <2> QED
      BY <2>1, <2>2, <2>3, <2>4 DEF IInv
  <1> QED
    BY <1>1, <1>2, <1>3, <1>4, <1>5, <1>6, <1>7, <1>8 DEF Next

LEMMA Always == Spec => []IInv
  BY Initially, Inductive, PTL DEF Spec

\* The manager's fields keep their types, and no more than MaxFails failed polls are ever counted.
THEOREM TypeCorrect == Spec => []TypeOK
  <1>1. IInv => TypeOK
    BY DEF IInv
  <1> QED
    BY <1>1, Always, PTL

\* However many connects, disconnects and retries there are: a manager that is quiet and not connected
\* has no poll timer, and no session and no group on the controller, unless a connection overtook a teardown.
THEOREM NothingIsLeft == Spec => []NothingLeft
  <1>1. ASSUME IInv PROVE NothingLeft
    <2> SUFFICES ASSUME ~overtaken, Quiet, ~connected
                 PROVE  timer = Null /\ sessions = {} /\ groups = {}
      BY DEF NothingLeft
    <2>1. TypeOK /\ Clean /\ \A a \in Attempts : att[a].pc \in {"unused", "done"}
      BY <1>1 DEF IInv, Quiet, Pending
    <2>2. sessEpoch = Null /\ timer = Null
      BY <2>1 DEF Clean, ConnInv, TimerInv
    <2>3. sessions = {}
      BY <2>1 DEF Clean, SessInv
    <2>4. unsub = Null
      BY <2>1, <2>2 DEF Clean, HandleInv, Quiet
    <2>5. groups = {}
      BY <2>1, <2>4, NullAssumption DEF Clean, GroupInv, Quiet, TypeOK
    <2> QED
      BY <2>2, <2>3, <2>5
  <1> QED
    BY <1>1, Always, PTL

\* A manager that is quiet and connected polls in the current generation, has the adapter's session and no
\* other, and no group but the one its handle deletes, unless a connection overtook a teardown.
THEOREM ConnectionIsWhole == Spec => []Whole
  <1>1. ASSUME IInv PROVE Whole
    <2> SUFFICES ASSUME ~overtaken, Quiet, connected
                 PROVE  timer # Null /\ timer.gen = gen /\ sessions = {adapter} /\ groups \subseteq {unsub}
      BY DEF Whole
    <2>1. TypeOK /\ Clean /\ \A a \in Attempts : att[a].pc \in {"unused", "done"}
      BY <1>1 DEF IInv, Quiet, Pending
    <2>2. sessEpoch # Null
      BY <2>1 DEF Clean, ConnInv, Running, Quiet
    <2>3. timer # Null /\ timer.gen = gen
      BY <2>1, <2>2 DEF Clean, TimerInv, Late
    <2>4. sessions = {adapter}
      BY <2>1, <2>2 DEF Clean, SessInv
    <2>5. groups \subseteq {unsub}
      BY <2>1 DEF Clean, GroupInv, Quiet
    <2> QED
      BY <2>3, <2>4, <2>5
  <1> QED
    BY <1>1, Always, PTL

-----------------------------------------------------------------------------
(* Quality and poll rate.                                                  *)

\* A poll timer that is set has the rate the stream asks for, and the quality claims no better.
Rate ==
    timer # Null =>
        /\ timer.slow <=> subActive /\ ~unbound
        /\ quality = "live" => subActive /\ ~unbound

LEMMA QualityClaims ==
    \A active, left \in BOOLEAN :
        /\ StreamQuality(active, left) = "live" => active /\ ~left
        /\ \A g : PollTimer(g, active, left).slow <=> active /\ ~left
  BY DEF StreamQuality, StreamBringsStatus, PollTimer

LEMMA RateKept ==
    ASSUME TypeOK, Rate, UNCHANGED <<timer, subActive, unbound>>,
           quality' \in {quality, QualityNow} \/ quality' # "live"
    PROVE  Rate'
  BY QualityClaims DEF Rate, QualityNow, TypeOK

\* Whoever tears down, subscribes or undoes finds no timer.
LEMMA NoTimer ==
    ASSUME Clean
    PROVE  /\ \A c \in Callers : Running(c) => timer = Null
           /\ \A a \in Attempts : att[a].pc \in Late \cup Early => timer = Null
  BY DEF Clean, TimerInv, ConnInv

LEMMA RateStep ==
    ASSUME IInv, ~overtaken, Rate, [Next]_vars
    PROVE  Rate'
  <1>0. TypeOK /\ Basic /\ Clean /\ gen \in Nat /\ {subActive, unbound} \subseteq BOOLEAN
    BY DEF IInv, TypeOK
  <1>1. ASSUME NEW c \in Callers, BeginTeardown(c) PROVE Rate'
    BY <1>1 DEF BeginTeardown, Rate
  <1>2. ASSUME NEW a, NEW r, NEW o, DoConnect(a, r, o), UNCHANGED stream PROVE Rate'
    <2>1. CASE UNCHANGED timer
      BY <1>0, <1>2, <2>1, RateKept DEF DoConnect, stream
    <2>2. CASE BeginTeardown(a)
      BY <2>2 DEF BeginTeardown, Rate
    <2> QED
      BY <1>2, <2>1, <2>2 DEF DoConnect, link
  <1>3. ASSUME NEW t \in Targets, Connect(t) PROVE Rate'
    <2> DEFINE new == CHOOSE a \in Attempts : att[a].pc = "unused"
               r == [pc |-> "superTd", tgt |-> t, epoch |-> epoch, cancelled |-> FALSE,
                     after |-> connecting, gen |-> 0, h |-> Null]
    <2>1. (BeginTeardown(new) \/ DoConnect(new, r, new)) /\ UNCHANGED stream
      BY <1>3 DEF Connect
    <2> QED
      BY <1>2, <2>1 DEF BeginTeardown, Rate
  <1>4. ASSUME NEW u \in Users, Disconnect(u) PROVE Rate'
    BY <1>4 DEF Disconnect, BeginTeardown, Rate
  <1>5. ASSUME NEW c \in Callers, TeardownStep(c) PROVE Rate'
    <2>1. CASE TeardownQuiesced(c) \/ TeardownEnd(c)
      BY <1>0, <2>1, RateKept DEF TeardownQuiesced, TeardownEnd, link, stream
    <2>2. CASE TeardownUnsubscribed(c)
      <3>1. timer = Null
        BY <1>0, <2>2, NoTimer DEF TeardownUnsubscribed, Running
      <3> QED
        BY <2>2, <3>1 DEF TeardownUnsubscribed, link, Rate
    <2> QED
      BY <1>5, <2>1, <2>2 DEF TeardownStep
  <1>6. ASSUME NEW a \in Attempts,
               SupersedeTornDown(a) \/ OwnTornDown(a) \/ Probed(a) \/ LoggedIn(a) \/ Closed(a) \/ SubscribeStart(a)
        PROVE  Rate'
    BY <1>0, <1>6, RateKept DEF SupersedeTornDown, OwnTornDown, Probed, LoggedIn, Closed, SubscribeStart, Throw,
       Return, link, stream
  <1>7. ASSUME NEW a \in Attempts, SupersedeGo(a) PROVE Rate'
    BY <1>2, <1>7 DEF SupersedeGo
  <1>8. ASSUME NEW a \in Attempts, Subscribed(a) \/ Undone(a) PROVE Rate'
    <2>1. timer = Null
      BY <1>0, <1>8, NoTimer DEF Subscribed, Undone, Late, Early
    <2> QED
      BY <1>8, <2>1 DEF Subscribed, Undone, link, Rate
  <1>9. ASSUME NEW a \in Attempts, FirstPoll(a) \/ ConnectEnd(a) PROVE Rate'
    <2>1. timer = Null
      BY <1>0, <1>9, NoTimer DEF FirstPoll, ConnectEnd, Late
    <2>2. \/ timer' = timer
          \/ /\ ~Aborted(a) /\ UNCHANGED <<subActive, unbound>> /\ Return(a)
             /\ \E g : timer' = PollTimer(g, subActive, unbound)
      BY <1>9 DEF FirstPoll, ConnectEnd, stream
    <2>3. ~Aborted(a) => connected
      BY <1>0, <1>9 DEF Clean, ConnInv, Aborted, Late, FirstPoll, ConnectEnd
    <2>4. CASE timer' = timer
      BY <2>1, <2>4 DEF Rate
    <2>5. CASE ~Aborted(a) /\ UNCHANGED <<subActive, unbound>> /\ Return(a)
               /\ \E g : timer' = PollTimer(g, subActive, unbound)
      <3>1. quality' = StreamQuality(subActive, unbound)
        BY <2>3, <2>5 DEF Return, QualityNow
      <3> QED
        BY <1>0, <2>5, <3>1, QualityClaims DEF Rate
    <2> QED
      BY <2>2, <2>4, <2>5
  <1>10. CASE Tick \/ Refresh \/ PollStale \/ PollOk \/ PollTornDown
    BY <1>0, <1>10, RateKept DEF Tick, Refresh, PollStale, PollOk, PollTornDown, link, stream
  <1>11. CASE PollFailed
    <2>1. CASE UNCHANGED link
      BY <1>0, <1>11, <2>1, RateKept DEF PollFailed, link, stream, BeginTeardown
    <2>2. CASE BeginTeardown("poll")
      BY <2>2 DEF BeginTeardown, Rate
    <2> QED
      BY <1>11, <2>1, <2>2 DEF PollFailed
  <1>12. CASE RetryLetGo \/ RetryFailed \/ RetryLate
    BY <1>0, <1>12, RateKept DEF RetryLetGo, RetryFailed, RetryLate, link, stream
  <1>13. CASE RetrySubscribed
    <2>1. PICK u \in BOOLEAN :
            /\ subActive' = TRUE /\ unbound' = u
            /\ timer' = IF timer = Null THEN Null ELSE PollTimer(gen, TRUE, u)
            /\ quality' = IF quality = "stale" THEN quality ELSE StreamQuality(TRUE, u)
      BY <1>13 DEF RetrySubscribed
    <2> QED
      BY <2>1, QualityClaims DEF Rate
  <1>14. ASSUME NEW g \in groups, StreamLost(g) PROVE Rate'
    <2>1. timer # Null => connected /\ sessEpoch = epoch
      BY <1>0 DEF Clean, TimerInv, ConnInv, Basic, EpochInv
    <2>2. CASE ~subActive
      BY <1>0, <1>14, <2>2, RateKept DEF StreamLost
    <2>3. CASE subActive /\ timer = Null
      BY <1>14, <2>3 DEF StreamLost, Rate
    <2>4. CASE subActive /\ timer # Null
      <3>1. /\ subActive' = FALSE /\ unbound' = FALSE /\ quality' = "polling"
            /\ timer' = PollTimer(gen, FALSE, FALSE)
        BY <1>14, <2>1, <2>4 DEF StreamLost
      <3> QED
        BY <3>1, QualityClaims DEF Rate
    <2> QED
      BY <2>2, <2>3, <2>4
  <1>15. ASSUME NEW g \in groups, StreamRestored(g) PROVE Rate'
    <2>1. /\ subActive' /\ unbound' \in BOOLEAN /\ quality' = StreamQuality(TRUE, unbound')
          /\ timer' = IF timer = Null \/ timer.slow = StreamBringsStatus(TRUE, unbound')
                      THEN timer ELSE PollTimer(gen, TRUE, unbound')
      BY <1>0, <1>15 DEF StreamRestored
    <2> QED
      BY <2>1, QualityClaims DEF Rate, StreamBringsStatus
  <1>16. CASE UNCHANGED vars
    BY <1>0, <1>16, RateKept DEF vars, link, stream
  <1> QED
    BY <1>3, <1>4, <1>5, <1>6, <1>7, <1>8, <1>9, <1>10, <1>11, <1>12, <1>13, <1>14, <1>15, <1>16
    DEF Next, Resume, Answer, PollStep, RetryStep

\* However streams are lost and restored around polls, retries and reconnects: a manager that polls and
\* says "live" has a stream with every status field and the slow rate.
THEOREM LiveMeansSlow == Spec => []LiveIsSlow
  <1> DEFINE R == ~overtaken => Rate
  <1>1. Init => R
    BY DEF Init, Rate
  <1>2. IInv /\ R /\ [Next]_vars => R'
    <2>1. [Next]_vars /\ overtaken => overtaken'
      BY DEF Next, Resume, PollTornDown, SupersedeTornDown, SupersedeGo, OwnTornDown, SubscribeStart, FirstPoll,
         ConnectEnd, Connect, Disconnect, Answer, Probed, LoggedIn, Closed, Subscribed, Undone, TeardownStep,
         TeardownQuiesced, TeardownUnsubscribed, TeardownEnd, Tick, Refresh, PollStep, PollStale, PollOk,
         PollFailed, RetryStep, RetryLetGo, RetryFailed, RetryLate, RetrySubscribed, StreamLost, StreamRestored, vars
    <2> QED
      BY <2>1, RateStep
  <1>3. IInv /\ R => LiveIsSlow
    BY DEF IInv, Clean, TimerInv, ConnInv, Rate, LiveIsSlow
  <1> QED
    BY <1>1, <1>2, <1>3, Always, PTL DEF Spec

-----------------------------------------------------------------------------
(* Why every connect() comes to an end.                                    *)

\* An attempt that waits for its teardown or its first poll has one, and a poll that gives the connection
\* up has its teardown.
PlacesOK ==
    /\ \A a \in Attempts : att[a].pc \in {"superTd", "ownTd"} => td[a].pc # "none"
    /\ \A a \in Attempts : att[a].pc = "polling" => fetch # Null /\ fetch.by = a
    /\ fetch # Null /\ fetch.pc = "tearing" => td["poll"].pc # "none"

\* The poll is left alone, and nobody begins to wait for it.
LEMMA PlacesKept ==
    ASSUME PlacesOK, fetch' = fetch,
           td'["poll"].pc # "none" \/ td'["poll"] = td["poll"],
           \A a \in Attempts : att'[a].pc \in {"superTd", "ownTd"} => td'[a].pc # "none",
           \A a \in Attempts : att'[a].pc = "polling" => att[a].pc = "polling"
    PROVE  PlacesOK'
  BY DEF PlacesOK

\* An attempt goes elsewhere, without a poll or a teardown to wait for.
LEMMA PlaceLeft ==
    ASSUME TypeOK, PlacesOK, NEW a \in Attempts, NEW q, att' = [att EXCEPT ![a] = q],
           q.pc \notin {"superTd", "ownTd", "polling"}, fetch' = fetch,
           \A c \in Callers : c # a => td'[c] = td[c]
    PROVE  PlacesOK'
  <1>1. "poll" \in Callers /\ "poll" # a /\ Attempts \subseteq Callers
    BY NamesAssumption DEF Callers
  <1>2. att'[a] = q /\ \A x \in Attempts : x # a => att'[x] = att[x]
    BY DEF TypeOK
  <1>3. \A x \in Attempts : att'[x].pc \in {"superTd", "ownTd"} => td'[x].pc # "none"
    BY <1>1, <1>2 DEF PlacesOK
  <1> QED
    BY <1>1, <1>2, <1>3, PlacesKept

\* An attempt waits for the teardown it begins.
LEMMA PlaceTearsDown ==
    ASSUME TypeOK, PlacesOK, AdapterInv, NEW a \in Attempts, NEW q, att' = [att EXCEPT ![a] = q],
           q.pc \in {"superTd", "ownTd"}, fetch' = fetch, BeginTeardown(a)
    PROVE  PlacesOK'
  <1>1. "poll" \in Callers /\ "poll" # a /\ Attempts \subseteq Callers /\ a \in Callers
    BY NamesAssumption DEF Callers
  <1>2. att'[a] = q /\ \A x \in Attempts : x # a => att'[x] = att[x]
    BY DEF TypeOK
  <1>3. td'[a].pc # "none" /\ \A c \in Callers : c # a => td'[c] = td[c]
    BY <1>1, TeardownHead
  <1>4. \A x \in Attempts : att'[x].pc \in {"superTd", "ownTd"} => td'[x].pc # "none"
    BY <1>1, <1>2, <1>3 DEF PlacesOK
  <1> QED
    BY <1>1, <1>2, <1>3, <1>4, PlacesKept

\* The head of an attempt.
LEMMA PlaceHead ==
    ASSUME TypeOK, PlacesOK, AdapterInv, NEW a \in Attempts, NEW r \in AttemptStates, NEW o,
           DoConnect(a, r, o), fetch' = fetch
    PROVE  PlacesOK'
  <1>1. CASE SetAttempt(a, [r EXCEPT !.pc = "done"]) /\ td' = td
    <2>1. [r EXCEPT !.pc = "done"].pc = "done"
      BY DEF AttemptStates
    <2> QED
      BY <1>1, <2>1, PlaceLeft DEF SetAttempt
  <1>2. CASE SetAttempt(a, [r EXCEPT !.pc = "ownTd"]) /\ BeginTeardown(a)
    <2>1. [r EXCEPT !.pc = "ownTd"].pc = "ownTd"
      BY DEF AttemptStates
    <2> QED
      BY <1>2, <2>1, PlaceTearsDown DEF SetAttempt
  <1>3. CASE /\ SetAttempt(a, [r EXCEPT !.epoch = epoch, !.pc = IF Cancelled(r) THEN "done" ELSE "probe"])
             /\ td' = td
    <2> DEFINE q == [r EXCEPT !.epoch = epoch, !.pc = IF Cancelled(r) THEN "done" ELSE "probe"]
    <2>1. q.pc \in {"done", "probe"}
      BY DEF AttemptStates
    <2>2. att' = [att EXCEPT ![a] = q]
      BY <1>3 DEF SetAttempt
    <2> HIDE DEF q
    <2> QED
      BY <1>3, <2>1, <2>2, PlaceLeft
  <1> QED
    BY <1>1, <1>2, <1>3 DEF DoConnect

\* A poll starts for nobody while none is out.
LEMMA PlacePolls ==
    ASSUME TypeOK, PlacesOK, NEW g \in Nat,
           fetch' = IF fetch = Null THEN Reading(g, Null) ELSE fetch, UNCHANGED <<att, td>>
    PROVE  PlacesOK'
  <1>1. CASE fetch = Null
    BY <1>1 DEF PlacesOK, Reading
  <1>2. CASE fetch # Null
    BY <1>2 DEF PlacesOK
  <1> QED
    BY <1>1, <1>2

\* The poll ends, and nobody waits for it any more.
LEMMA PlacePollOver ==
    ASSUME TypeOK, PlacesOK, fetch # Null, PollOver(fetch.by), fetch' = Null,
           \A a \in Attempts : td'[a] = td[a]
    PROVE  PlacesOK'
  <1>1. ASSUME NEW a \in Attempts
        PROVE  /\ att'[a].pc # "polling"
               /\ att'[a].pc \in {"superTd", "ownTd"} => att[a].pc \in {"superTd", "ownTd"}
    <2>1. CASE fetch.by \in Attempts
      <3>1. att' = [att EXCEPT ![fetch.by].pc = "polled"]
        BY <2>1 DEF PollOver
      <3>2. CASE a = fetch.by
        BY <3>1, <3>2 DEF TypeOK, AttemptStates
      <3>3. CASE a # fetch.by
        <4>1. att'[a] = att[a]
          BY <3>1, <3>3 DEF TypeOK
        <4> QED
          BY <3>3, <4>1 DEF PlacesOK
      <3> QED
        BY <3>2, <3>3
    <2>2. CASE fetch.by \notin Attempts
      BY <2>2 DEF PollOver, PlacesOK
    <2> QED
      BY <2>1, <2>2
  <1> QED
    BY <1>1 DEF PlacesOK

\* Nobody waits for a teardown or a poll that is not under way.
LEMMA PlacesStep ==
    ASSUME IInv, PlacesOK, [Next]_vars
    PROVE  PlacesOK'
  <1>0. /\ TypeOK /\ AdapterInv /\ gen \in Nat
        /\ \A a \in Attempts : att[a] \in AttemptStates
        /\ "poll" \in Callers /\ Attempts \subseteq Callers /\ "poll" \notin Attempts /\ Attempts \cap Users = {}
        /\ "poll" \notin Users /\ Users \subseteq Callers
    BY NamesAssumption DEF IInv, Basic, TypeOK, Callers
  <1>a. UNCHANGED <<att, td, fetch>> => PlacesOK'
    BY DEF PlacesOK
  <1>b. ASSUME NEW a \in Attempts, NEW q, SetAttempt(a, q), UNCHANGED <<td, fetch>>,
               q.pc \notin {"superTd", "ownTd", "polling"}
        PROVE  PlacesOK'
    BY <1>0, <1>b, PlaceLeft DEF SetAttempt
  <1>c. ASSUME NEW a \in Attempts, Throw(a) \/ Return(a), UNCHANGED <<td, fetch>>
        PROVE  PlacesOK'
    <2>1. SetAttempt(a, [att[a] EXCEPT !.pc = "done"])
      BY <1>c DEF Throw, Return
    <2>2. [att[a] EXCEPT !.pc = "done"].pc = "done"
      BY <1>0 DEF AttemptStates
    <2> QED
      BY <1>b, <1>c, <2>1, <2>2
  <1>1. ASSUME NEW t \in Targets, Connect(t) PROVE PlacesOK'
    <2> DEFINE new == CHOOSE a \in Attempts : att[a].pc = "unused"
               r == [pc |-> "superTd", tgt |-> t, epoch |-> epoch, cancelled |-> FALSE,
                     after |-> connecting, gen |-> 0, h |-> Null]
    <2>1. new \in Attempts
      BY <1>1 DEF Connect
    <2>2. r \in AttemptStates /\ r.pc = "superTd"
      BY <1>0 DEF TypeOK, AttemptStates
    <2>3. (SetAttempt(new, r) /\ BeginTeardown(new)) \/ DoConnect(new, r, new)
      BY <1>1 DEF Connect
    <2>4. fetch' = fetch
      BY <1>1 DEF Connect
    <2> HIDE DEF new, r
    <2>5. CASE SetAttempt(new, r) /\ BeginTeardown(new)
      BY <1>0, <2>1, <2>2, <2>4, <2>5, PlaceTearsDown DEF SetAttempt
    <2>6. CASE DoConnect(new, r, new)
      BY <1>0, <2>1, <2>2, <2>4, <2>6, PlaceHead
    <2> QED
      BY <2>3, <2>5, <2>6
  <1>2. ASSUME NEW u \in Users, Disconnect(u) PROVE PlacesOK'
    <2>1. \A c \in Callers : c # u => td'[c] = td[c]
      BY <1>0, <1>2, TeardownHead DEF Disconnect
    <2>2. \A a \in Attempts : att'[a].pc = att[a].pc
      <3>1. CASE connecting = Null
        BY <1>2, <3>1 DEF Disconnect
      <3>2. CASE connecting # Null
        <4>1. att' = [att EXCEPT ![connecting].cancelled = TRUE] /\ connecting \in Attempts
          BY <1>0, <1>2, <3>2 DEF Disconnect, TypeOK
        <4> QED
          BY <1>0, <4>1 DEF TypeOK, AttemptStates
      <3> QED
        BY <3>1, <3>2
    <2>3. fetch' = fetch /\ td'["poll"] = td["poll"]
      BY <1>0, <1>2, <2>1 DEF Disconnect
    <2>4. \A a \in Attempts : att'[a].pc \in {"superTd", "ownTd"} => td'[a].pc # "none"
      BY <1>0, <2>1, <2>2 DEF PlacesOK
    <2> QED
      BY <2>2, <2>3, <2>4, PlacesKept
  <1>3. ASSUME NEW c \in Callers, TeardownStep(c) PROVE PlacesOK'
    <2>1. /\ att' = att /\ fetch' = fetch
          /\ \E q : td' = [td EXCEPT ![c] = q] /\ q.pc # "none"
      <3>1. CASE TeardownQuiesced(c)
        <4>1. NextTeardown.pc # "none"
          BY DEF NextTeardown
        <4> QED
          BY <3>1, <4>1 DEF TeardownQuiesced
      <3>2. CASE TeardownUnsubscribed(c)
        <4>1. [pc |-> "bye", h |-> adapter].pc # "none"
          OBVIOUS
        <4> QED
          BY <3>2, <4>1 DEF TeardownUnsubscribed
      <3>3. CASE TeardownEnd(c)
        <4>1. [td[c] EXCEPT !.pc = "done"].pc = "done"
          BY <1>0 DEF TypeOK, TeardownStates
        <4> QED
          BY <3>3, <4>1 DEF TeardownEnd
      <3> QED
        BY <1>3, <3>1, <3>2, <3>3 DEF TeardownStep
    <2>2. \A d \in Callers : td'[d] = td[d] \/ td'[d].pc # "none"
      BY <1>0, <2>1 DEF TypeOK
    <2>3. \A a \in Attempts : att'[a].pc \in {"superTd", "ownTd"} => td'[a].pc # "none"
      BY <1>0, <2>1, <2>2 DEF PlacesOK
    <2> QED
      BY <1>0, <2>1, <2>2, <2>3, PlacesKept
  <1>4. ASSUME NEW a \in Attempts, SupersedeTornDown(a) PROVE PlacesOK'
    <2> DEFINE q == [att[a] EXCEPT !.pc = "superWait", !.epoch = epoch]
    <2>1. q.pc = "superWait"
      BY <1>0 DEF AttemptStates
    <2>2. att' = [att EXCEPT ![a] = q] /\ fetch' = fetch /\ td' = [td EXCEPT ![a] = NoTeardown]
      BY <1>4 DEF SupersedeTornDown, SetAttempt
    <2>3. \A c \in Callers : c # a => td'[c] = td[c]
      BY <1>0, <2>2 DEF TypeOK
    <2> HIDE DEF q
    <2> QED
      BY <1>0, <2>1, <2>2, <2>3, PlaceLeft
  <1>5. ASSUME NEW a \in Attempts, SupersedeGo(a) PROVE PlacesOK'
    BY <1>0, <1>5, PlaceHead DEF SupersedeGo
  <1>6. ASSUME NEW a \in Attempts, OwnTornDown(a) PROVE PlacesOK'
    <2> DEFINE q == [att[a] EXCEPT !.epoch = epoch, !.pc = IF Cancelled(att[a]) THEN "done" ELSE "probe"]
    <2>1. q.pc \in {"done", "probe"}
      BY <1>0 DEF AttemptStates
    <2>2. att' = [att EXCEPT ![a] = q] /\ fetch' = fetch /\ td' = [td EXCEPT ![a] = NoTeardown]
      BY <1>6 DEF OwnTornDown, SetAttempt
    <2>3. \A c \in Callers : c # a => td'[c] = td[c]
      BY <1>0, <2>2 DEF TypeOK
    <2> HIDE DEF q
    <2> QED
      BY <1>0, <2>1, <2>2, <2>3, PlaceLeft
  <1>7. ASSUME NEW a \in Attempts, Probed(a) PROVE PlacesOK'
    <2>1. [att[a] EXCEPT !.pc = "login"].pc = "login" /\ UNCHANGED <<td, fetch>>
      BY <1>0, <1>7 DEF Probed, AttemptStates
    <2> QED
      BY <1>7, <1>b, <1>c, <2>1 DEF Probed
  <1>8. ASSUME NEW a \in Attempts, LoggedIn(a) PROVE PlacesOK'
    <2>1. /\ [att[a] EXCEPT !.pc = "closing", !.h = adapter].pc = "closing"
          /\ [att[a] EXCEPT !.pc = "subWait"].pc = "subWait" /\ UNCHANGED <<td, fetch>>
      BY <1>0, <1>8 DEF LoggedIn, AttemptStates
    <2> QED
      BY <1>8, <1>b, <1>c, <2>1 DEF LoggedIn
  <1>9. ASSUME NEW a \in Attempts, Closed(a) PROVE PlacesOK'
    BY <1>9, <1>c DEF Closed
  <1>10. ASSUME NEW a \in Attempts, SubscribeStart(a) PROVE PlacesOK'
    <2> DEFINE q == [att[a] EXCEPT !.pc = IF att[a].epoch = epoch THEN "subscribe" ELSE "subDone"]
    <2>1. q.pc \in {"subscribe", "subDone"}
      BY <1>0 DEF AttemptStates
    <2>2. SetAttempt(a, q) /\ UNCHANGED <<td, fetch>>
      BY <1>10 DEF SubscribeStart
    <2> HIDE DEF q
    <2> QED
      BY <1>b, <2>1, <2>2
  <1>11. ASSUME NEW a \in Attempts, Subscribed(a) PROVE PlacesOK'
    <2>1. [att[a] EXCEPT !.pc = "subDone"].pc = "subDone"
      BY <1>0 DEF AttemptStates
    <2>2. SetAttempt(a, [att[a] EXCEPT !.pc = "subDone"]) /\ UNCHANGED <<td, fetch>>
      BY <1>11 DEF Subscribed
    <2> QED
      BY <1>b, <2>1, <2>2
  <1>12. ASSUME NEW a \in Attempts, FirstPoll(a) PROVE PlacesOK'
    <2>0. td' = td
      BY <1>12 DEF FirstPoll
    <2>1. CASE \E p \in {"closing", "undo"}, v \in {adapter, unsub} : SetAttempt(a, [att[a] EXCEPT !.pc = p, !.h = v]) /\ fetch' = fetch
      <3>1. PICK p \in {"closing", "undo"}, v \in {adapter, unsub} : SetAttempt(a, [att[a] EXCEPT !.pc = p, !.h = v]) /\ fetch' = fetch
        BY <2>1
      <3>2. [att[a] EXCEPT !.pc = p, !.h = v].pc = p
        BY <1>0 DEF AttemptStates
      <3> QED
        BY <1>b, <2>0, <3>1, <3>2
    <2>2. CASE Return(a) /\ fetch' = fetch
      BY <1>c, <2>0, <2>2
    <2>3. CASE /\ fetch = Null /\ fetch' = Reading(gen', a) /\ gen' = gen + 1
               /\ SetAttempt(a, [att[a] EXCEPT !.pc = "polling", !.gen = gen'])
      <3> DEFINE q == [att[a] EXCEPT !.pc = "polling", !.gen = gen']
      <3>1. q.pc = "polling"
        BY <1>0 DEF AttemptStates
      <3>2. att' = [att EXCEPT ![a] = q]
        BY <2>3 DEF SetAttempt
      <3> HIDE DEF q
      <3>3. att'[a] = q /\ \A x \in Attempts : x # a => att'[x] = att[x]
        BY <1>0, <3>2 DEF TypeOK
      <3>4. \A x \in Attempts : att[x].pc # "polling"
        BY <2>3 DEF PlacesOK
      <3>5. fetch' # Null /\ fetch'.by = a /\ fetch'.pc = "reading"
        BY <1>0, <2>3, NullAssumption DEF Reading, Polls
      <3> QED
        BY <2>0, <3>1, <3>3, <3>4, <3>5 DEF PlacesOK
    <2>4. CASE Aborted(a)
      <3>1. SetAttempt(a, [att[a] EXCEPT !.pc = "closing", !.h = adapter])
              \/ SetAttempt(a, [att[a] EXCEPT !.pc = "undo", !.h = unsub])
        BY <1>12, <2>4 DEF FirstPoll
      <3>2. fetch' = fetch
        BY <1>12, <2>4 DEF FirstPoll
      <3> QED
        BY <2>1, <3>1, <3>2
    <2>5. CASE ~Aborted(a)
      BY <1>12, <2>2, <2>3, <2>5 DEF FirstPoll
    <2> QED
      BY <2>4, <2>5
  <1>13. ASSUME NEW a \in Attempts, Undone(a) PROVE PlacesOK'
    <2>1. [att[a] EXCEPT !.pc = "closing", !.h = adapter].pc = "closing"
      BY <1>0 DEF AttemptStates
    <2>2. SetAttempt(a, [att[a] EXCEPT !.pc = "closing", !.h = adapter]) /\ UNCHANGED <<td, fetch>>
      BY <1>13 DEF Undone
    <2> QED
      BY <1>b, <2>1, <2>2
  <1>14. ASSUME NEW a \in Attempts, ConnectEnd(a) PROVE PlacesOK'
    BY <1>14, <1>c DEF ConnectEnd
  <1>15. CASE Tick \/ Refresh
    <2>1. \E g \in Nat : fetch' = (IF fetch = Null THEN Reading(g, Null) ELSE fetch) /\ UNCHANGED <<att, td>>
      BY <1>0, <1>15 DEF Tick, Refresh
    <2> QED
      BY <1>0, <2>1, PlacePolls
  <1>16. CASE PollStale \/ PollOk
    BY <1>0, <1>16, PlacePollOver DEF PollStale, PollOk
  <1>17. CASE PollTornDown
    <2>1. fetch # Null /\ fetch' = Null /\ PollOver(fetch.by) /\ td' = [td EXCEPT !["poll"] = NoTeardown]
      BY <1>17 DEF PollTornDown
    <2>2. \A a \in Attempts : td'[a] = td[a]
      BY <1>0, <2>1 DEF TypeOK
    <2> QED
      BY <1>0, <2>1, <2>2, PlacePollOver
  <1>18. CASE PollFailed
    <2>1. CASE fetch' = Null /\ PollOver(fetch.by) /\ UNCHANGED td
      BY <1>0, <1>18, <2>1, PlacePollOver DEF PollFailed
    <2>2. CASE BeginTeardown("poll") /\ fetch' = [fetch EXCEPT !.pc = "tearing"] /\ att' = att
      <3>1. fetch # Null /\ fetch \in Polls
        BY <1>0, <1>18 DEF PollFailed, TypeOK
      <3>2. fetch'.by = fetch.by /\ fetch' # Null
        BY <2>2, <3>1, NullAssumption DEF Polls
      <3>3. td'["poll"].pc # "none" /\ \A a \in Attempts : td'[a] = td[a]
        BY <1>0, <2>2, TeardownHead
      <3> QED
        BY <2>2, <3>2, <3>3 DEF PlacesOK
    <2> QED
      BY <1>18, <2>1, <2>2 DEF PollFailed
  <1>19. CASE RetryStep
    <2>1. CASE RetryLetGo \/ RetryFailed \/ RetryLate
      BY <1>a, <2>1 DEF RetryLetGo, RetryFailed, RetryLate
    <2>2. CASE RetrySubscribed
      BY <1>0, <2>2, PlacePolls DEF RetrySubscribed
    <2> QED
      BY <1>19, <2>1, <2>2 DEF RetryStep
  <1>20. ASSUME NEW g \in groups, StreamLost(g) PROVE PlacesOK'
    BY <1>a, <1>20 DEF StreamLost
  <1>21. ASSUME NEW g \in groups, StreamRestored(g) PROVE PlacesOK'
    BY <1>0, <1>21, PlacePolls DEF StreamRestored
  <1>22. CASE UNCHANGED vars
    BY <1>a, <1>22 DEF vars
  <1> QED
    BY <1>1, <1>2, <1>3, <1>4, <1>5, <1>6, <1>7, <1>8, <1>9, <1>10, <1>11, <1>12, <1>13, <1>14, <1>15,
       <1>16, <1>17, <1>18, <1>19, <1>20, <1>21, <1>22
    DEF Next, Resume, Answer, PollStep

\* Of some attempts one is first in the queue.
LEMMA FirstInQueue ==
    ASSUME NEW S \in SUBSET Attempts, S # {}, NEW f \in [Attempts -> Nat]
    PROVE  \E a \in S : \A b \in S : f[a] <= f[b]
  <1> DEFINE R == {x \in Nat \X Nat : x[1] < x[2]}
             T == {f[a] : a \in S}
  <1>1. IsWellFoundedOn(R, Nat)
    BY NatLessThanWellFounded DEF OpToRel, IsWellFoundedOn
  <1>2. T \subseteq Nat /\ T # {}
    OBVIOUS
  <1> HIDE DEF R, T
  <1>3. PICK m \in T : \A n \in T : <<n, m>> \notin R
    BY <1>1, <1>2, WFMin
  <1>4. PICK a \in S : m = f[a]
    BY DEF T
  <1>5. ASSUME NEW b \in S PROVE f[a] <= f[b]
    <2>1. f[b] \in T /\ f[b] \in Nat /\ f[a] \in Nat
      BY DEF T
    <2>2. <<f[b], f[a]>> \notin R
      BY <1>3, <1>4, <2>1
    <2> QED
      BY <2>1, <2>2 DEF R
  <1> QED
    BY <1>5

\* However many connects supersede each other, next to disconnects, polls and retries: as long as one is
\* not over there is one that waits for no other, and what it waits for is under way.
THEOREM NoCircleOfConnects == Spec => []SomebodyGoesOn
  <1>1. Init => PlacesOK
    BY DEF Init, PlacesOK, NoAttempt
  <1>2. IInv /\ PlacesOK => SomebodyGoesOn
    <2> SUFFICES ASSUME IInv, PlacesOK, \E a \in Attempts : Pending(a)
                 PROVE  \E a \in Attempts : WaitsForNoOther(a)
      BY DEF SomebodyGoesOn
    <2>1. TypeOK
      BY DEF IInv
    <2>2. PICK f : Chain(f)
      BY DEF IInv, ChainInv
    <2> DEFINE S == {a \in Attempts : Pending(a)}
    <2>3. PICK a \in S : \A b \in S : f[a] <= f[b]
      <3>1. S # {} /\ S \in SUBSET Attempts /\ f \in [Attempts -> Nat]
        BY <2>2 DEF Chain
      <3> QED
        BY <3>1, FirstInQueue
    <2>4. a \in Attempts /\ att[a].pc \notin {"unused", "done"} /\ att[a] \in AttemptStates
      BY <2>1 DEF Pending, TypeOK
    <2>5. CASE att[a].pc = "superWait"
      <3>1. /\ att[a].after \in Attempts /\ att[att[a].after].pc # "unused"
            /\ f[att[a].after] < f[a] /\ f[a] \in Nat /\ f[att[a].after] \in Nat
        BY <2>2, <2>4, <2>5 DEF Chain, Super
      <3>2. att[att[a].after].pc = "done"
        BY <2>3, <3>1 DEF Pending
      <3> QED
        BY <2>4, <2>5, <3>2 DEF WaitsForNoOther
    <2>6. CASE att[a].pc \in {"superTd", "ownTd"}
      BY <2>4, <2>6 DEF WaitsForNoOther, PlacesOK
    <2>7. CASE att[a].pc = "polling"
      BY <2>4, <2>7 DEF WaitsForNoOther, PlacesOK
    <2>8. CASE att[a].pc \in {"probe", "login", "closing", "subWait", "subscribe", "subDone", "undo", "polled"}
      BY <2>4, <2>8 DEF WaitsForNoOther
    <2> QED
      BY <2>4, <2>5, <2>6, <2>7, <2>8 DEF AttemptStates
  <1> QED
    BY <1>1, <1>2, PlacesStep, Always, PTL DEF Spec

=============================================================================
