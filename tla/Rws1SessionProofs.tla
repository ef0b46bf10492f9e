------------------------- MODULE Rws1SessionProofs -------------------------
(***************************************************************************)
(* The RWS 1.0 session for every set of requests and every number of       *)
(* sessions and close() calls: what is sent again is not carried out       *)
(* twice, a stop waits for no create, a replaced session is reported and   *)
(* a close() breaks no request.                                            *)
(***************************************************************************)
EXTENDS Rws1Session, SequenceTheorems, TLAPS

Waiting == {"queued", "wire", "pause"}

(* The queue holds the unsettled requests, each once, and only its first   *)
(* one was sent.                                                           *)
QueueOK ==
    /\ \A i \in 1 .. Len(queue) : at[queue[i]] \in Waiting
    /\ \A i, j \in 1 .. Len(queue) : i # j => queue[i] # queue[j]
    /\ \A r \in Requests : at[r] \in {"wire", "pause"} => Running(r)

(* While a request that changes something is being sent it was not carried *)
(* out yet: every answer that comes after it was ends the request.         *)
TakenOK ==
    /\ taken <= 1
    /\ \A r \in Requests : at[r] \in {"wire", "pause"} /\ Kind[r] # "get" => taken = 0

(* A cookie held before the request is held until the retry without it.    *)
HeldOK == held /\ try.send \in {"first", "digest"} => cookie # 0

(* The close() whose connections may be let go was the last one, and        *)
(* nothing was queued since.                                               *)
ClosingOK ==
    \A c \in closings : c.seq <= closeSeq /\ (closed /\ c.seq = closeSeq => Unsettled \subseteq c.after)

(* A create with a stop or a /logout behind it was cut short. *)
CreatesCut ==
    \A i, j \in 1 .. Len(queue) :
        (i < j /\ Kind[queue[i]] = "create" /\ Kind[queue[j]] \in {"stop", "logout"}) => queue[i] \in aborted

Inv == TypeOK /\ QueueOK /\ TakenOK /\ HeldOK /\ ClosingOK /\ CreatesCut

-----------------------------------------------------------------------------
(* The queue after an append and after its first request settled. *)

LEMMA Appended ==
    ASSUME NEW s \in Seq(Requests), NEW r \in Requests
    PROVE  /\ Append(s, r) \in Seq(Requests)
           /\ Len(Append(s, r)) = Len(s) + 1
           /\ Append(s, r)[Len(s) + 1] = r
           /\ \A i \in 1 .. Len(s) : Append(s, r)[i] = s[i]
           /\ Len(s) > 0 => Head(Append(s, r)) = Head(s)
  OBVIOUS

LEMMA Rest ==
    ASSUME NEW s \in Seq(Requests), Len(s) > 0
    PROVE  /\ Tail(s) \in Seq(Requests)
           /\ Len(Tail(s)) = Len(s) - 1
           /\ \A i \in 1 .. Len(Tail(s)) : i + 1 \in 1 .. Len(s) /\ Tail(s)[i] = s[i + 1]
           /\ Head(s) = s[1] /\ s[1] \in Requests
  <1>1. s # <<>>
    OBVIOUS
  <1> QED
    BY <1>1

-----------------------------------------------------------------------------
(* Types. *)

LEMMA SessionsRange ==
    ASSUME TypeOK, NEW s \in Sessions
    PROVE  s \in 1 .. MaxSessions
  BY Rws1Assumption DEF TypeOK, Sessions

LEMMA SentRange ==
    ASSUME TypeOK
    PROVE  SentCookie \in 0 .. MaxSessions
  BY DEF TypeOK, SentCookie

LEMMA SettleTypes ==
    ASSUME TypeOK, NEW r \in Requests, Running(r), Settle(r)
    PROVE  /\ queue' \in Seq(Requests)
           /\ at' \in [Requests -> Places]
           /\ try' \in [send : Sends, again : BOOLEAN]
           /\ held' \in BOOLEAN
           /\ offered' \in 0 .. MaxSessions
  <1>1. Tail(queue) \in Seq(Requests)
    BY Rest DEF TypeOK, Running
  <1>2. at' \in [Requests -> Places]
    BY DEF TypeOK, Settle, Places
  <1>3. try' \in [send : Sends, again : BOOLEAN]
    BY DEF Settle, Sends
  <1>4. held' \in BOOLEAN
    BY Zenon DEF Settle
  <1>5. offered' \in 0 .. MaxSessions
    BY Rws1Assumption DEF Settle
  <1> QED
    BY <1>1, <1>2, <1>3, <1>4, <1>5 DEF Settle

LEMMA CarriedTypes ==
    ASSUME TypeOK, NEW r \in Requests, CarriedOut(r)
    PROVE  taken' \in 0 .. 2
  BY DEF TypeOK, CarriedOut

LEMMA StoreTypes ==
    ASSUME TypeOK, NEW s \in 0 .. MaxSessions, StoreCookies(s)
    PROVE  cookie' \in 0 .. MaxSessions /\ replaced' \in BOOLEAN
  <1>1. replaced' \in BOOLEAN
    BY Zenon DEF TypeOK, StoreCookies
  <1> QED
    BY <1>1 DEF StoreCookies

(* TypeOK in parts. *)
FlagType == digest \in BOOLEAN /\ replaced \in BOOLEAN /\ closed \in BOOLEAN /\ creds \in BOOLEAN /\ held \in BOOLEAN
QueueType == queue \in Seq(Requests) /\ at \in [Requests -> Places] /\ aborted \subseteq Requests
TryType == try \in [send : Sends, again : BOOLEAN]
SessionType ==
    /\ cookie \in 0 .. MaxSessions /\ offered \in 0 .. MaxSessions
    /\ live \subseteq 1 .. MaxSessions /\ opened \in 0 .. MaxSessions
    /\ taken \in 0 .. 2
CloseType ==
    closings \subseteq [seq : 1 .. MaxCloses, after : SUBSET Requests] /\ closeSeq \in 0 .. MaxCloses

LEMMA TypeParts == TypeOK <=> FlagType /\ QueueType /\ TryType /\ SessionType /\ CloseType
  BY DEF TypeOK, FlagType, QueueType, TryType, SessionType, CloseType

LEMMA TypePartsNext == TypeOK' <=> (FlagType /\ QueueType /\ TryType /\ SessionType /\ CloseType)'
  BY DEF TypeOK, FlagType, QueueType, TryType, SessionType, CloseType

LEMMA TypeStep ==
    ASSUME TypeOK, [Next]_vars
    PROVE  TypeOK'
  <1> USE Rws1Assumption
  <1>0. FlagType /\ QueueType /\ TryType /\ SessionType /\ CloseType
    BY TypeParts
  <1>1. ASSUME NEW r \in Requests, Start(r)
        PROVE  (FlagType /\ QueueType /\ TryType /\ SessionType /\ CloseType)'
    <2>1. FlagType'
      BY <1>0, <1>1, Zenon DEF FlagType, Start, Goes, lifecycle
    <2>2. QueueType'
      BY <1>0, <1>1 DEF QueueType, Places, Start, Goes, lifecycle
    <2>3. TryType'
      BY <1>0, <1>1 DEF TryType, Sends, Start, Goes, lifecycle
    <2>4. SessionType'
      BY <1>0, <1>1 DEF SessionType, Start, Goes, lifecycle
    <2>5. CloseType'
      BY <1>0, <1>1 DEF CloseType, Start, Goes, lifecycle
    <2> QED
      BY <2>1, <2>2, <2>3, <2>4, <2>5
  <1>2. ASSUME NEW r \in Requests, Cut(r)
        PROVE  (FlagType /\ QueueType /\ TryType /\ SessionType /\ CloseType)'
    <2>1. FlagType'
      BY <1>0, <1>2, Zenon DEF FlagType, Cut, lifecycle, Settle
    <2>2. QueueType'
      BY <1>0, <1>2, SettleTypes DEF QueueType, Places, Cut, lifecycle, OnWire, Goes
    <2>3. TryType'
      BY <1>0, <1>2, SettleTypes DEF TryType, Sends, Cut, lifecycle, OnWire, Goes
    <2>4. SessionType'
      BY <1>0, <1>2, SettleTypes, CarriedTypes DEF SessionType, Cut, lifecycle, OnWire, Goes
    <2>5. CloseType'
      BY <1>0, <1>2 DEF CloseType, Cut, lifecycle
    <2> QED
      BY <2>1, <2>2, <2>3, <2>4, <2>5
  <1>3. ASSUME NEW r \in Requests, Answered(r)
        PROVE  (FlagType /\ QueueType /\ TryType /\ SessionType /\ CloseType)'
    <2>1. FlagType'
      BY <1>0, <1>3, Zenon DEF FlagType, Answered, lifecycle, Settle, StoreCookies
    <2>2. QueueType'
      BY <1>0, <1>3, SettleTypes DEF QueueType, Places, Answered, lifecycle, OnWire, Goes
    <2>3. TryType'
      BY <1>0, <1>3, SettleTypes DEF TryType, Sends, Answered, lifecycle, OnWire, Goes
    <2>4. SessionType'
      <3>1. PICK s \in Sessions : StoreCookies(s) /\ live' = live \cup {s} /\ opened' = IF s > opened THEN s ELSE opened
        BY <1>3 DEF Answered
      <3>2. s \in 1 .. MaxSessions
        BY SessionsRange
      <3>3. cookie' \in 0 .. MaxSessions
        BY <3>1, <3>2, StoreTypes
      <3>4. offered' \in 0 .. MaxSessions /\ taken' \in 0 .. 2
        BY <1>3, SettleTypes, CarriedTypes DEF Answered, OnWire, Goes
      <3> QED
        BY <1>0, <1>3, <3>1, <3>2, <3>3, <3>4 DEF SessionType, Answered
    <2>5. CloseType'
      BY <1>0, <1>3 DEF CloseType, Answered, lifecycle
    <2> QED
      BY <2>1, <2>2, <2>3, <2>4, <2>5
  <1>4. ASSUME NEW r \in Requests, Refused(r)
        PROVE  (FlagType /\ QueueType /\ TryType /\ SessionType /\ CloseType)'
    <2>1. FlagType'
      BY <1>0, <1>4, Zenon DEF FlagType, Refused, lifecycle, Settle, StoreCookies
    <2>2. QueueType'
      BY <1>0, <1>4, SettleTypes DEF QueueType, Places, Refused, lifecycle, OnWire, Goes
    <2>3. TryType'
      BY <1>0, <1>4, SettleTypes DEF TryType, Sends, Refused, lifecycle, OnWire, Goes
    <2>4. SessionType'
      <3>1. PICK s \in Sessions : StoreCookies(s) /\ live' = live \cup {s} /\ opened' = IF s > opened THEN s ELSE opened
        BY <1>4 DEF Refused
      <3>2. s \in 1 .. MaxSessions
        BY SessionsRange
      <3>3. cookie' \in 0 .. MaxSessions
        BY <3>1, <3>2, StoreTypes
      <3>4. offered' \in 0 .. MaxSessions
        BY <1>4, SettleTypes DEF Refused, OnWire, Goes
      <3> QED
        BY <1>0, <1>4, <3>1, <3>2, <3>3, <3>4 DEF SessionType, Refused
    <2>5. CloseType'
      BY <1>0, <1>4 DEF CloseType, Refused, lifecycle
    <2> QED
      BY <2>1, <2>2, <2>3, <2>4, <2>5
  <1>5. ASSUME NEW r \in Requests, Busy(r)
        PROVE  (FlagType /\ QueueType /\ TryType /\ SessionType /\ CloseType)'
    <2>1. FlagType'
      BY <1>0, <1>5, Zenon DEF FlagType, Busy, lifecycle, controller, Settle, StoreCookies
    <2>2. QueueType'
      BY <1>0, <1>5, SettleTypes DEF QueueType, Places, Busy, lifecycle, controller, OnWire, Goes
    <2>3. TryType'
      <3>1. CASE try.send = "busy"
        BY <1>5, <3>1, SettleTypes DEF TryType, Busy, OnWire, Goes
      <3>2. CASE try.send # "busy"
        <4>1. try' = [send |-> "busy", again |-> FALSE]
          BY <1>5, <3>2 DEF Busy
        <4> QED
          BY <4>1 DEF TryType, Sends
      <3> QED
        BY <3>1, <3>2
    <2>4. SessionType'
      BY <1>0, <1>5, SettleTypes, SessionsRange, StoreTypes, SentRange DEF SessionType, Busy, lifecycle, controller, OnWire, Goes
    <2>5. CloseType'
      BY <1>0, <1>5 DEF CloseType, Busy, lifecycle, controller
    <2> QED
      BY <2>1, <2>2, <2>3, <2>4, <2>5
  <1>6. ASSUME NEW r \in Requests, PauseEnds(r)
        PROVE  (FlagType /\ QueueType /\ TryType /\ SessionType /\ CloseType)'
    <2>1. FlagType'
      BY <1>0, <1>6, Zenon DEF FlagType, PauseEnds, Goes, login, lifecycle, controller
    <2>2. QueueType'
      BY <1>0, <1>6 DEF QueueType, Places, PauseEnds, Goes, login, lifecycle, controller
    <2>3. TryType'
      BY <1>0, <1>6 DEF TryType, Sends, PauseEnds, Goes, login, lifecycle, controller
    <2>4. SessionType'
      BY <1>0, <1>6 DEF SessionType, PauseEnds, Goes, login, lifecycle, controller
    <2>5. CloseType'
      BY <1>0, <1>6 DEF CloseType, PauseEnds, Goes, login, lifecycle, controller
    <2> QED
      BY <2>1, <2>2, <2>3, <2>4, <2>5
  <1>7. ASSUME NEW r \in Requests, Unauthorized(r)
        PROVE  (FlagType /\ QueueType /\ TryType /\ SessionType /\ CloseType)'
    <2>1. FlagType'
      BY <1>0, <1>7, Zenon DEF FlagType, Unauthorized, lifecycle, Settle
    <2>2. QueueType'
      BY <1>0, <1>7, SettleTypes DEF QueueType, Places, Unauthorized, lifecycle, OnWire, Goes
    <2>3. TryType'
      <3>1. CASE Settle(r)
        BY <1>7, <3>1, SettleTypes DEF TryType, Unauthorized, OnWire, Goes
      <3>2. CASE ~Settle(r)
        <4>1. \E x \in Sends : try' = [send |-> x, again |-> FALSE]
          BY <1>7, <3>2 DEF Unauthorized, Sends
        <4> QED
          BY <4>1 DEF TryType
      <3> QED
        BY <3>1, <3>2
    <2>4. SessionType'
      BY <1>0, <1>7, SettleTypes DEF SessionType, Unauthorized, lifecycle, OnWire, Goes
    <2>5. CloseType'
      BY <1>0, <1>7 DEF CloseType, Unauthorized, lifecycle
    <2> QED
      BY <2>1, <2>2, <2>3, <2>4, <2>5
  <1>8. ASSUME NEW r \in Requests, NoAnswer(r)
        PROVE  (FlagType /\ QueueType /\ TryType /\ SessionType /\ CloseType)'
    <2>1. FlagType'
      BY <1>0, <1>8, Zenon DEF FlagType, NoAnswer, lifecycle, Settle
    <2>2. QueueType'
      BY <1>0, <1>8, SettleTypes DEF QueueType, Places, NoAnswer, lifecycle, OnWire, Goes
    <2>3. TryType'
      BY <1>0, <1>8, SettleTypes DEF TryType, Sends, NoAnswer, lifecycle, OnWire, Goes
    <2>4. SessionType'
      BY <1>0, <1>8, SettleTypes, CarriedTypes DEF SessionType, NoAnswer, lifecycle, OnWire, Goes
    <2>5. CloseType'
      BY <1>0, <1>8 DEF CloseType, NoAnswer, lifecycle
    <2> QED
      BY <2>1, <2>2, <2>3, <2>4, <2>5
  <1>9. ASSUME NEW r \in Requests, Enqueue(r)
        PROVE  (FlagType /\ QueueType /\ TryType /\ SessionType /\ CloseType)'
    <2>1. FlagType'
      BY <1>0, <1>9, Zenon DEF FlagType, Enqueue, login, lifecycle, controller
    <2>2. QueueType'
      <3>1. cutsOf(r) \subseteq Requests
        BY DEF cutsOf
      <3>2. Append(queue, r) \in Seq(Requests)
        BY <1>0, Appended DEF QueueType
      <3> QED
        BY <1>0, <1>9, <3>1, <3>2 DEF QueueType, Places, Enqueue
    <2>3. TryType'
      BY <1>0, <1>9 DEF TryType, Sends, Enqueue, login, lifecycle, controller
    <2>4. SessionType'
      BY <1>0, <1>9 DEF SessionType, Enqueue, login, lifecycle, controller
    <2>5. CloseType'
      BY <1>0, <1>9 DEF CloseType, Enqueue, login, lifecycle, controller
    <2> QED
      BY <2>1, <2>2, <2>3, <2>4, <2>5
  <1>10. ASSUME Expire
        PROVE  (FlagType /\ QueueType /\ TryType /\ SessionType /\ CloseType)'
    <2>1. FlagType'
      BY <1>0, <1>10, Zenon DEF FlagType, Expire, login, lifecycle
    <2>2. QueueType'
      BY <1>0, <1>10 DEF QueueType, Places, Expire, login, lifecycle
    <2>3. TryType'
      BY <1>0, <1>10 DEF TryType, Sends, Expire, login, lifecycle
    <2>4. SessionType'
      BY <1>0, <1>10 DEF SessionType, Expire, login, lifecycle
    <2>5. CloseType'
      BY <1>0, <1>10 DEF CloseType, Expire, login, lifecycle
    <2> QED
      BY <2>1, <2>2, <2>3, <2>4, <2>5
  <1>11. ASSUME Close
        PROVE  (FlagType /\ QueueType /\ TryType /\ SessionType /\ CloseType)'
    <2>1. FlagType'
      BY <1>0, <1>11, Zenon DEF FlagType, Close, login, controller
    <2>2. QueueType'
      BY <1>0, <1>11 DEF QueueType, Places, Close, login, controller
    <2>3. TryType'
      BY <1>0, <1>11 DEF TryType, Sends, Close, login, controller
    <2>4. SessionType'
      BY <1>0, <1>11 DEF SessionType, Close, login, controller
    <2>5. CloseType'
      BY <1>0, <1>11 DEF CloseType, Close, login, controller, Unsettled
    <2> QED
      BY <2>1, <2>2, <2>3, <2>4, <2>5
  <1>12. ASSUME Reopen
        PROVE  (FlagType /\ QueueType /\ TryType /\ SessionType /\ CloseType)'
    <2>1. FlagType'
      BY <1>0, <1>12, Zenon DEF FlagType, Reopen, login, controller
    <2>2. QueueType'
      BY <1>0, <1>12 DEF QueueType, Places, Reopen, login, controller
    <2>3. TryType'
      BY <1>0, <1>12 DEF TryType, Sends, Reopen, login, controller
    <2>4. SessionType'
      BY <1>0, <1>12 DEF SessionType, Reopen, login, controller
    <2>5. CloseType'
      BY <1>0, <1>12 DEF CloseType, Reopen, login, controller
    <2> QED
      BY <2>1, <2>2, <2>3, <2>4, <2>5
  <1>13. ASSUME NEW c \in closings, QueueEnded(c)
        PROVE  (FlagType /\ QueueType /\ TryType /\ SessionType /\ CloseType)'
    <2>1. FlagType'
      BY <1>0, <1>13, Zenon DEF FlagType, QueueEnded, login, controller
    <2>2. QueueType'
      <3>1. queue # <<>> => Tail(queue) \in Seq(Requests)
        BY <1>0 DEF QueueType
      <3> QED
        BY <1>0, <1>13, <3>1 DEF QueueType, Places, QueueEnded
    <2>3. TryType'
      BY <1>0, <1>13 DEF TryType, Sends, QueueEnded, login, controller
    <2>4. SessionType'
      BY <1>0, <1>13 DEF SessionType, QueueEnded, login, controller
    <2>5. CloseType'
      BY <1>0, <1>13 DEF CloseType, QueueEnded, login, controller
    <2> QED
      BY <2>1, <2>2, <2>3, <2>4, <2>5
  <1>14. ASSUME UNCHANGED vars
         PROVE  (FlagType /\ QueueType /\ TryType /\ SessionType /\ CloseType)'
    BY <1>0, <1>14 DEF FlagType, QueueType, TryType, SessionType, CloseType, vars
  <1> QED
    BY <1>1, <1>2, <1>3, <1>4, <1>5, <1>6, <1>7, <1>8, <1>9, <1>10, <1>11, <1>12, <1>13, <1>14, TypePartsNext DEF Next, Step
-----------------------------------------------------------------------------
(* The queue. *)

(* A request that settles is the first one, and nothing else is sent. *)
LEMMA SettleQueue ==
    ASSUME TypeOK, QueueOK, CreatesCut, NEW r \in Requests, Running(r), Settle(r), aborted' = aborted
    PROVE  /\ QueueOK' /\ CreatesCut'
           /\ \A q \in Requests : at'[q] \notin {"wire", "pause"}
           /\ Unsettled' \subseteq Unsettled
  <1> DEFINE t == Tail(queue)
  <1>1. queue \in Seq(Requests) /\ Len(queue) > 0 /\ Head(queue) = r /\ at \in [Requests -> Places]
    BY DEF TypeOK, Running
  <1>2. /\ t \in Seq(Requests) /\ Len(t) = Len(queue) - 1
        /\ \A i \in 1 .. Len(t) : i + 1 \in 1 .. Len(queue) /\ t[i] = queue[i + 1]
        /\ r = queue[1]
    BY <1>1, Rest
  <1>3. queue' = t /\ at' = [at EXCEPT ![r] = "over"]
    BY DEF Settle
  <1> HIDE DEF t
  <1>4. \A i \in 1 .. Len(t) : t[i] # r
    BY <1>1, <1>2 DEF QueueOK
  <1>5. \A i \in 1 .. Len(t) : at'[t[i]] \in Waiting
    BY <1>1, <1>2, <1>3, <1>4 DEF QueueOK
  <1>6. \A i, j \in 1 .. Len(t) : i # j => t[i] # t[j]
    BY <1>1, <1>2 DEF QueueOK
  <1>7. \A q \in Requests : at'[q] \notin {"wire", "pause"}
    BY <1>1, <1>3 DEF QueueOK, Running
  <1>8. CreatesCut'
    <2> SUFFICES ASSUME NEW i \in 1 .. Len(t), NEW j \in 1 .. Len(t), i < j, Kind[t[i]] = "create",
                        Kind[t[j]] \in {"stop", "logout"}
                 PROVE  t[i] \in aborted
      BY <1>3 DEF CreatesCut
    <2>1. i + 1 \in 1 .. Len(queue) /\ j + 1 \in 1 .. Len(queue) /\ i + 1 < j + 1
      BY <1>1, <1>2
    <2> QED
      BY <1>2, <2>1 DEF CreatesCut
  <1>9. Unsettled' \subseteq Unsettled
    BY <1>1, <1>3 DEF Unsettled
  <1> QED
    BY <1>3, <1>5, <1>6, <1>7, <1>8, <1>9 DEF QueueOK

(* The request in turn moves between its places. *)
LEMMA MoveQueue ==
    ASSUME TypeOK, QueueOK, CreatesCut, NEW r \in Requests, NEW p \in Waiting, Running(r),
           at[r] \in Waiting, at' = [at EXCEPT ![r] = p], UNCHANGED <<queue, aborted>>
    PROVE  /\ QueueOK' /\ CreatesCut'
           /\ \A q \in Requests : at'[q] \in {"wire", "pause"} => q = r
           /\ Unsettled' \subseteq Unsettled
  <1>1. queue \in Seq(Requests) /\ at \in [Requests -> Places]
    BY DEF TypeOK
  <1>2. \A q \in Requests : at'[q] = IF q = r THEN p ELSE at[q]
    BY <1>1
  <1>3. \A i \in 1 .. Len(queue) : queue[i] \in Requests
    BY <1>1
  <1>4. \A q \in Requests : at'[q] \in {"wire", "pause"} => q = r
    BY <1>1, <1>2 DEF QueueOK, Running
  <1>5. QueueOK'
    BY <1>2, <1>3, <1>4 DEF QueueOK, Running
  <1>6. Unsettled' \subseteq Unsettled
    BY <1>2 DEF Unsettled, Waiting
  <1> QED
    BY <1>4, <1>5, <1>6 DEF CreatesCut

LEMMA SameQueue ==
    ASSUME UNCHANGED <<queue, at, aborted>>
    PROVE  /\ QueueOK => QueueOK'
           /\ CreatesCut => CreatesCut'
           /\ Unsettled' = Unsettled
  BY DEF QueueOK, CreatesCut, Unsettled, Running

(* Each step of the request in turn settles it, moves it, or leaves the queue. *)
LEMMA StepQueue ==
    ASSUME TypeOK, QueueOK, CreatesCut, NEW r \in Requests, Step(r)
    PROVE  QueueOK' /\ CreatesCut' /\ Unsettled' \subseteq Unsettled /\ aborted' = aborted /\ Running(r)
  <1>1. Running(r) /\ aborted' = aborted
    BY DEF Step, Start, Goes, Cut, Answered, Refused, Busy, PauseEnds, Unauthorized, NoAnswer, OnWire
  <1>2. \/ Settle(r)
        \/ UNCHANGED <<queue, at>>
        \/ UNCHANGED queue /\ at[r] \in Waiting /\ \E p \in Waiting : at' = [at EXCEPT ![r] = p]
    BY DEF Step, Start, Goes, Cut, Answered, Refused, Busy, PauseEnds, Unauthorized, NoAnswer, OnWire, Waiting
  <1> QED
    BY <1>1, <1>2, SettleQueue, MoveQueue, SameQueue

LEMMA EnqueueQueue ==
    ASSUME TypeOK, QueueOK, CreatesCut, NEW r \in Requests, Enqueue(r)
    PROVE  QueueOK' /\ CreatesCut'
  <1>1. queue \in Seq(Requests) /\ at \in [Requests -> Places]
    BY DEF TypeOK
  <1>2. \A i \in 1 .. Len(queue) : queue[i] \in Requests /\ queue[i] # r
    BY <1>1 DEF QueueOK, Waiting, Enqueue
  <1>3. CASE closed
    <2>1. at' = [at EXCEPT ![r] = "over"] /\ queue' = queue /\ aborted' = aborted
      BY <1>3 DEF Enqueue
    <2> QED
      BY <1>1, <1>2, <2>1 DEF QueueOK, CreatesCut, Running
  <1>4. CASE ~closed
    <2> DEFINE s == Append(queue, r)
    <2>1. at' = [at EXCEPT ![r] = "queued"] /\ queue' = s /\ aborted' = aborted \cup cutsOf(r)
      BY <1>4 DEF Enqueue
    <2>2. /\ s \in Seq(Requests) /\ Len(s) = Len(queue) + 1 /\ s[Len(queue) + 1] = r
          /\ \A i \in 1 .. Len(queue) : s[i] = queue[i]
          /\ Len(queue) > 0 => Head(s) = Head(queue)
      BY <1>1, Appended
    <2> HIDE DEF s
    <2>3. \A i \in 1 .. Len(s) : i \in 1 .. Len(queue) \/ i = Len(queue) + 1
      BY <1>1, <2>2
    <2>4. \A i \in 1 .. Len(s) : at'[s[i]] \in Waiting
      BY <1>1, <1>2, <2>1, <2>2, <2>3 DEF QueueOK, Waiting
    <2>5. \A i, j \in 1 .. Len(s) : i # j => s[i] # s[j]
      BY <1>1, <1>2, <2>2, <2>3 DEF QueueOK
    <2>6. \A q \in Requests : at'[q] \in {"wire", "pause"} => Len(s) > 0 /\ Head(s) = q
      BY <1>1, <2>1, <2>2 DEF QueueOK, Running
    <2>7. CreatesCut'
      <3> SUFFICES ASSUME NEW i \in 1 .. Len(s), NEW j \in 1 .. Len(s), i < j, Kind[s[i]] = "create",
                          Kind[s[j]] \in {"stop", "logout"}
                   PROVE  s[i] \in aborted \cup cutsOf(r)
        BY <2>1 DEF CreatesCut
      <3>1. i \in 1 .. Len(queue)
        BY <1>1, <2>2
      <3>2. CASE j \in 1 .. Len(queue)
        BY <2>2, <3>1, <3>2 DEF CreatesCut
      <3>3. CASE j = Len(queue) + 1
        <4>1. s[j] = r /\ s[i] = queue[i] /\ s[i] \in Requests /\ at[s[i]] \in Waiting
          BY <1>2, <2>2, <3>1, <3>3 DEF QueueOK
        <4> QED
          BY <4>1 DEF cutsOf, Waiting
      <3> QED
        BY <2>3, <3>2, <3>3
    <2> QED
      BY <2>1, <2>4, <2>5, <2>6, <2>7 DEF QueueOK, Running
  <1> QED
    BY <1>3, <1>4
-----------------------------------------------------------------------------
(* close(). *)

(* The connections are let go only when nothing is unsettled. *)
LEMMA NothingBroken ==
    ASSUME Inv, NEW c \in closings, QueueEnded(c)
    PROVE  UNCHANGED <<queue, at, aborted>>
  <1>1. queue \in Seq(Requests) /\ at \in [Requests -> Places]
    BY DEF Inv, TypeOK
  <1>2. CASE Releases(c)
    <2>1. Unsettled = {}
      BY <1>2 DEF Inv, ClosingOK, Releases, QueueEnded
    <2>2. \A r \in Requests : at[r] # "wire"
      BY <2>1 DEF Unsettled
    <2>3. queue # <<>> => Head(queue) \in Requests
      BY <1>1
    <2>4. at' = [r \in Requests |-> at[r]] /\ queue' = queue
      BY <2>2, <2>3 DEF QueueEnded
    <2> QED
      BY <1>1, <2>4 DEF QueueEnded
  <1>3. CASE ~Releases(c)
    <2>1. at' = [r \in Requests |-> at[r]] /\ queue' = queue
      BY <1>3 DEF QueueEnded
    <2> QED
      BY <1>1, <2>1 DEF QueueEnded
  <1> QED
    BY <1>2, <1>3

LEMMA StepKeepsClosings ==
    ASSUME NEW r \in Requests, Step(r)
    PROVE  UNCHANGED lifecycle
  BY DEF Step, Start, Goes, Cut, Answered, Refused, Busy, PauseEnds, Unauthorized, NoAnswer

LEMMA ClosingStep ==
    ASSUME Inv, [Next]_vars
    PROVE  ClosingOK'
  <1>0. TypeOK /\ QueueOK /\ CreatesCut /\ ClosingOK
    BY DEF Inv
  <1>1. CASE UNCHANGED <<closed, closeSeq, closings>> /\ Unsettled' \subseteq Unsettled
    BY <1>0, <1>1 DEF ClosingOK
  <1>2. ASSUME NEW r \in Requests, Step(r)
        PROVE  ClosingOK'
    BY <1>0, <1>1, <1>2, StepQueue, StepKeepsClosings DEF lifecycle
  <1>3. ASSUME NEW r \in Requests, Enqueue(r)
        PROVE  ClosingOK'
    <2>1. CASE closed
      BY <1>0, <1>1, <1>3, <2>1 DEF Enqueue, Unsettled, lifecycle, TypeOK
    <2>2. CASE ~closed
      BY <1>0, <1>3, <2>2 DEF Enqueue, lifecycle, ClosingOK
    <2> QED
      BY <2>1, <2>2
  <1>4. ASSUME Close
        PROVE  ClosingOK'
    <2>1. Unsettled' = Unsettled /\ closeSeq' = closeSeq + 1 /\ closeSeq \in Nat
      BY <1>0, <1>4 DEF Close, Unsettled, TypeOK
    <2>2. \A c \in closings : c.seq \in Nat /\ c.seq <= closeSeq
      BY <1>0 DEF ClosingOK, TypeOK
    <2>3. closings' = closings \cup {[seq |-> closeSeq + 1, after |-> Unsettled]}
      BY <1>4 DEF Close
    <2> QED
      BY <2>1, <2>2, <2>3 DEF ClosingOK
  <1>5. ASSUME Reopen
        PROVE  ClosingOK'
    BY <1>0, <1>5 DEF Reopen, ClosingOK
  <1>6. ASSUME Expire
        PROVE  ClosingOK'
    BY <1>1, <1>6 DEF Expire, lifecycle, Unsettled
  <1>7. ASSUME NEW c \in closings, QueueEnded(c)
        PROVE  ClosingOK'
    <2>1. UNCHANGED at /\ UNCHANGED <<closed, closeSeq>> /\ closings' \subseteq closings
      BY <1>7, NothingBroken DEF QueueEnded
    <2> QED
      BY <1>0, <2>1 DEF ClosingOK, Unsettled
  <1>8. ASSUME UNCHANGED vars
        PROVE  ClosingOK'
    BY <1>1, <1>8 DEF vars, Unsettled
  <1> QED
    BY <1>2, <1>3, <1>4, <1>5, <1>6, <1>7, <1>8 DEF Next

-----------------------------------------------------------------------------
(* What was carried out. *)

LEMMA TakenStep ==
    ASSUME Inv, [Next]_vars
    PROVE  TakenOK'
  <1>0. TypeOK /\ QueueOK /\ CreatesCut /\ TakenOK /\ taken \in 0 .. 2 /\ at \in [Requests -> Places]
    BY DEF Inv, TypeOK
  <1>1. ASSUME NEW r \in Requests, Running(r), Settle(r), aborted' = aborted,
               taken' = taken \/ (at[r] = "wire" /\ CarriedOut(r))
        PROVE  TakenOK'
    <2>1. \A q \in Requests : at'[q] \notin {"wire", "pause"}
      BY <1>0, <1>1, SettleQueue
    <2>2. taken' <= 1
      BY <1>0, <1>1 DEF TakenOK, CarriedOut
    <2> QED
      BY <2>1, <2>2 DEF TakenOK
  <1>2. ASSUME NEW r \in Requests, NEW p \in {"wire", "pause"}, Running(r), at[r] \in Waiting,
               at' = [at EXCEPT ![r] = p], UNCHANGED <<queue, aborted>>,
               Kind[r] # "get" => taken' = 0, taken' <= 1
        PROVE  TakenOK'
    <2>1. \A q \in Requests : at'[q] \in {"wire", "pause"} => q = r
      BY <1>0, <1>2, MoveQueue DEF Waiting
    <2> QED
      BY <1>2, <2>1 DEF TakenOK
  <1>3. ASSUME NEW r \in Requests, OnWire(r) \/ (Running(r) /\ at[r] = "pause")
        PROVE  taken <= 1 /\ (Kind[r] # "get" => taken = 0)
    BY <1>0, <1>3 DEF TakenOK, OnWire, Goes
  <1>4. ASSUME UNCHANGED <<taken, at>>
        PROVE  TakenOK'
    BY <1>0, <1>4 DEF TakenOK
  <1>5. ASSUME NEW r \in Requests, Start(r)
        PROVE  TakenOK'
    <2>1. taken' = 0 /\ at' = [at EXCEPT ![r] = "wire"] /\ UNCHANGED <<queue, aborted>>
      BY <1>5 DEF Start, Goes
    <2>2. Running(r) /\ at[r] \in Waiting
      BY <1>5 DEF Start, Goes, Waiting
    <2>3. taken' <= 1 /\ (Kind[r] # "get" => taken' = 0)
      BY <2>1
    <2> QED
      BY <1>2, <1>5, <2>1, <2>2, <2>3
  <1>6. ASSUME NEW r \in Requests, Cut(r)
        PROVE  TakenOK'
    BY <1>1, <1>6 DEF Cut
  <1>7. ASSUME NEW r \in Requests, Answered(r)
        PROVE  TakenOK'
    BY <1>1, <1>7 DEF Answered, OnWire, Goes
  <1>8. ASSUME NEW r \in Requests, Refused(r)
        PROVE  TakenOK'
    BY <1>1, <1>8 DEF Refused, OnWire, Goes
  <1>9. ASSUME NEW r \in Requests, Busy(r)
        PROVE  TakenOK'
    <2>1. CASE Settle(r)
      BY <1>1, <1>9, <2>1 DEF Busy, OnWire, Goes, controller
    <2>2. CASE ~Settle(r)
      <3>1. taken' = taken /\ at' = [at EXCEPT ![r] = "pause"] /\ queue' = queue /\ aborted' = aborted
        BY <1>9, <2>2 DEF Busy, controller
      <3>2. Running(r) /\ at[r] \in Waiting
        BY <1>9 DEF Busy, OnWire, Goes, Waiting
      <3> QED
        BY <1>2, <1>3, <1>9, <3>1, <3>2 DEF Busy
    <2> QED
      BY <2>1, <2>2
  <1>10. ASSUME NEW r \in Requests, PauseEnds(r)
         PROVE  TakenOK'
    BY <1>2, <1>3, <1>10 DEF PauseEnds, Goes, controller, Waiting
  <1>11. ASSUME NEW r \in Requests, Unauthorized(r)
         PROVE  TakenOK'
    <2>1. CASE Settle(r)
      BY <1>1, <1>11, <2>1 DEF Unauthorized, OnWire, Goes
    <2>2. CASE ~Settle(r)
      BY <1>4, <1>11, <2>2 DEF Unauthorized
    <2> QED
      BY <2>1, <2>2
  <1>12. ASSUME NEW r \in Requests, NoAnswer(r)
         PROVE  TakenOK'
    <2>1. CASE Settle(r)
      BY <1>1, <1>12, <2>1 DEF NoAnswer, OnWire, Goes
    <2>2. CASE ~Settle(r)
      <3>1. mayResend(r) /\ UNCHANGED at
        BY <1>12, <2>2 DEF NoAnswer
      <3>2. UNCHANGED taken
        BY <1>12, <3>1 DEF NoAnswer, mayResend, CarriedOut
      <3> QED
        BY <1>4, <3>1, <3>2
    <2> QED
      BY <2>1, <2>2
  <1>13. ASSUME NEW r \in Requests, Enqueue(r)
         PROVE  TakenOK'
    BY <1>0, <1>13 DEF Enqueue, controller, TakenOK
  <1>14. ASSUME NEW c \in closings, QueueEnded(c)
         PROVE  TakenOK'
    BY <1>4, <1>14, NothingBroken DEF QueueEnded, controller
  <1>15. ASSUME Expire \/ Close \/ Reopen \/ UNCHANGED vars
         PROVE  TakenOK'
    BY <1>4, <1>15 DEF Expire, Close, Reopen, vars, controller
  <1> QED
    BY <1>5, <1>6, <1>7, <1>8, <1>9, <1>10, <1>11, <1>12, <1>13, <1>14, <1>15 DEF Next, Step
-----------------------------------------------------------------------------
(* The cookie held before the request. *)

LEMMA HeldStep ==
    ASSUME Inv, [Next]_vars
    PROVE  HeldOK'
  <1>0. HeldOK /\ try \in [send : Sends, again : BOOLEAN]
    BY DEF Inv, TypeOK
  <1>1. ASSUME NEW r \in Requests, Settle(r)
        PROVE  HeldOK'
    BY <1>1 DEF Settle, HeldOK
  <1>2. ASSUME UNCHANGED <<held, cookie>>, try'.send = try.send
        PROVE  HeldOK'
    BY <1>0, <1>2 DEF HeldOK
  <1>3. ASSUME NEW r \in Requests, Start(r)
        PROVE  HeldOK'
    BY <1>3 DEF Start, Goes, HeldOK
  <1>4. ASSUME NEW r \in Requests, Busy(r)
        PROVE  HeldOK'
    <2>1. CASE Settle(r)
      BY <1>1, <2>1
    <2>2. CASE ~Settle(r)
      <3>1. try' = [send |-> "busy", again |-> FALSE]
        BY <1>4, <2>2 DEF Busy
      <3> QED
        BY <3>1 DEF HeldOK
    <2> QED
      BY <2>1, <2>2
  <1>5. ASSUME NEW r \in Requests, Unauthorized(r)
        PROVE  HeldOK'
    <2>1. CASE Settle(r)
      BY <1>1, <2>1
    <2>2. CASE try.send = "first" /\ UNCHANGED <<held, cookie>>
      BY <1>0, <2>2 DEF HeldOK
    <2>3. CASE try' = [send |-> "fresh", again |-> FALSE]
      BY <2>3 DEF HeldOK
    <2> QED
      BY <1>5, <2>1, <2>2, <2>3 DEF Unauthorized
  <1>6. ASSUME NEW r \in Requests, NoAnswer(r)
        PROVE  HeldOK'
    <2>1. CASE Settle(r)
      BY <1>1, <2>1
    <2>2. CASE ~Settle(r)
      <3>1. try' = [try EXCEPT !.again = TRUE] /\ UNCHANGED <<held, cookie>>
        BY <1>6, <2>2 DEF NoAnswer
      <3>2. try'.send = try.send
        BY <1>0, <3>1
      <3> QED
        BY <1>2, <3>1, <3>2
    <2> QED
      BY <2>1, <2>2
  <1>7. ASSUME NEW r \in Requests, Cut(r) \/ Answered(r) \/ Refused(r)
        PROVE  HeldOK'
    BY <1>1, <1>7 DEF Cut, Answered, Refused
  <1>8. ASSUME NEW r \in Requests, PauseEnds(r) \/ Enqueue(r)
        PROVE  HeldOK'
    BY <1>2, <1>8 DEF PauseEnds, Goes, Enqueue, login
  <1>9. ASSUME Expire \/ Close \/ Reopen \/ UNCHANGED vars
        PROVE  HeldOK'
    BY <1>2, <1>9 DEF Expire, Close, Reopen, vars, login
  <1>10. ASSUME NEW c \in closings, QueueEnded(c)
         PROVE  HeldOK'
    BY <1>2, <1>10 DEF QueueEnded, login
  <1> QED
    BY <1>3, <1>4, <1>5, <1>6, <1>7, <1>8, <1>9, <1>10 DEF Next, Step

-----------------------------------------------------------------------------
(* The inductive invariant. *)

LEMMA InitInv == Init => Inv
  <1> SUFFICES ASSUME Init PROVE Inv
    OBVIOUS
  <1>1. FlagType
    BY Zenon DEF Init, FlagType
  <1>2. QueueType /\ SessionType
    BY Rws1Assumption DEF Init, QueueType, SessionType, Places
  <1>3. TryType
    BY DEF Init, TryType, Sends
  <1>4. CloseType
    BY Rws1Assumption DEF Init, CloseType
  <1>5. TypeOK
    BY <1>1, <1>2, <1>3, <1>4, TypeParts
  <1>6. QueueOK /\ TakenOK /\ HeldOK /\ ClosingOK /\ CreatesCut
    BY DEF Init, QueueOK, TakenOK, HeldOK, ClosingOK, CreatesCut
  <1> QED
    BY <1>5, <1>6 DEF Inv

LEMMA NextInv == Inv /\ [Next]_vars => Inv'
  <1> SUFFICES ASSUME Inv, [Next]_vars PROVE Inv'
    OBVIOUS
  <1>0. TypeOK /\ QueueOK /\ CreatesCut
    BY DEF Inv
  <1>1. TypeOK'
    BY <1>0, TypeStep
  <1>2. QueueOK' /\ CreatesCut'
    <2>1. ASSUME UNCHANGED <<queue, at, aborted>>
          PROVE  QueueOK' /\ CreatesCut'
      BY <1>0, <2>1, SameQueue
    <2>2. ASSUME NEW r \in Requests, Step(r)
          PROVE  QueueOK' /\ CreatesCut'
      BY <1>0, <2>2, StepQueue
    <2>3. ASSUME NEW r \in Requests, Enqueue(r)
          PROVE  QueueOK' /\ CreatesCut'
      BY <1>0, <2>3, EnqueueQueue
    <2>4. ASSUME NEW c \in closings, QueueEnded(c)
          PROVE  QueueOK' /\ CreatesCut'
      BY <2>1, <2>4, NothingBroken
    <2>5. ASSUME Expire \/ Close \/ Reopen \/ UNCHANGED vars
          PROVE  QueueOK' /\ CreatesCut'
      BY <2>1, <2>5 DEF Expire, Close, Reopen, vars
    <2> QED
      BY <2>2, <2>3, <2>4, <2>5 DEF Next
  <1> QED
    BY <1>1, <1>2, TakenStep, HeldStep, ClosingStep DEF Inv

(* The session keeps its types, its queue in order, the held cookie and    *)
(* what a close() waits for, whatever is queued, answered or closed.       *)
THEOREM SessionInv == Spec => []Inv
  BY InitInv, NextInv, PTL DEF Spec

(* A request that changes the controller is carried out at most once,      *)
(* however often execute() sends it: every answer after which it is sent   *)
(* again is one to a request that was not carried out, and without an      *)
(* answer only a GET is.                                                   *)
THEOREM NoWriteTwice == Spec => []CarriedOutOnce
  <1>1. Inv => CarriedOutOnce
    BY DEF Inv, TakenOK, CarriedOutOnce
  <1> QED
    BY <1>1, SessionInv, PTL

(* A create of a group with a stop, motors off or /logout queued behind it *)
(* is cut short and is not sent, nor sent again.                           *)
THEOREM StopsGoAhead == Spec => StopWaitsForNoCreate
  <1>1. ASSUME Inv, Next, NEW q \in Requests, q \in aborted
        PROVE  ~SentNow(q)
    <2>0. at \in [Requests -> Places] /\ QueueOK
      BY <1>1 DEF Inv, TypeOK
    <2>1. ASSUME NEW r \in Requests, Cut(r)
          PROVE  ~SentNow(q)
      BY <1>1, <2>0, <2>1, SettleQueue DEF Cut, SentNow, Inv
    <2>2. ASSUME NEW r \in Requests, Step(r), ~Cut(r)
          PROVE  ~SentNow(q)
      <3>1. Running(r) /\ r # q
        BY <1>1, <2>2 DEF Step, Start, Answered, Refused, Busy, PauseEnds, Unauthorized, NoAnswer, OnWire, Goes
      <3>2. at[q] \notin {"wire", "pause"}
        BY <2>0, <3>1 DEF QueueOK, Running
      <3>3. UNCHANGED at \/ Settle(r) \/ \E p \in Places : at' = [at EXCEPT ![r] = p]
        BY <2>2 DEF Step, Start, Answered, Refused, Busy, PauseEnds, Unauthorized, NoAnswer, Places
      <3>4. at'[q] = at[q]
        BY <2>0, <3>1, <3>3 DEF Settle
      <3> QED
        BY <3>2, <3>4 DEF SentNow
    <2>3. ASSUME NEW r \in Requests, Enqueue(r)
          PROVE  ~SentNow(q)
      BY <2>0, <2>3 DEF Enqueue, SentNow
    <2>4. ASSUME NEW c \in closings, QueueEnded(c)
          PROVE  ~SentNow(q)
      BY <2>0, <2>4 DEF QueueEnded, SentNow
    <2>5. ASSUME Expire \/ Close \/ Reopen
          PROVE  ~SentNow(q)
      BY <2>5 DEF Expire, Close, Reopen, SentNow
    <2> QED
      BY <1>1, <2>1, <2>2, <2>3, <2>4, <2>5 DEF Next
  <1>2. Inv /\ [Next]_vars =>
          [\A i, j \in 1 .. Len(queue) :
              i < j /\ Kind[queue[i]] = "create" /\ Kind[queue[j]] \in {"stop", "logout"}
                => queue[i] \in aborted /\ ~SentNow(queue[i])]_vars
    <2> SUFFICES ASSUME Inv, Next, NEW i \in 1 .. Len(queue), NEW j \in 1 .. Len(queue), i < j,
                        Kind[queue[i]] = "create", Kind[queue[j]] \in {"stop", "logout"}
                 PROVE  queue[i] \in aborted /\ ~SentNow(queue[i])
      OBVIOUS
    <2>1. queue[i] \in Requests
      BY DEF Inv, TypeOK
    <2>2. queue[i] \in aborted
      BY DEF Inv, CreatesCut
    <2> QED
      BY <1>1, <2>1, <2>2
  <1> QED
    BY <1>2, SessionInv, PTL DEF Spec, StopWaitsForNoCreate

(* onSessionReplaced is called exactly when the session's cookie gives way *)
(* to another, or to none.                                                 *)
THEOREM ReplacementIsReported == Spec => ReplacedIsReported
  <1>1. Inv /\ [Next]_vars => [(replaced' # replaced) <=> (cookie # 0 /\ cookie' # cookie)]_vars
    <2> SUFFICES ASSUME Inv, Next
                 PROVE  (replaced' # replaced) <=> (cookie # 0 /\ cookie' # cookie)
      OBVIOUS
    <2>0. replaced \in BOOLEAN /\ HeldOK
      BY DEF Inv, TypeOK
    <2>1. ASSUME NEW x, StoreCookies(x)
          PROVE  (replaced' # replaced) <=> (cookie # 0 /\ cookie' # cookie)
      BY <2>0, <2>1, Zenon DEF StoreCookies
    <2>2. ASSUME UNCHANGED <<cookie, replaced>>
          PROVE  (replaced' # replaced) <=> (cookie # 0 /\ cookie' # cookie)
      BY <2>2
    <2>3. ASSUME NEW r \in Requests, Answered(r) \/ Refused(r) \/ Busy(r)
          PROVE  (replaced' # replaced) <=> (cookie # 0 /\ cookie' # cookie)
      BY <2>1, <2>3 DEF Answered, Refused, Busy
    <2>4. ASSUME NEW r \in Requests, Unauthorized(r)
          PROVE  (replaced' # replaced) <=> (cookie # 0 /\ cookie' # cookie)
      <3>1. CASE try.send = "digest" /\ held /\ cookie' = 0 /\ replaced' = ~replaced
        <4>1. cookie # 0
          BY <2>0, <3>1 DEF HeldOK
        <4> QED
          BY <2>0, <3>1, <4>1
      <3> QED
        BY <2>2, <2>4, <3>1 DEF Unauthorized, HeldBefore
    <2>5. ASSUME NEW r \in Requests, Start(r) \/ Cut(r) \/ PauseEnds(r) \/ NoAnswer(r) \/ Enqueue(r)
          PROVE  UNCHANGED <<cookie, replaced>>
      BY <2>5 DEF Start, Goes, Cut, PauseEnds, NoAnswer, Enqueue, login
    <2>6. ASSUME NEW c \in closings, QueueEnded(c)
          PROVE  UNCHANGED <<cookie, replaced>>
      BY <2>6 DEF QueueEnded, login
    <2>7. ASSUME Expire \/ Close \/ Reopen
          PROVE  UNCHANGED <<cookie, replaced>>
      BY <2>7 DEF Expire, Close, Reopen, login
    <2> QED
      BY <2>2, <2>3, <2>4, <2>5, <2>6, <2>7 DEF Next, Step
  <1> QED
    BY <1>1, SessionInv, PTL DEF Spec, ReplacedIsReported

(* agent.destroy() breaks no request: the close() that lets the            *)
(* connections go has waited for everything that was queued.               *)
THEOREM CloseBreaksNothing == Spec => CloseSparesRequests
  <1>1. Inv /\ [Next]_vars =>
          [\A r \in Requests : at[r] = "wire" /\ at'[r] = "over" => Running(r) /\ closings' = closings]_vars
    <2> SUFFICES ASSUME Inv, Next, NEW q \in Requests, at[q] = "wire", at'[q] = "over"
                 PROVE  Running(q) /\ closings' = closings
      OBVIOUS
    <2>1. Running(q)
      BY DEF Inv, QueueOK
    <2>2. ASSUME NEW c \in closings, QueueEnded(c)
          PROVE  FALSE
      BY <2>2, NothingBroken
    <2>3. CASE Close
      BY <2>3 DEF Close
    <2>4. ASSUME NEW r \in Requests, Step(r)
          PROVE  closings' = closings
      BY <2>4, StepKeepsClosings DEF lifecycle
    <2>5. ASSUME NEW r \in Requests, Enqueue(r)
          PROVE  closings' = closings
      BY <2>5 DEF Enqueue, lifecycle
    <2>6. ASSUME Expire \/ Reopen
          PROVE  closings' = closings
      BY <2>6 DEF Expire, Reopen, lifecycle
    <2> QED
      BY <2>1, <2>2, <2>3, <2>4, <2>5, <2>6 DEF Next
  <1> QED
    BY <1>1, SessionInv, PTL DEF Spec, CloseSparesRequests
=============================================================================
