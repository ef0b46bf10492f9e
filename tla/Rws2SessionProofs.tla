------------------------- MODULE Rws2SessionProofs -------------------------
(***************************************************************************)
(* Proofs about Rws2Session, for any finite sets of calls.                 *)
(***************************************************************************)
EXTENDS Rws2Session, SequenceTheorems, FiniteSetTheorems, TLAPS

(* The requests of the client are told apart from its login. *)
LEMMA Names ==
  /\ "login" \notin Req /\ "login" \in Sender /\ "logout" \in Sender /\ "connect" \in Sender
  /\ "logout" \in Req /\ "connect" \in Req /\ Req \subseteq Sender /\ Call \subseteq Req
  /\ Writes \subseteq Call /\ "logout" \notin Writes /\ "connect" \notin Writes
  /\ "logout" \notin Call /\ "login" \notin Writes
BY CallAssumption DEF Req, Sender, Call

(* Finitely many requests can wait for the login. *)
LEMMA RequestsAreFinite == IsFiniteSet(Req)
<1>1. IsFiniteSet(Call)
  BY CallAssumption DEF Call
<1>2. IsFiniteSet({"connect"}) /\ IsFiniteSet({"logout"})
  BY FS_Singleton
<1>3. IsFiniteSet((Call \cup {"connect"}) \cup {"logout"})
  BY <1>1, <1>2, FS_Union
<1>4. (Call \cup {"connect"}) \cup {"logout"} = Req
  BY DEF Req
<1>5. QED BY <1>3, <1>4

-----------------------------------------------------------------------------
(* The steps.                                                              *)

(* The login settles: LoginAnswered, LoginTimesOut, LoginBroken. *)
LoginEnded(how, gone) ==
    /\ pc["login"] = "wire"
    /\ gone = sessionGone \/ (ans["login"] = "denied" /\ gone = NotedGone("login"))
    /\ LoginEnds(how, gone)

(* The login goes out once more. *)
LoginRequeued ==
    /\ pc["login"] = "wire"
    /\ Queued("login", "again") /\ OffWire("login") /\ ~closed
    /\ UNCHANGED <<client, auth, tries, preferXhtml, controller>>

(* A step is one of these. *)
LEMMA StepCases ==
  ASSUME [Next]_vars
  PROVE  \/ \E q \in Sender : \/ Sleeps(q) \/ AskLogin(q) \/ SkipLogout(q) \/ Send(q) \/ Serve(q)
                              \/ Adopt(q) \/ Succeeds(q) \/ IsRefused(q) \/ FallBack(q)
                              \/ Denied(q) \/ TimesOut(q) \/ Broken(q)
         \/ \E q \in Call : Start(q)
         \/ \E how, gone : LoginEnded(how, gone)
         \/ PaceElapses \/ LoginRequeued \/ Connect \/ Disconnect \/ LogOut \/ TeardownEnds
         \/ \E s \in Session : Expire(s)
         \/ UNCHANGED vars
<1>1. CASE LoginAnswered
  BY <1>1 DEF LoginAnswered, LoginEnded, Answered
<1>2. CASE LoginTimesOut
  BY <1>2 DEF LoginTimesOut, LoginEnded
<1>3. CASE LoginBroken
  BY <1>3 DEF LoginBroken, LoginEnded, LoginRequeued, Breaks
<1>4. QED
  BY <1>1, <1>2, <1>3 DEF Next, Slot, Answers, Login, Program

-----------------------------------------------------------------------------
(* The line of senders.                                                    *)

(* Exactly the senders that wait for a slot are in line, each once. *)
Line(qu, p) ==
    /\ \A i, j \in DOMAIN qu : qu[i] = qu[j] => i = j
    /\ \A q \in Sender : p[q] \in SlotPc <=> \E i \in DOMAIN qu : qu[i] = q

(* The head of the line gets its slot. *)
LEMMA LineLeaves ==
  ASSUME NEW qu \in Seq(Sender), NEW p \in [Sender -> Pc], Line(qu, p), qu # <<>>,
         NEW r \in Pc, r \notin SlotPc
  PROVE  /\ p[Head(qu)] \in SlotPc
         /\ Line(Tail(qu), [p EXCEPT ![Head(qu)] = r])
<1>1. /\ Len(qu) \in Nat /\ Len(qu) >= 1 /\ DOMAIN qu = 1..Len(qu)
      /\ Head(qu) = qu[1] /\ Head(qu) \in Sender
  OBVIOUS
<1>2. /\ DOMAIN Tail(qu) = 1..(Len(qu) - 1)
      /\ \A i \in 1..(Len(qu) - 1) : Tail(qu)[i] = qu[i + 1]
  OBVIOUS
<1>3. p[Head(qu)] \in SlotPc
  BY <1>1 DEF Line
<1>4. ASSUME NEW i \in DOMAIN Tail(qu), NEW j \in DOMAIN Tail(qu), Tail(qu)[i] = Tail(qu)[j]
      PROVE  i = j
  <2>1. i + 1 \in DOMAIN qu /\ j + 1 \in DOMAIN qu /\ qu[i + 1] = qu[j + 1]
    BY <1>1, <1>2, <1>4
  <2>2. i + 1 = j + 1
    BY <2>1 DEF Line
  <2>3. QED BY <2>2, <1>1, <1>2
<1>5. ASSUME NEW q \in Sender
      PROVE  [p EXCEPT ![Head(qu)] = r][q] \in SlotPc
               <=> \E i \in DOMAIN Tail(qu) : Tail(qu)[i] = q
  <2>1. CASE q = Head(qu)
    <3>1. ASSUME NEW i \in DOMAIN Tail(qu), Tail(qu)[i] = q PROVE FALSE
      <4>1. i + 1 \in DOMAIN qu /\ 1 \in DOMAIN qu /\ qu[i + 1] = qu[1]
        BY <1>1, <1>2, <2>1, <3>1
      <4>2. i + 1 = 1
        BY <4>1 DEF Line
      <4>3. QED BY <4>2, <1>1, <1>2
    <3>2. QED BY <3>1, <2>1
  <2>2. CASE q # Head(qu)
    <3>1. ASSUME NEW i \in DOMAIN qu, qu[i] = q
          PROVE  \E j \in DOMAIN Tail(qu) : Tail(qu)[j] = q
      <4>1. i # 1 /\ i - 1 \in DOMAIN Tail(qu) /\ (i - 1) + 1 = i
        BY <1>1, <1>2, <2>2, <3>1
      <4>2. Tail(qu)[i - 1] = q
        BY <4>1, <1>2, <3>1
      <4>3. QED BY <4>1, <4>2
    <3>2. ASSUME NEW j \in DOMAIN Tail(qu), Tail(qu)[j] = q
          PROVE  \E i \in DOMAIN qu : qu[i] = q
      <4>1. j + 1 \in DOMAIN qu /\ qu[j + 1] = q
        BY <1>1, <1>2, <3>2
      <4>2. QED BY <4>1
    <3>3. QED BY <3>1, <3>2, <2>2 DEF Line
  <2>3. QED BY <2>1, <2>2
<1>6. QED BY <1>3, <1>4, <1>5 DEF Line

(* A sender that is not in line goes elsewhere. *)
LEMMA LineKept ==
  ASSUME NEW qu, NEW p \in [Sender -> Pc], Line(qu, p),
         NEW q \in Sender, p[q] \notin SlotPc, NEW r, r \notin SlotPc
  PROVE  Line(qu, [p EXCEPT ![q] = r])
BY DEF Line

(* A sender that is not in line joins it at the end. *)
LEMMA LineJoined ==
  ASSUME NEW qu \in Seq(Sender), NEW p \in [Sender -> Pc], Line(qu, p),
         NEW q \in Sender, p[q] \notin SlotPc, NEW r, r \in SlotPc
  PROVE  Line(Append(qu, q), [p EXCEPT ![q] = r])
<1>1. /\ Len(qu) \in Nat /\ DOMAIN qu = 1..Len(qu)
      /\ DOMAIN Append(qu, q) = 1..(Len(qu) + 1)
      /\ \A i \in 1..Len(qu) : Append(qu, q)[i] = qu[i]
      /\ Append(qu, q)[Len(qu) + 1] = q
  OBVIOUS
<1>2. \A i \in 1..Len(qu) : qu[i] # q
  BY <1>1 DEF Line
<1>3. ASSUME NEW i \in DOMAIN Append(qu, q), NEW j \in DOMAIN Append(qu, q),
             Append(qu, q)[i] = Append(qu, q)[j]
      PROVE  i = j
  <2>1. CASE i = Len(qu) + 1 \/ j = Len(qu) + 1
    BY <2>1, <1>1, <1>2, <1>3
  <2>2. CASE i # Len(qu) + 1 /\ j # Len(qu) + 1
    <3>1. i \in 1..Len(qu) /\ j \in 1..Len(qu)
      BY <2>2, <1>1
    <3>2. QED BY <3>1, <1>1, <1>3 DEF Line
  <2>3. QED BY <2>1, <2>2
<1>4. ASSUME NEW x \in Sender
      PROVE  [p EXCEPT ![q] = r][x] \in SlotPc
               <=> \E i \in DOMAIN Append(qu, q) : Append(qu, q)[i] = x
  <2>1. CASE x = q
    BY <2>1, <1>1
  <2>2. CASE x # q
    <3>1. (\E i \in DOMAIN Append(qu, q) : Append(qu, q)[i] = x)
            <=> \E i \in DOMAIN qu : qu[i] = x
      BY <2>2, <1>1
    <3>2. QED BY <3>1, <2>2 DEF Line
  <2>3. QED BY <2>1, <2>2
<1>5. QED BY <1>3, <1>4 DEF Line

(* An order of a finite set is a sequence of all its members, each once. *)
LEMMA OrderOf ==
  ASSUME NEW S, IsFiniteSet(S), NEW s \in SetToSeqs(S)
  PROVE  /\ s \in Seq(S) /\ DOMAIN s = 1..Len(s)
         /\ \A i, j \in DOMAIN s : s[i] = s[j] => i = j
         /\ \A x \in S : \E i \in DOMAIN s : s[i] = x
<1> DEFINE n == Cardinality(S)
<1>1. n \in Nat
  BY FS_CardinalityType
<1>2. s \in [1..n -> S] /\ \A i, j \in 1..n : i # j => s[i] # s[j]
  BY DEF SetToSeqs
<1>3. s \in Seq(S) /\ Len(s) = n /\ DOMAIN s = 1..n
  BY <1>1, <1>2
<1>4. s \in Injection(1..n, S)
  BY <1>2 DEF Injection, IsInjective
<1>5. IsFiniteSet(1..n) /\ Cardinality(1..n) = n
  BY <1>1, FS_Interval
<1>6. s \in Surjection(1..n, S)
  BY <1>4, <1>5, FS_Injection
<1>7. QED BY <1>2, <1>3, <1>6 DEF Surjection

(* Those who waited join the line in any order. *)
LEMMA LineResumed ==
  ASSUME NEW qu \in Seq(Sender), NEW p \in [Sender -> Pc], Line(qu, p),
         NEW S \in SUBSET Sender, IsFiniteSet(S), NEW s \in SetToSeqs(S),
         \A x \in S : p[x] \notin SlotPc,
         NEW pn \in [Sender -> Pc],
         \A x \in Sender : pn[x] \in SlotPc <=> (x \in S \/ p[x] \in SlotPc)
  PROVE  qu \o s \in Seq(Sender) /\ Line(qu \o s, pn)
<1>1. /\ s \in Seq(Sender) /\ DOMAIN s = 1..Len(s) /\ Len(s) \in Nat
      /\ \A i, j \in DOMAIN s : s[i] = s[j] => i = j
      /\ \A x \in S : \E i \in DOMAIN s : s[i] = x
      /\ \A i \in DOMAIN s : s[i] \in S
  BY OrderOf
<1>2. Len(qu) \in Nat /\ DOMAIN qu = 1..Len(qu)
  OBVIOUS
<1>3. /\ qu \o s \in Seq(Sender)
      /\ DOMAIN (qu \o s) = 1..(Len(qu) + Len(s))
      /\ \A i \in 1..(Len(qu) + Len(s)) :
            (qu \o s)[i] = IF i <= Len(qu) THEN qu[i] ELSE s[i - Len(qu)]
  BY <1>1, ConcatProperties
<1> DEFINE c == qu \o s
<1>4. ASSUME NEW i \in 1..Len(qu) PROVE c[i] = qu[i] /\ i \in DOMAIN c
  BY <1>1, <1>2, <1>3
<1>5. ASSUME NEW i \in DOMAIN s
      PROVE  c[Len(qu) + i] = s[i] /\ Len(qu) + i \in DOMAIN c
  BY <1>1, <1>2, <1>3
<1>6. ASSUME NEW i \in DOMAIN c
      PROVE  \/ i \in 1..Len(qu) /\ i \in DOMAIN qu /\ c[i] = qu[i]
             \/ i - Len(qu) \in DOMAIN s /\ c[i] = s[i - Len(qu)] /\ i > Len(qu)
  BY <1>1, <1>2, <1>3
<1>7. \A i \in DOMAIN qu : qu[i] \notin S
  BY <1>2 DEF Line
<1>8. DOMAIN c \subseteq Nat
  BY <1>1, <1>2, <1>3
<1> HIDE DEF c
<1>9. ASSUME NEW i \in DOMAIN c, NEW j \in DOMAIN c, c[i] = c[j] PROVE i = j
  <2>1. CASE i \in 1..Len(qu) /\ i \in DOMAIN qu /\ c[i] = qu[i]
    <3>1. c[j] \notin S
      BY <2>1, <1>7, <1>9
    <3>2. j \in DOMAIN qu /\ c[j] = qu[j]
      BY <3>1, <1>1, <1>6
    <3>3. QED BY <2>1, <3>2, <1>9 DEF Line
  <2>2. CASE i - Len(qu) \in DOMAIN s /\ c[i] = s[i - Len(qu)] /\ i > Len(qu)
    <3>1. c[j] \in S
      BY <2>2, <1>1, <1>9
    <3>2. j - Len(qu) \in DOMAIN s /\ c[j] = s[j - Len(qu)]
      BY <3>1, <1>6, <1>7
    <3>3. i - Len(qu) = j - Len(qu)
      BY <2>2, <3>2, <1>1, <1>9
    <3>4. QED BY <3>3, <1>2, <1>8
  <2>3. QED BY <2>1, <2>2, <1>6
<1>10. ASSUME NEW x \in Sender
       PROVE  pn[x] \in SlotPc <=> \E i \in DOMAIN c : c[i] = x
  <2>1. CASE x \in S
    BY <2>1, <1>1, <1>5
  <2>2. CASE x \notin S
    <3>1. (\E i \in DOMAIN c : c[i] = x) <=> \E i \in DOMAIN qu : qu[i] = x
      BY <2>2, <1>1, <1>2, <1>4, <1>6
    <3>2. QED BY <3>1, <2>2 DEF Line
  <2>3. QED BY <2>1, <2>2
<1>11. QED BY <1>3, <1>9, <1>10 DEF Line, c


(* What the end of the login does to those who waited for it. *)
LEMMA Resumption ==
  ASSUME TypeOK, NEW how, NEW gone, LoginEnded(how, gone)
  PROVE  /\ pc' \in [Sender -> Pc] /\ queue' \in Seq(Sender) /\ Line(queue', pc')
         /\ pc'["login"] \in {"idle", "slot"}
         /\ \A q \in Req \ Waiting : pc'[q] = pc[q]
         /\ \A q \in Waiting : pc'[q] \in SlotPc \cup {"idle", "gone"}
         /\ closed => \A q \in (Waiting \cup {"login"}) \ {"logout"} : pc'[q] = "idle"
         /\ \E s \in SetToSeqs({q \in Waiting \cup {"login"} : pc'[q] \in SlotPc}) :
               queue' = queue \o s
<1> DEFINE next == [q \in Req |-> IF q \in Waiting THEN Resumed(q, how, gone) ELSE pc[q]]
           login == IF \E q \in Req : next[q] = "gone" THEN "slot" ELSE "idle"
           S == {q \in Waiting \cup {"login"} : pc'[q] \in SlotPc}
<1>0. pc \in [Sender -> Pc] /\ queue \in Seq(Sender) /\ Line(queue, pc) /\ closed \in BOOLEAN
  BY DEF TypeOK, FlagType, RequestType, InLine, Line
<1>1. /\ pc["login"] = "wire"
      /\ pc' = [q \in Sender |-> IF q = "login" THEN login ELSE next[q]]
      /\ \E s \in SetToSeqs(S) : queue' = queue \o s
  BY DEF LoginEnded, LoginEnds
<1>2. ASSUME NEW q \in Waiting
      PROVE  /\ q \in Req /\ q # "login" /\ q \in Sender
             /\ pc'[q] = Resumed(q, how, gone) /\ next[q] = Resumed(q, how, gone)
             /\ pc[q] \in WaitPc
  BY <1>1, Names DEF Waiting
<1>3. ASSUME NEW q \in Req \ Waiting PROVE pc'[q] = pc[q] /\ next[q] = pc[q]
  BY <1>1, Names
<1>4. ASSUME NEW q \in Waiting
      PROVE  /\ Resumed(q, how, gone) \in SlotPc \cup {"idle", "gone"}
             /\ closed => Resumed(q, how, gone) # "gone"
             /\ closed /\ q # "logout" => Resumed(q, how, gone) = "idle"
  BY <1>2 DEF Resumed, SentAgain, SlotPc, WaitPc
<1>5. /\ pc'["login"] = login /\ login \in {"idle", "slot"}
      /\ closed => login = "idle"
  <2>1. closed => \A q \in Req : next[q] # "gone"
    BY <1>2, <1>3, <1>4 DEF Waiting, WaitPc
  <2>2. QED BY <1>1, <2>1, Names
<1>6. pc' \in [Sender -> Pc]
  <2>1. \A q \in Sender : pc'[q] \in Pc
    <3>1. ASSUME NEW q \in Waiting PROVE pc'[q] \in Pc
      BY <1>2, <1>4 DEF Pc, WaitPc
    <3>2. ASSUME NEW q \in Req \ Waiting PROVE pc'[q] \in Pc
      BY <1>0, <1>3, Names
    <3>3. pc'["login"] \in Pc
      BY <1>5 DEF Pc, SlotPc
    <3>4. QED BY <3>1, <3>2, <3>3 DEF Sender
  <2>2. pc' = [q \in Sender |-> pc'[q]]
    BY <1>1
  <2>3. QED BY <2>1, <2>2
<1>7. S \in SUBSET Sender /\ IsFiniteSet(S)
  <2>1. IsFiniteSet(Req \cup {"login"}) /\ S \subseteq Req \cup {"login"}
    BY RequestsAreFinite, FS_Singleton, FS_Union DEF Waiting
  <2>2. QED BY <2>1, FS_Subset, Names
<1> HIDE DEF next, login
<1>8. \A q \in S : pc[q] \notin SlotPc
  BY <1>1, <1>2 DEF WaitPc, SlotPc
<1>9. ASSUME NEW q \in Sender
      PROVE  pc'[q] \in SlotPc <=> (q \in S \/ pc[q] \in SlotPc)
  <2>1. CASE q = "login"
    BY <2>1, <1>1 DEF SlotPc
  <2>2. CASE q \in Waiting
    BY <2>2, <1>2 DEF WaitPc, SlotPc
  <2>3. CASE q \in Req \ Waiting
    BY <2>3, <1>3, Names
  <2>4. QED BY <2>1, <2>2, <2>3 DEF Sender
<1>10. PICK s \in SetToSeqs(S) : queue' = queue \o s
  BY <1>1
<1> HIDE DEF S
<1>11. queue' \in Seq(Sender) /\ Line(queue', pc')
  BY <1>0, <1>6, <1>7, <1>8, <1>9, <1>10, LineResumed
<1>12. QED BY <1>2, <1>3, <1>4, <1>5, <1>6, <1>10, <1>11 DEF S

(* What the controller may answer, and what it does then. *)
LEMMA Service ==
  ASSUME NEW q \in Sender, Serve(q), issued \in Nat
  PROVE  \E a \in {"ok", "error", "denied", "nohal"}, b \in {None, issued + 1} :
            /\ pc[q] = "wire" /\ ans[q] = "none" /\ Answer(q, a, b)
            /\ issued' = IF b = None THEN issued ELSE b
            /\ alive' \subseteq IF b = None THEN alive ELSE alive \cup {b}
            /\ a = "denied" => /\ sent[q] # Credentials => sent[q] \notin alive
                              /\ alive' = alive
            /\ \/ UNCHANGED done
               \/ a = "ok" /\ Taken(q)
            /\ UNCHANGED <<client, auth, slots, pc, tries, second, sent, hal, preferXhtml>>
<1>1. CASE ServeLogin(q)
  <2>1. CASE issued < MaxSession /\ issued' = issued + 1
    BY <1>1, <2>1 DEF ServeLogin, Serve, None, controller
  <2>2. CASE ~(issued < MaxSession /\ issued' = issued + 1)
    <3>1. UNCHANGED controller /\ \E a \in {"ok", "error", "denied"} : Answer(q, a, None)
      BY <1>1, <2>2 DEF ServeLogin
    <3>2. QED BY <3>1, <1>1 DEF ServeLogin, Serve, controller
  <2>3. QED BY <2>1, <2>2
<1>2. CASE ServeCookie(q)
  BY <1>2 DEF ServeCookie, Serve, None, controller
<1>3. CASE ServeGone(q)
  BY <1>3 DEF ServeGone, Serve, None, controller
<1>4. QED BY <1>1, <1>2, <1>3 DEF Serve

-----------------------------------------------------------------------------
(* The types.                                                              *)

(* /logout is sent by the teardown alone. *)
LogoutOnce == tearing # "logout" => pc["logout"] = "idle"

(* A closed client has nobody in line behind its /logout. *)
LogoutLast ==
    /\ tearing = "logout" => closed
    /\ closed => IF pc["logout"] \in SlotPc
                   THEN queue # <<>> /\ queue[Len(queue)] = "logout"
                   ELSE queue = <<>>

TornDown == LogoutOnce /\ LogoutLast

(* Flags and sessions keep their types. *)
LEMMA FlagStep == TypeOK /\ [Next]_vars => (FlagType /\ SessionType)'
  <1> SUFFICES ASSUME TypeOK, [Next]_vars PROVE (FlagType /\ SessionType)'
    OBVIOUS
  <1>0. FlagType /\ RequestType /\ SessionType
    BY DEF TypeOK
  <1>1. ASSUME NEW q \in Sender, AskLogin(q) PROVE (FlagType /\ SessionType)'
    BY <1>0, <1>1, Names DEF AskLogin, SlotTaken, Chain, FlagType, SessionType,
       NotedGone, None, Credentials, client, auth, slots, pace, wire, tries, controller,
       Req, Sender, Call
  <1>2. ASSUME NEW q \in Sender, SkipLogout(q) PROVE (FlagType /\ SessionType)'
    BY <1>0, <1>2, Names DEF SkipLogout, SlotTaken, Chain, FlagType, SessionType,
       NotedGone, None, Credentials, client, auth, slots, pace, wire, tries, controller,
       Req, Sender, Call
  <1>3. ASSUME NEW q \in Sender, Send(q) PROVE (FlagType /\ SessionType)'
    BY <1>0, <1>3, Names DEF Send, SlotTaken, Chain, FlagType, SessionType,
       NotedGone, None, Credentials, client, auth, slots, pace, wire, tries, controller,
       Req, Sender, Call
  <1>4. ASSUME NEW q \in Sender, Serve(q) PROVE (FlagType /\ SessionType)'
    <2>1. issued \in Nat
      BY <1>0 DEF SessionType
    <2>2. PICK a \in {"ok", "error", "denied", "nohal"}, b \in {None, issued + 1} :
            /\ pc[q] = "wire" /\ ans[q] = "none" /\ Answer(q, a, b)
            /\ issued' = IF b = None THEN issued ELSE b
            /\ alive' \subseteq IF b = None THEN alive ELSE alive \cup {b}
            /\ a = "denied" => /\ sent[q] # Credentials => sent[q] \notin alive
                              /\ alive' = alive
            /\ UNCHANGED done \/ (a = "ok" /\ Taken(q))
            /\ UNCHANGED <<client, auth, slots, pc, tries, second, sent, hal, preferXhtml>>
      BY <1>4, <2>1, Service
    <2>3. QED BY <1>0, <2>1, <2>2 DEF FlagType, SessionType, Taken, None, client,
       auth, slots, pace
  <1>5. ASSUME NEW q \in Sender, Adopt(q) PROVE (FlagType /\ SessionType)'
    BY <1>0, <1>5 DEF Adopt, FlagType, RequestType, SessionType, client, slots, pace,
       controller
  <1>6. ASSUME NEW q \in Sender, Succeeds(q) PROVE (FlagType /\ SessionType)'
    BY <1>0, <1>6, Names DEF Succeeds, Settled, OffWire, FirstTry, FlagType,
       SessionType, NotedGone, None, Credentials, client, auth, slots, pace, wire, tries,
       controller, Req, Sender, Call
  <1>7. ASSUME NEW q \in Sender, IsRefused(q) PROVE (FlagType /\ SessionType)'
    BY <1>0, <1>7, Names DEF IsRefused, Failed, Settled, OffWire, FirstTry, FlagType,
       SessionType, NotedGone, None, Credentials, client, auth, slots, pace, wire, tries,
       controller, Req, Sender, Call
  <1>8. ASSUME NEW q \in Sender, FallBack(q) PROVE (FlagType /\ SessionType)'
    BY <1>0, <1>8, Names DEF FallBack, Failed, Settled, OffWire, FirstTry, Queued,
       FlagType, SessionType, NotedGone, None, Credentials, client, auth, slots, pace,
       wire, tries, controller, Req, Sender, Call
  <1>9. ASSUME NEW q \in Sender, Denied(q) PROVE (FlagType /\ SessionType)'
    BY <1>0, <1>9, Names DEF Denied, Failed, Settled, OffWire, FirstTry, FlagType,
       SessionType, NotedGone, None, Credentials, client, auth, slots, pace, wire, tries,
       controller, Req, Sender, Call
  <1>10. ASSUME NEW q \in Sender, TimesOut(q) PROVE (FlagType /\ SessionType)'
    BY <1>0, <1>10, Names DEF TimesOut, Failed, Settled, OffWire, FirstTry, FlagType,
       SessionType, NotedGone, None, Credentials, client, auth, slots, pace, wire, tries,
       controller, Req, Sender, Call
  <1>11. ASSUME NEW q \in Sender, Broken(q) PROVE (FlagType /\ SessionType)'
    BY <1>0, <1>11, Names DEF Broken, Failed, Settled, OffWire, FirstTry, Queued,
       FlagType, SessionType, NotedGone, None, Credentials, client, auth, slots, pace,
       wire, tries, controller, Req, Sender, Call
  <1>12. ASSUME NEW q \in Call, Start(q) PROVE (FlagType /\ SessionType)'
    BY <1>0, <1>12, Names DEF Start, Queued, FlagType, SessionType, NotedGone, None,
       Credentials, client, auth, slots, pace, wire, tries, controller, Req, Sender, Call
  <1>13. ASSUME NEW how, NEW gone, LoginEnded(how, gone) PROVE (FlagType /\ SessionType)'
    BY <1>0, <1>13 DEF LoginEnded, LoginEnds, FlagType, RequestType, SessionType,
       NotedGone, client, controller, pace
  <1>14. CASE PaceElapses
    BY <1>0, <1>14, Names DEF PaceElapses, FlagType, SessionType, NotedGone, None,
       Credentials, client, auth, slots, pace, wire, tries, controller, Req, Sender, Call
  <1>15. CASE LoginRequeued
    BY <1>0, <1>15, Names DEF LoginRequeued, Queued, OffWire, FlagType, SessionType,
       NotedGone, None, Credentials, client, auth, slots, pace, wire, tries, controller,
       Req, Sender, Call
  <1>16. CASE Connect
    BY <1>0, <1>16, Names DEF Connect, Queued, FlagType, SessionType, NotedGone,
       None, Credentials, client, auth, slots, pace, wire, tries, controller, Req, Sender,
       Call
  <1>17. CASE Disconnect
    BY <1>0, <1>17, Names DEF Disconnect, FlagType, SessionType, NotedGone, None,
       Credentials, client, auth, slots, pace, wire, tries, controller, Req, Sender, Call
  <1>18. CASE LogOut
    BY <1>0, <1>18, Names DEF LogOut, Queued, FlagType, SessionType, NotedGone, None,
       Credentials, client, auth, slots, pace, wire, tries, controller, Req, Sender, Call
  <1>19. CASE TeardownEnds
    BY <1>0, <1>19, Names DEF TeardownEnds, FlagType, SessionType, NotedGone, None,
       Credentials, client, auth, slots, pace, wire, tries, controller, Req, Sender, Call
  <1>20. ASSUME NEW s \in Session, Expire(s) PROVE (FlagType /\ SessionType)'
    BY <1>0, <1>20, Names DEF Expire, FlagType, SessionType, NotedGone, None,
       Credentials, client, auth, slots, pace, wire, tries, controller, Req, Sender, Call
  <1>21. CASE UNCHANGED vars
    BY <1>0, <1>21 DEF vars, FlagType, SessionType, NotedGone, None, Credentials,
       client, auth, slots, pace, wire, tries, controller, Req, Sender, Call
  <1>22. ASSUME NEW q \in Sender, Sleeps(q) PROVE (FlagType /\ SessionType)'
    BY <1>0, <1>22 DEF Sleeps, FlagType, SessionType, client, auth, controller
  <1> QED
    BY <1>1, <1>2, <1>3, <1>4, <1>5, <1>6, <1>7, <1>8, <1>9, <1>10, <1>11, <1>12,
       <1>13, <1>14, <1>15, <1>16, <1>17, <1>18, <1>19, <1>20, <1>21, <1>22,
       StepCases

(* The chances a request has left. *)
TriesType ==
    /\ retried \in [Sender -> BOOLEAN]
    /\ spare \in [Sender -> SUBSET {"login", "retry"}]

(* They keep their types. *)
LEMMA TriesTypes ==
  ASSUME RequestType, NEW q \in Sender, NEW b,
         \/ UNCHANGED tries
         \/ Unwound(q, b)
         \/ \E c \in SUBSET {"login", "retry"} : FirstTry(q, c)
  PROVE  TriesType'
<1>1. CASE UNCHANGED tries
  BY <1>1 DEF RequestType, TriesType, tries
<1>2. CASE Unwound(q, b)
  BY <1>2 DEF RequestType, TriesType, Unwound
<1>3. ASSUME NEW c \in SUBSET {"login", "retry"}, FirstTry(q, c) PROVE TriesType'
  BY <1>3 DEF RequestType, TriesType, FirstTry
<1>4. QED BY <1>1, <1>2, <1>3

(* A sender off the wire keeps its types. *)
LEMMA OffWireTypes ==
  ASSUME RequestType, NEW q \in Sender, OffWire(q), TriesType',
         queue' \in Seq(Sender), NEW p \in Pc, pc' = [pc EXCEPT ![q] = p]
  PROVE  RequestType'
<1>1. pc' \in [Sender -> Pc]
  BY DEF RequestType
<1>2. QED BY <1>1 DEF RequestType, TriesType, OffWire, Credentials, None

(* A request that settles keeps its types. *)
LEMMA SettledTypes ==
  ASSUME RequestType, NEW q \in Sender, Settled(q)
  PROVE  RequestType'
<1>1. OffWire(q) /\ FirstTry(q, {}) /\ pc' = [pc EXCEPT ![q] = "idle"] /\ queue' = queue
  BY DEF Settled, slots
<1>2. {} \in SUBSET {"login", "retry"}
  OBVIOUS
<1>3. TriesType'
  BY <1>1, <1>2, TriesTypes
<1>4. queue' \in Seq(Sender) /\ "idle" \in Pc
  BY <1>1 DEF RequestType, Pc
<1>5. QED BY <1>1, <1>3, <1>4, OffWireTypes

(* The requests, their line and what they carry keep their types. *)
LEMMA LineStep == TypeOK /\ LogoutOnce /\ [Next]_vars => (RequestType /\ InLine)'
  <1> SUFFICES ASSUME TypeOK /\ LogoutOnce, [Next]_vars PROVE (RequestType /\ InLine)'
    OBVIOUS
  <1>0. FlagType /\ RequestType /\ SessionType
    BY DEF TypeOK
  <1>line. queue \in Seq(Sender) /\ pc \in [Sender -> Pc] /\ Line(queue, pc) /\ InLine
    BY DEF TypeOK, RequestType, InLine, Line
  <1>1. ASSUME NEW q \in Sender, AskLogin(q) PROVE (RequestType /\ InLine)'
    <2>1. queue # <<>> /\ q = Head(queue) /\ queue' = Tail(queue)
      BY <1>1 DEF AskLogin, SlotTaken, Chain
    <2>2. pc' = [pc EXCEPT ![q] = "asked"]
      BY <1>1 DEF AskLogin
    <2>3. Line(queue', pc')
      BY <1>line, <2>1, <2>2, LineLeaves DEF Pc, SlotPc, WaitPc
    <2>4. queue' \in Seq(Sender)
      BY <1>line, <2>1
    <2>5. RequestType'
      BY <1>0, <1>1, <2>2, <2>4 DEF AskLogin, RequestType, FlagType, SessionType,
         authHeaders, Pc, SlotPc, WaitPc, Credentials, None, tries, wire
    <2>6. QED BY <2>3, <2>5 DEF Line, InLine
  <1>2. ASSUME NEW q \in Sender, SkipLogout(q) PROVE (RequestType /\ InLine)'
    <2>1. queue # <<>> /\ q = Head(queue) /\ queue' = Tail(queue)
      BY <1>2 DEF SkipLogout, SlotTaken, Chain
    <2>2. pc' = [pc EXCEPT ![q] = "idle"]
      BY <1>2 DEF SkipLogout
    <2>3. Line(queue', pc')
      BY <1>line, <2>1, <2>2, LineLeaves DEF Pc, SlotPc, WaitPc
    <2>4. queue' \in Seq(Sender)
      BY <1>line, <2>1
    <2>5. RequestType'
      BY <1>0, <1>2, <2>2, <2>4 DEF SkipLogout, RequestType, FlagType, SessionType,
         authHeaders, Pc, SlotPc, WaitPc, Credentials, None, tries, wire
    <2>6. QED BY <2>3, <2>5 DEF Line, InLine
  <1>3. ASSUME NEW q \in Sender, Send(q) PROVE (RequestType /\ InLine)'
    <2>1. queue # <<>> /\ q = Head(queue) /\ queue' = Tail(queue)
      BY <1>3 DEF Send, SlotTaken, Chain
    <2>2. pc' = [pc EXCEPT ![q] = "wire"]
      BY <1>3 DEF Send
    <2>3. Line(queue', pc')
      BY <1>line, <2>1, <2>2, LineLeaves DEF Pc, SlotPc, WaitPc
    <2>4. queue' \in Seq(Sender)
      BY <1>line, <2>1
    <2>5. RequestType'
      BY <1>0, <1>3, <2>2, <2>4 DEF Send, RequestType, FlagType, SessionType,
         authHeaders, Pc, SlotPc, WaitPc, Credentials, None, tries, wire
    <2>6. QED BY <2>3, <2>5 DEF Line, InLine
  <1>4. ASSUME NEW q \in Sender, Serve(q) PROVE (RequestType /\ InLine)'
    <2>1. issued \in Nat
      BY <1>0 DEF SessionType
    <2>2. PICK a \in {"ok", "error", "denied", "nohal"}, b \in {None, issued + 1} :
            /\ pc[q] = "wire" /\ ans[q] = "none" /\ Answer(q, a, b)
            /\ issued' = IF b = None THEN issued ELSE b
            /\ alive' \subseteq IF b = None THEN alive ELSE alive \cup {b}
            /\ a = "denied" => /\ sent[q] # Credentials => sent[q] \notin alive
                              /\ alive' = alive
            /\ UNCHANGED done \/ (a = "ok" /\ Taken(q))
            /\ UNCHANGED <<client, auth, slots, pc, tries, second, sent, hal, preferXhtml>>
      BY <1>4, <2>1, Service
    <2>3. QED BY <1>0, <1>line, <2>1, <2>2 DEF RequestType, InLine, Answer, None,
       slots, tries
  <1>5. ASSUME NEW q \in Sender, Adopt(q) PROVE (RequestType /\ InLine)'
    BY <1>0, <1>line, <1>5 DEF Adopt, None, RequestType, InLine, slots, wire, tries
  <1>6. ASSUME NEW q \in Sender, Succeeds(q) PROVE (RequestType /\ InLine)'
    <2>1. pc[q] = "wire"
      BY <1>6 DEF Succeeds, Answered
    <2>2. pc' = [pc EXCEPT ![q] = "idle"] /\ queue' = queue
      BY <1>6 DEF Succeeds, Settled, OffWire, FirstTry, slots
    <2>3. Line(queue', pc')
      BY <1>line, <2>1, <2>2, LineKept DEF SlotPc
    <2>4. RequestType'
      BY <1>0, <1>6, SettledTypes DEF Succeeds
    <2>5. QED BY <2>3, <2>4 DEF Line, InLine
  <1>7. ASSUME NEW q \in Sender, IsRefused(q) PROVE (RequestType /\ InLine)'
    <2>1. pc[q] = "wire"
      BY <1>7 DEF IsRefused, Answered
    <2>2. pc' = [pc EXCEPT ![q] = "idle"] /\ queue' = queue
      BY <1>7 DEF IsRefused, Failed, Settled, OffWire, FirstTry, slots
    <2>3. Line(queue', pc')
      BY <1>line, <2>1, <2>2, LineKept DEF SlotPc
    <2>4. RequestType'
      BY <1>0, <1>7, SettledTypes DEF IsRefused, Failed
    <2>5. QED BY <2>3, <2>4 DEF Line, InLine
  <1>8. ASSUME NEW q \in Sender, FallBack(q) PROVE (RequestType /\ InLine)'
    <2>1. pc[q] = "wire" /\ q \in Sender
      BY <1>8, Names DEF FallBack, Answered
    <2>2. CASE Refused(q)
      <3>1. pc' = [pc EXCEPT ![q] = "idle"] /\ queue' = queue
        BY <1>8, <2>2 DEF FallBack, Failed, Settled, slots
      <3>2. Line(queue', pc')
        BY <1>line, <2>1, <3>1, LineKept DEF SlotPc
      <3>3. RequestType'
        BY <1>0, <1>8, <2>1, <2>2, SettledTypes DEF FallBack, Failed
      <3>4. QED BY <3>2, <3>3 DEF Line, InLine
    <2>3. CASE ~Refused(q)
      <3>1. pc' = [pc EXCEPT ![q] = "slot"] /\ queue' = Append(queue, q)
        BY <1>8, <2>3 DEF FallBack, Queued
      <3>2. Line(queue', pc')
        BY <1>line, <2>1, <3>1, LineJoined DEF SlotPc
      <3>3. queue' \in Seq(Sender) /\ OffWire(q) /\ TriesType'
        <4>1. queue' \in Seq(Sender)
          BY <1>line, <2>1, <3>1
        <4>2. OffWire(q) /\ \E c \in SUBSET {"login", "retry"} : FirstTry(q, c)
          BY <1>8, <2>3 DEF FallBack
        <4>3. QED BY <1>0, <2>1, <4>1, <4>2, TriesTypes
      <3>4. RequestType'
        BY <1>0, <2>1, <3>1, <3>3, OffWireTypes DEF Pc, SlotPc
      <3>5. QED BY <3>2, <3>4 DEF Line, InLine
    <2>4. QED BY <2>2, <2>3
  <1>9. ASSUME NEW q \in Sender, Denied(q) PROVE (RequestType /\ InLine)'
    <2>1. pc[q] = "wire" /\ q \in Sender /\ q # "login"
      BY <1>9, Names DEF Denied, Answered
    <2>2. CASE ~LogsIn(q)
      <3>1. pc' = [pc EXCEPT ![q] = "idle"] /\ queue' = queue
        BY <1>9, <2>2 DEF Denied, Failed, Settled, slots
      <3>2. Line(queue', pc')
        BY <1>line, <2>1, <3>1, LineKept DEF SlotPc
      <3>3. RequestType'
        BY <1>0, <1>9, <2>1, <2>2, SettledTypes DEF Denied, Failed
      <3>4. QED BY <3>2, <3>3 DEF Line, InLine
    <2> DEFINE gone == [pc EXCEPT ![q] = "gone"]
    <2>3. gone \in [Sender -> Pc] /\ Line(queue, gone)
      BY <1>line, <2>1, LineKept DEF SlotPc, Pc, WaitPc
    <2>4. CASE LogsIn(q) /\ relogin
      <3>1. pc' = gone /\ queue' = queue
        BY <1>9, <2>4 DEF Denied, slots
      <3>2. RequestType'
        <4>1. OffWire(q) /\ Unwound(q, second[q])
          BY <1>9, <2>4 DEF Denied
        <4>2. TriesType'
          BY <1>0, <2>1, <4>1, TriesTypes
        <4>3. QED BY <1>0, <1>line, <2>1, <3>1, <4>1, <4>2, OffWireTypes DEF Pc, WaitPc
      <3>3. QED BY <2>3, <3>1, <3>2 DEF Line, InLine
    <2>5. CASE LogsIn(q) /\ ~relogin
      <3>1. pc' = [gone EXCEPT !["login"] = "slot"] /\ queue' = Append(queue, "login")
        BY <1>9, <2>5 DEF Denied
      <3>2. gone["login"] \notin SlotPc
        BY <1>line, <2>1, <2>5, Names DEF relogin, SlotPc
      <3>3. Line(queue', pc')
        BY <1>line, <2>3, <3>1, <3>2, Names, LineJoined DEF SlotPc
      <3>4. pc' \in [Sender -> Pc] /\ queue' \in Seq(Sender)
        BY <1>line, <2>3, <3>1, Names DEF Pc, SlotPc
      <3>5. RequestType'
        <4>1. OffWire(q) /\ Unwound(q, second[q])
          BY <1>9, <2>5 DEF Denied
        <4>2. TriesType'
          BY <1>0, <2>1, <4>1, TriesTypes
        <4>3. QED BY <1>0, <2>1, <3>4, <4>1, <4>2 DEF OffWire, RequestType, TriesType,
                 Credentials, None
      <3>6. QED BY <3>3, <3>5 DEF Line, InLine
    <2>6. QED BY <2>2, <2>4, <2>5
  <1>10. ASSUME NEW q \in Sender, TimesOut(q) PROVE (RequestType /\ InLine)'
    <2>1. pc[q] = "wire"
      BY <1>10 DEF TimesOut, Answered
    <2>2. pc' = [pc EXCEPT ![q] = "idle"] /\ queue' = queue
      BY <1>10 DEF TimesOut, Failed, Settled, OffWire, FirstTry, slots
    <2>3. Line(queue', pc')
      BY <1>line, <2>1, <2>2, LineKept DEF SlotPc
    <2>4. RequestType'
      BY <1>0, <1>10, SettledTypes DEF TimesOut, Failed
    <2>5. QED BY <2>3, <2>4 DEF Line, InLine
  <1>11. ASSUME NEW q \in Sender, Broken(q) PROVE (RequestType /\ InLine)'
    <2>1. pc[q] = "wire" /\ q \in Sender
      BY <1>11, Names DEF Broken, Breaks
    <2>2. CASE ~SentAgain(q)
      <3>1. pc' = [pc EXCEPT ![q] = "idle"] /\ queue' = queue
        BY <1>11, <2>2 DEF Broken, Failed, Settled, slots
      <3>2. Line(queue', pc')
        BY <1>line, <2>1, <3>1, LineKept DEF SlotPc
      <3>3. RequestType'
        BY <1>0, <1>11, <2>1, <2>2, SettledTypes DEF Broken, Failed
      <3>4. QED BY <3>2, <3>3 DEF Line, InLine
    <2>3. CASE SentAgain(q)
      <3>1. pc' = [pc EXCEPT ![q] = "again"] /\ queue' = Append(queue, q)
        BY <1>11, <2>3 DEF Broken, Queued
      <3>2. Line(queue', pc')
        BY <1>line, <2>1, <3>1, LineJoined DEF SlotPc
      <3>3. queue' \in Seq(Sender) /\ OffWire(q) /\ TriesType'
        <4>1. queue' \in Seq(Sender)
          BY <1>line, <2>1, <3>1
        <4>2. OffWire(q) /\ Unwound(q, retried[q])
          BY <1>11, <2>3 DEF Broken
        <4>3. QED BY <1>0, <2>1, <4>1, <4>2, TriesTypes
      <3>4. RequestType'
        BY <1>0, <2>1, <3>1, <3>3, OffWireTypes DEF Pc, SlotPc
      <3>5. QED BY <3>2, <3>4 DEF Line, InLine
    <2>4. QED BY <2>2, <2>3
  <1>12. ASSUME NEW q \in Call, Start(q) PROVE (RequestType /\ InLine)'
    <2>1. q \in Sender /\ pc[q] \notin SlotPc
      BY <1>12, Names DEF Start, SlotPc
    <2>2. pc' = [pc EXCEPT ![q] = "slot"] /\ queue' = Append(queue, q)
      BY <1>12 DEF Start, Queued
    <2>3. Line(queue', pc')
      BY <1>line, <2>1, <2>2, LineJoined DEF SlotPc
    <2>4. RequestType'
      BY <1>0, <1>line, <1>12, <2>1, <2>2 DEF Start, RequestType, Pc, SlotPc, tries,
         wire
    <2>5. QED BY <2>3, <2>4 DEF Line, InLine
  <1>13. ASSUME NEW how, NEW gone, LoginEnded(how, gone) PROVE (RequestType /\ InLine)'
    <2>1. pc' \in [Sender -> Pc] /\ queue' \in Seq(Sender) /\ Line(queue', pc')
      BY <1>13, Resumption
    <2>2. RequestType'
      BY <1>0, <1>13, <2>1 DEF LoginEnded, LoginEnds, OffWire, RequestType,
         Credentials, None
    <2>3. QED BY <2>1, <2>2 DEF Line, InLine
  <1>14. CASE PaceElapses
    BY <1>0, <1>line, <1>14 DEF PaceElapses, RequestType, InLine, slots, wire, tries
  <1>15. CASE LoginRequeued
    <2>1. pc["login"] \notin SlotPc
      BY <1>0, <1>15 DEF LoginRequeued, SlotPc
    <2>2. pc' = [pc EXCEPT !["login"] = "again"] /\ queue' = Append(queue, "login")
      BY <1>15 DEF LoginRequeued, Queued, OffWire
    <2>3. Line(queue', pc')
      BY <1>line, <2>1, <2>2, Names, LineJoined DEF SlotPc
    <2>4. RequestType'
      BY <1>0, <1>line, <1>15, <2>2, Names DEF LoginRequeued, Queued, OffWire,
         RequestType, Pc, SlotPc, tries, wire, Credentials, None
    <2>5. QED BY <2>3, <2>4 DEF Line, InLine
  <1>16. CASE Connect
    <2>1. pc["connect"] \notin SlotPc
      BY <1>0, <1>16 DEF Connect, SlotPc
    <2>2. pc' = [pc EXCEPT !["connect"] = "slot"] /\ queue' = Append(queue, "connect")
      BY <1>16 DEF Connect, Queued
    <2>3. Line(queue', pc')
      BY <1>line, <2>1, <2>2, Names, LineJoined DEF SlotPc
    <2>4. RequestType'
      BY <1>0, <1>line, <1>16, <2>2, Names DEF Connect, Queued, RequestType, Pc,
         SlotPc, tries, wire, Credentials, None
    <2>5. QED BY <2>3, <2>4 DEF Line, InLine
  <1>17. CASE Disconnect
    BY <1>0, <1>line, <1>17 DEF Disconnect, RequestType, InLine, slots, wire, tries
  <1>18. CASE LogOut
    <2>1. CASE closed
      BY <1>0, <1>line, <1>18, <2>1 DEF LogOut, RequestType, InLine, slots, wire, tries
    <2>2. CASE ~closed
      <3>1. pc["logout"] \notin SlotPc
        BY <1>18 DEF LogOut, LogoutOnce, SlotPc
      <3>2. pc' = [pc EXCEPT !["logout"] = "slot"] /\ queue' = Append(queue, "logout")
        BY <1>18, <2>2 DEF LogOut, Queued
      <3>3. Line(queue', pc')
        BY <1>line, <3>1, <3>2, Names, LineJoined DEF SlotPc
      <3>4. RequestType'
        BY <1>0, <1>line, <1>18, <3>2, Names DEF LogOut, RequestType, Pc, SlotPc,
           wire, tries
      <3>5. QED BY <3>3, <3>4 DEF Line, InLine
    <2>3. QED BY <2>1, <2>2
  <1>19. CASE TeardownEnds
    BY <1>0, <1>line, <1>19 DEF TeardownEnds, RequestType, InLine, slots, tries, None
  <1>20. ASSUME NEW s \in Session, Expire(s) PROVE (RequestType /\ InLine)'
    BY <1>0, <1>line, <1>20 DEF Expire, RequestType, InLine, slots, wire, tries
  <1>21. CASE UNCHANGED vars
    BY <1>0, <1>line, <1>21 DEF vars, RequestType, InLine, slots, tries, wire
  <1>22. ASSUME NEW q \in Sender, Sleeps(q) PROVE (RequestType /\ InLine)'
    BY <1>0, <1>line, <1>22 DEF Sleeps, RequestType, InLine, wire, tries
  <1> QED
    BY <1>1, <1>2, <1>3, <1>4, <1>5, <1>6, <1>7, <1>8, <1>9, <1>10, <1>11, <1>12,
       <1>13, <1>14, <1>15, <1>16, <1>17, <1>18, <1>19, <1>20, <1>21, <1>22,
       StepCases

-----------------------------------------------------------------------------
(* The teardown.                                                           *)

(* The head of the line gets its slot: /logout is still the last. *)
LEMMA HeadTaken ==
  ASSUME queue \in Seq(Sender), pc \in [Sender -> Pc], Line(queue, pc), TornDown,
         queue # <<>>, queue' = Tail(queue), UNCHANGED client,
         pc[Head(queue)] \in SlotPc,
         NEW p, p \notin SlotPc, pc' = [pc EXCEPT ![Head(queue)] = p]
  PROVE  TornDown'
<1>1. /\ Len(queue) \in Nat \ {0} /\ Head(queue) = queue[1] /\ Head(queue) \in Sender
      /\ DOMAIN queue = 1..Len(queue)
      /\ Len(Tail(queue)) = Len(queue) - 1
      /\ \A i \in 1..(Len(queue) - 1) : Tail(queue)[i] = queue[i + 1]
  OBVIOUS
<1>2. UNCHANGED <<closed, tearing>>
  BY DEF client
<1>3. LogoutOnce'
  BY <1>1, <1>2, Names DEF TornDown, LogoutOnce, SlotPc
<1>4. ASSUME closed PROVE pc["logout"] \in SlotPc /\ queue[Len(queue)] = "logout"
  BY <1>4 DEF TornDown, LogoutLast
<1>5. CASE closed /\ Head(queue) = "logout"
  <2>1. Len(queue) = 1
    BY <1>1, <1>4, <1>5 DEF Line
  <2>2. Tail(queue) = <<>>
    BY <1>1, <2>1
  <2>3. QED BY <1>1, <1>2, <1>3, <1>5, <2>2 DEF TornDown, LogoutLast
<1>6. CASE closed /\ Head(queue) # "logout"
  <2>1. Len(queue) # 1 /\ Len(queue) - 1 \in 1..(Len(queue) - 1)
    BY <1>1, <1>4, <1>6
  <2>2. Tail(queue)[Len(queue) - 1] = "logout"
    BY <1>1, <1>4, <1>6, <2>1
  <2>3. Tail(queue) # <<>>
    <3>1. Len(<<>>) = 0 /\ Len(Tail(queue)) # 0
      BY <1>1, <2>1
    <3>2. QED BY <3>1
  <2>4. pc'["logout"] = pc["logout"]
    BY <1>6, Names
  <2>5. QED BY <1>1, <1>2, <1>3, <1>4, <1>6, <2>2, <2>3, <2>4 DEF TornDown, LogoutLast
<1>7. CASE ~closed
  BY <1>2, <1>3, <1>7 DEF TornDown, LogoutLast
<1>8. QED BY <1>5, <1>6, <1>7 DEF TornDown

(* What leaves the wire of a closed client does not join the line. *)
LEMMA WireLeft ==
  ASSUME pc \in [Sender -> Pc], TornDown, NEW q \in Sender, pc[q] = "wire",
         closed => UNCHANGED queue /\ \E p : p \notin SlotPc /\ pc' = [pc EXCEPT ![q] = p],
         ~closed => pc'["logout"] = pc["logout"] \/ q = "logout",
         UNCHANGED <<closed, tearing>>
  PROVE  TornDown'
BY Names DEF TornDown, LogoutOnce, LogoutLast, SlotPc

(* /logout stays the last in line of a closed client. *)
LEMMA TeardownStep == TypeOK /\ TornDown /\ [Next]_vars => TornDown'
  <1> SUFFICES ASSUME TypeOK /\ TornDown, [Next]_vars PROVE TornDown'
    OBVIOUS
  <1>0. /\ queue \in Seq(Sender) /\ pc \in [Sender -> Pc] /\ Line(queue, pc)
        /\ closed \in BOOLEAN
    BY DEF TypeOK, RequestType, FlagType, InLine, Line
  <1>1. ASSUME NEW q \in Sender, AskLogin(q) PROVE TornDown'
    <2>1. queue # <<>> /\ q = Head(queue) /\ queue' = Tail(queue) /\ UNCHANGED client
      BY <1>1 DEF AskLogin, SlotTaken, Chain
    <2>2. pc' = [pc EXCEPT ![q] = "asked"] /\ pc[q] \in SlotPc
      BY <1>0, <1>1, <2>1, LineLeaves DEF AskLogin, Pc, WaitPc, SlotPc
    <2>3. QED BY <1>0, <2>1, <2>2, HeadTaken DEF SlotPc
  <1>2. ASSUME NEW q \in Sender, SkipLogout(q) PROVE TornDown'
    <2>1. queue # <<>> /\ q = Head(queue) /\ queue' = Tail(queue) /\ UNCHANGED client
      BY <1>2 DEF SkipLogout, SlotTaken, Chain
    <2>2. pc' = [pc EXCEPT ![q] = "idle"] /\ pc[q] \in SlotPc
      BY <1>0, <1>2, <2>1, LineLeaves DEF SkipLogout, Pc, WaitPc, SlotPc
    <2>3. QED BY <1>0, <2>1, <2>2, HeadTaken DEF SlotPc
  <1>3. ASSUME NEW q \in Sender, Send(q) PROVE TornDown'
    <2>1. queue # <<>> /\ q = Head(queue) /\ queue' = Tail(queue) /\ UNCHANGED client
      BY <1>3 DEF Send, SlotTaken, Chain
    <2>2. pc' = [pc EXCEPT ![q] = "wire"] /\ pc[q] \in SlotPc
      BY <1>0, <1>3, <2>1, LineLeaves DEF Send, Pc, WaitPc, SlotPc
    <2>3. QED BY <1>0, <2>1, <2>2, HeadTaken DEF SlotPc
  <1>4. ASSUME NEW q \in Sender, Serve(q) PROVE TornDown'
    BY <1>4 DEF Serve, TornDown, LogoutOnce, LogoutLast, client, slots
  <1>5. ASSUME NEW q \in Sender, Adopt(q) PROVE TornDown'
    BY <1>0, <1>5 DEF Adopt, TornDown, LogoutOnce, LogoutLast, SlotPc, client, slots
  <1>6. ASSUME NEW q \in Sender, Succeeds(q) PROVE TornDown'
    <2>1. pc[q] = "wire"
      BY <1>6 DEF Succeeds, Answered, Breaks
    <2>2. UNCHANGED <<closed, tearing>>
      BY <1>6 DEF Succeeds, Settled, client
    <2>3. closed => UNCHANGED queue /\ pc' = [pc EXCEPT ![q] = "idle"]
      BY <1>6 DEF Succeeds, Settled, slots
    <2>4. pc'["logout"] = pc["logout"] \/ q = "logout"
      BY <1>0, <1>6, Names DEF Succeeds, Settled
    <2>5. QED BY <1>0, <2>1, <2>2, <2>3, <2>4, WireLeft DEF SlotPc
  <1>7. ASSUME NEW q \in Sender, IsRefused(q) PROVE TornDown'
    <2>1. pc[q] = "wire"
      BY <1>7 DEF IsRefused, Answered, Breaks
    <2>2. UNCHANGED <<closed, tearing>>
      BY <1>7 DEF IsRefused, Failed, Settled, client
    <2>3. closed => UNCHANGED queue /\ pc' = [pc EXCEPT ![q] = "idle"]
      BY <1>7 DEF IsRefused, Failed, Settled, slots
    <2>4. pc'["logout"] = pc["logout"] \/ q = "logout"
      BY <1>0, <1>7, Names DEF IsRefused, Failed, Settled
    <2>5. QED BY <1>0, <2>1, <2>2, <2>3, <2>4, WireLeft DEF SlotPc
  <1>8. ASSUME NEW q \in Sender, FallBack(q) PROVE TornDown'
    <2>1. pc[q] = "wire"
      BY <1>8 DEF FallBack, Answered, Breaks
    <2>2. UNCHANGED <<closed, tearing>>
      BY <1>8 DEF FallBack, Failed, Settled, Queued, client
    <2>3. closed => UNCHANGED queue /\ pc' = [pc EXCEPT ![q] = "idle"]
      BY <1>8 DEF FallBack, Failed, Settled, Queued, slots, Refused
    <2>4. pc'["logout"] = pc["logout"] \/ q = "logout"
      BY <1>0, <1>8, Names DEF FallBack, Failed, Settled, Queued
    <2>5. QED BY <1>0, <2>1, <2>2, <2>3, <2>4, WireLeft DEF SlotPc
  <1>9. ASSUME NEW q \in Sender, Denied(q) PROVE TornDown'
    <2>1. pc[q] = "wire"
      BY <1>9 DEF Denied, Answered, Breaks
    <2>2. UNCHANGED <<closed, tearing>>
      BY <1>9 DEF Denied, Failed, Settled, client
    <2>3. closed => UNCHANGED queue /\ pc' = [pc EXCEPT ![q] = "idle"]
      BY <1>9 DEF Denied, Failed, Settled, slots, LogsIn
    <2>4. pc'["logout"] = pc["logout"] \/ q = "logout"
      BY <1>0, <1>9, Names DEF Denied, Failed, Settled
    <2>5. QED BY <1>0, <2>1, <2>2, <2>3, <2>4, WireLeft DEF SlotPc
  <1>10. ASSUME NEW q \in Sender, TimesOut(q) PROVE TornDown'
    <2>1. pc[q] = "wire"
      BY <1>10 DEF TimesOut, Answered, Breaks
    <2>2. UNCHANGED <<closed, tearing>>
      BY <1>10 DEF TimesOut, Failed, Settled, client
    <2>3. closed => UNCHANGED queue /\ pc' = [pc EXCEPT ![q] = "idle"]
      BY <1>10 DEF TimesOut, Failed, Settled, slots
    <2>4. pc'["logout"] = pc["logout"] \/ q = "logout"
      BY <1>0, <1>10, Names DEF TimesOut, Failed, Settled
    <2>5. QED BY <1>0, <2>1, <2>2, <2>3, <2>4, WireLeft DEF SlotPc
  <1>11. ASSUME NEW q \in Sender, Broken(q) PROVE TornDown'
    <2>1. pc[q] = "wire"
      BY <1>11 DEF Broken, Answered, Breaks
    <2>2. UNCHANGED <<closed, tearing>>
      BY <1>11 DEF Broken, Failed, Settled, Queued, client
    <2>3. closed => UNCHANGED queue /\ pc' = [pc EXCEPT ![q] = "idle"]
      BY <1>11 DEF Broken, Failed, Settled, Queued, slots, SentAgain
    <2>4. pc'["logout"] = pc["logout"] \/ q = "logout"
      BY <1>0, <1>11, Names DEF Broken, Failed, Settled, Queued
    <2>5. QED BY <1>0, <2>1, <2>2, <2>3, <2>4, WireLeft DEF SlotPc
  <1>12. ASSUME NEW q \in Call, Start(q) PROVE TornDown'
    <2>1. ~closed
      BY <1>12 DEF Start, Refused
    <2>2. QED BY <1>0, <1>12, <2>1, Names DEF Start, Queued, TornDown, LogoutOnce,
       LogoutLast, client
  <1>13. ASSUME NEW how, NEW gone, LoginEnded(how, gone) PROVE TornDown'
    <2>1. UNCHANGED <<closed, tearing>> /\ pc["login"] = "wire"
      BY <1>13 DEF LoginEnded, LoginEnds, client
    <2>2. /\ \A x \in Req \ Waiting : pc'[x] = pc[x]
          /\ \A x \in Waiting : pc'[x] \in SlotPc \cup {"idle", "gone"}
          /\ closed => \A x \in (Waiting \cup {"login"}) \ {"logout"} : pc'[x] = "idle"
          /\ \E s \in SetToSeqs({x \in Waiting \cup {"login"} : pc'[x] \in SlotPc}) :
                queue' = queue \o s
      BY <1>13, Resumption
    <2>3. LogoutOnce'
      BY <2>1, <2>2, Names DEF TornDown, LogoutOnce, Waiting, WaitPc
    <2>4. CASE ~closed
      BY <2>1, <2>3, <2>4 DEF TornDown, LogoutLast
    <2>5. CASE closed
      <3> DEFINE S == {x \in Waiting \cup {"login"} : pc'[x] \in SlotPc}
      <3>1. PICK s \in SetToSeqs(S) : queue' = queue \o s
        BY <2>2
      <3>2. S \subseteq Sender /\ IsFiniteSet(S)
        <4>1. IsFiniteSet(Req \cup {"login"}) /\ S \subseteq Req \cup {"login"}
          BY RequestsAreFinite, FS_Singleton, FS_Union DEF Waiting
        <4>2. QED BY <4>1, FS_Subset, Names
      <3>3. S \subseteq {"logout"}
        BY <2>2, <2>5 DEF SlotPc
      <3> HIDE DEF S
      <3>4. /\ s \in Seq(S) /\ DOMAIN s = 1..Len(s) /\ Len(s) \in Nat
            /\ \A i, j \in DOMAIN s : s[i] = s[j] => i = j
            /\ \A x \in S : \E i \in DOMAIN s : s[i] = x
        BY <3>2, OrderOf
      <3>5. CASE "logout" \in S
        <4>1. "logout" \in Waiting /\ pc'["logout"] \in SlotPc
          BY <3>5 DEF S
        <4>2. queue = <<>>
          BY <4>1, <2>5 DEF TornDown, LogoutLast, Waiting, WaitPc, SlotPc
        <4>3. s \in Seq(Sender) /\ queue' = s
          BY <3>1, <3>2, <3>4, <4>2, ConcatEmptySeq
        <4>4. s # <<>> /\ s[Len(s)] = "logout"
          <5>1. PICK i \in 1..Len(s) : s[i] = "logout"
            BY <3>4, <3>5
          <5>2. Len(s) >= 1 /\ Len(s) \in 1..Len(s)
            BY <3>4, <5>1
          <5>3. s[Len(s)] \in S
            BY <3>4, <5>2
          <5>4. s # <<>>
            BY <3>4, <5>2, EmptySeq
          <5>5. QED BY <3>3, <5>3, <5>4
        <4>5. QED BY <2>1, <2>3, <2>5, <4>1, <4>3, <4>4 DEF TornDown, LogoutLast
      <3>6. CASE "logout" \notin S
        <4>1. s = <<>> /\ queue' = queue
          <5>1. S = {}
            BY <3>3, <3>6
          <5>2. Len(s) = 0
            BY <3>4, <5>1
          <5>3. s = <<>>
            BY <3>4, <5>2, EmptySeq
          <5>4. QED BY <1>0, <3>1, <5>3, ConcatEmptySeq
        <4>2. pc'["logout"] \in SlotPc <=> pc["logout"] \in SlotPc
          BY <2>2, <3>6, Names DEF S, Waiting, WaitPc, SlotPc
        <4>3. QED BY <2>1, <2>3, <2>5, <4>1, <4>2 DEF TornDown, LogoutLast
      <3>7. QED BY <3>5, <3>6
    <2>6. QED BY <2>4, <2>5
  <1>14. CASE PaceElapses
    BY <1>0, <1>14 DEF PaceElapses, TornDown, LogoutOnce, LogoutLast, SlotPc, client,
       slots
  <1>15. CASE LoginRequeued
    BY <1>0, <1>15, Names DEF LoginRequeued, Queued, TornDown, LogoutOnce,
       LogoutLast, client
  <1>16. CASE Connect
    BY <1>0, <1>16, Names DEF Connect, Queued, TornDown, LogoutOnce, LogoutLast
  <1>17. CASE Disconnect
    BY <1>0, <1>17 DEF Disconnect, TornDown, LogoutOnce, LogoutLast, SlotPc, client,
       slots
  <1>18. CASE LogOut
    <2>1. pc["logout"] = "idle" /\ tearing' = "logout" /\ closed'
      BY <1>18 DEF LogOut, TornDown, LogoutOnce
    <2>2. CASE closed
      BY <1>18, <2>1, <2>2 DEF LogOut, TornDown, LogoutOnce, LogoutLast, slots
    <2>3. CASE ~closed
      <3>1. pc' = [pc EXCEPT !["logout"] = "slot"] /\ queue' = Append(queue, "logout")
        BY <1>18, <2>3 DEF LogOut, Queued
      <3>2. queue' # <<>> /\ queue'[Len(queue')] = "logout"
        BY <1>0, <3>1, Names
      <3>3. pc'["logout"] \in SlotPc
        BY <1>0, <3>1, Names DEF SlotPc
      <3>4. QED BY <2>1, <3>2, <3>3 DEF TornDown, LogoutOnce, LogoutLast
    <2>4. QED BY <2>2, <2>3
  <1>19. CASE TeardownEnds
    BY <1>19 DEF TeardownEnds, TornDown, LogoutOnce, LogoutLast, slots
  <1>20. ASSUME NEW s \in Session, Expire(s) PROVE TornDown'
    BY <1>0, <1>20 DEF Expire, TornDown, LogoutOnce, LogoutLast, SlotPc, client, slots
  <1>21. CASE UNCHANGED vars
    BY <1>0, <1>21 DEF vars, TornDown, LogoutOnce, LogoutLast, SlotPc, client, slots
  <1>22. ASSUME NEW q \in Sender, Sleeps(q) PROVE TornDown'
    BY <1>22 DEF Sleeps, TornDown, LogoutOnce, LogoutLast, client
  <1> QED
    BY <1>1, <1>2, <1>3, <1>4, <1>5, <1>6, <1>7, <1>8, <1>9, <1>10, <1>11, <1>12,
       <1>13, <1>14, <1>15, <1>16, <1>17, <1>18, <1>19, <1>20, <1>21, <1>22,
       StepCases

-----------------------------------------------------------------------------
(* The sessions.                                                           *)

(* A cookie in use was issued, and a 401 to a cookie is of a session that  *)
(* is gone.                                                                *)
CookieOK ==
    /\ alive \subseteq 1..issued /\ cookie <= issued
    /\ \A q \in Sender : sent[q] <= issued /\ brought[q] <= issued
    /\ \A q \in Sender : ans[q] = "denied" /\ sent[q] # Credentials => sent[q] \notin alive
    /\ GoneIsGone

(* A session is given up only when it is gone. *)
LEMMA CookieStep == TypeOK /\ CookieOK /\ [Next]_vars => CookieOK'
  <1> SUFFICES ASSUME TypeOK /\ CookieOK, [Next]_vars PROVE CookieOK'
    OBVIOUS
  <1>0. /\ sent \in [Sender -> Nat] /\ brought \in [Sender -> Nat] /\ cookie \in Nat /\ issued \in Nat
        /\ ans \in [Sender -> {"none", "ok", "error", "denied", "nohal", "cut"}]
    BY DEF TypeOK, RequestType, SessionType
  <1> USE DEF Credentials, None, CookieOK, GoneIsGone
  <1>1. ASSUME NEW q \in Sender, AskLogin(q) PROVE CookieOK'
    BY <1>0, <1>1 DEF AskLogin, auth, wire, controller
  <1>2. ASSUME NEW q \in Sender, SkipLogout(q) PROVE CookieOK'
    BY <1>0, <1>2 DEF SkipLogout, auth, wire, controller
  <1>3. ASSUME NEW q \in Sender, Send(q) PROVE CookieOK'
    <2>1. authHeaders \in Nat /\ authHeaders <= issued
      BY <1>0 DEF authHeaders
    <2>2. QED BY <1>0, <1>3, <2>1 DEF Send, auth, controller
  <1>4. ASSUME NEW q \in Sender, Serve(q) PROVE CookieOK'
    <2>1. issued \in Nat
      BY <1>0
    <2>2. PICK a \in {"ok", "error", "denied", "nohal"}, b \in {None, issued + 1} :
            /\ pc[q] = "wire" /\ ans[q] = "none" /\ Answer(q, a, b)
            /\ issued' = IF b = None THEN issued ELSE b
            /\ alive' \subseteq IF b = None THEN alive ELSE alive \cup {b}
            /\ a = "denied" => /\ sent[q] # Credentials => sent[q] \notin alive
                              /\ alive' = alive
            /\ UNCHANGED done \/ (a = "ok" /\ Taken(q))
            /\ UNCHANGED <<client, auth, slots, pc, tries, second, sent, hal, preferXhtml>>
      BY <1>4, <2>1, Service
    <2>3. QED BY <1>0, <2>1, <2>2 DEF Answer, auth
  <1>5. ASSUME NEW q \in Sender, Adopt(q) PROVE CookieOK'
    BY <1>0, <1>5 DEF Adopt, controller
  <1>6. ASSUME NEW q \in Sender, Succeeds(q) PROVE CookieOK'
    <2>1. OffWire(q) /\ UNCHANGED <<auth, controller>>
      BY <1>6 DEF Succeeds, Settled
    <2>2. QED BY <1>0, <2>1 DEF OffWire, auth, controller
  <1>7. ASSUME NEW q \in Sender, IsRefused(q) PROVE CookieOK'
    <2>1. OffWire(q) /\ UNCHANGED <<auth, controller>>
      BY <1>7 DEF IsRefused, Failed, Settled
    <2>2. QED BY <1>0, <2>1 DEF OffWire, auth, controller
  <1>8. ASSUME NEW q \in Sender, FallBack(q) PROVE CookieOK'
    <2>1. OffWire(q) /\ UNCHANGED <<auth, controller>>
      BY <1>8 DEF FallBack, Failed, Settled, Queued
    <2>2. QED BY <1>0, <2>1 DEF OffWire, auth, controller
  <1>9. ASSUME NEW q \in Sender, Denied(q) PROVE CookieOK'
    <2>1. OffWire(q) /\ UNCHANGED <<cookie, controller>> /\ sessionGone' = NotedGone(q)
      BY <1>9 DEF Denied, Failed, Settled
    <2>2. ans[q] = "denied"
      BY <1>9 DEF Denied, Answered
    <2>3. NotedGone(q) => cookie \notin alive
      BY <2>2 DEF NotedGone
    <2>4. QED BY <1>0, <2>1, <2>3 DEF OffWire, controller
  <1>10. ASSUME NEW q \in Sender, TimesOut(q) PROVE CookieOK'
    <2>1. OffWire(q) /\ UNCHANGED <<auth, controller>>
      BY <1>10 DEF TimesOut, Failed, Settled
    <2>2. QED BY <1>0, <2>1 DEF OffWire, auth, controller
  <1>11. ASSUME NEW q \in Sender, Broken(q) PROVE CookieOK'
    <2>1. OffWire(q) /\ UNCHANGED <<auth, controller>>
      BY <1>11 DEF Broken, Failed, Settled, Queued
    <2>2. QED BY <1>0, <2>1 DEF OffWire, auth, controller
  <1>12. ASSUME NEW q \in Call, Start(q) PROVE CookieOK'
    BY <1>0, <1>12 DEF Start, auth, wire
  <1>13. ASSUME NEW how, NEW gone, LoginEnded(how, gone) PROVE CookieOK'
    <2>1. OffWire("login") /\ UNCHANGED <<cookie, controller>> /\ sessionGone' = gone
      BY <1>13 DEF LoginEnded, LoginEnds
    <2>2. gone => cookie \notin alive
      BY <1>0, <1>13, Names DEF LoginEnded, NotedGone
    <2>3. QED BY <1>0, <2>1, <2>2, Names DEF OffWire, controller
  <1>14. CASE PaceElapses
    BY <1>0, <1>14 DEF PaceElapses, auth, wire, controller
  <1>15. CASE LoginRequeued
    BY <1>0, <1>15, Names DEF LoginRequeued, OffWire, auth, controller
  <1>16. CASE Connect
    BY <1>0, <1>16 DEF Connect, auth, wire, controller
  <1>17. CASE Disconnect
    BY <1>0, <1>17 DEF Disconnect, auth, wire, controller
  <1>18. CASE LogOut
    BY <1>0, <1>18 DEF LogOut, auth, wire, controller
  <1>19. CASE TeardownEnds
    BY <1>0, <1>19 DEF TeardownEnds, controller
  <1>20. ASSUME NEW s \in Session, Expire(s) PROVE CookieOK'
    BY <1>0, <1>20 DEF Expire, auth, wire
  <1>21. CASE UNCHANGED vars
    BY <1>0, <1>21 DEF vars, auth, wire, controller
  <1>22. ASSUME NEW q \in Sender, Sleeps(q) PROVE CookieOK'
    BY <1>0, <1>22 DEF Sleeps, auth, wire, controller
  <1> QED
    BY <1>1, <1>2, <1>3, <1>4, <1>5, <1>6, <1>7, <1>8, <1>9, <1>10, <1>11, <1>12,
       <1>13, <1>14, <1>15, <1>16, <1>17, <1>18, <1>19, <1>20, <1>21, <1>22,
       StepCases

-----------------------------------------------------------------------------
(* The writes.                                                             *)

(* A write that may still be sent was not taken. *)
WriteOK ==
    \A w \in Writes :
        /\ done[w] <= 1
        /\ pc[w] = "idle" \/ (pc[w] = "wire" /\ ans[w] \in {"ok", "cut"}) \/ done[w] = 0

(* No write is taken twice. *)
LEMMA WriteStep == TypeOK /\ WriteOK /\ [Next]_vars => WriteOK'
  <1> SUFFICES ASSUME TypeOK /\ WriteOK, [Next]_vars PROVE WriteOK'
    OBVIOUS
  <1>0. /\ pc \in [Sender -> Pc] /\ done \in [Sender -> Nat] /\ queue \in Seq(Sender)
        /\ ans \in [Sender -> {"none", "ok", "error", "denied", "nohal", "cut"}]
        /\ Line(queue, pc)
    BY DEF TypeOK, RequestType, SessionType, InLine, Line
  <1> USE Names DEF WriteOK
  <1>1. ASSUME NEW q \in Sender, AskLogin(q) PROVE WriteOK'
    <2>1. queue # <<>> /\ q = Head(queue) /\ UNCHANGED <<ans, controller>>
      BY <1>1 DEF AskLogin, SlotTaken, wire
    <2>2. pc[q] \in SlotPc /\ pc' = [pc EXCEPT ![q] = "asked"]
      BY <1>0, <1>1, <2>1, LineLeaves DEF AskLogin, Pc, WaitPc, SlotPc
    <2>3. QED BY <1>0, <2>1, <2>2 DEF SlotPc, controller
  <1>2. ASSUME NEW q \in Sender, SkipLogout(q) PROVE WriteOK'
    <2>1. queue # <<>> /\ q = Head(queue) /\ UNCHANGED <<ans, controller>>
      BY <1>2 DEF SkipLogout, SlotTaken, wire
    <2>2. pc[q] \in SlotPc /\ pc' = [pc EXCEPT ![q] = "idle"]
      BY <1>0, <1>2, <2>1, LineLeaves DEF SkipLogout, Pc, WaitPc, SlotPc
    <2>3. QED BY <1>0, <2>1, <2>2 DEF SlotPc, controller
  <1>3. ASSUME NEW q \in Sender, Send(q) PROVE WriteOK'
    <2>1. queue # <<>> /\ q = Head(queue) /\ ans' = [ans EXCEPT ![q] = "none"] /\ UNCHANGED controller
      BY <1>3 DEF Send, SlotTaken
    <2>2. pc[q] \in SlotPc /\ pc' = [pc EXCEPT ![q] = "wire"]
      BY <1>0, <1>3, <2>1, LineLeaves DEF Send, Pc, SlotPc
    <2>3. QED BY <1>0, <2>1, <2>2 DEF SlotPc, controller
  <1>4. ASSUME NEW q \in Sender, Serve(q) PROVE WriteOK'
    <2>1. issued \in Nat
      BY DEF TypeOK, SessionType
    <2>2. PICK a \in {"ok", "error", "denied", "nohal"}, b \in {None, issued + 1} :
            /\ pc[q] = "wire" /\ ans[q] = "none" /\ Answer(q, a, b)
            /\ issued' = IF b = None THEN issued ELSE b
            /\ alive' \subseteq IF b = None THEN alive ELSE alive \cup {b}
            /\ a = "denied" => /\ sent[q] # Credentials => sent[q] \notin alive
                              /\ alive' = alive
            /\ UNCHANGED done \/ (a = "ok" /\ Taken(q))
            /\ UNCHANGED <<client, auth, slots, pc, tries, second, sent, hal, preferXhtml>>
      BY <1>4, <2>1, Service
    <2>3. QED BY <1>0, <2>2 DEF Answer, Taken
  <1>5. ASSUME NEW q \in Sender, Adopt(q) PROVE WriteOK'
    BY <1>0, <1>5 DEF Adopt, controller
  <1>6. ASSUME NEW q \in Sender, Succeeds(q) PROVE WriteOK'
    <2>1. OffWire(q) /\ UNCHANGED controller /\ pc' = [pc EXCEPT ![q] = "idle"]
      BY <1>6 DEF Succeeds, Settled
    <2>2. QED BY <1>0, <2>1 DEF OffWire, controller
  <1>7. ASSUME NEW q \in Sender, IsRefused(q) PROVE WriteOK'
    <2>1. OffWire(q) /\ UNCHANGED controller /\ pc' = [pc EXCEPT ![q] = "idle"]
      BY <1>7 DEF IsRefused, Failed, Settled
    <2>2. QED BY <1>0, <2>1 DEF OffWire, controller
  <1>8. ASSUME NEW q \in Sender, FallBack(q) PROVE WriteOK'
    <2>1. OffWire(q) /\ UNCHANGED controller /\ pc[q] = "wire" /\ ans[q] = "nohal"
      BY <1>8 DEF FallBack, Failed, Settled, Answered
    <2>2. \A w \in Writes : w # q => pc'[w] = pc[w]
      BY <1>0, <1>8 DEF FallBack, Failed, Settled, Queued
    <2>3. QED BY <1>0, <2>1, <2>2 DEF OffWire, controller
  <1>9. ASSUME NEW q \in Sender, Denied(q) PROVE WriteOK'
    <2>1. OffWire(q) /\ UNCHANGED controller /\ pc[q] = "wire" /\ ans[q] = "denied"
      BY <1>9 DEF Denied, Failed, Settled, Answered
    <2>2. \A w \in Writes : w # q => pc'[w] = pc[w]
      BY <1>0, <1>9 DEF Denied, Failed, Settled
    <2>3. QED BY <1>0, <2>1, <2>2 DEF OffWire, controller
  <1>10. ASSUME NEW q \in Sender, TimesOut(q) PROVE WriteOK'
    <2>1. OffWire(q) /\ UNCHANGED controller /\ pc' = [pc EXCEPT ![q] = "idle"]
      BY <1>10 DEF TimesOut, Failed, Settled
    <2>2. QED BY <1>0, <2>1 DEF OffWire, controller
  <1>11. ASSUME NEW q \in Sender, Broken(q) PROVE WriteOK'
    <2>1. OffWire(q) /\ UNCHANGED controller
      BY <1>11 DEF Broken, Failed, Settled
    <2>2. CASE q \in Writes
      <3>1. pc' = [pc EXCEPT ![q] = "idle"]
        BY <1>11, <2>2 DEF Broken, SentAgain, IDEMPOTENT, Failed, Settled
      <3>2. QED BY <1>0, <2>1, <3>1 DEF OffWire, controller
    <2>3. CASE q \notin Writes
      <3>1. \A w \in Writes : pc'[w] = pc[w]
        BY <1>0, <1>11, <2>3 DEF Broken, Failed, Settled, Queued
      <3>2. QED BY <1>0, <2>1, <2>3, <3>1 DEF OffWire, controller
    <2>4. QED BY <2>2, <2>3
  <1>12. ASSUME NEW q \in Call, Start(q) PROVE WriteOK'
    BY <1>0, <1>12 DEF Start, Queued, wire
  <1>13. ASSUME NEW how, NEW gone, LoginEnded(how, gone) PROVE WriteOK'
    <2>1. OffWire("login") /\ UNCHANGED controller
      BY <1>13 DEF LoginEnded, LoginEnds
    <2>2. \A x \in Req \ Waiting : pc'[x] = pc[x]
      BY <1>13, Resumption
    <2>3. \A w \in Writes : pc'[w] = pc[w] \/ done[w] = 0
      BY <1>0, <2>2 DEF Waiting, WaitPc
    <2>4. QED BY <1>0, <2>1, <2>3 DEF OffWire, controller
  <1>14. CASE PaceElapses
    BY <1>0, <1>14 DEF PaceElapses, wire, controller
  <1>15. CASE LoginRequeued
    BY <1>0, <1>15 DEF LoginRequeued, Queued, OffWire, controller
  <1>16. CASE Connect
    BY <1>0, <1>16 DEF Connect, Queued, wire, controller
  <1>17. CASE Disconnect
    BY <1>0, <1>17 DEF Disconnect, wire, controller
  <1>18. CASE LogOut
    BY <1>0, <1>18 DEF LogOut, Queued, wire, controller
  <1>19. CASE TeardownEnds
    BY <1>0, <1>19 DEF TeardownEnds, controller
  <1>20. ASSUME NEW s \in Session, Expire(s) PROVE WriteOK'
    BY <1>0, <1>20 DEF Expire, wire
  <1>21. CASE UNCHANGED vars
    BY <1>0, <1>21 DEF vars, wire, controller
  <1>22. ASSUME NEW q \in Sender, Sleeps(q) PROVE WriteOK'
    BY <1>0, <1>22 DEF Sleeps, wire, controller
  <1> QED
    BY <1>1, <1>2, <1>3, <1>4, <1>5, <1>6, <1>7, <1>8, <1>9, <1>10, <1>11, <1>12,
       <1>13, <1>14, <1>15, <1>16, <1>17, <1>18, <1>19, <1>20, <1>21, <1>22,
       StepCases

-----------------------------------------------------------------------------
(* The pace.                                                               *)

(* What is read of the clock stays true until it is acted on.  Only the    *)
(* head of the line has read it: it sleeps while it is too early, and once *)
(* its timer has run out it is late enough, whatever the others did.       *)
PaceOK ==
    /\ rested => quiet
    /\ \A q \in asleep \cup awake : queue # <<>> /\ q = Head(queue)
    /\ asleep # {} => ~rested
    /\ awake # {} => rested

(* The line grows behind its head. *)
LEMMA JoinsBehind ==
  ASSUME queue \in Seq(Sender), PaceOK, UNCHANGED pace,
         \/ UNCHANGED queue
         \/ \E q \in Sender : queue' = Append(queue, q)
         \/ \E s \in Seq(Sender) : queue' = queue \o s
  PROVE  PaceOK'
<1>1. UNCHANGED <<rested, asleep, awake, quiet>>
  BY DEF pace
<1>2. ASSUME queue # <<>> PROVE queue' # <<>> /\ Head(queue') = Head(queue)
  <2>1. CASE UNCHANGED queue
    BY <1>2, <2>1
  <2>2. ASSUME NEW q \in Sender, queue' = Append(queue, q)
        PROVE  queue' # <<>> /\ Head(queue') = Head(queue)
    BY <1>2, <2>2, AppendProperties
  <2>3. ASSUME NEW s \in Seq(Sender), queue' = queue \o s
        PROVE  queue' # <<>> /\ Head(queue') = Head(queue)
    <3>1. Len(queue) \in Nat /\ Len(queue) > 0 /\ Len(s) \in Nat
      BY <1>2, EmptySeq
    <3>2. Len(queue') = Len(queue) + Len(s) /\ queue'[1] = queue[1] /\ queue' \in Seq(Sender)
      BY <2>3, <3>1, ConcatProperties
    <3>3. queue' # <<>>
      BY <3>1, <3>2, EmptySeq
    <3>4. QED BY <1>2, <3>2, <3>3
  <2>4. QED BY <2>1, <2>2, <2>3
<1>3. QED BY <1>1, <1>2 DEF PaceOK

(* Whoever gets its slot leaves nobody asleep or awake behind. *)
LEMMA TakesItsSlot ==
  ASSUME PaceOK, NEW q \in Sender, SlotTaken(q), quiet' \in {quiet, FALSE}
  PROVE  PaceOK' /\ quiet
<1>1. rested /\ quiet /\ asleep = {} /\ rested' = FALSE
  BY DEF PaceOK, SlotTaken
<1>2. awake' = {} /\ asleep' = {}
  BY <1>1 DEF PaceOK, SlotTaken
<1>3. QED BY <1>1, <1>2 DEF PaceOK

(* No step of another sender comes between the reading and the store.      *)
LEMMA PaceStep == TypeOK /\ PaceOK /\ [Next]_vars => PaceOK'
  <1> SUFFICES ASSUME TypeOK, PaceOK, [Next]_vars PROVE PaceOK'
    OBVIOUS
  <1>0. queue \in Seq(Sender)
    BY DEF TypeOK, RequestType
  <1>1. ASSUME NEW q \in Sender, AskLogin(q) PROVE PaceOK'
    BY <1>1, TakesItsSlot DEF AskLogin
  <1>2. ASSUME NEW q \in Sender, SkipLogout(q) PROVE PaceOK'
    BY <1>2, TakesItsSlot DEF SkipLogout
  <1>3. ASSUME NEW q \in Sender, Send(q) PROVE PaceOK'
    BY <1>3, TakesItsSlot DEF Send
  <1>4. ASSUME NEW q \in Sender, Serve(q) PROVE PaceOK'
    BY <1>0, <1>4, JoinsBehind DEF Serve, slots
  <1>5. ASSUME NEW q \in Sender, Adopt(q) PROVE PaceOK'
    BY <1>0, <1>5, JoinsBehind DEF Adopt, slots
  <1>6. ASSUME NEW q \in Sender, Succeeds(q) PROVE PaceOK'
    BY <1>0, <1>6, JoinsBehind DEF Succeeds, Settled, slots
  <1>7. ASSUME NEW q \in Sender, IsRefused(q) PROVE PaceOK'
    BY <1>0, <1>7, JoinsBehind DEF IsRefused, Failed, Settled, slots
  <1>8. ASSUME NEW q \in Sender, FallBack(q) PROVE PaceOK'
    <2>1. UNCHANGED pace /\ (UNCHANGED queue \/ \E x \in Sender : queue' = Append(queue, x))
      BY <1>8, Names DEF FallBack, Failed, Settled, Queued, slots
    <2>2. QED BY <1>0, <2>1, JoinsBehind
  <1>9. ASSUME NEW q \in Sender, Denied(q) PROVE PaceOK'
    <2>1. UNCHANGED pace /\ (UNCHANGED queue \/ \E x \in Sender : queue' = Append(queue, x))
      BY <1>9, Names DEF Denied, Failed, Settled, slots
    <2>2. QED BY <1>0, <2>1, JoinsBehind
  <1>10. ASSUME NEW q \in Sender, TimesOut(q) PROVE PaceOK'
    BY <1>0, <1>10, JoinsBehind DEF TimesOut, Failed, Settled, slots
  <1>11. ASSUME NEW q \in Sender, Broken(q) PROVE PaceOK'
    <2>1. UNCHANGED pace /\ (UNCHANGED queue \/ \E x \in Sender : queue' = Append(queue, x))
      BY <1>11, Names DEF Broken, Failed, Settled, Queued, slots
    <2>2. QED BY <1>0, <2>1, JoinsBehind
  <1>12. ASSUME NEW q \in Call, Start(q) PROVE PaceOK'
    <2>1. UNCHANGED pace /\ (UNCHANGED queue \/ \E x \in Sender : queue' = Append(queue, x))
      BY <1>12, Names DEF Start, Queued, slots
    <2>2. QED BY <1>0, <2>1, JoinsBehind
  <1>13. ASSUME NEW how, NEW gone, LoginEnded(how, gone) PROVE PaceOK'
    <2>1. UNCHANGED pace
      BY <1>13 DEF LoginEnded, LoginEnds
    <2> DEFINE S == {q \in Waiting \cup {"login"} : pc'[q] \in SlotPc}
    <2>2. PICK s \in SetToSeqs(S) : queue' = queue \o s
      BY <1>13, Resumption
    <2>3. S \subseteq Req \cup {"login"} /\ IsFiniteSet(Req \cup {"login"})
      BY RequestsAreFinite, FS_Singleton, FS_Union DEF Waiting
    <2>4. IsFiniteSet(S) /\ S \subseteq Sender
      BY <2>3, FS_Subset, Names
    <2> HIDE DEF S
    <2>5. s \in Seq(Sender)
      BY <2>4, OrderOf
    <2>6. QED BY <1>0, <2>1, <2>2, <2>5, JoinsBehind
  <1>14. CASE PaceElapses
    BY <1>14 DEF PaceElapses, PaceOK
  <1>15. CASE LoginRequeued
    BY <1>0, <1>15, Names, JoinsBehind DEF LoginRequeued, Queued
  <1>16. CASE Connect
    BY <1>0, <1>16, Names, JoinsBehind DEF Connect, Queued
  <1>17. CASE Disconnect
    BY <1>0, <1>17, JoinsBehind DEF Disconnect, slots
  <1>18. CASE LogOut
    BY <1>0, <1>18, Names, JoinsBehind DEF LogOut, Queued, slots
  <1>19. CASE TeardownEnds
    BY <1>0, <1>19, JoinsBehind DEF TeardownEnds, slots
  <1>20. ASSUME NEW s \in Session, Expire(s) PROVE PaceOK'
    BY <1>0, <1>20, JoinsBehind DEF Expire, slots
  <1>21. CASE UNCHANGED vars
    BY <1>0, <1>21, JoinsBehind DEF vars, slots
  <1>22. ASSUME NEW q \in Sender, Sleeps(q) PROVE PaceOK'
    BY <1>22 DEF Sleeps, Released, PaceOK
  <1> QED
    BY <1>1, <1>2, <1>3, <1>4, <1>5, <1>6, <1>7, <1>8, <1>9, <1>10, <1>11, <1>12,
       <1>13, <1>14, <1>15, <1>16, <1>17, <1>18, <1>19, <1>20, <1>21, <1>22,
       StepCases

-----------------------------------------------------------------------------
(* Who waits for the login.                                                *)

(* The login waits for a slot and for the answer only, and whoever waits   *)
(* for it has it on its way.                                               *)
WaitOK ==
    /\ pc["login"] \notin WaitPc
    /\ Waiting # {} => relogin

(* One sender that does not begin to wait changes nothing for the others,  *)
(* unless it is the login that ends.                                       *)
LEMMA NobodyJoins ==
  ASSUME pc \in [Sender -> Pc], WaitOK, NEW q \in Sender, NEW p,
         p \notin WaitPc, q = "login" => p # "idle", pc' = [pc EXCEPT ![q] = p]
  PROVE  WaitOK'
<1>1. pc'["login"] \notin WaitPc
  BY Names DEF WaitOK
<1>2. Waiting' \subseteq Waiting
  BY Names DEF Waiting
<1>3. relogin => relogin'
  BY Names DEF relogin
<1>4. QED BY <1>1, <1>2, <1>3 DEF WaitOK

(* Nobody waits for a login that is over. *)
LEMMA WaitStep == TypeOK /\ WaitOK /\ [Next]_vars => WaitOK'
  <1> SUFFICES ASSUME TypeOK /\ WaitOK, [Next]_vars PROVE WaitOK'
    OBVIOUS
  <1>0. pc \in [Sender -> Pc] /\ WaitOK
    BY DEF TypeOK, RequestType
  <1>a. pc' = pc => WaitOK'
    BY DEF WaitOK, Waiting, relogin
  <1>b. /\ "idle" \notin WaitPc /\ "wire" \notin WaitPc
        /\ \A p \in SlotPc : p \notin WaitPc /\ p # "idle"
    BY DEF WaitPc, SlotPc
  <1>1. ASSUME NEW q \in Sender, AskLogin(q) PROVE WaitOK'
    <2>1. q # "login" /\ relogin /\ pc' = [pc EXCEPT ![q] = "asked"]
      BY <1>1 DEF AskLogin, MustWait
    <2>2. pc'["login"] = pc["login"]
      BY <1>0, <2>1, Names
    <2>3. QED BY <1>0, <2>1, <2>2 DEF WaitOK, relogin
  <1>2. ASSUME NEW q \in Sender, SkipLogout(q) PROVE WaitOK'
    <2>1. pc' = [pc EXCEPT ![q] = "idle"] /\ q # "login"
      BY <1>2 DEF SkipLogout, NoSession
    <2>2. QED BY <1>0, <1>b, <2>1, NobodyJoins
  <1>3. ASSUME NEW q \in Sender, Send(q) PROVE WaitOK'
    <2>1. pc' = [pc EXCEPT ![q] = "wire"]
      BY <1>3 DEF Send
    <2>2. QED BY <1>0, <1>b, <2>1, NobodyJoins
  <1>4. ASSUME NEW q \in Sender, Serve(q) PROVE WaitOK'
    BY <1>a, <1>4 DEF Serve
  <1>5. ASSUME NEW q \in Sender, Adopt(q) PROVE WaitOK'
    BY <1>a, <1>5 DEF Adopt
  <1>c. ASSUME NEW q \in Req, Settled(q) PROVE WaitOK'
    <2>1. pc' = [pc EXCEPT ![q] = "idle"] /\ q # "login" /\ q \in Sender
      BY <1>c, Names DEF Settled
    <2>2. QED BY <1>0, <1>b, <2>1, NobodyJoins
  <1>d. ASSUME NEW q \in Sender, NEW p \in SlotPc, Queued(q, p) PROVE WaitOK'
    <2>1. pc' = [pc EXCEPT ![q] = p]
      BY <1>d DEF Queued
    <2>2. QED BY <1>0, <1>b, <2>1, NobodyJoins
  <1>6. ASSUME NEW q \in Sender, Succeeds(q) PROVE WaitOK'
    BY <1>6, <1>c DEF Succeeds
  <1>7. ASSUME NEW q \in Sender, IsRefused(q) PROVE WaitOK'
    BY <1>7, <1>c DEF IsRefused, Failed
  <1>8. ASSUME NEW q \in Sender, FallBack(q) PROVE WaitOK'
    <2>1. q \in Req /\ (Settled(q) \/ Queued(q, "slot"))
      BY <1>8 DEF FallBack, Failed
    <2>2. QED BY <1>c, <1>d, <2>1 DEF SlotPc
  <1>9. ASSUME NEW q \in Sender, Denied(q) PROVE WaitOK'
    <2>1. q \in Req /\ q # "login"
      BY <1>9, Names DEF Denied
    <2>2. CASE Settled(q)
      BY <1>c, <2>1, <2>2
    <2>3. CASE relogin /\ pc' = [pc EXCEPT ![q] = "gone"]
      <3>1. pc'["login"] = pc["login"]
        BY <1>0, <2>1, <2>3, Names
      <3>2. QED BY <1>0, <2>3, <3>1 DEF WaitOK, relogin
    <2>4. CASE pc' = [pc EXCEPT ![q] = "gone", !["login"] = "slot"]
      <3>1. pc'["login"] = "slot"
        BY <1>0, <2>4, Names
      <3>2. QED BY <3>1 DEF WaitOK, relogin, WaitPc
    <2>5. QED BY <1>9, <2>2, <2>3, <2>4 DEF Denied, Failed
  <1>10. ASSUME NEW q \in Sender, TimesOut(q) PROVE WaitOK'
    BY <1>10, <1>c DEF TimesOut, Failed
  <1>11. ASSUME NEW q \in Sender, Broken(q) PROVE WaitOK'
    <2>1. q \in Req /\ (Settled(q) \/ Queued(q, "again"))
      BY <1>11 DEF Broken, Failed
    <2>2. QED BY <1>c, <1>d, <2>1 DEF SlotPc
  <1>12. ASSUME NEW q \in Call, Start(q) PROVE WaitOK'
    <2>1. q \in Sender /\ Queued(q, "slot")
      BY <1>12, Names DEF Start
    <2>2. QED BY <1>d, <2>1 DEF SlotPc
  <1>13. ASSUME NEW how, NEW gone, LoginEnded(how, gone) PROVE WaitOK'
    <2>1. /\ pc'["login"] \in {"idle", "slot"}
          /\ \A x \in Req \ Waiting : pc'[x] = pc[x]
          /\ \A x \in Waiting : pc'[x] \in SlotPc \cup {"idle", "gone"}
      BY <1>13, Resumption
    <2>2. pc'["login"] \notin WaitPc
      BY <2>1 DEF WaitPc
    <2>3. ASSUME NEW x \in Req, pc'[x] \in WaitPc PROVE pc'["login"] = "slot"
      <3>1. x \in Waiting
        BY <2>1, <2>3 DEF Waiting
      <3>2. pc'[x] = "gone"
        BY <2>1, <2>3, <3>1, <1>b
      <3>3. QED BY <1>13, <3>1, <3>2, Names DEF LoginEnded, LoginEnds, Waiting
    <2>4. Waiting' # {} => relogin'
      BY <2>3 DEF Waiting, relogin
    <2>5. QED BY <2>2, <2>4 DEF WaitOK
  <1>14. CASE PaceElapses
    BY <1>a, <1>14 DEF PaceElapses
  <1>15. CASE LoginRequeued
    BY <1>d, <1>15, Names DEF LoginRequeued, SlotPc
  <1>16. CASE Connect
    BY <1>d, <1>16, Names DEF Connect, SlotPc
  <1>17. CASE Disconnect
    BY <1>a, <1>17 DEF Disconnect
  <1>18. CASE LogOut
    <2>1. pc' = pc \/ Queued("logout", "slot")
      BY <1>18 DEF LogOut
    <2>2. QED BY <1>a, <1>d, <2>1, Names DEF SlotPc
  <1>19. CASE TeardownEnds
    BY <1>a, <1>19 DEF TeardownEnds
  <1>20. ASSUME NEW s \in Session, Expire(s) PROVE WaitOK'
    BY <1>a, <1>20 DEF Expire
  <1>21. CASE UNCHANGED vars
    BY <1>a, <1>21 DEF vars
  <1>22. ASSUME NEW q \in Sender, Sleeps(q) PROVE WaitOK'
    BY <1>a, <1>22 DEF Sleeps
  <1> QED
    BY <1>1, <1>2, <1>3, <1>4, <1>5, <1>6, <1>7, <1>8, <1>9, <1>10, <1>11, <1>12,
       <1>13, <1>14, <1>15, <1>16, <1>17, <1>18, <1>19, <1>20, <1>21, <1>22,
       StepCases

-----------------------------------------------------------------------------
(* The theorems.                                                           *)

Inv == TypeOK /\ TornDown /\ CookieOK /\ WriteOK /\ PaceOK /\ WaitOK

(* The invariant holds before connect(). *)
LEMMA InitInv == Init => Inv
<1> SUFFICES ASSUME Init PROVE Inv
  OBVIOUS
<1>1. TypeOK
  <2>1. FlagType /\ SessionType
    BY DEF Init, FlagType, SessionType, None
  <2>2. RequestType
    BY DEF Init, RequestType, Pc, None, Credentials
  <2>3. DOMAIN queue = {} /\ \A q \in Sender : pc[q] = "idle"
    BY DEF Init
  <2>4. QED BY <2>1, <2>2, <2>3 DEF TypeOK, InLine, SlotPc
<1>2. TornDown
  BY Names DEF Init, TornDown, LogoutOnce, LogoutLast, SlotPc
<1>3. CookieOK
  BY DEF Init, CookieOK, GoneIsGone, None, Credentials
<1>4. WriteOK
  BY Names DEF Init, WriteOK
<1>5. PaceOK
  BY DEF Init, PaceOK
<1>6. WaitOK
  BY Names DEF Init, WaitOK, Waiting, WaitPc
<1>7. QED BY <1>1, <1>2, <1>3, <1>4, <1>5, <1>6 DEF Inv

(* Every step of the client, the controller and the network keeps it. *)
LEMMA Invariance == Spec => []Inv
<1>1. Inv /\ [Next]_vars => Inv'
  <2> SUFFICES ASSUME Inv, [Next]_vars PROVE Inv'
    OBVIOUS
  <2>1. TypeOK'
    BY FlagStep, LineStep DEF Inv, TypeOK, TornDown
  <2>2. QED BY <2>1, TeardownStep, CookieStep, WriteStep, PaceStep, WaitStep DEF Inv
<1>2. QED BY <1>1, InitInv, PTL DEF Spec

(* The state of the session is well typed, and exactly the senders that    *)
(* wait for a request slot are in line for one: takeRequestSlot's chain    *)
(* neither loses nor repeats a request.                                    *)
THEOREM SessionTypes == Spec => []TypeOK
<1>1. Inv => TypeOK
  BY DEF Inv
<1>2. QED BY <1>1, Invariance, PTL

(* noteSessionGone() never gives up a session the controller still knows. *)
THEOREM OnlyAGoneSessionIsGivenUp == Spec => []GoneIsGone
<1>1. Inv => GoneIsGone
  BY DEF Inv, CookieOK
<1>2. QED BY <1>1, Invariance, PTL

(* No login, fallback or retry sends a write the controller has taken.     *)
THEOREM NoWriteTwice == Spec => []WrittenOnce
<1>1. Inv => WrittenOnce
  BY DEF Inv, WriteOK, WrittenOnce
<1>2. QED BY <1>1, Invariance, PTL

(* A request goes on the wire when it gets its slot. *)
LEMMA SendsFromLine ==
  ASSUME TypeOK, [Next]_vars, NEW q \in Sender, Sends(q)
  PROVE  \E x \in Sender : Send(x)
<1>0. pc \in [Sender -> Pc] /\ pc[q] # "wire" /\ pc'[q] = "wire"
  BY DEF TypeOK, RequestType, Sends
<1>1. ASSUME NEW x \in Sender, AskLogin(x) PROVE FALSE
  BY <1>0, <1>1, Names DEF AskLogin
<1>2. ASSUME NEW x \in Sender, SkipLogout(x) PROVE FALSE
  BY <1>0, <1>2, Names DEF SkipLogout
<1>3. ASSUME NEW x \in Sender, Sleeps(x) PROVE FALSE
  BY <1>0, <1>3 DEF Sleeps
<1>4. ASSUME NEW x \in Sender, Serve(x) PROVE FALSE
  BY <1>0, <1>4, Names DEF Serve
<1>5. ASSUME NEW x \in Sender, Adopt(x) PROVE FALSE
  BY <1>0, <1>5, Names DEF Adopt
<1>6. ASSUME NEW x \in Sender, Succeeds(x) PROVE FALSE
  BY <1>0, <1>6, Names DEF Succeeds, Settled
<1>7. ASSUME NEW x \in Sender, IsRefused(x) PROVE FALSE
  BY <1>0, <1>7, Names DEF IsRefused, Failed, Settled
<1>8. ASSUME NEW x \in Sender, FallBack(x) PROVE FALSE
  BY <1>0, <1>8, Names DEF FallBack, Failed, Settled, Queued
<1>9. ASSUME NEW x \in Sender, Denied(x) PROVE FALSE
  BY <1>0, <1>9, Names DEF Denied, Failed, Settled
<1>10. ASSUME NEW x \in Sender, TimesOut(x) PROVE FALSE
  BY <1>0, <1>10, Names DEF TimesOut, Failed, Settled
<1>11. ASSUME NEW x \in Sender, Broken(x) PROVE FALSE
  BY <1>0, <1>11, Names DEF Broken, Failed, Settled, Queued
<1>12. ASSUME NEW x \in Call, Start(x) PROVE FALSE
  BY <1>0, <1>12, Names DEF Start, Queued
<1>13. ASSUME NEW how, NEW gone, LoginEnded(how, gone) PROVE FALSE
  <2>1. /\ pc'["login"] \in {"idle", "slot"} /\ \A x \in Req \ Waiting : pc'[x] = pc[x]
        /\ \A x \in Waiting : pc'[x] \in SlotPc \cup {"idle", "gone"}
    BY <1>13, Resumption
  <2>2. QED BY <1>0, <2>1 DEF Sender, SlotPc
<1>14. CASE PaceElapses
  BY <1>0, <1>14, Names DEF PaceElapses
<1>15. CASE LoginRequeued
  BY <1>0, <1>15, Names DEF LoginRequeued, Queued
<1>16. CASE Connect
  BY <1>0, <1>16, Names DEF Connect, Queued
<1>17. CASE Disconnect
  BY <1>0, <1>17, Names DEF Disconnect
<1>18. CASE LogOut
  BY <1>0, <1>18, Names DEF LogOut, Queued
<1>19. CASE TeardownEnds
  BY <1>0, <1>19, Names DEF TeardownEnds
<1>20. ASSUME NEW s \in Session, Expire(s) PROVE FALSE
  BY <1>0, <1>20 DEF Expire
<1>21. CASE UNCHANGED vars
  BY <1>0, <1>21 DEF vars
<1>22. QED
  BY <1>1, <1>2, <1>3, <1>4, <1>5, <1>6, <1>7, <1>8, <1>9, <1>10, <1>11, <1>12,
     <1>13, <1>14, <1>15, <1>16, <1>17, <1>18, <1>19, <1>20, <1>21, StepCases

(* Once /logout is on the wire, or was not needed, a closed client sends   *)
(* nothing.                                                                *)
THEOREM LogoutIsLast == Spec => NothingAfterLogout
<1>1. ASSUME Inv, [Next]_vars, closed, pc["logout"] \in {"wire", "idle"}, NEW q \in Sender
      PROVE  ~Sends(q)
  <2>1. queue = <<>>
    BY <1>1 DEF Inv, TornDown, LogoutLast, SlotPc
  <2>2. QED BY <1>1, <2>1, SendsFromLine DEF Inv, Send, SlotTaken
<1>2. Inv /\ [Next]_vars =>
        [closed /\ pc["logout"] \in {"wire", "idle"} => \A q \in Sender : ~Sends(q)]_vars
  BY <1>1
<1>3. QED BY <1>2, Invariance, PTL DEF Spec, NothingAfterLogout

(* Any two requests are MIN_MS apart, although a sender reads the clock,   *)
(* sleeps, and stores and sends without reading it again: nobody else      *)
(* stores in between, because only the head of the chain reads.            *)
THEOREM RequestsArePaced == Spec => PacedSends
<1>1. ASSUME Inv, [Next]_vars, NEW q \in Sender, Sends(q) PROVE quiet
  <2>1. PICK x \in Sender : Send(x)
    BY <1>1, SendsFromLine DEF Inv
  <2>2. SlotTaken(x) /\ quiet' = FALSE
    BY <2>1 DEF Send
  <2>3. QED BY <1>1, <2>2, TakesItsSlot DEF Inv
<1>2. Inv /\ [Next]_vars => [\A q \in Sender : Sends(q) => quiet]_vars
  BY <1>1
<1>3. QED BY <1>2, Invariance, PTL DEF Spec, PacedSends

(* Whoever waits for the login after a 401 has one that waits for nobody:  *)
(* it takes its own slot and never passes waitForLogin().  As long as one  *)
(* request has not settled, the line has a head or a request is out.       *)
THEOREM NobodyWaitsInACircle == Spec => []SomebodyGoesOn
<1>1. ASSUME Inv PROVE SomebodyGoesOn
  <2>1. pc \in [Sender -> Pc] /\ InLine /\ WaitOK
    BY <1>1 DEF Inv, TypeOK, RequestType
  <2>2. LoginWaitsForNobody
    BY <2>1, Names DEF LoginWaitsForNobody, WaitOK, Waiting, relogin, Pc
  <2>3. ASSUME NEW q \in Sender, pc[q] \in SlotPc PROVE queue # <<>>
    BY <2>1, <2>3 DEF InLine
  <2>4. ASSUME NEW q \in Sender, pc[q] # "idle"
        PROVE  queue # <<>> \/ \E x \in Sender : pc[x] = "wire"
    <3>1. CASE pc[q] \in SlotPc \cup {"wire"}
      BY <2>3, <3>1
    <3>2. CASE pc[q] \in WaitPc
      <4>1. q \in Req
        BY <2>1, <3>2 DEF WaitOK, Sender
      <4>2. pc["login"] \in SlotPc \cup {"wire"} /\ "login" \in Sender
        BY <2>2, <3>2, <4>1, Names DEF LoginWaitsForNobody
      <4>3. QED BY <2>3, <4>2
    <3>3. QED BY <2>1, <2>4, <3>1, <3>2 DEF Pc
  <2>5. QED BY <2>2, <2>4 DEF SomebodyGoesOn
<1>2. QED BY <1>1, Invariance, PTL

============================================================================
