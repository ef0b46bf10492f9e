------------------------- MODULE MotionControlProofs -------------------------
(***************************************************************************)
(* The allowance of one caller, for every number of other calls and of     *)
(* re-issued sessions: what stands is counted, and what is left is told.   *)
(***************************************************************************)
EXTENDS MotionControl, SequenceTheorems, TLAPS

\* Requests keep their order on the connection, and one caller at most sets the allowance.  With
\* overtaking POSTs, or with a second setter, an allowance that stands can be forgotten.
OneSetter == ~Overtaking /\ \A p, q \in Setters : p = q

Message == [who : Routines \cup {"withdrawal", "nobody"}, allow : BOOLEAN]
Fields == [registered : BOOLEAN, known : {"unknown", "yes", "no"}, declared : BOOLEAN,
           unanswered : BOOLEAN, checking : BOOLEAN, covered : BOOLEAN,
           latest : Routines \cup {"withdrawal", "nobody"}]
Routine == [at : Places, kind : Kinds, second : BOOLEAN, before : BOOLEAN,
            answer : Answers, withdrawn : BOOLEAN, seen : BOOLEAN]
Withdrawal == [at : {"off", "register", "post"}, trigger : {"disconnect", "registration", "leftover", "reissue"},
               second : BOOLEAN, covers : BOOLEAN, answer : Answers]

-----------------------------------------------------------------------------
(* Sequences. *)

LEMMA Appended ==
    ASSUME NEW S, NEW s \in Seq(S), NEW e \in S
    PROVE  /\ Append(s, e) \in Seq(S)
           /\ Len(Append(s, e)) = Len(s) + 1 /\ Len(s) \in Nat
           /\ DOMAIN Append(s, e) = 1 .. Len(s) + 1 /\ DOMAIN s = 1 .. Len(s)
           /\ \A i \in 1 .. Len(s) : Append(s, e)[i] = s[i]
           /\ Append(s, e)[Len(s) + 1] = e
  OBVIOUS

LEMMA Removed ==
    ASSUME NEW S, NEW s \in Seq(S), NEW i \in DOMAIN s
    PROVE  /\ RemoveAt(s, i) \in Seq(S)
           /\ DOMAIN s = 1 .. Len(s) /\ Len(s) \in Nat /\ Len(s) > 0
           /\ Len(RemoveAt(s, i)) = Len(s) - 1
           /\ DOMAIN RemoveAt(s, i) = 1 .. Len(s) - 1
           /\ \A j \in 1 .. Len(s) - 1 : RemoveAt(s, i)[j] = s[IF j < i THEN j ELSE j + 1]
  <1>1. DOMAIN s = 1 .. Len(s) /\ Len(s) \in Nat /\ i \in 1 .. Len(s)
    OBVIOUS
  <1> DEFINE a == SubSeq(s, 1, i - 1)
             b == SubSeq(s, i + 1, Len(s))
  <1>2. a \in Seq(S) /\ Len(a) = i - 1 /\ \A j \in 1 .. i - 1 : a[j] = s[j]
    BY <1>1
  <1>3. b \in Seq(S) /\ Len(b) = Len(s) - i /\ \A j \in 1 .. Len(s) - i : b[j] = s[i + j]
    BY <1>1
  <1>4. RemoveAt(s, i) = a \o b
    BY DEF RemoveAt
  <1> HIDE DEF a, b
  <1> DEFINE c == a \o b
  <1>5. /\ c \in Seq(S) /\ Len(c) = Len(a) + Len(b)
        /\ \A j \in 1 .. Len(a) + Len(b) : c[j] = IF j <= Len(a) THEN a[j] ELSE b[j - Len(a)]
    BY <1>2, <1>3, ConcatProperties
  <1> HIDE DEF c
  <1>6. ASSUME NEW j \in 1 .. Len(s) - 1
        PROVE  c[j] = s[IF j < i THEN j ELSE j + 1]
    <2>1. CASE j < i
      BY <1>1, <1>2, <1>3, <1>5, <2>1
    <2>2. CASE ~(j < i)
      <3>1. j - (i - 1) \in 1 .. Len(s) - i /\ i + (j - (i - 1)) = j + 1
        BY <1>1, <2>2
      <3>2. b[j - (i - 1)] = s[j + 1]
        BY <1>1, <1>3, <3>1
      <3>3. c[j] = b[j - (i - 1)]
        BY <1>1, <1>2, <1>3, <1>5, <2>2
      <3> QED
        BY <2>2, <3>2, <3>3
    <2> QED
      BY <2>1, <2>2
  <1>7. DOMAIN c = 1 .. Len(s) - 1 /\ Len(c) = Len(s) - 1
    BY <1>1, <1>2, <1>3, <1>5
  <1>8. RemoveAt(s, i) = c
    BY <1>4 DEF c
  <1>9. \A j \in 1 .. Len(s) - 1 : c[j] = s[IF j < i THEN j ELSE j + 1]
    BY <1>6
  <1>10. Len(s) > 0
    BY <1>1
  <1> QED
    BY <1>1, <1>5, <1>7, <1>8, <1>9, <1>10, Zenon

LEMMA AbandonedPosts ==
    ASSUME posts \in Seq(Message), NEW who
    PROVE  /\ Abandoned(who) \in Seq(Message)
           /\ Len(Abandoned(who)) = Len(posts) /\ DOMAIN Abandoned(who) = DOMAIN posts
           /\ \A i \in DOMAIN posts :
                 /\ Abandoned(who)[i].allow = posts[i].allow
                 /\ Abandoned(who)[i].who = IF posts[i].who = who THEN "nobody" ELSE posts[i].who
  <1>1. DOMAIN posts = 1 .. Len(posts) /\ Len(posts) \in Nat
    OBVIOUS
  <1>2. \A i \in DOMAIN posts : posts[i] \in Message
    OBVIOUS
  <1>3. \A i \in DOMAIN posts :
          /\ Abandoned(who)[i] \in Message
          /\ Abandoned(who)[i].allow = posts[i].allow
          /\ Abandoned(who)[i].who = IF posts[i].who = who THEN "nobody" ELSE posts[i].who
    BY <1>2 DEF Abandoned, Message
  <1>4. Abandoned(who) = [i \in 1 .. Len(posts) |-> Abandoned(who)[i]]
    BY <1>1 DEF Abandoned
  <1>5. Abandoned(who) \in Seq(Message) /\ Len(Abandoned(who)) = Len(posts)
    BY <1>1, <1>3, <1>4
  <1> QED
    BY <1>1, <1>3, <1>5

-----------------------------------------------------------------------------
(* The records. *)

WhoIsIt == Routines \cup {"withdrawal", "nobody"}

\* m has the value of n in the fields that the argument is about
SameCount(m, n) == m.declared = n.declared /\ m.unanswered = n.unanswered
SameNumber(m, n) == m.latest = n.latest /\ m.covered = n.covered

LEMMA CountsUnansweredIs ==
    ASSUME NEW m \in Fields
    PROVE  /\ CountsUnanswered(m) \in Fields /\ SameNumber(CountsUnanswered(m), m)
           /\ CountsUnanswered(m).declared = m.declared /\ CountsUnanswered(m).unanswered = TRUE
           /\ CountsUnanswered(m).registered = m.registered
  BY DEF CountsUnanswered, Fields, SameNumber

LEMMA AllowanceEndedIs ==
    ASSUME NEW m \in Fields
    PROVE  /\ AllowanceEnded(m) \in Fields /\ SameNumber(AllowanceEnded(m), m)
           /\ AllowanceEnded(m).declared = FALSE /\ AllowanceEnded(m).unanswered = FALSE
           /\ AllowanceEnded(m).registered = m.registered
  BY DEF AllowanceEnded, Fields, SameNumber

LEMMA NumberedIs ==
    ASSUME NEW m \in Fields, NEW w \in WhoIsIt
    PROVE  /\ Numbered(m, w) \in Fields /\ SameCount(Numbered(m, w), m)
           /\ Numbered(m, w).latest = w /\ Numbered(m, w).covered = FALSE
           /\ Numbered(m, w).registered = m.registered
  BY DEF Numbered, Fields, SameCount, WhoIsIt

\* The fields that count nothing.
LEMMA OtherFields ==
    ASSUME NEW m \in Fields
    PROVE  /\ \A k \in {"unknown", "yes", "no"} :
                 LET n == [m EXCEPT !.known = k]
                 IN  n \in Fields /\ SameCount(n, m) /\ SameNumber(n, m) /\ n.registered = m.registered
           /\ \A b \in BOOLEAN :
                 LET n == [m EXCEPT !.checking = b]
                 IN  n \in Fields /\ SameCount(n, m) /\ SameNumber(n, m) /\ n.registered = m.registered
           /\ \A b \in BOOLEAN :
                 LET n == [m EXCEPT !.registered = b]
                 IN  n \in Fields /\ SameCount(n, m) /\ SameNumber(n, m) /\ n.registered = b
           /\ \A b \in BOOLEAN :
                 LET n == [m EXCEPT !.declared = b]
                 IN  n \in Fields /\ n.declared = b /\ n.unanswered = m.unanswered
                     /\ SameNumber(n, m) /\ n.registered = m.registered
           /\ \A b \in BOOLEAN :
                 LET n == [m EXCEPT !.covered = b]
                 IN  n \in Fields /\ SameCount(n, m) /\ n.latest = m.latest /\ n.covered = b
                     /\ n.registered = m.registered
  BY DEF Fields, SameCount, SameNumber

\* A read that is noted either changes nothing that counts, or ends the count: it read false, no
\* call is in flight and no POST true is without its answer.
Ending(m, n, enabled) ==
    /\ ~enabled /\ flying = {} /\ ~m.unanswered /\ m.registered
    /\ n.declared = FALSE /\ n.unanswered = FALSE

LEMMA NotedIs ==
    ASSUME NEW m \in Fields, NEW enabled \in BOOLEAN
    PROVE  /\ Noted(m, enabled) \in Fields
           /\ SameNumber(Noted(m, enabled), m) /\ Noted(m, enabled).registered = m.registered
           /\ SameCount(Noted(m, enabled), m) \/ Ending(m, Noted(m, enabled), enabled)
  <1> DEFINE n == IF ~enabled /\ flying = {} /\ ~m.unanswered THEN AllowanceEnded(m) ELSE m
             k == IF enabled THEN "yes" ELSE "no"
             r == [n EXCEPT !.known = k]
  <1>1. n \in Fields /\ SameNumber(n, m) /\ n.registered = m.registered
    BY AllowanceEndedIs DEF SameNumber
  <1>2. SameCount(n, m) \/ (~enabled /\ flying = {} /\ ~m.unanswered /\ n.declared = FALSE /\ n.unanswered = FALSE)
    BY AllowanceEndedIs DEF SameCount
  <1> HIDE DEF n
  <1>3. k \in {"unknown", "yes", "no"}
    OBVIOUS
  <1> HIDE DEF k
  <1>4. r \in Fields /\ SameCount(r, n) /\ SameNumber(r, n) /\ r.registered = n.registered
    BY <1>1, <1>3 DEF Fields, SameCount, SameNumber
  <1>5. NoteAllowanceRead(m, enabled) = m \/ NoteAllowanceRead(m, enabled) = r
    BY DEF NoteAllowanceRead, n, k
  <1> HIDE DEF r
  <1>6. Noted(m, enabled) = m \/ (m.registered /\ Noted(m, enabled) = r)
    BY <1>5 DEF Noted
  <1>7. CASE Noted(m, enabled) = m
    BY <1>7 DEF SameNumber, SameCount
  <1>8. CASE m.registered /\ Noted(m, enabled) = r
    BY <1>1, <1>2, <1>4, <1>8 DEF SameNumber, SameCount, Ending
  <1> QED
    BY <1>6, <1>7, <1>8

-----------------------------------------------------------------------------
(* Types. *)

Runs == [Routines -> Routine]
NamesType ==
    /\ phase \in {"open", "closing", "closed"}
    /\ manager \in Steps /\ teardown \in Steps
    /\ stray \in BOOLEAN /\ station \in BOOLEAN /\ gone \in BOOLEAN /\ told \in BOOLEAN
    /\ allowed \in {"no", "own", "left"}

LEMMA TypeParts ==
    TypeOK <=> /\ NamesType /\ me \in Fields /\ run \in Runs /\ flying \subseteq Calls
               /\ wd \in Withdrawal /\ posts \in Seq(Message)
  BY DEF TypeOK, NamesType, Fields, Runs, Routine, Withdrawal, Message

LEMMA TypePartsNext ==
    TypeOK' <=> /\ NamesType' /\ me' \in Fields /\ run' \in Runs /\ flying' \subseteq Calls
                /\ wd' \in Withdrawal /\ posts' \in Seq(Message)
  BY DEF TypeOK, NamesType, Fields, Runs, Routine, Withdrawal, Message

LEMMA RoutineTypes ==
    ASSUME run \in Runs, NEW p \in Routines
    PROVE  /\ Idle \in Routine /\ [run EXCEPT ![p] = Idle] \in Runs
           /\ \A place \in Places, b \in BOOLEAN : [run EXCEPT ![p].at = place, ![p].seen = b] \in Runs
           /\ \A place \in Places, a \in Answers : [run EXCEPT ![p].at = place, ![p].answer = a] \in Runs
           /\ \A place \in Places, a \in Answers :
                 [run EXCEPT ![p].at = place, ![p].second = TRUE, ![p].answer = a] \in Runs
  <1>1. run[p] \in Routine /\ Idle \in Routine
    BY DEF Runs, Routine, Idle, Places, Kinds, Answers
  <1>2. \A r \in Routine : [run EXCEPT ![p] = r] \in Runs
    BY DEF Runs
  <1>3. ASSUME NEW place \in Places, NEW b \in BOOLEAN
        PROVE  [run EXCEPT ![p].at = place, ![p].seen = b] \in Runs
    <2>1. [run[p] EXCEPT !.at = place, !.seen = b] \in Routine
      BY <1>1 DEF Routine
    <2> QED
      BY <2>1 DEF Runs
  <1>4. ASSUME NEW place \in Places, NEW a \in Answers
        PROVE  [run EXCEPT ![p].at = place, ![p].answer = a] \in Runs
    <2>1. [run[p] EXCEPT !.at = place, !.answer = a] \in Routine
      BY <1>1 DEF Routine
    <2> QED
      BY <2>1 DEF Runs
  <1>5. ASSUME NEW place \in Places, NEW a \in Answers
        PROVE  [run EXCEPT ![p].at = place, ![p].second = TRUE, ![p].answer = a] \in Runs
    <2>1. [run[p] EXCEPT !.at = place, !.second = TRUE, !.answer = a] \in Routine
      BY <1>1 DEF Routine
    <2> QED
      BY <2>1 DEF Runs
  <1> QED
    BY <1>1, <1>2, <1>3, <1>4, <1>5

LEMMA GoesType ==
    ASSUME run \in Runs, NEW p \in Routines, NEW place \in Places
    PROVE  (Goes(p, place) => run' \in Runs) /\ (Ended(p) => run' \in Runs)
  <1>1. (Overtaking /\ Reads) \in BOOLEAN
    BY DEF Reads
  <1> DEFINE seen == Overtaking /\ Reads
  <1>2. ASSUME Goes(p, place) PROVE run' \in Runs
    <2>1. run' = [run EXCEPT ![p].at = place, ![p].seen = seen] /\ seen \in BOOLEAN
      BY <1>1, <1>2 DEF Goes
    <2> HIDE DEF seen
    <2> QED
      BY <2>1, RoutineTypes
  <1>3. ASSUME Ended(p) PROVE run' \in Runs
    BY <1>3, RoutineTypes DEF Ended
  <1> QED
    BY <1>2, <1>3

LEMMA OffType == Off \in Withdrawal
  BY DEF Off, Withdrawal, Answers

LEMMA SendWithdrawalType ==
    ASSUME posts \in Seq(Message), NEW m \in Fields, NEW w \in Withdrawal, SendWithdrawal(m, w)
    PROVE  me' \in Fields /\ wd' \in Withdrawal /\ posts' \in Seq(Message)
  <1>1. me' \in Fields
    BY NumberedIs DEF SendWithdrawal, WhoIsIt
  <1>2. wd' \in Withdrawal
    BY DEF SendWithdrawal, Withdrawal, Answers
  <1>3. [who |-> "withdrawal", allow |-> FALSE] \in Message
    BY DEF Message
  <1> QED
    BY <1>1, <1>2, <1>3, Appended DEF SendWithdrawal

LEMMA WithdrawType ==
    ASSUME posts \in Seq(Message), wd \in Withdrawal, NEW m \in Fields,
           NEW trigger \in {"disconnect", "registration", "leftover", "reissue"}, Withdraw(m, trigger)
    PROVE  me' \in Fields /\ wd' \in Withdrawal /\ posts' \in Seq(Message)
  <1>1. CASE wd.at # "off"
    BY <1>1 DEF Withdraw
  <1>2. CASE wd.at = "off"
    <2> DEFINE w == [Off EXCEPT !.trigger = trigger]
    <2>1. w \in Withdrawal /\ [w EXCEPT !.at = "register"] \in Withdrawal
      BY OffType DEF Withdrawal
    <2>2. StartWithdrawal(m, trigger)
      BY <1>2 DEF Withdraw
    <2>3. CASE m.registered
      <3>1. SendWithdrawal(m, w)
        BY <2>2, <2>3 DEF StartWithdrawal
      <3> QED
        BY <2>1, <3>1, SendWithdrawalType
    <2>4. CASE ~m.registered
      BY <2>1, <2>2, <2>4 DEF StartWithdrawal
    <2> QED
      BY <2>3, <2>4
  <1> QED
    BY <1>1, <1>2

LEMMA EndWithdrawalType ==
    ASSUME TypeOK, NEW m \in Fields, NEW withdrawn \in BOOLEAN, EndWithdrawal(m, withdrawn)
    PROVE  /\ me' \in Fields /\ wd' \in Withdrawal /\ run' \in Runs
           /\ manager' \in Steps /\ teardown' \in Steps /\ told' \in BOOLEAN
  <1> USE TypeParts
  <1>1. Settled(m, withdrawn) \in Fields
    <2>1. CASE withdrawn /\ wd.covers
      <3>1. Settled(m, withdrawn) = [AllowanceEnded(m) EXCEPT !.known = "no"]
        BY <2>1 DEF Settled
      <3> QED
        BY <3>1, AllowanceEndedIs DEF Fields
    <2>2. CASE ~(withdrawn /\ wd.covers)
      BY <2>2 DEF Settled, Fields
    <2> QED
      BY <2>1, <2>2
  <1>2. me' \in Fields
    <2> DEFINE n == Settled(m, withdrawn)
               c == IF "join" \in {manager, teardown} THEN wd.covers ELSE n.covered
    <2>1. n \in Fields
      BY <1>1
    <2>2. me' = [n EXCEPT !.covered = c]
      BY DEF EndWithdrawal
    <2> HIDE DEF n
    <2>3. c \in BOOLEAN
      BY <2>1 DEF Withdrawal, Fields
    <2> HIDE DEF c
    <2> QED
      BY <2>1, <2>2, <2>3 DEF Fields
  <1>3. run' \in Runs
    <2>1. ASSUME NEW p \in Routines PROVE run[p] \in Routine
      BY DEF Runs
    <2>2. ASSUME NEW r \in Routine
          PROVE  [r EXCEPT !.at = "joined"] \in Routine /\ [r EXCEPT !.at = "leftjoined", !.withdrawn = withdrawn] \in Routine
      BY DEF Routine, Places
    <2> QED
      BY <2>1, <2>2 DEF EndWithdrawal, Runs
  <1>4. wd' \in Withdrawal
    BY OffType DEF EndWithdrawal
  <1>5. manager' \in Steps /\ teardown' \in Steps
    BY DEF EndWithdrawal, Steps, NamesType
  <1>6. told' \in BOOLEAN
    BY DEF EndWithdrawal, NamesType
  <1> QED
    BY <1>2, <1>3, <1>4, <1>5, <1>6

LEMMA PostAllowanceType ==
    ASSUME TypeOK, NEW p \in Routines, NEW m \in Fields, PostAllowance(p, m)
    PROVE  /\ me' \in Fields /\ wd' \in Withdrawal /\ run' \in Runs /\ posts' \in Seq(Message)
           /\ flying' \subseteq Calls /\ told' \in BOOLEAN
  <1> USE TypeParts
  <1> DEFINE allow == run[p].kind = "allow"
  <1>0. allow \in BOOLEAN /\ p \in WhoIsIt /\ "nobody" \in WhoIsIt
    BY DEF WhoIsIt
  <1>1. wd' \in Withdrawal
    BY DEF PostAllowance, Withdrawal
  <1>2. me' \in Fields
    <2>1. \A w \in WhoIsIt : Numbered(m, w) \in Fields
      BY NumberedIs
    <2>2. Numbered(m, p) \in Fields /\ Numbered(m, "nobody") \in Fields
      BY <1>0, <2>1
    <2>3. [Numbered(m, p) EXCEPT !.declared = @ \/ allow] \in Fields
      BY <1>0, <2>2 DEF Fields
    <2> QED
      BY <2>2, <2>3 DEF PostAllowance
  <1>3. run' \in Runs
    BY RoutineTypes DEF PostAllowance, Ended, Places, Answers
  <1>4. posts' \in Seq(Message)
    <2>1. [who |-> p, allow |-> allow] \in Message
      BY <1>0 DEF Message
    <2> QED
      BY <2>1, Appended DEF PostAllowance
  <1>5. told' \in BOOLEAN /\ flying' \subseteq Calls
    BY DEF PostAllowance, NamesType
  <1> QED
    BY <1>1, <1>2, <1>3, <1>4, <1>5

LEMMA ProceedType ==
    ASSUME TypeOK, NEW p \in Routines, NEW m \in Fields, Proceed(p, m)
    PROVE  /\ me' \in Fields /\ wd' \in Withdrawal /\ run' \in Runs /\ posts' \in Seq(Message)
           /\ flying' \subseteq Calls /\ told' \in BOOLEAN
  <1> USE TypeParts
  <1>1. CASE run[p].kind = "write"
    BY <1>1, RoutineTypes DEF Proceed, Ended, NamesType
  <1>2. CASE run[p].kind # "write"
    <2>1. PostAllowance(p, m)
      BY <1>2 DEF Proceed
    <2> QED
      BY <2>1, PostAllowanceType
  <1> QED
    BY <1>1, <1>2

LEMMA ReadThenType ==
    ASSUME TypeOK, NEW p \in Routines, NEW place \in Places, ReadThen(p, place)
    PROVE  /\ me' \in Fields /\ wd' \in Withdrawal /\ run' \in Runs /\ posts' \in Seq(Message)
           /\ flying' \subseteq Calls /\ told' \in BOOLEAN
  <1> USE TypeParts
  <1>0. [me EXCEPT !.checking = TRUE] \in Fields /\ [me EXCEPT !.checking = FALSE] \in Fields
    BY DEF Fields
  <1>1. CASE me.registered /\ MaySend(p)
    BY <1>0, <1>1, GoesType DEF ReadThen, NamesType
  <1>2. CASE ~(me.registered /\ MaySend(p))
    <2>1. Proceed(p, [me EXCEPT !.checking = FALSE])
      BY <1>2 DEF ReadThen
    <2> QED
      BY <1>0, <2>1, ProceedType
  <1> QED
    BY <1>1, <1>2

Triggers == {"disconnect", "registration", "leftover", "reissue"}

\* Every variable but those the clients' steps leave alone.
LEMMA TypeFrom ==
    ASSUME NamesType', me' \in Fields, run' \in Runs, flying' \subseteq Calls,
           wd' \in Withdrawal, posts' \in Seq(Message)
    PROVE  TypeOK'
  BY TypePartsNext

LEMMA WithdrawalStepType ==
    ASSUME TypeOK, WithdrawalStep \/ StrayEnds
    PROVE  TypeOK'
  <1> USE TypeParts
  <1>1. CASE WithdrawalRegisters
    <2>1. [me EXCEPT !.registered = TRUE] \in Fields
      BY DEF Fields
    <2>2. me' \in Fields /\ wd' \in Withdrawal /\ posts' \in Seq(Message)
      BY <1>1, <2>1, SendWithdrawalType DEF WithdrawalRegisters
    <2>3. NamesType' /\ run' = run /\ flying' = flying
      BY <1>1 DEF WithdrawalRegisters, NamesType
    <2> QED
      BY <2>2, <2>3, TypeFrom
  <1>2. CASE WithdrawalAnswered
    <2>0. [me EXCEPT !.registered = FALSE] \in Fields /\ [me EXCEPT !.registered = @ /\ wd.answer # "noStation"] \in Fields
      BY DEF Fields
    <2>1. /\ me' \in Fields /\ wd' \in Withdrawal /\ run' \in Runs
          /\ manager' \in Steps /\ teardown' \in Steps /\ told' \in BOOLEAN
      <3>1. CASE EndWithdrawal(me, TRUE)
        BY <3>1, EndWithdrawalType
      <3>2. CASE EndWithdrawal([me EXCEPT !.registered = @ /\ wd.answer # "noStation"], FALSE)
        BY <2>0, <3>2, EndWithdrawalType
      <3>3. CASE /\ me' = [me EXCEPT !.registered = FALSE]
                 /\ wd' = [wd EXCEPT !.at = "register", !.second = TRUE, !.answer = "none"]
                 /\ UNCHANGED <<run, manager, teardown, told>>
        <4>1. wd' \in Withdrawal
          BY <3>3 DEF Withdrawal, Answers
        <4> QED
          BY <2>0, <3>3, <4>1 DEF NamesType
      <3> QED
        BY <1>2, <3>1, <3>2, <3>3 DEF WithdrawalAnswered
    <2>2. NamesType' /\ flying' = flying /\ posts' = posts
      BY <1>2, <2>1 DEF WithdrawalAnswered, EndWithdrawal, NamesType, controller
    <2> QED
      BY <2>1, <2>2, TypeFrom
  <1>3. CASE WithdrawalFails
    <2>1. /\ me' \in Fields /\ wd' \in Withdrawal /\ run' \in Runs
          /\ manager' \in Steps /\ teardown' \in Steps /\ told' \in BOOLEAN
      BY <1>3, EndWithdrawalType DEF WithdrawalFails
    <2>2. posts' \in Seq(Message)
      BY <1>3, AbandonedPosts DEF WithdrawalFails
    <2>3. NamesType' /\ flying' = flying
      BY <1>3, <2>1 DEF WithdrawalFails, EndWithdrawal, NamesType, controller
    <2> QED
      BY <2>1, <2>2, <2>3, TypeFrom
  <1>4. CASE StrayEnds
    <2>1. me' \in Fields
      BY <1>4 DEF StrayEnds, Fields
    <2> QED
      BY <1>4, <2>1, TypeFrom DEF StrayEnds, NamesType
  <1> QED
    BY <1>1, <1>2, <1>3, <1>4 DEF WithdrawalStep

LEMMA StartType ==
    ASSUME TypeOK, NEW p \in Calls, NEW kind \in Kinds, Start(p, kind)
    PROVE  TypeOK'
  <1> USE TypeParts, MotionControlAssumption
  <1>0. p \in Routines /\ p \in WhoIsIt
    BY DEF Routines, WhoIsIt
  <1> DEFINE r == [Idle EXCEPT !.kind = kind, !.before = me.declared]
             begun == [run EXCEPT ![p] = r]
             allow == kind = "allow"
             n == Numbered(me, p)
             seen == Overtaking /\ Reads
  <1>1. r \in Routine
    <2>1. me.declared \in BOOLEAN
      BY DEF Fields
    <2> QED
      BY <1>0, <2>1, RoutineTypes DEF Routine
  <1>2. begun \in Runs
    BY <1>0, <1>1 DEF Runs
  <1>3. n \in Fields
    BY <1>0, NumberedIs
  <1>a. seen \in BOOLEAN
    BY DEF Reads
  <1>b. \/ run' = [begun EXCEPT ![p].at = "snapshot", ![p].seen = seen]
        \/ run' = [begun EXCEPT ![p].at = "register"]
        \/ run' = [begun EXCEPT ![p].at = "post"]
    BY DEF Start
  <1>c. \/ me' = me
        \/ me' = [n EXCEPT !.declared = @ \/ allow]
    BY DEF Start
  <1> HIDE DEF r, seen
  <1>4. run' \in Runs
    <2>1. begun[p] = r
      BY <1>0 DEF Runs
    <2>2. \A x \in Routine : [begun EXCEPT ![p] = x] \in Runs
      BY <1>2 DEF Runs
    <2> HIDE DEF begun
    <2>3. /\ [r EXCEPT !.at = "snapshot", !.seen = seen] \in Routine
          /\ [r EXCEPT !.at = "register"] \in Routine
          /\ [r EXCEPT !.at = "post"] \in Routine
      BY <1>1, <1>a DEF Routine, Places
    <2>4. \/ run' = [begun EXCEPT ![p] = [r EXCEPT !.at = "snapshot", !.seen = seen]]
          \/ run' = [begun EXCEPT ![p] = [r EXCEPT !.at = "register"]]
          \/ run' = [begun EXCEPT ![p] = [r EXCEPT !.at = "post"]]
      BY <1>0, <1>2, <1>b, <2>1 DEF Runs
    <2> QED
      BY <2>2, <2>3, <2>4
  <1> HIDE DEF n
  <1>5. me' \in Fields
    BY <1>3, <1>c DEF Fields
  <1>6. wd' \in Withdrawal
    BY DEF Start, Withdrawal
  <1>7. posts' \in Seq(Message)
    <2>1. [who |-> p, allow |-> allow] \in Message
      BY <1>0 DEF Message
    <2> QED
      BY <2>1, Appended DEF Start
  <1>8. flying' \subseteq Calls /\ NamesType'
    BY DEF Start, NamesType, controller
  <1> QED
    BY <1>4, <1>5, <1>6, <1>7, <1>8, TypeFrom

LEMMA FoundIs ==
    ASSUME ~Overtaking, NEW p, NEW enabled \in Found(p)
    PROVE  enabled \in BOOLEAN /\ enabled = Reads
  BY DEF Found, Reads

LEMMA FoundType ==
    ASSUME TypeOK, NEW p \in Routines, NEW enabled \in Found(p)
    PROVE  enabled \in BOOLEAN
  <1>1. run[p].seen \in BOOLEAN
    BY TypeParts DEF Runs, Routine
  <1> QED
    BY <1>1 DEF Found, Reads

LEMMA RoutineStepType ==
    ASSUME TypeOK, NEW p \in Routines, RoutineStep(p) \/ Resume(p)
    PROVE  TypeOK'
  <1> USE TypeParts
  <1>0. /\ [me EXCEPT !.checking = TRUE] \in Fields /\ [me EXCEPT !.checking = FALSE] \in Fields
        /\ [me EXCEPT !.registered = TRUE] \in Fields
        /\ [[me EXCEPT !.registered = TRUE] EXCEPT !.checking = TRUE] \in Fields
        /\ [[me EXCEPT !.registered = TRUE] EXCEPT !.checking = FALSE] \in Fields
    BY DEF Fields
  <1>1. CASE Registers(p)
    <2> DEFINE m == [me EXCEPT !.registered = TRUE]
    <2>1. /\ me' \in Fields /\ wd' \in Withdrawal /\ run' \in Runs /\ posts' \in Seq(Message)
          /\ flying' \subseteq Calls /\ told' \in BOOLEAN
      <3>1. CASE Withdraw(m, "registration") /\ Goes(p, "join") /\ UNCHANGED <<flying, told>>
        <4>1. run' \in Runs
          BY <3>1, GoesType DEF Places
        <4> QED
          BY <1>0, <3>1, <4>1, WithdrawType DEF NamesType
      <3>2. CASE /\ me' = [m EXCEPT !.checking = TRUE]
                 /\ run' = [run EXCEPT ![p].at = "read", ![p].seen = Overtaking /\ allowed # "no"]
                 /\ UNCHANGED <<flying, wd, posts, told>>
        <4> DEFINE seen == Overtaking /\ allowed # "no"
        <4>1. seen \in BOOLEAN /\ run' = [run EXCEPT ![p].at = "read", ![p].seen = seen]
          BY <3>2
        <4> HIDE DEF seen
        <4>2. run' \in Runs
          BY <4>1, RoutineTypes DEF Places
        <4> QED
          BY <1>0, <3>2, <4>2 DEF NamesType
      <3>3. CASE Proceed(p, [m EXCEPT !.checking = FALSE])
        BY <1>0, <3>3, ProceedType
      <3> QED
        BY <1>1, <3>1, <3>2, <3>3 DEF Registers
    <2>2. NamesType'
      BY <1>1, <2>1 DEF Registers, NamesType
    <2> QED
      BY <2>1, <2>2, TypeFrom
  <1>2. CASE RegisterFails(p)
    <2>1. run' \in Runs
      BY <1>2, GoesType DEF RegisterFails, Places
    <2>2. NamesType' /\ flying' \subseteq Calls /\ me' = me /\ wd' = wd /\ posts' = posts
      BY <1>2 DEF RegisterFails, NamesType
    <2> QED
      BY <2>1, <2>2, TypeFrom
  <1>3. CASE ReadEnds(p)
    <2>1. /\ me' \in Fields /\ wd' \in Withdrawal /\ run' \in Runs /\ posts' \in Seq(Message)
          /\ flying' \subseteq Calls /\ told' \in BOOLEAN
      <3>1. CASE Proceed(p, [me EXCEPT !.checking = FALSE])
        BY <1>0, <3>1, ProceedType
      <3>2. CASE ~Proceed(p, [me EXCEPT !.checking = FALSE])
        <4> DEFINE m(enabled) == [Noted(me, enabled) EXCEPT !.checking = FALSE]
        <4>1. PICK enabled \in Found(p) :
                 \/ /\ Withdraw([m(enabled) EXCEPT !.declared = TRUE], "leftover")
                    /\ Goes(p, "leftjoin")
                    /\ UNCHANGED <<flying, told>>
                 \/ Proceed(p, m(enabled))
          BY <1>3, <3>2 DEF ReadEnds
        <4>2. Noted(me, enabled) \in Fields
          BY FoundType, NotedIs
        <4>3. m(enabled) \in Fields /\ [m(enabled) EXCEPT !.declared = TRUE] \in Fields
          BY <4>2 DEF Fields
        <4> HIDE DEF m
        <4>4. CASE Proceed(p, m(enabled))
          BY <4>3, <4>4, ProceedType
        <4>5. CASE /\ Withdraw([m(enabled) EXCEPT !.declared = TRUE], "leftover")
                   /\ Goes(p, "leftjoin")
                   /\ UNCHANGED <<flying, told>>
          <5>1. run' \in Runs
            BY <4>5, GoesType DEF Places
          <5> QED
            BY <4>3, <4>5, <5>1, WithdrawType DEF NamesType
        <4> QED
          BY <4>1, <4>4, <4>5
      <3> QED
        BY <3>1, <3>2
    <2>2. NamesType'
      BY <1>3, <2>1 DEF ReadEnds, NamesType, controller
    <2> QED
      BY <2>1, <2>2, TypeFrom
  <1>4. CASE LeftoverReadEnds(p)
    <2>1. /\ me' \in Fields /\ wd' \in Withdrawal /\ run' \in Runs /\ posts' \in Seq(Message)
          /\ flying' \subseteq Calls /\ told' \in BOOLEAN
      <3>1. CASE Proceed(p, [me EXCEPT !.checking = FALSE])
        BY <1>0, <3>1, ProceedType
      <3>2. CASE ~Proceed(p, [me EXCEPT !.checking = FALSE])
        <4> DEFINE m(enabled) == [Noted(me, enabled) EXCEPT !.checking = FALSE]
                   n(enabled) == IF enabled THEN [m(enabled) EXCEPT !.declared = TRUE, !.known = "unknown"]
                                 ELSE m(enabled)
        <4>1. PICK enabled \in Found(p) : Proceed(p, n(enabled))
          BY <1>4, <3>2 DEF LeftoverReadEnds
        <4>2. Noted(me, enabled) \in Fields
          BY FoundType, NotedIs
        <4>3. n(enabled) \in Fields
          BY <4>2 DEF Fields
        <4> HIDE DEF n
        <4> QED
          BY <4>1, <4>3, ProceedType
      <3> QED
        BY <3>1, <3>2
    <2>2. NamesType'
      BY <1>4, <2>1 DEF LeftoverReadEnds, NamesType, controller
    <2> QED
      BY <2>1, <2>2, TypeFrom
  <1>5. CASE SnapshotEnds(p)
    <2>1. me' \in Fields
      <3>1. CASE me' = me
        BY <3>1
      <3>2. CASE \E enabled \in Found(p) : me' = Noted(me, enabled)
        BY <3>2, FoundType, NotedIs
      <3> QED
        BY <1>5, <3>1, <3>2 DEF SnapshotEnds
    <2>2. run' \in Runs
      BY <1>5, GoesType DEF SnapshotEnds, Places
    <2>3. NamesType' /\ flying' = flying /\ wd' = wd /\ posts' = posts
      BY <1>5 DEF SnapshotEnds, NamesType, controller
    <2> QED
      BY <2>1, <2>2, <2>3, TypeFrom
  <1>6. CASE PostTaken(p)
    <2>1. me' \in Fields
      BY <1>6, AllowanceEndedIs DEF PostTaken, Fields
    <2>2. run' \in Runs
      BY <1>6, GoesType DEF PostTaken, Places
    <2>3. NamesType' /\ flying' \subseteq Calls /\ wd' = wd /\ posts' = posts
      BY <1>6 DEF PostTaken, NamesType, controller
    <2> QED
      BY <2>1, <2>2, <2>3, TypeFrom
  <1>7. CASE PostRefused(p)
    <2>1. me' \in Fields
      BY <1>7, AllowanceEndedIs DEF PostRefused, Fields
    <2>2. run' \in Runs
      <3>1. CASE Ended(p)
        BY <3>1, GoesType DEF Places
      <3>2. CASE run' = [run EXCEPT ![p].at = "register", ![p].second = TRUE, ![p].answer = "none"]
        BY <3>2, RoutineTypes DEF Places, Answers
      <3> QED
        BY <1>7, <3>1, <3>2 DEF PostRefused
    <2>3. NamesType' /\ flying' \subseteq Calls /\ wd' = wd /\ posts' = posts
      BY <1>7 DEF PostRefused, NamesType, controller
    <2> QED
      BY <2>1, <2>2, <2>3, TypeFrom
  <1>8. CASE PostUnanswered(p)
    <2>1. me' \in Fields
      BY <1>8, CountsUnansweredIs DEF PostUnanswered, Fields
    <2>2. run' \in Runs
      BY <1>8, GoesType DEF PostUnanswered, Places
    <2>3. posts' \in Seq(Message)
      BY <1>8, AbandonedPosts DEF PostUnanswered
    <2>4. NamesType' /\ flying' \subseteq Calls /\ wd' = wd
      BY <1>8 DEF PostUnanswered, NamesType, controller
    <2> QED
      BY <2>1, <2>2, <2>3, <2>4, TypeFrom
  <1>9. CASE Resume(p)
    <2>1. /\ me' \in Fields /\ wd' \in Withdrawal /\ run' \in Runs /\ posts' \in Seq(Message)
          /\ flying' \subseteq Calls /\ told' \in BOOLEAN
      <3>1. CASE ReadThen(p, "read") \/ ReadThen(p, "leftread")
        BY <3>1, ReadThenType DEF Places
      <3>2. CASE Proceed(p, me)
        BY <3>2, ProceedType
      <3>3. CASE /\ IF me.registered /\ phase = "open" THEN Goes(p, "snapshot") ELSE Ended(p)
                 /\ UNCHANGED <<me, flying, wd, posts, told>>
        <4>1. run' \in Runs
          BY <3>3, GoesType DEF Places
        <4> QED
          BY <3>3, <4>1 DEF NamesType
      <3> QED
        BY <1>9, <3>1, <3>2, <3>3 DEF Resume
    <2>2. NamesType'
      BY <1>9, <2>1 DEF Resume, NamesType, controller
    <2> QED
      BY <2>1, <2>2, TypeFrom
  <1> QED
    BY <1>1, <1>2, <1>3, <1>4, <1>5, <1>6, <1>7, <1>8, <1>9 DEF RoutineStep

LEMMA DisconnectStepType ==
    ASSUME TypeOK,
           \/ ManagerDisconnects \/ ManagerResumes \/ TeardownBegins \/ TeardownResumes
           \/ CloseClient \/ LogoutEnds \/ Connect
    PROVE  TypeOK'
  <1> USE TypeParts
  <1>1. CASE ManagerDisconnects \/ ManagerResumes
    <2>1. DisconnectStep(manager)
      BY <1>1 DEF ManagerDisconnects, ManagerResumes
    <2>2. me' \in Fields /\ wd' \in Withdrawal /\ posts' \in Seq(Message)
      BY <2>1, WithdrawType DEF DisconnectStep
    <2>3. manager' \in Steps
      BY <2>1 DEF DisconnectStep, Steps
    <2>4. NamesType' /\ run' = run /\ flying' = flying
      BY <1>1, <2>3 DEF ManagerDisconnects, ManagerResumes, NamesType, controller
    <2> QED
      BY <2>2, <2>4, TypeFrom
  <1>2. CASE TeardownBegins \/ TeardownResumes
    <2>1. TeardownStep
      BY <1>2 DEF TeardownBegins, TeardownResumes
    <2>2. me' \in Fields /\ wd' \in Withdrawal /\ posts' \in Seq(Message)
      BY <2>1, WithdrawType DEF TeardownStep, DisconnectStep
    <2>3. teardown' \in Steps
      BY <2>1 DEF TeardownStep, DisconnectStep, Steps
    <2>4. NamesType' /\ run' = run /\ flying' = flying
      BY <1>2, <2>3 DEF TeardownBegins, TeardownResumes, NamesType, controller
    <2> QED
      BY <2>2, <2>4, TypeFrom
  <1>3. CASE CloseClient
    BY <1>3, TypeFrom DEF CloseClient, NamesType, controller
  <1>4. CASE LogoutEnds
    <2>1. me' \in Fields
      BY <1>4 DEF LogoutEnds, Fields
    <2>2. posts' \in Seq(Message)
      BY <1>4, EmptySeq DEF LogoutEnds
    <2> QED
      BY <1>4, <2>1, <2>2, TypeFrom DEF LogoutEnds, NamesType, Steps
  <1>5. CASE Connect
    <2>1. me' \in Fields
      BY <1>5 DEF Connect, Fields
    <2> QED
      BY <1>5, <2>1, TypeFrom DEF Connect, NamesType
  <1> QED
    BY <1>1, <1>2, <1>3, <1>4, <1>5

LEMMA EnvironmentType ==
    ASSUME TypeOK, Environment
    PROVE  TypeOK'
  <1> USE TypeParts
  <1>1. CASE Serves
    <2>1. PICK i \in DOMAIN posts, answer \in {"ok", "refused", "noStation"} :
             /\ allowed' = IF answer # "ok" THEN allowed ELSE IF posts[i].allow THEN "own" ELSE "no"
             /\ posts' = RemoveAt(posts, i)
             /\ run' = [p \in Routines |-> IF posts[i].who = p THEN [run[p] EXCEPT !.answer = answer] ELSE run[p]]
             /\ wd' = IF posts[i].who = "withdrawal" THEN [wd EXCEPT !.answer = answer] ELSE wd
             /\ UNCHANGED <<phase, me, flying, stray, manager, teardown, station, gone, told>>
      BY <1>1 DEF Serves
    <2>2. posts' \in Seq(Message)
      BY <2>1, Removed
    <2>3. run' \in Runs
      <3>1. \A p \in Routines : run[p] \in Routine
        BY DEF Runs
      <3>2. \A r \in Routine : [r EXCEPT !.answer = answer] \in Routine
        BY DEF Routine, Answers
      <3> QED
        BY <2>1, <3>1, <3>2 DEF Runs
    <2>4. wd' \in Withdrawal
      BY <2>1 DEF Withdrawal, Answers
    <2>5. NamesType' /\ me' = me /\ flying' = flying
      BY <2>1 DEF NamesType
    <2> QED
      BY <2>2, <2>3, <2>4, <2>5, TypeFrom
  <1>2. CASE Drops
    <2>1. posts' \in Seq(Message)
      BY <1>2, Removed DEF Drops
    <2>2. NamesType' /\ me' = me /\ flying' = flying /\ run' = run /\ wd' = wd
      BY <1>2 DEF Drops, NamesType, controller
    <2> QED
      BY <2>1, <2>2, TypeFrom
  <1>3. CASE SessionEnds
    BY <1>3, TypeFrom DEF SessionEnds, NamesType
  <1>4. CASE OtherSession
    BY <1>4, TypeFrom DEF OtherSession, NamesType
  <1>5. CASE Reissued
    <2>1. me' \in Fields
      BY <1>5 DEF Reissued, Fields
    <2>2. wd' \in Withdrawal
      <3>1. [Off EXCEPT !.at = "register", !.trigger = "reissue"] \in Withdrawal
        BY OffType DEF Withdrawal
      <3> QED
        BY <1>5, <3>1 DEF Reissued
    <2>3. run' \in Runs
      <3>1. [Idle EXCEPT !.at = "join", !.kind = "reissue"] \in Routine
        BY DEF Idle, Routine, Places, Kinds, Answers
      <3>2. \A p \in Reissues : [run EXCEPT ![p] = [Idle EXCEPT !.at = "join", !.kind = "reissue"]] \in Runs
        BY <3>1 DEF Runs, Routines
      <3> QED
        BY <1>5, <3>2 DEF Reissued
    <2>4. NamesType' /\ flying' = flying /\ posts' = posts
      BY <1>5 DEF Reissued, NamesType
    <2> QED
      BY <2>1, <2>2, <2>3, <2>4, TypeFrom
  <1> QED
    BY <1>1, <1>2, <1>3, <1>4, <1>5 DEF Environment

LEMMA TypeNext == TypeOK /\ [Next]_vars => TypeOK'
  <1> SUFFICES ASSUME TypeOK, [Next]_vars PROVE TypeOK'
    OBVIOUS
  <1>1. CASE UNCHANGED vars
    BY <1>1 DEF vars, TypeOK
  <1>2. CASE Next
    <2>1. CASE \E p \in Calls, kind \in Kinds : Start(p, kind)
      BY <2>1, StartType
    <2>2. CASE \E p \in Routines : RoutineStep(p) \/ Resume(p)
      BY <2>2, RoutineStepType
    <2> QED
      BY <1>2, <2>1, <2>2, WithdrawalStepType, DisconnectStepType, EnvironmentType
      DEF Next, Continue, Event
  <1> QED
    BY <1>1, <1>2

LEMMA TypeInit == Init => TypeOK
  <1> SUFFICES ASSUME Init PROVE TypeOK
    OBVIOUS
  <1>1. me \in Fields
    BY DEF Init, Fields
  <1>2. run \in Runs
    BY DEF Init, Runs, Routine, Idle, Places, Kinds, Answers
  <1>3. posts \in Seq(Message)
    BY EmptySeq DEF Init
  <1>4. NamesType /\ flying \subseteq Calls
    BY DEF Init, NamesType, Steps
  <1> QED
    BY <1>1, <1>2, <1>3, <1>4, OffType, TypeParts DEF Init

\* The fields of the client, its routines and the requests on their way keep their types.
THEOREM TypeCorrect == Spec => []TypeOK
  BY TypeInit, TypeNext, PTL DEF Spec

-----------------------------------------------------------------------------
(* The inductive invariant. *)

\* An allowance of this client stands, or may still be made by what is on its way.
Risk == allowed = "own" \/ \E i \in DOMAIN posts : posts[i].allow
Latent == \E i \in DOMAIN posts : posts[i].who = "nobody" /\ posts[i].allow

\* What may stand is counted, and a POST true that nobody waits for as unanswered.
Counted == (Risk => me.declared) /\ (Latent => me.unanswered)

StationInv ==
    /\ me.registered /\ ~gone => station
    /\ phase = "closed" /\ teardown = "off" => gone /\ ~me.registered

\* A request on its way belongs to a routine, or a withdrawal, that waits for its answer.
RoutinePosts ==
    \A i \in DOMAIN posts : posts[i].who \in Routines =>
        /\ run[posts[i].who].at = "post" /\ run[posts[i].who].answer = "none"
        /\ posts[i].allow <=> run[posts[i].who].kind = "allow"
WithdrawalPosts ==
    \A i \in DOMAIN posts : posts[i].who = "withdrawal" =>
        wd.at = "post" /\ wd.answer = "none" /\ ~posts[i].allow
OneEach ==
    \A i, j \in DOMAIN posts : posts[i].who = posts[j].who /\ posts[i].who # "nobody" => i = j

\* A call that allows is in flight; an answer is there only for a POST.
RoutineInv ==
    \A p \in Routines :
        /\ run[p].kind = "allow" => p \in Setters /\ (run[p].at \notin {"idle", "snapshot"} => p \in flying)
        /\ run[p].at \notin {"post", "snapshot"} => run[p].answer = "none"

\* The latest POST is the last one on its way; once it is answered none is left.
LatestInv ==
    /\ \A i \in DOMAIN posts :
          posts[i].who \in Routines /\ me.latest = posts[i].who => i = Len(posts)
    /\ \A p \in Routines :
          run[p].at = "post" /\ me.latest = p /\ run[p].answer # "none" =>
             posts = <<>> /\ (run[p].answer = "ok" /\ run[p].kind # "allow" => allowed # "own")

\* So is the POST of a withdrawal that covers all of them, or that the teardown waits for.
WithdrawalInv ==
    wd.at = "post" /\ (wd.covers \/ teardown = "join") =>
        /\ \A i \in DOMAIN posts : posts[i].who = "withdrawal" => i = Len(posts)
        /\ wd.answer # "none" => posts = <<>>
        /\ wd.answer = "ok" => allowed # "own"

\* The call found nothing counted and its first POST true is not taken: nothing else may stand.
Untaken(r) ==
    /\ r.kind = "allow" /\ ~r.before /\ ~r.second
    /\ r.at \notin {"idle", "snapshot"} /\ r.answer # "ok"
FirstPostInv ==
    \A p \in Routines : Untaken(run[p]) =>
        /\ allowed # "own"
        /\ \A i \in DOMAIN posts : posts[i].allow => posts[i].who = p /\ run[p].answer = "none"

\* A disconnect that is over left nothing, or said so.
TeardownInv ==
    /\ me.covered => (Risk => told)
    /\ teardown = "done" => phase \in {"closing", "closed"} /\ (Risk => told)
    /\ teardown \in {"wait", "join", "woken"} => phase = "closing"
    /\ teardown = "join" => wd.at # "off"
    /\ phase = "open" => teardown = "off"
    /\ phase = "closed" => teardown \in {"done", "off"}
    /\ phase = "closed" /\ teardown = "off" => posts = <<>> /\ (Risk => told)

Inv ==
    /\ TypeOK /\ StationInv /\ Counted
    /\ RoutinePosts /\ WithdrawalPosts /\ OneEach
    /\ RoutineInv /\ LatestInv /\ WithdrawalInv /\ FirstPostInv /\ TeardownInv

-----------------------------------------------------------------------------
(* What a step leaves alone. *)

\* The requests of the routines, and every POST true, are the old ones.
SameRequests ==
    \A i \in DOMAIN posts' :
        posts'[i].who \in Routines \/ posts'[i].allow => i \in DOMAIN posts /\ posts'[i] = posts[i]
SameLength == posts' = <<>> \/ (posts # <<>> /\ Len(posts') = Len(posts))

\* A routine stays as it is, or takes a step that sends nothing while nothing of it is on its way.
Moves(q) ==
    \/ run'[q] = run[q] /\ (q \in flying => q \in flying')
    \/ /\ run'[q].at # "post"
       /\ \A i \in DOMAIN posts : posts[i].who # q
       /\ run'[q].kind = "allow" => q \in Setters /\ (run'[q].at \notin {"idle", "snapshot"} => q \in flying')
       /\ run'[q].at # "snapshot" => run'[q].answer = "none"
       /\ Untaken(run'[q]) => Untaken(run[q]) \/ ~Risk

LEMMA RunFrame ==
    ASSUME Inv, SameRequests,
           SameLength \/ me'.latest \notin Routines,
           me'.latest \in {me.latest, "withdrawal", "nobody"},
           allowed' = "own" => allowed = "own",
           \A q \in Routines : Moves(q)
    PROVE  RoutinePosts' /\ RoutineInv' /\ LatestInv' /\ FirstPostInv'
  <1> USE MotionControlAssumption
  <1>0. "withdrawal" \notin Routines /\ "nobody" \notin Routines
    BY DEF Routines
  <1>1. RoutinePosts'
    <2> SUFFICES ASSUME NEW i \in DOMAIN posts', posts'[i].who \in Routines
                 PROVE  LET q == posts'[i].who IN
                        /\ run'[q].at = "post" /\ run'[q].answer = "none"
                        /\ posts'[i].allow <=> run'[q].kind = "allow"
      BY DEF RoutinePosts
    <2>1. i \in DOMAIN posts /\ posts'[i] = posts[i]
      BY <1>0 DEF SameRequests
    <2>2. Moves(posts[i].who)
      BY <2>1
    <2>3. run'[posts[i].who] = run[posts[i].who]
      BY <2>1, <2>2 DEF Moves
    <2> QED
      BY <2>1, <2>3 DEF Inv, RoutinePosts
  <1>2. RoutineInv'
    <2> SUFFICES ASSUME NEW p \in Routines
                 PROVE  /\ run'[p].kind = "allow" =>
                              p \in Setters /\ (run'[p].at \notin {"idle", "snapshot"} => p \in flying')
                        /\ run'[p].at \notin {"post", "snapshot"} => run'[p].answer = "none"
      BY DEF RoutineInv
    <2> QED
      BY DEF Moves, Inv, RoutineInv
  <1>3. LatestInv'
    <2>1. CASE me'.latest \notin Routines
      BY <2>1 DEF LatestInv
    <2>2. CASE me'.latest \in Routines
      <3>1. SameLength /\ me'.latest = me.latest
        BY <1>0, <2>2
      <3>2. ASSUME NEW p \in Routines, run'[p].at = "post", me'.latest = p, run'[p].answer # "none"
            PROVE  posts' = <<>> /\ (run'[p].answer = "ok" /\ run'[p].kind # "allow" => allowed' # "own")
        <4>1. run'[p] = run[p]
          BY <3>2 DEF Moves
        <4> QED
          BY <3>1, <3>2, <4>1 DEF Inv, LatestInv, SameLength
      <3> QED
        BY <3>1, <3>2 DEF Inv, LatestInv, SameLength, SameRequests
    <2> QED
      BY <2>1, <2>2
  <1>4. FirstPostInv'
    <2> SUFFICES ASSUME NEW p \in Routines, Untaken(run'[p])
                 PROVE  /\ allowed' # "own"
                        /\ \A i \in DOMAIN posts' : posts'[i].allow => posts'[i].who = p /\ run'[p].answer = "none"
      BY DEF FirstPostInv, Untaken
    <2>1. CASE run'[p] = run[p]
      BY <2>1 DEF Inv, FirstPostInv, SameRequests
    <2>2. CASE run'[p] # run[p]
      <3>1. ~Risk
        <4>1. CASE Untaken(run[p])
          BY <2>2, <4>1 DEF Moves, Inv, FirstPostInv, Risk
        <4> QED
          BY <2>2, <4>1 DEF Moves
      <3> QED
        BY <3>1 DEF Risk, SameRequests
    <2> QED
      BY <2>1, <2>2
  <1> QED
    BY <1>1, <1>2, <1>3, <1>4

\* Nothing of the withdrawal changes, but that it may cover less.
LEMMA WithdrawalFrame ==
    ASSUME Inv, posts' = posts, allowed' = "own" => allowed = "own",
           wd'.at = wd.at, wd'.answer = wd.answer, wd'.covers => wd.covers,
           teardown' = "join" => teardown = "join"
    PROVE  WithdrawalPosts' /\ OneEach' /\ WithdrawalInv'
  <1>1. WithdrawalPosts' /\ OneEach'
    BY DEF Inv, WithdrawalPosts, OneEach
  <1>2. WithdrawalInv'
    BY DEF Inv, WithdrawalInv
  <1> QED
    BY <1>1, <1>2

LEMMA TeardownFrame ==
    ASSUME Inv, Risk' => Risk, told => told', phase' = phase, teardown' = teardown,
           wd.at # "off" => wd'.at # "off", me'.covered => me.covered,
           phase = "closed" /\ posts = <<>> => posts' = <<>>
    PROVE  TeardownInv'
  BY DEF Inv, TeardownInv

LEMMA SameRisk ==
    ASSUME SameRequests, allowed' = "own" => allowed = "own"
    PROVE  Risk' => Risk
  BY DEF SameRequests, Risk

LEMMA SameLatent ==
    ASSUME SameRequests
    PROVE  Latent' => Latent
  BY DEF SameRequests, Latent

LEMMA SamePosts ==
    ASSUME posts' = posts
    PROVE  SameRequests /\ SameLength
  BY DEF SameRequests, SameLength

-----------------------------------------------------------------------------
(* Withdrawals. *)

\* m may take the place of the fields: it counts what may stand.
Fits(m) ==
    /\ m \in Fields /\ SameNumber(m, me)
    /\ (Risk => m.declared) /\ (Latent => m.unanswered)

\* What a withdrawal that starts, or is joined, leaves of the fields and the requests.
Begun(m) ==
    /\ SameRequests /\ (SameLength \/ me'.latest \notin Routines)
    /\ me'.latest \in {me.latest, "withdrawal", "nobody"}
    /\ SameCount(me', m) /\ (me'.covered => me.covered) /\ (me'.registered => m.registered)
    /\ wd'.at # "off"
    /\ phase = "closed" => posts' = posts
    /\ WithdrawalPosts' /\ OneEach' /\ WithdrawalInv'

LEMMA SendBegins ==
    ASSUME Inv, NEW m \in Fields, SameNumber(m, me), NEW w \in Withdrawal, wd.at # "post", allowed' = allowed,
           SendWithdrawal(m, w)
    PROVE  Begun(m)
  <1> USE TypeParts, MotionControlAssumption
  <1> DEFINE e == [who |-> "withdrawal", allow |-> FALSE]
  <1>1. posts \in Seq(Message) /\ e \in Message
    BY DEF Inv, Message
  <1>2. /\ me'.latest = "withdrawal" /\ me'.covered = FALSE /\ SameCount(me', m) /\ me'.registered = m.registered
    BY NumberedIs DEF SendWithdrawal, WhoIsIt
  <1>3. wd'.at = "post" /\ wd'.answer = "none"
    BY DEF SendWithdrawal, Withdrawal
  <1>4. \A i \in DOMAIN posts : posts[i].who # "withdrawal"
    BY DEF Inv, WithdrawalPosts
  <1>5. "withdrawal" \notin Routines
    BY DEF Routines
  <1>6. CASE phase = "closed"
    <2>1. posts' = posts
      BY <1>6 DEF SendWithdrawal
    <2>2. WithdrawalPosts' /\ OneEach' /\ WithdrawalInv'
      BY <1>3, <1>4, <2>1 DEF Inv, WithdrawalPosts, OneEach, WithdrawalInv
    <2> QED
      BY <1>2, <1>3, <1>5, <2>1, <2>2, SamePosts DEF Begun
  <1>7. CASE phase # "closed"
    <2>1. posts' = Append(posts, e)
      BY <1>7 DEF SendWithdrawal
    <2>2. /\ Len(posts') = Len(posts) + 1 /\ Len(posts) \in Nat
          /\ DOMAIN posts' = 1 .. Len(posts) + 1 /\ DOMAIN posts = 1 .. Len(posts)
          /\ \A i \in 1 .. Len(posts) : posts'[i] = posts[i]
          /\ posts'[Len(posts) + 1] = e
      BY <1>1, <2>1, Appended
    <2> HIDE DEF e
    <2>3. e.who = "withdrawal" /\ ~e.allow
      BY DEF e
    <2>4. SameRequests
      BY <1>5, <2>2, <2>3 DEF SameRequests
    <2>5. \A i \in DOMAIN posts' : posts'[i].who = "withdrawal" => i = Len(posts')
      BY <1>4, <2>2
    <2>6. WithdrawalPosts' /\ WithdrawalInv'
      BY <1>3, <2>2, <2>3, <2>5 DEF WithdrawalPosts, WithdrawalInv
    <2>7. OneEach'
      BY <1>4, <2>2, <2>3 DEF Inv, OneEach
    <2> QED
      BY <1>2, <1>3, <1>5, <1>7, <2>4, <2>6, <2>7 DEF Begun
  <1> QED
    BY <1>6, <1>7

LEMMA WithdrawBegins ==
    ASSUME Inv, NEW m \in Fields, SameNumber(m, me), NEW trigger \in Triggers,
           allowed' = allowed, teardown' = "join" => teardown = "join" \/ wd.at = "off",
           Withdraw(m, trigger)
    PROVE  Begun(m)
  <1>1. CASE wd.at # "off"
    <2>1. me' = m /\ wd' = wd /\ posts' = posts
      BY <1>1 DEF Withdraw
    <2>2. WithdrawalPosts' /\ OneEach' /\ WithdrawalInv'
      BY <1>1, <2>1, WithdrawalFrame
    <2> QED
      BY <1>1, <2>1, <2>2, SamePosts DEF Begun, SameCount, SameNumber
  <1>2. CASE wd.at = "off"
    <2> DEFINE w == [Off EXCEPT !.trigger = trigger]
    <2>1. w \in Withdrawal /\ [w EXCEPT !.at = "register"].at = "register"
      BY OffType DEF Withdrawal, Triggers, Off
    <2>2. StartWithdrawal(m, trigger)
      BY <1>2 DEF Withdraw
    <2>3. CASE m.registered
      <3>1. SendWithdrawal(m, w)
        BY <2>2, <2>3 DEF StartWithdrawal
      <3> QED
        BY <1>2, <2>1, <3>1, SendBegins
    <2>4. CASE ~m.registered
      <3>1. me' = m /\ wd'.at = "register" /\ posts' = posts
        BY <2>1, <2>2, <2>4 DEF StartWithdrawal
      <3>2. WithdrawalPosts' /\ OneEach' /\ WithdrawalInv'
        BY <1>2, <3>1 DEF Inv, WithdrawalPosts, OneEach, WithdrawalInv
      <3> QED
        BY <3>1, <3>2, SamePosts DEF Begun, SameCount, SameNumber
    <2> QED
      BY <2>3, <2>4
  <1> QED
    BY <1>1, <1>2

\* A withdrawal begins in a step that has nothing else to do with the count.
LEMMA BegunKeeps ==
    ASSUME Inv, TypeOK', NEW m, Fits(m), Begun(m), StationInv', \A q \in Routines : Moves(q),
           UNCHANGED <<phase, teardown, allowed, told>>
    PROVE  Inv'
  <1>1. RoutinePosts' /\ RoutineInv' /\ LatestInv' /\ FirstPostInv'
    BY RunFrame DEF Begun
  <1>2. (Risk' => Risk) /\ (Latent' => Latent)
    BY SameRisk, SameLatent DEF Begun
  <1>3. Counted'
    BY <1>2 DEF Counted, Fits, Begun, SameCount
  <1>4. TeardownInv'
    BY <1>2, TeardownFrame DEF Begun
  <1> QED
    BY <1>1, <1>3, <1>4 DEF Inv, Begun

LEMMA Stays ==
    ASSUME NEW q, run' = run, flying' = flying
    PROVE  Moves(q)
  BY DEF Moves

LEMMA FieldsFit ==
    ASSUME Inv
    PROVE  Fits(me)
  BY TypeParts DEF Inv, Fits, Counted, SameNumber

LEMMA WithdrawalRegistersKeeps ==
    ASSUME Inv, TypeOK', WithdrawalRegisters
    PROVE  Inv'
  <1> DEFINE m == [me EXCEPT !.registered = TRUE]
  <1>1. m \in Fields /\ SameCount(m, me) /\ SameNumber(m, me) /\ m.registered = TRUE
    BY TypeParts DEF Inv, Fields, SameCount, SameNumber
  <1>2. Fits(m)
    BY <1>1, FieldsFit DEF Fits, SameCount
  <1>3. SendWithdrawal(m, wd) /\ wd.at # "post" /\ wd \in Withdrawal /\ allowed' = allowed
    BY TypeParts DEF WithdrawalRegisters, Inv
  <1>4. Begun(m)
    BY <1>1, <1>3, SendBegins
  <1>5. StationInv'
    BY <1>4 DEF WithdrawalRegisters, Inv, StationInv
  <1>6. \A q \in Routines : Moves(q)
    BY Stays DEF WithdrawalRegisters
  <1> HIDE DEF m
  <1> QED
    BY <1>2, <1>4, <1>5, <1>6, BegunKeeps DEF WithdrawalRegisters

LEMMA EndKeeps ==
    ASSUME Inv, TypeOK', NEW m \in Fields, SameCount(m, me), SameNumber(m, me), m.registered => me.registered,
           NEW withdrawn \in BOOLEAN, wd.at # "off", withdrawn => wd.at = "post" /\ wd.answer = "ok",
           ~withdrawn => posts' = Abandoned("withdrawal") \/ (posts' = posts /\ wd.answer # "none"),
           withdrawn => posts' = posts,
           EndWithdrawal(m, withdrawn), UNCHANGED controller
    PROVE  Inv'
  <1> USE TypeParts, MotionControlAssumption
  <1>0. posts \in Seq(Message) /\ "withdrawal" \notin Routines /\ "nobody" \notin Routines
    BY DEF Inv, Routines
  <1>1. /\ SameRequests /\ SameLength /\ OneEach'
        /\ \A i \in DOMAIN posts' : posts'[i].who # "withdrawal"
    <2>1. CASE posts' = posts /\ wd.answer # "none"
      BY <2>1, SamePosts DEF Inv, WithdrawalPosts, OneEach
    <2>2. CASE posts' = Abandoned("withdrawal")
      <3>1. /\ Len(posts') = Len(posts) /\ DOMAIN posts' = DOMAIN posts /\ posts' \in Seq(Message)
            /\ \A i \in DOMAIN posts :
                  /\ posts'[i].allow = posts[i].allow
                  /\ posts'[i].who = IF posts[i].who = "withdrawal" THEN "nobody" ELSE posts[i].who
        BY <1>0, <2>2, AbandonedPosts
      <3>2. \A i \in DOMAIN posts : posts[i].who # "withdrawal" => posts'[i] = posts[i]
        BY <2>2 DEF Abandoned
      <3>3. SameRequests
        BY <1>0, <3>1, <3>2 DEF Inv, WithdrawalPosts, SameRequests
      <3>4. SameLength
        BY <1>0, <3>1 DEF SameLength
      <3>5. OneEach'
        BY <3>1 DEF Inv, OneEach
      <3> QED
        BY <3>1, <3>3, <3>4, <3>5
    <2> QED
      BY <2>1, <2>2
  <1>2. wd'.at = "off" /\ wd'.answer = "none"
    BY DEF EndWithdrawal, Off
  <1>3. WithdrawalPosts' /\ WithdrawalInv'
    BY <1>1, <1>2 DEF WithdrawalPosts, WithdrawalInv
  <1>4. (Risk' => Risk) /\ (Latent' => Latent)
    BY <1>1, SameRisk, SameLatent DEF controller
  <1>5. withdrawn /\ (wd.covers \/ teardown = "join") => ~Risk /\ posts = <<>>
    BY DEF Inv, WithdrawalInv, Risk
  <1> DEFINE n == Settled(m, withdrawn)
  <1>6. /\ n \in Fields /\ SameNumber(n, me) /\ n.registered = m.registered
        /\ SameCount(n, me) \/ (withdrawn /\ wd.covers)
    <2>1. CASE withdrawn /\ wd.covers
      <3>1. n = [AllowanceEnded(m) EXCEPT !.known = "no"]
        BY <2>1 DEF Settled
      <3>2. AllowanceEnded(m) \in Fields /\ SameNumber(AllowanceEnded(m), m) /\ AllowanceEnded(m).registered = m.registered
        BY AllowanceEndedIs
      <3> HIDE DEF n
      <3>3. n \in Fields /\ SameNumber(n, AllowanceEnded(m)) /\ n.registered = AllowanceEnded(m).registered
        BY <3>1, <3>2 DEF Fields, SameNumber
      <3> QED
        BY <2>1, <3>2, <3>3 DEF SameNumber
    <2>2. CASE ~(withdrawn /\ wd.covers)
      <3>1. n = m \/ n = [m EXCEPT !.known = "unknown"]
        BY <2>2 DEF Settled
      <3> HIDE DEF n
      <3> QED
        BY <3>1 DEF Fields, SameNumber, SameCount
    <2> QED
      BY <2>1, <2>2
  <1> DEFINE c == IF "join" \in {manager, teardown} THEN wd.covers ELSE n.covered
  <1>7. me' = [n EXCEPT !.covered = c]
    BY DEF EndWithdrawal
  <1> HIDE DEF n
  <1>8. c = wd.covers \/ c = me.covered
    BY <1>6 DEF SameNumber
  <1>9. c \in BOOLEAN
    BY <1>8 DEF Inv, Fields, Withdrawal
  <1> HIDE DEF c
  <1>10. /\ me'.latest = me.latest /\ (me'.registered => me.registered) /\ me'.covered = c
         /\ me'.declared = n.declared /\ me'.unanswered = n.unanswered
    BY <1>6, <1>7, <1>9 DEF Fields, SameNumber
  <1>11. Counted'
    BY <1>4, <1>5, <1>6, <1>10 DEF Inv, Counted, SameCount, Risk, Latent
  <1>12. told' = (told \/ ~withdrawn) /\ phase' = phase
    BY DEF EndWithdrawal
  <1>13. /\ teardown' = CASE teardown = "wait" -> "woken" [] teardown = "join" -> "done" [] OTHER -> teardown
    BY DEF EndWithdrawal
  <1>14. StationInv'
    BY <1>10, <1>12, <1>13 DEF Inv, StationInv, TeardownInv, controller
  <1>15. TeardownInv'
    <2>1. me'.covered => (Risk' => told')
      BY <1>4, <1>5, <1>8, <1>10, <1>12 DEF Inv, TeardownInv
    <2>2. teardown' = "done" => phase' \in {"closing", "closed"} /\ (Risk' => told')
      BY <1>4, <1>5, <1>12, <1>13 DEF Inv, TeardownInv
    <2>3. posts = <<>> => posts' = <<>>
      BY <1>1 DEF SameLength
    <2> QED
      BY <1>4, <1>12, <1>13, <2>1, <2>2, <2>3 DEF Inv, TeardownInv
  <1>16. ASSUME NEW q \in Routines PROVE Moves(q)
    <2>0. run[q] \in Routine
      BY DEF Inv, Runs
    <2>1. run'[q] = CASE run[q].at = "join" -> [run[q] EXCEPT !.at = "joined"]
                      [] run[q].at = "leftjoin" -> [run[q] EXCEPT !.at = "leftjoined", !.withdrawn = withdrawn]
                      [] OTHER -> run[q]
      BY DEF EndWithdrawal
    <2>2. flying' = flying
      BY DEF EndWithdrawal
    <2>3. CASE run[q].at \in {"join", "leftjoin"}
      <3>1. /\ run'[q].at \in {"joined", "leftjoined"} /\ run'[q].kind = run[q].kind
            /\ run'[q].answer = run[q].answer
            /\ Untaken(run'[q]) => Untaken(run[q])
        BY <2>0, <2>1, <2>3 DEF Routine, Untaken
      <3>2. \A i \in DOMAIN posts : posts[i].who # q
        BY <2>3 DEF Inv, RoutinePosts
      <3> QED
        BY <2>2, <2>3, <3>1, <3>2 DEF Moves, Inv, RoutineInv
    <2>4. CASE run[q].at \notin {"join", "leftjoin"}
      BY <2>1, <2>2, <2>4 DEF Moves
    <2> QED
      BY <2>3, <2>4
  <1>17. RoutinePosts' /\ RoutineInv' /\ LatestInv' /\ FirstPostInv'
    BY <1>1, <1>10, <1>16, RunFrame DEF controller
  <1> QED
    BY <1>1, <1>3, <1>11, <1>14, <1>15, <1>17 DEF Inv

LEMMA WithdrawalAnsweredKeeps ==
    ASSUME Inv, TypeOK', WithdrawalAnswered
    PROVE  Inv'
  <1> USE TypeParts
  <1>0. me \in Fields /\ wd \in Withdrawal /\ wd.at = "post" /\ posts' = posts /\ UNCHANGED controller
    BY DEF Inv, WithdrawalAnswered
  <1>1. CASE wd.answer = "ok" /\ EndWithdrawal(me, TRUE)
    BY <1>0, <1>1, EndKeeps DEF SameCount, SameNumber
  <1> DEFINE m == [me EXCEPT !.registered = @ /\ wd.answer # "noStation"]
  <1>2. CASE wd.answer # "none" /\ EndWithdrawal(m, FALSE)
    <2>1. m \in Fields /\ SameCount(m, me) /\ SameNumber(m, me) /\ (m.registered => me.registered)
      BY <1>0 DEF Fields, SameCount, SameNumber
    <2> HIDE DEF m
    <2> QED
      BY <1>0, <1>2, <2>1, EndKeeps
  <1>3. CASE /\ wd.answer = "noStation" /\ ~wd.second
             /\ me' = [me EXCEPT !.registered = FALSE]
             /\ wd' = [wd EXCEPT !.at = "register", !.second = TRUE, !.answer = "none"]
             /\ UNCHANGED <<phase, run, flying, manager, teardown, told>>
    <2>1. me' \in Fields /\ SameCount(me', me) /\ SameNumber(me', me) /\ me'.registered = FALSE
      BY <1>0, <1>3 DEF Fields, SameCount, SameNumber
    <2>2. wd'.at = "register"
      BY <1>0, <1>3 DEF Withdrawal
    <2>3. WithdrawalPosts' /\ OneEach' /\ WithdrawalInv'
      BY <1>0, <1>3, <2>2 DEF Inv, WithdrawalPosts, OneEach, WithdrawalInv
    <2>4. Begun(me)
      <3>1. SameRequests /\ SameLength
        BY <1>0, SamePosts
      <3> QED
        BY <1>0, <2>1, <2>2, <2>3, <3>1 DEF Begun, SameCount, SameNumber
    <2>5. StationInv'
      BY <1>3, <2>1 DEF Inv, StationInv, WithdrawalAnswered, controller
    <2>6. \A q \in Routines : Moves(q)
      BY <1>3, Stays
    <2> QED
      BY <1>0, <1>3, <2>4, <2>5, <2>6, FieldsFit, BegunKeeps DEF controller
  <1> QED
    BY <1>1, <1>2, <1>3 DEF WithdrawalAnswered

LEMMA WithdrawalFailsKeeps ==
    ASSUME Inv, TypeOK', WithdrawalFails
    PROVE  Inv'
  <1>1. me \in Fields /\ SameCount(me, me) /\ SameNumber(me, me)
    BY TypeParts DEF Inv, SameCount, SameNumber
  <1> QED
    BY <1>1, EndKeeps DEF WithdrawalFails

-----------------------------------------------------------------------------
(* Steps that send nothing and start no withdrawal. *)

LEMMA QuietKeeps ==
    ASSUME Inv, TypeOK', posts' = posts, allowed' = "own" => allowed = "own",
           me'.latest \in {me.latest, "nobody"}, me'.covered => me.covered,
           Risk => me'.declared, Latent => me'.unanswered, StationInv',
           wd'.at = wd.at, wd'.answer = wd.answer, wd'.covers => wd.covers,
           phase' = phase, teardown' = teardown, told => told',
           \A q \in Routines : Moves(q)
    PROVE  Inv'
  <1>1. SameRequests /\ SameLength
    BY SamePosts
  <1>2. RoutinePosts' /\ RoutineInv' /\ LatestInv' /\ FirstPostInv'
    BY <1>1, RunFrame
  <1>3. WithdrawalPosts' /\ OneEach' /\ WithdrawalInv'
    BY WithdrawalFrame
  <1>4. (Risk' => Risk) /\ (Latent' => Latent)
    BY <1>1, SameRisk, SameLatent
  <1>5. Counted'
    BY <1>4 DEF Counted
  <1>6. TeardownInv'
    BY <1>4, TeardownFrame
  <1> QED
    BY <1>2, <1>3, <1>5, <1>6 DEF Inv

LEMMA StrayEndsKeeps ==
    ASSUME Inv, TypeOK', StrayEnds
    PROVE  Inv'
  <1>1. me \in Fields /\ (Risk => me.declared) /\ (Latent => me.unanswered)
    BY TypeParts DEF Inv, Counted
  <1>2. SameCount(me', me) /\ SameNumber(me', me)
    BY <1>1 DEF StrayEnds, Fields, SameCount, SameNumber
  <1>3. StationInv'
    BY <1>1 DEF StrayEnds, Inv, StationInv, Fields
  <1>4. \A q \in Routines : Moves(q)
    BY Stays DEF StrayEnds
  <1> QED
    BY <1>1, <1>2, <1>3, <1>4, QuietKeeps DEF StrayEnds, SameCount, SameNumber

\* A routine of which nothing is on its way takes a step.
LEMMA Moved ==
    ASSUME Inv, NEW p \in Routines, NEW r \in Routine, r.at # "post", r.at # "snapshot" => r.answer = "none",
           run' = [run EXCEPT ![p] = r], \A i \in DOMAIN posts : posts[i].who # p,
           \A q \in flying : q # p => q \in flying',
           r.kind = "allow" => p \in Setters /\ (r.at \notin {"idle", "snapshot"} => p \in flying'),
           Untaken(r) => Untaken(run[p]) \/ ~Risk
    PROVE  \A q \in Routines : Moves(q)
  <1>1. run \in Runs
    BY TypeParts DEF Inv
  <1>2. run'[p] = r /\ \A q \in Routines : q # p => run'[q] = run[q]
    BY <1>1 DEF Runs
  <1> QED
    BY <1>2 DEF Moves

LEMMA EndedMoves ==
    ASSUME Inv, NEW p \in Routines, Ended(p), \A i \in DOMAIN posts : posts[i].who # p,
           \A q \in flying : q # p => q \in flying'
    PROVE  \A q \in Routines : Moves(q)
  <1>1. Idle \in Routine /\ Idle.at = "idle" /\ Idle.kind = "get" /\ Idle.answer = "none" /\ ~Untaken(Idle)
    BY DEF Idle, Routine, Places, Kinds, Answers, Untaken
  <1> QED
    BY <1>1, Moved DEF Ended

LEMMA NothingSent ==
    ASSUME Inv, NEW p \in Routines, run[p].at # "post" \/ run[p].answer # "none"
    PROVE  \A i \in DOMAIN posts : posts[i].who # p
  BY DEF Inv, RoutinePosts

LEMMA GoesMoves ==
    ASSUME Inv, NEW p \in Routines, NEW place \in Places \ {"post"}, Goes(p, place),
           \A i \in DOMAIN posts : posts[i].who # p,
           \A q \in flying : q # p \/ place # "snapshot" => q \in flying',
           run[p].at \in {"idle", "post", "snapshot"} => place = "snapshot"
    PROVE  \A q \in Routines : Moves(q)
  <1> DEFINE seen == Overtaking /\ Reads
             r == [run[p] EXCEPT !.at = place, !.seen = seen]
  <1>1. run \in Runs /\ run[p] \in Routine
    BY TypeParts DEF Inv, Runs
  <1>2. run' = [run EXCEPT ![p] = r] /\ seen \in BOOLEAN
    BY <1>1 DEF Goes, Runs, Reads
  <1> HIDE DEF seen
  <1>3. /\ r \in Routine /\ r.at = place /\ r.kind = run[p].kind
        /\ r.before = run[p].before /\ r.second = run[p].second /\ r.answer = run[p].answer
    BY <1>1, <1>2 DEF Routine
  <1> HIDE DEF r
  <1>4. Untaken(r) => Untaken(run[p])
    BY <1>3 DEF Untaken
  <1>5. /\ r.kind = "allow" => p \in Setters /\ (r.at \notin {"idle", "snapshot"} => p \in flying')
        /\ r.at # "snapshot" => r.answer = "none"
    BY <1>3 DEF Inv, RoutineInv
  <1> QED
    BY <1>2, <1>3, <1>4, <1>5, Moved

-----------------------------------------------------------------------------
(* setAllowMotionControl. *)

\* A routine sends its POST.
LEMMA SendKeeps ==
    ASSUME OneSetter, Inv, TypeOK', NEW p \in Routines, NEW r \in Routine, NEW m, Fits(m), phase = "open",
           \A i \in DOMAIN posts : posts[i].who # p,
           r.at = "post", r.answer = "none", run' = [run EXCEPT ![p] = r],
           me' = [Numbered(m, p) EXCEPT !.declared = @ \/ r.kind = "allow"],
           wd' = [wd EXCEPT !.covers = FALSE],
           posts' = Append(posts, [who |-> p, allow |-> r.kind = "allow"]),
           r.kind = "allow" => p \in Setters /\ p \in flying',
           \A q \in flying : q # p => q \in flying',
           Untaken(r) => Untaken(run[p]) \/ ~Risk,
           m.registered /\ ~gone => station',
           UNCHANGED <<phase, teardown, gone, allowed>>
    PROVE  Inv'
  <1> USE TypeParts, MotionControlAssumption
  <1> DEFINE allow == r.kind = "allow"
             e == [who |-> p, allow |-> allow]
  <1>0. posts \in Seq(Message) /\ e \in Message /\ p \in WhoIsIt /\ p # "withdrawal" /\ p # "nobody"
    BY DEF Inv, Message, WhoIsIt, Routines
  <1>1. /\ Len(posts') = Len(posts) + 1 /\ Len(posts) \in Nat
        /\ DOMAIN posts' = 1 .. Len(posts) + 1 /\ DOMAIN posts = 1 .. Len(posts)
        /\ \A i \in 1 .. Len(posts) : posts'[i] = posts[i]
        /\ posts'[Len(posts) + 1] = e
    BY <1>0, Appended
  <1>2. e.who = p /\ (e.allow <=> allow)
    OBVIOUS
  <1> HIDE DEF e
  <1>3. run \in Runs /\ run'[p] = r /\ \A q \in Routines : q # p => run'[q] = run[q]
    BY DEF Inv, Runs
  <1>4. /\ me'.latest = p /\ me'.covered = FALSE /\ me'.unanswered = m.unanswered
        /\ me'.registered = m.registered /\ (me'.declared <=> m.declared \/ allow)
    <2> DEFINE n == Numbered(m, p)
    <2>1. /\ n \in Fields /\ SameCount(n, m) /\ n.latest = p /\ n.covered = FALSE
          /\ n.registered = m.registered
      BY <1>0, NumberedIs DEF Fits
    <2>2. me' = [n EXCEPT !.declared = @ \/ allow]
      OBVIOUS
    <2> HIDE DEF n
    <2>3. n.declared \in BOOLEAN /\ m.declared \in BOOLEAN
      BY <2>1 DEF Fields, Fits
    <2> QED
      BY <2>1, <2>2, <2>3 DEF Fields, SameCount
  <1>5. wd'.at = wd.at /\ wd'.answer = wd.answer /\ ~wd'.covers
    BY DEF Inv, Withdrawal
  <1>6. RoutinePosts'
    <2> SUFFICES ASSUME NEW i \in DOMAIN posts', posts'[i].who \in Routines
                 PROVE  LET q == posts'[i].who IN
                        /\ run'[q].at = "post" /\ run'[q].answer = "none"
                        /\ posts'[i].allow <=> run'[q].kind = "allow"
      BY DEF RoutinePosts
    <2>1. CASE i = Len(posts) + 1
      BY <1>1, <1>2, <1>3, <2>1
    <2>2. CASE i \in DOMAIN posts
      BY <1>1, <1>3, <2>2 DEF Inv, RoutinePosts
    <2> QED
      BY <1>1, <2>1, <2>2
  <1>7. WithdrawalPosts'
    BY <1>0, <1>1, <1>2, <1>5 DEF Inv, WithdrawalPosts
  <1>8. OneEach'
    BY <1>1, <1>2 DEF Inv, OneEach
  <1>9. RoutineInv'
    <2> SUFFICES ASSUME NEW q \in Routines
                 PROVE  /\ run'[q].kind = "allow" =>
                              q \in Setters /\ (run'[q].at \notin {"idle", "snapshot"} => q \in flying')
                        /\ run'[q].at \notin {"post", "snapshot"} => run'[q].answer = "none"
      BY DEF RoutineInv
    <2> QED
      BY <1>3 DEF Inv, RoutineInv
  <1>10. LatestInv'
    <2>1. ASSUME NEW i \in DOMAIN posts', posts'[i].who = me'.latest PROVE i = Len(posts')
      BY <1>1, <1>4, <2>1
    <2>2. ASSUME NEW q \in Routines, run'[q].at = "post", me'.latest = q PROVE run'[q].answer = "none"
      BY <1>3, <1>4, <2>2
    <2> QED
      BY <2>1, <2>2 DEF LatestInv
  <1>11. WithdrawalInv'
    BY <1>5 DEF Inv, TeardownInv, WithdrawalInv
  <1>12. FirstPostInv'
    <2> SUFFICES ASSUME NEW q \in Routines, Untaken(run'[q])
                 PROVE  /\ allowed' # "own"
                        /\ \A i \in DOMAIN posts' : posts'[i].allow => posts'[i].who = q /\ run'[q].answer = "none"
      BY DEF FirstPostInv, Untaken
    <2>1. CASE q = p
      <3>1. ~Risk
        <4>1. CASE Untaken(run[p])
          BY <4>1 DEF Inv, FirstPostInv, Risk
        <4> QED
          BY <1>3, <2>1, <4>1
      <3> QED
        BY <1>1, <1>2, <1>3, <2>1, <3>1 DEF Risk
    <2>2. CASE q # p
      <3>1. run'[q] = run[q] /\ q \in Setters
        BY <1>3, <2>2 DEF Inv, RoutineInv, Untaken
      <3>2. ~allow
        BY <2>2, <3>1 DEF OneSetter
      <3> QED
        BY <1>1, <1>2, <3>1, <3>2 DEF Inv, FirstPostInv
    <2> QED
      BY <2>1, <2>2
  <1>13. Counted'
    <2>1. allow \/ (Risk' => Risk)
      BY <1>1, <1>2 DEF Risk
    <2>2. Latent' => Latent
      BY <1>0, <1>1, <1>2 DEF Latent
    <2> QED
      BY <1>4, <2>1, <2>2 DEF Counted, Fits
  <1>14. TeardownInv'
    BY <1>4 DEF Inv, TeardownInv
  <1>15. StationInv'
    BY <1>4 DEF StationInv
  <1> QED
    BY <1>6, <1>7, <1>8, <1>9, <1>10, <1>11, <1>12, <1>13, <1>14, <1>15 DEF Inv

\* A registered session: the write or the operation goes on.
LEMMA ProceedKeeps ==
    ASSUME OneSetter, Inv, TypeOK', NEW p \in Routines, NEW m, Fits(m),
           run[p].at \notin {"idle", "snapshot", "post"}, Proceed(p, m),
           m.registered /\ ~gone => station',
           phase = "closed" /\ teardown = "off" => ~m.registered,
           UNCHANGED <<phase, teardown, gone, allowed>>
    PROVE  Inv'
  <1> USE TypeParts
  <1>0. \A i \in DOMAIN posts : posts[i].who # p
    BY NothingSent
  <1>1. m \in Fields /\ m.latest = me.latest /\ m.covered = me.covered /\ (Risk => m.declared) /\ (Latent => m.unanswered)
    BY DEF Fits, SameNumber
  <1>2. CASE me' = m /\ wd' = wd /\ Ended(p) /\ posts' = posts /\ told' = told /\ (flying' = flying \/ flying' = flying \ {p})
    <2>1. StationInv'
      BY <1>2 DEF Inv, StationInv
    <2>2. \A q \in Routines : Moves(q)
      BY <1>0, <1>2, EndedMoves
    <2> QED
      BY <1>1, <1>2, <2>1, <2>2, QuietKeeps
  <1>3. CASE /\ me' = Numbered(m, "nobody") /\ wd' = [wd EXCEPT !.covers = FALSE] /\ Ended(p)
             /\ posts' = posts /\ told' = told /\ flying' = flying \ {p}
    <2>1. /\ SameCount(me', m) /\ me'.latest = "nobody" /\ me'.covered = FALSE /\ me'.registered = m.registered
      BY <1>1, <1>3, NumberedIs DEF WhoIsIt
    <2>2. StationInv'
      BY <2>1 DEF Inv, StationInv
    <2>3. \A q \in Routines : Moves(q)
      BY <1>0, <1>3, EndedMoves
    <2>4. wd'.at = wd.at /\ wd'.answer = wd.answer /\ ~wd'.covers
      BY <1>3 DEF Inv, Withdrawal
    <2> QED
      BY <1>1, <1>3, <2>1, <2>2, <2>3, <2>4, QuietKeeps DEF SameCount
  <1> DEFINE r == [run[p] EXCEPT !.at = "post", !.answer = "none"]
             allow == run[p].kind = "allow"
  <1>4. CASE /\ phase = "open"
             /\ me' = [Numbered(m, p) EXCEPT !.declared = @ \/ allow]
             /\ wd' = [wd EXCEPT !.covers = FALSE]
             /\ run' = [run EXCEPT ![p].at = "post", ![p].answer = "none"]
             /\ posts' = Append(posts, [who |-> p, allow |-> allow])
             /\ UNCHANGED flying
    <2>1. run \in Runs /\ run[p] \in Routine
      BY DEF Inv, Runs
    <2>2. run' = [run EXCEPT ![p] = r]
      BY <1>4, <2>1 DEF Runs
    <2>3. /\ r \in Routine /\ r.at = "post" /\ r.answer = "none" /\ r.kind = run[p].kind
          /\ r.before = run[p].before /\ r.second = run[p].second
      BY <2>1 DEF Routine, Places, Answers
    <2> HIDE DEF r
    <2>4. r.kind = "allow" => p \in Setters /\ p \in flying'
      BY <1>4, <2>3 DEF Inv, RoutineInv
    <2>5. Untaken(r) => Untaken(run[p]) \/ ~Risk
      BY <2>3 DEF Untaken, Inv, RoutineInv
    <2>6. me' = [Numbered(m, p) EXCEPT !.declared = @ \/ r.kind = "allow"]
      BY <1>4, <2>3
    <2>7. posts' = Append(posts, [who |-> p, allow |-> r.kind = "allow"])
      BY <1>4, <2>3
    <2> QED
      BY <1>0, <1>4, <2>2, <2>3, <2>4, <2>5, <2>6, <2>7, SendKeeps
  <1> QED
    BY <1>2, <1>3, <1>4 DEF Proceed, PostAllowance

LEMMA FitsToo ==
    ASSUME NEW m, Fits(m), NEW n \in Fields, SameCount(n, m), SameNumber(n, m)
    PROVE  Fits(n)
  BY DEF Fits, SameCount, SameNumber

\* A read false of a registered session, with nothing in flight or unanswered, means that nothing stands.
LEMMA NotedFits ==
    ASSUME OneSetter, Inv, ~gone, NEW p, NEW enabled \in Found(p)
    PROVE  Fits(Noted(me, enabled)) /\ Noted(me, enabled).registered = me.registered
  <1> USE TypeParts
  <1>1. me \in Fields /\ enabled \in BOOLEAN /\ enabled = Reads
    BY FoundIs DEF Inv, OneSetter
  <1> DEFINE n == Noted(me, enabled)
  <1>2. /\ n \in Fields /\ SameNumber(n, me) /\ n.registered = me.registered
        /\ SameCount(n, me) \/ Ending(me, n, enabled)
    BY <1>1, NotedIs
  <1> HIDE DEF n
  <1>3. CASE SameCount(n, me)
    BY <1>2, <1>3, FieldsFit, FitsToo DEF n
  <1>4. CASE Ending(me, n, enabled)
    <2>1. station /\ allowed = "no"
      BY <1>1, <1>4 DEF Ending, Inv, StationInv, Reads
    <2>2. ASSUME NEW i \in DOMAIN posts, posts[i].allow PROVE FALSE
      <3>a. posts \in Seq(Message)
        BY DEF Inv
      <3>0. posts[i] \in Message
        BY <3>a
      <3>1. posts[i].who \in Routines \cup {"withdrawal", "nobody"}
        BY <3>0 DEF Message
      <3>2. CASE posts[i].who \in Routines
        BY <1>4, <2>2, <3>2 DEF Ending, Inv, RoutinePosts, RoutineInv
      <3>3. CASE posts[i].who = "withdrawal"
        BY <2>2, <3>3 DEF Inv, WithdrawalPosts
      <3>4. CASE posts[i].who = "nobody"
        BY <1>4, <2>2, <3>4 DEF Ending, Inv, Counted, Latent
      <3> QED
        BY <3>1, <3>2, <3>3, <3>4
    <2>3. ~Risk /\ ~Latent
      BY <2>1, <2>2 DEF Risk, Latent
    <2> QED
      BY <1>2, <2>3 DEF Fits, n
  <1> QED
    BY <1>2, <1>3, <1>4

LEMMA RegistersKeeps ==
    ASSUME OneSetter, Inv, TypeOK', NEW p \in Routines, Registers(p)
    PROVE  Inv'
  <1> DEFINE m == [me EXCEPT !.registered = TRUE]
             n == [m EXCEPT !.checking = FALSE]
             k == [m EXCEPT !.checking = TRUE]
  <1>0. /\ run[p].at = "register" /\ ~gone /\ station' = TRUE
        /\ UNCHANGED <<phase, stray, manager, teardown, gone, allowed>>
    BY DEF Registers
  <1>1. /\ m \in Fields /\ SameCount(m, me) /\ SameNumber(m, me)
        /\ n \in Fields /\ SameCount(n, me) /\ SameNumber(n, me)
        /\ k \in Fields /\ SameCount(k, me) /\ SameNumber(k, me)
    BY TypeParts DEF Inv, Fields, SameCount, SameNumber
  <1>2. Fits(m) /\ Fits(n) /\ Fits(k)
    BY <1>1, FieldsFit, FitsToo
  <1>3. StationInv' /\ ~(phase = "closed" /\ teardown = "off")
    BY <1>0 DEF Inv, StationInv
  <1>4. \A i \in DOMAIN posts : posts[i].who # p
    BY <1>0, NothingSent
  <1>b. \/ Withdraw(m, "registration") /\ Goes(p, "join") /\ UNCHANGED <<flying, told>>
        \/ /\ me' = k
           /\ run' = [run EXCEPT ![p].at = "read", ![p].seen = Overtaking /\ allowed # "no"]
           /\ UNCHANGED <<flying, wd, posts, told>>
        \/ Proceed(p, n)
    BY DEF Registers
  <1> HIDE DEF m, n, k
  <1>5. CASE Withdraw(m, "registration") /\ Goes(p, "join") /\ UNCHANGED <<flying, told>>
    <2>1. Begun(m)
      BY <1>0, <1>1, <1>5, WithdrawBegins DEF Triggers
    <2>2. \A q \in Routines : Moves(q)
      BY <1>0, <1>4, <1>5, GoesMoves DEF Places
    <2> QED
      BY <1>0, <1>2, <1>3, <1>5, <2>1, <2>2, BegunKeeps
  <1>6. CASE /\ me' = k
             /\ run' = [run EXCEPT ![p].at = "read", ![p].seen = Overtaking /\ allowed # "no"]
             /\ UNCHANGED <<flying, wd, posts, told>>
    <2>1. Goes(p, "read")
      BY <1>6 DEF Goes, Reads, OneSetter
    <2>2. \A q \in Routines : Moves(q)
      BY <1>0, <1>4, <1>6, <2>1, GoesMoves DEF Places
    <2> QED
      BY <1>0, <1>2, <1>3, <1>6, <2>2, QuietKeeps DEF Fits, SameNumber
  <1>7. CASE Proceed(p, n)
    BY <1>0, <1>2, <1>3, <1>7, ProceedKeeps
  <1> QED
    BY <1>b, <1>5, <1>6, <1>7

LEMMA RegisterFailsKeeps ==
    ASSUME Inv, TypeOK', NEW p \in Routines, RegisterFails(p)
    PROVE  Inv'
  <1>1. \A i \in DOMAIN posts : posts[i].who # p
    BY NothingSent DEF RegisterFails
  <1>2. \A q \in Routines : Moves(q)
    BY <1>1, EndedMoves DEF RegisterFails
  <1>3. StationInv'
    BY DEF RegisterFails, Inv, StationInv
  <1> QED
    BY <1>2, <1>3, QuietKeeps DEF RegisterFails, Inv, Counted

LEMMA ReadThenKeeps ==
    ASSUME OneSetter, Inv, TypeOK', NEW p \in Routines, NEW place \in {"read", "leftread"},
           run[p].at \in {"joined", "leftjoined"}, ReadThen(p, place),
           UNCHANGED <<phase, stray, manager, teardown, controller>>
    PROVE  Inv'
  <1> DEFINE m == [me EXCEPT !.checking = FALSE]
             k == [me EXCEPT !.checking = TRUE]
  <1>1. /\ m \in Fields /\ SameCount(m, me) /\ SameNumber(m, me) /\ m.registered = me.registered
        /\ k \in Fields /\ SameCount(k, me) /\ SameNumber(k, me) /\ k.registered = me.registered
    BY TypeParts DEF Inv, Fields, SameCount, SameNumber
  <1>2. Fits(m) /\ Fits(k)
    BY <1>1, FieldsFit, FitsToo
  <1>3. \/ Proceed(p, m)
        \/ me' = k /\ Goes(p, place) /\ UNCHANGED <<flying, wd, posts, told>>
    BY DEF ReadThen
  <1> HIDE DEF m, k
  <1>4. \A i \in DOMAIN posts : posts[i].who # p
    BY NothingSent
  <1>5. CASE Proceed(p, m)
    BY <1>1, <1>2, <1>5, ProceedKeeps DEF controller, Inv, StationInv
  <1>6. CASE me' = k /\ Goes(p, place) /\ UNCHANGED <<flying, wd, posts, told>>
    <2>1. \A q \in Routines : Moves(q)
      BY <1>4, <1>6, GoesMoves DEF Places
    <2>2. StationInv'
      BY <1>1, <1>6 DEF Inv, StationInv, controller
    <2> QED
      BY <1>2, <1>6, <2>1, <2>2, QuietKeeps DEF Fits, SameNumber, controller
  <1> QED
    BY <1>3, <1>5, <1>6

LEMMA ResumeKeeps ==
    ASSUME OneSetter, Inv, TypeOK', NEW p \in Routines, Resume(p)
    PROVE  Inv'
  <1>0. run[p].at \in {"joined", "leftjoined"} /\ UNCHANGED <<phase, stray, manager, teardown, controller>>
    BY DEF Resume
  <1>1. CASE ReadThen(p, "read") \/ ReadThen(p, "leftread")
    BY <1>0, <1>1, ReadThenKeeps
  <1>2. CASE Proceed(p, me)
    BY <1>0, <1>2, FieldsFit, ProceedKeeps DEF controller, Inv, StationInv
  <1>3. CASE /\ IF me.registered /\ phase = "open" THEN Goes(p, "snapshot") ELSE Ended(p)
             /\ UNCHANGED <<me, flying, wd, posts, told>>
    <2>1. \A i \in DOMAIN posts : posts[i].who # p
      BY <1>0, NothingSent
    <2>2. \A q \in Routines : Moves(q)
      BY <1>3, <2>1, GoesMoves, EndedMoves DEF Places
    <2>3. StationInv'
      BY <1>0, <1>3 DEF Inv, StationInv, controller
    <2> QED
      BY <1>0, <1>3, <2>2, <2>3, QuietKeeps DEF Inv, Counted, controller
  <1> QED
    BY <1>1, <1>2, <1>3 DEF Resume

LEMMA ReadEndsKeeps ==
    ASSUME OneSetter, Inv, TypeOK', NEW p \in Routines, ReadEnds(p) \/ LeftoverReadEnds(p)
    PROVE  Inv'
  <1>0. run[p].at \in {"read", "leftread"} /\ UNCHANGED <<phase, stray, manager, teardown, controller>>
    BY DEF ReadEnds, LeftoverReadEnds
  <1>1. ASSUME NEW m, Fits(m), m.registered = me.registered, Proceed(p, m) PROVE Inv'
    BY <1>0, <1>1, ProceedKeeps DEF controller, Inv, StationInv
  <1>2. CASE Proceed(p, [me EXCEPT !.checking = FALSE])
    <2> DEFINE m == [me EXCEPT !.checking = FALSE]
    <2>1. m \in Fields /\ SameCount(m, me) /\ SameNumber(m, me) /\ m.registered = me.registered
      BY TypeParts DEF Inv, Fields, SameCount, SameNumber
    <2>2. Fits(m)
      BY <2>1, FieldsFit, FitsToo
    <2> QED
      BY <1>1, <1>2, <2>1, <2>2
  <1> DEFINE m(enabled) == [Noted(me, enabled) EXCEPT !.checking = FALSE]
             l(enabled) == [m(enabled) EXCEPT !.declared = TRUE]
             n(enabled) == IF enabled THEN [m(enabled) EXCEPT !.declared = TRUE, !.known = "unknown"] ELSE m(enabled)
  <1>3. CASE ~Proceed(p, [me EXCEPT !.checking = FALSE])
    <2>1. PICK enabled \in Found(p) :
             /\ ~gone
             /\ \/ Withdraw(l(enabled), "leftover") /\ Goes(p, "leftjoin") /\ UNCHANGED <<flying, told>>
                \/ Proceed(p, m(enabled))
                \/ Proceed(p, n(enabled))
      BY <1>3 DEF ReadEnds, LeftoverReadEnds
    <2> DEFINE x == Noted(me, enabled)
    <2>2. Fits(x) /\ x.registered = me.registered /\ x \in Fields
      BY <2>1, NotedFits DEF Fits
    <2> HIDE DEF x
    <2>3. /\ m(enabled) \in Fields /\ SameCount(m(enabled), x) /\ SameNumber(m(enabled), x)
          /\ m(enabled).registered = x.registered
      BY <2>2 DEF Fields, SameCount, SameNumber, x
    <2>4. Fits(m(enabled))
      BY <2>2, <2>3, FitsToo
    <2>5. Fits(l(enabled)) /\ l(enabled).registered = m(enabled).registered
      <3> HIDE DEF m
      <3> QED
        BY <2>3, <2>4 DEF Fits, Fields, SameNumber
    <2>6. Fits(n(enabled)) /\ n(enabled).registered = m(enabled).registered
      <3> HIDE DEF m
      <3>1. CASE ~enabled
        BY <2>4, <3>1
      <3>2. CASE enabled
        BY <2>3, <2>4, <3>2 DEF Fits, Fields, SameNumber
      <3> QED
        BY <3>1, <3>2
    <2> HIDE DEF m, l, n
    <2>7. CASE Withdraw(l(enabled), "leftover") /\ Goes(p, "leftjoin") /\ UNCHANGED <<flying, told>>
      <3>1. Begun(l(enabled))
        BY <1>0, <2>5, <2>7, WithdrawBegins DEF Triggers, Fits, controller
      <3>2. \A i \in DOMAIN posts : posts[i].who # p
        BY <1>0, NothingSent
      <3>3. \A q \in Routines : Moves(q)
        BY <1>0, <2>7, <3>2, GoesMoves DEF Places
      <3>4. StationInv'
        BY <1>0, <2>2, <2>3, <2>5, <3>1 DEF Begun, Inv, StationInv, controller
      <3> QED
        BY <1>0, <2>5, <2>7, <3>1, <3>3, <3>4, BegunKeeps DEF controller
    <2> QED
      BY <1>1, <2>1, <2>2, <2>3, <2>4, <2>6, <2>7
  <1> QED
    BY <1>2, <1>3

LEMMA SnapshotEndsKeeps ==
    ASSUME OneSetter, Inv, TypeOK', NEW p \in Routines, SnapshotEnds(p)
    PROVE  Inv'
  <1>1. Fits(me') /\ me'.registered = me.registered
    <2>1. CASE me' = me
      BY <2>1, FieldsFit
    <2>2. CASE ~gone /\ \E enabled \in Found(p) : me' = Noted(me, enabled)
      BY <2>2, NotedFits
    <2> QED
      BY <2>1, <2>2 DEF SnapshotEnds
  <1>2. \A i \in DOMAIN posts : posts[i].who # p
    BY NothingSent DEF SnapshotEnds
  <1>3. \A q \in Routines : Moves(q)
    BY <1>2, EndedMoves DEF SnapshotEnds
  <1>4. StationInv'
    BY <1>1 DEF SnapshotEnds, Inv, StationInv, controller
  <1> QED
    BY <1>1, <1>3, <1>4, QuietKeeps DEF Fits, SameNumber, SnapshotEnds, controller

LEMMA PostTakenKeeps ==
    ASSUME Inv, TypeOK', NEW p \in Routines, PostTaken(p)
    PROVE  Inv'
  <1>0. me \in Fields
    BY TypeParts DEF Inv
  <1>1. Fits(me') /\ me'.registered = me.registered
    <2>1. CASE me' = me \/ me' = [me EXCEPT !.known = "yes"]
      <3>1. me' \in Fields /\ SameCount(me', me) /\ SameNumber(me', me) /\ me'.registered = me.registered
        BY <1>0, <2>1 DEF Fields, SameCount, SameNumber
      <3> QED
        BY <3>1, FieldsFit, FitsToo
    <2>2. CASE me.latest = p /\ run[p].kind # "allow" /\ me' = [AllowanceEnded(me) EXCEPT !.known = "no"]
      <3>1. ~Risk /\ ~Latent
        BY <2>2 DEF PostTaken, Inv, LatestInv, Risk, Latent
      <3> DEFINE n == AllowanceEnded(me)
      <3>2. n \in Fields /\ SameNumber(n, me) /\ n.registered = me.registered
        BY <1>0, AllowanceEndedIs
      <3>3. me' = [n EXCEPT !.known = "no"]
        BY <2>2
      <3> HIDE DEF n
      <3>4. me' \in Fields /\ SameNumber(me', n) /\ me'.registered = n.registered
        BY <3>2, <3>3 DEF Fields, SameNumber
      <3> QED
        BY <3>1, <3>2, <3>4 DEF Fits, SameNumber
    <2> QED
      BY <2>1, <2>2 DEF PostTaken
  <1>2. \A i \in DOMAIN posts : posts[i].who # p
    BY NothingSent DEF PostTaken
  <1>3. \A q \in Routines : Moves(q)
    BY <1>2, EndedMoves DEF PostTaken
  <1>4. StationInv'
    BY <1>1 DEF PostTaken, Inv, StationInv, controller
  <1> QED
    BY <1>1, <1>3, <1>4, QuietKeeps DEF Fits, SameNumber, PostTaken, controller

LEMMA PostRefusedKeeps ==
    ASSUME Inv, TypeOK', NEW p \in Routines, PostRefused(p)
    PROVE  Inv'
  <1>0. /\ me \in Fields /\ run[p].at = "post" /\ run[p].answer # "none"
        /\ UNCHANGED <<phase, wd, teardown, posts, controller, told>>
    BY TypeParts DEF Inv, PostRefused
  <1>1. Fits(me') /\ (me'.registered => me.registered)
    <2>1. CASE me' = [me EXCEPT !.registered = @ /\ run[p].answer # "noStation"] \/ me' = [me EXCEPT !.registered = FALSE]
      <3>1. me' \in Fields /\ SameCount(me', me) /\ SameNumber(me', me) /\ (me'.registered => me.registered)
        BY <1>0, <2>1 DEF Fields, SameCount, SameNumber
      <3> QED
        BY <3>1, FieldsFit, FitsToo
    <2>2. CASE /\ run[p].answer = "noStation" /\ ~run[p].second /\ run[p].kind = "allow" /\ ~run[p].before
               /\ me' = [AllowanceEnded(me) EXCEPT !.registered = FALSE]
      <3>1. Untaken(run[p])
        BY <1>0, <2>2 DEF Untaken
      <3>2. ~Risk /\ ~Latent
        BY <1>0, <3>1 DEF Inv, FirstPostInv, Risk, Latent
      <3> DEFINE n == AllowanceEnded(me)
      <3>3. n \in Fields /\ SameNumber(n, me)
        BY <1>0, AllowanceEndedIs
      <3>4. me' = [n EXCEPT !.registered = FALSE]
        BY <2>2
      <3> HIDE DEF n
      <3>5. me' \in Fields /\ SameNumber(me', n) /\ ~me'.registered
        BY <3>3, <3>4 DEF Fields, SameNumber
      <3> QED
        BY <3>2, <3>3, <3>5 DEF Fits, SameNumber
    <2> QED
      BY <2>1, <2>2 DEF PostRefused
  <1>2. \A i \in DOMAIN posts : posts[i].who # p
    BY <1>0, NothingSent
  <1>3. \A q \in Routines : Moves(q)
    <2>1. CASE Ended(p) /\ flying' = flying \ {p}
      BY <1>2, <2>1, EndedMoves
    <2>2. CASE run' = [run EXCEPT ![p].at = "register", ![p].second = TRUE, ![p].answer = "none"] /\ UNCHANGED flying
      <3> DEFINE r == [run[p] EXCEPT !.at = "register", !.second = TRUE, !.answer = "none"]
      <3>1. run \in Runs /\ run[p] \in Routine
        BY TypeParts DEF Inv, Runs
      <3>2. run' = [run EXCEPT ![p] = r]
        BY <2>2, <3>1 DEF Runs
      <3>3. r \in Routine /\ r.at = "register" /\ r.second = TRUE /\ r.answer = "none" /\ r.kind = run[p].kind
        BY <3>1 DEF Routine, Places, Answers
      <3> HIDE DEF r
      <3>4. ~Untaken(r) /\ (r.kind = "allow" => p \in Setters /\ p \in flying')
        BY <1>0, <2>2, <3>3 DEF Untaken, Inv, RoutineInv
      <3> QED
        BY <1>2, <2>2, <3>2, <3>3, <3>4, Moved
    <2> QED
      BY <2>1, <2>2 DEF PostRefused
  <1>4. StationInv'
    BY <1>0, <1>1 DEF Inv, StationInv, controller
  <1> QED
    BY <1>0, <1>1, <1>3, <1>4, QuietKeeps DEF Fits, SameNumber, controller

LEMMA PostUnansweredKeeps ==
    ASSUME OneSetter, Inv, TypeOK', NEW p \in Routines, PostUnanswered(p)
    PROVE  Inv'
  <1> USE TypeParts, MotionControlAssumption
  <1>0. /\ run[p].at = "post" /\ flying' = flying \ {p} /\ posts \in Seq(Message) /\ me \in Fields
        /\ UNCHANGED <<phase, wd, stray, manager, teardown, controller, told>>
    BY DEF Inv, PostUnanswered
  <1>1. /\ Len(posts') = Len(posts) /\ DOMAIN posts' = DOMAIN posts /\ posts' \in Seq(Message)
        /\ \A i \in DOMAIN posts :
              /\ posts'[i].allow = posts[i].allow
              /\ posts'[i].who = IF posts[i].who = p THEN "nobody" ELSE posts[i].who
    BY <1>0, AbandonedPosts DEF PostUnanswered
  <1>2. posts = <<>> => posts' = <<>>
    BY <1>0, <1>1
  <1>3. p # "withdrawal" /\ p # "nobody" /\ "nobody" \notin Routines
    BY DEF Routines
  <1>4. /\ run'[p].at \in {"idle", "snapshot"} /\ (run'[p].at = "idle" => run'[p].kind = "get" /\ run'[p].answer = "none")
        /\ run'[p].at = "snapshot" => run'[p].kind = run[p].kind
        /\ \A q \in Routines : q # p => run'[q] = run[q]
    <2>1. run \in Runs /\ run[p] \in Routine
      BY DEF Inv, Runs
    <2>2. CASE Goes(p, "snapshot")
      BY <2>1, <2>2 DEF Goes, Runs, Routine
    <2>3. CASE Ended(p)
      BY <2>1, <2>3 DEF Ended, Runs, Idle
    <2> QED
      BY <2>2, <2>3 DEF PostUnanswered
  <1>5. /\ SameNumber(me', me) /\ me'.registered = me.registered /\ me'.declared = me.declared
        /\ (me.unanswered \/ run[p].kind = "allow") => me'.unanswered
    <2> DEFINE n == IF run[p].kind = "allow" THEN CountsUnanswered(me) ELSE me
    <2>1. /\ n \in Fields /\ SameNumber(n, me) /\ n.registered = me.registered /\ n.declared = me.declared
          /\ (me.unanswered \/ run[p].kind = "allow") => n.unanswered
      BY <1>0, CountsUnansweredIs DEF SameNumber
    <2>2. me' = [n EXCEPT !.known = "unknown"]
      BY DEF PostUnanswered
    <2> HIDE DEF n
    <2>3. SameNumber(me', n) /\ SameCount(me', n) /\ me'.registered = n.registered
      BY <2>1, <2>2 DEF Fields, SameNumber, SameCount
    <2> QED
      BY <2>1, <2>3 DEF SameNumber, SameCount
  <1>6. RoutinePosts'
    <2> SUFFICES ASSUME NEW i \in DOMAIN posts', posts'[i].who \in Routines
                 PROVE  LET q == posts'[i].who IN
                        /\ run'[q].at = "post" /\ run'[q].answer = "none"
                        /\ posts'[i].allow <=> run'[q].kind = "allow"
      BY DEF RoutinePosts
    <2>1. posts'[i].who = posts[i].who /\ posts[i].who # p
      BY <1>1, <1>3
    <2> QED
      BY <1>1, <1>4, <2>1 DEF Inv, RoutinePosts
  <1>7. WithdrawalPosts' /\ OneEach'
    BY <1>0, <1>1, <1>3 DEF Inv, WithdrawalPosts, OneEach
  <1>8. RoutineInv'
    <2> SUFFICES ASSUME NEW q \in Routines
                 PROVE  /\ run'[q].kind = "allow" =>
                              q \in Setters /\ (run'[q].at \notin {"idle", "snapshot"} => q \in flying')
                        /\ run'[q].at \notin {"post", "snapshot"} => run'[q].answer = "none"
      BY DEF RoutineInv
    <2> QED
      BY <1>0, <1>4 DEF Inv, RoutineInv
  <1>9. LatestInv'
    <2>1. ASSUME NEW i \in DOMAIN posts', posts'[i].who \in Routines, me'.latest = posts'[i].who
          PROVE  i = Len(posts')
      BY <1>1, <1>3, <1>5, <2>1 DEF Inv, LatestInv, SameNumber
    <2>2. ASSUME NEW q \in Routines, run'[q].at = "post", me'.latest = q, run'[q].answer # "none"
          PROVE  posts' = <<>> /\ (run'[q].answer = "ok" /\ run'[q].kind # "allow" => allowed' # "own")
      BY <1>0, <1>2, <1>4, <1>5, <2>2 DEF Inv, LatestInv, SameNumber, controller
    <2> QED
      BY <2>1, <2>2 DEF LatestInv
  <1>10. WithdrawalInv'
    BY <1>0, <1>1, <1>2, <1>3 DEF Inv, WithdrawalInv, controller
  <1>11. FirstPostInv'
    <2> SUFFICES ASSUME NEW q \in Routines, Untaken(run'[q])
                 PROVE  /\ allowed' # "own"
                        /\ \A i \in DOMAIN posts' : posts'[i].allow => posts'[i].who = q /\ run'[q].answer = "none"
      BY DEF FirstPostInv, Untaken
    <2>1. q # p /\ run'[q] = run[q]
      BY <1>4 DEF Untaken
    <2> QED
      BY <1>0, <1>1, <2>1 DEF Inv, FirstPostInv, controller
  <1>12. Risk' => Risk
    BY <1>0, <1>1 DEF Risk, controller
  <1>13. Counted'
    <2>1. ASSUME Latent' PROVE me'.unanswered
      <3>1. PICK i \in DOMAIN posts : posts'[i].who = "nobody" /\ posts'[i].allow
        BY <1>1, <2>1 DEF Latent
      <3>2. CASE posts[i].who = p
        BY <1>1, <1>5, <3>1, <3>2 DEF Inv, RoutinePosts
      <3>3. CASE posts[i].who # p
        BY <1>1, <1>5, <3>1, <3>3 DEF Inv, Counted, Latent
      <3> QED
        BY <3>2, <3>3
    <2> QED
      BY <1>5, <1>12, <2>1 DEF Counted, Inv
  <1>14. TeardownInv'
    BY <1>0, <1>2, <1>5, <1>12, TeardownFrame DEF SameNumber
  <1>15. StationInv'
    BY <1>0, <1>5 DEF Inv, StationInv, controller
  <1> QED
    BY <1>6, <1>7, <1>8, <1>9, <1>10, <1>11, <1>13, <1>14, <1>15 DEF Inv

LEMMA StartKeeps ==
    ASSUME OneSetter, Inv, TypeOK', NEW p \in Calls, NEW kind \in Kinds, Start(p, kind)
    PROVE  Inv'
  <1> USE TypeParts
  <1>0. /\ p \in Routines /\ run \in Runs /\ run[p].at = "idle" /\ me \in Fields /\ phase = "open"
        /\ kind = "allow" => p \in Setters /\ p \in flying'
        /\ \A q \in flying : q \in flying'
        /\ UNCHANGED <<phase, stray, manager, teardown, controller>>
    BY DEF Start, Routines, Inv
  <1> DEFINE r == [Idle EXCEPT !.kind = kind, !.before = me.declared]
             begun == [run EXCEPT ![p] = r]
             seen == Overtaking /\ Reads
  <1>1. \A i \in DOMAIN posts : posts[i].who # p
    BY <1>0, NothingSent
  <1>2. /\ r \in Routine /\ r.kind = kind /\ r.before = me.declared /\ r.answer = "none" /\ seen \in BOOLEAN
    <2>1. me.declared \in BOOLEAN
      BY <1>0 DEF Fields
    <2> QED
      BY <2>1 DEF Idle, Routine, Places, Kinds, Answers, Reads
  <1>3. \/ /\ run' = [begun EXCEPT ![p].at = "snapshot", ![p].seen = seen]
           /\ UNCHANGED <<me, wd, posts, told>>
        \/ /\ run' = [begun EXCEPT ![p].at = "register"]
           /\ UNCHANGED <<me, wd, posts, told>>
        \/ /\ me' = [Numbered(me, p) EXCEPT !.declared = @ \/ kind = "allow"]
           /\ wd' = [wd EXCEPT !.covers = FALSE]
           /\ run' = [begun EXCEPT ![p].at = "post"]
           /\ posts' = Append(posts, [who |-> p, allow |-> kind = "allow"])
    BY DEF Start
  <1> HIDE DEF r, seen
  <1> DEFINE r1 == [r EXCEPT !.at = "snapshot", !.seen = seen]
             r2 == [r EXCEPT !.at = "register"]
             r3 == [r EXCEPT !.at = "post"]
  <1>4. /\ [begun EXCEPT ![p].at = "snapshot", ![p].seen = seen] = [run EXCEPT ![p] = r1]
        /\ [begun EXCEPT ![p].at = "register"] = [run EXCEPT ![p] = r2]
        /\ [begun EXCEPT ![p].at = "post"] = [run EXCEPT ![p] = r3]
    BY <1>0 DEF Runs
  <1> HIDE DEF begun
  <1>5. /\ r1 \in Routine /\ r1.at = "snapshot" /\ r1.kind = kind
        /\ r2 \in Routine /\ r2.at = "register" /\ r2.kind = kind /\ r2.before = me.declared /\ r2.answer = "none"
        /\ r3 \in Routine /\ r3.at = "post" /\ r3.kind = kind /\ r3.before = me.declared /\ r3.answer = "none"
    BY <1>2 DEF Routine, Places
  <1> HIDE DEF r1, r2, r3
  <1>6. ~Untaken(r1) /\ (Untaken(r2) => ~Risk) /\ (Untaken(r3) => ~Risk)
    BY <1>5 DEF Untaken, Inv, Counted
  <1>7. CASE run' = [run EXCEPT ![p] = r1] /\ UNCHANGED <<me, wd, posts, told>>
    <2>1. \A q \in Routines : Moves(q)
      BY <1>0, <1>1, <1>5, <1>6, <1>7, Moved
    <2>2. StationInv'
      BY <1>0, <1>7 DEF Inv, StationInv, controller
    <2> QED
      BY <1>0, <1>7, <2>1, <2>2, QuietKeeps DEF Inv, Counted, controller
  <1>8. CASE run' = [run EXCEPT ![p] = r2] /\ UNCHANGED <<me, wd, posts, told>>
    <2>1. \A q \in Routines : Moves(q)
      BY <1>0, <1>1, <1>5, <1>6, <1>8, Moved
    <2>2. StationInv'
      BY <1>0, <1>8 DEF Inv, StationInv, controller
    <2> QED
      BY <1>0, <1>8, <2>1, <2>2, QuietKeeps DEF Inv, Counted, controller
  <1>9. CASE /\ me' = [Numbered(me, p) EXCEPT !.declared = @ \/ kind = "allow"]
             /\ wd' = [wd EXCEPT !.covers = FALSE]
             /\ run' = [run EXCEPT ![p] = r3]
             /\ posts' = Append(posts, [who |-> p, allow |-> kind = "allow"])
    <2>1. me' = [Numbered(me, p) EXCEPT !.declared = @ \/ r3.kind = "allow"]
      BY <1>5, <1>9
    <2>2. posts' = Append(posts, [who |-> p, allow |-> r3.kind = "allow"])
      BY <1>5, <1>9
    <2>3. me.registered /\ ~gone => station'
      BY <1>0 DEF Inv, StationInv, controller
    <2> QED
      BY <1>0, <1>1, <1>5, <1>6, <1>9, <2>1, <2>2, <2>3, FieldsFit, SendKeeps DEF controller
  <1> QED
    BY <1>3, <1>4, <1>7, <1>8, <1>9

-----------------------------------------------------------------------------
(* Disconnecting. *)

LEMMA ManagerKeeps ==
    ASSUME Inv, TypeOK', ManagerDisconnects \/ ManagerResumes
    PROVE  Inv'
  <1>0. DisconnectStep(manager) /\ UNCHANGED <<phase, run, flying, stray, teardown, controller, told>>
    BY DEF ManagerDisconnects, ManagerResumes
  <1>1. \A q \in Routines : Moves(q)
    BY <1>0, Stays
  <1>2. CASE UNCHANGED <<me, wd, posts>>
    <2>1. StationInv'
      BY <1>0, <1>2 DEF Inv, StationInv, controller
    <2> QED
      BY <1>0, <1>1, <1>2, <2>1, QuietKeeps DEF Inv, Counted, controller
  <1>3. CASE Withdraw(me, "disconnect")
    <2>1. me \in Fields /\ SameNumber(me, me) /\ Fits(me)
      BY FieldsFit DEF Fits
    <2>2. Begun(me)
      BY <1>0, <1>3, <2>1, WithdrawBegins DEF Triggers, controller
    <2>3. StationInv'
      BY <1>0, <2>2 DEF Begun, Inv, StationInv, controller
    <2> QED
      BY <1>0, <1>1, <2>1, <2>2, <2>3, BegunKeeps DEF controller
  <1> QED
    BY <1>0, <1>2, <1>3 DEF DisconnectStep

\* The teardown waits, starts the withdrawal, or is over: nothing is counted, or the manager's
\* attempt covers every POST.
LEMMA TeardownStepKeeps ==
    ASSUME Inv, TypeOK', TeardownBegins \/ TeardownResumes
    PROVE  Inv'
  <1>0. /\ TeardownStep /\ phase \in {"open", "closing"} /\ phase' = "closing"
        /\ UNCHANGED <<run, flying, stray, manager, controller, told>>
    BY DEF TeardownBegins, TeardownResumes, Inv, TeardownInv
  <1>1. \A q \in Routines : Moves(q)
    BY <1>0, Stays
  <1>2. me \in Fields /\ SameNumber(me, me) /\ SameCount(me, me) /\ Fits(me)
    BY FieldsFit DEF Fits, SameCount
  <1>3. /\ SameRequests /\ (SameLength \/ me'.latest \notin Routines)
        /\ me'.latest \in {me.latest, "withdrawal", "nobody"}
        /\ SameCount(me', me) /\ (me'.covered => me.covered) /\ (me'.registered => me.registered)
        /\ WithdrawalPosts' /\ OneEach' /\ WithdrawalInv'
        /\ \/ teardown' = "wait"
           \/ teardown' = "done" /\ (Risk => told)
           \/ teardown' = "join" /\ wd'.at # "off"
    <2>1. CASE /\ UNCHANGED <<me, wd, posts>>
               /\ teardown' = "wait" \/ (teardown' = "done" /\ (me.covered \/ ~me.declared))
      <3>1. WithdrawalPosts' /\ OneEach' /\ WithdrawalInv'
        BY <1>0, <2>1, WithdrawalFrame DEF controller
      <3>2. teardown' = "done" => (Risk => told)
        BY <2>1 DEF Inv, TeardownInv, Counted
      <3> QED
        BY <1>2, <2>1, <3>1, <3>2, SamePosts
    <2>2. CASE wd.at = "off" /\ teardown' = "join" /\ Withdraw(me, "disconnect")
      <3>1. Begun(me)
        BY <1>0, <1>2, <2>2, WithdrawBegins DEF Triggers, controller
      <3> QED
        BY <2>2, <3>1 DEF Begun
    <2> QED
      BY <1>0, <2>1, <2>2 DEF TeardownStep, DisconnectStep, Covered
  <1>4. (Risk' => Risk) /\ (Latent' => Latent)
    BY <1>0, <1>3, SameRisk, SameLatent DEF controller
  <1>5. RoutinePosts' /\ RoutineInv' /\ LatestInv' /\ FirstPostInv'
    BY <1>0, <1>1, <1>3, RunFrame DEF controller
  <1>6. Counted'
    BY <1>3, <1>4 DEF Inv, Counted, SameCount
  <1>7. StationInv'
    BY <1>0, <1>3 DEF Inv, StationInv, controller
  <1>8. TeardownInv'
    BY <1>0, <1>3, <1>4 DEF Inv, TeardownInv
  <1> QED
    BY <1>3, <1>5, <1>6, <1>7, <1>8 DEF Inv

LEMMA CloseKeeps ==
    ASSUME Inv, TypeOK', CloseClient \/ LogoutEnds \/ Connect
    PROVE  Inv'
  <1>0. me \in Fields
    BY TypeParts DEF Inv
  <1>1. /\ posts' = posts \/ posts' = <<>>
        /\ run' = run /\ flying' = flying /\ wd' = wd /\ told' = told
        /\ allowed' = "own" => allowed = "own"
        /\ teardown' = "join" => teardown = "join"
    BY DEF CloseClient, LogoutEnds, Connect, controller
  <1>2. /\ me'.latest = me.latest /\ (me'.covered => me.covered) /\ SameCount(me', me)
        /\ me'.registered => me.registered
    BY <1>0 DEF CloseClient, LogoutEnds, Connect, Fields, SameCount
  <1>3. SameRequests /\ SameLength
    <2>1. CASE posts' = <<>>
      BY <2>1 DEF SameRequests, SameLength
    <2> QED
      BY <1>1, <2>1, SamePosts
  <1>4. \A q \in Routines : Moves(q)
    BY <1>1, Stays
  <1>5. RoutinePosts' /\ RoutineInv' /\ LatestInv' /\ FirstPostInv'
    BY <1>1, <1>2, <1>3, <1>4, RunFrame
  <1>6. WithdrawalPosts' /\ OneEach' /\ WithdrawalInv'
    <2>1. CASE posts' = posts
      BY <1>1, <2>1, WithdrawalFrame
    <2>2. CASE posts' = <<>>
      BY <1>1, <2>2 DEF Inv, WithdrawalPosts, OneEach, WithdrawalInv
    <2> QED
      BY <1>1, <2>1, <2>2
  <1>7. (Risk' => Risk) /\ (Latent' => Latent)
    BY <1>1, <1>3, SameRisk, SameLatent
  <1>8. Counted'
    BY <1>2, <1>7 DEF Inv, Counted, SameCount
  <1>9. StationInv'
    BY <1>0, <1>2 DEF Inv, StationInv, CloseClient, LogoutEnds, Connect, controller, Fields
  <1>10. TeardownInv'
    <2>1. me'.covered => (Risk' => told')
      BY <1>1, <1>2, <1>7 DEF Inv, TeardownInv
    <2> QED
      BY <1>1, <1>7, <2>1 DEF Inv, TeardownInv, CloseClient, LogoutEnds, Connect
  <1> QED
    BY <1>5, <1>6, <1>8, <1>9, <1>10 DEF Inv

-----------------------------------------------------------------------------
(* The controller. *)

\* What is left when the k-th request is gone.
LEMMA RequestGone ==
    ASSUME posts \in Seq(Message), NEW k \in DOMAIN posts, posts' = RemoveAt(posts, k)
    PROVE  /\ \A j \in DOMAIN posts' : \E i \in DOMAIN posts :
                 i = (IF j < k THEN j ELSE j + 1) /\ i # k /\ posts'[j] = posts[i]
           /\ DOMAIN posts = 1 .. Len(posts) /\ DOMAIN posts' = 1 .. Len(posts')
           /\ Len(posts) \in Nat /\ Len(posts') = Len(posts) - 1
           /\ k = Len(posts) /\ k = 1 => posts' = <<>>
  <1>1. /\ posts' \in Seq(Message)
        /\ DOMAIN posts = 1 .. Len(posts) /\ Len(posts) \in Nat /\ Len(posts) > 0
        /\ Len(posts') = Len(posts) - 1 /\ DOMAIN posts' = 1 .. Len(posts) - 1
        /\ \A j \in 1 .. Len(posts) - 1 : posts'[j] = posts[IF j < k THEN j ELSE j + 1]
    BY Removed
  <1>2. ASSUME NEW j \in DOMAIN posts'
        PROVE  \E i \in DOMAIN posts : i = (IF j < k THEN j ELSE j + 1) /\ i # k /\ posts'[j] = posts[i]
    <2>1. (IF j < k THEN j ELSE j + 1) \in DOMAIN posts /\ (IF j < k THEN j ELSE j + 1) # k
      BY <1>1
    <2> QED
      BY <1>1, <2>1
  <1>3. k = Len(posts) /\ k = 1 => posts' = <<>>
    BY <1>1
  <1> QED
    BY <1>1, <1>2, <1>3

LEMMA DropsKeeps ==
    ASSUME Inv, TypeOK', Drops
    PROVE  Inv'
  <1> USE TypeParts, MotionControlAssumption
  <1>0. PICK k \in DOMAIN posts : posts[k].who = "nobody" /\ posts' = RemoveAt(posts, k)
    BY DEF Drops
  <1>1. UNCHANGED <<phase, me, run, flying, wd, stray, manager, teardown, controller, told>> /\ posts \in Seq(Message)
    BY DEF Drops, Inv
  <1>2. /\ \A j \in DOMAIN posts' : \E i \in DOMAIN posts :
              i = (IF j < k THEN j ELSE j + 1) /\ i # k /\ posts'[j] = posts[i]
        /\ DOMAIN posts = 1 .. Len(posts) /\ DOMAIN posts' = 1 .. Len(posts')
        /\ Len(posts) \in Nat /\ Len(posts') = Len(posts) - 1
    BY <1>0, <1>1, RequestGone
  <1>3. \A j \in DOMAIN posts' : \E i \in DOMAIN posts : posts'[j] = posts[i] /\ (i = Len(posts) => j = Len(posts'))
    BY <1>2
  <1>4. posts # <<>>
    BY <1>0
  <1>5. RoutinePosts' /\ WithdrawalPosts'
    BY <1>1, <1>3 DEF Inv, RoutinePosts, WithdrawalPosts
  <1>6. OneEach'
    <2> SUFFICES ASSUME NEW j \in DOMAIN posts', NEW l \in DOMAIN posts',
                        posts'[j].who = posts'[l].who, posts'[j].who # "nobody"
                 PROVE  j = l
      BY DEF OneEach
    <2>1. PICK i \in DOMAIN posts : i = (IF j < k THEN j ELSE j + 1) /\ posts'[j] = posts[i]
      BY <1>2
    <2>2. PICK h \in DOMAIN posts : h = (IF l < k THEN l ELSE l + 1) /\ posts'[l] = posts[h]
      BY <1>2
    <2>3. i = h
      BY <2>1, <2>2 DEF Inv, OneEach
    <2> QED
      BY <1>2, <2>1, <2>2, <2>3
  <1>7. RoutineInv'
    BY <1>1 DEF Inv, RoutineInv
  <1>8. LatestInv'
    BY <1>1, <1>3, <1>4 DEF Inv, LatestInv, controller
  <1>9. WithdrawalInv'
    BY <1>1, <1>3, <1>4 DEF Inv, WithdrawalInv, controller
  <1>10. FirstPostInv'
    <2> SUFFICES ASSUME NEW q \in Routines, Untaken(run'[q])
                 PROVE  /\ allowed' # "own"
                        /\ \A i \in DOMAIN posts' : posts'[i].allow => posts'[i].who = q /\ run'[q].answer = "none"
      BY DEF FirstPostInv, Untaken
    <2> QED
      BY <1>1, <1>3 DEF Inv, FirstPostInv, controller
  <1>11. (Risk' => Risk) /\ (Latent' => Latent)
    BY <1>1, <1>3 DEF Risk, Latent, controller
  <1>12. Counted' /\ StationInv'
    BY <1>1, <1>11 DEF Inv, Counted, StationInv, controller
  <1>13. TeardownInv'
    BY <1>1, <1>4, <1>11, TeardownFrame
  <1> QED
    BY <1>5, <1>6, <1>7, <1>8, <1>9, <1>10, <1>12, <1>13 DEF Inv

LEMMA ServesKeeps ==
    ASSUME OneSetter, Inv, TypeOK', Serves
    PROVE  Inv'
  <1> USE TypeParts, MotionControlAssumption
  <1>0. PICK answer \in {"ok", "refused", "noStation"} :
           /\ 1 \in DOMAIN posts
           /\ allowed' = IF answer # "ok" THEN allowed ELSE IF posts[1].allow THEN "own" ELSE "no"
           /\ posts' = RemoveAt(posts, 1)
           /\ run' = [p \in Routines |-> IF posts[1].who = p THEN [run[p] EXCEPT !.answer = answer] ELSE run[p]]
           /\ wd' = IF posts[1].who = "withdrawal" THEN [wd EXCEPT !.answer = answer] ELSE wd
    BY DEF Serves, OneSetter
  <1>1. UNCHANGED <<phase, me, flying, stray, manager, teardown, station, gone, told>>
    BY DEF Serves
  <1>t. posts \in Seq(Message) /\ run \in Runs /\ wd \in Withdrawal
    BY DEF Inv
  <1>2. /\ \A j \in DOMAIN posts' : \E i \in DOMAIN posts : i = (IF j < 1 THEN j ELSE j + 1) /\ i # 1 /\ posts'[j] = posts[i]
        /\ DOMAIN posts = 1 .. Len(posts) /\ DOMAIN posts' = 1 .. Len(posts')
        /\ Len(posts) \in Nat /\ Len(posts') = Len(posts) - 1
        /\ 1 = Len(posts) => posts' = <<>>
    BY <1>0, <1>t, RequestGone
  <1>3. \A j \in DOMAIN posts' : \E i \in DOMAIN posts :
           i # 1 /\ i = j + 1 /\ posts'[j] = posts[i] /\ (i = Len(posts) => j = Len(posts'))
    BY <1>2
  <1> DEFINE who == posts[1].who
  <1>4. /\ \A q \in Routines : q # who => run'[q] = run[q]
        /\ who \in Routines =>
              /\ run'[who].at = run[who].at /\ run'[who].kind = run[who].kind /\ run'[who].answer = answer
              /\ run'[who].before = run[who].before /\ run'[who].second = run[who].second
              /\ run[who].at = "post" /\ run[who].answer = "none" /\ (posts[1].allow <=> run[who].kind = "allow")
    <2>1. \A q \in Routines : run[q] \in Routine
      BY <1>t DEF Runs
    <2>2. ASSUME who \in Routines
          PROVE  /\ run'[who].at = run[who].at /\ run'[who].kind = run[who].kind /\ run'[who].answer = answer
                 /\ run'[who].before = run[who].before /\ run'[who].second = run[who].second
      BY <1>0, <2>1, <2>2 DEF Routine
    <2>3. who \in Routines =>
              run[who].at = "post" /\ run[who].answer = "none" /\ (posts[1].allow <=> run[who].kind = "allow")
      BY <1>0 DEF Inv, RoutinePosts
    <2> QED
      BY <1>0, <2>2, <2>3
  <1>5. /\ wd'.at = wd.at /\ wd'.covers = wd.covers
        /\ IF who = "withdrawal" THEN wd'.answer = answer /\ wd.at = "post" /\ ~posts[1].allow ELSE wd' = wd
    <2>1. who = "withdrawal" => wd.at = "post" /\ ~posts[1].allow
      BY <1>0 DEF Inv, WithdrawalPosts
    <2> QED
      BY <1>0, <1>t, <2>1 DEF Withdrawal
  <1>6. \A i \in DOMAIN posts : i # 1 /\ posts[i].who = who => who = "nobody"
    BY <1>0 DEF Inv, OneEach
  <1>7. "withdrawal" \notin Routines /\ "nobody" \notin Routines
    BY DEF Routines
  <1>8. posts # <<>>
    BY <1>0
  <1> HIDE DEF who
  <1>9. RoutinePosts'
    <2> SUFFICES ASSUME NEW i \in DOMAIN posts', posts'[i].who \in Routines
                 PROVE  LET q == posts'[i].who IN
                        /\ run'[q].at = "post" /\ run'[q].answer = "none"
                        /\ posts'[i].allow <=> run'[q].kind = "allow"
      BY DEF RoutinePosts
    <2>1. PICK j \in DOMAIN posts : j # 1 /\ posts'[i] = posts[j]
      BY <1>3
    <2>2. posts[j].who # who
      BY <1>6, <1>7, <2>1
    <2> QED
      BY <1>4, <2>1, <2>2 DEF Inv, RoutinePosts
  <1>10. WithdrawalPosts'
    <2> SUFFICES ASSUME NEW i \in DOMAIN posts', posts'[i].who = "withdrawal"
                 PROVE  wd'.at = "post" /\ wd'.answer = "none" /\ ~posts'[i].allow
      BY DEF WithdrawalPosts
    <2>1. PICK j \in DOMAIN posts : j # 1 /\ posts'[i] = posts[j]
      BY <1>3
    <2>2. who # "withdrawal"
      BY <1>6, <2>1
    <2> QED
      BY <1>5, <2>1, <2>2 DEF Inv, WithdrawalPosts
  <1>11. OneEach'
    <2> SUFFICES ASSUME NEW j \in DOMAIN posts', NEW l \in DOMAIN posts',
                        posts'[j].who = posts'[l].who, posts'[j].who # "nobody"
                 PROVE  j = l
      BY DEF OneEach
    <2>1. PICK i \in DOMAIN posts : i = j + 1 /\ posts'[j] = posts[i]
      BY <1>3
    <2>2. PICK h \in DOMAIN posts : h = l + 1 /\ posts'[l] = posts[h]
      BY <1>3
    <2>3. i = h
      BY <2>1, <2>2 DEF Inv, OneEach
    <2> QED
      BY <1>2, <2>1, <2>2, <2>3
  <1>12. RoutineInv'
    <2> SUFFICES ASSUME NEW q \in Routines
                 PROVE  /\ run'[q].kind = "allow" =>
                              q \in Setters /\ (run'[q].at \notin {"idle", "snapshot"} => q \in flying')
                        /\ run'[q].at \notin {"post", "snapshot"} => run'[q].answer = "none"
      BY DEF RoutineInv
    <2> QED
      BY <1>1, <1>4 DEF Inv, RoutineInv
  <1>13. LatestInv'
    <2>1. ASSUME NEW j \in DOMAIN posts', posts'[j].who \in Routines, me'.latest = posts'[j].who
          PROVE  j = Len(posts')
      BY <1>1, <1>3, <2>1 DEF Inv, LatestInv
    <2>2. ASSUME NEW q \in Routines, run'[q].at = "post", me'.latest = q, run'[q].answer # "none"
          PROVE  posts' = <<>> /\ (run'[q].answer = "ok" /\ run'[q].kind # "allow" => allowed' # "own")
      <3>1. CASE q = who
        <4>1. 1 = Len(posts)
          BY <1>0, <1>1, <2>2, <3>1 DEF Inv, LatestInv, who
        <4> QED
          BY <1>0, <1>2, <1>4, <3>1, <4>1, <2>2
      <3>2. CASE q # who
        BY <1>1, <1>4, <1>8, <2>2, <3>2 DEF Inv, LatestInv
      <3> QED
        BY <3>1, <3>2
    <2> QED
      BY <2>1, <2>2 DEF LatestInv
  <1>14. WithdrawalInv'
    <2> SUFFICES ASSUME wd'.at = "post", wd'.covers \/ teardown' = "join"
                 PROVE  /\ \A i \in DOMAIN posts' : posts'[i].who = "withdrawal" => i = Len(posts')
                        /\ wd'.answer # "none" => posts' = <<>>
                        /\ wd'.answer = "ok" => allowed' # "own"
      BY DEF WithdrawalInv
    <2>1. /\ \A i \in DOMAIN posts : posts[i].who = "withdrawal" => i = Len(posts)
          /\ wd.answer # "none" => posts = <<>>
      BY <1>1, <1>5 DEF Inv, WithdrawalInv
    <2>2. \A i \in DOMAIN posts' : posts'[i].who = "withdrawal" => i = Len(posts')
      BY <1>3, <2>1
    <2>3. CASE who = "withdrawal"
      <3>1. posts' = <<>>
        BY <1>0, <1>2, <2>1, <2>3 DEF who
      <3> QED
        BY <1>0, <1>5, <2>2, <2>3, <3>1
    <2>4. CASE who # "withdrawal"
      BY <1>5, <1>8, <2>1, <2>2, <2>4
    <2> QED
      BY <2>3, <2>4
  <1>15. FirstPostInv'
    <2> SUFFICES ASSUME NEW q \in Routines, Untaken(run'[q])
                 PROVE  /\ allowed' # "own"
                        /\ \A i \in DOMAIN posts' : posts'[i].allow => posts'[i].who = q /\ run'[q].answer = "none"
      BY DEF FirstPostInv, Untaken
    <2>1. Untaken(run[q])
      <3>1. CASE q = who
        BY <1>4, <3>1 DEF Untaken
      <3>2. CASE q # who
        BY <1>4, <3>2
      <3> QED
        BY <3>1, <3>2
    <2>2. allowed # "own" /\ \A i \in DOMAIN posts : posts[i].allow => posts[i].who = q /\ run[q].answer = "none"
      BY <2>1 DEF Inv, FirstPostInv
    <2>3. CASE q = who
      <3>1. answer # "ok"
        BY <1>4, <2>3 DEF Untaken
      <3>2. \A i \in DOMAIN posts' : ~posts'[i].allow
        BY <1>3, <1>6, <1>7, <2>2, <2>3
      <3> QED
        BY <1>0, <2>2, <3>1, <3>2
    <2>4. CASE q # who
      <3>1. ~posts[1].allow
        BY <1>0, <2>2, <2>4 DEF who
      <3>2. allowed' # "own"
        BY <1>0, <2>2, <3>1
      <3>3. run'[q] = run[q]
        BY <1>4, <2>4
      <3>4. \A i \in DOMAIN posts' : \E j \in DOMAIN posts : posts'[i] = posts[j]
        BY <1>3
      <3> QED
        BY <2>2, <3>2, <3>3, <3>4
    <2> QED
      BY <2>3, <2>4
  <1>16. (Risk' => Risk) /\ (Latent' => Latent)
    BY <1>0, <1>3 DEF Risk, Latent
  <1>17. Counted' /\ StationInv'
    BY <1>1, <1>16 DEF Inv, Counted, StationInv
  <1>18. TeardownInv'
    BY <1>1, <1>5, <1>8, <1>16, TeardownFrame
  <1> QED
    BY <1>9, <1>10, <1>11, <1>12, <1>13, <1>14, <1>15, <1>17, <1>18 DEF Inv

LEMMA SessionKeeps ==
    ASSUME Inv, TypeOK', SessionEnds \/ OtherSession
    PROVE  Inv'
  <1>1. /\ UNCHANGED <<phase, me, run, flying, wd, stray, manager, teardown, posts, told>>
        /\ allowed' = "own" => allowed = "own"
    BY DEF SessionEnds, OtherSession
  <1>2. \A q \in Routines : Moves(q)
    BY <1>1, Stays
  <1>3. StationInv'
    BY DEF SessionEnds, OtherSession, Inv, StationInv
  <1> QED
    BY <1>1, <1>2, <1>3, QuietKeeps DEF Inv, Counted

LEMMA ReissuedKeeps ==
    ASSUME Inv, TypeOK', Reissued
    PROVE  Inv'
  <1> USE TypeParts
  <1>0. /\ me \in Fields /\ run \in Runs /\ posts' = posts
        /\ UNCHANGED <<phase, flying, stray, manager, teardown, station, allowed, told>>
        /\ me' = [me EXCEPT !.registered = FALSE, !.known = "unknown"]
    BY DEF Reissued, Inv
  <1>1. SameCount(me', me) /\ SameNumber(me', me) /\ ~me'.registered /\ me' \in Fields
    BY <1>0 DEF Fields, SameCount, SameNumber
  <1>2. StationInv'
    BY <1>1 DEF StationInv, Reissued
  <1>3. Risk => me.declared
    BY DEF Inv, Counted
  <1>4. \A q \in Routines : Moves(q)
    <2>1. CASE run' = run
      BY <1>0, <2>1, Stays
    <2> DEFINE r == [Idle EXCEPT !.at = "join", !.kind = "reissue"]
    <2>2. CASE \E p \in Reissues : run[p].at = "idle" /\ run' = [run EXCEPT ![p] = r]
      <3>1. PICK p \in Reissues : run[p].at = "idle" /\ run' = [run EXCEPT ![p] = r]
        BY <2>2
      <3>2. r \in Routine /\ r.at = "join" /\ r.kind = "reissue" /\ r.answer = "none" /\ ~Untaken(r)
        BY DEF Idle, Routine, Places, Kinds, Answers, Untaken
      <3>3. p \in Routines
        BY DEF Routines
      <3>4. \A i \in DOMAIN posts : posts[i].who # p
        BY <3>1, <3>3, NothingSent
      <3> HIDE DEF r
      <3> QED
        BY <1>0, <3>1, <3>2, <3>3, <3>4, Moved
    <2> QED
      BY <2>1, <2>2 DEF Reissued
  <1>5. CASE wd' = wd
    BY <1>0, <1>1, <1>2, <1>4, <1>5, QuietKeeps DEF Inv, Counted, SameCount, SameNumber
  <1>6. CASE wd.at = "off" /\ wd'.at = "register"
    <2>1. WithdrawalPosts' /\ OneEach' /\ WithdrawalInv'
      BY <1>0, <1>6 DEF Inv, WithdrawalPosts, OneEach, WithdrawalInv
    <2>2. Begun(me)
      BY <1>0, <1>1, <1>6, <2>1, SamePosts DEF Begun, SameNumber
    <2> QED
      BY <1>0, <1>2, <1>4, <2>2, FieldsFit, BegunKeeps
  <1> QED
    BY <1>5, <1>6 DEF Reissued, Off

-----------------------------------------------------------------------------

LEMMA InvInit == Init => Inv
  <1> SUFFICES ASSUME Init PROVE Inv
    OBVIOUS
  <1>1. /\ ~me.registered /\ ~me.covered /\ posts = <<>> /\ DOMAIN posts = {} /\ phase = "open" /\ teardown = "off"
        /\ allowed # "own" /\ wd.at = "off"
    BY DEF Init, Off
  <1>2. \A p \in Routines : run[p] = Idle
    BY DEF Init
  <1>3. Idle.at = "idle" /\ Idle.kind = "get" /\ Idle.answer = "none"
    BY DEF Idle
  <1>4. ~Risk /\ ~Latent
    BY <1>1 DEF Risk, Latent
  <1>5. StationInv /\ Counted /\ RoutinePosts /\ WithdrawalPosts /\ OneEach /\ WithdrawalInv /\ TeardownInv
    BY <1>1, <1>4 DEF StationInv, Counted, RoutinePosts, WithdrawalPosts, OneEach, WithdrawalInv, TeardownInv
  <1>6. RoutineInv /\ LatestInv /\ FirstPostInv
    BY <1>1, <1>2, <1>3 DEF RoutineInv, LatestInv, FirstPostInv, Untaken
  <1> QED
    BY <1>5, <1>6, TypeInit DEF Inv

LEMMA InvNext ==
    ASSUME OneSetter
    PROVE  Inv /\ [Next]_vars => Inv'
  <1> SUFFICES ASSUME Inv, [Next]_vars PROVE Inv'
    OBVIOUS
  <1>0. TypeOK'
    BY TypeNext DEF Inv
  <1>1. CASE UNCHANGED vars
    <2>1. /\ UNCHANGED <<phase, me, run, flying, wd, stray, manager, teardown, posts, told>>
          /\ UNCHANGED <<station, gone, allowed>>
      BY <1>1 DEF vars
    <2>2. StationInv'
      BY <2>1 DEF Inv, StationInv
    <2>3. \A q \in Routines : Moves(q)
      BY <2>1, Stays
    <2> QED
      BY <1>0, <2>1, <2>2, <2>3, QuietKeeps DEF Inv, Counted
  <1>2. CASE Next
    <2>1. CASE \E p \in Calls, kind \in Kinds : Start(p, kind)
      BY <1>0, <2>1, StartKeeps
    <2>2. CASE \E p \in Routines : RoutineStep(p)
      <3>1. PICK p \in Routines : RoutineStep(p)
        BY <2>2
      <3> QED
        BY <1>0, <3>1, RegistersKeeps, RegisterFailsKeeps, ReadEndsKeeps, SnapshotEndsKeeps,
           PostTakenKeeps, PostRefusedKeeps, PostUnansweredKeeps DEF RoutineStep
    <2>3. CASE Continue
      BY <1>0, <2>3, ManagerKeeps, TeardownStepKeeps, ResumeKeeps DEF Continue
    <2>4. CASE WithdrawalStep \/ StrayEnds
      BY <1>0, <2>4, WithdrawalRegistersKeeps, WithdrawalAnsweredKeeps, WithdrawalFailsKeeps, StrayEndsKeeps
      DEF WithdrawalStep
    <2>5. CASE ManagerDisconnects \/ TeardownBegins \/ CloseClient \/ LogoutEnds \/ Connect
      BY <1>0, <2>5, ManagerKeeps, TeardownStepKeeps, CloseKeeps
    <2>6. CASE Environment
      BY <1>0, <2>6, ServesKeeps, DropsKeeps, SessionKeeps, ReissuedKeeps DEF Environment
    <2> QED
      BY <1>2, <2>1, <2>2, <2>3, <2>4, <2>5, <2>6 DEF Next, Event
  <1> QED
    BY <1>1, <1>2

LEMMA InvHolds ==
    ASSUME OneSetter
    PROVE  Spec => []Inv
  <1>1. Inv /\ [Next]_vars => Inv'
    BY InvNext
  <1> QED
    BY <1>1, InvInit, PTL DEF Spec

\* An allowance of this client that stands is one it counts, when one caller sets it and requests
\* keep their order: for every number of other calls, reads, writes and re-issued sessions.
THEOREM NothingForgotten ==
    ASSUME OneSetter
    PROVE  Spec => []StandingIsCounted
  <1>1. Inv => StandingIsCounted
    BY DEF Inv, Counted, Risk, StandingIsCounted
  <1> QED
    BY <1>1, InvHolds, PTL

\* What still stands after a disconnect was reported, under the same conditions.
THEOREM NothingUntold ==
    ASSUME OneSetter
    PROVE  Spec => []LeftIsTold
  <1>1. Inv => LeftIsTold
    BY DEF Inv, TeardownInv, Risk, LeftIsTold
  <1> QED
    BY <1>1, InvHolds, PTL
=============================================================================
