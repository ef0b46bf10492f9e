------------------------- MODULE SubscriptionProofs -------------------------
(***************************************************************************)
(* A subscription of either client, for every number of reconnect attempts *)
(* and of groups: what it leaves on the controller, whose stream it shows, *)
(* and that it is silent after its end.                                    *)
(***************************************************************************)
EXTENDS Subscription, TLAPS

(* TypeOK in parts. *)
SubRecords ==
    [closed : BOOLEAN, attempts : 0 .. MaxAttempts, timer : BOOLEAN,
     url : Groups \cup {0}, unbound : BOOLEAN, mapped : BOOLEAN,
     open : BOOLEAN, alive : BOOLEAN, probe : BOOLEAN]
JobRecords == [at : Awaits, stored : BOOLEAN, second : BOOLEAN, cut : BOOLEAN, fresh : Groups \cup {0}]
SubType == sub \in SubRecords
JobType == job \in JobRecords
HeardType == heard \in [lost : Nat, restored : BOOLEAN]
NamesType ==
    /\ adapter \in Adapters
    /\ user \in {"new", "subscribing", "subscribed", "failed"}
    /\ link \in {"up", "frozen"}
GroupType ==
    /\ dels \subseteq Groups
    /\ groups \subseteq Groups
    /\ made \in 0 .. MaxGroups
    /\ lacking \in [panel : SUBSET Groups, other : SUBSET Groups]
    /\ unread \subseteq Groups
    /\ orphans \subseteq Groups

LEMMA TypeParts == TypeOK <=> SubType /\ JobType /\ HeardType /\ NamesType /\ GroupType
  BY DEF TypeOK, SubType, SubRecords, JobType, JobRecords, HeardType, NamesType, GroupType

LEMMA TypePartsNext == TypeOK' <=> (SubType /\ JobType /\ HeardType /\ NamesType /\ GroupType)'
  BY DEF TypeOK, SubType, SubRecords, JobType, JobRecords, HeardType, NamesType, GroupType

(* What the helpers make of a record. *)

LEMMA FinishedType ==
    /\ Finished \in JobRecords
    /\ \A a \in Awaits, b \in BOOLEAN : [Finished EXCEPT !.at = a, !.stored = b] \in JobRecords
    /\ \A a \in Awaits : [Finished EXCEPT !.at = a] \in JobRecords
  BY DEF Finished, Awaits, JobRecords

LEMMA ReconnectTypes ==
    ASSUME HeardType, NEW s \in SubRecords, ScheduleReconnect(s)
    PROVE  sub' \in SubRecords /\ HeardType'
  <1> USE SubscriptionAssumption
  <1>1. CASE s.closed
    BY <1>1 DEF ScheduleReconnect, Left, HeardType
  <1>2. CASE ~s.closed /\ s.attempts >= MaxAttempts
    <2>1. GiveUp(s)
      BY <1>2 DEF ScheduleReconnect, Left
    <2>2. sub' \in SubRecords
      BY <2>1 DEF GiveUp, SubRecords
    <2> QED
      BY <2>1, <2>2 DEF GiveUp, HeardType
  <1>3. CASE ~s.closed /\ ~(s.attempts >= MaxAttempts)
    <2>1. sub' = [s EXCEPT !.attempts = @ + 1, !.timer = TRUE] /\ UNCHANGED heard
      BY <1>3 DEF ScheduleReconnect, Left, Rearmed
    <2>2. s.attempts + 1 \in 0 .. MaxAttempts
      BY <1>3 DEF SubRecords
    <2>3. sub' \in SubRecords
      BY <2>1, <2>2 DEF SubRecords
    <2> QED
      BY <2>1, <2>3 DEF HeardType
  <1> QED
    BY <1>1, <1>2, <1>3

LEMMA FailedTypes ==
    ASSUME SubType, HeardType, Failed
    PROVE  SubType' /\ HeardType'
  BY ReconnectTypes DEF Failed, SubType, HeardType

LEMMA ShutType ==
    ASSUME SubType
    PROVE  [sub EXCEPT !.open = FALSE, !.alive = FALSE, !.probe = FALSE] \in SubRecords
  BY DEF SubType, SubRecords

LEMMA ClosesTypes ==
    ASSUME SubType, HeardType, Closes
    PROVE  SubType' /\ HeardType'
  BY ShutType, ReconnectTypes DEF Closes, SubType

LEMMA RegisteredSub ==
    ASSUME SubType, NEW g \in Groups, NEW w, Registered(g, w)
    PROVE  /\ SubType' /\ JobType'
           /\ sub'.url = g /\ sub'.unbound = (g \in w) /\ sub'.mapped = (adapter = "rws1")
           /\ sub'.closed = sub.closed /\ sub'.timer = sub.timer /\ sub'.open = sub.open
  <1>0. (g \in w) \in BOOLEAN /\ (adapter = "rws1") \in BOOLEAN
    BY SMT
  <1>1. PICK b \in BOOLEAN, c \in BOOLEAN : b = (g \in w) /\ c = (adapter = "rws1")
    BY <1>0, Zenon
  <1>2. sub' = [[sub EXCEPT !.url = g, !.unbound = b] EXCEPT !.mapped = c]
    BY <1>1, Zenon DEF Registered, Held
  <1>3. /\ sub' \in SubRecords
        /\ sub'.url = g /\ sub'.unbound = b /\ sub'.mapped = c
        /\ sub'.closed = sub.closed /\ sub'.timer = sub.timer /\ sub'.open = sub.open
    BY <1>2 DEF SubType, SubRecords
  <1>4. job' \in JobRecords
    BY FinishedType DEF Registered, Awaits
  <1> QED
    BY <1>1, <1>3, <1>4 DEF SubType, JobType

LEMMA UnboundTypes ==
    ASSUME SubType, JobType, NEW g \in Groups, Unbound(g)
    PROVE  SubType' /\ JobType'
  <1>1. \E a \in Awaits : job' = [job EXCEPT !.at = a, !.fresh = g]
    BY DEF Unbound, Awaits
  <1>2. sub' = sub
    BY DEF Unbound
  <1> QED
    BY <1>1, <1>2 DEF SubType, SubRecords, JobType, JobRecords

(* While a group is looked at it is one the controller made. *)
FreshOK == job.at \in {"list", "undo", "reject"} => job.fresh \in 1 .. made

LEMMA TypeStep ==
    ASSUME TypeOK, FreshOK, [Next]_vars
    PROVE  TypeOK'
  <1> USE SubscriptionAssumption
  <1>0. SubType /\ JobType /\ HeardType /\ NamesType /\ GroupType
    BY TypeParts
  <1>1. ASSUME Subscribe
        PROVE  (SubType /\ JobType /\ HeardType /\ NamesType /\ GroupType)'
    <2>1. SubType'
      BY <1>0, <1>1 DEF SubType, SubRecords, Subscribe, controller
    <2>2. JobType'
      BY <1>0, <1>1 DEF JobType, JobRecords, Awaits, Subscribe, controller
    <2>3. HeardType'
      BY <1>0, <1>1 DEF HeardType, Subscribe, controller
    <2>4. NamesType'
      BY <1>0, <1>1 DEF NamesType, Subscribe, controller
    <2>5. GroupType'
      BY <1>0, <1>1 DEF GroupType, Groups, SubType, SubRecords, Subscribe, controller
    <2> QED
      BY <2>1, <2>2, <2>3, <2>4, <2>5
  <1>2. ASSUME CreateAnswered
        PROVE  (SubType /\ JobType /\ HeardType /\ NamesType /\ GroupType)'
    <2>1. SubType'
      <3>1. made + 1 \in Groups
        BY <1>0, <1>2 DEF CreateAnswered, GroupType, Groups
      <3> QED
        BY <1>0, <1>2, <3>1, RegisteredSub, UnboundTypes DEF CreateAnswered, SubType
    <2>2. JobType'
      <3>1. made + 1 \in Groups
        BY <1>0, <1>2 DEF CreateAnswered, GroupType, Groups
      <3>2. ASSUME job' = [job EXCEPT !.at = "list", !.fresh = made + 1]
            PROVE  JobType'
        BY <1>0, <3>1, <3>2 DEF JobType, JobRecords, Awaits
      <3> QED
        BY <1>0, <1>2, <3>1, <3>2, RegisteredSub, UnboundTypes DEF CreateAnswered
    <2>3. HeardType'
      BY <1>0, <1>2 DEF HeardType, CreateAnswered, controller, Unbound, Registered, Held, Finished
    <2>4. NamesType'
      BY <1>0, <1>2 DEF NamesType, CreateAnswered, controller, Unbound, Registered, Held, Finished
    <2>5. GroupType'
      BY <1>0, <1>2 DEF GroupType, Groups, SubType, SubRecords, CreateAnswered, controller, Unbound, Registered, Held, Finished
    <2> QED
      BY <2>1, <2>2, <2>3, <2>4, <2>5
  <1>3. ASSUME CreateRespelled
        PROVE  (SubType /\ JobType /\ HeardType /\ NamesType /\ GroupType)'
    <2>1. SubType'
      BY <1>0, <1>3 DEF SubType, SubRecords, CreateRespelled, controller
    <2>2. JobType'
      BY <1>0, <1>3 DEF JobType, JobRecords, Awaits, CreateRespelled, controller
    <2>3. HeardType'
      BY <1>0, <1>3 DEF HeardType, CreateRespelled, controller
    <2>4. NamesType'
      BY <1>0, <1>3 DEF NamesType, CreateRespelled, controller
    <2>5. GroupType'
      BY <1>0, <1>3 DEF GroupType, Groups, SubType, SubRecords, CreateRespelled, controller
    <2> QED
      BY <2>1, <2>2, <2>3, <2>4, <2>5
  <1>4. ASSUME CreateFails
        PROVE  (SubType /\ JobType /\ HeardType /\ NamesType /\ GroupType)'
    <2>1. SubType'
      BY <1>0, <1>4, FailedTypes DEF CreateFails
    <2>2. JobType'
      BY <1>0, <1>4 DEF JobType, JobRecords, Awaits, CreateFails, controller, Failed, Finished, ScheduleReconnect, GiveUp, DropGroup, Rearmed, Left
    <2>3. HeardType'
      BY <1>0, <1>4 DEF HeardType, CreateFails, controller, Failed, Finished, ScheduleReconnect, GiveUp, DropGroup, Rearmed, Left
    <2>4. NamesType'
      BY <1>0, <1>4 DEF NamesType, CreateFails, controller, Failed, Finished, ScheduleReconnect, GiveUp, DropGroup, Rearmed, Left
    <2>5. GroupType'
      BY <1>0, <1>4 DEF GroupType, Groups, SubType, SubRecords, CreateFails, controller, Failed, Finished, ScheduleReconnect, GiveUp, DropGroup, Rearmed, Left
    <2> QED
      BY <2>1, <2>2, <2>3, <2>4, <2>5
  <1>5. ASSUME ListAnswered
        PROVE  (SubType /\ JobType /\ HeardType /\ NamesType /\ GroupType)'
    <2>1. SubType'
      <3>1. job.fresh \in Groups
        BY <1>0, <1>5 DEF ListAnswered, GroupType
      <3> QED
        BY <1>0, <1>5, <3>1, RegisteredSub, UnboundTypes DEF ListAnswered
    <2>2. JobType'
      <3>1. job.fresh \in Groups
        BY <1>0, <1>5 DEF ListAnswered, GroupType
      <3> QED
        BY <1>0, <1>5, <3>1, RegisteredSub, UnboundTypes DEF ListAnswered
    <2>3. HeardType'
      BY <1>0, <1>5 DEF HeardType, ListAnswered, controller, Unbound, Registered, Held, Finished
    <2>4. NamesType'
      BY <1>0, <1>5 DEF NamesType, ListAnswered, controller, Unbound, Registered, Held, Finished
    <2>5. GroupType'
      BY <1>0, <1>5 DEF GroupType, Groups, SubType, SubRecords, ListAnswered, controller, Unbound, Registered, Held, Finished
    <2> QED
      BY <2>1, <2>2, <2>3, <2>4, <2>5
  <1>6. ASSUME ListFails
        PROVE  (SubType /\ JobType /\ HeardType /\ NamesType /\ GroupType)'
    <2>1. SubType'
      <3>1. job.fresh \in Groups
        BY <1>0, <1>6 DEF ListFails, FreshOK, GroupType, Groups
      <3> QED
        BY <1>0, <1>6, <3>1, RegisteredSub DEF ListFails
    <2>2. JobType'
      <3>1. job.fresh \in Groups
        BY <1>0, <1>6 DEF ListFails, FreshOK, GroupType, Groups
      <3> QED
        BY <1>0, <1>6, <3>1, RegisteredSub DEF ListFails
    <2>3. HeardType'
      BY <1>0, <1>6 DEF HeardType, ListFails, controller, Registered, Held, Finished
    <2>4. NamesType'
      BY <1>0, <1>6 DEF NamesType, ListFails, controller, Registered, Held, Finished
    <2>5. GroupType'
      <3>1. job.fresh \in Groups
        BY <1>0, <1>6 DEF ListFails, FreshOK, GroupType, Groups
      <3> QED
        BY <1>0, <1>6, <3>1 DEF ListFails, GroupType, Registered
    <2> QED
      BY <2>1, <2>2, <2>3, <2>4, <2>5
  <1>7. ASSUME Undone
        PROVE  (SubType /\ JobType /\ HeardType /\ NamesType /\ GroupType)'
    <2>1. SubType'
      BY <1>0, <1>7 DEF SubType, SubRecords, Undone, controller, Deleted
    <2>2. JobType'
      BY <1>0, <1>7 DEF JobType, JobRecords, Awaits, Undone, controller, Deleted
    <2>3. HeardType'
      BY <1>0, <1>7 DEF HeardType, Undone, controller, Deleted
    <2>4. NamesType'
      BY <1>0, <1>7 DEF NamesType, Undone, controller, Deleted
    <2>5. GroupType'
      BY <1>0, <1>7 DEF GroupType, Groups, SubType, SubRecords, Undone, controller, Deleted
    <2> QED
      BY <2>1, <2>2, <2>3, <2>4, <2>5
  <1>8. ASSUME Rejected
        PROVE  (SubType /\ JobType /\ HeardType /\ NamesType /\ GroupType)'
    <2>1. SubType'
      BY <1>0, <1>8, FailedTypes DEF Rejected
    <2>2. JobType'
      BY <1>0, <1>8 DEF JobType, JobRecords, Awaits, Rejected, controller, Deleted, Failed, Finished, ScheduleReconnect, GiveUp, DropGroup, Rearmed, Left
    <2>3. HeardType'
      BY <1>0, <1>8 DEF HeardType, Rejected, controller, Deleted, Failed, Finished, ScheduleReconnect, GiveUp, DropGroup, Rearmed, Left
    <2>4. NamesType'
      BY <1>0, <1>8 DEF NamesType, Rejected, controller, Deleted, Failed, Finished, ScheduleReconnect, GiveUp, DropGroup, Rearmed, Left
    <2>5. GroupType'
      BY <1>0, <1>8 DEF GroupType, Groups, SubType, SubRecords, Rejected, controller, Deleted, Failed, Finished, ScheduleReconnect, GiveUp, DropGroup, Rearmed, Left
    <2> QED
      BY <2>1, <2>2, <2>3, <2>4, <2>5
  <1>9. ASSUME Dropped
        PROVE  (SubType /\ JobType /\ HeardType /\ NamesType /\ GroupType)'
    <2>1. SubType'
      BY <1>0, <1>9 DEF SubType, SubRecords, Dropped, controller, Deleted, Finished
    <2>2. JobType'
      BY <1>0, <1>9 DEF JobType, JobRecords, Awaits, Dropped, controller, Deleted, Finished
    <2>3. HeardType'
      BY <1>0, <1>9 DEF HeardType, Dropped, controller, Deleted, Finished
    <2>4. NamesType'
      BY <1>0, <1>9 DEF NamesType, Dropped, controller, Deleted, Finished
    <2>5. GroupType'
      BY <1>0, <1>9 DEF GroupType, Groups, SubType, SubRecords, Dropped, controller, Deleted, Finished
    <2> QED
      BY <2>1, <2>2, <2>3, <2>4, <2>5
  <1>10. ASSUME UpgradeOpens
        PROVE  (SubType /\ JobType /\ HeardType /\ NamesType /\ GroupType)'
    <2>1. SubType'
      <3>1. CASE sub.closed
        BY <1>0, <1>10, <3>1 DEF UpgradeOpens, Discards, SubType, SubRecords
      <3>2. CASE ~sub.closed
        <4>1. sub' = [sub EXCEPT !.open = TRUE, !.alive = TRUE, !.probe = FALSE, !.attempts = 0]
          BY <1>10, <3>2 DEF UpgradeOpens, Discards, Opened
        <4>2. 0 \in 0 .. MaxAttempts
          OBVIOUS
        <4> QED
          BY <1>0, <4>1, <4>2 DEF SubType, SubRecords
      <3> QED
        BY <3>1, <3>2
    <2>2. JobType'
      BY <1>0, <1>10 DEF JobType, JobRecords, Awaits, UpgradeOpens, controller, Opened, DropGroup, Finished
    <2>3. HeardType'
      BY <1>0, <1>10 DEF HeardType, UpgradeOpens, controller, Opened, DropGroup, Finished
    <2>4. NamesType'
      BY <1>0, <1>10 DEF NamesType, UpgradeOpens, controller, Opened, DropGroup, Finished
    <2>5. GroupType'
      BY <1>0, <1>10 DEF GroupType, Groups, SubType, SubRecords, UpgradeOpens, controller, Opened, DropGroup, Finished
    <2> QED
      BY <2>1, <2>2, <2>3, <2>4, <2>5
  <1>11. ASSUME UpgradeFailsRws1
        PROVE  (SubType /\ JobType /\ HeardType /\ NamesType /\ GroupType)'
    <2>1. SubType'
      <3>1. CASE user = "subscribing"
        BY <1>0, <1>11, <3>1 DEF UpgradeFailsRws1, SubType, SubRecords
      <3>2. CASE user # "subscribing"
        BY <1>0, <1>11, <3>2, FailedTypes DEF UpgradeFailsRws1, SubType
      <3> QED
        BY <3>1, <3>2
    <2>2. JobType'
      <3>1. CASE user = "subscribing"
        BY <1>0, <1>11, <3>1 DEF UpgradeFailsRws1, JobType, JobRecords, Awaits
      <3>2. CASE user # "subscribing"
        BY <1>11, <3>2, FinishedType DEF UpgradeFailsRws1, JobType, Awaits, Failed
      <3> QED
        BY <3>1, <3>2
    <2>3. HeardType'
      BY <1>0, <1>11 DEF HeardType, UpgradeFailsRws1, controller, Failed, Finished, ScheduleReconnect, GiveUp, DropGroup, Rearmed, Left
    <2>4. NamesType'
      BY <1>0, <1>11 DEF NamesType, UpgradeFailsRws1, controller, Failed, Finished, ScheduleReconnect, GiveUp, DropGroup, Rearmed, Left
    <2>5. GroupType'
      BY <1>0, <1>11 DEF GroupType, Groups, SubType, SubRecords, UpgradeFailsRws1, controller, Failed, Finished, ScheduleReconnect, GiveUp, DropGroup, Rearmed, Left
    <2> QED
      BY <2>1, <2>2, <2>3, <2>4, <2>5
  <1>12. ASSUME UpgradeFailsRws2
        PROVE  (SubType /\ JobType /\ HeardType /\ NamesType /\ GroupType)'
    <2>1. SubType'
      <3>1. CASE sub' = sub
        BY <1>0, <3>1 DEF SubType
      <3>2. CASE GiveUp(sub)
        BY <1>0, <3>2 DEF GiveUp, SubType, SubRecords
      <3>3. CASE ~sub.closed /\ sub.attempts < MaxAttempts /\ sub' = [sub EXCEPT !.attempts = @ + 1, !.timer = TRUE]
        <4>1. sub.attempts + 1 \in 0 .. MaxAttempts
          BY <1>0, <3>3 DEF SubType, SubRecords
        <4> QED
          BY <1>0, <3>3, <4>1 DEF SubType, SubRecords
      <3> QED
        BY <1>12, <3>1, <3>2, <3>3 DEF UpgradeFailsRws2, Left, Rearmed
    <2>2. JobType'
      BY <1>0, <1>12 DEF JobType, JobRecords, Awaits, UpgradeFailsRws2, controller, GiveUp, DropGroup, Rearmed, Left, Finished
    <2>3. HeardType'
      BY <1>0, <1>12 DEF HeardType, UpgradeFailsRws2, controller, GiveUp, DropGroup, Rearmed, Left, Finished
    <2>4. NamesType'
      BY <1>0, <1>12 DEF NamesType, UpgradeFailsRws2, controller, GiveUp, DropGroup, Rearmed, Left, Finished
    <2>5. GroupType'
      BY <1>0, <1>12 DEF GroupType, Groups, SubType, SubRecords, UpgradeFailsRws2, controller, GiveUp, DropGroup, Rearmed, Left, Finished
    <2> QED
      BY <2>1, <2>2, <2>3, <2>4, <2>5
  <1>13. ASSUME Abandoned
        PROVE  (SubType /\ JobType /\ HeardType /\ NamesType /\ GroupType)'
    <2>1. SubType'
      BY <1>0, <1>13 DEF SubType, SubRecords, Abandoned, controller, Deleted, Finished
    <2>2. JobType'
      BY <1>0, <1>13 DEF JobType, JobRecords, Awaits, Abandoned, controller, Deleted, Finished
    <2>3. HeardType'
      BY <1>0, <1>13 DEF HeardType, Abandoned, controller, Deleted, Finished
    <2>4. NamesType'
      BY <1>0, <1>13 DEF NamesType, Abandoned, controller, Deleted, Finished
    <2>5. GroupType'
      BY <1>0, <1>13 DEF GroupType, Groups, SubType, SubRecords, Abandoned, controller, Deleted, Finished
    <2> QED
      BY <2>1, <2>2, <2>3, <2>4, <2>5
  <1>14. ASSUME Stop
        PROVE  (SubType /\ JobType /\ HeardType /\ NamesType /\ GroupType)'
    <2>1. SubType'
      BY <1>0, <1>14 DEF SubType, SubRecords, Stop, controller, Ends, DropGroup
    <2>2. JobType'
      BY <1>0, <1>14 DEF JobType, JobRecords, Awaits, Stop, controller, Ends, DropGroup
    <2>3. HeardType'
      BY <1>0, <1>14 DEF HeardType, Stop, controller, Ends, DropGroup
    <2>4. NamesType'
      BY <1>0, <1>14 DEF NamesType, Stop, controller, Ends, DropGroup
    <2>5. GroupType'
      BY <1>0, <1>14 DEF GroupType, Groups, SubType, SubRecords, Stop, controller, Ends, DropGroup
    <2> QED
      BY <2>1, <2>2, <2>3, <2>4, <2>5
  <1>15. ASSUME CloseAll
        PROVE  (SubType /\ JobType /\ HeardType /\ NamesType /\ GroupType)'
    <2>1. SubType'
      BY <1>0, <1>15 DEF SubType, SubRecords, CloseAll, controller, Ends, DropGroup
    <2>2. JobType'
      BY <1>0, <1>15 DEF JobType, JobRecords, Awaits, CloseAll, controller, Ends, DropGroup
    <2>3. HeardType'
      BY <1>0, <1>15 DEF HeardType, CloseAll, controller, Ends, DropGroup
    <2>4. NamesType'
      BY <1>0, <1>15 DEF NamesType, CloseAll, controller, Ends, DropGroup
    <2>5. GroupType'
      BY <1>0, <1>15 DEF GroupType, Groups, SubType, SubRecords, CloseAll, controller, Ends, DropGroup
    <2> QED
      BY <2>1, <2>2, <2>3, <2>4, <2>5
  <1>16. ASSUME TimerFires
        PROVE  (SubType /\ JobType /\ HeardType /\ NamesType /\ GroupType)'
    <2>1. SubType'
      BY <1>0, <1>16 DEF SubType, SubRecords, TimerFires, controller, Finished
    <2>2. JobType'
      BY <1>0, <1>16 DEF JobType, JobRecords, Awaits, TimerFires, controller, Finished
    <2>3. HeardType'
      BY <1>0, <1>16 DEF HeardType, TimerFires, controller, Finished
    <2>4. NamesType'
      BY <1>0, <1>16 DEF NamesType, TimerFires, controller, Finished
    <2>5. GroupType'
      BY <1>0, <1>16 DEF GroupType, Groups, SubType, SubRecords, TimerFires, controller, Finished
    <2> QED
      BY <2>1, <2>2, <2>3, <2>4, <2>5
  <1>17. ASSUME SocketDrops
        PROVE  (SubType /\ JobType /\ HeardType /\ NamesType /\ GroupType)'
    <2>1. SubType'
      BY <1>0, <1>17, ClosesTypes DEF SocketDrops, SubType
    <2>2. JobType'
      BY <1>0, <1>17 DEF JobType, JobRecords, Awaits, SocketDrops, controller, Closes, ScheduleReconnect, GiveUp, DropGroup, Rearmed, Left
    <2>3. HeardType'
      BY <1>0, <1>17 DEF HeardType, SocketDrops, controller, Closes, ScheduleReconnect, GiveUp, DropGroup, Rearmed, Left
    <2>4. NamesType'
      BY <1>0, <1>17 DEF NamesType, SocketDrops, controller, Closes, ScheduleReconnect, GiveUp, DropGroup, Rearmed, Left
    <2>5. GroupType'
      BY <1>0, <1>17 DEF GroupType, Groups, SubType, SubRecords, SocketDrops, controller, Closes, ScheduleReconnect, GiveUp, DropGroup, Rearmed, Left
    <2> QED
      BY <2>1, <2>2, <2>3, <2>4, <2>5
  <1>18. ASSUME Tick
        PROVE  (SubType /\ JobType /\ HeardType /\ NamesType /\ GroupType)'
    <2>1. SubType'
      <3>1. CASE sub.alive
        BY <1>0, <1>18, <3>1 DEF Tick, SubType, SubRecords
      <3>2. CASE ~sub.alive
        BY <1>0, <1>18, <3>2, ClosesTypes DEF Tick
      <3> QED
        BY <3>1, <3>2
    <2>2. JobType'
      BY <1>0, <1>18 DEF JobType, JobRecords, Awaits, Tick, controller, Closes, ScheduleReconnect, GiveUp, DropGroup, Rearmed, Left
    <2>3. HeardType'
      BY <1>0, <1>18 DEF HeardType, Tick, controller, Closes, ScheduleReconnect, GiveUp, DropGroup, Rearmed, Left
    <2>4. NamesType'
      BY <1>0, <1>18 DEF NamesType, Tick, controller, Closes, ScheduleReconnect, GiveUp, DropGroup, Rearmed, Left
    <2>5. GroupType'
      BY <1>0, <1>18 DEF GroupType, Groups, SubType, SubRecords, Tick, controller, Closes, ScheduleReconnect, GiveUp, DropGroup, Rearmed, Left
    <2> QED
      BY <2>1, <2>2, <2>3, <2>4, <2>5
  <1>19. ASSUME SignOfLife
        PROVE  (SubType /\ JobType /\ HeardType /\ NamesType /\ GroupType)'
    <2>1. SubType'
      BY <1>0, <1>19 DEF SubType, SubRecords, SignOfLife, controller
    <2>2. JobType'
      BY <1>0, <1>19 DEF JobType, JobRecords, Awaits, SignOfLife, controller
    <2>3. HeardType'
      BY <1>0, <1>19 DEF HeardType, SignOfLife, controller
    <2>4. NamesType'
      BY <1>0, <1>19 DEF NamesType, SignOfLife, controller
    <2>5. GroupType'
      BY <1>0, <1>19 DEF GroupType, Groups, SubType, SubRecords, SignOfLife, controller
    <2> QED
      BY <2>1, <2>2, <2>3, <2>4, <2>5
  <1>20. ASSUME ProbeEnds
        PROVE  (SubType /\ JobType /\ HeardType /\ NamesType /\ GroupType)'
    <2>1. SubType'
      BY <1>0, <1>20 DEF SubType, SubRecords, ProbeEnds, controller, ProvesLife
    <2>2. JobType'
      BY <1>0, <1>20 DEF JobType, JobRecords, Awaits, ProbeEnds, controller, ProvesLife
    <2>3. HeardType'
      BY <1>0, <1>20 DEF HeardType, ProbeEnds, controller, ProvesLife
    <2>4. NamesType'
      BY <1>0, <1>20 DEF NamesType, ProbeEnds, controller, ProvesLife
    <2>5. GroupType'
      BY <1>0, <1>20 DEF GroupType, Groups, SubType, SubRecords, ProbeEnds, controller, ProvesLife
    <2> QED
      BY <2>1, <2>2, <2>3, <2>4, <2>5
  <1>21. ASSUME DeleteEnds
        PROVE  (SubType /\ JobType /\ HeardType /\ NamesType /\ GroupType)'
    <2>1. SubType'
      BY <1>0, <1>21 DEF SubType, SubRecords, DeleteEnds, controller, Deleted
    <2>2. JobType'
      BY <1>0, <1>21 DEF JobType, JobRecords, Awaits, DeleteEnds, controller, Deleted
    <2>3. HeardType'
      BY <1>0, <1>21 DEF HeardType, DeleteEnds, controller, Deleted
    <2>4. NamesType'
      BY <1>0, <1>21 DEF NamesType, DeleteEnds, controller, Deleted
    <2>5. GroupType'
      BY <1>0, <1>21 DEF GroupType, Groups, SubType, SubRecords, DeleteEnds, controller, Deleted
    <2> QED
      BY <2>1, <2>2, <2>3, <2>4, <2>5
  <1>22. ASSUME Freeze
        PROVE  (SubType /\ JobType /\ HeardType /\ NamesType /\ GroupType)'
    <2>1. SubType'
      BY <1>0, <1>22 DEF SubType, SubRecords, Freeze, controller
    <2>2. JobType'
      BY <1>0, <1>22 DEF JobType, JobRecords, Awaits, Freeze, controller
    <2>3. HeardType'
      BY <1>0, <1>22 DEF HeardType, Freeze, controller
    <2>4. NamesType'
      BY <1>0, <1>22 DEF NamesType, Freeze, controller
    <2>5. GroupType'
      BY <1>0, <1>22 DEF GroupType, Groups, SubType, SubRecords, Freeze, controller
    <2> QED
      BY <2>1, <2>2, <2>3, <2>4, <2>5
  <1>23. ASSUME Restart
        PROVE  (SubType /\ JobType /\ HeardType /\ NamesType /\ GroupType)'
    <2>1. SubType'
      BY <1>0, <1>23, ClosesTypes DEF Restart, SubType
    <2>2. JobType'
      BY <1>0, <1>23 DEF JobType, JobRecords, Awaits, Restart, controller, Closes, ScheduleReconnect, GiveUp, DropGroup, Rearmed, Left
    <2>3. HeardType'
      BY <1>0, <1>23 DEF HeardType, Restart, controller, Closes, ScheduleReconnect, GiveUp, DropGroup, Rearmed, Left
    <2>4. NamesType'
      BY <1>0, <1>23 DEF NamesType, Restart, controller, Closes, ScheduleReconnect, GiveUp, DropGroup, Rearmed, Left
    <2>5. GroupType'
      BY <1>0, <1>23 DEF GroupType, Groups, SubType, SubRecords, Restart, controller, Closes, ScheduleReconnect, GiveUp, DropGroup, Rearmed, Left
    <2> QED
      BY <2>1, <2>2, <2>3, <2>4, <2>5
  <1>99. ASSUME UNCHANGED vars
         PROVE  (SubType /\ JobType /\ HeardType /\ NamesType /\ GroupType)'
    BY <1>0, <1>99 DEF SubType, SubRecords, JobType, HeardType, NamesType, GroupType, vars
  <1> QED
    BY <1>1, <1>2, <1>3, <1>4, <1>5, <1>6, <1>7, <1>8, <1>9, <1>10, <1>11, <1>12, <1>13, <1>14, <1>15, <1>16, <1>17, <1>18, <1>19, <1>20, <1>21, <1>22, <1>23, <1>99, TypePartsNext DEF Next, JobStep

-----------------------------------------------------------------------------
(* The invariant. *)

Registering == {"create", "list", "undo", "reject"}

(* The routine, the timer of the next attempt and the open stream exclude  *)
(* each other; none of them is left after the end.                         *)
ActivityOK ==
    /\ job.at # "none" => ~sub.open /\ ~sub.timer
    /\ sub.timer => ~sub.open
    /\ sub.closed => ~sub.open /\ ~sub.timer
    /\ heard.lost > 0 \/ user \in {"new", "failed"} => job.at = "none" /\ ~sub.open /\ ~sub.timer
    /\ user = "new" => sub.url = 0 /\ dels = {} /\ ~sub.closed /\ ~sub.mapped /\ heard.lost = 0
    /\ job.at = "abandon" => adapter = "rws1"
    /\ sub.mapped => adapter = "rws1"

(* Groups are numbered as they are made; the one looked at is new. *)
MadeOK ==
    /\ groups \cup dels \cup orphans \cup unread \cup lacking.panel \cup lacking.other \subseteq 1 .. made
    /\ sub.url \in 0 .. made
    /\ FreshOK
    /\ job.at \in {"list", "undo", "reject"} => job.fresh # sub.url /\ job.fresh \notin dels

(* Who will delete the group of the handle. *)
Kept ==
    \/ sub.mapped
    \/ job.at = "abandon"
    \/ adapter = "rws2" /\ (sub.open \/ sub.timer \/ job.at \in {"drop", "upgrade"})

(* Every group on the controller has somebody who will delete it, or its   *)
(* create or DELETE failed.                                                *)
AccountOK ==
    /\ \A g \in groups :
        \/ g \in orphans \cup dels
        \/ g = job.fresh /\ job.at \in {"list", "undo", "reject"}
        \/ g = sub.url /\ Kept
    /\ job.at \in Registering /\ sub.url \in groups => sub.url \in orphans \cup dels

(* The handle names a group with its panel resources and what it left out, *)
(* and no DELETE of the group of a stream is on its way.                   *)
StreamOK ==
    /\ sub.open => sub.url \in groups
    /\ sub.url \in lacking.panel => sub.url \in unread
    /\ sub.unbound => sub.url \in lacking.other
    /\ adapter = "rws2" /\ (sub.open \/ job.at = "upgrade") /\ sub.url \in lacking.other => sub.unbound
    /\ sub.open \/ (job.at = "upgrade" /\ ~sub.closed) => sub.url \notin dels
    /\ adapter = "rws1" /\ ~sub.closed /\ heard.lost = 0 => dels = {}

Inv == TypeOK /\ ActivityOK /\ MadeOK /\ AccountOK /\ StreamOK

-----------------------------------------------------------------------------
(* What the helpers do to the fields the invariant reads. *)

(* s with another group, what it left out, and whether it is in the map. *)
Fields(s, timer, url, unbound, mapped) ==
    /\ sub'.closed = s.closed /\ sub'.open = s.open /\ sub'.timer = timer
    /\ sub'.url = url /\ sub'.unbound = unbound /\ sub'.mapped = mapped

Reconnected(s) ==
    \/ s.closed /\ sub' = s /\ UNCHANGED <<dels, heard>>
    \/ /\ ~s.closed
       /\ Fields(s, s.timer, IF adapter = "rws2" THEN 0 ELSE s.url, FALSE, FALSE)
       /\ dels' = dels \cup ({s.url} \ {0})
       /\ heard'.lost = heard.lost + 1
    \/ /\ ~s.closed
       /\ Fields(s, TRUE, s.url, s.unbound, s.mapped)
       /\ UNCHANGED <<dels, heard>>

LEMMA GiveUpEffect ==
    ASSUME HeardType, NEW s \in SubRecords, ~s.closed, GiveUp(s)
    PROVE  Reconnected(s)
  <1>1. Fields(s, s.timer, IF adapter = "rws2" THEN 0 ELSE s.url, FALSE, FALSE)
    BY DEF GiveUp, SubRecords, Fields
  <1>2. heard'.lost = heard.lost + 1
    BY DEF GiveUp, HeardType
  <1> QED
    BY <1>1, <1>2 DEF GiveUp, DropGroup, Reconnected

LEMMA RearmedEffect ==
    ASSUME NEW s \in SubRecords, sub' = Rearmed(s)
    PROVE  Fields(s, TRUE, s.url, s.unbound, s.mapped)
  BY DEF Rearmed, SubRecords, Fields

LEMMA ReconnectEffect ==
    ASSUME HeardType, NEW s \in SubRecords, ScheduleReconnect(s)
    PROVE  Reconnected(s)
  <1>1. CASE s.closed
    BY <1>1 DEF ScheduleReconnect, Left, Reconnected
  <1>2. CASE ~s.closed /\ s.attempts >= MaxAttempts
    BY <1>2, GiveUpEffect DEF ScheduleReconnect, Left
  <1>3. CASE ~s.closed /\ ~(s.attempts >= MaxAttempts)
    BY <1>3, RearmedEffect DEF ScheduleReconnect, Left, Reconnected
  <1> QED
    BY <1>1, <1>2, <1>3

LEMMA FailedEffect ==
    ASSUME SubType, HeardType, Failed
    PROVE  /\ job'.at = "none"
           /\ \/ user = "subscribing" /\ user' = "failed" /\ UNCHANGED <<sub, dels, heard>>
              \/ user # "subscribing" /\ user' = user /\ Reconnected(sub)
  <1>1. job'.at = "none"
    BY DEF Failed, Finished
  <1> QED
    BY <1>1, ReconnectEffect DEF Failed, SubType

(* The socket is closed; the handle is otherwise as it was. *)
LEMMA ClosesEffect ==
    ASSUME SubType, HeardType, Closes
    PROVE  \E s \in SubRecords :
              /\ ~s.open /\ s.closed = sub.closed /\ s.timer = sub.timer
              /\ s.url = sub.url /\ s.unbound = sub.unbound /\ s.mapped = sub.mapped
              /\ Reconnected(s)
  <1> DEFINE s == [sub EXCEPT !.open = FALSE, !.alive = FALSE, !.probe = FALSE]
  <1>1. s \in SubRecords
    BY ShutType
  <1>2. Reconnected(s)
    BY <1>1, ReconnectEffect DEF Closes
  <1>3. ~s.open /\ s.closed = sub.closed /\ s.timer = sub.timer
        /\ s.url = sub.url /\ s.unbound = sub.unbound /\ s.mapped = sub.mapped
    BY DEF SubType, SubRecords
  <1> HIDE DEF s
  <1> QED
    BY <1>1, <1>2, <1>3

LEMMA RegisteredEffect ==
    ASSUME SubType, NEW g \in Groups, NEW w, Registered(g, w)
    PROVE  /\ Fields(sub, sub.timer, g, g \in w, adapter = "rws1")
           /\ job'.at = IF adapter = "rws1" /\ sub.closed THEN "none" ELSE "upgrade"
           /\ UNCHANGED <<user, heard, dels>>
  <1>1. job'.at = IF adapter = "rws1" /\ sub.closed THEN "none" ELSE "upgrade"
    BY DEF Registered, Finished
  <1> QED
    BY <1>1, RegisteredSub DEF Registered, Fields

LEMMA UnboundEffect ==
    ASSUME JobType, NEW g \in Groups, Unbound(g)
    PROVE  job'.at \in {"undo", "reject"} /\ job'.fresh = g /\ UNCHANGED <<user, sub, heard, dels>>
  BY DEF JobType, JobRecords, Unbound

-----------------------------------------------------------------------------
(* The parts of the invariant, action by action. *)

(* A group is registered: a new one, or the one whose listing was asked for. *)
LEMMA RegisteredKeeps ==
    ASSUME Inv, NEW g,
           job.at \in {"create", "list"}, job.at = "list" => job.fresh = g,
           g \in 1 .. made', g \notin dels, groups' \subseteq groups \cup {g}, orphans' = orphans,
           groups' \cup dels \cup orphans \cup unread' \cup lacking'.panel \cup lacking'.other \subseteq 1 .. made',
           g \in lacking'.panel => g \in unread',
           Fields(sub, sub.timer, g, g \in lacking'.other, adapter = "rws1"),
           job'.at = IF adapter = "rws1" /\ sub.closed THEN "none" ELSE "upgrade",
           UNCHANGED <<adapter, user, heard, dels>>
    PROVE  (ActivityOK /\ MadeOK /\ AccountOK /\ StreamOK)'
  <1>0. ActivityOK /\ MadeOK /\ AccountOK /\ StreamOK
    BY DEF Inv
  <1>1. /\ sub'.closed = sub.closed /\ sub'.open = sub.open /\ sub'.timer = sub.timer /\ sub'.url = g
        /\ sub'.unbound <=> g \in lacking'.other
        /\ sub'.mapped <=> adapter = "rws1"
    BY DEF Fields
  <1>2. ~sub.open /\ ~sub.timer /\ user \notin {"new", "failed"} /\ ~(heard.lost > 0)
    BY <1>0 DEF ActivityOK
  <1>3. job'.at \in {"none", "upgrade"}
    OBVIOUS
  <1>4. ActivityOK'
    BY <1>0, <1>1, <1>2, <1>3 DEF ActivityOK
  <1>5. MadeOK'
    BY <1>1, <1>3 DEF MadeOK, FreshOK
  <1>6. AccountOK'
    <2>1. adapter \in {"rws1", "rws2"}
      BY SubscriptionAssumption DEF Inv, TypeOK
    <2>2. Kept'
      <3>1. CASE adapter = "rws1"
        BY <1>1, <3>1 DEF Kept
      <3>2. CASE adapter = "rws2"
        BY <3>2 DEF Kept
      <3> QED
        BY <2>1, <3>1, <3>2
    <2>3. \A x \in groups' : x \in orphans \cup dels \/ x = g
      BY <1>0 DEF AccountOK, Registering
    <2> QED
      BY <1>1, <1>3, <2>2, <2>3 DEF AccountOK, Registering
  <1>7. StreamOK'
    BY <1>0, <1>1, <1>2, <1>3 DEF StreamOK
  <1> QED
    BY <1>4, <1>5, <1>6, <1>7

LEMMA Step ==
    ASSUME Inv, Next
    PROVE  (ActivityOK /\ MadeOK /\ AccountOK /\ StreamOK)'
  <1> USE SubscriptionAssumption
  <1>0. SubType /\ JobType /\ HeardType /\ NamesType /\ GroupType /\ ActivityOK /\ MadeOK /\ AccountOK /\ StreamOK
    BY TypeParts DEF Inv
  <1>1. ASSUME Subscribe
        PROVE  (ActivityOK /\ MadeOK /\ AccountOK /\ StreamOK)'
    <2>1. ActivityOK'
      BY <1>0, <1>1 DEF ActivityOK, SubType, SubRecords, JobType, JobRecords, HeardType, Subscribe, controller
    <2>2. MadeOK'
      BY <1>0, <1>1 DEF MadeOK, FreshOK, GroupType, SubType, SubRecords, JobType, JobRecords, Subscribe, controller
    <2>3. AccountOK'
      BY <1>0, <1>1 DEF AccountOK, Kept, Registering, ActivityOK, MadeOK, FreshOK, SubType, SubRecords, JobType, JobRecords, Subscribe, controller
    <2>4. StreamOK'
      BY <1>0, <1>1 DEF StreamOK, ActivityOK, MadeOK, FreshOK, HeardType, SubType, SubRecords, JobType, JobRecords, Subscribe, controller
    <2> QED
      BY <2>1, <2>2, <2>3, <2>4
  <1>2. ASSUME CreateAnswered
        PROVE  (ActivityOK /\ MadeOK /\ AccountOK /\ StreamOK)'
    <2>1. PICK noPanel \in BOOLEAN, noOther \in BOOLEAN, suspect \in BOOLEAN :
            /\ lacking' = [panel |-> lacking.panel \cup {g \in {made + 1} : noPanel},
                           other |-> lacking.other \cup {g \in {made + 1} : noOther}]
            /\ \/ /\ suspect
                  /\ job' = [job EXCEPT !.at = "list", !.fresh = made + 1]
                  /\ UNCHANGED <<user, sub, heard, dels>>
               \/ ~suspect /\ noPanel /\ Unbound(made + 1)
               \/ ~suspect /\ ~noPanel /\ Registered(made + 1, lacking'.other)
      BY <1>2 DEF CreateAnswered
    <2>2. /\ job.at = "create" /\ made' = made + 1 /\ groups' = groups \cup {made + 1}
          /\ UNCHANGED <<adapter, unread, orphans>> /\ made + 1 \in Groups /\ made \in Nat
      BY <1>0, <1>2 DEF CreateAnswered, GroupType, Groups
    <2>3. /\ lacking'.panel \subseteq lacking.panel \cup {made + 1}
          /\ lacking'.other \subseteq lacking.other \cup {made + 1}
          /\ lacking.panel \subseteq lacking'.panel /\ lacking.other \subseteq lacking'.other
          /\ ~noPanel => lacking'.panel = lacking.panel
      BY <2>1
    <2>4. /\ groups' \cup dels \cup orphans \cup unread' \cup lacking'.panel \cup lacking'.other \subseteq 1 .. made'
          /\ made + 1 \notin dels \cup groups \cup orphans \cup lacking.panel \cup lacking.other
          /\ sub.url # made + 1 /\ sub.url \in 0 .. made'
      BY <1>0, <2>2, <2>3 DEF MadeOK
    <2>5. CASE Registered(made + 1, lacking'.other) /\ ~noPanel
      <3>1. /\ Fields(sub, sub.timer, made + 1, made + 1 \in lacking'.other, adapter = "rws1")
            /\ job'.at = IF adapter = "rws1" /\ sub.closed THEN "none" ELSE "upgrade"
            /\ UNCHANGED <<user, heard, dels>>
        BY <1>0, <2>2, <2>5, RegisteredEffect
      <3>2. made + 1 \in 1 .. made' /\ (made + 1 \in lacking'.panel => made + 1 \in unread')
        BY <2>2, <2>3, <2>4, <2>5
      <3> QED
        BY <2>2, <2>4, <3>1, <3>2, RegisteredKeeps
    <2>6. CASE job'.at \in {"list", "undo", "reject"} /\ job'.fresh = made + 1 /\ UNCHANGED <<user, sub, heard, dels>>
      <3>1. ActivityOK'
        BY <1>0, <2>2, <2>6 DEF ActivityOK
      <3>2. MadeOK'
        BY <2>2, <2>4, <2>6 DEF MadeOK, FreshOK
      <3>3. AccountOK'
        BY <1>0, <2>2, <2>4, <2>6 DEF AccountOK, Registering, Kept
      <3>4. StreamOK'
        BY <1>0, <2>2, <2>3, <2>4, <2>6 DEF StreamOK, ActivityOK
      <3> QED
        BY <3>1, <3>2, <3>3, <3>4
    <2>7. CASE job' = [job EXCEPT !.at = "list", !.fresh = made + 1] /\ UNCHANGED <<user, sub, heard, dels>>
      <3>1. job'.at = "list" /\ job'.fresh = made + 1
        BY <1>0, <2>7 DEF JobType, JobRecords
      <3> QED
        BY <2>6, <2>7, <3>1
    <2>8. CASE Unbound(made + 1)
      BY <1>0, <2>2, <2>6, <2>8, UnboundEffect
    <2> QED
      BY <2>1, <2>5, <2>7, <2>8
  <1>3. ASSUME CreateRespelled
        PROVE  (ActivityOK /\ MadeOK /\ AccountOK /\ StreamOK)'
    <2>1. ActivityOK'
      BY <1>0, <1>3 DEF ActivityOK, SubType, SubRecords, JobType, JobRecords, HeardType, CreateRespelled, controller
    <2>2. MadeOK'
      BY <1>0, <1>3 DEF MadeOK, FreshOK, GroupType, SubType, SubRecords, JobType, JobRecords, CreateRespelled, controller
    <2>3. AccountOK'
      BY <1>0, <1>3 DEF AccountOK, Kept, Registering, ActivityOK, MadeOK, FreshOK, SubType, SubRecords, JobType, JobRecords, CreateRespelled, controller
    <2>4. StreamOK'
      BY <1>0, <1>3 DEF StreamOK, ActivityOK, MadeOK, FreshOK, HeardType, SubType, SubRecords, JobType, JobRecords, CreateRespelled, controller
    <2> QED
      BY <2>1, <2>2, <2>3, <2>4
  <1>4. ASSUME CreateFails
        PROVE  (ActivityOK /\ MadeOK /\ AccountOK /\ StreamOK)'
    <2>a. job.at = "create" /\ job'.at = "none" /\ adapter' = adapter
      BY <1>0, <1>4, FailedEffect DEF CreateFails
    <2>b. \/ user = "subscribing" /\ user' = "failed" /\ UNCHANGED <<sub, dels, heard>>
          \/ user # "subscribing" /\ user' = user /\ Reconnected(sub)
      BY <1>0, <1>4, FailedEffect DEF CreateFails
    <2>c. \/ UNCHANGED <<groups, made, lacking, unread, orphans>>
          \/ /\ made' = made + 1 /\ groups' = groups \cup {made + 1} /\ orphans' = orphans \cup {made + 1}
             /\ UNCHANGED <<lacking, unread>>
      BY <1>4 DEF CreateFails, controller
    <2>1. ActivityOK'
      BY <1>0, <2>a, <2>b, <2>c DEF ActivityOK, HeardType, Reconnected, Fields
    <2>2. MadeOK'
      BY <1>0, <2>a, <2>b, <2>c DEF MadeOK, FreshOK, GroupType, Reconnected, Fields
    <2>3. AccountOK'
      BY <1>0, <2>a, <2>b, <2>c DEF AccountOK, Kept, Registering, ActivityOK, MadeOK, FreshOK, Reconnected, Fields
    <2>4. StreamOK'
      BY <1>0, <2>a, <2>b, <2>c DEF StreamOK, ActivityOK, MadeOK, FreshOK, HeardType, Reconnected, Fields
    <2> QED
      BY <2>1, <2>2, <2>3, <2>4
  <1>5. ASSUME ListAnswered
        PROVE  (ActivityOK /\ MadeOK /\ AccountOK /\ StreamOK)'
    <2>1. job.at = "list" /\ job.fresh \in Groups /\ job.fresh \in 1 .. made /\ job.fresh \notin dels /\ job.fresh # sub.url
      BY <1>0, <1>5 DEF ListAnswered, MadeOK, FreshOK, GroupType, Groups
    <2>2. UNCHANGED <<adapter, groups, made, lacking, orphans>> /\ unread' = unread
      BY <1>5 DEF ListAnswered, controller
    <2>3. groups' \cup dels \cup orphans \cup unread' \cup lacking'.panel \cup lacking'.other \subseteq 1 .. made'
      BY <1>0, <2>1, <2>2 DEF MadeOK
    <2>4. CASE Registered(job.fresh, lacking.other) /\ (job.fresh \in lacking.panel => job.fresh \in unread')
      <3>1. /\ Fields(sub, sub.timer, job.fresh, job.fresh \in lacking'.other, adapter = "rws1")
            /\ job'.at = IF adapter = "rws1" /\ sub.closed THEN "none" ELSE "upgrade"
            /\ UNCHANGED <<user, heard, dels>>
        BY <1>0, <2>1, <2>2, <2>4, RegisteredEffect
      <3> QED
        BY <2>1, <2>2, <2>3, <2>4, <3>1, RegisteredKeeps
    <2>5. CASE Unbound(job.fresh)
      <3>1. job'.at \in {"undo", "reject"} /\ job'.fresh = job.fresh /\ UNCHANGED <<user, sub, heard, dels>>
        BY <1>0, <2>1, <2>5, UnboundEffect
      <3> QED
        BY <1>0, <2>1, <2>2, <3>1 DEF ActivityOK, MadeOK, FreshOK, AccountOK, Registering, Kept, StreamOK
    <2> QED
      BY <1>5, <2>4, <2>5 DEF ListAnswered
  <1>6. ASSUME ListFails
        PROVE  (ActivityOK /\ MadeOK /\ AccountOK /\ StreamOK)'
    <2>1. job.at = "list" /\ job.fresh \in Groups /\ job.fresh \in 1 .. made /\ job.fresh \notin dels /\ job.fresh # sub.url
      BY <1>0, <1>6 DEF ListFails, MadeOK, FreshOK, GroupType, Groups
    <2>2. UNCHANGED <<adapter, groups, made, lacking, orphans>> /\ unread' = unread \cup {job.fresh}
      BY <1>6 DEF ListFails, controller
    <2>3. groups' \cup dels \cup orphans \cup unread' \cup lacking'.panel \cup lacking'.other \subseteq 1 .. made'
      BY <1>0, <2>1, <2>2 DEF MadeOK
    <2>4. CASE Registered(job.fresh, lacking.other) /\ (job.fresh \in lacking.panel => job.fresh \in unread')
      <3>1. /\ Fields(sub, sub.timer, job.fresh, job.fresh \in lacking'.other, adapter = "rws1")
            /\ job'.at = IF adapter = "rws1" /\ sub.closed THEN "none" ELSE "upgrade"
            /\ UNCHANGED <<user, heard, dels>>
        BY <1>0, <2>1, <2>2, <2>4, RegisteredEffect
      <3> QED
        BY <2>1, <2>2, <2>3, <2>4, <3>1, RegisteredKeeps
    <2> QED
      BY <1>6, <2>2, <2>4 DEF ListFails
  <1>7. ASSUME Undone
        PROVE  (ActivityOK /\ MadeOK /\ AccountOK /\ StreamOK)'
    <2>1. ActivityOK'
      BY <1>0, <1>7 DEF ActivityOK, SubType, SubRecords, JobType, JobRecords, HeardType, Undone, controller, Deleted
    <2>2. MadeOK'
      BY <1>0, <1>7 DEF MadeOK, FreshOK, GroupType, SubType, SubRecords, JobType, JobRecords, Undone, controller, Deleted
    <2>3. AccountOK'
      BY <1>0, <1>7 DEF AccountOK, Kept, Registering, ActivityOK, MadeOK, FreshOK, SubType, SubRecords, JobType, JobRecords, Undone, controller, Deleted
    <2>4. StreamOK'
      BY <1>0, <1>7 DEF StreamOK, ActivityOK, MadeOK, FreshOK, HeardType, SubType, SubRecords, JobType, JobRecords, Undone, controller, Deleted
    <2> QED
      BY <2>1, <2>2, <2>3, <2>4
  <1>8. ASSUME Rejected
        PROVE  (ActivityOK /\ MadeOK /\ AccountOK /\ StreamOK)'
    <2>a. job.at = "reject" /\ job'.at = "none" /\ adapter' = adapter
      BY <1>0, <1>8, FailedEffect DEF Rejected
    <2>b. \/ user = "subscribing" /\ user' = "failed" /\ UNCHANGED <<sub, dels, heard>>
          \/ user # "subscribing" /\ user' = user /\ Reconnected(sub)
      BY <1>0, <1>8, FailedEffect DEF Rejected
    <2>c. /\ \/ groups' = groups \ {job.fresh} /\ orphans' = orphans
             \/ groups' = groups /\ orphans' = orphans \cup ({job.fresh} \cap groups)
          /\ UNCHANGED <<made, lacking, unread>>
      BY <1>8 DEF Rejected, Deleted
    <2>1. ActivityOK'
      BY <1>0, <2>a, <2>b, <2>c DEF ActivityOK, HeardType, Reconnected, Fields
    <2>2. MadeOK'
      BY <1>0, <2>a, <2>b, <2>c DEF MadeOK, FreshOK, GroupType, Reconnected, Fields
    <2>3. AccountOK'
      BY <1>0, <2>a, <2>b, <2>c DEF AccountOK, Kept, Registering, ActivityOK, MadeOK, FreshOK, Reconnected, Fields
    <2>4. StreamOK'
      BY <1>0, <2>a, <2>b, <2>c DEF StreamOK, ActivityOK, MadeOK, FreshOK, HeardType, Reconnected, Fields
    <2> QED
      BY <2>1, <2>2, <2>3, <2>4
  <1>9. ASSUME Dropped
        PROVE  (ActivityOK /\ MadeOK /\ AccountOK /\ StreamOK)'
    <2>1. ActivityOK'
      BY <1>0, <1>9 DEF ActivityOK, SubType, SubRecords, JobType, JobRecords, HeardType, Dropped, controller, Deleted, Finished
    <2>2. MadeOK'
      BY <1>0, <1>9 DEF MadeOK, FreshOK, GroupType, SubType, SubRecords, JobType, JobRecords, Dropped, controller, Deleted, Finished
    <2>3. AccountOK'
      BY <1>0, <1>9 DEF AccountOK, Kept, Registering, ActivityOK, MadeOK, FreshOK, SubType, SubRecords, JobType, JobRecords, Dropped, controller, Deleted, Finished
    <2>4. StreamOK'
      BY <1>0, <1>9 DEF StreamOK, ActivityOK, MadeOK, FreshOK, HeardType, SubType, SubRecords, JobType, JobRecords, Dropped, controller, Deleted, Finished
    <2> QED
      BY <2>1, <2>2, <2>3, <2>4
  <1>10. ASSUME UpgradeOpens
        PROVE  (ActivityOK /\ MadeOK /\ AccountOK /\ StreamOK)'
    <2>1. /\ job.at = "upgrade" /\ job'.at = "none" /\ sub.url \in groups /\ (adapter = "rws1" => ~sub.closed)
          /\ UNCHANGED <<adapter, groups, made, lacking, unread, orphans>>
      BY <1>10 DEF UpgradeOpens, controller, Finished
    <2>2. CASE sub.closed
      <3>1. Fields(sub, sub.timer, 0, FALSE, sub.mapped) /\ dels' = dels \cup ({sub.url} \ {0}) /\ UNCHANGED <<user, heard>>
        BY <1>0, <1>10, <2>2 DEF UpgradeOpens, Discards, DropGroup, SubType, SubRecords, Fields
      <3>2. ActivityOK'
        BY <1>0, <2>1, <2>2, <3>1 DEF ActivityOK, Fields
      <3>3. MadeOK'
        BY <1>0, <2>1, <3>1 DEF MadeOK, FreshOK, Fields, GroupType
      <3>4. AccountOK'
        BY <1>0, <2>1, <2>2, <3>1 DEF AccountOK, Registering, Kept, Fields, ActivityOK, MadeOK
      <3>5. StreamOK'
        BY <1>0, <2>1, <2>2, <3>1 DEF StreamOK, Fields, ActivityOK, MadeOK
      <3> QED
        BY <3>2, <3>3, <3>4, <3>5
    <2>3. CASE ~sub.closed
      <3>1. /\ sub'.open /\ sub'.closed = sub.closed /\ sub'.timer = sub.timer /\ sub'.url = sub.url
            /\ sub'.unbound = sub.unbound /\ sub'.mapped = sub.mapped
        BY <1>0, <1>10, <2>3 DEF UpgradeOpens, Discards, Opened, SubType, SubRecords
      <3>2. user' = "subscribed" /\ heard'.lost = heard.lost /\ dels' = dels
        BY <1>0, <1>10, <2>3 DEF UpgradeOpens, Discards, Opened, HeardType
      <3>3. ActivityOK'
        BY <1>0, <2>1, <2>3, <3>1, <3>2 DEF ActivityOK
      <3>4. MadeOK' /\ AccountOK'
        BY <1>0, <2>1, <3>1, <3>2 DEF MadeOK, FreshOK, AccountOK, Registering, Kept
      <3>5. StreamOK'
        BY <1>0, <2>1, <2>3, <3>1, <3>2 DEF StreamOK
      <3> QED
        BY <3>3, <3>4, <3>5
    <2> QED
      BY <2>2, <2>3
  <1>11. ASSUME UpgradeFailsRws1
        PROVE  (ActivityOK /\ MadeOK /\ AccountOK /\ StreamOK)'
    <2>1. /\ job.at = "upgrade" /\ adapter = "rws1"
          /\ UNCHANGED <<adapter, groups, made, lacking, unread, orphans>>
      BY <1>11 DEF UpgradeFailsRws1, controller
    <2>2. CASE user = "subscribing"
      <3>1. Fields([sub EXCEPT !.closed = TRUE], sub.timer, sub.url, sub.unbound, FALSE) /\ sub'.closed
        BY <1>0, <1>11, <2>2 DEF UpgradeFailsRws1, SubType, SubRecords, Fields
      <3>2. job'.at = "abandon" /\ UNCHANGED <<user, dels, heard>>
        BY <1>0, <1>11, <2>2 DEF UpgradeFailsRws1, JobType, JobRecords
      <3>3. sub'.open = sub.open /\ sub'.timer = sub.timer /\ sub'.url = sub.url /\ sub'.unbound = sub.unbound /\ ~sub'.mapped
        BY <1>0, <3>1 DEF Fields, SubType, SubRecords
      <3> QED
        BY <1>0, <2>1, <2>2, <3>1, <3>2, <3>3 DEF ActivityOK, MadeOK, FreshOK, AccountOK, Registering, Kept, StreamOK
    <2>3. CASE user # "subscribing" /\ job.stored
      <3>1. UNCHANGED <<user, sub, dels, heard>> /\ job'.at = IF sub.closed THEN "none" ELSE "drop"
        BY <1>0, <1>11, <2>3 DEF UpgradeFailsRws1, Finished
      <3> QED
        BY <1>0, <2>1, <3>1 DEF ActivityOK, MadeOK, FreshOK, AccountOK, Registering, Kept, StreamOK
    <2>4. CASE user # "subscribing" /\ ~job.stored
      <3>1. job'.at = "none" /\ user' = user /\ Reconnected(sub)
        BY <1>0, <1>11, <2>4, FailedEffect DEF UpgradeFailsRws1
      <3>2. ActivityOK'
        BY <1>0, <2>1, <3>1 DEF ActivityOK, HeardType, Reconnected, Fields
      <3>3. MadeOK'
        BY <1>0, <2>1, <3>1 DEF MadeOK, FreshOK, GroupType, Reconnected, Fields
      <3>4. AccountOK'
        BY <1>0, <2>1, <3>1 DEF AccountOK, Registering, Kept, MadeOK, ActivityOK, Reconnected, Fields
      <3>5. StreamOK'
        BY <1>0, <2>1, <3>1 DEF StreamOK, ActivityOK, HeardType, MadeOK, Reconnected, Fields
      <3> QED
        BY <3>2, <3>3, <3>4, <3>5
    <2> QED
      BY <2>2, <2>3, <2>4
  <1>12. ASSUME UpgradeFailsRws2
        PROVE  (ActivityOK /\ MadeOK /\ AccountOK /\ StreamOK)'
    <2>1. /\ job.at = "upgrade" /\ job'.at = "none" /\ adapter = "rws2"
          /\ UNCHANGED <<adapter, groups, made, lacking, unread, orphans>>
      BY <1>12 DEF UpgradeFailsRws2, controller, Finished
    <2>2. CASE user = "subscribing"
      <3>1. user' = "failed" /\ UNCHANGED <<sub, heard>> /\ dels' = dels \cup ({sub.url} \ {0})
        BY <1>12, <2>2 DEF UpgradeFailsRws2, DropGroup
      <3>2. ActivityOK'
        BY <1>0, <2>1, <2>2, <3>1 DEF ActivityOK
      <3>3. MadeOK'
        BY <1>0, <2>1, <3>1 DEF MadeOK, FreshOK, GroupType
      <3>4. AccountOK'
        BY <1>0, <2>1, <3>1 DEF AccountOK, Registering, Kept, MadeOK, ActivityOK
      <3>5. StreamOK'
        BY <1>0, <2>1, <3>1 DEF StreamOK, ActivityOK
      <3> QED
        BY <3>2, <3>3, <3>4, <3>5
    <2>3. CASE user # "subscribing" /\ ~sub.closed /\ GiveUp(sub)
      <3>1. user' = user /\ Reconnected(sub)
        BY <1>0, <1>12, <2>3, GiveUpEffect DEF UpgradeFailsRws2, SubType
      <3>2. ActivityOK'
        BY <1>0, <2>1, <3>1 DEF ActivityOK, HeardType, Reconnected, Fields
      <3>3. MadeOK'
        BY <1>0, <2>1, <3>1 DEF MadeOK, FreshOK, GroupType, Reconnected, Fields
      <3>4. AccountOK'
        <4>1. dels' = dels \cup ({sub.url} \ {0}) /\ sub.url \in Nat /\ 0 \notin groups
          BY <1>0, <2>3 DEF GiveUp, DropGroup, MadeOK, SubType, SubRecords, Groups
        <4> QED
          BY <1>0, <2>1, <4>1 DEF AccountOK, Registering
      <3>5. StreamOK'
        BY <1>0, <2>1, <3>1 DEF StreamOK, ActivityOK, HeardType, MadeOK, Reconnected, Fields
      <3> QED
        BY <3>2, <3>3, <3>4, <3>5
    <2>4. CASE user # "subscribing" /\ ~GiveUp(sub)
      <3>1. user' = user /\ heard' = heard /\ dels' = dels \cup ({sub.url} \ {0})
        BY <1>12, <2>4 DEF UpgradeFailsRws2, DropGroup
      <3>2. \/ sub.closed /\ sub' = sub
            \/ ~sub.closed /\ Fields(sub, TRUE, sub.url, sub.unbound, sub.mapped)
        BY <1>0, <1>12, <2>4, RearmedEffect DEF UpgradeFailsRws2, Left, SubType
      <3>3. ActivityOK'
        BY <1>0, <2>1, <3>1, <3>2 DEF ActivityOK, Fields
      <3>4. MadeOK'
        BY <1>0, <2>1, <3>1, <3>2 DEF MadeOK, FreshOK, GroupType, Fields
      <3>5. AccountOK'
        BY <1>0, <2>1, <3>1, <3>2 DEF AccountOK, Registering, Kept, MadeOK, ActivityOK, Fields
      <3>6. StreamOK'
        BY <1>0, <2>1, <3>1, <3>2 DEF StreamOK, ActivityOK, Fields
      <3> QED
        BY <3>3, <3>4, <3>5, <3>6
    <2>5. user # "subscribing" /\ GiveUp(sub) => ~sub.closed
      BY <1>0, <1>12 DEF UpgradeFailsRws2, Left, GiveUp, HeardType
    <2> QED
      BY <2>2, <2>3, <2>4, <2>5
  <1>13. ASSUME Abandoned
        PROVE  (ActivityOK /\ MadeOK /\ AccountOK /\ StreamOK)'
    <2>1. ActivityOK'
      BY <1>0, <1>13 DEF ActivityOK, SubType, SubRecords, JobType, JobRecords, HeardType, Abandoned, controller, Deleted, Finished
    <2>2. MadeOK'
      BY <1>0, <1>13 DEF MadeOK, FreshOK, GroupType, SubType, SubRecords, JobType, JobRecords, Abandoned, controller, Deleted, Finished
    <2>3. AccountOK'
      BY <1>0, <1>13 DEF AccountOK, Kept, Registering, ActivityOK, MadeOK, FreshOK, SubType, SubRecords, JobType, JobRecords, Abandoned, controller, Deleted, Finished
    <2>4. StreamOK'
      BY <1>0, <1>13 DEF StreamOK, ActivityOK, MadeOK, FreshOK, HeardType, SubType, SubRecords, JobType, JobRecords, Abandoned, controller, Deleted, Finished
    <2> QED
      BY <2>1, <2>2, <2>3, <2>4
  <1>14. ASSUME Stop
        PROVE  (ActivityOK /\ MadeOK /\ AccountOK /\ StreamOK)'
    <2>1. ActivityOK'
      BY <1>0, <1>14 DEF ActivityOK, SubType, SubRecords, JobType, JobRecords, HeardType, Stop, controller, Ends, DropGroup
    <2>2. MadeOK'
      BY <1>0, <1>14 DEF MadeOK, FreshOK, GroupType, SubType, SubRecords, JobType, JobRecords, Stop, controller, Ends, DropGroup
    <2>3. AccountOK'
      BY <1>0, <1>14 DEF AccountOK, Kept, Registering, ActivityOK, MadeOK, FreshOK, SubType, SubRecords, JobType, JobRecords, Stop, controller, Ends, DropGroup
    <2>4. StreamOK'
      BY <1>0, <1>14 DEF StreamOK, ActivityOK, MadeOK, FreshOK, HeardType, SubType, SubRecords, JobType, JobRecords, Stop, controller, Ends, DropGroup
    <2> QED
      BY <2>1, <2>2, <2>3, <2>4
  <1>15. ASSUME CloseAll
        PROVE  (ActivityOK /\ MadeOK /\ AccountOK /\ StreamOK)'
    <2>1. ActivityOK'
      BY <1>0, <1>15 DEF ActivityOK, SubType, SubRecords, JobType, JobRecords, HeardType, CloseAll, controller, Ends, DropGroup
    <2>2. MadeOK'
      BY <1>0, <1>15 DEF MadeOK, FreshOK, GroupType, SubType, SubRecords, JobType, JobRecords, CloseAll, controller, Ends, DropGroup
    <2>3. AccountOK'
      BY <1>0, <1>15 DEF AccountOK, Kept, Registering, ActivityOK, MadeOK, FreshOK, SubType, SubRecords, JobType, JobRecords, CloseAll, controller, Ends, DropGroup
    <2>4. StreamOK'
      BY <1>0, <1>15 DEF StreamOK, ActivityOK, MadeOK, FreshOK, HeardType, SubType, SubRecords, JobType, JobRecords, CloseAll, controller, Ends, DropGroup
    <2> QED
      BY <2>1, <2>2, <2>3, <2>4
  <1>16. ASSUME TimerFires
        PROVE  (ActivityOK /\ MadeOK /\ AccountOK /\ StreamOK)'
    <2>1. ActivityOK'
      BY <1>0, <1>16 DEF ActivityOK, SubType, SubRecords, JobType, JobRecords, HeardType, TimerFires, controller, Finished
    <2>2. MadeOK'
      BY <1>0, <1>16 DEF MadeOK, FreshOK, GroupType, SubType, SubRecords, JobType, JobRecords, TimerFires, controller, Finished
    <2>3. AccountOK'
      BY <1>0, <1>16 DEF AccountOK, Kept, Registering, ActivityOK, MadeOK, FreshOK, SubType, SubRecords, JobType, JobRecords, TimerFires, controller, Finished
    <2>4. StreamOK'
      BY <1>0, <1>16 DEF StreamOK, ActivityOK, MadeOK, FreshOK, HeardType, SubType, SubRecords, JobType, JobRecords, TimerFires, controller, Finished
    <2> QED
      BY <2>1, <2>2, <2>3, <2>4
  <1>17. ASSUME SocketDrops
        PROVE  (ActivityOK /\ MadeOK /\ AccountOK /\ StreamOK)'
    <2>a. PICK s \in SubRecords :
              /\ ~s.open /\ s.closed = sub.closed /\ s.timer = sub.timer
              /\ s.url = sub.url /\ s.unbound = sub.unbound /\ s.mapped = sub.mapped
              /\ Reconnected(s)
      BY <1>0, <1>17, ClosesEffect DEF SocketDrops
    <2>b. sub.open /\ UNCHANGED <<adapter, user, job, groups, made, lacking, unread, orphans>>
      BY <1>17 DEF SocketDrops, controller
    <2>1. ActivityOK'
      BY <1>0, <2>a, <2>b DEF ActivityOK, HeardType, Reconnected, Fields
    <2>2. MadeOK'
      BY <1>0, <2>a, <2>b DEF MadeOK, FreshOK, GroupType, Reconnected, Fields
    <2>3. AccountOK'
      BY <1>0, <2>a, <2>b DEF AccountOK, Kept, Registering, ActivityOK, MadeOK, FreshOK, Reconnected, Fields
    <2>4. StreamOK'
      BY <1>0, <2>a, <2>b DEF StreamOK, ActivityOK, MadeOK, FreshOK, HeardType, Reconnected, Fields
    <2> QED
      BY <2>1, <2>2, <2>3, <2>4
  <1>18. ASSUME Tick
        PROVE  (ActivityOK /\ MadeOK /\ AccountOK /\ StreamOK)'
    <2>91. CASE sub.alive
      <3>1. UNCHANGED <<adapter, user, job, heard, dels, groups, made, lacking, unread, orphans>>
        BY <1>18, <2>91 DEF Tick, controller
      <3>2. Fields(sub, sub.timer, sub.url, sub.unbound, sub.mapped)
        BY <1>0, <1>18, <2>91 DEF Tick, SubType, SubRecords, Fields
      <3> QED
        BY <1>0, <3>1, <3>2 DEF ActivityOK, MadeOK, FreshOK, AccountOK, Kept, StreamOK, Fields
    <2>92. CASE ~sub.alive
      <3>a. PICK s \in SubRecords :
                /\ ~s.open /\ s.closed = sub.closed /\ s.timer = sub.timer
                /\ s.url = sub.url /\ s.unbound = sub.unbound /\ s.mapped = sub.mapped
                /\ Reconnected(s)
        BY <1>0, <1>18, <2>92, ClosesEffect DEF Tick
      <3>b. sub.open /\ UNCHANGED <<adapter, user, job, groups, made, lacking, unread, orphans>>
        BY <1>18 DEF Tick, controller
      <3>1. ActivityOK'
        BY <1>0, <3>a, <3>b DEF ActivityOK, HeardType, Reconnected, Fields
      <3>2. MadeOK'
        BY <1>0, <3>a, <3>b DEF MadeOK, FreshOK, GroupType, Reconnected, Fields
      <3>3. AccountOK'
        BY <1>0, <3>a, <3>b DEF AccountOK, Kept, Registering, ActivityOK, MadeOK, FreshOK, Reconnected, Fields
      <3>4. StreamOK'
        BY <1>0, <3>a, <3>b DEF StreamOK, ActivityOK, MadeOK, FreshOK, HeardType, Reconnected, Fields
      <3> QED
        BY <3>1, <3>2, <3>3, <3>4
    <2> QED
      BY <2>91, <2>92
  <1>19. ASSUME SignOfLife
        PROVE  (ActivityOK /\ MadeOK /\ AccountOK /\ StreamOK)'
    <2>1. ActivityOK'
      BY <1>0, <1>19 DEF ActivityOK, SubType, SubRecords, JobType, JobRecords, HeardType, SignOfLife, controller
    <2>2. MadeOK'
      BY <1>0, <1>19 DEF MadeOK, FreshOK, GroupType, SubType, SubRecords, JobType, JobRecords, SignOfLife, controller
    <2>3. AccountOK'
      BY <1>0, <1>19 DEF AccountOK, Kept, Registering, ActivityOK, MadeOK, FreshOK, SubType, SubRecords, JobType, JobRecords, SignOfLife, controller
    <2>4. StreamOK'
      BY <1>0, <1>19 DEF StreamOK, ActivityOK, MadeOK, FreshOK, HeardType, SubType, SubRecords, JobType, JobRecords, SignOfLife, controller
    <2> QED
      BY <2>1, <2>2, <2>3, <2>4
  <1>20. ASSUME ProbeEnds
        PROVE  (ActivityOK /\ MadeOK /\ AccountOK /\ StreamOK)'
    <2>1. ActivityOK'
      BY <1>0, <1>20 DEF ActivityOK, SubType, SubRecords, JobType, JobRecords, HeardType, ProbeEnds, controller, ProvesLife
    <2>2. MadeOK'
      BY <1>0, <1>20 DEF MadeOK, FreshOK, GroupType, SubType, SubRecords, JobType, JobRecords, ProbeEnds, controller, ProvesLife
    <2>3. AccountOK'
      BY <1>0, <1>20 DEF AccountOK, Kept, Registering, ActivityOK, MadeOK, FreshOK, SubType, SubRecords, JobType, JobRecords, ProbeEnds, controller, ProvesLife
    <2>4. StreamOK'
      BY <1>0, <1>20 DEF StreamOK, ActivityOK, MadeOK, FreshOK, HeardType, SubType, SubRecords, JobType, JobRecords, ProbeEnds, controller, ProvesLife
    <2> QED
      BY <2>1, <2>2, <2>3, <2>4
  <1>21. ASSUME DeleteEnds
        PROVE  (ActivityOK /\ MadeOK /\ AccountOK /\ StreamOK)'
    <2>1. ActivityOK'
      BY <1>0, <1>21 DEF ActivityOK, SubType, SubRecords, JobType, JobRecords, HeardType, DeleteEnds, controller, Deleted
    <2>2. MadeOK'
      BY <1>0, <1>21 DEF MadeOK, FreshOK, GroupType, SubType, SubRecords, JobType, JobRecords, DeleteEnds, controller, Deleted
    <2>3. AccountOK'
      BY <1>0, <1>21 DEF AccountOK, Kept, Registering, ActivityOK, MadeOK, FreshOK, SubType, SubRecords, JobType, JobRecords, DeleteEnds, controller, Deleted
    <2>4. StreamOK'
      BY <1>0, <1>21 DEF StreamOK, ActivityOK, MadeOK, FreshOK, HeardType, SubType, SubRecords, JobType, JobRecords, DeleteEnds, controller, Deleted
    <2> QED
      BY <2>1, <2>2, <2>3, <2>4
  <1>22. ASSUME Freeze
        PROVE  (ActivityOK /\ MadeOK /\ AccountOK /\ StreamOK)'
    <2>1. ActivityOK'
      BY <1>0, <1>22 DEF ActivityOK, SubType, SubRecords, JobType, JobRecords, HeardType, Freeze, controller
    <2>2. MadeOK'
      BY <1>0, <1>22 DEF MadeOK, FreshOK, GroupType, SubType, SubRecords, JobType, JobRecords, Freeze, controller
    <2>3. AccountOK'
      BY <1>0, <1>22 DEF AccountOK, Kept, Registering, ActivityOK, MadeOK, FreshOK, SubType, SubRecords, JobType, JobRecords, Freeze, controller
    <2>4. StreamOK'
      BY <1>0, <1>22 DEF StreamOK, ActivityOK, MadeOK, FreshOK, HeardType, SubType, SubRecords, JobType, JobRecords, Freeze, controller
    <2> QED
      BY <2>1, <2>2, <2>3, <2>4
  <1>23. ASSUME Restart
        PROVE  (ActivityOK /\ MadeOK /\ AccountOK /\ StreamOK)'
    <2>91. CASE sub.open
      <3>a. PICK s \in SubRecords :
                /\ ~s.open /\ s.closed = sub.closed /\ s.timer = sub.timer
                /\ s.url = sub.url /\ s.unbound = sub.unbound /\ s.mapped = sub.mapped
                /\ Reconnected(s)
        BY <1>0, <1>23, <2>91, ClosesEffect DEF Restart
      <3>b. sub.open /\ UNCHANGED <<adapter, user, job, made, lacking, unread, orphans>> /\ groups' = {}
        BY <1>23, <2>91 DEF Restart, controller
      <3>1. ActivityOK'
        BY <1>0, <3>a, <3>b DEF ActivityOK, HeardType, Reconnected, Fields
      <3>2. MadeOK'
        BY <1>0, <3>a, <3>b DEF MadeOK, FreshOK, GroupType, Reconnected, Fields
      <3>3. AccountOK'
        BY <1>0, <3>a, <3>b DEF AccountOK, Kept, Registering, ActivityOK, MadeOK, FreshOK, Reconnected, Fields
      <3>4. StreamOK'
        BY <1>0, <3>a, <3>b DEF StreamOK, ActivityOK, MadeOK, FreshOK, HeardType, Reconnected, Fields
      <3> QED
        BY <3>1, <3>2, <3>3, <3>4
    <2>92. CASE ~sub.open
      <3>1. UNCHANGED <<adapter, user, job, sub, heard, dels, made, lacking, unread, orphans>> /\ groups' = {}
        BY <1>23, <2>92 DEF Restart
      <3> QED
        BY <1>0, <2>92, <3>1 DEF ActivityOK, MadeOK, FreshOK, AccountOK, Kept, StreamOK
    <2> QED
      BY <2>91, <2>92
  <1> QED
    BY <1>1, <1>2, <1>3, <1>4, <1>5, <1>6, <1>7, <1>8, <1>9, <1>10, <1>11, <1>12, <1>13, <1>14, <1>15, <1>16, <1>17, <1>18, <1>19, <1>20, <1>21, <1>22, <1>23 DEF Next, JobStep

-----------------------------------------------------------------------------
(* The theorems. *)

LEMMA InitInv ==
    ASSUME Init
    PROVE  Inv
  <1> USE SubscriptionAssumption
  <1>1. TypeOK
    <2>1. SubType
      BY DEF Init, SubType, SubRecords
    <2>2. JobType
      BY DEF Init, JobType, JobRecords, Awaits
    <2>3. HeardType /\ NamesType /\ GroupType
      BY DEF Init, HeardType, NamesType, GroupType
    <2> QED
      BY <2>1, <2>2, <2>3, TypeParts
  <1>2. ActivityOK
    BY DEF Init, ActivityOK
  <1>3. MadeOK
    BY DEF Init, MadeOK, FreshOK
  <1>4. AccountOK
    BY DEF Init, AccountOK, Registering
  <1>5. StreamOK
    BY DEF Init, StreamOK
  <1> QED
    BY <1>1, <1>2, <1>3, <1>4, <1>5 DEF Inv

LEMMA NextInv ==
    ASSUME Inv, [Next]_vars
    PROVE  Inv'
  <1>1. TypeOK'
    BY TypeStep DEF Inv, MadeOK
  <1>2. CASE Next
    BY <1>1, <1>2, Step DEF Inv
  <1>3. CASE UNCHANGED vars
    BY <1>1, <1>3 DEF Inv, vars, ActivityOK, MadeOK, FreshOK, AccountOK, Registering, Kept, StreamOK
  <1> QED
    BY <1>2, <1>3

(* Every behaviour of a subscription keeps the invariant: its routine, its *)
(* timer and its stream exclude each other, every group it made has who    *)
(* deletes it, and the handle tells what its group left out.               *)
THEOREM SubscriptionInv == Spec => []Inv
  BY InitInv, NextInv, PTL DEF Spec

(* The variables keep their types: attempts never pass MaxAttempts, though *)
(* five paths count them.                                                  *)
THEOREM SubscriptionTypes == Spec => []TypeOK
  <1>1. Inv => TypeOK
    BY DEF Inv
  <1> QED
    BY <1>1, SubscriptionInv, PTL

(* Whatever the reconnect was doing when the subscription ended, no group  *)
(* is left but one whose create or DELETE went unanswered, or one that     *)
(* closeAll() finds in the map of the RWS 1.0 client.                      *)
THEOREM NothingIsLeft == Spec => []NothingLeft
  <1>1. Inv => NothingLeft
    BY DEF Inv, NothingLeft, Quiet, AccountOK, Kept
  <1> QED
    BY <1>1, SubscriptionInv, PTL

(* An open stream is that of a group the controller has, with its panel    *)
(* resources, and `unbound` is about this group.                           *)
THEOREM StreamsAreWhole == Spec => []StreamIsWhole
  <1>1. Inv => StreamIsWhole
    BY DEF Inv, StreamIsWhole, StreamOK
  <1> QED
    BY <1>1, SubscriptionInv, PTL

(* Neither onLost nor onRestored is called after stop(), or after onLost.  *)
THEOREM EndIsSilent == Spec => SilentAfterEnd
  <1>1. ASSUME Inv, [Next]_vars
        PROVE  [sub.closed \/ heard.lost > 0 => UNCHANGED heard]_vars
    <2> SUFFICES ASSUME Next, sub.closed \/ heard.lost > 0
                 PROVE  heard' = heard
      BY <1>1
    <2>1. SubType /\ HeardType /\ ActivityOK
      BY <1>1, TypeParts DEF Inv
    <2>2. CASE Subscribe \/ Stop \/ CloseAll \/ TimerFires \/ SignOfLife \/ ProbeEnds \/ DeleteEnds \/ Freeze
      BY <2>2 DEF Subscribe, Stop, CloseAll, TimerFires, SignOfLife, ProbeEnds, DeleteEnds, Freeze
    <2>3. ASSUME sub.open
          PROVE  FALSE
      BY <2>1, <2>3 DEF ActivityOK
    <2>4. CASE SocketDrops \/ Tick \/ Restart
      BY <2>3, <2>4 DEF SocketDrops, Tick, Restart
    <2>5. CASE JobStep
      <3>1. sub.closed /\ job.at # "none"
        BY <2>1, <2>5 DEF ActivityOK, JobStep, CreateAnswered, CreateRespelled, CreateFails, ListAnswered,
            ListFails, Undone, Rejected, Dropped, UpgradeOpens, UpgradeFailsRws1, UpgradeFailsRws2, Abandoned
      <3>2. ASSUME Failed
            PROVE  heard' = heard
        BY <3>1, <3>2 DEF Failed, ScheduleReconnect, Left
      <3> QED
        BY <2>5, <3>1, <3>2 DEF JobStep, CreateAnswered, CreateRespelled, CreateFails, ListAnswered,
            ListFails, Undone, Rejected, Dropped, UpgradeOpens, UpgradeFailsRws1, UpgradeFailsRws2, Abandoned,
            Registered, Unbound, Discards, Left
    <2> QED
      BY <2>2, <2>4, <2>5 DEF Next
  <1> QED
    BY <1>1, SubscriptionInv, PTL DEF SilentAfterEnd, Spec

-----------------------------------------------------------------------------
(* Why a stream settles. *)

(* A reconnect that is scheduled has its timer, or the end was told. *)
LEMMA ReconnectGoesOn ==
    ASSUME HeardType, NEW s \in SubRecords, Reconnected(s)
    PROVE  sub'.timer \/ sub'.closed \/ heard'.lost > 0
  BY DEF Reconnected, Fields, HeardType

(* So has what follows a routine that failed. *)
LEMMA FailedGoesOn ==
    ASSUME SubType, HeardType, Failed
    PROVE  sub'.timer \/ sub'.closed \/ heard'.lost > 0 \/ user' = "failed"
  BY FailedEffect, ReconnectGoesOn DEF SubType

(* A group that is registered has its socket opened, unless the caller of  *)
(* the RWS 1.0 client has left.                                            *)
LEMMA RegisteredGoesOn ==
    ASSUME SubType, NEW g \in Groups, NEW w, Registered(g, w)
    PROVE  job'.at # "none" \/ sub'.closed
  BY RegisteredEffect DEF Fields

(* The group whose listing is asked for is one. *)
LEMMA ListedIsGroup ==
    ASSUME Inv, job.at = "list"
    PROVE  job.fresh \in Groups
  <1>1. job.fresh \in 1 .. made /\ made \in 0 .. MaxGroups
    BY DEF Inv, MadeOK, FreshOK, TypeOK
  <1> QED
    BY <1>1, SubscriptionAssumption DEF Groups

(* No step leaves a subscription dead in silence. *)
LEMMA AliveStep ==
    ASSUME Inv, NeverSilentlyDead, [Next]_vars
    PROVE  NeverSilentlyDead'
  <1>0. SubType /\ JobType /\ HeardType /\ NamesType /\ GroupType /\ ActivityOK
    BY TypeParts DEF Inv
  <1> USE DEF NeverSilentlyDead
  <1>1. CASE Subscribe
    BY <1>0, <1>1 DEF Subscribe, JobType, JobRecords
  <1>2. CASE CreateAnswered
    <2>1. made + 1 \in Groups
      BY <1>0, <1>2, SubscriptionAssumption DEF CreateAnswered, GroupType, Groups
    <2>2. CASE \E w : Registered(made + 1, w)
      BY <1>0, <2>1, <2>2, RegisteredGoesOn
    <2>3. CASE Unbound(made + 1)
      BY <1>0, <2>1, <2>3, UnboundEffect
    <2>4. CASE job' = [job EXCEPT !.at = "list", !.fresh = made + 1]
      BY <1>0, <2>4 DEF JobType, JobRecords
    <2>5. QED BY <1>2, <2>2, <2>3, <2>4 DEF CreateAnswered
  <1>3. CASE CreateRespelled
    BY <1>0, <1>3 DEF CreateRespelled, JobType, JobRecords
  <1>4. CASE CreateFails
    BY <1>0, <1>4, FailedGoesOn DEF CreateFails
  <1>5. CASE ListAnswered
    <2>1. job.fresh \in Groups
      BY <1>0, <1>5 DEF ListAnswered, GroupType
    <2>2. CASE Registered(job.fresh, lacking.other)
      BY <1>0, <2>1, <2>2, RegisteredGoesOn
    <2>3. CASE Unbound(job.fresh)
      BY <1>0, <2>1, <2>3, UnboundEffect
    <2>4. QED BY <1>5, <2>2, <2>3 DEF ListAnswered
  <1>6. CASE ListFails
    <2>1. job.fresh \in Groups
      BY <1>6, ListedIsGroup DEF ListFails
    <2>2. QED BY <1>0, <1>6, <2>1, RegisteredGoesOn DEF ListFails
  <1>7. CASE Undone
    BY <1>0, <1>7 DEF Undone, JobType, JobRecords
  <1>8. CASE Rejected
    BY <1>0, <1>8, FailedGoesOn DEF Rejected
  <1>9. CASE Dropped
    BY <1>9 DEF Dropped, Finished
  <1>10. CASE UpgradeOpens
    BY <1>0, <1>10 DEF UpgradeOpens, Discards, Opened, SubType, SubRecords
  <1>11. CASE UpgradeFailsRws1
    <2>1. CASE user = "subscribing" /\ sub' = [sub EXCEPT !.closed = TRUE, !.mapped = FALSE]
      BY <1>0, <2>1 DEF SubType, SubRecords
    <2>2. CASE /\ user # "subscribing" /\ sub' = sub
               /\ job' = IF sub.closed THEN Finished ELSE [Finished EXCEPT !.at = "drop"]
      BY <2>2 DEF Finished
    <2>3. CASE Failed
      BY <1>0, <2>3, FailedGoesOn
    <2>4. QED BY <1>11, <2>1, <2>2, <2>3 DEF UpgradeFailsRws1
  <1>12. CASE UpgradeFailsRws2
    <2>1. CASE user' = "failed"
      BY <2>1
    <2>2. CASE ~sub.closed /\ GiveUp(sub)
      BY <1>0, <2>2, GiveUpEffect, ReconnectGoesOn DEF SubType
    <2>3. CASE sub' = (IF Left(sub.closed) THEN sub ELSE Rearmed(sub))
      BY <1>0, <2>3, RearmedEffect DEF Left, SubType, Fields
    <2>4. QED BY <1>12, <2>1, <2>2, <2>3 DEF UpgradeFailsRws2, Left
  <1>13. CASE Abandoned
    BY <1>13 DEF Abandoned
  <1>14. CASE Stop
    BY <1>0, <1>14 DEF Stop, Ends, SubType, SubRecords
  <1>15. CASE CloseAll
    BY <1>0, <1>15 DEF CloseAll, Ends, SubType, SubRecords
  <1>16. CASE TimerFires
    BY <1>16 DEF TimerFires, Finished
  <1>17. ASSUME Closes PROVE NeverSilentlyDead'
    <2>1. PICK s \in SubRecords : Reconnected(s)
      BY <1>0, <1>17, ClosesEffect
    <2>2. QED BY <1>0, <2>1, ReconnectGoesOn
  <1>18. CASE SocketDrops
    BY <1>17, <1>18 DEF SocketDrops
  <1>19. CASE Tick
    <2>1. CASE sub.alive
      BY <1>0, <1>19, <2>1 DEF Tick, SubType, SubRecords
    <2>2. QED BY <1>17, <1>19, <2>1 DEF Tick
  <1>20. CASE SignOfLife
    BY <1>0, <1>20 DEF SignOfLife, SubType, SubRecords
  <1>21. CASE ProbeEnds
    BY <1>0, <1>21 DEF ProbeEnds, SubType, SubRecords
  <1>22. CASE DeleteEnds
    BY <1>22 DEF DeleteEnds
  <1>23. CASE Freeze
    BY <1>23 DEF Freeze
  <1>24. CASE Restart
    BY <1>17, <1>24 DEF Restart
  <1>25. CASE UNCHANGED vars
    BY <1>25 DEF vars
  <1> QED
    BY <1>1, <1>2, <1>3, <1>4, <1>5, <1>6, <1>7, <1>8, <1>9, <1>10, <1>11, <1>12, <1>13, <1>14,
       <1>15, <1>16, <1>18, <1>19, <1>20, <1>21, <1>22, <1>23, <1>24, <1>25 DEF Next, JobStep

(* A subscription that was begun is open, over, or under way again: no     *)
(* failed create, DELETE, listing or upgrade and no stop() in between      *)
(* forgets to schedule the next attempt.                                   *)
THEOREM NeverDeadInSilence == Spec => []NeverSilentlyDead
  <1>1. Init => NeverSilentlyDead
    BY DEF Init, NeverSilentlyDead
  <1> QED
    BY <1>1, AliveStep, SubscriptionInv, PTL DEF Spec

(* A link that is frozen shows no sign of life: neither a pong or an event *)
(* nor the answer of a probe keeps the socket.                             *)
THEOREM FrozenGivesNoLife == Spec => FrozenIsSilent
  <1>1. ASSUME Inv, [Next]_vars
        PROVE  [sub.open /\ sub'.open /\ link = "frozen" /\ sub'.alive => sub.alive]_vars
    <2> SUFFICES ASSUME Next, sub.open, sub'.open, link = "frozen", sub'.alive
                 PROVE  sub.alive
      BY <1>1
    <2>1. SubType /\ HeardType /\ ActivityOK /\ link # "up" /\ job.at = "none"
      BY <1>1, TypeParts DEF Inv, ActivityOK
    <2>2. ~JobStep
      BY <2>1 DEF JobStep, CreateAnswered, CreateRespelled, CreateFails, ListAnswered, ListFails,
         Undone, Rejected, Dropped, UpgradeOpens, UpgradeFailsRws1, UpgradeFailsRws2, Abandoned
    <2>3. ASSUME Closes PROVE FALSE
      <3>1. PICK s \in SubRecords : ~s.open /\ Reconnected(s)
        BY <2>1, <2>3, ClosesEffect
      <3>2. QED BY <3>1 DEF Reconnected, Fields
    <2>4. CASE Subscribe \/ DeleteEnds \/ Freeze
      BY <2>4 DEF Subscribe, DeleteEnds, Freeze
    <2>5. CASE Stop \/ CloseAll
      BY <2>1, <2>5 DEF Stop, CloseAll, Ends, SubType, SubRecords
    <2>6. CASE TimerFires
      BY <2>1, <2>6 DEF TimerFires, SubType, SubRecords
    <2>7. CASE SocketDrops \/ Tick
      BY <2>3, <2>7 DEF SocketDrops, Tick
    <2>8. CASE Restart
      BY <2>3, <2>8 DEF Restart
    <2>9. CASE SignOfLife
      BY <2>1, <2>9 DEF SignOfLife
    <2>10. CASE ProbeEnds
      BY <2>1, <2>10 DEF ProbeEnds, ProvesLife, SubType, SubRecords
    <2> QED
      BY <2>2, <2>4, <2>5, <2>6, <2>7, <2>8, <2>9, <2>10 DEF Next
  <1> QED
    BY <1>1, SubscriptionInv, PTL DEF FrozenIsSilent, Spec

(* What a reconnect does to the count of attempts. *)
LEMMA ReconnectCounts ==
    ASSUME NEW s \in SubRecords, ScheduleReconnect(s)
    PROVE  sub'.attempts >= s.attempts
  <1>0. s.attempts \in Nat
    BY SubscriptionAssumption DEF SubRecords
  <1>1. CASE sub' = s
    BY <1>0, <1>1
  <1>2. CASE GiveUp(s)
    BY <1>0, <1>2 DEF GiveUp, SubRecords
  <1>3. CASE sub' = Rearmed(s)
    BY <1>0, <1>3 DEF Rearmed, SubRecords
  <1> QED
    BY <1>1, <1>2, <1>3 DEF ScheduleReconnect

LEMMA FailedCounts ==
    ASSUME SubType, Failed
    PROVE  sub'.attempts >= sub.attempts
  BY ReconnectCounts, SubscriptionAssumption DEF Failed, SubType, SubRecords

LEMMA ClosesCounts ==
    ASSUME SubType, Closes
    PROVE  sub'.attempts >= sub.attempts
  <1> DEFINE s == [sub EXCEPT !.open = FALSE, !.alive = FALSE, !.probe = FALSE]
  <1>1. s \in SubRecords /\ s.attempts = sub.attempts
    BY ShutType DEF SubType, SubRecords
  <1> QED
    BY <1>1, ReconnectCounts DEF Closes

LEMMA RegisteredCounts ==
    ASSUME SubType, NEW g, NEW w, Registered(g, w)
    PROVE  sub'.attempts = sub.attempts
  BY DEF Registered, Held, SubType, SubRecords

(* Where each await stands. *)
LEMMA Stages ==
    ASSUME NEW j \in JobRecords
    PROVE  /\ Stage(j) \in 0 .. 10
           /\ j.at = "none" => Stage(j) = 10
           /\ j.at = "abandon" => Stage(j) = 9
           /\ j.at = "upgrade" => Stage(j) = IF j.stored THEN 0 ELSE 8
           /\ j.at = "drop" => Stage(j) = 1
           /\ j.at = "create" => Stage(j) = IF j.second THEN 5 ELSE 2
           /\ j.at = "list" => Stage(j) = IF j.second THEN 6 ELSE 3
           /\ j.at = "undo" => Stage(j) = 4
           /\ j.at = "reject" => Stage(j) = 7
  <1>1. j.second \in BOOLEAN /\ j.stored \in BOOLEAN /\ j.at \in Awaits
    BY DEF JobRecords
  <1>2. CASE j.at = "none"
    BY <1>2 DEF Stage
  <1>3. CASE j.at = "abandon"
    BY <1>3 DEF Stage
  <1>4. CASE j.at = "upgrade"
    BY <1>1, <1>4 DEF Stage
  <1>5. CASE j.at = "drop"
    BY <1>5 DEF Stage
  <1>6. CASE j.at = "create"
    BY <1>1, <1>6 DEF Stage
  <1>7. CASE j.at = "list"
    BY <1>1, <1>7 DEF Stage
  <1>8. CASE j.at = "undo"
    BY <1>8 DEF Stage
  <1>9. CASE j.at = "reject"
    BY <1>9 DEF Stage
  <1> QED
    BY <1>1, <1>2, <1>3, <1>4, <1>5, <1>6, <1>7, <1>8, <1>9 DEF Awaits

(* A routine that is at one of these awaits is before the end. *)
LEMMA BeforeTheEnd ==
    ASSUME JobType, JobType', job.at # "none", job'.at = "none"
    PROVE  Stage(job') > Stage(job)
  BY Stages DEF JobType, JobRecords, Awaits

(* A group is registered: the socket is next. *)
LEMMA RegisteredForward ==
    ASSUME SubType, JobType, job.at \in {"create", "list"}, NEW g \in Groups, NEW w, Registered(g, w)
    PROVE  Stage(job') > Stage(job)
  <1>1. JobType'
    BY RegisteredSub
  <1>2. job'.at = "none" \/ (job'.at = "upgrade" /\ ~job'.stored)
    BY DEF Registered, Finished
  <1> QED
    BY <1>1, <1>2, Stages DEF JobType, JobRecords, Awaits

(* A panel resource is missing: the second POST is next, or the end. *)
LEMMA UnboundForward ==
    ASSUME SubType, JobType, job.at \in {"create", "list"}, NEW g \in Groups, Unbound(g)
    PROVE  Stage(job') > Stage(job)
  <1>1. JobType'
    BY UnboundTypes
  <1>2. job'.at = IF job.second THEN "reject" ELSE "undo"
    BY DEF Unbound, JobType, JobRecords
  <1> QED
    BY <1>1, <1>2, Stages DEF JobType, JobRecords, Awaits

(* Every step of a routine takes it forward, and keeps the attempts until  *)
(* the stream stands.                                                      *)
LEMMA JobForward ==
    ASSUME Inv, JobStep
    PROVE  /\ Stage(job') > Stage(job)
           /\ sub'.attempts < sub.attempts => ~sub.open /\ sub'.open
  <1>0. SubType /\ JobType /\ HeardType /\ NamesType /\ GroupType /\ ActivityOK
    BY TypeParts DEF Inv
  <1>a. JobType'
    BY TypeStep, TypePartsNext DEF Inv, MadeOK, Next
  <1>b. sub.attempts \in Nat
    BY <1>0, SubscriptionAssumption DEF SubType, SubRecords
  <1>1. CASE CreateAnswered
    <2>1. made + 1 \in Groups /\ job.at = "create"
      BY <1>0, <1>1, SubscriptionAssumption DEF CreateAnswered, GroupType, Groups
    <2>2. CASE \E w : Registered(made + 1, w)
      BY <1>0, <1>b, <2>1, <2>2, RegisteredForward, RegisteredCounts
    <2>3. CASE Unbound(made + 1)
      <3>1. sub' = sub
        BY <2>3 DEF Unbound
      <3>2. QED BY <1>0, <1>b, <2>1, <2>3, <3>1, UnboundForward
    <2>4. CASE job' = [job EXCEPT !.at = "list", !.fresh = made + 1] /\ sub' = sub
      <3>1. job'.at = "list" /\ job'.second = job.second
        BY <1>0, <2>4 DEF JobType, JobRecords
      <3>2. Stage(job) \in {2, 5} /\ Stage(job') = Stage(job) + 1
        BY <1>0, <1>a, <2>1, <3>1, Stages DEF JobType
      <3>3. QED BY <1>b, <2>4, <3>2
    <2>5. QED BY <1>1, <2>2, <2>3, <2>4 DEF CreateAnswered
  <1>2. CASE CreateRespelled
    <2>1. job.at = "create" /\ ~job.second /\ job'.at = "create" /\ job'.second /\ sub' = sub
      BY <1>0, <1>2 DEF CreateRespelled, JobType, JobRecords
    <2>2. QED BY <1>0, <1>a, <1>b, <2>1, Stages DEF JobType
  <1>c. ASSUME Failed, job.at # "none"
        PROVE  /\ Stage(job') > Stage(job)
               /\ ~(sub'.attempts < sub.attempts)
    <2>1. job'.at = "none"
      BY <1>c DEF Failed, Finished
    <2>2. sub'.attempts \in Nat
      BY <1>0, <1>c, FailedTypes, SubscriptionAssumption DEF SubType, SubRecords
    <2>3. QED BY <1>0, <1>a, <1>b, <1>c, <2>1, <2>2, BeforeTheEnd, FailedCounts
  <1>3. CASE CreateFails
    BY <1>3, <1>c DEF CreateFails
  <1>4. CASE ListAnswered
    <2>1. job.fresh \in Groups /\ job.at = "list"
      BY <1>0, <1>4 DEF ListAnswered, GroupType
    <2>2. CASE Registered(job.fresh, lacking.other)
      BY <1>0, <1>b, <2>1, <2>2, RegisteredForward, RegisteredCounts
    <2>3. CASE Unbound(job.fresh)
      <3>1. sub' = sub
        BY <2>3 DEF Unbound
      <3>2. QED BY <1>0, <1>b, <2>1, <2>3, <3>1, UnboundForward
    <2>4. QED BY <1>4, <2>2, <2>3 DEF ListAnswered
  <1>5. CASE ListFails
    <2>1. job.at = "list" /\ Registered(job.fresh, lacking.other) /\ job.fresh \in Groups
      BY <1>0, <1>5, ListedIsGroup DEF ListFails
    <2>2. QED BY <1>0, <1>b, <2>1, RegisteredForward, RegisteredCounts
  <1>6. CASE Undone
    <2>1. job.at = "undo" /\ job'.at = "create" /\ job'.second /\ sub' = sub
      BY <1>0, <1>6 DEF Undone, JobType, JobRecords
    <2>2. QED BY <1>0, <1>a, <1>b, <2>1, Stages DEF JobType
  <1>7. CASE Rejected
    BY <1>7, <1>c DEF Rejected
  <1>8. CASE Dropped
    <2>1. job.at = "drop" /\ job'.at = "create"
      BY <1>8 DEF Dropped, Finished
    <2>2. sub'.attempts = sub.attempts
      BY <1>0, <1>8 DEF Dropped, SubType, SubRecords
    <2>3. QED BY <1>0, <1>a, <1>b, <2>1, <2>2, Stages DEF JobType, JobRecords
  <1>9. CASE UpgradeOpens
    <2>1. job.at = "upgrade" /\ job'.at = "none" /\ ~sub.open
      BY <1>0, <1>9 DEF UpgradeOpens, Finished, ActivityOK
    <2>2. sub'.open \/ sub'.attempts = sub.attempts
      BY <1>0, <1>9 DEF UpgradeOpens, Opened, SubType, SubRecords
    <2>3. QED BY <1>0, <1>a, <1>b, <2>1, <2>2, BeforeTheEnd
  <1>10. CASE UpgradeFailsRws1
    <2>1. job.at = "upgrade"
      BY <1>10 DEF UpgradeFailsRws1
    <2>2. CASE sub' = [sub EXCEPT !.closed = TRUE, !.mapped = FALSE] /\ job' = [job EXCEPT !.at = "abandon"]
      <3>1. job'.at = "abandon" /\ sub'.attempts = sub.attempts
        BY <1>0, <2>2 DEF SubType, SubRecords, JobType, JobRecords
      <3>2. QED BY <1>0, <1>a, <1>b, <2>1, <3>1, Stages DEF JobType
    <2>3. CASE /\ job.stored /\ sub' = sub
               /\ job' = IF sub.closed THEN Finished ELSE [Finished EXCEPT !.at = "drop"]
      <3>1. job'.at \in {"none", "drop"}
        BY <2>3 DEF Finished
      <3>2. Stage(job) = 0 /\ Stage(job') \in {1, 10}
        BY <1>0, <1>a, <2>1, <2>3, <3>1, Stages DEF JobType
      <3>3. QED BY <1>b, <2>3, <3>2
    <2>4. CASE Failed
      BY <1>c, <2>1, <2>4
    <2>5. QED BY <1>10, <2>2, <2>3, <2>4 DEF UpgradeFailsRws1
  <1>11. CASE UpgradeFailsRws2
    <2>1. job.at = "upgrade" /\ job'.at = "none"
      BY <1>11 DEF UpgradeFailsRws2, Finished
    <2>2. sub'.attempts >= sub.attempts
      <3>1. CASE sub' = sub
        BY <1>b, <3>1
      <3>2. CASE GiveUp(sub)
        BY <1>0, <1>b, <3>2 DEF GiveUp, SubType, SubRecords
      <3>3. CASE sub' = Rearmed(sub)
        BY <1>0, <1>b, <3>3 DEF Rearmed, SubType, SubRecords
      <3>4. QED BY <1>11, <3>1, <3>2, <3>3 DEF UpgradeFailsRws2
    <2>3. sub'.attempts \in Nat
      BY <1>0, <1>11, TypeStep, TypePartsNext, SubscriptionAssumption
         DEF Inv, MadeOK, Next, JobStep, SubType, SubRecords
    <2>4. QED BY <1>0, <1>a, <1>b, <2>1, <2>2, <2>3, BeforeTheEnd
  <1>12. CASE Abandoned
    <2>1. job.at = "abandon" /\ job'.at = "none" /\ sub' = sub
      BY <1>12 DEF Abandoned, Finished
    <2>2. QED BY <1>0, <1>a, <1>b, <2>1, BeforeTheEnd
  <1> QED
    BY <1>1, <1>2, <1>3, <1>4, <1>5, <1>6, <1>7, <1>8, <1>9, <1>10, <1>11, <1>12, Zenon DEF JobStep

(* From its first await to its last a routine only goes forward, whatever  *)
(* stop(), the heartbeat or the network do next to it, and the attempts    *)
(* are counted on until the stream stands: a reconnect that keeps failing  *)
(* reaches the attempt at which it is given up.                            *)
THEOREM RoutinesGoForward == Spec => RoutineGoesForward
  <1>1. ASSUME Inv, [Next]_vars
        PROVE  [/\ job.at # "none" => job' = [job EXCEPT !.cut = job'.cut] \/ Stage(job') > Stage(job)
                /\ sub'.attempts < sub.attempts => ~sub.open /\ sub'.open]_vars
    <2> SUFFICES ASSUME Next
                 PROVE  /\ job.at # "none" => job' = [job EXCEPT !.cut = job'.cut] \/ Stage(job') > Stage(job)
                        /\ sub'.attempts < sub.attempts => ~sub.open /\ sub'.open
      BY <1>1
    <2>0. SubType /\ JobType /\ HeardType /\ ActivityOK /\ SubType'
      BY <1>1, TypeParts, TypeStep, TypePartsNext DEF Inv, MadeOK
    <2>a. sub.attempts \in Nat /\ sub'.attempts \in Nat
      BY <2>0, SubscriptionAssumption DEF SubType, SubRecords
    <2>b. job' = job => job' = [job EXCEPT !.cut = job'.cut]
      BY <2>0 DEF JobType, JobRecords
    <2>1. CASE JobStep
      BY <1>1, <2>1, JobForward
    <2>2. CASE Subscribe
      <3>1. job.at = "none" /\ sub' = sub
        BY <2>0, <2>2 DEF Subscribe, ActivityOK
      <3>2. QED BY <2>a, <3>1
    <2>3. CASE TimerFires
      <3>1. job.at = "none" /\ sub'.attempts = sub.attempts
        BY <2>0, <2>3 DEF TimerFires, ActivityOK, SubType, SubRecords
      <3>2. QED BY <2>a, <3>1
    <2>4. CASE Stop \/ CloseAll
      <3>1. Ends
        BY <2>4 DEF Stop, CloseAll
      <3>2. job' = [job EXCEPT !.cut = job'.cut]
        BY <2>0, <3>1 DEF Ends, JobType, JobRecords
      <3>3. sub'.attempts = sub.attempts
        BY <2>0, <3>1 DEF Ends, SubType, SubRecords
      <3>4. QED BY <2>a, <3>2, <3>3
    <2>5. CASE Closes /\ job' = job
      BY <2>0, <2>a, <2>b, <2>5, ClosesCounts
    <2>6. CASE sub'.attempts = sub.attempts /\ job' = job
      BY <2>a, <2>b, <2>6
    <2>7. CASE SocketDrops
      BY <2>5, <2>7 DEF SocketDrops
    <2>8. CASE Tick
      <3>1. CASE sub.alive
        <4>1. sub'.attempts = sub.attempts /\ job' = job
          BY <2>0, <2>8, <3>1 DEF Tick, SubType, SubRecords
        <4>2. QED BY <2>6, <4>1
      <3>2. QED BY <2>5, <2>8, <3>1 DEF Tick
    <2>9. CASE SignOfLife
      BY <2>0, <2>6, <2>9 DEF SignOfLife, SubType, SubRecords
    <2>10. CASE ProbeEnds
      BY <2>0, <2>6, <2>10 DEF ProbeEnds, SubType, SubRecords
    <2>11. CASE DeleteEnds \/ Freeze
      BY <2>6, <2>11 DEF DeleteEnds, Freeze
    <2>12. CASE Restart
      BY <2>5, <2>6, <2>12 DEF Restart
    <2> QED
      BY <2>1, <2>2, <2>3, <2>4, <2>7, <2>8, <2>9, <2>10, <2>11, <2>12 DEF Next
  <1> QED
    BY <1>1, SubscriptionInv, PTL DEF RoutineGoesForward, Spec
=============================================================================
