-------------------------- MODULE OperationsProofs --------------------------
(***************************************************************************)
(* Operations for every set of callers, whatever they ask for and however  *)
(* often: from the nesting of the programs, which TLC evaluates, to what   *)
(* the callers' steps leave behind.                                        *)
(***************************************************************************)
EXTENDS Nesting, TLAPS

Keys == UNION {DOMAIN Programs[g] : g \in Generations}
Texts == UNION {{Programs[g][k] : k \in DOMAIN Programs[g]} : g \in Generations}
Calls == [key : Keys \cup {None}, prog : Texts \cup {Fixed}, pc : Nat, fail : Nat, how : Hows \cup {""},
          lost : BOOLEAN, clear : BOOLEAN]

\* What is open where the operation of c is.
TurnNow(c) == IF Running(c) THEN TurnAt(Prog(c), call[c].pc) ELSE 0
TempNow(c) == IF Running(c) THEN TempAt(Prog(c), call[c].pc) ELSE 0
HeldNow(c, l) == IF Running(c) THEN HeldAt(gen, Prog(c), call[c].pc, l) ELSE 0

Types ==
    /\ gen \in Gens
    /\ turn \in [who : Callers \cup {None}, depth : Nat]
    /\ turn.who = None <=> turn.depth = 0
    /\ own \in [Callers -> [Locks -> Nat]]
    /\ temp \in [Callers -> Nat]
    /\ {jogHold, timer, freeing, public} \subseteq BOOLEAN

\* A caller runs the program of its key; one that has failed is at a closer or a handler.
Placement(r) ==
    r.key # None =>
        /\ r.key \in DOMAIN Programs[gen] /\ r.prog = Programs[gen][r.key]
        /\ r.pc \in DOMAIN r.prog
        /\ r.fail # 0 => r.fail \in 1 .. r.pc /\ r.how \in Hows /\ r.prog[r.pc].op \in Closers \cup Handlers
CallOK == call \in [Callers -> Calls] /\ \A c \in Callers : Placement(call[c])

\* The turn and the temporary files are those that are open where the operation is, and no more
\* access is counted than is open there (a refused try or a loss makes it less).
BlocksOK ==
    \A c \in Callers :
        /\ turn.who = c => turn.depth = TurnNow(c)
        /\ turn.who # c => TurnNow(c) = 0
        /\ temp[c] = TempNow(c)
        /\ \A l \in Locks : own[c][l] <= HeldNow(c, l)

JogOK == jogHold => timer

\* Access that is open is counted, unless its turn has lost it.
AccessOK ==
    \A c \in Callers :
        gen = "rw8" /\ Running(c) /\ MustHold(call[c].key) /\ ~call[c].lost =>
            own[c]["writeaccess"] = HeldNow(c, "writeaccess")

\* A start that found no hold of a caller keeps the jog out for the rest of its turn; once it has
\* access the release of the jog's hold has run.
StartOK ==
    \A c \in Callers :
        gen # "rw8" /\ Running(c) /\ call[c].key \in StartKeys /\ call[c].clear =>
            /\ call[c].pc > 1 /\ ~jogHold
            /\ (\E l \in Locks : HeldNow(c, l) > 0) => ~freeing

IInv == Types /\ CallOK /\ BlocksOK /\ JogOK /\ AccessOK /\ StartOK

-----------------------------------------------------------------------------
(* The programs.                                                           *)

LEMMA TextOf ==
    ASSUME ProgramsNest, Types, NEW r \in Calls, Placement(r), r.key # None
    PROVE  /\ r.prog \in Seq(Instructions) /\ Len(r.prog) \in Nat /\ DOMAIN r.prog = 1 .. Len(r.prog)
           /\ gen \in Generations
           /\ Nested(gen, r.prog) /\ JogsInTurn(r.prog)
           /\ gen = "rw8" /\ MustHold(r.key) => Guarded(r.prog) /\ InsideTurn(r.prog)
           /\ gen # "rw8" /\ r.key \in StartKeys => OneTurnStart(gen, r.prog)
  <1>1. gen \in Generations
    BY OperationsAssumption DEF Types
  <1>2. r.key \in DOMAIN Programs[gen] /\ r.prog = Programs[gen][r.key]
    BY DEF Placement
  <1>3. r.prog \in Seq(Instructions)
    BY <1>1, <1>2 DEF ProgramsNest
  <1>4. Len(r.prog) \in Nat /\ DOMAIN r.prog = 1 .. Len(r.prog)
    BY <1>3
  <1> QED
    BY <1>1, <1>2, <1>3, <1>4 DEF ProgramsNest

\* The text a running caller runs.
LEMMA RunningText ==
    ASSUME ProgramsNest, Types, CallOK, NEW c \in Callers, Running(c)
    PROVE  /\ call[c] \in Calls /\ Placement(call[c]) /\ call[c].key # None
           /\ Prog(c) \in Seq(Instructions) /\ Len(Prog(c)) \in Nat /\ DOMAIN Prog(c) = 1 .. Len(Prog(c))
           /\ call[c].pc \in 1 .. Len(Prog(c)) /\ At(c) \in Instructions
           /\ gen \in Generations
           /\ Balanced(gen, Prog(c)) /\ Stepwise(gen, Prog(c)) /\ Jumped(gen, Prog(c)) /\ Unwound(gen, Prog(c))
           /\ JogsInTurn(Prog(c))
           /\ gen = "rw8" /\ MustHold(call[c].key) => Guarded(Prog(c)) /\ InsideTurn(Prog(c))
           /\ gen # "rw8" /\ call[c].key \in StartKeys => OneTurnStart(gen, Prog(c))
  <1>1. call[c] \in Calls /\ Placement(call[c]) /\ call[c].key # None
    BY DEF CallOK, Running
  <1>2. call[c].pc \in DOMAIN Prog(c)
    BY <1>1 DEF Placement, Prog
  <1> QED
    BY <1>1, <1>2, TextOf DEF Nested, Prog, At

LEMMA OpenIsNatural ==
    ASSUME ProgramsNest, Types, CallOK, NEW c \in Callers
    PROVE  TurnNow(c) \in Nat /\ TempNow(c) \in Nat /\ \A l \in Locks : HeldNow(c, l) \in Nat
  <1>1. CASE Running(c)
    BY <1>1, RunningText DEF Balanced, TurnNow, TempNow, HeldNow
  <1> QED
    BY <1>1 DEF TurnNow, TempNow, HeldNow

\* What an instruction of c opens or closes.
LEMMA BlockStep ==
    ASSUME ProgramsNest, Types, CallOK, NEW c \in Callers, Running(c)
    PROVE  LET p == Prog(c)
               i == call[c].pc
               o == At(c).op
           IN  /\ o = "enter" => TurnAt(p, i + 1) = TurnAt(p, i) + 1
               /\ o = "leave" => TurnAt(p, i + 1) = TurnAt(p, i) - 1
               /\ o \notin {"enter", "leave"} => TurnAt(p, i + 1) = TurnAt(p, i)
               /\ o = "make" => TempAt(p, i + 1) = TempAt(p, i) + 1
               /\ o = "drop" => TempAt(p, i + 1) = TempAt(p, i) - 1
               /\ o \notin {"make", "drop"} => TempAt(p, i + 1) = TempAt(p, i)
               /\ \A l \in Locks :
                     HeldAt(gen, p, i + 1, l) =
                        IF l \notin On(gen, At(c)) THEN HeldAt(gen, p, i, l)
                        ELSE IF o \in {"take", "trytake"} THEN HeldAt(gen, p, i, l) + 1
                        ELSE IF o = "give" THEN HeldAt(gen, p, i, l) - 1
                        ELSE HeldAt(gen, p, i, l)
  <1> DEFINE p == Prog(c)
             i == call[c].pc
             o == At(c).op
  <1>1. i \in DOMAIN p /\ i \in 1 .. Len(p) + 1 /\ Balanced(gen, p) /\ Stepwise(gen, p) /\ p[i] = At(c)
    BY RunningText DEF At
  <1>2. TurnAt(p, i) \in Nat /\ TempAt(p, i) \in Nat /\ \A l \in Locks : HeldAt(gen, p, i, l) \in Nat
    BY <1>1 DEF Balanced
  <1>3. /\ TurnAt(p, i + 1) = TurnAt(p, i) + (CASE o = "enter" -> 1 [] o = "leave" -> -1 [] OTHER -> 0)
        /\ TempAt(p, i + 1) = TempAt(p, i) + (CASE o = "make" -> 1 [] o = "drop" -> -1 [] OTHER -> 0)
        /\ \A l \in Locks :
              HeldAt(gen, p, i + 1, l) = HeldAt(gen, p, i, l)
                  + (CASE o \in {"take", "trytake"} /\ l \in On(gen, At(c)) -> 1
                       [] o = "give" /\ l \in On(gen, At(c)) -> -1
                       [] OTHER -> 0)
    BY <1>1 DEF Stepwise
  <1> HIDE DEF o, p, i
  <1>4. /\ o = "enter" => TurnAt(p, i + 1) = TurnAt(p, i) + 1
        /\ o = "leave" => TurnAt(p, i + 1) = TurnAt(p, i) - 1
        /\ o \notin {"enter", "leave"} => TurnAt(p, i + 1) = TurnAt(p, i)
    BY <1>2, <1>3
  <1>5. /\ o = "make" => TempAt(p, i + 1) = TempAt(p, i) + 1
        /\ o = "drop" => TempAt(p, i + 1) = TempAt(p, i) - 1
        /\ o \notin {"make", "drop"} => TempAt(p, i + 1) = TempAt(p, i)
    BY <1>2, <1>3
  <1>6. ASSUME NEW l \in Locks
        PROVE  HeldAt(gen, p, i + 1, l) =
                  IF l \notin On(gen, At(c)) THEN HeldAt(gen, p, i, l)
                  ELSE IF o \in {"take", "trytake"} THEN HeldAt(gen, p, i, l) + 1
                  ELSE IF o = "give" THEN HeldAt(gen, p, i, l) - 1
                  ELSE HeldAt(gen, p, i, l)
    BY <1>2, <1>3
  <1> QED
    BY <1>4, <1>5, <1>6 DEF o, p, i

LEMMA PlainStep ==
    ASSUME ProgramsNest, Types, CallOK, NEW c \in Callers, Running(c), At(c).op \notin Openers \cup Closers
    PROVE  Same(gen, Prog(c), call[c].pc, call[c].pc + 1)
  BY BlockStep DEF Same, Openers, Closers

-----------------------------------------------------------------------------
(* Where a step takes its caller.                                          *)

\* The caller's operation goes on at k of its program; past the end the caller is idle.
Reach(nc, c, k) ==
    /\ nc \in [Callers -> Calls] /\ k \in 1 .. Len(Prog(c)) + 1
    /\ \A d \in Callers \ {c} : nc[d] = call[d]
    /\ k \notin DOMAIN Prog(c) => nc[c].key = None
    /\ k \in DOMAIN Prog(c) =>
          /\ nc[c].key = call[c].key /\ nc[c].prog = Prog(c) /\ nc[c].pc = k
          /\ nc[c].lost = call[c].lost /\ nc[c].clear = call[c].clear
          /\ nc[c].fail # 0 => /\ nc[c].fail \in 1 .. k /\ nc[c].how \in Hows
                               /\ Prog(c)[k].op \in Closers \cup Handlers

\* The same but for lost and clear.
Goes(c, k) ==
    /\ call' \in [Callers -> Calls] /\ k \in 1 .. Len(Prog(c)) + 1
    /\ \A d \in Callers \ {c} : /\ call'[d].key = call[d].key /\ call'[d].prog = call[d].prog
                                /\ call'[d].pc = call[d].pc /\ call'[d].fail = call[d].fail
                                /\ call'[d].how = call[d].how
    /\ k \notin DOMAIN Prog(c) => call'[c].key = None
    /\ k \in DOMAIN Prog(c) =>
          /\ call'[c].key = call[c].key /\ call'[c].prog = Prog(c) /\ call'[c].pc = k
          /\ call'[c].fail # 0 => /\ call'[c].fail \in 1 .. k /\ call'[c].how \in Hows
                                  /\ Prog(c)[k].op \in Closers \cup Handlers

LEMMA IdleCall == Idle \in Calls /\ Idle.key = None /\ ~Idle.lost /\ ~Idle.clear
  BY DEF Idle, Calls, None

LEMMA PlacedReaches ==
    ASSUME ProgramsNest, Types, CallOK, NEW c \in Callers, Running(c),
           NEW r \in Calls, r.key = call[c].key, r.prog = Prog(c), r.lost = call[c].lost, r.clear = call[c].clear,
           NEW k \in 1 .. Len(Prog(c)) + 1,
           k \in DOMAIN Prog(c) /\ r.fail # 0 =>
               r.fail \in 1 .. k /\ r.how \in Hows /\ Prog(c)[k].op \in Closers \cup Handlers
    PROVE  Reach([call EXCEPT ![c] = Placed(r, k, Prog(c))], c, k)
  <1> DEFINE new == Placed(r, k, Prog(c))
             nc == [call EXCEPT ![c] = new]
  <1>1. Len(Prog(c)) \in Nat /\ DOMAIN Prog(c) = 1 .. Len(Prog(c)) /\ k \in Nat
    BY RunningText
  <1>2. [r EXCEPT !.pc = k] \in Calls
    BY <1>1 DEF Calls
  <1>3. new \in Calls
    BY <1>2, IdleCall DEF Placed
  <1>4. call \in [Callers -> Calls]
    BY DEF CallOK
  <1>5. nc \in [Callers -> Calls] /\ nc[c] = new /\ \A d \in Callers \ {c} : nc[d] = call[d]
    BY <1>3, <1>4
  <1> SUFFICES Reach(nc, c, k)
    OBVIOUS
  <1> HIDE DEF nc
  <1>6. CASE k \in DOMAIN Prog(c)
    <2>1. new = [r EXCEPT !.pc = k]
      BY <1>1, <1>6 DEF Placed
    <2>2. /\ new.key = r.key /\ new.prog = r.prog /\ new.pc = k /\ new.lost = r.lost /\ new.clear = r.clear
          /\ new.fail = r.fail /\ new.how = r.how
      BY <2>1 DEF Calls
    <2> HIDE DEF new
    <2> QED
      BY <1>5, <1>6, <2>2 DEF Reach
  <1>7. CASE k \notin DOMAIN Prog(c)
    <2>1. new = Idle
      BY <1>1, <1>7 DEF Placed
    <2> QED
      BY <1>5, <1>7, <2>1, IdleCall DEF Reach
  <1> QED
    BY <1>6, <1>7

\* A jump, or the next instruction of an operation that has not failed.
LEMMA MovedReaches ==
    ASSUME ProgramsNest, Types, CallOK, NEW c \in Callers, Running(c),
           NEW k \in 1 .. Len(Prog(c)) + 1, call[c].fail = 0
    PROVE  Reach(Moved(c, k), c, k)
  BY PlacedReaches, RunningText DEF Moved, Prog

\* A failing operation, or one that fails now, lands in the blocks it is in.
LEMMA LandsIn ==
    ASSUME ProgramsNest, Types, CallOK, NEW c \in Callers, Running(c), NEW f \in 1 .. call[c].pc, NEW how \in Hows
    PROVE  LET i == call[c].pc
               j == Land(Prog(c), i, f, how)
           IN  /\ j \in i + 1 .. Len(Prog(c)) + 1
               /\ j \in DOMAIN Prog(c) => Prog(c)[j].op \in Closers \cup Handlers
               /\ Same(gen, Prog(c), IF At(c).op \in Closers THEN i + 1 ELSE i, j)
  BY RunningText DEF Unwound, At

LEMMA FailedReaches ==
    ASSUME ProgramsNest, Types, CallOK, NEW c \in Callers, Running(c), NEW how \in Hows, At(c).op \notin Closers
    PROVE  \E k \in 2 .. Len(Prog(c)) + 1 : /\ Reach(Failed(c, how), c, k) /\ Same(gen, Prog(c), call[c].pc, k)
                                           /\ k > call[c].pc
  <1> DEFINE i == call[c].pc
             j == Land(Prog(c), i, i, how)
             r == [call[c] EXCEPT !.fail = i, !.how = how]
  <1>1. i \in 1 .. Len(Prog(c)) /\ Len(Prog(c)) \in Nat /\ call[c] \in Calls
    BY RunningText
  <1>2. /\ j \in i + 1 .. Len(Prog(c)) + 1
        /\ j \in DOMAIN Prog(c) => Prog(c)[j].op \in Closers \cup Handlers
        /\ Same(gen, Prog(c), i, j)
    BY <1>1, LandsIn
  <1>3. /\ r \in Calls /\ r.key = call[c].key /\ r.prog = Prog(c) /\ r.lost = call[c].lost /\ r.clear = call[c].clear
        /\ r.fail = i /\ r.how = how
    BY <1>1 DEF Calls, Prog
  <1>4. Failed(c, how) = [call EXCEPT ![c] = Placed(r, j, Prog(c))]
    BY DEF Failed, CallOK
  <1>5. j \in 2 .. Len(Prog(c)) + 1 /\ j \in 1 .. Len(Prog(c)) + 1 /\ i \in 1 .. j /\ j > i
    BY <1>1, <1>2
  <1> HIDE DEF i, j, r
  <1>6. Reach(Failed(c, how), c, j)
    BY <1>2, <1>3, <1>4, <1>5, PlacedReaches
  <1> QED
    BY <1>2, <1>5, <1>6 DEF i

\* After an instruction that was carried out, what is open is what is open behind it.
LEMMA AdvancedReaches ==
    ASSUME ProgramsNest, Types, CallOK, NEW c \in Callers, Running(c)
    PROVE  \E k \in 2 .. Len(Prog(c)) + 1 :
              /\ Reach(Advanced(c), c, k) /\ Same(gen, Prog(c), call[c].pc + 1, k)
              /\ call[c].fail = 0 => k = call[c].pc + 1
              /\ k > call[c].pc
  <1> DEFINE i == call[c].pc
  <1>1. i \in 1 .. Len(Prog(c)) /\ Len(Prog(c)) \in Nat /\ call[c] \in Calls /\ DOMAIN Prog(c) = 1 .. Len(Prog(c))
    BY RunningText
  <1>2. CASE call[c].fail = 0
    <2>1. Advanced(c) = Moved(c, i + 1)
      BY <1>2 DEF Advanced
    <2>2. Reach(Moved(c, i + 1), c, i + 1)
      BY <1>1, <1>2, MovedReaches
    <2>3. Same(gen, Prog(c), i + 1, i + 1)
      BY DEF Same
    <2> QED
      BY <1>1, <1>2, <2>1, <2>2, <2>3
  <1>3. CASE call[c].fail # 0
    <2> DEFINE f == call[c].fail
               how == call[c].how
               j == Land(Prog(c), i, f, how)
    <2>1. f \in 1 .. i /\ how \in Hows /\ At(c).op \in Closers \cup Handlers
      BY <1>3, RunningText DEF Placement, At, Prog
    <2>2. /\ j \in i + 1 .. Len(Prog(c)) + 1
          /\ j \in DOMAIN Prog(c) => Prog(c)[j].op \in Closers \cup Handlers
          /\ Same(gen, Prog(c), IF At(c).op \in Closers THEN i + 1 ELSE i, j)
      BY <2>1, LandsIn
    <2>3. Same(gen, Prog(c), i + 1, j)
      <3>1. CASE At(c).op \in Closers
        BY <2>2, <3>1
      <3>2. CASE At(c).op \in Handlers
        <4>1. Same(gen, Prog(c), i, j) /\ At(c).op \notin Closers
          BY <2>2, <3>2 DEF Closers, Handlers
        <4>3. Same(gen, Prog(c), i, i + 1)
          BY <3>2, PlainStep DEF Handlers, Openers, Closers
        <4> QED
          BY <4>1, <4>3 DEF Same
      <3> QED
        BY <2>1, <3>1, <3>2
    <2>4. Advanced(c) = [call EXCEPT ![c] = Placed(call[c], j, Prog(c))]
      BY <1>3 DEF Advanced, Moved, CallOK
    <2>5. j \in 2 .. Len(Prog(c)) + 1 /\ j \in 1 .. Len(Prog(c)) + 1 /\ f \in 1 .. j /\ j > i
      BY <1>1, <2>1, <2>2
    <2>6. call[c].prog = Prog(c)
      BY DEF Prog
    <2> HIDE DEF j
    <2>7. Reach(Advanced(c), c, j)
      BY <1>1, <2>1, <2>2, <2>4, <2>5, <2>6, PlacedReaches
    <2> QED
      BY <1>3, <2>3, <2>5, <2>7
  <1> QED
    BY <1>2, <1>3

LEMMA ReachGoes ==
    ASSUME NEW c \in Callers, NEW k, Reach(call', c, k)
    PROVE  Goes(c, k)
  BY DEF Reach, Goes

LEMMA GoesTo ==
    ASSUME ProgramsNest, Types, CallOK, NEW c \in Callers, Running(c), NEW k, Goes(c, k), gen' = gen
    PROVE  /\ CallOK'
           /\ TurnNow(c)' = TurnAt(Prog(c), k) /\ TempNow(c)' = TempAt(Prog(c), k)
           /\ \A l \in Locks : HeldNow(c, l)' = HeldAt(gen, Prog(c), k, l)
           /\ \A d \in Callers \ {c} : /\ Running(d)' = Running(d) /\ TurnNow(d)' = TurnNow(d)
                                       /\ TempNow(d)' = TempNow(d) /\ \A l \in Locks : HeldNow(d, l)' = HeldNow(d, l)
           /\ TurnAt(Prog(c), k) \in Nat /\ TempAt(Prog(c), k) \in Nat
           /\ \A l \in Locks : HeldAt(gen, Prog(c), k, l) \in Nat
  <1> USE DEF Goes
  <1>1. /\ Balanced(gen, Prog(c)) /\ Len(Prog(c)) \in Nat /\ DOMAIN Prog(c) = 1 .. Len(Prog(c))
        /\ Placement(call[c]) /\ call[c].key # None
    BY RunningText
  <1>2. Placement(call[c])'
    <2>1. CASE k \in DOMAIN Prog(c)
      BY <1>1, <2>1 DEF Placement, Prog
    <2> QED
      BY <2>1 DEF Placement
  <1>3. ASSUME NEW d \in Callers \ {c}
        PROVE  /\ Placement(call[d])' /\ Running(d)' = Running(d) /\ TurnNow(d)' = TurnNow(d)
               /\ TempNow(d)' = TempNow(d) /\ \A l \in Locks : HeldNow(d, l)' = HeldNow(d, l)
    BY DEF CallOK, Placement, Running, TurnNow, TempNow, HeldNow, Prog
  <1>4. CallOK'
    BY <1>2, <1>3 DEF CallOK
  <1>5. CASE k \in DOMAIN Prog(c)
    <2>1. Running(c)' /\ Prog(c)' = Prog(c) /\ call'[c].pc = k
      BY <1>1, <1>5 DEF Running, Prog
    <2>2. /\ TurnNow(c)' = TurnAt(Prog(c), k) /\ TempNow(c)' = TempAt(Prog(c), k)
          /\ \A l \in Locks : HeldNow(c, l)' = HeldAt(gen, Prog(c), k, l)
      BY <2>1 DEF TurnNow, TempNow, HeldNow
    <2> QED
      BY <1>1, <1>3, <1>4, <2>2 DEF Balanced
  <1>6. CASE k \notin DOMAIN Prog(c)
    <2>1. ~Running(c)' /\ k = Len(Prog(c)) + 1
      BY <1>1, <1>6 DEF Running
    <2>2. /\ TurnAt(Prog(c), k) = 0 /\ TempAt(Prog(c), k) = 0 /\ \A l \in Locks : HeldAt(gen, Prog(c), k, l) = 0
      BY <1>1, <2>1 DEF Balanced
    <2> QED
      BY <1>3, <1>4, <2>1, <2>2 DEF TurnNow, TempNow, HeldNow
  <1> QED
    BY <1>5, <1>6

-----------------------------------------------------------------------------
(* What keeps each part of the invariant.                                  *)

\* Whoever is inside a turn of its program has the turn.
LEMMA HasTurn ==
    ASSUME BlocksOK, NEW c \in Callers, TurnNow(c) > 0
    PROVE  turn.who = c /\ turn.depth = TurnNow(c)
  BY DEF BlocksOK

\* A start that has begun has the turn.
LEMMA StartHasTurn ==
    ASSUME ProgramsNest, IInv, NEW c \in Callers, gen # "rw8", Running(c), call[c].key \in StartKeys, call[c].clear
    PROVE  turn.who = c
  <1>1. TurnNow(c) > 0
    BY RunningText DEF IInv, StartOK, OneTurnStart, TurnNow
  <1> QED
    BY <1>1, HasTurn DEF IInv

LEMMA StartKept ==
    ASSUME ProgramsNest, IInv, NEW c \in Callers, Running(c), NEW k, Goes(c, k), k > 1, gen' = gen,
           \A d \in Callers : Running(d)' /\ call'[d].clear => call[d].clear,
           jogHold' => jogHold, freeing' => freeing \/ jogHold,
           \/ ~freeing'
           \/ \A l \in Locks : HeldAt(gen, Prog(c), k, l) <= HeldNow(c, l)
    PROVE  StartOK'
  <1> SUFFICES ASSUME NEW d \in Callers, gen # "rw8", Running(d)', call'[d].key \in StartKeys, call'[d].clear
               PROVE  /\ call'[d].pc > 1 /\ ~jogHold'
                      /\ (\E l \in Locks : HeldNow(d, l)' > 0) => ~freeing'
    BY DEF StartOK
  <1>0. Types /\ CallOK /\ StartOK /\ call[d].clear
    BY DEF IInv
  <1>1. CASE d # c
    <2>1. Running(d) /\ call[d].key \in StartKeys /\ call'[d].pc = call[d].pc
          /\ \A l \in Locks : HeldNow(d, l)' = HeldNow(d, l)
      BY <1>0, <1>1, GoesTo DEF Goes
    <2> QED
      BY <1>0, <2>1 DEF StartOK
  <1>2. CASE d = c
    <2>1. call[c].key \in StartKeys /\ call'[c].pc = k
      BY <1>2 DEF Goes, Running
    <2>2. \A l \in Locks : HeldNow(c, l)' = HeldAt(gen, Prog(c), k, l) /\ HeldAt(gen, Prog(c), k, l) \in Nat
      BY <1>0, GoesTo
    <2>3. \A l \in Locks : HeldNow(c, l) \in Nat
      BY <1>0, OpenIsNatural
    <2>4. ~jogHold /\ ((\E l \in Locks : HeldNow(c, l) > 0) => ~freeing)
      BY <1>0, <1>2, <2>1 DEF StartOK
    <2> QED
      BY <1>2, <2>1, <2>2, <2>3, <2>4
  <1> QED
    BY <1>1, <1>2

\* A step that counts what it opens.
LEMMA AccessKept ==
    ASSUME ProgramsNest, IInv, NEW c \in Callers, Running(c), NEW k, Goes(c, k), gen' = gen,
           \A d \in Callers : Running(d)' => call'[d].lost = call[d].lost,
           \A d \in Callers \ {c} : own'[d] = own[d],
           MustHold(call[c].key) /\ ~call[c].lost /\ gen = "rw8" =>
               own'[c]["writeaccess"] - own[c]["writeaccess"]
                  = HeldAt(gen, Prog(c), k, "writeaccess") - HeldNow(c, "writeaccess"),
           own'[c]["writeaccess"] \in Int
    PROVE  AccessOK'
  <1> SUFFICES ASSUME NEW d \in Callers, gen = "rw8", Running(d)', MustHold(call'[d].key), ~call'[d].lost
               PROVE  own'[d]["writeaccess"] = HeldNow(d, "writeaccess")'
    BY DEF AccessOK, MustHold
  <1>0. Types /\ CallOK /\ AccessOK /\ "writeaccess" \in Locks
    BY DEF IInv, Locks
  <1>1. CASE d # c
    <2>1. Running(d) /\ call'[d].key = call[d].key /\ ~call[d].lost
          /\ HeldNow(d, "writeaccess")' = HeldNow(d, "writeaccess") /\ own'[d] = own[d]
      BY <1>0, <1>1, GoesTo DEF Goes
    <2> QED
      BY <1>0, <2>1 DEF AccessOK
  <1>2. CASE d = c
    <2>1. call'[c].key = call[c].key /\ ~call[c].lost
      BY <1>2 DEF Goes, Running
    <2>2. /\ HeldNow(c, "writeaccess")' = HeldAt(gen, Prog(c), k, "writeaccess")
          /\ HeldAt(gen, Prog(c), k, "writeaccess") \in Nat
      BY <1>0, GoesTo
    <2>3. HeldNow(c, "writeaccess") \in Nat /\ own[c]["writeaccess"] \in Nat
      BY <1>0, OpenIsNatural DEF Types
    <2>4. own[c]["writeaccess"] = HeldNow(c, "writeaccess")
      BY <1>0, <1>2, <2>1 DEF AccessOK
    <2> QED
      BY <1>2, <2>1, <2>2, <2>3, <2>4
  <1> QED
    BY <1>1, <1>2

LEMMA BlocksKept ==
    ASSUME ProgramsNest, IInv, NEW c \in Callers, Running(c), NEW k, Goes(c, k), gen' = gen,
           turn'.who = c => turn'.depth = TurnAt(Prog(c), k),
           turn'.who # c => TurnAt(Prog(c), k) = 0,
           turn' = turn \/ (turn.who \in {c, None} /\ turn'.who \in {c, None}),
           \A d \in Callers \ {c} : temp'[d] = temp[d],
           temp'[c] = TempAt(Prog(c), k),
           \A d \in Callers : \A l \in Locks : own'[d][l] \in Nat,
           \A d \in Callers \ {c} : \A l \in Locks : own'[d][l] <= own[d][l],
           \A l \in Locks : own'[c][l] <= HeldAt(gen, Prog(c), k, l)
    PROVE  BlocksOK' /\ CallOK'
  <1>0. Types /\ CallOK /\ BlocksOK
    BY DEF IInv
  <1>1. /\ CallOK'
        /\ TurnNow(c)' = TurnAt(Prog(c), k) /\ TempNow(c)' = TempAt(Prog(c), k)
        /\ \A l \in Locks : HeldNow(c, l)' = HeldAt(gen, Prog(c), k, l)
        /\ \A d \in Callers \ {c} : /\ TurnNow(d)' = TurnNow(d)
                                    /\ TempNow(d)' = TempNow(d) /\ \A l \in Locks : HeldNow(d, l)' = HeldNow(d, l)
    BY <1>0, GoesTo
  <1>2. ASSUME NEW d \in Callers \ {c}
        PROVE  /\ turn'.who = d => turn'.depth = TurnNow(d)'
               /\ turn'.who # d => TurnNow(d)' = 0
               /\ temp'[d] = TempNow(d)'
               /\ \A l \in Locks : own'[d][l] <= HeldNow(d, l)'
    <2>1. turn'.who = d <=> turn.who = d
      BY OperationsAssumption
    <2>2. turn'.who = d => turn' = turn
      BY OperationsAssumption
    <2>3. \A l \in Locks : HeldNow(d, l) \in Nat /\ own[d][l] \in Nat
      BY <1>0, OpenIsNatural DEF Types
    <2>4. \A l \in Locks : own'[d][l] <= HeldNow(d, l)'
      BY <1>0, <1>1, <2>3 DEF BlocksOK
    <2> QED
      BY <1>0, <1>1, <2>1, <2>2, <2>4 DEF BlocksOK
  <1> QED
    BY <1>1, <1>2 DEF BlocksOK

-----------------------------------------------------------------------------
(* The steps.                                                              *)

\* The operation goes on among the same blocks and nothing of them changes.
LEMMA QuietStep ==
    ASSUME ProgramsNest, IInv, NEW c \in Callers, Running(c), NEW k \in 2 .. Len(Prog(c)) + 1,
           Reach(call', c, k), Same(gen, Prog(c), call[c].pc, k),
           UNCHANGED <<gen, turn, own, temp>>, {jogHold', timer', freeing', public'} \subseteq BOOLEAN,
           jogHold' => jogHold /\ timer', freeing' => freeing \/ jogHold
    PROVE  IInv'
  <1>0. Types /\ CallOK /\ BlocksOK /\ Goes(c, k) /\ k > 1 /\ "writeaccess" \in Locks
    BY ReachGoes, RunningText DEF IInv, Locks
  <1>1. /\ TurnAt(Prog(c), k) = TurnNow(c) /\ TempAt(Prog(c), k) = TempNow(c)
        /\ \A l \in Locks : HeldAt(gen, Prog(c), k, l) = HeldNow(c, l)
    BY DEF Same, TurnNow, TempNow, HeldNow
  <1>2. \A l \in Locks : \A d \in Callers : HeldNow(c, l) \in Nat /\ own[d][l] \in Nat
    BY <1>0, OpenIsNatural DEF Types
  <1>3. \A d \in Callers : Running(d)' => call'[d].lost = call[d].lost /\ call'[d].clear = call[d].clear
    BY DEF Reach, Running
  <1>4. Types'
    BY <1>0 DEF Types
  <1>5. BlocksOK' /\ CallOK'
    BY <1>0, <1>1, <1>2, BlocksKept DEF BlocksOK
  <1>6. AccessOK'
    BY <1>0, <1>1, <1>2, <1>3, AccessKept
  <1>7. StartOK'
    BY <1>0, <1>1, <1>2, <1>3, StartKept
  <1> QED
    BY <1>4, <1>5, <1>6, <1>7 DEF IInv, JogOK

\* An instruction that opens and closes nothing is carried out.
LEMMA PlainAdvance ==
    ASSUME ProgramsNest, IInv, NEW c \in Callers, Running(c), At(c).op \notin Openers \cup Closers
    PROVE  \E k \in 2 .. Len(Prog(c)) + 1 :
              /\ Reach(Advanced(c), c, k) /\ Same(gen, Prog(c), call[c].pc, k)
              /\ call[c].fail = 0 => k = call[c].pc + 1
  <1>1. PICK k \in 2 .. Len(Prog(c)) + 1 :
            /\ Reach(Advanced(c), c, k) /\ Same(gen, Prog(c), call[c].pc + 1, k)
            /\ call[c].fail = 0 => k = call[c].pc + 1
    BY AdvancedReaches DEF IInv
  <1>2. Same(gen, Prog(c), call[c].pc, call[c].pc + 1)
    BY PlainStep DEF IInv
  <1>3. Same(gen, Prog(c), call[c].pc, k)
    BY <1>1, <1>2 DEF Same
  <1> QED
    BY <1>1, <1>3

\* A program that has not failed is where it can run anything.
LEMMA NotFailing ==
    ASSUME IInv, NEW c \in Callers, Running(c), At(c).op \notin Closers \cup Handlers
    PROVE  call[c].fail = 0
  BY DEF IInv, CallOK, Placement, Running, At, Prog

LEMMA PlainStepKeeps ==
    ASSUME ProgramsNest, IInv, NEW c \in Callers, Running(c),
           \/ At(c).op \notin Openers \cup Closers /\ call' = Advanced(c)
           \/ At(c).op \notin Closers /\ \E how \in Hows : call' = Failed(c, how),
           UNCHANGED <<gen, turn, own, temp>>, {jogHold', timer', freeing', public'} \subseteq BOOLEAN,
           jogHold' => jogHold /\ timer', freeing' => freeing \/ jogHold
    PROVE  IInv'
  <1>1. \E k \in 2 .. Len(Prog(c)) + 1 : Reach(call', c, k) /\ Same(gen, Prog(c), call[c].pc, k)
    BY PlainAdvance, FailedReaches DEF IInv
  <1> QED
    BY <1>1, QuietStep

LEMMA PlainActions ==
    ASSUME ProgramsNest, IInv, NEW c \in Callers, Read(c) \/ Write(c) \/ Throw(c)
    PROVE  IInv'
  <1>1. {jogHold, timer, freeing, public} \subseteq BOOLEAN /\ (jogHold => timer)
    BY DEF IInv, Types, JogOK
  <1>2. /\ Running(c) /\ At(c).op \in {"get", "ask", "quiet", "put", "throw", "never"}
        /\ call' = Advanced(c) \/ \E how \in Hows : call' = Failed(c, how)
        /\ UNCHANGED <<gen, turn, own, temp, jogHold, timer, freeing, public>>
    BY DEF Read, Write, Throw, Runs, Hows
  <1>3. At(c).op \notin Openers \cup Closers
    BY <1>2 DEF Openers, Closers
  <1> QED
    BY <1>1, <1>2, <1>3, PlainStepKeeps

LEMMA BranchStep ==
    ASSUME ProgramsNest, IInv, NEW c \in Callers, Branch(c)
    PROVE  IInv'
  <1>0. /\ Running(c) /\ At(c).op \in {"may", "skip"} /\ Types /\ CallOK
        /\ UNCHANGED <<gen, turn, own, temp, jogHold, timer, freeing, public>>
        /\ {jogHold, timer, freeing, public} \subseteq BOOLEAN /\ (jogHold => timer)
    BY DEF Branch, Runs, IInv, Types, JogOK
  <1> DEFINE i == call[c].pc
             n == At(c).n
  <1>1. /\ i \in 1 .. Len(Prog(c)) /\ Len(Prog(c)) \in Nat /\ n \in Nat /\ Jumped(gen, Prog(c))
        /\ DOMAIN Prog(c) = 1 .. Len(Prog(c)) /\ Prog(c)[i] = At(c)
    BY <1>0, RunningText DEF Instructions, At
  <1>2. call[c].fail = 0
    BY <1>0, NotFailing DEF Closers, Handlers
  <1>3. Same(gen, Prog(c), i, i + 1)
    BY <1>0, PlainStep DEF Openers, Closers
  <1>4. i + 1 + n \in 1 .. Len(Prog(c)) + 1 /\ Same(gen, Prog(c), i, i + 1 + n)
    BY <1>0, <1>1 DEF Jumped, Jumps
  <1>5. PICK k \in {i + 1, i + 1 + n} : call' = Moved(c, k)
    BY DEF Branch
  <1>6. k \in 2 .. Len(Prog(c)) + 1 /\ k \in 1 .. Len(Prog(c)) + 1 /\ Same(gen, Prog(c), i, k)
    BY <1>1, <1>3, <1>4, <1>5
  <1>7. Reach(call', c, k)
    BY <1>0, <1>2, <1>5, <1>6, MovedReaches
  <1> QED
    BY <1>0, <1>6, <1>7, QuietStep

LEMMA HandleStep ==
    ASSUME ProgramsNest, IInv, NEW c \in Callers, Handle(c)
    PROVE  IInv'
  <1>0. /\ Running(c) /\ At(c).op \in Handlers /\ Types /\ CallOK
        /\ UNCHANGED <<gen, turn, own, temp, jogHold, timer, freeing, public>>
        /\ {jogHold, timer, freeing, public} \subseteq BOOLEAN /\ (jogHold => timer)
    BY DEF Handle, Runs, IInv, Types, JogOK, Handlers
  <1> DEFINE i == call[c].pc
             n == At(c).n
             r == [call[c] EXCEPT !.fail = 0, !.how = ""]
  <1>1. /\ i \in 1 .. Len(Prog(c)) /\ Len(Prog(c)) \in Nat /\ n \in Nat /\ Jumped(gen, Prog(c))
        /\ DOMAIN Prog(c) = 1 .. Len(Prog(c)) /\ Prog(c)[i] = At(c) /\ call[c] \in Calls
    BY <1>0, RunningText DEF Instructions, At
  <1>2. At(c).op \notin Openers \cup Closers
    BY <1>0 DEF Openers, Closers, Handlers
  <1>3. Same(gen, Prog(c), i, i + 1)
    BY <1>0, <1>2, PlainStep
  <1>4. CASE call[c].fail = 0 /\ call' = Moved(c, i + 1 + n)
    <2>1. i + 1 + n \in 1 .. Len(Prog(c)) + 1 /\ Same(gen, Prog(c), i, i + 1 + n)
      BY <1>0, <1>1 DEF Jumped, Jumps
    <2>2. Reach(call', c, i + 1 + n)
      BY <1>0, <1>4, <2>1, MovedReaches
    <2>3. i + 1 + n \in 2 .. Len(Prog(c)) + 1
      BY <1>1, <2>1
    <2> QED
      BY <1>0, <2>1, <2>2, <2>3, QuietStep
  <1>5. CASE call' = [call EXCEPT ![c] = Placed(r, i + 1, Prog(c))]
    <2>1. /\ r \in Calls /\ r.key = call[c].key /\ r.prog = Prog(c) /\ r.lost = call[c].lost
          /\ r.clear = call[c].clear /\ r.fail = 0
      BY <1>1 DEF Calls, Prog
    <2>2. i + 1 \in 2 .. Len(Prog(c)) + 1 /\ i + 1 \in 1 .. Len(Prog(c)) + 1
      BY <1>1
    <2> HIDE DEF r
    <2>3. Reach(call', c, i + 1)
      BY <1>0, <1>5, <2>1, <2>2, PlacedReaches
    <2> QED
      BY <1>0, <1>3, <2>2, <2>3, QuietStep
  <1>6. CASE call' = Advanced(c)
    BY <1>0, <1>2, <1>6, PlainStepKeeps
  <1>7. \/ call[c].fail = 0 /\ call' = Moved(c, i + 1 + n)
        \/ call' = [call EXCEPT ![c] = Placed(r, i + 1, Prog(c))]
        \/ call' = Advanced(c)
    BY <1>0 DEF Handle, CallOK
  <1> QED
    BY <1>4, <1>5, <1>6, <1>7

\* What is open behind an instruction that was carried out.
LEMMA AfterStep ==
    ASSUME ProgramsNest, IInv, NEW c \in Callers, Running(c)
    PROVE  \E k \in 2 .. Len(Prog(c)) + 1 :
              LET p == Prog(c)
                  o == At(c).op
              IN  /\ Reach(Advanced(c), c, k)
                  /\ o = "enter" => TurnAt(p, k) = TurnNow(c) + 1
                  /\ o = "leave" => TurnAt(p, k) = TurnNow(c) - 1
                  /\ o \notin {"enter", "leave"} => TurnAt(p, k) = TurnNow(c)
                  /\ o = "make" => TempAt(p, k) = TempNow(c) + 1
                  /\ o = "drop" => TempAt(p, k) = TempNow(c) - 1
                  /\ o \notin {"make", "drop"} => TempAt(p, k) = TempNow(c)
                  /\ \A l \in Locks :
                        HeldAt(gen, p, k, l) =
                           IF l \notin On(gen, At(c)) THEN HeldNow(c, l)
                           ELSE IF o \in {"take", "trytake"} THEN HeldNow(c, l) + 1
                           ELSE IF o = "give" THEN HeldNow(c, l) - 1
                           ELSE HeldNow(c, l)
  <1>1. PICK k \in 2 .. Len(Prog(c)) + 1 : Reach(Advanced(c), c, k) /\ Same(gen, Prog(c), call[c].pc + 1, k)
    BY AdvancedReaches DEF IInv
  <1>2. /\ TurnAt(Prog(c), k) = TurnAt(Prog(c), call[c].pc + 1)
        /\ TempAt(Prog(c), k) = TempAt(Prog(c), call[c].pc + 1)
        /\ \A l \in Locks : HeldAt(gen, Prog(c), k, l) = HeldAt(gen, Prog(c), call[c].pc + 1, l)
    BY <1>1 DEF Same
  <1>3. /\ TurnNow(c) = TurnAt(Prog(c), call[c].pc) /\ TempNow(c) = TempAt(Prog(c), call[c].pc)
        /\ \A l \in Locks : HeldNow(c, l) = HeldAt(gen, Prog(c), call[c].pc, l)
    BY DEF TurnNow, TempNow, HeldNow
  <1> WITNESS k \in 2 .. Len(Prog(c)) + 1
  <1> QED
    BY <1>1, <1>2, <1>3, BlockStep DEF IInv

\* The facts about a caller that a step of its own starts from.
LEMMA NowFacts ==
    ASSUME ProgramsNest, IInv
    PROVE  /\ Types /\ CallOK /\ BlocksOK /\ AccessOK /\ StartOK /\ "writeaccess" \in Locks
           /\ {jogHold, timer, freeing, public} \subseteq BOOLEAN /\ (jogHold => timer)
           /\ \A c \in Callers : /\ TurnNow(c) \in Nat /\ TempNow(c) \in Nat /\ temp[c] = TempNow(c)
                                 /\ \A l \in Locks : HeldNow(c, l) \in Nat /\ own[c][l] \in Nat
                                                     /\ own[c][l] <= HeldNow(c, l)
  <1>1. Types /\ CallOK /\ BlocksOK /\ AccessOK /\ StartOK /\ "writeaccess" \in Locks /\ JogOK
    BY DEF IInv, Locks
  <1> QED
    BY <1>1, OpenIsNatural DEF Types, BlocksOK, JogOK

\* A call that is nc but for lost and clear.
LEMMA MarkedGoes ==
    ASSUME NEW c \in Callers, NEW k, NEW nc, Reach(nc, c, k), call' \in [Callers -> Calls],
           \A d \in Callers : /\ call'[d].key = nc[d].key /\ call'[d].prog = nc[d].prog /\ call'[d].pc = nc[d].pc
                              /\ call'[d].fail = nc[d].fail /\ call'[d].how = nc[d].how
    PROVE  Goes(c, k)
  BY DEF Reach, Goes

-----------------------------------------------------------------------------
(* Access is lost.                                                         *)

LEMMA LoseStep ==
    ASSUME ProgramsNest, IInv, NEW c \in Callers, Running(c), NEW k \in 2 .. Len(Prog(c)) + 1, NEW nc,
           Reach(nc, c, k), Same(gen, Prog(c), call[c].pc, k), NEW L \in SUBSET Locks, LoseLocks(L, nc),
           UNCHANGED <<gen, turn, temp, timer, freeing>>
    PROVE  IInv'
  <1> DEFINE cut(d) == turn.who = d /\ \E l \in L : own[d][l] > 0
  <1>0. /\ Types /\ CallOK /\ BlocksOK /\ AccessOK /\ "writeaccess" \in Locks /\ k > 1
        /\ {jogHold, timer, freeing, public} \subseteq BOOLEAN /\ (jogHold => timer)
        /\ \A d \in Callers : \A l \in Locks : HeldNow(d, l) \in Nat /\ own[d][l] \in Nat /\ own[d][l] <= HeldNow(d, l)
    BY NowFacts, RunningText DEF IInv
  <1>1. /\ TurnAt(Prog(c), k) = TurnNow(c) /\ TempAt(Prog(c), k) = TempNow(c)
        /\ \A l \in Locks : HeldAt(gen, Prog(c), k, l) = HeldNow(c, l)
    BY DEF Same, TurnNow, TempNow, HeldNow
  <1>2. nc \in [Callers -> Calls] /\ call' = [d \in Callers |-> [nc[d] EXCEPT !.lost = @ \/ cut(d)]]
    BY DEF Reach, LoseLocks
  <1>3. ASSUME NEW d \in Callers
        PROVE  /\ call'[d] \in Calls /\ call'[d].key = nc[d].key /\ call'[d].prog = nc[d].prog
               /\ call'[d].pc = nc[d].pc /\ call'[d].fail = nc[d].fail /\ call'[d].how = nc[d].how
               /\ call'[d].clear = nc[d].clear /\ call'[d].lost = (nc[d].lost \/ cut(d))
    <2>1. nc[d] \in Calls /\ (nc[d].lost \/ cut(d)) \in BOOLEAN
      BY <1>2 DEF Calls
    <2>2. call'[d] = [nc[d] EXCEPT !.lost = nc[d].lost \/ cut(d)]
      BY <1>2
    <2> HIDE DEF cut
    <2> QED
      BY <2>1, <2>2 DEF Calls
  <1>4. call' \in [Callers -> Calls]
    BY <1>2, <1>3
  <1>5. Goes(c, k)
    BY <1>3, <1>4, MarkedGoes
  <1>6. \A d \in Callers : \A l \in Locks : /\ own'[d][l] = IF l \in L THEN 0 ELSE own[d][l]
                                            /\ own'[d][l] \in Nat /\ own'[d][l] <= own[d][l]
    BY <1>0 DEF LoseLocks
  <1>7. /\ own' \in [Callers -> [Locks -> Nat]]
        /\ jogHold' \in BOOLEAN /\ public' \in BOOLEAN /\ (jogHold' => jogHold)
    BY <1>0, <1>6 DEF LoseLocks
  <1>8. Types' /\ JogOK'
    BY <1>0, <1>7 DEF Types, JogOK
  <1>9. BlocksOK' /\ CallOK'
    <2>1. \A l \in Locks : own'[c][l] <= HeldAt(gen, Prog(c), k, l)
      BY <1>0, <1>1, <1>6
    <2> QED
      BY <1>0, <1>1, <1>5, <1>6, <2>1, BlocksKept DEF BlocksOK
  <1>10. \A d \in Callers : Running(d)' => /\ Running(d) /\ call'[d].key = call[d].key
                                           /\ call'[d].lost = (call[d].lost \/ cut(d))
                                           /\ call'[d].clear = call[d].clear
    BY <1>3 DEF Reach, Running
  <1>11. AccessOK'
    <2> SUFFICES ASSUME NEW d \in Callers, gen = "rw8", Running(d)', MustHold(call'[d].key), ~call'[d].lost
                 PROVE  own'[d]["writeaccess"] = HeldNow(d, "writeaccess")'
      BY DEF AccessOK, MustHold
    <2>1. Running(d) /\ MustHold(call[d].key) /\ ~call[d].lost /\ ~cut(d)
      BY <1>10
    <2>2. own[d]["writeaccess"] = HeldNow(d, "writeaccess")
      BY <1>0, <2>1 DEF AccessOK
    <2>3. HeldNow(d, "writeaccess")' = HeldNow(d, "writeaccess")
      BY <1>0, <1>1, <1>5, GoesTo
    <2>4. HeldNow(d, "writeaccess") > 0 => TurnNow(d) > 0
      BY <1>0, <2>1, RunningText DEF InsideTurn, HeldNow, TurnNow
    <2>5. HeldNow(d, "writeaccess") > 0 => "writeaccess" \notin L
      BY <1>0, <2>1, <2>2, <2>4, HasTurn
    <2> QED
      BY <1>0, <1>6, <2>2, <2>3, <2>5
  <1>12. StartOK'
    BY <1>0, <1>1, <1>5, <1>7, <1>10, StartKept
  <1> QED
    BY <1>8, <1>9, <1>11, <1>12 DEF IInv

LEMMA LockIsLock ==
    ASSUME NEW g \in Generations, NEW d \in Domains
    PROVE  LockOf(g, d) \in Locks
  BY DEF Generations, Domains, LockOf, Locks

LEMMA WriteNotHeldStep ==
    ASSUME ProgramsNest, IInv, NEW c \in Callers, WriteNotHeld(c)
    PROVE  IInv'
  <1> DEFINE L == {l \in Locks : own[c][l] > 0} \cup (IF call[c].key = "jog" THEN {MotionLock} ELSE {})
  <1>1. Running(c) /\ At(c).op \notin Closers /\ LoseLocks(L, Failed(c, "notheld"))
        /\ UNCHANGED <<gen, turn, temp, timer, freeing>> /\ Types /\ CallOK
    BY DEF WriteNotHeld, Runs, Closers, IInv
  <1>2. L \in SUBSET Locks
    BY <1>1, RunningText, LockIsLock DEF MotionLock, Domains
  <1>3. PICK k \in 2 .. Len(Prog(c)) + 1 : Reach(Failed(c, "notheld"), c, k) /\ Same(gen, Prog(c), call[c].pc, k)
    BY <1>1, FailedReaches DEF Hows
  <1> HIDE DEF L
  <1> QED
    BY <1>1, <1>2, <1>3, LoseStep

LEMMA ForfeitStep ==
    ASSUME ProgramsNest, IInv, NEW c \in Callers, Forfeit(c)
    PROVE  IInv'
  <1> DEFINE L == {l \in (IF gen = "rw8" THEN Locks ELSE {LockOf(gen, "rapid")}) : Count(l) > 0}
  <1>1. Running(c) /\ At(c).op \notin Openers \cup Closers /\ LoseLocks(L, Advanced(c))
        /\ UNCHANGED <<gen, turn, temp, timer, freeing>> /\ Types /\ CallOK
    BY DEF Forfeit, Runs, Openers, Closers, IInv
  <1>2. L \in SUBSET Locks
    BY <1>1, RunningText, LockIsLock DEF Domains
  <1>3. PICK k \in 2 .. Len(Prog(c)) + 1 : Reach(Advanced(c), c, k) /\ Same(gen, Prog(c), call[c].pc, k)
    BY <1>1, PlainAdvance
  <1> HIDE DEF L
  <1> QED
    BY <1>1, <1>2, <1>3, LoseStep

-----------------------------------------------------------------------------
(* The turn.                                                               *)

LEMMA EnterTurnStep ==
    ASSUME ProgramsNest, IInv, NEW c \in Callers, EnterTurn(c)
    PROVE  IInv'
  <1>0. /\ Types /\ CallOK /\ BlocksOK /\ AccessOK /\ "writeaccess" \in Locks
        /\ {jogHold, timer, freeing, public} \subseteq BOOLEAN /\ (jogHold => timer)
        /\ \A d \in Callers : /\ TurnNow(d) \in Nat /\ TempNow(d) \in Nat /\ temp[d] = TempNow(d)
                              /\ \A l \in Locks : HeldNow(d, l) \in Nat /\ own[d][l] \in Nat /\ own[d][l] <= HeldNow(d, l)
    BY NowFacts
  <1>1. /\ Running(c) /\ At(c).op = "enter" /\ turn.who \in {None, c} /\ turn' = [who |-> c, depth |-> turn.depth + 1]
        /\ call' = Advanced(c) /\ UNCHANGED <<gen, own, temp, jogHold, timer, freeing, public>>
    BY DEF EnterTurn, Runs
  <1>2. PICK k \in 2 .. Len(Prog(c)) + 1 :
            /\ Reach(Advanced(c), c, k) /\ TurnAt(Prog(c), k) = TurnNow(c) + 1 /\ TempAt(Prog(c), k) = TempNow(c)
            /\ \A l \in Locks : HeldAt(gen, Prog(c), k, l) = HeldNow(c, l)
    BY <1>1, AfterStep
  <1>3. Goes(c, k) /\ k > 1
    BY <1>0, <1>1, <1>2, ReachGoes, RunningText
  <1>4. \A d \in Callers : Running(d)' => call'[d].lost = call[d].lost /\ call'[d].clear = call[d].clear
    BY <1>1, <1>2 DEF Reach, Running
  <1>5. turn.depth = TurnNow(c) /\ turn.depth \in Nat
    BY <1>0, <1>1, OperationsAssumption DEF BlocksOK, Types
  <1>6. Types' /\ JogOK'
    BY <1>0, <1>1, <1>5, OperationsAssumption DEF Types, JogOK
  <1>7. BlocksOK' /\ CallOK'
    BY <1>0, <1>1, <1>2, <1>3, <1>5, BlocksKept
  <1>8. AccessOK'
    BY <1>0, <1>1, <1>2, <1>3, <1>4, AccessKept
  <1>9. StartOK'
    BY <1>0, <1>1, <1>2, <1>3, <1>4, StartKept
  <1> QED
    BY <1>6, <1>7, <1>8, <1>9 DEF IInv

\* Outside its turn an operation has no access open, so nothing is owed to what it lost.
LEMMA LeaveTurnStep ==
    ASSUME ProgramsNest, IInv, NEW c \in Callers, LeaveTurn(c)
    PROVE  IInv'
  <1> DEFINE nc == Advanced(c)
  <1>0. /\ Types /\ CallOK /\ BlocksOK /\ AccessOK /\ "writeaccess" \in Locks
        /\ {jogHold, timer, freeing, public} \subseteq BOOLEAN /\ (jogHold => timer)
        /\ \A d \in Callers : /\ TurnNow(d) \in Nat /\ TempNow(d) \in Nat /\ temp[d] = TempNow(d)
                              /\ \A l \in Locks : HeldNow(d, l) \in Nat /\ own[d][l] \in Nat /\ own[d][l] <= HeldNow(d, l)
    BY NowFacts
  <1>1. /\ Running(c) /\ At(c).op = "leave"
        /\ turn' = [who |-> IF turn.depth = 1 THEN None ELSE c, depth |-> turn.depth - 1]
        /\ call' = [nc EXCEPT ![c].lost = @ /\ turn.depth > 1]
        /\ UNCHANGED <<gen, own, temp, jogHold, timer, freeing, public>>
    BY DEF LeaveTurn, Runs
  <1>2. PICK k \in 2 .. Len(Prog(c)) + 1 :
            /\ Reach(nc, c, k) /\ TurnAt(Prog(c), k) = TurnNow(c) - 1 /\ TempAt(Prog(c), k) = TempNow(c)
            /\ \A l \in Locks : HeldAt(gen, Prog(c), k, l) = HeldNow(c, l)
    BY <1>1, AfterStep
  <1>3. nc \in [Callers -> Calls] /\ k > 1
    BY <1>0, <1>1, <1>2, RunningText DEF Reach
  <1> HIDE DEF nc
  <1>4. ASSUME NEW d \in Callers
        PROVE  /\ call'[d] \in Calls /\ call'[d].key = nc[d].key /\ call'[d].prog = nc[d].prog
               /\ call'[d].pc = nc[d].pc /\ call'[d].fail = nc[d].fail /\ call'[d].how = nc[d].how
               /\ call'[d].clear = nc[d].clear /\ call'[d].lost = (nc[d].lost /\ (d = c => turn.depth > 1))
    <2>1. nc[d] \in Calls /\ (nc[d].lost /\ turn.depth > 1) \in BOOLEAN /\ nc[d].lost \in BOOLEAN
      BY <1>3 DEF Calls
    <2>2. CASE d = c
      <3>1. call'[c] = [nc[c] EXCEPT !.lost = nc[c].lost /\ turn.depth > 1]
        BY <1>1, <1>3
      <3> QED
        BY <2>1, <2>2, <3>1 DEF Calls
    <2>3. CASE d # c
      BY <1>1, <1>3, <2>1, <2>3
    <2> QED
      BY <2>2, <2>3
  <1>5. call' \in [Callers -> Calls]
    BY <1>1, <1>3, <1>4
  <1>6. Goes(c, k)
    BY <1>2, <1>4, <1>5, MarkedGoes
  <1>7. turn.who = c /\ turn.depth = TurnNow(c) /\ TurnNow(c) > 0
    <2>1. TurnNow(c) - 1 \in Nat
      BY <1>0, <1>1, <1>2, <1>6, GoesTo
    <2>2. TurnNow(c) > 0
      BY <1>0, <2>1
    <2> QED
      BY <1>0, <2>2, HasTurn
  <1>8. Types' /\ JogOK'
    BY <1>0, <1>1, <1>7, OperationsAssumption DEF Types, JogOK
  <1>9. /\ turn'.who \in {c, None} /\ (turn'.who = c => turn'.depth = TurnAt(Prog(c), k))
        /\ (turn'.who # c => TurnAt(Prog(c), k) = 0)
    BY <1>0, <1>1, <1>2, <1>7, OperationsAssumption
  <1>10. BlocksOK' /\ CallOK'
    BY <1>0, <1>1, <1>2, <1>6, <1>7, <1>9, BlocksKept
  <1>11. \A d \in Callers : Running(d)' => /\ call'[d].clear = call[d].clear
                                           /\ call'[d].lost = (call[d].lost /\ (d = c => turn.depth > 1))
    BY <1>2, <1>4 DEF Reach, Running
  <1>12. StartOK'
    BY <1>0, <1>1, <1>2, <1>3, <1>6, <1>11, StartKept
  <1>13. AccessOK'
    <2>1. CASE turn.depth > 1 \/ ~call[c].lost
      <3>1. \A d \in Callers : call[d].lost \in BOOLEAN
        BY <1>0 DEF CallOK, Calls
      <3>2. \A d \in Callers : Running(d)' => call'[d].lost = call[d].lost
        BY <1>11, <2>1, <3>1
      <3> QED
        BY <1>0, <1>1, <1>2, <1>6, <3>2, AccessKept
    <2>2. CASE turn.depth = 1
      <3> SUFFICES ASSUME NEW d \in Callers, gen = "rw8", Running(d)', MustHold(call'[d].key), ~call'[d].lost
                   PROVE  own'[d]["writeaccess"] = HeldNow(d, "writeaccess")'
        BY <1>1 DEF AccessOK, MustHold
      <3>1. CASE d # c
        <4>1. Running(d) /\ call'[d].key = call[d].key /\ HeldNow(d, "writeaccess")' = HeldNow(d, "writeaccess")
          BY <1>0, <1>1, <1>6, <3>1, GoesTo DEF Goes
        <4>2. ~call[d].lost
          BY <1>11, <3>1
        <4> QED
          BY <1>0, <1>1, <4>1, <4>2 DEF AccessOK
      <3>2. CASE d = c
        <4>1. MustHold(call[c].key)
          BY <1>6, <3>2 DEF Goes, Running
        <4>2. TurnAt(Prog(c), k) = 0 /\ k \in 1 .. Len(Prog(c)) + 1
          BY <1>2, <1>6, <1>7, <2>2 DEF Goes
        <4>3. ~(HeldAt("rw8", Prog(c), k, "writeaccess") > 0)
          BY <1>0, <1>1, <4>1, <4>2, RunningText DEF InsideTurn
        <4>4. HeldNow(c, "writeaccess")' = HeldNow(c, "writeaccess")
          BY <1>0, <1>1, <1>2, <1>6, GoesTo
        <4> QED
          BY <1>0, <1>1, <1>2, <3>2, <4>3, <4>4
      <3> QED
        BY <3>1, <3>2
    <2> QED
      BY <1>0, <1>7, <2>1, <2>2
  <1> QED
    BY <1>8, <1>10, <1>12, <1>13 DEF IInv

-----------------------------------------------------------------------------
(* Access and temporary files.                                             *)

LEMMA OneHold ==
    ASSUME Types, NEW c \in Callers, NEW L, NEW n \in {1, -1}, own' = Counted(c, L, n),
           \A l \in L : n = -1 => own[c][l] > 0
    PROVE  /\ own' \in [Callers -> [Locks -> Nat]]
           /\ \A d \in Callers \ {c} : own'[d] = own[d]
           /\ \A l \in Locks : own'[c][l] = IF l \in L THEN own[c][l] + n ELSE own[c][l]
  <1>1. own \in [Callers -> [Locks -> Nat]] /\ own[c] \in [Locks -> Nat]
    BY DEF Types
  <1> DEFINE f == [l \in Locks |-> IF l \in L THEN own[c][l] + n ELSE own[c][l]]
  <1>2. f \in [Locks -> Nat]
    BY <1>1
  <1>3. own' = [own EXCEPT ![c] = f]
    BY DEF Counted
  <1>4. own' \in [Callers -> [Locks -> Nat]] /\ own'[c] = f /\ \A d \in Callers \ {c} : own'[d] = own[d]
    BY <1>1, <1>2, <1>3
  <1> QED
    BY <1>4

LEMMA TakeStep ==
    ASSUME ProgramsNest, IInv, NEW c \in Callers, Take(c)
    PROVE  IInv'
  <1>0. /\ Types /\ CallOK /\ BlocksOK /\ AccessOK /\ "writeaccess" \in Locks
        /\ {jogHold, timer, freeing, public} \subseteq BOOLEAN /\ (jogHold => timer)
        /\ \A d \in Callers : /\ TurnNow(d) \in Nat /\ TempNow(d) \in Nat /\ temp[d] = TempNow(d)
                              /\ \A l \in Locks : HeldNow(d, l) \in Nat /\ own[d][l] \in Nat /\ own[d][l] <= HeldNow(d, l)
    BY NowFacts
  <1>1. /\ Running(c) /\ At(c).op \in {"take", "trytake"} /\ ~freeing
        /\ UNCHANGED <<gen, turn, temp, jogHold, timer, freeing, public>>
    BY DEF Take, Runs
  <1>2. LocksOf(At(c).on) = On(gen, At(c))
    BY DEF LocksOf, On
  <1>3. CASE At(c).op = "take" /\ own' = own /\ call' = Failed(c, "refused")
    <2>1. At(c).op \notin Closers /\ "refused" \in Hows
      BY <1>3 DEF Closers, Hows
    <2> QED
      BY <1>0, <1>1, <1>3, <2>1, PlainStepKeeps
  <1>4. ASSUME call' = Advanced(c),
               own' = Counted(c, On(gen, At(c)), 1) \/ (own' = own /\ At(c).op = "trytake")
        PROVE  IInv'
    <2>1. PICK k \in 2 .. Len(Prog(c)) + 1 :
              /\ Reach(Advanced(c), c, k) /\ TurnAt(Prog(c), k) = TurnNow(c) /\ TempAt(Prog(c), k) = TempNow(c)
              /\ \A l \in Locks : HeldAt(gen, Prog(c), k, l) = IF l \in On(gen, At(c)) THEN HeldNow(c, l) + 1
                                                               ELSE HeldNow(c, l)
      BY <1>1, AfterStep
    <2>2. Goes(c, k) /\ k > 1
      BY <1>0, <1>1, <1>4, <2>1, ReachGoes, RunningText
    <2>3. \A d \in Callers : Running(d)' => call'[d].lost = call[d].lost /\ call'[d].clear = call[d].clear
      BY <1>4, <2>1 DEF Reach, Running
    <2>4. /\ own' \in [Callers -> [Locks -> Nat]] /\ \A d \in Callers \ {c} : own'[d] = own[d]
          /\ \A l \in Locks : \/ own'[c][l] = own[c][l] /\ (l \notin On(gen, At(c)) \/ At(c).op = "trytake")
                              \/ own'[c][l] = own[c][l] + 1 /\ l \in On(gen, At(c))
      <3>1. CASE own' = own /\ At(c).op = "trytake"
        BY <1>0, <3>1 DEF Types
      <3>2. CASE own' = Counted(c, On(gen, At(c)), 1)
        BY <1>0, <3>2, OneHold
      <3> QED
        BY <1>4, <3>1, <3>2
    <2>5. Types' /\ JogOK'
      BY <1>0, <1>1, <2>4 DEF Types, JogOK
    <2>6. /\ \A d \in Callers : \A l \in Locks : own'[d][l] \in Nat
          /\ \A d \in Callers \ {c} : \A l \in Locks : own'[d][l] <= own[d][l]
          /\ \A l \in Locks : own'[c][l] <= HeldAt(gen, Prog(c), k, l)
      BY <1>0, <2>1, <2>4
    <2>7. BlocksOK' /\ CallOK'
      BY <1>0, <1>1, <2>1, <2>2, <2>6, BlocksKept DEF BlocksOK
    <2>8. AccessOK'
      <3>1. MustHold(call[c].key) /\ gen = "rw8" => At(c).op # "trytake"
        BY <1>0, <1>1, RunningText DEF Guarded, At
      <3>2. MustHold(call[c].key) /\ ~call[c].lost /\ gen = "rw8" =>
               own'[c]["writeaccess"] - own[c]["writeaccess"]
                  = HeldAt(gen, Prog(c), k, "writeaccess") - HeldNow(c, "writeaccess")
        BY <1>0, <2>1, <2>4, <3>1
      <3> QED
        BY <1>0, <1>1, <2>2, <2>3, <2>4, <2>6, <3>2, AccessKept
    <2>9. StartOK'
      BY <1>0, <1>1, <2>2, <2>3, StartKept
    <2> QED
      BY <2>5, <2>7, <2>8, <2>9 DEF IInv
  <1> QED
    BY <1>1, <1>2, <1>3, <1>4 DEF Take

LEMMA GiveStep ==
    ASSUME ProgramsNest, IInv, NEW c \in Callers, Give(c)
    PROVE  IInv'
  <1> DEFINE L == {l \in On(gen, At(c)) : own[c][l] > 0}
  <1>0. /\ Types /\ CallOK /\ BlocksOK /\ AccessOK /\ "writeaccess" \in Locks
        /\ {jogHold, timer, freeing, public} \subseteq BOOLEAN /\ (jogHold => timer)
        /\ \A d \in Callers : /\ TurnNow(d) \in Nat /\ TempNow(d) \in Nat /\ temp[d] = TempNow(d)
                              /\ \A l \in Locks : HeldNow(d, l) \in Nat /\ own[d][l] \in Nat /\ own[d][l] <= HeldNow(d, l)
    BY NowFacts
  <1>1. /\ Running(c) /\ At(c).op = "give" /\ ~freeing /\ own' = Counted(c, L, -1) /\ call' = Advanced(c)
        /\ UNCHANGED <<gen, turn, temp, jogHold, timer, freeing, public>>
    BY DEF Give, Runs, LocksOf, On
  <1>2. PICK k \in 2 .. Len(Prog(c)) + 1 :
            /\ Reach(Advanced(c), c, k) /\ TurnAt(Prog(c), k) = TurnNow(c) /\ TempAt(Prog(c), k) = TempNow(c)
            /\ \A l \in Locks : HeldAt(gen, Prog(c), k, l) = IF l \in On(gen, At(c)) THEN HeldNow(c, l) - 1
                                                             ELSE HeldNow(c, l)
    BY <1>1, AfterStep
  <1>3. Goes(c, k) /\ k > 1
    BY <1>0, <1>1, <1>2, ReachGoes, RunningText
  <1>4. \A d \in Callers : Running(d)' => call'[d].lost = call[d].lost /\ call'[d].clear = call[d].clear
    BY <1>1, <1>2 DEF Reach, Running
  <1>5. \A l \in Locks : HeldAt(gen, Prog(c), k, l) \in Nat
    BY <1>0, <1>1, <1>3, GoesTo
  <1>6. /\ own' \in [Callers -> [Locks -> Nat]] /\ \A d \in Callers \ {c} : own'[d] = own[d]
        /\ \A l \in Locks : own'[c][l] = IF l \in L THEN own[c][l] + -1 ELSE own[c][l]
    <2>1. \A l \in L : own[c][l] > 0
      OBVIOUS
    <2> HIDE DEF L
    <2> QED
      BY <1>0, <1>1, <2>1, OneHold
  <1>7. \A l \in Locks : own'[c][l] = IF l \in On(gen, At(c)) /\ own[c][l] > 0 THEN own[c][l] - 1 ELSE own[c][l]
    BY <1>0, <1>6
  <1> HIDE DEF L
  <1>8. Types' /\ JogOK'
    BY <1>0, <1>1, <1>6 DEF Types, JogOK
  <1>9. \A l \in Locks : own'[c][l] <= HeldAt(gen, Prog(c), k, l)
    BY <1>0, <1>2, <1>5, <1>7
  <1>10. /\ \A d \in Callers : \A l \in Locks : own'[d][l] \in Nat
         /\ \A d \in Callers \ {c} : \A l \in Locks : own'[d][l] <= own[d][l]
    <2>1. \A d \in Callers : \A l \in Locks : own'[d][l] \in Nat
      BY <1>6
    <2>2. ASSUME NEW d \in Callers \ {c}, NEW l \in Locks
          PROVE  own'[d][l] <= own[d][l]
      BY <1>0, <1>6
    <2> QED
      BY <2>1, <2>2
  <1>11. BlocksOK' /\ CallOK'
    BY <1>0, <1>1, <1>2, <1>3, <1>9, <1>10, BlocksKept DEF BlocksOK
  <1>12. AccessOK'
    <2>1. MustHold(call[c].key) /\ ~call[c].lost /\ gen = "rw8" => own[c]["writeaccess"] = HeldNow(c, "writeaccess")
      BY <1>0, <1>1 DEF AccessOK
    <2>2. MustHold(call[c].key) /\ ~call[c].lost /\ gen = "rw8" =>
             own'[c]["writeaccess"] - own[c]["writeaccess"]
                = HeldAt(gen, Prog(c), k, "writeaccess") - HeldNow(c, "writeaccess")
      BY <1>0, <1>2, <1>5, <1>7, <2>1
    <2> QED
      BY <1>0, <1>1, <1>3, <1>4, <1>6, <1>10, <2>2, AccessKept
  <1>13. StartOK'
    BY <1>0, <1>1, <1>3, <1>4, StartKept
  <1> QED
    BY <1>8, <1>11, <1>12, <1>13 DEF IInv

LEMMA TempFileStep ==
    ASSUME ProgramsNest, IInv, NEW c \in Callers, TempFile(c)
    PROVE  IInv'
  <1>0. /\ Types /\ CallOK /\ BlocksOK /\ AccessOK /\ "writeaccess" \in Locks
        /\ {jogHold, timer, freeing, public} \subseteq BOOLEAN /\ (jogHold => timer)
        /\ \A d \in Callers : /\ TurnNow(d) \in Nat /\ TempNow(d) \in Nat /\ temp[d] = TempNow(d)
                              /\ \A l \in Locks : HeldNow(d, l) \in Nat /\ own[d][l] \in Nat /\ own[d][l] <= HeldNow(d, l)
    BY NowFacts
  <1>1. /\ Running(c) /\ At(c).op \in {"make", "drop"}
        /\ UNCHANGED <<gen, turn, own, jogHold, timer, freeing, public>>
    BY DEF TempFile, Runs
  <1>2. CASE At(c).op = "make" /\ call' = Failed(c, "refused") /\ UNCHANGED temp
    <2>1. At(c).op \notin Closers /\ "refused" \in Hows
      BY <1>2 DEF Closers, Hows
    <2> QED
      BY <1>0, <1>1, <1>2, <2>1, PlainStepKeeps
  <1>3. CASE /\ temp' = [temp EXCEPT ![c] = IF At(c).op = "make" THEN @ + 1 ELSE @ - 1]
             /\ call' = Advanced(c)
    <2>1. PICK k \in 2 .. Len(Prog(c)) + 1 :
              /\ Reach(Advanced(c), c, k) /\ TurnAt(Prog(c), k) = TurnNow(c)
              /\ TempAt(Prog(c), k) = IF At(c).op = "make" THEN TempNow(c) + 1 ELSE TempNow(c) - 1
              /\ \A l \in Locks : HeldAt(gen, Prog(c), k, l) = HeldNow(c, l)
      BY <1>1, AfterStep
    <2>2. Goes(c, k) /\ k > 1
      BY <1>0, <1>1, <1>3, <2>1, ReachGoes, RunningText
    <2>3. \A d \in Callers : Running(d)' => call'[d].lost = call[d].lost /\ call'[d].clear = call[d].clear
      BY <1>3, <2>1 DEF Reach, Running
    <2>4. TempAt(Prog(c), k) \in Nat
      BY <1>0, <1>1, <2>2, GoesTo
    <2>5. temp'[c] = TempAt(Prog(c), k) /\ \A d \in Callers \ {c} : temp'[d] = temp[d]
      BY <1>0, <1>3, <2>1 DEF Types
    <2>6. temp' \in [Callers -> Nat]
      BY <1>0, <1>3, <2>4, <2>5 DEF Types
    <2>7. Types' /\ JogOK'
      BY <1>0, <1>1, <2>6 DEF Types, JogOK
    <2>8. BlocksOK' /\ CallOK'
      BY <1>0, <1>1, <2>1, <2>2, <2>5, BlocksKept DEF BlocksOK
    <2>9. AccessOK'
      BY <1>0, <1>1, <2>1, <2>2, <2>3, AccessKept
    <2>10. StartOK'
      BY <1>0, <1>1, <2>1, <2>2, <2>3, StartKept
    <2> QED
      BY <2>7, <2>8, <2>9, <2>10 DEF IInv
  <1> QED
    BY <1>2, <1>3 DEF TempFile

-----------------------------------------------------------------------------
(* The jog's own hold.                                                     *)

LEMMA JogAskStep ==
    ASSUME ProgramsNest, IInv, NEW c \in Callers, JogAsk(c)
    PROVE  IInv'
  <1> DEFINE i == call[c].pc
  <1>0. /\ Running(c) /\ At(c).op = "jogask" /\ Types /\ CallOK
        /\ UNCHANGED <<gen, turn, own, temp, jogHold, freeing, public>>
        /\ timer' = (timer \/ (jogHold /\ ~public))
        /\ {jogHold, timer, freeing, public} \subseteq BOOLEAN /\ (jogHold => timer)
    BY NowFacts DEF JogAsk, Runs
  <1>1. /\ i \in 1 .. Len(Prog(c)) /\ Len(Prog(c)) \in Nat /\ Jumped(gen, Prog(c))
        /\ DOMAIN Prog(c) = 1 .. Len(Prog(c)) /\ Prog(c)[i] = At(c)
    BY <1>0, RunningText DEF At
  <1>2. call[c].fail = 0
    BY <1>0, NotFailing DEF Closers, Handlers
  <1>3. Same(gen, Prog(c), i, i + 1)
    BY <1>0, PlainStep DEF Openers, Closers
  <1>4. i + 2 \in 1 .. Len(Prog(c)) + 1 /\ Same(gen, Prog(c), i, i + 2)
    BY <1>0, <1>1 DEF Jumped
  <1>5. PICK k \in {i + 1, i + 2} : call' = Moved(c, k)
    BY DEF JogAsk
  <1>6. k \in 2 .. Len(Prog(c)) + 1 /\ k \in 1 .. Len(Prog(c)) + 1 /\ Same(gen, Prog(c), i, k)
    BY <1>1, <1>3, <1>4, <1>5
  <1>7. Reach(call', c, k)
    BY <1>0, <1>2, <1>5, <1>6, MovedReaches
  <1>8. {jogHold', timer', freeing', public'} \subseteq BOOLEAN /\ (jogHold' => jogHold /\ timer')
    BY <1>0
  <1> QED
    BY <1>0, <1>6, <1>7, <1>8, QuietStep

\* A jog that takes its hold is in its turn, so no start is in one.
LEMMA JogTakeStep ==
    ASSUME ProgramsNest, IInv, NEW c \in Callers, JogTake(c)
    PROVE  IInv'
  <1>0. /\ Types /\ CallOK /\ BlocksOK /\ AccessOK /\ "writeaccess" \in Locks
        /\ {jogHold, timer, freeing, public} \subseteq BOOLEAN /\ (jogHold => timer)
        /\ \A d \in Callers : /\ TurnNow(d) \in Nat /\ TempNow(d) \in Nat /\ temp[d] = TempNow(d)
                              /\ \A l \in Locks : HeldNow(d, l) \in Nat /\ own[d][l] \in Nat /\ own[d][l] <= HeldNow(d, l)
    BY NowFacts
  <1>1. /\ Running(c) /\ At(c).op = "jogtake" /\ At(c).op \notin Openers \cup Closers
        /\ UNCHANGED <<gen, turn, own, temp, freeing, public>>
    BY DEF JogTake, Runs, Openers, Closers
  <1>2. CASE call' = Failed(c, "refused") /\ UNCHANGED <<jogHold, timer>>
    <2>1. At(c).op \notin Closers /\ "refused" \in Hows
      BY <1>1 DEF Hows
    <2> QED
      BY <1>0, <1>1, <1>2, <2>1, PlainStepKeeps
  <1>3. CASE jogHold' = TRUE /\ timer' = TRUE /\ call' = Advanced(c)
    <2>1. PICK k \in 2 .. Len(Prog(c)) + 1 :
              /\ Reach(Advanced(c), c, k) /\ TurnAt(Prog(c), k) = TurnNow(c) /\ TempAt(Prog(c), k) = TempNow(c)
              /\ \A l \in Locks : HeldAt(gen, Prog(c), k, l) = HeldNow(c, l)
      BY <1>1, AfterStep
    <2>2. Goes(c, k) /\ k > 1
      BY <1>0, <1>1, <1>3, <2>1, ReachGoes, RunningText
    <2>3. \A d \in Callers : Running(d)' => call'[d].lost = call[d].lost /\ call'[d].clear = call[d].clear
      BY <1>3, <2>1 DEF Reach, Running
    <2>4. Types' /\ JogOK'
      BY <1>0, <1>1, <1>3 DEF Types, JogOK
    <2>5. BlocksOK' /\ CallOK'
      BY <1>0, <1>1, <2>1, <2>2, BlocksKept DEF BlocksOK
    <2>6. AccessOK'
      BY <1>0, <1>1, <2>1, <2>2, <2>3, AccessKept
    <2>7. turn.who = c
      <3>1. TurnNow(c) > 0
        BY <1>0, <1>1, RunningText DEF JogsInTurn, TurnNow, At
      <3> QED
        BY <1>0, <3>1, HasTurn
    <2>8. ASSUME NEW d \in Callers, gen # "rw8", Running(d)', call'[d].key \in StartKeys, call'[d].clear
          PROVE  FALSE
      <3>1. Running(d) /\ call[d].key \in StartKeys /\ call[d].clear
        BY <1>1, <2>2, <2>3, <2>8 DEF Goes, Running
      <3>2. d = c
        BY <2>7, <2>8, <3>1, StartHasTurn
      <3> QED
        BY <1>0, <1>1, <2>8, <3>1, <3>2, RunningText DEF OneTurnStart, At
    <2>9. StartOK'
      BY <1>1, <2>8 DEF StartOK
    <2> QED
      BY <2>4, <2>5, <2>6, <2>9 DEF IInv
  <1> QED
    BY <1>2, <1>3 DEF JogTake

LEMMA JogEndStep ==
    ASSUME ProgramsNest, IInv, NEW c \in Callers, JogEnd(c)
    PROVE  IInv'
  <1> DEFINE nc == Advanced(c)
  <1>0. /\ Types /\ CallOK /\ BlocksOK /\ AccessOK /\ StartOK /\ "writeaccess" \in Locks
        /\ {jogHold, timer, freeing, public} \subseteq BOOLEAN /\ (jogHold => timer)
        /\ \A d \in Callers : /\ TurnNow(d) \in Nat /\ TempNow(d) \in Nat /\ temp[d] = TempNow(d)
                              /\ \A l \in Locks : HeldNow(d, l) \in Nat /\ own[d][l] \in Nat /\ own[d][l] <= HeldNow(d, l)
    BY NowFacts
  <1>1. /\ Running(c) /\ At(c).op = "jogend" /\ call' = [nc EXCEPT ![c].clear = ~public]
        /\ UNCHANGED <<gen, turn, own, temp, public>>
    BY DEF JogEnd, Runs
  <1>2. /\ gen # "rw8" /\ jogHold /\ ~public => ~jogHold' /\ freeing'
        /\ (jogHold' => jogHold /\ timer') /\ (freeing' => freeing \/ jogHold)
        /\ jogHold' \in BOOLEAN /\ timer' \in BOOLEAN /\ freeing' \in BOOLEAN
    <2>1. CASE gen # "rw8" /\ jogHold /\ ~public
      BY <1>0, <2>1 DEF JogEnd, EndJogHold
    <2>2. CASE ~(gen # "rw8" /\ jogHold /\ ~public)
      BY <1>0, <2>2 DEF JogEnd
    <2> QED
      BY <2>1, <2>2
  <1>3. PICK k \in 2 .. Len(Prog(c)) + 1 :
            /\ Reach(nc, c, k) /\ TurnAt(Prog(c), k) = TurnNow(c) /\ TempAt(Prog(c), k) = TempNow(c)
            /\ \A l \in Locks : HeldAt(gen, Prog(c), k, l) = HeldNow(c, l)
    BY <1>1, AfterStep
  <1>4. nc \in [Callers -> Calls] /\ k > 1
    BY <1>0, <1>1, <1>3, RunningText DEF Reach
  <1> HIDE DEF nc
  <1>5. ASSUME NEW d \in Callers
        PROVE  /\ call'[d] \in Calls /\ call'[d].key = nc[d].key /\ call'[d].prog = nc[d].prog
               /\ call'[d].pc = nc[d].pc /\ call'[d].fail = nc[d].fail /\ call'[d].how = nc[d].how
               /\ call'[d].lost = nc[d].lost /\ (d # c => call'[d].clear = nc[d].clear)
               /\ (d = c => call'[d].clear = ~public)
    <2>1. nc[d] \in Calls /\ (~public) \in BOOLEAN
      BY <1>0, <1>4
    <2>2. CASE d = c
      <3>1. call'[c] = [nc[c] EXCEPT !.clear = ~public]
        BY <1>1, <1>4
      <3> QED
        BY <2>1, <2>2, <3>1 DEF Calls
    <2>3. CASE d # c
      BY <1>1, <1>4, <2>1, <2>3
    <2> QED
      BY <2>2, <2>3
  <1>6. call' \in [Callers -> Calls]
    BY <1>1, <1>4, <1>5
  <1>7. Goes(c, k)
    BY <1>3, <1>5, <1>6, MarkedGoes
  <1>8. Types' /\ JogOK'
    BY <1>0, <1>1, <1>2 DEF Types, JogOK
  <1>9. BlocksOK' /\ CallOK'
    BY <1>0, <1>1, <1>3, <1>7, BlocksKept DEF BlocksOK
  <1>10. \A d \in Callers : Running(d)' => /\ call'[d].lost = call[d].lost
                                           /\ d # c => call'[d].clear = call[d].clear
    BY <1>3, <1>5 DEF Reach, Running
  <1>11. AccessOK'
    BY <1>0, <1>1, <1>3, <1>7, <1>10, AccessKept
  <1>12. StartOK'
    <2> SUFFICES ASSUME NEW d \in Callers, gen # "rw8", Running(d)', call'[d].key \in StartKeys, call'[d].clear
                 PROVE  /\ call'[d].pc > 1 /\ ~jogHold'
                        /\ (\E l \in Locks : HeldNow(d, l)' > 0) => ~freeing'
      BY <1>1 DEF StartOK
    <2>1. CASE d # c
      <3>1. Running(d) /\ \A l \in Locks : HeldNow(d, l)' = HeldNow(d, l)
        BY <1>0, <1>1, <1>7, <2>1, GoesTo
      <3>2. call[d].key \in StartKeys /\ call'[d].pc = call[d].pc /\ call[d].clear
        BY <1>7, <1>10, <2>1 DEF Goes
      <3> QED
        BY <1>0, <1>2, <3>1, <3>2 DEF StartOK
    <2>2. CASE d = c
      <3>1. call[c].key \in StartKeys /\ call'[c].pc = k /\ ~public
        BY <1>5, <1>7, <2>2 DEF Goes, Running
      <3>2. \A l \in Locks : HeldNow(c, l) = 0
        BY <1>0, <1>1, <3>1, RunningText DEF OneTurnStart, HeldNow, At
      <3>3. \A l \in Locks : HeldNow(c, l)' = 0
        BY <1>0, <1>1, <1>3, <1>7, <3>2, GoesTo
      <3> QED
        BY <1>2, <1>4, <2>2, <3>1, <3>3
    <2> QED
      BY <2>1, <2>2
  <1> QED
    BY <1>8, <1>9, <1>11, <1>12 DEF IInv

\* The jog's hold ends, or only what the callers do not touch changes.
LEMMA HoldStep ==
    ASSUME ProgramsNest, IInv, UNCHANGED <<gen, call, turn, own, temp>>,
           {jogHold', timer', freeing', public'} \subseteq BOOLEAN,
           jogHold' => jogHold /\ timer', freeing' => freeing \/ jogHold
    PROVE  IInv'
  <1>1. Types' /\ JogOK'
    BY DEF IInv, Types, JogOK
  <1>2. \A c \in Callers : /\ Running(c)' = Running(c) /\ TurnNow(c)' = TurnNow(c) /\ TempNow(c)' = TempNow(c)
                           /\ \A l \in Locks : HeldNow(c, l)' = HeldNow(c, l)
    BY DEF Running, Prog, TurnNow, TempNow, HeldNow
  <1>3. CallOK' /\ BlocksOK' /\ AccessOK'
    BY <1>2 DEF IInv, CallOK, Placement, BlocksOK, AccessOK, Locks, MustHold
  <1>4. StartOK'
    BY <1>2 DEF IInv, StartOK
  <1> QED
    BY <1>1, <1>3, <1>4 DEF IInv

LEMMA HoldActions ==
    ASSUME ProgramsNest, IInv, TimerFires \/ Freed \/ RequestMotion \/ ReleaseMotion \/ UNCHANGED vars
    PROVE  IInv'
  <1>1. {jogHold, timer, freeing, public} \subseteq BOOLEAN /\ (jogHold => timer)
    BY NowFacts
  <1>2. CASE TimerFires
    BY <1>1, <1>2, HoldStep DEF TimerFires, EndJogHold
  <1>3. CASE Freed
    BY <1>1, <1>3, HoldStep DEF Freed
  <1>4. CASE RequestMotion
    BY <1>1, <1>4, HoldStep DEF RequestMotion, EndJogHold
  <1>5. CASE ReleaseMotion
    <2>1. CASE public
      BY <1>1, <1>5, <2>1, HoldStep DEF ReleaseMotion
    <2>2. CASE ~public
      BY <1>1, <1>5, <2>2, HoldStep DEF ReleaseMotion, EndJogHold
    <2> QED
      BY <2>1, <2>2
  <1>6. CASE UNCHANGED vars
    BY <1>1, <1>6, HoldStep DEF vars
  <1> QED
    BY <1>2, <1>3, <1>4, <1>5, <1>6

-----------------------------------------------------------------------------
(* A call begins.                                                          *)

LEMMA BeginStep ==
    ASSUME ProgramsNest, IInv, NEW c \in Callers, NEW k, Begin(c, k)
    PROVE  IInv'
  <1>0. /\ Types /\ CallOK /\ BlocksOK /\ AccessOK /\ StartOK /\ "writeaccess" \in Locks
        /\ \A d \in Callers : \A l \in Locks : HeldNow(d, l) \in Nat /\ own[d][l] \in Nat /\ own[d][l] <= HeldNow(d, l)
    BY NowFacts
  <1>1. /\ ~Running(c) /\ UNCHANGED <<gen, turn, own, temp, jogHold, timer, freeing, public>>
        /\ gen \in Generations
    BY <1>0, OperationsAssumption DEF Begin, Types
  <1> DEFINE p == Programs[gen][k]
             r == [Idle EXCEPT !.key = k, !.prog = p]
             new == Placed(r, 1, p)
  <1>2. k \in DOMAIN Programs[gen] /\ call' = [call EXCEPT ![c] = new]
    BY DEF Begin, ProgramsOf
  <1>3. k # None /\ p \in Seq(Instructions) /\ Balanced(gen, p)
    BY <1>1, <1>2 DEF ProgramsNest, Nested
  <1>4. Len(p) \in Nat /\ DOMAIN p = 1 .. Len(p)
    BY <1>3
  <1>5. k \in Keys /\ p \in Texts
    BY <1>1, <1>2 DEF Keys, Texts
  <1> HIDE DEF p
  <1>6. /\ r \in Calls /\ r.key = k /\ r.prog = p /\ r.fail = 0 /\ ~r.clear /\ ~r.lost /\ r.pc = 1
    BY <1>5 DEF Idle, Calls
  <1>7. [r EXCEPT !.pc = 1] = r
    BY <1>6 DEF Calls
  <1>8. new = IF Len(p) = 0 THEN Idle ELSE r
    BY <1>4, <1>7 DEF Placed
  <1> HIDE DEF r
  <1>9. new \in Calls /\ ~new.clear /\ ~new.lost
    BY <1>6, <1>8, IdleCall
  <1> HIDE DEF new
  <1>10. call' \in [Callers -> Calls] /\ call'[c] = new /\ \A d \in Callers \ {c} : call'[d] = call[d]
    BY <1>0, <1>2, <1>9 DEF CallOK
  <1>11. new.key # None => new.key = k /\ new.prog = p /\ new.pc = 1 /\ new.fail = 0 /\ 1 \in DOMAIN p
    BY <1>4, <1>6, <1>8, IdleCall
  <1>12. TurnNow(c)' = 0 /\ TempNow(c)' = 0 /\ \A l \in Locks : HeldNow(c, l)' = 0
    <2>1. TurnAt(p, 1) = 0 /\ TempAt(p, 1) = 0 /\ \A l \in Locks : HeldAt(gen, p, 1, l) = 0
      BY <1>3 DEF Balanced
    <2> QED
      BY <1>1, <1>10, <1>11, <2>1 DEF TurnNow, TempNow, HeldNow, Running, Prog
  <1>13. \A d \in Callers \ {c} :
            /\ Running(d)' = Running(d) /\ TurnNow(d)' = TurnNow(d) /\ TempNow(d)' = TempNow(d)
            /\ \A l \in Locks : HeldNow(d, l)' = HeldNow(d, l)
    BY <1>1, <1>10 DEF TurnNow, TempNow, HeldNow, Running, Prog
  <1>14. TurnNow(c) = 0 /\ TempNow(c) = 0 /\ \A l \in Locks : HeldNow(c, l) = 0
    BY <1>1 DEF TurnNow, TempNow, HeldNow
  <1>15. Types' /\ JogOK'
    BY <1>0, <1>1 DEF IInv, Types, JogOK
  <1>16. CallOK'
    <2>1. Placement(call[c])'
      BY <1>1, <1>2, <1>10, <1>11 DEF Placement, p
    <2>2. \A d \in Callers \ {c} : Placement(call[d])'
      BY <1>0, <1>1, <1>10 DEF CallOK, Placement
    <2> QED
      BY <1>10, <2>1, <2>2 DEF CallOK
  <1>17. BlocksOK'
    <2>1. \A d \in Callers : /\ TurnNow(d)' = TurnNow(d) /\ TempNow(d)' = TempNow(d)
                             /\ \A l \in Locks : HeldNow(d, l)' = HeldNow(d, l)
      BY <1>12, <1>13, <1>14
    <2> QED
      BY <1>0, <1>1, <2>1 DEF BlocksOK
  <1>18. AccessOK'
    <2> SUFFICES ASSUME NEW d \in Callers, gen = "rw8", Running(d)', MustHold(call'[d].key), ~call'[d].lost
                 PROVE  own'[d]["writeaccess"] = HeldNow(d, "writeaccess")'
      BY <1>1 DEF AccessOK, MustHold
    <2>1. CASE d = c
      BY <1>0, <1>1, <1>12, <1>14, <2>1
    <2>2. CASE d # c
      BY <1>0, <1>1, <1>10, <1>13, <2>2 DEF AccessOK
    <2> QED
      BY <2>1, <2>2
  <1>19. StartOK'
    <2> SUFFICES ASSUME NEW d \in Callers, gen # "rw8", Running(d)', call'[d].key \in StartKeys, call'[d].clear
                 PROVE  /\ call'[d].pc > 1 /\ ~jogHold'
                        /\ (\E l \in Locks : HeldNow(d, l)' > 0) => ~freeing'
      BY <1>1 DEF StartOK
    <2>1. d # c
      BY <1>9, <1>10
    <2> QED
      BY <1>0, <1>1, <1>10, <1>13, <2>1 DEF StartOK
  <1> QED
    BY <1>15, <1>16, <1>17, <1>18, <1>19 DEF IInv

-----------------------------------------------------------------------------
(* The invariant, and what it says.                                        *)

LEMMA Initially ==
    ASSUME Init
    PROVE  IInv
  <1>1. \A c \in Callers : call[c] = Idle /\ ~Running(c) /\ ~call[c].clear
    BY IdleCall DEF Init, Running
  <1>2. \A c \in Callers : TurnNow(c) = 0 /\ TempNow(c) = 0 /\ \A l \in Locks : HeldNow(c, l) = 0
    BY <1>1 DEF TurnNow, TempNow, HeldNow
  <1>3. Types /\ JogOK
    BY OperationsAssumption DEF Init, Types, JogOK
  <1>4. CallOK
    BY <1>1, IdleCall DEF Init, CallOK, Placement
  <1>5. BlocksOK
    BY <1>2, OperationsAssumption DEF Init, BlocksOK
  <1>6. AccessOK /\ StartOK
    BY <1>1 DEF AccessOK, StartOK
  <1> QED
    BY <1>3, <1>4, <1>5, <1>6 DEF IInv

LEMMA Inductive ==
    ASSUME ProgramsNest, IInv, [Next]_vars
    PROVE  IInv'
  <1>1. ASSUME NEW c \in Callers, Step(c)
        PROVE  IInv'
    BY <1>1, PlainActions, WriteNotHeldStep, BranchStep, HandleStep, EnterTurnStep, LeaveTurnStep, TakeStep,
       GiveStep, TempFileStep, ForfeitStep, JogAskStep, JogTakeStep, JogEndStep DEF Step
  <1>2. ASSUME NEW c \in Callers, NEW k \in Asks[c], Begin(c, k)
        PROVE  IInv'
    BY <1>2, BeginStep
  <1>3. CASE TimerFires \/ Freed \/ RequestMotion \/ ReleaseMotion \/ UNCHANGED vars
    BY <1>3, HoldActions
  <1> QED
    BY <1>1, <1>2, <1>3 DEF Next

\* IInv holds however the callers' steps interleave.
LEMMA Always == Spec => []IInv
  <1>1. Init => IInv
    BY Initially
  <1>2. IInv /\ [Next]_vars => IInv'
    BY NestingAssumption, Inductive
  <1> QED
    BY <1>1, <1>2, PTL DEF Spec

\* Every caller is inside its program, and holds and turns are well formed.
THEOREM TypeCorrect == Spec => []TypeOK
  <1>1. ASSUME IInv
        PROVE  TypeOK
    <2>1. ASSUME NEW c \in Callers
          PROVE  /\ Running(c) => call[c].pc \in DOMAIN Prog(c)
                 /\ own[c] \in [Locks -> Nat] /\ temp[c] \in Nat
      BY <1>1 DEF IInv, CallOK, Placement, Running, Prog, Types
    <2> QED
      BY <1>1, <2>1 DEF IInv, Types, TypeOK
  <1> QED
    BY <1>1, Always, PTL

\* An operation that is over has left no access counted, no turn and no temporary file, wherever
\* among its nested blocks it failed and whatever the others did meanwhile; the jog's hold is timed.
THEOREM NothingStaysOpen == Spec => []CleanEnd
  <1>1. ASSUME IInv
        PROVE  CleanEnd
    <2>1. ASSUME NEW c \in Callers, ~Running(c)
          PROVE  /\ \A l \in Locks : own[c][l] = 0
                 /\ temp[c] = 0 /\ turn.who # c
      <3>1. TurnNow(c) = 0 /\ TempNow(c) = 0 /\ \A l \in Locks : HeldNow(c, l) = 0
        BY <2>1 DEF TurnNow, TempNow, HeldNow
      <3>2. \A l \in Locks : own[c][l] \in Nat /\ own[c][l] <= 0
        BY <1>1, <3>1 DEF IInv, Types, BlocksOK
      <3>3. turn.who = c => turn.depth = 0
        BY <1>1, <3>1 DEF IInv, BlocksOK
      <3>4. turn.who # c
        BY <1>1, <3>3, OperationsAssumption DEF IInv, Types
      <3> QED
        BY <1>1, <3>1, <3>2, <3>4 DEF IInv, BlocksOK
    <2> QED
      BY <1>1, <2>1 DEF CleanEnd, IInv, JogOK
  <1> QED
    BY <1>1, Always, PTL

\* Every write that the tables put under write access on RobotWare 8 goes out under access its own
\* operation counts, or after that access was lost: nobody else's loss, stop or jog comes between.
THEOREM WritesAreCovered == Spec => []UnderAccess
  <1>1. ASSUME IInv
        PROVE  UnderAccess
    <2> SUFFICES ASSUME NEW c \in Callers, Runs(c, {"put"}), gen = "rw8", call[c].key \in DOMAIN Catalogue,
                        Rw8Access(call[c].key) # "none", call[c].key \notin SentFirst \cup {"jog"}, ~call[c].lost
                 PROVE  own[c]["writeaccess"] > 0
      BY DEF UnderAccess
    <2>1. Running(c) /\ At(c).op = "put" /\ MustHold(call[c].key) /\ Types /\ CallOK
      BY <1>1 DEF Runs, MustHold, IInv
    <2>2. HeldNow(c, "writeaccess") > 0
      BY <2>1, NestingAssumption, RunningText DEF Guarded, HeldNow, At
    <2>3. own[c]["writeaccess"] = HeldNow(c, "writeaccess")
      BY <1>1, <2>1 DEF IInv, AccessOK
    <2> QED
      BY <2>2, <2>3
  <1> QED
    BY <1>1, Always, PTL

\* A start that found no caller's hold on motion is not sent while the jog's hold stands or its
\* release is queued, with any number of jogs, starts and releases under way.
THEOREM StartsAfterTheJog == Spec => []StartWithoutMotion
  <1>1. ASSUME IInv
        PROVE  StartWithoutMotion
    <2> SUFFICES ASSUME NEW c \in Callers, Runs(c, {"put"}), gen # "rw8", call[c].key \in StartKeys, call[c].clear
                 PROVE  ~(jogHold \/ freeing)
      BY DEF StartWithoutMotion, StartKeys
    <2>1. Running(c) /\ At(c).op = "put" /\ Types /\ CallOK
      BY <1>1 DEF Runs, IInv
    <2>2. \E l \in Locks : HeldNow(c, l) > 0
      BY <2>1, NestingAssumption, RunningText DEF OneTurnStart, HeldNow, At
    <2> QED
      BY <1>1, <2>1, <2>2 DEF IInv, StartOK
  <1> QED
    BY <1>1, Always, PTL
-----------------------------------------------------------------------------
(* Calls go forward.                                                       *)

\* The call of c is over or further down its program; the other calls are where they were.
Forward(c) ==
    /\ call'[c].key # None => /\ call'[c].key = call[c].key /\ call'[c].prog = call[c].prog
                              /\ call'[c].pc > call[c].pc
    /\ \A d \in Callers \ {c} : /\ call'[d].key = call[d].key /\ call'[d].prog = call[d].prog
                                /\ call'[d].pc = call[d].pc

\* A call that is nc, further down, but for what lost and clear say.
LEMMA GoesForwardBy ==
    ASSUME NEW c \in Callers, NEW nc, NEW k, Reach(nc, c, k), k > call[c].pc,
           \A d \in Callers : call'[d].key = nc[d].key /\ call'[d].prog = nc[d].prog /\ call'[d].pc = nc[d].pc
    PROVE  Forward(c)
  <1>1. \A d \in Callers \ {c} : nc[d] = call[d]
    BY DEF Reach
  <1>2. call'[c].key # None => k \in DOMAIN Prog(c) /\ nc[c].key = call[c].key /\ nc[c].prog = Prog(c) /\ nc[c].pc = k
    BY DEF Reach
  <1> QED
    BY <1>1, <1>2 DEF Forward, Prog

LEMMA AdvancedForward ==
    ASSUME ProgramsNest, IInv, NEW c \in Callers, Running(c), call' = Advanced(c)
    PROVE  Forward(c)
  BY AdvancedReaches, GoesForwardBy DEF IInv

LEMMA FailedForward ==
    ASSUME ProgramsNest, IInv, NEW c \in Callers, Running(c), At(c).op \notin Closers, NEW how \in Hows,
           call' = Failed(c, how)
    PROVE  Forward(c)
  BY FailedReaches, GoesForwardBy DEF IInv

LEMMA MovedForward ==
    ASSUME ProgramsNest, IInv, NEW c \in Callers, Running(c), At(c).op \in Jumps \cup {"jogask"}, call[c].fail = 0,
           \/ call' = Moved(c, call[c].pc + 1)
           \/ At(c).op \in Jumps /\ call' = Moved(c, call[c].pc + 1 + At(c).n)
           \/ At(c).op = "jogask" /\ call' = Moved(c, call[c].pc + 2)
    PROVE  Forward(c)
  <1> DEFINE i == call[c].pc
             n == At(c).n
  <1>1. /\ i \in 1 .. Len(Prog(c)) /\ Len(Prog(c)) \in Nat /\ n \in Nat /\ Jumped(gen, Prog(c))
        /\ DOMAIN Prog(c) = 1 .. Len(Prog(c)) /\ Prog(c)[i] = At(c)
    BY RunningText DEF IInv, Instructions, At
  <1>2. /\ i + 1 \in 1 .. Len(Prog(c)) + 1
        /\ At(c).op \in Jumps => i + 1 + n \in 1 .. Len(Prog(c)) + 1
        /\ At(c).op = "jogask" => i + 2 \in 1 .. Len(Prog(c)) + 1
    BY <1>1 DEF Jumped
  <1>3. PICK k \in {i + 1, i + 1 + n, i + 2} : call' = Moved(c, k) /\ k \in 1 .. Len(Prog(c)) + 1
    BY <1>2
  <1>4. k > i
    BY <1>1, <1>3
  <1>5. Reach(call', c, k)
    BY <1>3, MovedReaches DEF IInv
  <1> QED
    BY <1>4, <1>5, GoesForwardBy

\* What a loss marks is not where the calls are.
LEMMA LoseForward ==
    ASSUME NEW c \in Callers, NEW nc, NEW k, Reach(nc, c, k), k > call[c].pc, NEW L, LoseLocks(L, nc)
    PROVE  Forward(c)
  <1>1. nc \in [Callers -> Calls]
    BY DEF Reach
  <1>2. ASSUME NEW d \in Callers
        PROVE  call'[d].key = nc[d].key /\ call'[d].prog = nc[d].prog /\ call'[d].pc = nc[d].pc
    <2>1. nc[d] \in Calls
      BY <1>1
    <2>2. PICK b : call'[d] = [nc[d] EXCEPT !.lost = b]
      BY DEF LoseLocks
    <2> QED
      BY <2>1, <2>2 DEF Calls
  <1> QED
    BY <1>2, GoesForwardBy

\* Every step of a caller takes its call further down.
LEMMA StepForward ==
    ASSUME ProgramsNest, IInv, NEW c \in Callers, Step(c)
    PROVE  Forward(c)
  <1>0. Running(c) /\ Types /\ CallOK /\ call \in [Callers -> Calls]
    BY DEF Step, Read, Write, WriteNotHeld, Throw, Branch, Handle, EnterTurn, LeaveTurn, Take, Give, TempFile,
           Forfeit, JogAsk, JogTake, JogEnd, Runs, IInv, CallOK
  <1>1. CASE call' = Advanced(c)
    BY <1>0, <1>1, AdvancedForward
  <1>2. CASE At(c).op \notin Closers /\ \E how \in Hows : call' = Failed(c, how)
    BY <1>0, <1>2, FailedForward
  <1>3. CASE Read(c) \/ Write(c) \/ Throw(c) \/ EnterTurn(c) \/ Take(c) \/ Give(c) \/ TempFile(c) \/ JogTake(c)
    <2>1. call' = Advanced(c) \/ (At(c).op \notin Closers /\ \E how \in Hows : call' = Failed(c, how))
      BY <1>3 DEF Read, Write, Throw, EnterTurn, Take, Give, TempFile, JogTake, Runs, Closers, Hows
    <2> QED
      BY <2>1, <1>1, <1>2
  <1>4. CASE WriteNotHeld(c)
    <2>1. At(c).op \notin Closers /\ \E L : LoseLocks(L, Failed(c, "notheld"))
      BY <1>4 DEF WriteNotHeld, Runs, Closers
    <2>2. \E k : Reach(Failed(c, "notheld"), c, k) /\ k > call[c].pc
      BY <1>0, <2>1, FailedReaches DEF Hows
    <2> QED
      BY <2>1, <2>2, LoseForward
  <1>5. CASE Forfeit(c)
    <2>1. \E L : LoseLocks(L, Advanced(c))
      BY <1>5 DEF Forfeit
    <2>2. \E k : Reach(Advanced(c), c, k) /\ k > call[c].pc
      BY <1>0, AdvancedReaches
    <2> QED
      BY <2>1, <2>2, LoseForward
  <1>6. CASE Branch(c)
    <2>1. At(c).op \in {"may", "skip"}
      BY <1>6 DEF Branch, Runs
    <2>2. call[c].fail = 0
      BY <1>0, <2>1, NotFailing DEF Closers, Handlers
    <2> QED
      BY <1>0, <1>6, <2>1, <2>2, MovedForward DEF Branch, Jumps
  <1>7. CASE JogAsk(c)
    <2>1. At(c).op = "jogask"
      BY <1>7 DEF JogAsk, Runs
    <2>2. call[c].fail = 0
      BY <1>0, <2>1, NotFailing DEF Closers, Handlers
    <2> QED
      BY <1>0, <1>7, <2>1, <2>2, MovedForward DEF JogAsk
  <1>8. CASE Handle(c)
    <2>1. At(c).op \in Handlers
      BY <1>8 DEF Handle, Runs, Handlers
    <2>2. CASE call[c].fail = 0 /\ call' = Moved(c, call[c].pc + 1 + At(c).n)
      BY <1>0, <2>1, <2>2, MovedForward DEF Jumps
    <2>3. CASE call' = [call EXCEPT ![c] = Placed([@ EXCEPT !.fail = 0, !.how = ""], @.pc + 1, Prog(c))]
      <3> DEFINE i == call[c].pc
                 r == [call[c] EXCEPT !.fail = 0, !.how = ""]
      <3>1. i \in 1 .. Len(Prog(c)) /\ Len(Prog(c)) \in Nat /\ call[c] \in Calls
        BY <1>0, RunningText
      <3>2. /\ r \in Calls /\ r.key = call[c].key /\ r.prog = Prog(c) /\ r.lost = call[c].lost
            /\ r.clear = call[c].clear /\ r.fail = 0
        BY <3>1 DEF Calls, Prog
      <3>3. i + 1 \in 1 .. Len(Prog(c)) + 1 /\ i + 1 > i
        BY <3>1
      <3>4. call' = [call EXCEPT ![c] = Placed(r, i + 1, Prog(c))]
        BY <1>0, <2>3
      <3> HIDE DEF r
      <3>5. Reach(call', c, i + 1)
        BY <1>0, <3>2, <3>3, <3>4, PlacedReaches
      <3> QED
        BY <3>3, <3>5, GoesForwardBy
    <2> QED
      BY <1>1, <1>8, <2>2, <2>3 DEF Handle
  <1>9. CASE LeaveTurn(c) \/ JogEnd(c)
    <2> DEFINE nc == Advanced(c)
    <2>1. PICK k : Reach(nc, c, k) /\ k > call[c].pc
      BY <1>0, AdvancedReaches
    <2>2. \E b : call' = [nc EXCEPT ![c].lost = b] \/ call' = [nc EXCEPT ![c].clear = b]
      BY <1>9 DEF LeaveTurn, JogEnd
    <2> HIDE DEF nc
    <2>3. nc \in [Callers -> Calls]
      BY <2>1 DEF Reach
    <2>4. ASSUME NEW d \in Callers
          PROVE  call'[d].key = nc[d].key /\ call'[d].prog = nc[d].prog /\ call'[d].pc = nc[d].pc
      <3>1. nc[d] \in Calls
        BY <2>3
      <3>2. call'[d] = nc[d] \/ \E b : call'[d] = [nc[d] EXCEPT !.lost = b] \/ call'[d] = [nc[d] EXCEPT !.clear = b]
        BY <2>2, <2>3
      <3> QED
        BY <3>1, <3>2 DEF Calls
    <2> QED
      BY <2>1, <2>4, GoesForwardBy
  <1> QED
    BY <1>3, <1>4, <1>5, <1>6, <1>7, <1>8, <1>9 DEF Step

\* Every step of a caller takes its call further down its program, also when it fails there, is
\* handled, or loses access by what another call does, and nothing else moves it: a call has at most
\* as many steps as its program is long.
THEOREM CallsGoForward == Spec => GoesForward
  <1>1. ASSUME IInv, Next, NEW c \in Callers, Running(c), Running(c)'
        PROVE  /\ call'[c].key = call[c].key /\ call'[c].prog = call[c].prog /\ call'[c].pc >= call[c].pc
               /\ Step(c) => call'[c].pc > call[c].pc
    <2>1. call[c].pc \in Nat
      BY <1>1, NestingAssumption, RunningText DEF IInv
    <2>2. CASE Step(c)
      <3>1. Forward(c)
        BY <1>1, <2>2, NestingAssumption, StepForward
      <3>2. /\ call'[c].key = call[c].key /\ call'[c].prog = call[c].prog /\ call'[c].pc > call[c].pc
        BY <1>1, <3>1 DEF Forward, Running
      <3>3. call'[c].pc \in Nat
        BY <1>1, NestingAssumption, Inductive DEF IInv, CallOK, Calls
      <3> QED
        BY <2>1, <3>2, <3>3
    <2>3. ASSUME NEW d \in Callers \ {c}, Step(d)
          PROVE  call'[c].key = call[c].key /\ call'[c].prog = call[c].prog /\ call'[c].pc = call[c].pc
      BY <1>1, <2>3, NestingAssumption, StepForward DEF Forward
    <2>4. ASSUME NEW d \in Callers, NEW k, Begin(d, k)
          PROVE  call'[c] = call[c]
      <3>1. d # c /\ call \in [Callers -> Calls]
        BY <1>1, <2>4 DEF Begin, IInv, CallOK
      <3> QED
        BY <2>4, <3>1 DEF Begin
    <2>5. ASSUME TimerFires \/ Freed \/ RequestMotion \/ ReleaseMotion
          PROVE  call'[c] = call[c]
      BY <2>5 DEF TimerFires, Freed, RequestMotion, ReleaseMotion
    <2> QED
      BY <1>1, <2>1, <2>2, <2>3, <2>4, <2>5 DEF Next
  <1>2. IInv /\ [Next]_vars =>
           [\A c \in Callers : Running(c) /\ Running(c)' =>
                /\ call'[c].key = call[c].key /\ call'[c].prog = call[c].prog
                /\ call'[c].pc >= call[c].pc
                /\ Step(c) => call'[c].pc > call[c].pc]_vars
    BY <1>1
  <1> QED
    BY <1>2, Always, PTL DEF Spec, GoesForward

\* While calls are under way and no release of the jog's hold is on its way, one of them does not
\* wait: the call that has the turn waits for no turn, not even where it enters a second time, and
\* has not ended without giving it up.
THEOREM NotAllWait == Spec => []SomebodyGoesOn
  <1>1. ASSUME IInv
        PROVE  SomebodyGoesOn
    <2> SUFFICES ASSUME NEW c \in Callers, Running(c), ~freeing
                 PROVE  \E d \in Callers : Running(d) /\ ~Waits(d)
      BY DEF SomebodyGoesOn
    <2>1. CASE turn.who = None
      BY <2>1 DEF Waits
    <2>2. CASE turn.who # None
      <3>1. turn.who \in Callers /\ turn.depth # 0 /\ turn.depth = TurnNow(turn.who)
        BY <1>1, <2>2 DEF IInv, Types, BlocksOK
      <3>2. Running(turn.who)
        BY <3>1 DEF TurnNow
      <3>3. ~Waits(turn.who)
        BY DEF Waits
      <3> QED
        BY <3>1, <3>2, <3>3
    <2> QED
      BY <2>1, <2>2
  <1> QED
    BY <1>1, Always, PTL
=============================================================================
