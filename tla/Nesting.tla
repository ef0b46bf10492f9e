------------------------------ MODULE Nesting -------------------------------
(***************************************************************************)
(* How the blocks of a program nest: the turns, counted accesses and       *)
(* temporary files that are open before each of its instructions, as the   *)
(* text of the program says.  ProgramsNest has no constant in it:          *)
(* evaluating it settles it for every method of every generation, and      *)
(* OperationsProofs takes it from there to every number of callers and     *)
(* calls.                                                                  *)
(***************************************************************************)
EXTENDS Operations

Handlers == {"else", "some", "notheld"}

\* Instructions whose next one is named by their length.
Jumps == {"may", "skip"} \cup Handlers

Hows == {"refused", "notheld", "throw", "never"}

\* The locks an instruction takes or gives.
On(g, ins) == {LockOf(g, d) : d \in ins.on}

TurnAt(p, i) ==
    Cardinality({x \in 1 .. i - 1 : p[x].op = "enter"}) - Cardinality({x \in 1 .. i - 1 : p[x].op = "leave"})

TempAt(p, i) ==
    Cardinality({x \in 1 .. i - 1 : p[x].op = "make"}) - Cardinality({x \in 1 .. i - 1 : p[x].op = "drop"})

HeldAt(g, p, i, l) ==
    Cardinality({x \in 1 .. i - 1 : p[x].op \in {"take", "trytake"} /\ l \in On(g, p[x])})
        - Cardinality({x \in 1 .. i - 1 : p[x].op = "give" /\ l \in On(g, p[x])})

\* The same is open before i and before j.
Same(g, p, i, j) ==
    /\ TurnAt(p, i) = TurnAt(p, j) /\ TempAt(p, i) = TempAt(p, j)
    /\ \A l \in Locks : HeldAt(g, p, i, l) = HeldAt(g, p, j, l)

-----------------------------------------------------------------------------
\* Nothing is closed that was not opened, and nothing stays open.
Balanced(g, p) ==
    /\ \A i \in 1 .. Len(p) + 1 : /\ TurnAt(p, i) \in Nat /\ TempAt(p, i) \in Nat
                                  /\ \A l \in Locks : HeldAt(g, p, i, l) \in Nat
    /\ \A i \in {1, Len(p) + 1} : /\ TurnAt(p, i) = 0 /\ TempAt(p, i) = 0
                                  /\ \A l \in Locks : HeldAt(g, p, i, l) = 0

\* What an instruction opens or closes.
Stepwise(g, p) ==
    \A i \in DOMAIN p :
        /\ TurnAt(p, i + 1) = TurnAt(p, i) + (CASE p[i].op = "enter" -> 1 [] p[i].op = "leave" -> -1 [] OTHER -> 0)
        /\ TempAt(p, i + 1) = TempAt(p, i) + (CASE p[i].op = "make" -> 1 [] p[i].op = "drop" -> -1 [] OTHER -> 0)
        /\ \A l \in Locks :
              HeldAt(g, p, i + 1, l) = HeldAt(g, p, i, l)
                  + (CASE p[i].op \in {"take", "trytake"} /\ l \in On(g, p[i]) -> 1
                       [] p[i].op = "give" /\ l \in On(g, p[i]) -> -1
                       [] OTHER -> 0)

\* A jump leaves no block and enters none.
Jumped(g, p) ==
    \A i \in DOMAIN p :
        /\ p[i].op \in Jumps => /\ i + 1 + p[i].n \in 1 .. Len(p) + 1
                                /\ Same(g, p, i, i + 1 + p[i].n)
        /\ p[i].op = "jogask" => i + 2 \in 1 .. Len(p) + 1 /\ Same(g, p, i, i + 2)

\* A failure at i, or a failing operation that has unwound to i, goes on further down, in the
\* blocks it is still in, and only to close one or to be handled.
Unwound(g, p) ==
    \A i \in DOMAIN p : \A f \in 1 .. i : \A how \in Hows :
        LET j == Land(p, i, f, how)
        IN  /\ j \in i + 1 .. Len(p) + 1
            /\ j \in DOMAIN p => p[j].op \in Closers \cup Handlers
            /\ Same(g, p, IF p[i].op \in Closers THEN i + 1 ELSE i, j)

Nested(g, p) == Balanced(g, p) /\ Stepwise(g, p) /\ Jumped(g, p) /\ Unwound(g, p)

\* Every write of p is inside a turn and inside write access that p itself asks for.
Guarded(p) ==
    \A i \in DOMAIN p :
        /\ p[i].op = "put" => HeldAt("rw8", p, i, "writeaccess") > 0
        /\ p[i].op # "trytake"

InsideTurn(p) ==
    \A i \in 1 .. Len(p) + 1 : HeldAt("rw8", p, i, "writeaccess") > 0 => TurnAt(p, i) > 0

\* The writes catalogued as under access, but for the stops and the jog.
MustHold(k) ==
    /\ k \in DOMAIN Catalogue /\ Rw8Access(k) # "none"
    /\ k \notin SentFirst \cup {"jog"}

StartKeys == {"startRapid", "stepRapid"}

\* A start is one turn: the jog's hold ends in it before anything is held, and what it sends is
\* under access it takes after that.
OneTurnStart(g, p) ==
    \A i \in DOMAIN p :
        /\ i > 1 => TurnAt(p, i) > 0
        /\ p[i].op = "put" => \E l \in Locks : HeldAt(g, p, i, l) > 0
        /\ p[i].op = "jogend" => \A l \in Locks : HeldAt(g, p, i, l) = 0
        /\ p[i].op \notin {"trytake", "jogtake"}

JogsInTurn(p) == \A i \in DOMAIN p : p[i].op = "jogtake" => TurnAt(p, i) > 0

\* Of the instructions a program may have.
Instructions ==
    [op : {"get", "ask", "quiet", "put", "throw", "never", "jogask", "jogtake", "jogend", "forfeit"}
          \cup Jumps \cup Openers \cup Closers,
     on : SUBSET Domains, n : Nat, back : Nat]

\* Every program of every generation nests.  There is no constant in it: TLC evaluates it once and for all.
ProgramsNest ==
    \A g \in Generations :
        /\ None \notin DOMAIN Programs[g]
        /\ \A k \in DOMAIN Programs[g] :
              LET p == Programs[g][k]
              IN  /\ p \in Seq(Instructions)
                  /\ Nested(g, p) /\ JogsInTurn(p)
                  /\ g = "rw8" /\ MustHold(k) => Guarded(p) /\ InsideTurn(p)
                  /\ g # "rw8" /\ k \in StartKeys => OneTurnStart(g, p)

ASSUME NestingAssumption == ProgramsNest
=============================================================================
