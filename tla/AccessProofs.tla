---------------------------- MODULE AccessProofs ----------------------------
(***************************************************************************)
(* Proofs about Access, for every set of locks, operations and holds that  *)
(* ConstAssumption allows: types, the write turn, and what a teardown and  *)
(* a lost hold forbid.                                                     *)
(***************************************************************************)
EXTENDS Access, SequenceTheorems, TLAPS

-----------------------------------------------------------------------------
(* Facts about sequences and the constants.                                *)

(* RemoveAt of a sequence over S is a sequence over S with the elements    *)
(* after position i moved up.                                              *)
LEMMA RemoveAtType ==
  ASSUME NEW S, NEW s \in Seq(S), NEW i \in 1..Len(s)
  PROVE  /\ RemoveAt(s, i) \in Seq(S)
         /\ Len(RemoveAt(s, i)) = Len(s) - 1
         /\ \A j \in 1..(Len(s) - 1) : RemoveAt(s, i)[j] = IF j < i THEN s[j] ELSE s[j + 1]
<1> DEFINE a == SubSeq(s, 1, i - 1)
           b == SubSeq(s, i + 1, Len(s))
<1>1. a \in Seq(S) /\ Len(a) = i - 1 /\ \A j \in 1..(i - 1) : a[j] = s[j]
  OBVIOUS
<1>2. b \in Seq(S) /\ Len(b) = Len(s) - i /\ \A j \in 1..(Len(s) - i) : b[j] = s[i + j]
  OBVIOUS
<1>3. RemoveAt(s, i) = a \o b
  BY DEF RemoveAt
<1> HIDE DEF a, b
<1>4. /\ a \o b \in Seq(S)
      /\ Len(a \o b) = Len(a) + Len(b)
      /\ \A j \in 1..(Len(a) + Len(b)) :
            (a \o b)[j] = IF j <= Len(a) THEN a[j] ELSE b[j - Len(a)]
  BY <1>1, <1>2, ConcatProperties
<1>5. Len(s) \in Nat
  OBVIOUS
<1>6. ASSUME NEW j \in 1..(Len(s) - 1)
      PROVE  (a \o b)[j] = IF j < i THEN s[j] ELSE s[j + 1]
  <2>1. CASE j < i
    BY <2>1, <1>1, <1>2, <1>4, <1>5
  <2>2. CASE ~(j < i)
    <3>1. (a \o b)[j] = b[j - (i - 1)]
      BY <2>2, <1>1, <1>2, <1>4, <1>5
    <3>2. j - (i - 1) \in 1..(Len(s) - i) /\ i + (j - (i - 1)) = j + 1
      BY <2>2, <1>5
    <3>3. QED BY <3>1, <3>2, <2>2, <1>2
  <2>3. QED BY <2>1, <2>2
<1>7. QED BY <1>1, <1>2, <1>3, <1>4, <1>5, <1>6

(* The members of a sequence over S are in S. *)
LEMMA RangeType ==
  ASSUME NEW S, NEW s \in Seq(S)
  PROVE  Range(s) \subseteq S
BY DEF Range

(* The hold an operation takes next, or ends next, is one of its own. *)
LEMMA FrameHold ==
  ASSUME NEW p \in Ops, nested \in [Ops -> BOOLEAN], NEW i \in 1..Len(Frame(p))
  PROVE  Frame(p)[i] \in Hold /\ Owner[Frame(p)[i]] = p
BY ConstAssumption DEF Frame

-----------------------------------------------------------------------------
(* The inductive invariant of the turn and the chain.                      *)

(* A step of an operation: the operation waits for it. *)
OpStep(s) == s.kind \in {"acquire", "release", "forget"} /\ Owner[s.hold] \in Ops
WaitingPc(s) == IF s.kind = "acquire" THEN "taking" ELSE "ending"

(* An operation awaits its one step on the chain, and the holds others ask *)
(* for are public ones.                                                    *)
ChainOK(c, q) ==
    /\ \A i \in 1..Len(c) : OpStep(c[i]) => q[Owner[c[i].hold]] = WaitingPc(c[i])
    /\ \A i \in 1..Len(c) : \A j \in 1..Len(c) :
          OpStep(c[i]) /\ OpStep(c[j]) /\ Owner[c[i].hold] = Owner[c[j].hold] => i = j
    /\ \A i \in 1..Len(c) : c[i].kind = "acquire" /\ ~OpStep(c[i]) => c[i].hold \in Public

(* How far each operation is within its frame. *)
ProgressOK ==
    \A p \in Ops :
      /\ taken[p] <= Len(Frame(p))
      /\ pc[p] \in {"take", "taking"} => taken[p] < Len(Frame(p))
      /\ pc[p] = "ending" => taken[p] > 0
      /\ ~InTurn(p) => taken[p] = 0 /\ ~nested[p]

(* The waiters are distinct operations that wait. *)
WaitersOK ==
    /\ \A i \in 1..Len(waiters) : pc[waiters[i]] = "waiting"
    /\ \A i \in 1..Len(waiters) : \A j \in 1..Len(waiters) : waiters[i] = waiters[j] => i = j

TurnInv == TypeOK /\ ChainOK(chain, pc) /\ ProgressOK /\ WaitersOK /\ OneTurn

(* The chain invariant only depends on the operations that have a step on  *)
(* the chain.                                                              *)
LEMMA ChainFrame ==
  ASSUME NEW c, NEW q, NEW r, ChainOK(c, q),
         \A p \in Ops : q[p] \in {"taking", "ending"} => r[p] = q[p]
  PROVE  ChainOK(c, r)
BY DEF ChainOK, OpStep, WaitingPc

(* A step joins the chain: an operation's own, or one nobody waits for. *)
LEMMA ChainAppend ==
  ASSUME NEW c \in Seq(Step), NEW q, NEW r, NEW s \in Step, ChainOK(c, q),
         s.kind = "acquire" /\ ~OpStep(s) => s.hold \in Public,
         \/ ~OpStep(s) /\ r = q
         \/ /\ OpStep(s) /\ q[Owner[s.hold]] \notin {"taking", "ending"}
            /\ r = [q EXCEPT ![Owner[s.hold]] = WaitingPc(s)]
            /\ q \in [Ops -> PcType]
  PROVE  ChainOK(Append(c, s), r) /\ Append(c, s) \in Seq(Step)
<1> DEFINE d == Append(c, s)
<1>1. /\ d \in Seq(Step) /\ Len(d) = Len(c) + 1 /\ Len(c) \in Nat
      /\ \A i \in 1..Len(c) : d[i] = c[i]
      /\ d[Len(c) + 1] = s
  OBVIOUS
<1> HIDE DEF d
<1>2. \A i \in 1..Len(d) : i \in 1..Len(c) \/ i = Len(c) + 1
  BY <1>1
<1>3. \A i \in 1..Len(c) : OpStep(c[i]) => q[Owner[c[i].hold]] \in {"taking", "ending"}
  BY DEF ChainOK, WaitingPc
<1>4. CASE ~OpStep(s) /\ r = q
  BY <1>1, <1>2, <1>4 DEF ChainOK
<1>5. CASE /\ OpStep(s) /\ q[Owner[s.hold]] \notin {"taking", "ending"}
           /\ r = [q EXCEPT ![Owner[s.hold]] = WaitingPc(s)] /\ q \in [Ops -> PcType]
  <2>1. \A i \in 1..Len(c) : OpStep(c[i]) => Owner[c[i].hold] # Owner[s.hold]
    BY <1>3, <1>5
  <2>2. \A p \in Ops : r[p] = IF p = Owner[s.hold] THEN WaitingPc(s) ELSE q[p]
    BY <1>5
  <2>3. \A i \in 1..Len(d) : OpStep(d[i]) => r[Owner[d[i].hold]] = WaitingPc(d[i])
    BY <1>1, <1>2, <2>1, <2>2, <1>5 DEF ChainOK, OpStep
  <2>4. \A i \in 1..Len(d) : \A j \in 1..Len(d) :
          OpStep(d[i]) /\ OpStep(d[j]) /\ Owner[d[i].hold] = Owner[d[j].hold] => i = j
    BY <1>1, <1>2, <2>1 DEF ChainOK
  <2>5. \A i \in 1..Len(d) : d[i].kind = "acquire" /\ ~OpStep(d[i]) => d[i].hold \in Public
    BY <1>1, <1>2, <1>5 DEF ChainOK
  <2>6. QED BY <2>3, <2>4, <2>5, <1>1 DEF ChainOK, d
<1>6. QED BY <1>4, <1>5

(* The running step leaves the chain, and its operation goes on. *)
LEMMA ChainTail ==
  ASSUME NEW c \in Seq(Step), NEW q, NEW r, c # <<>>, ChainOK(c, q),
         \A p \in Ops : ~(OpStep(Head(c)) /\ p = Owner[Head(c).hold])
                        /\ q[p] \in {"taking", "ending"} => r[p] = q[p]
  PROVE  ChainOK(Tail(c), r) /\ Tail(c) \in Seq(Step)
<1>1. /\ Tail(c) \in Seq(Step) /\ Len(Tail(c)) = Len(c) - 1 /\ Len(c) \in Nat \ {0}
      /\ \A i \in 1..Len(Tail(c)) : Tail(c)[i] = c[i + 1] /\ i + 1 \in 1..Len(c)
      /\ Head(c) = c[1] /\ 1 \in 1..Len(c)
  OBVIOUS
<1>2. \A i \in 1..Len(Tail(c)) : OpStep(c[i + 1]) =>
          ~(OpStep(Head(c)) /\ Owner[c[i + 1].hold] = Owner[Head(c).hold])
  BY <1>1 DEF ChainOK
<1>3. \A i \in 1..Len(Tail(c)) : OpStep(c[i + 1]) =>
          r[Owner[c[i + 1].hold]] = WaitingPc(c[i + 1])
  BY <1>1, <1>2 DEF ChainOK, OpStep, WaitingPc
<1>4. \A i \in 1..Len(Tail(c)) : \A j \in 1..Len(Tail(c)) : i + 1 = j + 1 => i = j
  BY <1>1
<1>5. QED BY <1>1, <1>3, <1>4 DEF ChainOK

-----------------------------------------------------------------------------
(* The invariant is preserved, one lemma per group of actions.             *)

(* The parts of the type invariant whose variables a step leaves alone. *)
LEMMA SameController ==
  ASSUME TypeOK, UNCHANGED <<controller, session>>
  PROVE  ControllerType'
BY DEF TypeOK, ControllerType, controller
LEMMA SameHolds ==
  ASSUME TypeOK, UNCHANGED <<holds, publicVars, record, doubted, checkVars>>
  PROVE  HoldType'
BY DEF TypeOK, HoldType, publicVars, checkVars
LEMMA SameChain ==
  ASSUME TypeOK, UNCHANGED chainVars
  PROVE  ChainType'
BY DEF TypeOK, ChainType, chainVars
LEMMA SameTurn ==
  ASSUME TypeOK, UNCHANGED <<turnVars, opVars, lost>>
  PROVE  TurnType'
BY DEF TypeOK, TurnType, turnVars, opVars

(* What a step that leaves the operations and the turn alone preserves. *)
LEMMA Steady ==
  ASSUME TurnInv, UNCHANGED <<turnVars, opVars>>
  PROVE  ProgressOK' /\ WaitersOK' /\ OneTurn'
BY DEF TurnInv, turnVars, opVars, ProgressOK, Frame, WaitersOK, OneTurn, InTurn

(* The first hold of an operation that gets the turn is there to be taken. *)
LEMMA FirstPcOK ==
  ASSUME NEW p \in Ops
  PROVE  /\ FirstPc(p) \in {"take", "body"}
         /\ FirstPc(p) = "take" => Len(Outer[p]) > 0
         /\ Len(Outer[p]) \in Nat /\ Len(Inner[p]) \in Nat
         /\ Inner[p] # <<>> => Len(Inner[p]) > 0
BY ConstAssumption DEF FirstPc

(* exclusive(): the turn is taken at once, or the operation waits. *)
LEMMA EnterTurnStep ==
  ASSUME TurnInv, NEW p \in Ops, EnterTurn(p)
  PROVE  TurnInv'
<1>0. TurnType /\ ChainOK(chain, pc) /\ ProgressOK /\ WaitersOK /\ OneTurn /\ TypeOK
  BY DEF TurnInv, TypeOK
<1>1. UNCHANGED <<controller, session, holds, publicVars, record, chainVars, lossVars, checkVars,
                  nested, taken, outcome, lost, doubted>> /\ pc[p] = "idle" /\ mutexBusy'
  BY DEF EnterTurn, lossVars
<1>2. ControllerType' /\ HoldType' /\ ChainType' /\ chain' = chain
  BY <1>0, <1>1, SameController, SameHolds, SameChain DEF chainVars
<1>3. taken[p] = 0 /\ ~nested[p]
  BY <1>0, <1>1 DEF ProgressOK, InTurn
<1>4. CASE ~mutexBusy
  <2>1. pc' = [pc EXCEPT ![p] = FirstPc(p)] /\ waiters' = waiters
    BY <1>4 DEF EnterTurn
  <2>2. \A q \in Ops : pc'[q] = IF q = p THEN FirstPc(p) ELSE pc[q]
    BY <2>1, <1>0 DEF TurnType
  <2>3. TurnType'
    BY <1>0, <1>1, <2>1, FirstPcOK DEF TurnType, PcType
  <2>4. ChainOK(chain', pc')
    BY <1>0, <1>1, <1>2, <2>2, ChainFrame
  <2>5. ProgressOK'
    BY <1>0, <1>1, <1>3, <2>2, FirstPcOK DEF ProgressOK, Frame, InTurn
  <2>6. WaitersOK' /\ OneTurn'
    <3>1. waiters = <<>> /\ \A q \in Ops : ~InTurn(q)
      BY <1>0, <1>4 DEF OneTurn
    <3>2. \A q \in Ops : InTurn(q)' <=> q = p
      BY <3>1, <2>2, FirstPcOK DEF InTurn
    <3>3. Len(<<>>) = 0
      OBVIOUS
    <3>4. QED BY <3>1, <3>2, <3>3, <2>1, <1>1 DEF WaitersOK, OneTurn
  <2>7. QED BY <1>2, <2>3, <2>4, <2>5, <2>6 DEF TurnInv, TypeOK
<1>5. CASE mutexBusy
  <2>1. pc' = [pc EXCEPT ![p] = "waiting"] /\ waiters' = Append(waiters, p)
    BY <1>5 DEF EnterTurn
  <2>2. \A q \in Ops : pc'[q] = IF q = p THEN "waiting" ELSE pc[q]
    BY <2>1, <1>0 DEF TurnType
  <2>3. TurnType'
    BY <1>0, <1>1, <2>1 DEF TurnType, PcType
  <2>4. ChainOK(chain', pc')
    BY <1>0, <1>1, <1>2, <2>2, ChainFrame
  <2>5. ProgressOK'
    BY <1>0, <1>1, <1>3, <2>2 DEF ProgressOK, Frame, InTurn
  <2>6. WaitersOK'
    <3>1. waiters \in Seq(Ops)
      BY <1>0 DEF TurnType
    <3>2. /\ Len(waiters') = Len(waiters) + 1 /\ Len(waiters) \in Nat
          /\ \A i \in 1..Len(waiters') : waiters'[i] = IF i = Len(waiters) + 1 THEN p ELSE waiters[i]
          /\ \A i \in 1..Len(waiters) : waiters[i] \in Ops
      BY <2>1, <3>1
    <3>3. \A i \in 1..Len(waiters) : waiters[i] # p
      BY <1>0, <1>1 DEF WaitersOK
    <3>4. \A i \in 1..Len(waiters') : i \in 1..Len(waiters) \/ i = Len(waiters) + 1
      BY <3>2
    <3>5. QED BY <3>2, <3>3, <3>4, <2>2, <1>0 DEF WaitersOK
  <2>7. OneTurn'
    <3>1. \A q \in Ops : InTurn(q)' <=> InTurn(q)
      BY <2>2, <1>1 DEF InTurn
    <3>2. QED BY <3>1, <1>0, <1>1, <1>5 DEF OneTurn
  <2>8. QED BY <1>2, <2>3, <2>4, <2>5, <2>6, <2>7 DEF TurnInv, TypeOK
<1>6. QED BY <1>4, <1>5, <1>0 DEF TurnType

(* The queue timeout: a waiter leaves the queue from any place in it. *)
LEMMA QueueTimeoutStep ==
  ASSUME TurnInv, NEW p \in Ops, QueueTimeout(p)
  PROVE  TurnInv'
<1>0. TurnType /\ ChainOK(chain, pc) /\ ProgressOK /\ WaitersOK /\ OneTurn /\ TypeOK
  BY DEF TurnInv, TypeOK
<1>1. UNCHANGED <<controller, session, holds, publicVars, record, chainVars, checkVars,
                  nested, taken, outcome, lost, doubted, mutexBusy>>
  BY DEF QueueTimeout, lossVars
<1>2. ControllerType' /\ HoldType' /\ ChainType' /\ chain' = chain
  BY <1>0, <1>1, SameController, SameHolds, SameChain DEF chainVars
<1>3. PICK k \in 1..Len(waiters) : waiters[k] = p /\ waiters' = RemoveAt(waiters, k)
  BY DEF QueueTimeout
<1>4. waiters \in Seq(Ops) /\ Len(waiters) \in Nat /\ \A i \in 1..Len(waiters) : waiters[i] \in Ops
  BY <1>0 DEF TurnType
<1>5. /\ waiters' \in Seq(Ops) /\ Len(waiters') = Len(waiters) - 1
      /\ \A j \in 1..(Len(waiters) - 1) : waiters'[j] = IF j < k THEN waiters[j] ELSE waiters[j + 1]
  BY <1>3, <1>4, RemoveAtType
<1>6. pc[p] = "waiting" /\ pc' = [pc EXCEPT ![p] = "idle"]
  BY <1>0, <1>3 DEF QueueTimeout, WaitersOK
<1>7. \A q \in Ops : pc'[q] = IF q = p THEN "idle" ELSE pc[q]
  BY <1>6, <1>0 DEF TurnType
<1>8. TurnType'
  BY <1>0, <1>1, <1>5, <1>6 DEF TurnType, PcType
<1>9. ChainOK(chain', pc')
  <2>1. \A q \in Ops : pc[q] \in {"taking", "ending"} => pc'[q] = pc[q]
    BY <1>6, <1>7
  <2>2. QED BY <1>0, <1>2, <2>1, ChainFrame
<1>10. ProgressOK'
  BY <1>0, <1>1, <1>6, <1>7 DEF ProgressOK, Frame, InTurn
<1>11. OneTurn'
  <2>1. \A q \in Ops : InTurn(q)' <=> InTurn(q)
    BY <1>6, <1>7 DEF InTurn
  <2>2. waiters # <<>>
    BY <1>3, <1>4
  <2>3. QED BY <2>1, <2>2, <1>0, <1>1 DEF OneTurn
<1>12. WaitersOK'
  <2> DEFINE old(j) == IF j < k THEN j ELSE j + 1
  <2>1. \A j \in 1..Len(waiters') : old(j) \in 1..Len(waiters) /\ old(j) # k /\ waiters'[j] = waiters[old(j)]
    BY <1>3, <1>4, <1>5
  <2>2. \A i, j \in 1..Len(waiters') : old(i) = old(j) => i = j
    BY <1>3, <1>4, <1>5
  <2> HIDE DEF old
  <2>3. \A i \in 1..Len(waiters) : i # k => waiters[i] # p
    BY <1>0, <1>3 DEF WaitersOK
  <2>4. \A j \in 1..Len(waiters') : pc'[waiters'[j]] = "waiting"
    BY <2>1, <2>3, <1>4, <1>7, <1>0 DEF WaitersOK
  <2>5. \A i, j \in 1..Len(waiters') : waiters'[i] = waiters'[j] => i = j
    BY <2>1, <2>2, <1>0 DEF WaitersOK
  <2>6. QED BY <2>4, <2>5 DEF WaitersOK
<1>13. QED BY <1>2, <1>8, <1>9, <1>10, <1>11, <1>12 DEF TurnInv, TypeOK

(* leaveTurn(): the turn is free again, or the first waiter has it. *)
LEMMA LeaveTurnStep ==
  ASSUME TurnInv, NEW p \in Ops, LeaveTurn(p)
  PROVE  TurnInv'
<1>0. TurnType /\ ChainOK(chain, pc) /\ ProgressOK /\ WaitersOK /\ OneTurn /\ TypeOK
  BY DEF TurnInv, TypeOK
<1>1. /\ UNCHANGED <<controller, session, holds, publicVars, record, chainVars, checkVars,
                     nested, taken, doubted>>
      /\ pc[p] = "unwind" /\ taken[p] = 0 /\ ~nested[p] /\ InTurn(p)
      /\ lost' = [lost EXCEPT ![p] = FALSE] /\ outcome' = [outcome EXCEPT ![p] = "none"]
  BY DEF LeaveTurn, Unwound, HandOn, InTurn
<1>2. ControllerType' /\ HoldType' /\ ChainType' /\ chain' = chain
  BY <1>0, <1>1, SameController, SameHolds, SameChain DEF chainVars
<1>3. \A q \in Ops : InTurn(q) <=> q = p
  BY <1>0, <1>1 DEF OneTurn
<1>4. CASE waiters = <<>>
  <2>1. pc' = [pc EXCEPT ![p] = "idle"] /\ mutexBusy' = FALSE /\ waiters' = waiters
    BY <1>4 DEF LeaveTurn, HandOn
  <2>2. \A q \in Ops : pc'[q] = IF q = p THEN "idle" ELSE pc[q]
    BY <2>1, <1>0 DEF TurnType
  <2>3. TurnType'
    BY <1>0, <1>1, <2>1 DEF TurnType, PcType
  <2>4. ChainOK(chain', pc')
    BY <1>0, <1>1, <1>2, <2>2, ChainFrame
  <2>5. ProgressOK'
    BY <1>0, <1>1, <2>2 DEF ProgressOK, Frame, InTurn
  <2>6. WaitersOK' /\ OneTurn'
    <3>1. \A q \in Ops : ~InTurn(q)'
      BY <1>3, <2>2 DEF InTurn
    <3>2. Len(<<>>) = 0
      OBVIOUS
    <3>3. QED BY <3>1, <3>2, <1>4, <2>1 DEF WaitersOK, OneTurn
  <2>7. QED BY <1>2, <2>3, <2>4, <2>5, <2>6 DEF TurnInv, TypeOK
<1>5. CASE waiters # <<>>
  <2> DEFINE n == Head(waiters)
  <2>1. waiters \in Seq(Ops)
    BY <1>0 DEF TurnType
  <2>2. /\ n \in Ops /\ n = waiters[1] /\ 1 \in 1..Len(waiters) /\ Len(waiters) \in Nat
        /\ Tail(waiters) \in Seq(Ops) /\ Len(Tail(waiters)) = Len(waiters) - 1
        /\ \A i \in 1..Len(Tail(waiters)) : Tail(waiters)[i] = waiters[i + 1] /\ i + 1 \in 1..Len(waiters)
                                            /\ waiters[i + 1] \in Ops
    BY <1>5, <2>1
  <2>3. /\ waiters' = Tail(waiters) /\ mutexBusy' = mutexBusy
        /\ pc' = [pc EXCEPT ![p] = "idle", ![n] = FirstPc(n)]
    BY <1>5 DEF LeaveTurn, HandOn
  <2> HIDE DEF n
  <2>4. pc[n] = "waiting" /\ n # p /\ FirstPc(n) \in {"take", "body"}
    BY <2>2, <1>0, <1>1, FirstPcOK DEF WaitersOK
  <2>5. \A q \in Ops : pc'[q] = IF q = n THEN FirstPc(n) ELSE IF q = p THEN "idle" ELSE pc[q]
    BY <2>2, <2>3, <2>4, <1>0 DEF TurnType
  <2>6. TurnType'
    <3>1. pc' \in [Ops -> PcType]
      BY <2>2, <2>3, <2>4, <1>0 DEF TurnType, PcType
    <3>2. QED BY <3>1, <2>2, <2>3, <1>0, <1>1 DEF TurnType
  <2>7. ChainOK(chain', pc')
    BY <1>0, <1>1, <1>2, <2>4, <2>5, ChainFrame
  <2>8. ProgressOK'
    <3>1. taken[n] = 0 /\ ~nested[n]
      BY <2>2, <2>4, <1>0 DEF ProgressOK, InTurn
    <3>2. QED BY <3>1, <1>0, <1>1, <2>2, <2>4, <2>5, FirstPcOK DEF ProgressOK, Frame, InTurn
  <2>9. WaitersOK'
    <3>1. \A i \in 1..Len(waiters') : pc[waiters'[i]] = "waiting" /\ waiters'[i] # n /\ waiters'[i] \in Ops
      <4>1. \A i \in 1..Len(Tail(waiters)) : i + 1 # 1
        BY <2>2
      <4>2. QED BY <4>1, <2>2, <2>3, <1>0 DEF WaitersOK
    <3>2. \A i \in 1..Len(waiters') : pc'[waiters'[i]] = "waiting"
      BY <3>1, <2>5, <1>1
    <3>3. \A i, j \in 1..Len(waiters') : waiters'[i] = waiters'[j] => i = j
      <4>1. \A i, j \in 1..Len(Tail(waiters)) : i + 1 = j + 1 => i = j
        BY <2>2
      <4>2. QED BY <4>1, <2>2, <2>3, <1>0 DEF WaitersOK
    <3>4. QED BY <3>2, <3>3 DEF WaitersOK
  <2>10. OneTurn'
    <3>1. \A q \in Ops : InTurn(q)' <=> q = n
      BY <1>3, <2>4, <2>5, <2>2 DEF InTurn
    <3>2. mutexBusy'
      BY <2>3, <1>0, <1>1 DEF OneTurn
    <3>3. QED BY <3>1, <3>2, <2>2 DEF OneTurn
  <2>11. QED BY <1>2, <2>6, <2>7, <2>8, <2>9, <2>10 DEF TurnInv, TypeOK
<1>6. QED BY <1>4, <1>5

(* The parts of the invariant that the steps below start from. *)
LEMMA Parts ==
  ASSUME TurnInv
  PROVE  /\ TypeOK /\ ControllerType /\ HoldType /\ ChainType /\ TurnType
         /\ ChainOK(chain, pc) /\ ProgressOK /\ WaitersOK /\ OneTurn
BY DEF TurnInv, TypeOK

(* The operation that has the turn goes on to pc v within it. *)
LEMMA GoOn ==
  ASSUME TurnInv, NEW p \in Ops, InTurn(p), UNCHANGED turnVars,
         NEW v \in PcType \ {"idle", "waiting"}, pc' = [pc EXCEPT ![p] = v],
         nested' \in [Ops -> BOOLEAN], taken' \in [Ops -> Nat],
         outcome' \in [Ops -> {"none", "done", "failed", "refused", "restart"}],
         lost' \in [Ops -> BOOLEAN],
         \A q \in Ops \ {p} : nested'[q] = nested[q] /\ taken'[q] = taken[q],
         taken'[p] <= Len(Frame(p)'),
         v \in {"take", "taking"} => taken'[p] < Len(Frame(p)'),
         v = "ending" => taken'[p] > 0
  PROVE  /\ TurnType' /\ ProgressOK' /\ WaitersOK' /\ OneTurn'
         /\ \A q \in Ops : pc'[q] = IF q = p THEN v ELSE pc[q]
<1>0. TurnType /\ ProgressOK /\ WaitersOK /\ OneTurn
  BY Parts
<1>1. \A q \in Ops : pc'[q] = IF q = p THEN v ELSE pc[q]
  BY <1>0 DEF TurnType
<1>2. TurnType'
  <2>1. pc' \in [Ops -> PcType]
    BY <1>0 DEF TurnType
  <2>2. QED BY <1>0, <2>1 DEF TurnType, turnVars
<1>3. \A q \in Ops : InTurn(q)' <=> InTurn(q)
  BY <1>1 DEF InTurn, PcType
<1>4. ProgressOK'
  <2>1. ASSUME NEW q \in Ops, q # p
        PROVE  Frame(q)' = Frame(q) /\ pc'[q] = pc[q] /\ taken'[q] = taken[q] /\ nested'[q] = nested[q]
    BY <2>1, <1>1 DEF Frame
  <2>2. InTurn(p)' /\ pc'[p] = v
    BY <1>1, <1>3
  <2>3. QED BY <2>1, <2>2, <1>0, <1>3 DEF ProgressOK
<1>5. WaitersOK'
  <2>1. \A i \in 1..Len(waiters) : waiters[i] # p /\ waiters[i] \in Ops
    BY <1>0 DEF WaitersOK, InTurn, TurnType
  <2>2. QED BY <2>1, <1>0, <1>1 DEF WaitersOK, turnVars
<1>6. OneTurn'
  BY <1>0, <1>3 DEF OneTurn, turnVars
<1>7. QED BY <1>1, <1>2, <1>4, <1>5, <1>6

(* What fn does, up to the losses it records. *)
LEMMA RecordLossType ==
  ASSUME TypeOK, NEW L \in SUBSET Locks, RecordLoss(L),
         UNCHANGED <<publicVars, checkVars>>
  PROVE  HoldType' /\ lost' \in [Ops -> BOOLEAN]
<1>1. HoldType /\ TurnType
  BY DEF TypeOK
<1>2. record' \in [Locks -> {"null", "idle", "uncertain", "lost"}]
  BY <1>1 DEF RecordLoss, MarkEnded, HoldType
<1>3. holds' \subseteq Hold /\ doubted' \subseteq Locks
  BY <1>1 DEF RecordLoss, EndHolds, HoldType
<1>4. lost' \in [Ops -> BOOLEAN]
  BY <1>1 DEF RecordLoss, EndHolds, TurnType
<1>5. QED BY <1>1, <1>2, <1>3, <1>4 DEF HoldType, publicVars, checkVars

(* The locks of the live holds of an operation are locks. *)
LEMMA LiveLocksType ==
  ASSUME TypeOK, NEW p \in Ops
  PROVE  LiveLocks(p) \in SUBSET Locks
BY ConstAssumption DEF TypeOK, HoldType, LiveLocks, LiveTaken

(* A step joins the chain. *)
LEMMA EnqueueType ==
  ASSUME TypeOK, NEW s \in Step, Enqueue(s)
  PROVE  ChainType'
BY DEF TypeOK, ChainType, Enqueue

(* withAccess asks for its next hold, or stops after a loss. *)
LEMMA TakeStep ==
  ASSUME TurnInv, NEW p \in Ops, Take(p)
  PROVE  TurnInv'
<1>0. /\ TypeOK /\ TurnType /\ ChainType /\ ChainOK(chain, pc) /\ ProgressOK
  BY Parts
<1>1. /\ UNCHANGED <<controller, session, holds, publicVars, record, turnVars,
                     nested, taken, lost, doubted, checkVars>>
      /\ pc[p] = "take" /\ InTurn(p)
  BY DEF Take, lossVars, InTurn
<1>2. ControllerType' /\ HoldType'
  BY <1>0, <1>1, SameController, SameHolds
<1>3. /\ Frame(p)' = Frame(p) /\ taken[p] < Len(Frame(p)) /\ taken[p] \in Nat
      /\ nested' \in [Ops -> BOOLEAN] /\ taken' \in [Ops -> Nat] /\ lost' \in [Ops -> BOOLEAN]
      /\ Len(Frame(p)) \in Nat
      /\ taken' = taken /\ nested' = nested
      /\ taken'[p] <= Len(Frame(p)') /\ taken'[p] < Len(Frame(p)')
  BY <1>0, <1>1, ConstAssumption DEF Frame, ProgressOK, TurnType
<1>4. CASE lost[p]
  <2>1. pc' = [pc EXCEPT ![p] = "unwind"] /\ outcome' = [outcome EXCEPT ![p] = "failed"]
        /\ UNCHANGED chainVars
    BY <1>4 DEF Take
  <2>2. outcome' \in [Ops -> {"none", "done", "failed", "refused", "restart"}]
    BY <2>1, <1>0 DEF TurnType
  <2>3. /\ TurnType' /\ ProgressOK' /\ WaitersOK' /\ OneTurn'
        /\ \A q \in Ops : pc'[q] = IF q = p THEN "unwind" ELSE pc[q]
    BY <1>1, <1>3, <2>1, <2>2, GoOn DEF PcType
  <2>4. ChainOK(chain', pc')
    <3>1. \A q \in Ops : pc[q] \in {"taking", "ending"} => pc'[q] = pc[q]
      BY <2>3, <1>1
    <3>2. QED BY <3>1, <2>1, <1>0, ChainFrame DEF chainVars
  <2>5. QED BY <1>0, <1>2, <2>1, <2>3, <2>4, SameChain DEF TurnInv, TypeOK
<1>5. CASE ~lost[p]
  <2> DEFINE h == Frame(p)[taken[p] + 1]
             s == [kind |-> "acquire", hold |-> h]
  <2>1. pc' = [pc EXCEPT ![p] = "taking"] /\ outcome' = outcome /\ Enqueue(s)
    BY <1>5 DEF Take
  <2>2. taken[p] + 1 \in 1..Len(Frame(p))
    BY <1>3
  <2>3. h \in Hold /\ Owner[h] = p
    BY <2>2, <1>0, FrameHold DEF TurnType
  <2> HIDE DEF h
  <2>4. s \in Step /\ OpStep(s) /\ WaitingPc(s) = "taking" /\ Owner[s.hold] = p
    BY <2>3 DEF Step, OpStep, WaitingPc
  <2> HIDE DEF s
  <2>5. outcome' \in [Ops -> {"none", "done", "failed", "refused", "restart"}]
    BY <2>1, <1>0 DEF TurnType
  <2>6. /\ TurnType' /\ ProgressOK' /\ WaitersOK' /\ OneTurn'
    BY <1>1, <1>3, <2>1, <2>5, GoOn DEF PcType
  <2>7. ChainOK(Append(chain, s), pc')
    <3>1. chain \in Seq(Step) /\ pc \in [Ops -> PcType]
      BY <1>0 DEF ChainType, TurnType
    <3>2. QED BY <3>1, <2>1, <2>4, <1>0, <1>1, ChainAppend
  <2>8. QED BY <1>0, <1>2, <2>1, <2>4, <2>6, <2>7, EnqueueType DEF TurnInv, TypeOK, Enqueue
<1>6. QED BY <1>4, <1>5

(* fn calls a nested write. *)
LEMMA NestStep ==
  ASSUME TurnInv, NEW p \in Ops, Nest(p)
  PROVE  TurnInv'
<1>0. TypeOK /\ TurnType /\ ChainOK(chain, pc)
  BY Parts
<1>1. /\ UNCHANGED <<controller, session, holds, publicVars, record, chainVars, turnVars,
                     outcome, lost, doubted, checkVars>>
      /\ pc[p] = "body" /\ InTurn(p) /\ Inner[p] # <<>>
      /\ nested' = [nested EXCEPT ![p] = TRUE] /\ taken' = [taken EXCEPT ![p] = 0]
      /\ pc' = [pc EXCEPT ![p] = "take"]
  BY DEF Nest, lossVars, InTurn
<1>2. ControllerType' /\ HoldType' /\ ChainType' /\ chain' = chain
  BY <1>0, <1>1, SameController, SameHolds, SameChain DEF chainVars
<1>3. /\ nested' \in [Ops -> BOOLEAN] /\ taken' \in [Ops -> Nat] /\ lost' \in [Ops -> BOOLEAN]
      /\ outcome' \in [Ops -> {"none", "done", "failed", "refused", "restart"}]
      /\ \A q \in Ops \ {p} : nested'[q] = nested[q] /\ taken'[q] = taken[q]
      /\ nested'[p] /\ taken'[p] = 0
  BY <1>0, <1>1 DEF TurnType
<1>4. /\ Frame(p)' = Inner[p] /\ Len(Inner[p]) \in Nat /\ Len(Inner[p]) > 0
      /\ taken'[p] <= Len(Frame(p)') /\ taken'[p] < Len(Frame(p)')
  BY <1>1, <1>3, FirstPcOK DEF Frame
<1>5. /\ TurnType' /\ ProgressOK' /\ WaitersOK' /\ OneTurn'
      /\ \A q \in Ops : pc'[q] = IF q = p THEN "take" ELSE pc[q]
  <2>1. /\ InTurn(p) /\ UNCHANGED turnVars /\ pc' = [pc EXCEPT ![p] = "take"]
        /\ "take" \in PcType \ {"idle", "waiting"}
    BY <1>1 DEF PcType
  <2>2. QED BY <2>1, <1>3, <1>4, GoOn
<1>6. ChainOK(chain', pc')
  <2>1. \A q \in Ops : pc[q] \in {"taking", "ending"} => pc'[q] = pc[q]
    BY <1>5, <1>1
  <2>2. QED BY <2>1, <1>2, <1>0, ChainFrame
<1>7. QED BY <1>2, <1>5, <1>6 DEF TurnInv, TypeOK

(* fn ends, whatever way it ends. *)
LEMMA BodyStep ==
  ASSUME TurnInv, NEW p \in Ops,
         BodyEnds(p, "done") \/ BodyEnds(p, "failed") \/ BodyRefused(p) \/ BodyRestarts(p)
  PROVE  TurnInv'
<1>0. TypeOK /\ TurnType /\ ControllerType /\ ChainOK(chain, pc) /\ ProgressOK
  BY Parts
<1>1. /\ UNCHANGED <<publicVars, chainVars, turnVars, nested, taken, checkVars, session>>
      /\ pc[p] \in {"body", "rest"} /\ InTurn(p)
      /\ pc' = [pc EXCEPT ![p] = "unwind"]
      /\ \E how \in {"done", "failed", "refused", "restart"} : outcome' = [outcome EXCEPT ![p] = how]
  BY DEF BodyEnds, BodyRefused, BodyRestarts, InTurn, controller
<1>2. ControllerType' /\ HoldType' /\ lost' \in [Ops -> BOOLEAN]
  <2>1. CASE BodyEnds(p, "done") \/ BodyEnds(p, "failed")
    <3>1. UNCHANGED <<controller, holds, record, lost, doubted>>
      BY <2>1 DEF BodyEnds, lossVars
    <3>2. QED BY <3>1, <1>0, <1>1, SameController, SameHolds DEF TurnType
  <2>2. CASE BodyRefused(p)
    <3>1. UNCHANGED controller /\ RecordLoss(LiveLocks(p))
      BY <2>2 DEF BodyRefused
    <3>2. QED BY <3>1, <1>0, <1>1, SameController, RecordLossType, LiveLocksType
  <2>3. CASE BodyRestarts(p)
    <3>1. UNCHANGED <<holds, record, lost, doubted>>
      BY <2>3 DEF BodyRestarts, lossVars
    <3>2. ControllerType'
      BY <2>3, <1>0 DEF BodyRestarts, ControllerType
    <3>3. QED BY <3>1, <3>2, <1>0, <1>1, SameHolds DEF TurnType
  <2>4. QED BY <2>1, <2>2, <2>3
<1>3. /\ Frame(p)' = Frame(p) /\ taken' = taken /\ nested' = nested
      /\ nested' \in [Ops -> BOOLEAN] /\ taken' \in [Ops -> Nat]
      /\ outcome' \in [Ops -> {"none", "done", "failed", "refused", "restart"}]
      /\ taken'[p] <= Len(Frame(p)')
  BY <1>0, <1>1 DEF Frame, TurnType, ProgressOK
<1>4. /\ TurnType' /\ ProgressOK' /\ WaitersOK' /\ OneTurn'
      /\ \A q \in Ops : pc'[q] = IF q = p THEN "unwind" ELSE pc[q]
  BY <1>1, <1>2, <1>3, GoOn DEF PcType
<1>5. ChainOK(chain', pc') /\ ChainType'
  <2>1. \A q \in Ops : pc[q] \in {"taking", "ending"} => pc'[q] = pc[q]
    BY <1>4, <1>1
  <2>2. chain' = chain /\ UNCHANGED chainVars
    BY <1>1 DEF chainVars
  <2>3. QED BY <2>1, <2>2, <1>0, ChainFrame, SameChain
<1>6. QED BY <1>2, <1>4, <1>5 DEF TurnInv, TypeOK

(* withAccess ends a hold, or returns from a nested write. *)
LEMMA UnwindStep ==
  ASSUME TurnInv, NEW p \in Ops, Unwind(p)
  PROVE  TurnInv'
<1>0. /\ TypeOK /\ TurnType /\ ChainType /\ ChainOK(chain, pc) /\ ProgressOK
  BY Parts
<1>1. /\ UNCHANGED <<controller, session, holds, publicVars, record, turnVars,
                     outcome, lost, doubted, checkVars>>
      /\ pc[p] = "unwind" /\ InTurn(p)
  BY DEF Unwind, lossVars, InTurn
<1>2. /\ ControllerType' /\ HoldType' /\ lost' \in [Ops -> BOOLEAN]
      /\ outcome' \in [Ops -> {"none", "done", "failed", "refused", "restart"}]
  BY <1>0, <1>1, SameController, SameHolds DEF TurnType
<1>3. taken[p] \in Nat /\ taken[p] <= Len(Frame(p)) /\ Len(Frame(p)) \in Nat
  BY <1>0, ConstAssumption DEF TurnType, ProgressOK, Frame
<1>4. CASE taken[p] > 0
  <2> DEFINE h == Frame(p)[taken[p]]
             s == [kind |-> IF outcome[p] = "restart" THEN "forget" ELSE "release", hold |-> h]
  <2>1. pc' = [pc EXCEPT ![p] = "ending"] /\ UNCHANGED <<nested, taken>> /\ Enqueue(s)
    BY <1>3, <1>4 DEF Unwind
  <2>2. h \in Hold /\ Owner[h] = p
    <3>1. taken[p] \in 1..Len(Frame(p))
      BY <1>3, <1>4
    <3>2. QED BY <3>1, <1>0, FrameHold DEF TurnType
  <2> HIDE DEF h
  <2>3. s \in Step /\ OpStep(s) /\ WaitingPc(s) = "ending" /\ Owner[s.hold] = p /\ s.kind # "acquire"
    BY <2>2 DEF Step, OpStep, WaitingPc
  <2> HIDE DEF s
  <2>4. Frame(p)' = Frame(p) /\ nested' \in [Ops -> BOOLEAN] /\ taken' \in [Ops -> Nat]
    BY <2>1, <1>0 DEF Frame, TurnType
  <2>5. /\ TurnType' /\ ProgressOK' /\ WaitersOK' /\ OneTurn'
    BY <1>1, <1>2, <1>3, <1>4, <2>1, <2>4, GoOn DEF PcType
  <2>6. ChainOK(Append(chain, s), pc')
    <3>1. chain \in Seq(Step) /\ pc \in [Ops -> PcType]
      BY <1>0 DEF ChainType, TurnType
    <3>2. QED BY <3>1, <2>1, <2>3, <1>0, <1>1, ChainAppend
  <2>7. QED BY <1>0, <1>2, <2>1, <2>3, <2>5, <2>6, EnqueueType DEF TurnInv, TypeOK, Enqueue
<1>5. CASE taken[p] = 0 /\ nested[p]
  <2>1. /\ nested' = [nested EXCEPT ![p] = FALSE] /\ taken' = [taken EXCEPT ![p] = Len(Outer[p])]
        /\ pc' = [pc EXCEPT ![p] = "rest"] /\ UNCHANGED chainVars
    BY <1>3, <1>5 DEF Unwind
  <2>2. Len(Outer[p]) \in Nat
    BY FirstPcOK
  <2>3. /\ nested' \in [Ops -> BOOLEAN] /\ taken' \in [Ops -> Nat]
        /\ \A q \in Ops \ {p} : nested'[q] = nested[q] /\ taken'[q] = taken[q]
        /\ ~nested'[p] /\ taken'[p] = Len(Outer[p])
    BY <2>1, <2>2, <1>0 DEF TurnType
  <2>4. Frame(p)' = Outer[p] /\ taken'[p] <= Len(Frame(p)')
    BY <2>2, <2>3 DEF Frame
  <2>5. /\ TurnType' /\ ProgressOK' /\ WaitersOK' /\ OneTurn'
        /\ \A q \in Ops : pc'[q] = IF q = p THEN "rest" ELSE pc[q]
    <3>1. /\ InTurn(p) /\ UNCHANGED turnVars /\ pc' = [pc EXCEPT ![p] = "rest"]
          /\ "rest" \in PcType \ {"idle", "waiting"}
      BY <1>1, <2>1 DEF PcType
    <3>2. QED BY <3>1, <1>2, <2>3, <2>4, GoOn
  <2>6. ChainOK(chain', pc') /\ ChainType'
    <3>1. \A q \in Ops : pc[q] \in {"taking", "ending"} => pc'[q] = pc[q]
      BY <2>5, <1>1
    <3>2. QED BY <3>1, <1>0, <2>1, ChainFrame, SameChain DEF chainVars
  <2>7. QED BY <1>2, <2>5, <2>6 DEF TurnInv, TypeOK
<1>6. taken[p] > 0 \/ (taken[p] = 0 /\ nested[p])
  BY DEF Unwind
<1>7. QED BY <1>4, <1>5, <1>6

-----------------------------------------------------------------------------
(* The running step and its call.                                          *)

(* A call belongs to a running step; a status read, to an acquire step,    *)
(* whose calls are about its own lock.                                     *)
WireOK(c, w) ==
    w # NoWire => /\ c # <<>>
                  /\ w.msg = "heldByMe" => Head(c).kind = "acquire"
                  /\ Head(c).kind = "acquire" => w.locks = {LockOf[Head(c).hold]}
WireInv == WireOK(chain, wire)

(* The fields of the running step. *)
LEMMA RunningType ==
  ASSUME ChainType, chain # <<>>
  PROVE  /\ Running \in Step
         /\ Running.kind \in {"acquire", "release", "forget"} => Running.hold \in Hold
         /\ Running.kind = "plainRelease" => Running.lock \in Locks
         /\ Running.kind = "afterLoss" => Running.locks \in SUBSET Locks
         /\ Running.kind = "acquireAll" => Running.group \in Groups
         /\ Running.kind = "releaseAll" => Running.ending \in SUBSET Hold
<1>1. Running \in Step
  BY DEF ChainType, Running
<1>2. QED BY <1>1 DEF Step

(* An answered call has a running step. *)
LEMMA AnsweredRuns ==
  ASSUME WireInv, NEW m, m # "none", Answered(m)
  PROVE  /\ chain # <<>>
         /\ m = "heldByMe" => Running.kind = "acquire"
         /\ Running.kind = "acquire" => wire.locks = {LockOf[Running.hold]}
BY DEF WireInv, WireOK, Answered, NoWire, Running

(* The operation whose step runs is in its turn. *)
LEMMA RunningOp ==
  ASSUME TurnInv, chain # <<>>, OpStep(Running)
  PROVE  /\ Owner[Running.hold] \in Ops
         /\ pc[Owner[Running.hold]] = WaitingPc(Running)
         /\ InTurn(Owner[Running.hold])
<1>1. ChainOK(chain, pc) /\ ChainType
  BY Parts
<1>2. Head(chain) = chain[1] /\ 1 \in 1..Len(chain)
  BY <1>1 DEF ChainType
<1>3. QED BY <1>1, <1>2 DEF ChainOK, Running, OpStep, WaitingPc, InTurn

(* The running step is done. *)
LEMMA DoneType ==
  ASSUME ChainType, chain # <<>>, StepDone
  PROVE  ChainType'
BY DEF ChainType, StepDone, NoWire, NoLoop, WireType

(* A call is sent. *)
LEMMA SendType ==
  ASSUME ChainType, NEW m \in {"request", "release", "heldByMe"}, NEW L \in SUBSET Locks, Send(m, L),
         loop' \in [todo : SUBSET Locks, done : SUBSET Locks]
  PROVE  ChainType' /\ chain' = chain
BY DEF ChainType, Send, Call, WireType

(* A step of nobody's, or of a public hold, is done. *)
LEMMA DoneNeutral ==
  ASSUME TurnInv, chain # <<>>, ~OpStep(Running), StepDone
  PROVE  ChainType' /\ ChainOK(chain', pc)
<1>1. ChainOK(chain, pc) /\ ChainType /\ chain \in Seq(Step)
  BY Parts DEF ChainType
<1>2. ChainOK(Tail(chain), pc)
  BY <1>1, ChainTail DEF Running
<1>3. QED BY <1>1, <1>2, DoneType DEF StepDone

(* The step of an operation is done, and the operation goes on. *)
LEMMA DoneOp ==
  ASSUME TurnInv, chain # <<>>, OpStep(Running), StepDone, NEW v,
         pc' = [pc EXCEPT ![Owner[Running.hold]] = v]
  PROVE  ChainType' /\ ChainOK(chain', pc')
<1>1. ChainOK(chain, pc) /\ ChainType /\ chain \in Seq(Step) /\ TurnType
  BY Parts DEF ChainType
<1>2. \A q \in Ops : q # Owner[Running.hold] => pc'[q] = pc[q]
  BY <1>1 DEF TurnType
<1>3. ChainOK(Tail(chain), pc')
  BY <1>1, <1>2, ChainTail DEF Running
<1>4. QED BY <1>1, <1>3, DoneType DEF StepDone

(* A step that leaves the operations and the turn alone. *)
LEMMA NeutralStep ==
  ASSUME TurnInv, UNCHANGED <<turnVars, opVars>>, lost' \in [Ops -> BOOLEAN],
         ControllerType', HoldType', ChainType', ChainOK(chain', pc)
  PROVE  TurnInv'
<1>1. TurnType
  BY Parts
<1>2. TurnType' /\ pc' = pc
  BY <1>1 DEF TurnType, turnVars, opVars
<1>3. QED BY <1>2, Steady DEF TurnInv, TypeOK

(* A hold is granted: its operation goes on to the next one, or to fn. *)
LEMMA GrantedStep ==
  ASSUME TurnInv, chain # <<>>, Running.kind = "acquire", Granted(Running.hold),
         UNCHANGED <<controller, session, record, turnVars, lossVars, check>>
  PROVE  TurnInv'
<1> DEFINE h == Running.hold
<1>0. TypeOK /\ TurnType /\ HoldType /\ ChainType /\ ProgressOK /\ ChainOK(chain, pc)
  BY Parts
<1>1. h \in Hold
  BY <1>0, RunningType
<1>2. ControllerType' /\ lost' = lost /\ lost' \in [Ops -> BOOLEAN] /\ UNCHANGED <<record, check, doubted, turnVars>>
  BY <1>0, SameController DEF lossVars, TurnType
<1>3. /\ holds' = holds \cup {h}
      /\ affected' = [l \in Locks |-> affected[l] \ {h}]
      /\ StepDone /\ UNCHANGED <<nested, outcome>>
  BY DEF Granted
<1>4. holds' \subseteq Hold /\ affected' \in [Locks -> SUBSET Hold]
  BY <1>0, <1>1, <1>3 DEF HoldType
<1>5. CASE Owner[h] \in Ops
  <2>0. PICK p \in Ops : p = Owner[h]
    BY <1>5
  <2>1. /\ taken' = [taken EXCEPT ![p] = @ + 1]
        /\ pc' = [pc EXCEPT ![p] = NextPc(p, taken[p] + 1)]
        /\ UNCHANGED publicVars
    BY <1>5, <2>0 DEF Granted
  <2>2. OpStep(Running)
    BY <1>5 DEF OpStep
  <2>3. p \in Ops /\ InTurn(p) /\ pc[p] = "taking"
    BY <2>0, <2>2, RunningOp DEF WaitingPc
  <2> HIDE DEF h
  <2>4. taken[p] \in Nat /\ taken[p] < Len(Frame(p)) /\ Len(Frame(p)) \in Nat
    BY <2>3, <1>0, ConstAssumption DEF ProgressOK, TurnType, Frame
  <2>5. /\ NextPc(p, taken[p] + 1) \in PcType \ {"idle", "waiting"}
        /\ NextPc(p, taken[p] + 1) # "ending"
        /\ NextPc(p, taken[p] + 1) \in {"take", "taking"} => taken[p] + 1 < Len(Frame(p))
    BY <2>4 DEF NextPc, PcType
  <2>6. /\ taken' \in [Ops -> Nat] /\ taken'[p] = taken[p] + 1
        /\ \A q \in Ops \ {p} : taken'[q] = taken[q]
    BY <2>1, <2>3, <2>4, <1>0 DEF TurnType
  <2>7. /\ Frame(p)' = Frame(p) /\ nested' \in [Ops -> BOOLEAN]
        /\ outcome' \in [Ops -> {"none", "done", "failed", "refused", "restart"}]
        /\ \A q \in Ops \ {p} : nested'[q] = nested[q]
    BY <1>0, <1>3 DEF Frame, TurnType
  <2>8. /\ taken'[p] <= Len(Frame(p)')
        /\ NextPc(p, taken[p] + 1) \in {"take", "taking"} => taken'[p] < Len(Frame(p)')
    BY <2>4, <2>5, <2>6, <2>7
  <2>9. TurnType' /\ ProgressOK' /\ WaitersOK' /\ OneTurn'
    BY <1>2, <2>1, <2>3, <2>5, <2>6, <2>7, <2>8, GoOn
  <2>10. ChainType' /\ ChainOK(chain', pc')
    BY <2>1, <2>2, <1>3, <2>0, DoneOp DEF h
  <2>11. HoldType'
    BY <1>0, <1>2, <1>4, <2>1 DEF HoldType, publicVars
  <2>12. QED BY <1>2, <2>9, <2>10, <2>11 DEF TurnInv, TypeOK
<1>6. CASE Owner[h] \notin Ops
  <2>1. /\ public' = Append(public, h) /\ asked' = asked \ {h} /\ UNCHANGED <<groups, opVars>>
    BY <1>3, <1>6 DEF Granted, opVars
  <2>2. ~OpStep(Running)
    BY <1>6 DEF OpStep
  <2>3. h \in Public
    <3>1. Head(chain) = chain[1] /\ 1 \in 1..Len(chain)
      BY <1>0 DEF ChainType
    <3>2. QED BY <3>1, <2>2, <1>0 DEF ChainOK, Running
  <2> HIDE DEF h
  <2>4. HoldType'
    <3>1. public' \in Seq(Public) /\ groups' \in Seq(Groups) /\ asked' \subseteq Public \cup Groups
      BY <2>1, <2>3, <1>0 DEF HoldType
    <3>2. QED BY <3>1, <1>0, <1>2, <1>4 DEF HoldType
  <2>5. ChainType' /\ ChainOK(chain', pc)
    BY <2>2, <1>3, DoneNeutral
  <2>6. QED BY <1>2, <2>1, <2>4, <2>5, NeutralStep
<1>7. QED BY <1>5, <1>6

(* A request failed: its operation unwinds. *)
LEMMA NotGrantedStep ==
  ASSUME TurnInv, chain # <<>>, Running.kind = "acquire", NotGranted(Running.hold),
         UNCHANGED <<controller, session, turnVars, lossVars, check>>,
         record' \in [Locks -> {"null", "idle", "uncertain", "lost"}]
  PROVE  TurnInv'
<1> DEFINE h == Running.hold
<1>0. TypeOK /\ TurnType /\ HoldType /\ ChainType /\ ProgressOK
  BY Parts
<1>1. ControllerType' /\ lost' \in [Ops -> BOOLEAN] /\ UNCHANGED <<check, doubted, turnVars>>
  BY <1>0, SameController DEF lossVars, TurnType
<1>2. StepDone /\ UNCHANGED <<holds, affected, public, groups, nested, taken>>
  BY DEF NotGranted
<1>3. asked' \subseteq asked
  BY DEF NotGranted
<1>4. HoldType'
  BY <1>0, <1>1, <1>2, <1>3 DEF HoldType
<1>5. CASE Owner[h] \in Ops
  <2>0. PICK p \in Ops : p = Owner[h]
    BY <1>5
  <2>1. pc' = [pc EXCEPT ![p] = "unwind"] /\ outcome' = [outcome EXCEPT ![p] = "failed"]
    BY <1>5, <2>0 DEF NotGranted
  <2>2. OpStep(Running)
    BY <1>5 DEF OpStep
  <2>3. p \in Ops /\ InTurn(p)
    BY <2>0, <2>2, RunningOp
  <2> HIDE DEF h
  <2>4. /\ Frame(p)' = Frame(p) /\ nested' \in [Ops -> BOOLEAN] /\ taken' \in [Ops -> Nat]
        /\ outcome' \in [Ops -> {"none", "done", "failed", "refused", "restart"}]
        /\ taken' = taken /\ nested' = nested /\ taken'[p] <= Len(Frame(p)')
        /\ "unwind" \in PcType \ {"idle", "waiting"}
    BY <1>0, <1>2, <2>1, <2>3 DEF Frame, TurnType, ProgressOK, PcType
  <2>5. TurnType' /\ ProgressOK' /\ WaitersOK' /\ OneTurn'
    BY <1>1, <2>1, <2>3, <2>4, GoOn
  <2>6. ChainType' /\ ChainOK(chain', pc')
    BY <2>1, <2>2, <1>2, <2>0, DoneOp DEF h
  <2>7. QED BY <1>1, <1>4, <2>5, <2>6 DEF TurnInv, TypeOK
<1>6. CASE Owner[h] \notin Ops
  <2>1. ~OpStep(Running) /\ UNCHANGED opVars
    BY <1>2, <1>6 DEF OpStep, NotGranted, opVars
  <2>2. ChainType' /\ ChainOK(chain', pc)
    BY <2>1, <1>2, DoneNeutral
  <2>3. QED BY <1>1, <1>4, <2>1, <2>2, NeutralStep
<1>7. QED BY <1>5, <1>6

(* A hold has ended: withAccess goes on. *)
LEMMA HoldEndedStep ==
  ASSUME TurnInv, chain # <<>>, Running.kind \in {"release", "forget"}, StepDone,
         HoldEnded(Running.hold), UNCHANGED turnVars, lost' \in [Ops -> BOOLEAN],
         ControllerType', HoldType'
  PROVE  TurnInv'
<1> DEFINE h == Running.hold
<1>0. TypeOK /\ TurnType /\ ProgressOK
  BY Parts
<1>1. CASE Owner[h] \in Ops
  <2>0. PICK p \in Ops : p = Owner[h]
    BY <1>1
  <2>1. /\ pc' = [pc EXCEPT ![p] = "unwind"] /\ taken' = [taken EXCEPT ![p] = @ - 1]
        /\ UNCHANGED <<nested, outcome>>
    BY <1>1, <2>0 DEF HoldEnded
  <2>2. OpStep(Running)
    BY <1>1 DEF OpStep
  <2>3. p \in Ops /\ InTurn(p) /\ pc[p] = "ending"
    BY <2>0, <2>2, RunningOp DEF WaitingPc
  <2> HIDE DEF h
  <2>4. taken[p] \in Nat /\ taken[p] > 0 /\ taken[p] <= Len(Frame(p)) /\ Len(Frame(p)) \in Nat
    BY <2>3, <1>0, ConstAssumption DEF ProgressOK, TurnType, Frame
  <2>5. /\ taken' \in [Ops -> Nat] /\ taken'[p] = taken[p] - 1
        /\ \A q \in Ops \ {p} : taken'[q] = taken[q]
    BY <2>1, <2>3, <2>4, <1>0 DEF TurnType
  <2>6. /\ Frame(p)' = Frame(p) /\ nested' \in [Ops -> BOOLEAN]
        /\ outcome' \in [Ops -> {"none", "done", "failed", "refused", "restart"}]
        /\ \A q \in Ops \ {p} : nested'[q] = nested[q]
        /\ "unwind" \in PcType \ {"idle", "waiting"}
    BY <1>0, <2>1 DEF Frame, TurnType, PcType
  <2>7. taken'[p] <= Len(Frame(p)')
    BY <2>4, <2>5, <2>6
  <2>8. TurnType' /\ ProgressOK' /\ WaitersOK' /\ OneTurn'
    BY <2>1, <2>3, <2>5, <2>6, <2>7, GoOn
  <2>9. ChainType' /\ ChainOK(chain', pc')
    BY <2>1, <2>2, <2>0, DoneOp DEF h
  <2>10. QED BY <2>8, <2>9 DEF TurnInv, TypeOK
<1>2. CASE Owner[h] \notin Ops
  <2>1. ~OpStep(Running) /\ UNCHANGED opVars
    BY <1>2 DEF OpStep, HoldEnded
  <2>2. ChainType' /\ ChainOK(chain', pc)
    BY <2>1, DoneNeutral
  <2>3. QED BY <2>1, <2>2, NeutralStep
<1>3. QED BY <1>1, <1>2

-----------------------------------------------------------------------------
(* The chain steps preserve the invariant of the turn.                     *)

(* The locks of holds are locks. *)
LEMMA LockOfType ==
  ASSUME NEW h \in Hold
  PROVE  LockOf[h] \in Locks /\ {LockOf[h]} \in SUBSET Locks
BY ConstAssumption

(* markEnded keeps the records' type. *)
LEMMA MarkEndedType ==
  ASSUME HoldType, NEW L, NEW how \in {"idle", "uncertain", "lost"}, MarkEnded(L, how)
  PROVE  record' \in [Locks -> {"null", "idle", "uncertain", "lost"}]
BY DEF HoldType, MarkEnded

LEMMA AcquireSteps ==
  ASSUME TurnInv, WireInv, StartAcquire \/ AnswerAcquire \/ AnswerHeldByMe
  PROVE  TurnInv'
<1>0. TypeOK /\ HoldType /\ ChainType /\ ChainOK(chain, pc) /\ TurnType
  BY Parts
<1>1. chain # <<>> /\ Running.kind = "acquire"
  BY AnsweredRuns DEF StartAcquire, AnswerAcquire, AnswerHeldByMe, Starts
<1>2. UNCHANGED <<controller, session, turnVars, lossVars, check>>
  BY DEF StartAcquire, AnswerAcquire, AnswerHeldByMe
<1>3. record' \in [Locks -> {"null", "idle", "uncertain", "lost"}]
  BY <1>0, MarkEndedType DEF StartAcquire, AnswerAcquire, AnswerHeldByMe, HoldType
<1>4. CASE Granted(Running.hold) /\ UNCHANGED record
  BY <1>1, <1>2, <1>4, GrantedStep
<1>5. CASE NotGranted(Running.hold)
  BY <1>1, <1>2, <1>3, <1>5, NotGrantedStep
<1>6. CASE /\ \E m \in {"request", "heldByMe"} : Send(m, {LockOf[Running.hold]})
           /\ UNCHANGED <<loop, holds, affected, publicVars, opVars, record>>
  <2>1. {LockOf[Running.hold]} \in SUBSET Locks
    BY <1>0, <1>1, RunningType, LockOfType
  <2>2. ChainType' /\ chain' = chain
    BY <1>0, <1>6, <2>1, SendType DEF ChainType
  <2>3. ControllerType' /\ HoldType' /\ lost' \in [Ops -> BOOLEAN]
    <3>1. UNCHANGED <<controller, session, holds, publicVars, record, doubted, checkVars, lost>>
      BY <1>2, <1>6 DEF lossVars, checkVars
    <3>2. QED BY <3>1, <1>0, SameController, SameHolds DEF TurnType
  <2>4. QED BY <1>0, <1>2, <1>6, <2>2, <2>3, NeutralStep
<1>7. QED
  BY <1>4, <1>5, <1>6 DEF StartAcquire, AnswerAcquire, AnswerHeldByMe

(* What wireRelease records keeps the types. *)
LEMMA ReleasedType ==
  ASSUME TypeOK, NEW L \in SUBSET Locks, NEW ending \in SUBSET Locks, Released(L, ending),
         UNCHANGED <<publicVars, checkVars>>
  PROVE  HoldType' /\ lost' \in [Ops -> BOOLEAN]
<1>0. HoldType /\ TurnType
  BY DEF TypeOK
<1>1. CASE /\ UNCHANGED <<holds, lossVars>>
           /\ \E F \in SUBSET Locks : MarkEnded(F, "idle") \/ MarkEnded(F, "uncertain")
  <2>1. record' \in [Locks -> {"null", "idle", "uncertain", "lost"}]
    BY <1>0, <1>1, MarkEndedType
  <2>2. QED BY <1>0, <1>1, <2>1 DEF HoldType, TurnType, lossVars, publicVars, checkVars
<1>2. CASE \E missed \in SUBSET Locks :
              /\ EndHolds(missed)
              /\ record' = [l \in Locks |-> IF l \in missed THEN "lost"
                                            ELSE IF l \in L THEN "idle" ELSE record[l]]
  <2>1. record' \in [Locks -> {"null", "idle", "uncertain", "lost"}]
    BY <1>0, <1>2 DEF HoldType
  <2>2. holds' \subseteq Hold /\ doubted' \subseteq Locks /\ lost' \in [Ops -> BOOLEAN]
    BY <1>0, <1>2 DEF HoldType, TurnType, EndHolds
  <2>3. QED BY <1>0, <2>1, <2>2 DEF HoldType, publicVars, checkVars
<1>3. QED
  <2> DEFINE free == {l \in L : ~Counted(l)}
             missed == {l \in L : l \in ending \/ Counted(l)}
  <2>1. free \in SUBSET Locks /\ missed \in SUBSET Locks
    OBVIOUS
  <2>2. \/ MarkEnded(free, "idle") /\ UNCHANGED <<holds, lossVars>>
        \/ MarkEnded(free, "uncertain") /\ UNCHANGED <<holds, lossVars>>
        \/ /\ EndHolds(missed)
           /\ record' = [l \in Locks |-> IF l \in missed THEN "lost"
                                         ELSE IF l \in L THEN "idle" ELSE record[l]]
    BY DEF Released
  <2> HIDE DEF free, missed
  <2>3. QED BY <1>1, <1>2, <2>1, <2>2

LEMMA ReleaseSteps ==
  ASSUME TurnInv, WireInv, StartRelease \/ AnswerRelease \/ StartForget
  PROVE  TurnInv'
<1>0. TypeOK /\ HoldType /\ ChainType /\ ChainOK(chain, pc) /\ TurnType
  BY Parts
<1>1. chain # <<>> /\ Running.kind \in {"release", "forget"}
  BY AnsweredRuns DEF StartRelease, AnswerRelease, StartForget, Starts
<1>2. UNCHANGED <<controller, session, publicVars, turnVars, checkVars>>
  BY DEF StartRelease, AnswerRelease, StartForget
<1>3. ControllerType'
  BY <1>0, <1>2, SameController
<1>4. HoldType' /\ lost' \in [Ops -> BOOLEAN]
  <2>1. CASE StartRelease \/ StartForget
    <3>1. holds' \subseteq holds /\ UNCHANGED lossVars
      BY <2>1 DEF StartRelease, StartForget
    <3>2. record' \in [Locks -> {"null", "idle", "uncertain", "lost"}]
      BY <2>1, <1>0, MarkEndedType DEF StartRelease, StartForget, HoldType
    <3>3. QED BY <3>1, <3>2, <1>0, <1>2 DEF HoldType, TurnType, lossVars, publicVars, checkVars
  <2>2. CASE AnswerRelease
    <3>1. Released(wire.locks, wire.locks) /\ wire.locks \in SUBSET Locks
      BY <2>2, <1>0 DEF AnswerRelease, ChainType, WireType
    <3>2. QED BY <3>1, <1>0, <1>2, ReleasedType
  <2>3. QED BY <2>1, <2>2
<1>5. CASE StepDone /\ HoldEnded(Running.hold)
  BY <1>1, <1>2, <1>3, <1>4, <1>5, HoldEndedStep
<1>6. CASE Send("release", {LockOf[Running.hold]}) /\ UNCHANGED <<loop, opVars>>
  <2>1. {LockOf[Running.hold]} \in SUBSET Locks
    BY <1>0, <1>1, RunningType, LockOfType
  <2>2. ChainType' /\ chain' = chain
    BY <1>0, <1>6, <2>1, SendType DEF ChainType
  <2>3. QED BY <1>0, <1>2, <1>3, <1>4, <1>6, <2>2, NeutralStep
<1>7. QED BY <1>5, <1>6 DEF StartRelease, AnswerRelease, StartForget

(* A step of no operation either is done or sends its next call. *)
LEMMA LoopStep ==
  ASSUME TurnInv, chain # <<>>, ~OpStep(Running),
         \/ StepDone
         \/ \E m \in {"request", "release"}, L \in SUBSET Locks :
               Send(m, L) /\ loop' \in [todo : SUBSET Locks, done : SUBSET Locks],
         UNCHANGED <<controller, session, turnVars, opVars>>,
         HoldType', lost' \in [Ops -> BOOLEAN]
  PROVE  TurnInv'
<1>0. TypeOK /\ ChainType /\ ChainOK(chain, pc)
  BY Parts
<1>1. ChainType' /\ ChainOK(chain', pc)
  BY <1>0, DoneNeutral, SendType
<1>2. ControllerType'
  BY <1>0, SameController
<1>3. QED BY <1>1, <1>2, NeutralStep

LEMMA PlainSteps ==
  ASSUME TurnInv, WireInv,
         StartPlainRelease \/ AnswerPlainRelease \/ StartAfterLoss \/ AnswerAfterLoss
  PROVE  TurnInv'
<1>0. TypeOK /\ HoldType /\ ChainType /\ TurnType
  BY Parts
<1>1. chain # <<>> /\ Running.kind \in {"plainRelease", "afterLoss"} /\ ~OpStep(Running)
  BY AnsweredRuns DEF StartPlainRelease, AnswerPlainRelease, StartAfterLoss, AnswerAfterLoss,
                      Starts, OpStep
<1>2. UNCHANGED <<controller, session, publicVars, turnVars, opVars, checkVars>>
  BY DEF StartPlainRelease, AnswerPlainRelease, StartAfterLoss, AnswerAfterLoss
<1>3. HoldType' /\ lost' \in [Ops -> BOOLEAN]
  <2>1. CASE StartPlainRelease \/ StartAfterLoss \/ AnswerAfterLoss
    <3>1. UNCHANGED <<holds, record, lost, doubted>>
      BY <2>1 DEF StartPlainRelease, StartAfterLoss, AnswerAfterLoss, lossVars
    <3>2. QED BY <3>1, <1>0, <1>2, SameHolds DEF TurnType
  <2>2. CASE AnswerPlainRelease
    <3>1. Released(wire.locks, {}) /\ wire.locks \in SUBSET Locks
      BY <2>2, <1>0 DEF AnswerPlainRelease, ChainType, WireType
    <3>2. QED BY <3>1, <1>0, <1>2, ReleasedType
  <2>3. QED BY <2>1, <2>2
<1>4. ASSUME NEW T \in SUBSET Locks, NextAfterLoss(T)
      PROVE  \/ StepDone
             \/ \E m \in {"request", "release"}, L \in SUBSET Locks :
                   Send(m, L) /\ loop' \in [todo : SUBSET Locks, done : SUBSET Locks]
  <2>1. PICK skip \in SUBSET {l \in T : Counted(l)} :
           \/ T = skip /\ StepDone
           \/ \E l \in T \ skip :
                 /\ ~Counted(l) /\ Send("release", {l})
                 /\ loop' = [NoLoop EXCEPT !.todo = T \ (skip \cup {l})]
    BY <1>4 DEF NextAfterLoss
  <2>2. CASE T = skip /\ StepDone
    BY <2>2
  <2>3. CASE \E l \in T \ skip :
                 /\ ~Counted(l) /\ Send("release", {l})
                 /\ loop' = [NoLoop EXCEPT !.todo = T \ (skip \cup {l})]
    <3>1. PICK l \in T : Send("release", {l}) /\ loop' = [NoLoop EXCEPT !.todo = T \ (skip \cup {l})]
      BY <2>3
    <3>2. {l} \in SUBSET Locks /\ loop' \in [todo : SUBSET Locks, done : SUBSET Locks]
      BY <3>1 DEF NoLoop
    <3>3. QED BY <3>1, <3>2
  <2>4. QED BY <2>1, <2>2, <2>3
<1>5. CASE StartPlainRelease \/ AnswerPlainRelease
  <2>1. \/ StepDone
        \/ /\ Send("release", {Running.lock}) /\ loop' = loop
           /\ Running.kind = "plainRelease"
    BY <1>5 DEF StartPlainRelease, AnswerPlainRelease, Starts
  <2>2. Running.kind = "plainRelease" => {Running.lock} \in SUBSET Locks
    BY <1>0, <1>1, RunningType
  <2>3. loop \in [todo : SUBSET Locks, done : SUBSET Locks]
    BY <1>0 DEF ChainType
  <2>4. QED BY <1>1, <1>2, <1>3, <2>1, <2>2, <2>3, LoopStep
<1>6. CASE StartAfterLoss \/ AnswerAfterLoss
  <2>1. \E T \in SUBSET Locks : NextAfterLoss(T)
    <3>1. CASE StartAfterLoss
      BY <3>1, <1>0, <1>1, RunningType DEF StartAfterLoss, Starts
    <3>2. CASE AnswerAfterLoss
      BY <3>2, <1>0 DEF AnswerAfterLoss, ChainType
    <3>3. QED BY <1>6, <3>1, <3>2
  <2>2. QED BY <1>1, <1>2, <1>3, <1>4, <2>1, LoopStep
<1>7. QED BY <1>5, <1>6

LEMMA GroupSteps ==
  ASSUME TurnInv, WireInv,
         StartAcquireAll \/ AnswerAcquireAll \/ AnswerUndo \/ StartReleaseAll \/ AnswerReleaseAll
  PROVE  TurnInv'
<1> DEFINE LoopType == [todo : SUBSET Locks, done : SUBSET Locks]
           Sends == \E m \in {"request", "release"}, L \in SUBSET Locks :
                       Send(m, L) /\ loop' \in LoopType
<1>0. TypeOK /\ HoldType /\ ChainType /\ TurnType /\ loop \in LoopType
  BY Parts DEF ChainType
<1>1. chain # <<>> /\ Running.kind \in {"acquireAll", "releaseAll"} /\ ~OpStep(Running)
  BY AnsweredRuns DEF StartAcquireAll, AnswerAcquireAll, AnswerUndo, StartReleaseAll,
                      AnswerReleaseAll, Starts, OpStep
<1>2. UNCHANGED <<controller, session, turnVars, opVars>>
  BY DEF StartAcquireAll, AnswerAcquireAll, AnswerUndo, StartReleaseAll, AnswerReleaseAll
<1>3. CASE StartAcquireAll \/ AnswerAcquireAll \/ AnswerUndo
  <2>1. UNCHANGED <<public, record, lossVars, check>> /\ Running.kind = "acquireAll"
    BY <1>3 DEF StartAcquireAll, AnswerAcquireAll, AnswerUndo, Starts
  <2>2. \/ GroupGranted(Running.group)
        \/ GroupRefused(Running.group)
        \/ Sends /\ UNCHANGED <<holds, affected, groups, asked>>
    <3>1. CASE StartAcquireAll
      <4> DEFINE free == {l \in Locks : ~Counted(l)}
      <4>1. \A l \in free : [NoLoop EXCEPT !.todo = free \ {l}] \in LoopType /\ {l} \in SUBSET Locks
        BY DEF NoLoop
      <4>2. \/ GroupGranted(Running.group)
            \/ Send("request", Locks) /\ UNCHANGED <<loop, holds, affected, groups, asked>>
            \/ /\ \E l \in free : Send("request", {l}) /\ loop' = [NoLoop EXCEPT !.todo = free \ {l}]
               /\ UNCHANGED <<holds, affected, groups, asked>>
        BY <3>1 DEF StartAcquireAll
      <4> HIDE DEF free
      <4>3. QED BY <4>1, <4>2, <1>0
    <3>2. CASE AnswerAcquireAll
      <4>1. wire.locks \in SUBSET Locks
        BY <1>0 DEF ChainType, WireType
      <4>2. loop.done \cup wire.locks \in SUBSET Locks /\ loop.todo \in SUBSET Locks
            /\ loop.done \in SUBSET Locks
        BY <4>1, <1>0
      <4>3. \A l \in Locks : /\ [loop EXCEPT !.todo = @ \ {l}, !.done = loop.done \cup wire.locks] \in LoopType
                             /\ [loop EXCEPT !.done = @ \ {l}] \in LoopType
        BY <4>2, <1>0
      <4>4. QED BY <3>2, <4>2, <4>3 DEF AnswerAcquireAll
    <3>3. CASE AnswerUndo
      <4>1. \A l \in Locks : [loop EXCEPT !.done = @ \ {l}] \in LoopType
        BY <1>0
      <4>2. loop.done \in SUBSET Locks
        BY <1>0
      <4>3. QED BY <3>3, <4>1, <4>2 DEF AnswerUndo
    <3>4. QED BY <1>3, <3>1, <3>2, <3>3
  <2>3. HoldType' /\ lost' \in [Ops -> BOOLEAN]
    <3>1. Running.group \in Groups /\ GroupHolds[Running.group] \subseteq Hold
      BY <1>0, <1>1, <2>1, RunningType, ConstAssumption
    <3>2. CASE GroupGranted(Running.group)
      BY <3>1, <3>2, <1>0, <2>1 DEF GroupGranted, HoldType, TurnType, lossVars
    <3>3. CASE GroupRefused(Running.group)
      BY <3>3, <1>0, <2>1 DEF GroupRefused, HoldType, TurnType, lossVars
    <3>4. CASE UNCHANGED <<holds, affected, groups, asked>>
      BY <3>4, <1>0, <2>1 DEF HoldType, TurnType, lossVars
    <3>5. QED BY <2>2, <3>2, <3>3, <3>4
  <2>4. StepDone \/ Sends
    BY <2>2 DEF GroupGranted, GroupRefused
  <2>5. QED BY <1>1, <1>2, <2>3, <2>4, LoopStep
<1>4. CASE StartReleaseAll
  <2>1. UNCHANGED <<publicVars, record, lost, doubted, checkVars>> /\ holds' \subseteq holds
    BY <1>4 DEF StartReleaseAll, lossVars
  <2>2. HoldType' /\ lost' \in [Ops -> BOOLEAN]
    BY <2>1, <1>0 DEF HoldType, TurnType, publicVars, checkVars
  <2> DEFINE affects == {LockOf[h] : h \in Running.ending \cap holds}
             free == Freed(holds \ Running.ending, IF Running.own THEN affects ELSE Locks)
  <2>3. free \in SUBSET Locks
    BY <1>0, ConstAssumption DEF HoldType, Freed
  <2>4. \/ StepDone
        \/ Send("release", free) /\ loop' = loop
        \/ \E l \in free : Send("release", {l}) /\ loop' = [NoLoop EXCEPT !.todo = free \ {l}]
    BY <1>4 DEF StartReleaseAll
  <2> HIDE DEF free
  <2>5. \A l \in free : [NoLoop EXCEPT !.todo = free \ {l}] \in LoopType
    BY <2>3 DEF NoLoop
  <2>6. StepDone \/ Sends
    BY <2>3, <2>4, <2>5, <1>0
  <2>7. QED BY <1>1, <1>2, <2>2, <2>6, LoopStep
<1>5. CASE AnswerReleaseAll
  <2> DEFINE ending == IF Running.own /\ \E l \in Locks : wire.locks = {l} THEN wire.locks ELSE {}
  <2>1. wire.locks \in SUBSET Locks /\ ending \in SUBSET Locks
    BY <1>0 DEF ChainType, WireType
  <2>2. Released(wire.locks, ending) /\ UNCHANGED <<publicVars, checkVars>>
    BY <1>5 DEF AnswerReleaseAll
  <2> HIDE DEF ending
  <2>3. HoldType' /\ lost' \in [Ops -> BOOLEAN]
    BY <1>0, <2>1, <2>2, ReleasedType
  <2>4. loop.todo \in SUBSET Locks /\ \A l \in Locks : [loop EXCEPT !.todo = @ \ {l}] \in LoopType
    BY <1>0
  <2>5. StepDone \/ Sends
    BY <1>5, <2>4 DEF AnswerReleaseAll
  <2>6. QED BY <1>1, <1>2, <2>3, <2>5, LoopStep
<1>6. QED BY <1>3, <1>4, <1>5

-----------------------------------------------------------------------------
(* The steps of callers, losses, the session and the controller.           *)

(* A step that no operation waits for joins the chain. *)
LEMMA EnqueueNeutral ==
  ASSUME TurnInv, NEW s \in Step, ~OpStep(s), s.kind = "acquire" => s.hold \in Public, Enqueue(s)
  PROVE  ChainType' /\ ChainOK(chain', pc)
<1>1. TypeOK /\ ChainType /\ ChainOK(chain, pc) /\ chain \in Seq(Step)
  BY Parts DEF ChainType
<1>2. ChainOK(Append(chain, s), pc)
  BY <1>1, ChainAppend
<1>3. QED BY <1>1, <1>2, EnqueueType DEF Enqueue

(* A public hold is nobody's turn's. *)
LEMMA PublicOwner ==
  ASSUME NEW h \in Public
  PROVE  h \in Hold /\ Owner[h] \notin Ops
BY ConstAssumption

LEMMA PublicSteps ==
  ASSUME TurnInv, PublicCall
  PROVE  TurnInv'
<1>0. TypeOK /\ HoldType /\ ChainType /\ ChainOK(chain, pc) /\ TurnType
  BY Parts
<1>1. /\ UNCHANGED <<controller, session, holds, record, turnVars, opVars, lost, doubted, checkVars>>
      /\ lost' \in [Ops -> BOOLEAN]
  BY <1>0 DEF PublicCall, RequestPublic, ReleasePublic, RequestPublicAll, ReleasePublicAll, lossVars,
              TurnType
<1>2. ControllerType'
  BY <1>0, <1>1, SameController
<1>3. SUFFICES HoldType' /\ ChainType' /\ ChainOK(chain', pc)
  BY <1>1, <1>2, NeutralStep
<1>4. ASSUME public' \in Seq(Public), groups' \in Seq(Groups), asked' \subseteq Public \cup Groups
      PROVE  HoldType'
  BY <1>0, <1>1, <1>4 DEF HoldType, checkVars
<1>5. public \in Seq(Public) /\ groups \in Seq(Groups) /\ asked \subseteq Public \cup Groups
  BY <1>0 DEF HoldType
<1>6. ASSUME NEW h \in Public, RequestPublic(h)
      PROVE  HoldType' /\ ChainType' /\ ChainOK(chain', pc)
  <2> DEFINE s == [kind |-> "acquire", hold |-> h]
  <2>1. s \in Step /\ ~OpStep(s) /\ s.hold \in Public
    BY PublicOwner DEF Step, OpStep
  <2>2. Enqueue(s) /\ public' = public /\ groups' = groups /\ asked' = asked \cup {h}
    BY <1>6 DEF RequestPublic
  <2> HIDE DEF s
  <2>3. QED BY <2>1, <2>2, <1>4, <1>5, EnqueueNeutral
<1>7. ASSUME NEW l \in Locks, ReleasePublic(l)
      PROVE  HoldType' /\ ChainType' /\ ChainOK(chain', pc)
  <2>1. groups' = groups /\ asked' = asked
    BY <1>7 DEF ReleasePublic
  <2>2. CASE \E i \in 1..Len(public) :
               /\ public' = RemoveAt(public, i)
               /\ Enqueue([kind |-> "release", hold |-> public[i]])
    <3>1. PICK i \in 1..Len(public) : /\ public' = RemoveAt(public, i)
                                      /\ Enqueue([kind |-> "release", hold |-> public[i]])
      BY <2>2
    <3> DEFINE s == [kind |-> "release", hold |-> public[i]]
    <3>2. public[i] \in Public /\ public' \in Seq(Public)
      BY <3>1, <1>5, RemoveAtType
    <3>3. s \in Step /\ ~OpStep(s) /\ s.kind # "acquire"
      BY <3>2, PublicOwner DEF Step, OpStep
    <3>4. Enqueue(s)
      BY <3>1
    <3> HIDE DEF s
    <3>5. QED BY <3>2, <3>3, <3>4, <2>1, <1>4, <1>5, EnqueueNeutral
  <2>3. CASE UNCHANGED chainVars /\ \E i \in 1..Len(public) : public' = RemoveAt(public, i)
    <3>1. public' \in Seq(Public)
      BY <2>3, <1>5, RemoveAtType
    <3>2. chain' = chain /\ ChainType'
      BY <2>3, <1>0, SameChain DEF chainVars
    <3>3. QED BY <3>1, <3>2, <2>1, <1>0, <1>4, <1>5
  <2>4. CASE Enqueue([kind |-> "plainRelease", lock |-> l]) /\ public' = public
    <3> DEFINE s == [kind |-> "plainRelease", lock |-> l]
    <3>1. s \in Step /\ ~OpStep(s) /\ s.kind # "acquire"
      BY DEF Step, OpStep
    <3>2. Enqueue(s)
      BY <2>4
    <3> HIDE DEF s
    <3>3. QED BY <3>1, <3>2, <2>1, <2>4, <1>4, <1>5, EnqueueNeutral
  <2>5. QED BY <1>7, <2>2, <2>3, <2>4 DEF ReleasePublic, Newest, PublicAt
<1>8. ASSUME NEW g \in Groups, RequestPublicAll(g)
      PROVE  HoldType' /\ ChainType' /\ ChainOK(chain', pc)
  <2> DEFINE s == [kind |-> "acquireAll", group |-> g]
  <2>1. s \in Step /\ ~OpStep(s) /\ s.kind # "acquire"
    BY DEF Step, OpStep
  <2>2. Enqueue(s) /\ public' = public /\ groups' = groups /\ asked' = asked \cup {g}
    BY <1>8 DEF RequestPublicAll
  <2> HIDE DEF s
  <2>3. QED BY <2>1, <2>2, <1>4, <1>5, EnqueueNeutral
<1>9. ASSUME ReleasePublicAll
      PROVE  HoldType' /\ ChainType' /\ ChainOK(chain', pc)
  <2>0. PICK E, own : /\ Enqueue([kind |-> "releaseAll", own |-> own, ending |-> E])
                      /\ own \in BOOLEAN
                      /\ \/ groups # <<>> /\ E = GroupHolds[groups[Len(groups)]]
                            /\ groups' = SubSeq(groups, 1, Len(groups) - 1) /\ public' = public
                         \/ E = Range(public) /\ public' = <<>> /\ groups' = groups
    BY <1>9 DEF ReleasePublicAll
  <2> DEFINE s == [kind |-> "releaseAll", own |-> own, ending |-> E]
  <2>1. E \in SUBSET Hold /\ public' \in Seq(Public) /\ groups' \in Seq(Groups)
    <3>1. CASE groups # <<>> /\ E = GroupHolds[groups[Len(groups)]]
               /\ groups' = SubSeq(groups, 1, Len(groups) - 1) /\ public' = public
      <4>1. groups[Len(groups)] \in Groups /\ groups' \in Seq(Groups)
        BY <3>1, <1>5
      <4>2. QED BY <3>1, <4>1, <1>5, ConstAssumption
    <3>2. CASE E = Range(public) /\ public' = <<>> /\ groups' = groups
      BY <3>2, <1>5, RangeType, ConstAssumption
    <3>3. QED BY <2>0, <3>1, <3>2
  <2>2. s \in Step /\ ~OpStep(s) /\ s.kind # "acquire"
    BY <2>0, <2>1 DEF Step, OpStep
  <2>3. Enqueue(s) /\ asked' = asked
    BY <1>9, <2>0 DEF ReleasePublicAll
  <2> HIDE DEF s
  <2>4. QED BY <2>1, <2>2, <2>3, <1>4, <1>5, EnqueueNeutral
<1>10. QED BY <1>6, <1>7, <1>8, <1>9 DEF PublicCall

(* The locks held are locks. *)
LEMMA HeldLocksType == heldLocks \in SUBSET Locks
BY DEF heldLocks

(* A loss recorded from outside an operation. *)
LEMMA LoseStep ==
  ASSUME TurnInv, NEW L \in SUBSET Locks, NEW release \in BOOLEAN, Lose(L, release),
         UNCHANGED <<publicVars>>, check' \in [Locks -> {"unread", "sent", "none", "me", "other", "failed"}],
         affected' \in [Locks -> SUBSET Hold]
  PROVE  HoldType' /\ lost' \in [Ops -> BOOLEAN] /\ ChainType' /\ ChainOK(chain', pc)
<1>0. TypeOK /\ HoldType /\ TurnType /\ ChainType /\ ChainOK(chain, pc)
  BY Parts
<1>1. RecordLoss(L)
  BY DEF Lose
<1>2. record' \in [Locks -> {"null", "idle", "uncertain", "lost"}]
  BY <1>0, <1>1 DEF RecordLoss, MarkEnded, HoldType
<1>3. holds' \subseteq Hold /\ doubted' \subseteq Locks
  BY <1>0, <1>1 DEF RecordLoss, EndHolds, HoldType
<1>4. lost' \in [Ops -> BOOLEAN]
  BY <1>0, <1>1 DEF RecordLoss, EndHolds, TurnType
<1>5. HoldType'
  BY <1>0, <1>2, <1>3 DEF HoldType, publicVars
<1>6. ChainType' /\ ChainOK(chain', pc)
  <2> DEFINE s == [kind |-> "afterLoss", locks |-> L]
  <2>1. s \in Step /\ ~OpStep(s) /\ s.kind # "acquire"
    BY DEF Step, OpStep
  <2>2. Enqueue(s) \/ UNCHANGED chainVars
    BY DEF Lose
  <2> HIDE DEF s
  <2>3. CASE Enqueue(s)
    BY <2>1, <2>3, EnqueueNeutral
  <2>4. CASE UNCHANGED chainVars
    BY <2>4, <1>0, SameChain DEF chainVars
  <2>5. QED BY <2>2, <2>3, <2>4
<1>7. QED BY <1>4, <1>5, <1>6

LEMMA LossSteps ==
  ASSUME TurnInv, LossEvent
  PROVE  TurnInv'
<1>0. TypeOK /\ ControllerType /\ HoldType /\ ChainType /\ ChainOK(chain, pc) /\ TurnType
  BY Parts
<1>1. check \in [Locks -> {"unread", "sent", "none", "me", "other", "failed"}]
      /\ affected \in [Locks -> SUBSET Hold]
  BY <1>0 DEF HoldType
<1>2. CASE ModeChange \/ ConnectionLost \/ \E l \in Locks : WatchdogLapse(l)
  <2>1. /\ UNCHANGED <<controller, session, publicVars, turnVars, opVars, check, affected>>
        /\ \E L \in SUBSET Locks, r \in BOOLEAN : Lose(L, r)
    BY <1>2, HeldLocksType DEF ModeChange, ConnectionLost, WatchdogLapse, checkVars
  <2>2. HoldType' /\ lost' \in [Ops -> BOOLEAN] /\ ChainType' /\ ChainOK(chain', pc)
    BY <2>1, <1>1, LoseStep
  <2>3. QED BY <2>1, <2>2, <1>0, SameController, NeutralStep
<1>3. CASE ModeChangeRead
  <2>1. UNCHANGED <<controller, session, holds, publicVars, record, chainVars, turnVars, opVars, lossVars>>
    BY <1>3 DEF ModeChangeRead
  <2>2. /\ check' \in [Locks -> {"unread", "sent", "none", "me", "other", "failed"}]
        /\ affected' \in [Locks -> SUBSET Hold]
    BY <1>0, <1>1, <1>3 DEF ModeChangeRead, HoldType
  <2>3. HoldType' /\ lost' \in [Ops -> BOOLEAN] /\ chain' = chain
    BY <2>1, <2>2, <1>0 DEF HoldType, TurnType, publicVars, lossVars, chainVars
  <2>4. QED BY <2>1, <2>3, <1>0, SameController, SameChain, NeutralStep
<1>4. ASSUME NEW l \in Locks, CheckAnswered(l)
      PROVE  TurnInv'
  <2>1. UNCHANGED <<controller, session, publicVars, turnVars, opVars>>
    BY <1>4 DEF CheckAnswered
  <2>2. /\ check' \in [Locks -> {"unread", "sent", "none", "me", "other", "failed"}]
        /\ affected' \in [Locks -> SUBSET Hold]
    BY <1>1, <1>4 DEF CheckAnswered
  <2>3. HoldType' /\ lost' \in [Ops -> BOOLEAN] /\ ChainType' /\ ChainOK(chain', pc)
    <3>1. CASE Lose({l}, TRUE)
      BY <3>1, <2>1, <2>2, LoseStep
    <3>2. CASE UNCHANGED <<holds, lossVars, record, chainVars>>
      <4>1. HoldType' /\ lost' \in [Ops -> BOOLEAN] /\ chain' = chain
        BY <2>1, <2>2, <3>2, <1>0 DEF HoldType, TurnType, publicVars, lossVars, chainVars
      <4>2. QED BY <4>1, <3>2, <1>0, SameChain
    <3>3. QED BY <1>4, <3>1, <3>2 DEF CheckAnswered
  <2>4. QED BY <2>1, <2>3, <1>0, SameController, NeutralStep
<1>5. CASE SessionReissued
  <2>1. /\ UNCHANGED <<session, asked, chainVars, turnVars, opVars, checkVars>>
        /\ RecordLoss(heldLocks) /\ public' = <<>> /\ groups' = <<>>
    BY <1>5 DEF SessionReissued
  <2>2. ControllerType'
    BY <1>0, <1>5 DEF SessionReissued, ControllerType
  <2>3. record' \in [Locks -> {"null", "idle", "uncertain", "lost"}]
    BY <1>0, <2>1 DEF RecordLoss, MarkEnded, HoldType
  <2>4. holds' \subseteq Hold /\ doubted' \subseteq Locks
    BY <1>0, <2>1, HeldLocksType DEF RecordLoss, EndHolds, HoldType
  <2>5. lost' \in [Ops -> BOOLEAN]
    BY <1>0, <2>1 DEF RecordLoss, EndHolds, TurnType
  <2>6. public' \in Seq(Public) /\ groups' \in Seq(Groups)
    BY <2>1
  <2>7. HoldType'
    BY <1>0, <2>1, <2>3, <2>4, <2>6 DEF HoldType, checkVars
  <2>8. ChainType' /\ chain' = chain
    BY <2>1, <1>0, SameChain DEF chainVars
  <2>9. QED BY <2>1, <2>2, <2>5, <2>7, <2>8, <1>0, NeutralStep
<1>6. QED BY <1>2, <1>3, <1>4, <1>5 DEF LossEvent

(* The teardown begins: every waiter leaves the queue. *)
LEMMA RefuseStep ==
  ASSUME TurnInv, RefuseNewTurns
  PROVE  TurnInv'
<1>0. TypeOK /\ ControllerType /\ TurnType /\ ChainOK(chain, pc) /\ ProgressOK /\ OneTurn
  BY Parts
<1>1. /\ UNCHANGED <<controller, holds, publicVars, record, chainVars, mutexBusy, nested, taken, outcome,
                     lost, doubted, checkVars>>
      /\ session' = "closing" /\ waiters' = <<>>
      /\ pc' = [p \in Ops |-> IF pc[p] = "waiting" THEN "idle" ELSE pc[p]]
  BY DEF RefuseNewTurns, RejectWaiters, lossVars
<1>2. ControllerType' /\ HoldType' /\ ChainType' /\ chain' = chain
  BY <1>0, <1>1, SameHolds, SameChain DEF ControllerType, controller, chainVars
<1>3. \A p \in Ops : pc'[p] = IF pc[p] = "waiting" THEN "idle" ELSE pc[p]
  BY <1>1
<1>4. TurnType'
  <2>1. pc' \in [Ops -> PcType]
    BY <1>0, <1>1 DEF TurnType, PcType
  <2>2. waiters' \in Seq(Ops)
    BY <1>1
  <2>3. QED BY <1>0, <1>1, <2>1, <2>2 DEF TurnType
<1>5. \A p \in Ops : InTurn(p)' <=> InTurn(p)
  BY <1>3 DEF InTurn
<1>6. ProgressOK'
  BY <1>0, <1>1, <1>3, <1>5 DEF ProgressOK, Frame
<1>7. WaitersOK' /\ OneTurn'
  <2>1. Len(<<>>) = 0
    OBVIOUS
  <2>2. QED BY <1>0, <1>1, <1>5, <2>1 DEF WaitersOK, OneTurn
<1>8. ChainOK(chain', pc')
  <2>1. \A q \in Ops : pc[q] \in {"taking", "ending"} => pc'[q] = pc[q]
    BY <1>3
  <2>2. QED BY <1>0, <1>2, <2>1, ChainFrame
<1>9. QED BY <1>2, <1>4, <1>6, <1>7, <1>8 DEF TurnInv, TypeOK

LEMMA SessionSteps ==
  ASSUME TurnInv, SessionStep
  PROVE  TurnInv'
<1>0. TypeOK /\ ControllerType /\ HoldType /\ ChainOK(chain, pc) /\ TurnType
  BY Parts
<1>1. CASE Disconnect \/ DrainTimeout
  <2>1. PICK failed : Teardown(failed)
    BY <1>1 DEF Disconnect, DrainTimeout
  <2>2. /\ UNCHANGED <<asked, chainVars, turnVars, opVars, lossVars, checkVars>>
        /\ public' = <<>> /\ groups' = <<>> /\ holds' = {}
    BY <2>1 DEF Teardown
  <2>3. ControllerType'
    BY <1>0, <2>1 DEF Teardown, ControllerType
  <2>4. record' \in [Locks -> {"null", "idle", "uncertain", "lost"}]
    BY <2>1 DEF Teardown
  <2>5. public' \in Seq(Public) /\ groups' \in Seq(Groups) /\ lost' \in [Ops -> BOOLEAN]
    BY <2>2, <1>0 DEF lossVars, TurnType
  <2>6. HoldType'
    BY <1>0, <2>2, <2>4, <2>5 DEF HoldType, lossVars, checkVars
  <2>7. ChainType' /\ chain' = chain
    BY <2>2, <1>0, SameChain DEF chainVars
  <2>8. QED BY <2>2, <2>3, <2>5, <2>6, <2>7, <1>0, NeutralStep
<1>2. CASE Connect
  <2>1. /\ UNCHANGED <<controller, holds, publicVars, record, chainVars, turnVars, opVars, lost, doubted,
                       checkVars>>
        /\ session' = "open"
    BY <1>2 DEF Connect, lossVars
  <2>2. /\ ControllerType' /\ HoldType' /\ ChainType' /\ chain' = chain
        /\ lost' \in [Ops -> BOOLEAN]
    BY <2>1, <1>0, SameHolds, SameChain DEF ControllerType, TurnType, controller, chainVars
  <2>3. QED BY <2>1, <2>2, <1>0, NeutralStep
<1>3. QED BY <1>1, <1>2, RefuseStep DEF SessionStep

LEMMA ControllerSteps ==
  ASSUME TurnInv, Controller
  PROVE  TurnInv'
<1>0. TypeOK /\ ControllerType /\ HoldType /\ ChainType /\ ChainOK(chain, pc) /\ TurnType
  BY Parts
<1>1. /\ UNCHANGED <<session, holds, publicVars, record, chain, loop, turnVars, opVars, lost, affected>>
      /\ lost' \in [Ops -> BOOLEAN]
  BY <1>0 DEF Controller, Serve, ServeRequest, ServeRelease, ServeHeldByMe, ServeCheck, Revoke,
              chainVars, lossVars, checkVars, TurnType
<1>2. ControllerType'
  <2>1. /\ holder' \in [Locks -> {"none", "me", "other"}]
        /\ revoked' \subseteq Locks
    BY <1>0 DEF Controller, Serve, ServeRequest, ServeRelease, ServeHeldByMe, ServeCheck, Revoke,
                controller, ControllerType
  <2>2. QED BY <2>1, <1>0, <1>1 DEF ControllerType
<1>3. ChainType'
  <2>1. wire' = wire \/ \E a \in {"ok", "noAnswer", "alreadyHeld", "refused", "failed", "notHeld", "held"} : Answer(a)
    BY DEF Controller, Serve, ServeRequest, ServeRelease, ServeHeldByMe, ServeCheck, Revoke, chainVars
  <2>2. wire' \in WireType
    BY <2>1, <1>0 DEF Answer, ChainType, WireType
  <2>3. QED BY <2>2, <1>0, <1>1 DEF ChainType
<1>4. HoldType'
  <2>1. doubted' \subseteq doubted
    BY DEF Controller, Serve, ServeRequest, ServeRelease, ServeHeldByMe, ServeCheck, Revoke, lossVars
  <2>2. check' \in [Locks -> {"unread", "sent", "none", "me", "other", "failed"}]
    <3>1. CASE check' = check
      BY <3>1, <1>0 DEF HoldType
    <3>2. ASSUME NEW l \in Locks, ServeCheck(l)
          PROVE  check' \in [Locks -> {"unread", "sent", "none", "me", "other", "failed"}]
      BY <3>2, <1>0 DEF ServeCheck, HoldType, ControllerType
    <3>3. QED BY <3>1, <3>2 DEF Controller, Serve, ServeRequest, ServeRelease, ServeHeldByMe, Revoke, checkVars
  <2>3. QED BY <2>1, <2>2, <1>0, <1>1 DEF HoldType, publicVars
<1>5. QED BY <1>0, <1>1, <1>2, <1>3, <1>4, NeutralStep

-----------------------------------------------------------------------------
(* The running step's call, and the theorems about types and the turn.     *)


(* The running step is done: no call is left. *)
LEMMA WireDone ==
  ASSUME StepDone
  PROVE  WireInv'
BY DEF StepDone, WireInv, WireOK

(* A call of a step that is not an acquire, or the request or the read of  *)
(* one.                                                                    *)
LEMMA WireSend ==
  ASSUME chain # <<>>, NEW m, NEW L, Send(m, L),
         Running.kind = "acquire" => L = {LockOf[Running.hold]},
         m = "heldByMe" => Running.kind = "acquire"
  PROVE  WireInv'
BY DEF Send, Call, WireInv, WireOK, Running

(* The chain and the wire move together. *)
LEMMA WireStep ==
  ASSUME ChainType, WireInv, TypeOK, TypeOK', [Next]_vars
  PROVE  WireInv'
<1>1. CASE UNCHANGED <<chain, wire>>
  BY <1>1 DEF WireInv, WireOK
<1>2. CASE UNCHANGED vars
  BY <1>2 DEF WireInv, WireOK, vars, chainVars
<1>3. ASSUME NEW s, Enqueue(s)
      PROVE  WireInv'
  <2>1. chain' \in Seq(Step) /\ chain' = Append(chain, s) /\ chain \in Seq(Step)
    BY <1>3 DEF TypeOK, ChainType, Enqueue
  <2>2. chain # <<>> => Head(Append(chain, s)) = Head(chain)
    BY <2>1
  <2>3. Append(chain, s) # <<>>
    BY <2>1
  <2>4. QED BY <2>1, <2>2, <2>3, <1>3 DEF WireInv, WireOK, Enqueue
<1>4. CASE PublicCall
  BY <1>1, <1>3, <1>4 DEF PublicCall, RequestPublic, ReleasePublic, RequestPublicAll, ReleasePublicAll,
                         chainVars
<1>5. CASE \E p \in Ops : Operation(p)
  BY <1>1, <1>3, <1>5 DEF Operation, EnterTurn, QueueTimeout, LeaveTurn, Take, Nest, Unwind, BodyEnds,
                         BodyRefused, BodyRestarts, chainVars
<1>6. CASE LossEvent
  BY <1>1, <1>3, <1>6 DEF LossEvent, ModeChange, ModeChangeRead, ConnectionLost, SessionReissued,
                         CheckAnswered, WatchdogLapse, Lose, chainVars
<1>7. CASE SessionStep
  BY <1>1, <1>7 DEF SessionStep, RefuseNewTurns, Disconnect, DrainTimeout, Teardown, Connect, chainVars
<1>8. CASE Controller
  <2>1. /\ chain' = chain
        /\ \/ wire' = wire
           \/ wire.msg # "none" /\ \E a \in {"ok", "noAnswer", "alreadyHeld", "refused", "failed", "notHeld", "held"} : Answer(a)
    BY <1>8 DEF Controller, Serve, ServeRequest, ServeRelease, ServeHeldByMe, ServeCheck, Revoke, chainVars
  <2>2. CASE wire.msg # "none" /\ \E a \in {"ok", "noAnswer", "alreadyHeld", "refused", "failed", "notHeld", "held"} : Answer(a)
    <3>1. wire # NoWire
      BY <2>2 DEF NoWire
    <3>2. wire'.msg = wire.msg /\ wire'.locks = wire.locks
      BY <2>2 DEF Answer, ChainType, WireType
    <3>3. QED BY <3>1, <3>2, <2>1 DEF WireInv, WireOK
  <2>3. QED BY <1>1, <2>1, <2>2
<1>9. CASE StartAcquire \/ AnswerAcquire \/ AnswerHeldByMe
  <2>1. chain # <<>> /\ Running.kind = "acquire"
    BY <1>9, AnsweredRuns DEF StartAcquire, AnswerAcquire, AnswerHeldByMe, Starts
  <2>2. \/ StepDone
        \/ \E m \in {"request", "heldByMe"} : Send(m, {LockOf[Running.hold]})
    BY <1>9 DEF StartAcquire, AnswerAcquire, AnswerHeldByMe, Granted, NotGranted
  <2>3. QED BY <2>1, <2>2, WireDone, WireSend
<1>10. CASE StartRelease \/ StartForget \/ StartPlainRelease \/ StartAcquireAll \/ StartReleaseAll
            \/ StartAfterLoss \/ AnswerRelease \/ AnswerPlainRelease \/ AnswerAcquireAll \/ AnswerUndo
            \/ AnswerReleaseAll \/ AnswerAfterLoss
  <2>1. chain # <<>> /\ Running.kind # "acquire"
    BY <1>10, AnsweredRuns DEF StartRelease, StartForget, StartPlainRelease, StartAcquireAll, StartReleaseAll,
         StartAfterLoss, AnswerRelease, AnswerPlainRelease, AnswerAcquireAll, AnswerUndo, AnswerReleaseAll,
         AnswerAfterLoss, Starts
  <2>2. StepDone \/ \E m \in {"request", "release"} : \E L : Send(m, L)
    BY <1>10 DEF StartRelease, StartForget, StartPlainRelease, StartAcquireAll, StartReleaseAll,
         StartAfterLoss, AnswerRelease, AnswerPlainRelease, AnswerAcquireAll, AnswerUndo, AnswerReleaseAll,
         AnswerAfterLoss, NextAfterLoss, GroupGranted, GroupRefused
  <2>3. QED BY <2>1, <2>2, WireDone, WireSend
<1>11. QED BY <1>2, <1>4, <1>5, <1>6, <1>7, <1>8, <1>9, <1>10 DEF Next, ChainStep

(* Nothing has happened yet. *)
LEMMA InitTurn == Init => TurnInv /\ WireInv
<1> SUFFICES ASSUME Init PROVE TurnInv /\ WireInv
  OBVIOUS
<1>1. ControllerType /\ HoldType /\ ChainType
  BY DEF Init, ControllerType, HoldType, ChainType, NoWire, NoLoop, WireType
<1>2. TurnType
  <2>1. waiters \in Seq(Ops) /\ pc \in [Ops -> PcType]
    BY DEF Init, PcType
  <2>2. QED BY <2>1 DEF Init, TurnType
<1>3. Len(<<>>) = 0
  OBVIOUS
<1>4. ChainOK(chain, pc) /\ WaitersOK /\ OneTurn
  BY <1>3 DEF Init, ChainOK, WaitersOK, OneTurn, InTurn
<1>5. ProgressOK
  BY FirstPcOK DEF Init, ProgressOK, Frame, InTurn
<1>6. WireInv
  BY DEF Init, WireInv, WireOK
<1>7. QED BY <1>1, <1>2, <1>4, <1>5, <1>6 DEF TurnInv, TypeOK

(* Every step preserves the invariant: one case per group of actions. *)
LEMMA TurnStep ==
  ASSUME TurnInv, WireInv, [Next]_vars
  PROVE  TurnInv'
<1>1. CASE UNCHANGED vars
  <2>1. UNCHANGED <<controller, session, holds, publicVars, record, chainVars, turnVars, opVars, lost,
                    doubted, checkVars>>
    BY <1>1 DEF vars, lossVars
  <2>2. TypeOK /\ TurnType /\ ChainOK(chain, pc)
    BY Parts
  <2>3. QED BY <2>1, <2>2, SameController, SameHolds, SameChain, NeutralStep DEF TurnType, chainVars
<1>2. ASSUME NEW p \in Ops, Operation(p)
      PROVE  TurnInv'
  BY <1>2, EnterTurnStep, QueueTimeoutStep, LeaveTurnStep, TakeStep, NestStep, UnwindStep, BodyStep
     DEF Operation
<1>3. CASE ChainStep
  BY <1>3, AcquireSteps, ReleaseSteps, PlainSteps, GroupSteps DEF ChainStep
<1>4. QED BY <1>1, <1>2, <1>3, PublicSteps, LossSteps, SessionSteps, ControllerSteps DEF Next

LEMMA TurnInvariant == Spec => [](TurnInv /\ WireInv)
<1>1. TurnInv /\ WireInv /\ [Next]_vars => (TurnInv /\ WireInv)'
  <2> SUFFICES ASSUME TurnInv, WireInv, [Next]_vars PROVE TurnInv' /\ WireInv'
    OBVIOUS
  <2>1. TurnInv'
    BY TurnStep
  <2>2. TypeOK /\ ChainType /\ TypeOK'
    BY <2>1, Parts DEF TurnInv
  <2>3. WireInv'
    BY <2>2, WireStep
  <2>4. QED BY <2>1, <2>3
<1>2. QED BY <1>1, InitTurn, PTL DEF Spec

(* Type correctness of the manager.  It rests on the turn's invariant:     *)
(* `taken` stays a natural number because a hold ends only while its       *)
(* operation awaits that step, and what joins publicHolds is a public hold *)
(* because the only other acquire steps are awaited by an operation.       *)
THEOREM TypeCorrect == Spec => []TypeOK
BY TurnInvariant, PTL DEF TurnInv

(* One write at a time, for any number of operations, locks and holds:     *)
(* whatever enterTurn, leaveTurn, the queue timeout and the teardown do,   *)
(* in any order, the turn has one holder and nobody waits for a free turn. *)
THEOREM TurnIsExclusive == Spec => []OneTurn
BY TurnInvariant, PTL DEF TurnInv

-----------------------------------------------------------------------------
(* The teardown: nobody queues for a turn that will not come.              *)

(* Nobody waits for the turn while the session is not open. *)
NobodyQueues == session # "open" => waiters = <<>>

LEMMA QueueStep ==
  ASSUME TurnInv, NobodyQueues, [Next]_vars
  PROVE  NobodyQueues'
<1>0. waiters \in Seq(Ops)
  BY Parts DEF TurnType
<1>1. CASE UNCHANGED waiters /\ session' = session
  BY <1>1 DEF NobodyQueues
<1>2. CASE UNCHANGED vars
  BY <1>1, <1>2 DEF vars, turnVars
<1>3. ASSUME NEW p \in Ops, Operation(p)
      PROVE  NobodyQueues'
  <2>1. CASE EnterTurn(p)
    BY <2>1 DEF EnterTurn, NobodyQueues
  <2>2. CASE QueueTimeout(p)
    <3>1. waiters # <<>> /\ session' = session
      BY <2>2, <1>0 DEF QueueTimeout
    <3>2. QED BY <3>1 DEF NobodyQueues
  <2>3. CASE LeaveTurn(p)
    BY <2>3 DEF LeaveTurn, HandOn, NobodyQueues
  <2>4. CASE Take(p) \/ Nest(p) \/ Unwind(p) \/ (\E how : BodyEnds(p, how)) \/ BodyRefused(p) \/ BodyRestarts(p)
    BY <2>4, <1>1 DEF Take, Nest, Unwind, BodyEnds, BodyRefused, BodyRestarts, turnVars
  <2>5. QED BY <1>3, <2>1, <2>2, <2>3, <2>4 DEF Operation
<1>4. CASE PublicCall
  BY <1>1, <1>4 DEF PublicCall, RequestPublic, ReleasePublic, RequestPublicAll, ReleasePublicAll, turnVars
<1>5. CASE ChainStep
  BY <1>1, <1>5 DEF ChainStep, StartAcquire, StartRelease, StartForget, StartPlainRelease, StartAcquireAll,
         StartReleaseAll, StartAfterLoss, AnswerAcquire, AnswerHeldByMe, AnswerRelease, AnswerPlainRelease,
         AnswerAcquireAll, AnswerUndo, AnswerReleaseAll, AnswerAfterLoss, turnVars
<1>6. CASE LossEvent
  BY <1>1, <1>6 DEF LossEvent, ModeChange, ModeChangeRead, ConnectionLost, SessionReissued, CheckAnswered,
         WatchdogLapse, turnVars
<1>7. CASE SessionStep
  BY <1>7 DEF SessionStep, RefuseNewTurns, RejectWaiters, Disconnect, DrainTimeout, Teardown, Connect,
         NobodyQueues, turnVars
<1>8. CASE Controller
  BY <1>1, <1>8 DEF Controller, Serve, ServeRequest, ServeRelease, ServeHeldByMe, ServeCheck, Revoke, turnVars
<1>9. QED BY <1>2, <1>3, <1>4, <1>5, <1>6, <1>7, <1>8 DEF Next

(* A step of the chain moves only the operation that awaits it. *)
LEMMA ChainMoves ==
  ASSUME TurnInv, WireInv, ChainStep, NEW p \in Ops, pc'[p] # pc[p]
  PROVE  InTurn(p)
<1>0. TurnType /\ ChainType
  BY Parts
<1>1. ASSUME Running.kind \in {"acquire", "release", "forget"}, chain # <<>>, Owner[Running.hold] \in Ops,
             \A q \in Ops : q # Owner[Running.hold] => pc'[q] = pc[q]
      PROVE  InTurn(p)
  <2>1. p = Owner[Running.hold]
    BY <1>1
  <2>2. QED BY <1>1, <2>1, RunningOp DEF OpStep
<1>2. ASSUME pc' = pc
      PROVE  FALSE
  BY <1>2
<1>3. CASE StartAcquire \/ AnswerAcquire \/ AnswerHeldByMe
  <2>1. chain # <<>> /\ Running.kind = "acquire"
    BY <1>3, AnsweredRuns DEF StartAcquire, AnswerAcquire, AnswerHeldByMe, Starts
  <2>2. Granted(Running.hold) \/ NotGranted(Running.hold) \/ pc' = pc
    BY <1>3 DEF StartAcquire, AnswerAcquire, AnswerHeldByMe, opVars
  <2>3. CASE Granted(Running.hold)
    <3>1. CASE Owner[Running.hold] \in Ops
      <4>1. pc' = [pc EXCEPT ![Owner[Running.hold]] =
                      NextPc(Owner[Running.hold], taken[Owner[Running.hold]] + 1)]
        BY <2>3, <3>1 DEF Granted
      <4>2. \A q \in Ops : q # Owner[Running.hold] => pc'[q] = pc[q]
        BY <4>1, <1>0 DEF TurnType
      <4>3. QED BY <2>1, <3>1, <4>2, <1>1
    <3>2. CASE Owner[Running.hold] \notin Ops
      BY <2>3, <3>2, <1>2 DEF Granted
    <3>3. QED BY <3>1, <3>2
  <2>4. CASE NotGranted(Running.hold)
    BY <2>1, <2>4, <1>0, <1>1, <1>2 DEF NotGranted, TurnType
  <2>5. QED BY <2>2, <2>3, <2>4, <1>2
<1>4. CASE StartRelease \/ StartForget \/ AnswerRelease
  <2>1. chain # <<>> /\ Running.kind \in {"release", "forget"}
    BY <1>4, AnsweredRuns DEF StartRelease, StartForget, AnswerRelease, Starts
  <2>2. HoldEnded(Running.hold) \/ pc' = pc
    BY <1>4 DEF StartRelease, StartForget, AnswerRelease, opVars
  <2>3. \/ pc' = pc
        \/ Owner[Running.hold] \in Ops /\ pc' = [pc EXCEPT ![Owner[Running.hold]] = "unwind"]
    BY <2>2 DEF HoldEnded, opVars
  <2>4. QED BY <2>1, <2>3, <1>0, <1>1, <1>2 DEF TurnType
<1>5. QED
  BY <1>2, <1>3, <1>4 DEF ChainStep, StartPlainRelease, StartAcquireAll, StartReleaseAll, StartAfterLoss,
       AnswerPlainRelease, AnswerAcquireAll, AnswerUndo, AnswerReleaseAll, AnswerAfterLoss, opVars

(* While the session is not open a step only ends turns. *)
LEMMA NoNewTurn ==
  ASSUME TurnInv, WireInv, NobodyQueues, [Next]_vars, session # "open", NEW p \in Ops, ~InTurn(p)
  PROVE  ~InTurn(p)'
<1>0. TurnType /\ waiters = <<>>
  BY Parts DEF NobodyQueues
<1>1. CASE pc'[p] = pc[p]
  BY <1>1 DEF InTurn
<1>2. CASE UNCHANGED vars
  BY <1>1, <1>2 DEF vars, opVars
<1>3. ASSUME NEW q \in Ops, Operation(q)
      PROVE  ~InTurn(p)'
  <2>1. ~EnterTurn(q)
    BY DEF EnterTurn
  <2>2. CASE QueueTimeout(q) \/ LeaveTurn(q)
    <3>1. pc' = [pc EXCEPT ![q] = "idle"]
      BY <2>2, <1>0 DEF QueueTimeout, LeaveTurn, HandOn
    <3>2. pc'[p] \in {pc[p], "idle"}
      BY <3>1, <1>0 DEF TurnType
    <3>3. QED BY <3>2 DEF InTurn
  <2>3. CASE Take(q) \/ Nest(q) \/ Unwind(q) \/ (\E how : BodyEnds(q, how)) \/ BodyRefused(q) \/ BodyRestarts(q)
    <3>1. InTurn(q) /\ \A r \in Ops : r # q => pc'[r] = pc[r]
      BY <2>3, <1>0 DEF Take, Nest, Unwind, BodyEnds, BodyRefused, BodyRestarts, InTurn, TurnType
    <3>2. QED BY <3>1, <1>1
  <2>4. QED BY <1>3, <2>1, <2>2, <2>3 DEF Operation
<1>4. CASE PublicCall
  BY <1>1, <1>4 DEF PublicCall, RequestPublic, ReleasePublic, RequestPublicAll, ReleasePublicAll, opVars
<1>5. CASE ChainStep
  BY <1>1, <1>5, ChainMoves
<1>6. CASE LossEvent
  BY <1>1, <1>6 DEF LossEvent, ModeChange, ModeChangeRead, ConnectionLost, SessionReissued, CheckAnswered,
         WatchdogLapse, opVars
<1>7. CASE SessionStep
  BY <1>1, <1>7 DEF SessionStep, RefuseNewTurns, Disconnect, DrainTimeout, Teardown, Connect, opVars
<1>8. CASE Controller
  BY <1>1, <1>8 DEF Controller, Serve, ServeRequest, ServeRelease, ServeHeldByMe, ServeCheck, Revoke, opVars
<1>9. QED BY <1>2, <1>3, <1>4, <1>5, <1>6, <1>7, <1>8 DEF Next

(* Once the teardown has begun no operation gets the turn until the client *)
(* connects again.  The turn is handed on by leaveTurn to whoever waits,   *)
(* session or not: what keeps it back is that refuseNewTurns left nobody   *)
(* in the queue and enterTurn has let nobody in since.                     *)
THEOREM TeardownGivesNoTurn == Spec => NoTurnWhileClosing
<1>1. Init => NobodyQueues
  BY DEF Init, NobodyQueues
<1>2. TurnInv /\ NobodyQueues /\ [Next]_vars => NobodyQueues'
  BY QueueStep
<1>3. TurnInv /\ WireInv /\ NobodyQueues /\ [Next]_vars =>
        [session # "open" => \A p \in Ops : InTurn(p)' => InTurn(p)]_vars
  BY NoNewTurn
<1>4. QED BY <1>1, <1>2, <1>3, TurnInvariant, PTL DEF Spec, NoTurnWhileClosing

-----------------------------------------------------------------------------
(* The refinement of WriteTurn.                                            *)

TurnView == <<session = "open", TurnHolder, waiters>>

(* Who has the turn, as WriteTurn sees it. *)
LEMMA HolderIs ==
  ASSUME OneTurn, NEW p \in Ops, InTurn(p)
  PROVE  TurnHolder = p /\ TurnHolder # NoTurn
BY ConstAssumption DEF OneTurn, TurnHolder

(* The same after a step. *)
LEMMA HolderNext ==
  ASSUME OneTurn', NEW p \in Ops, InTurn(p)'
  PROVE  TurnHolder' = p
BY DEF OneTurn, TurnHolder

(* A step that lets nobody into the turn and leaves the line, the session  *)
(* and mutexBusy alone is none of the turn's: it is still the same one's.  *)
LEMMA TurnStays ==
  ASSUME OneTurn, OneTurn', UNCHANGED <<session, turnVars>>, \A p \in Ops : InTurn(p)' => InTurn(p)
  PROVE  UNCHANGED TurnView
<1>1. CASE mutexBusy
  <2>1. PICK q \in Ops : InTurn(q)'
    BY <1>1 DEF OneTurn, turnVars
  <2>2. TurnHolder = q /\ TurnHolder' = q
    BY <2>1, HolderIs, HolderNext
  <2>3. QED BY <2>2 DEF TurnView, turnVars
<1>2. CASE ~mutexBusy
  <2>1. \A p \in Ops : ~InTurn(p) /\ ~InTurn(p)'
    BY <1>2 DEF OneTurn
  <2>2. TurnHolder = NoTurn /\ TurnHolder' = NoTurn
    BY <2>1 DEF TurnHolder
  <2>3. QED BY <2>2 DEF TurnView, turnVars
<1>3. QED BY <1>1, <1>2

(* exclusive(): the free turn is taken, or the operation gets in line. *)
LEMMA EnterInLine ==
  ASSUME TurnInv, TurnInv', NEW p \in Ops, EnterTurn(p)
  PROVE  InLine!Next
<1>0. TurnType /\ WaitersOK /\ OneTurn /\ OneTurn'
  BY DEF TurnInv, TypeOK
<1>1. session = "open" /\ session' = session /\ pc[p] = "idle" /\ ~InTurn(p)
  BY DEF EnterTurn, InTurn
<1>2. CASE ~mutexBusy
  <2>1. waiters = <<>> /\ waiters' = waiters /\ \A q \in Ops : ~InTurn(q)
    BY <1>0, <1>2 DEF EnterTurn, OneTurn
  <2>2. TurnHolder = NoTurn
    BY <2>1 DEF TurnHolder
  <2>3. InTurn(p)'
    BY <1>0, <1>2, FirstPcOK DEF EnterTurn, InTurn, TurnType
  <2>4. TurnHolder' = p
    BY <1>0, <2>3, HolderNext
  <2>5. InLine!Enter(p)
    BY <1>1, <2>1, <2>2, <2>4 DEF InLine!Enter
  <2>6. QED BY <2>5 DEF InLine!Next
<1>3. CASE mutexBusy
  <2>1. PICK q \in Ops : InTurn(q)
    BY <1>0, <1>3 DEF OneTurn
  <2>2. pc' = [pc EXCEPT ![p] = "waiting"] /\ waiters' = Append(waiters, p)
    BY <1>3 DEF EnterTurn
  <2>3. InTurn(q)' /\ q # p
    BY <1>0, <1>1, <2>1, <2>2 DEF InTurn, TurnType
  <2>4. TurnHolder = q /\ TurnHolder # NoTurn /\ TurnHolder' = q
    BY <1>0, <2>1, <2>3, HolderIs, HolderNext
  <2>5. \A i \in DOMAIN waiters : waiters[i] # p
    BY <1>0, <1>1 DEF WaitersOK, TurnType
  <2>6. p \notin InLine!Range(waiters)
    BY <2>5 DEF InLine!Range
  <2>7. InLine!GetInLine(p)
    BY <1>1, <2>2, <2>3, <2>4, <2>6 DEF InLine!GetInLine
  <2>8. QED BY <2>7 DEF InLine!Next
<1>4. QED BY <1>2, <1>3

(* The queue timeout: one leaves the line, the turn is whose it was. *)
LEMMA TimeoutInLine ==
  ASSUME TurnInv, TurnInv', NEW p \in Ops, QueueTimeout(p)
  PROVE  InLine!Next
<1>0. TurnType /\ WaitersOK /\ OneTurn /\ OneTurn'
  BY DEF TurnInv, TypeOK
<1>1. PICK k \in 1..Len(waiters) : waiters[k] = p /\ waiters' = RemoveAt(waiters, k)
  BY DEF QueueTimeout
<1>2. pc' = [pc EXCEPT ![p] = "idle"] /\ UNCHANGED <<session, mutexBusy>> /\ pc[p] = "waiting"
  BY <1>0, <1>1 DEF QueueTimeout, WaitersOK
<1>3. mutexBusy
  BY <1>0, <1>1 DEF OneTurn, TurnType
<1>4. PICK q \in Ops : InTurn(q)
  BY <1>0, <1>3 DEF OneTurn
<1>5. InTurn(q)'
  BY <1>0, <1>2, <1>4 DEF InTurn, TurnType
<1>6. TurnHolder' = TurnHolder
  BY <1>0, <1>4, <1>5, HolderIs, HolderNext
<1>7. k \in DOMAIN waiters
  BY <1>0, <1>1 DEF TurnType
<1>8. InLine!GiveUp(k)
  BY <1>1, <1>2, <1>6 DEF InLine!GiveUp, InLine!RemoveAt, RemoveAt
<1>9. QED BY <1>7, <1>8 DEF InLine!Next

(* leaveTurn(): the first in line has the turn.  Somebody is in line only  *)
(* while the session is open.                                              *)
LEMMA LeaveInLine ==
  ASSUME TurnInv, TurnInv', NobodyQueues, NEW p \in Ops, LeaveTurn(p)
  PROVE  InLine!Next
<1>0. TurnType /\ WaitersOK /\ OneTurn /\ OneTurn'
  BY DEF TurnInv, TypeOK
<1>1. InTurn(p) /\ session' = session /\ HandOn(p)
  BY DEF LeaveTurn, Unwound, InTurn
<1>2. TurnHolder = p /\ TurnHolder # NoTurn /\ \A q \in Ops : InTurn(q) => q = p
  BY <1>0, <1>1, HolderIs DEF OneTurn
<1>3. CASE waiters = <<>>
  <2>1. \A q \in Ops : ~InTurn(q)'
    BY <1>0, <1>1, <1>3 DEF HandOn, OneTurn
  <2>2. TurnHolder' = NoTurn
    BY <2>1 DEF TurnHolder
  <2>3. InLine!Free
    BY <1>1, <1>2, <1>3, <2>2 DEF HandOn, InLine!Free
  <2>4. QED BY <2>3 DEF InLine!Next
<1>4. CASE waiters # <<>>
  <2>1. Head(waiters) \in Ops /\ Head(waiters) = waiters[1] /\ 1 \in 1..Len(waiters)
    BY <1>0, <1>4 DEF TurnType
  <2>2. waiters' = Tail(waiters) /\ pc' = [pc EXCEPT ![p] = "idle", ![Head(waiters)] = FirstPc(Head(waiters))]
    BY <1>1, <1>4 DEF HandOn
  <2>3. pc'[Head(waiters)] = FirstPc(Head(waiters))
    BY <1>0, <2>1, <2>2 DEF TurnType
  <2>4. TurnHolder' = Head(waiters)
    <3>1. PICK n \in Ops : n = Head(waiters) /\ pc'[n] = FirstPc(n)
      BY <2>1, <2>3
    <3>2. InTurn(n)'
      BY <3>1, FirstPcOK DEF InTurn
    <3>3. QED BY <3>1, <3>2, <1>0, HolderNext
  <2>5. session = "open"
    BY <1>4 DEF NobodyQueues
  <2>6. InLine!HandOn
    BY <1>1, <1>2, <1>4, <2>2, <2>4, <2>5 DEF InLine!HandOn
  <2>7. QED BY <2>6 DEF InLine!Next
<1>5. QED BY <1>3, <1>4

(* The session's steps: the line is sent away, and opens again. *)
LEMMA SessionInLine ==
  ASSUME TurnInv, TurnInv', NobodyQueues, SessionStep
  PROVE  [InLine!Next]_TurnView
<1>0. TurnType /\ OneTurn /\ OneTurn'
  BY DEF TurnInv, TypeOK
<1>1. mutexBusy' = mutexBusy
  BY DEF SessionStep, RefuseNewTurns, Disconnect, DrainTimeout, Teardown, Connect, turnVars
<1>2. \A p \in Ops : InTurn(p)' <=> InTurn(p)
  BY <1>0 DEF SessionStep, RefuseNewTurns, RejectWaiters, Disconnect, DrainTimeout, Teardown, Connect, opVars,
              InTurn, TurnType
<1>3. TurnHolder' = TurnHolder
  <2>1. CASE \E p \in Ops : InTurn(p)
    BY <2>1, <1>0, <1>2, HolderIs, HolderNext
  <2>2. CASE ~\E p \in Ops : InTurn(p)
    BY <2>2, <1>2 DEF TurnHolder
  <2>3. QED BY <2>1, <2>2
<1>4. CASE RefuseNewTurns
  <2>1. InLine!Refuse
    BY <1>3, <1>4 DEF RefuseNewTurns, RejectWaiters, InLine!Refuse
  <2>2. QED BY <2>1 DEF InLine!Next
<1>5. CASE Disconnect \/ DrainTimeout
  <2>1. session # "open" /\ session' # "open" /\ waiters' = waiters
    BY <1>5 DEF Disconnect, DrainTimeout, Teardown, turnVars
  <2>2. QED BY <2>1, <1>3 DEF TurnView
<1>6. CASE Connect
  <2>1. session # "open" /\ session' = "open" /\ waiters' = waiters /\ waiters = <<>>
    BY <1>6 DEF Connect, turnVars, NobodyQueues
  <2>2. InLine!Allow
    BY <2>1, <1>3 DEF InLine!Allow
  <2>3. QED BY <2>2 DEF InLine!Next
<1>7. QED BY <1>4, <1>5, <1>6 DEF SessionStep

(* Every other step leaves the turn to the operation that has it. *)
LEMMA TurnStepInLine ==
  ASSUME TurnInv, TurnInv', WireInv, NobodyQueues, [Next]_vars
  PROVE  [InLine!Next]_TurnView
<1>0. TurnType /\ OneTurn /\ OneTurn'
  BY DEF TurnInv, TypeOK
<1>1. CASE UNCHANGED <<session, turnVars>> /\ \A p \in Ops : InTurn(p)' => InTurn(p)
  BY <1>0, <1>1, TurnStays
<1>2. CASE UNCHANGED <<session, turnVars, opVars>>
  BY <1>1, <1>2 DEF InTurn, opVars
<1>3. CASE UNCHANGED vars
  BY <1>2, <1>3 DEF vars
<1>4. ASSUME NEW p \in Ops, Operation(p)
      PROVE  [InLine!Next]_TurnView
  <2>1. CASE EnterTurn(p) \/ QueueTimeout(p) \/ LeaveTurn(p)
    BY <2>1, EnterInLine, TimeoutInLine, LeaveInLine
  <2>2. CASE Take(p) \/ Nest(p) \/ Unwind(p) \/ (\E how : BodyEnds(p, how)) \/ BodyRefused(p) \/ BodyRestarts(p)
    <3>1. InTurn(p) /\ \A q \in Ops : q # p => pc'[q] = pc[q]
      BY <2>2, <1>0 DEF Take, Nest, Unwind, BodyEnds, BodyRefused, BodyRestarts, InTurn, TurnType
    <3>2. UNCHANGED <<session, turnVars>>
      BY <2>2 DEF Take, Nest, Unwind, BodyEnds, BodyRefused, BodyRestarts
    <3>3. QED BY <3>1, <3>2, <1>1 DEF InTurn
  <2>3. QED BY <1>4, <2>1, <2>2 DEF Operation
<1>5. CASE PublicCall
  BY <1>2, <1>5 DEF PublicCall, RequestPublic, ReleasePublic, RequestPublicAll, ReleasePublicAll
<1>6. CASE ChainStep
  <2>1. UNCHANGED <<session, turnVars>>
    BY <1>6 DEF ChainStep, StartAcquire, StartRelease, StartForget, StartPlainRelease, StartAcquireAll,
         StartReleaseAll, StartAfterLoss, AnswerAcquire, AnswerHeldByMe, AnswerRelease, AnswerPlainRelease,
         AnswerAcquireAll, AnswerUndo, AnswerReleaseAll, AnswerAfterLoss
  <2>2. \A p \in Ops : pc'[p] # pc[p] => InTurn(p)
    BY <1>6, ChainMoves
  <2>3. QED BY <2>1, <2>2, <1>1 DEF InTurn
<1>7. CASE LossEvent
  BY <1>2, <1>7 DEF LossEvent, ModeChange, ModeChangeRead, ConnectionLost, SessionReissued, CheckAnswered,
         WatchdogLapse
<1>8. CASE Controller
  BY <1>2, <1>8 DEF Controller, Serve, ServeRequest, ServeRelease, ServeHeldByMe, ServeCheck, Revoke
<1>9. QED BY <1>3, <1>4, <1>5, <1>6, <1>7, <1>8, SessionInLine DEF Next

(* The manager implements the write turn of WriteTurn: first come, first   *)
(* served, whatever the operations do in their turns, wherever a queue     *)
(* timeout takes somebody out of the line, and whenever the session ends.  *)
THEOREM ImplementsWriteTurn == Spec => WriteTurnSpec
<1>1. Init => InLine!Init /\ NobodyQueues
  BY DEF Init, InLine!Init, InTurn, TurnHolder, NobodyQueues
<1>2. TurnInv /\ NobodyQueues /\ [Next]_vars => NobodyQueues'
  BY QueueStep
<1>3. TurnInv /\ TurnInv' /\ WireInv /\ NobodyQueues /\ [Next]_vars => [InLine!Next]_TurnView
  BY TurnStepInLine
<1>4. QED BY <1>1, <1>2, <1>3, TurnInvariant, PTL DEF Spec, WriteTurnSpec, InLine!Spec, TurnView

-----------------------------------------------------------------------------
(* Nobody is forgotten: what the liveness of the manager rests on, beside  *)
(* the fairness.                                                           *)

(* Of the operations only those wait that waited before. *)
LEMMA WaitFrame ==
  ASSUME InLineOK, OneTurn', mutexBusy', waiters' = waiters,
         \A p \in Ops : pc'[p] = "waiting" => pc[p] = "waiting"
  PROVE  InLineOK'
BY DEF InLineOK, OneTurn

(* The same where the turn and the line stay as they are. *)
LEMMA WaitSame ==
  ASSUME InLineOK, UNCHANGED turnVars, TurnInv, TurnInv',
         \A p \in Ops : pc'[p] = "waiting" => pc[p] = "waiting"
  PROVE  InLineOK'
<1>1. OneTurn /\ OneTurn'
  BY Parts DEF TurnInv
<1>2. ASSUME NEW p \in Ops, pc'[p] = "waiting" PROVE mutexBusy'
  <2>1. \E q \in Ops : InTurn(q)
    BY <1>2 DEF InLineOK
  <2> QED
    BY <2>1, <1>1 DEF OneTurn, turnVars
<1> QED
  BY <1>1, <1>2, WaitFrame DEF InLineOK, turnVars

(* No step leaves the chain, and who waits for one waited for it before. *)
LEMMA StepsFrame ==
  ASSUME OnChainOK, chain' = chain,
         \A p \in Ops : pc'[p] \in {"taking", "ending"} => pc[p] \in {"taking", "ending"}
  PROVE  OnChainOK'
BY DEF OnChainOK, StepOf

(* A step joins the chain, of one who waits for it or of nobody. *)
LEMMA StepsAppend ==
  ASSUME OnChainOK, chain \in Seq(Step), NEW s, Enqueue(s),
         \A p \in Ops : pc'[p] \in {"taking", "ending"} =>
             pc[p] \in {"taking", "ending"} \/ StepOf(s, p)
  PROVE  OnChainOK'
<1>0. chain \in Seq(Step \cup {s})
  OBVIOUS
<1>1. /\ chain' = Append(chain, s) /\ Len(chain) \in Nat
      /\ DOMAIN chain = 1..Len(chain) /\ DOMAIN chain' = 1..(Len(chain) + 1)
      /\ chain'[Len(chain) + 1] = s
      /\ \A i \in 1..Len(chain) : chain'[i] = chain[i] /\ i \in 1..(Len(chain) + 1)
  BY <1>0 DEF Enqueue
<1>2. SUFFICES ASSUME NEW p \in Ops, pc'[p] \in {"taking", "ending"}
               PROVE  \E i \in DOMAIN chain' : StepOf(chain'[i], p)
  BY DEF OnChainOK, StepOf
<1>3. CASE StepOf(s, p)
  BY <1>1, <1>3
<1>4. CASE pc[p] \in {"taking", "ending"}
  <2>1. PICK i \in 1..Len(chain) : StepOf(chain[i], p)
    BY <1>1, <1>4 DEF OnChainOK
  <2> QED
    BY <1>1, <2>1
<1> QED
  BY <1>2, <1>3, <1>4

(* The running step leaves the chain, and nobody waits for it any more. *)
LEMMA StepsDone ==
  ASSUME OnChainOK, chain \in Seq(Step), chain # <<>>, StepDone,
         \A p \in Ops : pc'[p] \in {"taking", "ending"} =>
             pc[p] \in {"taking", "ending"} /\ ~StepOf(Running, p)
  PROVE  OnChainOK'
<1>1. /\ chain' = Tail(chain) /\ Len(chain) \in Nat \ {0} /\ Running = chain[1]
      /\ DOMAIN chain = 1..Len(chain) /\ DOMAIN chain' = 1..(Len(chain) - 1)
      /\ \A i \in 1..(Len(chain) - 1) : chain'[i] = chain[i + 1]
  BY DEF StepDone, Running
<1>2. SUFFICES ASSUME NEW p \in Ops, pc'[p] \in {"taking", "ending"}
               PROVE  \E i \in DOMAIN chain' : StepOf(chain'[i], p)
  BY DEF OnChainOK, StepOf
<1>3. PICK i \in 1..Len(chain) : StepOf(chain[i], p)
  BY <1>1, <1>2 DEF OnChainOK
<1>4. i # 1
  BY <1>1, <1>2, <1>3
<1>5. i - 1 \in 1..(Len(chain) - 1) /\ (i - 1) + 1 = i
  BY <1>1, <1>4
<1> QED
  BY <1>1, <1>3, <1>5

(* The chain only grows behind the step whose call is on the wire. *)
LEMMA SameRunning ==
  ASSUME ChainType, WireInv, wire # NoWire, NEW s, chain' = chain \/ Enqueue(s)
  PROVE  Running' = Running
<1>1. chain # <<>> /\ chain \in Seq(Step)
  BY DEF WireInv, WireOK, ChainType
<1>2. Head(Append(chain, s)) = Head(chain)
  BY <1>1
<1>3. QED BY <1>2 DEF Running, Enqueue

(* The chain waits for the same call as before, or for none. *)
LEMMA HeardSame ==
  ASSUME HeardOK, ChainType, WireInv, wire' = wire, NEW s, chain' = chain \/ Enqueue(s)
  PROVE  HeardOK'
<1>1. CASE wire = NoWire
  BY <1>1 DEF HeardOK
<1>2. CASE wire # NoWire
  <2>1. Running' = Running
    BY <1>2, SameRunning
  <2>2. chain # <<>> /\ chain \in Seq(Step)
    BY <1>2 DEF HeardOK, ChainType
  <2>3. chain' # <<>>
    BY <2>2 DEF Enqueue
  <2> QED
    BY <2>1, <2>3 DEF HeardOK
<1> QED
  BY <1>1, <1>2

LEMMA HeardSend ==
  ASSUME chain # <<>>, NEW m \in MayAsk(Running.kind), NEW L, Send(m, L)
  PROVE  HeardOK'
BY DEF HeardOK, Send, Call, Running

LEMMA HeardDone ==
  ASSUME StepDone
  PROVE  HeardOK'
BY DEF HeardOK, StepDone

(* What an operation does by itself. *)
LEMMA OperationForgetsNobody ==
  ASSUME TurnInv, WireInv, TurnInv', NobodyIsForgotten, NEW p \in Ops, Operation(p)
  PROVE  NobodyIsForgotten'
<1>0. /\ InLineOK /\ OnChainOK /\ HeardOK /\ ChainType /\ TurnType /\ OneTurn /\ OneTurn'
      /\ chain \in Seq(Step) /\ waiters \in Seq(Ops)
  BY Parts DEF NobodyIsForgotten, TurnInv, ChainType, TurnType
<1>1. CASE EnterTurn(p)
  <2>1. UNCHANGED chainVars /\ mutexBusy'
    BY <1>1 DEF EnterTurn
  <2>2. OnChainOK' /\ HeardOK'
    <3>1. \A q \in Ops : pc'[q] \in {"taking", "ending"} => pc[q] \in {"taking", "ending"}
      BY <1>0, <1>1, FirstPcOK DEF EnterTurn, TurnType
    <3> QED
      BY <1>0, <2>1, <3>1, StepsFrame, HeardSame DEF chainVars
  <2>3. CASE ~mutexBusy
    <3>1. \A q \in Ops : pc'[q] = "waiting" => pc[q] = "waiting"
      BY <1>0, <1>1, <2>3, FirstPcOK DEF EnterTurn, TurnType
    <3> QED
      BY <1>0, <1>1, <2>1, <2>2, <2>3, <3>1, WaitFrame DEF EnterTurn, NobodyIsForgotten
  <2>4. CASE mutexBusy
    <3>1. /\ waiters' = Append(waiters, p) /\ pc' = [pc EXCEPT ![p] = "waiting"]
          /\ Len(waiters) \in Nat
      BY <1>0, <1>1, <2>4 DEF EnterTurn
    <3>2. /\ DOMAIN waiters = 1..Len(waiters) /\ DOMAIN waiters' = 1..(Len(waiters) + 1)
          /\ waiters'[Len(waiters) + 1] = p
          /\ \A i \in 1..Len(waiters) : waiters'[i] = waiters[i] /\ i \in 1..(Len(waiters) + 1)
          /\ Len(waiters) + 1 \in 1..(Len(waiters) + 1)
      BY <1>0, <3>1
    <3>3. \A q \in Ops : pc'[q] = "waiting" => q = p \/ pc[q] = "waiting"
      BY <1>0, <3>1 DEF TurnType
    <3>4. ASSUME NEW q \in Ops, pc'[q] = "waiting" PROVE \E i \in DOMAIN waiters' : waiters'[i] = q
      <4>1. CASE q = p
        BY <3>2, <4>1
      <4>2. CASE pc[q] = "waiting"
        BY <1>0, <3>2, <4>2 DEF InLineOK
      <4> QED
        BY <3>3, <3>4, <4>1, <4>2
    <3>5. \E q \in Ops : InTurn(q)'
      BY <1>0, <2>1 DEF OneTurn
    <3> QED
      BY <2>2, <3>4, <3>5 DEF InLineOK, NobodyIsForgotten
  <2> QED
    BY <2>3, <2>4
<1>2. CASE QueueTimeout(p)
  <2>1. UNCHANGED chainVars /\ mutexBusy' = mutexBusy /\ pc' = [pc EXCEPT ![p] = "idle"]
    BY <1>2 DEF QueueTimeout
  <2>2. PICK k \in 1..Len(waiters) : waiters[k] = p /\ waiters' = RemoveAt(waiters, k)
    BY <1>2 DEF QueueTimeout
  <2>3. /\ waiters' \in Seq(Ops) /\ Len(waiters') = Len(waiters) - 1 /\ Len(waiters) \in Nat
        /\ \A j \in 1..(Len(waiters) - 1) : waiters'[j] = IF j < k THEN waiters[j] ELSE waiters[j + 1]
    <3>1. waiters \in Seq(Ops) /\ Len(waiters) \in Nat
      BY <1>0
    <3> QED
      BY <2>2, <3>1, RemoveAtType
  <2>4. ASSUME NEW q \in Ops, pc'[q] = "waiting"
        PROVE  (\E i \in DOMAIN waiters' : waiters'[i] = q) /\ \E r \in Ops : InTurn(r)'
    <3>1. q # p /\ pc[q] = "waiting"
      BY <1>0, <2>1, <2>4 DEF TurnType
    <3>2. PICK i \in 1..Len(waiters) : waiters[i] = q
      BY <1>0, <3>1 DEF InLineOK
    <3>3. i # k
      BY <2>2, <3>1, <3>2
    <3>4. \E r \in Ops : InTurn(r)'
      BY <1>0, <2>1, <3>1 DEF InLineOK, OneTurn
    <3>5. CASE i > k
      <4>1. i - 1 \in 1..(Len(waiters) - 1) /\ ~(i - 1 < k) /\ (i - 1) + 1 = i
        BY <2>3, <3>5
      <4>2. waiters'[i - 1] = q
        BY <2>3, <3>2, <4>1
      <4>3. i - 1 \in DOMAIN waiters'
        BY <2>3, <4>1
      <4> QED
        BY <3>4, <4>2, <4>3
    <3>6. CASE i < k
      <4>1. i \in 1..(Len(waiters) - 1)
        BY <2>3, <3>6
      <4>2. i \in DOMAIN waiters' /\ waiters'[i] = q
        BY <2>3, <3>2, <3>6, <4>1
      <4> QED
        BY <3>4, <4>2
    <3> QED
      BY <2>3, <3>3, <3>5, <3>6
  <2>5. \A q \in Ops : pc'[q] \in {"taking", "ending"} => pc[q] \in {"taking", "ending"}
    BY <1>0, <2>1 DEF TurnType
  <2> QED
    BY <1>0, <2>1, <2>4, <2>5, StepsFrame, HeardSame DEF chainVars, InLineOK, NobodyIsForgotten
<1>3. CASE LeaveTurn(p)
  <2>1. UNCHANGED chainVars
    BY <1>3 DEF LeaveTurn
  <2>2. CASE waiters = <<>>
    <3>1. pc' = [pc EXCEPT ![p] = "idle"]
      BY <1>3, <2>2 DEF LeaveTurn, HandOn
    <3>2. \A q \in Ops : pc[q] # "waiting"
      BY <2>2 , <1>0 DEF InLineOK
    <3>3. \A q \in Ops : pc'[q] # "waiting"
                         /\ (pc'[q] \in {"taking", "ending"} => pc[q] \in {"taking", "ending"})
      BY <1>0, <3>1, <3>2 DEF TurnType
    <3> QED
      BY <1>0, <2>1, <3>3, StepsFrame, HeardSame DEF chainVars, InLineOK, NobodyIsForgotten
  <2>3. CASE waiters # <<>>
    <3> DEFINE n == Head(waiters)
    <3>1. /\ waiters' = Tail(waiters) /\ n = waiters[1] /\ n \in Ops /\ Len(waiters) \in Nat \ {0}
          /\ pc' = [pc EXCEPT ![p] = "idle", ![n] = FirstPc(n)]
          /\ mutexBusy' = mutexBusy
      BY <1>0, <1>3, <2>3 DEF LeaveTurn, HandOn
    <3>2. /\ DOMAIN waiters' = 1..(Len(waiters) - 1)
          /\ \A i \in 1..(Len(waiters) - 1) : waiters'[i] = waiters[i + 1]
      BY <1>0, <3>1
    <3> HIDE DEF n
    <3>3. FirstPc(n) \in {"take", "body"}
      BY <3>1, FirstPcOK
    <3>4. \A q \in Ops : pc'[q] # pc[q] => pc'[q] \in {"idle", "take", "body"} /\ (pc'[q] = "idle" \/ q = n)
      BY <1>0, <3>1, <3>3 DEF TurnType
    <3>5. pc'[n] \in {"idle", "take", "body"}
      BY <1>0, <3>1, <3>3 DEF TurnType
    <3>6. \E r \in Ops : InTurn(r)'
      BY <1>0, <2>3, <3>1 DEF OneTurn
    <3>7. ASSUME NEW q \in Ops, pc'[q] = "waiting" PROVE \E i \in DOMAIN waiters' : waiters'[i] = q
      <4>1. q # n /\ pc[q] = "waiting"
        BY <3>4, <3>5, <3>7
      <4>2. PICK i \in 1..Len(waiters) : waiters[i] = q
        BY <1>0, <4>1 DEF InLineOK
      <4>3. i - 1 \in 1..(Len(waiters) - 1) /\ (i - 1) + 1 = i
        BY <3>1, <4>1, <4>2
      <4> QED
        BY <3>2, <4>2, <4>3
    <3>8. \A q \in Ops : pc'[q] \in {"taking", "ending"} => pc[q] \in {"taking", "ending"}
      BY <3>4
    <3>9. InLineOK'
      BY <3>6, <3>7 DEF InLineOK
    <3> QED
      BY <1>0, <2>1, <3>8, <3>9, StepsFrame, HeardSame DEF chainVars, NobodyIsForgotten
  <2> QED
    BY <2>2, <2>3
<1>4. CASE Take(p) \/ Nest(p) \/ Unwind(p) \/ (\E how : BodyEnds(p, how)) \/ BodyRefused(p) \/ BodyRestarts(p)
  <2>1. /\ UNCHANGED turnVars
        /\ \E v \in {"take", "taking", "rest", "unwind", "ending"} : pc' = [pc EXCEPT ![p] = v]
    BY <1>4 DEF Take, Nest, Unwind, BodyEnds, BodyRefused, BodyRestarts
  <2>2. InLineOK'
    <3>1. \A q \in Ops : pc'[q] = "waiting" => pc[q] = "waiting"
      BY <1>0, <2>1 DEF TurnType
    <3> QED
      BY <1>0, <2>1, <3>1, WaitSame
  <2>3. CASE UNCHANGED chainVars /\ pc'[p] \notin {"taking", "ending"}
    <3>1. \A q \in Ops : pc'[q] \in {"taking", "ending"} => pc[q] \in {"taking", "ending"}
      BY <1>0, <2>1, <2>3 DEF TurnType
    <3> QED
      BY <1>0, <2>2, <2>3, <3>1, StepsFrame, HeardSame DEF chainVars, NobodyIsForgotten
  <2>4. ASSUME NEW s, Enqueue(s), StepOf(s, p) PROVE NobodyIsForgotten'
    <3>1. \A q \in Ops : pc'[q] \in {"taking", "ending"} => pc[q] \in {"taking", "ending"} \/ StepOf(s, q)
      BY <1>0, <2>1, <2>4 DEF TurnType
    <3>2. wire' = wire
      BY <2>4 DEF Enqueue
    <3> QED
      BY <1>0, <2>2, <2>4, <3>1, <3>2, StepsAppend, HeardSame DEF NobodyIsForgotten
  <2>5. CASE Take(p)
    <3>1. CASE lost[p]
      <4>1. UNCHANGED chainVars /\ pc'[p] = "unwind"
        BY <1>0, <2>5, <3>1 DEF Take, TurnType
      <4> QED
        BY <2>3, <4>1
    <3>2. CASE ~lost[p]
      <4> DEFINE s == [kind |-> "acquire", hold |-> Frame(p)[taken[p] + 1]]
      <4>1. Enqueue(s) /\ pc[p] = "take"
        BY <2>5, <3>2 DEF Take
      <4>2. taken[p] + 1 \in 1..Len(Frame(p))
        BY <1>0, <4>1, Parts, ConstAssumption DEF ProgressOK, TurnType, Frame
      <4>3. Frame(p)[taken[p] + 1] \in Hold /\ Owner[Frame(p)[taken[p] + 1]] = p
        BY <1>0, <4>2, FrameHold DEF TurnType
      <4>4. StepOf(s, p)
        BY <4>3 DEF StepOf
      <4> QED
        BY <2>4, <4>1, <4>4
    <3> QED
      BY <3>1, <3>2
  <2>6. CASE Unwind(p)
    <3>1. CASE taken[p] > 0 /\ ~UNCHANGED chainVars
      <4> DEFINE s == [kind |-> IF outcome[p] = "restart" THEN "forget" ELSE "release",
                       hold |-> Frame(p)[taken[p]]]
      <4>1. Enqueue(s)
        BY <2>6, <3>1 DEF Unwind
      <4>2. taken[p] \in 1..Len(Frame(p))
        BY <1>0, <3>1, Parts, ConstAssumption DEF ProgressOK, TurnType, Frame
      <4>3. Frame(p)[taken[p]] \in Hold /\ Owner[Frame(p)[taken[p]]] = p
        BY <1>0, <4>2, FrameHold DEF TurnType
      <4>4. StepOf(s, p)
        BY <4>3 DEF StepOf
      <4> QED
        BY <2>4, <4>1, <4>4
    <3>2. CASE taken[p] = 0
      <4>1. UNCHANGED chainVars /\ pc'[p] = "rest"
        BY <1>0, <2>6, <3>2 DEF Unwind, TurnType
      <4> QED
        BY <2>3, <4>1
    <3>3. taken[p] > 0 => ~UNCHANGED chainVars
      <4>1. CASE taken[p] > 0
        <5>1. \E s : Enqueue(s)
          BY <2>6, <4>1 DEF Unwind
        <5>2. PICK s : chain' = Append(chain, s)
          BY <5>1 DEF Enqueue
        <5>3. Len(Append(chain, s)) = Len(chain) + 1 /\ Len(chain) \in Nat
          BY <1>0
        <5> QED
          BY <5>2, <5>3 DEF chainVars
      <4> QED
        BY <4>1
    <3>4. taken[p] = 0 \/ taken[p] > 0
      BY <1>0 DEF TurnType
    <3> QED
      BY <3>1, <3>2, <3>3, <3>4
  <2>7. CASE Nest(p) \/ (\E how : BodyEnds(p, how)) \/ BodyRefused(p) \/ BodyRestarts(p)
    <3>1. UNCHANGED chainVars /\ pc'[p] \in {"take", "unwind"}
      BY <1>0, <2>7 DEF Nest, BodyEnds, BodyRefused, BodyRestarts, TurnType
    <3> QED
      BY <2>3, <3>1
  <2> QED
    BY <1>4, <2>5, <2>6, <2>7
<1> QED
  BY <1>1, <1>2, <1>3, <1>4 DEF Operation

(* The steps of the chain and their answers. *)
LEMMA ChainForgetsNobody ==
  ASSUME TurnInv, WireInv, TurnInv', NobodyIsForgotten, ChainStep
  PROVE  NobodyIsForgotten'
<1>0. /\ InLineOK /\ OnChainOK /\ HeardOK /\ TurnType /\ chain \in Seq(Step)
  BY Parts DEF NobodyIsForgotten, ChainType
<1> DEFINE Asks == (\E m \in MayAsk(Running.kind) : \E L : Send(m, L)) /\ pc' = pc
           Ends(v) == /\ StepDone /\ v \notin {"waiting", "taking", "ending"}
                      /\ pc' = IF \E p \in Ops : StepOf(Running, p)
                                 THEN [pc EXCEPT ![Owner[Running.hold]] = v] ELSE pc
<1>1. chain # <<>> /\ UNCHANGED turnVars /\ (Asks \/ \E v : Ends(v))
  <2>1. CASE StartAcquire \/ AnswerAcquire \/ AnswerHeldByMe
    <3>1. chain # <<>> /\ Running.kind = "acquire" /\ UNCHANGED turnVars
      BY <2>1, AnsweredRuns DEF StartAcquire, AnswerAcquire, AnswerHeldByMe, Starts
    <3>2. \/ Granted(Running.hold) \/ NotGranted(Running.hold)
          \/ pc' = pc /\ \E m \in {"request", "heldByMe"} : Send(m, {LockOf[Running.hold]})
      BY <2>1 DEF StartAcquire, AnswerAcquire, AnswerHeldByMe, opVars
    <3>3. \A p \in Ops : StepOf(Running, p) <=> Owner[Running.hold] = p
      BY <3>1 DEF StepOf
    <3>4. CASE Granted(Running.hold)
      <4>1. Ends(NextPc(Owner[Running.hold], taken[Owner[Running.hold]] + 1))
        BY <3>3, <3>4 DEF Granted, NextPc
      <4> QED
        BY <3>1, <4>1
    <3>5. CASE NotGranted(Running.hold)
      <4>1. Ends("unwind")
        BY <3>3, <3>5 DEF NotGranted
      <4> QED
        BY <3>1, <4>1
    <3>6. CASE pc' = pc /\ \E m \in {"request", "heldByMe"} : Send(m, {LockOf[Running.hold]})
      BY <3>1, <3>6 DEF MayAsk
    <3> QED
      BY <3>2, <3>4, <3>5, <3>6
  <2>2. CASE StartRelease \/ StartForget \/ AnswerRelease
    <3>1. chain # <<>> /\ Running.kind \in {"release", "forget"} /\ UNCHANGED turnVars
      BY <2>2, AnsweredRuns DEF StartRelease, StartForget, AnswerRelease, Starts
    <3>2. \/ StepDone /\ HoldEnded(Running.hold)
          \/ pc' = pc /\ Running.kind = "release" /\ \E L : Send("release", L)
      BY <2>2 DEF StartRelease, StartForget, AnswerRelease, opVars, Starts
    <3>3. \A p \in Ops : StepOf(Running, p) <=> Owner[Running.hold] = p
      BY <3>1 DEF StepOf
    <3>4. CASE StepDone /\ HoldEnded(Running.hold)
      <4>1. Ends("unwind")
        BY <3>3, <3>4 DEF HoldEnded, opVars
      <4> QED
        BY <3>1, <4>1
    <3> QED
      BY <3>1, <3>2, <3>4 DEF MayAsk
  <2>3. CASE \/ StartPlainRelease \/ StartAcquireAll \/ StartReleaseAll \/ StartAfterLoss
             \/ AnswerPlainRelease \/ AnswerAcquireAll \/ AnswerUndo \/ AnswerReleaseAll \/ AnswerAfterLoss
    <3>1. /\ chain # <<>> /\ Running.kind \in {"plainRelease", "acquireAll", "releaseAll", "afterLoss"}
          /\ UNCHANGED turnVars /\ pc' = pc
      BY <2>3, AnsweredRuns DEF StartPlainRelease, StartAcquireAll, StartReleaseAll, StartAfterLoss,
         AnswerPlainRelease, AnswerAcquireAll, AnswerUndo, AnswerReleaseAll, AnswerAfterLoss, Starts, opVars
    <3>2. \/ StepDone
          \/ \E L : Send("release", L)
          \/ Running.kind = "acquireAll" /\ \E L : Send("request", L)
      BY <2>3 DEF StartPlainRelease, StartAcquireAll, StartReleaseAll, StartAfterLoss,
         AnswerPlainRelease, AnswerAcquireAll, AnswerUndo, AnswerReleaseAll, AnswerAfterLoss,
         NextAfterLoss, GroupGranted, GroupRefused, Starts
    <3>3. \A p : ~StepOf(Running, p)
      BY <3>1 DEF StepOf
    <3>4. CASE StepDone
      <4>1. Ends("idle")
        BY <3>1, <3>3, <3>4
      <4> QED
        BY <3>1, <4>1
    <3>5. CASE ~StepDone
      <4>1. Asks
        BY <3>1, <3>2, <3>5 DEF MayAsk
      <4> QED
        BY <3>1, <4>1
    <3> QED
      BY <3>4, <3>5
  <2> QED
    BY <2>1, <2>2, <2>3 DEF ChainStep
<1>2. CASE Asks
  <2>1. InLineOK'
    BY <1>0, <1>1, <1>2, WaitSame
  <2>2. OnChainOK'
    BY <1>0, <1>2, StepsFrame DEF Send
  <2>3. HeardOK'
    BY <1>1, <1>2, HeardSend
  <2> QED
    BY <2>1, <2>2, <2>3 DEF NobodyIsForgotten
<1>3. ASSUME NEW v, Ends(v) PROVE NobodyIsForgotten'
  <2>1. \A p \in Ops : StepOf(Running, p) => p = Owner[Running.hold]
    BY DEF StepOf
  <2>2. \A p \in Ops : pc'[p] = IF StepOf(Running, p) THEN v ELSE pc[p]
    BY <1>0, <1>3, <2>1 DEF TurnType
  <2>3. InLineOK'
    <3>1. \A p \in Ops : pc'[p] = "waiting" => pc[p] = "waiting"
      BY <1>3, <2>2
    <3> QED
      BY <1>0, <1>1, <3>1, WaitSame
  <2>4. OnChainOK'
    <3>1. \A p \in Ops : pc'[p] \in {"taking", "ending"} =>
              pc[p] \in {"taking", "ending"} /\ ~StepOf(Running, p)
      BY <1>3, <2>2
    <3> QED
      BY <1>0, <1>1, <1>3, <3>1, StepsDone
  <2> QED
    BY <1>3, <2>3, <2>4, HeardDone DEF NobodyIsForgotten
<1> QED
  BY <1>1, <1>2, <1>3

(* A step that is no operation's and none of the chain: at most it queues  *)
(* one.                                                                    *)
LEMMA OthersForgetNobody ==
  ASSUME TurnInv, WireInv, TurnInv', NobodyIsForgotten, UNCHANGED <<turnVars, opVars>>,
         NEW s, UNCHANGED chainVars \/ Enqueue(s)
  PROVE  NobodyIsForgotten'
<1>0. /\ InLineOK /\ OnChainOK /\ HeardOK /\ ChainType /\ chain \in Seq(Step)
  BY Parts DEF NobodyIsForgotten, ChainType
<1>1. pc' = pc
  BY DEF opVars
<1>2. InLineOK'
  BY <1>0, <1>1, WaitSame
<1>3. OnChainOK'
  BY <1>0, <1>1, StepsFrame, StepsAppend DEF chainVars
<1>4. HeardOK'
  BY <1>0, HeardSame DEF chainVars, Enqueue
<1> QED
  BY <1>2, <1>3, <1>4 DEF NobodyIsForgotten

(* The controller answers what the call can hear. *)
LEMMA ControllerForgetsNobody ==
  ASSUME TurnInv, WireInv, TurnInv', NobodyIsForgotten, Controller
  PROVE  NobodyIsForgotten'
<1>0. /\ InLineOK /\ OnChainOK /\ HeardOK /\ ChainType
  BY Parts DEF NobodyIsForgotten
<1>1. /\ chain' = chain /\ UNCHANGED <<turnVars, opVars>>
      /\ wire' = wire \/ (wire.msg # "none" /\ \E a \in MayHear(wire.msg) : Answer(a))
  BY DEF Controller, Serve, ServeRequest, ServeRelease, ServeHeldByMe, ServeCheck, Revoke, chainVars, MayHear
<1>2. InLineOK' /\ OnChainOK'
  BY <1>0, <1>1, WaitSame, StepsFrame DEF opVars
<1>3. HeardOK'
  <2>1. CASE wire' = wire
    BY <1>0, <1>1, <2>1, HeardSame
  <2>2. CASE wire.msg # "none" /\ \E a \in MayHear(wire.msg) : Answer(a)
    <3>1. PICK a \in MayHear(wire.msg) : Answer(a)
      BY <2>2
    <3>2. wire # NoWire /\ wire'.msg = wire.msg /\ wire'.answer = a
      BY <1>0, <2>2, <3>1 DEF NoWire, Answer, ChainType, WireType
    <3> QED
      BY <1>0, <1>1, <3>1, <3>2 DEF HeardOK, Running
  <2> QED
    BY <1>1, <2>1, <2>2
<1> QED
  BY <1>2, <1>3 DEF NobodyIsForgotten

(* Whatever times out, is lost, fails or ends in between: who waits for    *)
(* the turn is in line for it, who waits for a hold has its step on the    *)
(* chain, and the chain goes on from every answer.                         *)
THEOREM NobodyHangs == Spec => []NobodyIsForgotten
<1>1. Init => NobodyIsForgotten
  BY DEF Init, NobodyIsForgotten, InLineOK, OnChainOK, HeardOK
<1>2. TurnInv /\ WireInv /\ TurnInv' /\ NobodyIsForgotten /\ [Next]_vars => NobodyIsForgotten'
  <2> SUFFICES ASSUME TurnInv, WireInv, TurnInv', NobodyIsForgotten, [Next]_vars
               PROVE  NobodyIsForgotten'
    OBVIOUS
  <2>1. ASSUME UNCHANGED <<turnVars, opVars, chainVars>> PROVE NobodyIsForgotten'
    BY <2>1, OthersForgetNobody
  <2>2. ASSUME UNCHANGED <<turnVars, opVars>>, NEW s, Enqueue(s) PROVE NobodyIsForgotten'
    BY <2>2, OthersForgetNobody
  <2>3. CASE UNCHANGED vars
    BY <2>1, <2>3 DEF vars
  <2>4. CASE PublicCall
    BY <2>1, <2>2, <2>4 DEF PublicCall, RequestPublic, ReleasePublic, RequestPublicAll, ReleasePublicAll
  <2>5. CASE LossEvent
    BY <2>1, <2>2, <2>5 DEF LossEvent, ModeChange, ModeChangeRead, ConnectionLost, SessionReissued,
                           CheckAnswered, WatchdogLapse, Lose, chainVars
  <2>6. CASE SessionStep
    <3>1. CASE RefuseNewTurns
      <4>1. /\ UNCHANGED chainVars
            /\ \A p \in Ops : pc'[p] # "waiting" /\ (pc'[p] = pc[p] \/ pc'[p] = "idle")
        BY <3>1 DEF RefuseNewTurns, RejectWaiters
      <4>2. OnChainOK' /\ InLineOK'
        BY <4>1, StepsFrame DEF NobodyIsForgotten, InLineOK, chainVars
      <4>3. HeardOK'
        BY <4>1, Parts, HeardSame DEF NobodyIsForgotten, chainVars
      <4> QED
        BY <4>2, <4>3 DEF NobodyIsForgotten
    <3>2. CASE ~RefuseNewTurns
      BY <2>1, <2>6, <3>2 DEF SessionStep, Disconnect, DrainTimeout, Teardown, Connect
    <3> QED
      BY <3>1, <3>2
  <2> QED
    BY <2>3, <2>4, <2>5, <2>6, OperationForgetsNobody, ChainForgetsNobody, ControllerForgetsNobody DEF Next
<1> QED
  BY <1>1, <1>2, TurnInvariant, PTL DEF Spec

-----------------------------------------------------------------------------
(* Requests for access.                                                    *)

(* A request on behalf of an operation is sent by the start of its step,   *)
(* which looks at the operation's losses.                                  *)
LEMMA RequestLooks ==
  ASSUME TurnInv, WireInv, [Next]_vars, wire' # wire, wire' = Call("request", wire'.locks),
         Running.kind = "acquire", NEW p \in Ops, Owner[Running.hold] = p
  PROVE  ~lost[p]
<1>0. ChainType
  BY Parts
<1>1. wire'.msg = "request" /\ wire'.answer = "pending" /\ wire' # NoWire
  BY DEF Call, NoWire
<1>2. wire' = wire => FALSE
  OBVIOUS
<1>3. ~StepDone /\ \A L : ~Send("release", L) /\ ~Send("heldByMe", L)
  BY <1>1 DEF StepDone, Send, Call
<1>4. CASE StartAcquire
  BY <1>2, <1>3, <1>4 DEF StartAcquire, Barred, Granted, NotGranted
<1>5. CASE AnswerAcquire \/ AnswerHeldByMe
  BY <1>3, <1>5 DEF AnswerAcquire, AnswerHeldByMe, Granted, NotGranted
<1>6. CASE ChainStep /\ ~StartAcquire /\ ~AnswerAcquire /\ ~AnswerHeldByMe
  <2>1. Running.kind # "acquire"
    BY <1>6 DEF ChainStep, StartRelease, StartForget, StartPlainRelease, StartAcquireAll, StartReleaseAll,
         StartAfterLoss, AnswerRelease, AnswerPlainRelease, AnswerAcquireAll, AnswerUndo, AnswerReleaseAll,
         AnswerAfterLoss, Starts
  <2>2. QED BY <2>1
<1>7. CASE Controller
  <2>1. wire' = wire \/ \E a \in {"ok", "noAnswer", "alreadyHeld", "refused", "failed", "notHeld", "held"} : Answer(a)
    BY <1>7 DEF Controller, Serve, ServeRequest, ServeRelease, ServeHeldByMe, ServeCheck, Revoke, chainVars
  <2>2. QED BY <2>1, <1>0, <1>1 DEF Answer, ChainType, WireType
<1>8. wire' = wire \/ ChainStep \/ Controller
  BY DEF Next, vars, chainVars, Operation, EnterTurn, QueueTimeout, LeaveTurn, Take, Nest, Unwind, BodyEnds,
         BodyRefused, BodyRestarts, PublicCall, RequestPublic, ReleasePublic, RequestPublicAll,
         ReleasePublicAll, LossEvent, ModeChange, ModeChangeRead, ConnectionLost, SessionReissued,
         CheckAnswered, WatchdogLapse, Lose, SessionStep, RefuseNewTurns, Disconnect, DrainTimeout,
         Teardown, Connect, Enqueue
<1>9. QED BY <1>4, <1>5, <1>6, <1>7, <1>8

(* An operation that has lost a hold sends no request for access, not even *)
(* one that was on the chain when the hold was lost.                       *)
THEOREM LostOperationAsksNothing == Spec => LostAsksNoMore
<1>1. TurnInv /\ WireInv /\ [Next]_vars =>
        [\A p \in Ops : (wire' # wire /\ wire' = Call("request", wire'.locks)
                         /\ Running.kind = "acquire" /\ Owner[Running.hold] = p) => ~lost[p]]_vars
  BY RequestLooks
<1>2. QED BY <1>1, TurnInvariant, PTL DEF Spec, LostAsksNoMore

-----------------------------------------------------------------------------
(***************************************************************************)
(* Reference counting against the controller: HoldsHonoured,               *)
(* ReleaseSparesHolds and the refinement of CountedLock, for every set of  *)
(* locks, operations, public holds and groups; HoldsEndWithTurn; and what  *)
(* a lock's record may say, FreshAfterLoss and IdleIsNotHeld, for the      *)
(* controllers whose locks are taken one by one.                           *)
(***************************************************************************)

(* The lock is this session's, or somebody took it since its grant. *)
Safe(l) == holder[l] = "me" \/ l \in revoked

(* Between the calls of a step its loop is over, and while a call is on    *)
(* the wire nothing is counted on its locks, or on those its loop has left *)
(* to do or to undo (an after-loss release looks at the count again).      *)
WireUncounted ==
    /\ wire = NoWire => loop = NoLoop
    /\ \A l \in wire.locks : ~Counted(l)
    /\ wire # NoWire /\ Running.kind # "afterLoss" =>
          \A l \in loop.todo \cup loop.done : ~Counted(l)

(* A grant the client has yet to act on is the controller's. *)
GrantKept ==
    /\ wire.msg = "request" /\ wire.answer \in {"ok", "alreadyHeld"} =>
          \A l \in wire.locks : Safe(l)
    /\ wire.msg = "heldByMe" /\ wire.answer = "held" => \A l \in wire.locks : Safe(l)

(* acquireAll has, was granted or will ask for every lock. *)
GroupCovered ==
    wire.msg = "request" /\ Running.kind = "acquireAll" =>
       \A l \in Locks : l \in wire.locks \cup loop.todo \/ Safe(l)

LockInv == HoldsHonoured /\ WireUncounted /\ GrantKept /\ GroupCovered

(* The facts a step starts from. *)
Known == TurnInv /\ WireInv /\ LockInv

LEMMA KnownParts ==
  ASSUME Known
  PROVE  /\ TypeOK /\ ControllerType /\ HoldType /\ ChainType /\ TurnInv /\ WireInv /\ LockInv
         /\ HoldsHonoured /\ WireUncounted /\ GrantKept /\ GroupCovered
BY Parts DEF Known, LockInv

(* Fewer holds count fewer locks. *)
LEMMA FewerHolds ==
  ASSUME holds' \subseteq holds
  PROVE  \A l : Counted(l)' => Counted(l)
BY DEF Counted, CountedIn

(* A step off the wire: holds may end, and no lock is given up. *)
LEMMA OffWire ==
  ASSUME Known, holds' \subseteq holds, \A l \in Locks : Safe(l) => Safe(l)',
         NEW s, UNCHANGED chainVars \/ Enqueue(s)
  PROVE  LockInv'
<1>0. HoldsHonoured /\ WireUncounted /\ GrantKept /\ GroupCovered /\ ChainType /\ WireInv
  BY KnownParts
<1>1. wire' = wire /\ loop' = loop /\ (chain' = chain \/ Enqueue(s))
  BY DEF chainVars, Enqueue
<1>2. \A l : Counted(l)' => Counted(l)
  BY FewerHolds
<1>3. wire # NoWire => Running' = Running
  BY <1>0, <1>1, SameRunning
<1>4. HoldsHonoured'
  BY <1>0, <1>2 DEF HoldsHonoured, Safe
<1>5. WireUncounted'
  BY <1>0, <1>1, <1>2, <1>3 DEF WireUncounted
<1>6. wire.locks \subseteq Locks
  BY <1>0 DEF ChainType, WireType
<1>7. GrantKept'
  BY <1>0, <1>1, <1>6 DEF GrantKept
<1>8. GroupCovered'
  <2>1. CASE wire = NoWire
    BY <2>1, <1>1 DEF GroupCovered, NoWire
  <2>2. CASE wire # NoWire
    BY <2>2, <1>0, <1>1, <1>3 DEF GroupCovered
  <2>3. QED BY <2>1, <2>2
<1>9. QED BY <1>4, <1>5, <1>7, <1>8 DEF LockInv

(* The running step is done: only the counts matter. *)
LEMMA DoneKeeps ==
  ASSUME StepDone, HoldsHonoured'
  PROVE  LockInv'
<1>1. wire' = NoWire /\ loop' = NoLoop
  BY DEF StepDone
<1>2. WireUncounted' /\ GrantKept' /\ GroupCovered'
  BY <1>1 DEF WireUncounted, GrantKept, GroupCovered, NoWire, NoLoop
<1>3. QED BY <1>2 DEF LockInv

(* The running step sends a call about locks on which nothing is counted. *)
LEMMA SendKeeps ==
  ASSUME Known, holds' \subseteq holds, UNCHANGED controller,
         NEW m \in {"request", "release", "heldByMe"}, NEW L \in SUBSET Locks, Send(m, L),
         \A l \in L : ~Counted(l)',
         Running.kind # "afterLoss" => \A l \in loop'.todo \cup loop'.done : ~Counted(l)',
         m = "request" /\ Running.kind = "acquireAll" =>
            \A l \in Locks : l \in L \cup loop'.todo \/ Safe(l)
  PROVE  LockInv'
<1>0. HoldsHonoured
  BY KnownParts
<1>1. wire' = Call(m, L) /\ Running' = Running
  BY DEF Send, Running
<1>2. wire'.msg = m /\ wire'.locks = L /\ wire'.answer = "pending" /\ wire' # NoWire
  BY <1>1 DEF Call, NoWire
<1>3. \A l : Counted(l)' => Counted(l)
  BY FewerHolds
<1>4. \A l \in Locks : Safe(l)' <=> Safe(l)
  BY DEF Safe, controller
<1>5. HoldsHonoured'
  BY <1>0, <1>3, <1>4 DEF HoldsHonoured, Safe
<1>6. WireUncounted'
  BY <1>1, <1>2 DEF WireUncounted
<1>7. GrantKept' /\ GroupCovered'
  BY <1>1, <1>2, <1>4 DEF GrantKept, GroupCovered
<1>8. QED BY <1>5, <1>6, <1>7 DEF LockInv

(* The locks a step starts with: none is in its loop. *)
LEMMA StartsClean ==
  ASSUME Known, NEW k, Starts(k)
  PROVE  chain # <<>> /\ Running.kind = k /\ loop = NoLoop
BY KnownParts DEF Starts, WireUncounted

(* A hold on a lock that is counted, or was granted, is counted. *)
LEMMA CountMore ==
  ASSUME Known, NEW H \in SUBSET Hold, holds' \subseteq holds \cup H,
         UNCHANGED controller, \A h \in H : Safe(LockOf[h])
  PROVE  HoldsHonoured'
BY KnownParts DEF HoldsHonoured, Counted, CountedIn, Safe, controller

LEMMA LockAcquire ==
  ASSUME Known, StartAcquire \/ AnswerAcquire \/ AnswerHeldByMe
  PROVE  LockInv'
<1> DEFINE h == Running.hold
<1>0. HoldsHonoured /\ WireUncounted /\ GrantKept /\ ChainType /\ WireInv /\ TypeOK
  BY KnownParts
<1>1. chain # <<>> /\ Running.kind = "acquire"
  BY <1>0, AnsweredRuns DEF StartAcquire, AnswerAcquire, AnswerHeldByMe, Starts
<1>2. UNCHANGED controller
  BY DEF StartAcquire, AnswerAcquire, AnswerHeldByMe
<1>3. h \in Hold /\ LockOf[h] \in Locks /\ {LockOf[h]} \in SUBSET Locks
  BY <1>0, <1>1, RunningType, LockOfType
<1>4. CASE Granted(h)
  <2>1. Safe(LockOf[h])
    <3>1. CASE StartAcquire
      <4>1. Counted(LockOf[h])
        <5>1. wire' = NoWire
          BY <1>4 DEF Granted, StepDone
        <5>2. holds' = holds \cup {h} /\ h \in holds'
          BY <1>4 DEF Granted
        <5>3. \/ NotGranted(h) \/ Counted(LockOf[h]) \/ Send("request", {LockOf[h]})
          BY <3>1 DEF StartAcquire
        <5>4. NotGranted(h) => h \in holds
          BY <5>2 DEF NotGranted
        <5>5. ~Send("request", {LockOf[h]})
          BY <5>1 DEF Send, Call, NoWire
        <5>6. QED BY <5>3, <5>4, <5>5 DEF Counted, CountedIn
      <4>2. QED BY <4>1, <1>0, <1>3 DEF HoldsHonoured, Safe
    <3>2. CASE AnswerAcquire \/ AnswerHeldByMe
      <4>1. wire.locks = {LockOf[h]} /\ wire # NoWire
        BY <3>2, <1>0, <1>1, AnsweredRuns DEF AnswerAcquire, AnswerHeldByMe, Answered, NoWire
      <4>2. h \in holds' /\ wire' = NoWire
        BY <1>4 DEF Granted, StepDone
      <4>3. ~Counted(LockOf[h])
        BY <4>1, <1>0 DEF WireUncounted
      <4>4. h \notin holds
        BY <4>3 DEF Counted, CountedIn
      <4>5. ~NotGranted(h)
        BY <4>2, <4>4 DEF NotGranted
      <4>6. ~Send("heldByMe", {LockOf[h]})
        BY <4>2 DEF Send, Call, NoWire
      <4>7. \/ wire.msg = "request" /\ wire.answer \in {"ok", "alreadyHeld"}
            \/ wire.msg = "heldByMe" /\ wire.answer = "held"
        BY <3>2, <4>5, <4>6 DEF AnswerAcquire, AnswerHeldByMe, Answered
      <4>8. QED BY <4>1, <4>7, <1>0 DEF GrantKept
    <3>3. QED BY <3>1, <3>2
  <2>2. holds' = holds \cup {h} /\ StepDone
    BY <1>4 DEF Granted
  <2> HIDE DEF h
  <2>3. {h} \in SUBSET Hold /\ \A k \in {h} : Safe(LockOf[k])
    BY <1>3, <2>1
  <2>4. HoldsHonoured'
    BY <1>2, <2>2, <2>3, CountMore
  <2>5. QED BY <2>2, <2>4, DoneKeeps
<1>5. CASE NotGranted(h)
  <2>1. holds' = holds /\ StepDone
    BY <1>5 DEF NotGranted
  <2>2. HoldsHonoured'
    BY <2>1, <1>0, <1>2 DEF HoldsHonoured, Counted, CountedIn, controller
  <2>3. QED BY <2>1, <2>2, DoneKeeps
<1>6. CASE /\ \E m \in {"request", "heldByMe"} : Send(m, {LockOf[h]})
           /\ UNCHANGED <<loop, holds>> /\ (Starts("acquire") \/ wire # NoWire)
           /\ (~Counted(LockOf[h]) \/ LockOf[h] \in wire.locks)
  <2>1. ~Counted(LockOf[h])
    BY <1>6, <1>0 DEF WireUncounted
  <2>2. \A l : Counted(l)' <=> Counted(l)
    BY <1>6 DEF Counted, CountedIn
  <2>3. \A l \in loop.todo \cup loop.done : ~Counted(l)
    <3>1. CASE Starts("acquire")
      BY <3>1, StartsClean DEF NoLoop
    <3>2. CASE wire # NoWire
      BY <3>2, <1>0, <1>1 DEF WireUncounted
    <3>3. QED BY <1>6, <3>1, <3>2
  <2>4. PICK m \in {"request", "heldByMe"} : Send(m, {LockOf[h]})
    BY <1>6
  <2> HIDE DEF h
  <2>5. QED BY <1>1, <1>2, <1>3, <1>6, <2>1, <2>2, <2>3, <2>4, SendKeeps
<1>7. QED
  <2>1. CASE StartAcquire
    BY <2>1, <1>4, <1>5, <1>6 DEF StartAcquire
  <2>2. CASE AnswerAcquire
    <3>1. wire.locks = {LockOf[h]} /\ wire # NoWire
      BY <2>2, <1>0, <1>1, AnsweredRuns DEF AnswerAcquire, Answered, NoWire
    <3>2. QED BY <2>2, <3>1, <1>4, <1>5, <1>6 DEF AnswerAcquire
  <2>3. CASE AnswerHeldByMe
    BY <2>3, <1>4, <1>5 DEF AnswerHeldByMe
  <2>4. QED BY <2>1, <2>2, <2>3

(* Released ends holds and counts none. *)
LEMMA ReleasedFewer ==
  ASSUME NEW L, NEW ending, Released(L, ending)
  PROVE  holds' \subseteq holds
BY DEF Released, EndHolds

(* Ending holds keeps the counts honest. *)
LEMMA FewerHonoured ==
  ASSUME Known, holds' \subseteq holds, UNCHANGED controller
  PROVE  HoldsHonoured' /\ \A l : Counted(l)' => Counted(l)
BY KnownParts, FewerHolds DEF HoldsHonoured, controller

LEMMA LockRelease ==
  ASSUME Known, StartRelease \/ StartForget \/ AnswerRelease
  PROVE  LockInv'
<1> DEFINE h == Running.hold
<1>0. ChainType /\ WireInv
  BY KnownParts
<1>1. holds' \subseteq holds /\ UNCHANGED controller
  BY ReleasedFewer DEF StartRelease, StartForget, AnswerRelease
<1>2. CASE StepDone
  BY <1>1, <1>2, FewerHonoured, DoneKeeps
<1>3. CASE /\ Starts("release") /\ holds' = holds \ {h} /\ Send("release", {LockOf[h]})
           /\ ~CountedIn(holds \ {h}, LockOf[h]) /\ loop' = loop
  <2>1. chain # <<>> /\ Running.kind = "release" /\ loop = NoLoop
    BY <1>3, StartsClean
  <2>2. {LockOf[h]} \in SUBSET Locks
    BY <2>1, <1>0, RunningType, LockOfType
  <2>3. ~Counted(LockOf[h])'
    <3>1. PICK k : k = LockOf[h]
      OBVIOUS
    <3>2. ~CountedIn(holds', k)
      BY <1>3, <3>1
    <3>3. QED BY <1>1, <1>3, <3>1, <3>2 DEF Counted, CountedIn, Send, Running
  <2>4. loop'.todo \cup loop'.done = {}
    BY <1>3, <2>1 DEF NoLoop
  <2>5. PICK k : k = LockOf[h]
    OBVIOUS
  <2>6. Running' = Running
    BY <1>3 DEF Send, Running
  <2>7. \A l \in {k} : ~Counted(l)'
    BY <2>3, <2>5, <2>6
  <2>8. QED BY <1>1, <1>3, <2>1, <2>2, <2>4, <2>5, <2>7, SendKeeps
<1>4. QED
  BY <1>2, <1>3 DEF StartRelease, StartForget, AnswerRelease, LastHold

LEMMA LockPlain ==
  ASSUME Known, StartPlainRelease \/ AnswerPlainRelease \/ StartAfterLoss \/ AnswerAfterLoss
  PROVE  LockInv'
<1>0. ChainType /\ WireInv
  BY KnownParts
<1>1. holds' \subseteq holds /\ UNCHANGED controller
  BY ReleasedFewer DEF StartPlainRelease, AnswerPlainRelease, StartAfterLoss, AnswerAfterLoss
<1>2. CASE StepDone
  BY <1>1, <1>2, FewerHonoured, DoneKeeps
<1>3. \A l : Counted(l)' => Counted(l)
  BY <1>1, FewerHonoured
<1>4. CASE /\ Starts("plainRelease") /\ Send("release", {Running.lock}) /\ ~Counted(Running.lock)
           /\ loop' = loop
  <2>1. chain # <<>> /\ Running.kind = "plainRelease" /\ loop'.todo \cup loop'.done = {}
    BY <1>4, StartsClean DEF NoLoop
  <2>2. {Running.lock} \in SUBSET Locks
    BY <2>1, <1>0, RunningType
  <2>3. PICK k : k = Running.lock
    OBVIOUS
  <2>4. QED BY <1>1, <1>3, <1>4, <2>1, <2>2, <2>3, SendKeeps
<1>5. CASE /\ Running.kind = "afterLoss"
           /\ \E T \in SUBSET Locks : \E l \in T : ~Counted(l) /\ Send("release", {l})
  <2>1. PICK l \in Locks : ~Counted(l) /\ Send("release", {l})
    BY <1>5
  <2>2. QED BY <1>1, <1>3, <1>5, <2>1, SendKeeps
<1>6. CASE StartPlainRelease \/ AnswerPlainRelease
  BY <1>2, <1>4, <1>6 DEF StartPlainRelease, AnswerPlainRelease
<1>7. CASE StartAfterLoss \/ AnswerAfterLoss
  <2>1. chain # <<>> /\ Running.kind = "afterLoss"
    BY <1>7, <1>0, AnsweredRuns DEF StartAfterLoss, AnswerAfterLoss, Starts
  <2>2. PICK T \in SUBSET Locks : NextAfterLoss(T)
    <3>1. CASE StartAfterLoss
      BY <3>1, <1>0, <2>1, RunningType DEF StartAfterLoss
    <3>2. CASE AnswerAfterLoss
      BY <3>2, <1>0 DEF AnswerAfterLoss, ChainType
    <3>3. QED BY <1>7, <3>1, <3>2
  <2>3. StepDone \/ \E l \in T : ~Counted(l) /\ Send("release", {l})
    BY <2>2 DEF NextAfterLoss
  <2>4. QED BY <1>2, <1>5, <2>1, <2>3
<1>8. QED BY <1>6, <1>7

LEMMA LockGroupAcquire ==
  ASSUME Known, StartAcquireAll \/ AnswerAcquireAll \/ AnswerUndo
  PROVE  LockInv'
<1>0. ChainType /\ WireInv /\ HoldsHonoured /\ WireUncounted /\ GrantKept /\ GroupCovered
  BY KnownParts
<1>1. chain # <<>> /\ Running.kind = "acquireAll"
  BY <1>0, AnsweredRuns DEF StartAcquireAll, AnswerAcquireAll, AnswerUndo, Starts
<1>2. UNCHANGED controller
  BY DEF StartAcquireAll, AnswerAcquireAll, AnswerUndo
<1>3. Running.group \in Groups /\ GroupHolds[Running.group] \in SUBSET Hold
      /\ \A h \in GroupHolds[Running.group] : LockOf[h] \in Locks
  BY <1>0, <1>1, RunningType, ConstAssumption
<1>4. ASSUME GroupGranted(Running.group), \A l \in Locks : Safe(l)
      PROVE  LockInv'
  <2>1. StepDone /\ holds' = holds \cup GroupHolds[Running.group]
    BY <1>4 DEF GroupGranted
  <2>2. PICK H \in SUBSET Hold : H = GroupHolds[Running.group]
    BY <1>3
  <2>3. HoldsHonoured'
    BY <1>2, <1>3, <1>4, <2>1, <2>2, CountMore
  <2>4. QED BY <2>1, <2>3, DoneKeeps
<1>5. ASSUME GroupRefused(Running.group)
      PROVE  LockInv'
  BY <1>2, <1>5, FewerHonoured, DoneKeeps DEF GroupRefused
<1>6. ASSUME holds' = holds
      PROVE  \A l : Counted(l)' <=> Counted(l)
  BY <1>6 DEF Counted, CountedIn
<1>7. CASE StartAcquireAll
  <2> DEFINE free == {l \in Locks : ~Counted(l)}
  <2>1. \A l \in Locks : l \in free \/ Safe(l)
    BY <1>0 DEF HoldsHonoured, Safe
  <2>2. \A l \in free : ~Counted(l)
    OBVIOUS
  <2>3. loop = NoLoop
    BY <1>7, StartsClean DEF StartAcquireAll
  <2>4. \/ free = {} /\ GroupGranted(Running.group)
        \/ free = Locks /\ Send("request", Locks) /\ loop' = loop /\ holds' = holds
        \/ \E l \in free : /\ Send("request", {l})
                           /\ loop' = [NoLoop EXCEPT !.todo = free \ {l}] /\ holds' = holds
    BY <1>7 DEF StartAcquireAll
  <2>5. free \in SUBSET Locks
    OBVIOUS
  <2> HIDE DEF free
  <2>6. CASE free = {} /\ GroupGranted(Running.group)
    BY <2>1, <2>6, <1>4
  <2>7. CASE free = Locks /\ Send("request", Locks) /\ loop' = loop /\ holds' = holds
    <3>1. loop'.todo \cup loop'.done = {}
      BY <2>3, <2>7 DEF NoLoop
    <3>2. \A l \in Locks : ~Counted(l)'
      BY <2>2, <2>7, <1>6
    <3>3. QED BY <1>2, <2>7, <3>1, <3>2, SendKeeps
  <2>8. ASSUME NEW l \in free, Send("request", {l}), loop' = [NoLoop EXCEPT !.todo = free \ {l}],
               holds' = holds
        PROVE  LockInv'
    <3>1. loop'.todo = free \ {l} /\ loop'.done = {}
      BY <2>8 DEF NoLoop
    <3>2. \A k \in free : ~Counted(k)'
      BY <2>2, <2>8, <1>6
    <3>3. \A k \in Locks : k \in {l} \cup loop'.todo \/ Safe(k)
      BY <2>1, <3>1
    <3>4. {l} \in SUBSET Locks
      BY <2>5
    <3>5. QED BY <1>2, <2>8, <3>1, <3>2, <3>3, <3>4, SendKeeps
  <2>9. QED BY <2>4, <2>6, <2>7, <2>8
<1>8. CASE AnswerAcquireAll \/ AnswerUndo
  <2>1. wire # NoWire /\ wire.locks \in SUBSET Locks /\ loop \in [todo : SUBSET Locks, done : SUBSET Locks]
    <3>0. wire.msg # "none"
      BY <1>8 DEF AnswerAcquireAll, AnswerUndo, Answered
    <3>1. wire # NoWire
      BY <3>0 DEF NoWire
    <3>2. QED BY <3>1, <1>0 DEF ChainType, WireType
  <2>2. \A l \in wire.locks \cup loop.todo \cup loop.done : ~Counted(l)
    BY <2>1, <1>0, <1>1 DEF WireUncounted
  <2>3. ASSUME NEW l \in loop.done, Send("release", {l}), loop' = [loop EXCEPT !.done = @ \ {l}],
               holds' = holds
        PROVE  LockInv'
    <3>1. loop'.todo = loop.todo /\ loop'.done = loop.done \ {l}
      BY <2>1, <2>3
    <3>2. \A k \in loop'.todo \cup loop'.done \cup {l} : ~Counted(k)'
      BY <2>2, <2>3, <3>1, <1>6
    <3>3. {l} \in SUBSET Locks
      BY <2>1
    <3>4. QED BY <1>2, <2>3, <3>2, <3>3, SendKeeps
  <2>4. CASE AnswerAcquireAll
    <3> DEFINE done == loop.done \cup wire.locks
    <3>1. wire.msg = "request"
      BY <2>4 DEF AnswerAcquireAll, Answered
    <3>2. \A l \in Locks : l \in wire.locks \cup loop.todo \/ Safe(l)
      BY <3>1, <1>0, <1>1 DEF GroupCovered
    <3>3. wire.answer = "ok" => \A l \in wire.locks : Safe(l)
      BY <3>1, <1>0 DEF GrantKept
    <3>4. CASE wire.answer = "ok" /\ loop.todo = {} /\ GroupGranted(Running.group)
      BY <3>2, <3>3, <3>4, <1>4
    <3>5. ASSUME wire.answer = "ok", NEW l \in loop.todo, Send("request", {l}),
                 loop' = [loop EXCEPT !.todo = @ \ {l}, !.done = done], holds' = holds
          PROVE  LockInv'
      <4>1. loop'.todo = loop.todo \ {l} /\ loop'.done = loop.done \cup wire.locks
        BY <2>1, <3>5
      <4>2. \A k \in loop'.todo \cup loop'.done \cup {l} : ~Counted(k)'
        BY <2>2, <3>5, <4>1, <1>6
      <4>3. {l} \in SUBSET Locks
        BY <2>1
      <4>4. \A k \in Locks : k \in {l} \cup loop'.todo \/ Safe(k)
        BY <3>2, <3>3, <3>5, <4>1
      <4>5. QED BY <1>2, <3>5, <4>2, <4>3, <4>4, SendKeeps
    <3>6. CASE GroupRefused(Running.group)
      BY <3>6, <1>5
    <3>7. QED BY <2>3, <2>4, <3>4, <3>5, <3>6 DEF AnswerAcquireAll
  <2>5. CASE AnswerUndo
    BY <2>3, <2>5, <1>5 DEF AnswerUndo
  <2>6. QED BY <1>8, <2>4, <2>5
<1>9. QED BY <1>7, <1>8

LEMMA LockGroupRelease ==
  ASSUME Known, StartReleaseAll \/ AnswerReleaseAll
  PROVE  LockInv'
<1>0. ChainType /\ WireInv /\ WireUncounted /\ HoldType
  BY KnownParts
<1>1. chain # <<>> /\ Running.kind = "releaseAll"
  BY <1>0, AnsweredRuns DEF StartReleaseAll, AnswerReleaseAll, Starts
<1>2. holds' \subseteq holds /\ UNCHANGED controller
  BY ReleasedFewer DEF StartReleaseAll, AnswerReleaseAll
<1>3. CASE StepDone
  BY <1>2, <1>3, FewerHonoured, DoneKeeps
<1>4. \A l : Counted(l)' => Counted(l)
  BY <1>2, FewerHonoured
<1>5. CASE StartReleaseAll
  <2> DEFINE left == holds \ Running.ending
             affects == {LockOf[h] : h \in Running.ending \cap holds}
             free == Freed(left, IF Running.own THEN affects ELSE Locks)
  <2>1. free \in SUBSET Locks
    BY <1>0, ConstAssumption DEF HoldType, Freed
  <2>2. /\ holds' = left
        /\ \/ StepDone
           \/ Send("release", free) /\ loop' = loop
           \/ \E l \in free : Send("release", {l}) /\ loop' = [NoLoop EXCEPT !.todo = free \ {l}]
    BY <1>5 DEF StartReleaseAll
  <2>3. \A l \in free : ~CountedIn(holds', l)
    BY <2>2 DEF Freed
  <2>4. loop = NoLoop
    BY <1>5, StartsClean DEF StartReleaseAll
  <2>5. PICK F \in SUBSET Locks : F = free
    BY <2>1
  <2>6. \A l \in F : ~Counted(l)'
    BY <2>3, <2>5 DEF Counted
  <2>7. \/ StepDone
        \/ Send("release", F) /\ loop' = loop
        \/ \E l \in F : Send("release", {l}) /\ loop' = [NoLoop EXCEPT !.todo = F \ {l}]
    BY <2>2, <2>5
  <2> HIDE DEF free, left
  <2>8. CASE Send("release", F) /\ loop' = loop
    <3>1. loop'.todo \cup loop'.done = {}
      BY <2>4, <2>8 DEF NoLoop
    <3>2. QED BY <1>1, <1>2, <2>6, <2>8, <3>1, SendKeeps
  <2>9. ASSUME NEW l \in F, Send("release", {l}), loop' = [NoLoop EXCEPT !.todo = F \ {l}]
        PROVE  LockInv'
    <3>1. loop'.todo = F \ {l} /\ loop'.done = {}
      BY <2>9 DEF NoLoop
    <3>2. \A k \in loop'.todo \cup loop'.done \cup {l} : ~Counted(k)'
      BY <2>6, <3>1
    <3>3. {l} \in SUBSET Locks
      OBVIOUS
    <3>4. QED BY <1>1, <1>2, <2>9, <3>2, <3>3, SendKeeps
  <2>10. QED BY <1>3, <2>7, <2>8, <2>9
<1>6. CASE AnswerReleaseAll
  <2>1. wire # NoWire /\ loop \in [todo : SUBSET Locks, done : SUBSET Locks]
    BY <1>6, <1>0 DEF AnswerReleaseAll, Answered, NoWire, ChainType
  <2>2. \A l \in loop.todo \cup loop.done : ~Counted(l)
    BY <2>1, <1>0, <1>1 DEF WireUncounted
  <2>3. ASSUME NEW l \in loop.todo, Send("release", {l}), loop' = [loop EXCEPT !.todo = @ \ {l}]
        PROVE  LockInv'
    <3>1. loop'.todo = loop.todo \ {l} /\ loop'.done = loop.done
      BY <2>1, <2>3
    <3>2. \A k \in loop'.todo \cup loop'.done \cup {l} : ~Counted(k)'
      BY <2>2, <1>4, <3>1
    <3>3. {l} \in SUBSET Locks
      BY <2>1
    <3>4. QED BY <1>1, <1>2, <2>3, <3>2, <3>3, SendKeeps
  <2>4. QED BY <1>3, <1>6, <2>3 DEF AnswerReleaseAll
<1>7. QED BY <1>5, <1>6

(* The controller serves a call: a grant makes its locks this session's, a *)
(* release gives up locks on which nothing is counted.                     *)
LEMMA LockServe ==
  ASSUME Known, Serve
  PROVE  LockInv'
<1>0. ChainType /\ WireInv /\ HoldsHonoured /\ WireUncounted /\ GrantKept /\ GroupCovered /\ ControllerType
  BY KnownParts
<1>1. UNCHANGED <<holds, chain, loop>> /\ Running' = Running
  BY DEF Serve, ServeRequest, ServeRelease, ServeHeldByMe, Running
<1>2. wire.locks \in SUBSET Locks /\ wire \in WireType
  BY <1>0 DEF ChainType, WireType
<1>3. PICK a \in {"ok", "noAnswer", "alreadyHeld", "refused", "failed", "notHeld", "held"} : Answer(a)
  BY DEF Serve, ServeRequest, ServeRelease, ServeHeldByMe
<1>4. wire'.msg = wire.msg /\ wire'.locks = wire.locks /\ wire'.answer = a
  BY <1>2, <1>3 DEF Answer, WireType
<1>5. wire.msg # "none" /\ wire # NoWire /\ wire' # NoWire
  BY <1>3, <1>4 DEF Serve, ServeRequest, ServeRelease, ServeHeldByMe, NoWire
<1>6. \A l : Counted(l)' <=> Counted(l)
  BY <1>1 DEF Counted, CountedIn
<1>7. WireUncounted'
  BY <1>0, <1>1, <1>4, <1>5, <1>6 DEF WireUncounted
<1>8. CASE ServeRequest
  <2>1. wire.msg = "request"
    BY <1>8 DEF ServeRequest
  <2>2. \A l \in Locks : Safe(l) => Safe(l)'
    BY <1>0, <1>8 DEF ServeRequest, Safe, controller, ControllerType
  <2>3. a \in {"ok", "alreadyHeld"} => \A l \in wire.locks : Safe(l)'
    <3>1. ASSUME a \in {"ok", "alreadyHeld"}
          PROVE  holder' = [l \in Locks |-> IF l \in wire.locks THEN "me" ELSE holder[l]]
      <4>1. wire'.answer \notin {"refused", "noAnswer"}
        BY <3>1, <1>4
      <4>2. ~Answer("refused") /\ ~Answer("noAnswer")
        BY <4>1, <1>2 DEF Answer, WireType
      <4>3. QED BY <1>8, <4>2 DEF ServeRequest
    <3>2. QED BY <3>1, <1>2 DEF Safe
  <2>4. HoldsHonoured'
    BY <1>0, <1>6, <2>2 DEF HoldsHonoured, Safe
  <2>5. GrantKept'
    BY <1>4, <2>1, <2>3 DEF GrantKept
  <2>6. GroupCovered'
    BY <1>0, <1>1, <1>4, <2>2 DEF GroupCovered
  <2>7. QED BY <1>7, <2>4, <2>5, <2>6 DEF LockInv
<1>9. CASE ServeRelease
  <2>1. wire.msg = "release" /\ revoked' = revoked
    BY <1>9 DEF ServeRelease
  <2>2. \A l \in Locks : holder'[l] = holder[l] \/ l \in wire.locks
    BY <1>9, <1>0 DEF ServeRelease, ControllerType
  <2>3. HoldsHonoured'
    BY <1>0, <1>6, <2>1, <2>2 DEF HoldsHonoured, WireUncounted
  <2>4. GrantKept' /\ GroupCovered'
    BY <1>4, <2>1 DEF GrantKept, GroupCovered
  <2>5. QED BY <1>7, <2>3, <2>4 DEF LockInv
<1>10. CASE ServeHeldByMe
  <2>1. wire.msg = "heldByMe" /\ holder' = holder /\ revoked' = revoked
    BY <1>10 DEF ServeHeldByMe, controller
  <2>2. a = "held" => \A l \in wire.locks : holder[l] = "me"
    <3>1. ASSUME a = "held"
          PROVE  ~Answer("failed") /\ ~Answer("notHeld")
      BY <3>1, <1>2, <1>4 DEF Answer, WireType
    <3>2. QED BY <3>1, <1>10 DEF ServeHeldByMe
  <2>3. HoldsHonoured'
    BY <1>0, <1>6, <2>1 DEF HoldsHonoured
  <2>4. GrantKept' /\ GroupCovered'
    BY <1>4, <2>1, <2>2 DEF GrantKept, GroupCovered, Safe
  <2>5. QED BY <1>7, <2>3, <2>4 DEF LockInv
<1>11. QED BY <1>8, <1>9, <1>10 DEF Serve

(* The steps off the wire: nobody but this client's release gives up a     *)
(* lock without a trace in `revoked`.                                      *)
LEMMA LockOffWire ==
  ASSUME Known,
         \/ \E p \in Ops : Operation(p)
         \/ PublicCall \/ LossEvent \/ SessionStep
         \/ \E l \in Locks : ServeCheck(l) \/ Revoke(l)
  PROVE  LockInv'
<1>0. ControllerType
  BY KnownParts
<1>1. \E s : UNCHANGED chainVars \/ Enqueue(s)
  BY DEF Operation, EnterTurn, QueueTimeout, LeaveTurn, Take, Nest, Unwind, BodyEnds, BodyRefused,
         BodyRestarts, PublicCall, RequestPublic, ReleasePublic, RequestPublicAll, ReleasePublicAll,
         LossEvent, ModeChange, ModeChangeRead, ConnectionLost, SessionReissued, CheckAnswered,
         WatchdogLapse, Lose, SessionStep, RefuseNewTurns, Disconnect, DrainTimeout, Teardown, Connect,
         ServeCheck, Revoke
<1>2. holds' \subseteq holds
  BY DEF Operation, EnterTurn, QueueTimeout, LeaveTurn, Take, Nest, Unwind, BodyEnds, BodyRefused,
         BodyRestarts, PublicCall, RequestPublic, ReleasePublic, RequestPublicAll, ReleasePublicAll,
         LossEvent, ModeChange, ModeChangeRead, ConnectionLost, SessionReissued, CheckAnswered,
         WatchdogLapse, Lose, RecordLoss, EndHolds, SessionStep, RefuseNewTurns, Disconnect,
         DrainTimeout, Teardown, Connect, ServeCheck, Revoke
<1>3. \A l \in Locks : Safe(l) => Safe(l)'
  <2>1. CASE UNCHANGED controller
    BY <2>1 DEF controller, Safe
  <2>2. ASSUME NEW p \in Ops, BodyRestarts(p)
        PROVE  \A l \in Locks : Safe(l) => Safe(l)'
    BY <2>2 DEF BodyRestarts, Safe
  <2>3. CASE SessionReissued
    BY <2>3 DEF SessionReissued, Safe
  <2>4. ASSUME NEW F, Teardown(F)
        PROVE  \A l \in Locks : Safe(l) => Safe(l)'
    BY <2>4 DEF Teardown, Safe
  <2>5. ASSUME NEW k \in Locks, Revoke(k)
        PROVE  \A l \in Locks : Safe(l) => Safe(l)'
    BY <2>5, <1>0 DEF Revoke, Safe, ControllerType
  <2>6. QED
    BY <2>1, <2>2, <2>3, <2>4, <2>5
    DEF Operation, EnterTurn, QueueTimeout, LeaveTurn, Take, Nest, Unwind, BodyEnds, BodyRefused,
         PublicCall, RequestPublic, ReleasePublic, RequestPublicAll, ReleasePublicAll,
         LossEvent, ModeChange, ModeChangeRead, ConnectionLost, CheckAnswered,
         WatchdogLapse, SessionStep, RefuseNewTurns, Disconnect, DrainTimeout, Connect, ServeCheck
<1>4. QED BY <1>1, <1>2, <1>3, OffWire

LEMMA LockStep ==
  ASSUME Known, [Next]_vars
  PROVE  LockInv'
<1>1. CASE UNCHANGED vars
  <2>1. UNCHANGED <<holder, revoked, holds, chainVars>>
    BY <1>1 DEF vars, controller
  <2>2. \A l \in Locks : Safe(l) => Safe(l)'
    BY <2>1 DEF Safe
  <2>3. QED BY <2>1, <2>2, OffWire
<1>2. CASE ChainStep
  BY <1>2, LockAcquire, LockRelease, LockPlain, LockGroupAcquire, LockGroupRelease DEF ChainStep
<1>3. QED BY <1>1, <1>2, LockServe, LockOffWire DEF Next, Controller

LEMMA LockInvariant == Spec => []Known
<1>1. Init => LockInv
  <2> SUFFICES ASSUME Init PROVE LockInv
    OBVIOUS
  <2>1. \A l : ~Counted(l)
    BY DEF Init, Counted, CountedIn
  <2>2. wire = NoWire /\ loop = NoLoop
    BY DEF Init
  <2>3. QED BY <2>1, <2>2 DEF LockInv, HoldsHonoured, WireUncounted, GrantKept, GroupCovered, NoWire, NoLoop
<1>2. TurnInv /\ WireInv /\ LockInv /\ [Next]_vars => LockInv'
  BY LockStep DEF Known
<1>3. QED BY <1>1, <1>2, TurnInvariant, PTL DEF Spec, Known

(* A lock this session counts a hold on is this session's, unless somebody *)
(* else took it since its grant: no order of nested and overlapping holds, *)
(* losses, group requests, rollbacks and unanswered calls makes the client *)
(* release a lock it still counts or count one it was not granted.         *)
THEOREM CountIsHonoured == Spec => []HoldsHonoured
BY LockInvariant, PTL DEF Known, LockInv

(* A release on the wire is never for a lock something is counted on.      *)
THEOREM ReleaseIsLast == Spec => []ReleaseSparesHolds
<1>1. Known => ReleaseSparesHolds
  BY DEF Known, LockInv, WireUncounted, ReleaseSparesHolds
<1>2. QED BY <1>1, LockInvariant, PTL

-----------------------------------------------------------------------------
(* The refinement of CountedLock.                                          *)

(* With the controller's side unchanged holds end, or join locks that were *)
(* granted: what is counted after the step is honoured.                    *)
LEMMA AbsHolds ==
  ASSUME HoldType', HoldsHonoured', UNCHANGED controller,
         holds' \subseteq holds \/ holds \subseteq holds'
  PROVE  Abs!Next
<1>1. CASE holds' \subseteq holds
  BY <1>1 DEF Abs!Next, Abs!Leave, controller
<1>2. CASE holds \subseteq holds'
  <2>1. holds' \subseteq Hold
    BY DEF HoldType
  <2>2. \A h \in holds' : LockOf[h] \in Locks /\ Counted(LockOf[h])'
    BY <2>1, ConstAssumption DEF Counted, CountedIn
  <2>3. \A h \in holds' : LockOf[h] \in {l \in Locks : holder[l] = "me"} \cup revoked
    BY <2>2 DEF HoldsHonoured, controller
  <2>4. QED BY <1>2, <2>1, <2>3 DEF Abs!Next, Abs!Join, controller
<1>3. QED BY <1>1, <1>2

(* Somebody else, or the end of the session, ends the locks L. *)
LEMMA AbsRevoke ==
  ASSUME ControllerType, NEW L \in SUBSET Locks, \A l \in L : holder[l] = "me",
         holder' \in [Locks -> {"none", "me", "other"}],
         \A l \in Locks : holder'[l] = "me" <=> holder[l] = "me" /\ l \notin L,
         revoked' = revoked \cup L, holds' \subseteq holds
  PROVE  Abs!Next
<1>1. L \subseteq {l \in Locks : holder[l] = "me"}
  OBVIOUS
<1>2. {l \in Locks : holder'[l] = "me"} = {l \in Locks : holder[l] = "me"} \ L
  OBVIOUS
<1>3. Abs!Revoke(L)
  BY <1>1, <1>2 DEF Abs!Revoke
<1>4. QED BY <1>3 DEF Abs!Next

LEMMA AbsStep ==
  ASSUME Known, Known', [Next]_vars
  PROVE  [Abs!Next]_<<{l \in Locks : holder[l] = "me"}, holds, revoked>>
<1>0. ControllerType /\ ControllerType' /\ HoldType' /\ HoldsHonoured' /\ WireUncounted /\ ChainType
  <2>1. TurnInv' /\ LockInv'
    BY DEF Known
  <2>2. ControllerType' /\ HoldType' /\ HoldsHonoured'
    BY <2>1 DEF TurnInv, TypeOK, LockInv
  <2>3. QED BY <2>2, KnownParts
<1>1. CASE UNCHANGED controller /\ (holds' \subseteq holds \/ holds \subseteq holds')
  BY <1>0, <1>1, AbsHolds
<1>2. CASE UNCHANGED vars
  BY <1>1, <1>2 DEF vars
<1>3. CASE ChainStep
  <2>1. UNCHANGED controller
    BY <1>3 DEF ChainStep, StartAcquire, StartRelease, StartForget, StartPlainRelease, StartAcquireAll,
         StartReleaseAll, StartAfterLoss, AnswerAcquire, AnswerHeldByMe, AnswerRelease, AnswerPlainRelease,
         AnswerAcquireAll, AnswerUndo, AnswerReleaseAll, AnswerAfterLoss
  <2>2. holds' \subseteq holds \/ holds \subseteq holds'
    BY <1>3, ReleasedFewer DEF ChainStep, StartAcquire, StartRelease, StartForget, StartPlainRelease,
         StartAcquireAll, StartReleaseAll, StartAfterLoss, AnswerAcquire, AnswerHeldByMe, AnswerRelease,
         AnswerPlainRelease, AnswerAcquireAll, AnswerUndo, AnswerReleaseAll, AnswerAfterLoss,
         Granted, NotGranted, GroupGranted, GroupRefused
  <2>3. QED BY <1>1, <2>1, <2>2
<1>4. ASSUME NEW p \in Ops, Operation(p)
      PROVE  Abs!Next
  <2>1. CASE BodyRestarts(p)
    <3>1. /\ holder' = [l \in Locks |-> "none"] /\ holds' = holds
          /\ revoked' = revoked \cup {l \in Locks : holder[l] = "me"}
      BY <2>1 DEF BodyRestarts
    <3>2. PICK L \in SUBSET Locks : L = {l \in Locks : holder[l] = "me"}
      OBVIOUS
    <3>3. QED BY <3>1, <3>2, <1>0, AbsRevoke DEF ControllerType
  <2>2. CASE ~BodyRestarts(p)
    <3>1. UNCHANGED controller /\ holds' \subseteq holds
      BY <1>4, <2>2 DEF Operation, EnterTurn, QueueTimeout, LeaveTurn, Take, Nest, Unwind, BodyEnds,
                        BodyRefused, RecordLoss, EndHolds
    <3>2. QED BY <3>1, <1>0, AbsHolds
  <2>3. QED BY <2>1, <2>2
<1>5. CASE PublicCall
  BY <1>1, <1>5 DEF PublicCall, RequestPublic, ReleasePublic, RequestPublicAll, ReleasePublicAll
<1>6. CASE LossEvent
  <2>1. CASE SessionReissued
    <3>1. /\ holder' = [l \in Locks |-> IF holder[l] = "me" THEN "none" ELSE holder[l]]
          /\ holds' \subseteq holds
          /\ revoked' = revoked \cup {l \in Locks : holder[l] = "me"}
      BY <2>1 DEF SessionReissued, RecordLoss, EndHolds
    <3>2. PICK L \in SUBSET Locks : L = {l \in Locks : holder[l] = "me"}
      OBVIOUS
    <3>3. QED BY <3>1, <3>2, <1>0, AbsRevoke DEF ControllerType
  <2>2. CASE ~SessionReissued
    BY <1>1, <1>6, <2>2 DEF LossEvent, ModeChange, ModeChangeRead, ConnectionLost, CheckAnswered,
                        WatchdogLapse, Lose, RecordLoss, EndHolds
  <2>3. QED BY <2>1, <2>2
<1>7. CASE SessionStep
  <2>1. ASSUME NEW F, Teardown(F)
        PROVE  Abs!Next
    <3>1. /\ holder' = [l \in Locks |-> IF holder[l] = "me" /\ l \notin F THEN "none" ELSE holder[l]]
          /\ holds' \subseteq holds
          /\ revoked' = revoked \cup {l \in Locks \ F : holder[l] = "me"}
      BY <2>1 DEF Teardown
    <3>2. PICK L \in SUBSET Locks : L = {l \in Locks \ F : holder[l] = "me"}
      OBVIOUS
    <3>3. QED BY <3>1, <3>2, <1>0, AbsRevoke DEF ControllerType
  <2>2. CASE RefuseNewTurns \/ Connect
    BY <1>1, <2>2 DEF RefuseNewTurns, Connect
  <2>3. QED BY <1>7, <2>1, <2>2 DEF SessionStep, Disconnect, DrainTimeout
<1>8. CASE Controller
  <2>0. wire.locks \in SUBSET Locks
    BY <1>0 DEF ChainType, WireType
  <2>1. CASE ServeRequest
    <3>1. CASE UNCHANGED controller
      BY <1>1, <2>1, <3>1 DEF ServeRequest
    <3>2. CASE /\ holder' = [l \in Locks |-> IF l \in wire.locks THEN "me" ELSE holder[l]]
               /\ revoked' = revoked \ wire.locks
      <4>1. {l \in Locks : holder'[l] = "me"} = {l \in Locks : holder[l] = "me"} \cup wire.locks
        BY <2>0, <3>2
      <4>2. \A l \in wire.locks : ~Abs!InUse(l)
        BY <1>0 DEF WireUncounted, Counted, CountedIn, Abs!InUse
      <4>3. PICK L \in SUBSET Locks : L = wire.locks
        BY <2>0
      <4>4. Abs!Grant(L)
        BY <4>3, <2>1, <3>2, <4>1, <4>2 DEF Abs!Grant, ServeRequest
      <4>5. QED BY <4>4 DEF Abs!Next
    <3>3. QED BY <2>1, <3>1, <3>2 DEF ServeRequest
  <2>2. CASE ServeRelease
    <3>1. CASE holder' = holder
      BY <1>1, <2>2, <3>1 DEF ServeRelease, controller
    <3>2. CASE holder' = [l \in Locks |-> IF l \in wire.locks /\ holder[l] = "me" THEN "none" ELSE holder[l]]
      <4>1. {l \in Locks : holder'[l] = "me"} = {l \in Locks : holder[l] = "me"} \ wire.locks
        BY <3>2
      <4>2. \A l \in wire.locks : ~Abs!InUse(l)
        BY <1>0 DEF WireUncounted, Counted, CountedIn, Abs!InUse
      <4>3. PICK L \in SUBSET Locks : L = wire.locks
        BY <2>0
      <4>4. Abs!Drop(L)
        BY <4>3, <2>2, <4>1, <4>2 DEF Abs!Drop, ServeRelease
      <4>5. QED BY <4>4 DEF Abs!Next
    <3>3. QED BY <2>2, <3>1, <3>2 DEF ServeRelease
  <2>3. CASE ServeHeldByMe \/ \E l \in Locks : ServeCheck(l)
    BY <1>1, <2>3 DEF ServeHeldByMe, ServeCheck
  <2>4. ASSUME NEW k \in Locks, Revoke(k)
        PROVE  [Abs!Next]_<<{l \in Locks : holder[l] = "me"}, holds, revoked>>
    <3>1. PICK who \in {"none", "other"} : holder' = [holder EXCEPT ![k] = who]
      BY <2>4 DEF Revoke
    <3>2. \A l \in Locks : holder'[l] = IF l = k THEN who ELSE holder[l]
      BY <3>1, <1>0 DEF ControllerType
    <3>3. holds' = holds
      BY <2>4 DEF Revoke
    <3>4. CASE holder[k] = "me"
      <4>1. revoked' = revoked \cup {k} /\ holder' \in [Locks -> {"none", "me", "other"}]
        BY <2>4, <3>4, <1>0 DEF Revoke, ControllerType
      <4>2. \A l \in Locks : holder'[l] = "me" <=> holder[l] = "me" /\ l \notin {k}
        BY <3>2
      <4>3. QED BY <3>3, <3>4, <4>1, <4>2, <1>0, AbsRevoke
    <3>5. CASE holder[k] # "me"
      <4>1. revoked' = revoked
        BY <2>4, <3>5 DEF Revoke
      <4>2. {l \in Locks : holder'[l] = "me"} = {l \in Locks : holder[l] = "me"}
        BY <3>2, <3>5
      <4>3. QED BY <3>3, <4>1, <4>2
    <3>6. QED BY <3>4, <3>5
  <2>5. QED BY <1>8, <2>1, <2>2, <2>3, <2>4 DEF Controller, Serve
<1>9. QED BY <1>2, <1>3, <1>4, <1>5, <1>6, <1>7, <1>8 DEF Next

(* The manager implements a counted lock: the controller grants a request  *)
(* and a release takes effect only while the lock has no user, a user      *)
(* joins only a lock that was granted, and only somebody else ends a lock  *)
(* in use.                                                                 *)
THEOREM ImplementsCountedLock == Spec => CountedLockSpec
<1>1. Init => Abs!Init
  <2>1. ASSUME Init PROVE {l \in Locks : holder[l] = "me"} = {}
    BY <2>1 DEF Init
  <2>2. QED BY <2>1 DEF Init, Abs!Init
<1>2. Known /\ Known' /\ [Next]_vars => [Abs!Next]_<<{l \in Locks : holder[l] = "me"}, holds, revoked>>
  BY AbsStep
<1>3. QED BY <1>1, <1>2, LockInvariant, PTL DEF Spec, CountedLockSpec, Abs!Spec

-----------------------------------------------------------------------------
(* What an operation holds: the holds of its frames, in their order.       *)

FrameOf(p, n) == IF n[p] THEN Inner[p] ELSE Outer[p]

(* The hold an operation's step is about, when t holds of the frame are    *)
(* taken: the next one to take, or the last one taken.                     *)
DueHold(s, n, t) ==
    FrameOf(Owner[s.hold], n)[IF s.kind = "acquire" THEN t[Owner[s.hold]] + 1 ELSE t[Owner[s.hold]]]
InOrder(c, n, t) == \A i \in 1..Len(c) : OpStep(c[i]) => c[i].hold = DueHold(c[i], n, t)

(* p has taken h in the frame it is in, or in the one it nested from. *)
HasTaken(p, h, n, t) ==
    \/ \E i \in 1..t[p] : FrameOf(p, n)[i] = h
    \/ n[p] /\ \E i \in 1..Len(Outer[p]) : Outer[p][i] = h

(* fn runs when all holds of the frame are taken; a hold that is being     *)
(* released is no longer counted; a counted hold of an operation is one    *)
(* that the operation has taken and not ended.                             *)
AllTaken == \A p \in Ops : pc[p] = "body" => taken[p] = Len(Frame(p))
Gone == wire # NoWire /\ OpStep(Running) /\ Running.kind # "acquire" => Running.hold \notin holds
Owned == \A h \in holds : Owner[h] \in Ops => HasTaken(Owner[h], h, nested, taken)

OwnInv == InOrder(chain, nested, taken) /\ AllTaken /\ Gone /\ Owned

(* A step off the chain: holds may end, and an operation that awaits a     *)
(* step stays where it is.                                                 *)
LEMMA OwnKeeps ==
  ASSUME Known, OwnInv, holds' \subseteq holds, AllTaken',
         \A q \in Ops : pc[q] \in {"taking", "ending"} => taken'[q] = taken[q] /\ nested'[q] = nested[q],
         \A q \in Ops : \A h \in Hold : HasTaken(q, h, nested, taken) => HasTaken(q, h, nested', taken'),
         NEW s, (chain' = chain /\ (wire # NoWire \/ wire' = wire)) \/ Enqueue(s),
         OpStep(s) => s.hold = DueHold(s, nested', taken')
  PROVE  OwnInv'
<1>0. ChainType /\ chain \in Seq(Step) /\ WireInv /\ ChainOK(chain, pc) /\ HoldType
  BY KnownParts, Parts DEF ChainType
<1>1. \A i \in 1..Len(chain) : OpStep(chain[i]) => chain[i].hold = DueHold(chain[i], nested', taken')
  <2>1. ASSUME NEW i \in 1..Len(chain), OpStep(chain[i])
        PROVE  chain[i].hold = DueHold(chain[i], nested', taken')
    <3>1. PICK q \in Ops : q = Owner[chain[i].hold]
      BY <2>1 DEF OpStep
    <3>2. pc[q] \in {"taking", "ending"}
      BY <1>0, <2>1, <3>1 DEF ChainOK, WaitingPc
    <3>3. taken'[q] = taken[q] /\ nested'[q] = nested[q]
      BY <3>2
    <3>4. chain[i].hold = DueHold(chain[i], nested, taken)
      BY <2>1 DEF OwnInv, InOrder
    <3>5. QED BY <3>1, <3>3, <3>4 DEF DueHold, FrameOf
  <2>2. QED BY <2>1
<1>2. InOrder(chain', nested', taken')
  <2>1. CASE chain' = chain
    BY <2>1, <1>1 DEF InOrder
  <2>2. CASE Enqueue(s)
    <3>1. /\ chain' = Append(chain, s) /\ Len(chain) \in Nat
          /\ Len(chain') = Len(chain) + 1
          /\ \A i \in 1..Len(chain) : chain'[i] = chain[i]
          /\ chain'[Len(chain) + 1] = s
      BY <2>2, <1>0 DEF Enqueue
    <3>2. \A i \in 1..Len(chain') : i \in 1..Len(chain) \/ i = Len(chain) + 1
      BY <3>1
    <3>3. QED BY <3>1, <3>2, <1>1 DEF InOrder
  <2>3. QED BY <2>1, <2>2
<1>3. Gone'
  <2>1. CASE wire # NoWire
    <3>1. Running' = Running
      BY <1>0, <2>1, SameRunning
    <3>2. QED BY <2>1, <3>1 DEF OwnInv, Gone
  <2>2. CASE wire = NoWire
    BY <2>2 DEF Gone, Enqueue
  <2>3. QED BY <2>1, <2>2
<1>4. Owned'
  BY <1>0 DEF OwnInv, Owned, HoldType
<1>5. QED BY <1>2, <1>3, <1>4 DEF OwnInv

(* The running step is done: only the operation that awaited it moves. *)
LEMMA OwnDone ==
  ASSUME Known, OwnInv, chain # <<>>, StepDone, AllTaken', Owned',
         \A q \in Ops : ~(OpStep(Running) /\ q = Owner[Running.hold]) =>
                          taken'[q] = taken[q] /\ nested'[q] = nested[q]
  PROVE  OwnInv'
<1>0. chain \in Seq(Step) /\ ChainOK(chain, pc)
  BY KnownParts, Parts DEF ChainType
<1>1. /\ chain' = Tail(chain) /\ Len(chain') = Len(chain) - 1 /\ Len(chain) \in Nat \ {0}
      /\ \A i \in 1..Len(chain') : chain'[i] = chain[i + 1] /\ i + 1 \in 1..Len(chain) /\ i + 1 # 1
      /\ Running = chain[1] /\ 1 \in 1..Len(chain)
  BY <1>0 DEF StepDone, Running
<1>2. ASSUME NEW i \in 1..Len(chain'), OpStep(chain'[i])
      PROVE  chain'[i].hold = DueHold(chain'[i], nested', taken')
  <2>1. chain'[i] = chain[i + 1] /\ i + 1 \in 1..Len(chain) /\ i + 1 # 1
    BY <1>1
  <2>2. PICK q \in Ops : q = Owner[chain'[i].hold]
    BY <1>2 DEF OpStep
  <2>3. ~(OpStep(Running) /\ q = Owner[Running.hold])
    BY <1>0, <1>1, <1>2, <2>1, <2>2 DEF ChainOK
  <2>4. taken'[q] = taken[q] /\ nested'[q] = nested[q]
    BY <2>3
  <2>5. chain'[i].hold = DueHold(chain'[i], nested, taken)
    BY <1>2, <2>1 DEF OwnInv, InOrder
  <2>6. QED BY <2>2, <2>4, <2>5 DEF DueHold, FrameOf
<1>3. InOrder(chain', nested', taken')
  BY <1>2 DEF InOrder
<1>4. Gone'
  BY DEF StepDone, Gone
<1>5. QED BY <1>3, <1>4 DEF OwnInv

(* The step of an operation is about the hold that is due. *)
LEMMA RunningDue ==
  ASSUME Known, OwnInv, chain # <<>>, OpStep(Running)
  PROVE  Running.hold = DueHold(Running, nested, taken)
<1>1. chain \in Seq(Step)
  BY KnownParts DEF ChainType
<1>2. Running = chain[1] /\ 1 \in 1..Len(chain)
  BY <1>1 DEF Running
<1>3. QED BY <1>2 DEF OwnInv, InOrder

LEMMA OwnAcquire ==
  ASSUME Known, OwnInv, StartAcquire \/ AnswerAcquire \/ AnswerHeldByMe
  PROVE  OwnInv'
<1>0. ChainType /\ WireInv /\ TurnType /\ TurnInv /\ ProgressOK
  BY KnownParts, Parts
<1>1. chain # <<>> /\ Running.kind = "acquire"
  BY <1>0, AnsweredRuns DEF StartAcquire, AnswerAcquire, AnswerHeldByMe, Starts
<1>2. Running.hold \in Hold
  BY <1>0, <1>1, RunningType
<1>3. CASE Granted(Running.hold)
  <2>1. PICK h \in Hold : h = Running.hold
    BY <1>2
  <2>2. holds' = holds \cup {h} /\ StepDone /\ nested' = nested
    BY <1>3, <2>1 DEF Granted
  <2>3. CASE Owner[h] \in Ops
    <3>1. PICK p \in Ops : p = Owner[h]
      BY <2>3
    <3>2. /\ taken' = [taken EXCEPT ![p] = @ + 1]
          /\ pc' = [pc EXCEPT ![p] = NextPc(p, taken[p] + 1)]
      BY <1>3, <2>1, <3>1 DEF Granted
    <3>3. OpStep(Running) /\ pc[p] = "taking"
      BY <1>0, <1>1, <2>1, <3>1, RunningOp DEF OpStep, WaitingPc
    <3>4. taken[p] < Len(Frame(p)) /\ taken[p] \in Nat /\ Len(Frame(p)) \in Nat
      BY <1>0, <3>3, FirstPcOK DEF ProgressOK, TurnType, Frame
    <3>5. taken'[p] = taken[p] + 1 /\ \A q \in Ops : q # p => taken'[q] = taken[q] /\ pc'[q] = pc[q]
      BY <1>0, <3>2 DEF TurnType
    <3>6. AllTaken'
      <4>1. pc'[p] = NextPc(p, taken[p] + 1)
        BY <1>0, <3>2 DEF TurnType
      <4>2. pc'[p] = "body" => taken'[p] = Len(Frame(p))
        BY <4>1, <3>4, <3>5 DEF NextPc
      <4>3. QED BY <4>2, <3>5, <2>2 DEF OwnInv, AllTaken, Frame
    <3>7. FrameOf(p, nested)[taken[p] + 1] = h
      BY <1>1, <2>1, <3>1, <3>3, RunningDue DEF DueHold
    <3>8. Owned'
      <4>1. HasTaken(p, h, nested', taken')
        BY <3>4, <3>5, <3>7, <2>2 DEF HasTaken
      <4>2. ASSUME NEW g \in holds, Owner[g] \in Ops
            PROVE  HasTaken(Owner[g], g, nested', taken')
        <5>1. HasTaken(Owner[g], g, nested, taken)
          BY <4>2 DEF OwnInv, Owned
        <5>2. taken[Owner[g]] \in Nat /\ taken'[Owner[g]] \in {taken[Owner[g]], taken[Owner[g]] + 1}
          BY <1>0, <3>5, <4>2 DEF TurnType
        <5>3. QED BY <5>1, <5>2, <2>2 DEF HasTaken
      <4>3. QED BY <4>1, <4>2, <2>2, <3>1 DEF Owned
    <3>9. QED BY <1>1, <2>1, <2>2, <3>1, <3>3, <3>5, <3>6, <3>8, OwnDone
  <2>4. CASE Owner[h] \notin Ops
    <3>1. UNCHANGED <<taken, pc>>
      BY <1>3, <2>1, <2>4 DEF Granted
    <3>2. AllTaken' /\ Owned'
      BY <2>2, <2>4, <3>1 DEF OwnInv, AllTaken, Owned, Frame
    <3>3. QED BY <1>1, <2>2, <3>1, <3>2, OwnDone
  <2>5. QED BY <2>3, <2>4
<1>4. CASE NotGranted(Running.hold)
  <2>1. UNCHANGED <<holds, nested, taken>> /\ StepDone
    BY <1>4 DEF NotGranted
  <2>2. \A q \in Ops : pc'[q] \in {pc[q], "unwind"}
    BY <1>4, <1>0 DEF NotGranted, TurnType
  <2>3. AllTaken' /\ Owned'
    BY <2>1, <2>2 DEF OwnInv, AllTaken, Owned, Frame
  <2>4. QED BY <1>1, <2>1, <2>3, OwnDone
<1>5. CASE (\E m, L : Send(m, L)) /\ UNCHANGED <<holds, opVars>>
  <2>1. UNCHANGED <<chain, holds, nested, taken, pc>> /\ Running' = Running
    BY <1>5 DEF Send, opVars, Running
  <2>2. QED BY <2>1, <1>1 DEF OwnInv, InOrder, AllTaken, Gone, Owned, Frame
<1>6. QED
  BY <1>3, <1>4, <1>5 DEF StartAcquire, AnswerAcquire, AnswerHeldByMe

LEMMA OwnRelease ==
  ASSUME Known, OwnInv, StartRelease \/ StartForget \/ AnswerRelease
  PROVE  OwnInv'
<1>0. ChainType /\ WireInv /\ TurnType /\ TurnInv /\ ProgressOK /\ HoldType
  BY KnownParts, Parts
<1>1. chain # <<>> /\ Running.kind \in {"release", "forget"}
  BY <1>0, AnsweredRuns DEF StartRelease, StartForget, AnswerRelease, Starts
<1>2. PICK h \in Hold : h = Running.hold
  BY <1>0, <1>1, RunningType
<1>3. holds' \subseteq holds
  BY ReleasedFewer DEF StartRelease, StartForget, AnswerRelease
<1>4. OpStep(Running) => h \notin holds'
  <2>1. CASE StartRelease \/ StartForget
    BY <2>1, <1>2 DEF StartRelease, StartForget
  <2>2. CASE AnswerRelease
    <3>1. wire # NoWire
      BY <2>2 DEF AnswerRelease, Answered, NoWire
    <3>2. QED BY <1>1, <1>2, <1>3, <3>1 DEF OwnInv, Gone
  <2>3. QED BY <2>1, <2>2
<1>5. CASE StepDone /\ HoldEnded(h)
  <2>1. CASE Owner[h] \in Ops
    <3>1. PICK p \in Ops : p = Owner[h]
      BY <2>1
    <3>2. /\ pc' = [pc EXCEPT ![p] = "unwind"] /\ taken' = [taken EXCEPT ![p] = @ - 1]
          /\ nested' = nested
      BY <1>5, <3>1 DEF HoldEnded
    <3>3. OpStep(Running) /\ pc[p] = "ending"
      BY <1>0, <1>1, <1>2, <3>1, RunningOp DEF OpStep, WaitingPc
    <3>4. taken[p] \in Nat /\ taken[p] > 0
      BY <1>0, <3>3 DEF ProgressOK, TurnType
    <3>5. /\ taken'[p] = taken[p] - 1 /\ pc'[p] = "unwind"
          /\ \A q \in Ops : q # p => taken'[q] = taken[q] /\ pc'[q] = pc[q]
      BY <1>0, <3>2 DEF TurnType
    <3>6. AllTaken'
      BY <3>2, <3>5 DEF OwnInv, AllTaken, Frame
    <3>7. FrameOf(p, nested)[taken[p]] = h
      BY <1>1, <1>2, <3>1, <3>3, RunningDue DEF DueHold
    <3>8. Owned'
      <4>1. ASSUME NEW g \in holds', Owner[g] \in Ops
            PROVE  HasTaken(Owner[g], g, nested', taken')
        <5>1. HasTaken(Owner[g], g, nested, taken) /\ g # h
          BY <1>3, <1>4, <3>3, <4>1 DEF OwnInv, Owned
        <5>2. CASE Owner[g] # p
          BY <5>1, <5>2, <3>2, <3>5, <4>1 DEF HasTaken, FrameOf
        <5>3. CASE Owner[g] = p
          <6>1. \A i \in 1..taken[p] : FrameOf(p, nested)[i] = g => i \in 1..taken'[p]
            BY <3>4, <3>5, <3>7, <5>1
          <6>2. QED BY <5>1, <5>3, <6>1, <3>2 DEF HasTaken
        <5>4. QED BY <5>2, <5>3
      <4>2. QED BY <4>1 DEF Owned
    <3>9. QED BY <1>1, <1>2, <1>5, <3>1, <3>2, <3>3, <3>5, <3>6, <3>8, OwnDone
  <2>2. CASE Owner[h] \notin Ops
    <3>1. UNCHANGED <<pc, nested, taken>>
      BY <1>5, <2>2 DEF HoldEnded, opVars
    <3>2. AllTaken' /\ Owned'
      BY <1>3, <3>1 DEF OwnInv, AllTaken, Owned, Frame
    <3>3. QED BY <1>1, <1>5, <3>1, <3>2, OwnDone
  <2>3. QED BY <2>1, <2>2
<1>6. CASE (\E L : Send("release", L)) /\ UNCHANGED opVars
  <2>1. UNCHANGED <<chain, nested, taken, pc>> /\ Running' = Running
    BY <1>6 DEF Send, opVars, Running
  <2>2. QED BY <2>1, <1>2, <1>3, <1>4 DEF OwnInv, InOrder, AllTaken, Gone, Owned, Frame
<1>7. QED
  BY <1>2, <1>5, <1>6 DEF StartRelease, StartForget, AnswerRelease

(* The steps nobody waits for, and those of the groups. *)
LEMMA OwnOthers ==
  ASSUME Known, OwnInv, ChainStep,
         ~(StartAcquire \/ AnswerAcquire \/ AnswerHeldByMe \/ StartRelease \/ StartForget \/ AnswerRelease)
  PROVE  OwnInv'
<1>0. ChainType /\ WireInv
  BY KnownParts
<1>1. chain # <<>> /\ ~OpStep(Running)
  <2>1. CASE StartPlainRelease \/ StartAcquireAll \/ StartReleaseAll \/ StartAfterLoss
    BY <2>1 DEF StartPlainRelease, StartAcquireAll, StartReleaseAll, StartAfterLoss, Starts, OpStep
  <2>2. CASE AnswerPlainRelease \/ AnswerAcquireAll \/ AnswerUndo \/ AnswerReleaseAll \/ AnswerAfterLoss
    BY <2>2, <1>0, AnsweredRuns DEF AnswerPlainRelease, AnswerAcquireAll, AnswerUndo, AnswerReleaseAll,
         AnswerAfterLoss, OpStep
  <2>3. QED BY <2>1, <2>2 DEF ChainStep
<1>2. UNCHANGED <<pc, nested, taken>>
  BY DEF ChainStep, StartPlainRelease, StartAcquireAll, StartReleaseAll, StartAfterLoss,
       AnswerPlainRelease, AnswerAcquireAll, AnswerUndo, AnswerReleaseAll, AnswerAfterLoss, opVars
<1>3. \A h \in holds' : h \in holds \/ Owner[h] \notin Ops
  <2>1. CASE holds' \subseteq holds
    BY <2>1
  <2>2. CASE StartAcquireAll \/ AnswerAcquireAll \/ AnswerUndo
    <3>1. Running.kind = "acquireAll"
      BY <2>2 DEF StartAcquireAll, AnswerAcquireAll, AnswerUndo, Starts
    <3>2. Running.group \in Groups
      BY <3>1, <1>0, <1>1, RunningType
    <3>3. holds' = holds \/ GroupGranted(Running.group)
      BY <2>2 DEF StartAcquireAll, AnswerAcquireAll, AnswerUndo, GroupRefused
    <3>4. QED BY <3>2, <3>3, ConstAssumption DEF GroupGranted
  <2>3. QED
    BY <2>1, <2>2, ReleasedFewer DEF ChainStep, StartPlainRelease, StartReleaseAll, StartAfterLoss,
         AnswerPlainRelease, AnswerReleaseAll, AnswerAfterLoss
<1>4. AllTaken' /\ Owned'
  BY <1>2, <1>3 DEF OwnInv, AllTaken, Owned, Frame
<1>5. StepDone \/ chain' = chain
  BY DEF ChainStep, StartPlainRelease, StartAcquireAll, StartReleaseAll, StartAfterLoss, AnswerPlainRelease,
       AnswerAcquireAll, AnswerUndo, AnswerReleaseAll, AnswerAfterLoss, NextAfterLoss, GroupGranted,
       GroupRefused, Send
<1>6. CASE StepDone
  BY <1>1, <1>2, <1>4, <1>6, OwnDone
<1>7. CASE chain' = chain
  <2>1. ~OpStep(Running)'
    BY <1>1, <1>7 DEF OpStep, Running
  <2>2. QED BY <1>2, <1>4, <1>7, <2>1 DEF OwnInv, InOrder, Gone
<1>8. QED BY <1>5, <1>6, <1>7

(* The steps of an operation, of its callers and of everybody else. *)
LEMMA OwnOperation ==
  ASSUME Known, OwnInv, NEW p \in Ops, Operation(p)
  PROVE  OwnInv'
<1>0. TurnType /\ ProgressOK /\ WaitersOK /\ TurnInv /\ nested \in [Ops -> BOOLEAN] /\ taken \in [Ops -> Nat]
  BY KnownParts, Parts DEF TurnType
<1>1. holds' \subseteq holds
  BY DEF Operation, EnterTurn, QueueTimeout, LeaveTurn, Take, Nest, Unwind, BodyEnds, BodyRefused,
         BodyRestarts, RecordLoss, EndHolds
<1>2. ASSUME NEW q \in Ops, ~InTurn(q), FirstPc(q) = "body"
      PROVE  taken[q] = Len(Frame(q))
  <2>1. taken[q] = 0 /\ ~nested[q]
    BY <1>0, <1>2 DEF ProgressOK
  <2>2. Outer[q] = <<>>
    BY <1>2 DEF FirstPc
  <2>3. QED BY <2>1, <2>2 DEF Frame
<1>3. ASSUME UNCHANGED <<chainVars, nested, taken>>,
             \A q \in Ops : pc'[q] = "body" => pc[q] = "body" \/ (~InTurn(q) /\ FirstPc(q) = "body")
      PROVE  OwnInv'
  <2>1. AllTaken'
    BY <1>2, <1>3 DEF OwnInv, AllTaken, Frame
  <2>2. chain' = chain /\ wire' = wire
    BY <1>3 DEF chainVars
  <2>3. PICK s : s = [kind |-> "afterLoss"]
    OBVIOUS
  <2>4. ~OpStep(s)
    BY <2>3 DEF OpStep
  <2>5. QED BY <1>1, <1>3, <2>1, <2>2, <2>4, OwnKeeps
<1>4. CASE EnterTurn(p) \/ QueueTimeout(p) \/ (\E how : BodyEnds(p, how)) \/ BodyRefused(p) \/ BodyRestarts(p)
  <2>1. UNCHANGED <<chainVars, nested, taken>>
    BY <1>4 DEF EnterTurn, QueueTimeout, BodyEnds, BodyRefused, BodyRestarts
  <2>2. \A q \in Ops : pc'[q] = "body" => pc[q] = "body" \/ (~InTurn(q) /\ FirstPc(q) = "body")
    BY <1>4, <1>0 DEF EnterTurn, QueueTimeout, BodyEnds, BodyRefused, BodyRestarts, TurnType, InTurn
  <2>3. QED BY <2>1, <2>2, <1>3
<1>5. CASE LeaveTurn(p)
  <2>1. UNCHANGED <<chainVars, nested, taken>> /\ HandOn(p)
    BY <1>5 DEF LeaveTurn
  <2>2. CASE waiters = <<>>
    <3>1. pc' = [pc EXCEPT ![p] = "idle"]
      BY <2>1, <2>2 DEF HandOn
    <3>2. \A q \in Ops : pc'[q] = "body" => pc[q] = "body"
      BY <3>1, <1>0 DEF TurnType
    <3>3. QED BY <2>1, <3>2, <1>3
  <2>3. CASE waiters # <<>>
    <3>1. Head(waiters) \in Ops /\ Head(waiters) = waiters[1] /\ 1 \in 1..Len(waiters)
      BY <2>3, <1>0 DEF TurnType
    <3>2. PICK w \in Ops : w = Head(waiters) /\ pc[w] = "waiting"
      BY <3>1, <1>0 DEF WaitersOK
    <3>3. pc' = [pc EXCEPT ![p] = "idle", ![w] = FirstPc(w)]
      BY <2>1, <2>3, <3>2 DEF HandOn
    <3>4. \A q \in Ops : pc'[q] = "body" => pc[q] = "body" \/ (~InTurn(q) /\ FirstPc(q) = "body")
      BY <3>2, <3>3, <1>0 DEF TurnType, InTurn
    <3>5. QED BY <2>1, <3>4, <1>3
  <2>4. QED BY <2>2, <2>3
<1>6. CASE Take(p)
  <2>1. UNCHANGED <<nested, taken>> /\ pc[p] = "take"
    BY <1>6 DEF Take
  <2>2. \A q \in Ops : pc'[q] = "body" => pc[q] = "body"
    BY <1>6, <1>0 DEF Take, TurnType
  <2>3. CASE lost[p]
    BY <2>1, <2>2, <2>3, <1>3, <1>6 DEF Take
  <2>4. CASE ~lost[p]
    <3>1. PICK s : s = [kind |-> "acquire", hold |-> Frame(p)[taken[p] + 1]]
      OBVIOUS
    <3>2. Enqueue(s)
      BY <1>6, <2>4, <3>1 DEF Take
    <3>3. taken[p] < Len(Frame(p)) /\ taken[p] \in Nat
      BY <1>0, <2>1 DEF ProgressOK
    <3>4. taken[p] + 1 \in 1..Len(Frame(p))
      BY <3>3, FirstPcOK DEF Frame
    <3>5. Owner[Frame(p)[taken[p] + 1]] = p
      BY <1>0, <3>4, FrameHold
    <3>6. s.hold = DueHold(s, nested', taken')
      BY <2>1, <3>1, <3>5 DEF DueHold, FrameOf, Frame
    <3>7. AllTaken'
      BY <2>1, <2>2 DEF OwnInv, AllTaken, Frame
    <3>8. QED BY <1>1, <2>1, <3>2, <3>6, <3>7, OwnKeeps
  <2>5. QED BY <2>3, <2>4
<1>7. CASE Nest(p)
  <2>1. /\ pc[p] = "body" /\ ~nested[p] /\ Inner[p] # <<>> /\ UNCHANGED chainVars
        /\ nested' = [nested EXCEPT ![p] = TRUE] /\ taken' = [taken EXCEPT ![p] = 0]
        /\ pc' = [pc EXCEPT ![p] = "take"]
    BY <1>7 DEF Nest
  <2>2. taken[p] = Len(Outer[p])
    BY <2>1 DEF OwnInv, AllTaken, Frame
  <2>3. /\ nested'[p] /\ pc'[p] = "take"
        /\ \A q \in Ops : q # p => nested'[q] = nested[q] /\ taken'[q] = taken[q] /\ pc'[q] = pc[q]
    BY <1>0, <2>1 DEF TurnType
  <2>4. AllTaken'
    BY <2>3 DEF OwnInv, AllTaken, Frame
  <2>5. ASSUME NEW q \in Ops, NEW h \in Hold, HasTaken(q, h, nested, taken)
        PROVE  HasTaken(q, h, nested', taken')
    <3>1. CASE q # p
      BY <2>3, <2>5, <3>1 DEF HasTaken, FrameOf
    <3>2. CASE q = p
      BY <2>1, <2>2, <2>3, <2>5, <3>2 DEF HasTaken, FrameOf
    <3>3. QED BY <3>1, <3>2
  <2>6. chain' = chain /\ wire' = wire
    BY <2>1 DEF chainVars
  <2>7. PICK s : s = [kind |-> "afterLoss"]
    OBVIOUS
  <2>8. ~OpStep(s)
    BY <2>7 DEF OpStep
  <2>9. \A q \in Ops : pc[q] \in {"taking", "ending"} => q # p
    BY <2>1
  <2>10. QED BY <1>1, <2>3, <2>4, <2>5, <2>6, <2>8, <2>9, OwnKeeps
<1>8. CASE Unwind(p)
  <2>1. pc[p] = "unwind" /\ \A q \in Ops : pc'[q] = "body" => pc[q] = "body" /\ q # p
    BY <1>8, <1>0 DEF Unwind, TurnType
  <2>2. CASE taken[p] > 0 /\ UNCHANGED <<nested, taken>>
             /\ \E k \in {"forget", "release"} : Enqueue([kind |-> k, hold |-> Frame(p)[taken[p]]])
    <3>1. PICK k \in {"forget", "release"} : Enqueue([kind |-> k, hold |-> Frame(p)[taken[p]]])
      BY <2>2
    <3>2. PICK s : s = [kind |-> k, hold |-> Frame(p)[taken[p]]]
      OBVIOUS
    <3>3. taken[p] \in 1..Len(Frame(p))
      BY <1>0, <2>2, FirstPcOK DEF ProgressOK, Frame
    <3>4. Owner[Frame(p)[taken[p]]] = p
      BY <1>0, <3>3, FrameHold
    <3>5. s.hold = DueHold(s, nested', taken')
      BY <2>2, <3>2, <3>4 DEF DueHold, FrameOf, Frame
    <3>6. AllTaken'
      BY <2>1, <2>2 DEF OwnInv, AllTaken, Frame
    <3>7. QED BY <1>1, <2>2, <3>1, <3>2, <3>5, <3>6, OwnKeeps
  <2>3. CASE /\ taken[p] = 0 /\ nested[p] /\ UNCHANGED chainVars
             /\ nested' = [nested EXCEPT ![p] = FALSE]
             /\ taken' = [taken EXCEPT ![p] = Len(Outer[p])]
             /\ pc' = [pc EXCEPT ![p] = "rest"]
    <3>1. /\ ~nested'[p] /\ taken'[p] = Len(Outer[p])
          /\ \A q \in Ops : q # p => nested'[q] = nested[q] /\ taken'[q] = taken[q] /\ pc'[q] = pc[q]
      BY <1>0, <2>3 DEF TurnType
    <3>2. AllTaken'
      BY <2>1, <3>1 DEF OwnInv, AllTaken, Frame
    <3>3. ASSUME NEW q \in Ops, NEW h \in Hold, HasTaken(q, h, nested, taken)
          PROVE  HasTaken(q, h, nested', taken')
      <4>1. CASE q # p
        BY <3>1, <3>3, <4>1 DEF HasTaken, FrameOf
      <4>2. CASE q = p
        BY <2>3, <3>1, <3>3, <4>2 DEF HasTaken, FrameOf
      <4>3. QED BY <4>1, <4>2
    <3>4. chain' = chain /\ wire' = wire
      BY <2>3 DEF chainVars
    <3>5. PICK s : s = [kind |-> "afterLoss"]
      OBVIOUS
    <3>6. ~OpStep(s)
      BY <3>5 DEF OpStep
    <3>7. \A q \in Ops : pc[q] \in {"taking", "ending"} => q # p
      BY <2>1
    <3>8. QED BY <1>1, <3>1, <3>2, <3>3, <3>4, <3>6, <3>7, OwnKeeps
  <2>4. QED BY <1>8, <2>2, <2>3 DEF Unwind
<1>9. QED BY <1>4, <1>5, <1>6, <1>7, <1>8 DEF Operation

LEMMA OwnElse ==
  ASSUME Known, OwnInv, PublicCall \/ LossEvent \/ SessionStep \/ Controller \/ UNCHANGED vars
  PROVE  OwnInv'
<1>0. HoldType /\ TurnType
  BY KnownParts, Parts
<1>1. UNCHANGED <<nested, taken>> /\ \A q \in Ops : pc'[q] = "body" => pc[q] = "body"
  BY DEF PublicCall, RequestPublic, ReleasePublic, RequestPublicAll, ReleasePublicAll, LossEvent, ModeChange,
         ModeChangeRead, ConnectionLost, SessionReissued, CheckAnswered, WatchdogLapse, SessionStep,
         RefuseNewTurns, RejectWaiters, Disconnect, DrainTimeout, Teardown, Connect, Controller, Serve,
         ServeRequest, ServeRelease, ServeHeldByMe, ServeCheck, Revoke, vars, opVars
<1>2. holds' \subseteq holds
  BY DEF PublicCall, RequestPublic, ReleasePublic, RequestPublicAll, ReleasePublicAll, LossEvent, ModeChange,
         ModeChangeRead, ConnectionLost, SessionReissued, CheckAnswered, WatchdogLapse, Lose, RecordLoss,
         EndHolds, SessionStep, RefuseNewTurns, Disconnect, DrainTimeout, Teardown, Connect, Controller,
         Serve, ServeRequest, ServeRelease, ServeHeldByMe, ServeCheck, Revoke, vars
<1>3. AllTaken'
  BY <1>1 DEF OwnInv, AllTaken, Frame
<1>4. ASSUME NEW s, ~OpStep(s), (chain' = chain /\ (wire # NoWire \/ wire' = wire)) \/ Enqueue(s)
      PROVE  OwnInv'
  BY <1>1, <1>2, <1>3, <1>4, OwnKeeps
<1>5. PICK s0 : s0 = [kind |-> "afterLoss"]
  OBVIOUS
<1>6. ~OpStep(s0)
  BY <1>5 DEF OpStep
<1>7. CASE UNCHANGED chainVars
  BY <1>4, <1>6, <1>7 DEF chainVars
<1>8. CASE Controller
  <2>1. chain' = chain /\ (wire' = wire \/ wire.msg # "none")
    BY <1>8 DEF Controller, Serve, ServeRequest, ServeRelease, ServeHeldByMe, ServeCheck, Revoke, chainVars
  <2>2. wire.msg # "none" => wire # NoWire
    BY DEF NoWire
  <2>3. QED BY <1>4, <1>6, <2>1, <2>2
<1>9. CASE PublicCall
  <2>1. ASSUME NEW h \in Public, RequestPublic(h)
        PROVE  OwnInv'
    <3>1. PICK s : s = [kind |-> "acquire", hold |-> h]
      OBVIOUS
    <3>2. ~OpStep(s) /\ Enqueue(s)
      BY <2>1, <3>1, ConstAssumption DEF RequestPublic, OpStep
    <3>3. QED BY <1>4, <3>2
  <2>2. ASSUME NEW l \in Locks, ReleasePublic(l)
        PROVE  OwnInv'
    <3>1. CASE \E i \in 1..Len(public) : Enqueue([kind |-> "release", hold |-> public[i]])
      <4>1. PICK i \in 1..Len(public) : Enqueue([kind |-> "release", hold |-> public[i]])
        BY <3>1
      <4>2. PICK s : s = [kind |-> "release", hold |-> public[i]]
        OBVIOUS
      <4>3. public[i] \in Public
        BY <1>0 DEF HoldType
      <4>4. ~OpStep(s)
        BY <4>2, <4>3, ConstAssumption DEF OpStep
      <4>5. QED BY <1>4, <4>1, <4>2, <4>4
    <3>2. CASE Enqueue([kind |-> "plainRelease", lock |-> l])
      <4>1. PICK s : s = [kind |-> "plainRelease", lock |-> l]
        OBVIOUS
      <4>2. ~OpStep(s)
        BY <4>1 DEF OpStep
      <4>3. QED BY <1>4, <3>2, <4>1, <4>2
    <3>3. QED BY <2>2, <1>7, <3>1, <3>2 DEF ReleasePublic, Newest, PublicAt
  <2>3. ASSUME NEW g \in Groups, RequestPublicAll(g)
        PROVE  OwnInv'
    <3>1. PICK s : s = [kind |-> "acquireAll", group |-> g]
      OBVIOUS
    <3>2. ~OpStep(s) /\ Enqueue(s)
      BY <2>3, <3>1 DEF RequestPublicAll, OpStep
    <3>3. QED BY <1>4, <3>2
  <2>4. CASE ReleasePublicAll
    <3>1. PICK e, o : Enqueue([kind |-> "releaseAll", own |-> o, ending |-> e])
      BY <2>4 DEF ReleasePublicAll
    <3>2. PICK s : s = [kind |-> "releaseAll", own |-> o, ending |-> e]
      OBVIOUS
    <3>3. ~OpStep(s)
      BY <3>2 DEF OpStep
    <3>4. QED BY <1>4, <3>1, <3>2, <3>3
  <2>5. QED BY <1>9, <2>1, <2>2, <2>3, <2>4 DEF PublicCall
<1>10. CASE LossEvent
  <2>1. ASSUME NEW L, Enqueue([kind |-> "afterLoss", locks |-> L])
        PROVE  OwnInv'
    <3>1. PICK s : s = [kind |-> "afterLoss", locks |-> L]
      OBVIOUS
    <3>2. ~OpStep(s)
      BY <3>1 DEF OpStep
    <3>3. QED BY <1>4, <2>1, <3>1, <3>2
  <2>2. ASSUME NEW L, NEW r, Lose(L, r)
        PROVE  OwnInv'
    BY <2>1, <2>2, <1>7 DEF Lose
  <2>3. QED
    BY <1>7, <1>10, <2>2 DEF LossEvent, ModeChange, ModeChangeRead, ConnectionLost, SessionReissued,
         CheckAnswered, WatchdogLapse
<1>11. QED
  BY <1>7, <1>8, <1>9, <1>10 DEF SessionStep, RefuseNewTurns, Disconnect, DrainTimeout, Teardown, Connect, vars

LEMMA OwnInvariant == Spec => []OwnInv
<1>1. Init => OwnInv
  <2> SUFFICES ASSUME Init PROVE OwnInv
    OBVIOUS
  <2>1. Len(<<>>) = 0
    OBVIOUS
  <2>2. QED BY <2>1 DEF Init, OwnInv, InOrder, AllTaken, Gone, Owned
<1>2. Known /\ OwnInv /\ [Next]_vars => OwnInv'
  <2> SUFFICES ASSUME Known, OwnInv, [Next]_vars PROVE OwnInv'
    OBVIOUS
  <2>1. CASE ChainStep
    BY <2>1, OwnAcquire, OwnRelease, OwnOthers
  <2>2. QED BY <2>1, OwnOperation, OwnElse DEF Next
<1>3. QED BY <1>1, <1>2, LockInvariant, PTL DEF Spec

(* The holds of an operation end with it, however it ended: withAccess     *)
(* leaves its turn only when every hold of both frames has been released,  *)
(* forgotten or lost.                                                      *)
THEOREM OperationLeavesNothing == Spec => []HoldsEndWithTurn
<1>1. Known /\ OwnInv => HoldsEndWithTurn
  <2> SUFFICES ASSUME Known, OwnInv, NEW h \in holds, Owner[h] \in Ops, ~InTurn(Owner[h]) PROVE FALSE
    BY DEF HoldsEndWithTurn
  <2>1. taken[Owner[h]] = 0 /\ ~nested[Owner[h]]
    BY KnownParts, Parts DEF ProgressOK
  <2>2. HasTaken(Owner[h], h, nested, taken)
    BY DEF OwnInv, Owned
  <2>3. QED BY <2>1, <2>2 DEF HasTaken
<1>2. QED BY <1>1, LockInvariant, OwnInvariant, PTL

-----------------------------------------------------------------------------
(* A loss is not papered over.                                             *)

(* What the controller granted, or named as this session's, is not in      *)
(* doubt when the client acts on it; a status read is about holds on its   *)
(* lock.                                                                   *)
GrantFresh ==
    /\ wire.msg = "request" /\ wire.answer \in {"ok", "alreadyHeld"} =>
          \A l \in wire.locks : l \notin doubted
    /\ wire.msg = "heldByMe" /\ wire.answer = "held" => \A l \in wire.locks : l \notin doubted
AffectedOK == \A l \in Locks : \A h \in affected[l] : LockOf[h] = l

FreshInv == FreshAfterLoss /\ GrantFresh /\ AffectedOK

(* Holds are lost on locks L that were counted: no call on the wire is     *)
(* about one of them.                                                      *)
LEMMA FreshLost ==
  ASSUME Known, FreshInv, NEW L, EndHolds(L), \A l \in L : Counted(l), wire' = wire
  PROVE  FreshAfterLoss' /\ GrantFresh'
<1>1. WireUncounted /\ doubted' = doubted \cup L /\ holds' = {h \in holds : LockOf[h] \notin L}
  BY KnownParts DEF EndHolds
<1>2. FreshAfterLoss'
  BY <1>1 DEF FreshInv, FreshAfterLoss, Counted, CountedIn
<1>3. GrantFresh'
  BY <1>1 DEF FreshInv, GrantFresh, WireUncounted
<1>4. QED BY <1>2, <1>3

(* A release that the controller says was of a lost hold, or any answer. *)
LEMMA FreshReleased ==
  ASSUME Known, FreshInv, NEW L, NEW ending, Released(L, ending)
  PROVE  FreshAfterLoss'
BY DEF FreshInv, FreshAfterLoss, Counted, CountedIn, Released, EndHolds, lossVars

LEMMA FreshChain ==
  ASSUME Known, FreshInv, Groups = {}, ChainStep
  PROVE  FreshAfterLoss' /\ GrantFresh'
<1>0. ChainType /\ WireInv /\ HoldType
  BY KnownParts
<1>1. chain # <<>>
  BY <1>0, AnsweredRuns DEF ChainStep, StartAcquire, StartRelease, StartForget, StartPlainRelease,
         StartAcquireAll, StartReleaseAll, StartAfterLoss, AnswerAcquire, AnswerHeldByMe, AnswerRelease,
         AnswerPlainRelease, AnswerAcquireAll, AnswerUndo, AnswerReleaseAll, AnswerAfterLoss, Starts
<1>2. Running.kind # "acquireAll"
  BY <1>0, <1>1, RunningType
<1>3. StepDone \/ \E m, L : Send(m, L)
  BY DEF ChainStep, StartAcquire, StartRelease, StartForget, StartPlainRelease,
         StartAcquireAll, StartReleaseAll, StartAfterLoss, AnswerAcquire, AnswerHeldByMe, AnswerRelease,
         AnswerPlainRelease, AnswerAcquireAll, AnswerUndo, AnswerReleaseAll, AnswerAfterLoss,
         NextAfterLoss, GroupGranted, GroupRefused, Granted, NotGranted
<1>4. wire'.answer = "pending"
  BY <1>3 DEF StepDone, NoWire, Send, Call
<1>5. GrantFresh'
  BY <1>4 DEF GrantFresh
<1>6. ASSUME holds' \subseteq holds, doubted' = doubted
      PROVE  FreshAfterLoss'
  BY <1>6, FewerHolds DEF FreshInv, FreshAfterLoss
<1>7. CASE StartAcquire \/ AnswerAcquire \/ AnswerHeldByMe
  <2>1. Running.kind = "acquire" /\ doubted' = doubted
    BY <1>0, <1>7, AnsweredRuns DEF StartAcquire, AnswerAcquire, AnswerHeldByMe, Starts, lossVars
  <2>2. PICK h \in Hold : h = Running.hold
    BY <1>0, <1>1, <2>1, RunningType
  <2>3. \/ holds' = holds
        \/ holds' = holds \cup {h} /\ LockOf[h] \notin doubted
    <3>1. CASE StartAcquire
      <4>1. Counted(LockOf[h]) => LockOf[h] \notin doubted
        BY ConstAssumption DEF FreshInv, FreshAfterLoss
      <4>2. QED BY <2>2, <3>1, <4>1 DEF StartAcquire, Granted, NotGranted
    <3>2. CASE AnswerAcquire \/ AnswerHeldByMe
      <4>1. wire.locks = {LockOf[h]}
        BY <1>0, <2>1, <2>2, <3>2, AnsweredRuns DEF AnswerAcquire, AnswerHeldByMe
      <4>2. QED BY <2>2, <3>2, <4>1 DEF AnswerAcquire, AnswerHeldByMe, Answered, Granted, NotGranted,
                FreshInv, GrantFresh
    <3>3. QED BY <1>7, <3>1, <3>2
  <2>4. FreshAfterLoss'
    BY <2>1, <2>3, <1>6 DEF FreshInv, FreshAfterLoss, Counted, CountedIn
  <2>5. QED BY <2>4, <1>5
<1>8. CASE StartRelease \/ StartForget \/ StartPlainRelease \/ StartReleaseAll \/ StartAfterLoss
           \/ AnswerAfterLoss
  <2>1. holds' \subseteq holds /\ doubted' = doubted
    BY <1>8 DEF StartRelease, StartForget, StartPlainRelease, StartReleaseAll, StartAfterLoss,
         AnswerAfterLoss, lossVars
  <2>2. QED BY <2>1, <1>5, <1>6
<1>9. CASE AnswerRelease \/ AnswerPlainRelease \/ AnswerReleaseAll
  <2>1. PICK L, E : Released(L, E)
    BY <1>9 DEF AnswerRelease, AnswerPlainRelease, AnswerReleaseAll
  <2>2. QED BY <2>1, <1>5, FreshReleased
<1>10. QED
  BY <1>2, <1>7, <1>8, <1>9 DEF ChainStep, StartAcquireAll, AnswerAcquireAll, AnswerUndo, Starts

(* The controller serves a call: a grant, or the word of who holds the     *)
(* lock, ends the doubt.                                                   *)
LEMMA FreshServe ==
  ASSUME Known, FreshInv, Serve
  PROVE  FreshAfterLoss' /\ GrantFresh'
<1>0. ChainType /\ wire \in WireType
  BY KnownParts DEF ChainType
<1>1. holds' = holds /\ doubted' \subseteq doubted
  BY DEF Serve, ServeRequest, ServeRelease, ServeHeldByMe, lossVars
<1>2. FreshAfterLoss'
  BY <1>1 DEF FreshInv, FreshAfterLoss, Counted, CountedIn
<1>3. PICK a \in {"ok", "noAnswer", "alreadyHeld", "refused", "failed", "notHeld", "held"} : Answer(a)
  BY DEF Serve, ServeRequest, ServeRelease, ServeHeldByMe
<1>4. wire'.msg = wire.msg /\ wire'.locks = wire.locks /\ wire'.answer = a
  BY <1>0, <1>3 DEF Answer, WireType
<1>5. \A b : Answer(b) => b = a
  BY <1>0, <1>4 DEF Answer, WireType
<1>6. CASE ServeRequest
  <2>1. a \in {"ok", "alreadyHeld"} => doubted' = doubted \ wire.locks
    BY <1>5, <1>6 DEF ServeRequest
  <2>2. QED BY <1>2, <1>4, <1>6, <2>1 DEF ServeRequest, GrantFresh
<1>7. CASE ServeRelease
  BY <1>2, <1>4, <1>7 DEF ServeRelease, GrantFresh
<1>8. CASE ServeHeldByMe
  <2>1. a = "held" => doubted' = doubted \ wire.locks
    BY <1>5, <1>8 DEF ServeHeldByMe
  <2>2. QED BY <1>2, <1>4, <1>8, <2>1 DEF ServeHeldByMe, GrantFresh
<1>9. QED BY <1>6, <1>7, <1>8 DEF Serve

(* Losses are recorded on counted locks only. *)
LEMMA FreshLoss ==
  ASSUME Known, FreshInv, LossEvent \/ \E p \in Ops : BodyRefused(p)
  PROVE  FreshAfterLoss' /\ GrantFresh'
<1>0. wire' = wire
  BY DEF LossEvent, ModeChange, ModeChangeRead, ConnectionLost, SessionReissued, CheckAnswered,
         WatchdogLapse, Lose, BodyRefused, chainVars, Enqueue
<1>1. CASE UNCHANGED <<holds, doubted>>
  BY <1>0, <1>1 DEF FreshInv, FreshAfterLoss, GrantFresh, Counted, CountedIn
<1>2. \A l \in heldLocks : Counted(l)
  BY DEF heldLocks
<1>3. ASSUME NEW l \in Locks, CheckAnswered(l)
      PROVE  FreshAfterLoss' /\ GrantFresh'
  <2>1. CASE affected[l] \cap holds # {}
    <3>1. Counted(l)
      BY <2>1 DEF FreshInv, AffectedOK, Counted, CountedIn
    <3>2. EndHolds({l}) \/ UNCHANGED <<holds, doubted>>
      BY <1>3 DEF CheckAnswered, Lose, RecordLoss, lossVars
    <3>3. QED BY <1>0, <1>1, <3>1, <3>2, FreshLost
  <2>2. CASE affected[l] \cap holds = {}
    BY <1>1, <1>3, <2>2 DEF CheckAnswered, lossVars
  <2>3. QED BY <2>1, <2>2
<1>4. ASSUME NEW l \in Locks, WatchdogLapse(l)
      PROVE  FreshAfterLoss' /\ GrantFresh'
  BY <1>0, <1>4, FreshLost DEF WatchdogLapse, Lose, RecordLoss
<1>5. CASE ModeChange \/ ConnectionLost \/ SessionReissued
  <2>1. EndHolds(heldLocks)
    BY <1>5 DEF ModeChange, ConnectionLost, SessionReissued, Lose, RecordLoss
  <2>2. QED BY <1>0, <1>2, <2>1, FreshLost
<1>6. ASSUME NEW p \in Ops, BodyRefused(p)
      PROVE  FreshAfterLoss' /\ GrantFresh'
  <2>1. \A l \in LiveLocks(p) : Counted(l)
    BY DEF LiveLocks, LiveTaken, Counted, CountedIn
  <2>2. EndHolds(LiveLocks(p))
    BY <1>6 DEF BodyRefused, RecordLoss
  <2>3. QED BY <1>0, <2>1, <2>2, FreshLost
<1>7. QED
  BY <1>1, <1>3, <1>4, <1>5, <1>6 DEF LossEvent, ModeChangeRead, lossVars

(* The rest ends holds, or leaves them alone, and doubts nothing. *)
LEMMA FreshElse ==
  ASSUME Known, FreshInv,
         \/ UNCHANGED vars \/ PublicCall \/ SessionStep \/ \E l \in Locks : ServeCheck(l) \/ Revoke(l)
         \/ \E p \in Ops : Operation(p) /\ ~BodyRefused(p)
  PROVE  FreshAfterLoss' /\ GrantFresh'
<1>1. holds' \subseteq holds /\ UNCHANGED <<wire, doubted>>
  BY DEF Operation, EnterTurn, QueueTimeout, LeaveTurn, Take, Nest, Unwind, BodyEnds, BodyRestarts,
         PublicCall, RequestPublic, ReleasePublic, RequestPublicAll, ReleasePublicAll, SessionStep,
         RefuseNewTurns, Disconnect, DrainTimeout, Teardown, Connect, ServeCheck, Revoke, vars, lossVars,
         chainVars, Enqueue
<1>2. QED BY <1>1, FewerHolds DEF FreshInv, FreshAfterLoss, GrantFresh

(* A status read is sent about the holds on its lock. *)
LEMMA AffectedStep ==
  ASSUME Known, AffectedOK, [Next]_vars
  PROVE  AffectedOK'
<1>0. HoldType /\ affected \in [Locks -> SUBSET Hold]
  BY KnownParts DEF HoldType
<1>1. CASE \A l \in Locks : affected'[l] \subseteq affected[l]
  BY <1>1 DEF AffectedOK
<1>2. CASE ModeChangeRead
  BY <1>2 DEF ModeChangeRead, AffectedOK
<1>3. ASSUME NEW l \in Locks, CheckAnswered(l)
      PROVE  AffectedOK'
  BY <1>0, <1>1, <1>3 DEF CheckAnswered
<1>4. CASE ChainStep
  BY <1>0, <1>1, <1>4 DEF ChainStep, StartAcquire, StartRelease, StartForget, StartPlainRelease,
         StartAcquireAll, StartReleaseAll, StartAfterLoss, AnswerAcquire, AnswerHeldByMe, AnswerRelease,
         AnswerPlainRelease, AnswerAcquireAll, AnswerUndo, AnswerReleaseAll, AnswerAfterLoss,
         GroupGranted, GroupRefused, Granted, NotGranted, checkVars
<1>5. affected' = affected \/ ChainStep \/ ModeChangeRead \/ \E l \in Locks : CheckAnswered(l)
  BY DEF Next, vars, checkVars, Operation, EnterTurn, QueueTimeout, LeaveTurn, Take, Nest, Unwind, BodyEnds,
         BodyRefused, BodyRestarts, PublicCall, RequestPublic, ReleasePublic, RequestPublicAll,
         ReleasePublicAll, LossEvent, ModeChange, ConnectionLost, SessionReissued, WatchdogLapse,
         SessionStep, RefuseNewTurns, Disconnect, DrainTimeout, Teardown, Connect, Controller, Serve,
         ServeRequest, ServeRelease, ServeHeldByMe, ServeCheck, Revoke
<1>6. QED BY <1>1, <1>2, <1>3, <1>4, <1>5

(* Once a lock is recorded as lost, a hold on it is counted again only     *)
(* after the controller granted a new request or named this session as     *)
(* the holder: for any locks, operations and public holds, as long as no   *)
(* caller uses the all-locks request (with it the statement is false: see  *)
(* AccessGroupDoubt.cfg).                                                  *)
THEOREM LossIsRemembered ==
  ASSUME Groups = {}
  PROVE  Spec => []FreshAfterLoss
<1>1. Init => FreshInv
  BY DEF Init, FreshInv, FreshAfterLoss, GrantFresh, AffectedOK, Counted, CountedIn, NoWire
<1>2. Known /\ FreshInv /\ [Next]_vars => FreshInv'
  <2> SUFFICES ASSUME Known, FreshInv, [Next]_vars PROVE FreshInv'
    OBVIOUS
  <2>1. AffectedOK'
    BY AffectedStep DEF FreshInv
  <2>2. FreshAfterLoss' /\ GrantFresh'
    BY FreshChain, FreshServe, FreshLoss, FreshElse DEF Next, Controller
  <2>3. QED BY <2>1, <2>2 DEF FreshInv
<1>3. FreshInv => FreshAfterLoss
  BY DEF FreshInv
<1>4. QED BY <1>1, <1>2, <1>3, LockInvariant, PTL DEF Spec

-----------------------------------------------------------------------------
(* What the records say: a lock reported idle is not this session's.       *)

(* The records do not tell of a lock that the controller has for this      *)
(* session.  This may be while a call about it is on its way: a request    *)
(* that was granted, the read of who holds it, or the release of its last  *)
(* hold.                                                                   *)
Silent(l) == holder[l] = "me" /\ ~Counted(l) /\ record[l] \in {"null", "idle"}
Unsettled ==
    \/ wire.msg = "request" /\ wire.answer \in {"ok", "alreadyHeld", "noAnswer"}
    \/ wire.msg = "heldByMe" /\ wire.answer # "notHeld"
    \/ wire.msg = "release" /\ Running.kind = "release" /\ wire.answer \in {"pending", "failed"}
Settled == \A l \in Locks : Silent(l) => l \in wire.locks /\ Unsettled

(* A release that took effect, or found nothing, is believed. *)
ReleaseTold ==
    wire.msg = "release" /\ wire.answer \in {"ok", "notHeld"} => \A l \in wire.locks : holder[l] # "me"

(* A request goes unanswered only where the network drops some. *)
Dropped == wire.answer = "noAnswer" => Unanswered

(* An operation that restarted the controller only forgets its holds, and  *)
(* none of them is the controller's any more.                              *)
Restarted ==
    \A p \in Ops : outcome[p] = "restart" =>
       /\ pc[p] \in {"unwind", "ending"} /\ ~nested[p]
       /\ \A h \in holds : Owner[h] = p => holder[LockOf[h]] # "me"

(* Holds are forgotten after a restart only, and without groups there is   *)
(* no all-locks release.                                                   *)
PlainChain(c, o) ==
    \A i \in 1..Len(c) :
       /\ c[i].kind # "releaseAll"
       /\ c[i].kind = "forget" => Owner[c[i].hold] \in Ops /\ o[Owner[c[i].hold]] = "restart"

IdleInv == Settled /\ ReleaseTold /\ Dropped /\ Restarted /\ PlainChain(chain, outcome)

(* Nobody else makes a lock this session's: a step off the wire that       *)
(* leaves no lock silent that was not.                                     *)
LEMMA SettledOff ==
  ASSUME Known, IdleInv, wire' = wire, \A l \in Locks : Silent(l)' => Silent(l),
         \A l \in Locks : holder'[l] = "me" => holder[l] = "me",
         NEW s, chain' = chain \/ Enqueue(s)
  PROVE  Settled' /\ ReleaseTold' /\ Dropped'
<1>0. ChainType /\ WireInv /\ wire.locks \subseteq Locks
  BY KnownParts DEF ChainType, WireType
<1>1. Unsettled => Unsettled'
  <2>1. Unsettled => wire # NoWire
    BY DEF Unsettled, NoWire
  <2>2. wire # NoWire => Running' = Running
    BY <1>0, SameRunning
  <2>3. QED BY <2>1, <2>2 DEF Unsettled
<1>2. Settled'
  BY <1>1 DEF IdleInv, Settled
<1>3. QED BY <1>0, <1>2 DEF IdleInv, ReleaseTold, Dropped

(* Recording a loss tells of every lock it ends holds on. *)
LEMMA SilentLoss ==
  ASSUME Known, NEW L, RecordLoss(L), NEW l \in Locks, holder'[l] = "me" => holder[l] = "me", Silent(l)'
  PROVE  Silent(l)
<1>1. record'[l] = IF l \in L THEN "lost" ELSE record[l]
  BY DEF RecordLoss, MarkEnded
<1>2. l \notin L /\ record'[l] = record[l]
  BY <1>1 DEF Silent
<1>3. Counted(l) => Counted(l)'
  BY <1>2 DEF RecordLoss, EndHolds, Counted, CountedIn
<1>4. QED BY <1>2, <1>3 DEF Silent

(* Between two steps nothing is silent. *)
LEMMA NoneSilent ==
  ASSUME IdleInv, wire = NoWire
  PROVE  \A l \in Locks : ~Silent(l)
BY DEF IdleInv, Settled, NoWire

(* What the end of a step, or a call just sent, leaves to show. *)
LEMMA SettledSent ==
  ASSUME wire' = NoWire \/ (\E m \in {"request", "release", "heldByMe"} : \E L : wire' = Call(m, L)),
         \A l \in Locks : Silent(l)' => l \in wire'.locks /\ Unsettled'
  PROVE  Settled' /\ ReleaseTold' /\ Dropped'
<1>1. wire'.answer = "pending"
  BY DEF NoWire, Call
<1>2. QED BY <1>1 DEF Settled, ReleaseTold, Dropped

LEMMA SettledAcquire ==
  ASSUME Known, IdleInv, CanRead \/ ~Unanswered, StartAcquire \/ AnswerAcquire \/ AnswerHeldByMe
  PROVE  Settled' /\ ReleaseTold' /\ Dropped'
<1>0. ChainType /\ WireInv /\ HoldType /\ WireUncounted
  BY KnownParts
<1>1. chain # <<>> /\ Running.kind = "acquire" /\ holder' = holder
  BY <1>0, AnsweredRuns DEF StartAcquire, AnswerAcquire, AnswerHeldByMe, Starts, controller
<1>2. PICK h \in Hold : h = Running.hold
  BY <1>0, <1>1, RunningType
<1>3. LockOf[h] \in Locks
  BY LockOfType
<1>4. ASSUME Granted(h), record' = record, \A l \in Locks : Silent(l) => l = LockOf[h]
      PROVE  Settled' /\ ReleaseTold' /\ Dropped'
  <2>1. holds' = holds \cup {h} /\ wire' = NoWire
    BY <1>4 DEF Granted, StepDone
  <2>2. \A l \in Locks : ~Silent(l)'
    BY <2>1, <1>1, <1>4 DEF Silent, Counted, CountedIn
  <2>3. QED BY <2>1, <2>2, SettledSent
<1>5. ASSUME holds' = holds, StepDone, \A l \in Locks : Silent(l) => record'[l] \notin {"null", "idle"},
             \A l \in Locks : record'[l] = record[l] \/ record'[l] \notin {"null", "idle"}
      PROVE  Settled' /\ ReleaseTold' /\ Dropped'
  <2>1. wire' = NoWire
    BY <1>5 DEF StepDone
  <2>2. \A l \in Locks : ~Silent(l)'
    BY <1>1, <1>5 DEF Silent, Counted, CountedIn
  <2>3. QED BY <2>1, <2>2, SettledSent
<1>6. CASE StartAcquire
  <2>1. \A l \in Locks : ~Silent(l)
    BY <1>6, NoneSilent DEF StartAcquire, Starts
  <2>2. record' = record
    BY <1>6 DEF StartAcquire
  <2>3. CASE Granted(h)
    BY <1>4, <2>1, <2>2, <2>3
  <2>4. CASE NotGranted(h)
    BY <1>5, <2>1, <2>2, <2>4 DEF NotGranted
  <2>5. CASE Send("request", {LockOf[h]}) /\ holds' = holds
    <3>1. \A l \in Locks : ~Silent(l)'
      BY <1>1, <2>1, <2>2, <2>5 DEF Silent, Counted, CountedIn
    <3>2. wire' = Call("request", {LockOf[h]})
      BY <2>5 DEF Send
    <3>3. QED BY <3>1, <3>2, SettledSent
  <2>6. QED BY <1>2, <1>6, <2>3, <2>4, <2>5 DEF StartAcquire
<1>7. CASE AnswerAcquire
  <2>1. wire.locks = {LockOf[h]} /\ wire.msg = "request" /\ record' = record
    BY <1>0, <1>1, <1>2, <1>7, AnsweredRuns DEF AnswerAcquire, Answered
  <2>2. \A l \in Locks : Silent(l) => l = LockOf[h] /\ wire.answer \in {"ok", "alreadyHeld", "noAnswer"}
    BY <2>1 DEF IdleInv, Settled, Unsettled
  <2>3. CASE Granted(h)
    BY <1>4, <2>1, <2>2, <2>3
  <2>4. CASE Send("heldByMe", {LockOf[h]}) /\ holds' = holds
    <3>1. wire' = Call("heldByMe", {LockOf[h]})
      BY <2>4 DEF Send
    <3>2. wire'.locks = {LockOf[h]} /\ Unsettled'
      BY <3>1 DEF Call, Unsettled
    <3>3. \A l \in Locks : Silent(l)' => l = LockOf[h]
      BY <1>1, <2>1, <2>2, <2>4 DEF Silent, Counted, CountedIn
    <3>4. QED BY <3>1, <3>2, <3>3, SettledSent
  <2>5. CASE NotGranted(h) /\ (wire.answer = "refused" \/ (wire.answer = "noAnswer" /\ ~CanRead))
    <3>1. \A l \in Locks : ~Silent(l)
      BY <2>2, <2>5 DEF IdleInv, Dropped
    <3>2. QED BY <1>5, <2>1, <2>5, <3>1 DEF NotGranted
  <2>6. QED BY <1>2, <1>7, <2>3, <2>4, <2>5 DEF AnswerAcquire
<1>8. CASE AnswerHeldByMe
  <2>1. wire.locks = {LockOf[h]} /\ wire.msg = "heldByMe" /\ wire # NoWire
    BY <1>0, <1>1, <1>2, <1>8, AnsweredRuns DEF AnswerHeldByMe, Answered, NoWire
  <2>2. \A l \in Locks : Silent(l) => l = LockOf[h] /\ wire.answer # "notHeld"
    BY <2>1 DEF IdleInv, Settled, Unsettled
  <2>3. ~Counted(LockOf[h])
    BY <2>1, <1>0 DEF WireUncounted
  <2>4. CASE Granted(h) /\ record' = record
    BY <1>4, <2>2, <2>4
  <2>5. CASE wire.answer = "notHeld" /\ NotGranted(h) /\ record' = record
    BY <1>5, <2>2, <2>5 DEF NotGranted
  <2>6. CASE NotGranted(h) /\ MarkEnded({l \in {LockOf[h]} : ~Counted(l)}, "uncertain")
    <3>1. \A l \in Locks : record'[l] = IF l = LockOf[h] THEN "uncertain" ELSE record[l]
      BY <2>3, <2>6 DEF MarkEnded
    <3>2. QED BY <1>5, <2>2, <2>6, <3>1 DEF NotGranted
  <2>7. QED BY <1>2, <1>8, <2>4, <2>5, <2>6 DEF AnswerHeldByMe
<1>9. QED BY <1>6, <1>7, <1>8

(* What wireRelease records of its answer leaves no lock silent. *)
LEMMA SettledReleased ==
  ASSUME Known, IdleInv, Answered("release"), holder' = holder, StepDone,
         Released(wire.locks, wire.locks) \/ Released(wire.locks, {})
  PROVE  Settled' /\ ReleaseTold' /\ Dropped'
<1>0. WireUncounted /\ wire.locks \subseteq Locks
  BY KnownParts DEF ChainType, WireType
<1>1. \A l \in wire.locks : ~Counted(l)
  BY <1>0 DEF WireUncounted
<1>2. PICK E \in {wire.locks, {}} : Released(wire.locks, E)
  OBVIOUS
<1>3. {l \in wire.locks : ~Counted(l)} = wire.locks /\ {l \in wire.locks : l \in E \/ Counted(l)} = E
  BY <1>1, <1>2
<1>4. holds' = holds
  <2>1. CASE EndHolds(E)
    BY <2>1, <1>1, <1>2 DEF EndHolds, Counted, CountedIn
  <2>2. CASE holds' = holds
    BY <2>2
  <2>3. QED BY <1>2, <1>3, <2>1, <2>2 DEF Released
<1>5. \A l \in Locks : l \notin wire.locks => record'[l] = record[l]
  BY <1>2, <1>3 DEF Released, MarkEnded
<1>6. \A l \in wire.locks : holder[l] # "me" \/ record'[l] \notin {"null", "idle"}
  <2>1. CASE wire.answer \in {"ok", "notHeld"}
    BY <2>1 DEF IdleInv, ReleaseTold, Answered
  <2>2. CASE wire.answer = "failed"
    BY <2>2, <1>0, <1>2, <1>3 DEF Released, MarkEnded
  <2>3. QED BY <1>2, <2>1, <2>2 DEF Released
<1>7. \A l \in Locks : ~Silent(l)'
  BY <1>4, <1>5, <1>6 DEF IdleInv, Settled, Silent, Counted, CountedIn
<1>8. QED BY <1>7, SettledSent DEF StepDone

LEMMA SettledRelease ==
  ASSUME Known, IdleInv, StartRelease \/ StartForget \/ AnswerRelease
  PROVE  Settled' /\ ReleaseTold' /\ Dropped'
<1>0. ChainType /\ WireInv /\ chain \in Seq(Step)
  BY KnownParts DEF ChainType
<1>1. chain # <<>> /\ Running.kind \in {"release", "forget"} /\ holder' = holder
  BY <1>0, AnsweredRuns DEF StartRelease, StartForget, AnswerRelease, Starts, controller
<1>2. PICK h \in Hold : h = Running.hold
  BY <1>0, <1>1, RunningType
<1>3. CASE AnswerRelease
  BY <1>1, <1>3, SettledReleased DEF AnswerRelease
<1>4. ASSUME holds' = holds \ {h}, ~LastHold(h)
      PROVE  \A l : Counted(l)' <=> Counted(l)
  BY <1>4 DEF LastHold, Counted, CountedIn
<1>5. ASSUME holds' = holds \ {h}
      PROVE  \A l : l # LockOf[h] => (Counted(l)' <=> Counted(l))
  BY <1>5 DEF Counted, CountedIn
<1>6. CASE StartRelease
  <2>1. /\ \A l \in Locks : ~Silent(l)
        /\ holds' = holds \ {h} /\ record' = record /\ Running.kind = "release"
    BY <1>2, <1>6, NoneSilent DEF StartRelease, Starts
  <2>2. CASE LastHold(h)
    <3>1. Send("release", {LockOf[h]})
      BY <1>2, <1>6, <2>2 DEF StartRelease
    <3>2. wire' = Call("release", {LockOf[h]}) /\ Running' = Running
      BY <3>1 DEF Send, Running
    <3>3. wire'.locks = {LockOf[h]} /\ Unsettled'
      BY <2>1, <3>2 DEF Call, Unsettled
    <3>4. \A l \in Locks : Silent(l)' => l = LockOf[h]
      BY <1>1, <1>5, <2>1 DEF Silent
    <3>5. QED BY <3>2, <3>3, <3>4, SettledSent
  <2>3. CASE ~LastHold(h)
    <3>1. wire' = NoWire
      BY <1>2, <1>6, <2>3 DEF StartRelease, StepDone
    <3>2. \A l \in Locks : ~Silent(l)'
      BY <1>1, <1>4, <2>1, <2>3 DEF Silent
    <3>3. QED BY <3>1, <3>2, SettledSent
  <2>4. QED BY <2>2, <2>3
<1>7. CASE StartForget
  <2>1. /\ \A l \in Locks : ~Silent(l)
        /\ holds' = holds \ {h} /\ wire' = NoWire /\ Running.kind = "forget"
    BY <1>2, <1>7, NoneSilent DEF StartForget, Starts, StepDone
  <2>2. CASE LastHold(h)
    <3>1. Running = chain[1] /\ 1 \in 1..Len(chain)
      BY <1>0, <1>1 DEF Running
    <3>2. Owner[h] \in Ops /\ outcome[Owner[h]] = "restart"
      BY <1>2, <2>1, <3>1 DEF IdleInv, PlainChain
    <3>3. holder[LockOf[h]] # "me"
      BY <2>2, <3>2 DEF IdleInv, Restarted, LastHold
    <3>4. MarkEnded({LockOf[h]}, "idle")
      BY <1>2, <1>7, <2>2 DEF StartForget
    <3>5. \A l \in Locks : l # LockOf[h] => record'[l] = record[l]
      BY <3>4 DEF MarkEnded
    <3>6. \A l \in Locks : ~Silent(l)'
      BY <1>1, <1>5, <2>1, <3>3, <3>5 DEF Silent
    <3>7. QED BY <2>1, <3>6, SettledSent
  <2>3. CASE ~LastHold(h)
    <3>1. record' = record
      BY <1>2, <1>7, <2>3 DEF StartForget
    <3>2. \A l \in Locks : ~Silent(l)'
      BY <1>1, <1>4, <2>1, <2>3, <3>1 DEF Silent
    <3>3. QED BY <2>1, <3>2, SettledSent
  <2>4. QED BY <2>2, <2>3
<1>8. QED BY <1>3, <1>6, <1>7

(* The releases nobody counts, and the steps that groups would need. *)
LEMMA SettledOthers ==
  ASSUME Known, IdleInv, Groups = {}, ChainStep,
         ~(StartAcquire \/ AnswerAcquire \/ AnswerHeldByMe \/ StartRelease \/ StartForget \/ AnswerRelease)
  PROVE  Settled' /\ ReleaseTold' /\ Dropped'
<1>0. ChainType /\ WireInv /\ chain \in Seq(Step)
  BY KnownParts DEF ChainType
<1>1. chain # <<>>
  BY <1>0, AnsweredRuns DEF ChainStep, StartPlainRelease, StartAcquireAll, StartReleaseAll, StartAfterLoss,
         AnswerPlainRelease, AnswerAcquireAll, AnswerUndo, AnswerReleaseAll, AnswerAfterLoss, Starts
<1>2. Running.kind \notin {"acquireAll", "releaseAll"}
  <2>1. Running.kind # "acquireAll"
    BY <1>0, <1>1, RunningType
  <2>2. Running = chain[1] /\ 1 \in 1..Len(chain)
    BY <1>0, <1>1 DEF Running
  <2>3. QED BY <2>1, <2>2 DEF IdleInv, PlainChain
<1>3. StartPlainRelease \/ AnswerPlainRelease \/ StartAfterLoss \/ AnswerAfterLoss
  BY <1>2 DEF ChainStep, StartAcquireAll, StartReleaseAll, AnswerAcquireAll, AnswerUndo, AnswerReleaseAll, Starts
<1>4. CASE AnswerPlainRelease
  BY <1>4, SettledReleased DEF AnswerPlainRelease, controller
<1>5. CASE StartPlainRelease \/ StartAfterLoss \/ AnswerAfterLoss
  <2>1. \A l \in Locks : ~Silent(l)
    <3>1. CASE StartPlainRelease \/ StartAfterLoss
      BY <3>1, NoneSilent DEF StartPlainRelease, StartAfterLoss, Starts
    <3>2. CASE AnswerAfterLoss
      <4>1. ~Unsettled
        BY <3>2 DEF AnswerAfterLoss, Answered, Unsettled
      <4>2. QED BY <4>1 DEF IdleInv, Settled
    <3>3. QED BY <1>5, <3>1, <3>2
  <2>2. UNCHANGED <<holder, holds, record>>
    BY <1>5 DEF StartPlainRelease, StartAfterLoss, AnswerAfterLoss, controller
  <2>3. \A l \in Locks : ~Silent(l)'
    BY <2>1, <2>2 DEF Silent, Counted, CountedIn
  <2>4. wire' = NoWire \/ \E L : wire' = Call("release", L)
    BY <1>5 DEF StartPlainRelease, StartAfterLoss, AnswerAfterLoss, NextAfterLoss, StepDone, Send
  <2>5. QED BY <2>3, <2>4, SettledSent
<1>6. QED BY <1>3, <1>4, <1>5

LEMMA SettledServe ==
  ASSUME Known, IdleInv, Serve
  PROVE  Settled' /\ ReleaseTold' /\ Dropped'
<1>0. ChainType /\ WireInv /\ wire \in WireType /\ ControllerType /\ wire.locks \subseteq Locks
  BY KnownParts DEF ChainType, WireType
<1>1. UNCHANGED <<holds, record, chain>> /\ Running' = Running
  BY DEF Serve, ServeRequest, ServeRelease, ServeHeldByMe, Running
<1>2. PICK a \in {"ok", "noAnswer", "alreadyHeld", "refused", "failed", "notHeld", "held"} : Answer(a)
  BY DEF Serve, ServeRequest, ServeRelease, ServeHeldByMe
<1>3. wire'.msg = wire.msg /\ wire'.locks = wire.locks /\ wire'.answer = a
  BY <1>0, <1>2 DEF Answer, WireType
<1>4. \A b : Answer(b) => b = a
  BY <1>0, <1>3 DEF Answer, WireType
<1>5. \A l \in Locks : (holder'[l] = "me" => holder[l] = "me") => (Silent(l)' => Silent(l))
  BY <1>1 DEF Silent, Counted, CountedIn
<1>6. CASE ServeRequest
  <2>1. \A l \in Locks : ~Silent(l)
    BY <1>6 DEF ServeRequest, IdleInv, Settled, Unsettled
  <2>2. Dropped' /\ ReleaseTold'
    BY <1>3, <1>4, <1>6 DEF ServeRequest, Dropped, ReleaseTold
  <2>3. CASE holder' = holder
    BY <1>5, <2>1, <2>2, <2>3 DEF Settled
  <2>4. CASE holder' = [l \in Locks |-> IF l \in wire.locks THEN "me" ELSE holder[l]]
             /\ a \in {"ok", "noAnswer", "alreadyHeld"}
    <3>1. Unsettled'
      BY <1>3, <1>6, <2>4 DEF ServeRequest, Unsettled
    <3>2. \A l \in Locks : Silent(l)' => l \in wire.locks
      BY <1>5, <2>1, <2>4
    <3>3. QED BY <1>3, <2>2, <3>1, <3>2 DEF Settled
  <2>5. QED BY <1>4, <1>6, <2>3, <2>4 DEF ServeRequest, controller
<1>7. CASE ServeRelease
  <2>1. wire.msg = "release" /\ \A l \in Locks : holder'[l] = "me" => holder[l] = "me"
    BY <1>0, <1>7 DEF ServeRelease, ControllerType
  <2>2. a \in {"ok", "notHeld"} => \A l \in wire.locks : holder'[l] # "me"
    <3>1. CASE a \in {"ok", "notHeld"}
      <4>1. ~Answer("failed")
        BY <1>4, <3>1
      <4>2. holder' = [l \in Locks |-> IF l \in wire.locks /\ holder[l] = "me" THEN "none" ELSE holder[l]]
        BY <1>7, <4>1 DEF ServeRelease
      <4>3. QED BY <1>0, <4>2
    <3>2. QED BY <3>1
  <2>3. a \in {"ok", "notHeld", "failed"}
    BY <1>4, <1>7 DEF ServeRelease
  <2>4. Dropped' /\ ReleaseTold'
    BY <1>3, <2>1, <2>2, <2>3 DEF Dropped, ReleaseTold
  <2>5. Settled'
    <3>1. ASSUME NEW l \in Locks, Silent(l)'
          PROVE  l \in wire'.locks /\ Unsettled'
      <4>1. Silent(l) /\ holder'[l] = "me"
        BY <1>5, <2>1, <3>1 DEF Silent
      <4>2. l \in wire.locks /\ Unsettled
        BY <4>1 DEF IdleInv, Settled
      <4>3. a = "failed"
        BY <2>2, <2>3, <4>1, <4>2
      <4>4. QED BY <1>1, <1>3, <2>1, <4>2, <4>3 DEF Unsettled
    <3>2. QED BY <3>1 DEF Settled
  <2>6. QED BY <2>4, <2>5
<1>8. CASE ServeHeldByMe
  <2>1. wire.msg = "heldByMe" /\ holder' = holder /\ a \in {"failed", "held", "notHeld"}
    BY <1>4, <1>8 DEF ServeHeldByMe, controller
  <2>2. wire # NoWire
    BY <2>1 DEF NoWire
  <2>3. wire.locks = {LockOf[Head(chain).hold]}
    BY <1>0, <2>1, <2>2 DEF WireInv, WireOK
  <2>4. a = "notHeld" => \A l \in wire.locks : holder[l] # "me"
    BY <1>4, <1>8, <2>3 DEF ServeHeldByMe
  <2>5. Dropped' /\ ReleaseTold'
    BY <1>3, <2>1 DEF Dropped, ReleaseTold
  <2>6. Settled'
    <3>1. ASSUME NEW l \in Locks, Silent(l)'
          PROVE  l \in wire'.locks /\ Unsettled'
      <4>1. Silent(l) /\ holder[l] = "me"
        BY <1>5, <2>1, <3>1 DEF Silent
      <4>2. l \in wire.locks
        BY <4>1 DEF IdleInv, Settled
      <4>3. QED BY <1>3, <2>1, <2>4, <4>1, <4>2 DEF Unsettled
    <3>2. QED BY <3>1 DEF Settled
  <2>7. QED BY <2>5, <2>6
<1>9. QED BY <1>6, <1>7, <1>8 DEF Serve

(* Operations, callers, losses and the session's end. *)
LEMMA SettledElse ==
  ASSUME Known, IdleInv,
         \/ UNCHANGED vars \/ PublicCall \/ LossEvent \/ SessionStep
         \/ \E l \in Locks : ServeCheck(l) \/ Revoke(l)
         \/ \E p \in Ops : Operation(p)
  PROVE  Settled' /\ ReleaseTold' /\ Dropped'
<1>0. ControllerType /\ HoldType
  BY KnownParts
<1>1. wire' = wire /\ \E s : chain' = chain \/ Enqueue(s)
  BY DEF Operation, EnterTurn, QueueTimeout, LeaveTurn, Take, Nest, Unwind, BodyEnds, BodyRefused,
         BodyRestarts, PublicCall, RequestPublic, ReleasePublic, RequestPublicAll, ReleasePublicAll,
         LossEvent, ModeChange, ModeChangeRead, ConnectionLost, SessionReissued, CheckAnswered,
         WatchdogLapse, Lose, SessionStep, RefuseNewTurns, Disconnect, DrainTimeout, Teardown, Connect,
         ServeCheck, Revoke, vars, chainVars, Enqueue
<1>2. \A l \in Locks : holder'[l] = "me" => holder[l] = "me"
  BY <1>0 DEF Operation, EnterTurn, QueueTimeout, LeaveTurn, Take, Nest, Unwind, BodyEnds, BodyRefused,
         BodyRestarts, PublicCall, RequestPublic, ReleasePublic, RequestPublicAll, ReleasePublicAll,
         LossEvent, ModeChange, ModeChangeRead, ConnectionLost, SessionReissued, CheckAnswered,
         WatchdogLapse, SessionStep, RefuseNewTurns, Disconnect, DrainTimeout, Teardown, Connect,
         ServeCheck, Revoke, vars, controller, ControllerType
<1>3. \A l \in Locks : Silent(l)' => Silent(l)
  <2>1. CASE UNCHANGED <<holds, record>>
    BY <1>2, <2>1 DEF Silent, Counted, CountedIn
  <2>2. ASSUME NEW L, RecordLoss(L)
        PROVE  \A l \in Locks : Silent(l)' => Silent(l)
    BY <1>2, <2>2, SilentLoss
  <2>3. ASSUME NEW F, Teardown(F)
        PROVE  \A l \in Locks : Silent(l)' => Silent(l)
    BY <2>3 DEF Teardown, Silent
  <2>4. CASE \E p \in Ops : Operation(p)
    BY <2>1, <2>2, <2>4 DEF Operation, EnterTurn, QueueTimeout, LeaveTurn, Take, Nest, Unwind, BodyEnds,
         BodyRefused, BodyRestarts
  <2>5. CASE LossEvent
    BY <2>1, <2>2, <2>5 DEF LossEvent, ModeChange, ModeChangeRead, ConnectionLost, SessionReissued,
         CheckAnswered, WatchdogLapse, Lose
  <2>6. CASE SessionStep
    BY <2>1, <2>3, <2>6 DEF SessionStep, RefuseNewTurns, Disconnect, DrainTimeout, Connect
  <2>7. QED
    BY <2>1, <2>4, <2>5, <2>6 DEF PublicCall, RequestPublic, ReleasePublic, RequestPublicAll,
         ReleasePublicAll, ServeCheck, Revoke, vars
<1>4. QED BY <1>1, <1>2, <1>3, SettledOff

(* The chain keeps to plain steps: an operation that awaits the end of a   *)
(* hold has the outcome it ended its fn with.                              *)
LEMMA PlainKeeps ==
  ASSUME Known, IdleInv, \A q \in Ops : pc[q] = "ending" => outcome'[q] = outcome[q],
         NEW s, chain' = chain \/ (chain # <<>> /\ StepDone) \/ Enqueue(s),
         Enqueue(s) => /\ s.kind # "releaseAll"
                       /\ s.kind = "forget" => Owner[s.hold] \in Ops /\ outcome'[Owner[s.hold]] = "restart"
  PROVE  PlainChain(chain', outcome')
<1>0. chain \in Seq(Step) /\ ChainOK(chain, pc) /\ PlainChain(chain, outcome)
  BY KnownParts, Parts DEF ChainType, IdleInv
<1>1. \A i \in 1..Len(chain) :
         /\ chain[i].kind # "releaseAll"
         /\ chain[i].kind = "forget" => Owner[chain[i].hold] \in Ops /\ outcome'[Owner[chain[i].hold]] = "restart"
  BY <1>0 DEF PlainChain, ChainOK, OpStep, WaitingPc
<1>2. CASE chain' = chain
  BY <1>1, <1>2 DEF PlainChain
<1>3. CASE chain # <<>> /\ StepDone
  <2>1. \A i \in 1..Len(chain') : chain'[i] = chain[i + 1] /\ i + 1 \in 1..Len(chain)
    BY <1>0, <1>3 DEF StepDone
  <2>2. QED BY <1>1, <2>1 DEF PlainChain
<1>4. CASE Enqueue(s)
  <2>1. /\ Len(chain) \in Nat /\ Len(chain') = Len(chain) + 1
        /\ \A i \in 1..Len(chain) : chain'[i] = chain[i]
        /\ chain'[Len(chain) + 1] = s
    BY <1>0, <1>4 DEF Enqueue
  <2>2. \A i \in 1..Len(chain') : i \in 1..Len(chain) \/ i = Len(chain) + 1
    BY <2>1
  <2>3. QED BY <1>1, <1>4, <2>1, <2>2 DEF PlainChain
<1>5. QED BY <1>2, <1>3, <1>4

LEMMA PlainStep ==
  ASSUME Known, IdleInv, Groups = {}, [Next]_vars
  PROVE  PlainChain(chain', outcome')
<1>0. TurnType /\ TurnInv /\ ChainType /\ WireInv
  BY KnownParts, Parts
<1>1. ASSUME UNCHANGED <<chain, outcome>>
      PROVE  PlainChain(chain', outcome')
  BY <1>1 DEF IdleInv
<1>2. ASSUME NEW s, Enqueue(s), outcome' = outcome, s.kind \notin {"releaseAll", "forget"}
      PROVE  PlainChain(chain', outcome')
  BY <1>2, PlainKeeps
<1>3. CASE ChainStep
  <2>1. chain # <<>>
    BY <1>0, <1>3, AnsweredRuns DEF ChainStep, StartAcquire, StartRelease, StartForget, StartPlainRelease,
         StartAcquireAll, StartReleaseAll, StartAfterLoss, AnswerAcquire, AnswerHeldByMe, AnswerRelease,
         AnswerPlainRelease, AnswerAcquireAll, AnswerUndo, AnswerReleaseAll, AnswerAfterLoss, Starts
  <2>2. chain' = chain \/ StepDone
    BY <1>3 DEF ChainStep, StartAcquire, StartRelease, StartForget, StartPlainRelease,
         StartAcquireAll, StartReleaseAll, StartAfterLoss, AnswerAcquire, AnswerHeldByMe, AnswerRelease,
         AnswerPlainRelease, AnswerAcquireAll, AnswerUndo, AnswerReleaseAll, AnswerAfterLoss,
         NextAfterLoss, GroupGranted, GroupRefused, Granted, NotGranted, Send
  <2>3. outcome' = outcome \/ (Running.kind = "acquire" /\ NotGranted(Running.hold))
    <3>1. CASE StartAcquire \/ AnswerAcquire \/ AnswerHeldByMe
      <4>1. Running.kind = "acquire"
        BY <1>0, <3>1, AnsweredRuns DEF StartAcquire, AnswerAcquire, AnswerHeldByMe, Starts
      <4>2. QED BY <3>1, <4>1 DEF StartAcquire, AnswerAcquire, AnswerHeldByMe, Granted, opVars
    <3>2. QED
      BY <1>3, <3>1 DEF ChainStep, StartRelease, StartForget, StartPlainRelease, StartAcquireAll,
         StartReleaseAll, StartAfterLoss, AnswerRelease, AnswerPlainRelease, AnswerAcquireAll, AnswerUndo,
         AnswerReleaseAll, AnswerAfterLoss, HoldEnded, opVars
  <2>4. \A q \in Ops : pc[q] = "ending" => outcome'[q] = outcome[q]
    <3>1. CASE Running.kind = "acquire" /\ NotGranted(Running.hold)
      <4>1. Owner[Running.hold] \in Ops => pc[Owner[Running.hold]] = "taking"
        BY <1>0, <2>1, <3>1, RunningOp DEF OpStep, WaitingPc
      <4>2. QED BY <1>0, <3>1, <4>1 DEF NotGranted, TurnType
    <3>2. QED BY <2>3, <3>1
  <2>5. PICK s : s.kind = "acquire"
    <3>1. [kind |-> "acquire"].kind = "acquire"
      OBVIOUS
    <3>2. QED BY <3>1
  <2>6. QED BY <2>1, <2>2, <2>4, <2>5, PlainKeeps
<1>4. ASSUME NEW p \in Ops, Operation(p)
      PROVE  PlainChain(chain', outcome')
  <2>1. CASE EnterTurn(p) \/ QueueTimeout(p) \/ Nest(p)
    BY <1>1, <2>1 DEF EnterTurn, QueueTimeout, Nest, chainVars
  <2>2. CASE LeaveTurn(p) \/ (\E how : BodyEnds(p, how)) \/ BodyRefused(p) \/ BodyRestarts(p)
    <3>1. chain' = chain /\ pc[p] # "ending"
      BY <2>2 DEF LeaveTurn, Unwound, BodyEnds, BodyRefused, BodyRestarts, chainVars
    <3>2. \A q \in Ops : q # p => outcome'[q] = outcome[q]
      BY <2>2, <1>0 DEF LeaveTurn, BodyEnds, BodyRefused, BodyRestarts, TurnType
    <3>3. PICK s : s = [kind |-> "acquire"]
      OBVIOUS
    <3>4. s.kind = "acquire"
      BY <3>3
    <3>5. QED BY <3>1, <3>2, <3>4, PlainKeeps
  <2>3. CASE Take(p)
    <3>1. pc[p] = "take" /\ \A q \in Ops : q # p => outcome'[q] = outcome[q]
      BY <2>3, <1>0 DEF Take, TurnType
    <3>2. PICK s : s = [kind |-> "acquire", hold |-> Frame(p)[taken[p] + 1]]
      OBVIOUS
    <3>3. s.kind = "acquire" /\ (chain' = chain \/ Enqueue(s))
      BY <2>3, <3>2 DEF Take, chainVars
    <3>4. QED BY <3>1, <3>3, PlainKeeps
  <2>4. CASE Unwind(p)
    <3>1. outcome' = outcome
      BY <2>4 DEF Unwind
    <3>2. CASE chain' = chain
      BY <1>1, <3>1, <3>2
    <3>3. CASE taken[p] > 0 /\ Enqueue([kind |-> IF outcome[p] = "restart" THEN "forget" ELSE "release",
                                        hold |-> Frame(p)[taken[p]]])
      <4>1. PICK s : s = [kind |-> IF outcome[p] = "restart" THEN "forget" ELSE "release",
                          hold |-> Frame(p)[taken[p]]]
        OBVIOUS
      <4>2. nested \in [Ops -> BOOLEAN] /\ taken[p] \in 1..Len(Frame(p))
        BY <1>0, <3>3, Parts, FirstPcOK DEF ProgressOK, TurnType, Frame
      <4>3. Owner[Frame(p)[taken[p]]] = p
        BY <4>2, FrameHold
      <4>4. s.kind # "releaseAll" /\ (s.kind = "forget" => Owner[s.hold] = p /\ outcome'[p] = "restart")
        BY <3>1, <4>1, <4>3
      <4>5. QED BY <3>1, <3>3, <4>1, <4>4, PlainKeeps
    <3>4. QED BY <2>4, <3>2, <3>3 DEF Unwind, chainVars
  <2>5. QED BY <1>4, <2>1, <2>2, <2>3, <2>4 DEF Operation
<1>5. CASE PublicCall
  <2>1. outcome' = outcome
    BY <1>5 DEF PublicCall, RequestPublic, ReleasePublic, RequestPublicAll, ReleasePublicAll, opVars
  <2>2. ASSUME NEW h \in Public, RequestPublic(h)
        PROVE  PlainChain(chain', outcome')
    <3>1. PICK s : s = [kind |-> "acquire", hold |-> h]
      OBVIOUS
    <3>2. s.kind = "acquire" /\ Enqueue(s)
      BY <2>2, <3>1 DEF RequestPublic
    <3>3. QED BY <1>2, <2>1, <3>2
  <2>3. ASSUME NEW l \in Locks, ReleasePublic(l)
        PROVE  PlainChain(chain', outcome')
    <3>1. CASE \E h : Enqueue([kind |-> "release", hold |-> h])
      <4>1. PICK h : Enqueue([kind |-> "release", hold |-> h])
        BY <3>1
      <4>2. PICK s : s = [kind |-> "release", hold |-> h]
        OBVIOUS
      <4>3. s.kind = "release"
        BY <4>2
      <4>4. QED BY <1>2, <2>1, <4>1, <4>2, <4>3
    <3>2. CASE Enqueue([kind |-> "plainRelease", lock |-> l])
      <4>1. PICK s : s = [kind |-> "plainRelease", lock |-> l]
        OBVIOUS
      <4>2. s.kind = "plainRelease"
        BY <4>1
      <4>3. QED BY <1>2, <2>1, <3>2, <4>1, <4>2
    <3>3. CASE chain' = chain
      BY <1>1, <2>1, <3>3
    <3>4. QED BY <2>3, <3>1, <3>2, <3>3 DEF ReleasePublic, chainVars
  <2>4. QED BY <1>5, <2>2, <2>3 DEF PublicCall
<1>6. CASE LossEvent
  <2>1. outcome' = outcome
    BY <1>6 DEF LossEvent, ModeChange, ModeChangeRead, ConnectionLost, SessionReissued, CheckAnswered,
         WatchdogLapse, opVars
  <2>2. ASSUME NEW L, NEW r, Lose(L, r)
        PROVE  PlainChain(chain', outcome')
    <3>1. PICK s : s = [kind |-> "afterLoss", locks |-> L]
      OBVIOUS
    <3>2. s.kind = "afterLoss" /\ (chain' = chain \/ Enqueue(s))
      BY <2>2, <3>1 DEF Lose, chainVars
    <3>3. QED BY <1>1, <1>2, <2>1, <3>2
  <2>3. QED
    BY <1>1, <1>6, <2>1, <2>2 DEF LossEvent, ModeChange, ModeChangeRead, ConnectionLost, SessionReissued,
         CheckAnswered, WatchdogLapse, chainVars
<1>7. CASE SessionStep \/ Controller \/ UNCHANGED vars
  BY <1>1, <1>7 DEF SessionStep, RefuseNewTurns, Disconnect, DrainTimeout, Teardown, Connect, Controller,
         Serve, ServeRequest, ServeRelease, ServeHeldByMe, ServeCheck, Revoke, vars, chainVars, opVars
<1>8. QED BY <1>3, <1>4, <1>5, <1>6, <1>7 DEF Next

(* After a restart of the controller the operation only unwinds. *)
LEMMA RestartStep ==
  ASSUME Known, IdleInv, [Next]_vars
  PROVE  Restarted'
<1>0. TurnType /\ TurnInv /\ ChainType /\ WireInv /\ WaitersOK /\ WireUncounted /\ HoldType /\ ControllerType
  BY KnownParts, Parts
<1>1. ASSUME NEW p \in Ops, outcome[p] = "restart"
      PROVE  /\ pc[p] \in {"unwind", "ending"} /\ ~nested[p]
             /\ \A h \in holds : Owner[h] = p => holder[LockOf[h]] # "me"
  BY <1>1 DEF IdleInv, Restarted
<1>2. ASSUME UNCHANGED <<outcome, nested>>, holds' \subseteq holds,
             \A l \in Locks : holder'[l] = "me" => holder[l] = "me",
             \A q \in Ops : pc[q] \in {"unwind", "ending"} => pc'[q] \in {"unwind", "ending"}
      PROVE  Restarted'
  <2>1. \A h \in holds : LockOf[h] \in Locks
    BY <1>0, ConstAssumption DEF HoldType
  <2>2. ASSUME NEW p \in Ops, outcome'[p] = "restart"
        PROVE  /\ pc'[p] \in {"unwind", "ending"} /\ ~nested'[p]
               /\ \A h \in holds' : Owner[h] = p => holder'[LockOf[h]] # "me"
    <3>1. outcome[p] = "restart"
      BY <1>2, <2>2
    <3>2. QED BY <1>1, <1>2, <2>1, <3>1
  <2>3. QED BY <2>2 DEF Restarted
<1>3. ASSUME NEW p \in Ops, Operation(p)
      PROVE  Restarted'
  <2>1. holds' \subseteq holds /\ \A l \in Locks : holder'[l] = "me" => holder[l] = "me"
    BY <1>3 DEF Operation, EnterTurn, QueueTimeout, LeaveTurn, Take, Nest, Unwind, BodyEnds, BodyRefused,
         BodyRestarts, RecordLoss, EndHolds, controller
  <2>2. CASE EnterTurn(p) \/ QueueTimeout(p)
    <3>1. UNCHANGED <<outcome, nested>> /\ pc[p] \notin {"unwind", "ending"}
      BY <2>2, <1>0 DEF EnterTurn, QueueTimeout, WaitersOK
    <3>2. \A q \in Ops : q # p => pc'[q] = pc[q]
      BY <2>2, <1>0 DEF EnterTurn, QueueTimeout, TurnType
    <3>3. QED BY <1>2, <2>1, <3>1, <3>2
  <2>3. CASE LeaveTurn(p)
    <3>1. nested' = nested /\ outcome'[p] = "none" /\ \A q \in Ops : q # p => outcome'[q] = outcome[q]
      BY <2>3, <1>0 DEF LeaveTurn, TurnType
    <3>2. \A q \in Ops : q # p /\ pc[q] \in {"unwind", "ending"} => pc'[q] = pc[q]
      <4>1. CASE waiters = <<>>
        BY <2>3, <4>1, <1>0 DEF LeaveTurn, HandOn, TurnType
      <4>2. CASE waiters # <<>>
        <5>1. Head(waiters) = waiters[1] /\ 1 \in 1..Len(waiters)
          BY <4>2, <1>0 DEF TurnType
        <5>2. pc[Head(waiters)] = "waiting"
          BY <5>1, <1>0 DEF WaitersOK
        <5>3. QED BY <2>3, <4>2, <5>2, <1>0 DEF LeaveTurn, HandOn, TurnType
      <4>3. QED BY <4>1, <4>2
    <3>3. QED BY <1>0, <1>1, <2>1, <3>1, <3>2, ConstAssumption DEF Restarted, HoldType
  <2>4. CASE Take(p) \/ Nest(p) \/ (\E how \in {"done", "failed"} : BodyEnds(p, how)) \/ BodyRefused(p)
    <3>1. outcome[p] # "restart"
      BY <1>1, <2>4 DEF Take, Nest, BodyEnds, BodyRefused
    <3>2. /\ outcome'[p] \in {outcome[p], "failed", "done", "refused"}
          /\ \A q \in Ops : q # p => outcome'[q] = outcome[q] /\ nested'[q] = nested[q] /\ pc'[q] = pc[q]
      BY <2>4, <1>0 DEF Take, Nest, BodyEnds, BodyRefused, TurnType
    <3>3. QED BY <1>0, <1>1, <2>1, <3>1, <3>2, ConstAssumption DEF Restarted, HoldType
  <2>5. CASE BodyRestarts(p)
    <3>1. /\ \A l \in Locks : holder'[l] = "none"
          /\ nested' = nested /\ ~nested[p] /\ pc'[p] = "unwind"
          /\ \A q \in Ops : q # p => outcome'[q] = outcome[q] /\ pc'[q] = pc[q]
      BY <2>5, <1>0 DEF BodyRestarts, TurnType
    <3>2. QED BY <1>0, <1>1, <2>1, <3>1, ConstAssumption DEF Restarted, HoldType
  <2>6. CASE Unwind(p)
    <3>1. outcome' = outcome /\ \A q \in Ops : q # p => nested'[q] = nested[q] /\ pc'[q] = pc[q]
      BY <2>6, <1>0 DEF Unwind, TurnType
    <3>2. outcome[p] = "restart" => nested'[p] = nested[p] /\ pc'[p] = "ending"
      BY <1>0, <1>1, <2>6 DEF Unwind, TurnType
    <3>3. QED BY <1>0, <1>1, <2>1, <3>1, <3>2, ConstAssumption DEF Restarted, HoldType
  <2>7. QED BY <1>3, <2>2, <2>3, <2>4, <2>5, <2>6 DEF Operation
<1>4. CASE StartAcquire \/ AnswerAcquire \/ AnswerHeldByMe
  <2>1. chain # <<>> /\ Running.kind = "acquire" /\ holder' = holder
    BY <1>0, <1>4, AnsweredRuns DEF StartAcquire, AnswerAcquire, AnswerHeldByMe, Starts, controller
  <2>2. PICK h \in Hold : h = Running.hold
    BY <1>0, <2>1, RunningType
  <2>3. Owner[h] \in Ops => pc[Owner[h]] = "taking"
    BY <1>0, <2>1, <2>2, RunningOp DEF OpStep, WaitingPc
  <2>4. /\ holds' \subseteq holds \cup {h} /\ nested' = nested
        /\ \A q \in Ops : q # Owner[h] => outcome'[q] = outcome[q] /\ pc'[q] = pc[q]
        /\ \A q \in Ops : outcome'[q] \in {outcome[q], "failed"}
    <3>1. CASE Granted(h)
      <4>1. \A q \in Ops : q # Owner[h] => pc'[q] = pc[q]
        <5>1. CASE Owner[h] \in Ops
          <6>1. PICK v : pc' = [pc EXCEPT ![Owner[h]] = v]
            BY <3>1, <5>1 DEF Granted
          <6>2. QED BY <6>1, <1>0 DEF TurnType
        <5>2. CASE Owner[h] \notin Ops
          BY <3>1, <5>2 DEF Granted
        <5>3. QED BY <5>1, <5>2
      <4>2. QED BY <3>1, <4>1 DEF Granted
    <3>2. CASE NotGranted(h)
      BY <1>0, <3>2 DEF NotGranted, TurnType
    <3>3. CASE UNCHANGED <<holds, opVars>>
      BY <3>3 DEF opVars
    <3>4. QED BY <1>4, <2>2, <3>1, <3>2, <3>3 DEF StartAcquire, AnswerAcquire, AnswerHeldByMe
  <2>5. QED
    <3>1. ASSUME NEW q \in Ops, outcome'[q] = "restart"
          PROVE  /\ pc'[q] \in {"unwind", "ending"} /\ ~nested'[q]
                 /\ \A g \in holds' : Owner[g] = q => holder'[LockOf[g]] # "me"
      <4>1. outcome[q] = "restart"
        BY <2>4, <3>1
      <4>2. q # Owner[h]
        BY <1>1, <2>3, <4>1
      <4>3. QED BY <1>1, <2>1, <2>4, <4>1, <4>2
    <3>2. QED BY <3>1 DEF Restarted
<1>5. CASE ChainStep /\ ~(StartAcquire \/ AnswerAcquire \/ AnswerHeldByMe)
  <2>1. UNCHANGED <<outcome, nested, holder>>
    BY <1>5 DEF ChainStep, StartRelease, StartForget, StartPlainRelease, StartAcquireAll,
         StartReleaseAll, StartAfterLoss, AnswerRelease, AnswerPlainRelease, AnswerAcquireAll, AnswerUndo,
         AnswerReleaseAll, AnswerAfterLoss, HoldEnded, opVars, controller
  <2>2. \A q \in Ops : pc'[q] \in {pc[q], "unwind"}
    <3>1. pc' = pc \/ HoldEnded(Running.hold)
      BY <1>5 DEF ChainStep, StartRelease, StartForget, StartPlainRelease, StartAcquireAll,
         StartReleaseAll, StartAfterLoss, AnswerRelease, AnswerPlainRelease, AnswerAcquireAll, AnswerUndo,
         AnswerReleaseAll, AnswerAfterLoss, opVars
    <3>2. QED BY <1>0, <3>1 DEF HoldEnded, opVars, TurnType
  <2>3. \A h \in holds' : h \in holds \/ Owner[h] \notin Ops
    <3>1. CASE StartRelease \/ StartForget \/ AnswerRelease
      BY <3>1, ReleasedFewer DEF StartRelease, StartForget, AnswerRelease
    <3>2. CASE StartAcquireAll \/ AnswerAcquireAll \/ AnswerUndo
      <4>1. chain # <<>> /\ Running.kind = "acquireAll"
        BY <1>0, <3>2, AnsweredRuns DEF StartAcquireAll, AnswerAcquireAll, AnswerUndo, Starts
      <4>2. Running.group \in Groups
        BY <1>0, <4>1, RunningType
      <4>3. holds' = holds \/ GroupGranted(Running.group)
        BY <3>2 DEF StartAcquireAll, AnswerAcquireAll, AnswerUndo, GroupRefused
      <4>4. QED BY <4>2, <4>3, ConstAssumption DEF GroupGranted
    <3>3. QED
      BY <1>5, <3>1, <3>2, ReleasedFewer DEF ChainStep, StartPlainRelease, StartReleaseAll, StartAfterLoss,
         AnswerPlainRelease, AnswerReleaseAll, AnswerAfterLoss
  <2>4. QED BY <1>1, <2>1, <2>2, <2>3 DEF Restarted
<1>6. CASE Serve
  <2>1. UNCHANGED <<outcome, nested, pc, holds>>
    BY <1>6 DEF Serve, ServeRequest, ServeRelease, ServeHeldByMe, opVars
  <2>2. \A l \in Locks : holder'[l] = "me" => holder[l] = "me" \/ l \in wire.locks
    BY <1>0, <1>6 DEF Serve, ServeRequest, ServeRelease, ServeHeldByMe, controller, ControllerType
  <2>3. \A h \in holds : LockOf[h] \in Locks /\ LockOf[h] \notin wire.locks
    BY <1>0, ConstAssumption DEF WireUncounted, Counted, CountedIn, HoldType
  <2>4. QED BY <1>1, <2>1, <2>2, <2>3 DEF Restarted
<1>7. CASE PublicCall \/ LossEvent \/ SessionStep \/ (\E l \in Locks : ServeCheck(l) \/ Revoke(l)) \/ UNCHANGED vars
  <2>1. UNCHANGED <<outcome, nested>> /\ \A q \in Ops : pc[q] \in {"unwind", "ending"} => pc'[q] = pc[q]
    BY <1>7 DEF PublicCall, RequestPublic, ReleasePublic, RequestPublicAll, ReleasePublicAll, LossEvent,
         ModeChange, ModeChangeRead, ConnectionLost, SessionReissued, CheckAnswered, WatchdogLapse,
         SessionStep, RefuseNewTurns, RejectWaiters, Disconnect, DrainTimeout, Teardown, Connect,
         ServeCheck, Revoke, vars, opVars
  <2>2. holds' \subseteq holds
    BY <1>7 DEF PublicCall, RequestPublic, ReleasePublic, RequestPublicAll, ReleasePublicAll, LossEvent,
         ModeChange, ModeChangeRead, ConnectionLost, SessionReissued, CheckAnswered, WatchdogLapse, Lose,
         RecordLoss, EndHolds, SessionStep, RefuseNewTurns, Disconnect, DrainTimeout, Teardown, Connect,
         ServeCheck, Revoke, vars
  <2>3. \A l \in Locks : holder'[l] = "me" => holder[l] = "me"
    BY <1>0, <1>7 DEF PublicCall, RequestPublic, ReleasePublic, RequestPublicAll, ReleasePublicAll,
         LossEvent, ModeChange, ModeChangeRead, ConnectionLost, SessionReissued, CheckAnswered,
         WatchdogLapse, SessionStep, RefuseNewTurns, Disconnect, DrainTimeout, Teardown, Connect,
         ServeCheck, Revoke, vars, controller, ControllerType
  <2>4. QED BY <1>2, <2>1, <2>2, <2>3
<1>8. QED BY <1>3, <1>4, <1>5, <1>6, <1>7 DEF Next, Controller

(* With no step in flight a lock reported idle is not this session's on    *)
(* the controller: for any locks, operations and public holds, where an    *)
(* unanswered request can be followed by a read of the holder (RobotWare   *)
(* 8) or no answer is dropped, and no caller uses the all-locks calls      *)
(* (with them the statement is false: see AccessGroupIdle.cfg).            *)
THEOREM IdleIsTrue ==
  ASSUME Groups = {}, CanRead \/ ~Unanswered
  PROVE  Spec => []IdleIsNotHeld
<1>1. Init => IdleInv
  <2> SUFFICES ASSUME Init PROVE IdleInv
    OBVIOUS
  <2>1. Len(<<>>) = 0
    OBVIOUS
  <2>2. QED BY <2>1 DEF Init, IdleInv, Settled, Silent, ReleaseTold, Dropped, Restarted, PlainChain, NoWire
<1>2. Known /\ IdleInv /\ [Next]_vars => IdleInv'
  <2> SUFFICES ASSUME Known, IdleInv, [Next]_vars PROVE IdleInv'
    OBVIOUS
  <2>1. Settled' /\ ReleaseTold' /\ Dropped'
    BY SettledAcquire, SettledRelease, SettledOthers, SettledServe, SettledElse DEF Next, Controller
  <2>2. QED BY <2>1, RestartStep, PlainStep DEF IdleInv
<1>3. Known /\ IdleInv => IdleIsNotHeld
  <2> SUFFICES ASSUME Known, IdleInv, chain = <<>>, NEW l \in Locks, Silent(l) PROVE FALSE
    BY DEF IdleIsNotHeld, Silent
  <2>1. wire = NoWire
    BY KnownParts DEF WireInv, WireOK
  <2>2. QED BY <2>1, NoneSilent
<1>4. QED BY <1>1, <1>2, <1>3, LockInvariant, PTL DEF Spec

=============================================================================
