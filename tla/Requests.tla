------------------------------ MODULE Requests ------------------------------
(***************************************************************************)
(* What a method of the client asks of the controller, as a program: a     *)
(* sequence of instructions.  Contents of requests and answers, argument   *)
(* checks, wording and the reads made only to explain a failure are left   *)
(* out; kept are which requests change the controller, in which order,     *)
(* under which access, and what a failure of each of them skips, repeats   *)
(* or still runs.                                                          *)
(*                                                                         *)
(*   get     a read; its failure is the method's                           *)
(*   quiet   a read whose failure is answered as "nothing"                 *)
(*   ask     a POST that changes nothing: a search, a check, a calculation *)
(*   put     a request that changes the controller                         *)
(*   never   refused as unsupported, nothing is sent                       *)
(*   throw   the method fails by itself                                    *)
(*   may     the next n instructions run or not                            *)
(*   skip    the next n instructions do not run                            *)
(*   else    an any-failure handler of the `back` instructions before it;  *)
(*           n instructions handle it.  some: only of failures other than  *)
(*           "not held", and not of all; notheld: only of "not held"       *)
(*   enter   the write turn begins; leave ends it                          *)
(*   take    access to the domains `on` is counted; give ends the count    *)
(*   trytake the same, and a refusal is ignored                            *)
(*   make    a temporary file is written; drop deletes it                  *)
(*   forfeit the counted access the refused stop named is given up         *)
(*   jogask  is the jog covered by a live hold?  jogtake: its own is taken *)
(*   jogend  the jog's own hold ends before a start                        *)
(***************************************************************************)
EXTENDS Sequences, TLC

Generations == {"rw6", "rw7", "rw8"}

Domains == {"cfg", "motion", "rapid"}

\* The web services a RobotWare generation offers.
Api(g) == IF g = "rw6" THEN "rws1" ELSE "rws2"

\* The locks behind the mastership domains: one each on RobotWare 6, edit and motion on
\* RobotWare 7, the control station's write access on RobotWare 8.
LockOf(g, d) == IF g = "rw6" THEN d
                ELSE IF g = "rw8" THEN "writeaccess"
                ELSE IF d = "motion" THEN "motion" ELSE "edit"

Locks == {"cfg", "motion", "rapid", "edit", "writeaccess"}

LOCAL Op(o, D, k, b) == <<[op |-> o, on |-> D, n |-> k, back |-> b]>>

LOCAL Do(o) == Op(o, {}, 0, 0)

Get == Do("get")

Quiet == Do("quiet")

Ask == Do("ask")

Put == Do("put")

Never == Do("never")

\* Answered without a request.
Fixed == << >>

May(p) == Op("may", {}, Len(p), 0) \o p

Either(p, q) == May(p \o Op("skip", {}, Len(q), 0)) \o q

LOCAL Handled(o, p, q) == p \o Op(o, {}, Len(q), Len(p)) \o q

Try(p, q) == Handled("else", p, q)

TrySome(p, q) == Handled("some", p, q)

TryNotHeld(p, q) == Handled("notheld", p, q)

\* A walk along the pages of a list; two pages stand for many.
Pages(p) == p \o May(p)

\* The same write for each of several things: a failure is kept and the rest are still
\* sent, a refusal as "not held" ends it.
Each(p) == TrySome(p, p \o Do("throw")) \o May(p)

InTurn(p) == Do("enter") \o p \o Do("leave")

Holding(D, p) == Op("take", D, 0, 0) \o p \o Op("give", D, 0, 0)

\* One write turn in which the domains D are held around p.
Under(D, p) == InTurn(Holding(D, p))

RapidPut == Under({"rapid"}, Put)

CfgPut == Under({"cfg"}, Put)

MotionPut == Under({"motion"}, Put)

EveryDomain == Domains

\* A file written to the controller, used by p and deleted whatever p did.
Temp(p) == Do("make") \o p \o Do("drop")

\* The adapter's part of a jog: the change count, the selection of another unit if one is
\* named, and the jog itself.
JogRequests == Get \o May(MotionPut \o Get) \o Put

ModePut(g) == IF g = "rw8" THEN RapidPut ELSE Put

\* RobotWare 8 has no RMMP: the read answers without asking.
RmmpRead(g) == IF g = "rw8" THEN Fixed ELSE Get

-----------------------------------------------------------------------------
(* Tables of methods. *)

Sends(p, S) == [m \in S |-> p]

Through(A, S) == [m \in S |-> A[m]]

Needs(A, S) == [m \in S |-> IF m \in DOMAIN A THEN A[m] ELSE Never]

Neutral(A, S) == [m \in S |-> IF m \in DOMAIN A THEN A[m] ELSE Fixed]

UnderEach(D, A, S) == [m \in S |-> IF m \in DOMAIN A THEN Under(D, A[m]) ELSE Never]

-----------------------------------------------------------------------------
(* What RobotManager does around the requests of its adapter A. *)

OnRw8(p, g) == IF g = "rw8" THEN p ELSE Never

\* Stop and motors off are sent without access; refused as not held, the counted access
\* is given up, requested once and the request sent again.
SendFirst(p) == TryNotHeld(p, Do("forfeit") \o Holding({"rapid"}, p))

\* One change of the operating mode.  To AUTO on RobotWare 7 access is tried for; a
\* refusal of it does not keep the change from being sent.
LOCAL ModeOnce(p, g) ==
    IF g = "rw8" THEN Under({"rapid"}, p)
    ELSE Either(InTurn(Op("trytake", {"rapid"}, 0, 0) \o p \o Op("give", {"rapid"}, 0, 0)), p)

ChangeMode(p, g) == IF g = "rw6" THEN p ELSE ModeOnce(p, g) \o May(ModeOnce(p, g))

\* A start or step: the jog's own hold ends first, in the turn of the start.
Started(p) == InTurn(Do("jogend") \o Under({"rapid"}, p))

LOCAL StopIfAsked(A) == A["getRapidExecutionState"] \o May(A["stopRapid"])

PointerTo(A) == Under({"rapid"}, StopIfAsked(A) \o A["setProgramPointer"])

PointerToService(A) ==
    A["getOperationMode"] \o May(Do("throw")) \o A["listServiceRoutines"] \o PointerTo(A)

LoadFile(A) ==
    Under({"rapid"}, StopIfAsked(A) \o A["listModules"] \o May(A["unloadModule"])
                     \o A["uploadFile"] \o A["loadModule"] \o A["listModules"]
                     \o May(A["resetRapid"]))

Unload(A, m) ==
    IF m \in DOMAIN A THEN Under({"rapid"}, StopIfAsked(A) \o A[m] \o A["listModules"]) ELSE Never

BaseFrame(A, g) == IF g = "rw6" THEN A["setMechunitBaseFrame"]
                   ELSE Under({"rapid"}, A["setMechunitBaseFrame"])

Jog(A, g) ==
    InTurn(A["getOperationMode"] \o A["getControllerState"] \o Do("jogask") \o Do("jogtake")
           \o (IF g = "rw8" THEN Quiet ELSE Fixed) \o A["jog"])
=============================================================================
