---------------------------- MODULE Rws2Session ----------------------------
(***************************************************************************)
(* The HTTP session of an RWS 2.0 client (Rws2Core): the paced chain of    *)
(* request slots, the session cookie, the one login after a 401, the       *)
(* second attempt of a read on a dead connection, and the teardown that    *)
(* closes the client behind its /logout.                                   *)
(*                                                                         *)
(* An action is what the client does between two awaits; the controller    *)
(* and the network are external.  Requests are named: the calls of the     *)
(* program, connect()'s read and /logout; the login is a sender as well,   *)
(* sent past req().                                                        *)
(***************************************************************************)
EXTENDS Naturals, Sequences, FiniteSets, SequencesExt

CONSTANTS
    Reads, Writes,  \* the calls of the program: GET and POST
    InTurn,         \* those made by the operation that has the write turn
    MaxSession      \* bound: sessions the controller issues

(* The calls are told apart, and none is named as the client's own. *)
ASSUME CallAssumption ==
    /\ Reads \cap Writes = {} /\ InTurn \subseteq Reads \cup Writes
    /\ {"connect", "logout", "login"} \cap (Reads \cup Writes) = {}
    /\ IsFiniteSet(Reads \cup Writes)
    /\ MaxSession \in Nat

VARIABLES
    closing, closed,
    tearing,        \* disconnect() runs: "no", "drain", "logout"
    connected,      \* connect() has returned
    cookie, sessionGone,
    queue,          \* senders waiting for their slot, in order
    rested,         \* MIN_MS has passed since lastReqTime
    asleep,         \* senders whose timer runs out MIN_MS after the lastReqTime they read
    awake,          \* those whose timer has run out, and who have yet to store theirs
    pc,             \* where each sender is
    second,         \* the send is withLogin's second one
    retried,        \* the send is the retry on a fresh connection
    spare,          \* what the req() around a fallback's may still do
    sent,           \* the cookie a request on the wire carries, or Credentials
    hal,            \* a request on the wire asks for hal+json
    ans,            \* the answer on its way
    brought,        \* the cookie that answer sets, or None
    preferXhtml,
    alive, issued,  \* the controller: sessions it knows, sessions it issued
    done,           \* history: how often it took a write
    quiet           \* history: MIN_MS has passed since the last request went out

None == 0
Credentials == 0

Call == Reads \cup Writes
Req == Call \cup {"connect", "logout"}
Sender == Req \cup {"login"}
Session == 1..MaxSession

(* waiting for a slot: the first one, a new one after waitForLogin, the    *)
(* one of withLogin's second send, the one of the retry                    *)
SlotPc == {"slot", "slot2", "paced", "again"}
(* waiting for the login: in waitForLogin, in withLogin *)
WaitPc == {"asked", "gone"}
Pc == {"idle", "wire"} \cup SlotPc \cup WaitPc

client == <<closing, closed, tearing, connected>>
auth == <<cookie, sessionGone>>
pace == <<rested, asleep, awake, quiet>>
slots == <<queue, pace>>
wire == <<second, sent, hal, ans, brought>>
tries == <<retried, spare>>
controller == <<alive, issued, done>>
vars == <<client, auth, slots, pc, tries, wire, preferXhtml, controller>>

relogin == pc["login"] # "idle"

(* Mutant: writes are sent again as well. *)
AnyMethod(q) == TRUE
IDEMPOTENT(q) == q \notin Writes

(* authHeaders() *)
authHeaders == IF cookie # None /\ ~sessionGone THEN cookie ELSE Credentials

-----------------------------------------------------------------------------
(* takeRequestSlot(): await the previous slot, read the clock, await the   *)
(* timer if MIN_MS has not passed, store lastReqTime and release the next. *)

(* Mutant: the clock is read before the previous slot is awaited. *)
AtOnce(q) == \E i \in DOMAIN queue : queue[i] = q
(* The previous slot is released. *)
Released(q) == queue # <<>> /\ q = Head(queue)

(* Too early: a timer for the time that is left. *)
Sleeps(q) ==
    /\ Released(q) /\ q \notin asleep \cup awake /\ ~rested
    /\ asleep' = asleep \cup {q}
    /\ UNCHANGED <<client, auth, queue, rested, awake, quiet, pc, tries, wire, preferXhtml,
                   controller>>

(* waitForLogin(): the request would log in on its own. *)
MustWait(q) == q # "login" /\ pc[q] = "slot" /\ relogin /\ sessionGone

(* The chain after q got its slot. *)
Chain(q) == Tail(queue)

(* The clock was late enough, or the timer has run out: it is not read    *)
(* again.                                                                  *)
SlotTaken(q) ==
    /\ queue # <<>> /\ q = Head(queue)
    /\ q \in awake \/ (rested /\ q \notin asleep)
    /\ queue' = Chain(q) /\ rested' = FALSE
    /\ awake' = awake \ {q} /\ UNCHANGED asleep

(* The request waits for the login before it is sent. *)
AskLogin(q) ==
    /\ SlotTaken(q) /\ MustWait(q)
    /\ pc' = [pc EXCEPT ![q] = "asked"]
    /\ UNCHANGED <<client, auth, quiet, tries, wire, preferXhtml, controller>>

(* /logout without a session to end. *)
NoSession(q) == q = "logout" /\ pc[q] = "slot" /\ sessionGone
SkipLogout(q) ==
    /\ SlotTaken(q) /\ ~MustWait(q) /\ NoSession(q)
    /\ pc' = [pc EXCEPT ![q] = "idle"]
    /\ UNCHANGED <<client, auth, quiet, tries, wire, preferXhtml, controller>>

(* attemptReq() up to the request on the wire. *)
Send(q) ==
    /\ SlotTaken(q) /\ ~MustWait(q) /\ ~NoSession(q)
    /\ pc' = [pc EXCEPT ![q] = "wire"]
    /\ second' = [second EXCEPT ![q] = pc[q] = "paced"]
    /\ retried' = [retried EXCEPT ![q] = @ \/ pc[q] = "again"]
    /\ sent' = [sent EXCEPT ![q] = authHeaders]
    /\ hal' = [hal EXCEPT ![q] = q \in Reads \cup {"connect"} /\ ~preferXhtml]
    /\ ans' = [ans EXCEPT ![q] = "none"]
    /\ quiet' = FALSE
    /\ UNCHANGED <<client, auth, spare, brought, preferXhtml, controller>>

(* MIN_MS after lastReqTime.  quiet waits for the latest store, sent or not. *)
PaceElapses ==
    /\ ~rested
    /\ rested' = TRUE /\ quiet' = TRUE
    /\ awake' = awake \cup asleep /\ asleep' = {}
    /\ UNCHANGED <<client, auth, queue, pc, tries, wire, preferXhtml, controller>>

-----------------------------------------------------------------------------
(* The controller.                                                         *)

Taken(q) == done' = [done EXCEPT ![q] = IF q \in Writes THEN @ + 1 ELSE @]
Answer(q, a, s) == ans' = [ans EXCEPT ![q] = a] /\ brought' = [brought EXCEPT ![q] = s]

(* Credentials start a session whatever is answered, unless they are       *)
(* refused or no session is left; /logout ends the session it would start. *)
ServeLogin(q) ==
    /\ sent[q] = Credentials
    /\ \/ /\ issued < MaxSession /\ q # "logout"
          /\ issued' = issued + 1 /\ alive' = alive \cup {issued + 1}
          /\ \/ Answer(q, "ok", issued + 1) /\ Taken(q)
             \/ Answer(q, "error", issued + 1) /\ UNCHANGED done
             \/ hal[q] /\ Answer(q, "nohal", issued + 1) /\ UNCHANGED done
       \/ /\ Answer(q, IF q = "logout" THEN "ok" ELSE "error", None)
          /\ UNCHANGED controller
       \/ Answer(q, "denied", None) /\ UNCHANGED controller

ServeCookie(q) ==
    /\ sent[q] \in alive
    /\ \/ /\ Answer(q, "ok", None) /\ Taken(q)
          /\ alive' = IF q = "logout" THEN alive \ {sent[q]} ELSE alive
          /\ UNCHANGED issued
       \/ /\ Answer(q, "error", None) /\ UNCHANGED controller
       \/ /\ hal[q] /\ Answer(q, "nohal", None) /\ UNCHANGED controller

ServeGone(q) ==
    /\ sent[q] # Credentials /\ sent[q] \notin alive
    /\ Answer(q, "denied", None)
    /\ UNCHANGED controller

Serve(q) ==
    /\ pc[q] = "wire" /\ ans[q] = "none"
    /\ ServeLogin(q) \/ ServeCookie(q) \/ ServeGone(q)
    /\ UNCHANGED <<client, auth, slots, pc, tries, second, sent, hal, preferXhtml>>

(* A restart, or the session's idle expiry. *)
Expire(s) ==
    /\ s \in alive /\ alive' = alive \ {s}
    /\ UNCHANGED <<client, auth, slots, pc, tries, wire, preferXhtml, issued, done>>

-----------------------------------------------------------------------------
(* Answers.                                                                *)

(* The headers: adoptSessionCookie(). *)
Adopt(q) ==
    /\ pc[q] = "wire" /\ brought[q] # None
    /\ cookie' = brought[q] /\ sessionGone' = FALSE
    /\ brought' = [brought EXCEPT ![q] = None]
    /\ UNCHANGED <<client, slots, pc, tries, second, sent, hal, ans, preferXhtml, controller>>

Answered(q, a) == pc[q] = "wire" /\ ans[q] = a /\ brought[q] = None

(* Nothing of q is on the wire. *)
OffWire(q) ==
    /\ second' = [second EXCEPT ![q] = FALSE] /\ hal' = [hal EXCEPT ![q] = FALSE]
    /\ sent' = [sent EXCEPT ![q] = Credentials]
    /\ ans' = [ans EXCEPT ![q] = "none"] /\ brought' = [brought EXCEPT ![q] = None]
FirstTry(q, chances) ==
    /\ retried' = [retried EXCEPT ![q] = FALSE]
    /\ spare' = [spare EXCEPT ![q] = chances]

(* A fallback's req() has failed: the one around it goes on, if it has a   *)
(* login or a retry left.                                                  *)
Unwound(q, failed) ==
    /\ retried' = [retried EXCEPT ![q] = IF failed THEN "retry" \notin spare[q] ELSE @]
    /\ spare' = [spare EXCEPT ![q] = IF failed THEN {} ELSE @]

(* req()'s check, made before the slot is taken. *)
Refused(q) == closed \/ (closing /\ q \notin InTurn)

(* The request settles. *)
Settled(q) == pc' = [pc EXCEPT ![q] = "idle"] /\ OffWire(q) /\ FirstTry(q, {}) /\ UNCHANGED slots
Failed(q) == Settled(q) /\ UNCHANGED client

(* A slot of its own for a request that is to be sent (again). *)
Queued(q, p) ==
    /\ pc' = [pc EXCEPT ![q] = p]
    /\ queue' = Append(queue, q)
    /\ UNCHANGED pace

Succeeds(q) ==
    /\ q \in Req /\ Answered(q, "ok") /\ Settled(q)
    /\ connected' = (connected \/ (q = "connect" /\ ~closed))
    /\ UNCHANGED <<closing, closed, tearing, auth, preferXhtml, controller>>

IsRefused(q) ==
    /\ q \in Req /\ Answered(q, "error") /\ Failed(q)
    /\ UNCHANGED <<auth, preferXhtml, controller>>

(* hal+json is not served: XHTML from now on, and the request once more,   *)
(* from the start of a req() inside the first one.                         *)
FallBack(q) ==
    /\ q \in Req /\ Answered(q, "nohal")
    /\ preferXhtml' = TRUE
    /\ IF Refused(q)
         THEN Failed(q)
         ELSE /\ Queued(q, "slot") /\ OffWire(q) /\ UNCHANGED client
              /\ FirstTry(q, (IF second[q] THEN {} ELSE {"login"})
                               \cup (IF retried[q] THEN {} ELSE {"retry"}))
    /\ UNCHANGED <<auth, controller>>

(* noteSessionGone() *)
AnyCookie(q) == sessionGone \/ sent[q] # Credentials  \* mutant: of any session
NotedGone(q) == sessionGone \/ (sent[q] # Credentials /\ sent[q] = cookie)

(* A 401.  To the cookie, for the first time: log in, or join the login. *)
LogsIn(q) ==
    /\ sent[q] # Credentials /\ q # "logout" /\ ~closed
    /\ ~second[q] \/ "login" \in spare[q]
Denied(q) ==
    /\ q \in Req /\ Answered(q, "denied")
    /\ sessionGone' = NotedGone(q)
    /\ \/ ~LogsIn(q) /\ Failed(q)
       \/ /\ LogsIn(q) /\ relogin
          /\ pc' = [pc EXCEPT ![q] = "gone"]
          /\ OffWire(q) /\ Unwound(q, second[q]) /\ UNCHANGED <<client, slots>>
       \/ /\ LogsIn(q) /\ ~relogin
          /\ pc' = [pc EXCEPT ![q] = "gone", !["login"] = "slot"]
          /\ queue' = Append(queue, "login")
          /\ OffWire(q) /\ Unwound(q, second[q]) /\ UNCHANGED <<client, pace>>
    /\ UNCHANGED <<cookie, preferXhtml, controller>>

(* The idle timeout or the deadline, the controller having served it or    *)
(* not.                                                                    *)
TimesOut(q) ==
    /\ q \in Req /\ pc[q] = "wire" /\ ans[q] # "cut"
    /\ Failed(q)
    /\ UNCHANGED <<auth, preferXhtml, controller>>

(* A dead connection: a read goes out once more on a fresh one. *)
SentAgain(q) == IDEMPOTENT(q) /\ (~retried[q] \/ "retry" \in spare[q]) /\ ~closed

(* Mutant: a connection closed under a request ends it with no error. *)
Silently(q) == pc[q] = "wire" /\ ans[q] # "cut"
Breaks(q) == pc[q] = "wire"

Broken(q) ==
    /\ q \in Req /\ Breaks(q)
    /\ \/ /\ SentAgain(q) /\ Queued(q, "again")
          /\ OffWire(q) /\ Unwound(q, retried[q]) /\ UNCHANGED client
       \/ ~SentAgain(q) /\ Failed(q)
    /\ UNCHANGED <<auth, preferXhtml, controller>>

-----------------------------------------------------------------------------
(* The login.                                                              *)

Waiting == {q \in Req : pc[q] \in WaitPc}

(* What a request that waited does next, the login having ended as "ok",   *)
(* "denied", "failed" or "broken" and the client knowing the session is    *)
(* gone or not.                                                            *)
Unchecked(q, how, gone) ==  \* mutant: sent although the client has closed
    IF pc[q] = "asked" THEN "slot2" ELSE IF how = "ok" THEN "paced" ELSE "idle"
Resumed(q, how, gone) ==
    CASE pc[q] = "asked" /\ q = "logout" -> IF gone THEN "idle" ELSE "slot2"
      [] pc[q] = "asked" /\ q # "logout" -> IF closed THEN "idle" ELSE "slot2"
      [] pc[q] = "gone" /\ how = "ok"    -> IF closed THEN "idle" ELSE "paced"
      [] pc[q] = "gone" /\ how = "broken" -> IF SentAgain(q) THEN "again" ELSE "idle"
      [] pc[q] = "gone" /\ how = "denied" ->
            IF "login" \in spare[q] /\ ~closed THEN "gone" ELSE "idle"
      [] OTHER -> "idle"

(* The login settles, and everybody who waited for it goes on; the 401     *)
(* that a fallback's req() met may begin one more login.                   *)
LoginEnds(how, gone) ==
    LET next == [q \in Req |-> IF q \in Waiting THEN Resumed(q, how, gone) ELSE pc[q]]
        login == IF \E q \in Req : next[q] = "gone" THEN "slot" ELSE "idle"
        unwound == {q \in Waiting : next[q] = "gone" \/ (next[q] = "again" /\ retried[q])}
        ended == {q \in Waiting : next[q] = "idle"} \cup {"login"}
    IN  /\ pc' = [q \in Sender |-> IF q = "login" THEN login ELSE next[q]]
        /\ \E s \in SetToSeqs({q \in Waiting \cup {"login"} : pc'[q] \in SlotPc}) :
              queue' = queue \o s
        /\ retried' = [q \in Sender |-> /\ q \notin ended
                                        /\ IF q \in unwound THEN "retry" \notin spare[q]
                                                            ELSE retried[q]]
        /\ spare' = [q \in Sender |-> IF q \in ended \cup unwound THEN {} ELSE spare[q]]
        /\ sessionGone' = gone
        /\ OffWire("login")
        /\ UNCHANGED <<client, cookie, pace, preferXhtml, controller>>

LoginAnswered ==
    \/ Answered("login", "ok") /\ LoginEnds("ok", sessionGone)
    \/ Answered("login", "error") /\ LoginEnds("failed", sessionGone)
    \/ Answered("login", "denied") /\ LoginEnds("denied", NotedGone("login"))

LoginTimesOut ==
    /\ pc["login"] = "wire" /\ ans["login"] # "cut"
    /\ LoginEnds("failed", sessionGone)

LoginBroken ==
    /\ Breaks("login")
    /\ \/ /\ ~retried["login"] /\ ~closed
          /\ Queued("login", "again") /\ OffWire("login")
          /\ UNCHANGED <<client, auth, tries, preferXhtml, controller>>
       \/ /\ retried["login"] \/ closed
          /\ LoginEnds("broken", sessionGone)

-----------------------------------------------------------------------------
(* The client.                                                             *)

(* connect(), awaited before a call is made. *)
Connect ==
    /\ pc["connect"] = "idle" /\ ~connected /\ tearing = "no"
    /\ closed' = FALSE /\ closing' = FALSE
    /\ Queued("connect", "slot")
    /\ UNCHANGED <<tearing, connected, auth, tries, wire, preferXhtml, controller>>

(* A call of the program: req(). *)
Start(q) ==
    /\ q \in Call /\ pc[q] = "idle" /\ connected
    /\ ~Refused(q)
    /\ Queued(q, "slot")
    /\ done' = [done EXCEPT ![q] = 0]
    /\ UNCHANGED <<client, auth, tries, wire, preferXhtml, alive, issued>>

(* disconnect(): from here on only the operation in progress sends. *)
Disconnect ==
    /\ tearing = "no"
    /\ tearing' = "drain" /\ closing' = TRUE
    /\ UNCHANGED <<closed, connected, auth, slots, pc, tries, wire, preferXhtml, controller>>

(* The operation has finished, or drain() gave it up: /logout takes its    *)
(* slot and the client closes in the same tick; a closed client sends none. *)
LogOut ==
    /\ tearing = "drain"
    /\ tearing' = "logout" /\ closed' = TRUE
    /\ IF closed THEN UNCHANGED <<slots, pc>> ELSE Queued("logout", "slot")
    /\ UNCHANGED <<closing, connected, auth, tries, wire, preferXhtml, controller>>

(* The rest of the teardown; the agents' sockets are destroyed. *)
TeardownEnds ==
    /\ tearing = "logout" /\ pc["logout"] = "idle"
    /\ tearing' = "no" /\ connected' = FALSE
    /\ cookie' = None /\ sessionGone' = FALSE
    /\ ans' = [q \in Sender |-> IF pc[q] = "wire" THEN "cut" ELSE ans[q]]
    /\ brought' = [q \in Sender |-> None]
    /\ UNCHANGED <<closing, closed, slots, pc, tries, second, sent, hal, preferXhtml, controller>>

Init ==
    /\ closing = FALSE /\ closed = FALSE /\ tearing = "no" /\ connected = FALSE
    /\ cookie = None /\ sessionGone = FALSE
    /\ queue = <<>> /\ rested = TRUE /\ asleep = {} /\ awake = {} /\ quiet = TRUE
    /\ pc = [q \in Sender |-> "idle"]
    /\ second = [q \in Sender |-> FALSE] /\ retried = [q \in Sender |-> FALSE]
    /\ spare = [q \in Sender |-> {}]
    /\ sent = [q \in Sender |-> Credentials] /\ hal = [q \in Sender |-> FALSE]
    /\ ans = [q \in Sender |-> "none"] /\ brought = [q \in Sender |-> None]
    /\ preferXhtml = FALSE
    /\ alive = {} /\ issued = 0 /\ done = [q \in Sender |-> 0]

Slot(q) == Sleeps(q) \/ AskLogin(q) \/ SkipLogout(q) \/ Send(q)
Answers(q) == Adopt(q) \/ Succeeds(q) \/ IsRefused(q) \/ FallBack(q) \/ Denied(q)
Login == LoginAnswered \/ LoginTimesOut \/ LoginBroken
Program == Connect \/ (\E q \in Call : Start(q)) \/ Disconnect \/ LogOut \/ TeardownEnds

Next ==
    \/ \E q \in Sender : Slot(q) \/ Serve(q) \/ Answers(q) \/ TimesOut(q) \/ Broken(q)
    \/ PaceElapses \/ Login \/ Program
    \/ \E s \in Session : Expire(s)

Spec == Init /\ [][Next]_vars

(* Timers fire; a request on the wire is answered or times out, and its    *)
(* error is seen when its socket is destroyed; the teardown goes on.       *)
Fairness ==
    /\ WF_vars(PaceElapses)
    /\ WF_vars(\E q \in Sender : Slot(q))
    /\ \A q \in Sender : WF_vars(Answers(q) \/ TimesOut(q) \/ Broken(q))
    /\ WF_vars(Login) /\ WF_vars(LogOut) /\ WF_vars(TeardownEnds)

FairSpec == Spec /\ Fairness

-----------------------------------------------------------------------------
(* Properties.                                                             *)

(* A sender that waits for a slot is in line for it, once. *)
InLine ==
    /\ \A i, j \in DOMAIN queue : queue[i] = queue[j] => i = j
    /\ \A q \in Sender : pc[q] \in SlotPc <=> \E i \in DOMAIN queue : queue[i] = q

FlagType ==
    /\ closing \in BOOLEAN /\ closed \in BOOLEAN /\ connected \in BOOLEAN
    /\ tearing \in {"no", "drain", "logout"}
    /\ sessionGone \in BOOLEAN /\ preferXhtml \in BOOLEAN
    /\ rested \in BOOLEAN /\ quiet \in BOOLEAN
    /\ asleep \subseteq Sender /\ awake \subseteq Sender
RequestType ==
    /\ queue \in Seq(Sender) /\ pc \in [Sender -> Pc]
    /\ second \in [Sender -> BOOLEAN] /\ retried \in [Sender -> BOOLEAN]
    /\ spare \in [Sender -> SUBSET {"login", "retry"}]
    /\ sent \in [Sender -> Nat] /\ hal \in [Sender -> BOOLEAN]
    /\ ans \in [Sender -> {"none", "ok", "error", "denied", "nohal", "cut"}]
    /\ brought \in [Sender -> Nat]
SessionType ==
    /\ cookie \in Nat /\ alive \subseteq Nat /\ issued \in Nat
    /\ done \in [Sender -> Nat]

(* Type invariant, with the line of the senders that wait for a slot. *)
TypeOK == FlagType /\ RequestType /\ SessionType /\ InLine

Sends(q) == pc[q] # "wire" /\ pc'[q] = "wire"

(* A session is given up only when it is gone: a 401 to an earlier cookie  *)
(* that arrives late does not drop the session that replaced it.           *)
GoneIsGone == sessionGone => cookie \notin alive

(* Nothing is sent after /logout: neither what was queued, nor what waited *)
(* for a login or was to be sent again.                                    *)
NothingAfterLogout ==
    [][closed /\ pc["logout"] \in {"wire", "idle"} => \A q \in Sender : ~Sends(q)]_vars

(* The controller takes a write at most once, whatever was sent again      *)
(* after a 401 or a dead connection.                                       *)
WrittenOnce == \A q \in Writes : done[q] <= 1

(* Any two requests start at least MIN_MS apart, those that waited for a   *)
(* login or are sent again too: nobody stores lastReqTime between a        *)
(* sender's reading of it and the end of the sender's timer.               *)
PacedSends == [][\A q \in Sender : Sends(q) => quiet]_vars

(* While the login after a 401 is on its way nothing else logs in. *)
OneLogin ==
    [][\A q \in Req : Sends(q) /\ sent'[q] = Credentials => ~relogin]_vars

(* Nobody waits in a circle: whoever waits for the login has one that is   *)
(* in line or on the wire and waits for nobody, and as long as a request   *)
(* has not settled the line has a head or something is on the wire.        *)
LoginWaitsForNobody ==
    (\E q \in Req : pc[q] \in WaitPc) => pc["login"] \in SlotPc \cup {"wire"}
SomebodyGoesOn ==
    /\ LoginWaitsForNobody
    /\ (\E q \in Sender : pc[q] # "idle") => queue # <<>> \/ \E q \in Sender : pc[q] = "wire"

(* Every request settles, and with them the disconnect. *)
Settles == \A q \in Req : pc[q] # "idle" ~> pc[q] = "idle"

============================================================================
