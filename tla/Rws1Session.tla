----------------------------- MODULE Rws1Session -----------------------------
(***************************************************************************)
(* HttpSession (src/HttpSession.ts), the session of the RWS 1.0 client:    *)
(* requests go out one at a time in the order they were queued, except     *)
(* that a request which reduces what the robot does (stop, motors off,     *)
(* DELETE of a group, /logout, a release) cuts the creates of subscription *)
(* groups queued before it short.  One request may be sent several times:  *)
(* after a 401 with digest credentials, after a second 401 without the     *)
(* cookie the controller no longer knows, after a 503, and, through        *)
(* node:http, after a kept connection turned out to be dead.               *)
(*                                                                         *)
(* A session is a number, 0 for none.  What the digest is made of, pacing  *)
(* and the wording of errors are left out.                                 *)
(***************************************************************************)
EXTENDS Naturals, Sequences, FiniteSets

CONSTANTS
    Requests,      \* the requests of the callers; each is made once
    Kind,          \* [Requests -> Kinds]
    NodeHttp,      \* the transport is node:http, with its kept connections
    MaxSessions,   \* bound: sessions the controller opens
    MaxCloses      \* bound: how often close() is called

Kinds == {"get", "post", "create", "stop", "release", "logout"}

ASSUME Rws1Assumption ==
    /\ Kind \in [Requests -> Kinds]
    /\ NodeHttp \in BOOLEAN
    /\ MaxSessions \in Nat
    /\ MaxCloses \in Nat

VARIABLES
    queue,       \* requestQueue: the first one is running
    at,          \* [Requests -> Places]
    try,         \* the running request: which send of execute(), sent again on a new connection
    held,        \* heldCookie: a cookie was held before the running request
    aborted,     \* creates cut short
    cookie,      \* -http-session- of `cookies`
    offered,     \* -http-session- of challengeCookies
    digest,      \* digestChallenge # null
    replaced,    \* flips each time onSessionReplaced is called
    closed,      \* closed
    closings,    \* the close() calls whose queue has not ended: [seq, after]
    closeSeq,    \* closeSeq
    live,        \* the sessions the controller knows
    opened,      \* how many it has opened
    creds,       \* the credentials are right
    taken        \* how often the controller carried out the request that runs or ran last, if it is no GET

vars == <<queue, at, try, held, aborted, cookie, offered, digest, replaced,
          closed, closings, closeSeq, live, opened, creds, taken>>
login == <<cookie, offered, digest, replaced>>
controller == <<live, opened, creds, taken>>
lifecycle == <<closed, closings, closeSeq>>

Places == {"idle", "queued", "wire", "pause", "over"}
Sends == {"first", "digest", "fresh", "busy"}

TypeOK ==
    /\ queue \in Seq(Requests)
    /\ at \in [Requests -> Places]
    /\ try \in [send : Sends, again : BOOLEAN]
    /\ held \in BOOLEAN
    /\ aborted \subseteq Requests
    /\ {cookie, offered} \subseteq 0 .. MaxSessions
    /\ digest \in BOOLEAN /\ replaced \in BOOLEAN /\ closed \in BOOLEAN /\ creds \in BOOLEAN
    /\ closings \subseteq [seq : 1 .. MaxCloses, after : SUBSET Requests]
    /\ closeSeq \in 0 .. MaxCloses
    /\ live \subseteq 1 .. MaxSessions
    /\ opened \in 0 .. MaxSessions
    /\ taken \in 0 .. 2

\* A client may start with the cookie of a session saved earlier, alive or not.
Init ==
    /\ queue = <<>>
    /\ at = [r \in Requests |-> "idle"]
    /\ try = [send |-> "first", again |-> FALSE]
    /\ held = FALSE
    /\ aborted = {}
    /\ cookie \in {0, 1} \cap (0 .. MaxSessions)
    /\ offered = 0
    /\ digest = FALSE
    /\ replaced = FALSE
    /\ closed = FALSE
    /\ closings = {}
    /\ closeSeq = 0
    /\ opened = cookie
    /\ live \in SUBSET ({cookie} \ {0})
    /\ creds \in BOOLEAN
    /\ taken = 0

Unsettled == {r \in Requests : at[r] \in {"queued", "wire", "pause"}}
Running(r) == Len(queue) > 0 /\ Head(queue) = r

-----------------------------------------------------------------------------
(* The controller. *)

\* What requestHeaders sends: the cookies of a 401 over the held ones.
SentCookie == IF offered # 0 THEN offered ELSE cookie

\* A cookie of a live session is enough.  With a dead one the credentials may bring a new session
\* or be refused.
Accepts == SentCookie \in live \/ (digest /\ creds)
Rejects == SentCookie \notin live /\ (SentCookie # 0 \/ ~digest \/ ~creds)

\* The session an accepted request runs on: that of its cookie, or a new one.
Sessions == IF SentCookie \in live THEN {SentCookie} ELSE {opened + 1} \cap (1 .. MaxSessions)

\* A request that changes something is carried out.
CarriedOut(r) == taken' = IF Kind[r] = "get" \/ taken = 2 THEN taken ELSE taken + 1

Expire ==
    /\ live # {}
    /\ \E s \in live : live' = live \ {s}
    /\ UNCHANGED <<queue, at, try, held, aborted, login, lifecycle, opened, creds, taken>>

-----------------------------------------------------------------------------
(* The queue. *)

\* Mutant: a create that was sent is let finish.
CutsQueued(r) == {c \in Requests : Kind[c] = "create" /\ at[c] = "queued" /\ Kind[r] \in {"stop", "logout", "release"}}

\* REDUCING: the creates the request r cuts short; a release spares one that was sent.
cutsOf(r) ==
    {c \in Requests :
        /\ Kind[c] = "create"
        /\ \/ Kind[r] \in {"stop", "logout"} /\ at[c] \in {"queued", "wire", "pause"}
           \/ Kind[r] = "release" /\ at[c] = "queued"}

Enqueue(r) ==
    /\ at[r] = "idle"
    /\ IF closed
       THEN /\ at' = [at EXCEPT ![r] = "over"]
            /\ UNCHANGED <<queue, aborted>>
       ELSE /\ at' = [at EXCEPT ![r] = "queued"]
            /\ queue' = Append(queue, r)
            /\ aborted' = aborted \cup cutsOf(r)
    /\ UNCHANGED <<try, held, login, lifecycle, controller>>

\* The request has settled and the next one has its turn.
Settle(r) ==
    /\ at' = [at EXCEPT ![r] = "over"]
    /\ queue' = Tail(queue)
    /\ offered' = 0
    /\ try' = [send |-> "first", again |-> FALSE]
    /\ held' = FALSE

\* Mutant: a create is sent although it was cut short.
Anyway(r) == Running(r)

\* In turn, and not cut short.
Goes(r) == Running(r) /\ r \notin aborted

\* execute: a session idle for long is asked for a new challenge, and a cookie held is noted.
Start(r) ==
    /\ Goes(r)
    /\ at[r] = "queued"
    /\ at' = [at EXCEPT ![r] = "wire"]
    /\ held' = (cookie # 0)
    /\ digest' \in {digest, FALSE}
    /\ offered' = 0
    /\ taken' = 0
    /\ UNCHANGED <<queue, try, aborted, cookie, replaced, lifecycle, live, opened, creds>>

\* A create cut short fails where it stands: before its turn, on the wire, in a pause.
Cut(r) ==
    /\ Running(r)
    /\ r \in aborted
    /\ at[r] \in Places \ {"idle", "over"}
    /\ Settle(r)
    /\ \/ UNCHANGED taken
       \/ at[r] = "wire" /\ Accepts /\ CarriedOut(r)
    /\ UNCHANGED <<aborted, cookie, digest, replaced, lifecycle, live, opened, creds>>

-----------------------------------------------------------------------------
(* Answers. *)

OnWire(r) == Goes(r) /\ at[r] = "wire"

\* storeCookies of an answer other than a 401: its cookie is the session's, and another one
\* than the cookie held is a replaced session.
StoreCookies(s) ==
    /\ cookie' = s
    /\ replaced' = IF cookie # 0 /\ s # cookie THEN ~replaced ELSE replaced

\* Carried out and answered.
Answered(r) ==
    /\ OnWire(r)
    /\ Accepts
    /\ \E s \in Sessions :
        /\ StoreCookies(s)
        /\ live' = live \cup {s}
        /\ opened' = IF s > opened THEN s ELSE opened
    /\ CarriedOut(r)
    /\ Settle(r)
    /\ UNCHANGED <<aborted, digest, lifecycle, creds>>

\* Refused: a 4xx on the session.
Refused(r) ==
    /\ OnWire(r)
    /\ Accepts
    /\ \E s \in Sessions :
        /\ StoreCookies(s)
        /\ live' = live \cup {s}
        /\ opened' = IF s > opened THEN s ELSE opened
    /\ Settle(r)
    /\ UNCHANGED <<aborted, digest, lifecycle, creds, taken>>

\* 503: a pause, then once more.
Busy(r) ==
    /\ OnWire(r)
    /\ IF try.send = "busy"
       THEN Settle(r)
       ELSE /\ at' = [at EXCEPT ![r] = "pause"]
            /\ try' = [send |-> "busy", again |-> FALSE]
            /\ offered' = 0
            /\ UNCHANGED <<queue, held>>
    /\ StoreCookies(SentCookie)
    /\ UNCHANGED <<aborted, digest, lifecycle, controller>>

PauseEnds(r) ==
    /\ Goes(r)
    /\ at[r] = "pause"
    /\ at' = [at EXCEPT ![r] = "wire"]
    /\ UNCHANGED <<queue, try, held, aborted, login, lifecycle, controller>>

\* Mutant: a cookie a 401 of this very request set counts as held.
AnyCookie(h) == TRUE

\* The dead-cookie retry is for a cookie held from before the request.
HeldBefore(h) == h

\* 401: once more with credentials, then without the dead cookie, then no more; one that names no
\* challenge fails at once.  Its cookie is offered for the next send only.
Unauthorized(r) ==
    /\ OnWire(r)
    /\ Rejects
    /\ \E c \in {0} \cup ({opened + 1} \cap (1 .. MaxSessions)) :
        /\ opened' = IF c = 0 THEN opened ELSE c
        /\ live' = live \cup ({c} \ {0})
        /\ \/ /\ try.send = "first"
              /\ digest' = TRUE
              /\ try' = [send |-> "digest", again |-> FALSE]
              /\ offered' = IF c # 0 THEN c ELSE offered
              /\ UNCHANGED <<queue, at, held, cookie, replaced>>
           \/ /\ try.send = "digest" /\ HeldBefore(held)
              /\ digest' = TRUE
              /\ try' = [send |-> "fresh", again |-> FALSE]
              /\ cookie' = 0
              /\ offered' = 0
              /\ replaced' = ~replaced
              /\ UNCHANGED <<queue, at, held>>
           \/ /\ Settle(r)
              /\ UNCHANGED <<cookie, digest, replaced>>
    /\ UNCHANGED <<aborted, lifecycle, creds, taken>>

\* Mutant: whatever the method.
ResendAny(r) == TRUE

\* mayResend: a GET with no hold that is not /logout.
mayResend(r) == Kind[r] = "get"

\* No answer: the request was carried out or not.  On a kept connection of node:http that turns
\* out to be dead a GET is sent once more; the error of any other request is the caller's.
NoAnswer(r) ==
    /\ OnWire(r)
    /\ \/ UNCHANGED taken
       \/ Accepts /\ CarriedOut(r)
    /\ \/ Settle(r)
       \/ /\ NodeHttp /\ ~try.again /\ mayResend(r)
          /\ try' = [try EXCEPT !.again = TRUE]
          /\ UNCHANGED <<queue, at, held, offered>>
    /\ UNCHANGED <<aborted, cookie, digest, replaced, lifecycle, live, opened, creds>>

-----------------------------------------------------------------------------
(* close() and reopen(). *)

Close ==
    /\ closeSeq < MaxCloses
    /\ closed' = TRUE
    /\ closeSeq' = closeSeq + 1
    /\ closings' = closings \cup {[seq |-> closeSeq + 1, after |-> Unsettled]}
    /\ UNCHANGED <<queue, at, try, held, aborted, login, controller>>

Reopen ==
    /\ closed
    /\ closed' = FALSE
    /\ UNCHANGED <<queue, at, try, held, aborted, closings, closeSeq, login, controller>>

\* Mutant: closed is enough, whichever close() it was.
StillClosed(c) == closed

\* The connections are let go: still closed, and by this close().
Releases(c) == closed /\ c.seq = closeSeq

\* What was queued before a close() has ended: agent.destroy(), which would break the request
\* on a connection.
QueueEnded(c) ==
    /\ c.after \cap Unsettled = {}
    /\ closings' = closings \ {c}
    /\ at' = [r \in Requests |-> IF Releases(c) /\ at[r] = "wire" THEN "over" ELSE at[r]]
    /\ queue' = IF Releases(c) /\ queue # <<>> /\ at[Head(queue)] = "wire" THEN Tail(queue) ELSE queue
    /\ UNCHANGED <<try, held, aborted, closed, closeSeq, login, controller>>

Step(r) ==
    \/ Start(r) \/ Cut(r) \/ Answered(r) \/ Refused(r) \/ Busy(r) \/ PauseEnds(r)
    \/ Unauthorized(r) \/ NoAnswer(r)

Next ==
    \/ \E r \in Requests : Enqueue(r) \/ Step(r)
    \/ Expire \/ Close \/ Reopen
    \/ \E c \in closings : QueueEnded(c)

Spec == Init /\ [][Next]_vars

-----------------------------------------------------------------------------
(* Properties. *)

\* Nothing that changes the controller is carried out twice, however often execute() sends it: with credentials,
\* without a dead cookie, after a 503, on a new connection.
CarriedOutOnce == taken <= 1

\* The session changes if and only if onSessionReplaced is called: a session that silently gave
\* way to another would leave the access manager counting holds that are gone, and a report of
\* one that never was would end holds that stand.
ReplacedIsReported ==
    [][(replaced' # replaced) <=> (cookie # 0 /\ cookie' # cookie)]_vars

\* Sent, or sent again.
SentNow(r) == at'[r] = "wire" /\ (at[r] # "wire" \/ try' # try)

\* A stop or a /logout waits for no create of a subscription group: those queued before it are
\* cut short, wherever they stand, and none is sent from then on, neither in its turn nor again
\* after a 401, a 503 or a dead connection.
StopWaitsForNoCreate ==
    [][\A i, j \in 1 .. Len(queue) :
          i < j /\ Kind[queue[i]] = "create" /\ Kind[queue[j]] \in {"stop", "logout"}
            => queue[i] \in aborted /\ ~SentNow(queue[i])]_vars

\* agent.destroy() ends no request: what was queued before close() goes out, and what was queued
\* after a reopen() is spared by the close() before it.
CloseSparesRequests ==
    [][\A r \in Requests : at[r] = "wire" /\ at'[r] = "over" => Running(r) /\ closings' = closings]_vars
=============================================================================
