-------------------------- MODULE RequestRegistry --------------------------
(***************************************************************************)
(* Requests to one peer and what becomes of them: sending over a session   *)
(* (session_send_receive.rs), the registry of open requests and its        *)
(* timeout worker (request_registry.rs), the handlers of the three request *)
(* protocols, and the peer's side of a request (session_responder.rs).     *)
(*                                                                         *)
(* libp2p gives a request an id of its own each time it is sent; the id    *)
(* that the business logic knows stays the same over a retry.  Here a      *)
(* request r of the business logic is sent as <<r, 1>>, <<r, 2>>, ...      *)
(*                                                                         *)
(* A session is a number, 0 is none.  Establishing one takes a single step *)
(* here: module Session models how it is done.                             *)
(***************************************************************************)
EXTENDS Naturals, Sequences, FiniteSets

CONSTANTS
    Requests,
    Kinds,          \* the protocols: file requests, and challenges of two kinds
    Kind,           \* the protocol of each request
    Idempotent,     \* the requests sent by send_request_idempotent
    MaxAttempts,    \* bounds: times a request may be sent,
    MaxSessions     \* and sessions that may be established

ASSUME RegistryAssumption ==
    /\ "file" \in Kinds /\ Kinds \subseteq {"file", "share", "invite"}
    /\ Kind \in [Requests -> Kinds]
    /\ Idempotent \subseteq {r \in Requests : Kind[r] = "file"}
    /\ MaxAttempts \in Nat /\ MaxSessions \in Nat

VARIABLES
    session,    \* the session of the store, and the number given last
    task,       \* per request: what the task that sends it does next
    wire,       \* per sent request: where it or its answer is
    register,   \* TimeoutRequestRegistryData::register
    queue,      \* per kind: commands the timeout worker has not seen
    timers,     \* per kind: requests whose timer runs or has run out
    expired,    \* the timers that have run out
    waker,      \* per kind: a new command wakes the event loop
    polls,      \* the workers the event loop is going to poll
    reported,   \* requests the business logic was told the end of
    processed,  \* history: how often the peer ran each request that is not idempotent
    unsealed    \* history: those it ran and whose answer it could not encrypt

transport == <<wire, processed, unsealed>>
worker    == <<queue, timers, expired, waker, polls>>
vars      == <<session, task, wire, register, queue, timers, expired, waker, polls, reported,
               processed, unsealed>>

Sent == Requests \X (1..MaxAttempts)

Idle == [do |-> "idle", attempt |-> 1, session |-> 0]

Init ==
    /\ session = [current |-> 0, last |-> 0]
    /\ task = [r \in Requests |-> [Idle EXCEPT !.do = "GetSession"]]
    /\ wire = [s \in Sent |-> "none"]
    /\ register = [s \in {} |-> {}]
    /\ queue = [k \in Kinds |-> <<>>]
    /\ timers = [k \in Kinds |-> {}]
    /\ expired = {}
    /\ waker = [k \in Kinds |-> TRUE]
    /\ polls = {}
    /\ reported = {}
    /\ processed = [r \in Requests \ Idempotent |-> 0]
    /\ unsealed = {}

\* The business logic is told how a request ended, by an answer, an error or
\* a timeout, together with the id it knows the request by.
Report(r) == reported' = reported \cup {r}

\* It is told of an answer or an error without the id.
ReportUnknown == UNCHANGED reported

\* The task of r goes on with `do`.
Goes(r, do) == task' = [task EXCEPT ![r].do = do]

-----------------------------------------------------------------------------
(***************************************************************************)
(* The registry.  Its handle sends the worker a command; the command wakes *)
(* the event loop only if the worker left a waker with the channel.        *)
(***************************************************************************)
Commands(k, command) ==
    /\ queue' = [queue EXCEPT ![k] = Append(@, command)]
    /\ waker' = [waker EXCEPT ![k] = FALSE]
    /\ polls' = IF waker[k] THEN Kinds ELSE polls
    /\ UNCHANGED <<timers, expired>>

\* Each protocol has a registry and a worker of its own.
RegistryOf(r) == Kind[r]

Without(s) == [x \in DOMAIN register \ {s} |-> register[x]]

With(reg, s, entry) == [x \in DOMAIN reg \cup {s} |-> IF x = s THEN entry ELSE reg[x]]

\* Slip: the timeout worker is not told.
RegisterSilently(r, a) ==
    /\ register' = With(register, <<r, a>>, [retry |-> 0, data |-> TRUE, session |-> task[r].session])
    /\ UNCHANGED worker

RegisterRequest(r, a) ==
    /\ register' = With(register, <<r, a>>, [retry |-> 0, data |-> TRUE, session |-> task[r].session])
    /\ Commands(RegistryOf(r), [do |-> "Register", request |-> r])

\* The contact share challenges register an id with the file requests'
\* registry (trait_impls/request_registry.rs).
RegisterRequestId(r, a) ==
    /\ register' = With(register, <<r, a>>, [retry |-> 0, data |-> FALSE, session |-> 0])
    /\ Commands(IF Kind[r] = "share" THEN "file" ELSE RegistryOf(r), [do |-> "Register", request |-> r])

\* The entry keeps its retry count.
UpdateRequestId(r, a) ==
    IF <<r, a - 1>> \in DOMAIN register
    THEN /\ register' = With(Without(<<r, a - 1>>), <<r, a>>, register[<<r, a - 1>>])
         /\ UNCHANGED worker
    ELSE RegisterRequestId(r, a)

RemoveRequest(s) ==
    IF s \in DOMAIN register
    THEN register' = Without(s) /\ Commands(RegistryOf(s[1]), [do |-> "UnRegister", request |-> s[1]])
    ELSE UNCHANGED <<register, worker>>

\* Slip: the retry is not counted.
CountsNoRetry(s) ==
    /\ register' = register
    /\ Commands(RegistryOf(s[1]), [do |-> "ResetTimeout", request |-> s[1]])

\* A request is handed out for a resend: the retry counts and the timeout
\* starts anew.
CountsRetry(s) ==
    /\ register' = [register EXCEPT ![s].retry = @ + 1]
    /\ Commands(RegistryOf(s[1]), [do |-> "ResetTimeout", request |-> s[1]])

-----------------------------------------------------------------------------
(***************************************************************************)
(* send_internal: get a session, encrypt and hand the request to the       *)
(* swarm, then register it or its new id.                                  *)
(***************************************************************************)
SendFails(r) ==
    /\ task' = [task EXCEPT ![r] = Idle]
    /\ IF task[r].attempt = 1 THEN UNCHANGED reported ELSE Report(r)

GetOrEstablishSession(r) ==
    /\ task[r].do = "GetSession"
    /\ task[r].attempt <= MaxAttempts
    /\ \/ /\ session.current # 0
          /\ task' = [task EXCEPT ![r] = [@ EXCEPT !.do = "Transmit", !.session = session.current]]
          /\ UNCHANGED <<session, reported>>
       \/ /\ session.current = 0
          /\ session.last < MaxSessions
          /\ session' = [current |-> session.last + 1, last |-> session.last + 1]
          /\ task' = [task EXCEPT ![r] = [@ EXCEPT !.do = "Transmit", !.session = session.last + 1]]
          /\ UNCHANGED reported
       \/ /\ session.current = 0
          /\ SendFails(r)
          /\ UNCHANGED session
    /\ UNCHANGED <<transport, register, worker>>

\* The event loop runs, so it is going to poll its workers.
SendEncryptedRequest(r) ==
    /\ task[r].do = "Transmit"
    /\ \/ /\ wire' = [wire EXCEPT ![<<r, task[r].attempt>>] = "request"]
          /\ Goes(r, "Register")
          /\ polls' = Kinds
          /\ UNCHANGED reported
       \/ /\ SendFails(r)                          \* EncryptError
          /\ UNCHANGED <<wire, polls>>
    /\ UNCHANGED <<session, register, queue, timers, expired, waker, processed, unsealed>>

RegisterSent(r) ==
    /\ task[r].do = "Register"
    /\ IF task[r].attempt = 1
       THEN RegisterRequest(r, 1)
       ELSE UpdateRequestId(r, task[r].attempt)
    /\ task' = [task EXCEPT ![r] = Idle]
    /\ UNCHANGED <<session, transport, reported>>

-----------------------------------------------------------------------------
(***************************************************************************)
(* The peer: decrypt_respond tries the sessions it has.  Every error is    *)
(* answered as if the request had not been read: that no session decrypts  *)
(* it, and also that it did run and its answer cannot be encrypted.  A     *)
(* rejected challenge is not answered at all.                              *)
(***************************************************************************)
Runs(r) ==
    processed' = IF r \in Idempotent THEN processed ELSE [processed EXCEPT ![r] = @ + 1]

RejectsChallenge(s) ==
    /\ Kind[s[1]] # "file"
    /\ wire' = [wire EXCEPT ![s] = "silent"]

DecryptRespond(s) ==
    /\ wire[s] = "request"
    /\ \/ /\ wire' = [wire EXCEPT ![s] = "crypt_error"]
          /\ UNCHANGED <<processed, unsealed>>
       \/ /\ wire' = [wire EXCEPT ![s] = "response"]
          /\ Runs(s[1])
          /\ UNCHANGED unsealed
       \/ /\ wire' = [wire EXCEPT ![s] = "crypt_error"]
          /\ Runs(s[1])
          /\ unsealed' = unsealed \cup ({s[1]} \ Idempotent)
       \/ /\ RejectsChallenge(s)
          /\ Runs(s[1])
          /\ UNCHANGED unsealed
    /\ UNCHANGED <<session, task, register, worker, reported>>

-----------------------------------------------------------------------------
(***************************************************************************)
(* receive_encrypted_response, in the task of its event.  A response is    *)
(* taken out of the registry before any session is tried on it.            *)
(***************************************************************************)
\* The event of a sent request, in a task of its own.  There is one for each.
Ends(s) == wire' = [wire EXCEPT ![s] = "ended"] /\ UNCHANGED <<processed, unsealed>>

Known(s) == s \in DOMAIN register

ReceiveResponse(s) ==
    /\ wire[s] = "response"
    /\ Ends(s)
    /\ RemoveRequest(s)
    /\ IF Known(s) THEN Report(s[1]) ELSE ReportUnknown
    /\ UNCHANGED <<session, task>>

\* The retry goes to the task of the request.
Resends(s, do) ==
    /\ task' = [task EXCEPT ![s[1]] = [do |-> do, attempt |-> s[2] + 1, session |-> 0]]
    /\ CountsRetry(s)
    /\ UNCHANGED reported

GivesUp(s) ==
    /\ IF Known(s) THEN Report(s[1]) ELSE ReportUnknown
    /\ UNCHANGED <<task, register, worker>>

Retriable(s) == Known(s) /\ register[s].retry = 0 /\ register[s].data

\* The session the peer could not read is cleared, but only if it still is
\* the one in use.
ReceiveRemoteError(s) ==
    /\ wire[s] = "crypt_error"
    /\ Ends(s)
    /\ IF Retriable(s)
       THEN Resends(s, IF session.current # 0 /\ session.current = register[s].session
                       THEN "ClearSession" ELSE "GetSession")
       ELSE GivesUp(s)
    /\ UNCHANGED session

\* Slip: every request is sent again.
AnyLocalRetry(s) == Retriable(s)

\* get_request_for_resend gives out idempotent requests only.
LocalRetry(s) == Retriable(s) /\ s[1] \in Idempotent

\* Only file requests are looked up in the registry when they fail; the other
\* protocols report a rejection, and leave the timeout running.
ChallengeFails(s) ==
    /\ Kind[s[1]] # "file"
    /\ ReportUnknown
    /\ UNCHANGED <<task, register, worker>>

\* The request or its answer is lost.
ReceiveOutboundFailure(s) ==
    /\ wire[s] \in {"request", "response", "crypt_error", "silent"}
    /\ Ends(s)
    /\ IF LocalRetry(s) THEN Resends(s, "GetSession")
       ELSE \/ Kind[s[1]] = "file" /\ GivesUp(s)
            \/ ChallengeFails(s)
    /\ UNCHANGED session

\* Some time after it was compared: another task may have cleared the session
\* and established the next one in between.
ClearSession(r) ==
    /\ task[r].do = "ClearSession"
    /\ session' = [session EXCEPT !.current = 0]
    /\ Goes(r, "GetSession")
    /\ UNCHANGED <<transport, register, worker, reported>>

-----------------------------------------------------------------------------
(***************************************************************************)
(* The timeout worker.  A poll takes one command.  Only a poll that finds  *)
(* none leaves a waker with the channel; a poll that yields a timeout is   *)
(* followed by another, as the event loop turns round.                     *)
(***************************************************************************)
Obeys(k, command) ==
    IF command.do = "Register" THEN timers[k] \cup {command.request}
    ELSE IF command.do = "UnRegister" THEN timers[k] \ {command.request}
    ELSE timers[k]

\* The timers that have run out once the command is carried out.
StillExpired(k, command) ==
    IF command.do = "Register" THEN expired ELSE expired \ {command.request}

PollWorker(k) ==
    LET idle  == queue[k] = <<>>
        armed == IF idle THEN timers[k] ELSE Obeys(k, Head(queue[k]))
        out   == IF idle THEN expired ELSE StillExpired(k, Head(queue[k]))
    IN  /\ k \in polls
        /\ queue' = IF idle THEN queue ELSE [queue EXCEPT ![k] = Tail(@)]
        /\ waker' = [waker EXCEPT ![k] = idle]
        /\ \/ /\ armed \cap out = {}
              /\ timers' = [timers EXCEPT ![k] = armed]
              /\ expired' = out
              /\ polls' = polls \ {k}
              /\ UNCHANGED reported
           \/ \E r \in armed \cap out :
              /\ timers' = [timers EXCEPT ![k] = armed \ {r}]
              /\ expired' = out \ {r}
              /\ polls' = Kinds
              /\ Report(r)
        /\ UNCHANGED <<session, task, transport, register>>

TimerRunsOut(k, r) ==
    /\ r \in timers[k] \ expired
    /\ expired' = expired \cup {r}
    /\ polls' = Kinds
    /\ UNCHANGED <<session, task, transport, register, queue, timers, waker, reported>>

\* The event loop wakes for something else, and polls all its branches.
EventLoopWakes ==
    /\ polls # Kinds
    /\ polls' = Kinds
    /\ UNCHANGED <<session, task, transport, register, queue, timers, expired, waker, reported>>

-----------------------------------------------------------------------------
Next ==
    \/ \E r \in Requests :
        \/ GetOrEstablishSession(r)
        \/ SendEncryptedRequest(r)
        \/ RegisterSent(r)
        \/ ClearSession(r)
        \/ \E k \in Kinds : TimerRunsOut(k, r)
    \/ \E s \in Sent :
        \/ DecryptRespond(s)
        \/ ReceiveResponse(s)
        \/ ReceiveRemoteError(s)
        \/ ReceiveOutboundFailure(s)
    \/ \E k \in Kinds : PollWorker(k)
    \/ EventLoopWakes

\* Tasks run, timers run out, and the event loop is woken again and again: the
\* timers of the swarm's behaviours (mDNS, connections) do not stop.  That
\* the peer answers is not relied on.
Fairness ==
    /\ \A r \in Requests :
        /\ WF_vars(RegisterSent(r))
        /\ \A k \in Kinds : WF_vars(TimerRunsOut(k, r))
    /\ \A k \in Kinds : WF_vars(PollWorker(k))
    /\ WF_vars(EventLoopWakes)

Spec == Init /\ [][Next]_vars /\ Fairness

-----------------------------------------------------------------------------
\* send_request: whatever is lost and however often the session breaks, the
\* business logic of the peer runs a request that is not idempotent at most
\* once, unless it was run and the answer could not be encrypted.
NotProcessedTwice == \A r \in Requests \ (Idempotent \cup unsealed) : processed[r] <= 1

\* RemoteReceiveError: its errors mean "that the remote's business logic could
\* not have read the request", so that one sent again after them runs once.
\* The code breaks this where the request ran and encrypting the answer failed.
UnreadWhenResent == \A r \in Requests \ Idempotent : processed[r] <= 1

\* receive_encrypted_response: a request is sent again once and no more.
RetriedOnce == \A r \in Requests : task[r].attempt <= 2

\* Every request the caller got an id for is reported under that id in the
\* end, by an answer, an error or a timeout: also when its event is handled
\* before it is registered, and whatever commands the worker sleeps over.
EveryRequestReported ==
    \A r \in Requests :
        (task[r].do = "Register" /\ task[r].attempt = 1)
            ~> r \in reported
=============================================================================
