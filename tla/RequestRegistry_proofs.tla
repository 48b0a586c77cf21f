----------------------- MODULE RequestRegistry_proofs -----------------------
(***************************************************************************)
(* Proofs about the requests to one peer, for any number of requests,      *)
(* kinds, sessions and attempts: a request is sent again once at most, and *)
(* one that is not idempotent is processed once at most, unless its answer *)
(* could not be encrypted.                                                 *)
(***************************************************************************)
EXTENDS RequestRegistry, TLAPS

USE RegistryAssumption

\* What a task that sends a request may do next.
TaskSteps == {"idle", "GetSession", "ClearSession", "Transmit", "Register"}

\* Where a sent request or its answer may be.
Places == {"none", "request", "response", "crypt_error", "silent", "ended"}

Entry == [retry : Nat, data : BOOLEAN, session : Nat]

TypesOK ==
    /\ session \in [current : Nat, last : Nat]
    /\ task \in [Requests -> [do : TaskSteps, attempt : Nat, session : Nat]]
    /\ wire \in [Sent -> Places]
    /\ processed \in [Requests \ Idempotent -> Nat]
    /\ register = [s \in DOMAIN register |-> register[s]]
    /\ \A s \in DOMAIN register : s \in Sent /\ register[s] \in Entry
    /\ \A r \in Requests :
          task[r].do \in {"Transmit", "Register"} => task[r].attempt <= MaxAttempts

\* A request is in the registry while its task rests, or while its second
\* attempt is on its way.  The entry the second attempt started from has its
\* retry counted, and the one the second attempt leaves cannot be retried: it
\* has the count of the first, or was made without data.
RetryInv ==
    \A r \in Requests :
        /\ task[r].attempt \in {1, 2}
        /\ task[r].do = "idle" => task[r].attempt = 1
        /\ \A s \in DOMAIN register : s[1] = r =>
              /\ s[2] \in {1, 2}
              /\ task[r].do = "idle" \/ task[r].attempt = 2
              /\ s[2] = 2 => ~(register[s].retry = 0 /\ register[s].data)
              /\ s[2] = 1 /\ task[r].attempt = 2 => register[s].retry >= 1

\* The peer may yet run s, or has said that it could not.
Open(s) == wire[s] \in {"request", "crypt_error"}

\* Of a request that is not idempotent at most one copy is open, and none
\* once it was processed or while its task is about to send, unless its answer
\* could not be encrypted.
OnceInv ==
    \A r \in Requests \ (Idempotent \cup unsealed) :
        /\ processed[r] <= 1
        /\ \A s, t \in Sent : s[1] = r /\ t[1] = r /\ Open(s) /\ Open(t) => s = t
        /\ processed[r] = 1 \/ task[r].do \in {"GetSession", "ClearSession", "Transmit"}
              => \A s \in Sent : s[1] = r => ~Open(s)
        /\ processed[r] = 1 => task[r].do \in {"Register", "idle"}

IInv == TypesOK /\ RetryInv /\ OnceInv

-----------------------------------------------------------------------------
LEMMA SentFacts ==
    /\ \A s \in Sent : s[1] \in Requests /\ s[2] \in 1 .. MaxAttempts /\ s = <<s[1], s[2]>>
    /\ \A r \in Requests, a \in 1 .. MaxAttempts :
          <<r, a>> \in Sent /\ <<r, a>>[1] = r /\ <<r, a>>[2] = a
BY DEF Sent

LEMMA InitIInv == Init => IInv
<1> SUFFICES ASSUME Init PROVE IInv
    OBVIOUS
<1>1. TypesOK
    BY DEF Init, Idle, TypesOK, TaskSteps, Places
<1>2. RetryInv
    BY DEF Init, Idle, RetryInv
<1>3. OnceInv
    BY DEF Init, Idle, OnceInv, Open
<1> QED
    BY <1>1, <1>2, <1>3 DEF IInv

\* The parts of IInv mention four variables only: the timeout worker may do
\* as it likes.
LEMMA WorkerSteps ==
    ASSUME IInv, UNCHANGED <<session, task, wire, register, processed, unsealed>>
    PROVE  IInv'
BY DEF IInv, TypesOK, RetryInv, OnceInv, Open

-----------------------------------------------------------------------------
LEMMA SendFailsKeeps ==
    ASSUME IInv, NEW r \in Requests, SendFails(r),
           task[r].do \in {"GetSession", "Transmit"},
           UNCHANGED <<session, wire, register, processed, unsealed>>
    PROVE  IInv'
<1> USE DEF IInv
<1>1. task' = [task EXCEPT ![r] = Idle]
    BY DEF SendFails
<1>2. TypesOK'
    BY <1>1 DEF TypesOK, Idle, TaskSteps
<1>3. RetryInv'
    BY <1>1 DEF TypesOK, RetryInv, Idle
<1>4. OnceInv'
    BY <1>1 DEF TypesOK, OnceInv, Open, Idle
<1> QED
    BY <1>2, <1>3, <1>4

LEMMA GetOrEstablishSessionKeeps ==
    ASSUME IInv, NEW r \in Requests, GetOrEstablishSession(r)
    PROVE  IInv'
<1> USE DEF IInv
<1>1. task[r].do = "GetSession" /\ task[r].attempt <= MaxAttempts
      /\ UNCHANGED <<wire, processed, unsealed, register>>
    BY DEF GetOrEstablishSession, transport
<1>2. CASE SendFails(r) /\ UNCHANGED session
    BY <1>1, <1>2, SendFailsKeeps
<1>3. ASSUME NEW n \in Nat,
             task' = [task EXCEPT ![r] = [@ EXCEPT !.do = "Transmit", !.session = n]],
             session' \in [current : Nat, last : Nat]
      PROVE  IInv'
    <2>1. /\ task' \in [Requests -> [do : TaskSteps, attempt : Nat, session : Nat]]
          /\ task'[r].do = "Transmit" /\ task'[r].attempt = task[r].attempt
          /\ \A q \in Requests : q # r => task'[q] = task[q]
        <3> DEFINE t == [task[r] EXCEPT !.do = "Transmit", !.session = n]
        <3>1. task[r] \in [do : TaskSteps, attempt : Nat, session : Nat]
            BY DEF TypesOK
        <3>2. /\ t \in [do : TaskSteps, attempt : Nat, session : Nat]
              /\ t.do = "Transmit" /\ t.attempt = task[r].attempt
            BY <3>1 DEF TaskSteps
        <3>3. task' = [task EXCEPT ![r] = t]
            BY <1>3
        <3> HIDE DEF t
        <3> QED
            BY <3>2, <3>3 DEF TypesOK
    <2>2. TypesOK'
        BY <1>1, <1>3, <2>1 DEF TypesOK
    <2>3. RetryInv'
        BY <1>1, <2>1 DEF TypesOK, RetryInv
    <2>4. OnceInv'
        BY <1>1, <2>1 DEF TypesOK, OnceInv, Open
    <2> QED
        BY <2>2, <2>3, <2>4
<1>4. session \in [current : Nat, last : Nat]
    BY DEF TypesOK
<1> HIDE DEF IInv
<1>5. CASE /\ task' = [task EXCEPT ![r] = [@ EXCEPT !.do = "Transmit",
                                                  !.session = session.current]]
           /\ UNCHANGED session
    <2>1. session.current \in Nat /\ session' \in [current : Nat, last : Nat]
        BY <1>4, <1>5
    <2> QED
        BY <1>3, <1>5, <2>1
<1>6. CASE /\ task' = [task EXCEPT ![r] = [@ EXCEPT !.do = "Transmit",
                                                  !.session = session.last + 1]]
           /\ session' = [current |-> session.last + 1, last |-> session.last + 1]
    <2>1. session.last + 1 \in Nat /\ session' \in [current : Nat, last : Nat]
        BY <1>4, <1>6
    <2> QED
        BY <1>3, <1>6, <2>1
<1> QED
    BY <1>2, <1>5, <1>6 DEF GetOrEstablishSession

LEMMA SendEncryptedRequestKeeps ==
    ASSUME IInv, NEW r \in Requests, SendEncryptedRequest(r)
    PROVE  IInv'
<1> USE DEF IInv
<1>1. task[r].do = "Transmit" /\ UNCHANGED <<session, register, processed, unsealed>>
    BY DEF SendEncryptedRequest
<1>2. CASE SendFails(r) /\ UNCHANGED wire
    BY <1>1, <1>2, SendFailsKeeps
<1>3. CASE wire' = [wire EXCEPT ![<<r, task[r].attempt>>] = "request"] /\ Goes(r, "Register")
    <2> DEFINE s0 == <<r, task[r].attempt>>
    <2>1. /\ task' \in [Requests -> [do : TaskSteps, attempt : Nat, session : Nat]]
          /\ task'[r].do = "Register" /\ task'[r].attempt = task[r].attempt
          /\ \A q \in Requests : q # r => task'[q] = task[q]
        BY <1>3 DEF Goes, TypesOK, TaskSteps
    <2>2. s0 \in Sent /\ s0[1] = r
        BY <1>1, SentFacts DEF TypesOK, RetryInv
    <2>3. wire' = [wire EXCEPT ![s0] = "request"]
        BY <1>3
    <2> HIDE DEF s0
    <2>4. TypesOK'
        BY <1>1, <2>1, <2>2, <2>3 DEF TypesOK, Places
    <2>5. RetryInv'
        BY <1>1, <2>1 DEF TypesOK, RetryInv
    <2>6. OnceInv'
        <3> SUFFICES ASSUME NEW q \in Requests \ (Idempotent \cup unsealed')
                     PROVE  OnceInv!(q)'
            BY DEF OnceInv
        <3>1. CASE q = r
            BY <1>1, <2>1, <2>2, <2>3, <3>1 DEF TypesOK, OnceInv, Open
        <3>2. CASE q # r
            <4>1. \A s \in Sent : s[1] = q => wire'[s] = wire[s]
                BY <2>2, <2>3, <3>2 DEF TypesOK
            <4> QED
                BY <1>1, <2>1, <3>2, <4>1 DEF TypesOK, OnceInv, Open
        <3> QED
            BY <3>1, <3>2
    <2> QED
        BY <2>4, <2>5, <2>6
<1> QED
    BY <1>2, <1>3 DEF SendEncryptedRequest

LEMMA ClearSessionKeeps ==
    ASSUME IInv, NEW r \in Requests, ClearSession(r)
    PROVE  IInv'
<1> USE DEF IInv
<1>1. /\ task[r].do = "ClearSession" /\ UNCHANGED <<wire, register, processed, unsealed>>
      /\ session' = [session EXCEPT !.current = 0]
    BY DEF ClearSession, transport
<1>2. /\ task' \in [Requests -> [do : TaskSteps, attempt : Nat, session : Nat]]
      /\ task'[r].do = "GetSession" /\ task'[r].attempt = task[r].attempt
      /\ \A q \in Requests : q # r => task'[q] = task[q]
    BY DEF ClearSession, Goes, TypesOK, TaskSteps
<1>3. TypesOK'
    BY <1>1, <1>2 DEF TypesOK
<1>4. RetryInv'
    BY <1>1, <1>2 DEF TypesOK, RetryInv
<1>5. OnceInv'
    BY <1>1, <1>2 DEF TypesOK, OnceInv, Open
<1> QED
    BY <1>3, <1>4, <1>5

-----------------------------------------------------------------------------
\* The task rests and the registry has the entry of the attempt it made, in
\* place of the one before: register_request and update_request_id.
LEMMA RegisterSentKeeps ==
    ASSUME IInv, NEW r \in Requests, RegisterSent(r)
    PROVE  IInv'
<1> USE DEF IInv
<1> DEFINE a == task[r].attempt
<1>1. /\ task[r].do = "Register" /\ UNCHANGED <<session, wire, processed, unsealed>>
      /\ task' = [task EXCEPT ![r] = Idle]
    BY DEF RegisterSent, transport
<1>2. a \in {1, 2} /\ <<r, a>> \in Sent /\ <<r, a>>[1] = r /\ <<r, a>>[2] = a
    BY <1>1, SentFacts DEF TypesOK, RetryInv
<1>3. /\ task' \in [Requests -> [do : TaskSteps, attempt : Nat, session : Nat]]
      /\ task'[r].do = "idle" /\ task'[r].attempt = 1
      /\ \A q \in Requests : q # r => task'[q] = task[q]
    BY <1>1 DEF TypesOK, TaskSteps, Idle
<1>4. PICK kept \in SUBSET DOMAIN register, e \in Entry :
          /\ register' = [x \in kept \cup {<<r, a>>} |->
                            IF x = <<r, a>> THEN e ELSE register[x]]
          /\ a = 2 => ~(e.retry = 0 /\ e.data)
    <2>1. CASE a = 1
        <3>1. register' = With(register, <<r, 1>>,
                               [retry |-> 0, data |-> TRUE, session |-> task[r].session])
            BY <2>1 DEF RegisterSent, RegisterRequest
        <3>2. [retry |-> 0, data |-> TRUE, session |-> task[r].session] \in Entry
            BY DEF TypesOK, Entry
        <3> QED
            BY <2>1, <3>1, <3>2 DEF With
    <2>2. CASE a = 2 /\ <<r, 1>> \in DOMAIN register
        <3>1. register' = With(Without(<<r, 1>>), <<r, a>>, register[<<r, 1>>])
            BY <2>2 DEF RegisterSent, UpdateRequestId
        <3>2. register[<<r, 1>>] \in Entry /\ register[<<r, 1>>].retry >= 1
            BY <2>2 DEF TypesOK, RetryInv
        <3>3. register' = [x \in (DOMAIN register \ {<<r, 1>>}) \cup {<<r, a>>} |->
                              IF x = <<r, a>> THEN register[<<r, 1>>] ELSE register[x]]
            BY <3>1 DEF With, Without
        <3>4. ~(register[<<r, 1>>].retry = 0 /\ register[<<r, 1>>].data)
            BY <3>2 DEF Entry
        <3>5. (DOMAIN register \ {<<r, 1>>}) \in SUBSET DOMAIN register
            OBVIOUS
        <3> HIDE DEF a
        <3> QED
            BY <3>2, <3>3, <3>4, <3>5
    <2>3. CASE a = 2 /\ <<r, 1>> \notin DOMAIN register
        <3>1. register' = With(register, <<r, a>>,
                               [retry |-> 0, data |-> FALSE, session |-> 0])
            BY <2>3 DEF RegisterSent, UpdateRequestId, RegisterRequestId
        <3>2. [retry |-> 0, data |-> FALSE, session |-> 0] \in Entry
            BY DEF Entry
        <3> QED
            BY <2>3, <3>1, <3>2 DEF With
    <2> QED
        BY <1>2, <2>1, <2>2, <2>3
<1> HIDE DEF a
<1>5. /\ DOMAIN register' = kept \cup {<<r, a>>}
      /\ register' = [x \in DOMAIN register' |-> register'[x]]
      /\ register'[<<r, a>>] = e
      /\ \A x \in kept : x # <<r, a>> => register'[x] = register[x]
    BY <1>4
<1>6. TypesOK'
    <2>1. \A s \in DOMAIN register' : s \in Sent /\ register'[s] \in Entry
        BY <1>2, <1>4, <1>5 DEF TypesOK
    <2>2. \A q \in Requests :
             task'[q].do \in {"Transmit", "Register"} => task'[q].attempt <= MaxAttempts
        BY <1>3 DEF TypesOK
    <2> QED
        BY <1>1, <1>3, <1>5, <2>1, <2>2 DEF TypesOK
<1>7. RetryInv'
    <2> SUFFICES ASSUME NEW q \in Requests PROVE RetryInv!(q)'
        BY DEF RetryInv
    <2>1. CASE q = r
        BY <1>2, <1>3, <1>4, <1>5, <2>1 DEF TypesOK, RetryInv
    <2>2. CASE q # r
        BY <1>2, <1>3, <1>4, <1>5, <2>2 DEF TypesOK, RetryInv
    <2> QED
        BY <2>1, <2>2
<1>8. OnceInv'
    BY <1>1, <1>3 DEF TypesOK, OnceInv, Open
<1> QED
    BY <1>6, <1>7, <1>8

-----------------------------------------------------------------------------
LEMMA DecryptRespondKeeps ==
    ASSUME IInv, NEW s \in Sent, DecryptRespond(s)
    PROVE  IInv'
<1> USE DEF IInv
<1>1. wire[s] = "request" /\ UNCHANGED <<session, task, register>> /\ s[1] \in Requests
    BY SentFacts DEF DecryptRespond
<1>2. PICK w \in {"response", "crypt_error", "silent"} :
          /\ wire' = [wire EXCEPT ![s] = w]
          /\ unsealed \subseteq unsealed'
          /\ \/ processed' = processed /\ w = "crypt_error"
             \/ /\ processed' = IF s[1] \in Idempotent THEN processed
                                ELSE [processed EXCEPT ![s[1]] = @ + 1]
                /\ w # "crypt_error" \/ s[1] \in Idempotent \cup unsealed'
    BY DEF DecryptRespond, RejectsChallenge, Runs
<1>3. wire' \in [Sent -> Places] /\ processed' \in [Requests \ Idempotent -> Nat]
    BY <1>1, <1>2 DEF TypesOK, Places
<1>4. TypesOK'
    BY <1>1, <1>3 DEF TypesOK
<1>5. RetryInv'
    BY <1>1 DEF RetryInv
<1>6. OnceInv'
    <2> SUFFICES ASSUME NEW q \in Requests \ (Idempotent \cup unsealed')
                 PROVE  OnceInv!(q)'
        BY DEF OnceInv
    <2>0. q \in Requests \ (Idempotent \cup unsealed)
        BY <1>2
    <2>1. CASE q = s[1]
        <3>1. processed[q] = 0 /\ task[q].do \in {"Register", "idle"}
            <4>1. s[1] = q /\ Open(s) /\ processed[q] \in Nat /\ task[q].do \in TaskSteps
                BY <1>1, <2>1 DEF Open, TypesOK
            <4>2. processed[q] # 1
                  /\ task[q].do \notin {"GetSession", "ClearSession", "Transmit"}
                BY <4>1, <2>0 DEF OnceInv
            <4> QED
                BY <4>1, <4>2, <2>0 DEF OnceInv, TaskSteps
        <3>2. \A t \in Sent : t[1] = q /\ t # s => ~Open(t)'
            BY <1>1, <1>2, <2>0, <2>1 DEF OnceInv, Open, TypesOK
        <3>3. processed'[q] = (IF w = "crypt_error" THEN 0 ELSE 1)
              /\ (Open(s)' <=> w = "crypt_error")
            BY <1>2, <2>1, <3>1 DEF TypesOK, Open
        <3> QED
            BY <1>1, <2>1, <3>1, <3>2, <3>3
    <2>2. CASE q # s[1]
        <3>1. \A t \in Sent : t[1] = q => wire'[t] = wire[t]
            BY <1>2, <2>2 DEF TypesOK
        <3>2. processed'[q] = processed[q]
            BY <1>2, <2>2 DEF TypesOK
        <3> QED
            BY <1>1, <2>0, <3>1, <3>2 DEF OnceInv, Open
    <2> QED
        BY <2>1, <2>2
<1> QED
    BY <1>4, <1>5, <1>6

\* A copy that has ended is open no more.
LEMMA EndsKeepsTypes ==
    ASSUME IInv, NEW s \in Sent, Ends(s)
    PROVE  /\ processed' = processed /\ unsealed' = unsealed /\ wire' \in [Sent -> Places]
           /\ \A t \in Sent : Open(t)' => t # s /\ Open(t)
BY DEF Ends, IInv, TypesOK, Places, Open

\* With the task left alone, only the registry can change what holds.
LEMMA EndsKeepsOnce ==
    ASSUME IInv, NEW s \in Sent, Ends(s), UNCHANGED task
    PROVE  OnceInv'
BY EndsKeepsTypes DEF IInv, OnceInv

LEMMA ReceiveResponseKeeps ==
    ASSUME IInv, NEW s \in Sent, ReceiveResponse(s)
    PROVE  IInv'
<1>1. Ends(s) /\ UNCHANGED <<session, task>>
    BY DEF ReceiveResponse
<1>2. register' = register \/ register' = [x \in DOMAIN register \ {s} |-> register[x]]
    BY DEF ReceiveResponse, RemoveRequest, Without
<1>3. TypesOK'
    BY <1>1, <1>2, EndsKeepsTypes DEF IInv, TypesOK
<1>4. RetryInv'
    BY <1>1, <1>2 DEF IInv, RetryInv
<1>5. OnceInv'
    BY <1>1, EndsKeepsOnce
<1> QED
    BY <1>3, <1>4, <1>5 DEF IInv

LEMMA GivenUpKeeps ==
    ASSUME IInv, NEW s \in Sent, Ends(s), UNCHANGED <<session, task, register>>
    PROVE  IInv'
<1>1. TypesOK' /\ RetryInv'
    BY EndsKeepsTypes DEF IInv, TypesOK, RetryInv
<1> QED
    BY <1>1, EndsKeepsOnce DEF IInv

\* A retry starts from the first attempt's entry and is counted there.  What
\* is sent again is idempotent, or the peer said that it could not read it.
LEMMA ResendsKeeps ==
    ASSUME IInv, NEW s \in Sent, Ends(s), UNCHANGED session,
           NEW do \in {"GetSession", "ClearSession"}, Resends(s, do), Retriable(s),
           s[1] \in Idempotent \/ wire[s] = "crypt_error"
    PROVE  IInv'
<1> USE DEF IInv
<1> DEFINE r == s[1]
<1>1. r \in Requests /\ s[2] = 1
    BY SentFacts DEF Retriable, Known, RetryInv
<1>2. /\ task' = [task EXCEPT ![r] = [do |-> do, attempt |-> 2, session |-> 0]]
      /\ register' = [register EXCEPT ![s].retry = @ + 1]
    BY <1>1 DEF Resends, CountsRetry
<1> HIDE DEF r
<1>3. /\ task' \in [Requests -> [do : TaskSteps, attempt : Nat, session : Nat]]
      /\ task'[r].do = do /\ task'[r].attempt = 2
      /\ \A q \in Requests : q # r => task'[q] = task[q]
    BY <1>1, <1>2 DEF TypesOK, TaskSteps
<1>4. /\ DOMAIN register' = DOMAIN register
      /\ register' = [x \in DOMAIN register' |-> register'[x]]
      /\ register'[s] \in Entry /\ register'[s].retry >= 1
      /\ \A x \in DOMAIN register : x # s => register'[x] = register[x]
    <2> DEFINE e == [register[s] EXCEPT !.retry = @ + 1]
    <2>1. s \in DOMAIN register /\ register[s] \in Entry
        BY DEF Retriable, Known, TypesOK
    <2>2. e \in Entry /\ e.retry >= 1
        BY <2>1 DEF Entry
    <2>3. register' = [register EXCEPT ![s] = e]
        BY <1>2
    <2> HIDE DEF e
    <2> QED
        BY <2>1, <2>2, <2>3
<1>5. TypesOK'
    <2>1. \A x \in DOMAIN register' : x \in Sent /\ register'[x] \in Entry
        BY <1>4 DEF TypesOK
    <2> QED
        BY <1>3, <1>4, <2>1, EndsKeepsTypes DEF TypesOK
<1>6. RetryInv'
    <2> SUFFICES ASSUME NEW q \in Requests PROVE RetryInv!(q)'
        BY DEF RetryInv
    <2>1. CASE q = r
        <3>1. \A x \in DOMAIN register : x[1] = r /\ x[2] = 1 => x = s
            BY <1>1, SentFacts DEF TypesOK, r
        <3> QED
            BY <1>1, <1>3, <1>4, <2>1, <3>1 DEF RetryInv
    <2>2. CASE q # r
        <3>1. \A x \in DOMAIN register : x[1] = q => x # s
            BY <2>2 DEF r
        <3> QED
            BY <1>3, <1>4, <2>2, <3>1 DEF RetryInv
    <2> QED
        BY <2>1, <2>2
<1>7. OnceInv'
    <2> SUFFICES ASSUME NEW q \in Requests \ (Idempotent \cup unsealed') PROVE OnceInv!(q)'
        BY DEF OnceInv
    <2>1. CASE q = r
        <3>1. Open(s) /\ processed[q] # 1
            BY <2>1, EndsKeepsTypes DEF OnceInv, Open, r
        <3>2. \A t \in Sent : t[1] = q => ~Open(t)'
            BY <2>1, <3>1, EndsKeepsTypes DEF OnceInv, r
        <3> QED
            BY <3>1, <3>2, EndsKeepsTypes DEF OnceInv
    <2>2. CASE q # r
        BY <1>3, <2>2, EndsKeepsTypes DEF OnceInv
    <2> QED
        BY <2>1, <2>2
<1> QED
    BY <1>5, <1>6, <1>7

LEMMA ReceiveRemoteErrorKeeps ==
    ASSUME IInv, NEW s \in Sent, ReceiveRemoteError(s)
    PROVE  IInv'
<1>1. wire[s] = "crypt_error" /\ Ends(s) /\ UNCHANGED session
    BY DEF ReceiveRemoteError
<1>2. CASE Retriable(s)
    <2>1. PICK do \in {"GetSession", "ClearSession"} : Resends(s, do)
        BY <1>2 DEF ReceiveRemoteError
    <2> QED
        BY <1>1, <1>2, <2>1, ResendsKeeps
<1>3. CASE ~Retriable(s)
    BY <1>1, <1>3, GivenUpKeeps DEF ReceiveRemoteError, GivesUp
<1> QED
    BY <1>2, <1>3

LEMMA ReceiveOutboundFailureKeeps ==
    ASSUME IInv, NEW s \in Sent, ReceiveOutboundFailure(s)
    PROVE  IInv'
<1>1. Ends(s) /\ UNCHANGED session
    BY DEF ReceiveOutboundFailure
<1>2. CASE LocalRetry(s)
    <2>1. Resends(s, "GetSession") /\ Retriable(s) /\ s[1] \in Idempotent
        BY <1>2 DEF ReceiveOutboundFailure, LocalRetry
    <2> QED
        BY <1>1, <2>1, ResendsKeeps
<1>3. CASE ~LocalRetry(s)
    BY <1>1, <1>3, GivenUpKeeps DEF ReceiveOutboundFailure, GivesUp, ChallengeFails
<1> QED
    BY <1>2, <1>3

-----------------------------------------------------------------------------
LEMMA NextKeepsIInv == IInv /\ [Next]_vars => IInv'
<1> SUFFICES ASSUME IInv, [Next]_vars PROVE IInv'
    OBVIOUS
<1>1. ASSUME NEW r \in Requests, GetOrEstablishSession(r) PROVE IInv'
    BY <1>1, GetOrEstablishSessionKeeps
<1>2. ASSUME NEW r \in Requests, SendEncryptedRequest(r) PROVE IInv'
    BY <1>2, SendEncryptedRequestKeeps
<1>3. ASSUME NEW r \in Requests, RegisterSent(r) PROVE IInv'
    BY <1>3, RegisterSentKeeps
<1>4. ASSUME NEW r \in Requests, ClearSession(r) PROVE IInv'
    BY <1>4, ClearSessionKeeps
<1>5. ASSUME NEW r \in Requests, NEW k \in Kinds, TimerRunsOut(k, r) PROVE IInv'
    BY <1>5, WorkerSteps DEF TimerRunsOut, transport
<1>6. ASSUME NEW s \in Sent, DecryptRespond(s) PROVE IInv'
    BY <1>6, DecryptRespondKeeps
<1>7. ASSUME NEW s \in Sent, ReceiveResponse(s) PROVE IInv'
    BY <1>7, ReceiveResponseKeeps
<1>8. ASSUME NEW s \in Sent, ReceiveRemoteError(s) PROVE IInv'
    BY <1>8, ReceiveRemoteErrorKeeps
<1>9. ASSUME NEW s \in Sent, ReceiveOutboundFailure(s) PROVE IInv'
    BY <1>9, ReceiveOutboundFailureKeeps
<1>10. ASSUME NEW k \in Kinds, PollWorker(k) PROVE IInv'
    BY <1>10, WorkerSteps DEF PollWorker, transport
<1>11. CASE EventLoopWakes
    BY <1>11, WorkerSteps DEF EventLoopWakes, transport
<1>12. CASE UNCHANGED vars
    BY <1>12, WorkerSteps DEF vars
<1> QED
    BY <1>1, <1>2, <1>3, <1>4, <1>5, <1>6, <1>7, <1>8, <1>9, <1>10, <1>11, <1>12 DEF Next

LEMMA IInvHolds == Spec => []IInv
BY InitIInv, NextKeepsIInv, PTL DEF Spec

\* receive_encrypted_response: whatever the peer, the network and the timeout
\* worker do, a request is sent a second time and never a third.
THEOREM SentAgainOnce == Spec => []RetriedOnce
<1>1. IInv => RetriedOnce
    BY DEF IInv, RetryInv, RetriedOnce
<1> QED
    BY <1>1, IInvHolds, PTL

\* send_request: the peer's business logic runs a request that is not idempotent
\* at most once, however many requests share the session and however often it
\* breaks, unless the answer of a run could not be encrypted, for get_request_for_resend never hands such a request out after a
\* local failure, and a remote error ends the copy it is about.
THEOREM ProcessedOnce == Spec => []NotProcessedTwice
<1>1. IInv => NotProcessedTwice
    BY DEF IInv, OnceInv, NotProcessedTwice
<1> QED
    BY <1>1, IInvHolds, PTL
=============================================================================
