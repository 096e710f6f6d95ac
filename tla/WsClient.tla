------------------------------ MODULE WsClient ------------------------------
(***************************************************************************)
(* RetryingWebSocketProvider of indexer/rpc.py: calls of one or several    *)
(* requests over one socket, matched by request id, with the retries of    *)
(* _with_retry.  The live indexer and each backfill chunk have a client of *)
(* their own with one caller; the threads of the API share one.            *)
(*   pc:  idle, answered, failed, asserted: no call, and how it ended      *)
(*        ensure, state   the two conditions of _ensure_connected          *)
(*        reset, connect, open   self._ws = None; _connect; ws_connect     *)
(*        send   _do       recv   about to await recv       wait   in recv *)
(***************************************************************************)
EXTENDS Integers, Sequences

CONSTANTS
    Callers,      \* threads that use the client
    MaxAttempts,  \* MAX_ATTEMPTS
    Width,        \* Width[n]: requests of the n-th call, 1 or a batch
    MaxCalls      \* bound: calls per caller

ASSUME WsConstants ==
    /\ MaxAttempts \in Nat \ {0}
    /\ MaxCalls \in Nat
    /\ Width \in [1 .. MaxCalls -> Nat \ {0}]

NoSocket == 0

VARIABLES
    ws,       \* self._ws: a socket, or NoSocket
    open,     \* the sockets in State.OPEN
    unread,   \* unread[s]: answers socket s has received, in order
    pending,  \* pairs <<s, i>>: request i, sent on s and not yet answered
    asked,    \* asked[i]: the caller, and the number of its call, that sent i
    pc,       \* [Callers -> a step above]
    call,     \* [Callers -> number of its call]
    attempt,  \* [Callers -> attempt of the call]
    ids,      \* [Callers -> ids of this attempt's requests]
    got,      \* [Callers -> ids of the answers this attempt has kept]
    on        \* [Callers -> the socket it reads]

socketVars == <<ws, open, unread, pending>>
frameVars == <<call, attempt, ids, got, on>>
wsVars == <<socketVars, asked, pc, frameVars>>

Done == {"idle", "answered", "failed", "asserted"}
Steps == Done \cup
    {"ensure", "state", "reset", "connect", "open", "send", "recv", "wait"}
Sockets == 1 .. Len(unread)
Ids == 1 .. Len(asked)

WsTypeOK ==
    /\ unread \in Seq(Seq(Nat))
    /\ ws \in Sockets \cup {NoSocket}
    /\ open \subseteq Sockets
    /\ pending \subseteq Sockets \X Ids
    /\ asked \in Seq(Callers \X Nat)
    /\ pc \in [Callers -> Steps]
    /\ call \in [Callers -> Nat]
    /\ attempt \in [Callers -> 1 .. MaxAttempts]
    /\ ids \in [Callers -> SUBSET Nat]
    /\ got \in [Callers -> SUBSET Nat]
    /\ on \in [Callers -> Nat]

\* The constructor has connected.
WsInit ==
    /\ ws = 1 /\ open = {1} /\ unread = <<(<<>>)>>
    /\ pending = {} /\ asked = <<>>
    /\ pc = [c \in Callers |-> "idle"]
    /\ call = [c \in Callers |-> 0]
    /\ attempt = [c \in Callers |-> 1]
    /\ ids = [c \in Callers |-> {}]
    /\ got = [c \in Callers |-> {}]
    /\ on = [c \in Callers |-> NoSocket]

Goto(c, l) == pc' = [pc EXCEPT ![c] = l]

-----------------------------------------------------------------------------
\* Mutant: one attempt too many.
RetryOnceMore(c) ==
    /\ IF attempt[c] <= MaxAttempts
       THEN attempt' = [attempt EXCEPT ![c] = @ + 1] /\ Goto(c, "ensure")
       ELSE Goto(c, "failed") /\ UNCHANGED attempt
    /\ UNCHANGED <<call, ids, got, on>>

\* A retryable exception leaves _request: there is another attempt, or it
\* was the last one and the exception is raised again.
Retry(c) ==
    /\ IF attempt[c] < MaxAttempts
       THEN attempt' = [attempt EXCEPT ![c] = @ + 1] /\ Goto(c, "ensure")
       ELSE Goto(c, "failed") /\ UNCHANGED attempt
    /\ UNCHANGED <<call, ids, got, on>>

\* An exception that is_retryable refuses.
Refuse(c) == Goto(c, "failed") /\ UNCHANGED frameVars

\* The websockets library reports a closed connection: whether is_retryable
\* accepts its exception depends on the text of it.
ConnectionClosed(c) == Retry(c) \/ Refuse(c)

\* Connected: the requests get their ids, and the coroutine is submitted.
Submit(c) ==
    /\ ids' = [ids EXCEPT ![c] =
                  Len(asked) + 1 .. Len(asked) + Width[call[c]]]
    /\ asked' = asked \o [i \in 1 .. Width[call[c]] |-> <<c, call[c]>>]
    /\ got' = [got EXCEPT ![c] = {}]
    /\ Goto(c, "send")
    /\ UNCHANGED <<call, attempt, on>>

-----------------------------------------------------------------------------
\* make_request, or make_batch_request.
Call(c) ==
    /\ pc[c] \in Done /\ call[c] < MaxCalls
    /\ call' = [call EXCEPT ![c] = @ + 1]
    /\ attempt' = [attempt EXCEPT ![c] = 1]
    /\ Goto(c, "ensure")
    /\ UNCHANGED <<socketVars, asked, ids, got, on>>

\* _ensure_connected: self._ws is None, ...
EnsureConnected(c) ==
    /\ pc[c] = "ensure"
    /\ Goto(c, IF ws = NoSocket THEN "reset" ELSE "state")
    /\ UNCHANGED <<socketVars, asked, frameVars>>

\* ... or self._ws.state is not OPEN.  If another thread has reset self._ws
\* since the first condition, reading its state raises.
CheckState(c) ==
    /\ pc[c] = "state"
    /\ \/ ws = NoSocket /\ Refuse(c) /\ UNCHANGED asked
       \/ ws \in open /\ Submit(c)
       \/ /\ ws \in Sockets \ open
          /\ Goto(c, "reset") /\ UNCHANGED <<asked, frameVars>>
    /\ UNCHANGED socketVars

Reset(c) ==
    /\ pc[c] = "reset"
    /\ ws' = NoSocket
    /\ Goto(c, "connect")
    /\ UNCHANGED <<open, unread, pending, asked, frameVars>>

\* _connect returns at once if another thread has connected meanwhile.
Connect(c) ==
    /\ pc[c] = "connect"
    /\ IF ws = NoSocket THEN Goto(c, "open") /\ UNCHANGED <<asked, frameVars>>
       ELSE Submit(c)
    /\ UNCHANGED socketVars

Open(c) ==
    /\ pc[c] = "open"
    /\ unread' = Append(unread, <<>>)
    /\ ws' = Len(unread')
    /\ open' = open \cup {ws'}
    /\ Submit(c)
    /\ UNCHANGED pending

\* The connection fails.  connect_sync tries again, which helps when another
\* thread has connected; after its last try the call has failed once.  What
\* is_retryable refuses (a handshake that is rejected) leaves both at once.
OpenFails(c) ==
    /\ pc[c] = "open"
    /\ \/ ws # NoSocket /\ Submit(c)
       \/ (Retry(c) \/ Refuse(c)) /\ UNCHANGED asked
    /\ UNCHANGED socketVars

\* _do: the assertion that there is a socket, then the send.
Send(c) ==
    /\ pc[c] = "send"
    /\ \/ ws = NoSocket /\ Goto(c, "asserted") /\ UNCHANGED <<pending, frameVars>>
       \/ /\ ws \in open
          /\ pending' = pending \cup ({ws} \X ids[c])
          /\ Goto(c, "recv") /\ UNCHANGED frameVars
       \/ ws \in Sockets \ open /\ ConnectionClosed(c) /\ UNCHANGED pending
    /\ UNCHANGED <<ws, open, unread, asked>>

\* self._ws.recv(), on the socket of this moment.  It raises without a socket
\* and, in the library, while another caller reads the same one.
Recv(c) ==
    /\ pc[c] = "recv"
    /\ IF ws = NoSocket \/ \E d \in Callers : pc[d] = "wait" /\ on[d] = ws
       THEN Refuse(c)
       ELSE /\ on' = [on EXCEPT ![c] = ws]
            /\ Goto(c, "wait")
            /\ UNCHANGED <<call, attempt, ids, got>>
    /\ UNCHANGED <<socketVars, asked>>

\* Mutant: the answers that come next are taken, whatever their ids.
ReadAny(c) ==
    /\ pc[c] = "wait" /\ unread[on[c]] # <<>>
    /\ got' = [got EXCEPT ![c] = @ \cup {Head(unread[on[c]])}]
    /\ Goto(c, "answered")
    /\ unread' = [unread EXCEPT ![on[c]] = Tail(@)]
    /\ UNCHANGED <<ws, open, pending, asked, call, attempt, ids, on>>

\* An answer is read: kept if this attempt asked for it, otherwise dropped.
\* The call is answered with the last one it waits for.
Read(c) ==
    /\ pc[c] = "wait" /\ unread[on[c]] # <<>>
    /\ got' = [got EXCEPT ![c] = @ \cup ({Head(unread[on[c]])} \cap ids[c])]
    /\ Goto(c, IF got'[c] = ids[c] THEN "answered" ELSE "recv")
    /\ unread' = [unread EXCEPT ![on[c]] = Tail(@)]
    /\ UNCHANGED <<ws, open, pending, asked, call, attempt, ids, on>>

\* Mutant: a timeout forgets the socket without closing it.
TimeoutForgets(c) ==
    /\ pc[c] = "wait" /\ unread[on[c]] = <<>>
    /\ Retry(c)
    /\ ws' = NoSocket
    /\ UNCHANGED <<open, unread, pending, asked>>

\* Mutant: recv has no timeout.
TimeoutNever(c) == FALSE

\* Nothing comes for request_timeout seconds.
Timeout(c) ==
    /\ pc[c] = "wait" /\ unread[on[c]] = <<>>
    /\ Retry(c)
    /\ UNCHANGED <<socketVars, asked>>

\* The socket closes while the caller waits on it.
ReadClosed(c) ==
    /\ pc[c] = "wait" /\ unread[on[c]] = <<>> /\ on[c] \notin open
    /\ ConnectionClosed(c)
    /\ UNCHANGED <<socketVars, asked>>

-----------------------------------------------------------------------------
\* The node answers a request, in any order and as late as it likes.
Answer ==
    /\ \E m \in pending :
          /\ pending' = pending \ {m}
          /\ unread' = [unread EXCEPT ![m[1]] = Append(@, m[2])]
    /\ UNCHANGED <<ws, open, asked, pc, frameVars>>

\* A connection breaks; what was not answered on it never will be.
Disconnect ==
    /\ \E s \in open :
          /\ open' = open \ {s}
          /\ pending' = {m \in pending : m[1] # s}
    /\ UNCHANGED <<ws, unread, asked, pc, frameVars>>

CallStep(c) ==
    \/ EnsureConnected(c) \/ CheckState(c) \/ Reset(c) \/ Connect(c)
    \/ Open(c) \/ OpenFails(c) \/ Send(c) \/ Recv(c)
    \/ Read(c) \/ Timeout(c) \/ ReadClosed(c)

WsNext ==
    \/ Answer \/ Disconnect
    \/ \E c \in Callers : Call(c) \/ CallStep(c)

WsSpec == WsInit /\ [][WsNext]_wsVars

\* A call in progress goes on: connecting, sending and reading have timeouts.
\* Nothing is assumed of the node.
WsFairSpec == WsSpec /\ \A c \in Callers : WF_wsVars(CallStep(c))

-----------------------------------------------------------------------------
(***************************************************************************)
(* An answered call has the answers to exactly its own requests: none of   *)
(* another thread's, and none that came late for an earlier call or an     *)
(* earlier attempt of this one (rpc.py, _recv_for_id).                     *)
(***************************************************************************)
AnswersMatch ==
    \A c \in Callers : pc[c] = "answered" =>
        /\ got[c] = ids[c]
        /\ \A i \in got[c] : asked[i] = <<c, call[c]>>

\* A client with one caller has at most one open socket, the one it uses:
\* reconnecting never leaves another one behind (rpc.py, _ensure_connected).
OneSocket == open \subseteq {ws}

\* The assertion of _do: there is a socket to send on.
SocketWhenSending == \A c \in Callers : pc[c] # "asserted"

\* With one caller every call ends, whatever the node leaves unanswered.
CallsEnd == \A c \in Callers : pc[c] = "ensure" ~> pc[c] \in Done

-----------------------------------------------------------------------------
\* The requests of an attempt belong to its caller's current call.
OwnRequests ==
    \A c \in Callers :
        pc[c] \in {"send", "recv", "wait", "answered"} =>
            /\ ids[c] \subseteq Ids
            /\ \A i \in ids[c] : asked[i] = <<c, call[c]>>

=============================================================================
