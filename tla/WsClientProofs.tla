--------------------------- MODULE WsClientProofs ---------------------------
\* Proof that answers are matched, for any number of threads on one client.
EXTENDS WsClient, SequenceTheorems, TLAPS

\* The parts of the type invariant the proof needs, that the requests of an
\* attempt belong to the current call, and that an answered call is complete.
CallInv ==
    /\ asked \in Seq(Callers \X Nat)
    /\ pc \in [Callers -> Steps]
    /\ call \in [Callers -> Nat]
    /\ ids \in [Callers -> SUBSET Nat]
    /\ got \in [Callers -> SUBSET Nat]
    /\ \A c \in Callers : pc[c] \notin Done => call[c] \in 1 .. MaxCalls
    /\ OwnRequests
    /\ \A c \in Callers : pc[c] = "answered" => got[c] = ids[c]

\* The initial state satisfies the invariant.
LEMMA CallBegins == WsInit => CallInv
BY DEF WsInit, CallInv, OwnRequests, Done, Steps, Ids

\* A step that moves one caller, inside its call or to a failure, and leaves
\* its requests alone.
LEMMA MoveKeeps ==
    ASSUME CallInv, NEW c \in Callers, NEW l \in Steps,
           Goto(c, l), UNCHANGED <<asked, call, ids, got>>,
           pc[c] \notin Done,
           l # "answered",
           l \in {"send", "recv", "wait"} => pc[c] \in {"send", "recv", "wait"}
    PROVE  CallInv'
<1>1. pc' \in [Callers -> Steps] /\ pc' = [pc EXCEPT ![c] = l]
  BY DEF CallInv, Goto
<1>2. OwnRequests'
  <2> SUFFICES ASSUME NEW d \in Callers,
                      pc'[d] \in {"send", "recv", "wait", "answered"}
               PROVE  ids'[d] \subseteq Ids' /\ \A i \in ids'[d] : asked'[i] = <<d, call'[d]>>
    BY DEF OwnRequests
  <2>1. pc[d] \in {"send", "recv", "wait", "answered"}
    BY <1>1 DEF CallInv
  <2> QED
    BY <2>1 DEF CallInv, OwnRequests, Ids
<1>3. \A d \in Callers : pc'[d] \notin Done => call'[d] \in 1 .. MaxCalls
  BY <1>1 DEF CallInv
<1>4. \A d \in Callers : pc'[d] = "answered" => got'[d] = ids'[d]
  BY <1>1 DEF CallInv
<1> QED
  BY <1>1, <1>2, <1>3, <1>4 DEF CallInv

\* A sequence to which the same element is appended n times.
LEMMA AppendedCopies ==
    ASSUME NEW S, NEW s \in Seq(S), NEW x \in S, NEW n \in Nat, NEW r,
           r = s \o [i \in 1 .. n |-> x]
    PROVE  /\ r \in Seq(S)
           /\ Len(r) = Len(s) + n
           /\ \A i \in 1 .. Len(s) : r[i] = s[i]
           /\ \A i \in Len(s) + 1 .. Len(s) + n : r[i] = x
<1> DEFINE t == [i \in 1 .. n |-> x]
<1>1. t \in Seq(S) /\ Len(t) = n /\ \A i \in 1 .. n : t[i] = x
  OBVIOUS
<1>2. Len(s) \in Nat
  OBVIOUS
<1> HIDE DEF t
<1>3. /\ s \o t \in Seq(S)
      /\ Len(s \o t) = Len(s) + n
      /\ \A i \in 1 .. Len(s) + n :
            (s \o t)[i] = IF i <= Len(s) THEN s[i] ELSE t[i - Len(s)]
  BY <1>1, ConcatProperties
<1>4. r = s \o t
  BY DEF t
<1>5. ASSUME NEW i \in Len(s) + 1 .. Len(s) + n PROVE r[i] = x
  <2>1. i \in 1 .. Len(s) + n /\ ~(i <= Len(s)) /\ i - Len(s) \in 1 .. n
    BY <1>2
  <2> QED
    BY <2>1, <1>1, <1>3, <1>4
<1>6. ASSUME NEW i \in 1 .. Len(s) PROVE r[i] = s[i]
  BY <1>2, <1>3, <1>4
<1> QED
  BY <1>3, <1>4, <1>5, <1>6

\* New requests get ids that nobody has.
LEMMA SubmitKeeps ==
    ASSUME CallInv, NEW c \in Callers, Submit(c), pc[c] \notin Done
    PROVE  CallInv'
<1> DEFINE w == Width[call[c]]
<1>1. w \in Nat /\ call[c] \in Nat
  BY WsConstants DEF CallInv
<1>2. asked \in Seq(Callers \X Nat)
  BY DEF CallInv
<1>3. /\ asked' \in Seq(Callers \X Nat)
      /\ Len(asked') = Len(asked) + w
      /\ \A i \in 1 .. Len(asked) : asked'[i] = asked[i]
      /\ \A i \in Len(asked) + 1 .. Len(asked) + w : asked'[i] = <<c, call[c]>>
  <2>1. asked' = asked \o [i \in 1 .. w |-> <<c, call[c]>>]
    BY DEF Submit
  <2>2. <<c, call[c]>> \in Callers \X Nat
    BY <1>1
  <2> HIDE DEF w
  <2> QED
    BY <1>1, <1>2, <2>1, <2>2, AppendedCopies
<1>4. /\ pc' = [pc EXCEPT ![c] = "send"] /\ pc' \in [Callers -> Steps]
      /\ call' = call
      /\ ids' = [ids EXCEPT ![c] = Len(asked) + 1 .. Len(asked) + w]
      /\ got' = [got EXCEPT ![c] = {}]
  BY DEF Submit, Goto, CallInv, Steps
<1>5. Len(asked) \in Nat
  BY <1>2
<1>6. ids' \in [Callers -> SUBSET Nat] /\ got' \in [Callers -> SUBSET Nat]
  BY <1>1, <1>4, <1>5 DEF CallInv
<1>7. OwnRequests'
  <2> SUFFICES ASSUME NEW d \in Callers,
                      pc'[d] \in {"send", "recv", "wait", "answered"}
               PROVE  ids'[d] \subseteq Ids' /\ \A i \in ids'[d] : asked'[i] = <<d, call'[d]>>
    BY DEF OwnRequests
  <2>1. CASE d = c
    <3>1. ids'[d] = Len(asked) + 1 .. Len(asked) + w
      BY <1>4, <2>1 DEF CallInv
    <3>2. ids'[d] \subseteq Ids'
      BY <3>1, <1>1, <1>3, <1>5 DEF Ids
    <3>3. ASSUME NEW i \in ids'[d] PROVE asked'[i] = <<d, call'[d]>>
      BY <3>1, <1>3, <1>4, <2>1
    <3> QED
      BY <3>2, <3>3
  <2>2. CASE d # c
    <3>1. pc[d] \in {"send", "recv", "wait", "answered"} /\ ids'[d] = ids[d]
      BY <1>4, <2>2 DEF CallInv
    <3>2. ids[d] \subseteq 1 .. Len(asked) /\ \A i \in ids[d] : asked[i] = <<d, call[d]>>
      BY <3>1 DEF CallInv, OwnRequests, Ids
    <3>3. ids'[d] \subseteq Ids'
      BY <3>1, <3>2, <1>1, <1>3, <1>5 DEF Ids
    <3> QED
      BY <3>1, <3>2, <3>3, <1>3, <1>4
  <2> QED
    BY <2>1, <2>2
<1>8. \A d \in Callers : pc'[d] \notin Done => call'[d] \in 1 .. MaxCalls
  BY <1>4 DEF CallInv
<1>9. \A d \in Callers : pc'[d] = "answered" => got'[d] = ids'[d]
  BY <1>4 DEF CallInv
<1> QED
  BY <1>3, <1>4, <1>6, <1>7, <1>8, <1>9 DEF CallInv

\* Reading keeps the answers to own requests and nothing else.
LEMMA ReadKeeps ==
    ASSUME CallInv, NEW c \in Callers, Read(c)
    PROVE  CallInv'
<1>1. /\ got' = [got EXCEPT ![c] = @ \cup ({Head(unread[on[c]])} \cap ids[c])]
      /\ pc' = [pc EXCEPT ![c] = IF got'[c] = ids[c] THEN "answered" ELSE "recv"]
      /\ UNCHANGED <<asked, call, ids>>
      /\ pc[c] = "wait"
  BY DEF Read, Goto
<1>2. pc' \in [Callers -> Steps] /\ got' \in [Callers -> SUBSET Nat]
  BY <1>1 DEF CallInv, Steps, Done
<1>3. OwnRequests'
  BY <1>1 DEF CallInv, OwnRequests, Ids
<1>4. \A d \in Callers : pc'[d] \notin Done => call'[d] \in 1 .. MaxCalls
  BY <1>1 DEF CallInv, Done
<1>5. \A d \in Callers : pc'[d] = "answered" => got'[d] = ids'[d]
  BY <1>1 DEF CallInv
<1> QED
  BY <1>1, <1>2, <1>3, <1>4, <1>5 DEF CallInv

\* A call begins before it has any request.
LEMMA CallKeeps ==
    ASSUME CallInv, NEW c \in Callers, Call(c)
    PROVE  CallInv'
<1>1. /\ call' = [call EXCEPT ![c] = @ + 1]
      /\ pc' = [pc EXCEPT ![c] = "ensure"]
      /\ UNCHANGED <<asked, ids, got>>
      /\ call[c] < MaxCalls
  BY DEF Call, Goto
<1>2. pc' \in [Callers -> Steps] /\ call' \in [Callers -> Nat]
  BY <1>1 DEF CallInv, Steps, Done
<1>3. OwnRequests'
  BY <1>1 DEF CallInv, OwnRequests, Ids
<1>4. \A d \in Callers : pc'[d] \notin Done => call'[d] \in 1 .. MaxCalls
  BY <1>1, WsConstants DEF CallInv
<1>5. \A d \in Callers : pc'[d] = "answered" => got'[d] = ids'[d]
  BY <1>1 DEF CallInv
<1> QED
  BY <1>1, <1>2, <1>3, <1>4, <1>5 DEF CallInv

\* A failure of an attempt moves the caller to the next one, or ends the call.
LEMMA FailureKeeps ==
    ASSUME CallInv, NEW c \in Callers, pc[c] \notin Done, UNCHANGED asked,
           Retry(c) \/ Refuse(c)
    PROVE  CallInv'
<1>1. PICK l \in {"ensure", "failed"} : Goto(c, l)
  BY DEF Retry, Refuse
<1>2. UNCHANGED <<call, ids, got>>
  BY DEF Retry, Refuse, frameVars
<1> QED
  BY <1>1, <1>2, MoveKeeps DEF Steps, Done

\* Every step of a call keeps the invariant.
LEMMA CallStepKeeps ==
    ASSUME CallInv, NEW c \in Callers, CallStep(c)
    PROVE  CallInv'
<1> USE DEF Done, Steps, frameVars, socketVars
<1>1. CASE EnsureConnected(c)
  BY <1>1, MoveKeeps DEF EnsureConnected
<1>2. CASE CheckState(c)
  <2>1. pc[c] \notin Done
    BY <1>2 DEF CheckState
  <2> QED
    BY <1>2, <2>1, MoveKeeps, SubmitKeeps, FailureKeeps DEF CheckState
<1>3. CASE Reset(c)
  BY <1>3, MoveKeeps DEF Reset
<1>4. CASE Connect(c)
  BY <1>4, MoveKeeps, SubmitKeeps DEF Connect
<1>5. CASE Open(c)
  BY <1>5, SubmitKeeps DEF Open
<1>6. CASE OpenFails(c)
  BY <1>6, SubmitKeeps, FailureKeeps DEF OpenFails
<1>7. CASE Send(c)
  <2>1. pc[c] = "send" /\ UNCHANGED asked
    BY <1>7 DEF Send
  <2>2. CASE Retry(c) \/ Refuse(c)
    BY <2>1, <2>2, FailureKeeps
  <2>3. CASE Goto(c, "asserted") /\ UNCHANGED frameVars
    BY <2>1, <2>3, MoveKeeps
  <2>4. CASE Goto(c, "recv") /\ UNCHANGED frameVars
    BY <2>1, <2>4, MoveKeeps
  <2> QED
    BY <1>7, <2>2, <2>3, <2>4 DEF Send, ConnectionClosed
<1>8. CASE Recv(c)
  <2>1. pc[c] = "recv" /\ UNCHANGED asked
    BY <1>8 DEF Recv
  <2>2. CASE Refuse(c)
    BY <2>1, <2>2, FailureKeeps
  <2>3. CASE Goto(c, "wait") /\ UNCHANGED <<call, attempt, ids, got>>
    BY <2>1, <2>3, MoveKeeps
  <2> QED
    BY <1>8, <2>2, <2>3 DEF Recv
<1>9. CASE Read(c)
  BY <1>9, ReadKeeps
<1>10. CASE Timeout(c)
  BY <1>10, FailureKeeps DEF Timeout
<1>11. CASE ReadClosed(c)
  BY <1>11, FailureKeeps DEF ReadClosed, ConnectionClosed
<1> QED
  BY <1>1, <1>2, <1>3, <1>4, <1>5, <1>6, <1>7, <1>8, <1>9, <1>10, <1>11
     DEF CallStep

\* Every step keeps the invariant.
LEMMA WsKeeps == CallInv /\ [WsNext]_wsVars => CallInv'
<1> SUFFICES ASSUME CallInv, [WsNext]_wsVars PROVE CallInv'
  OBVIOUS
<1>1. ASSUME UNCHANGED <<asked, pc, frameVars>> PROVE CallInv'
  BY <1>1 DEF CallInv, OwnRequests, Ids, frameVars
<1>2. ASSUME NEW c \in Callers, Call(c) PROVE CallInv'
  BY <1>2, CallKeeps
<1>3. ASSUME NEW c \in Callers, CallStep(c) PROVE CallInv'
  BY <1>3, CallStepKeeps
<1> QED
  BY <1>1, <1>2, <1>3 DEF WsNext, Answer, Disconnect, wsVars

-----------------------------------------------------------------------------
(***************************************************************************)
(* However many threads share a client, and whatever connections break and *)
(* answers come late, an answered call has the answers to exactly its own  *)
(* requests (rpc.py, _recv_for_id and the loop of make_batch_request).     *)
(***************************************************************************)
THEOREM AnswersAreMatched == WsSpec => []AnswersMatch
<1>1. WsInit => CallInv
  BY CallBegins
<1>2. CallInv /\ [WsNext]_wsVars => CallInv'
  BY WsKeeps
<1>3. CallInv => AnswersMatch
  BY DEF CallInv, OwnRequests, AnswersMatch
<1> QED
  BY <1>1, <1>2, <1>3, PTL DEF WsSpec


-----------------------------------------------------------------------------
(* The sockets, and the types of the variables CallInv does not speak of.  *)

SocketInv ==
    /\ unread \in Seq(Seq(Nat))
    /\ ws \in Sockets \cup {NoSocket}
    /\ open \subseteq Sockets
    /\ pending \subseteq Sockets \X Ids
    /\ attempt \in [Callers -> 1 .. MaxAttempts]
    /\ on \in [Callers -> Nat]
    /\ \A c \in Callers : pc[c] = "wait" => on[c] \in Sockets

\* The initial state satisfies the invariant.
LEMMA SocketsBegin == WsInit => SocketInv
<1> SUFFICES ASSUME WsInit PROVE SocketInv
  OBVIOUS
<1>1. <<>> \in Seq(Nat) /\ unread = <<(<<>>)>>
  BY DEF WsInit
<1>2. unread \in Seq(Seq(Nat)) /\ Len(unread) = 1
  BY <1>1
<1> QED BY <1>2, WsConstants DEF WsInit, SocketInv, Sockets, Ids, NoSocket

\* Requests are added, never taken away.
LEMMA SubmitGrows ==
    ASSUME CallInv, NEW c \in Callers, Submit(c), pc[c] \notin Done
    PROVE  /\ Ids \subseteq Ids' /\ UNCHANGED <<attempt, on>>
           /\ \A d \in Callers : pc'[d] = "wait" => pc[d] = "wait"
<1> DEFINE w == Width[call[c]]
<1>1. w \in Nat /\ call[c] \in Nat /\ asked \in Seq(Callers \X Nat)
  BY WsConstants DEF CallInv
<1>2. asked' = asked \o [i \in 1 .. w |-> <<c, call[c]>>]
  BY DEF Submit
<1>3. <<c, call[c]>> \in Callers \X Nat
  BY <1>1
<1> HIDE DEF w
<1>4. Len(asked') = Len(asked) + w /\ Len(asked) \in Nat
  BY <1>1, <1>2, <1>3, AppendedCopies
<1>5. pc' = [pc EXCEPT ![c] = "send"] /\ pc \in [Callers -> Steps]
  BY DEF Submit, Goto, CallInv
<1>6. \A d \in Callers : pc'[d] = "wait" => pc[d] = "wait"
  BY <1>5
<1>7. Ids \subseteq Ids'
  BY <1>1, <1>4 DEF Ids
<1> QED BY <1>6, <1>7 DEF Submit

\* A failed attempt counts, and waits no more.
LEMMA FailureStops ==
    ASSUME CallInv, SocketInv, NEW c \in Callers, Retry(c) \/ Refuse(c)
    PROVE  /\ attempt' \in [Callers -> 1 .. MaxAttempts] /\ on' = on
           /\ \A d \in Callers : pc'[d] = "wait" => pc[d] = "wait"
<1>1. PICK l \in {"ensure", "failed"} : pc' = [pc EXCEPT ![c] = l]
  BY DEF Retry, Refuse, Goto
<1>2. on' = on /\ attempt' \in [Callers -> 1 .. MaxAttempts]
  BY WsConstants DEF Retry, Refuse, SocketInv, frameVars
<1> QED BY <1>1, <1>2 DEF CallInv

\* A step of one caller that leaves the sockets alone.
LEMMA CallerKeepsSockets ==
    ASSUME SocketInv, UNCHANGED socketVars, Ids \subseteq Ids',
           attempt' \in [Callers -> 1 .. MaxAttempts],
           on' \in [Callers -> Nat],
           \A d \in Callers : pc'[d] = "wait" => on'[d] \in Sockets
    PROVE  SocketInv'
BY DEF SocketInv, socketVars, Sockets

\* Every step of a call keeps the invariant.
LEMMA CallStepKeepsSockets ==
    ASSUME CallInv, SocketInv, NEW c \in Callers, CallStep(c)
    PROVE  SocketInv'
<1> USE DEF Done, frameVars
<1>1. /\ pc \in [Callers -> Steps]
      /\ attempt \in [Callers -> 1 .. MaxAttempts] /\ on \in [Callers -> Nat]
      /\ \A d \in Callers : pc[d] = "wait" => on[d] \in Sockets
      /\ unread \in Seq(Seq(Nat)) /\ Len(unread) \in Nat
  BY DEF CallInv, SocketInv
<1>2. ASSUME UNCHANGED socketVars, asked' = asked, Retry(c) \/ Refuse(c)
      PROVE  SocketInv'
  BY <1>1, <1>2, FailureStops, CallerKeepsSockets DEF Ids
<1>3. ASSUME UNCHANGED socketVars, Submit(c), pc[c] \notin Done
      PROVE  SocketInv'
  BY <1>1, <1>3, SubmitGrows, CallerKeepsSockets
<1>4. ASSUME UNCHANGED <<socketVars, asked, frameVars>>,
             NEW l \in {"reset", "state", "connect", "open", "asserted"},
             Goto(c, l)
      PROVE  SocketInv'
  <2>1. \A d \in Callers : pc'[d] = "wait" => on'[d] \in Sockets
    BY <1>1, <1>4 DEF Goto
  <2>2. attempt' = attempt /\ on' = on /\ Ids' = Ids
    BY <1>4 DEF Ids
  <2> QED BY <1>1, <1>4, <2>1, <2>2, CallerKeepsSockets
<1>5. CASE EnsureConnected(c)
  BY <1>5, <1>4 DEF EnsureConnected
<1>6. CASE CheckState(c)
  BY <1>6, <1>2, <1>3, <1>4 DEF CheckState
<1>7. CASE Reset(c)
  BY <1>1, <1>7 DEF Reset, Goto, SocketInv, Sockets, Ids
<1>8. CASE Connect(c)
  BY <1>8, <1>3, <1>4 DEF Connect
<1>9. CASE Open(c)
  <2>1. /\ unread' = Append(unread, <<>>) /\ ws' = Len(unread')
        /\ open' = open \cup {ws'} /\ pending' = pending
        /\ Submit(c) /\ pc[c] = "open"
    BY <1>9 DEF Open
  <2>2. <<>> \in Seq(Nat)
    OBVIOUS
  <2>3. unread' \in Seq(Seq(Nat)) /\ Len(unread') = Len(unread) + 1
    BY <1>1, <2>1, <2>2
  <2>4. Sockets \subseteq Sockets' /\ Len(unread') \in Sockets'
    BY <1>1, <2>3 DEF Sockets
  <2>5. Ids \subseteq Ids' /\ UNCHANGED <<attempt, on>>
        /\ \A d \in Callers : pc'[d] = "wait" => pc[d] = "wait"
    BY <2>1, SubmitGrows
  <2> QED BY <1>1, <2>1, <2>3, <2>4, <2>5 DEF SocketInv
<1>10. CASE OpenFails(c)
  BY <1>10, <1>2, <1>3 DEF OpenFails
<1>11. CASE Send(c)
  <2>1. UNCHANGED <<ws, open, unread, asked>> /\ pc[c] = "send"
    BY <1>11 DEF Send
  <2>2. CASE Goto(c, "asserted") /\ UNCHANGED <<pending, frameVars>>
    BY <2>1, <2>2, <1>4 DEF socketVars
  <2>3. CASE ConnectionClosed(c) /\ UNCHANGED pending
    BY <2>1, <2>3, <1>2 DEF socketVars, ConnectionClosed
  <2>4. CASE /\ ws \in open /\ pending' = pending \cup ({ws} \X ids[c])
             /\ Goto(c, "recv") /\ UNCHANGED frameVars
    <3>1. ids[c] \subseteq Ids /\ ws \in Sockets
      BY <2>1, <2>4 DEF CallInv, OwnRequests, SocketInv
    <3>2. pending' \subseteq Sockets \X Ids
      BY <2>4, <3>1 DEF SocketInv
    <3>3. \A d \in Callers : pc'[d] = "wait" => pc[d] = "wait"
      BY <1>1, <2>4 DEF Goto
    <3>4. UNCHANGED <<attempt, on>> /\ Sockets' = Sockets /\ Ids' = Ids
      BY <2>1, <2>4 DEF Sockets, Ids
    <3> QED BY <1>1, <2>1, <3>2, <3>3, <3>4 DEF SocketInv
  <2> QED BY <1>11, <2>2, <2>3, <2>4 DEF Send
<1>12. CASE Recv(c)
  <2>1. UNCHANGED <<socketVars, asked>>
    BY <1>12 DEF Recv
  <2>2. CASE Refuse(c)
    BY <1>2, <2>1, <2>2
  <2>3. CASE /\ ws # NoSocket
             /\ on' = [on EXCEPT ![c] = ws]
             /\ Goto(c, "wait")
             /\ UNCHANGED <<call, attempt, ids, got>>
    <3>1. ws \in Sockets /\ Sockets \subseteq Nat
      BY <1>1, <2>3 DEF SocketInv, Sockets
    <3>2. on' \in [Callers -> Nat]
      BY <1>1, <2>3, <3>1
    <3>3. \A d \in Callers : pc'[d] = "wait" => on'[d] \in Sockets
      BY <1>1, <2>3, <3>1 DEF Goto
    <3> QED BY <1>1, <2>1, <2>3, <3>2, <3>3, CallerKeepsSockets DEF Ids
  <2> QED BY <1>12, <2>2, <2>3 DEF Recv
<1>13. CASE Read(c)
  <2>1. /\ pc[c] = "wait" /\ unread[on[c]] # <<>>
        /\ unread' = [unread EXCEPT ![on[c]] = Tail(@)]
        /\ UNCHANGED <<ws, open, pending, asked, call, attempt, ids, on>>
    BY <1>13 DEF Read
  <2>2. on[c] \in 1 .. Len(unread)
    BY <1>1, <2>1 DEF Sockets
  <2>3. Tail(unread[on[c]]) \in Seq(Nat)
    BY <1>1, <2>1, <2>2
  <2>4. unread' \in Seq(Seq(Nat)) /\ Len(unread') = Len(unread)
    BY <1>1, <2>1, <2>2, <2>3
  <2>5. pc' = [pc EXCEPT ![c] = IF got'[c] = ids[c] THEN "answered" ELSE "recv"]
    BY <1>13 DEF Read, Goto
  <2>6. \A d \in Callers : pc'[d] = "wait" => pc[d] = "wait"
    BY <1>1, <2>5
  <2> QED BY <1>1, <2>1, <2>4, <2>6 DEF SocketInv, Sockets, Ids
<1>14. CASE Timeout(c) \/ ReadClosed(c)
  BY <1>14, <1>2 DEF Timeout, ReadClosed, ConnectionClosed
<1> QED BY <1>5, <1>6, <1>7, <1>8, <1>9, <1>10, <1>11, <1>12, <1>13, <1>14
        DEF CallStep

\* A call begins.
LEMMA CallKeepsSockets ==
    ASSUME CallInv, SocketInv, NEW c \in Callers, Call(c)
    PROVE  SocketInv'
<1>1. /\ attempt' = [attempt EXCEPT ![c] = 1]
      /\ pc' = [pc EXCEPT ![c] = "ensure"]
      /\ UNCHANGED <<socketVars, asked, ids, got, on>>
  BY DEF Call, Goto
<1>2. attempt' \in [Callers -> 1 .. MaxAttempts]
  BY <1>1, WsConstants DEF SocketInv
<1>3. \A d \in Callers : pc'[d] = "wait" => pc[d] = "wait"
  BY <1>1 DEF CallInv
<1> QED BY <1>1, <1>2, <1>3, CallerKeepsSockets DEF Ids, SocketInv

\* The node answers a request, once.
LEMMA AnswerKeepsSockets ==
    ASSUME SocketInv, Answer
    PROVE  SocketInv'
<1>1. PICK m \in pending :
        /\ pending' = pending \ {m}
        /\ unread' = [unread EXCEPT ![m[1]] = Append(@, m[2])]
  BY DEF Answer
<1>2. UNCHANGED <<ws, open, asked, pc, attempt, on>>
  BY DEF Answer, frameVars
<1>3. /\ m[1] \in 1 .. Len(unread) /\ m[2] \in Nat
      /\ unread \in Seq(Seq(Nat))
  BY DEF SocketInv, Sockets, Ids
<1>4. Append(unread[m[1]], m[2]) \in Seq(Nat)
  BY <1>3
<1>5. unread' \in Seq(Seq(Nat)) /\ Len(unread') = Len(unread)
  BY <1>1, <1>3, <1>4
<1> QED BY <1>1, <1>2, <1>5 DEF SocketInv, Sockets, Ids

\* Every step keeps the invariant.
LEMMA WsKeepsSockets ==
    CallInv /\ SocketInv /\ [WsNext]_wsVars => SocketInv'
<1> SUFFICES ASSUME CallInv, SocketInv, [WsNext]_wsVars PROVE SocketInv'
  OBVIOUS
<1>1. CASE Disconnect
  BY <1>1 DEF Disconnect, SocketInv, Sockets, Ids, frameVars
<1>2. CASE UNCHANGED wsVars
  BY <1>2 DEF SocketInv, Sockets, Ids, wsVars, socketVars, frameVars
<1> QED BY <1>1, <1>2, AnswerKeepsSockets, CallKeepsSockets,
           CallStepKeepsSockets DEF WsNext

\* Every variable keeps its type, for any number of callers: no answer is
\* for a request that was not made, no caller reads a socket that was not
\* opened, no call makes more than MaxAttempts attempts.
THEOREM WsTypes == WsSpec => []WsTypeOK
<1>1. CallInv /\ SocketInv => WsTypeOK
  BY DEF CallInv, SocketInv, WsTypeOK
<1> QED BY <1>1, CallBegins, WsKeeps, SocketsBegin, WsKeepsSockets, PTL
        DEF WsSpec

-----------------------------------------------------------------------------
(* A client with one caller, as in the indexer and in a backfill's chunk.  *)

OneCaller == \A c, d \in Callers : c = d

\* The caller gives a socket up only after it has seen it closed.
OneSocketInv ==
    /\ OneSocket
    /\ \A c \in Callers :
          /\ pc[c] \in {"reset", "connect", "open"} => open = {}
          /\ pc[c] \in {"connect", "open"} => ws = NoSocket

\* The steps of the caller keep it.
LEMMA OneSocketKept ==
    ASSUME OneCaller, CallInv, SocketInv, OneSocketInv, [WsNext]_wsVars
    PROVE  OneSocketInv'
<1>1. /\ pc \in [Callers -> Steps] /\ open \subseteq {ws}
      /\ \A c \in Callers :
            /\ pc[c] \in {"reset", "connect", "open"} => open = {}
            /\ pc[c] \in {"connect", "open"} => ws = NoSocket
      /\ ws \in Sockets \cup {NoSocket} /\ open \subseteq Sockets
      /\ NoSocket \notin Sockets
  BY DEF CallInv, SocketInv, OneSocketInv, OneSocket, NoSocket, Sockets
<1>2. ASSUME NEW c \in Callers, NEW l, Goto(c, l), UNCHANGED ws, open' \subseteq open,
             l \in {"reset", "connect", "open"} => open' = {},
             l \in {"connect", "open"} => ws = NoSocket
      PROVE  OneSocketInv'
  <2>1. \A d \in Callers : pc'[d] = l
    BY <1>1, <1>2 DEF OneCaller, Goto
  <2> QED BY <1>1, <1>2, <2>1 DEF OneSocketInv, OneSocket
<1>3. CASE Answer \/ Disconnect \/ UNCHANGED wsVars
  <2>1. UNCHANGED <<ws, pc>> /\ open' \subseteq open
    BY <1>3 DEF Answer, Disconnect, wsVars, socketVars
  <2> QED BY <1>1, <2>1 DEF OneSocketInv, OneSocket
<1>4. ASSUME NEW c \in Callers, Call(c) PROVE OneSocketInv'
  BY <1>2, <1>4 DEF Call, socketVars
<1>5. ASSUME NEW c \in Callers, CallStep(c) PROVE OneSocketInv'
  <2>1. ASSUME UNCHANGED <<ws, open>>, Retry(c) \/ Refuse(c)
        PROVE  OneSocketInv'
    BY <1>2, <2>1 DEF Retry, Refuse
  <2>2. ASSUME UNCHANGED <<ws, open>>, Submit(c) PROVE OneSocketInv'
    BY <1>2, <2>2 DEF Submit
  <2>3. CASE EnsureConnected(c)
    <3>1. PICK l \in {"reset", "state"} : Goto(c, l) /\ (l = "reset" => ws = NoSocket)
      BY <2>3 DEF EnsureConnected
    <3> QED BY <1>1, <1>2, <2>3, <3>1 DEF EnsureConnected, socketVars
  <2>4. CASE CheckState(c)
    <3>1. UNCHANGED <<ws, open>>
      BY <2>4 DEF CheckState, socketVars
    <3>2. CASE ws \in Sockets \ open /\ Goto(c, "reset")
      BY <1>1, <1>2, <3>1, <3>2
    <3> QED BY <2>1, <2>2, <2>4, <3>1, <3>2 DEF CheckState
  <2>5. CASE Reset(c)
    <3>1. /\ ws' = NoSocket /\ open' = open /\ open = {}
          /\ pc' = [pc EXCEPT ![c] = "connect"]
      BY <1>1, <2>5 DEF Reset, Goto
    <3> QED BY <1>1, <3>1 DEF OneSocketInv, OneSocket
  <2>6. CASE Connect(c)
    <3>1. UNCHANGED <<ws, open>> /\ pc[c] = "connect"
      BY <2>6 DEF Connect, socketVars
    <3>2. CASE Goto(c, "open")
      BY <1>1, <1>2, <3>1, <3>2
    <3> QED BY <2>2, <2>6, <3>1, <3>2 DEF Connect
  <2>7. CASE Open(c)
    <3>1. /\ open' = open \cup {ws'} /\ open = {}
          /\ pc' = [pc EXCEPT ![c] = "send"]
      BY <1>1, <2>7 DEF Open, Submit, Goto
    <3>2. \A d \in Callers : pc'[d] = "send"
      BY <1>1, <1>5, <3>1 DEF OneCaller
    <3> QED BY <3>1, <3>2 DEF OneSocketInv, OneSocket
  <2>8. CASE OpenFails(c)
    BY <2>1, <2>2, <2>8 DEF OpenFails, socketVars
  <2>9. CASE Send(c)
    <3>1. UNCHANGED <<ws, open>>
      BY <2>9 DEF Send
    <3>2. CASE Goto(c, "asserted") \/ Goto(c, "recv")
      BY <1>2, <3>1, <3>2
    <3> QED BY <2>1, <2>9, <3>1, <3>2 DEF Send, ConnectionClosed
  <2>10. CASE Recv(c)
    <3>1. UNCHANGED <<ws, open>>
      BY <2>10 DEF Recv, socketVars
    <3>2. CASE Goto(c, "wait")
      BY <1>2, <3>1, <3>2
    <3> QED BY <2>1, <2>10, <3>1, <3>2 DEF Recv
  <2>11. CASE Read(c)
    <3>1. UNCHANGED <<ws, open>> /\ \E l \in {"answered", "recv"} : Goto(c, l)
      BY <2>11 DEF Read
    <3> QED BY <1>2, <3>1
  <2>12. CASE Timeout(c) \/ ReadClosed(c)
    BY <2>1, <2>12 DEF Timeout, ReadClosed, ConnectionClosed, socketVars
  <2> QED BY <1>5, <2>3, <2>4, <2>5, <2>6, <2>7, <2>8, <2>9, <2>10, <2>11, <2>12
          DEF CallStep
<1> QED BY <1>3, <1>4, <1>5 DEF WsNext

(***************************************************************************)
(* A client with one caller never has a socket open that it does not use:  *)
(* neither a timeout nor a reconnect leaves one behind (rpc.py,            *)
(* _ensure_connected).  Threads that share a client can.                   *)
(***************************************************************************)
THEOREM OneSocketOnly ==
    ASSUME OneCaller
    PROVE  WsSpec => []OneSocket
<1>1. WsInit => OneSocketInv
  BY DEF WsInit, OneSocketInv, OneSocket
<1>2. CallInv /\ SocketInv /\ OneSocketInv /\ [WsNext]_wsVars => OneSocketInv'
  BY OneSocketKept
<1>3. OneSocketInv => OneSocket
  BY DEF OneSocketInv
<1> QED BY <1>1, <1>2, <1>3, CallBegins, WsKeeps, SocketsBegin, WsKeepsSockets,
           PTL DEF WsSpec
=============================================================================
