--------------------- MODULE ServiceClientBridge_proofs ---------------------
EXTENDS ServiceClientBridge, TLAPS

\* A call of the poll thread that is not being watched yet.
Calling == pollPc \in {"register", "watch"}

ReplyKinds == {"ok", "error", "canceled", "failed"}

TypeInv ==
    /\ contexts \in [Tokens -> Requests \cup {NoRequest}]
    /\ registered \subseteq Requests /\ terminal \subseteq registered
    /\ watched \subseteq registered /\ due \subseteq registered
    /\ pollPc \in {"poll", "register", "watch", "cancel"}
    /\ Calling => pollRequest \in Requests
    /\ closePc \in {"running", "stopping", "joined", "cleared", "closed"}
    /\ request \in [Requests -> {"none", "sent", "polled"}]
    /\ cancel \in [Requests -> {"none", "sent", "polled"}]
    /\ replies \in [Requests -> Seq(ReplyKinds)]
    /\ faults \in Nat

\* The client has been answered and has no cancel request under way.
Settled(q) == replies[q] # <<>> /\ cancel[q] # "sent"

\* Of the requests that were made with one token, one at most is not settled.
TokenReused ==
    \A p, q \in Requests :
        p # q /\ TokenOf[p] = TokenOf[q] /\ request[p] # "none" /\ request[q] # "none"
        => Settled(p) \/ Settled(q)

\* What has been polled is what is answered, and what a context is stored for.
\* Only what was asked for is canceled.
PolledFirst ==
    \A q \in Requests :
        /\ replies[q] # <<>> \/ q \in registered => request[q] = "polled"
        /\ cancel[q] # "none" => request[q] # "none"

\* The dictionary holds the contexts of active calls, each under its own token.
TableHoldsCalls ==
    \A t \in Tokens :
        contexts[t] # NoRequest => contexts[t] \in registered \ terminal /\ TokenOf[contexts[t]] = t

\* The call the poll thread is making: nobody has answered it, and until it is
\* registered its token is free.
CallUnanswered ==
    Calling =>
        /\ request[pollRequest] = "polled" /\ replies[pollRequest] = <<>>
        /\ pollRequest \notin watched
        /\ pollPc = "register" => pollRequest \notin registered /\ ~Active(pollRequest)
        /\ pollPc = "watch" => pollRequest \in registered

\* A normal reply, or any reply while nothing has been raised, is the last one.
Final(q) ==
    \/ \E i \in 1 .. Len(replies[q]) : replies[q][i] \in {"ok", "canceled"}
    \/ faults = 0 /\ replies[q] # <<>>

\* No step replies to the request any more.
Over(q) ==
    /\ request[q] = "polled" /\ Context(q) # q
    /\ cancel[q] = "sent" => ~Active(q)

FinalIsOver == \A q \in Requests : Final(q) => Over(q)

\* The shutdown after a join that did not time out.
ClosedQuietly ==
    faults = 0 =>
        /\ closePc \in {"joined", "cleared", "closed"} => pollPc = "poll"
        /\ closePc \in {"cleared", "closed"} => \A t \in Tokens : contexts[t] = NoRequest

CallInv ==
    /\ TokenReused /\ PolledFirst /\ TableHoldsCalls /\ CallUnanswered /\ FinalIsOver
    /\ ClosedQuietly
    /\ TokenLeadsToCall /\ OneReply

-----------------------------------------------------------------------------
\* A reply keeps the type of the replies, and closing contexts that of the table.
LEMMA ReplyTyped ==
    ASSUME replies \in [Requests -> Seq(ReplyKinds)], NEW q \in Requests,
           NEW kind \in ReplyKinds, Reply(q, kind)
    PROVE  replies' \in [Requests -> Seq(ReplyKinds)]
  <1>1. Append(replies[q], kind) \in Seq(ReplyKinds)
    OBVIOUS
  <1> QED
    BY <1>1, Zenon DEF Reply

\* Removing requests from the table keeps its type.
LEMMA CloseTyped ==
    ASSUME contexts \in [Tokens -> Requests \cup {NoRequest}], terminal \subseteq registered,
           NEW qs \in SUBSET registered, Close(qs)
    PROVE  /\ contexts' \in [Tokens -> Requests \cup {NoRequest}]
           /\ terminal' \subseteq registered
  BY DEF Close, Pop

\* Every step keeps the types.
LEMMA TypeStep ==
    ASSUME TypeInv, CallUnanswered, TableHoldsCalls, [Next]_vars
    PROVE  TypeInv'
  <1> USE ServiceClientAssumption
      DEF TypeInv, Calling, ReplyKinds, tableVars, futureVars, pollVars, closeVars, clientVars
  <1>1. ASSUME NEW q \in Requests, Environment(q) PROVE TypeInv'
    BY <1>1 DEF Environment, HakRequests, HakCancels, RosResponds, Due
  <1>2. ASSUME NEW q \in Requests, OnRosResponse(q) PROVE TypeInv'
    <2>1. CASE Live(q)
      <3>1. replies' \in [Requests -> Seq(ReplyKinds)]
        BY <1>2, <2>1, ReplyTyped DEF OnRosResponse
      <3>2. contexts' \in [Tokens -> Requests \cup {NoRequest}] /\ terminal' \subseteq registered
        BY <1>2, <2>1, CloseTyped DEF OnRosResponse
      <3> QED
        BY <1>2, <3>1, <3>2 DEF OnRosResponse
    <2>2. CASE ~Live(q)
      BY <1>2, <2>2 DEF OnRosResponse
    <2> QED
      BY <2>1, <2>2
  <1>3. ASSUME NEW q \in Requests, DecodeFails(q) \/ DropDuplicate(q) \/ RefuseRequest(q) PROVE TypeInv'
    <2>1. Reply(q, "error") \/ UNCHANGED replies
      BY <1>3 DEF DecodeFails, DropDuplicate, RefuseRequest
    <2>2. replies' \in [Requests -> Seq(ReplyKinds)]
      BY <2>1, ReplyTyped
    <2> QED
      BY <1>3, <2>2 DEF DecodeFails, DropDuplicate, RefuseRequest, Poll
  <1>4. ASSUME NEW q \in Requests, Call(q) PROVE TypeInv'
    BY <1>4 DEF Call, Poll
  <1>5. ASSUME NEW q \in Requests, DropCancel(q) PROVE TypeInv'
    BY <1>5 DEF DropCancel, PollCancel
  <1>6. ASSUME NEW q \in Requests, CancelCall(q) PROVE TypeInv'
    BY <1>6 DEF CancelCall, PollCancel, Reply, Close, Pop, Active, Context, TableHoldsCalls
  <1>7. ASSUME NEW q \in Requests, CancelFails(q) PROVE TypeInv'
    BY <1>7 DEF CancelFails, PollCancel, Reply, Fault
  <1>8. ASSUME Register PROVE TypeInv'
    BY <1>8 DEF Register
  <1>9. ASSUME Watch PROVE TypeInv'
    BY <1>9 DEF Watch, CallUnanswered
  <1>10. ASSUME WatchFails PROVE TypeInv'
    BY <1>10 DEF WatchFails, Reply, Fault
  <1>11. ASSUME CancelFutures PROVE TypeInv'
    BY <1>11 DEF CancelFutures
  <1>12. ASSUME Expire PROVE TypeInv'
    <2> DEFINE expired == {q \in due \ terminal : Context(q) = q}
    <2>1. \A q \in Requests : Append(replies[q], "error") \in Seq(ReplyKinds)
      OBVIOUS
    <2>2. replies' \in [Requests -> Seq(ReplyKinds)]
      BY <1>12, <2>1 DEF Expire
    <2>3. expired \subseteq registered
      BY DEF Context, TableHoldsCalls
    <2>4. contexts' \in [Tokens -> Requests \cup {NoRequest}] /\ terminal' \subseteq registered
      BY <1>12, <2>3, CloseTyped DEF Expire
    <2> QED
      BY <1>12, <2>2, <2>4 DEF Expire
  <1>13. ASSUME CloseStop \/ Destroying PROVE TypeInv'
    BY <1>13 DEF CloseStop, Destroying, CloseJoin, CloseClear, Clear, CloseEndpoints, Fault,
                 Context, TableHoldsCalls
  <1>14. CASE UNCHANGED vars
    BY <1>14 DEF vars
  <1> QED
    BY <1>1, <1>2, <1>3, <1>4, <1>5, <1>6, <1>7, <1>8, <1>9, <1>10, <1>11, <1>12, <1>13, <1>14
       DEF Next, PollThread

-----------------------------------------------------------------------------
\* Tokens are reused only by clients that have been answered.
LEMMA ReusedStep ==
    ASSUME TypeInv, TokenReused, CallUnanswered, TableHoldsCalls, [Next]_vars
    PROVE  TokenReused'
  <1>1. ASSUME \A q \in Requests : replies[q] # <<>> => replies'[q] # <<>>,
               \A q \in Requests : request[q] = "none" => request'[q] = "none",
               \A q \in Requests : cancel'[q] = "sent" => cancel[q] = "sent"
        PROVE  TokenReused'
    BY <1>1 DEF TokenReused, Settled
  <1> USE DEF TypeInv, tableVars, futureVars, pollVars, closeVars, clientVars
  <1>2. ASSUME NEW q \in Requests, NEW kind \in ReplyKinds, Reply(q, kind)
        PROVE  \A p \in Requests : replies[p] # <<>> => replies'[p] # <<>>
    <2>1. Append(replies[q], kind) # <<>>
      OBVIOUS
    <2> QED
      BY <1>2, <2>1 DEF Reply
  <1>3. ASSUME NEW q \in Requests, HakRequests(q) PROVE TokenReused'
    BY <1>3 DEF HakRequests, TokenReused, Settled
  <1>4. ASSUME NEW q \in Requests, HakCancels(q) PROVE TokenReused'
    BY <1>4 DEF HakCancels, TokenReused, Settled
  <1>5. ASSUME NEW q \in Requests, RosResponds(q) \/ Due(q) PROVE TokenReused'
    BY <1>1, <1>5 DEF RosResponds, Due
  <1>6. ASSUME NEW q \in Requests, OnRosResponse(q) PROVE TokenReused'
    <2>1. Reply(q, "ok") \/ Reply(q, "error") \/ UNCHANGED replies
      BY <1>6 DEF OnRosResponse
    <2>2. \A p \in Requests : replies[p] # <<>> => replies'[p] # <<>>
      BY <1>2, <2>1 DEF ReplyKinds
    <2> QED
      BY <1>1, <1>6, <2>2 DEF OnRosResponse
  <1>7. ASSUME NEW q \in Requests,
               DecodeFails(q) \/ DropDuplicate(q) \/ RefuseRequest(q) \/ Call(q)
        PROVE  TokenReused'
    <2>1. Reply(q, "error") \/ UNCHANGED replies
      BY <1>7 DEF DecodeFails, DropDuplicate, RefuseRequest, Call
    <2>2. \A p \in Requests : replies[p] # <<>> => replies'[p] # <<>>
      BY <1>2, <2>1 DEF ReplyKinds
    <2> QED
      BY <1>1, <1>7, <2>2 DEF DecodeFails, DropDuplicate, RefuseRequest, Call, Poll
  <1>8. ASSUME NEW q \in Requests, DropCancel(q) \/ CancelCall(q) \/ CancelFails(q)
        PROVE  TokenReused'
    <2>1. Reply(q, "canceled") \/ Reply(q, "failed") \/ UNCHANGED replies
      BY <1>8 DEF DropCancel, CancelCall, CancelFails
    <2>2. \A p \in Requests : replies[p] # <<>> => replies'[p] # <<>>
      BY <1>2, <2>1 DEF ReplyKinds
    <2> QED
      BY <1>1, <1>8, <2>2 DEF DropCancel, CancelCall, CancelFails, PollCancel
  <1>9. ASSUME WatchFails PROVE TokenReused'
    <2>1. pollRequest \in Requests /\ Reply(pollRequest, "error")
      BY <1>9 DEF WatchFails, Calling
    <2>2. \A p \in Requests : replies[p] # <<>> => replies'[p] # <<>>
      BY <1>2, <2>1 DEF ReplyKinds
    <2> QED
      BY <1>1, <1>9, <2>2 DEF WatchFails
  <1>10. ASSUME Expire PROVE TokenReused'
    <2>1. \A p \in Requests : Append(replies[p], "error") # <<>>
      OBVIOUS
    <2>2. \A p \in Requests : replies[p] # <<>> => replies'[p] # <<>>
      BY <1>10, <2>1 DEF Expire
    <2> QED
      BY <1>1, <1>10, <2>2 DEF Expire
  <1>11. CASE UNCHANGED <<request, cancel, replies>>
    BY <1>1, <1>11
  <1>12. ASSUME Register \/ Watch \/ CancelFutures \/ CloseStop \/ Destroying
         PROVE  UNCHANGED <<request, cancel, replies>>
    BY <1>12 DEF Register, Watch, CancelFutures, CloseStop, Destroying, CloseJoin, CloseClear,
                 CloseEndpoints
  <1>13. ASSUME UNCHANGED vars PROVE UNCHANGED <<request, cancel, replies>>
    BY <1>13 DEF vars
  <1> QED
    BY <1>3, <1>4, <1>5, <1>6, <1>7, <1>8, <1>9, <1>10, <1>11, <1>12, <1>13
       DEF Next, PollThread, Environment

\* A request is polled before it is answered or registered.
LEMMA PolledStep ==
    ASSUME TypeInv, PolledFirst, CallUnanswered, TableHoldsCalls, [Next]_vars
    PROVE  PolledFirst'
  <1> USE DEF TypeInv, PolledFirst, tableVars, futureVars, pollVars, closeVars, clientVars
  <1>1. ASSUME NEW q \in Requests, Environment(q) PROVE PolledFirst'
    BY <1>1 DEF Environment, HakRequests, HakCancels, RosResponds, Due
  <1>2. ASSUME NEW q \in Requests, OnRosResponse(q) PROVE PolledFirst'
    BY <1>2 DEF OnRosResponse, Reply
  <1>3. ASSUME NEW q \in Requests,
               DecodeFails(q) \/ DropDuplicate(q) \/ RefuseRequest(q) \/ Call(q)
        PROVE  PolledFirst'
    BY <1>3 DEF DecodeFails, DropDuplicate, RefuseRequest, Call, Poll, Reply
  <1>4. ASSUME NEW q \in Requests, DropCancel(q) \/ CancelCall(q) \/ CancelFails(q)
        PROVE  PolledFirst'
    <2>1. Active(q) => request[q] = "polled"
      BY <1>4 DEF DropCancel, CancelCall, CancelFails, PollCancel
    <2> QED
      BY <1>4, <2>1 DEF DropCancel, CancelCall, CancelFails, PollCancel, Reply
  <1>5. ASSUME Register \/ Watch \/ WatchFails PROVE PolledFirst'
    BY <1>5 DEF Register, Watch, WatchFails, Reply, CallUnanswered, Calling
  <1>6. ASSUME Expire PROVE PolledFirst'
    <2>1. \A q \in due : request[q] = "polled"
      OBVIOUS
    <2> QED
      BY <1>6, <2>1 DEF Expire
  <1>7. CASE UNCHANGED <<request, cancel, replies, registered>>
    BY <1>7
  <1>8. ASSUME CancelFutures \/ CloseStop \/ Destroying
        PROVE  UNCHANGED <<request, cancel, replies, registered>>
    BY <1>8 DEF CancelFutures, CloseStop, Destroying, CloseJoin, CloseClear, CloseEndpoints
  <1>9. ASSUME UNCHANGED vars PROVE UNCHANGED <<request, cancel, replies, registered>>
    BY <1>9 DEF vars
  <1> QED
    BY <1>1, <1>2, <1>3, <1>4, <1>5, <1>6, <1>7, <1>8, <1>9 DEF Next, PollThread

-----------------------------------------------------------------------------
\* Closing contexts takes active calls out of the table, and those only.
LEMMA CloseTable ==
    ASSUME TypeInv, TableHoldsCalls, TokenLeadsToCall, NEW qs \in SUBSET Requests, Close(qs),
           UNCHANGED registered
    PROVE  TableHoldsCalls' /\ TokenLeadsToCall'
  <1> USE ServiceClientAssumption DEF TypeInv, Close, Pop
  <1>1. TableHoldsCalls'
    BY DEF TableHoldsCalls
  <1>2. TokenLeadsToCall'
    BY DEF TokenLeadsToCall, TableHoldsCalls, Context
  <1> QED
    BY <1>1, <1>2

\* The table and the active calls belong to each other after every step.
LEMMA TableStep ==
    ASSUME TypeInv, TableHoldsCalls, TokenLeadsToCall, CallUnanswered, [Next]_vars
    PROVE  TableHoldsCalls' /\ TokenLeadsToCall'
  <1> USE DEF tableVars, futureVars, pollVars, closeVars, clientVars
  <1>1. ASSUME UNCHANGED tableVars PROVE TableHoldsCalls' /\ TokenLeadsToCall'
    BY <1>1 DEF TableHoldsCalls, TokenLeadsToCall, Context
  <1>2. ASSUME NEW q \in Requests, Environment(q) PROVE UNCHANGED tableVars
    BY <1>2 DEF Environment, HakRequests, HakCancels, RosResponds, Due
  <1>3. ASSUME NEW q \in Requests, OnRosResponse(q) PROVE TableHoldsCalls' /\ TokenLeadsToCall'
    <2>1. CASE Live(q)
      BY <1>3, <2>1, CloseTable DEF OnRosResponse
    <2>2. CASE ~Live(q)
      BY <1>1, <1>3, <2>2 DEF OnRosResponse
    <2> QED
      BY <2>1, <2>2
  <1>4. ASSUME NEW q \in Requests,
               \/ DecodeFails(q) \/ DropDuplicate(q) \/ RefuseRequest(q) \/ Call(q)
               \/ DropCancel(q) \/ CancelFails(q)
        PROVE  UNCHANGED tableVars
    BY <1>4 DEF DecodeFails, DropDuplicate, RefuseRequest, Call, DropCancel, CancelFails
  <1>5. ASSUME NEW q \in Requests, CancelCall(q) PROVE TableHoldsCalls' /\ TokenLeadsToCall'
    <2>1. {Context(q)} \in SUBSET Requests
      BY <1>5, ServiceClientAssumption DEF CancelCall, Active, Context, TypeInv
    <2> QED
      BY <1>5, <2>1, CloseTable DEF CancelCall
  <1>6. ASSUME Register PROVE TableHoldsCalls' /\ TokenLeadsToCall'
    <2>1. /\ pollRequest \in Requests \ registered /\ ~Active(pollRequest)
          /\ TokenOf[pollRequest] \in Tokens
      BY <1>6, ServiceClientAssumption DEF Register, CallUnanswered, Calling, TypeInv
    <2>2. TableHoldsCalls'
      BY <1>6, <2>1 DEF Register, TypeInv, TableHoldsCalls
    <2>3. TokenLeadsToCall'
      BY <1>6, <2>1, ServiceClientAssumption
         DEF Register, TypeInv, TableHoldsCalls, TokenLeadsToCall, Context, Active
    <2> QED
      BY <2>2, <2>3
  <1>7. ASSUME Watch \/ WatchFails \/ CancelFutures PROVE UNCHANGED tableVars
    BY <1>7 DEF Watch, WatchFails, CancelFutures
  <1>8. ASSUME Expire PROVE TableHoldsCalls' /\ TokenLeadsToCall'
    <2> DEFINE expired == {q \in due \ terminal : Context(q) = q}
    <2>1. expired \in SUBSET Requests
      BY DEF TypeInv
    <2>2. Close(expired) /\ UNCHANGED registered
      BY <1>8 DEF Expire
    <2> QED
      BY <2>1, <2>2, CloseTable
  <1>9. ASSUME CloseClear PROVE TableHoldsCalls' /\ TokenLeadsToCall'
    <2>1. \A t \in Tokens : contexts'[t] = NoRequest
      BY <1>9 DEF CloseClear, Clear
    <2>2. registered' = registered /\ registered \subseteq terminal'
      BY <1>9 DEF CloseClear, Clear, TokenLeadsToCall, TypeInv
    <2>3. NoRequest \notin terminal'
      BY <1>9, ServiceClientAssumption DEF CloseClear, Clear, TypeInv
    <2> QED
      BY <2>1, <2>2, <2>3 DEF TableHoldsCalls, TokenLeadsToCall
  <1>10. ASSUME CloseStop \/ CloseJoin \/ CloseEndpoints \/ UNCHANGED vars
         PROVE  UNCHANGED tableVars
    BY <1>10 DEF CloseStop, CloseJoin, CloseEndpoints, vars
  <1> QED
    BY <1>1, <1>2, <1>3, <1>4, <1>5, <1>6, <1>7, <1>8, <1>9, <1>10
       DEF Next, PollThread, Destroying

\* While the poll thread makes a call nobody answers it or takes its token.
LEMMA CallStep ==
    ASSUME TypeInv, PolledFirst, TableHoldsCalls, CallUnanswered, [Next]_vars
    PROVE  CallUnanswered'
  <1> USE ServiceClientAssumption
      DEF TypeInv, CallUnanswered, Calling, Active, Context, tableVars, futureVars, pollVars,
          closeVars, clientVars
  <1>1. ASSUME NEW q \in Requests, Environment(q) PROVE CallUnanswered'
    BY <1>1 DEF Environment, HakRequests, HakCancels, RosResponds, Due
  <1>2. ASSUME NEW q \in Requests, OnRosResponse(q) PROVE CallUnanswered'
    <2>1. Calling => pollRequest # q
      BY <1>2 DEF OnRosResponse
    <2>2. Calling => replies'[pollRequest] = replies[pollRequest]
      BY <1>2, <2>1 DEF OnRosResponse, Reply
    <2>3. \A p \in Requests : ~Active(p) => ~Active(p)'
      BY <1>2 DEF OnRosResponse, Close, Pop
    <2> QED
      BY <1>2, <2>1, <2>2, <2>3 DEF OnRosResponse
  <1>3. ASSUME NEW q \in Requests, DecodeFails(q) \/ DropDuplicate(q) \/ RefuseRequest(q)
        PROVE  CallUnanswered'
    BY <1>3 DEF DecodeFails, DropDuplicate, RefuseRequest, Poll, Polling
  <1>4. ASSUME NEW q \in Requests, Call(q) PROVE CallUnanswered'
    BY <1>4 DEF Call, Poll, InUse, PolledFirst
  <1>5. ASSUME NEW q \in Requests, DropCancel(q) \/ CancelCall(q) \/ CancelFails(q)
        PROVE  CallUnanswered'
    BY <1>5 DEF DropCancel, CancelCall, CancelFails, PollCancel, Polling
  <1>6. ASSUME Register PROVE CallUnanswered'
    BY <1>6 DEF Register
  <1>7. ASSUME Watch \/ WatchFails \/ CancelFutures \/ Expire PROVE CallUnanswered'
    BY <1>7 DEF Watch, WatchFails, CancelFutures, Expire
  <1>8. ASSUME CloseStop \/ Destroying PROVE CallUnanswered'
    BY <1>8 DEF CloseStop, Destroying, CloseJoin, CloseClear, Clear, CloseEndpoints
  <1>9. CASE UNCHANGED vars
    BY <1>9 DEF vars
  <1> QED
    BY <1>1, <1>2, <1>3, <1>4, <1>5, <1>6, <1>7, <1>8, <1>9 DEF Next, PollThread

-----------------------------------------------------------------------------
\* A step keeps the replies of a request, or adds one to those of a request whose
\* last reply has not been given.
Kept(q) == replies'[q] = replies[q] /\ (Final(q) => Over(q)')

Given(q, kind) ==
    /\ replies'[q] = Append(replies[q], kind) /\ ~Final(q)
    /\ kind \in {"ok", "canceled"} \/ faults' = 0 => Over(q)'

\* If each request is treated so, there is one last reply still.
LEMMA ReplyStep ==
    ASSUME TypeInv, TypeInv', FinalIsOver, OneReply, faults' = 0 => faults = 0,
           \A q \in Requests : Kept(q) \/ \E kind \in ReplyKinds : Given(q, kind)
    PROVE  FinalIsOver' /\ OneReply'
  <1> USE DEF TypeInv
  <1>1. ASSUME NEW q \in Requests, Kept(q)
        PROVE  /\ Final(q)' => Over(q)'
               /\ faults' = 0 => Len(replies'[q]) <= 1
               /\ \A i \in 1 .. Len(replies'[q]) - 1 : replies'[q][i] \in {"error", "failed"}
    BY <1>1 DEF Kept, Final, OneReply
  <1>2. ASSUME NEW q \in Requests, NEW kind \in ReplyKinds, Given(q, kind)
        PROVE  /\ Final(q)' => Over(q)'
               /\ faults' = 0 => Len(replies'[q]) <= 1
               /\ \A i \in 1 .. Len(replies'[q]) - 1 : replies'[q][i] \in {"error", "failed"}
    <2> DEFINE s == replies[q]
    <2>1. s \in Seq(ReplyKinds) /\ replies'[q] = Append(s, kind)
      BY <1>2 DEF Given
    <2>2. /\ Len(replies'[q]) = Len(s) + 1 /\ replies'[q][Len(s) + 1] = kind
          /\ \A i \in 1 .. Len(s) : replies'[q][i] = s[i] /\ s[i] \in ReplyKinds
      BY <2>1
    <2>3. \A i \in 1 .. Len(s) : s[i] \notin {"ok", "canceled"}
      BY <1>2 DEF Given, Final
    <2>4. faults' = 0 => s = <<>>
      BY <1>2 DEF Given, Final
    <2>5. s = <<>> => Len(s) = 0
      OBVIOUS
    <2>6. Len(s) \in Nat
      BY <2>1
    <2>7. \A i \in 1 .. Len(replies'[q]) - 1 : replies'[q][i] \in {"error", "failed"}
      <3>1. 1 .. Len(replies'[q]) - 1 = 1 .. Len(s)
        BY <2>2, <2>6
      <3>2. \A i \in 1 .. Len(s) : s[i] \in {"error", "failed"}
        BY <2>2, <2>3 DEF ReplyKinds
      <3> QED
        BY <2>2, <3>1, <3>2
    <2>8. Final(q)' => Over(q)'
      <3>1. CASE faults' = 0
        BY <1>2, <3>1 DEF Given
      <3>2. CASE \E i \in 1 .. Len(replies'[q]) : replies'[q][i] \in {"ok", "canceled"}
        <4>1. kind \in {"ok", "canceled"}
          <5>1. PICK i \in 1 .. Len(s) + 1 : replies'[q][i] \in {"ok", "canceled"}
            BY <2>2, <3>2
          <5>2. i \notin 1 .. Len(s)
            BY <2>2, <2>3, <5>1
          <5>3. i = Len(s) + 1
            BY <2>6, <5>1, <5>2
          <5> QED
            BY <2>2, <5>1, <5>3
        <4> QED
          BY <1>2, <4>1 DEF Given
      <3> QED
        BY <3>1, <3>2 DEF Final
    <2> QED
      BY <2>2, <2>4, <2>5, <2>7, <2>8
  <1> QED
    BY <1>1, <1>2 DEF FinalIsOver, OneReply

\* What is over stays over while contexts only leave the table and the clients make
\* no step.
LEMMA OverStays ==
    ASSUME TypeInv, NEW q \in Requests, Over(q), request'[q] = request[q],
           cancel'[q] = "sent" => cancel[q] = "sent",
           contexts'[TokenOf[q]] \in {Context(q), NoRequest}
    PROVE  Over(q)'
  BY ServiceClientAssumption DEF Over, Active, Context

\* Every step gives at most the last reply, and none after it.
LEMMA AnswerStep ==
    ASSUME TypeInv, TypeInv', TokenReused, PolledFirst, TableHoldsCalls, CallUnanswered,
           FinalIsOver, OneReply, [Next]_vars
    PROVE  FinalIsOver' /\ OneReply'
  <1> USE ServiceClientAssumption
      DEF TypeInv, tableVars, futureVars, pollVars, closeVars, clientVars
  <1>1. ASSUME UNCHANGED <<contexts, request, cancel, replies>>,
               faults' = 0 => faults = 0
        PROVE  FinalIsOver' /\ OneReply'
    <2>1. \A q \in Requests : Kept(q)
      BY <1>1 DEF Kept, FinalIsOver, Over, Active, Context
    <2> QED
      BY <1>1, <2>1, ReplyStep
  <1>2. ASSUME NEW p \in Requests, HakRequests(p) \/ HakCancels(p)
        PROVE  FinalIsOver' /\ OneReply'
    <2>1. ASSUME NEW q \in Requests, Final(q) PROVE Over(q)'
      <3>1. Over(q) /\ replies[q] # <<>>
        BY <2>1 DEF FinalIsOver, Final
      <3> QED
        BY <1>2, <3>1 DEF HakRequests, HakCancels, Over, Active, Context
    <2>2. \A q \in Requests : Kept(q)
      BY <1>2, <2>1 DEF Kept, HakRequests, HakCancels
    <2> QED
      BY <1>2, <2>2, ReplyStep DEF HakRequests, HakCancels
  <1>3. ASSUME NEW p \in Requests, RosResponds(p) \/ Due(p) PROVE FinalIsOver' /\ OneReply'
    BY <1>1, <1>3 DEF RosResponds, Due
  <1>4. ASSUME NEW p \in Requests, OnRosResponse(p) PROVE FinalIsOver' /\ OneReply'
    <2>1. CASE Live(p)
      <3>1. contexts' = [t \in Tokens |-> IF contexts[t] = p THEN NoRequest ELSE contexts[t]]
        BY <1>4, <2>1 DEF OnRosResponse, Close, Pop
      <3>2. UNCHANGED <<request, cancel, faults>>
        BY <1>4 DEF OnRosResponse
      <3>3. PICK kind \in ReplyKinds : Reply(p, kind)
        BY <1>4, <2>1 DEF OnRosResponse, ReplyKinds
      <3>4. ~Final(p)
        BY <2>1 DEF FinalIsOver, Over, Live
      <3>5. Over(p)'
        BY <1>4, <2>1, <3>1, <3>2 DEF OnRosResponse, PolledFirst, Over, Active, Context, Live
      <3>6. Given(p, kind)
        BY <3>3, <3>4, <3>5 DEF Given, Reply
      <3>7. ASSUME NEW q \in Requests \ {p} PROVE Kept(q)
        <4>1. contexts'[TokenOf[q]] \in {Context(q), NoRequest}
          BY <3>1 DEF Context
        <4>2. Over(q) => Over(q)'
          BY <3>2, <4>1, OverStays
        <4> QED
          BY <3>3, <3>7, <4>2 DEF Kept, FinalIsOver, Reply
      <3> QED
        BY <3>2, <3>6, <3>7, ReplyStep
    <2>2. CASE ~Live(p)
      BY <1>1, <1>4, <2>2 DEF OnRosResponse
    <2> QED
      BY <2>1, <2>2
  <1>5. ASSUME NEW p \in Requests, DropDuplicate(p) \/ Call(p) \/ DropCancel(p)
        PROVE  FinalIsOver' /\ OneReply'
    <2>1. ASSUME NEW q \in Requests, Over(q) PROVE Over(q)'
      BY <1>5, <2>1
         DEF DropDuplicate, Call, DropCancel, Poll, PollCancel, Over, Active, Context
    <2>2. \A q \in Requests : Kept(q)
      BY <1>5, <2>1 DEF Kept, FinalIsOver, DropDuplicate, Call, DropCancel
    <2> QED
      BY <1>5, <2>2, ReplyStep DEF DropDuplicate, Call, DropCancel
  <1>6. ASSUME NEW p \in Requests, DecodeFails(p) \/ RefuseRequest(p)
        PROVE  FinalIsOver' /\ OneReply'
    <2>1. /\ request[p] = "sent" /\ request' = [request EXCEPT ![p] = "polled"]
          /\ Reply(p, "error") /\ UNCHANGED <<contexts, cancel, faults>>
      BY <1>6 DEF DecodeFails, RefuseRequest, Poll
    <2>2. replies[p] = <<>> /\ p \notin registered
      BY <2>1 DEF PolledFirst
    <2>3. ~Final(p)
      BY <2>2 DEF Final
    <2>4. faults = 0 => ~Active(p)
      <3> SUFFICES ASSUME faults = 0, Active(p) PROVE FALSE
        OBVIOUS
      <3> DEFINE c == Context(p)
      <3>1. c \in registered /\ TokenOf[c] = TokenOf[p] /\ Context(c) = c
        BY DEF Active, Context, TableHoldsCalls
      <3>2. c # p /\ c \in Requests /\ request[c] = "polled"
        BY <2>2, <3>1 DEF PolledFirst
      <3>3. Settled(c)
        BY <2>1, <2>2, <3>1, <3>2 DEF TokenReused, Settled
      <3> QED
        BY <3>1, <3>2, <3>3 DEF Settled, FinalIsOver, Final, Over
    <2>5. Context(p) # p
      BY <2>2 DEF Context, TableHoldsCalls
    <2>6. Given(p, "error")
      BY <2>1, <2>3, <2>4, <2>5 DEF Given, Reply, Over, Active, Context
    <2>7. \A q \in Requests \ {p} : Kept(q)
      BY <2>1 DEF Kept, FinalIsOver, Reply, Over, Active, Context
    <2> QED
      BY <2>1, <2>6, <2>7, ReplyStep DEF ReplyKinds
  <1>7. ASSUME NEW p \in Requests, CancelCall(p) PROVE FinalIsOver' /\ OneReply'
    <2> DEFINE c == Context(p)
    <2>1. /\ cancel[p] = "sent" /\ request[p] = "polled" /\ Active(p)
          /\ cancel' = [cancel EXCEPT ![p] = "polled"] /\ Reply(p, "canceled")
          /\ UNCHANGED <<request, faults>>
      BY <1>7 DEF CancelCall, PollCancel, PolledFirst
    <2>2. contexts' = [t \in Tokens |-> IF contexts[t] = c THEN NoRequest ELSE contexts[t]]
      BY <1>7 DEF CancelCall, Close, Pop
    <2>3. ~Final(p)
      BY <2>1 DEF FinalIsOver, Over
    <2>4. Over(p)'
      BY <2>1, <2>2 DEF Over, Active, Context
    <2>5. Given(p, "canceled")
      BY <2>1, <2>3, <2>4 DEF Given, Reply
    <2>6. ASSUME NEW q \in Requests \ {p} PROVE Kept(q)
      <3>1. contexts'[TokenOf[q]] \in {Context(q), NoRequest}
        BY <2>2 DEF Context
      <3>2. Over(q) => Over(q)'
        BY <2>1, <2>6, <3>1, OverStays
      <3> QED
        BY <2>1, <2>6, <3>2 DEF Kept, FinalIsOver, Reply
    <2> QED
      BY <2>1, <2>5, <2>6, ReplyStep DEF ReplyKinds
  <1>8. ASSUME NEW p \in Requests, CancelFails(p) PROVE FinalIsOver' /\ OneReply'
    <2>1. /\ cancel[p] = "sent" /\ Active(p) /\ cancel' = [cancel EXCEPT ![p] = "polled"]
          /\ Reply(p, "failed") /\ UNCHANGED <<contexts, request>> /\ faults' # 0
      BY <1>8 DEF CancelFails, PollCancel, Fault
    <2>2. ~Final(p)
      BY <2>1 DEF FinalIsOver, Over
    <2>3. Given(p, "failed")
      BY <2>1, <2>2 DEF Given, Reply
    <2>4. \A q \in Requests \ {p} : Kept(q)
      BY <2>1 DEF Kept, FinalIsOver, Reply, Over, Active, Context
    <2> QED
      BY <2>1, <2>3, <2>4, ReplyStep DEF ReplyKinds
  <1>9. ASSUME Register PROVE FinalIsOver' /\ OneReply'
    <2> DEFINE r == pollRequest
    <2>1. /\ r \in Requests /\ request[r] = "polled" /\ replies[r] = <<>>
          /\ contexts' = [contexts EXCEPT ![TokenOf[r]] = r]
          /\ UNCHANGED <<request, cancel, replies, faults>>
      BY <1>9 DEF Register, CallUnanswered, Calling
    <2>2. ASSUME NEW q \in Requests, Final(q) PROVE Over(q)'
      <3>1. q # r /\ Over(q)
        BY <2>1, <2>2 DEF Final, FinalIsOver
      <3>2. CASE TokenOf[q] = TokenOf[r]
        <4>1. Settled(q)
          BY <2>1, <3>1, <3>2 DEF TokenReused, Settled, Over
        <4> QED
          BY <2>1, <3>1, <3>2, <4>1 DEF Settled, Over, Active, Context
      <3>3. CASE TokenOf[q] # TokenOf[r]
        BY <2>1, <3>1, <3>3 DEF Over, Active, Context
      <3> QED
        BY <3>2, <3>3
    <2>3. \A q \in Requests : Kept(q)
      BY <2>1, <2>2 DEF Kept
    <2> QED
      BY <2>1, <2>3, ReplyStep
  <1>10. ASSUME WatchFails PROVE FinalIsOver' /\ OneReply'
    <2> DEFINE r == pollRequest
    <2>1. /\ r \in Requests /\ replies[r] = <<>> /\ Reply(r, "error") /\ faults' # 0
          /\ UNCHANGED <<contexts, request, cancel>>
      BY <1>10 DEF WatchFails, CallUnanswered, Calling, Fault
    <2>2. Given(r, "error")
      BY <2>1 DEF Given, Reply, Final
    <2>3. \A q \in Requests \ {r} : Kept(q)
      BY <2>1 DEF Kept, FinalIsOver, Reply, Over, Active, Context
    <2> QED
      BY <2>1, <2>2, <2>3, ReplyStep DEF ReplyKinds
  <1>11. ASSUME Expire PROVE FinalIsOver' /\ OneReply'
    <2> DEFINE expired == {q \in due \ terminal : Context(q) = q}
    <2>1. /\ replies' = [q \in Requests |-> IF q \in expired THEN Append(replies[q], "error")
                                             ELSE replies[q]]
          /\ contexts' = [t \in Tokens |-> IF contexts[t] \in expired THEN NoRequest
                                            ELSE contexts[t]]
          /\ UNCHANGED <<request, cancel, faults>>
      BY <1>11 DEF Expire, Close, Pop
    <2>2. expired \subseteq registered /\ \A q \in expired : Context(q) = q
      OBVIOUS
    <2> HIDE DEF expired
    <2>3. ASSUME NEW q \in Requests, q \in expired PROVE Given(q, "error")
      <3>1. ~Final(q)
        BY <2>2, <2>3 DEF FinalIsOver, Over
      <3>2. Over(q)'
        BY <2>1, <2>2, <2>3 DEF PolledFirst, Over, Active, Context
      <3> QED
        BY <2>1, <2>3, <3>1, <3>2 DEF Given
    <2>4. ASSUME NEW q \in Requests, q \notin expired PROVE Kept(q)
      <3>1. contexts'[TokenOf[q]] \in {Context(q), NoRequest}
        BY <2>1 DEF Context
      <3>2. Over(q) => Over(q)'
        BY <2>1, <3>1, OverStays
      <3> QED
        BY <2>1, <2>4, <3>2 DEF Kept, FinalIsOver
    <2> QED
      BY <2>1, <2>3, <2>4, ReplyStep DEF ReplyKinds
  <1>12. ASSUME Watch \/ CancelFutures \/ CloseStop \/ CloseJoin \/ CloseEndpoints \/ UNCHANGED vars
         PROVE  FinalIsOver' /\ OneReply'
    BY <1>1, <1>12 DEF Watch, CancelFutures, CloseStop, CloseJoin, CloseEndpoints, Fault, vars
  <1>13. ASSUME CloseClear PROVE FinalIsOver' /\ OneReply'
    <2>1. \A q \in Requests : Kept(q)
      BY <1>13 DEF CloseClear, Clear, Kept, FinalIsOver, Over, Active, Context
    <2> QED
      BY <1>13, <2>1, ReplyStep DEF CloseClear
  <1> QED
    BY <1>2, <1>3, <1>4, <1>5, <1>6, <1>7, <1>8, <1>9, <1>10, <1>11, <1>12, <1>13
       DEF Next, PollThread, Environment, Destroying

-----------------------------------------------------------------------------
\* Once the dictionary is cleared it stays empty, if the poll thread was joined.
LEMMA ClosedStep ==
    ASSUME TypeInv, ClosedQuietly, [Next]_vars
    PROVE  ClosedQuietly'
  <1> USE ServiceClientAssumption
      DEF TypeInv, ClosedQuietly, tableVars, futureVars, pollVars, closeVars, clientVars
  <1>1. ASSUME NEW q \in Requests, Environment(q) PROVE ClosedQuietly'
    BY <1>1 DEF Environment, HakRequests, HakCancels, RosResponds, Due
  <1>2. ASSUME NEW q \in Requests, OnRosResponse(q) PROVE ClosedQuietly'
    BY <1>2 DEF OnRosResponse, Close, Pop
  <1>3. ASSUME Polling, UNCHANGED closePc, faults' = faults \/ faults' = faults + 1
        PROVE  ClosedQuietly'
    BY <1>3 DEF Polling
  <1>4. ASSUME NEW q \in Requests,
               \/ DecodeFails(q) \/ DropDuplicate(q) \/ RefuseRequest(q) \/ Call(q)
               \/ DropCancel(q) \/ CancelCall(q) \/ CancelFails(q)
        PROVE  ClosedQuietly'
    BY <1>3, <1>4 DEF DecodeFails, DropDuplicate, RefuseRequest, Call, DropCancel, CancelCall,
                      CancelFails, Poll, PollCancel, Fault
  <1>5. ASSUME Expire PROVE ClosedQuietly'
    BY <1>3, <1>5 DEF Expire
  <1>6. ASSUME Register \/ Watch \/ WatchFails \/ CancelFutures PROVE ClosedQuietly'
    BY <1>6 DEF Register, Watch, WatchFails, CancelFutures, Fault
  <1>7. ASSUME CloseStop \/ Destroying PROVE ClosedQuietly'
    BY <1>7 DEF CloseStop, Destroying, CloseJoin, CloseClear, Clear, CloseEndpoints, Fault,
                PollThreadEnded
  <1>8. CASE UNCHANGED vars
    BY <1>8 DEF vars
  <1> QED
    BY <1>1, <1>2, <1>4, <1>5, <1>6, <1>7, <1>8 DEF Next, PollThread

-----------------------------------------------------------------------------
\* The invariant holds in every reachable state, for any requests, tokens and
\* faults, with or without a shutdown.
LEMMA CallInvariant == Spec => [](TypeInv /\ CallInv)
  <1>1. Init => TypeInv /\ CallInv
    <2> SUFFICES ASSUME Init PROVE TypeInv /\ CallInv
      OBVIOUS
    <2> USE ServiceClientAssumption DEF Init
    <2>1. TypeInv
      <3>1. <<>> \in Seq(ReplyKinds)
        OBVIOUS
      <3>2. replies \in [Requests -> Seq(ReplyKinds)]
        BY <3>1
      <3> QED
        BY <3>2 DEF TypeInv, Calling
    <2>2. TokenReused /\ PolledFirst /\ TableHoldsCalls /\ CallUnanswered /\ ClosedQuietly
      BY DEF TokenReused, PolledFirst, TableHoldsCalls, CallUnanswered, Calling, ClosedQuietly
    <2>3. FinalIsOver /\ OneReply /\ TokenLeadsToCall
      BY DEF FinalIsOver, Final, OneReply, TokenLeadsToCall
    <2> QED
      BY <2>1, <2>2, <2>3 DEF CallInv
  <1>2. TypeInv /\ CallInv /\ [Next]_vars => (TypeInv /\ CallInv)'
    <2> SUFFICES ASSUME TypeInv, CallInv, [Next]_vars PROVE (TypeInv /\ CallInv)'
      OBVIOUS
    <2>1. TypeInv'
      BY TypeStep DEF CallInv
    <2> QED
      BY <2>1, ReusedStep, PolledStep, TableStep, CallStep, AnswerStep, ClosedStep DEF CallInv
  <1> QED
    BY <1>1, <1>2, PTL DEF Spec

\* However the ROS response, the cancel request, the timeout and the shutdown race
\* (_on_ros_response, _handle_cancel, _expire_calls, _close_runtime), a request gets
\* one last reply.
THEOREM OneReplyHolds == Spec => []OneReply
  BY CallInvariant, PTL DEF CallInv

\* _contexts and the active calls never disagree.
THEOREM TokenLeadsToCallHolds == Spec => []TokenLeadsToCall
  BY CallInvariant, PTL DEF CallInv

\* After a shutdown that joined its poll thread nothing is sent.
THEOREM SilentHolds == Spec => SilentAfterClear
  <1>1. ASSUME TypeInv, CallInv, [Next]_vars, closePc \in {"cleared", "closed"}, faults = 0
        PROVE  replies' = replies
    <2>1. ~Polling /\ pollPc = "poll" /\ \A t \in Tokens : contexts[t] = NoRequest
      BY <1>1 DEF CallInv, ClosedQuietly, Polling
    <2>2. \A q \in Requests : ~Live(q)
      BY <2>1, ServiceClientAssumption DEF Live, Context
    <2>3. ASSUME NEW q \in Requests, Environment(q) \/ OnRosResponse(q) PROVE replies' = replies
      BY <2>2, <2>3 DEF Environment, HakRequests, HakCancels, RosResponds, Due, OnRosResponse
    <2>4. ~PollThread /\ ~Expire
      BY <2>1 DEF PollThread, DecodeFails, DropDuplicate, RefuseRequest, Call, DropCancel,
                  CancelCall, CancelFails, Register, Watch, WatchFails, CancelFutures, Expire,
                  Poll, PollCancel
    <2>5. ASSUME CloseStop \/ Destroying \/ UNCHANGED vars PROVE replies' = replies
      BY <2>5 DEF CloseStop, Destroying, CloseJoin, CloseClear, CloseEndpoints, vars
    <2> QED
      BY <1>1, <2>3, <2>4, <2>5 DEF Next
  <1> QED
    BY <1>1, CallInvariant, PTL DEF Spec, SilentAfterClear

-----------------------------------------------------------------------------
(***************************************************************************)
(* The node implements ServiceRelay.                                       *)
(***************************************************************************)
\* The ROS service is called for what has been polled.
RosInv ==
    /\ ros \in [Requests -> {"none", "active", "done", "canceled"}]
    /\ \A q \in Requests : ros[q] # "none" => request[q] = "polled"

\* A request whose token leads to another one, though its client still waits, has never had
\* a context.
NotDisplaced ==
    \A q \in Requests :
        request[q] # "none" /\ ~Settled(q) /\ Active(q) /\ Context(q) # q => q \notin registered

LEMMA RosStep ==
    ASSUME TypeInv, RosInv, CallUnanswered, [Next]_vars
    PROVE  RosInv'
  <1> USE DEF TypeInv, RosInv, tableVars, futureVars, pollVars, closeVars, clientVars
  <1>1. ASSUME UNCHANGED ros, \A q \in Requests : request[q] = "polled" => request'[q] = "polled"
        PROVE  RosInv'
    BY <1>1
  <1>2. ASSUME NEW qs, Canceled(qs), UNCHANGED request PROVE RosInv'
    BY <1>2 DEF Canceled
  <1>3. ASSUME NEW q \in Requests, HakRequests(q) \/ HakCancels(q) \/ Due(q) \/ OnRosResponse(q)
        PROVE  RosInv'
    BY <1>1, <1>3 DEF HakRequests, HakCancels, Due, OnRosResponse
  <1>4. ASSUME NEW q \in Requests, RosResponds(q) PROVE RosInv'
    BY <1>4 DEF RosResponds
  <1>5. ASSUME NEW q \in Requests, Call(q) PROVE RosInv'
    BY <1>5 DEF Call, Poll
  <1>6. ASSUME NEW q \in Requests,
               \/ DecodeFails(q) \/ DropDuplicate(q) \/ RefuseRequest(q)
               \/ DropCancel(q) \/ CancelCall(q) \/ CancelFails(q)
        PROVE  RosInv'
    BY <1>1, <1>6 DEF DecodeFails, DropDuplicate, RefuseRequest, DropCancel, CancelCall, CancelFails,
                      Poll, PollCancel
  <1>7. ASSUME CancelFutures \/ CloseEndpoints PROVE RosInv'
    BY <1>2, <1>7 DEF CancelFutures, CloseEndpoints
  <1>8. ASSUME Register \/ Watch \/ WatchFails \/ Expire \/ CloseStop \/ CloseJoin \/ CloseClear
        PROVE  RosInv'
    BY <1>1, <1>8 DEF Register, Watch, WatchFails, Expire, CloseStop, CloseJoin, CloseClear
  <1>9. ASSUME UNCHANGED vars PROVE RosInv'
    BY <1>1, <1>9 DEF vars
  <1> QED
    BY <1>3, <1>4, <1>5, <1>6, <1>7, <1>8, <1>9 DEF Next, PollThread, Environment, Destroying

\* What has been disturbed stays so.
LEMMA FaultsCounted ==
    ASSUME TypeInv, [Next]_vars
    PROVE  faults' \in {faults, faults + 1} /\ (faults' > 0) \in {faults > 0, TRUE}
  <1> USE DEF tableVars, futureVars, pollVars, closeVars, clientVars, Fault
  <1>1. ASSUME NEW q \in Requests, Environment(q) \/ OnRosResponse(q)
        PROVE  faults' \in {faults, faults + 1}
    BY <1>1 DEF Environment, HakRequests, HakCancels, RosResponds, Due, OnRosResponse
  <1>2. ASSUME PollThread \/ Expire PROVE faults' \in {faults, faults + 1}
    BY <1>2 DEF PollThread, Expire, DecodeFails, DropDuplicate, RefuseRequest, Call, DropCancel,
                CancelCall, CancelFails, Register, Watch, WatchFails, CancelFutures
  <1>3. ASSUME CloseStop \/ Destroying \/ UNCHANGED vars PROVE faults' \in {faults, faults + 1}
    BY <1>3 DEF CloseStop, Destroying, CloseJoin, CloseClear, CloseEndpoints, vars
  <1>4. faults' \in {faults, faults + 1} /\ faults \in Nat
    BY <1>1, <1>2, <1>3 DEF Next, TypeInv
  <1>5. CASE faults' > 0
    <2>1. (faults' > 0) = TRUE
      BY <1>5
    <2> QED
      BY <1>4, <2>1, Zenon
  <1>6. CASE ~(faults' > 0)
    <2>1. (faults' > 0) = (faults > 0)
      BY <1>4, <1>6
    <2> QED
      BY <1>4, <2>1, Zenon
  <1> QED
    BY <1>5, <1>6

LEMMA AppendNotEmpty ==
    ASSUME NEW s \in Seq(ReplyKinds), NEW kind \in ReplyKinds PROVE Append(s, kind) # <<>>
  <1>1. Len(Append(s, kind)) = Len(s) + 1 /\ Len(s) \in Nat
    OBVIOUS
  <1>2. Append(s, kind) # <<>> \/ Len(Append(s, kind)) = 0
    <2> DEFINE t == Append(s, kind)
    <2>1. t = <<>> => Len(t) = 0
      <3> HIDE DEF t
      <3> QED
        OBVIOUS
    <2> QED
      BY <2>1
  <1> QED
    BY <1>1, <1>2

-----------------------------------------------------------------------------
\* A context that a request is not found under is not stored later, while its client waits.
LEMMA DisplacedStep ==
    ASSUME TypeInv, TypeInv', TokenReused, PolledFirst, TableHoldsCalls, CallUnanswered, NotDisplaced,
           [Next]_vars
    PROVE  NotDisplaced'
  <1> USE ServiceClientAssumption DEF tableVars, futureVars, pollVars, closeVars, clientVars
  <1>1. ASSUME UNCHANGED registered,
               \A t \in Tokens : contexts'[t] \in {contexts[t], NoRequest},
               \A q \in Requests :
                   request'[q] # "none" /\ ~Settled(q)' /\ q \in registered
                   => request[q] # "none" /\ ~Settled(q)
        PROVE  NotDisplaced'
    BY <1>1 DEF NotDisplaced, Active, Context
  <1>2. ASSUME NEW q \in Requests, NEW kind \in ReplyKinds, Reply(q, kind)
        PROVE  \A p \in Requests : replies[p] # <<>> => replies'[p] # <<>>
    <2>1. replies[q] \in Seq(ReplyKinds)
      BY DEF TypeInv
    <2>2. Append(replies[q], kind) # <<>>
      BY <2>1, AppendNotEmpty
    <2> QED
      BY <1>2, <2>2 DEF Reply, TypeInv
  <1>3. ASSUME UNCHANGED registered,
               \A t \in Tokens : contexts'[t] \in {contexts[t], NoRequest},
               \A q \in Requests : replies[q] # <<>> => replies'[q] # <<>>,
               \A q \in Requests : request[q] = "none" => request'[q] = "none",
               \A q \in Requests : cancel'[q] = "sent" => cancel[q] = "sent"
        PROVE  NotDisplaced'
    <2>1. ASSUME NEW q \in Requests, request'[q] # "none", ~Settled(q)'
          PROVE  request[q] # "none" /\ ~Settled(q)
      BY <1>3, <2>1 DEF Settled
    <2> QED
      BY <1>1, <1>3, <2>1
  <1>4. ASSUME NEW q \in Requests, HakRequests(q) PROVE NotDisplaced'
    <2>1. q \notin registered
      BY <1>4 DEF HakRequests, PolledFirst
    <2>2. \A p \in Requests \ {q} : request'[p] = request[p] /\ (Settled(p)' <=> Settled(p))
      BY <1>4 DEF HakRequests, Settled, TypeInv
    <2> QED
      BY <1>1, <1>4, <2>1, <2>2 DEF HakRequests
  <1>5. ASSUME NEW q \in Requests, HakCancels(q) PROVE NotDisplaced'
    <2>1. request[q] # "none" /\ ~Settled(q)
      BY <1>5 DEF HakCancels, Settled
    <2>2. \A p \in Requests \ {q} : request'[p] = request[p] /\ (Settled(p)' <=> Settled(p))
      BY <1>5 DEF HakCancels, Settled, TypeInv
    <2> QED
      BY <1>1, <1>5, <2>1, <2>2 DEF HakCancels
  <1>6. ASSUME NEW q \in Requests, RosResponds(q) \/ Due(q) PROVE NotDisplaced'
    BY <1>3, <1>6 DEF RosResponds, Due
  <1>7. ASSUME NEW q \in Requests, OnRosResponse(q) PROVE NotDisplaced'
    <2>1. Reply(q, "ok") \/ Reply(q, "error") \/ UNCHANGED replies
      BY <1>7 DEF OnRosResponse
    <2>2. \A p \in Requests : replies[p] # <<>> => replies'[p] # <<>>
      BY <1>2, <2>1 DEF ReplyKinds
    <2>3. \A t \in Tokens : contexts'[t] \in {contexts[t], NoRequest}
      BY <1>7 DEF OnRosResponse, Close, Pop
    <2> QED
      BY <1>3, <1>7, <2>2, <2>3 DEF OnRosResponse
  <1>8. ASSUME NEW q \in Requests,
               \/ DecodeFails(q) \/ DropDuplicate(q) \/ RefuseRequest(q) \/ Call(q)
               \/ DropCancel(q) \/ CancelFails(q)
        PROVE  NotDisplaced'
    <2>1. Reply(q, "error") \/ Reply(q, "failed") \/ UNCHANGED replies
      BY <1>8 DEF DecodeFails, DropDuplicate, RefuseRequest, Call, DropCancel, CancelFails
    <2>2. \A p \in Requests : replies[p] # <<>> => replies'[p] # <<>>
      BY <1>2, <2>1 DEF ReplyKinds
    <2>3. /\ UNCHANGED <<contexts, registered>>
          /\ \A p \in Requests : request[p] = "none" => request'[p] = "none"
          /\ \A p \in Requests : cancel'[p] = "sent" => cancel[p] = "sent"
      BY <1>8 DEF TypeInv, DecodeFails, DropDuplicate, RefuseRequest, Call, DropCancel, CancelFails,
                  Poll, PollCancel
    <2> QED
      BY <1>3, <2>2, <2>3
  <1>9. ASSUME NEW q \in Requests, CancelCall(q) PROVE NotDisplaced'
    <2>1. \A p \in Requests : replies[p] # <<>> => replies'[p] # <<>>
      BY <1>2, <1>9 DEF CancelCall, ReplyKinds
    <2>2. \A t \in Tokens : contexts'[t] \in {contexts[t], NoRequest}
      BY <1>9 DEF CancelCall, Close, Pop
    <2>3. \A p \in Requests : cancel'[p] = "sent" => cancel[p] = "sent"
      BY <1>9 DEF CancelCall, PollCancel, TypeInv
    <2> QED
      BY <1>3, <1>9, <2>1, <2>2, <2>3 DEF CancelCall
  <1>10. ASSUME Register PROVE NotDisplaced'
    <2> DEFINE p == pollRequest
    <2>1. p \in Requests /\ replies[p] = <<>> /\ request[p] # "none" /\ TokenOf[p] \in Tokens
      BY <1>10 DEF Register, CallUnanswered, Calling, TypeInv
    <2>2. /\ contexts' = [contexts EXCEPT ![TokenOf[p]] = p] /\ registered' = registered \cup {p}
          /\ UNCHANGED <<request, cancel, replies>>
      BY <1>10 DEF Register
    <2>3. SUFFICES ASSUME NEW q \in Requests, request[q] # "none", ~Settled(q), Active(q)', Context(q)' # q
                   PROVE  q \notin registered'
      BY <2>2 DEF NotDisplaced, Settled
    <2>4. q # p
      BY <2>1, <2>2, <2>3 DEF Context, TypeInv
    <2>5. TokenOf[q] # TokenOf[p]
      BY <2>1, <2>3, <2>4 DEF TokenReused, Settled
    <2>6. Context(q)' = Context(q)
      BY <2>2, <2>5 DEF Context, TypeInv
    <2> QED
      BY <2>2, <2>3, <2>4, <2>6 DEF NotDisplaced, Active
  <1>11. ASSUME WatchFails PROVE NotDisplaced'
    <2>1. pollRequest \in Requests
      BY <1>11 DEF WatchFails, TypeInv, Calling
    <2>2. \A p \in Requests : replies[p] # <<>> => replies'[p] # <<>>
      BY <1>2, <1>11, <2>1 DEF WatchFails, ReplyKinds
    <2> QED
      BY <1>3, <1>11, <2>2 DEF WatchFails
  <1>12. ASSUME Expire PROVE NotDisplaced'
    <2>1. ASSUME NEW p \in Requests PROVE Append(replies[p], "error") # <<>>
      <3>1. replies[p] \in Seq(ReplyKinds) /\ "error" \in ReplyKinds
        BY DEF TypeInv, ReplyKinds
      <3> QED
        BY <3>1, AppendNotEmpty
    <2>2. \A p \in Requests : replies[p] # <<>> => replies'[p] # <<>>
      BY <1>12, <2>1 DEF Expire
    <2>3. \A t \in Tokens : contexts'[t] \in {contexts[t], NoRequest}
      BY <1>12 DEF Expire, Close, Pop
    <2> QED
      BY <1>3, <1>12, <2>2, <2>3 DEF Expire
  <1>13. ASSUME Watch \/ CancelFutures \/ CloseStop \/ Destroying \/ UNCHANGED vars PROVE NotDisplaced'
    <2>1. \A t \in Tokens : contexts'[t] \in {contexts[t], NoRequest}
      BY <1>13 DEF Watch, CancelFutures, CloseStop, Destroying, CloseJoin, CloseClear, Clear,
                   CloseEndpoints, vars
    <2>2. UNCHANGED <<registered, request, cancel, replies>>
      BY <1>13 DEF Watch, CancelFutures, CloseStop, Destroying, CloseJoin, CloseClear,
                   CloseEndpoints, vars
    <2> QED
      BY <1>3, <2>1, <2>2
  <1> QED
    BY <1>4, <1>5, <1>6, <1>7, <1>8, <1>9, <1>10, <1>11, <1>12, <1>13
       DEF Next, PollThread, Environment

-----------------------------------------------------------------------------
\* What is appended to a sequence, and to what is made of its elements.
LEMMA AnswerAppended ==
    ASSUME NEW s \in Seq(ReplyKinds), NEW kind \in ReplyKinds
    PROVE  /\ [i \in DOMAIN Append(s, kind) |-> Answer(Append(s, kind)[i])]
              = Append([i \in DOMAIN s |-> Answer(s[i])], Answer(kind))
           /\ \A x : (\E i \in DOMAIN Append(s, kind) : Append(s, kind)[i] = x)
                    <=> (\E i \in DOMAIN s : s[i] = x) \/ x = kind
  <1> DEFINE t == Append(s, kind)
             a == [i \in DOMAIN s |-> Answer(s[i])]
             b == [i \in DOMAIN t |-> Answer(t[i])]
  <1>1. Len(s) \in Nat /\ DOMAIN s = 1 .. Len(s)
    OBVIOUS
  <1>2. /\ DOMAIN t = 1 .. Len(s) + 1 /\ t[Len(s) + 1] = kind
        /\ \A i \in 1 .. Len(s) : t[i] = s[i]
    OBVIOUS
  <1>3. Answer(kind) \in {"response", "refusal"} /\ \A i \in DOMAIN s : Answer(s[i]) \in {"response", "refusal"}
    BY DEF Answer
  <1>4. a \in Seq({"response", "refusal"}) /\ Len(a) = Len(s) /\ DOMAIN a = 1 .. Len(s)
    BY <1>1, <1>3
  <1>5. /\ DOMAIN Append(a, Answer(kind)) = 1 .. Len(s) + 1
        /\ Append(a, Answer(kind))[Len(s) + 1] = Answer(kind)
        /\ \A i \in 1 .. Len(s) : Append(a, Answer(kind))[i] = a[i]
        /\ Append(a, Answer(kind)) \in Seq({"response", "refusal"})
    <2> HIDE DEF a
    <2> QED
      BY <1>1, <1>3, <1>4
  <1>6. \A i \in 1 .. Len(s) + 1 : i \in 1 .. Len(s) \/ i = Len(s) + 1
    BY <1>1
  <1>7. b = Append(a, Answer(kind))
    <2> DEFINE c == Append(a, Answer(kind))
    <2>1. \A i \in 1 .. Len(s) : a[i] = Answer(s[i])
      BY <1>1
    <2>2. c = [i \in 1 .. Len(s) + 1 |-> c[i]]
      <3> HIDE DEF a
      <3>1. c \in Seq({"response", "refusal"}) /\ DOMAIN c = 1 .. Len(s) + 1
        BY <1>5
      <3> HIDE DEF c
      <3> QED
        BY <3>1
    <2>3. \A i \in 1 .. Len(s) + 1 : Answer(t[i]) = c[i]
      <3> HIDE DEF a, t
      <3> QED
        BY <1>2, <1>5, <1>6, <2>1
    <2> HIDE DEF a, t, c
    <2> QED
      BY <1>2, <2>2, <2>3 DEF c
  <1>8. \A x : (\E i \in DOMAIN t : t[i] = x) <=> (\E i \in DOMAIN s : s[i] = x) \/ x = kind
    <2>1. Len(s) + 1 \in 1 .. Len(s) + 1 /\ 1 .. Len(s) \subseteq 1 .. Len(s) + 1
      BY <1>1
    <2> HIDE DEF t
    <2> QED
      BY <1>1, <1>2, <1>6, <2>1
  <1> QED
    BY <1>7, <1>8

\* What replies of one kind to some requests do to the answers,
LEMMA AnswersSent ==
    ASSUME TypeInv, NEW K \in SUBSET Requests, NEW kind \in ReplyKinds,
           replies' = [q \in Requests |-> IF q \in K THEN Append(replies[q], kind) ELSE replies[q]]
    PROVE  /\ Answers' = [q \in Requests |-> IF q \in K THEN Append(Answers[q], Answer(kind))
                                             ELSE Answers[q]]
           /\ \A q \in Requests : \A x : Replied(q, x)' <=> Replied(q, x) \/ (q \in K /\ x = kind)
  <1>1. \A q \in Requests : replies[q] \in Seq(ReplyKinds)
    BY DEF TypeInv
  <1>2. ASSUME NEW q \in Requests
        PROVE  /\ Answers'[q] = IF q \in K THEN Append(Answers[q], Answer(kind)) ELSE Answers[q]
               /\ \A x : Replied(q, x)' <=> Replied(q, x) \/ (q \in K /\ x = kind)
    <2>1. CASE q \in K
      <3>1. replies'[q] = Append(replies[q], kind)
        BY <2>1
      <3>2. Answers[q] = [i \in DOMAIN replies[q] |-> Answer(replies[q][i])]
        BY DEF Answers
      <3>3. Answers'[q] = [i \in DOMAIN replies'[q] |-> Answer(replies'[q][i])]
        BY DEF Answers
      <3>4. Answers'[q] = Append(Answers[q], Answer(kind))
        BY <1>1, <3>1, <3>2, <3>3, AnswerAppended
      <3>5. \A x : Replied(q, x)' <=> Replied(q, x) \/ x = kind
        BY <1>1, <3>1, AnswerAppended DEF Replied
      <3> QED
        BY <2>1, <3>4, <3>5
    <2>2. CASE q \notin K
      BY <2>2 DEF Answers, Replied
    <2> QED
      BY <2>1, <2>2
  <1>3. Answers' = [q \in Requests |-> Answers'[q]]
    BY DEF Answers
  <1> QED
    BY <1>2, <1>3

\* and that one reply is such.
LEMMA OneSent ==
    ASSUME TypeInv, NEW q \in Requests, NEW kind \in ReplyKinds, Reply(q, kind)
    PROVE  replies' = [p \in Requests |-> IF p \in {q} THEN Append(replies[p], kind) ELSE replies[p]]
  BY DEF Reply, TypeInv

\* A request that is not over may be answered.
LEMMA StillOpen ==
    ASSUME TypeInv, FinalIsOver, NEW q \in Requests, ~Over(q), q \notin terminal
    PROVE  /\ Relay!MayAnswer(q) /\ ~Relay!Responded(q)
           /\ ~Replied(q, "ok") /\ ~Replied(q, "canceled") /\ q \notin GivenUp
  <1>1. replies[q] \in Seq(ReplyKinds) /\ DOMAIN replies[q] = 1 .. Len(replies[q]) /\ faults \in Nat
    BY DEF TypeInv
  <1>2. ~Final(q)
    BY DEF FinalIsOver
  <1>3. ~Replied(q, "ok") /\ ~Replied(q, "canceled")
    BY <1>1, <1>2 DEF Final, Replied
  <1>4. q \notin GivenUp
    BY <1>3 DEF GivenUp, Dropped
  <1>5. Answers[q] = [i \in DOMAIN replies[q] |-> Answer(replies[q][i])]
    BY DEF Answers
  <1>6. ~Relay!Responded(q)
    BY <1>3, <1>5 DEF Relay!Responded, Replied, Answer
  <1>7. CASE faults = 0
    <2>1. replies[q] = <<>>
      BY <1>2, <1>7 DEF Final
    <2>2. Answers[q] = <<>>
      BY <1>5, <2>1
    <2> QED
      BY <1>3, <1>4, <1>6, <2>2 DEF Relay!MayAnswer
  <1>8. CASE faults > 0
    BY <1>3, <1>4, <1>6, <1>8 DEF Relay!MayAnswer
  <1> QED
    BY <1>1, <1>7, <1>8

\* So may a request that was not answered yet.
LEMMA NotAnswered ==
    ASSUME NEW q \in Requests, replies[q] = <<>>
    PROVE  Answers[q] = <<>> /\ Relay!MayAnswer(q) /\ ~Relay!Responded(q)
  <1>1. Answers[q] = <<>>
    BY DEF Answers
  <1> QED
    BY <1>1 DEF Relay!MayAnswer, Relay!Responded

\* The request whose context a token leads to is not over.
LEMMA FoundOpen ==
    ASSUME TypeInv, TableHoldsCalls, NEW q \in Requests, Active(q)
    PROVE  /\ Context(q) \in Requests \ terminal /\ Context(Context(q)) = Context(q)
           /\ ~Over(Context(q))
  <1>1. Context(q) \in registered \ terminal /\ TokenOf[Context(q)] = TokenOf[q]
    BY ServiceClientAssumption DEF Active, Context, TableHoldsCalls
  <1>2. Context(Context(q)) = Context(q)
    BY <1>1 DEF Context
  <1> QED
    BY <1>1, <1>2 DEF Over, TypeInv

\* The normal reply is what the relay calls the response.
LEMMA RespondedIsOk ==
    ASSUME NEW q \in Requests PROVE Relay!Responded(q) <=> Replied(q, "ok")
  <1>1. Answers[q] = [i \in DOMAIN replies[q] |-> Answer(replies[q][i])]
    BY DEF Answers
  <1> QED
    BY <1>1 DEF Relay!Responded, Replied, Answer

\* A step the relay does not see.
LEMMA Unseen ==
    ASSUME UNCHANGED <<Asked, ros, replies, terminal>>, (faults' > 0) \in {faults > 0, TRUE}
    PROVE  Relay!Next
  <1>1. Answers' = Answers /\ Answers = [q \in Requests |-> Answers[q]] /\ GivenUp' = GivenUp
    BY DEF Answers, GivenUp, Dropped, Replied
  <1>2. Called' = Called
    BY DEF Called
  <1>3. Answers' = [q \in Requests |-> IF q \in {} THEN Append(Answers[q], "refusal") ELSE Answers[q]]
    BY <1>1
  <1>4. Relay!Refuse({}, {})
    BY <1>1, <1>2, <1>3 DEF Relay!Refuse
  <1> QED
    BY <1>4 DEF Relay!Next

\* A step in which ROS calls end.
LEMMA CallsEnded ==
    ASSUME TypeInv, RosInv, NEW K \in SUBSET Requests, NEW s \in {"done", "canceled"},
           \A q \in K : ros[q] = "active",
           ros' = [q \in Requests |-> IF q \in K THEN s ELSE ros[q]],
           UNCHANGED <<request, replies, terminal>>, (faults' > 0) \in {faults > 0, TRUE}
    PROVE  Relay!Next
  <1> DEFINE outcome == IF s = "done" THEN "result" ELSE "error"
  <1>1. Answers' = Answers /\ GivenUp' = GivenUp /\ Asked' = Asked
    BY DEF Answers, GivenUp, Dropped, Replied, Asked
  <1>2. Called' = [q \in Requests |-> IF q \in K THEN outcome ELSE Called[q]]
    BY DEF Called
  <1>3. \A q \in K : Called[q] = "active"
    BY DEF Called
  <1>4. K \in SUBSET Asked /\ outcome \in {"result", "error"}
    BY DEF RosInv, Asked
  <1>5. Relay!CallsEnd(K, outcome)
    BY <1>1, <1>2, <1>3 DEF Relay!CallsEnd
  <1> HIDE DEF outcome
  <1> QED
    BY <1>4, <1>5 DEF Relay!Next

\* A step that refuses the requests K and closes the contexts of the requests T.
LEMMA Refused ==
    ASSUME TypeInv, NEW K \in SUBSET Asked, NEW T \in SUBSET Asked,
           NEW kind \in {"error", "canceled", "failed"},
           replies' = [q \in Requests |-> IF q \in K THEN Append(replies[q], kind) ELSE replies[q]],
           terminal' = terminal \cup T,
           \A q \in K : Relay!MayAnswer(q),
           \A q \in T : ~Relay!Responded(q),
           kind = "canceled" => \A q \in K : ~Relay!Responded(q),
           UNCHANGED <<Asked, ros>>, (faults' > 0) \in {faults > 0, TRUE}
    PROVE  Relay!Next
  <1> DEFINE G == T \cup {q \in K : kind = "canceled"}
  <1>0. kind \in ReplyKinds /\ Answer(kind) = "refusal" /\ Asked \subseteq Requests
    BY DEF ReplyKinds, Answer, Asked
  <1>1. /\ Answers' = [q \in Requests |-> IF q \in K THEN Append(Answers[q], "refusal") ELSE Answers[q]]
        /\ \A q \in Requests : \A x : Replied(q, x)' <=> Replied(q, x) \/ (q \in K /\ x = kind)
    <2>1. /\ Answers' = [q \in Requests |-> IF q \in K THEN Append(Answers[q], Answer(kind))
                                            ELSE Answers[q]]
          /\ \A q \in Requests : \A x : Replied(q, x)' <=> Replied(q, x) \/ (q \in K /\ x = kind)
      <3>1. kind \in ReplyKinds /\ K \in SUBSET Requests
        BY <1>0
      <3> QED
        BY <3>1, AnswersSent
    <2> QED
      BY <1>0, <2>1, Zenon
  <1>2. \A q \in Requests : (q \in G => ~Replied(q, "ok")) /\ (Replied(q, "ok")' <=> Replied(q, "ok"))
    BY <1>0, <1>1, RespondedIsOk
  <1>3. \A q \in Requests : Replied(q, "canceled")' <=> Replied(q, "canceled") \/ (q \in K /\ kind = "canceled")
    BY <1>1
  <1>4. \A q \in Requests : Dropped(q)' <=> Dropped(q) \/ q \in G
    BY <1>2, <1>3 DEF Dropped
  <1>5. GivenUp' = GivenUp \cup G
    BY <1>0, <1>4 DEF GivenUp
  <1>6. \A q \in G : ~Relay!Responded(q)
    OBVIOUS
  <1>7. Called' = Called /\ G \in SUBSET Asked
    BY DEF Called
  <1> HIDE DEF G
  <1>8. Relay!Refuse(K, G)
    BY <1>1, <1>5, <1>6, <1>7 DEF Relay!Refuse
  <1> QED
    BY <1>7, <1>8 DEF Relay!Next

\* A step that sends the normal reply.
LEMMA ResponseSent ==
    ASSUME TypeInv, FinalIsOver, NEW q \in Asked, ros[q] = "done", ~Over(q), q \notin terminal,
           Reply(q, "ok"), terminal' = terminal \cup {q},
           UNCHANGED <<Asked, ros>>, (faults' > 0) \in {faults > 0, TRUE}
    PROVE  Relay!Next
  <1>0. q \in Requests /\ "ok" \in ReplyKinds /\ Answer("ok") = "response"
    BY DEF ReplyKinds, Answer, Asked
  <1>1. replies' = [p \in Requests |-> IF p \in {q} THEN Append(replies[p], "ok") ELSE replies[p]]
    BY <1>0, OneSent
  <1>2. /\ Answers' = [p \in Requests |-> IF p \in {q} THEN Append(Answers[p], "response")
                                          ELSE Answers[p]]
        /\ \A p \in Requests : \A x : Replied(p, x)' <=> Replied(p, x) \/ (p \in {q} /\ x = "ok")
    <2>1. /\ Answers' = [p \in Requests |-> IF p \in {q} THEN Append(Answers[p], Answer("ok"))
                                            ELSE Answers[p]]
          /\ \A p \in Requests : \A x : Replied(p, x)' <=> Replied(p, x) \/ (p \in {q} /\ x = "ok")
      <3>1. "ok" \in ReplyKinds /\ {q} \in SUBSET Requests
        BY <1>0
      <3> QED
        BY <1>1, <3>1, AnswersSent
    <2> QED
      BY <1>0, <2>1, Zenon
  <1>3. Relay!MayAnswer(q) /\ q \notin GivenUp
    BY <1>0, StillOpen
  <1>4. \A p \in Requests : Dropped(p)' <=> Dropped(p)
    <2>1. ~Dropped(q) /\ ~Dropped(q)'
      BY <1>0, <1>2, <1>3 DEF Dropped, GivenUp
    <2>2. \A p \in Requests \ {q} : Dropped(p)' <=> Dropped(p)
      BY <1>2 DEF Dropped
    <2> QED
      BY <2>1, <2>2
  <1>5. GivenUp' = GivenUp
    BY <1>4 DEF GivenUp
  <1>6. Answers' = [Answers EXCEPT ![q] = Append(@, "response")]
    BY <1>2 DEF Answers
  <1>7. Called' = Called /\ Called[q] = "result"
    BY <1>0 DEF Called
  <1>8. Relay!Respond(q)
    BY <1>3, <1>5, <1>6, <1>7 DEF Relay!Respond
  <1> QED
    BY <1>0, <1>8 DEF Relay!Next

\* Every step is a step of the relay.
LEMMA RelayStep ==
    ASSUME TypeInv, CallInv, RosInv, NotDisplaced, [Next]_vars
    PROVE  [Relay!Next]_(Relay!vars)
  <1>0. /\ (faults' > 0) \in {faults > 0, TRUE}
        /\ FinalIsOver /\ TableHoldsCalls /\ PolledFirst /\ CallUnanswered
    BY FaultsCounted DEF CallInv
  <1> USE DEF tableVars, futureVars, pollVars, closeVars, clientVars
  <1>1. ASSUME UNCHANGED <<request, ros, replies, terminal>> PROVE Relay!Next
    BY <1>0, <1>1, Unseen DEF Asked
  <1>2. ASSUME NEW q \in Requests, HakCancels(q) \/ Due(q) \/ DropCancel(q) PROVE Relay!Next
    BY <1>1, <1>2 DEF HakCancels, Due, DropCancel
  <1>3. ASSUME NEW q \in Requests, DropDuplicate(q) PROVE Relay!Next
    <2>1. Asked' = Asked
      BY <1>3 DEF DropDuplicate, Poll, Asked, TypeInv
    <2> QED
      BY <1>0, <1>3, <2>1, Unseen DEF DropDuplicate
  <1>4. ASSUME Register \/ Watch \/ CloseStop \/ CloseJoin \/ UNCHANGED vars PROVE Relay!Next
    BY <1>1, <1>4 DEF Register, Watch, CloseStop, CloseJoin, vars
  <1>5. ASSUME NEW q \in Requests, HakRequests(q) PROVE Relay!Next
    <2>1. q \notin Asked /\ Asked' = Asked \cup {q}
      BY <1>5 DEF HakRequests, Asked, TypeInv
    <2>2. Answers' = Answers /\ Called' = Called /\ GivenUp' = GivenUp
      BY <1>5 DEF HakRequests, Answers, Called, GivenUp, Dropped, Replied
    <2>3. Relay!Ask(q)
      BY <2>1, <2>2 DEF Relay!Ask
    <2> QED
      BY <1>0, <2>3 DEF Relay!Next
  <1>6. ASSUME NEW q \in Requests, RosResponds(q) PROVE Relay!Next
    <2>1. ros' = [p \in Requests |-> IF p \in {q} THEN "done" ELSE ros[p]]
      BY <1>6 DEF RosResponds, RosInv
    <2> QED
      BY <1>0, <1>6, <2>1, CallsEnded DEF RosResponds
  <1>7. ASSUME NEW qs, Canceled(qs), UNCHANGED <<request, replies, terminal>> PROVE Relay!Next
    <2> DEFINE K == {q \in Requests : q \in qs /\ ros[q] = "active"}
    <2>1. ros' = [q \in Requests |-> IF q \in K THEN "canceled" ELSE ros[q]]
      BY <1>7 DEF Canceled
    <2>2. K \in SUBSET Requests /\ \A q \in K : ros[q] = "active"
      OBVIOUS
    <2> HIDE DEF K
    <2> QED
      BY <1>0, <1>7, <2>1, <2>2, CallsEnded
  <1>8. ASSUME CancelFutures \/ CloseEndpoints PROVE Relay!Next
    BY <1>7, <1>8 DEF CancelFutures, CloseEndpoints
  <1>9. ASSUME NEW q \in Requests, Poll(q)
        PROVE  /\ Asked' = Asked /\ q \in Asked /\ replies[q] = <<>> /\ request[q] # "polled"
    BY <1>0, <1>9 DEF Poll, Asked, PolledFirst, TypeInv
  <1>10. ASSUME NEW q \in Asked, NEW kind \in {"error", "failed"}, Reply(q, kind), Relay!MayAnswer(q),
                UNCHANGED <<terminal, Asked, ros>>
         PROVE  Relay!Next
    <2>1. q \in Requests /\ kind \in ReplyKinds /\ kind # "canceled"
      BY DEF Asked, ReplyKinds
    <2>2. replies' = [p \in Requests |-> IF p \in {q} THEN Append(replies[p], kind) ELSE replies[p]]
      BY <1>10, <2>1, OneSent
    <2>3. terminal' = terminal \cup {} /\ {q} \in SUBSET Asked /\ {} \in SUBSET Asked
      BY <1>10
    <2> QED
      BY <1>0, <1>10, <2>1, <2>2, <2>3, Refused
  <1>11. ASSUME NEW q \in Requests, DecodeFails(q) \/ RefuseRequest(q) PROVE Relay!Next
    <2>1. Asked' = Asked /\ q \in Asked /\ Relay!MayAnswer(q)
      BY <1>9, <1>11, NotAnswered DEF DecodeFails, RefuseRequest
    <2>2. Reply(q, "error") /\ UNCHANGED <<terminal, ros>>
      BY <1>11 DEF DecodeFails, RefuseRequest
    <2> QED
      BY <1>10, <2>1, <2>2
  <1>12. ASSUME NEW q \in Requests, Call(q) PROVE Relay!Next
    <2>1. Asked' = Asked /\ q \in Asked /\ Answers[q] = <<>> /\ ros[q] = "none"
      BY <1>9, <1>12, NotAnswered DEF Call, RosInv
    <2>2. Answers' = Answers /\ GivenUp' = GivenUp
      BY <1>12 DEF Call, Answers, GivenUp, Dropped, Replied
    <2>3. Called[q] = "none" /\ Called' = [Called EXCEPT ![q] = "active"]
      BY <1>12, <2>1 DEF Call, Called, RosInv
    <2>4. Relay!PassOn(q)
      BY <2>1, <2>2, <2>3 DEF Relay!PassOn
    <2> QED
      BY <1>0, <1>12, <2>4 DEF Relay!Next
  <1>13. ASSUME WatchFails PROVE Relay!Next
    <2>1. pollRequest \in Requests /\ pollRequest \in Asked /\ replies[pollRequest] = <<>>
      BY <1>0, <1>13 DEF WatchFails, CallUnanswered, Calling, Asked, TypeInv
    <2>2. Relay!MayAnswer(pollRequest)
      BY <2>1, NotAnswered
    <2>3. Reply(pollRequest, "error") /\ UNCHANGED <<terminal, Asked, ros>>
      BY <1>13 DEF WatchFails, Asked
    <2> QED
      BY <1>10, <2>1, <2>2, <2>3
  <1>14. ASSUME NEW q \in Requests, PollCancel(q), Active(q)
         PROVE  /\ q \in Asked /\ Relay!MayAnswer(q) /\ ~Relay!Responded(q)
                /\ Context(q) \in Asked /\ ~Relay!Responded(Context(q))
    <2>1. cancel[q] = "sent" /\ request[q] # "none" /\ ~Settled(q) /\ ~Over(q)
      BY <1>0, <1>14 DEF PollCancel, PolledFirst, Settled, Over
    <2>2. /\ Context(q) \in Requests \ terminal /\ Context(Context(q)) = Context(q)
          /\ ~Over(Context(q)) /\ Context(q) \in registered
      BY <1>0, <1>14, FoundOpen, ServiceClientAssumption DEF TableHoldsCalls, Context, Active
    <2>3. q \notin terminal
      BY <1>14, <2>1, <2>2 DEF NotDisplaced, TypeInv
    <2>4. request[Context(q)] = "polled"
      BY <1>0, <2>2 DEF PolledFirst
    <2>5. Relay!MayAnswer(q) /\ ~Relay!Responded(q)
      BY <1>0, <2>1, <2>3, StillOpen
    <2>6. ~Relay!Responded(Context(q))
      BY <1>0, <2>2, StillOpen
    <2> QED
      BY <2>1, <2>2, <2>4, <2>5, <2>6 DEF Asked
  <1>15. ASSUME NEW q \in Requests, CancelFails(q) PROVE Relay!Next
    <2>1. q \in Asked /\ Relay!MayAnswer(q)
      BY <1>14, <1>15 DEF CancelFails
    <2>2. Reply(q, "failed") /\ UNCHANGED <<terminal, Asked, ros>>
      BY <1>15 DEF CancelFails, Asked
    <2> QED
      BY <1>10, <2>1, <2>2
  <1>16. ASSUME NEW q \in Requests, CancelCall(q) PROVE Relay!Next
    <2> DEFINE T == {Context(q)}
    <2>1. /\ {q} \in SUBSET Asked /\ \A p \in {q} : Relay!MayAnswer(p) /\ ~Relay!Responded(p)
          /\ T \in SUBSET Asked /\ \A p \in T : ~Relay!Responded(p)
      BY <1>14, <1>16 DEF CancelCall
    <2>2. replies' = [p \in Requests |-> IF p \in {q} THEN Append(replies[p], "canceled") ELSE replies[p]]
      BY <1>16, OneSent DEF CancelCall, ReplyKinds
    <2>3. terminal' = terminal \cup T /\ UNCHANGED <<Asked, ros>>
      BY <1>16 DEF CancelCall, Close, Asked
    <2> HIDE DEF T
    <2> QED
      BY <1>0, <2>1, <2>2, <2>3, Refused
  <1>17. ASSUME NEW q \in Requests, Context(q) = q
         PROVE  /\ q \in Asked /\ Relay!MayAnswer(q) /\ ~Relay!Responded(q)
                /\ ~Over(q) /\ q \notin terminal
    <2>1. Active(q) /\ q \in registered
      BY <1>0, <1>17, ServiceClientAssumption DEF Active, Context, TableHoldsCalls
    <2>2. ~Over(q) /\ q \notin terminal
      BY <1>0, <1>17, <2>1, FoundOpen
    <2>3. q \in Asked
      BY <1>0, <2>1 DEF PolledFirst, Asked
    <2> QED
      BY <1>0, <2>2, <2>3, StillOpen
  <1>18. ASSUME Expire PROVE Relay!Next
    <2> DEFINE K == {q \in due \ terminal : Context(q) = q}
    <2>1. K \in SUBSET Asked /\ \A q \in K : Relay!MayAnswer(q) /\ ~Relay!Responded(q)
      BY <1>17 DEF TypeInv
    <2>2. replies' = [q \in Requests |-> IF q \in K THEN Append(replies[q], "error") ELSE replies[q]]
      BY <1>18 DEF Expire
    <2>3. terminal' = terminal \cup K /\ UNCHANGED <<Asked, ros>>
      BY <1>18 DEF Expire, Close, Asked
    <2> HIDE DEF K
    <2> QED
      BY <1>0, <2>1, <2>2, <2>3, Refused
  <1>19. ASSUME CloseClear PROVE Relay!Next
    <2> DEFINE T == {q \in Requests : Context(q) = q}
    <2>1. T \in SUBSET Asked /\ \A q \in T : ~Relay!Responded(q)
      BY <1>17
    <2>2. replies' = [q \in Requests |-> IF q \in {} THEN Append(replies[q], "error") ELSE replies[q]]
      BY <1>19 DEF CloseClear, TypeInv
    <2>3. terminal' = terminal \cup T /\ UNCHANGED <<Asked, ros>>
      BY <1>19 DEF CloseClear, Clear, Asked
    <2>4. {} \in SUBSET Asked /\ \A q \in {} : Relay!MayAnswer(q)
      OBVIOUS
    <2> HIDE DEF T
    <2> QED
      BY <1>0, <2>1, <2>2, <2>3, <2>4, Refused
  <1>20. ASSUME NEW q \in Requests, OnRosResponse(q) PROVE Relay!Next
    <2>1. UNCHANGED <<request, ros, Asked>>
      BY <1>20 DEF OnRosResponse, Asked
    <2>2. CASE ~Live(q)
      BY <1>1, <1>20, <2>1, <2>2 DEF OnRosResponse
    <2>3. CASE Live(q)
      <3>1. /\ q \in Asked /\ Relay!MayAnswer(q) /\ ~Relay!Responded(q)
            /\ ~Over(q) /\ q \notin terminal
        BY <1>17, <2>3 DEF Live
      <3>2. terminal' = terminal \cup {q}
        BY <1>20, <2>3 DEF OnRosResponse, Close
      <3>3. CASE ros[q] = "done" /\ Reply(q, "ok")
        BY <1>0, <2>1, <3>1, <3>2, <3>3, ResponseSent
      <3>4. CASE Reply(q, "error")
        <4>1. replies' = [p \in Requests |-> IF p \in {q} THEN Append(replies[p], "error")
                                             ELSE replies[p]]
          BY <3>4, OneSent DEF ReplyKinds
        <4>2. /\ {q} \in SUBSET Asked
              /\ \A p \in {q} : Relay!MayAnswer(p) /\ ~Relay!Responded(p)
          BY <3>1
        <4> QED
          BY <1>0, <2>1, <3>2, <4>1, <4>2, Refused
      <3> QED
        BY <1>20, <2>3, <3>3, <3>4 DEF OnRosResponse
    <2> QED
      BY <2>2, <2>3
  <1> QED
    BY <1>2, <1>3, <1>4, <1>5, <1>6, <1>8, <1>11, <1>12, <1>13, <1>15, <1>16, <1>18, <1>19, <1>20
       DEF Next, PollThread, Environment, Destroying

\* The node implements the relay of a call: however the ROS response, the cancel request, the
\* timeout and the shutdown race, a Hakoniwa request makes one ROS call, its normal reply is the
\* response of that call, and a request that was canceled, has timed out or was closed gets none.
THEOREM CallRefined == Spec => CallSpec
  <1>1. Init => Relay!Init /\ RosInv /\ NotDisplaced
    <2> SUFFICES ASSUME Init PROVE Relay!Init /\ RosInv /\ NotDisplaced
      OBVIOUS
    <2>1. Asked = {} /\ GivenUp = {} /\ Answers = [q \in Requests |-> <<>>]
      BY DEF Init, Asked, GivenUp, Dropped, Replied, Answers
    <2>2. Called = [q \in Requests |-> "none"] /\ (faults > 0) = FALSE
      BY DEF Init, Called
    <2> QED
      BY <2>1, <2>2 DEF Init, Relay!Init, RosInv, NotDisplaced
  <1>2. TypeInv /\ CallInv /\ TypeInv' /\ RosInv /\ NotDisplaced /\ [Next]_vars
        => RosInv' /\ NotDisplaced' /\ [Relay!Next]_(Relay!vars)
    BY RosStep, DisplacedStep, RelayStep DEF CallInv
  <1> QED
    BY <1>1, <1>2, CallInvariant, PTL DEF Spec, CallSpec, Relay!Spec
=============================================================================
