------------------------ MODULE ServiceServerBridge ------------------------
(***************************************************************************)
(* One service of HakoniwaRosServiceServerNode (service_server_node.py): a *)
(* ROS 2 Service whose calls are made by a pool of Hakoniwa RPC clients    *)
(* (service_client_pool.py), each call under a deadline of the bridge      *)
(* (service_call_lifecycle.py).                                            *)
(*                                                                         *)
(* Four kinds of threads meet here: the ROS callbacks, which are           *)
(* coroutines in a ReentrantCallbackGroup; the RPC workers, which run the  *)
(* done callback of an RPC future; the threading.Timer of each call; and   *)
(* the thread that destroys the node.  Every action is one step of one of  *)
(* them, between two acquisitions of the pool's or the call's lock.        *)
(* A fifth, the main thread, runs the executor in _spin_service_executor:  *)
(* it starts the coroutines, resumes them after their await, and meets the *)
(* exceptions they raise.                                                  *)
(*                                                                         *)
(* External: the RPC futures of hakoniwa-pdu-rpc.  A call without timeout  *)
(* (timeout_usec=0) need never end unless it is canceled.                  *)
(***************************************************************************)
EXTENDS Naturals, Sequences, SequencesExt

CONSTANTS
    Calls,      \* ROS requests
    Clients,    \* RPC clients: some of them, max_clients, make the pool
    NoCall, NoClient,
    MaxFaults,  \* bound: exceptions raised by conversions and by the runtimes
    MayClose    \* whether rclpy may shut down, which ends the executor's loop

ASSUME ServiceServerAssumption ==
    /\ IsFiniteSet(Clients) /\ Clients # {}
    /\ NoCall \notin Calls /\ NoClient \notin Clients
    /\ MaxFaults \in Nat /\ MayClose \in BOOLEAN

VARIABLES
    \* the callback of a ROS request
    pc,
    lease,        \* its RpcClientLease
    answer,       \* "response", or "rejected" (ServiceCallRejected)
    completion,   \* its RclpyFuture: "none", "result" or "error"
    \* its BridgeCallLifecycle
    watched,      \* add_done_callback(_complete) has been called
    timer,        \* _timer
    expired,      \* _expired
    completed,    \* _completed
    report,       \* _complete, between the lock and the report
    \* RpcClientPool
    available,    \* _available
    leased,       \* _leased
    future,       \* the future of a lease
    poolClosed,   \* _closed
    \* _spin_service_executor, then _close_runtime and RpcClientPool.close
    closePc,
    active,       \* its local active
    cancels,      \* what client.future.cancel() has come to: "none", "done" or "raised"
    \* external: the RPC futures and the RPC clients
    rpc, cancelAsked, open,
    faults

callVars   == <<pc, lease, answer>>
lifeVars   == <<watched, timer, expired, completed, report, completion>>
poolVars   == <<available, leased, future, poolClosed>>
closeVars  == <<closePc, active, cancels>>
rpcVars    == <<rpc, cancelAsked, open>>
vars       == <<callVars, lifeVars, poolVars, closeVars, rpcVars, faults>>

Ended == {"result", "error"}

Init ==
    /\ pc = [k \in Calls |-> "none"]
    /\ lease = [k \in Calls |-> NoClient]
    /\ answer = [k \in Calls |-> "none"]
    /\ completion = [k \in Calls |-> "none"]
    /\ watched = [k \in Calls |-> FALSE]
    /\ timer = [k \in Calls |-> "none"]
    /\ expired = [k \in Calls |-> FALSE] /\ completed = [k \in Calls |-> FALSE]
    /\ report = [k \in Calls |-> "none"]
    /\ open \in SUBSET Clients \ {{}} /\ available \in SetToSeqs(open) /\ leased = {}
    /\ future = [c \in Clients |-> NoCall] /\ poolClosed = FALSE
    /\ closePc = "open" /\ active = {} /\ cancels = [c \in Clients |-> "none"]
    /\ rpc = [k \in Calls |-> "none"] /\ cancelAsked = {}
    /\ faults = 0

Fault == faults < MaxFaults /\ faults' = faults + 1

-----------------------------------------------------------------------------
(***************************************************************************)
(* The callback of a ROS request.                                          *)
(***************************************************************************)
\* rclpy takes a request while the service exists
RosCalls(k) ==
    /\ pc[k] = "none" /\ closePc = "open"
    /\ pc' = [pc EXCEPT ![k] = "requested"]
    /\ UNCHANGED <<lease, answer, lifeVars, poolVars, closeVars, rpcVars, faults>>

\* pool.acquire()
Acquire(k) ==
    /\ pc[k] = "requested" /\ ~poolClosed /\ available # <<>>
    /\ lease' = [lease EXCEPT ![k] = Head(available)]
    /\ available' = Tail(available)
    /\ leased' = leased \cup {Head(available)}
    /\ pc' = [pc EXCEPT ![k] = "leased"]
    /\ UNCHANGED <<answer, lifeVars, future, poolClosed, closeVars, rpcVars, faults>>

\* BUSY, or the pool is closed: the request is never queued
Busy(k) ==
    /\ pc[k] = "requested" /\ (poolClosed \/ available = <<>>)
    /\ answer' = [answer EXCEPT ![k] = "rejected"]
    /\ pc' = [pc EXCEPT ![k] = "raised"]
    /\ UNCHANGED <<lease, lifeVars, poolVars, closeVars, rpcVars, faults>>

\* call_async, which raises when the client is closed
CallAsync(k) ==
    /\ pc[k] = "leased" /\ lease[k] \in open
    /\ rpc' = [rpc EXCEPT ![k] = "active"]
    /\ pc' = [pc EXCEPT ![k] = "called"]
    /\ UNCHANGED <<lease, answer, lifeVars, poolVars, closeVars, cancelAsked, open, faults>>

\* pool.set_future(lease, rpc_future)
SetFuture(k) ==
    /\ pc[k] = "called"
    /\ future' = [future EXCEPT ![lease[k]] = k]
    /\ pc' = [pc EXCEPT ![k] = "watch"]
    /\ UNCHANGED <<lease, answer, lifeVars, available, leased, poolClosed, closeVars, rpcVars,
                   faults>>

\* BridgeCallLifecycle: rpc_future.add_done_callback(self._complete)
Watch(k) ==
    /\ pc[k] = "watch"
    /\ watched' = [watched EXCEPT ![k] = TRUE]
    /\ pc' = [pc EXCEPT ![k] = "arm"]
    /\ UNCHANGED <<lease, answer, timer, expired, completed, report, completion, poolVars,
                   closeVars, rpcVars, faults>>

\* self._timer.start(): a timer canceled before does not fire
Arm(k) ==
    /\ pc[k] = "arm"
    /\ timer' = [timer EXCEPT ![k] = IF @ = "off" THEN "off" ELSE "armed"]
    /\ pc' = [pc EXCEPT ![k] = "awaiting"]
    /\ UNCHANGED <<lease, answer, watched, expired, completed, report, completion, poolVars,
                   closeVars, rpcVars, faults>>

\* an exception on the way: the conversion, call_async, or the lifecycle raises
CallFails(k) ==
    /\ \/ pc[k] \in {"leased", "watch", "arm"} /\ Fault
       \/ pc[k] = "leased" /\ lease[k] \notin open /\ UNCHANGED faults
    /\ answer' = [answer EXCEPT ![k] = "rejected"]
    /\ pc' = [pc EXCEPT ![k] = "releasing"]
    /\ UNCHANGED <<lease, lifeVars, poolVars, closeVars, rpcVars>>

\* rpc_response = await completion: only the executor resumes a coroutine
Resume(k) ==
    /\ pc[k] = "awaiting" /\ completion[k] # "none" /\ closePc = "open"
    /\ \/ /\ answer' = [answer EXCEPT ![k] = IF completion[k] = "result"
                                             THEN "response" ELSE "rejected"]
          /\ UNCHANGED faults
       \* the conversion of the response raises
       \/ Fault /\ answer' = [answer EXCEPT ![k] = "rejected"]
    /\ pc' = [pc EXCEPT ![k] = "releasing"]
    /\ UNCHANGED <<lease, lifeVars, poolVars, closeVars, rpcVars>>

\* (mutant) the client goes back to the pool but stays leased
ReturnOnly(c) ==
    /\ available' = IF poolClosed THEN available ELSE <<c>> \o available
    /\ UNCHANGED leased

\* the client goes back to the head of the pool, unless the pool is closed
Return(c) ==
    /\ available' = IF poolClosed THEN available ELSE <<c>> \o available
    /\ leased' = leased \ {c}

\* finally: pool.release(lease).  The callback then returns its response, which
\* rclpy sends or fails to send, or raises ServiceCallRejected.
Release(k) ==
    /\ pc[k] = "releasing" /\ lease[k] \in leased
    /\ Return(lease[k])
    /\ future' = [future EXCEPT ![lease[k]] = NoCall]
    /\ \/ /\ pc' = [pc EXCEPT ![k] = IF answer[k] = "response" THEN "done" ELSE "raised"]
          /\ UNCHANGED faults
       \/ answer[k] = "response" /\ Fault /\ pc' = [pc EXCEPT ![k] = "failed"]
    /\ UNCHANGED <<lease, answer, lifeVars, poolClosed, closeVars, rpcVars>>

\* (mutant) the first rejected call ends executor.spin()
SurvivesNone(k) == FALSE

\* the loop of _spin_service_executor goes on after a ServiceCallRejected, and
\* after no other exception
Survives(k) == pc[k] = "raised"

\* executor.spin() raises what a callback has raised
SpinRaises(k) ==
    /\ closePc = "open" /\ pc[k] \in {"raised", "failed"}
    /\ closePc' = IF Survives(k) THEN "open" ELSE "left"
    /\ pc' = [pc EXCEPT ![k] = "done"]
    /\ UNCHANGED <<lease, answer, lifeVars, poolVars, active, cancels, rpcVars, faults>>

-----------------------------------------------------------------------------
(***************************************************************************)
(* BridgeCallLifecycle: the timer against the completion of the future.    *)
(***************************************************************************)
\* a completed call cannot expire any more
MayExpire(k) == ~completed[k]

\* _expire
Expire(k) ==
    /\ timer[k] = "armed"
    /\ expired' = [expired EXCEPT ![k] = @ \/ MayExpire(k)]
    /\ timer' = [timer EXCEPT ![k] = IF MayExpire(k) THEN "cancelling" ELSE "off"]
    /\ UNCHANGED <<callVars, watched, completed, report, completion, poolVars, closeVars,
                   rpcVars, faults>>

\* (mutant) the deadline rejects the request at once
RejectNow(k) ==
    /\ completion' = [completion EXCEPT ![k] = IF @ = "none" THEN "error" ELSE @]
    /\ cancelAsked' = cancelAsked \cup {k}

\* (mutant) the deadline leaves the RPC call alone
LeaveRunning(k) == UNCHANGED <<completion, cancelAsked>>

\* rpc_future.cancel(): the future stays the authority for the completion
CancelExpired(k) ==
    /\ cancelAsked' = cancelAsked \cup {k}
    /\ UNCHANGED completion

ExpireCancel(k) ==
    /\ timer[k] = "cancelling"
    /\ timer' = [timer EXCEPT ![k] = "off"]
    /\ \/ CancelExpired(k) /\ UNCHANGED faults
       \* cancel() raises
       \/ Fault /\ UNCHANGED <<completion, cancelAsked>>
    /\ UNCHANGED <<callVars, watched, expired, completed, report, poolVars, closeVars, rpc,
                   open>>

\* _complete, the done callback of the future: the decision under the lock
Complete(k) ==
    /\ watched[k] /\ rpc[k] \in Ended /\ ~completed[k]
    /\ completed' = [completed EXCEPT ![k] = TRUE]
    /\ report' = [report EXCEPT ![k] = IF expired[k] THEN "late" ELSE "intime"]
    /\ UNCHANGED <<callVars, watched, timer, expired, completion, poolVars, closeVars, rpcVars,
                   faults>>

\* (mutant) a result that comes after the deadline is forwarded
OutcomeAnyway(k) == rpc[k]

\* a result that comes after the deadline is turned into BridgeTimeoutError
Outcome(k) == IF report[k] = "late" THEN "error" ELSE rpc[k]

\* ... the timer is canceled, and the outcome handed to the ROS callback
Report(k) ==
    /\ report[k] \in {"intime", "late"}
    /\ timer' = [timer EXCEPT ![k] = IF @ = "cancelling" THEN @ ELSE "off"]
    /\ completion' = [completion EXCEPT ![k] = Outcome(k)]
    /\ report' = [report EXCEPT ![k] = "done"]
    /\ UNCHANGED <<callVars, watched, expired, completed, poolVars, closeVars, rpcVars, faults>>

-----------------------------------------------------------------------------
\* The RPC call ends (external): a canceled one may still end with a result.
RpcEnds(k) ==
    /\ rpc[k] = "active"
    /\ \E s \in Ended : rpc' = [rpc EXCEPT ![k] = s]
    /\ UNCHANGED <<callVars, lifeVars, poolVars, closeVars, cancelAsked, open, faults>>

RpcAnswersCancel(k) == k \in cancelAsked /\ RpcEnds(k)

-----------------------------------------------------------------------------
(***************************************************************************)
(* _close_runtime and RpcClientPool.close.                                 *)
(***************************************************************************)
\* spin() has returned or raised; the services are destroyed: no more requests
CloseServices ==
    /\ closePc = "left" \/ (MayClose /\ closePc = "open")
    /\ closePc' = "services"
    /\ UNCHANGED <<callVars, lifeVars, poolVars, active, cancels, rpcVars, faults>>

\* the pool is closed, and the clients with a future are active
CloseMark ==
    /\ closePc = "services"
    /\ closePc' = "cancel"
    /\ poolClosed' = TRUE
    /\ active' = {c \in Clients : future[c] # NoCall}
    /\ UNCHANGED <<callVars, lifeVars, available, leased, future, cancels, rpcVars, faults>>

\* (mutant) a client is closed without canceling its call
CloseWithoutCancel(c) ==
    cancels' = [cancels EXCEPT ![c] = "done"] /\ UNCHANGED <<cancelAsked, faults>>

\* client.future.cancel(); that it raises, as it does without a future, is
\* swallowed
CancelActive(c) ==
    \/ /\ future[c] # NoCall
       /\ cancelAsked' = cancelAsked \cup {future[c]}
       /\ cancels' = [cancels EXCEPT ![c] = "done"]
       /\ UNCHANGED faults
    \/ /\ (future[c] = NoCall /\ UNCHANGED faults) \/ Fault
       /\ cancels' = [cancels EXCEPT ![c] = "raised"]
       /\ UNCHANGED cancelAsked

\* one active client after the other
CloseCancel(c) ==
    /\ closePc = "cancel" /\ c \in active /\ cancels[c] = "none"
    /\ CancelActive(c)
    /\ UNCHANGED <<callVars, lifeVars, poolVars, closePc, active, rpc, open>>

\* client.future.result(timeout=remaining) for every active client: the wait is
\* over when their calls have ended, and after 5 seconds although they have not
CloseWait ==
    /\ closePc = "cancel" /\ \A c \in active : cancels[c] # "none"
    /\ closePc' = "close"
    /\ UNCHANGED <<callVars, lifeVars, poolVars, active, cancels, rpcVars, faults>>

\* client.rpc_client.close(), one after the other
CloseClient(c) ==
    /\ closePc = "close" /\ c \in open
    /\ \/ /\ open' = open \ {c}
          /\ closePc' = IF open' = {} THEN "closed" ELSE "close"
          /\ UNCHANGED faults
       \* close() raises: the clients after it are not closed
       \/ Fault /\ closePc' = "raised" /\ UNCHANGED open
    /\ UNCHANGED <<callVars, lifeVars, poolVars, active, cancels, rpc, cancelAsked>>

-----------------------------------------------------------------------------
Callback(k) ==
    \/ Acquire(k) \/ Busy(k) \/ CallAsync(k) \/ SetFuture(k) \/ Watch(k) \/ Arm(k)
    \/ CallFails(k) \/ Resume(k) \/ Release(k) \/ SpinRaises(k)

Timer(k)     == Expire(k) \/ ExpireCancel(k)
RpcWorker(k) == Complete(k) \/ Report(k)

Closing ==
    \/ CloseServices \/ CloseMark \/ CloseWait
    \/ \E c \in Clients : CloseCancel(c) \/ CloseClient(c)

Next ==
    \/ \E k \in Calls : RosCalls(k) \/ Callback(k) \/ Timer(k) \/ RpcWorker(k) \/ RpcEnds(k)
    \/ Closing

Spec == Init /\ [][Next]_vars

\* The threads of the bridge run on, and a canceled RPC call ends.
FairSpec ==
    /\ Spec
    /\ \A k \in Calls : /\ WF_vars(Callback(k)) /\ WF_vars(Timer(k))
                        /\ WF_vars(RpcWorker(k)) /\ WF_vars(RpcAnswersCancel(k))

-----------------------------------------------------------------------------
(***************************************************************************)
(* Properties.                                                             *)
(***************************************************************************)
Holding == {"leased", "called", "watch", "arm", "awaiting", "releasing"}

\* A client is lent to one callback at a time, and until the pool is closed it
\* is either lent or available, once: no step of acquire and release, taken by
\* however many callbacks, loses a client or lends it twice.
PoolConsistent ==
    /\ leased = {lease[k] : k \in {j \in Calls : pc[j] \in Holding}}
    /\ \A j, k \in Calls : pc[j] \in Holding /\ pc[k] \in Holding /\ lease[j] = lease[k]
                           => j = k
    /\ \A i, j \in 1 .. Len(available) : available[i] = available[j] => i = j
    /\ ~poolClosed => Range(available) = open \ leased

\* While nothing raises, a client is returned to the pool only after its RPC call
\* has ended, also when the bridge's deadline expires first: the next call finds
\* it idle.
ReturnedIdle ==
    faults = 0 /\ ~poolClosed =>
        \A k \in Calls : lease[k] \in Range(available) => rpc[k] # "active"

\* A result that arrives after the deadline never becomes a ROS response, nor
\* does a call that completed in time expire later.
LateResultDiscarded == \A k \in Calls : answer[k] = "response" => ~expired[k]

\* When the RPC clients are closed, every call still in flight that the pool
\* knew of when it was closed has been canceled first, unless its own cancel()
\* raised: the exception of one client leaves no other call running.
KnownCallsCanceled ==
    \A c \in active \ open :
        future[c] # NoCall /\ rpc[future[c]] = "active"
        => future[c] \in cancelAsked \/ (cancels[c] = "raised" /\ faults > 0)

\* Shutdown cancels every active call before it closes the RPC client.
CanceledBeforeClose ==
    \A k \in Calls : rpc[k] = "active" /\ lease[k] \notin open => k \in cancelAsked

\* Every ROS call ends, whether the RPC server answers or not, and whatever
\* becomes of the calls beside it: a rejected call does not stop the executor
\* that the others need to be resumed.  A fault or the shutdown excuses it.
EveryCallEnds ==
    \A k \in Calls :
        pc[k] = "requested" ~> pc[k] = "done" \/ faults > 0 \/ closePc \notin {"open", "left"}

-----------------------------------------------------------------------------
\* The callback has returned or raised.
Over(k) == pc[k] \in {"raised", "failed", "done"}

Asked   == {k \in Calls : pc[k] # "none"}
Answers == [k \in Calls |-> IF ~Over(k) THEN <<>>
                            ELSE IF answer[k] = "response" THEN <<"response">> ELSE <<"refusal">>]
GivenUp == {k \in Calls : expired[k]}

\* The contract the bridge keeps with its ROS clients: a call is made by one RPC call,
\* and its response is the result of that call, if its deadline has not decided it
\* before; a call whose deadline has come is refused, whatever RPC answers.
Relay == INSTANCE ServiceRelay
         WITH asked <- Asked, call <- rpc, answers <- Answers, givenUp <- GivenUp,
              disturbed <- faults > 0
CallSpec == Relay!Spec
=============================================================================
