------------------------ MODULE ServiceClientBridge ------------------------
(***************************************************************************)
(* HakoniwaRosServiceClientNode (service_client_node.py): Hakoniwa RPC     *)
(* servers whose requests are answered by ROS 2 services.                  *)
(*                                                                         *)
(* One poll thread takes the requests and the cancel requests of the       *)
(* Hakoniwa clients and expires the calls that take too long; the executor *)
(* runs the done callbacks of the ROS futures; destroy_node() may close    *)
(* the node.  They share the dictionary _contexts, in which a call waits   *)
(* for its ROS response under the token of its request.  A reply is sent   *)
(* inside the lock that guards the dictionary; the ROS futures are         *)
(* canceled outside of it.                                                 *)
(*                                                                         *)
(* External: the RPC endpoint, the Hakoniwa clients, which reuse a token   *)
(* once the request that had it is settled, and the ROS futures.           *)
(***************************************************************************)
EXTENDS Naturals, Sequences, FiniteSets

CONSTANTS
    Requests,    \* requests of the Hakoniwa clients
    Tokens,      \* (server index, request token)
    TokenOf,     \* the token of a request
    NoRequest,
    MaxRequests, \* bound: requests made in a behaviour
    MaxFaults,   \* bound: exceptions raised by the two runtimes
    MayClose     \* whether destroy_node() may be called

ASSUME ServiceClientAssumption ==
    /\ TokenOf \in [Requests -> Tokens] /\ NoRequest \notin Requests
    /\ MaxRequests \in Nat /\ MaxFaults \in Nat /\ MayClose \in BOOLEAN

VARIABLES
    contexts,   \* _contexts: the request whose _CallContext a token leads to
    registered, \* the requests whose context has been stored
    terminal,   \* the terminal flag of their contexts
    watched,    \* the requests whose future calls _on_ros_response
    handled,    \* ... whose _on_ros_response has run
    pollPc, pollRequest,
    toCancel,   \* local futures of the poll thread
    closePc,
    closing,    \* local futures of _close_runtime
    \* external
    request,    \* REQUEST_IN of a request
    cancel,     \* REQUEST_CANCEL of a request
    replies,    \* the replies the node has tried to send to a request
    ros,        \* the ROS future of a request
    due,        \* the requests whose timeout_msec has passed
    faults

tableVars  == <<contexts, registered, terminal>>
futureVars == <<watched, handled, ros, due>>
pollVars   == <<pollPc, pollRequest, toCancel>>
closeVars  == <<closePc, closing>>
clientVars == <<request, cancel>>
vars == <<tableVars, futureVars, pollVars, closeVars, clientVars, replies, faults>>

Init ==
    /\ contexts = [t \in Tokens |-> NoRequest]
    /\ registered = {} /\ terminal = {} /\ watched = {} /\ handled = {}
    /\ pollPc = "poll" /\ pollRequest = NoRequest /\ toCancel = {}
    /\ closePc = "running" /\ closing = {}
    /\ request = [q \in Requests |-> "none"] /\ cancel = [q \in Requests |-> "none"]
    /\ replies = [q \in Requests |-> <<>>]
    /\ ros = [q \in Requests |-> "none"] /\ due = {}
    /\ faults = 0

Fault == faults < MaxFaults /\ faults' = faults + 1

\* the poll thread looks at _stop_requested only at the top of its loop, so it
\* may go on until it is joined
Polling == pollPc = "poll" /\ closePc \in {"running", "stopping"}

Context(q) == contexts[TokenOf[q]]

-----------------------------------------------------------------------------
(***************************************************************************)
(* The Hakoniwa clients, the ROS services and the clock (external).        *)
(***************************************************************************)
\* the token is free: what was asked with it before is answered, and no cancel
\* request for it is under way
HakRequests(q) ==
    /\ request[q] = "none" /\ Cardinality({p \in Requests : request[p] # "none"}) < MaxRequests
    /\ \A p \in Requests \ {q} :
           TokenOf[p] = TokenOf[q] /\ request[p] # "none"
           => replies[p] # <<>> /\ cancel[p] # "sent"
    /\ request' = [request EXCEPT ![q] = "sent"]
    /\ UNCHANGED <<tableVars, futureVars, pollVars, closeVars, cancel, replies, faults>>

HakCancels(q) ==
    /\ request[q] # "none" /\ cancel[q] = "none" /\ replies[q] = <<>>
    /\ cancel' = [cancel EXCEPT ![q] = "sent"]
    /\ UNCHANGED <<tableVars, futureVars, pollVars, closeVars, request, replies, faults>>

RosResponds(q) ==
    /\ ros[q] = "active"
    /\ ros' = [ros EXCEPT ![q] = "done"]
    /\ UNCHANGED <<tableVars, watched, handled, due, pollVars, closeVars, clientVars, replies,
                   faults>>

\* timeout_msec has passed since started_at
Due(q) ==
    /\ q \in registered \ due
    /\ due' = due \cup {q}
    /\ UNCHANGED <<tableVars, watched, handled, ros, pollVars, closeVars, clientVars, replies,
                   faults>>

-----------------------------------------------------------------------------
(***************************************************************************)
(* The poll thread: requests.                                              *)
(***************************************************************************)
Poll(q) ==
    /\ Polling /\ request[q] = "sent"
    /\ request' = [request EXCEPT ![q] = "polled"]

\* send_reply, send_error or send_cancel_reply: once called, the reply may have
\* gone out, whether the call raises or not
Reply(q, kind) == replies' = [replies EXCEPT ![q] = Append(@, kind)]

\* the request cannot be decoded: INVALID
DecodeFails(q) ==
    /\ Poll(q)
    /\ Reply(q, "error")
    /\ UNCHANGED <<tableVars, futureVars, pollVars, closeVars, cancel, faults>>

\* (mutant) a token in use is not noticed
NeverInUse(q) == FALSE

\* the token is in use
InUse(q) == Context(q) # NoRequest

\* duplicate token: only logged
DropDuplicate(q) ==
    /\ Poll(q) /\ InUse(q)
    /\ UNCHANGED <<tableVars, futureVars, pollVars, closeVars, cancel, replies, faults>>

\* NOT_SUPPORTED or INVALID: the ROS service is not ready, or the conversion of
\* the request fails; ERROR when call_async raises
RefuseRequest(q) ==
    /\ Poll(q) /\ ~InUse(q)
    /\ Reply(q, "error")
    /\ UNCHANGED <<tableVars, futureVars, pollVars, closeVars, cancel, faults>>

\* call_async
Call(q) ==
    /\ Poll(q) /\ ~InUse(q)
    /\ ros' = [ros EXCEPT ![q] = "active"]
    /\ pollPc' = "register" /\ pollRequest' = q
    /\ UNCHANGED <<tableVars, watched, handled, due, toCancel, closeVars, cancel, replies,
                   faults>>

\* the context is stored
Register ==
    /\ pollPc = "register"
    /\ contexts' = [contexts EXCEPT ![TokenOf[pollRequest]] = pollRequest]
    /\ registered' = registered \cup {pollRequest}
    /\ pollPc' = "watch"
    /\ UNCHANGED <<terminal, futureVars, pollRequest, toCancel, closeVars, clientVars, replies,
                   faults>>

\* future.add_done_callback
Watch ==
    /\ pollPc = "watch"
    /\ watched' = watched \cup {pollRequest}
    /\ pollPc' = "poll"
    /\ UNCHANGED <<tableVars, handled, ros, due, pollRequest, toCancel, closeVars, clientVars,
                   replies, faults>>

\* ... raises: ERROR, but the context stays
WatchFails ==
    /\ pollPc = "watch" /\ Fault
    /\ Reply(pollRequest, "error")
    /\ pollPc' = "poll"
    /\ UNCHANGED <<tableVars, futureVars, pollRequest, toCancel, closeVars, clientVars>>

-----------------------------------------------------------------------------
(***************************************************************************)
(* The poll thread: cancel requests and timeouts.                          *)
(***************************************************************************)
\* (mutant) an answered context stays in the dictionary
KeepContext(qs) == UNCHANGED contexts

\* _contexts.pop(key)
Pop(qs) == contexts' = [t \in Tokens |-> IF contexts[t] \in qs THEN NoRequest ELSE contexts[t]]

\* the contexts of the requests qs are terminal and leave the dictionary
Close(qs) == Pop(qs) /\ terminal' = terminal \cup qs

PollCancel(q) ==
    /\ Polling /\ cancel[q] = "sent" /\ request[q] # "sent"
    /\ cancel' = [cancel EXCEPT ![q] = "polled"]

Active(q) == Context(q) # NoRequest

\* no active ROS call: only logged
DropCancel(q) ==
    /\ PollCancel(q) /\ ~Active(q)
    /\ UNCHANGED <<tableVars, futureVars, pollVars, closeVars, request, replies, faults>>

\* send_cancel_reply; the future is canceled outside the lock
CancelCall(q) ==
    /\ PollCancel(q) /\ Active(q)
    /\ Reply(q, "canceled")
    /\ Close({Context(q)})
    /\ toCancel' = {Context(q)} /\ pollPc' = "cancel"
    /\ UNCHANGED <<registered, futureVars, pollRequest, closeVars, request, faults>>

\* ... raises: the call stays active
CancelFails(q) ==
    /\ PollCancel(q) /\ Active(q) /\ Fault
    /\ Reply(q, "failed")
    /\ UNCHANGED <<tableVars, futureVars, pollVars, closeVars, request>>

\* (mutant) a timeout leaves the ROS futures alone
ForgetFutures(qs) == toCancel' = {}

\* the futures of expired calls, canceled outside the lock
CollectFutures(qs) == toCancel' = qs

\* _expire_calls: ERROR for every call that is due
Expire ==
    /\ Polling
    /\ LET expired == {q \in due \ terminal : Context(q) = q}
       IN  /\ expired # {}
           /\ replies' = [q \in Requests |-> IF q \in expired THEN Append(replies[q], "error")
                                             ELSE replies[q]]
           /\ Close(expired)
           /\ CollectFutures(expired)
    /\ pollPc' = "cancel"
    /\ UNCHANGED <<registered, futureVars, pollRequest, closeVars, clientVars, faults>>

\* future.cancel(), which has no effect on a future that is done
Canceled(qs) == ros' = [q \in Requests |-> IF q \in qs /\ ros[q] = "active"
                                           THEN "canceled" ELSE ros[q]]

CancelFutures ==
    /\ pollPc = "cancel"
    /\ Canceled(toCancel)
    /\ toCancel' = {} /\ pollPc' = "poll"
    /\ UNCHANGED <<tableVars, watched, handled, due, pollRequest, closeVars, clientVars,
                   replies, faults>>

-----------------------------------------------------------------------------
(***************************************************************************)
(* _on_ros_response, all of it inside the lock.                            *)
(***************************************************************************)
\* (mutant) only the presence of the token is checked
TokenLive(q) == Context(q) # NoRequest

\* the call is still waiting, and the token still leads to it
Live(q) == q \notin terminal /\ Context(q) = q

OnRosResponse(q) ==
    /\ q \in watched \ handled /\ ros[q] \in {"done", "canceled"}
    /\ handled' = handled \cup {q}
    /\ IF Live(q)
       THEN /\ Close({q})
            /\ \/ ros[q] = "done" /\ Reply(q, "ok")
               \/ Reply(q, "error")   \* the future or the conversion raises
       ELSE UNCHANGED <<contexts, terminal, replies>>
    /\ UNCHANGED <<registered, watched, ros, due, pollVars, closeVars, clientVars, faults>>

-----------------------------------------------------------------------------
(***************************************************************************)
(* destroy_node().  The join of the poll thread gives up after 5 seconds.  *)
(***************************************************************************)
CloseStop ==
    /\ MayClose /\ closePc = "running"
    /\ closePc' = "stopping"
    /\ UNCHANGED <<tableVars, futureVars, pollVars, closing, clientVars, replies, faults>>

\* (mutant) the poll thread is not waited for
NotWaited == TRUE

\* self._poll_thread.join
PollThreadEnded == pollPc = "poll"

CloseJoin ==
    /\ closePc = "stopping"
    /\ closePc' = "joined"
    /\ \/ PollThreadEnded /\ UNCHANGED faults
       \/ Fault
    /\ UNCHANGED <<tableVars, futureVars, pollVars, closing, clientVars, replies>>

\* every context is terminal, and the dictionary is empty
Clear ==
    /\ contexts' = [t \in Tokens |-> NoRequest]
    /\ terminal' = terminal \cup {q \in Requests : Context(q) = q}

CloseClear ==
    /\ closePc = "joined"
    /\ closePc' = "cleared"
    /\ Clear
    /\ closing' = {q \in Requests : Context(q) = q}
    /\ UNCHANGED <<registered, futureVars, pollVars, clientVars, replies, faults>>

\* the ROS futures are canceled, the servers stopped and closed
CloseEndpoints ==
    /\ closePc = "cleared"
    /\ closePc' = "closed"
    /\ Canceled(closing)
    /\ UNCHANGED <<tableVars, watched, handled, due, pollVars, closing, clientVars, replies,
                   faults>>

-----------------------------------------------------------------------------
PollThread ==
    \/ \E q \in Requests : \/ DecodeFails(q) \/ DropDuplicate(q) \/ RefuseRequest(q) \/ Call(q)
                           \/ DropCancel(q) \/ CancelCall(q) \/ CancelFails(q)
    \/ Register \/ Watch \/ WatchFails
    \/ CancelFutures

Environment(q) == HakRequests(q) \/ HakCancels(q) \/ RosResponds(q) \/ Due(q)

Destroying == CloseJoin \/ CloseClear \/ CloseEndpoints

Next ==
    \/ \E q \in Requests : Environment(q) \/ OnRosResponse(q)
    \/ PollThread \/ Expire
    \/ CloseStop \/ Destroying

Spec == Init /\ [][Next]_vars

\* Time passes, the poll thread and the executor run on.  _expire_calls ends
\* every round of the poll thread, and destroy_node() that has begun goes on.  The
\* ROS service need never respond.
FairSpec ==
    /\ Spec
    /\ WF_vars(PollThread) /\ WF_vars(Expire) /\ WF_vars(Destroying)
    /\ \A q \in Requests : WF_vars(Due(q)) /\ WF_vars(OnRosResponse(q))

-----------------------------------------------------------------------------
(***************************************************************************)
(* Properties.                                                             *)
(***************************************************************************)

\* The ROS response, the cancel request and the timeout race for the reply to a
\* request, and one of them wins: while nothing raises there is one reply, and
\* whatever raises, nothing follows a normal reply or a cancel reply, because only
\* an error reply and a failed cancel reply leave the call active.
OneReply ==
    \A q \in Requests :
        /\ faults = 0 => Len(replies[q]) <= 1
        /\ \A i \in 1 .. Len(replies[q]) - 1 : replies[q][i] \in {"error", "failed"}

\* As long as a call is active its token leads to it, and to nobody else: no
\* request with the same token displaces it, so its response and its cancel
\* request find it.  A finished call is not found any more.
TokenLeadsToCall ==
    /\ \A q \in registered \ terminal : Context(q) = q
    /\ \A t \in Tokens : contexts[t] \notin terminal

\* Once the dictionary is cleared by the shutdown nothing is sent any more, if the
\* poll thread was joined (a poll thread that outlives the timeout is a fault).
SilentAfterClear ==
    [][(closePc \in {"cleared", "closed"} /\ faults = 0) => replies' = replies]_vars

\* Every request is replied to, although the ROS service need not respond, unless
\* an exception or the shutdown comes first.
RequestAnswered ==
    \A q \in Requests :
        request[q] = "polled" ~> replies[q] # <<>> \/ faults > 0 \/ closePc # "running"

\* The node does not wait for a ROS response that nobody wants any more: the call
\* has been canceled, has timed out, or the node has been shut down (with the poll
\* thread joined).
FutureReleased ==
    \A q \in Requests :
        q \in terminal ~> ros[q] # "active" \/ (closePc # "running" /\ faults > 0)

-----------------------------------------------------------------------------
Replied(q, kind) == \E i \in DOMAIN replies[q] : replies[q][i] = kind

\* its context is closed without a normal reply, or its client was told that it is canceled
Dropped(q) == (q \in terminal \/ Replied(q, "canceled")) /\ ~Replied(q, "ok")

Answer(kind) == IF kind = "ok" THEN "response" ELSE "refusal"

Asked   == {q \in Requests : request[q] # "none"}
Called  == [q \in Requests |-> IF ros[q] = "done" THEN "result"
                               ELSE IF ros[q] = "canceled" THEN "error" ELSE ros[q]]
Answers == [q \in Requests |-> [i \in DOMAIN replies[q] |-> Answer(replies[q][i])]]
GivenUp == {q \in Requests : Dropped(q)}

\* The contract the bridge keeps with its Hakoniwa clients: a request is answered once,
\* its normal reply is the response of its own ROS call, and nothing comes after a
\* normal reply, a cancel, a timeout or the shutdown.
Relay == INSTANCE ServiceRelay
         WITH Calls <- Requests, asked <- Asked, call <- Called, answers <- Answers,
              givenUp <- GivenUp, disturbed <- faults > 0
CallSpec == Relay!Spec
=============================================================================
