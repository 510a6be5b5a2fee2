------------------------- MODULE ActionClientBridge -------------------------
(***************************************************************************)
(* HakoniwaRosActionClientNode (action_client_node.py): a Hakoniwa Action  *)
(* Server whose goals are executed by a ROS 2 Action Server.  The goals    *)
(* share nothing but the dictionary their contexts are kept in, under the  *)
(* goal id; this module is the life of one goal.                           *)
(*                                                                         *)
(* The poll thread handles the requests of the Hakoniwa client one after   *)
(* the other.  The callbacks for the goal response, the feedback, the      *)
(* result and the cancel responses of the ROS client are in a              *)
(* ReentrantCallbackGroup of a MultiThreadedExecutor: they run             *)
(* concurrently with each other, with the poll thread and with             *)
(* _close_runtime.  Every action is one step of one of these threads,      *)
(* between two acquisitions of _lock.                                      *)
(*                                                                         *)
(* External: the goal at the ROS Action Server (ros) and the goal at the   *)
(* Hakoniwa Action Server endpoint (hak), whose calls raise when the goal  *)
(* is not in the state they need.                                          *)
(***************************************************************************)
EXTENDS Naturals, Sequences, FiniteSets

CONSTANTS
    MaxFeedback,        \* bound: feedback messages of the ROS server
    MaxCancels,         \* bound: cancel requests of the Hakoniwa client
    MaxFaults,          \* bound: exceptions raised by the two runtimes
    MayRuntimeCancel,   \* whether the Hakoniwa runtime cancels on its own
    MayClose            \* whether destroy_node() may be called

ASSUME ActionClientAssumption ==
    /\ MaxFeedback \in Nat /\ MaxCancels \in Nat /\ MaxFaults \in Nat
    /\ MayRuntimeCancel \in BOOLEAN /\ MayClose \in BOOLEAN

Cancels == 1 .. MaxCancels

VARIABLES
    \* the _GoalContext
    registered,       \* it is in _contexts
    terminal, handle, hakoniwaAccepted, cancelPending, cancelAccepted,
    pendingFeedback,
    pendingResult,    \* "none", "result" (pending_result) or "error"
                      \* (pending_result_error)
    \* the threads
    pollPc,           \* poll thread
    goalPc,           \* _on_ros_goal_response
    goalFeedback,     \* its local pending_feedback
    publishing,       \* the feedback callbacks about to publish
    resultPc,         \* _on_ros_result
    cancelPc,         \* _on_ros_cancel_response, one per cancel request
    cancelFound,      \* its local accepted
    deliverPc, took,  \* _deliver_result or _complete_with_default_abort of a
                      \* thread, and the result it has taken
    closePc,          \* _close_runtime
    \* external: the goal at the ROS Action Server
    ros, rosFeedback, started, resultRequested, bestEffort,
    \* external: the goal at the Hakoniwa endpoint
    hak, goalPolled, hakCancelAccepted, asked, polled, answered, runtimeCancel,
    received, completions,
    faults

lifeVars      == <<registered, terminal>>
flagVars      == <<handle, hakoniwaAccepted, cancelPending, cancelAccepted>>
pendingVars   == <<pendingFeedback, pendingResult>>
contextVars   == <<lifeVars, flagVars, pendingVars>>
goalVars      == <<goalPc, goalFeedback>>
cancelVars    == <<cancelPc, cancelFound>>
deliverVars   == <<deliverPc, took>>
callbackVars  == <<goalVars, publishing, resultPc, cancelVars, deliverVars>>
threadVars    == <<pollPc, callbackVars, closePc>>
rosVars       == <<ros, rosFeedback, started, resultRequested, bestEffort>>
hakCancelVars == <<hakCancelAccepted, asked, polled, answered, runtimeCancel>>
hakVars       == <<hak, goalPolled, hakCancelVars, received, completions>>
vars          == <<contextVars, threadVars, rosVars, hakVars, faults>>

Terminal == {"succeeded", "aborted", "canceled"}
Took     == {"none", "result", "error"}

\* the threads that may deliver the result
OfGoal      == <<"goal", 0>>
OfResult    == <<"result", 0>>
OfCancel(c) == <<"cancel", c>>
Deliverers  == {OfGoal, OfResult} \cup {OfCancel(c) : c \in Cancels}

Init ==
    /\ registered = FALSE /\ terminal = FALSE /\ handle = FALSE
    /\ hakoniwaAccepted = FALSE /\ cancelPending = FALSE /\ cancelAccepted = FALSE
    /\ pendingFeedback = <<>> /\ pendingResult = "none"
    /\ pollPc = "poll"
    /\ goalPc = "none" /\ goalFeedback = <<>> /\ publishing = {} /\ resultPc = "none"
    /\ cancelPc = [c \in Cancels |-> "none"] /\ cancelFound = [c \in Cancels |-> FALSE]
    /\ deliverPc = [d \in Deliverers |-> "none"] /\ took = [d \in Deliverers |-> "none"]
    /\ closePc = "running"
    /\ ros = "none" /\ rosFeedback = 0 /\ started = 0
    /\ resultRequested = FALSE /\ bestEffort = "none"
    /\ hak = "none" /\ goalPolled = FALSE /\ hakCancelAccepted = FALSE
    /\ asked = 0 /\ polled = 0 /\ answered = 0 /\ runtimeCancel = "none"
    /\ received = <<>> /\ completions = 0
    /\ faults = 0

Fault == faults < MaxFaults /\ faults' = faults + 1

\* the poll thread looks at _stop_requested only at the top of its loop, so it
\* may take events until it is joined
Polling == pollPc = "poll" /\ closePc \in {"running", "stopping"}

-----------------------------------------------------------------------------
(***************************************************************************)
(* The Hakoniwa client and the endpoint (external).                        *)
(***************************************************************************)
HakRequestsGoal ==
    /\ hak = "none"
    /\ hak' = "requested"
    /\ UNCHANGED <<contextVars, threadVars, rosVars, goalPolled, hakCancelVars, received,
                   completions, faults>>

\* one request at a time
HakRequestsCancel ==
    /\ hak = "accepted" /\ asked < MaxCancels /\ asked = answered
    /\ asked' = asked + 1
    /\ UNCHANGED <<contextVars, threadVars, rosVars, hak, goalPolled, hakCancelAccepted,
                   polled, answered, runtimeCancel, received, completions, faults>>

HakRuntimeCancels ==
    /\ MayRuntimeCancel /\ hak = "accepted" /\ runtimeCancel = "none"
    /\ runtimeCancel' = "asked"
    /\ UNCHANGED <<contextVars, threadVars, rosVars, hak, goalPolled, hakCancelAccepted,
                   asked, polled, answered, received, completions, faults>>

\* a call of the endpoint raises when the goal is not in this state, and once
\* the endpoint is closed
InState(state) == hak = state /\ closePc # "closed"

\* (mutant) the rejection is forgotten
RejectForgotten == hak' = hak

RejectGoal == hak' = IF InState("requested") THEN "rejected" ELSE hak

\* (mutant) a refused cancel request is not answered
AnswerAcceptance(accept) ==
    IF InState("accepted") /\ accept
    THEN answered' = answered + 1 /\ hakCancelAccepted' = TRUE
    ELSE UNCHANGED <<answered, hakCancelAccepted>>

\* accept_cancel or reject_cancel
AnswerCancel(accept) ==
    IF InState("accepted")
    THEN /\ answered' = answered + 1
         /\ hakCancelAccepted' = (hakCancelAccepted \/ accept)
    ELSE UNCHANGED <<answered, hakCancelAccepted>>

-----------------------------------------------------------------------------
(***************************************************************************)
(* The poll thread.                                                        *)
(***************************************************************************)
\* GOAL_REQUEST while the ROS Action Server is not ready
GoalUnavailable ==
    /\ Polling /\ hak = "requested" /\ ~goalPolled
    /\ goalPolled' = TRUE
    /\ RejectGoal
    /\ UNCHANGED <<contextVars, threadVars, rosVars, hakCancelVars, received, completions,
                   faults>>

\* GOAL_REQUEST: the context is registered
GoalRequest ==
    /\ Polling /\ hak = "requested" /\ ~goalPolled
    /\ goalPolled' = TRUE
    /\ registered' = TRUE
    /\ pollPc' = "sendGoal"
    /\ UNCHANGED <<terminal, flagVars, pendingVars, callbackVars, closePc, rosVars, hak,
                   hakCancelVars, received, completions, faults>>

\* send_goal_async
GoalSend ==
    /\ pollPc = "sendGoal"
    /\ ros' = "requested"
    /\ pollPc' = "poll"
    /\ UNCHANGED <<contextVars, callbackVars, closePc, rosFeedback, started,
                   resultRequested, bestEffort, hakVars, faults>>

\* send_goal_async raises: the context is dropped and the goal rejected
GoalSendFails ==
    /\ pollPc = "sendGoal" /\ Fault
    /\ registered' = FALSE
    /\ RejectGoal
    /\ pollPc' = "poll"
    /\ UNCHANGED <<terminal, flagVars, pendingVars, callbackVars, closePc, rosVars,
                   goalPolled, hakCancelVars, received, completions>>

CancelPolled == Polling /\ polled < asked

Cancelable == registered /\ ~terminal /\ hakoniwaAccepted /\ handle /\ ~cancelPending

\* CANCEL_REQUEST for a goal that cannot be canceled (now): reject_cancel
CancelRefuse ==
    /\ CancelPolled /\ ~Cancelable
    /\ polled' = polled + 1
    /\ AnswerCancel(FALSE)
    /\ UNCHANGED <<contextVars, threadVars, rosVars, hak, goalPolled, asked, runtimeCancel,
                   received, completions, faults>>

CancelRequest ==
    /\ CancelPolled /\ Cancelable
    /\ polled' = polled + 1
    /\ cancelPending' = TRUE
    /\ pollPc' = "sendCancel"
    /\ UNCHANGED <<lifeVars, handle, hakoniwaAccepted, cancelAccepted, pendingVars,
                   callbackVars, closePc, rosVars, hak, goalPolled, hakCancelAccepted,
                   asked, answered, runtimeCancel, received, completions, faults>>

\* cancel_goal_async
CancelSend ==
    /\ pollPc = "sendCancel"
    /\ cancelPc' = [cancelPc EXCEPT ![polled] = "sent"]
    /\ pollPc' = "poll"
    /\ UNCHANGED <<contextVars, goalVars, publishing, resultPc, cancelFound, deliverVars,
                   closePc, rosVars, hakVars, faults>>

\* cancel_goal_async raises: no cancel request is pending, reject_cancel
CancelSendFails ==
    /\ pollPc = "sendCancel" /\ Fault
    /\ cancelPending' = FALSE
    /\ AnswerCancel(FALSE)
    /\ pollPc' = "poll"
    /\ UNCHANGED <<lifeVars, handle, hakoniwaAccepted, cancelAccepted, pendingVars,
                   callbackVars, closePc, rosVars, hak, goalPolled, asked, polled,
                   runtimeCancel, received, completions>>

\* RUNTIME_CANCEL_REQUEST: a cancel request whose response nobody reads
RuntimeCancel ==
    /\ Polling /\ runtimeCancel = "asked"
    /\ runtimeCancel' = "polled"
    /\ bestEffort' = IF registered /\ handle THEN "sent" ELSE bestEffort
    /\ UNCHANGED <<contextVars, threadVars, ros, rosFeedback, started, resultRequested, hak,
                   goalPolled, hakCancelAccepted, asked, polled, answered, received,
                   completions, faults>>

-----------------------------------------------------------------------------
(***************************************************************************)
(* The ROS Action Server (external).  It accepts a cancel request only in  *)
(* EXECUTING: a second request finds the goal CANCELING, and the response  *)
(* does not list the goal.                                                 *)
(***************************************************************************)
RosStep(next) ==
    /\ ros' = next
    /\ UNCHANGED <<contextVars, threadVars, rosFeedback, started, resultRequested,
                   bestEffort, hakVars, faults>>

RosAnswersGoal == ros = "requested" /\ \E s \in {"rejected", "executing"} : RosStep(s)

RosFinishes ==
    \E s \in Terminal : /\ ros = "canceling" \/ (ros = "executing" /\ s # "canceled")
                        /\ RosStep(s)

RosFeedback ==
    /\ ros \in {"executing", "canceling"} /\ rosFeedback < MaxFeedback
    /\ rosFeedback' = rosFeedback + 1
    /\ UNCHANGED <<contextVars, threadVars, ros, started, resultRequested, bestEffort,
                   hakVars, faults>>

\* (mutant) any response counts as an acceptance
AnyResponse(canceling) == TRUE

\* _cancel_response_contains_goal: goals_canceling lists the goal
ContainsGoal(canceling) == canceling

RosAnswersCancel(c) ==
    \E accept \in BOOLEAN :
        /\ cancelPc[c] = "sent"
        /\ accept => ros = "executing"
        /\ ros' = IF accept THEN "canceling" ELSE ros
        /\ cancelPc' = [cancelPc EXCEPT ![c] = "check"]
        /\ \/ /\ cancelFound' = [cancelFound EXCEPT ![c] = ContainsGoal(accept)]
              /\ UNCHANGED faults
           \* reading the response raises: it counts as a refusal
           \/ Fault /\ UNCHANGED cancelFound
        /\ UNCHANGED <<contextVars, pollPc, goalVars, publishing, resultPc, deliverVars,
                       closePc, rosFeedback, started, resultRequested, bestEffort, hakVars>>

RosTakesBestEffort ==
    /\ bestEffort = "sent"
    /\ bestEffort' = "done"
    /\ \/ ros = "executing" /\ ros' = "canceling"
       \/ ros' = ros
    /\ UNCHANGED <<contextVars, threadVars, rosFeedback, started, resultRequested, hakVars,
                   faults>>

-----------------------------------------------------------------------------
(***************************************************************************)
(* _on_ros_goal_response.                                                  *)
(***************************************************************************)
\* (mutant) the context ends but stays in the dictionary
EndOnly == terminal' = TRUE /\ UNCHANGED registered

\* _remove_context
Remove == terminal' = TRUE /\ registered' = FALSE

\* the ROS goal was rejected
GoalRejected ==
    /\ goalPc = "none" /\ ros = "rejected"
    /\ RejectGoal
    /\ Remove
    /\ goalPc' = "done"
    /\ UNCHANGED <<flagVars, pendingVars, pollPc, goalFeedback, publishing, resultPc,
                   cancelVars, deliverVars, closePc, rosVars, goalPolled, hakCancelVars,
                   received, completions, faults>>

RosAccepted == ros \in {"executing", "canceling"} \cup Terminal

\* the handle is stored, unless the context has ended meanwhile
GoalHandle ==
    /\ goalPc = "none" /\ RosAccepted
    /\ handle' = ~terminal
    /\ goalPc' = IF terminal THEN "done" ELSE "accept"
    /\ UNCHANGED <<lifeVars, hakoniwaAccepted, cancelPending, cancelAccepted, pendingVars,
                   pollPc, goalFeedback, publishing, resultPc, cancelVars, deliverVars,
                   closePc, rosVars, hakVars, faults>>

\* get_result_async, accept_goal
GoalAccept ==
    /\ goalPc = "accept" /\ InState("requested")
    /\ resultRequested' = TRUE
    /\ hak' = "accepted"
    /\ goalPc' = "flush"
    /\ UNCHANGED <<contextVars, pollPc, goalFeedback, publishing, resultPc, cancelVars,
                   deliverVars, closePc, ros, rosFeedback, started, bestEffort, goalPolled,
                   hakCancelVars, received, completions, faults>>

\* the future, get_result_async or accept_goal raises: the context is removed
\* and the ROS goal canceled, but the Hakoniwa goal is not answered
GoalResponseFails ==
    /\ \/ goalPc = "none" /\ RosAccepted /\ Fault
       \/ goalPc = "accept" /\ Fault
       \/ goalPc = "accept" /\ ~InState("requested") /\ UNCHANGED faults
    /\ Remove
    /\ bestEffort' = IF handle THEN "sent" ELSE bestEffort
    /\ resultRequested' \in {FALSE, handle}
    /\ goalPc' = "done"
    /\ UNCHANGED <<flagVars, pendingVars, pollPc, goalFeedback, publishing, resultPc,
                   cancelVars, deliverVars, closePc, ros, rosFeedback, started, hakVars>>

\* (mutant) the pending result is handed over but not cleared
KeepPending(result) == result

\* what stays pending of a result that is handed over
TakePending(result) == "none"

\* the thread d hands over the pending result to itself
Take(d) ==
    /\ took' = [took EXCEPT ![d] = pendingResult]
    /\ pendingResult' = TakePending(pendingResult)

\* the goal counts as accepted; what was held back until now is taken
GoalFlush ==
    /\ goalPc = "flush"
    /\ IF terminal
       THEN goalPc' = "done" /\ UNCHANGED <<hakoniwaAccepted, pendingVars, goalFeedback, took>>
       ELSE /\ hakoniwaAccepted' = TRUE
            /\ goalFeedback' = pendingFeedback /\ pendingFeedback' = <<>>
            /\ Take(OfGoal)
            /\ goalPc' = "publish"
    /\ UNCHANGED <<lifeVars, handle, cancelPending, cancelAccepted, pollPc, publishing,
                   resultPc, cancelVars, deliverPc, closePc, rosVars, hakVars, faults>>

\* _publish_feedback: send_feedback, unless something raises.  The exception is
\* caught and logged: the message is lost, and the goal goes on.
Publish(n) ==
    \/ /\ received' = IF InState("accepted") THEN Append(received, n) ELSE received
       /\ UNCHANGED faults
    \/ Fault /\ UNCHANGED received

GoalPublish ==
    /\ goalPc = "publish" /\ goalFeedback # <<>>
    /\ Publish(Head(goalFeedback))
    /\ goalFeedback' = Tail(goalFeedback)
    /\ UNCHANGED <<contextVars, pollPc, goalPc, publishing, resultPc, cancelVars,
                   deliverVars, closePc, rosVars, hak, goalPolled, hakCancelVars,
                   completions>>

\* thread d goes on to deliver what it took, if it took a result
Deliver(d) ==
    deliverPc' = [deliverPc EXCEPT ![d] = IF took'[d] = "none" THEN "none" ELSE "complete"]

GoalPublished ==
    /\ goalPc = "publish" /\ goalFeedback = <<>>
    /\ goalPc' = "done"
    /\ UNCHANGED <<contextVars, pollPc, goalFeedback, publishing, resultPc, cancelVars,
                   took, closePc, rosVars, hakVars, faults>>
    /\ Deliver(OfGoal)

-----------------------------------------------------------------------------
(***************************************************************************)
(* _on_ros_feedback: rclpy starts the callbacks in the order the feedback  *)
(* was sent; they publish outside the lock.                                *)
(***************************************************************************)
\* (mutant) feedback is held back until the ROS goal is known
HeldWithoutHandle == ~handle

\* feedback is held back until the Hakoniwa goal counts as accepted
Held == ~hakoniwaAccepted

FeedbackStart ==
    /\ started < rosFeedback
    /\ started' = started + 1
    /\ pendingFeedback' = IF ~terminal /\ Held
                          THEN Append(pendingFeedback, started') ELSE pendingFeedback
    /\ publishing' = IF ~terminal /\ ~Held
                     THEN publishing \cup {started'} ELSE publishing
    /\ UNCHANGED <<lifeVars, flagVars, pendingResult, pollPc, goalVars, resultPc,
                   cancelVars, deliverVars, closePc, ros, rosFeedback, resultRequested,
                   bestEffort, hakVars, faults>>

FeedbackPublish(n) ==
    /\ n \in publishing
    /\ publishing' = publishing \ {n}
    /\ Publish(n)
    /\ UNCHANGED <<contextVars, pollPc, goalVars, resultPc, cancelVars, deliverVars,
                   closePc, rosVars, hak, goalPolled, hakCancelVars, completions>>

-----------------------------------------------------------------------------
(***************************************************************************)
(* _on_ros_result.                                                         *)
(***************************************************************************)
\* (mutant) a CANCELED result does not wait for the cancel response
NeverParked == FALSE

\* (mutant) a CANCELED result waits even when no cancel request is pending
ParkedUnasked == ros = "canceled" /\ ~cancelAccepted

\* a CANCELED result waits for the response to the pending cancel request
Parked == ros = "canceled" /\ cancelPending /\ ~cancelAccepted

RosResult ==
    /\ resultRequested /\ resultPc = "none" /\ ros \in Terminal
    /\ resultPc' = "done"
    /\ pendingResult' = IF ~terminal /\ (~hakoniwaAccepted \/ Parked)
                        THEN "result" ELSE pendingResult
    /\ took' = [took EXCEPT ![OfResult] = IF terminal \/ ~hakoniwaAccepted \/ Parked
                                          THEN "none" ELSE "result"]
    /\ Deliver(OfResult)
    /\ UNCHANGED <<lifeVars, flagVars, pendingFeedback, pollPc, goalVars, publishing,
                   cancelVars, closePc, rosVars, hakVars, faults>>

\* the result future raises
RosResultFails ==
    /\ resultRequested /\ resultPc = "none" /\ Fault
    /\ resultPc' = "done"
    /\ pendingResult' = IF ~terminal /\ ~hakoniwaAccepted THEN "error" ELSE pendingResult
    /\ took' = [took EXCEPT ![OfResult] = IF terminal \/ ~hakoniwaAccepted
                                          THEN "none" ELSE "error"]
    /\ Deliver(OfResult)
    /\ UNCHANGED <<lifeVars, flagVars, pendingFeedback, pollPc, goalVars, publishing,
                   cancelVars, closePc, rosVars, hakVars>>

-----------------------------------------------------------------------------
(***************************************************************************)
(* _on_ros_cancel_response.                                                *)
(***************************************************************************)
CancelCheck(c) ==
    /\ cancelPc[c] = "check"
    /\ cancelPc' = [cancelPc EXCEPT ![c] = IF terminal THEN "done" ELSE "reply"]
    /\ UNCHANGED <<contextVars, pollPc, goalVars, publishing, resultPc, cancelFound,
                   deliverVars, closePc, rosVars, hakVars, faults>>

\* accept_cancel or reject_cancel
CancelReply(c) ==
    /\ cancelPc[c] = "reply" /\ InState("accepted")
    /\ AnswerCancel(cancelFound[c])
    /\ cancelPc' = [cancelPc EXCEPT ![c] = "record"]
    /\ UNCHANGED <<contextVars, pollPc, goalVars, publishing, resultPc, cancelFound,
                   deliverVars, closePc, rosVars, hak, goalPolled, asked, polled,
                   runtimeCancel, received, completions, faults>>

\* ... raises: the callback returns
CancelReplyFails(c) ==
    /\ cancelPc[c] = "reply"
    /\ \/ Fault
       \/ ~InState("accepted") /\ UNCHANGED faults
    /\ cancelPc' = [cancelPc EXCEPT ![c] = "done"]
    /\ UNCHANGED <<contextVars, pollPc, goalVars, publishing, resultPc, cancelFound,
                   deliverVars, closePc, rosVars, hakVars>>

\* the answer is recorded, and a result that waited for it is taken
CancelRecord(c) ==
    /\ cancelPc[c] = "record"
    /\ cancelPc' = [cancelPc EXCEPT ![c] = "done"]
    /\ IF terminal
       THEN UNCHANGED <<cancelPending, cancelAccepted, pendingResult, deliverVars>>
       ELSE /\ cancelPending' = FALSE
            /\ cancelAccepted' = cancelFound[c]
            /\ Take(OfCancel(c))
            /\ Deliver(OfCancel(c))
    /\ UNCHANGED <<lifeVars, handle, hakoniwaAccepted, pendingFeedback, pollPc, goalVars,
                   publishing, resultPc, cancelFound, closePc, rosVars, hakVars, faults>>

-----------------------------------------------------------------------------
(***************************************************************************)
(* _deliver_result and _complete_with_default_abort, in whichever thread   *)
(* has taken the result.                                                   *)
(***************************************************************************)
\* _terminal_status: the status of the Hakoniwa result
StatusOf(result) ==
    IF result = "error" \/ (ros = "canceled" /\ ~cancelAccepted) THEN "aborted" ELSE ros

\* complete(), which raises once the goal has ended
Complete(d) ==
    /\ deliverPc[d] = "complete"
    /\ completions' = completions + 1
    /\ deliverPc' = [deliverPc EXCEPT ![d] = "remove"]
    /\ \/ /\ hak' = IF InState("accepted") THEN StatusOf(took[d]) ELSE hak
          /\ UNCHANGED faults
       \/ Fault /\ UNCHANGED hak
    /\ UNCHANGED <<contextVars, pollPc, goalVars, publishing, resultPc, cancelVars, took,
                   closePc, rosVars, goalPolled, hakCancelVars, received>>

RemoveContext(d) ==
    /\ deliverPc[d] = "remove"
    /\ Remove
    /\ deliverPc' = [deliverPc EXCEPT ![d] = "done"]
    /\ UNCHANGED <<flagVars, pendingVars, pollPc, goalVars, publishing, resultPc,
                   cancelVars, took, closePc, rosVars, hakVars, faults>>

-----------------------------------------------------------------------------
(***************************************************************************)
(* destroy_node().  The join of the poll thread gives up after 5 seconds.  *)
(***************************************************************************)
CloseStep(from, to) ==
    /\ closePc = from /\ closePc' = to
    /\ UNCHANGED <<flagVars, pendingVars, pollPc, callbackVars, ros, rosFeedback, started,
                   resultRequested, hakVars>>

CloseStop ==
    /\ MayClose /\ CloseStep("running", "stopping")
    /\ UNCHANGED <<lifeVars, bestEffort, faults>>

CloseJoin ==
    /\ CloseStep("stopping", "joined")
    /\ \/ pollPc = "poll" /\ UNCHANGED faults
       \/ Fault
    /\ UNCHANGED <<lifeVars, bestEffort>>

\* every context ends, and its ROS goal is canceled
CloseClear ==
    /\ CloseStep("joined", "cleared")
    /\ registered' = FALSE
    /\ terminal' = (terminal \/ registered)
    /\ bestEffort' = IF registered /\ handle THEN "sent" ELSE bestEffort
    /\ UNCHANGED faults

CloseEndpoint ==
    /\ CloseStep("cleared", "closed")
    /\ UNCHANGED <<lifeVars, bestEffort, faults>>

-----------------------------------------------------------------------------
HakoniwaClient == HakRequestsGoal \/ HakRequestsCancel \/ HakRuntimeCancels

PollThread ==
    \/ GoalUnavailable \/ GoalRequest \/ GoalSend \/ GoalSendFails
    \/ CancelRefuse \/ CancelRequest \/ CancelSend \/ CancelSendFails
    \/ RuntimeCancel

RosServer ==
    \/ RosAnswersGoal \/ RosFinishes \/ RosFeedback \/ RosTakesBestEffort
    \/ \E c \in Cancels : RosAnswersCancel(c)

GoalCallback ==
    \/ GoalRejected \/ GoalHandle \/ GoalAccept \/ GoalResponseFails
    \/ GoalFlush \/ GoalPublish \/ GoalPublished

FeedbackCallback == FeedbackStart \/ \E n \in 1 .. MaxFeedback : FeedbackPublish(n)

ResultCallback == RosResult \/ RosResultFails

CancelCallback(c) ==
    CancelCheck(c) \/ CancelReply(c) \/ CancelReplyFails(c) \/ CancelRecord(c)

Delivery(d) == Complete(d) \/ RemoveContext(d)

Closing == CloseStop \/ CloseJoin \/ CloseClear \/ CloseEndpoint

Next ==
    \/ HakoniwaClient \/ PollThread \/ RosServer
    \/ GoalCallback \/ FeedbackCallback \/ ResultCallback
    \/ \E c \in Cancels : CancelCallback(c)
    \/ \E d \in Deliverers : Delivery(d)
    \/ Closing

Spec == Init /\ [][Next]_vars

\* The poll thread and the callbacks that are started run on, and the ROS
\* server answers a goal request and every cancel request.  It need not end a
\* goal, and nobody need ask for anything.
FairSpec ==
    /\ Spec
    /\ WF_vars(PollThread) /\ WF_vars(GoalCallback) /\ WF_vars(RosResult)
    /\ WF_vars(RosAnswersGoal)
    /\ \A c \in Cancels : WF_vars(RosAnswersCancel(c)) /\ WF_vars(CancelCallback(c))
    /\ \A d \in Deliverers : WF_vars(Delivery(d))

-----------------------------------------------------------------------------
(***************************************************************************)
(* Properties.                                                             *)
(***************************************************************************)

\* No exception so far, and no shutdown.
Undisturbed == faults = 0 /\ closePc = "running"

\* The three callbacks that may deliver the result (goal response, result and
\* cancel response) hand it over through pending_result: whatever their order,
\* complete() is called at most once for a goal.
CompleteAtMostOnce == completions <= 1

\* The Hakoniwa goal ends as the ROS goal did.  A CANCELED result that overtakes
\* the cancel response waits for it, so it does not turn into ABORTED.
ResultReflected == hak \in Terminal => hak = ros

\* ... at least when Hakoniwa asks for one cancel only, the runtime for none,
\* and nothing goes wrong.
ResultReflectedOnce == Undisturbed /\ asked <= 1 /\ runtimeCancel = "none" => ResultReflected

\* Until the goal ends every feedback message whose callback has started is in
\* exactly one place: held back, in the hand of a callback, or received; or it
\* is lost, and then an exception has been caught for it.  So none is lost or
\* doubled when _on_ros_goal_response takes over what was held, and an exception
\* of _publish_feedback costs the message it was publishing and no other.
FeedbackAccounted ==
    hak \in {"requested", "accepted"} /\ ~terminal =>
        LET held == pendingFeedback \o goalFeedback \o received
            inSeq == {held[i] : i \in 1 .. Len(held)}
            lost == (1 .. started) \ (inSeq \cup publishing)
        IN  /\ Len(held) + Cardinality(publishing) + Cardinality(lost) = started
            /\ Cardinality(lost) <= faults

\* While nothing goes wrong a context leaves _contexts for good only when its
\* Hakoniwa goal has been rejected or completed, and a completed goal is kept
\* only until the thread that completed it removes it: neither a goal without
\* context, whose cancel requests would all be refused, nor a leaked context.
ContextFollowsGoal ==
    Undisturbed =>
        /\ terminal => hak \in {"rejected"} \cup Terminal
        /\ registered /\ hak \in Terminal => \E d \in Deliverers : deliverPc[d] = "remove"

\* A cancel request is accepted towards Hakoniwa only when the ROS server
\* accepted it: once it is, the ROS goal is canceling or has ended.
CancelAcceptedByRos == hakCancelAccepted => ros \in {"canceling"} \cup Terminal

\* Every goal request and every cancel request is answered, or overtaken by the
\* result, unless an exception or the shutdown stops it (as in the next property).
RequestsAnswered ==
    hak = "requested" \/ asked > answered ~>
        (hak # "requested" /\ asked = answered) \/ hak \in Terminal \/ ~Undisturbed

\* Once the ROS goal has ended, the accepted Hakoniwa goal gets its result, also
\* a CANCELED one that waits for the cancel response.
ResultDelivered ==
    hak = "accepted" /\ ros \in Terminal ~> hak \in Terminal \/ ~Undisturbed
=============================================================================
