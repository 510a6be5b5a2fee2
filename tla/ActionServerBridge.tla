------------------------- MODULE ActionServerBridge -------------------------
(***************************************************************************)
(* HakoniwaRosActionServerNode (action_server_node.py) with its goal       *)
(* registry (action_goal_context.py): a ROS 2 Action Server whose goals    *)
(* are executed by a Hakoniwa Action Server.                               *)
(*                                                                         *)
(* Four kinds of threads interleave: the callbacks of the node's           *)
(* MutuallyExclusiveCallbackGroup (one goal request or cancel request at a *)
(* time), the execute tasks (one per accepted goal, outside the group),    *)
(* the poll thread, and the thread that closes the node.  Every action     *)
(* below is one step of one of them: what it does between two points where *)
(* another thread can observe or change what it uses.                      *)
(*                                                                         *)
(* External, modelled from how the node uses them: the rclpy goal handle   *)
(* (ros, published) and the Hakoniwa Action Client with the server behind  *)
(* it (hak, cancelRequested, cancelAccepted, feedbackSent, events).        *)
(***************************************************************************)
EXTENDS Naturals, Sequences, FiniteSets

CONSTANTS
    RosGoals,      \* goal requests received by the ROS Action Servers
    HakGoals,      \* the UUIDs new_hakoniwa_goal_id() draws
    Actions,       \* the bound actions
    ActionOf,      \* the action of each ROS goal request
    NoGoal,        \* "None" where a Hakoniwa goal is expected
    MaxFeedback,   \* bound: feedback events per Hakoniwa goal
    MaxCancels,    \* bound: cancel requests per ROS goal
    MaxFaults,     \* bound: exceptions and ERROR events in a behaviour
    MayClose       \* whether destroy_node() may be called

ASSUME ActionServerAssumption ==
    /\ ActionOf \in [RosGoals -> Actions]
    /\ NoGoal \notin HakGoals
    /\ RosGoals \cap {"absent", "unbound"} = {}
    /\ MaxFeedback \in Nat /\ MaxCancels \in Nat /\ MaxFaults \in Nat
    /\ MayClose \in BOOLEAN

VARIABLES
    \* locals of the callbacks, one request each
    goalPc,           \* where the handling of a goal request stands
    goalId,           \* goal_id, drawn by goal_callback
    boundTo,          \* hakoniwa_goal_id of the context a callback holds
    early,            \* the events accepted_callback has taken to deliver
    cancelPc,         \* where the handling of a cancel request stands
    cancelReply,      \* the last CancelResponse of a ROS goal
    cancels,          \* cancel requests made for a ROS goal
    execPc,           \* where the execute task stands
    \* ActionGoalContextRegistry
    byHakoniwa,       \* _by_hakoniwa: the ros_goal_handle of the context
    byRos,            \* _by_ros
    acceptedOrder,    \* _accepted_order
    \* dictionaries of the node, guarded by _lock
    goalDecisions,    \* _goal_decisions
    cancelDecisions,  \* _cancel_decisions
    completion,       \* _completion
    earlyEvents,      \* _early_events
    deferred,         \* _deferred_cancel_results (each a CANCELED Result)
    \* the poll thread and the closing thread
    pollPc, pollEvent, closePc,
    \* external: rclpy goal handles and what the ROS client is sent
    ros, published,
    \* external: Hakoniwa goals, and the event queue of the Action Client
    hak, cancelRequested, cancelAccepted, feedbackSent, events,
    faults            \* faults injected so far

goalVars     == <<goalPc, goalId, boundTo, early>>
cancelVars   == <<cancelPc, cancelReply, cancels>>
registryVars == <<byHakoniwa, byRos, acceptedOrder>>
decisionVars == <<goalDecisions, cancelDecisions>>
eventVars    == <<completion, earlyEvents, deferred>>
pollVars     == <<pollPc, pollEvent>>
rosVars      == <<ros, published>>
hakVars      == <<hak, cancelRequested, cancelAccepted, feedbackSent, events>>
threadVars   == <<goalVars, cancelVars, execPc>>
nodeVars     == <<registryVars, decisionVars, eventVars>>
outside      == <<pollVars, closePc, rosVars, hakVars, faults>>
vars == <<goalVars, cancelVars, execPc, registryVars, decisionVars, eventVars,
          pollVars, closePc, rosVars, hakVars, faults>>

-----------------------------------------------------------------------------
Terminal == {"succeeded", "aborted", "canceled"}

\* ActionEvent of hakoniwa-pdu-rpc.  A refused goal is a GOAL_RESPONSE with
\* decision REJECTED or a TIMEOUT; the node treats the two alike.
Event ==
         [kind : {"GOAL_RESPONSE", "CANCEL_RESPONSE"}, goal : HakGoals, accepted : BOOLEAN]
    \cup [kind : {"ERROR"}, goal : HakGoals]
    \cup [kind : {"FEEDBACK"}, goal : HakGoals, seq : 1 .. MaxFeedback]
    \cup [kind : {"RESULT"}, goal : HakGoals, status : Terminal]

IsResult(e) == e.kind = "RESULT"
NoEvent     == [kind |-> "NONE"]
CanceledResult(h) == [kind |-> "RESULT", goal |-> h, status |-> "canceled"]

\* A _GoalDecision or _CancelDecision: "pending" until completed.set(), then
\* "yes" or "no" by its accepted flag.
Decision == {"absent", "pending", "yes", "no"}

\* (mutant) waking a waiter grants what it waits for
CompleteGranting(d) == IF d = "pending" THEN "yes" ELSE d

\* completed.set() leaves the accepted flag, which starts FALSE
Complete(d) == IF d = "pending" THEN "no" ELSE d

\* (mutant) any response counts as an acceptance
ResolveGranting(d, accepted) == IF d = "absent" THEN d ELSE "yes"

\* a response sets the flag and then completed, if the decision is registered
Resolve(d, accepted) ==
    IF d = "absent" THEN d ELSE IF accepted THEN "yes" ELSE "no"

\* (mutant) the decision is left in its dictionary
Keep(decisions, h) == decisions

\* the callback takes its decision out of the dictionary
Drop(decisions, h) == [decisions EXCEPT ![h] = "absent"]

GoalPc == {"none", "sending", "waiting", "woken", "timedOut", "registered",
           "bound", "collected", "delivering", "accepted", "rejected", "failed"}

TypeOK ==
    /\ goalPc \in [RosGoals -> GoalPc]
    /\ goalId \in [RosGoals -> HakGoals \cup {NoGoal}]
    /\ boundTo \in [RosGoals -> HakGoals \cup {NoGoal}]
    /\ early \in [RosGoals -> Seq(Event)]
    /\ cancelPc \in [RosGoals -> {"idle", "called", "sending", "waiting", "woken"}]
    /\ cancelReply \in [RosGoals -> {"none", "ACCEPT", "REJECT"}]
    /\ cancels \in [RosGoals -> 0 .. MaxCancels]
    /\ execPc \in [RosGoals -> {"none", "scheduled", "awaiting", "removing", "returned"}]
    /\ byHakoniwa \in [HakGoals -> RosGoals \cup {"absent", "unbound"}]
    /\ byRos \in [RosGoals -> HakGoals \cup {NoGoal}]
    /\ acceptedOrder \in [Actions -> Seq(HakGoals)]
    /\ goalDecisions \in [HakGoals -> Decision]
    /\ cancelDecisions \in [HakGoals -> Decision]
    /\ completion \in [HakGoals -> {"none", "pending", "done"}]
    /\ earlyEvents \in [HakGoals -> Seq(Event)]
    /\ deferred \in [HakGoals -> BOOLEAN]
    /\ pollPc \in {"poll", "find", "early", "defer", "deliver", "ended"}
    /\ pollEvent \in Event \cup {NoEvent}
    /\ closePc \in {"running", "stopping", "joining", "joined", "closed"}
    /\ ros \in [RosGoals -> {"none", "accepted", "executing", "canceling"} \cup Terminal]
    /\ published \in [RosGoals -> Seq(1 .. MaxFeedback)]
    /\ hak \in [HakGoals -> {"none", "requested", "refused", "executing"} \cup Terminal]
    /\ cancelRequested \in SUBSET HakGoals
    /\ cancelAccepted \in SUBSET HakGoals
    /\ feedbackSent \in [HakGoals -> 0 .. MaxFeedback]
    /\ events \in Seq(Event)
    /\ faults \in 0 .. MaxFaults

Init ==
    /\ goalPc = [r \in RosGoals |-> "none"]
    /\ goalId = [r \in RosGoals |-> NoGoal]
    /\ boundTo = [r \in RosGoals |-> NoGoal]
    /\ early = [r \in RosGoals |-> <<>>]
    /\ cancelPc = [r \in RosGoals |-> "idle"]
    /\ cancelReply = [r \in RosGoals |-> "none"]
    /\ cancels = [r \in RosGoals |-> 0]
    /\ execPc = [r \in RosGoals |-> "none"]
    /\ byHakoniwa = [h \in HakGoals |-> "absent"]
    /\ byRos = [r \in RosGoals |-> NoGoal]
    /\ acceptedOrder = [a \in Actions |-> <<>>]
    /\ goalDecisions = [h \in HakGoals |-> "absent"]
    /\ cancelDecisions = [h \in HakGoals |-> "absent"]
    /\ completion = [h \in HakGoals |-> "none"]
    /\ earlyEvents = [h \in HakGoals |-> <<>>]
    /\ deferred = [h \in HakGoals |-> FALSE]
    /\ pollPc = "poll" /\ pollEvent = NoEvent
    /\ closePc = "running"
    /\ ros = [r \in RosGoals |-> "none"]
    /\ published = [r \in RosGoals |-> <<>>]
    /\ hak = [h \in HakGoals |-> "none"]
    /\ cancelRequested = {} /\ cancelAccepted = {}
    /\ feedbackSent = [h \in HakGoals |-> 0]
    /\ events = <<>>
    /\ faults = 0

Fault == faults < MaxFaults /\ faults' = faults + 1

StopRequested == closePc # "running"
ClientsClosed == closePc = "closed"

-----------------------------------------------------------------------------
(***************************************************************************)
(* The callback group.  rclpy runs goal_callback, the creation of the goal *)
(* handle and handle_accepted_callback as one executor task, and           *)
(* cancel_callback as another; the group admits one task at a time.        *)
(***************************************************************************)
InGoalTask(r)   == goalPc[r] \notin {"none", "accepted", "rejected", "failed"}
InCancelTask(r) == cancelPc[r] # "idle"

\* (mutant) a ReentrantCallbackGroup
Reentrant == TRUE

GroupFree == \A r \in RosGoals : ~InGoalTask(r) /\ ~InCancelTask(r)

\* goal_callback starts: a new Hakoniwa goal id and its pending decision
GoalBegin(r, h) ==
    /\ goalPc[r] = "none" /\ GroupFree
    /\ \A q \in RosGoals : goalId[q] # h
    /\ goalPc' = [goalPc EXCEPT ![r] = "sending"]
    /\ goalId' = [goalId EXCEPT ![r] = h]
    /\ goalDecisions' = [goalDecisions EXCEPT ![h] = "pending"]
    /\ UNCHANGED <<boundTo, early, cancelVars, execPc, registryVars, cancelDecisions, eventVars,
                   outside>>

\* send_goal returns a handle
GoalSend(r) ==
    /\ goalPc[r] = "sending" /\ ~ClientsClosed
    /\ goalPc' = [goalPc EXCEPT ![r] = "waiting"]
    /\ hak' = [hak EXCEPT ![goalId[r]] = "requested"]
    /\ UNCHANGED <<goalId, boundTo, early, cancelVars, execPc, nodeVars, pollVars, closePc,
                   rosVars, cancelRequested, cancelAccepted, feedbackSent, events, faults>>

\* the conversion or send_goal raises: the decision is dropped, REJECT
GoalSendFails(r) ==
    /\ goalPc[r] = "sending"
    /\ \/ ClientsClosed /\ faults' = faults
       \/ ~ClientsClosed /\ Fault
    /\ goalPc' = [goalPc EXCEPT ![r] = "rejected"]
    /\ goalDecisions' = Drop(goalDecisions, goalId[r])
    /\ UNCHANGED <<goalId, boundTo, early, cancelVars, execPc, registryVars, cancelDecisions,
                   eventVars, pollVars, closePc, rosVars, hakVars>>

\* decision.completed.wait() returns True, or runs into its timeout
GoalWaitReturns(r) ==
    /\ goalPc[r] = "waiting"
    /\ goalPc' = [goalPc EXCEPT ![r] =
                     IF goalDecisions[goalId[r]] = "pending" THEN "timedOut" ELSE "woken"]
    /\ UNCHANGED <<goalId, boundTo, early, cancelVars, execPc, nodeVars, outside>>

\* not completed or not accepted: the decision is popped, REJECT
GoalReject(r) ==
    /\ goalPc[r] \in {"woken", "timedOut"}
    /\ goalPc[r] = "timedOut" \/ goalDecisions[goalId[r]] # "yes"
    /\ goalDecisions' = Drop(goalDecisions, goalId[r])
    /\ goalPc' = [goalPc EXCEPT ![r] = "rejected"]
    /\ UNCHANGED <<goalId, boundTo, early, cancelVars, execPc, registryVars, cancelDecisions,
                   eventVars, outside>>

\* the decision is popped, register_hakoniwa_accepted, ACCEPT
GoalAccept(r) ==
    LET h == goalId[r] a == ActionOf[r] IN
    /\ goalPc[r] = "woken" /\ goalDecisions[h] = "yes"
    /\ goalDecisions' = Drop(goalDecisions, h)
    /\ byHakoniwa' = [byHakoniwa EXCEPT ![h] = "unbound"]
    /\ acceptedOrder' = [acceptedOrder EXCEPT ![a] = Append(@, h)]
    /\ goalPc' = [goalPc EXCEPT ![r] = "registered"]
    /\ UNCHANGED <<goalId, boundTo, early, cancelVars, execPc, byRos, cancelDecisions,
                   eventVars, outside>>

\* rclpy has created the goal handle; bind_ros_accepted pops the oldest
\* accepted Hakoniwa goal of the action and stores the handle in its context
BindRosAccepted(r) ==
    LET pending == acceptedOrder[ActionOf[r]] IN
    /\ goalPc[r] = "registered" /\ pending # <<>>
    /\ ros' = [ros EXCEPT ![r] = "accepted"]
    /\ acceptedOrder' = [acceptedOrder EXCEPT ![ActionOf[r]] = Tail(@)]
    /\ byHakoniwa' = [byHakoniwa EXCEPT ![Head(pending)] = r]
    /\ byRos' = [byRos EXCEPT ![r] = Head(pending)]
    /\ boundTo' = [boundTo EXCEPT ![r] = Head(pending)]
    /\ goalPc' = [goalPc EXCEPT ![r] = "bound"]
    /\ UNCHANGED <<goalId, early, cancelVars, execPc, decisionVars, eventVars, pollVars,
                   closePc, published, hakVars, faults>>

\* bind_ros_accepted raises LookupError: the contexts were cleared meanwhile
BindFails(r) ==
    /\ goalPc[r] = "registered" /\ acceptedOrder[ActionOf[r]] = <<>>
    /\ ros' = [ros EXCEPT ![r] = "accepted"]
    /\ goalPc' = [goalPc EXCEPT ![r] = "failed"]
    /\ UNCHANGED <<goalId, boundTo, early, cancelVars, execPc, nodeVars, pollVars, closePc,
                   published, hakVars, faults>>

\* (mutant) get() instead of pop()
StillParked(h) == earlyEvents

\* the early events of a goal are popped
WithoutParked(h) == [earlyEvents EXCEPT ![h] = <<>>]

\* the completion future is stored and the early events are taken
CollectEarly(r) ==
    LET h == boundTo[r] IN
    /\ goalPc[r] = "bound"
    /\ completion' = [completion EXCEPT ![h] = "pending"]
    /\ early' = [early EXCEPT ![r] = earlyEvents[h]]
    /\ earlyEvents' = WithoutParked(h)
    /\ goalPc' = [goalPc EXCEPT ![r] = "collected"]
    /\ UNCHANGED <<goalId, boundTo, cancelVars, execPc, registryVars, decisionVars, deferred,
                   outside>>

\* ros_goal_handle.execute(): EXECUTING, and the execute task is created
ExecuteGoal(r) ==
    /\ goalPc[r] = "collected"
    /\ ros' = [ros EXCEPT ![r] = "executing"]
    /\ execPc' = [execPc EXCEPT ![r] = "scheduled"]
    /\ goalPc' = [goalPc EXCEPT ![r] = "delivering"]
    /\ UNCHANGED <<goalId, boundTo, early, cancelVars, nodeVars, pollVars, closePc, published,
                   hakVars, faults>>

(***************************************************************************)
(* _deliver_goal_event: feedback is published; a result moves the goal     *)
(* handle to its terminal state and then completes the future.  rclpy      *)
(* refuses succeed() and abort() outside EXECUTING and CANCELING and       *)
(* canceled() outside CANCELING; an exception is logged and swallowed, and *)
(* so is a missing future.                                                 *)
(***************************************************************************)
MayTerminate(state, status) ==
    state = "canceling" \/ (state = "executing" /\ status # "canceled")

Deliver(r, h, e) ==
    \/ /\ e.kind = "FEEDBACK"
       /\ published' = [published EXCEPT ![r] = Append(@, e.seq)]
       /\ UNCHANGED <<ros, completion, faults>>
    \/ /\ IsResult(e) /\ MayTerminate(ros[r], e.status)
       /\ ros' = [ros EXCEPT ![r] = e.status]
       /\ completion' = [completion EXCEPT ![h] = IF @ = "pending" THEN "done" ELSE @]
       /\ UNCHANGED <<published, faults>>
    \/ /\ IsResult(e) /\ ~MayTerminate(ros[r], e.status)
       /\ UNCHANGED <<ros, published, completion, faults>>
    \/ /\ Fault                                   \* the conversion raises
       /\ UNCHANGED <<ros, published, completion>>

DeliverEarly(r) ==
    /\ goalPc[r] = "delivering" /\ early[r] # <<>>
    /\ Deliver(r, boundTo[r], Head(early[r]))
    /\ early' = [early EXCEPT ![r] = Tail(@)]
    /\ UNCHANGED <<goalPc, goalId, boundTo, cancelVars, execPc, registryVars, decisionVars,
                   earlyEvents, deferred, pollVars, closePc, hakVars>>

AcceptedReturns(r) ==
    /\ goalPc[r] = "delivering" /\ early[r] = <<>>
    /\ goalPc' = [goalPc EXCEPT ![r] = "accepted"]
    /\ UNCHANGED <<goalId, boundTo, early, cancelVars, execPc, nodeVars, outside>>

-----------------------------------------------------------------------------
(***************************************************************************)
(* The execute task.                                                       *)
(***************************************************************************)
ExecStart(r) ==
    /\ execPc[r] = "scheduled" /\ byRos[r] # NoGoal
    /\ execPc' = [execPc EXCEPT ![r] = "awaiting"]
    /\ UNCHANGED <<goalVars, cancelVars, nodeVars, outside>>

\* no mapping is left: the goal is aborted
ExecAborts(r) ==
    /\ execPc[r] = "scheduled" /\ byRos[r] = NoGoal
    /\ execPc' = [execPc EXCEPT ![r] = "returned"]
    /\ ros' = [ros EXCEPT ![r] = IF MayTerminate(@, "aborted") THEN "aborted" ELSE @]
    /\ UNCHANGED <<goalVars, cancelVars, nodeVars, pollVars, closePc, published, hakVars,
                   faults>>

\* (mutant) the execute callback does not await the future
NotAwaited(h) == TRUE

FutureDone(h) == completion[h] = "done"

\* the future is done: the finally clause empties the node's dictionaries
ExecWake(r) ==
    LET h == boundTo[r] IN
    /\ execPc[r] = "awaiting" /\ FutureDone(h)
    /\ completion' = [completion EXCEPT ![h] = "none"]
    /\ earlyEvents' = [earlyEvents EXCEPT ![h] = <<>>]
    /\ deferred' = [deferred EXCEPT ![h] = FALSE]
    /\ execPc' = [execPc EXCEPT ![r] = "removing"]
    /\ UNCHANGED <<goalVars, cancelVars, registryVars, decisionVars, outside>>

\* (mutant) the context stays in the index by ROS goal
KeptInByRos(h) == byRos

\* the index by ROS goal without the context of h, if the registry has it
WithoutContext(h) ==
    IF byHakoniwa[h] \in RosGoals THEN [byRos EXCEPT ![byHakoniwa[h]] = NoGoal] ELSE byRos

\* remove_by_hakoniwa drops the context from both indexes and from the queue
\* of accepted goals, and the result goes to the ROS client
ExecReturn(r) ==
    LET h == boundTo[r] a == ActionOf[r] IN
    /\ execPc[r] = "removing"
    /\ byHakoniwa' = [byHakoniwa EXCEPT ![h] = "absent"]
    /\ byRos' = WithoutContext(h)
    /\ acceptedOrder' =
          IF \E i \in DOMAIN acceptedOrder[a] : acceptedOrder[a][i] = h
          THEN [acceptedOrder EXCEPT ![a] = SelectSeq(@, LAMBDA x : x # h)]
          ELSE acceptedOrder
    /\ execPc' = [execPc EXCEPT ![r] = "returned"]
    /\ UNCHANGED <<goalVars, cancelVars, decisionVars, eventVars, outside>>

-----------------------------------------------------------------------------
(***************************************************************************)
(* cancel_callback, called by rclpy for a goal that is EXECUTING.          *)
(***************************************************************************)
CancelCalled(r) ==
    /\ ros[r] = "executing" /\ GroupFree /\ cancels[r] < MaxCancels
    /\ cancels' = [cancels EXCEPT ![r] = @ + 1]
    /\ cancelPc' = [cancelPc EXCEPT ![r] = "called"]
    /\ UNCHANGED <<goalVars, cancelReply, execPc, nodeVars, outside>>

\* the context is found and a pending decision registered
CancelBegin(r) ==
    LET h == byRos[r] IN
    /\ cancelPc[r] = "called" /\ h # NoGoal /\ cancelDecisions[h] = "absent"
    /\ cancelDecisions' = [cancelDecisions EXCEPT ![h] = "pending"]
    /\ cancelPc' = [cancelPc EXCEPT ![r] = "sending"]
    /\ UNCHANGED <<goalVars, cancelReply, cancels, execPc, registryVars, goalDecisions,
                   eventVars, outside>>

\* no context, or a decision is already pending: REJECT
CancelRefused(r) ==
    LET h == byRos[r] IN
    /\ cancelPc[r] = "called"
    /\ h # NoGoal => cancelDecisions[h] # "absent"
    /\ cancelReply' = [cancelReply EXCEPT ![r] = "REJECT"]
    /\ cancelPc' = [cancelPc EXCEPT ![r] = "idle"]
    /\ UNCHANGED <<goalVars, cancels, execPc, nodeVars, outside>>

\* The Action Client knows that the goal has ended once it has handed out its
\* result, and then refuses to cancel it.
ResultPolled(h) ==
    /\ hak[h] \in Terminal
    /\ \A i \in DOMAIN events : ~(IsResult(events[i]) /\ events[i].goal = h)

\* cancel_goal returns
CancelSend(r) ==
    /\ cancelPc[r] = "sending" /\ ~ClientsClosed /\ ~ResultPolled(boundTo[r])
    /\ cancelRequested' = cancelRequested \cup {boundTo[r]}
    /\ cancelPc' = [cancelPc EXCEPT ![r] = "waiting"]
    /\ UNCHANGED <<goalVars, cancelReply, cancels, execPc, nodeVars, pollVars, closePc, rosVars,
                   hak, cancelAccepted, feedbackSent, events, faults>>

\* cancel_goal raises: the decision is dropped, REJECT
CancelSendFails(r) ==
    /\ cancelPc[r] = "sending"
    /\ IF ClientsClosed \/ ResultPolled(boundTo[r]) THEN faults' = faults ELSE Fault
    /\ cancelDecisions' = Drop(cancelDecisions, boundTo[r])
    /\ cancelReply' = [cancelReply EXCEPT ![r] = "REJECT"]
    /\ cancelPc' = [cancelPc EXCEPT ![r] = "idle"]
    /\ UNCHANGED <<goalVars, cancels, execPc, registryVars, goalDecisions, eventVars, pollVars,
                   closePc, rosVars, hakVars>>

\* (mutant) the wait loop does not look at _stop_requested
DecisionCompleted(h) == cancelDecisions[h] # "pending"

CancelWaitOver(h) == cancelDecisions[h] # "pending" \/ StopRequested

\* the wait loop ends when the decision is completed or the node stops
CancelWaitReturns(r) ==
    /\ cancelPc[r] = "waiting" /\ CancelWaitOver(boundTo[r])
    /\ cancelPc' = [cancelPc EXCEPT ![r] = "woken"]
    /\ UNCHANGED <<goalVars, cancelReply, cancels, execPc, nodeVars, outside>>

\* The decision is popped and answered.  After ACCEPT rclpy moves the goal to
\* CANCELING, which fails silently when the goal has ended meanwhile.
CancelAnswer(r) ==
    LET h == boundTo[r]
        reply == IF cancelDecisions[h] = "yes" THEN "ACCEPT" ELSE "REJECT"
    IN
    /\ cancelPc[r] = "woken"
    /\ cancelDecisions' = Drop(cancelDecisions, h)
    /\ cancelReply' = [cancelReply EXCEPT ![r] = reply]
    /\ ros' = [ros EXCEPT ![r] =
                  IF reply = "ACCEPT" /\ @ = "executing" THEN "canceling" ELSE @]
    /\ cancelPc' = [cancelPc EXCEPT ![r] = "idle"]
    /\ UNCHANGED <<goalVars, cancels, execPc, registryVars, goalDecisions, eventVars, pollVars,
                   closePc, published, hakVars, faults>>

-----------------------------------------------------------------------------
(***************************************************************************)
(* The poll thread: _poll_loop, _dispatch_event and the flush of deferred  *)
(* results.  poll() removes the oldest event; a response is handled in one *)
(* critical section, a feedback or a result in the steps that follow.      *)
(***************************************************************************)
Polled(e) ==
    /\ pollPc = "poll" /\ ~ClientsClosed
    /\ events # <<>> /\ e = Head(events)
    /\ events' = Tail(events)

PollGoalResponse ==
    \E e \in Event :
        /\ e.kind = "GOAL_RESPONSE" /\ Polled(e)
        /\ goalDecisions' = [goalDecisions EXCEPT ![e.goal] = Resolve(@, e.accepted)]
        /\ UNCHANGED <<threadVars, registryVars, cancelDecisions, eventVars, pollVars, closePc,
                       rosVars, hak, cancelRequested, cancelAccepted, feedbackSent, faults>>

PollCancelResponse ==
    \E e \in Event :
        /\ e.kind = "CANCEL_RESPONSE" /\ Polled(e)
        /\ cancelDecisions' = [cancelDecisions EXCEPT ![e.goal] = Resolve(@, e.accepted)]
        /\ UNCHANGED <<threadVars, registryVars, goalDecisions, eventVars, pollVars, closePc,
                       rosVars, hak, cancelRequested, cancelAccepted, feedbackSent, faults>>

PollError ==
    \E e \in Event :
        /\ e.kind = "ERROR" /\ Polled(e)
        /\ goalDecisions' = [goalDecisions EXCEPT ![e.goal] = Complete(@)]
        /\ cancelDecisions' = [cancelDecisions EXCEPT ![e.goal] = Complete(@)]
        /\ UNCHANGED <<threadVars, registryVars, eventVars, pollVars, closePc, rosVars, hak,
                       cancelRequested, cancelAccepted, feedbackSent, faults>>

\* a result first wakes the cancel callback that waits for its goal
WokenBy(e) ==
    IF IsResult(e) THEN [cancelDecisions EXCEPT ![e.goal] = Complete(@)] ELSE cancelDecisions

PollDelivery ==
    \E e \in Event :
        /\ e.kind \in {"FEEDBACK", "RESULT"} /\ Polled(e)
        /\ cancelDecisions' = WokenBy(e)
        /\ pollEvent' = e /\ pollPc' = "find"
        /\ UNCHANGED <<threadVars, registryVars, goalDecisions, eventVars, closePc, rosVars,
                       hak, cancelRequested, cancelAccepted, feedbackSent, faults>>

\* (mutant) a CANCELED result is delivered at once
NeverDeferred(r, e) == FALSE

\* a CANCELED result that comes before rclpy has made the goal CANCELING
MustDefer(r, e) == e = CanceledResult(e.goal) /\ ros[r] # "canceling"

\* the handle of the context and its is_cancel_requested are read, and the
\* branch is chosen; the chosen step runs later, under another lock
PollFind ==
    LET r == byHakoniwa[pollEvent.goal] IN
    /\ pollPc = "find"
    /\ pollPc' = IF r \notin RosGoals THEN "early"
                 ELSE IF MustDefer(r, pollEvent) THEN "defer" ELSE "deliver"
    /\ UNCHANGED <<threadVars, nodeVars, pollEvent, closePc, rosVars, hakVars, faults>>

PollEarly ==
    /\ pollPc = "early"
    /\ earlyEvents' = [earlyEvents EXCEPT ![pollEvent.goal] = Append(@, pollEvent)]
    /\ pollPc' = "poll" /\ pollEvent' = NoEvent
    /\ UNCHANGED <<threadVars, registryVars, decisionVars, completion, deferred, closePc,
                   rosVars, hakVars, faults>>

PollDefer ==
    /\ pollPc = "defer"
    /\ deferred' = [deferred EXCEPT ![pollEvent.goal] = TRUE]
    /\ pollPc' = "poll" /\ pollEvent' = NoEvent
    /\ UNCHANGED <<threadVars, registryVars, decisionVars, completion, earlyEvents, closePc,
                   rosVars, hakVars, faults>>

\* the context found earlier may have left the registry by now, its handle
\* is still the one to deliver to
PollDeliver ==
    \E r \in RosGoals :
        /\ pollPc = "deliver" /\ boundTo[r] = pollEvent.goal
        /\ Deliver(r, pollEvent.goal, pollEvent)
        /\ pollPc' = "poll" /\ pollEvent' = NoEvent
        /\ UNCHANGED <<threadVars, registryVars, decisionVars, earlyEvents, deferred, closePc,
                       hakVars>>

\* _flush_deferred_cancel_results picks a result whose goal is now CANCELING
PollFlush ==
    \E h \in HakGoals :
        /\ pollPc = "poll" /\ deferred[h]
        /\ byHakoniwa[h] \in RosGoals /\ ros[byHakoniwa[h]] = "canceling"
        /\ deferred' = [deferred EXCEPT ![h] = FALSE]
        /\ pollEvent' = CanceledResult(h) /\ pollPc' = "deliver"
        /\ UNCHANGED <<threadVars, registryVars, decisionVars, completion, earlyEvents, closePc,
                       rosVars, hakVars, faults>>

-----------------------------------------------------------------------------
(***************************************************************************)
(* _close_runtime.  The executor has stopped by then, but the callbacks    *)
(* already handed to its threads keep running.                             *)
(***************************************************************************)
CloseStop ==
    /\ MayClose /\ closePc = "running"
    /\ closePc' = "stopping"
    /\ UNCHANGED <<threadVars, nodeVars, pollVars, rosVars, hakVars, faults>>

CloseDecisions ==
    /\ closePc = "stopping"
    /\ goalDecisions' = [h \in HakGoals |-> Complete(goalDecisions[h])]
    /\ cancelDecisions' = [h \in HakGoals |-> Complete(cancelDecisions[h])]
    /\ closePc' = "joining"
    /\ UNCHANGED <<threadVars, registryVars, eventVars, pollVars, rosVars, hakVars, faults>>

\* join() returns when the poll thread has left its loop, or after 5 seconds:
\* then the thread goes on with the event in hand, and with the other clients
CloseJoin ==
    /\ closePc = "joining"
    /\ \/ pollPc = "poll" /\ pollPc' = "ended" /\ UNCHANGED faults
       \/ pollPc # "poll" /\ Fault /\ UNCHANGED pollPc
    /\ closePc' = "joined"
    /\ UNCHANGED <<threadVars, nodeVars, pollEvent, rosVars, hakVars>>

\* servers and clients are closed, deferred results and contexts dropped
CloseClear ==
    /\ closePc = "joined"
    /\ deferred' = [h \in HakGoals |-> FALSE]
    /\ byHakoniwa' = [h \in HakGoals |-> "absent"]
    /\ byRos' = [r \in RosGoals |-> NoGoal]
    /\ acceptedOrder' = [a \in Actions |-> <<>>]
    /\ closePc' = "closed"
    /\ UNCHANGED <<threadVars, decisionVars, completion, earlyEvents, pollVars, rosVars,
                   hakVars, faults>>

-----------------------------------------------------------------------------
(***************************************************************************)
(* The Hakoniwa side (external): one FIFO of events per Action Client.     *)
(***************************************************************************)
BridgeVars == <<goalVars, cancelVars, execPc, registryVars, decisionVars, eventVars,
                pollVars, closePc, rosVars>>

Emit(e) == events' = Append(events, e)

HakGoalAnswer(h) ==
    \E accept \in BOOLEAN :
        /\ hak[h] = "requested"
        /\ hak' = [hak EXCEPT ![h] = IF accept THEN "executing" ELSE "refused"]
        /\ Emit([kind |-> "GOAL_RESPONSE", goal |-> h, accepted |-> accept])
        /\ UNCHANGED <<BridgeVars, cancelRequested, cancelAccepted, feedbackSent, faults>>

\* (mutant) feedback numbered from zero
NumberedFromZero(h) == feedbackSent[h]

NextSeq(h) == feedbackSent[h] + 1

HakFeedback(h) ==
    /\ hak[h] = "executing" /\ feedbackSent[h] < MaxFeedback
    /\ feedbackSent' = [feedbackSent EXCEPT ![h] = @ + 1]
    /\ Emit([kind |-> "FEEDBACK", goal |-> h, seq |-> NextSeq(h)])
    /\ UNCHANGED <<BridgeVars, hak, cancelRequested, cancelAccepted, faults>>

\* a goal is CANCELED only if its cancel request was accepted
HakFinish(h) ==
    \E status \in Terminal :
        /\ hak[h] = "executing"
        /\ status = "canceled" => h \in cancelAccepted
        /\ hak' = [hak EXCEPT ![h] = status]
        /\ Emit([kind |-> "RESULT", goal |-> h, status |-> status])
        /\ UNCHANGED <<BridgeVars, cancelRequested, cancelAccepted, feedbackSent, faults>>

\* a cancel request that crosses the result of its goal is not answered
HakCancelAnswer(h) ==
    \E accept \in BOOLEAN :
        /\ h \in cancelRequested /\ hak[h] = "executing"
        /\ cancelRequested' = cancelRequested \ {h}
        /\ cancelAccepted' = IF accept THEN cancelAccepted \cup {h} ELSE cancelAccepted
        /\ Emit([kind |-> "CANCEL_RESPONSE", goal |-> h, accepted |-> accept])
        /\ UNCHANGED <<BridgeVars, hak, feedbackSent, faults>>

HakError(h) ==
    /\ hak[h] # "none" /\ Fault
    /\ Emit([kind |-> "ERROR", goal |-> h])
    /\ UNCHANGED <<BridgeVars, hak, cancelRequested, cancelAccepted, feedbackSent>>

-----------------------------------------------------------------------------
GoalTask(r) ==
    \/ GoalSend(r) \/ GoalSendFails(r) \/ GoalWaitReturns(r) \/ GoalReject(r)
    \/ GoalAccept(r) \/ BindRosAccepted(r) \/ BindFails(r) \/ CollectEarly(r)
    \/ ExecuteGoal(r) \/ DeliverEarly(r) \/ AcceptedReturns(r)

CancelTask(r) ==
    \/ CancelBegin(r) \/ CancelRefused(r) \/ CancelSend(r) \/ CancelSendFails(r)
    \/ CancelWaitReturns(r) \/ CancelAnswer(r)

ExecTask(r) == ExecStart(r) \/ ExecAborts(r) \/ ExecWake(r) \/ ExecReturn(r)

PollTake == PollGoalResponse \/ PollCancelResponse \/ PollError \/ PollDelivery
PollWork == PollFind \/ PollEarly \/ PollDefer \/ PollDeliver

Close == CloseStop \/ CloseDecisions \/ CloseJoin \/ CloseClear

Next ==
    \/ \E r \in RosGoals : \/ \E h \in HakGoals : GoalBegin(r, h)
                           \/ GoalTask(r)
                           \/ CancelCalled(r) \/ CancelTask(r)
                           \/ ExecTask(r)
    \/ PollTake \/ PollWork \/ PollFlush
    \/ Close
    \/ \E h \in HakGoals : \/ HakGoalAnswer(h) \/ HakFeedback(h) \/ HakFinish(h)
                           \/ HakCancelAnswer(h) \/ HakError(h)

Spec == Init /\ [][Next]_vars

(***************************************************************************)
(* Fairness: the threads of the process are scheduled, and the Hakoniwa    *)
(* server answers the goal and cancel requests it receives.  Nothing       *)
(* obliges a client to send requests or a server to finish a goal.         *)
(***************************************************************************)
Fairness ==
    /\ \A r \in RosGoals : WF_vars(GoalTask(r)) /\ WF_vars(CancelTask(r)) /\ WF_vars(ExecTask(r))
    /\ WF_vars(PollTake) /\ WF_vars(PollWork) /\ WF_vars(PollFlush)
    /\ \A h \in HakGoals : WF_vars(HakGoalAnswer(h)) /\ WF_vars(HakCancelAnswer(h))

FairSpec == Spec /\ Fairness

-----------------------------------------------------------------------------
(***************************************************************************)
(* Safety.                                                                 *)
(***************************************************************************)
\* A goal handle is bound to the Hakoniwa goal that its own goal request
\* sent.  bind_ros_accepted only takes the oldest accepted goal of the
\* action, so the pairing rests on the callback group.
Correlated ==
    /\ \A r \in RosGoals : boundTo[r] \in {NoGoal, goalId[r]}
    /\ \A r \in RosGoals, h \in HakGoals : byHakoniwa[h] = r => goalId[r] = h

\* The two indexes of the registry describe the same pairs: a goal that one
\* side can find, the other side finds too.
IndexesAgree ==
    \A r \in RosGoals, h \in HakGoals : byHakoniwa[h] = r <=> byRos[r] = h

(***************************************************************************)
(* Why that is so, as an inductive invariant: one task of the group is in  *)
(* progress, and an accepted goal waits in the queue only between the two  *)
(* callbacks of one task, alone and for that task.                         *)
(***************************************************************************)
Busy(r) == InGoalTask(r) \/ InCancelTask(r)

OneTask == \A r, q \in RosGoals : Busy(r) /\ Busy(q) => r = q

GoalIdsDistinct ==
    /\ \A r \in RosGoals : goalId[r] = NoGoal <=> goalPc[r] = "none"
    /\ \A r, q \in RosGoals : goalId[r] = goalId[q] /\ goalId[r] # NoGoal => r = q

QueueIsTasks ==
    \A a \in Actions :
        \/ acceptedOrder[a] = <<>>
        \/ \E r \in RosGoals : /\ goalPc[r] = "registered" /\ ActionOf[r] = a
                              /\ acceptedOrder[a] = <<goalId[r]>>

BoundPc == {"bound", "collected", "delivering", "accepted"}

BoundWhenBound ==
    \A r \in RosGoals :
        /\ boundTo[r] \in {NoGoal, goalId[r]}
        /\ byRos[r] \in {NoGoal, boundTo[r]}
        /\ boundTo[r] # NoGoal <=> goalPc[r] \in BoundPc
        /\ execPc[r] # "none" => goalPc[r] \in {"delivering", "accepted"}
        /\ cancelPc[r] \in {"sending", "waiting", "woken"} => boundTo[r] # NoGoal

PollHolds ==
    pollPc \notin {"poll", "ended"} =>
        pollEvent \in Event /\ pollEvent.kind \in {"FEEDBACK", "RESULT"}

PairingInv == /\ OneTask /\ GoalIdsDistinct /\ QueueIsTasks /\ BoundWhenBound
              /\ PollHolds /\ IndexesAgree

\* Whatever _goal_decisions and _cancel_decisions hold is awaited by a
\* callback, on every way out of it: a decision left behind would refuse
\* every later cancel request of its goal as a duplicate.
DecisionsAwaited ==
    \A h \in HakGoals :
        /\ goalDecisions[h] # "absent" =>
             \E r \in RosGoals :
                 goalId[r] = h /\ goalPc[r] \in {"sending", "waiting", "woken", "timedOut"}
        /\ cancelDecisions[h] # "absent" =>
             \E r \in RosGoals :
                 boundTo[r] = h /\ cancelPc[r] \in {"sending", "waiting", "woken"}

\* No exception and no ERROR event so far, and no shutdown.
Undisturbed == faults = 0 /\ closePc = "running"

\* A cancel request that Hakoniwa accepted is not answered REJECT to ROS, nor
\* the other way round (the split the wait without a timeout is there to
\* avoid), while no ERROR event arrives and the node stays open.
CancelAnswersAgree ==
    Undisturbed =>
        \A r \in RosGoals :
            cancelPc[r] = "idle" /\ cancelReply[r] # "none" =>
                (cancelReply[r] = "ACCEPT" <=> goalId[r] \in cancelAccepted)

CopiesIn(s, e) == Cardinality({i \in DOMAIN s : s[i] = e})

\* Until its execute callback ends, every feedback of a goal is in one place:
\* in the event queue, in the hand of the poll thread, parked as an early
\* event, in the hand of the accepted callback, or published.  The handover
\* between the two threads that deliver loses none and doubles none.
FeedbackAccounted ==
    Undisturbed =>
        \A r \in {q \in RosGoals : /\ goalId[q] # NoGoal
                                   /\ execPc[q] \notin {"removing", "returned"}} :
            \A n \in 1 .. feedbackSent[goalId[r]] :
                LET e == [kind |-> "FEEDBACK", goal |-> goalId[r], seq |-> n]
                IN  CopiesIn(events \o <<pollEvent>> \o earlyEvents[goalId[r]] \o early[r], e)
                    + CopiesIn(published[r], n) = 1

\* Until the node closes, a context leaves the registry only when its ROS
\* goal has reached a terminal state; a rejected cancel keeps it.
ContextOutlivesGoal ==
    [][\A h \in HakGoals :
          byHakoniwa[h] \in RosGoals /\ byHakoniwa'[h] = "absent" =>
              ros[byHakoniwa[h]] \in Terminal \/ closePc' = "closed"]_vars

(***************************************************************************)
(* Liveness.                                                               *)
(***************************************************************************)
\* Every cancel callback returns, so it never blocks the callback group for
\* good: an answer, the result of the goal, or the shutdown wakes it.
CancelReturns == \A r \in RosGoals : cancelPc[r] = "waiting" ~> cancelPc[r] = "idle"

\* A result that is polled while the execute callback awaits it completes the
\* ROS goal, also when a CANCELED result has to be deferred, unless an
\* exception or the shutdown comes in between.
AwaitedResultDelivered ==
    \A r \in RosGoals, h \in HakGoals :
        /\ execPc[r] = "awaiting" /\ goalId[r] = h
        /\ \E i \in DOMAIN events : IsResult(events[i]) /\ events[i].goal = h
        ~> execPc[r] = "returned" \/ ~Undisturbed

\* Every accepted goal whose Hakoniwa goal ends is given its result.
ResultEventually ==
    \A r \in RosGoals, h \in HakGoals :
        ros[r] = "executing" /\ goalId[r] = h /\ hak[h] \in Terminal
        ~> ros[r] \in Terminal

-----------------------------------------------------------------------------
\* The contract the bridge keeps between a ROS goal and its Hakoniwa goal.
Relay == INSTANCE ActionGoalRelay
         WITH mate <- goalId, down <- (closePc = "closed")
RelaySpec == Relay!Spec
=============================================================================
