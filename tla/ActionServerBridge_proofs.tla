---------------------- MODULE ActionServerBridge_proofs ----------------------
EXTENDS ActionServerBridge, FiniteSetTheorems, SequenceTheorems, TLAPS

\* Functions to sequences under EXCEPT.
LEMMA AppendAt ==
    ASSUME NEW D, NEW S, NEW f \in [D -> Seq(S)], NEW x, NEW e \in S
    PROVE  [f EXCEPT ![x] = Append(@, e)] \in [D -> Seq(S)]
  <1>1. x \in D => Append(f[x], e) \in Seq(S)
    OBVIOUS
  <1>2. \A v : (x \in D => v \in Seq(S)) => [f EXCEPT ![x] = v] \in [D -> Seq(S)]
    BY Zenon
  <1> QED
    BY <1>1, <1>2

\* A sequence of such a function is cleared.
LEMMA EmptyAt ==
    ASSUME NEW D, NEW S, NEW f \in [D -> Seq(S)], NEW x
    PROVE  [f EXCEPT ![x] = <<>>] \in [D -> Seq(S)]
  <1>1. <<>> \in Seq(S)
    OBVIOUS
  <1> QED
    BY <1>1, Zenon

\* What a delivery may change keeps its type.
DeliveryTyped ==
    /\ ros' \in [RosGoals -> {"none", "accepted", "executing", "canceling"} \cup Terminal]
    /\ published' \in [RosGoals -> Seq(1 .. MaxFeedback)]
    /\ completion' \in [HakGoals -> {"none", "pending", "done"}]
    /\ faults' \in 0 .. MaxFaults

\* A delivery to ROS, with or without an exception, keeps the types.
LEMMA DeliverTypes ==
    ASSUME TypeOK, NEW r \in RosGoals, NEW h, NEW e \in Event, Deliver(r, h, e)
    PROVE  DeliveryTyped
  <1>1. CASE e.kind = "FEEDBACK" /\ published' = [published EXCEPT ![r] = Append(@, e.seq)]
             /\ UNCHANGED <<ros, completion, faults>>
    <2>1. e.seq \in 1 .. MaxFeedback
      BY <1>1 DEF Event
    <2> QED
      BY <1>1, <2>1 DEF TypeOK, DeliveryTyped
  <1>2. CASE IsResult(e) /\ MayTerminate(ros[r], e.status)
             /\ ros' = [ros EXCEPT ![r] = e.status]
             /\ completion' = [completion EXCEPT ![h] = IF @ = "pending" THEN "done" ELSE @]
             /\ UNCHANGED <<published, faults>>
    <2>1. e.status \in Terminal
      BY <1>2 DEF Event, IsResult
    <2> QED
      BY <1>2, <2>1 DEF TypeOK, DeliveryTyped
  <1>3. CASE UNCHANGED <<ros, published, completion, faults>>
    BY <1>3 DEF TypeOK, DeliveryTyped
  <1>4. CASE Fault /\ UNCHANGED <<ros, published, completion>>
    BY <1>4, ActionServerAssumption DEF TypeOK, DeliveryTyped, Fault
  <1> QED
    BY <1>1, <1>2, <1>3, <1>4 DEF Deliver

\* A goal whose execute task runs is not in the queue of accepted goals.
LEMMA ReturnedNotQueued ==
    ASSUME TypeOK, PairingInv, NEW r \in RosGoals, execPc[r] = "removing",
           NEW a \in Actions, NEW i \in DOMAIN acceptedOrder[a]
    PROVE  acceptedOrder[a][i] # boundTo[r]
  <1>1. goalPc[r] \in {"delivering", "accepted"} /\ boundTo[r] = goalId[r] /\ goalId[r] # NoGoal
    BY DEF PairingInv, BoundWhenBound, BoundPc, GoalIdsDistinct
  <1>2. acceptedOrder[a] # <<>>
    OBVIOUS
  <1>3. PICK q \in RosGoals : goalPc[q] = "registered" /\ acceptedOrder[a] = <<goalId[q]>>
    BY <1>2 DEF PairingInv, QueueIsTasks
  <1>4. acceptedOrder[a][i] = goalId[q]
    BY <1>3
  <1> QED
    BY <1>1, <1>3, <1>4 DEF PairingInv, GoalIdsDistinct

\* Every step keeps the types of the variables.
LEMMA TypeStep == TypeOK /\ PairingInv /\ [Next]_vars => TypeOK'
  <1> SUFFICES ASSUME TypeOK, PairingInv, [Next]_vars PROVE TypeOK'
    OBVIOUS
  <1> USE DEF goalVars, cancelVars, registryVars, decisionVars, eventVars, pollVars, rosVars,
              hakVars, threadVars, nodeVars, outside, BridgeVars
  <1>1. ASSUME NEW r \in RosGoals, NEW h \in HakGoals, GoalBegin(r, h) PROVE TypeOK'
    BY <1>1, ActionServerAssumption DEF TypeOK, GoalBegin, Decision, GoalPc
  <1>2. ASSUME NEW r \in RosGoals, GoalSend(r) PROVE TypeOK'
    BY <1>2, ActionServerAssumption DEF TypeOK, GoalSend, Terminal, Decision, GoalPc
  <1>3. ASSUME NEW r \in RosGoals, GoalSendFails(r) PROVE TypeOK'
    <2>1. faults' \in 0 .. MaxFaults
      BY <1>3, ActionServerAssumption DEF GoalSendFails, Fault, TypeOK
    <2> QED
      BY <1>3, ActionServerAssumption, <2>1 DEF TypeOK, GoalSendFails, Drop, Decision, GoalPc
  <1>4. ASSUME NEW r \in RosGoals, GoalWaitReturns(r) PROVE TypeOK'
    BY <1>4, ActionServerAssumption DEF TypeOK, GoalWaitReturns, Decision, GoalPc
  <1>5. ASSUME NEW r \in RosGoals, GoalReject(r) PROVE TypeOK'
    BY <1>5, ActionServerAssumption DEF TypeOK, GoalReject, Drop, Decision, GoalPc
  <1>6. ASSUME NEW r \in RosGoals, GoalAccept(r) PROVE TypeOK'
    <2>1. goalId[r] \in HakGoals
      BY <1>6 DEF GoalAccept, PairingInv, GoalIdsDistinct, TypeOK
    <2>2. acceptedOrder \in [Actions -> Seq(HakGoals)]
      BY DEF TypeOK
    <2>3. acceptedOrder' = [acceptedOrder EXCEPT ![ActionOf[r]] = Append(@, goalId[r])]
      BY <1>6 DEF GoalAccept
    <2>4. acceptedOrder' \in [Actions -> Seq(HakGoals)]
      BY <2>1, <2>2, <2>3, AppendAt
    <2>5. byHakoniwa' \in [HakGoals -> RosGoals \cup {"absent", "unbound"}]
      BY <1>6 DEF GoalAccept, TypeOK
    <2>6. goalPc' \in [RosGoals -> GoalPc]
      BY <1>6 DEF GoalAccept, TypeOK, GoalPc
    <2>7. goalDecisions' \in [HakGoals -> Decision]
      BY <1>6 DEF GoalAccept, Drop, TypeOK, Decision
    <2>8. UNCHANGED <<goalId, boundTo, early, cancelVars, execPc, byRos, cancelDecisions,
                      eventVars, pollVars, closePc, rosVars, hakVars, faults>>
      BY <1>6 DEF GoalAccept
    <2> QED
      BY <1>6, ActionServerAssumption, <2>1, <2>2, <2>3, <2>4, <2>5, <2>6, <2>7, <2>8
         DEF TypeOK, Decision, GoalPc
  <1>7. ASSUME NEW r \in RosGoals, BindRosAccepted(r) PROVE TypeOK'
    <2>1. ActionOf[r] \in Actions /\ acceptedOrder[ActionOf[r]] \in Seq(HakGoals)
      BY ActionServerAssumption DEF TypeOK
    <2>2. Head(acceptedOrder[ActionOf[r]]) \in HakGoals /\ Tail(acceptedOrder[ActionOf[r]]) \in Seq(HakGoals)
      BY <1>7, <2>1 DEF BindRosAccepted
    <2> QED
      BY <1>7, ActionServerAssumption, <2>1, <2>2 DEF TypeOK, BindRosAccepted, Decision, GoalPc
  <1>8. ASSUME NEW r \in RosGoals, BindFails(r) PROVE TypeOK'
    BY <1>8, ActionServerAssumption DEF TypeOK, BindFails, Decision, GoalPc
  <1>9. ASSUME NEW r \in RosGoals, CollectEarly(r) PROVE TypeOK'
    <2>1. boundTo[r] \in HakGoals
      BY <1>9 DEF CollectEarly, PairingInv, BoundWhenBound, BoundPc, TypeOK
    <2> QED
      BY <1>9, ActionServerAssumption, <2>1 DEF TypeOK, CollectEarly, WithoutParked, Decision, GoalPc
  <1>10. ASSUME NEW r \in RosGoals, ExecuteGoal(r) PROVE TypeOK'
    BY <1>10, ActionServerAssumption DEF TypeOK, ExecuteGoal, Decision, GoalPc
  <1>11. ASSUME NEW r \in RosGoals, DeliverEarly(r) PROVE TypeOK'
    <2>1. Head(early[r]) \in Event /\ Tail(early[r]) \in Seq(Event)
      BY <1>11 DEF DeliverEarly, TypeOK
    <2>2. DeliveryTyped
      BY <1>11, <2>1, DeliverTypes DEF DeliverEarly
    <2> QED
      BY <1>11, ActionServerAssumption, <2>1, <2>2
         DEF TypeOK, DeliverEarly, DeliveryTyped, Decision, GoalPc
  <1>12. ASSUME NEW r \in RosGoals, AcceptedReturns(r) PROVE TypeOK'
    BY <1>12, ActionServerAssumption DEF TypeOK, AcceptedReturns, Decision, GoalPc
  <1>13. ASSUME NEW r \in RosGoals, ExecStart(r) PROVE TypeOK'
    BY <1>13, ActionServerAssumption DEF TypeOK, ExecStart, Decision, GoalPc
  <1>14. ASSUME NEW r \in RosGoals, ExecAborts(r) PROVE TypeOK'
    BY <1>14, ActionServerAssumption DEF TypeOK, ExecAborts, Terminal, Decision, GoalPc
  <1>15. ASSUME NEW r \in RosGoals, ExecWake(r) PROVE TypeOK'
    <2>1. earlyEvents \in [HakGoals -> Seq(Event)]
      BY DEF TypeOK
    <2>2. earlyEvents' = [earlyEvents EXCEPT ![boundTo[r]] = <<>>]
      BY <1>15 DEF ExecWake
    <2>3. earlyEvents' \in [HakGoals -> Seq(Event)]
      BY <2>1, <2>2, EmptyAt
    <2>4. completion' \in [HakGoals -> {"none", "pending", "done"}] /\ deferred' \in [HakGoals -> BOOLEAN]
      BY <1>15 DEF ExecWake, TypeOK
    <2>5. execPc' \in [RosGoals -> {"none", "scheduled", "awaiting", "removing", "returned"}]
      BY <1>15 DEF ExecWake, TypeOK
    <2>6. UNCHANGED <<goalVars, cancelVars, registryVars, decisionVars, pollVars, closePc,
                      rosVars, hakVars, faults>>
      BY <1>15 DEF ExecWake
    <2> QED
      BY <1>15, ActionServerAssumption, <2>1, <2>2, <2>3, <2>4, <2>5, <2>6
         DEF TypeOK, Decision, GoalPc
  <1>16. ASSUME NEW r \in RosGoals, ExecReturn(r) PROVE TypeOK'
    <2>1. byHakoniwa' \in [HakGoals -> RosGoals \cup {"absent", "unbound"}]
      BY <1>16 DEF ExecReturn, TypeOK
    <2>2. byRos' \in [RosGoals -> HakGoals \cup {NoGoal}]
      BY <1>16 DEF ExecReturn, WithoutContext, TypeOK
    <2>3. ActionOf[r] \in Actions /\ execPc[r] = "removing"
      BY <1>16, ActionServerAssumption DEF ExecReturn
    <2>4. \A i \in DOMAIN acceptedOrder[ActionOf[r]] : acceptedOrder[ActionOf[r]][i] # boundTo[r]
      BY <2>3, ReturnedNotQueued
    <2>5. UNCHANGED acceptedOrder
      BY <1>16, <2>4 DEF ExecReturn
    <2> QED
      BY <1>16, ActionServerAssumption, <2>1, <2>2, <2>3, <2>4, <2>5
         DEF TypeOK, ExecReturn, Decision, GoalPc
  <1>17. ASSUME NEW r \in RosGoals, CancelCalled(r) PROVE TypeOK'
    <2>1. cancels' \in [RosGoals -> 0 .. MaxCancels]
      BY <1>17, ActionServerAssumption DEF CancelCalled, TypeOK
    <2> QED
      BY <1>17, ActionServerAssumption, <2>1 DEF TypeOK, CancelCalled, Decision, GoalPc
  <1>18. ASSUME NEW r \in RosGoals, CancelBegin(r) PROVE TypeOK'
    BY <1>18, ActionServerAssumption DEF TypeOK, CancelBegin, Decision, GoalPc
  <1>19. ASSUME NEW r \in RosGoals, CancelRefused(r) PROVE TypeOK'
    BY <1>19, ActionServerAssumption DEF TypeOK, CancelRefused, Decision, GoalPc
  <1>20. ASSUME NEW r \in RosGoals, CancelSend(r) PROVE TypeOK'
    <2>1. boundTo[r] \in HakGoals
      BY <1>20 DEF CancelSend, PairingInv, BoundWhenBound, TypeOK
    <2> QED
      BY <1>20, ActionServerAssumption, <2>1 DEF TypeOK, CancelSend, Decision, GoalPc
  <1>21. ASSUME NEW r \in RosGoals, CancelSendFails(r) PROVE TypeOK'
    <2>1. faults' \in 0 .. MaxFaults
      BY <1>21, ActionServerAssumption DEF CancelSendFails, Fault, TypeOK
    <2> QED
      BY <1>21, ActionServerAssumption, <2>1 DEF TypeOK, CancelSendFails, Drop, Decision, GoalPc
  <1>22. ASSUME NEW r \in RosGoals, CancelWaitReturns(r) PROVE TypeOK'
    BY <1>22, ActionServerAssumption DEF TypeOK, CancelWaitReturns, Decision, GoalPc
  <1>23. ASSUME NEW r \in RosGoals, CancelAnswer(r) PROVE TypeOK'
    BY <1>23, ActionServerAssumption DEF TypeOK, CancelAnswer, Drop, Terminal, Decision, GoalPc
  <1>24. ASSUME PollGoalResponse PROVE TypeOK'
    BY <1>24, ActionServerAssumption
       DEF TypeOK, PollGoalResponse, Polled, Resolve, Event, Terminal, NoEvent, Decision,
           GoalPc
  <1>25. ASSUME PollCancelResponse PROVE TypeOK'
    BY <1>25, ActionServerAssumption
       DEF TypeOK, PollCancelResponse, Polled, Resolve, Event, Terminal, NoEvent, Decision,
           GoalPc
  <1>26. ASSUME PollError PROVE TypeOK'
    BY <1>26, ActionServerAssumption
       DEF TypeOK, PollError, Polled, Complete, Event, Terminal, NoEvent, Decision, GoalPc
  <1>27. ASSUME PollDelivery PROVE TypeOK'
    BY <1>27, ActionServerAssumption
       DEF TypeOK, PollDelivery, Polled, WokenBy, Complete, Event, Terminal, NoEvent,
           Decision, GoalPc
  <1>28. ASSUME PollFind PROVE TypeOK'
    BY <1>28, ActionServerAssumption DEF TypeOK, PollFind, NoEvent, Decision, GoalPc
  <1>29. ASSUME PollEarly PROVE TypeOK'
    <2>1. pollEvent \in Event /\ pollEvent.goal \in HakGoals
      BY <1>29 DEF PollEarly, PairingInv, PollHolds, Event
    <2>2. earlyEvents' \in [HakGoals -> Seq(Event)]
      BY <1>29, <2>1 DEF PollEarly, TypeOK
    <2> QED
      BY <1>29, ActionServerAssumption, <2>1, <2>2
         DEF TypeOK, PollEarly, NoEvent, Decision, GoalPc
  <1>30. ASSUME PollDefer PROVE TypeOK'
    BY <1>30, ActionServerAssumption DEF TypeOK, PollDefer, NoEvent, Decision, GoalPc
  <1>31. ASSUME PollDeliver PROVE TypeOK'
    <2>1. pollEvent \in Event
      BY <1>31 DEF PollDeliver, PairingInv, PollHolds
    <2>2. DeliveryTyped
      BY <1>31, <2>1, DeliverTypes DEF PollDeliver
    <2> QED
      BY <1>31, ActionServerAssumption, <2>1, <2>2
         DEF TypeOK, PollDeliver, DeliveryTyped, NoEvent, Decision, GoalPc
  <1>32. ASSUME PollFlush PROVE TypeOK'
    BY <1>32, ActionServerAssumption
       DEF TypeOK, PollFlush, CanceledResult, Event, Terminal, NoEvent, Decision, GoalPc
  <1>33. ASSUME CloseStop PROVE TypeOK'
    BY <1>33, ActionServerAssumption DEF TypeOK, CloseStop, Decision, GoalPc
  <1>34. ASSUME CloseDecisions PROVE TypeOK'
    BY <1>34, ActionServerAssumption DEF TypeOK, CloseDecisions, Complete, Decision, GoalPc
  <1>35. ASSUME CloseJoin PROVE TypeOK'
    BY <1>35, ActionServerAssumption DEF TypeOK, CloseJoin, Fault, Decision, GoalPc
  <1>36. ASSUME CloseClear PROVE TypeOK'
    BY <1>36, ActionServerAssumption DEF TypeOK, CloseClear, Decision, GoalPc
  <1>37. ASSUME NEW h \in HakGoals, HakGoalAnswer(h) PROVE TypeOK'
    BY <1>37, ActionServerAssumption
       DEF TypeOK, HakGoalAnswer, Emit, Event, Terminal, NoEvent, Decision, GoalPc
  <1>38. ASSUME NEW h \in HakGoals, HakFeedback(h) PROVE TypeOK'
    BY <1>38, ActionServerAssumption
       DEF TypeOK, HakFeedback, NextSeq, Emit, Event, Terminal, NoEvent, Decision, GoalPc
  <1>39. ASSUME NEW h \in HakGoals, HakFinish(h) PROVE TypeOK'
    BY <1>39, ActionServerAssumption
       DEF TypeOK, HakFinish, Emit, Event, Terminal, NoEvent, Decision, GoalPc
  <1>40. ASSUME NEW h \in HakGoals, HakCancelAnswer(h) PROVE TypeOK'
    BY <1>40, ActionServerAssumption
       DEF TypeOK, HakCancelAnswer, Emit, Event, Terminal, NoEvent, Decision, GoalPc
  <1>41. ASSUME NEW h \in HakGoals, HakError(h) PROVE TypeOK'
    BY <1>41, ActionServerAssumption
       DEF TypeOK, HakError, Emit, Fault, Event, Terminal, NoEvent, Decision, GoalPc
  <1>42. CASE UNCHANGED vars
    BY <1>42 DEF TypeOK, vars
  <1> QED
    BY <1>1, <1>2, <1>3, <1>4, <1>5, <1>6, <1>7, <1>8, <1>9, <1>10, <1>11, <1>12, <1>13,
       <1>14, <1>15, <1>16, <1>17, <1>18, <1>19, <1>20, <1>21, <1>22, <1>23, <1>24, <1>25,
       <1>26, <1>27, <1>28, <1>29, <1>30, <1>31, <1>32, <1>33, <1>34, <1>35, <1>36, <1>37,
       <1>38, <1>39, <1>40, <1>41, <1>42
       DEF Next, GoalTask, CancelTask, ExecTask, PollTake, PollWork, Close

\* Between its two callbacks a task owns the queue; at any other time the
\* queue is empty.
LEMMA QueueOfTask ==
    ASSUME PairingInv, NEW r \in RosGoals, Busy(r), NEW a \in Actions, acceptedOrder[a] # <<>>
    PROVE  /\ goalPc[r] = "registered" /\ ActionOf[r] = a
           /\ acceptedOrder[a] = <<goalId[r]>>
  <1>1. PICK q \in RosGoals : /\ goalPc[q] = "registered" /\ ActionOf[q] = a
                             /\ acceptedOrder[a] = <<goalId[q]>>
    BY DEF PairingInv, QueueIsTasks
  <1>2. Busy(q)
    BY <1>1 DEF Busy, InGoalTask
  <1> QED
    BY <1>1, <1>2 DEF PairingInv, OneTask

\* A task that is not between the two callbacks does not disturb the queue.
LEMMA QueueKept ==
    ASSUME PairingInv, NEW r \in RosGoals, goalPc[r] # "registered",
           \A q \in RosGoals \ {r} : goalPc'[q] = goalPc[q] /\ goalId'[q] = goalId[q],
           acceptedOrder' = acceptedOrder
    PROVE  QueueIsTasks'
  <1> SUFFICES ASSUME NEW a \in Actions, acceptedOrder[a] # <<>>
               PROVE  \E q \in RosGoals : /\ goalPc'[q] = "registered" /\ ActionOf[q] = a
                                         /\ acceptedOrder[a] = <<goalId'[q]>>
    BY DEF QueueIsTasks
  <1>1. PICK q \in RosGoals : /\ goalPc[q] = "registered" /\ ActionOf[q] = a
                             /\ acceptedOrder[a] = <<goalId[q]>>
    BY DEF PairingInv, QueueIsTasks
  <1>2. q # r
    BY <1>1
  <1>3. goalPc'[q] = "registered" /\ ActionOf[q] = a /\ acceptedOrder[a] = <<goalId'[q]>>
    BY <1>1, <1>2
  <1> QED
    BY <1>3

\* bind_ros_accepted takes the goal of the task that calls it.
LEMMA BindTakesOwnGoal ==
    ASSUME TypeOK, PairingInv, NEW r \in RosGoals, BindRosAccepted(r)
    PROVE  /\ acceptedOrder[ActionOf[r]] = <<goalId[r]>>
           /\ Head(acceptedOrder[ActionOf[r]]) = goalId[r]
           /\ Tail(acceptedOrder[ActionOf[r]]) = <<>>
  <1>1. Busy(r) /\ ActionOf[r] \in Actions /\ acceptedOrder[ActionOf[r]] # <<>>
    BY ActionServerAssumption DEF BindRosAccepted, Busy, InGoalTask
  <1>2. acceptedOrder[ActionOf[r]] = <<goalId[r]>>
    BY <1>1, QueueOfTask
  <1>3. \A x : Head(<<x>>) = x /\ Tail(<<x>>) = <<>>
    OBVIOUS
  <1> QED
    BY <1>2, <1>3

\* The group starts a task only when no other one is in progress.
LEMMA OneTaskStep == TypeOK /\ PairingInv /\ [Next]_vars => OneTask'
  <1> SUFFICES ASSUME TypeOK, PairingInv, [Next]_vars PROVE OneTask'
    OBVIOUS
  <1> USE DEF goalVars, cancelVars, registryVars, decisionVars, eventVars, pollVars, rosVars,
              hakVars, threadVars, nodeVars, outside, BridgeVars
  <1>1. ASSUME NEW r \in RosGoals, NEW h \in HakGoals, GoalBegin(r, h) PROVE OneTask'
    BY <1>1
       DEF OneTask, Busy, InGoalTask, InCancelTask, GroupFree, GoalBegin, TypeOK, PairingInv
  <1>2. ASSUME NEW r \in RosGoals, GoalSend(r) PROVE OneTask'
    BY <1>2 DEF OneTask, Busy, InGoalTask, InCancelTask, GroupFree, GoalSend, TypeOK, PairingInv
  <1>3. ASSUME NEW r \in RosGoals, GoalSendFails(r) PROVE OneTask'
    BY <1>3
       DEF OneTask, Busy, InGoalTask, InCancelTask, GroupFree, GoalSendFails, TypeOK,
           PairingInv
  <1>4. ASSUME NEW r \in RosGoals, GoalWaitReturns(r) PROVE OneTask'
    BY <1>4
       DEF OneTask, Busy, InGoalTask, InCancelTask, GroupFree, GoalWaitReturns, TypeOK,
           PairingInv
  <1>5. ASSUME NEW r \in RosGoals, GoalReject(r) PROVE OneTask'
    BY <1>5
       DEF OneTask, Busy, InGoalTask, InCancelTask, GroupFree, GoalReject, TypeOK, PairingInv
  <1>6. ASSUME NEW r \in RosGoals, GoalAccept(r) PROVE OneTask'
    BY <1>6
       DEF OneTask, Busy, InGoalTask, InCancelTask, GroupFree, GoalAccept, TypeOK, PairingInv
  <1>7. ASSUME NEW r \in RosGoals, BindRosAccepted(r) PROVE OneTask'
    BY <1>7
       DEF OneTask, Busy, InGoalTask, InCancelTask, GroupFree, BindRosAccepted, TypeOK,
           PairingInv
  <1>8. ASSUME NEW r \in RosGoals, BindFails(r) PROVE OneTask'
    BY <1>8
       DEF OneTask, Busy, InGoalTask, InCancelTask, GroupFree, BindFails, TypeOK, PairingInv
  <1>9. ASSUME NEW r \in RosGoals, CollectEarly(r) PROVE OneTask'
    BY <1>9
       DEF OneTask, Busy, InGoalTask, InCancelTask, GroupFree, CollectEarly, TypeOK,
           PairingInv
  <1>10. ASSUME NEW r \in RosGoals, ExecuteGoal(r) PROVE OneTask'
    BY <1>10
       DEF OneTask, Busy, InGoalTask, InCancelTask, GroupFree, ExecuteGoal, TypeOK, PairingInv
  <1>11. ASSUME NEW r \in RosGoals, DeliverEarly(r) PROVE OneTask'
    BY <1>11
       DEF OneTask, Busy, InGoalTask, InCancelTask, GroupFree, DeliverEarly, TypeOK,
           PairingInv
  <1>12. ASSUME NEW r \in RosGoals, AcceptedReturns(r) PROVE OneTask'
    BY <1>12
       DEF OneTask, Busy, InGoalTask, InCancelTask, GroupFree, AcceptedReturns, TypeOK,
           PairingInv
  <1>13. ASSUME NEW r \in RosGoals, CancelCalled(r) PROVE OneTask'
    BY <1>13
       DEF OneTask, Busy, InGoalTask, InCancelTask, GroupFree, CancelCalled, TypeOK,
           PairingInv
  <1>14. ASSUME NEW r \in RosGoals, CancelBegin(r) PROVE OneTask'
    BY <1>14
       DEF OneTask, Busy, InGoalTask, InCancelTask, GroupFree, CancelBegin, TypeOK, PairingInv
  <1>15. ASSUME NEW r \in RosGoals, CancelRefused(r) PROVE OneTask'
    BY <1>15
       DEF OneTask, Busy, InGoalTask, InCancelTask, GroupFree, CancelRefused, TypeOK,
           PairingInv
  <1>16. ASSUME NEW r \in RosGoals, CancelSend(r) PROVE OneTask'
    BY <1>16
       DEF OneTask, Busy, InGoalTask, InCancelTask, GroupFree, CancelSend, TypeOK, PairingInv
  <1>17. ASSUME NEW r \in RosGoals, CancelSendFails(r) PROVE OneTask'
    BY <1>17
       DEF OneTask, Busy, InGoalTask, InCancelTask, GroupFree, CancelSendFails, TypeOK,
           PairingInv
  <1>18. ASSUME NEW r \in RosGoals, CancelWaitReturns(r) PROVE OneTask'
    BY <1>18
       DEF OneTask, Busy, InGoalTask, InCancelTask, GroupFree, CancelWaitReturns, TypeOK,
           PairingInv
  <1>19. ASSUME NEW r \in RosGoals, CancelAnswer(r) PROVE OneTask'
    BY <1>19
       DEF OneTask, Busy, InGoalTask, InCancelTask, GroupFree, CancelAnswer, TypeOK,
           PairingInv
  <1>20. CASE UNCHANGED <<goalPc, cancelPc>>
    BY <1>20 DEF OneTask, Busy, InGoalTask, InCancelTask, GroupFree, PairingInv
  <1> QED
    BY <1>1, <1>2, <1>3, <1>4, <1>5, <1>6, <1>7, <1>8, <1>9, <1>10, <1>11, <1>12, <1>13,
       <1>14, <1>15, <1>16, <1>17, <1>18, <1>19, <1>20
       DEF Next, GoalTask, CancelTask, ExecTask, PollTake, PollWork, Close, vars, ExecStart,
           ExecAborts, ExecWake, ExecReturn, PollGoalResponse, PollCancelResponse, PollError,
           PollDelivery, PollFind, PollEarly, PollDefer, PollDeliver, PollFlush, CloseStop,
           CloseDecisions, CloseJoin, CloseClear, HakGoalAnswer, HakFeedback, HakFinish,
           HakCancelAnswer, HakError

\* A goal request draws an id that no other request has drawn.
LEMMA GoalIdsStep == TypeOK /\ PairingInv /\ [Next]_vars => GoalIdsDistinct'
  <1> SUFFICES ASSUME TypeOK, PairingInv, [Next]_vars PROVE GoalIdsDistinct'
    OBVIOUS
  <1> USE DEF goalVars, cancelVars, registryVars, decisionVars, eventVars, pollVars, rosVars,
              hakVars, threadVars, nodeVars, outside, BridgeVars
  <1>1. ASSUME NEW r \in RosGoals, NEW h \in HakGoals, GoalBegin(r, h) PROVE GoalIdsDistinct'
    BY <1>1, ActionServerAssumption DEF GoalIdsDistinct, GoalBegin, TypeOK, PairingInv
  <1>2. ASSUME NEW r \in RosGoals, GoalSend(r) PROVE GoalIdsDistinct'
    BY <1>2, ActionServerAssumption DEF GoalIdsDistinct, GoalSend, TypeOK, PairingInv
  <1>3. ASSUME NEW r \in RosGoals, GoalSendFails(r) PROVE GoalIdsDistinct'
    BY <1>3, ActionServerAssumption DEF GoalIdsDistinct, GoalSendFails, TypeOK, PairingInv
  <1>4. ASSUME NEW r \in RosGoals, GoalWaitReturns(r) PROVE GoalIdsDistinct'
    BY <1>4, ActionServerAssumption DEF GoalIdsDistinct, GoalWaitReturns, TypeOK, PairingInv
  <1>5. ASSUME NEW r \in RosGoals, GoalReject(r) PROVE GoalIdsDistinct'
    BY <1>5, ActionServerAssumption DEF GoalIdsDistinct, GoalReject, TypeOK, PairingInv
  <1>6. ASSUME NEW r \in RosGoals, GoalAccept(r) PROVE GoalIdsDistinct'
    BY <1>6, ActionServerAssumption DEF GoalIdsDistinct, GoalAccept, TypeOK, PairingInv
  <1>7. ASSUME NEW r \in RosGoals, BindRosAccepted(r) PROVE GoalIdsDistinct'
    BY <1>7, ActionServerAssumption DEF GoalIdsDistinct, BindRosAccepted, TypeOK, PairingInv
  <1>8. ASSUME NEW r \in RosGoals, BindFails(r) PROVE GoalIdsDistinct'
    BY <1>8, ActionServerAssumption DEF GoalIdsDistinct, BindFails, TypeOK, PairingInv
  <1>9. ASSUME NEW r \in RosGoals, CollectEarly(r) PROVE GoalIdsDistinct'
    BY <1>9, ActionServerAssumption DEF GoalIdsDistinct, CollectEarly, TypeOK, PairingInv
  <1>10. ASSUME NEW r \in RosGoals, ExecuteGoal(r) PROVE GoalIdsDistinct'
    BY <1>10, ActionServerAssumption DEF GoalIdsDistinct, ExecuteGoal, TypeOK, PairingInv
  <1>11. ASSUME NEW r \in RosGoals, DeliverEarly(r) PROVE GoalIdsDistinct'
    BY <1>11, ActionServerAssumption DEF GoalIdsDistinct, DeliverEarly, TypeOK, PairingInv
  <1>12. ASSUME NEW r \in RosGoals, AcceptedReturns(r) PROVE GoalIdsDistinct'
    BY <1>12, ActionServerAssumption DEF GoalIdsDistinct, AcceptedReturns, TypeOK, PairingInv
  <1>13. CASE UNCHANGED <<goalPc, goalId>>
    BY <1>13 DEF GoalIdsDistinct, PairingInv
  <1> QED
    BY <1>1, <1>2, <1>3, <1>4, <1>5, <1>6, <1>7, <1>8, <1>9, <1>10, <1>11, <1>12, <1>13
       DEF Next, GoalTask, CancelTask, ExecTask, PollTake, PollWork, Close, vars, ExecStart,
           ExecAborts, ExecWake, ExecReturn, CancelCalled, CancelBegin, CancelRefused,
           CancelSend, CancelSendFails, CancelWaitReturns, CancelAnswer, PollGoalResponse,
           PollCancelResponse, PollError, PollDelivery, PollFind, PollEarly, PollDefer,
           PollDeliver, PollFlush, CloseStop, CloseDecisions, CloseJoin, CloseClear,
           HakGoalAnswer, HakFeedback, HakFinish, HakCancelAnswer, HakError

\* Only the task that registered a goal finds it in the queue.
LEMMA QueueStep == TypeOK /\ PairingInv /\ [Next]_vars => QueueIsTasks'
  <1> SUFFICES ASSUME TypeOK, PairingInv, [Next]_vars PROVE QueueIsTasks'
    OBVIOUS
  <1> USE DEF goalVars, cancelVars, registryVars, decisionVars, eventVars, pollVars, rosVars,
              hakVars, threadVars, nodeVars, outside, BridgeVars
  <1>1. ASSUME NEW r \in RosGoals, NEW h \in HakGoals, GoalBegin(r, h) PROVE QueueIsTasks'
    <2>1. goalPc[r] # "registered" /\ acceptedOrder' = acceptedOrder
      BY <1>1 DEF GoalBegin
    <2>2. \A q \in RosGoals \ {r} : goalPc'[q] = goalPc[q] /\ goalId'[q] = goalId[q]
      BY <1>1 DEF GoalBegin, TypeOK
    <2> QED
      BY <2>1, <2>2, QueueKept
  <1>2. ASSUME NEW r \in RosGoals, GoalSend(r) PROVE QueueIsTasks'
    <2>1. goalPc[r] # "registered" /\ acceptedOrder' = acceptedOrder
      BY <1>2 DEF GoalSend
    <2>2. \A q \in RosGoals \ {r} : goalPc'[q] = goalPc[q] /\ goalId'[q] = goalId[q]
      BY <1>2 DEF GoalSend, TypeOK
    <2> QED
      BY <2>1, <2>2, QueueKept
  <1>3. ASSUME NEW r \in RosGoals, GoalSendFails(r) PROVE QueueIsTasks'
    <2>1. goalPc[r] # "registered" /\ acceptedOrder' = acceptedOrder
      BY <1>3 DEF GoalSendFails
    <2>2. \A q \in RosGoals \ {r} : goalPc'[q] = goalPc[q] /\ goalId'[q] = goalId[q]
      BY <1>3 DEF GoalSendFails, TypeOK
    <2> QED
      BY <2>1, <2>2, QueueKept
  <1>4. ASSUME NEW r \in RosGoals, GoalWaitReturns(r) PROVE QueueIsTasks'
    <2>1. goalPc[r] # "registered" /\ acceptedOrder' = acceptedOrder
      BY <1>4 DEF GoalWaitReturns
    <2>2. \A q \in RosGoals \ {r} : goalPc'[q] = goalPc[q] /\ goalId'[q] = goalId[q]
      BY <1>4 DEF GoalWaitReturns, TypeOK
    <2> QED
      BY <2>1, <2>2, QueueKept
  <1>5. ASSUME NEW r \in RosGoals, GoalReject(r) PROVE QueueIsTasks'
    <2>1. goalPc[r] # "registered" /\ acceptedOrder' = acceptedOrder
      BY <1>5 DEF GoalReject
    <2>2. \A q \in RosGoals \ {r} : goalPc'[q] = goalPc[q] /\ goalId'[q] = goalId[q]
      BY <1>5 DEF GoalReject, TypeOK
    <2> QED
      BY <2>1, <2>2, QueueKept
  <1>6. ASSUME NEW r \in RosGoals, GoalAccept(r) PROVE QueueIsTasks'
    <2>1. Busy(r) /\ goalPc[r] # "registered"
      BY <1>6 DEF GoalAccept, Busy, InGoalTask
    <2>2. \A a \in Actions : acceptedOrder[a] = <<>>
      BY <2>1, QueueOfTask
    <2>3. acceptedOrder' = [acceptedOrder EXCEPT ![ActionOf[r]] = Append(@, goalId[r])]
      BY <1>6 DEF GoalAccept
    <2>4. Append(<<>>, goalId[r]) = <<goalId[r]>>
      OBVIOUS
    <2>5. \A a \in Actions : acceptedOrder'[a] = IF a = ActionOf[r] THEN <<goalId[r]>> ELSE <<>>
      BY <2>2, <2>3, <2>4, ActionServerAssumption DEF TypeOK
    <2>6. goalPc'[r] = "registered" /\ goalId' = goalId
      BY <1>6 DEF GoalAccept, TypeOK
    <2> QED
      BY <2>5, <2>6 DEF QueueIsTasks
  <1>7. ASSUME NEW r \in RosGoals, BindRosAccepted(r) PROVE QueueIsTasks'
    <2>1. Tail(acceptedOrder[ActionOf[r]]) = <<>> /\ Busy(r)
      BY <1>7, BindTakesOwnGoal DEF BindRosAccepted, Busy, InGoalTask
    <2>2. acceptedOrder' = [acceptedOrder EXCEPT ![ActionOf[r]] = Tail(@)]
      BY <1>7 DEF BindRosAccepted
    <2>3. \A a \in Actions : acceptedOrder'[a] = <<>>
      <3> SUFFICES ASSUME NEW a \in Actions PROVE acceptedOrder'[a] = <<>>
        OBVIOUS
      <3>1. a # ActionOf[r] => acceptedOrder[a] = <<>>
        BY <2>1, QueueOfTask
      <3> QED
        BY <2>1, <2>2, <3>1 DEF TypeOK
    <2> QED
      BY <2>3 DEF QueueIsTasks
  <1>8. ASSUME NEW r \in RosGoals, BindFails(r) PROVE QueueIsTasks'
    <2>1. Busy(r) /\ acceptedOrder[ActionOf[r]] = <<>> /\ acceptedOrder' = acceptedOrder
      BY <1>8 DEF BindFails, Busy, InGoalTask
    <2>2. \A a \in Actions : acceptedOrder[a] = <<>>
      BY <2>1, QueueOfTask
    <2> QED
      BY <2>1, <2>2 DEF QueueIsTasks
  <1>9. ASSUME NEW r \in RosGoals, CollectEarly(r) PROVE QueueIsTasks'
    <2>1. goalPc[r] # "registered" /\ acceptedOrder' = acceptedOrder
      BY <1>9 DEF CollectEarly
    <2>2. \A q \in RosGoals \ {r} : goalPc'[q] = goalPc[q] /\ goalId'[q] = goalId[q]
      BY <1>9 DEF CollectEarly, TypeOK
    <2> QED
      BY <2>1, <2>2, QueueKept
  <1>10. ASSUME NEW r \in RosGoals, ExecuteGoal(r) PROVE QueueIsTasks'
    <2>1. goalPc[r] # "registered" /\ acceptedOrder' = acceptedOrder
      BY <1>10 DEF ExecuteGoal
    <2>2. \A q \in RosGoals \ {r} : goalPc'[q] = goalPc[q] /\ goalId'[q] = goalId[q]
      BY <1>10 DEF ExecuteGoal, TypeOK
    <2> QED
      BY <2>1, <2>2, QueueKept
  <1>11. ASSUME NEW r \in RosGoals, DeliverEarly(r) PROVE QueueIsTasks'
    BY <1>11, ActionServerAssumption DEF QueueIsTasks, DeliverEarly, TypeOK, PairingInv
  <1>12. ASSUME NEW r \in RosGoals, AcceptedReturns(r) PROVE QueueIsTasks'
    <2>1. goalPc[r] # "registered" /\ acceptedOrder' = acceptedOrder
      BY <1>12 DEF AcceptedReturns
    <2>2. \A q \in RosGoals \ {r} : goalPc'[q] = goalPc[q] /\ goalId'[q] = goalId[q]
      BY <1>12 DEF AcceptedReturns, TypeOK
    <2> QED
      BY <2>1, <2>2, QueueKept
  <1>13. ASSUME NEW r \in RosGoals, ExecReturn(r) PROVE QueueIsTasks'
    <2>1. ActionOf[r] \in Actions /\ execPc[r] = "removing" /\ UNCHANGED goalVars
      BY <1>13, ActionServerAssumption DEF ExecReturn
    <2>2. \A i \in DOMAIN acceptedOrder[ActionOf[r]] : acceptedOrder[ActionOf[r]][i] # boundTo[r]
      BY <2>1, ReturnedNotQueued
    <2>3. UNCHANGED acceptedOrder
      BY <1>13, <2>2 DEF ExecReturn
    <2> QED
      BY <2>1, <2>3 DEF QueueIsTasks, PairingInv
  <1>14. ASSUME CloseClear PROVE QueueIsTasks'
    BY <1>14, ActionServerAssumption DEF QueueIsTasks, CloseClear, TypeOK, PairingInv
  <1>15. CASE UNCHANGED <<goalPc, goalId, acceptedOrder>>
    BY <1>15 DEF QueueIsTasks, PairingInv
  <1> QED
    BY <1>1, <1>2, <1>3, <1>4, <1>5, <1>6, <1>7, <1>8, <1>9, <1>10, <1>11, <1>12, <1>13,
       <1>14, <1>15
       DEF Next, GoalTask, CancelTask, ExecTask, PollTake, PollWork, Close, vars, ExecStart,
           ExecAborts, ExecWake, CancelCalled, CancelBegin, CancelRefused, CancelSend,
           CancelSendFails, CancelWaitReturns, CancelAnswer, PollGoalResponse,
           PollCancelResponse, PollError, PollDelivery, PollFind, PollEarly, PollDefer,
           PollDeliver, PollFlush, CloseStop, CloseDecisions, CloseJoin, HakGoalAnswer,
           HakFeedback, HakFinish, HakCancelAnswer, HakError

\* A callback holds the context of its own goal.
LEMMA BoundStep == TypeOK /\ PairingInv /\ [Next]_vars => BoundWhenBound'
  <1> SUFFICES ASSUME TypeOK, PairingInv, [Next]_vars PROVE BoundWhenBound'
    OBVIOUS
  <1> USE DEF goalVars, cancelVars, registryVars, decisionVars, eventVars, pollVars, rosVars,
              hakVars, threadVars, nodeVars, outside, BridgeVars
  <1>1. ASSUME NEW r \in RosGoals, NEW h \in HakGoals, GoalBegin(r, h) PROVE BoundWhenBound'
    BY <1>1, ActionServerAssumption DEF BoundWhenBound, BoundPc, GoalBegin, TypeOK, PairingInv
  <1>2. ASSUME NEW r \in RosGoals, GoalSend(r) PROVE BoundWhenBound'
    BY <1>2, ActionServerAssumption DEF BoundWhenBound, BoundPc, GoalSend, TypeOK, PairingInv
  <1>3. ASSUME NEW r \in RosGoals, GoalSendFails(r) PROVE BoundWhenBound'
    BY <1>3, ActionServerAssumption
       DEF BoundWhenBound, BoundPc, GoalSendFails, TypeOK, PairingInv
  <1>4. ASSUME NEW r \in RosGoals, GoalWaitReturns(r) PROVE BoundWhenBound'
    BY <1>4, ActionServerAssumption
       DEF BoundWhenBound, BoundPc, GoalWaitReturns, TypeOK, PairingInv
  <1>5. ASSUME NEW r \in RosGoals, GoalReject(r) PROVE BoundWhenBound'
    BY <1>5, ActionServerAssumption DEF BoundWhenBound, BoundPc, GoalReject, TypeOK, PairingInv
  <1>6. ASSUME NEW r \in RosGoals, GoalAccept(r) PROVE BoundWhenBound'
    BY <1>6, ActionServerAssumption DEF BoundWhenBound, BoundPc, GoalAccept, TypeOK, PairingInv
  <1>7. ASSUME NEW r \in RosGoals, BindRosAccepted(r) PROVE BoundWhenBound'
    <2>1. Head(acceptedOrder[ActionOf[r]]) = goalId[r] /\ goalPc[r] = "registered"
      BY <1>7, BindTakesOwnGoal DEF BindRosAccepted
    <2>2. goalId[r] # NoGoal
      BY <2>1 DEF PairingInv, GoalIdsDistinct
    <2>3. /\ goalPc' = [goalPc EXCEPT ![r] = "bound"]
          /\ boundTo' = [boundTo EXCEPT ![r] = goalId[r]]
          /\ byRos' = [byRos EXCEPT ![r] = goalId[r]]
          /\ UNCHANGED <<goalId, cancelPc, execPc>>
      BY <1>7, <2>1 DEF BindRosAccepted
    <2> QED
      BY <2>1, <2>2, <2>3 DEF BoundWhenBound, BoundPc, PairingInv, TypeOK
  <1>8. ASSUME NEW r \in RosGoals, BindFails(r) PROVE BoundWhenBound'
    BY <1>8, ActionServerAssumption DEF BoundWhenBound, BoundPc, BindFails, TypeOK, PairingInv
  <1>9. ASSUME NEW r \in RosGoals, CollectEarly(r) PROVE BoundWhenBound'
    BY <1>9, ActionServerAssumption
       DEF BoundWhenBound, BoundPc, CollectEarly, TypeOK, PairingInv
  <1>10. ASSUME NEW r \in RosGoals, ExecuteGoal(r) PROVE BoundWhenBound'
    BY <1>10, ActionServerAssumption
       DEF BoundWhenBound, BoundPc, ExecuteGoal, TypeOK, PairingInv
  <1>11. ASSUME NEW r \in RosGoals, DeliverEarly(r) PROVE BoundWhenBound'
    BY <1>11, ActionServerAssumption
       DEF BoundWhenBound, BoundPc, DeliverEarly, TypeOK, PairingInv
  <1>12. ASSUME NEW r \in RosGoals, AcceptedReturns(r) PROVE BoundWhenBound'
    BY <1>12, ActionServerAssumption
       DEF BoundWhenBound, BoundPc, AcceptedReturns, TypeOK, PairingInv
  <1>13. ASSUME NEW r \in RosGoals, ExecStart(r) PROVE BoundWhenBound'
    BY <1>13, ActionServerAssumption DEF BoundWhenBound, BoundPc, ExecStart, TypeOK, PairingInv
  <1>14. ASSUME NEW r \in RosGoals, ExecAborts(r) PROVE BoundWhenBound'
    BY <1>14, ActionServerAssumption DEF BoundWhenBound, BoundPc, ExecAborts, TypeOK, PairingInv
  <1>15. ASSUME NEW r \in RosGoals, ExecWake(r) PROVE BoundWhenBound'
    BY <1>15, ActionServerAssumption DEF BoundWhenBound, BoundPc, ExecWake, TypeOK, PairingInv
  <1>16. ASSUME NEW r \in RosGoals, ExecReturn(r) PROVE BoundWhenBound'
    <2>1. \A q \in RosGoals : byRos'[q] \in {NoGoal, byRos[q]}
      BY <1>16 DEF ExecReturn, WithoutContext, TypeOK
    <2>2. /\ execPc[r] # "none" /\ execPc' = [execPc EXCEPT ![r] = "returned"]
          /\ UNCHANGED <<goalPc, goalId, boundTo, cancelPc>>
      BY <1>16 DEF ExecReturn
    <2> QED
      BY <2>1, <2>2 DEF BoundWhenBound, PairingInv, TypeOK
  <1>17. ASSUME NEW r \in RosGoals, CancelCalled(r) PROVE BoundWhenBound'
    BY <1>17, ActionServerAssumption
       DEF BoundWhenBound, BoundPc, CancelCalled, TypeOK, PairingInv
  <1>18. ASSUME NEW r \in RosGoals, CancelBegin(r) PROVE BoundWhenBound'
    BY <1>18, ActionServerAssumption
       DEF BoundWhenBound, BoundPc, CancelBegin, TypeOK, PairingInv
  <1>19. ASSUME NEW r \in RosGoals, CancelRefused(r) PROVE BoundWhenBound'
    BY <1>19, ActionServerAssumption
       DEF BoundWhenBound, BoundPc, CancelRefused, TypeOK, PairingInv
  <1>20. ASSUME NEW r \in RosGoals, CancelSend(r) PROVE BoundWhenBound'
    BY <1>20, ActionServerAssumption DEF BoundWhenBound, BoundPc, CancelSend, TypeOK, PairingInv
  <1>21. ASSUME NEW r \in RosGoals, CancelSendFails(r) PROVE BoundWhenBound'
    BY <1>21, ActionServerAssumption
       DEF BoundWhenBound, BoundPc, CancelSendFails, TypeOK, PairingInv
  <1>22. ASSUME NEW r \in RosGoals, CancelWaitReturns(r) PROVE BoundWhenBound'
    BY <1>22, ActionServerAssumption
       DEF BoundWhenBound, BoundPc, CancelWaitReturns, TypeOK, PairingInv
  <1>23. ASSUME NEW r \in RosGoals, CancelAnswer(r) PROVE BoundWhenBound'
    BY <1>23, ActionServerAssumption
       DEF BoundWhenBound, BoundPc, CancelAnswer, TypeOK, PairingInv
  <1>24. ASSUME CloseClear PROVE BoundWhenBound'
    BY <1>24, ActionServerAssumption DEF BoundWhenBound, BoundPc, CloseClear, TypeOK, PairingInv
  <1>25. CASE UNCHANGED <<goalPc, goalId, boundTo, byRos, execPc, cancelPc>>
    BY <1>25 DEF BoundWhenBound, BoundPc, PairingInv
  <1> QED
    BY <1>1, <1>2, <1>3, <1>4, <1>5, <1>6, <1>7, <1>8, <1>9, <1>10, <1>11, <1>12, <1>13,
       <1>14, <1>15, <1>16, <1>17, <1>18, <1>19, <1>20, <1>21, <1>22, <1>23, <1>24, <1>25
       DEF Next, GoalTask, CancelTask, ExecTask, PollTake, PollWork, Close, vars,
           PollGoalResponse, PollCancelResponse, PollError, PollDelivery, PollFind, PollEarly,
           PollDefer, PollDeliver, PollFlush, CloseStop, CloseDecisions, CloseJoin,
           HakGoalAnswer, HakFeedback, HakFinish, HakCancelAnswer, HakError

\* The two indexes are changed together.
LEMMA IndexesStep == TypeOK /\ PairingInv /\ [Next]_vars => IndexesAgree'
  <1> SUFFICES ASSUME TypeOK, PairingInv, [Next]_vars PROVE IndexesAgree'
    OBVIOUS
  <1> USE DEF goalVars, cancelVars, registryVars, decisionVars, eventVars, pollVars, rosVars,
              hakVars, threadVars, nodeVars, outside, BridgeVars
  <1>1. ASSUME NEW r \in RosGoals, GoalAccept(r) PROVE IndexesAgree'
    <2>1. goalPc[r] = "woken" /\ goalId[r] # NoGoal
      BY <1>1 DEF GoalAccept, PairingInv, GoalIdsDistinct
    <2>2. \A q \in RosGoals : byRos[q] # goalId[r]
      BY <2>1 DEF PairingInv, BoundWhenBound, BoundPc, GoalIdsDistinct
    <2>3. byHakoniwa' = [byHakoniwa EXCEPT ![goalId[r]] = "unbound"] /\ byRos' = byRos
      BY <1>1 DEF GoalAccept
    <2>4. "unbound" \notin RosGoals
      BY ActionServerAssumption
    <2> QED
      BY <2>2, <2>3, <2>4 DEF IndexesAgree, PairingInv, TypeOK
  <1>2. ASSUME NEW r \in RosGoals, BindRosAccepted(r) PROVE IndexesAgree'
    <2>1. Head(acceptedOrder[ActionOf[r]]) = goalId[r] /\ goalPc[r] = "registered"
      BY <1>2, BindTakesOwnGoal DEF BindRosAccepted
    <2>2. goalId[r] # NoGoal /\ byRos[r] = NoGoal
      BY <2>1 DEF PairingInv, GoalIdsDistinct, BoundWhenBound, BoundPc
    <2>3. \A q \in RosGoals \ {r} : byRos[q] # goalId[r]
      BY <2>2 DEF PairingInv, BoundWhenBound, GoalIdsDistinct
    <2>4. /\ byHakoniwa' = [byHakoniwa EXCEPT ![goalId[r]] = r]
          /\ byRos' = [byRos EXCEPT ![r] = goalId[r]]
      BY <1>2, <2>1 DEF BindRosAccepted
    <2> QED
      BY <2>2, <2>3, <2>4, ActionServerAssumption DEF IndexesAgree, PairingInv, TypeOK
  <1>3. ASSUME NEW r \in RosGoals, ExecReturn(r) PROVE IndexesAgree'
    <2>1. byHakoniwa' = [byHakoniwa EXCEPT ![boundTo[r]] = "absent"]
      BY <1>3 DEF ExecReturn
    <2>2. byRos' = WithoutContext(boundTo[r])
      BY <1>3 DEF ExecReturn
    <2>3. "absent" \notin RosGoals /\ NoGoal \notin HakGoals
      BY ActionServerAssumption
    <2> SUFFICES ASSUME NEW q \in RosGoals, NEW g \in HakGoals
                 PROVE  byHakoniwa'[g] = q <=> byRos'[q] = g
      BY DEF IndexesAgree
    <2>4. \A p \in RosGoals, k \in HakGoals : byHakoniwa[k] = p <=> byRos[p] = k
      BY DEF PairingInv, IndexesAgree
    <2>7. boundTo[r] \in HakGoals
      BY <1>3 DEF ExecReturn, PairingInv, BoundWhenBound, BoundPc, TypeOK
    <2>5. CASE g = boundTo[r]
      BY <2>1, <2>2, <2>3, <2>4, <2>5, <2>7 DEF WithoutContext, TypeOK
    <2>6. CASE g # boundTo[r]
      BY <2>1, <2>2, <2>3, <2>4, <2>6, <2>7 DEF WithoutContext, TypeOK
    <2> QED
      BY <2>5, <2>6
  <1>4. ASSUME CloseClear PROVE IndexesAgree'
    BY <1>4, ActionServerAssumption DEF IndexesAgree, CloseClear, TypeOK, PairingInv
  <1>5. CASE UNCHANGED <<byHakoniwa, byRos>>
    BY <1>5 DEF IndexesAgree, PairingInv
  <1>6. ASSUME NEW r \in RosGoals, (\E h \in HakGoals : GoalBegin(r, h)) \/ GoalTask(r)
        PROVE  IndexesAgree'
    BY <1>1, <1>2, <1>5, <1>6
       DEF GoalBegin, GoalTask, GoalSend, GoalSendFails, GoalWaitReturns, GoalReject,
           BindFails, CollectEarly, ExecuteGoal, DeliverEarly, AcceptedReturns
  <1>7. ASSUME NEW r \in RosGoals, CancelCalled(r) \/ CancelTask(r) PROVE IndexesAgree'
    BY <1>5, <1>7
       DEF CancelCalled, CancelTask, CancelBegin, CancelRefused, CancelSend,
           CancelSendFails, CancelWaitReturns, CancelAnswer
  <1>8. ASSUME NEW r \in RosGoals, ExecTask(r) PROVE IndexesAgree'
    BY <1>3, <1>5, <1>8 DEF ExecTask, ExecStart, ExecAborts, ExecWake
  <1>9. ASSUME PollTake \/ PollWork \/ PollFlush PROVE IndexesAgree'
    BY <1>5, <1>9
       DEF PollTake, PollWork, PollGoalResponse, PollCancelResponse, PollError,
           PollDelivery, PollFind, PollEarly, PollDefer, PollDeliver, PollFlush
  <1>10. ASSUME Close PROVE IndexesAgree'
    BY <1>4, <1>5, <1>10 DEF Close, CloseStop, CloseDecisions, CloseJoin
  <1>11. ASSUME NEW h \in HakGoals,
               HakGoalAnswer(h) \/ HakFeedback(h) \/ HakFinish(h) \/ HakCancelAnswer(h) \/ HakError(h)
        PROVE  IndexesAgree'
    BY <1>5, <1>11 DEF HakGoalAnswer, HakFeedback, HakFinish, HakCancelAnswer, HakError
  <1>12. CASE UNCHANGED vars
    BY <1>5, <1>12 DEF vars
  <1> QED
    BY <1>6, <1>7, <1>8, <1>9, <1>10, <1>11, <1>12 DEF Next

\* The poll thread holds a feedback or a result until it has dealt with it.
LEMMA PollHoldsStep == TypeOK /\ PairingInv /\ [Next]_vars => PollHolds'
  <1> SUFFICES ASSUME TypeOK, PairingInv, [Next]_vars PROVE PollHolds'
    OBVIOUS
  <1> USE DEF goalVars, cancelVars, registryVars, decisionVars, eventVars, pollVars, rosVars,
              hakVars, threadVars, nodeVars, outside, BridgeVars
  <1>1. ASSUME PollDelivery PROVE PollHolds'
    BY <1>1 DEF PollHolds, PollDelivery, TypeOK, PairingInv
  <1>2. ASSUME PollFind PROVE PollHolds'
    BY <1>2 DEF PollHolds, PollFind, TypeOK, PairingInv
  <1>3. ASSUME PollEarly PROVE PollHolds'
    BY <1>3 DEF PollHolds, PollEarly, TypeOK, PairingInv
  <1>4. ASSUME PollDefer PROVE PollHolds'
    BY <1>4 DEF PollHolds, PollDefer, TypeOK, PairingInv
  <1>5. ASSUME PollDeliver PROVE PollHolds'
    BY <1>5 DEF PollHolds, PollDeliver, TypeOK, PairingInv
  <1>6. ASSUME PollFlush PROVE PollHolds'
    <2>1. PICK h \in HakGoals : pollEvent' = CanceledResult(h)
      BY <1>6 DEF PollFlush
    <2> QED
      BY <2>1 DEF PollHolds, CanceledResult, Event, Terminal
  <1>7. ASSUME CloseJoin PROVE PollHolds'
    BY <1>7 DEF PollHolds, CloseJoin, PairingInv
  <1>8. CASE UNCHANGED <<pollVars>>
    BY <1>8 DEF PollHolds, PairingInv
  <1>9. ASSUME NEW r \in RosGoals, (\E h \in HakGoals : GoalBegin(r, h)) \/ GoalTask(r)
        PROVE  PollHolds'
    BY <1>8, <1>9
       DEF GoalBegin, GoalTask, GoalSend, GoalSendFails, GoalWaitReturns, GoalReject,
           GoalAccept, BindRosAccepted, BindFails, CollectEarly, ExecuteGoal, DeliverEarly,
           AcceptedReturns
  <1>10. ASSUME NEW r \in RosGoals, CancelCalled(r) \/ CancelTask(r) PROVE PollHolds'
    BY <1>8, <1>10
       DEF CancelCalled, CancelTask, CancelBegin, CancelRefused, CancelSend,
           CancelSendFails, CancelWaitReturns, CancelAnswer
  <1>11. ASSUME NEW r \in RosGoals, ExecTask(r) PROVE PollHolds'
    BY <1>8, <1>11 DEF ExecTask, ExecStart, ExecAborts, ExecWake, ExecReturn
  <1>12. ASSUME PollTake \/ PollWork \/ PollFlush PROVE PollHolds'
    BY <1>1, <1>2, <1>3, <1>4, <1>5, <1>6, <1>8, <1>12
       DEF PollTake, PollWork, PollGoalResponse, PollCancelResponse, PollError
  <1>13. ASSUME Close PROVE PollHolds'
    BY <1>7, <1>8, <1>13 DEF Close, CloseStop, CloseDecisions, CloseClear
  <1>14. ASSUME NEW h \in HakGoals,
               HakGoalAnswer(h) \/ HakFeedback(h) \/ HakFinish(h) \/ HakCancelAnswer(h) \/ HakError(h)
        PROVE  PollHolds'
    BY <1>8, <1>14 DEF HakGoalAnswer, HakFeedback, HakFinish, HakCancelAnswer, HakError
  <1>15. CASE UNCHANGED vars
    BY <1>8, <1>15 DEF vars
  <1> QED
    BY <1>9, <1>10, <1>11, <1>12, <1>13, <1>14, <1>15 DEF Next

\* The strengthened invariant is inductive.
LEMMA PairingStep == TypeOK /\ PairingInv /\ [Next]_vars => (TypeOK /\ PairingInv)'
  BY TypeStep, OneTaskStep, GoalIdsStep, QueueStep, BoundStep, IndexesStep, PollHoldsStep
     DEF PairingInv

\* It holds of the initial state.
LEMMA PairingInit == Init => TypeOK /\ PairingInv
  <1> SUFFICES ASSUME Init PROVE TypeOK /\ PairingInv
    OBVIOUS
  <1> USE ActionServerAssumption DEF Init
  <1>1. TypeOK
    BY DEF TypeOK, Decision, GoalPc, NoEvent
  <1>2. OneTask /\ GoalIdsDistinct /\ QueueIsTasks
    BY DEF OneTask, Busy, InGoalTask, InCancelTask, GoalIdsDistinct, QueueIsTasks
  <1>3. BoundWhenBound /\ PollHolds /\ IndexesAgree
    BY DEF BoundWhenBound, BoundPc, PollHolds, IndexesAgree
  <1> QED
    BY <1>1, <1>2, <1>3 DEF PairingInv

\* The variables of the node keep their types and the pairing invariant holds,
\* for any number of goals, actions and faults and through a shutdown.
THEOREM PairingInvariant == Spec => [](TypeOK /\ PairingInv)
  BY PairingInit, PairingStep, PTL DEF Spec

\* The type invariant of the node.
THEOREM TypeCorrect == Spec => []TypeOK
  BY PairingInvariant, PTL

\* A goal handle is only ever bound to the Hakoniwa goal that its own goal
\* request sent: with the callback group as it is, bind_ros_accepted never
\* pairs a ROS goal with the Hakoniwa goal of another request.
THEOREM CorrelationHolds == Spec => []Correlated
  <1>1. ASSUME TypeOK, PairingInv PROVE Correlated
    <2>1. \A r \in RosGoals : boundTo[r] \in {NoGoal, goalId[r]}
      BY <1>1 DEF PairingInv, BoundWhenBound
    <2>2. \A r \in RosGoals, h \in HakGoals : byHakoniwa[h] = r => goalId[r] = h
      BY <1>1, ActionServerAssumption DEF PairingInv, IndexesAgree, BoundWhenBound
    <2> QED
      BY <2>1, <2>2 DEF Correlated
  <1> QED
    BY <1>1, PairingInvariant, PTL

\* The registry's two indexes agree in every reachable state.
THEOREM RegistryConsistent == Spec => []IndexesAgree
  <1>1. PairingInv => IndexesAgree
    BY DEF PairingInv
  <1> QED
    BY <1>1, PairingInvariant, PTL

-----------------------------------------------------------------------------
(***************************************************************************)
(* HakoniwaRosActionServerNode implements ActionGoalRelay.  The argument   *)
(* follows what the node learns of a Hakoniwa goal, from the events in the *)
(* queue of the Action Client through the places that keep them to the ROS *)
(* goal handle: each of them is true of the Hakoniwa goal, and stays so.   *)
(***************************************************************************)
\* The Hakoniwa goal h was accepted.
Running(h) == hak[h] \in {"executing"} \cup Terminal

\* send_goal is called once for a drawn id: before it the goal does not exist, and a goal
\* that exists was sent for a goal request.
SentOnce ==
    /\ \A r \in RosGoals : goalPc[r] = "sending" => hak[goalId[r]] = "none"
    /\ \A h \in HakGoals : hak[h] # "none" => \E r \in RosGoals : goalId[r] = h
    /\ \A h \in cancelAccepted : hak[h] # "none"

\* The events that are true of the Hakoniwa goals: a goal that was never sent has none.
TrueEvents ==
    {e \in Event :
        /\ hak[e.goal] # "none"
        /\ e.kind = "GOAL_RESPONSE" /\ e.accepted => Running(e.goal)
        /\ e.kind = "CANCEL_RESPONSE" /\ e.accepted => e.goal \in cancelAccepted
        /\ IsResult(e) => hak[e.goal] = e.status}

\* Those of the goal h that are delivered.
TrueOf(h) == {e \in TrueEvents : e.goal = h}

\* Every place that keeps an event keeps a true one, under the right goal.
EventsTrue ==
    /\ events \in Seq(TrueEvents)
    /\ pollPc \notin {"poll", "ended"} => pollEvent \in TrueEvents
    /\ pollPc = "defer" => pollEvent = CanceledResult(pollEvent.goal)
    /\ \A h \in HakGoals : earlyEvents[h] \in Seq(TrueOf(h))
    /\ \A r \in RosGoals : early[r] \in Seq(TrueOf(boundTo[r]))
    /\ \A h \in HakGoals : deferred[h] => hak[h] = "canceled"

\* What a decision says is true.
DecisionsTrue ==
    /\ \A h \in HakGoals : goalDecisions[h] = "yes" => Running(h)
    /\ \A h \in HakGoals : cancelDecisions[h] = "yes" => h \in cancelAccepted

\* The state of a ROS goal handle before its accepted callback has executed it, and the
\* Hakoniwa goal behind it.
HandleFollows ==
    \A r \in RosGoals :
        /\ goalPc[r] \in {"none", "sending", "waiting", "woken", "timedOut", "registered", "rejected"}
               => ros[r] = "none"
        /\ goalPc[r] \in {"bound", "collected", "failed"} => ros[r] = "accepted"
        /\ goalPc[r] \in {"registered"} \cup BoundPc => Running(goalId[r])

\* The index by ROS goal knows a goal until its execute task has returned or the node has
\* been closed.
Mapped ==
    \A r \in RosGoals :
        goalPc[r] \in BoundPc /\ execPc[r] # "returned" => byRos[r] # NoGoal \/ closePc = "closed"

\* The future is completed by a delivery that ended the ROS goal.
ResultGiven ==
    \A r \in RosGoals :
        /\ boundTo[r] # NoGoal /\ goalPc[r] # "bound" /\ completion[boundTo[r]] = "done"
               => ros[r] \in Terminal
        /\ execPc[r] = "removing" => ros[r] \in Terminal

RelayInv ==
    SentOnce /\ EventsTrue /\ DecisionsTrue /\ HandleFollows /\ Mapped /\ ResultGiven
    /\ DecisionsAwaited

USE DEF goalVars, cancelVars, registryVars, decisionVars, eventVars, pollVars, rosVars, hakVars,
        threadVars, nodeVars, outside, BridgeVars

-----------------------------------------------------------------------------
\* What the pairing of the goals says of one request.
LEMMA BoundFacts ==
    ASSUME TypeOK, PairingInv
    PROVE  /\ \A r \in RosGoals :
                  /\ boundTo[r] # NoGoal =>
                         boundTo[r] = goalId[r] /\ boundTo[r] \in HakGoals /\ goalPc[r] \in BoundPc
                  /\ goalPc[r] \in BoundPc => boundTo[r] # NoGoal
                  /\ goalPc[r] # "none" => goalId[r] \in HakGoals /\ goalId[r] # NoGoal
                  /\ execPc[r] # "none" => goalPc[r] \in {"delivering", "accepted"}
                  /\ cancelPc[r] \in {"sending", "waiting", "woken"} => boundTo[r] # NoGoal
                  /\ byRos[r] \in {NoGoal, boundTo[r]}
           /\ \A r, q \in RosGoals : goalId[r] = goalId[q] /\ goalId[r] # NoGoal => r = q
  <1>1. \A r \in RosGoals : goalId[r] \in HakGoals \cup {NoGoal} /\ boundTo[r] \in HakGoals \cup {NoGoal}
    BY DEF TypeOK
  <1>2. GoalIdsDistinct /\ BoundWhenBound
    BY DEF PairingInv
  <1> QED
    BY <1>1, <1>2 DEF GoalIdsDistinct, BoundWhenBound

\* What the poll thread, the closing thread and the Hakoniwa side leave alone.
LEMMA PollFrame ==
    ASSUME PollTake \/ PollWork \/ PollFlush
    PROVE  UNCHANGED <<threadVars, registryVars, closePc, hak, cancelRequested, cancelAccepted,
                       feedbackSent>>
  <1>1. ASSUME PollTake PROVE UNCHANGED <<threadVars, registryVars, closePc, hak, cancelRequested,
                                          cancelAccepted, feedbackSent>>
    BY <1>1 DEF PollTake, PollGoalResponse, PollCancelResponse, PollError, PollDelivery
  <1>2. ASSUME PollWork PROVE UNCHANGED <<threadVars, registryVars, closePc, hak, cancelRequested,
                                          cancelAccepted, feedbackSent>>
    BY <1>2 DEF PollWork, PollFind, PollEarly, PollDefer, PollDeliver
  <1>3. ASSUME PollFlush PROVE UNCHANGED <<threadVars, registryVars, closePc, hak, cancelRequested,
                                           cancelAccepted, feedbackSent>>
    BY <1>3 DEF PollFlush
  <1> QED
    BY <1>1, <1>2, <1>3

\* What the closing thread leaves alone; the registry it only clears when it has closed the rest.
LEMMA CloseFrame ==
    ASSUME Close
    PROVE  /\ UNCHANGED <<threadVars, completion, earlyEvents, pollEvent, rosVars, hakVars>>
           /\ closePc # "closed" /\ (closePc' = "closed" \/ UNCHANGED registryVars)
  BY DEF Close, CloseStop, CloseDecisions, CloseJoin, CloseClear

HakSide(h) ==
    HakGoalAnswer(h) \/ HakFeedback(h) \/ HakFinish(h) \/ HakCancelAnswer(h) \/ HakError(h)

\* What the Hakoniwa side leaves alone: everything of the bridge, and the other Hakoniwa goals.
LEMMA HakFrame ==
    ASSUME TypeOK, NEW h \in HakGoals, HakSide(h)
    PROVE  /\ UNCHANGED BridgeVars /\ hak[h] # "none"
           /\ \A g \in HakGoals \ {h} : hak'[g] = hak[g]
           /\ hak'[h] # "none"
           /\ cancelAccepted \subseteq cancelAccepted' /\ cancelAccepted' \subseteq cancelAccepted \cup {h}
  <1>0. hak \in [HakGoals -> {"none", "requested", "refused", "executing"} \cup Terminal]
    BY DEF TypeOK
  <1>1. CASE HakGoalAnswer(h)
    BY <1>0, <1>1 DEF HakGoalAnswer, Terminal
  <1>2. CASE HakFinish(h)
    BY <1>0, <1>2 DEF HakFinish, Terminal
  <1>3. CASE HakFeedback(h) \/ HakError(h)
    BY <1>0, <1>3 DEF HakFeedback, HakError
  <1>4. CASE HakCancelAnswer(h)
    BY <1>0, <1>4 DEF HakCancelAnswer
  <1> QED
    BY <1>1, <1>2, <1>3, <1>4 DEF HakSide

HakSteps ==
    /\ \A h \in HakGoals :
           \/ hak'[h] = hak[h]
           \/ hak[h] = "none" /\ hak'[h] = "requested"
           \/ hak[h] = "requested" /\ hak'[h] \in {"refused", "executing"}
           \/ hak[h] = "executing" /\ hak'[h] \in Terminal
    /\ cancelAccepted \subseteq cancelAccepted'

\* Every step takes a Hakoniwa goal one state further at most, and no acceptance back.
LEMMA HakLife ==
    ASSUME TypeOK, PairingInv, SentOnce, [Next]_vars
    PROVE  HakSteps
  <1>0. hak \in [HakGoals -> {"none", "requested", "refused", "executing"} \cup Terminal]
    BY DEF TypeOK
  <1>1. ASSUME UNCHANGED <<hak, cancelAccepted>> PROVE HakSteps
    BY <1>1 DEF HakSteps
  <1>2. ASSUME NEW r \in RosGoals, GoalSend(r) PROVE HakSteps
    BY <1>0, <1>2 DEF HakSteps, GoalSend, SentOnce
  <1>3. ASSUME NEW h \in HakGoals, HakSide(h) PROVE HakSteps
    <2>1. CASE HakGoalAnswer(h)
      BY <1>0, <2>1 DEF HakSteps, HakGoalAnswer
    <2>2. CASE HakFinish(h)
      BY <1>0, <2>2 DEF HakSteps, HakFinish
    <2>3. CASE HakFeedback(h) \/ HakError(h)
      BY <1>1, <2>3 DEF HakFeedback, HakError
    <2>4. CASE HakCancelAnswer(h)
      BY <2>4 DEF HakSteps, HakCancelAnswer
    <2> QED
      BY <1>3, <2>1, <2>2, <2>3, <2>4 DEF HakSide
  <1>4. ASSUME NEW r \in RosGoals, \/ \E h \in HakGoals : GoalBegin(r, h)
                                   \/ GoalTask(r) /\ ~GoalSend(r)
                                   \/ CancelCalled(r) \/ CancelTask(r) \/ ExecTask(r)
        PROVE  HakSteps
    BY <1>1, <1>4
       DEF GoalBegin, GoalTask, GoalSendFails, GoalWaitReturns, GoalReject, GoalAccept,
           BindRosAccepted, BindFails, CollectEarly, ExecuteGoal, DeliverEarly, AcceptedReturns,
           CancelCalled, CancelTask, CancelBegin, CancelRefused, CancelSend, CancelSendFails,
           CancelWaitReturns, CancelAnswer, ExecTask, ExecStart, ExecAborts, ExecWake, ExecReturn
  <1>5. CASE PollTake \/ PollWork \/ PollFlush
    BY <1>1, <1>5, PollFrame
  <1>6. CASE Close
    BY <1>1, <1>6, CloseFrame
  <1>7. CASE UNCHANGED vars
    BY <1>1, <1>7 DEF vars
  <1> QED
    BY <1>2, <1>3, <1>4, <1>5, <1>6, <1>7 DEF Next, HakSide

\* What was accepted stays accepted, and what has ended has ended for good.
LEMMA RunningStays ==
    ASSUME TypeOK, HakSteps, NEW h \in HakGoals
    PROVE  /\ Running(h) => Running(h)'
           /\ hak[h] \in Terminal => hak'[h] = hak[h]
           /\ hak[h] # "none" => hak'[h] # "none"
           /\ h \in cancelAccepted => h \in cancelAccepted'
  BY DEF HakSteps, Running, Terminal

\* Every step keeps SentOnce.
LEMMA SentOnceStep ==
    ASSUME TypeOK, PairingInv, SentOnce, HandleFollows, [Next]_vars
    PROVE  SentOnce'
  <1>0. /\ hak \in [HakGoals -> {"none", "requested", "refused", "executing"} \cup Terminal]
        /\ goalPc \in [RosGoals -> GoalPc] /\ goalId \in [RosGoals -> HakGoals \cup {NoGoal}]
        /\ cancelAccepted \subseteq HakGoals
    BY DEF TypeOK
  <1>1. ASSUME UNCHANGED <<goalId, hak, cancelAccepted>>,
               \A r \in RosGoals : goalPc'[r] = "sending" => goalPc[r] = "sending"
        PROVE  SentOnce'
    BY <1>1 DEF SentOnce
  <1>2. ASSUME NEW r \in RosGoals, NEW h \in HakGoals, GoalBegin(r, h) PROVE SentOnce'
    <2>1. hak[h] = "none"
      BY <1>2 DEF GoalBegin, SentOnce
    <2>2. /\ goalPc' = [goalPc EXCEPT ![r] = "sending"] /\ goalId' = [goalId EXCEPT ![r] = h]
          /\ UNCHANGED <<hak, cancelAccepted>>
      BY <1>2 DEF GoalBegin
    <2>3. goalId[r] = NoGoal /\ NoGoal \notin HakGoals
      BY <1>2, ActionServerAssumption DEF GoalBegin, PairingInv, GoalIdsDistinct
    <2>4. ASSUME NEW g \in HakGoals, hak[g] # "none" PROVE \E q \in RosGoals : goalId'[q] = g
      <3>1. PICK q \in RosGoals : goalId[q] = g
        BY <2>4 DEF SentOnce
      <3> QED
        BY <1>0, <2>2, <2>3, <3>1
    <2> QED
      BY <1>0, <2>1, <2>2, <2>4 DEF SentOnce
  <1>3. ASSUME NEW r \in RosGoals, GoalSend(r) PROVE SentOnce'
    <2>1. /\ goalPc' = [goalPc EXCEPT ![r] = "waiting"]
          /\ hak' = [hak EXCEPT ![goalId[r]] = "requested"]
          /\ goalPc[r] = "sending" /\ UNCHANGED <<goalId, cancelAccepted>>
      BY <1>3 DEF GoalSend
    <2>2. \A q \in RosGoals \ {r} : goalPc[q] = "sending" => goalId[q] # goalId[r]
      BY BoundFacts
    <2> QED
      BY <1>0, <2>1, <2>2 DEF SentOnce
  <1>4. ASSUME NEW h \in HakGoals, HakSide(h) PROVE SentOnce'
    <2>1. /\ UNCHANGED <<goalPc, goalId>> /\ hak[h] # "none" /\ hak'[h] # "none"
          /\ \A g \in HakGoals \ {h} : hak'[g] = hak[g]
          /\ cancelAccepted' \subseteq cancelAccepted \cup {h}
      BY <1>4, HakFrame
    <2>2. \A r \in RosGoals : goalPc[r] = "sending" => hak'[goalId[r]] = "none"
      BY <1>0, <2>1, BoundFacts DEF SentOnce
    <2> QED
      BY <1>0, <2>1, <2>2 DEF SentOnce
  <1>5. ASSUME NEW r \in RosGoals, GoalTask(r), ~GoalSend(r) PROVE SentOnce'
    <2>1. UNCHANGED <<goalId, hak, cancelAccepted>>
      BY <1>5 DEF GoalTask, GoalSendFails, GoalWaitReturns, GoalReject, GoalAccept,
           BindRosAccepted, BindFails, CollectEarly, ExecuteGoal, DeliverEarly, AcceptedReturns
    <2>2. goalPc' = goalPc \/ \E pc \in GoalPc \ {"sending"} : goalPc' = [goalPc EXCEPT ![r] = pc]
      BY <1>5 DEF GoalTask, GoalSendFails, GoalWaitReturns, GoalReject, GoalAccept, GoalPc,
           BindRosAccepted, BindFails, CollectEarly, ExecuteGoal, DeliverEarly, AcceptedReturns
    <2> QED
      BY <1>0, <1>1, <2>1, <2>2
  <1>6. ASSUME NEW r \in RosGoals, CancelCalled(r) \/ CancelTask(r) \/ ExecTask(r) PROVE SentOnce'
    BY <1>1, <1>6
       DEF CancelCalled, CancelTask, CancelBegin, CancelRefused, CancelSend, CancelSendFails,
           CancelWaitReturns, CancelAnswer, ExecTask, ExecStart, ExecAborts, ExecWake, ExecReturn
  <1>7. CASE PollTake \/ PollWork \/ PollFlush
    BY <1>1, <1>7, PollFrame
  <1>8. CASE Close
    BY <1>1, <1>8, CloseFrame
  <1>9. CASE UNCHANGED vars
    BY <1>1, <1>9 DEF vars
  <1> QED
    BY <1>2, <1>3, <1>4, <1>5, <1>6, <1>7, <1>8, <1>9 DEF Next, HakSide

-----------------------------------------------------------------------------
\* Sequences over a growing set, and at one place of a function.
LEMMA SeqGrows ==
    ASSUME NEW S, NEW T, S \subseteq T, NEW s \in Seq(S)
    PROVE  s \in Seq(T)
  OBVIOUS

\* What is true of the Hakoniwa goals stays true.
LEMMA TrueStays ==
    ASSUME TypeOK, HakSteps
    PROVE  /\ TrueEvents \subseteq TrueEvents'
           /\ \A h : TrueOf(h) \subseteq TrueOf(h)'
  <1>1. ASSUME NEW e \in TrueEvents PROVE e \in TrueEvents'
    <2>1. e \in Event /\ e.goal \in HakGoals
      BY DEF TrueEvents, Event
    <2>2. IsResult(e) => e.status \in Terminal
      BY <2>1 DEF Event, IsResult
    <2> QED
      BY <2>1, <2>2, RunningStays DEF TrueEvents
  <1> QED
    BY <1>1 DEF TrueOf

\* The events an event queue gets are true, and the oldest one leaves it.
LEMMA QueueTrueStep ==
    ASSUME TypeOK, PairingInv, SentOnce, EventsTrue, [Next]_vars
    PROVE  events' \in Seq(TrueEvents')
  <1>0. HakSteps /\ events \in Seq(TrueEvents) /\ events \in Seq(TrueEvents')
    <2>1. HakSteps
      BY HakLife
    <2> QED
      BY <2>1, TrueStays, SeqGrows DEF EventsTrue
  <1>1. ASSUME events' = events PROVE events' \in Seq(TrueEvents')
    BY <1>0, <1>1
  <1>2. ASSUME NEW e, Polled(e) PROVE events' \in Seq(TrueEvents')
    BY <1>0, <1>2 DEF Polled
  <1>3. ASSUME NEW e \in TrueEvents', Emit(e) PROVE events' \in Seq(TrueEvents')
    BY <1>0, <1>3 DEF Emit
  <1>4. ASSUME NEW h \in HakGoals, HakSide(h) PROVE events' \in Seq(TrueEvents')
    <2>0. hak'[h] # "none"
      BY <1>4, HakFrame
    <2>1. ASSUME HakGoalAnswer(h) PROVE events' \in Seq(TrueEvents')
      <3>1. PICK accept \in BOOLEAN :
              /\ Emit([kind |-> "GOAL_RESPONSE", goal |-> h, accepted |-> accept])
              /\ hak' = [hak EXCEPT ![h] = IF accept THEN "executing" ELSE "refused"]
        BY <2>1 DEF HakGoalAnswer
      <3>2. accept => Running(h)'
        BY <3>1 DEF Running, TypeOK
      <3>3. [kind |-> "GOAL_RESPONSE", goal |-> h, accepted |-> accept] \in TrueEvents'
        BY <2>0, <3>2 DEF TrueEvents, Event, IsResult
      <3> QED
        BY <1>3, <3>1, <3>3
    <2>2. ASSUME HakFeedback(h) PROVE events' \in Seq(TrueEvents')
      <3>1. NextSeq(h) \in 1 .. MaxFeedback
        BY <2>2, ActionServerAssumption DEF HakFeedback, NextSeq, TypeOK
      <3>2. [kind |-> "FEEDBACK", goal |-> h, seq |-> NextSeq(h)] \in TrueEvents'
        BY <2>0, <3>1 DEF TrueEvents, Event, IsResult
      <3> QED
        BY <1>3, <2>2, <3>2 DEF HakFeedback
    <2>3. ASSUME HakFinish(h) PROVE events' \in Seq(TrueEvents')
      <3>1. PICK status \in Terminal :
              /\ hak' = [hak EXCEPT ![h] = status]
              /\ Emit([kind |-> "RESULT", goal |-> h, status |-> status])
        BY <2>3 DEF HakFinish
      <3>2. hak'[h] = status
        BY <3>1 DEF TypeOK
      <3>3. [kind |-> "RESULT", goal |-> h, status |-> status] \in TrueEvents'
        BY <2>0, <3>2 DEF TrueEvents, Event, IsResult
      <3> QED
        BY <1>3, <3>1, <3>3
    <2>4. ASSUME HakCancelAnswer(h) PROVE events' \in Seq(TrueEvents')
      <3>1. PICK accept \in BOOLEAN :
              /\ cancelAccepted' = IF accept THEN cancelAccepted \cup {h} ELSE cancelAccepted
              /\ Emit([kind |-> "CANCEL_RESPONSE", goal |-> h, accepted |-> accept])
        BY <2>4 DEF HakCancelAnswer
      <3>2. [kind |-> "CANCEL_RESPONSE", goal |-> h, accepted |-> accept] \in TrueEvents'
        BY <2>0, <3>1 DEF TrueEvents, Event, IsResult
      <3> QED
        BY <1>3, <3>1, <3>2
    <2>5. ASSUME HakError(h) PROVE events' \in Seq(TrueEvents')
      <3>1. [kind |-> "ERROR", goal |-> h] \in TrueEvents'
        BY <2>0 DEF TrueEvents, Event, IsResult
      <3> QED
        BY <1>3, <2>5, <3>1 DEF HakError
    <2> QED
      BY <1>4, <2>1, <2>2, <2>3, <2>4, <2>5 DEF HakSide
  <1>5. CASE PollTake
    BY <1>2, <1>5 DEF PollTake, PollGoalResponse, PollCancelResponse, PollError, PollDelivery
  <1>6. CASE PollWork \/ PollFlush
    BY <1>1, <1>6 DEF PollWork, PollFind, PollEarly, PollDefer, PollDeliver, PollFlush
  <1>7. CASE Close
    BY <1>1, <1>7, CloseFrame
  <1>8. ASSUME NEW r \in RosGoals, (\E h \in HakGoals : GoalBegin(r, h)) \/ GoalTask(r)
        PROVE  events' \in Seq(TrueEvents')
    BY <1>1, <1>8
       DEF GoalBegin, GoalTask, GoalSend, GoalSendFails, GoalWaitReturns, GoalReject, GoalAccept,
           BindRosAccepted, BindFails, CollectEarly, ExecuteGoal, DeliverEarly, AcceptedReturns
  <1>9. ASSUME NEW r \in RosGoals, CancelCalled(r) \/ CancelTask(r) \/ ExecTask(r)
        PROVE  events' \in Seq(TrueEvents')
    BY <1>1, <1>9
       DEF CancelCalled, CancelTask, CancelBegin, CancelRefused, CancelSend, CancelSendFails,
           CancelWaitReturns, CancelAnswer, ExecTask, ExecStart, ExecAborts, ExecWake, ExecReturn
  <1>10. CASE UNCHANGED vars
    BY <1>1, <1>10 DEF vars
  <1> QED
    BY <1>4, <1>5, <1>6, <1>7, <1>8, <1>9, <1>10 DEF Next, HakSide

\* What the poll thread has in hand is true.
LEMMA HeldTrueStep ==
    ASSUME TypeOK, PairingInv, SentOnce, EventsTrue, [Next]_vars
    PROVE  /\ pollPc' \notin {"poll", "ended"} => pollEvent' \in TrueEvents'
           /\ pollPc' = "defer" => pollEvent' = CanceledResult(pollEvent'.goal)
  <1> DEFINE Held == /\ pollPc \notin {"poll", "ended"} => pollEvent \in TrueEvents
                     /\ pollPc = "defer" => pollEvent = CanceledResult(pollEvent.goal)
  <1> SUFFICES Held'
    OBVIOUS
  <1>0. Held /\ TrueEvents \subseteq TrueEvents' /\ events \in Seq(TrueEvents)
    BY HakLife, TrueStays DEF EventsTrue
  <1>1. ASSUME UNCHANGED <<pollPc, pollEvent>> PROVE Held'
    BY <1>0, <1>1
  <1>2. ASSUME PollTake PROVE Held'
    <2>1. ASSUME PollDelivery PROVE Held'
      <3>1. PICK e \in Event : Polled(e) /\ pollEvent' = e /\ pollPc' = "find"
        BY <2>1 DEF PollDelivery
      <3>2. e \in TrueEvents
        BY <1>0, <3>1 DEF Polled
      <3> QED
        BY <1>0, <3>1, <3>2
    <2> QED
      BY <1>1, <1>2, <2>1 DEF PollTake, PollGoalResponse, PollCancelResponse, PollError
  <1>3. ASSUME PollWork PROVE Held'
    <2>1. ASSUME PollFind PROVE Held'
      BY <1>0, <2>1 DEF PollFind, MustDefer
    <2> QED
      BY <1>3, <2>1 DEF PollWork, PollEarly, PollDefer, PollDeliver
  <1>4. ASSUME PollFlush PROVE Held'
    <2>1. PICK h \in HakGoals : deferred[h] /\ pollEvent' = CanceledResult(h) /\ pollPc' = "deliver"
                                /\ UNCHANGED hak
      BY <1>4 DEF PollFlush
    <2>2. CanceledResult(h) \in TrueEvents
      BY <2>1 DEF EventsTrue, TrueEvents, CanceledResult, Event, IsResult, Terminal
    <2> QED
      BY <1>0, <2>1, <2>2
  <1>5. ASSUME Close PROVE Held'
    <2>1. pollEvent' = pollEvent /\ (pollPc' = pollPc \/ pollPc' = "ended")
      BY <1>5 DEF Close, CloseStop, CloseDecisions, CloseJoin, CloseClear
    <2> QED
      BY <1>0, <2>1
  <1>6. ASSUME NEW h \in HakGoals, HakSide(h) PROVE Held'
    BY <1>1, <1>6, HakFrame
  <1>7. ASSUME NEW r \in RosGoals, (\E h \in HakGoals : GoalBegin(r, h)) \/ GoalTask(r)
        PROVE  Held'
    BY <1>1, <1>7
       DEF GoalBegin, GoalTask, GoalSend, GoalSendFails, GoalWaitReturns, GoalReject, GoalAccept,
           BindRosAccepted, BindFails, CollectEarly, ExecuteGoal, DeliverEarly, AcceptedReturns
  <1>8. ASSUME NEW r \in RosGoals, CancelCalled(r) \/ CancelTask(r) \/ ExecTask(r)
        PROVE  Held'
    BY <1>1, <1>8
       DEF CancelCalled, CancelTask, CancelBegin, CancelRefused, CancelSend, CancelSendFails,
           CancelWaitReturns, CancelAnswer, ExecTask, ExecStart, ExecAborts, ExecWake, ExecReturn
  <1>9. CASE UNCHANGED vars
    BY <1>1, <1>9 DEF vars
  <1> HIDE DEF Held
  <1> QED
    BY <1>2, <1>3, <1>4, <1>5, <1>6, <1>7, <1>8, <1>9 DEF Next, HakSide

\* What waits for the accepted callback is true and of its goal.
LEMMA EarlyTrueStep ==
    ASSUME TypeOK, PairingInv, SentOnce, EventsTrue, [Next]_vars
    PROVE  /\ \A h \in HakGoals : earlyEvents'[h] \in Seq(TrueOf(h)')
           /\ \A h \in HakGoals : deferred'[h] => hak'[h] = "canceled"
  <1> DEFINE Early == \A h \in HakGoals : earlyEvents[h] \in Seq(TrueOf(h))
             Deferred == \A h \in HakGoals : deferred[h] => hak[h] = "canceled"
  <1> SUFFICES Early' /\ Deferred'
    OBVIOUS
  <1>0. /\ HakSteps /\ Early /\ Deferred
        /\ \A h \in HakGoals : TrueOf(h) \subseteq TrueOf(h)'
        /\ \A h \in HakGoals : earlyEvents[h] \in Seq(TrueOf(h)')
    <2>1. HakSteps /\ Early /\ Deferred
      BY HakLife DEF EventsTrue
    <2>2. \A h \in HakGoals : TrueOf(h) \subseteq TrueOf(h)'
      BY <2>1, TrueStays
    <2> QED
      BY <2>1, <2>2, SeqGrows
  <1>1. ASSUME UNCHANGED earlyEvents PROVE Early'
    BY <1>0, <1>1
  <1>2. ASSUME \A h \in HakGoals : deferred'[h] => deferred[h] PROVE Deferred'
    BY <1>0, <1>2, RunningStays DEF Terminal
  <1>3. ASSUME NEW g, earlyEvents' = [earlyEvents EXCEPT ![g] = <<>>] PROVE Early'
    <2>1. \A T : <<>> \in Seq(T)
      OBVIOUS
    <2> QED
      BY <1>0, <1>3, <2>1 DEF TypeOK
  <1>4. ASSUME PollTake \/ PollFlush PROVE Early' /\ Deferred'
    <2>1. UNCHANGED earlyEvents
      BY <1>4 DEF PollTake, PollGoalResponse, PollCancelResponse, PollError, PollDelivery, PollFlush
    <2>2. deferred' = deferred \/ \E h \in HakGoals : deferred' = [deferred EXCEPT ![h] = FALSE]
      BY <1>4 DEF PollTake, PollGoalResponse, PollCancelResponse, PollError, PollDelivery, PollFlush
    <2>3. \A h \in HakGoals : deferred'[h] => deferred[h]
      BY <2>2 DEF TypeOK
    <2> QED
      BY <1>1, <1>2, <2>1, <2>3
  <1>5. ASSUME PollWork PROVE Early' /\ Deferred'
    <2>1. ASSUME PollEarly PROVE Early' /\ Deferred'
      <3>1. PICK g \in HakGoals : pollEvent \in TrueOf(g)
        BY <2>1 DEF PollEarly, EventsTrue, TrueEvents, TrueOf, Event
      <3>2. pollEvent.goal = g
        BY <3>1 DEF TrueOf
      <3>3. /\ earlyEvents' = [earlyEvents EXCEPT ![g] = Append(@, pollEvent)]
            /\ UNCHANGED deferred
        BY <2>1, <3>2 DEF PollEarly
      <3>4. pollEvent \in TrueOf(g)'
        BY <1>0, <3>1
      <3>5. Append(earlyEvents[g], pollEvent) \in Seq(TrueOf(g)')
        BY <1>0, <3>4
      <3>6. \A h \in HakGoals : earlyEvents'[h] = IF h = g THEN Append(earlyEvents[g], pollEvent)
                                                 ELSE earlyEvents[h]
        BY <3>3 DEF TypeOK
      <3>7. Early'
        BY <1>0, <3>5, <3>6
      <3> QED
        BY <1>2, <3>3, <3>7
    <2>2. ASSUME PollDefer PROVE Early' /\ Deferred'
      <3>1. hak[pollEvent.goal] = "canceled" /\ hak' = hak
        BY <2>2 DEF PollDefer, EventsTrue, TrueEvents, CanceledResult, IsResult
      <3>2. deferred' = [deferred EXCEPT ![pollEvent.goal] = TRUE] /\ UNCHANGED earlyEvents
        BY <2>2 DEF PollDefer
      <3> QED
        BY <1>0, <1>1, <3>1, <3>2 DEF TypeOK
    <2> QED
      BY <1>1, <1>2, <1>5, <2>1, <2>2 DEF PollWork, PollFind, PollDeliver
  <1>6. ASSUME Close PROVE Early' /\ Deferred'
    <2>1. UNCHANGED earlyEvents
      BY <1>6, CloseFrame
    <2>2. \A h \in HakGoals : deferred'[h] => deferred[h]
      BY <1>6 DEF Close, CloseStop, CloseDecisions, CloseJoin, CloseClear
    <2> QED
      BY <1>1, <1>2, <2>1, <2>2
  <1>7. ASSUME NEW h \in HakGoals, HakSide(h) PROVE Early' /\ Deferred'
    BY <1>1, <1>2, <1>7, HakFrame
  <1>8. ASSUME NEW r \in RosGoals, GoalTask(r) PROVE Early' /\ Deferred'
    <2>1. ASSUME CollectEarly(r) PROVE Early' /\ Deferred'
      BY <1>2, <1>3, <2>1 DEF CollectEarly, WithoutParked
    <2> QED
      BY <1>1, <1>2, <1>8, <2>1
         DEF GoalTask, GoalSend, GoalSendFails, GoalWaitReturns, GoalReject, GoalAccept,
             BindRosAccepted, BindFails, ExecuteGoal, DeliverEarly, AcceptedReturns
  <1>9. ASSUME NEW r \in RosGoals, ExecTask(r) PROVE Early' /\ Deferred'
    <2>1. ASSUME ExecWake(r) PROVE Early' /\ Deferred'
      <3>1. /\ earlyEvents' = [earlyEvents EXCEPT ![boundTo[r]] = <<>>]
            /\ deferred' = [deferred EXCEPT ![boundTo[r]] = FALSE]
        BY <2>1 DEF ExecWake
      <3>2. \A h \in HakGoals : deferred'[h] => deferred[h]
        BY <3>1 DEF TypeOK
      <3> QED
        BY <1>2, <1>3, <3>1, <3>2
    <2> QED
      BY <1>1, <1>2, <1>9, <2>1 DEF ExecTask, ExecStart, ExecAborts, ExecReturn
  <1>10. ASSUME NEW r \in RosGoals, (\E h \in HakGoals : GoalBegin(r, h)) \/ CancelCalled(r) \/ CancelTask(r)
         PROVE  Early' /\ Deferred'
    BY <1>1, <1>2, <1>10
       DEF GoalBegin, CancelCalled, CancelTask, CancelBegin, CancelRefused, CancelSend,
           CancelSendFails, CancelWaitReturns, CancelAnswer
  <1>11. CASE UNCHANGED vars
    BY <1>1, <1>2, <1>11 DEF vars
  <1> HIDE DEF Early, Deferred
  <1> QED
    BY <1>4, <1>5, <1>6, <1>7, <1>8, <1>9, <1>10, <1>11 DEF Next, HakSide

\* What the accepted callback has taken is true and of the goal it is bound to.
LEMMA TakenTrueStep ==
    ASSUME TypeOK, PairingInv, SentOnce, EventsTrue, [Next]_vars
    PROVE  \A r \in RosGoals : early'[r] \in Seq(TrueOf(boundTo[r])')
  <1> DEFINE Taken(r) == early[r] \in Seq(TrueOf(boundTo[r]))
  <1> SUFFICES ASSUME NEW q \in RosGoals PROVE Taken(q)'
    OBVIOUS
  <1>0. /\ Taken(q) /\ NoGoal \notin HakGoals
        /\ \A h : TrueOf(h) \subseteq TrueOf(h)'
        /\ \A h \in HakGoals : earlyEvents[h] \in Seq(TrueOf(h))
    BY HakLife, TrueStays, ActionServerAssumption DEF EventsTrue
  <1>1. PICK g : g = boundTo[q]
    OBVIOUS
  <1>2. early[q] \in Seq(TrueOf(g))
    BY <1>0, <1>1
  <1>3. \A s : s \in Seq(TrueOf(g)) => s \in Seq(TrueOf(g)')
    BY <1>0, SeqGrows
  <1>4. ASSUME boundTo'[q] = g, early'[q] \in Seq(TrueOf(g)) PROVE Taken(q)'
    <2>1. TrueOf(boundTo[q])' = TrueOf(g)'
      BY <1>4 DEF TrueOf, TrueEvents
    <2> QED
      BY <1>3, <1>4, <2>1
  <1>5. ASSUME UNCHANGED <<early, boundTo>> PROVE Taken(q)'
    BY <1>1, <1>2, <1>4, <1>5
  <1>6. ASSUME NEW r \in RosGoals, BindRosAccepted(r) PROVE Taken(q)'
    <2>1. UNCHANGED early /\ boundTo'[q] = (IF q = r THEN Head(acceptedOrder[ActionOf[r]]) ELSE boundTo[q])
      BY <1>6 DEF BindRosAccepted, TypeOK
    <2>2. CASE q = r
      <3>1. g = NoGoal
        BY <1>1, <1>6, <2>2 DEF BindRosAccepted, PairingInv, BoundWhenBound, BoundPc
      <3>2. TrueOf(g) = {}
        BY <1>0, <3>1 DEF TrueOf, TrueEvents, Event
      <3>3. early[q] = <<>>
        BY <1>2, <3>2
      <3>4. \A S : <<>> \in Seq(S)
        OBVIOUS
      <3> QED
        BY <2>1, <3>3, <3>4
    <2>3. CASE q # r
      BY <1>1, <1>2, <1>4, <2>1, <2>3
    <2> QED
      BY <2>2, <2>3
  <1>7. ASSUME NEW r \in RosGoals, CollectEarly(r) PROVE Taken(q)'
    <2>1. UNCHANGED boundTo /\ early'[q] = (IF q = r THEN earlyEvents[boundTo[r]] ELSE early[q])
      BY <1>7 DEF CollectEarly, TypeOK
    <2>2. q = r => g \in HakGoals
      BY <1>1, <1>7, BoundFacts DEF CollectEarly, BoundPc
    <2> QED
      BY <1>0, <1>1, <1>2, <1>4, <2>1, <2>2
  <1>8. ASSUME NEW r \in RosGoals, DeliverEarly(r) PROVE Taken(q)'
    <2>1. UNCHANGED boundTo /\ early'[q] = (IF q = r THEN Tail(early[q]) ELSE early[q])
          /\ (q = r => early[q] # <<>>)
      BY <1>8 DEF DeliverEarly, TypeOK
    <2>2. early'[q] \in Seq(TrueOf(g))
      BY <1>2, <2>1
    <2> QED
      BY <1>1, <1>4, <2>1, <2>2
  <1>9. ASSUME NEW r \in RosGoals, GoalTask(r) PROVE Taken(q)'
    BY <1>5, <1>6, <1>7, <1>8, <1>9
       DEF GoalTask, GoalSend, GoalSendFails, GoalWaitReturns, GoalReject, GoalAccept,
           BindFails, ExecuteGoal, AcceptedReturns
  <1>10. ASSUME NEW r \in RosGoals, \/ \E h \in HakGoals : GoalBegin(r, h)
                                   \/ CancelCalled(r) \/ CancelTask(r) \/ ExecTask(r)
         PROVE  Taken(q)'
    BY <1>5, <1>10
       DEF GoalBegin, CancelCalled, CancelTask, CancelBegin, CancelRefused, CancelSend,
           CancelSendFails, CancelWaitReturns, CancelAnswer, ExecTask, ExecStart, ExecAborts,
           ExecWake, ExecReturn
  <1>11. CASE PollTake \/ PollWork \/ PollFlush
    BY <1>5, <1>11, PollFrame
  <1>12. CASE Close
    BY <1>5, <1>12, CloseFrame
  <1>13. ASSUME NEW h \in HakGoals, HakSide(h) PROVE Taken(q)'
    BY <1>5, <1>13, HakFrame
  <1>14. CASE UNCHANGED vars
    BY <1>5, <1>14 DEF vars
  <1> HIDE DEF Taken
  <1> QED
    BY <1>9, <1>10, <1>11, <1>12, <1>13, <1>14 DEF Next, HakSide

\* Every step keeps EventsTrue.
LEMMA EventsTrueStep ==
    ASSUME TypeOK, PairingInv, SentOnce, EventsTrue, [Next]_vars
    PROVE  EventsTrue'
  <1>1. events' \in Seq(TrueEvents')
    BY QueueTrueStep
  <1>2. /\ pollPc' \notin {"poll", "ended"} => pollEvent' \in TrueEvents'
        /\ pollPc' = "defer" => pollEvent' = CanceledResult(pollEvent'.goal)
    BY HeldTrueStep
  <1>3. /\ \A h \in HakGoals : earlyEvents'[h] \in Seq(TrueOf(h)')
        /\ \A h \in HakGoals : deferred'[h] => hak'[h] = "canceled"
    BY EarlyTrueStep
  <1>4. \A r \in RosGoals : early'[r] \in Seq(TrueOf(boundTo[r])')
    BY TakenTrueStep
  <1>5. (pollPc = "defer" => pollEvent = CanceledResult(pollEvent.goal))'
    BY <1>2
  <1> QED
    BY <1>1, <1>2, <1>3, <1>4, <1>5 DEF EventsTrue

-----------------------------------------------------------------------------
\* A decision is granted only by a response that says so.
LEMMA DecisionsTrueStep ==
    ASSUME TypeOK, PairingInv, SentOnce, EventsTrue, DecisionsTrue, [Next]_vars
    PROVE  DecisionsTrue'
  <1>0. /\ HakSteps /\ events \in Seq(TrueEvents)
        /\ goalDecisions \in [HakGoals -> Decision] /\ cancelDecisions \in [HakGoals -> Decision]
        /\ \A h \in HakGoals : Running(h) => Running(h)'
        /\ \A h \in HakGoals : h \in cancelAccepted => h \in cancelAccepted'
    BY HakLife, RunningStays DEF EventsTrue, TypeOK
  <1>1. ASSUME \A h \in HakGoals : goalDecisions'[h] = "yes" => goalDecisions[h] = "yes",
               \A h \in HakGoals : cancelDecisions'[h] = "yes" => cancelDecisions[h] = "yes"
        PROVE  DecisionsTrue'
    BY <1>0, <1>1 DEF DecisionsTrue
  <1>2. ASSUME UNCHANGED decisionVars PROVE DecisionsTrue'
    BY <1>1, <1>2
  <1>3. ASSUME PollTake PROVE DecisionsTrue'
    <2>0. \A e : Polled(e) => e \in TrueEvents
      BY <1>0 DEF Polled
    <2>1. ASSUME PollGoalResponse PROVE DecisionsTrue'
      <3>1. PICK e \in Event :
              /\ e.kind = "GOAL_RESPONSE" /\ Polled(e)
              /\ goalDecisions' = [goalDecisions EXCEPT ![e.goal] = Resolve(@, e.accepted)]
              /\ UNCHANGED cancelDecisions
        BY <2>1 DEF PollGoalResponse
      <3>2. e.accepted => Running(e.goal)
        BY <2>0, <3>1 DEF TrueEvents
      <3>3. \A h \in HakGoals : goalDecisions'[h] = "yes" => goalDecisions[h] = "yes" \/ Running(h)
        BY <1>0, <3>1, <3>2 DEF Resolve
      <3> QED
        BY <1>0, <3>1, <3>3 DEF DecisionsTrue
    <2>2. ASSUME PollCancelResponse PROVE DecisionsTrue'
      <3>1. PICK e \in Event :
              /\ e.kind = "CANCEL_RESPONSE" /\ Polled(e)
              /\ cancelDecisions' = [cancelDecisions EXCEPT ![e.goal] = Resolve(@, e.accepted)]
              /\ UNCHANGED goalDecisions
        BY <2>2 DEF PollCancelResponse
      <3>2. e.accepted => e.goal \in cancelAccepted
        BY <2>0, <3>1 DEF TrueEvents
      <3>3. \A h \in HakGoals :
                cancelDecisions'[h] = "yes" => cancelDecisions[h] = "yes" \/ h \in cancelAccepted
        BY <1>0, <3>1, <3>2 DEF Resolve
      <3> QED
        BY <1>0, <3>1, <3>3 DEF DecisionsTrue
    <2>3. ASSUME PollError PROVE DecisionsTrue'
      BY <1>0, <1>1, <2>3 DEF PollError, Complete
    <2>4. ASSUME PollDelivery PROVE DecisionsTrue'
      BY <1>0, <1>1, <2>4 DEF PollDelivery, WokenBy, Complete
    <2> QED
      BY <1>3, <2>1, <2>2, <2>3, <2>4 DEF PollTake
  <1>4. ASSUME PollWork \/ PollFlush PROVE DecisionsTrue'
    BY <1>2, <1>4 DEF PollWork, PollFind, PollEarly, PollDefer, PollDeliver, PollFlush
  <1>5. ASSUME Close PROVE DecisionsTrue'
    <2>1. ASSUME CloseDecisions PROVE DecisionsTrue'
      BY <1>1, <2>1 DEF CloseDecisions, Complete
    <2> QED
      BY <1>2, <1>5, <2>1 DEF Close, CloseStop, CloseJoin, CloseClear
  <1>6. ASSUME NEW h \in HakGoals, HakSide(h) PROVE DecisionsTrue'
    BY <1>2, <1>6, HakFrame
  <1>7. ASSUME NEW r \in RosGoals, (\E h \in HakGoals : GoalBegin(r, h)) \/ GoalTask(r)
        PROVE  DecisionsTrue'
    <2>1. UNCHANGED cancelDecisions
      BY <1>7
         DEF GoalBegin, GoalTask, GoalSend, GoalSendFails, GoalWaitReturns, GoalReject, GoalAccept,
             BindRosAccepted, BindFails, CollectEarly, ExecuteGoal, DeliverEarly, AcceptedReturns
    <2>2. \/ UNCHANGED goalDecisions
          \/ \E h \in HakGoals : goalDecisions' = [goalDecisions EXCEPT ![h] = "pending"]
          \/ goalDecisions' = [goalDecisions EXCEPT ![goalId[r]] = "absent"]
      BY <1>7
         DEF GoalBegin, GoalTask, GoalSend, GoalSendFails, GoalWaitReturns, GoalReject, GoalAccept,
             BindRosAccepted, BindFails, CollectEarly, ExecuteGoal, DeliverEarly, AcceptedReturns,
             Drop
    <2> QED
      BY <1>0, <1>1, <2>1, <2>2
  <1>8. ASSUME NEW r \in RosGoals, CancelCalled(r) \/ CancelTask(r) \/ ExecTask(r)
        PROVE  DecisionsTrue'
    <2>1. UNCHANGED goalDecisions
      BY <1>8
         DEF CancelCalled, CancelTask, CancelBegin, CancelRefused, CancelSend, CancelSendFails,
             CancelWaitReturns, CancelAnswer, ExecTask, ExecStart, ExecAborts, ExecWake, ExecReturn
    <2>2. \/ UNCHANGED cancelDecisions
          \/ cancelDecisions' = [cancelDecisions EXCEPT ![byRos[r]] = "pending"]
          \/ cancelDecisions' = [cancelDecisions EXCEPT ![boundTo[r]] = "absent"]
      BY <1>8
         DEF CancelCalled, CancelTask, CancelBegin, CancelRefused, CancelSend, CancelSendFails,
             CancelWaitReturns, CancelAnswer, ExecTask, ExecStart, ExecAborts, ExecWake, ExecReturn,
             Drop
    <2> QED
      BY <1>0, <1>1, <2>1, <2>2
  <1>9. CASE UNCHANGED vars
    BY <1>2, <1>9 DEF vars
  <1> QED
    BY <1>3, <1>4, <1>5, <1>6, <1>7, <1>8, <1>9 DEF Next, HakSide

-----------------------------------------------------------------------------
\* What a delivery does to the goal handle and to the future.
LEMMA DeliverEffect ==
    ASSUME TypeOK, NEW r \in RosGoals, NEW h, NEW e \in Event, Deliver(r, h, e)
    PROVE  \/ UNCHANGED <<ros, completion>>
           \/ /\ IsResult(e) /\ e.status \in Terminal /\ MayTerminate(ros[r], e.status)
              /\ ros' = [ros EXCEPT ![r] = e.status]
              /\ completion' = [completion EXCEPT ![h] = IF @ = "pending" THEN "done" ELSE @]
  <1>1. IsResult(e) => e.status \in Terminal
    BY DEF Event, IsResult
  <1> QED
    BY <1>1 DEF Deliver

\* A step that delivers takes a true event of the goal that the handle is bound to.
Delivered(r, e) ==
    /\ boundTo[r] \in HakGoals /\ goalPc[r] \in BoundPc
    /\ e \in TrueOf(boundTo[r]) /\ Deliver(r, boundTo[r], e)

\* The poll thread delivers such an event,
LEMMA PollDeliverEvent ==
    ASSUME TypeOK, PairingInv, EventsTrue, PollDeliver
    PROVE  \E r \in RosGoals, e \in Event : Delivered(r, e)
  <1>1. PICK r \in RosGoals : boundTo[r] = pollEvent.goal /\ Deliver(r, pollEvent.goal, pollEvent)
    BY DEF PollDeliver
  <1>2. pollEvent \in TrueEvents /\ pollEvent \in Event /\ pollEvent.goal \in HakGoals
    BY DEF PollDeliver, EventsTrue, TrueEvents, Event
  <1>3. goalPc[r] \in BoundPc
    BY <1>1, <1>2, BoundFacts, ActionServerAssumption
  <1> QED
    BY <1>1, <1>2, <1>3 DEF Delivered, TrueOf

\* and so does the accepted callback.
LEMMA DeliverEarlyEvent ==
    ASSUME TypeOK, PairingInv, EventsTrue, NEW r \in RosGoals, DeliverEarly(r)
    PROVE  \E e \in Event : Delivered(r, e)
  <1>1. goalPc[r] \in BoundPc /\ boundTo[r] \in HakGoals
    BY BoundFacts DEF DeliverEarly, BoundPc
  <1>2. Head(early[r]) \in TrueOf(boundTo[r])
    BY DEF DeliverEarly, EventsTrue
  <1>3. Head(early[r]) \in Event
    BY <1>2 DEF TrueOf, TrueEvents
  <1> QED
    BY <1>1, <1>2, <1>3 DEF Delivered, DeliverEarly

\* Once it is executing, a handle is only moved on by a cancel answer or an end.
HandleSteps ==
    \A r \in RosGoals :
        \/ ros'[r] = ros[r]
        \/ ros[r] = "none" /\ ros'[r] = "accepted"
        \/ ros[r] = "accepted" /\ ros'[r] = "executing"
        \/ ros[r] = "executing" /\ ros'[r] = "canceling"
        \/ ros[r] \in {"executing", "canceling"} /\ ros'[r] \in Terminal

\* Delivering, answering a cancel request and aborting only move on a handle that was executed.
LEMMA LateSteps ==
    ASSUME TypeOK, PairingInv, EventsTrue, NEW r \in RosGoals,
           DeliverEarly(r) \/ PollDeliver \/ ExecAborts(r) \/ CancelAnswer(r)
    PROVE  HandleSteps /\ \A q \in RosGoals : ros'[q] = ros[q] \/ ros[q] \in {"executing", "canceling"}
  <1>0. ros \in [RosGoals -> {"none", "accepted", "executing", "canceling"} \cup Terminal]
    BY DEF TypeOK
  <1>1. ASSUME DeliverEarly(r) \/ PollDeliver
        PROVE  HandleSteps /\ \A q \in RosGoals : ros'[q] = ros[q] \/ ros[q] \in {"executing", "canceling"}
    <2>1. PICK q \in RosGoals, e \in Event : Delivered(q, e)
      BY <1>1, DeliverEarlyEvent, PollDeliverEvent
    <2>2. \/ UNCHANGED ros
          \/ /\ e.status \in Terminal /\ ros[q] \in {"executing", "canceling"}
             /\ ros' = [ros EXCEPT ![q] = e.status]
      BY <2>1, DeliverEffect DEF Delivered, MayTerminate
    <2> QED
      BY <1>0, <2>2 DEF HandleSteps
  <1>2. ASSUME ExecAborts(r) \/ CancelAnswer(r)
        PROVE  HandleSteps /\ \A q \in RosGoals : ros'[q] = ros[q] \/ ros[q] \in {"executing", "canceling"}
    <2>1. \/ UNCHANGED ros
          \/ ros[r] \in {"executing", "canceling"} /\ ros' = [ros EXCEPT ![r] = "aborted"]
          \/ ros[r] = "executing" /\ ros' = [ros EXCEPT ![r] = "canceling"]
      BY <1>0, <1>2 DEF ExecAborts, CancelAnswer, MayTerminate
    <2> QED
      BY <1>0, <2>1 DEF HandleSteps, Terminal
  <1> QED
    BY <1>1, <1>2

\* Every step moves a handle as HandleSteps says.
LEMMA HandleLife ==
    ASSUME TypeOK, PairingInv, EventsTrue, HandleFollows, [Next]_vars
    PROVE  HandleSteps
  <1>0. ros \in [RosGoals -> {"none", "accepted", "executing", "canceling"} \cup Terminal]
    BY DEF TypeOK
  <1>1. ASSUME UNCHANGED ros PROVE HandleSteps
    BY <1>1 DEF HandleSteps
  <1>2. ASSUME NEW r \in RosGoals, BindRosAccepted(r) \/ BindFails(r) PROVE HandleSteps
    <2>1. ros[r] = "none" /\ ros' = [ros EXCEPT ![r] = "accepted"]
      BY <1>2 DEF BindRosAccepted, BindFails, HandleFollows
    <2> QED
      BY <1>0, <2>1 DEF HandleSteps
  <1>3. ASSUME NEW r \in RosGoals, ExecuteGoal(r) PROVE HandleSteps
    <2>1. ros[r] = "accepted" /\ ros' = [ros EXCEPT ![r] = "executing"]
      BY <1>3 DEF ExecuteGoal, HandleFollows
    <2> QED
      BY <1>0, <2>1 DEF HandleSteps
  <1>4. ASSUME NEW r \in RosGoals, (\E h \in HakGoals : GoalBegin(r, h)) \/ GoalTask(r)
        PROVE  HandleSteps
    BY <1>1, <1>2, <1>3, <1>4, LateSteps
       DEF GoalBegin, GoalTask, GoalSend, GoalSendFails, GoalWaitReturns, GoalReject, GoalAccept,
           CollectEarly, AcceptedReturns
  <1>5. ASSUME NEW r \in RosGoals, CancelCalled(r) \/ CancelTask(r) \/ ExecTask(r)
        PROVE  HandleSteps
    BY <1>1, <1>5, LateSteps
       DEF CancelCalled, CancelTask, CancelBegin, CancelRefused, CancelSend, CancelSendFails,
           CancelWaitReturns, ExecTask, ExecStart, ExecWake, ExecReturn
  <1>6. ASSUME PollTake \/ PollWork \/ PollFlush PROVE HandleSteps
    <2>1. ASSUME PollDeliver PROVE HandleSteps
      <3>1. PICK r \in RosGoals : TRUE
        BY <2>1 DEF PollDeliver
      <3> QED
        BY <2>1, <3>1, LateSteps
    <2> QED
      BY <1>1, <1>6, <2>1
         DEF PollTake, PollWork, PollFlush, PollGoalResponse, PollCancelResponse, PollError,
             PollDelivery, PollFind, PollEarly, PollDefer
  <1>7. ASSUME Close PROVE HandleSteps
    BY <1>1, <1>7, CloseFrame
  <1>8. ASSUME NEW h \in HakGoals, HakSide(h) PROVE HandleSteps
    BY <1>1, <1>8, HakFrame
  <1>9. CASE UNCHANGED vars
    BY <1>1, <1>9 DEF vars
  <1> QED
    BY <1>4, <1>5, <1>6, <1>7, <1>8, <1>9 DEF Next, HakSide

\* A goal handle exists from the second callback on, for an accepted Hakoniwa goal.
LEMMA HandleFollowsStep ==
    ASSUME TypeOK, PairingInv, SentOnce, EventsTrue, DecisionsTrue, HandleFollows, [Next]_vars
    PROVE  HandleFollows'
  <1> DEFINE Early == {"none", "sending", "waiting", "woken", "timedOut", "registered", "rejected"}
             Behind(q) ==
                 /\ goalPc[q] \in Early => ros[q] = "none"
                 /\ goalPc[q] \in {"bound", "collected", "failed"} => ros[q] = "accepted"
                 /\ goalPc[q] \in {"registered"} \cup BoundPc => hak[goalId[q]] \in {"executing"} \cup Terminal
  <1> SUFFICES ASSUME NEW q \in RosGoals PROVE Behind(q)'
    BY DEF HandleFollows, Running
  <1>0. /\ ros \in [RosGoals -> {"none", "accepted", "executing", "canceling"} \cup Terminal]
        /\ goalPc \in [RosGoals -> GoalPc] /\ goalId \in [RosGoals -> HakGoals \cup {NoGoal}]
        /\ Behind(q)
    BY DEF TypeOK, HandleFollows, Running
  <1>1. \A g \in HakGoals : hak[g] \in {"executing"} \cup Terminal => hak'[g] \in {"executing"} \cup Terminal
    BY HakLife, RunningStays DEF Running
  <1>2. goalPc[q] # "none" => goalId[q] \in HakGoals
    BY BoundFacts
  <1>3. ASSUME goalPc'[q] = goalPc[q], goalPc[q] # "none" => goalId'[q] = goalId[q],
               ros'[q] = ros[q] \/ ros[q] \in {"executing", "canceling"}
        PROVE  Behind(q)'
    BY <1>0, <1>1, <1>2, <1>3 DEF BoundPc
  <1>4. ASSUME UNCHANGED <<goalPc, goalId, ros>> PROVE Behind(q)'
    BY <1>3, <1>4
  <1>5. ASSUME NEW r \in RosGoals, NEW h \in HakGoals, GoalBegin(r, h) PROVE Behind(q)'
    <2>1. /\ goalPc' = [goalPc EXCEPT ![r] = "sending"] /\ goalPc[r] = "none"
          /\ goalId' = [goalId EXCEPT ![r] = h] /\ ros' = ros
      BY <1>5 DEF GoalBegin
    <2>2. CASE q = r
      BY <1>0, <2>1, <2>2 DEF BoundPc
    <2>3. CASE q # r
      BY <1>0, <1>3, <2>1, <2>3
    <2> QED
      BY <2>2, <2>3
  <1>6. ASSUME NEW r \in RosGoals, GoalTask(r), goalPc'[q] # goalPc[q]
        PROVE  q = r /\ UNCHANGED goalId
    <2>1. UNCHANGED goalId /\ (UNCHANGED goalPc \/ \E pc : goalPc' = [goalPc EXCEPT ![r] = pc])
      BY <1>6
         DEF GoalTask, GoalSend, GoalSendFails, GoalWaitReturns, GoalReject, GoalAccept,
             BindRosAccepted, BindFails, CollectEarly, ExecuteGoal, DeliverEarly, AcceptedReturns
    <2> QED
      BY <1>0, <1>6, <2>1
  <1>7. ASSUME NEW r \in RosGoals, GoalTask(r) PROVE Behind(q)'
    <2>0. CASE DeliverEarly(r)
      BY <1>3, <2>0, LateSteps DEF DeliverEarly
    <2>1. ASSUME ~DeliverEarly(r), q # r PROVE Behind(q)'
      <3>1. UNCHANGED goalId /\ goalPc'[q] = goalPc[q]
        BY <1>6, <1>7, <2>1
           DEF GoalTask, GoalSend, GoalSendFails, GoalWaitReturns, GoalReject, GoalAccept,
               BindRosAccepted, BindFails, CollectEarly, ExecuteGoal, AcceptedReturns
      <3>2. UNCHANGED ros \/ \E st : ros' = [ros EXCEPT ![r] = st]
        BY <1>7, <2>1
           DEF GoalTask, GoalSend, GoalSendFails, GoalWaitReturns, GoalReject, GoalAccept,
               BindRosAccepted, BindFails, CollectEarly, ExecuteGoal, AcceptedReturns
      <3> QED
        BY <1>0, <1>3, <2>1, <3>1, <3>2
    <2>2. CASE q = r /\ (GoalSend(r) \/ GoalSendFails(r) \/ GoalWaitReturns(r) \/ GoalReject(r))
      <3>1. goalPc[q] \in Early /\ goalPc'[q] \in Early \ {"registered"} /\ ros' = ros
        BY <1>0, <2>2 DEF GoalSend, GoalSendFails, GoalWaitReturns, GoalReject
      <3> QED
        BY <1>0, <3>1 DEF BoundPc
    <2>3. CASE q = r /\ GoalAccept(r)
      <3>1. /\ goalPc[q] = "woken" /\ goalPc'[q] = "registered" /\ UNCHANGED <<ros, goalId>>
            /\ goalDecisions[goalId[q]] = "yes"
        BY <1>0, <2>3 DEF GoalAccept
      <3>2. hak[goalId[q]] \in {"executing"} \cup Terminal
        BY <1>2, <3>1 DEF DecisionsTrue, Running
      <3> QED
        BY <1>0, <1>1, <1>2, <3>1, <3>2 DEF BoundPc
    <2>4. CASE q = r /\ BindRosAccepted(r)
      <3>1. /\ goalPc[q] = "registered" /\ goalPc'[q] = "bound" /\ UNCHANGED goalId
            /\ ros'[q] = "accepted"
        BY <1>0, <2>4 DEF BindRosAccepted
      <3> QED
        BY <1>0, <1>1, <1>2, <3>1 DEF BoundPc
    <2>5. CASE q = r /\ BindFails(r)
      <3>1. goalPc'[q] = "failed" /\ ros'[q] = "accepted"
        BY <1>0, <2>5 DEF BindFails
      <3> QED
        BY <3>1 DEF BoundPc
    <2>6. CASE q = r /\ CollectEarly(r)
      <3>1. goalPc[q] = "bound" /\ goalPc'[q] = "collected" /\ UNCHANGED <<ros, goalId>>
        BY <1>0, <2>6 DEF CollectEarly
      <3> QED
        BY <1>0, <1>1, <1>2, <3>1 DEF BoundPc
    <2>7. CASE q = r /\ (ExecuteGoal(r) \/ AcceptedReturns(r))
      <3>1. /\ goalPc[q] \in BoundPc /\ goalPc'[q] \in {"delivering", "accepted"}
            /\ UNCHANGED goalId
        BY <1>0, <2>7 DEF ExecuteGoal, AcceptedReturns, BoundPc
      <3> QED
        BY <1>0, <1>1, <1>2, <3>1 DEF BoundPc
    <2> QED
      BY <1>7, <2>0, <2>1, <2>2, <2>3, <2>4, <2>5, <2>6, <2>7 DEF GoalTask
  <1>8. ASSUME NEW r \in RosGoals, CancelCalled(r) \/ CancelTask(r) \/ ExecTask(r)
        PROVE  Behind(q)'
    <2>1. UNCHANGED <<goalPc, goalId>>
      BY <1>8
         DEF CancelCalled, CancelTask, CancelBegin, CancelRefused, CancelSend, CancelSendFails,
             CancelWaitReturns, CancelAnswer, ExecTask, ExecStart, ExecAborts, ExecWake, ExecReturn
    <2>2. UNCHANGED ros \/ ExecAborts(r) \/ CancelAnswer(r)
      BY <1>8
         DEF CancelCalled, CancelTask, CancelBegin, CancelRefused, CancelSend, CancelSendFails,
             CancelWaitReturns, ExecTask, ExecStart, ExecWake, ExecReturn
    <2> QED
      BY <1>3, <2>1, <2>2, LateSteps
  <1>9. ASSUME PollTake \/ PollWork \/ PollFlush PROVE Behind(q)'
    <2>1. UNCHANGED ros \/ PollDeliver
      BY <1>9
         DEF PollTake, PollWork, PollFlush, PollGoalResponse, PollCancelResponse, PollError,
             PollDelivery, PollFind, PollEarly, PollDefer
    <2> QED
      BY <1>3, <1>9, <2>1, LateSteps, PollFrame
  <1>10. ASSUME Close PROVE Behind(q)'
    BY <1>4, <1>10, CloseFrame
  <1>11. ASSUME NEW h \in HakGoals, HakSide(h) PROVE Behind(q)'
    BY <1>4, <1>11, HakFrame
  <1>12. CASE UNCHANGED vars
    BY <1>4, <1>12 DEF vars
  <1> HIDE DEF Behind
  <1> QED
    BY <1>5, <1>7, <1>8, <1>9, <1>10, <1>11, <1>12 DEF Next, HakSide

\* The index by ROS goal loses a goal to its own execute task and to the closing thread only.
LEMMA MappedStep ==
    ASSUME TypeOK, PairingInv, Mapped, [Next]_vars
    PROVE  Mapped'
  <1> SUFFICES ASSUME NEW q \in RosGoals, goalPc'[q] \in BoundPc, execPc'[q] # "returned",
                      closePc' # "closed"
               PROVE  byRos'[q] # NoGoal
    BY DEF Mapped
  <1>0. /\ goalPc \in [RosGoals -> GoalPc] /\ execPc \in [RosGoals -> {"none", "scheduled", "awaiting", "removing", "returned"}]
        /\ byRos \in [RosGoals -> HakGoals \cup {NoGoal}]
        /\ goalPc[q] \in BoundPc /\ execPc[q] # "returned" /\ closePc # "closed" => byRos[q] # NoGoal
    BY DEF TypeOK, Mapped
  <1>1. ASSUME goalPc'[q] = goalPc[q] \/ goalPc[q] \in BoundPc, byRos'[q] = byRos[q], closePc' = closePc,
               execPc'[q] = execPc[q] \/ execPc[q] # "returned"
        PROVE  byRos'[q] # NoGoal
    BY <1>0, <1>1
  <1>2. ASSUME NEW r \in RosGoals, BindRosAccepted(r) PROVE byRos'[q] # NoGoal
    <2>1. Head(acceptedOrder[ActionOf[r]]) = goalId[r] /\ goalId[r] # NoGoal
      BY <1>2, BindTakesOwnGoal, BoundFacts DEF BindRosAccepted
    <2>2. byRos' = [byRos EXCEPT ![r] = goalId[r]] /\ goalPc' = [goalPc EXCEPT ![r] = "bound"]
          /\ UNCHANGED <<closePc, execPc>>
      BY <1>2, <2>1 DEF BindRosAccepted
    <2> QED
      BY <1>0, <1>1, <2>1, <2>2
  <1>3. ASSUME NEW r \in RosGoals, ExecReturn(r) PROVE byRos'[q] # NoGoal
    <2>1. /\ execPc[r] = "removing" /\ execPc' = [execPc EXCEPT ![r] = "returned"]
          /\ byRos' = WithoutContext(boundTo[r]) /\ UNCHANGED <<closePc, goalPc>>
      BY <1>3 DEF ExecReturn
    <2>2. q # r
      BY <1>0, <2>1
    <2>3. boundTo[r] \in HakGoals /\ boundTo[r] # NoGoal /\ boundTo[r] = goalId[r]
      BY <2>1, BoundFacts DEF BoundPc
    <2>4. byHakoniwa[boundTo[r]] # q
      <3>1. SUFFICES ASSUME byHakoniwa[boundTo[r]] = q PROVE FALSE
        OBVIOUS
      <3>2. byRos[q] = boundTo[r]
        BY <2>3, <3>1 DEF PairingInv, IndexesAgree
      <3>3. boundTo[q] = boundTo[r]
        BY <2>3, <3>2, BoundFacts
      <3> QED
        BY <2>2, <2>3, <3>3, BoundFacts
    <2>5. byRos'[q] = byRos[q]
      BY <1>0, <2>1, <2>4 DEF WithoutContext
    <2> QED
      BY <1>0, <1>1, <2>1, <2>2, <2>5
  <1>4. ASSUME NEW r \in RosGoals, (\E h \in HakGoals : GoalBegin(r, h)) \/ GoalTask(r), ~BindRosAccepted(r)
        PROVE  byRos'[q] # NoGoal
    <2>1. UNCHANGED <<byRos, closePc>>
      BY <1>4
         DEF GoalBegin, GoalTask, GoalSend, GoalSendFails, GoalWaitReturns, GoalReject, GoalAccept,
             BindFails, CollectEarly, ExecuteGoal, DeliverEarly, AcceptedReturns
    <2>2. \/ UNCHANGED goalPc
          \/ \E pc \in GoalPc \ BoundPc : goalPc' = [goalPc EXCEPT ![r] = pc]
          \/ goalPc[r] \in BoundPc /\ \E pc : goalPc' = [goalPc EXCEPT ![r] = pc]
      BY <1>4
         DEF GoalBegin, GoalTask, GoalSend, GoalSendFails, GoalWaitReturns, GoalReject, GoalAccept,
             BindFails, CollectEarly, ExecuteGoal, DeliverEarly, AcceptedReturns, GoalPc, BoundPc
    <2>3. UNCHANGED execPc \/ (execPc' = [execPc EXCEPT ![r] = "scheduled"] /\ ExecuteGoal(r))
      BY <1>4
         DEF GoalBegin, GoalTask, GoalSend, GoalSendFails, GoalWaitReturns, GoalReject, GoalAccept,
             BindFails, CollectEarly, ExecuteGoal, DeliverEarly, AcceptedReturns
    <2>4. ExecuteGoal(r) => execPc[r] # "returned"
      BY BoundFacts DEF ExecuteGoal
    <2>5. execPc'[q] = execPc[q] \/ execPc[q] # "returned"
      BY <1>0, <2>3, <2>4
    <2>6. goalPc'[q] = goalPc[q] \/ goalPc[q] \in BoundPc
      BY <1>0, <2>2
    <2> QED
      BY <1>1, <2>1, <2>5, <2>6
  <1>5. ASSUME NEW r \in RosGoals, CancelCalled(r) \/ CancelTask(r) \/ ExecTask(r), ~ExecReturn(r)
        PROVE  byRos'[q] # NoGoal
    <2>1. UNCHANGED <<byRos, closePc, goalPc>>
      BY <1>5
         DEF CancelCalled, CancelTask, CancelBegin, CancelRefused, CancelSend, CancelSendFails,
             CancelWaitReturns, CancelAnswer, ExecTask, ExecStart, ExecAborts, ExecWake
    <2>2. \/ UNCHANGED execPc
          \/ execPc[r] # "returned" /\ \E pc : execPc' = [execPc EXCEPT ![r] = pc]
      BY <1>5
         DEF CancelCalled, CancelTask, CancelBegin, CancelRefused, CancelSend, CancelSendFails,
             CancelWaitReturns, CancelAnswer, ExecTask, ExecStart, ExecAborts, ExecWake
    <2> QED
      BY <1>0, <1>1, <2>1, <2>2
  <1>6. ASSUME PollTake \/ PollWork \/ PollFlush PROVE byRos'[q] # NoGoal
    BY <1>1, <1>6, PollFrame
  <1>7. ASSUME Close PROVE byRos'[q] # NoGoal
    BY <1>0, <1>7, CloseFrame
  <1>8. ASSUME NEW h \in HakGoals, HakSide(h) PROVE byRos'[q] # NoGoal
    BY <1>1, <1>8, HakFrame
  <1>9. CASE UNCHANGED vars
    BY <1>1, <1>9 DEF vars
  <1> QED
    BY <1>2, <1>3, <1>4, <1>5, <1>6, <1>7, <1>8, <1>9 DEF Next, HakSide, GoalTask, ExecTask

\* The future of a goal is done, and its execute task goes on, only after the goal has ended.
LEMMA ResultGivenStep ==
    ASSUME TypeOK, PairingInv, EventsTrue, HandleFollows, ResultGiven, [Next]_vars
    PROVE  ResultGiven'
  <1> DEFINE Given(q) ==
                 /\ boundTo[q] # NoGoal /\ goalPc[q] # "bound" /\ completion[boundTo[q]] = "done"
                        => ros[q] \in Terminal
                 /\ execPc[q] = "removing" => ros[q] \in Terminal
  <1> SUFFICES ASSUME NEW q \in RosGoals PROVE Given(q)'
    BY DEF ResultGiven
  <1>0. /\ goalPc \in [RosGoals -> GoalPc] /\ boundTo \in [RosGoals -> HakGoals \cup {NoGoal}]
        /\ execPc \in [RosGoals -> {"none", "scheduled", "awaiting", "removing", "returned"}]
        /\ completion \in [HakGoals -> {"none", "pending", "done"}]
        /\ ros \in [RosGoals -> {"none", "accepted", "executing", "canceling"} \cup Terminal]
        /\ Given(q)
    BY DEF TypeOK, ResultGiven
  <1>1. ros[q] \in Terminal => ros'[q] \in Terminal
    BY HandleLife DEF HandleSteps, Terminal
  <1>2. boundTo[q] # NoGoal => boundTo[q] \in HakGoals
    BY BoundFacts
  <1>3. ASSUME UNCHANGED boundTo, goalPc'[q] # "bound" => goalPc[q] # "bound",
               \/ completion'[boundTo[q]] = "done" => completion[boundTo[q]] = "done"
               \/ boundTo[q] = NoGoal
               \/ ros'[q] \in Terminal,
               execPc'[q] = "removing" => execPc[q] = "removing" \/ ros'[q] \in Terminal
        PROVE  Given(q)'
    BY <1>0, <1>1, <1>3
  <1>4. ASSUME UNCHANGED <<boundTo, goalPc, completion, execPc>> PROVE Given(q)'
    BY <1>3, <1>4
  <1>5. ASSUME NEW r \in RosGoals, NEW e \in Event, Delivered(r, e),
               UNCHANGED <<boundTo, goalPc, execPc>>
        PROVE  Given(q)'
    <2>1. CASE UNCHANGED <<ros, completion>>
      BY <1>4, <1>5, <2>1
    <2>2. CASE /\ e.status \in Terminal /\ ros' = [ros EXCEPT ![r] = e.status]
               /\ completion' = [completion EXCEPT ![boundTo[r]] = IF @ = "pending" THEN "done" ELSE @]
      <3>1. CASE q = r
        BY <1>0, <1>3, <1>5, <2>2, <3>1
      <3>2. CASE q # r
        <4>1. boundTo[q] # NoGoal => boundTo[q] # boundTo[r]
          BY <1>5, <3>2, BoundFacts DEF Delivered
        <4>2. boundTo[q] # NoGoal => completion'[boundTo[q]] = completion[boundTo[q]]
          BY <1>0, <1>2, <2>2, <4>1
        <4> QED
          BY <1>3, <1>5, <4>2
      <3> QED
        BY <3>1, <3>2
    <2> QED
      BY <1>5, <2>1, <2>2, DeliverEffect DEF Delivered
  <1>6. ASSUME NEW r \in RosGoals, BindRosAccepted(r) PROVE Given(q)'
    <2>1. /\ boundTo' = [boundTo EXCEPT ![r] = Head(acceptedOrder[ActionOf[r]])]
          /\ goalPc' = [goalPc EXCEPT ![r] = "bound"]
          /\ UNCHANGED <<completion, execPc>>
      BY <1>6 DEF BindRosAccepted
    <2> QED
      BY <1>0, <1>1, <2>1
  <1>7. ASSUME NEW r \in RosGoals, CollectEarly(r) PROVE Given(q)'
    <2>1. /\ completion' = [completion EXCEPT ![boundTo[r]] = "pending"]
          /\ goalPc' = [goalPc EXCEPT ![r] = "collected"] /\ goalPc[r] = "bound"
          /\ UNCHANGED <<boundTo, execPc>>
      BY <1>7 DEF CollectEarly
    <2>2. boundTo[r] \in HakGoals
      BY <2>1, BoundFacts DEF BoundPc
    <2>3. completion'[boundTo[r]] = "pending" /\ \A g \in HakGoals \ {boundTo[r]} : completion'[g] = completion[g]
      BY <1>0, <2>1, <2>2
    <2> QED
      BY <1>0, <1>1, <1>2, <2>1, <2>3
  <1>8. ASSUME NEW r \in RosGoals, GoalTask(r) PROVE Given(q)'
    <2>1. CASE DeliverEarly(r)
      BY <1>5, <2>1, DeliverEarlyEvent DEF DeliverEarly
    <2>2. ASSUME ~DeliverEarly(r), ~BindRosAccepted(r), ~CollectEarly(r) PROVE Given(q)'
      <3>1. UNCHANGED <<boundTo, completion>>
        BY <1>8, <2>2
           DEF GoalTask, GoalSend, GoalSendFails, GoalWaitReturns, GoalReject, GoalAccept,
               BindFails, ExecuteGoal, AcceptedReturns
      <3>2. goalPc[r] # "bound" /\ \E pc \in GoalPc : goalPc' = [goalPc EXCEPT ![r] = pc]
        BY <1>8, <2>2
           DEF GoalTask, GoalSend, GoalSendFails, GoalWaitReturns, GoalReject, GoalAccept,
               BindFails, ExecuteGoal, AcceptedReturns, GoalPc
      <3>3. UNCHANGED execPc \/ execPc' = [execPc EXCEPT ![r] = "scheduled"]
        BY <1>8, <2>2
           DEF GoalTask, GoalSend, GoalSendFails, GoalWaitReturns, GoalReject, GoalAccept,
               BindFails, ExecuteGoal, AcceptedReturns
      <3>4. execPc'[q] = "removing" => execPc[q] = "removing"
        BY <1>0, <3>3
      <3>5. goalPc'[q] # "bound" => goalPc[q] # "bound"
        BY <1>0, <3>2
      <3> QED
        BY <1>3, <3>1, <3>4, <3>5
    <2> QED
      BY <1>6, <1>7, <2>1, <2>2
  <1>9. ASSUME NEW r \in RosGoals, NEW h \in HakGoals, GoalBegin(r, h) PROVE Given(q)'
    <2>1. /\ goalPc[r] = "none" /\ goalPc' = [goalPc EXCEPT ![r] = "sending"]
          /\ UNCHANGED <<boundTo, completion, execPc>>
      BY <1>9 DEF GoalBegin
    <2>2. goalPc'[q] # "bound" => goalPc[q] # "bound"
      BY <1>0, <2>1
    <2> QED
      BY <1>3, <2>1, <2>2
  <1>10. ASSUME NEW r \in RosGoals, ExecTask(r) PROVE Given(q)'
    <2>1. CASE ExecWake(r)
      <3>1. /\ execPc' = [execPc EXCEPT ![r] = "removing"] /\ completion[boundTo[r]] = "done"
            /\ completion' = [completion EXCEPT ![boundTo[r]] = "none"] /\ execPc[r] = "awaiting"
            /\ UNCHANGED <<boundTo, goalPc>>
        BY <2>1 DEF ExecWake, FutureDone
      <3>2. goalPc[r] \in {"delivering", "accepted"} /\ boundTo[r] # NoGoal
        BY <3>1, BoundFacts DEF BoundPc
      <3>3. execPc'[q] = "removing" => execPc[q] = "removing" \/ ros'[q] \in Terminal
        BY <1>0, <1>1, <3>1, <3>2
      <3>4. boundTo[q] # NoGoal => (completion'[boundTo[q]] = "done" => completion[boundTo[q]] = "done")
        BY <1>0, <1>2, <3>1
      <3> QED
        BY <1>3, <3>1, <3>3, <3>4
    <2>2. CASE ExecStart(r) \/ ExecAborts(r) \/ ExecReturn(r)
      <3>1. UNCHANGED <<boundTo, goalPc, completion>>
            /\ \E pc \in {"awaiting", "returned"} : execPc' = [execPc EXCEPT ![r] = pc]
        BY <2>2 DEF ExecStart, ExecAborts, ExecReturn
      <3>2. execPc'[q] = "removing" => execPc[q] = "removing"
        BY <1>0, <3>1
      <3> QED
        BY <1>3, <3>1, <3>2
    <2> QED
      BY <1>10, <2>1, <2>2 DEF ExecTask
  <1>11. ASSUME NEW r \in RosGoals, CancelCalled(r) \/ CancelTask(r) PROVE Given(q)'
    BY <1>4, <1>11
       DEF CancelCalled, CancelTask, CancelBegin, CancelRefused, CancelSend, CancelSendFails,
           CancelWaitReturns, CancelAnswer
  <1>12. ASSUME PollTake \/ PollWork \/ PollFlush PROVE Given(q)'
    <2>1. CASE PollDeliver
      BY <1>5, <1>12, <2>1, PollDeliverEvent, PollFrame
    <2>2. ASSUME ~PollDeliver PROVE UNCHANGED completion
      BY <1>12, <2>2
         DEF PollTake, PollWork, PollFlush, PollGoalResponse, PollCancelResponse, PollError,
             PollDelivery, PollFind, PollEarly, PollDefer
    <2> QED
      BY <1>4, <1>12, <2>1, <2>2, PollFrame
  <1>13. ASSUME Close PROVE Given(q)'
    BY <1>4, <1>13, CloseFrame
  <1>14. ASSUME NEW h \in HakGoals, HakSide(h) PROVE Given(q)'
    BY <1>4, <1>14, HakFrame
  <1>15. CASE UNCHANGED vars
    BY <1>4, <1>15 DEF vars
  <1> HIDE DEF Given
  <1> QED
    BY <1>8, <1>9, <1>10, <1>11, <1>12, <1>13, <1>14, <1>15 DEF Next, HakSide

-----------------------------------------------------------------------------
Deciding   == {"sending", "waiting", "woken", "timedOut"}
Canceling  == {"sending", "waiting", "woken"}

\* A goal decision is registered and dropped by the callback that waits for it.
LEMMA GoalDecisionsStep ==
    ASSUME TypeOK, PairingInv, DecisionsAwaited, [Next]_vars, NEW h \in HakGoals
    PROVE  goalDecisions'[h] # "absent" =>
               \E r \in RosGoals : goalId'[r] = h /\ goalPc'[r] \in Deciding
  <1> DEFINE Awaited == goalDecisions[h] # "absent" =>
                            \E r \in RosGoals : goalId[r] = h /\ goalPc[r] \in Deciding
  <1> SUFFICES Awaited'
    OBVIOUS
  <1>0. /\ goalPc \in [RosGoals -> GoalPc] /\ goalId \in [RosGoals -> HakGoals \cup {NoGoal}]
        /\ goalDecisions \in [HakGoals -> Decision] /\ Awaited
    BY DEF TypeOK, DecisionsAwaited, Deciding
  <1>1. ASSUME goalDecisions'[h] # "absent" => goalDecisions[h] # "absent",
               \A r \in RosGoals : goalId[r] = h /\ goalPc[r] \in Deciding
                                      => goalId'[r] = h /\ goalPc'[r] \in Deciding
        PROVE  Awaited'
    BY <1>0, <1>1
  <1>2. ASSUME UNCHANGED <<goalDecisions, goalPc, goalId>> PROVE Awaited'
    BY <1>1, <1>2
  <1>3. ASSUME NEW r \in RosGoals, NEW g \in HakGoals, GoalBegin(r, g) PROVE Awaited'
    <2>1. /\ goalPc' = [goalPc EXCEPT ![r] = "sending"] /\ goalPc[r] = "none"
          /\ goalId' = [goalId EXCEPT ![r] = g]
          /\ goalDecisions' = [goalDecisions EXCEPT ![g] = "pending"]
      BY <1>3 DEF GoalBegin
    <2>2. CASE g = h
      BY <1>0, <2>1, <2>2 DEF Deciding
    <2>3. CASE g # h
      BY <1>0, <1>1, <2>1, <2>3 DEF Deciding
    <2> QED
      BY <2>2, <2>3
  <1>4. ASSUME NEW r \in RosGoals, GoalSend(r) \/ GoalWaitReturns(r) PROVE Awaited'
    <2>1. /\ \E pc \in Deciding : goalPc' = [goalPc EXCEPT ![r] = pc]
          /\ UNCHANGED <<goalId, goalDecisions>>
      BY <1>4 DEF GoalSend, GoalWaitReturns, Deciding
    <2> QED
      BY <1>0, <1>1, <2>1
  <1>5. ASSUME NEW r \in RosGoals, GoalSendFails(r) \/ GoalReject(r) \/ GoalAccept(r) PROVE Awaited'
    <2>1. /\ goalDecisions' = [goalDecisions EXCEPT ![goalId[r]] = "absent"] /\ UNCHANGED goalId
          /\ \E pc : goalPc' = [goalPc EXCEPT ![r] = pc]
      BY <1>5 DEF GoalSendFails, GoalReject, GoalAccept, Drop
    <2>2. CASE goalId[r] = h
      BY <1>0, <2>1, <2>2
    <2>3. CASE goalId[r] # h
      BY <1>0, <1>1, <2>1, <2>3
    <2> QED
      BY <2>2, <2>3
  <1>6. ASSUME NEW r \in RosGoals, \/ BindRosAccepted(r) \/ BindFails(r) \/ CollectEarly(r)
                                  \/ ExecuteGoal(r) \/ DeliverEarly(r) \/ AcceptedReturns(r)
        PROVE  Awaited'
    <2>1. UNCHANGED <<goalId, goalDecisions>> /\ goalPc[r] \notin Deciding
      BY <1>6 DEF BindRosAccepted, BindFails, CollectEarly, ExecuteGoal, DeliverEarly,
                  AcceptedReturns, Deciding
    <2>2. UNCHANGED goalPc \/ \E pc : goalPc' = [goalPc EXCEPT ![r] = pc]
      BY <1>6 DEF BindRosAccepted, BindFails, CollectEarly, ExecuteGoal, DeliverEarly, AcceptedReturns
    <2>3. \A q \in RosGoals : q # r => goalPc'[q] = goalPc[q]
      BY <1>0, <2>2
    <2> QED
      BY <1>1, <2>1, <2>3
  <1>7. ASSUME NEW r \in RosGoals, CancelCalled(r) \/ CancelTask(r) \/ ExecTask(r) PROVE Awaited'
    BY <1>2, <1>7
       DEF CancelCalled, CancelTask, CancelBegin, CancelRefused, CancelSend, CancelSendFails,
           CancelWaitReturns, CancelAnswer, ExecTask, ExecStart, ExecAborts, ExecWake, ExecReturn
  <1>8. ASSUME PollTake \/ PollWork \/ PollFlush PROVE Awaited'
    <2>1. \/ UNCHANGED goalDecisions
          \/ \E e \in Event : goalDecisions' = [goalDecisions EXCEPT ![e.goal] = Resolve(@, e.accepted)]
          \/ \E e \in Event : goalDecisions' = [goalDecisions EXCEPT ![e.goal] = Complete(@)]
      BY <1>8
         DEF PollTake, PollWork, PollFlush, PollGoalResponse, PollCancelResponse, PollError,
             PollDelivery, PollFind, PollEarly, PollDefer, PollDeliver
    <2>2. goalDecisions'[h] # "absent" => goalDecisions[h] # "absent"
      BY <1>0, <2>1 DEF Resolve, Complete
    <2> QED
      BY <1>1, <1>8, <2>2, PollFrame
  <1>9. ASSUME Close PROVE Awaited'
    <2>1. goalDecisions'[h] # "absent" => goalDecisions[h] # "absent"
      BY <1>9 DEF Close, CloseStop, CloseDecisions, CloseJoin, CloseClear, Complete
    <2> QED
      BY <1>1, <1>9, <2>1, CloseFrame
  <1>10. ASSUME NEW g \in HakGoals, HakSide(g) PROVE Awaited'
    BY <1>2, <1>10, HakFrame
  <1>11. CASE UNCHANGED vars
    BY <1>2, <1>11 DEF vars
  <1> HIDE DEF Awaited
  <1> QED
    BY <1>3, <1>4, <1>5, <1>6, <1>7, <1>8, <1>9, <1>10, <1>11 DEF Next, HakSide, GoalTask

\* A cancel decision is registered and dropped by the callback that waits for it.
LEMMA CancelDecisionsStep ==
    ASSUME TypeOK, PairingInv, DecisionsAwaited, [Next]_vars, NEW h \in HakGoals
    PROVE  cancelDecisions'[h] # "absent" =>
               \E r \in RosGoals : boundTo'[r] = h /\ cancelPc'[r] \in Canceling
  <1> DEFINE Awaited == cancelDecisions[h] # "absent" =>
                            \E r \in RosGoals : boundTo[r] = h /\ cancelPc[r] \in Canceling
  <1> SUFFICES Awaited'
    OBVIOUS
  <1>0. /\ cancelPc \in [RosGoals -> {"idle", "called", "sending", "waiting", "woken"}]
        /\ boundTo \in [RosGoals -> HakGoals \cup {NoGoal}] /\ NoGoal \notin HakGoals
        /\ cancelDecisions \in [HakGoals -> Decision] /\ Awaited
    BY ActionServerAssumption DEF TypeOK, DecisionsAwaited, Canceling
  <1>1. ASSUME cancelDecisions'[h] # "absent" => cancelDecisions[h] # "absent",
               \A r \in RosGoals : boundTo[r] = h /\ cancelPc[r] \in Canceling
                                      => boundTo'[r] = h /\ cancelPc'[r] \in Canceling
        PROVE  Awaited'
    BY <1>0, <1>1
  <1>2. ASSUME UNCHANGED <<cancelDecisions, cancelPc, boundTo>> PROVE Awaited'
    BY <1>1, <1>2
  <1>3. ASSUME NEW r \in RosGoals, (\E g \in HakGoals : GoalBegin(r, g)) \/ GoalTask(r) PROVE Awaited'
    <2>1. CASE BindRosAccepted(r)
      <3>1. /\ boundTo' = [boundTo EXCEPT ![r] = Head(acceptedOrder[ActionOf[r]])]
            /\ UNCHANGED <<cancelDecisions, cancelPc>>
        BY <2>1 DEF BindRosAccepted
      <3>2. boundTo[r] = NoGoal
        BY <2>1 DEF BindRosAccepted, PairingInv, BoundWhenBound, BoundPc
      <3> QED
        BY <1>0, <1>1, <3>1, <3>2
    <2> QED
      BY <1>2, <1>3, <2>1
         DEF GoalBegin, GoalTask, GoalSend, GoalSendFails, GoalWaitReturns, GoalReject, GoalAccept,
             BindFails, CollectEarly, ExecuteGoal, DeliverEarly, AcceptedReturns
  <1>4. ASSUME NEW r \in RosGoals, CancelBegin(r) PROVE Awaited'
    <2>1. /\ cancelPc' = [cancelPc EXCEPT ![r] = "sending"] /\ UNCHANGED boundTo
          /\ cancelDecisions' = [cancelDecisions EXCEPT ![byRos[r]] = "pending"]
          /\ byRos[r] # NoGoal
      BY <1>4 DEF CancelBegin
    <2>2. boundTo[r] = byRos[r]
      BY <2>1, BoundFacts
    <2>3. CASE boundTo[r] = h
      BY <1>0, <2>1, <2>3 DEF Canceling
    <2>4. CASE boundTo[r] # h
      BY <1>0, <1>1, <2>1, <2>2, <2>4
    <2> QED
      BY <2>3, <2>4
  <1>5. ASSUME NEW r \in RosGoals, CancelSend(r) \/ CancelWaitReturns(r) PROVE Awaited'
    <2>1. /\ \E pc \in Canceling : cancelPc' = [cancelPc EXCEPT ![r] = pc]
          /\ UNCHANGED <<boundTo, cancelDecisions>>
      BY <1>5 DEF CancelSend, CancelWaitReturns, Canceling
    <2> QED
      BY <1>0, <1>1, <2>1
  <1>6. ASSUME NEW r \in RosGoals, CancelSendFails(r) \/ CancelAnswer(r) PROVE Awaited'
    <2>1. /\ cancelDecisions' = [cancelDecisions EXCEPT ![boundTo[r]] = "absent"]
          /\ UNCHANGED boundTo /\ cancelPc' = [cancelPc EXCEPT ![r] = "idle"]
      BY <1>6 DEF CancelSendFails, CancelAnswer, Drop
    <2>2. CASE boundTo[r] = h
      BY <1>0, <2>1, <2>2
    <2>3. CASE boundTo[r] # h
      BY <1>0, <1>1, <2>1, <2>3
    <2> QED
      BY <2>2, <2>3
  <1>7. ASSUME NEW r \in RosGoals, CancelCalled(r) \/ CancelRefused(r) PROVE Awaited'
    <2>1. cancelPc[r] \notin Canceling
      BY <1>7 DEF CancelCalled, GroupFree, InCancelTask, CancelRefused, Canceling
    <2>2. /\ UNCHANGED <<boundTo, cancelDecisions>>
          /\ \E pc : cancelPc' = [cancelPc EXCEPT ![r] = pc]
      BY <1>7 DEF CancelCalled, CancelRefused
    <2> QED
      BY <1>0, <1>1, <2>1, <2>2
  <1>8. ASSUME NEW r \in RosGoals, ExecTask(r) PROVE Awaited'
    BY <1>2, <1>8 DEF ExecTask, ExecStart, ExecAborts, ExecWake, ExecReturn
  <1>9. ASSUME PollTake \/ PollWork \/ PollFlush PROVE Awaited'
    <2>1. \/ UNCHANGED cancelDecisions
          \/ \E e \in Event : cancelDecisions' = [cancelDecisions EXCEPT ![e.goal] = Resolve(@, e.accepted)]
          \/ \E e \in Event : cancelDecisions' = [cancelDecisions EXCEPT ![e.goal] = Complete(@)]
      BY <1>9
         DEF PollTake, PollWork, PollFlush, PollGoalResponse, PollCancelResponse, PollError,
             PollDelivery, PollFind, PollEarly, PollDefer, PollDeliver, WokenBy
    <2>2. cancelDecisions'[h] # "absent" => cancelDecisions[h] # "absent"
      BY <1>0, <2>1 DEF Resolve, Complete
    <2> QED
      BY <1>1, <1>9, <2>2, PollFrame
  <1>10. ASSUME Close PROVE Awaited'
    <2>1. cancelDecisions'[h] # "absent" => cancelDecisions[h] # "absent"
      BY <1>10 DEF Close, CloseStop, CloseDecisions, CloseJoin, CloseClear, Complete
    <2> QED
      BY <1>1, <1>10, <2>1, CloseFrame
  <1>11. ASSUME NEW g \in HakGoals, HakSide(g) PROVE Awaited'
    BY <1>2, <1>11, HakFrame
  <1>12. CASE UNCHANGED vars
    BY <1>2, <1>12 DEF vars
  <1> HIDE DEF Awaited
  <1> QED
    BY <1>3, <1>4, <1>5, <1>6, <1>7, <1>8, <1>9, <1>10, <1>11, <1>12 DEF Next, HakSide, CancelTask

\* Every step keeps DecisionsAwaited.
LEMMA DecisionsAwaitedStep ==
    ASSUME TypeOK, PairingInv, DecisionsAwaited, [Next]_vars
    PROVE  DecisionsAwaited'
  BY GoalDecisionsStep, CancelDecisionsStep DEF DecisionsAwaited, Deciding, Canceling

-----------------------------------------------------------------------------
\* The strengthened invariant is inductive.
LEMMA RelayStep == TypeOK /\ PairingInv /\ RelayInv /\ [Next]_vars => (TypeOK /\ PairingInv /\ RelayInv)'
  <1> SUFFICES ASSUME TypeOK, PairingInv, RelayInv, [Next]_vars PROVE (TypeOK /\ PairingInv /\ RelayInv)'
    OBVIOUS
  <1>1. /\ SentOnce /\ EventsTrue /\ DecisionsTrue /\ HandleFollows /\ Mapped /\ ResultGiven
        /\ DecisionsAwaited
    BY DEF RelayInv
  <1>2. (TypeOK /\ PairingInv)'
    BY PairingStep
  <1>3. SentOnce' /\ EventsTrue' /\ DecisionsTrue'
    BY <1>1, SentOnceStep, EventsTrueStep, DecisionsTrueStep
  <1>4. HandleFollows' /\ Mapped' /\ ResultGiven' /\ DecisionsAwaited'
    BY <1>1, HandleFollowsStep, MappedStep, ResultGivenStep, DecisionsAwaitedStep
  <1> QED
    BY <1>2, <1>3, <1>4 DEF RelayInv

\* It holds of the initial state.
LEMMA RelayInit == Init => RelayInv
  <1> SUFFICES ASSUME Init PROVE RelayInv
    OBVIOUS
  <1>1. \A S : <<>> \in Seq(S)
    OBVIOUS
  <1>2. SentOnce /\ DecisionsTrue /\ DecisionsAwaited
    BY DEF Init, SentOnce, DecisionsTrue, DecisionsAwaited
  <1>3. EventsTrue
    BY <1>1 DEF Init, EventsTrue
  <1>4. HandleFollows /\ Mapped /\ ResultGiven
    BY DEF Init, HandleFollows, Mapped, ResultGiven, BoundPc
  <1> QED
    BY <1>2, <1>3, <1>4 DEF RelayInv

\* What the node has learned of the Hakoniwa goals is true, in every reachable state.
LEMMA RelayInvariant == Spec => [](TypeOK /\ PairingInv /\ RelayInv)
  BY PairingInit, RelayInit, RelayStep, PTL DEF Spec

\* Whatever _goal_decisions and _cancel_decisions hold is awaited by a callback, on every way
\* out of goal_callback and cancel_callback, for any number of goals and through a shutdown.
THEOREM DecisionsAwaitedHolds == Spec => []DecisionsAwaited
  <1>1. RelayInv => DecisionsAwaited
    BY DEF RelayInv
  <1> QED
    BY <1>1, RelayInvariant, PTL

\* Until the node closes, remove_by_hakoniwa and the rest of the code take a context out of the
\* registry only when its ROS goal has reached a terminal state.
THEOREM ContextOutlivesGoalHolds == Spec => ContextOutlivesGoal
  <1> DEFINE Outlives == \A h \in HakGoals :
                            byHakoniwa[h] \in RosGoals /\ byHakoniwa'[h] = "absent" =>
                                ros[byHakoniwa[h]] \in Terminal \/ closePc' = "closed"
  <1>1. ASSUME TypeOK, PairingInv, RelayInv, [Next]_vars PROVE Outlives
    <2> SUFFICES ASSUME NEW h \in HakGoals, NEW q \in RosGoals, byHakoniwa[h] = q,
                        byHakoniwa'[h] = "absent"
                 PROVE  ros[q] \in Terminal \/ closePc' = "closed"
      OBVIOUS
    <2>0. "absent" \notin RosGoals /\ byHakoniwa \in [HakGoals -> RosGoals \cup {"absent", "unbound"}]
      BY <1>1, ActionServerAssumption DEF TypeOK
    <2>1. ASSUME NEW r \in RosGoals, ExecReturn(r) PROVE ros[q] \in Terminal
      <3>1. execPc[r] = "removing" /\ byHakoniwa' = [byHakoniwa EXCEPT ![boundTo[r]] = "absent"]
        BY <2>1 DEF ExecReturn
      <3>2. h = boundTo[r] /\ h # NoGoal
        BY <2>0, <3>1, ActionServerAssumption
      <3>3. boundTo[q] = h
        BY <1>1, <3>2, BoundFacts DEF PairingInv, IndexesAgree
      <3>4. q = r
        BY <1>1, <3>2, <3>3, BoundFacts
      <3> QED
        BY <3>1, <3>4, <1>1 DEF RelayInv, ResultGiven
    <2>2. ASSUME NEW r \in RosGoals, (\E g \in HakGoals : GoalBegin(r, g)) \/ GoalTask(r)
          PROVE  FALSE
      <3>1. \/ UNCHANGED byHakoniwa
            \/ byHakoniwa' = [byHakoniwa EXCEPT ![goalId[r]] = "unbound"]
            \/ byHakoniwa' = [byHakoniwa EXCEPT ![Head(acceptedOrder[ActionOf[r]])] = r]
        BY <2>2
           DEF GoalBegin, GoalTask, GoalSend, GoalSendFails, GoalWaitReturns, GoalReject, GoalAccept,
               BindRosAccepted, BindFails, CollectEarly, ExecuteGoal, DeliverEarly, AcceptedReturns
      <3> QED
        BY <2>0, <3>1
    <2>3. ASSUME NEW r \in RosGoals, CancelCalled(r) \/ CancelTask(r) \/ (ExecTask(r) /\ ~ExecReturn(r))
          PROVE  UNCHANGED byHakoniwa
      BY <2>3
         DEF CancelCalled, CancelTask, CancelBegin, CancelRefused, CancelSend, CancelSendFails,
             CancelWaitReturns, CancelAnswer, ExecTask, ExecStart, ExecAborts, ExecWake
    <2>4. CASE PollTake \/ PollWork \/ PollFlush
      BY <2>0, <2>4, PollFrame
    <2>5. CASE Close
      BY <2>0, <2>5, CloseFrame
    <2>6. ASSUME NEW g \in HakGoals, HakSide(g) PROVE UNCHANGED byHakoniwa
      BY <1>1, <2>6, HakFrame
    <2>7. CASE UNCHANGED vars
      BY <2>0, <2>7 DEF vars
    <2> QED
      BY <1>1, <2>0, <2>1, <2>2, <2>3, <2>4, <2>5, <2>6, <2>7 DEF Next, HakSide
  <1>2. TypeOK /\ PairingInv /\ RelayInv /\ [Next]_vars => [Outlives]_vars
    BY <1>1
  <1> QED
    BY <1>2, RelayInvariant, PTL DEF Spec, ContextOutlivesGoal

-----------------------------------------------------------------------------
\* The initial states of the node are initial states of the relay.
LEMMA RefinementInit == Init => Relay!Init
  BY DEF Init, Relay!Init

\* A delivery finishes the goal with the status of its Hakoniwa goal, or changes no status.
LEMMA DeliveryFinishes ==
    ASSUME TypeOK, PairingInv, RelayInv, NEW r \in RosGoals, NEW e \in Event, Delivered(r, e),
           UNCHANGED <<goalId, hak, cancelAccepted, closePc>>
    PROVE  [Relay!Next]_(Relay!vars)
  <1>1. CASE UNCHANGED ros
    BY <1>1 DEF Relay!vars
  <1>2. CASE /\ IsResult(e) /\ e.status \in Terminal /\ MayTerminate(ros[r], e.status)
             /\ ros' = [ros EXCEPT ![r] = e.status]
    <2>1. ros[r] \in {"executing", "canceling"}
      BY <1>2 DEF MayTerminate
    <2>2. hak[goalId[r]] = e.status
      BY <1>2, BoundFacts DEF Delivered, TrueOf, TrueEvents, BoundPc
    <2>3. Relay!RosFinish(r)
      BY <1>2, <2>1, <2>2 DEF Relay!RosFinish, Relay!Ended, Terminal
    <2> QED
      BY <2>3 DEF Relay!Next
  <1> QED
    BY <1>1, <1>2, DeliverEffect DEF Delivered

\* Every step of the node is a step of the relay, or leaves it alone.
LEMMA RefinementStep ==
    ASSUME TypeOK, PairingInv, RelayInv, [Next]_vars
    PROVE  [Relay!Next]_(Relay!vars)
  <1>0. /\ ros \in [RosGoals -> {"none", "accepted", "executing", "canceling"} \cup Terminal]
        /\ SentOnce /\ EventsTrue /\ DecisionsTrue /\ HandleFollows /\ Mapped
    BY DEF TypeOK, RelayInv
  <1>1. ASSUME UNCHANGED <<goalId, ros, hak, cancelAccepted, closePc>> PROVE [Relay!Next]_(Relay!vars)
    BY <1>1 DEF Relay!vars
  <1>2. ASSUME NEW r \in RosGoals, NEW h \in HakGoals, GoalBegin(r, h) PROVE Relay!Pair(r, h)
    <2>1. goalId[r] = NoGoal
      BY <1>2 DEF GoalBegin, PairingInv, GoalIdsDistinct
    <2> QED
      BY <1>2, <2>1 DEF GoalBegin, Relay!Pair
  <1>3. ASSUME NEW r \in RosGoals, GoalSend(r) PROVE \E h \in HakGoals : Relay!HakStep(h)
    <2>1. goalId[r] \in HakGoals /\ hak[goalId[r]] = "none"
      BY <1>0, <1>3, BoundFacts DEF GoalSend, SentOnce
    <2> QED
      BY <1>3, <2>1 DEF GoalSend, Relay!HakStep
  <1>4. ASSUME NEW r \in RosGoals, BindRosAccepted(r) \/ BindFails(r) PROVE Relay!RosAccept(r)
    <2>1. /\ goalPc[r] = "registered" /\ ros' = [ros EXCEPT ![r] = "accepted"]
          /\ UNCHANGED <<goalId, hak, cancelAccepted, closePc>>
      BY <1>4 DEF BindRosAccepted, BindFails
    <2>2. ros[r] = "none" /\ goalId[r] # NoGoal /\ hak[goalId[r]] \in {"executing"} \cup Terminal
      BY <1>0, <2>1, BoundFacts DEF HandleFollows, Running
    <2> QED
      BY <2>1, <2>2 DEF Relay!RosAccept, Relay!Ended, Terminal
  <1>5. ASSUME NEW r \in RosGoals, ExecuteGoal(r) PROVE Relay!RosExecute(r)
    <2>1. ros[r] = "accepted"
      BY <1>0, <1>5 DEF ExecuteGoal, HandleFollows
    <2> QED
      BY <1>5, <2>1 DEF ExecuteGoal, Relay!RosExecute
  <1>6. ASSUME NEW r \in RosGoals, (\E h \in HakGoals : GoalBegin(r, h)) \/ GoalTask(r)
        PROVE  [Relay!Next]_(Relay!vars)
    <2>1. CASE DeliverEarly(r)
      BY <1>0, <2>1, DeliverEarlyEvent, DeliveryFinishes DEF DeliverEarly
    <2>2. CASE \/ GoalSendFails(r) \/ GoalWaitReturns(r) \/ GoalReject(r) \/ GoalAccept(r)
               \/ CollectEarly(r) \/ AcceptedReturns(r)
      BY <1>1, <2>2 DEF GoalSendFails, GoalWaitReturns, GoalReject, GoalAccept, CollectEarly,
                        AcceptedReturns
    <2> QED
      BY <1>2, <1>3, <1>4, <1>5, <1>6, <2>1, <2>2 DEF GoalTask, Relay!Next
  <1>7. ASSUME NEW r \in RosGoals, CancelAnswer(r) PROVE [Relay!Next]_(Relay!vars)
    <2>0. UNCHANGED <<goalId, hak, cancelAccepted, closePc>>
      BY <1>7 DEF CancelAnswer
    <2>1. CASE cancelDecisions[boundTo[r]] = "yes" /\ ros[r] = "executing"
      <3>1. boundTo[r] = goalId[r] /\ boundTo[r] \in HakGoals
        BY <1>7, BoundFacts DEF CancelAnswer
      <3>2. goalId[r] \in cancelAccepted
        BY <1>0, <2>1, <3>1 DEF DecisionsTrue
      <3>3. ros' = [ros EXCEPT ![r] = "canceling"]
        BY <1>7, <2>1 DEF CancelAnswer
      <3>4. Relay!RosCancel(r)
        BY <2>0, <2>1, <3>2, <3>3 DEF Relay!RosCancel
      <3> QED
        BY <3>4 DEF Relay!Next
    <2>2. CASE ~(cancelDecisions[boundTo[r]] = "yes" /\ ros[r] = "executing")
      <3>1. ros' = ros
        BY <1>0, <1>7, <2>2 DEF CancelAnswer
      <3> QED
        BY <1>1, <2>0, <3>1
    <2> QED
      BY <2>1, <2>2
  <1>8. ASSUME NEW r \in RosGoals, ExecAborts(r) PROVE [Relay!Next]_(Relay!vars)
    <2>0. UNCHANGED <<goalId, hak, cancelAccepted, closePc>>
      BY <1>8 DEF ExecAborts
    <2>1. closePc = "closed"
      BY <1>0, <1>8, BoundFacts DEF ExecAborts, Mapped, BoundPc
    <2>2. CASE ros[r] \in {"executing", "canceling"}
      <3>1. ros' = [ros EXCEPT ![r] = "aborted"]
        BY <1>8, <2>2 DEF ExecAborts, MayTerminate
      <3>2. Relay!RosFinish(r)
        BY <2>0, <2>1, <2>2, <3>1 DEF Relay!RosFinish
      <3> QED
        BY <3>2 DEF Relay!Next
    <2>3. CASE ros[r] \notin {"executing", "canceling"}
      <3>1. ros' = ros
        BY <1>0, <1>8, <2>3 DEF ExecAborts, MayTerminate
      <3> QED
        BY <1>1, <2>0, <3>1
    <2> QED
      BY <2>2, <2>3
  <1>9. ASSUME NEW r \in RosGoals, CancelCalled(r) \/ CancelTask(r) \/ ExecTask(r)
        PROVE  [Relay!Next]_(Relay!vars)
    BY <1>1, <1>7, <1>8, <1>9
       DEF CancelCalled, CancelTask, CancelBegin, CancelRefused, CancelSend, CancelSendFails,
           CancelWaitReturns, ExecTask, ExecStart, ExecWake, ExecReturn
  <1>10. ASSUME PollTake \/ PollWork \/ PollFlush PROVE [Relay!Next]_(Relay!vars)
    <2>0. UNCHANGED <<goalId, hak, cancelAccepted, closePc>>
      BY <1>10, PollFrame
    <2>1. CASE PollDeliver
      BY <1>0, <2>0, <2>1, PollDeliverEvent, DeliveryFinishes
    <2>2. ASSUME ~PollDeliver PROVE UNCHANGED ros
      BY <1>10, <2>2
         DEF PollTake, PollWork, PollFlush, PollGoalResponse, PollCancelResponse, PollError,
             PollDelivery, PollFind, PollEarly, PollDefer
    <2> QED
      BY <1>1, <2>0, <2>1, <2>2
  <1>11. ASSUME Close PROVE [Relay!Next]_(Relay!vars)
    <2>1. UNCHANGED <<goalId, ros, hak, cancelAccepted>> /\ closePc # "closed"
      BY <1>11, CloseFrame
    <2>2. CASE closePc' = "closed"
      BY <2>1, <2>2 DEF Relay!Next, Relay!GoDown
    <2>3. CASE closePc' # "closed"
      BY <2>1, <2>3 DEF Relay!vars
    <2> QED
      BY <2>2, <2>3
  <1>12. ASSUME NEW h \in HakGoals, HakSide(h) PROVE [Relay!Next]_(Relay!vars)
    <2>0. UNCHANGED <<goalId, ros, closePc>>
      BY <1>12, HakFrame
    <2>1. CASE HakGoalAnswer(h)
      <3>1. Relay!HakStep(h)
        BY <2>0, <2>1 DEF HakGoalAnswer, Relay!HakStep
      <3> QED
        BY <3>1 DEF Relay!Next
    <2>2. CASE HakFinish(h)
      <3>1. Relay!HakStep(h)
        BY <2>0, <2>2 DEF HakFinish, Relay!HakStep, Relay!Ended, Terminal
      <3> QED
        BY <3>1 DEF Relay!Next
    <2>3. CASE HakCancelAnswer(h)
      <3>1. PICK accept \in BOOLEAN :
                /\ hak[h] = "executing" /\ hak' = hak
                /\ cancelAccepted' = IF accept THEN cancelAccepted \cup {h} ELSE cancelAccepted
        BY <2>3 DEF HakCancelAnswer
      <3>2. CASE accept
        <4>1. Relay!HakStep(h)
          BY <2>0, <3>1, <3>2 DEF Relay!HakStep
        <4> QED
          BY <4>1 DEF Relay!Next
      <3>3. CASE ~accept
        BY <1>1, <2>0, <3>1, <3>3
      <3> QED
        BY <3>2, <3>3
    <2>4. CASE HakFeedback(h) \/ HakError(h)
      BY <1>1, <2>0, <2>4 DEF HakFeedback, HakError
    <2> QED
      BY <1>12, <2>1, <2>2, <2>3, <2>4 DEF HakSide
  <1>13. CASE UNCHANGED vars
    BY <1>1, <1>13 DEF vars
  <1> QED
    BY <1>6, <1>9, <1>10, <1>11, <1>12, <1>13 DEF Next, HakSide

\* The node implements the relay: however its callbacks, its execute tasks, the poll thread and
\* the shutdown interleave, a ROS goal is accepted, canceled and finished only after the
\* Hakoniwa goal it is paired with, with the same status, unless the node has been closed.
THEOREM RelayRefined == Spec => RelaySpec
  <1>1. TypeOK /\ PairingInv /\ RelayInv /\ [Next]_vars => [Relay!Next]_(Relay!vars)
    BY RefinementStep
  <1> QED
    BY <1>1, RefinementInit, RelayInvariant, PTL DEF Spec, RelaySpec, Relay!Spec

-----------------------------------------------------------------------------
(***************************************************************************)
(* The answer to a cancel request.  Without a fault and before a shutdown, *)
(* what Hakoniwa has accepted is in one of three places: an answer in the  *)
(* event queue, the decision of the callback that waits for it, or the     *)
(* reply of that callback.                                                 *)
(***************************************************************************)
Elements(s) == {s[i] : i \in 1 .. Len(s)}

IsAnswer(e, h) == e.kind = "CANCEL_RESPONSE" /\ e.goal = h
IsEnd(e, h)    == IsResult(e) /\ e.goal = h

\* The answers for h in the queue s.
Answers(s, h) == {e \in Elements(s) : IsAnswer(e, h)}

\* One answer at most, before the result of the goal.
AnswerFirst(s, h) ==
    \A i, j \in 1 .. Len(s) :
        IsAnswer(s[i], h) => (IsAnswer(s[j], h) => i = j) /\ (IsEnd(s[j], h) => i < j)

\* Only a goal that was accepted is asked to cancel.
AcceptedBeforeCancel == \A h \in cancelRequested : Running(h)

\* cancel_callback is called for a goal that is executing.
CancelCalls ==
    \A r \in RosGoals :
        cancelPc[r] # "idle" \/ cancelReply[r] # "none" =>
            goalPc[r] \in BoundPc /\ ros[r] \in {"executing", "canceling"} \cup Terminal

NoErrors == Undisturbed => \A e \in Elements(events) : e.kind # "ERROR"

Awaiting(r, h) == cancelPc[r] = "waiting" /\ cancelDecisions[h] = "pending"

AnswerOnItsWay(r, h) ==
    /\ h \in cancelAccepted <=>
          \/ \E e \in Answers(events, h) : e.accepted
          \/ cancelDecisions[h] = "yes"
          \/ cancelReply[r] = "ACCEPT"
    /\ Answers(events, h) # {} => Awaiting(r, h) /\ h \notin cancelRequested
    /\ AnswerFirst(events, h)
    /\ h \in cancelRequested /\ hak[h] = "executing" => Awaiting(r, h)
    /\ cancelReply[r] = "ACCEPT" => cancelPc[r] = "idle" /\ ros[r] \in {"canceling"} \cup Terminal
    /\ cancelPc[r] = "sending" /\ cancelDecisions[h] # "pending" => hak[h] \in Terminal
    /\ cancelDecisions[h] = "yes" => cancelPc[r] \in {"waiting", "woken"}

AnswerInv ==
    Undisturbed => \A r \in RosGoals : goalPc[r] # "none" => AnswerOnItsWay(r, goalId[r])

CancelInv == AcceptedBeforeCancel /\ CancelCalls /\ NoErrors /\ AnswerInv

\* A queue at its end and at its head.
LEMMA QueueAppend ==
    ASSUME NEW S, NEW s \in Seq(S), NEW e \in S
    PROVE  Elements(Append(s, e)) = Elements(s) \cup {e}
  <1>1. /\ Len(s) \in Nat /\ Len(Append(s, e)) = Len(s) + 1
        /\ \A i \in 1 .. Len(s) : Append(s, e)[i] = s[i]
        /\ Append(s, e)[Len(s) + 1] = e
    OBVIOUS
  <1>2. \A i : i \in 1 .. Len(s) + 1 <=> i \in 1 .. Len(s) \/ i = Len(s) + 1
    BY <1>1
  <1> QED
    BY <1>1, <1>2 DEF Elements

\* An answer that comes to a queue without another answer and without the result is first.
LEMMA AnswerAppend ==
    ASSUME NEW S, NEW s \in Seq(S), NEW e \in S, NEW h, AnswerFirst(s, h),
           IsAnswer(e, h) => \A x \in Elements(s) : ~IsAnswer(x, h) /\ ~IsEnd(x, h)
    PROVE  AnswerFirst(Append(s, e), h)
  <1>1. /\ Len(s) \in Nat /\ Len(Append(s, e)) = Len(s) + 1
        /\ \A i \in 1 .. Len(s) : Append(s, e)[i] = s[i]
        /\ Append(s, e)[Len(s) + 1] = e
    OBVIOUS
  <1>2. \A i : i \in 1 .. Len(s) + 1 <=> i \in 1 .. Len(s) \/ i = Len(s) + 1
    BY <1>1
  <1>3. \A i \in 1 .. Len(s) : s[i] \in Elements(s)
    BY DEF Elements
  <1>4. IsAnswer(e, h) => ~IsEnd(e, h)
    BY DEF IsAnswer, IsEnd, IsResult
  <1> SUFFICES ASSUME NEW i \in 1 .. Len(Append(s, e)), NEW j \in 1 .. Len(Append(s, e)),
                      IsAnswer(Append(s, e)[i], h)
               PROVE  /\ IsAnswer(Append(s, e)[j], h) => i = j
                      /\ IsEnd(Append(s, e)[j], h) => i < j
    BY DEF AnswerFirst
  <1>5. CASE i = Len(s) + 1
    BY <1>1, <1>2, <1>3, <1>4, <1>5
  <1>6. CASE i \in 1 .. Len(s) /\ j \in 1 .. Len(s)
    BY <1>1, <1>6 DEF AnswerFirst
  <1>7. CASE i \in 1 .. Len(s) /\ j = Len(s) + 1
    BY <1>1, <1>3, <1>7
  <1> QED
    BY <1>1, <1>2, <1>5, <1>6, <1>7

\* The head of the queue leaves it; an answer leaves no other behind, a result none at all.
LEMMA QueueHead ==
    ASSUME NEW S, NEW s \in Seq(S), s # <<>>
    PROVE  /\ Elements(s) = {Head(s)} \cup Elements(Tail(s))
           /\ \A h : AnswerFirst(s, h) =>
                  /\ AnswerFirst(Tail(s), h)
                  /\ IsAnswer(Head(s), h) => \A x \in Elements(Tail(s)) : ~IsAnswer(x, h)
                  /\ IsEnd(Head(s), h) => \A x \in Elements(s) : ~IsAnswer(x, h)
  <1>1. /\ Len(s) \in Nat \ {0} /\ Len(Tail(s)) = Len(s) - 1 /\ Head(s) = s[1]
        /\ \A i \in 1 .. Len(s) - 1 : Tail(s)[i] = s[i + 1]
    OBVIOUS
  <1>2. \A i \in 1 .. Len(s) : i = 1 \/ i - 1 \in 1 .. Len(s) - 1
    BY <1>1
  <1>3. \A i \in 1 .. Len(s) - 1 : i + 1 \in 1 .. Len(s)
    BY <1>1
  <1>4. \A x \in Elements(s) : x = Head(s) \/ x \in Elements(Tail(s))
    <2> SUFFICES ASSUME NEW i \in 1 .. Len(s) PROVE s[i] = Head(s) \/ s[i] \in Elements(Tail(s))
      BY DEF Elements
    <2>1. CASE i = 1
      BY <1>1, <2>1
    <2>2. CASE i - 1 \in 1 .. Len(s) - 1
      <3>1. s[i] = Tail(s)[i - 1]
        BY <1>1, <2>2
      <3> QED
        BY <1>1, <2>2, <3>1 DEF Elements
    <2> QED
      BY <1>2, <2>1, <2>2
  <1>5. \A x \in Elements(Tail(s)) : x \in Elements(s)
    BY <1>1, <1>3 DEF Elements
  <1>6. Head(s) \in Elements(s)
    BY <1>1 DEF Elements
  <1>7. ASSUME NEW h, AnswerFirst(s, h)
        PROVE  /\ AnswerFirst(Tail(s), h)
               /\ IsAnswer(Head(s), h) => \A x \in Elements(Tail(s)) : ~IsAnswer(x, h)
               /\ IsEnd(Head(s), h) => \A x \in Elements(s) : ~IsAnswer(x, h)
    <2>1. AnswerFirst(Tail(s), h)
      <3> SUFFICES ASSUME NEW i \in 1 .. Len(s) - 1, NEW j \in 1 .. Len(s) - 1, IsAnswer(s[i + 1], h)
                   PROVE  (IsAnswer(s[j + 1], h) => i = j) /\ (IsEnd(s[j + 1], h) => i < j)
        BY <1>1 DEF AnswerFirst
      <3>1. i + 1 \in 1 .. Len(s) /\ j + 1 \in 1 .. Len(s)
        BY <1>3
      <3>2. (IsAnswer(s[j + 1], h) => i + 1 = j + 1) /\ (IsEnd(s[j + 1], h) => i + 1 < j + 1)
        BY <1>7, <3>1 DEF AnswerFirst
      <3> QED
        BY <1>1, <3>2
    <2>2. ASSUME IsAnswer(Head(s), h), NEW i \in 1 .. Len(s) - 1 PROVE ~IsAnswer(s[i + 1], h)
      <3>1. 1 \in 1 .. Len(s) /\ i + 1 \in 1 .. Len(s) /\ i + 1 # 1
        BY <1>1, <1>3
      <3> QED
        BY <1>1, <1>7, <2>2, <3>1 DEF AnswerFirst
    <2>3. ASSUME IsEnd(Head(s), h), NEW i \in 1 .. Len(s) PROVE ~IsAnswer(s[i], h)
      <3>1. 1 \in 1 .. Len(s) /\ ~(i < 1)
        BY <1>1
      <3> QED
        BY <1>1, <1>7, <2>3, <3>1 DEF AnswerFirst
    <2>4. IsAnswer(Head(s), h) => \A x \in Elements(Tail(s)) : ~IsAnswer(x, h)
      BY <1>1, <2>2 DEF Elements
    <2>5. IsEnd(Head(s), h) => \A x \in Elements(s) : ~IsAnswer(x, h)
      BY <2>3 DEF Elements
    <2> QED
      BY <2>1, <2>4, <2>5
  <1>8. Elements(s) = {Head(s)} \cup Elements(Tail(s))
    BY <1>4, <1>5, <1>6
  <1> QED
    BY <1>7, <1>8

\* A step that keeps the node undisturbed starts from an undisturbed node.
LEMMA StaysUndisturbed ==
    ASSUME TypeOK, [Next]_vars, Undisturbed'
    PROVE  Undisturbed /\ ~Close /\ ~Fault /\ \A h \in HakGoals : ~HakError(h)
  <1>0. faults \in Nat
    BY ActionServerAssumption DEF TypeOK
  <1>1. ~Fault
    BY <1>0 DEF Fault, Undisturbed
  <1>2. ~Close
    BY DEF Close, CloseStop, CloseDecisions, CloseJoin, CloseClear, Undisturbed
  <1>3. \A h \in HakGoals : ~HakError(h)
    BY <1>1 DEF HakError
  <1>4. ASSUME UNCHANGED <<faults, closePc>> PROVE Undisturbed
    BY <1>4 DEF Undisturbed
  <1>5. ASSUME NEW r \in RosGoals, (\E h \in HakGoals : GoalBegin(r, h)) \/ GoalTask(r)
        PROVE  UNCHANGED <<faults, closePc>>
    <2>1. ASSUME DeliverEarly(r) PROVE UNCHANGED <<faults, closePc>>
      BY <1>1, <2>1 DEF DeliverEarly, Deliver
    <2>2. ASSUME GoalSendFails(r) PROVE UNCHANGED <<faults, closePc>>
      BY <1>1, <2>2 DEF GoalSendFails
    <2> QED
      BY <1>5, <2>1, <2>2
         DEF GoalBegin, GoalTask, GoalSend, GoalWaitReturns, GoalReject, GoalAccept,
             BindRosAccepted, BindFails, CollectEarly, ExecuteGoal, AcceptedReturns
  <1>6. ASSUME NEW r \in RosGoals, CancelCalled(r) \/ CancelTask(r) \/ ExecTask(r)
        PROVE  UNCHANGED <<faults, closePc>>
    <2>1. ASSUME CancelSendFails(r) PROVE UNCHANGED <<faults, closePc>>
      BY <1>1, <2>1 DEF CancelSendFails
    <2> QED
      BY <1>6, <2>1
         DEF CancelCalled, CancelTask, CancelBegin, CancelRefused, CancelSend, CancelWaitReturns,
             CancelAnswer, ExecTask, ExecStart, ExecAborts, ExecWake, ExecReturn
  <1>7. ASSUME PollTake \/ PollWork \/ PollFlush PROVE UNCHANGED <<faults, closePc>>
    <2>1. ASSUME PollDeliver PROVE UNCHANGED <<faults, closePc>>
      BY <1>1, <2>1 DEF PollDeliver, Deliver
    <2> QED
      BY <1>7, <2>1
         DEF PollTake, PollWork, PollFlush, PollGoalResponse, PollCancelResponse, PollError,
             PollDelivery, PollFind, PollEarly, PollDefer
  <1>8. ASSUME NEW h \in HakGoals, HakSide(h) PROVE UNCHANGED <<faults, closePc>>
    BY <1>3, <1>8 DEF HakSide, HakGoalAnswer, HakFeedback, HakFinish, HakCancelAnswer
  <1>9. ASSUME UNCHANGED vars PROVE UNCHANGED <<faults, closePc>>
    BY <1>9 DEF vars
  <1> QED
    BY <1>1, <1>2, <1>3, <1>4, <1>5, <1>6, <1>7, <1>8, <1>9 DEF Next, HakSide

\* What the queue of events may do in a step.
LEMMA QueueSteps ==
    ASSUME TypeOK, [Next]_vars
    PROVE  \/ UNCHANGED events
           \/ PollTake /\ events # <<>> /\ events' = Tail(events)
           \/ \E h \in HakGoals, e \in Event :
                  HakSide(h) /\ e.goal = h /\ Emit(e) /\ (e.kind = "ERROR" => HakError(h))
  <1>1. ASSUME PollTake PROVE events # <<>> /\ events' = Tail(events)
    BY <1>1 DEF PollTake, PollGoalResponse, PollCancelResponse, PollError, PollDelivery, Polled
  <1>2. ASSUME NEW h \in HakGoals, HakSide(h)
        PROVE  \E e \in Event : e.goal = h /\ Emit(e) /\ (e.kind = "ERROR" => HakError(h))
    <2>1. ASSUME HakFeedback(h) PROVE [kind |-> "FEEDBACK", goal |-> h, seq |-> NextSeq(h)] \in Event
      BY <2>1, ActionServerAssumption DEF HakFeedback, NextSeq, TypeOK, Event
    <2>2. CASE HakFeedback(h)
      BY <2>1, <2>2 DEF HakFeedback
    <2>3. CASE HakGoalAnswer(h)
      BY <2>3 DEF HakGoalAnswer, Event
    <2>4. CASE HakFinish(h)
      BY <2>4 DEF HakFinish, Event
    <2>5. CASE HakCancelAnswer(h)
      BY <2>5 DEF HakCancelAnswer, Event
    <2>6. CASE HakError(h)
      BY <2>6 DEF HakError, Event
    <2> QED
      BY <1>2, <2>2, <2>3, <2>4, <2>5, <2>6 DEF HakSide
  <1>3. ASSUME NEW r \in RosGoals, (\E h \in HakGoals : GoalBegin(r, h)) \/ GoalTask(r)
        PROVE  UNCHANGED events
    BY <1>3
       DEF GoalBegin, GoalTask, GoalSend, GoalSendFails, GoalWaitReturns, GoalReject, GoalAccept,
           BindRosAccepted, BindFails, CollectEarly, ExecuteGoal, DeliverEarly, AcceptedReturns
  <1>4. ASSUME NEW r \in RosGoals, CancelCalled(r) \/ CancelTask(r) \/ ExecTask(r)
        PROVE  UNCHANGED events
    BY <1>4
       DEF CancelCalled, CancelTask, CancelBegin, CancelRefused, CancelSend, CancelSendFails,
           CancelWaitReturns, CancelAnswer, ExecTask, ExecStart, ExecAborts, ExecWake, ExecReturn
  <1>5. ASSUME PollWork \/ PollFlush PROVE UNCHANGED events
    BY <1>5 DEF PollWork, PollFind, PollEarly, PollDefer, PollDeliver, PollFlush
  <1>6. ASSUME Close PROVE UNCHANGED events
    BY <1>6, CloseFrame
  <1>7. CASE UNCHANGED vars
    BY <1>7 DEF vars
  <1> QED
    BY <1>1, <1>2, <1>3, <1>4, <1>5, <1>6, <1>7 DEF Next, HakSide

\* Every step keeps AcceptedBeforeCancel: cancel_goal is called for a bound goal only.
LEMMA AcceptedBeforeCancelStep ==
    ASSUME TypeOK, PairingInv, RelayInv, AcceptedBeforeCancel, [Next]_vars
    PROVE  AcceptedBeforeCancel'
  <1>0. /\ cancelRequested \subseteq HakGoals
        /\ \A h \in HakGoals : Running(h) => Running(h)'
    BY HakLife, RunningStays DEF RelayInv, TypeOK
  <1>1. ASSUME cancelRequested' \subseteq cancelRequested PROVE \A h \in cancelRequested' : Running(h)'
    BY <1>0, <1>1 DEF AcceptedBeforeCancel
  <1>2. ASSUME NEW r \in RosGoals, CancelSend(r) PROVE \A h \in cancelRequested' : Running(h)'
    <2>1. PICK g \in HakGoals : g = boundTo[r]
      BY <1>2, BoundFacts DEF CancelSend
    <2>2. Running(g)
      <3>1. boundTo[r] = goalId[r] /\ goalPc[r] \in BoundPc
        BY <1>2, BoundFacts DEF CancelSend
      <3> QED
        BY <2>1, <3>1 DEF RelayInv, HandleFollows
    <2>3. cancelRequested' = cancelRequested \cup {g}
      BY <1>2, <2>1 DEF CancelSend
    <2> QED
      BY <1>0, <2>2, <2>3 DEF AcceptedBeforeCancel
  <1>3. ASSUME NEW r \in RosGoals, (\E h \in HakGoals : GoalBegin(r, h)) \/ GoalTask(r)
        PROVE  UNCHANGED cancelRequested
    BY <1>3
       DEF GoalBegin, GoalTask, GoalSend, GoalSendFails, GoalWaitReturns, GoalReject, GoalAccept,
           BindRosAccepted, BindFails, CollectEarly, ExecuteGoal, DeliverEarly, AcceptedReturns
  <1>4. ASSUME NEW r \in RosGoals, CancelCalled(r) \/ (CancelTask(r) /\ ~CancelSend(r)) \/ ExecTask(r)
        PROVE  UNCHANGED cancelRequested
    BY <1>4
       DEF CancelCalled, CancelTask, CancelBegin, CancelRefused, CancelSendFails,
           CancelWaitReturns, CancelAnswer, ExecTask, ExecStart, ExecAborts, ExecWake, ExecReturn
  <1>5. ASSUME NEW h \in HakGoals, HakSide(h) PROVE cancelRequested' \subseteq cancelRequested
    BY <1>5 DEF HakSide, HakGoalAnswer, HakFeedback, HakFinish, HakCancelAnswer, HakError
  <1>6. \A h \in cancelRequested' : Running(h)'
    <2>1. CASE PollTake \/ PollWork \/ PollFlush
      BY <1>1, <2>1, PollFrame
    <2>2. CASE Close
      BY <1>1, <2>2, CloseFrame
    <2>3. ASSUME UNCHANGED vars PROVE UNCHANGED cancelRequested
      BY <2>3 DEF vars
    <2> QED
      BY <1>1, <1>2, <1>3, <1>4, <1>5, <2>1, <2>2, <2>3 DEF Next, HakSide
  <1> QED
    BY <1>6 DEF AcceptedBeforeCancel

\* Every step of an undisturbed node keeps the queue free of ERROR events.
LEMMA NoErrorsStep ==
    ASSUME TypeOK, NoErrors, [Next]_vars
    PROVE  NoErrors'
  <1> SUFFICES ASSUME Undisturbed' PROVE \A e \in Elements(events') : e.kind # "ERROR"
    BY DEF NoErrors
  <1>0. events \in Seq(Event) /\ \A e \in Elements(events) : e.kind # "ERROR"
    BY StaysUndisturbed DEF TypeOK, NoErrors
  <1>1. CASE UNCHANGED events
    BY <1>0, <1>1
  <1>2. CASE events # <<>> /\ events' = Tail(events)
    BY <1>0, <1>2, QueueHead
  <1>3. ASSUME NEW e \in Event, Emit(e), e.kind # "ERROR" PROVE \A x \in Elements(events') : x.kind # "ERROR"
    <2>1. Elements(events') = Elements(events) \cup {e}
      BY <1>0, <1>3, QueueAppend DEF Emit
    <2> QED
      BY <1>0, <1>3, <2>1
  <1> QED
    BY <1>1, <1>2, <1>3, QueueSteps, StaysUndisturbed

\* Every step keeps CancelCalls.
LEMMA CancelCallsStep ==
    ASSUME TypeOK, PairingInv, RelayInv, CancelCalls, [Next]_vars
    PROVE  CancelCalls'
  <1> DEFINE Called(q) == cancelPc[q] # "idle" \/ cancelReply[q] # "none" =>
                              goalPc[q] \in BoundPc /\ ros[q] \in {"executing", "canceling"} \cup Terminal
  <1> SUFFICES ASSUME NEW q \in RosGoals PROVE Called(q)'
    BY DEF CancelCalls
  <1>0. /\ cancelPc \in [RosGoals -> {"idle", "called", "sending", "waiting", "woken"}]
        /\ cancelReply \in [RosGoals -> {"none", "ACCEPT", "REJECT"}]
        /\ goalPc \in [RosGoals -> GoalPc] /\ Called(q)
        /\ ros[q] \in {"executing", "canceling"} \cup Terminal => ros'[q] \in {"executing", "canceling"} \cup Terminal
    BY HandleLife DEF TypeOK, RelayInv, CancelCalls, HandleSteps, Terminal
  <1>1. ASSUME UNCHANGED <<cancelPc, cancelReply>>, goalPc[q] \in BoundPc => goalPc'[q] \in BoundPc
        PROVE  Called(q)'
    BY <1>0, <1>1
  <1>2. ASSUME UNCHANGED <<cancelPc, cancelReply, goalPc>> PROVE Called(q)'
    BY <1>1, <1>2
  <1>3. ASSUME NEW r \in RosGoals, (\E h \in HakGoals : GoalBegin(r, h)) \/ GoalTask(r) PROVE Called(q)'
    <2>1. UNCHANGED <<cancelPc, cancelReply>>
      BY <1>3
         DEF GoalBegin, GoalTask, GoalSend, GoalSendFails, GoalWaitReturns, GoalReject, GoalAccept,
             BindRosAccepted, BindFails, CollectEarly, ExecuteGoal, DeliverEarly, AcceptedReturns
    <2>2. \/ UNCHANGED goalPc
          \/ goalPc[r] \notin BoundPc /\ \E pc : goalPc' = [goalPc EXCEPT ![r] = pc]
          \/ \E pc \in BoundPc : goalPc' = [goalPc EXCEPT ![r] = pc]
      BY <1>3
         DEF GoalBegin, GoalTask, GoalSend, GoalSendFails, GoalWaitReturns, GoalReject, GoalAccept,
             BindRosAccepted, BindFails, CollectEarly, ExecuteGoal, DeliverEarly, AcceptedReturns,
             BoundPc
    <2>3. goalPc[q] \in BoundPc => goalPc'[q] \in BoundPc
      BY <1>0, <2>2
    <2> QED
      BY <1>1, <2>1, <2>3
  <1>4. ASSUME NEW r \in RosGoals, CancelCalled(r) PROVE Called(q)'
    <2>1. /\ cancelPc' = [cancelPc EXCEPT ![r] = "called"] /\ UNCHANGED <<cancelReply, goalPc, ros>>
          /\ ros[r] = "executing"
      BY <1>4 DEF CancelCalled
    <2>2. goalPc[r] \in BoundPc
      <3>1. goalPc[r] \in GoalPc
        BY <1>0
      <3>2. /\ goalPc[r] \in {"none", "sending", "waiting", "woken", "timedOut", "registered", "rejected"}
                   => ros[r] = "none"
            /\ goalPc[r] \in {"bound", "collected", "failed"} => ros[r] = "accepted"
        BY DEF RelayInv, HandleFollows
      <3> QED
        BY <2>1, <3>1, <3>2 DEF GoalPc, BoundPc
    <2>3. CASE q = r
      BY <2>1, <2>2, <2>3
    <2>4. CASE q # r
      <3>1. cancelPc'[q] = cancelPc[q]
        BY <1>0, <2>1, <2>4
      <3> QED
        BY <1>0, <2>1, <3>1
    <2> QED
      BY <2>3, <2>4
  <1>5. ASSUME NEW r \in RosGoals, CancelTask(r) PROVE Called(q)'
    <2>1. cancelPc[r] # "idle" /\ UNCHANGED goalPc
      BY <1>5 DEF CancelTask, CancelBegin, CancelRefused, CancelSend, CancelSendFails,
                  CancelWaitReturns, CancelAnswer
    <2>2. \E pc : cancelPc' = [cancelPc EXCEPT ![r] = pc]
      BY <1>5 DEF CancelTask, CancelBegin, CancelRefused, CancelSend, CancelSendFails,
                  CancelWaitReturns, CancelAnswer
    <2>3. UNCHANGED cancelReply \/ \E reply : cancelReply' = [cancelReply EXCEPT ![r] = reply]
      BY <1>5 DEF CancelTask, CancelBegin, CancelRefused, CancelSend, CancelSendFails,
                  CancelWaitReturns, CancelAnswer
    <2>4. q # r => cancelPc'[q] = cancelPc[q] /\ cancelReply'[q] = cancelReply[q]
      BY <1>0, <2>2, <2>3
    <2> QED
      BY <1>0, <2>1, <2>4
  <1>6. ASSUME NEW r \in RosGoals, ExecTask(r) PROVE Called(q)'
    BY <1>2, <1>6 DEF ExecTask, ExecStart, ExecAborts, ExecWake, ExecReturn
  <1>7. ASSUME PollTake \/ PollWork \/ PollFlush PROVE Called(q)'
    BY <1>2, <1>7, PollFrame
  <1>8. ASSUME Close PROVE Called(q)'
    BY <1>2, <1>8, CloseFrame
  <1>9. ASSUME NEW h \in HakGoals, HakSide(h) PROVE Called(q)'
    BY <1>2, <1>9, HakFrame
  <1>10. CASE UNCHANGED vars
    BY <1>2, <1>10 DEF vars
  <1> HIDE DEF Called
  <1> QED
    BY <1>3, <1>4, <1>5, <1>6, <1>7, <1>8, <1>9, <1>10 DEF Next, HakSide

\* Every step keeps the answer for a goal in its place.
LEMMA AnswerStep ==
    ASSUME TypeOK, PairingInv, RelayInv, CancelInv, [Next]_vars, Undisturbed',
           NEW q \in RosGoals, NEW h \in HakGoals, goalId'[q] = h, goalPc'[q] # "none"
    PROVE  AnswerOnItsWay(q, h)'
  <1>0. /\ cancelPc \in [RosGoals -> {"idle", "called", "sending", "waiting", "woken"}]
        /\ cancelReply \in [RosGoals -> {"none", "ACCEPT", "REJECT"}]
        /\ cancelDecisions \in [HakGoals -> Decision] /\ events \in Seq(Event)
        /\ goalPc \in [RosGoals -> GoalPc] /\ goalId \in [RosGoals -> HakGoals \cup {NoGoal}]
        /\ ros \in [RosGoals -> {"none", "accepted", "executing", "canceling"} \cup Terminal]
        /\ hak \in [HakGoals -> {"none", "requested", "refused", "executing"} \cup Terminal]
    BY DEF TypeOK
  <1>a. Undisturbed /\ ~Close /\ ~Fault /\ \A g \in HakGoals : ~HakError(g)
    BY StaysUndisturbed
  <1>b. /\ hak[h] \in Terminal => hak'[h] \in Terminal
        /\ h \in cancelRequested /\ hak'[h] = "executing" => hak[h] = "executing"
        /\ hak'[h] \notin Terminal => hak[h] \notin Terminal
    <2>1. h \in cancelRequested => hak[h] \in {"executing"} \cup Terminal
      BY DEF CancelInv, AcceptedBeforeCancel, Running
    <2>2. HakSteps
      BY HakLife DEF RelayInv
    <2> QED
      BY <1>0, <2>1, <2>2 DEF HakSteps, Terminal
  <1>c. ros[q] \in {"canceling"} \cup Terminal => ros'[q] \in {"canceling"} \cup Terminal
    BY HandleLife DEF RelayInv, HandleSteps, Terminal
  <1>d. ASSUME goalId[q] = h PROVE AnswerOnItsWay(q, h)
    <2>1. goalPc[q] # "none"
      BY <1>d, ActionServerAssumption DEF PairingInv, GoalIdsDistinct
    <2> QED
      BY <1>a, <1>d, <2>1 DEF CancelInv, AnswerInv
  <1>e. ASSUME goalId[q] = h, NEW r \in RosGoals, boundTo[r] = h PROVE r = q
    BY <1>e, BoundFacts, ActionServerAssumption

  \* nothing of the goal is disturbed
  <1>1. ASSUME goalId[q] = h, cancelPc'[q] = cancelPc[q], cancelReply'[q] = cancelReply[q],
               cancelDecisions'[h] = cancelDecisions[h],
               h \in cancelRequested' <=> h \in cancelRequested,
               h \in cancelAccepted' <=> h \in cancelAccepted,
               Answers(events', h) = Answers(events, h), AnswerFirst(events', h)
        PROVE  AnswerOnItsWay(q, h)'
    BY <1>b, <1>c, <1>d, <1>1 DEF AnswerOnItsWay, Awaiting
  <1>2. ASSUME goalId[q] = h, UNCHANGED <<cancelVars, cancelDecisions, cancelRequested, cancelAccepted, events>>
        PROVE  AnswerOnItsWay(q, h)'
    BY <1>1, <1>d, <1>2 DEF AnswerOnItsWay

  \* the goal request is received
  <1>3. ASSUME NEW r \in RosGoals, NEW g \in HakGoals, GoalBegin(r, g) PROVE AnswerOnItsWay(q, h)'
    <2>1. /\ goalPc[r] = "none" /\ goalId' = [goalId EXCEPT ![r] = g]
          /\ \A p \in RosGoals : goalId[p] # g
          /\ UNCHANGED <<cancelVars, cancelDecisions, cancelRequested, cancelAccepted, events, hak, ros>>
      BY <1>3 DEF GoalBegin
    <2>2. CASE q # r
      BY <1>0, <1>2, <2>1, <2>2
    <2>3. CASE q = r
      <3>1. g = h
        BY <1>0, <2>1, <2>3
      <3>2. hak[h] = "none" /\ h \notin cancelAccepted
        BY <2>1, <3>1 DEF RelayInv, SentOnce
      <3>3. h \notin cancelRequested
        BY <3>2 DEF CancelInv, AcceptedBeforeCancel, Running, Terminal
      <3>4. Answers(events, h) = {} /\ AnswerFirst(events, h)
        <4>1. \A i \in 1 .. Len(events) : events[i].goal # h
          BY <1>0, <3>2 DEF RelayInv, EventsTrue, TrueEvents
        <4> QED
          BY <4>1 DEF Answers, AnswerFirst, IsAnswer, Elements
      <3>5. cancelDecisions[h] = "absent"
        BY <2>1, <3>1, BoundFacts, ActionServerAssumption DEF RelayInv, DecisionsAwaited
      <3>6. cancelPc[q] = "idle" /\ cancelReply[q] = "none"
        BY <2>1, <2>3 DEF CancelInv, CancelCalls, BoundPc
      <3> QED
        BY <2>1, <3>2, <3>3, <3>4, <3>5, <3>6 DEF AnswerOnItsWay
    <2> QED
      BY <2>2, <2>3
  <1>4. ASSUME NEW r \in RosGoals, GoalTask(r) \/ ExecTask(r) PROVE AnswerOnItsWay(q, h)'
    <2>1. UNCHANGED <<goalId, cancelVars, cancelDecisions, cancelRequested, cancelAccepted, events>>
      BY <1>4
         DEF GoalTask, GoalSend, GoalSendFails, GoalWaitReturns, GoalReject, GoalAccept,
             BindRosAccepted, BindFails, CollectEarly, ExecuteGoal, DeliverEarly, AcceptedReturns,
             ExecTask, ExecStart, ExecAborts, ExecWake, ExecReturn
    <2> QED
      BY <1>2, <2>1

  \* the cancel callback
  <1>5. ASSUME NEW r \in RosGoals, CancelCalled(r) PROVE AnswerOnItsWay(q, h)'
    <2>1. /\ cancelPc' = [cancelPc EXCEPT ![r] = "called"] /\ cancelPc[r] = "idle" /\ ros[r] = "executing"
          /\ UNCHANGED <<goalId, cancelReply, cancelDecisions, cancelRequested, cancelAccepted, events, hak, ros>>
      BY <1>5 DEF CancelCalled, GroupFree, InCancelTask
    <2>2. goalId[q] = h /\ AnswerOnItsWay(q, h)
      BY <1>d, <2>1
    <2>3. CASE q # r
      BY <1>0, <1>1, <2>1, <2>2, <2>3 DEF AnswerOnItsWay
    <2>4. CASE q = r
      <3>1. cancelReply[q] # "ACCEPT" /\ ~Awaiting(q, h) /\ cancelDecisions[h] # "yes"
        BY <2>1, <2>2, <2>4 DEF AnswerOnItsWay, Awaiting, Terminal
      <3>2. cancelPc'[q] = "called"
        BY <1>0, <2>1, <2>4
      <3> QED
        BY <2>1, <2>2, <3>1, <3>2 DEF AnswerOnItsWay
    <2> QED
      BY <2>3, <2>4
  <1>6. ASSUME NEW r \in RosGoals, CancelBegin(r) PROVE AnswerOnItsWay(q, h)'
    <2>1. /\ cancelPc' = [cancelPc EXCEPT ![r] = "sending"] /\ cancelPc[r] = "called"
          /\ cancelDecisions' = [cancelDecisions EXCEPT ![byRos[r]] = "pending"]
          /\ cancelDecisions[byRos[r]] = "absent" /\ byRos[r] # NoGoal
          /\ UNCHANGED <<goalId, cancelReply, cancelRequested, cancelAccepted, events, hak, ros>>
      BY <1>6 DEF CancelBegin
    <2>2. goalId[q] = h /\ AnswerOnItsWay(q, h)
      BY <1>d, <2>1
    <2>3. byRos[r] = boundTo[r] /\ boundTo[r] = goalId[r]
      BY <2>1, BoundFacts
    <2>4. CASE q # r
      <3>1. byRos[r] # h
        BY <1>e, <2>2, <2>3, <2>4
      <3>2. cancelDecisions'[h] = cancelDecisions[h] /\ cancelPc'[q] = cancelPc[q]
        BY <1>0, <2>1, <2>4, <3>1
      <3> QED
        BY <1>1, <2>1, <2>2, <3>2 DEF AnswerOnItsWay
    <2>5. CASE q = r
      <3>1. cancelPc'[q] = "sending" /\ cancelDecisions'[h] = "pending" /\ cancelDecisions[h] = "absent"
        BY <1>0, <2>1, <2>2, <2>3, <2>5
      <3>2. cancelReply[q] # "ACCEPT" /\ ~Awaiting(q, h)
        BY <2>1, <2>2, <2>5 DEF AnswerOnItsWay, Awaiting
      <3> QED
        BY <2>1, <2>2, <3>1, <3>2 DEF AnswerOnItsWay
    <2> QED
      BY <2>4, <2>5
  <1>7. ASSUME NEW r \in RosGoals, CancelRefused(r) PROVE AnswerOnItsWay(q, h)'
    <2>1. /\ cancelPc' = [cancelPc EXCEPT ![r] = "idle"] /\ cancelPc[r] = "called"
          /\ cancelReply' = [cancelReply EXCEPT ![r] = "REJECT"]
          /\ UNCHANGED <<goalId, cancelDecisions, cancelRequested, cancelAccepted, events, hak, ros>>
      BY <1>7 DEF CancelRefused
    <2>2. goalId[q] = h /\ AnswerOnItsWay(q, h)
      BY <1>d, <2>1
    <2>3. CASE q # r
      <3>1. cancelPc'[q] = cancelPc[q] /\ cancelReply'[q] = cancelReply[q]
        BY <1>0, <2>1, <2>3
      <3> QED
        BY <1>1, <2>1, <2>2, <3>1 DEF AnswerOnItsWay
    <2>4. CASE q = r
      <3>1. cancelReply[q] # "ACCEPT" /\ ~Awaiting(q, h) /\ cancelDecisions[h] # "yes"
        BY <2>1, <2>2, <2>4 DEF AnswerOnItsWay, Awaiting
      <3>2. cancelPc'[q] = "idle" /\ cancelReply'[q] = "REJECT"
        BY <1>0, <2>1, <2>4
      <3> QED
        BY <2>1, <2>2, <3>1, <3>2 DEF AnswerOnItsWay
    <2> QED
      BY <2>3, <2>4
  <1>8. ASSUME NEW r \in RosGoals, CancelSend(r) PROVE AnswerOnItsWay(q, h)'
    <2>1. /\ cancelPc' = [cancelPc EXCEPT ![r] = "waiting"] /\ cancelPc[r] = "sending"
          /\ cancelRequested' = cancelRequested \cup {boundTo[r]}
          /\ UNCHANGED <<goalId, cancelReply, cancelDecisions, cancelAccepted, events, hak, ros>>
      BY <1>8 DEF CancelSend
    <2>2. goalId[q] = h /\ AnswerOnItsWay(q, h)
      BY <1>d, <2>1
    <2>3. CASE q # r
      <3>1. boundTo[r] # h /\ cancelPc'[q] = cancelPc[q]
        BY <1>0, <1>e, <2>1, <2>2, <2>3
      <3> QED
        BY <1>1, <2>1, <2>2, <3>1 DEF AnswerOnItsWay
    <2>4. CASE q = r
      <3>1. cancelReply[q] # "ACCEPT" /\ ~Awaiting(q, h) /\ cancelDecisions[h] # "yes"
        BY <2>1, <2>2, <2>4 DEF AnswerOnItsWay, Awaiting
      <3>2. cancelPc'[q] = "waiting"
        BY <1>0, <2>1, <2>4
      <3>3. hak[h] = "executing" => cancelDecisions[h] = "pending"
        BY <2>1, <2>2, <2>4 DEF AnswerOnItsWay, Terminal
      <3> QED
        BY <2>1, <2>2, <3>1, <3>2, <3>3 DEF AnswerOnItsWay, Awaiting
    <2> QED
      BY <2>3, <2>4
  <1>9. ASSUME NEW r \in RosGoals, CancelSendFails(r) PROVE AnswerOnItsWay(q, h)'
    <2>1. /\ cancelPc' = [cancelPc EXCEPT ![r] = "idle"] /\ cancelPc[r] = "sending"
          /\ cancelDecisions' = [cancelDecisions EXCEPT ![boundTo[r]] = "absent"]
          /\ cancelReply' = [cancelReply EXCEPT ![r] = "REJECT"]
          /\ UNCHANGED <<goalId, cancelRequested, cancelAccepted, events, hak, ros>>
      BY <1>9 DEF CancelSendFails, Drop
    <2>2. goalId[q] = h /\ AnswerOnItsWay(q, h)
      BY <1>d, <2>1
    <2>3. CASE q # r
      <3>1. boundTo[r] # h /\ cancelPc'[q] = cancelPc[q] /\ cancelReply'[q] = cancelReply[q]
        BY <1>0, <1>e, <2>1, <2>2, <2>3
      <3>2. cancelDecisions'[h] = cancelDecisions[h]
        BY <1>0, <2>1, <3>1
      <3> QED
        BY <1>1, <2>1, <2>2, <3>1, <3>2 DEF AnswerOnItsWay
    <2>4. CASE q = r
      <3>1. cancelReply[q] # "ACCEPT" /\ ~Awaiting(q, h) /\ cancelDecisions[h] # "yes"
        BY <2>1, <2>2, <2>4 DEF AnswerOnItsWay, Awaiting
      <3>2. boundTo[r] = h
        BY <2>1, <2>2, <2>4, BoundFacts
      <3>3. cancelPc'[q] = "idle" /\ cancelReply'[q] = "REJECT" /\ cancelDecisions'[h] = "absent"
        BY <1>0, <2>1, <2>4, <3>2
      <3> QED
        BY <2>1, <2>2, <3>1, <3>3 DEF AnswerOnItsWay
    <2> QED
      BY <2>3, <2>4
  <1>10. ASSUME NEW r \in RosGoals, CancelWaitReturns(r) PROVE AnswerOnItsWay(q, h)'
    <2>1. /\ cancelPc' = [cancelPc EXCEPT ![r] = "woken"] /\ cancelPc[r] = "waiting"
          /\ CancelWaitOver(boundTo[r])
          /\ UNCHANGED <<goalId, cancelReply, cancelDecisions, cancelRequested, cancelAccepted, events, hak, ros>>
      BY <1>10 DEF CancelWaitReturns
    <2>2. goalId[q] = h /\ AnswerOnItsWay(q, h)
      BY <1>d, <2>1
    <2>3. CASE q # r
      BY <1>0, <1>1, <2>1, <2>2, <2>3 DEF AnswerOnItsWay
    <2>4. CASE q = r
      <3>1. boundTo[r] = h
        BY <2>1, <2>2, <2>4, BoundFacts
      <3>2. cancelDecisions[h] # "pending"
        BY <1>a, <2>1, <3>1 DEF CancelWaitOver, StopRequested, Undisturbed
      <3>3. cancelReply[q] # "ACCEPT" /\ ~Awaiting(q, h)
        BY <2>1, <2>2, <2>4, <3>2 DEF AnswerOnItsWay, Awaiting
      <3>4. cancelPc'[q] = "woken"
        BY <1>0, <2>1, <2>4
      <3> QED
        BY <2>1, <2>2, <3>3, <3>4 DEF AnswerOnItsWay
    <2> QED
      BY <2>3, <2>4
  <1>11. ASSUME NEW r \in RosGoals, CancelAnswer(r) PROVE AnswerOnItsWay(q, h)'
    <2>1. /\ cancelPc' = [cancelPc EXCEPT ![r] = "idle"] /\ cancelPc[r] = "woken"
          /\ cancelDecisions' = [cancelDecisions EXCEPT ![boundTo[r]] = "absent"]
          /\ cancelReply' = [cancelReply EXCEPT ![r] =
                                IF cancelDecisions[boundTo[r]] = "yes" THEN "ACCEPT" ELSE "REJECT"]
          /\ UNCHANGED <<goalId, cancelRequested, cancelAccepted, events, hak>>
      BY <1>11 DEF CancelAnswer, Drop
    <2>2. goalId[q] = h /\ AnswerOnItsWay(q, h)
      BY <1>d, <2>1
    <2>3. CASE q # r
      <3>1. boundTo[r] # h /\ cancelPc'[q] = cancelPc[q] /\ cancelReply'[q] = cancelReply[q]
        BY <1>0, <1>e, <2>1, <2>2, <2>3
      <3>2. cancelDecisions'[h] = cancelDecisions[h]
        BY <1>0, <2>1, <3>1
      <3> QED
        BY <1>1, <2>1, <2>2, <3>1, <3>2 DEF AnswerOnItsWay
    <2>4. CASE q = r
      <3>1. cancelReply[q] # "ACCEPT" /\ ~Awaiting(q, h)
        BY <2>1, <2>2, <2>4 DEF AnswerOnItsWay, Awaiting
      <3>2. boundTo[r] = h
        BY <2>1, <2>2, <2>4, BoundFacts
      <3>3. /\ cancelPc'[q] = "idle" /\ cancelDecisions'[h] = "absent"
            /\ cancelReply'[q] = "ACCEPT" <=> cancelDecisions[h] = "yes"
        BY <1>0, <2>1, <2>4, <3>2
      <3>4. cancelDecisions[h] = "yes" => ros'[q] \in {"canceling"} \cup Terminal
        <4>1. ros[q] \in {"executing", "canceling"} \cup Terminal
          BY <2>1, <2>4 DEF CancelInv, CancelCalls
        <4>2. cancelDecisions[h] = "yes" =>
                  ros' = [ros EXCEPT ![q] = IF @ = "executing" THEN "canceling" ELSE @]
          BY <1>11, <2>4, <3>2 DEF CancelAnswer
        <4> QED
          BY <1>0, <4>1, <4>2
      <3> QED
        BY <2>1, <2>2, <3>1, <3>3, <3>4 DEF AnswerOnItsWay
    <2> QED
      BY <2>3, <2>4

  \* the poll thread
  <1>12. ASSUME PollTake PROVE AnswerOnItsWay(q, h)'
    <2>1. /\ UNCHANGED <<goalId, cancelVars, cancelRequested, cancelAccepted, hak>>
          /\ events # <<>> /\ events' = Tail(events)
      BY <1>12, PollFrame
         DEF PollTake, PollGoalResponse, PollCancelResponse, PollError, PollDelivery, Polled
    <2>2. goalId[q] = h /\ AnswerOnItsWay(q, h)
      BY <1>d, <2>1
    <2>3. /\ Elements(events) = {Head(events)} \cup Elements(events')
          /\ AnswerFirst(events', h)
          /\ IsAnswer(Head(events), h) => Answers(events', h) = {}
          /\ IsEnd(Head(events), h) => Answers(events, h) = {}
      BY <1>0, <2>1, <2>2, QueueHead DEF AnswerOnItsWay, Answers
    <2>4. ~IsAnswer(Head(events), h) => Answers(events', h) = Answers(events, h)
      BY <2>3 DEF Answers
    <2>5. Head(events) \in Event /\ Head(events) \in TrueEvents
      BY <2>1 DEF RelayInv, EventsTrue, TrueEvents
    <2>6. CASE PollGoalResponse
      <3>1. ~IsAnswer(Head(events), h) /\ UNCHANGED cancelDecisions
        BY <2>6 DEF PollGoalResponse, Polled, IsAnswer
      <3> QED
        BY <1>1, <2>1, <2>2, <2>3, <2>4, <3>1
    <2>7. CASE PollCancelResponse
      <3>1. PICK e \in Event : /\ e.kind = "CANCEL_RESPONSE" /\ e = Head(events)
                               /\ cancelDecisions' = [cancelDecisions EXCEPT ![e.goal] = Resolve(@, e.accepted)]
        BY <2>7 DEF PollCancelResponse, Polled
      <3>2. CASE e.goal # h
        <4>1. ~IsAnswer(Head(events), h) /\ cancelDecisions'[h] = cancelDecisions[h]
          BY <1>0, <3>1, <3>2 DEF IsAnswer
        <4> QED
          BY <1>1, <2>1, <2>2, <2>3, <2>4, <4>1
      <3>3. CASE e.goal = h
        <4>1. IsAnswer(e, h) /\ e \in Answers(events, h) /\ Answers(events', h) = {}
          BY <2>3, <3>1, <3>3 DEF IsAnswer, Answers
        <4>2. Awaiting(q, h) /\ h \notin cancelRequested
          BY <2>2, <4>1 DEF AnswerOnItsWay
        <4>3. \A x \in Answers(events, h) : x = e
          BY <2>3, <3>1, <4>1 DEF Answers
        <4>4. cancelDecisions'[h] = IF e.accepted THEN "yes" ELSE "no"
          BY <1>0, <3>1, <3>3, <4>2 DEF Resolve, Awaiting
        <4>5. h \in cancelAccepted <=> e.accepted
          BY <2>2, <4>1, <4>2, <4>3 DEF AnswerOnItsWay, Awaiting
        <4> QED
          BY <2>1, <2>2, <2>3, <4>1, <4>2, <4>4, <4>5 DEF AnswerOnItsWay, Awaiting
      <3> QED
        BY <3>2, <3>3
    <2>8. CASE PollError
      BY <1>a, <2>3, <2>8 DEF PollError, Polled, CancelInv, NoErrors
    <2>9. CASE PollDelivery
      <3>1. PICK e \in Event : /\ e.kind \in {"FEEDBACK", "RESULT"} /\ e = Head(events)
                               /\ cancelDecisions' = WokenBy(e)
        BY <2>9 DEF PollDelivery, Polled
      <3>2. ~IsAnswer(Head(events), h)
        BY <3>1 DEF IsAnswer
      <3>3. CASE ~IsEnd(e, h)
        <4>1. cancelDecisions'[h] = cancelDecisions[h]
          BY <1>0, <3>1, <3>3 DEF WokenBy, IsEnd
        <4> QED
          BY <1>1, <2>1, <2>2, <2>3, <2>4, <3>2, <4>1
      <3>4. CASE IsEnd(e, h)
        <4>1. Answers(events, h) = {} /\ Answers(events', h) = {}
          BY <2>3, <2>4, <3>1, <3>2, <3>4
        <4>2. hak[h] \in Terminal
          BY <2>5, <3>1, <3>4 DEF IsEnd, IsResult, TrueEvents, Event
        <4>3. cancelDecisions'[h] = Complete(cancelDecisions[h])
          BY <1>0, <3>1, <3>4 DEF WokenBy, IsEnd
        <4>4. /\ cancelDecisions'[h] = "yes" <=> cancelDecisions[h] = "yes"
              /\ hak[h] # "executing"
          BY <4>2, <4>3 DEF Complete, Terminal
        <4> QED
          BY <2>1, <2>2, <2>3, <4>1, <4>2, <4>4, <1>c DEF AnswerOnItsWay
      <3> QED
        BY <3>3, <3>4
    <2> QED
      BY <1>12, <2>6, <2>7, <2>8, <2>9 DEF PollTake
  <1>13. ASSUME PollWork \/ PollFlush PROVE AnswerOnItsWay(q, h)'
    <2>1. UNCHANGED <<cancelDecisions, events>>
      BY <1>13 DEF PollWork, PollFind, PollEarly, PollDefer, PollDeliver, PollFlush
    <2> QED
      BY <1>2, <1>13, <2>1, PollFrame

  \* the Hakoniwa side
  <1>14. ASSUME NEW g \in HakGoals, HakSide(g) PROVE AnswerOnItsWay(q, h)'
    <2>1. UNCHANGED <<goalId, cancelPc, cancelReply, cancelVars, cancelDecisions, ros>>
      BY <1>14, HakFrame
    <2>2. goalId[q] = h /\ AnswerOnItsWay(q, h)
      BY <1>d, <2>1
    <2>3. ASSUME NEW e \in Event, Emit(e), ~IsAnswer(e, h)
          PROVE  Answers(events', h) = Answers(events, h) /\ AnswerFirst(events', h)
      <3>1. Elements(events') = Elements(events) \cup {e}
        BY <1>0, <2>3, QueueAppend DEF Emit
      <3>2. AnswerFirst(events', h)
        BY <1>0, <2>2, <2>3, AnswerAppend DEF Emit, AnswerOnItsWay
      <3> QED
        BY <2>3, <3>1, <3>2 DEF Answers
    <2>4. CASE HakGoalAnswer(g) \/ HakFeedback(g) \/ HakFinish(g)
      <3>1. UNCHANGED <<cancelRequested, cancelAccepted>>
        BY <2>4 DEF HakGoalAnswer, HakFeedback, HakFinish
      <3>2. \E e \in Event : Emit(e) /\ ~IsAnswer(e, h)
        <4>1. CASE HakGoalAnswer(g)
          BY <4>1 DEF HakGoalAnswer, Event, IsAnswer
        <4>2. CASE HakFinish(g)
          BY <4>2 DEF HakFinish, Event, IsAnswer
        <4>3. CASE HakFeedback(g)
          <5>1. [kind |-> "FEEDBACK", goal |-> g, seq |-> NextSeq(g)] \in Event
            BY <4>3, ActionServerAssumption DEF HakFeedback, NextSeq, TypeOK, Event
          <5> QED
            BY <4>3, <5>1 DEF HakFeedback, IsAnswer
        <4> QED
          BY <2>4, <4>1, <4>2, <4>3
      <3> QED
        BY <1>1, <2>1, <2>2, <2>3, <3>1, <3>2
    <2>5. CASE HakCancelAnswer(g)
      <3>1. PICK accept \in BOOLEAN :
              /\ g \in cancelRequested /\ hak[g] = "executing" /\ hak' = hak
              /\ cancelRequested' = cancelRequested \ {g}
              /\ cancelAccepted' = IF accept THEN cancelAccepted \cup {g} ELSE cancelAccepted
              /\ Emit([kind |-> "CANCEL_RESPONSE", goal |-> g, accepted |-> accept])
        BY <2>5 DEF HakCancelAnswer
      <3> DEFINE e == [kind |-> "CANCEL_RESPONSE", goal |-> g, accepted |-> accept]
      <3>2. e \in Event /\ e.goal = g /\ e.accepted = accept /\ e.kind = "CANCEL_RESPONSE"
        BY DEF Event
      <3>3. CASE g # h
        <4>1. ~IsAnswer(e, h)
          BY <3>2, <3>3 DEF IsAnswer
        <4>2. Answers(events', h) = Answers(events, h) /\ AnswerFirst(events', h)
          BY <2>3, <3>1, <3>2, <4>1
        <4> QED
          BY <1>1, <2>1, <2>2, <3>1, <3>3, <4>2
      <3>4. CASE g = h
        <4>1. Awaiting(q, h) /\ Answers(events, h) = {}
          BY <2>2, <3>1, <3>4 DEF AnswerOnItsWay
        <4>2. \A x \in Elements(events) : ~IsAnswer(x, h) /\ ~IsEnd(x, h)
          <5>1. \A x \in Elements(events) : x \in TrueEvents
            BY DEF RelayInv, EventsTrue, Elements
          <5>2. \A x \in Elements(events) : ~IsEnd(x, h)
            BY <3>1, <3>4, <5>1 DEF TrueEvents, IsEnd, IsResult, Event, Terminal
          <5> QED
            BY <4>1, <5>2 DEF Answers
        <4>3. Elements(events') = Elements(events) \cup {e} /\ AnswerFirst(events', h)
          BY <1>0, <2>2, <3>1, <3>2, <4>2, QueueAppend, AnswerAppend DEF Emit, AnswerOnItsWay
        <4>4. Answers(events', h) = {e}
          BY <3>2, <3>4, <4>2, <4>3 DEF Answers, IsAnswer
        <4>5. h \notin cancelAccepted /\ cancelReply[q] # "ACCEPT"
          BY <2>2, <4>1 DEF AnswerOnItsWay, Awaiting
        <4>6. h \notin cancelRequested' /\ (h \in cancelAccepted' <=> accept)
          BY <3>1, <3>4, <4>5
        <4> HIDE DEF e
        <4> QED
          BY <2>1, <2>2, <3>2, <4>1, <4>3, <4>4, <4>5, <4>6 DEF AnswerOnItsWay, Awaiting
      <3> QED
        BY <3>3, <3>4
    <2> QED
      BY <1>a, <1>14, <2>4, <2>5 DEF HakSide
  <1>15. ASSUME UNCHANGED vars PROVE AnswerOnItsWay(q, h)'
    <2>1. UNCHANGED <<goalId, cancelVars, cancelDecisions, cancelRequested, cancelAccepted, events>>
      BY <1>15 DEF vars
    <2> QED
      BY <1>2, <2>1
  <1> QED
    BY <1>a, <1>3, <1>4, <1>5, <1>6, <1>7, <1>8, <1>9, <1>10, <1>11, <1>12, <1>13, <1>14, <1>15
       DEF Next, HakSide, CancelTask

\* Every step keeps the invariant of the cancel requests,
LEMMA CancelInvStep ==
    ASSUME TypeOK, PairingInv, RelayInv, CancelInv, [Next]_vars
    PROVE  CancelInv'
  <1>1. AcceptedBeforeCancel' /\ CancelCalls' /\ NoErrors'
    BY AcceptedBeforeCancelStep, CancelCallsStep, NoErrorsStep DEF CancelInv
  <1>2. ASSUME Undisturbed', NEW r \in RosGoals, goalPc'[r] # "none" PROVE AnswerOnItsWay(r, goalId[r])'
    <2>1. (TypeOK /\ PairingInv)'
      BY PairingStep
    <2>2. PICK h \in HakGoals : h = goalId'[r]
      BY <1>2, <2>1 DEF PairingInv, GoalIdsDistinct, TypeOK
    <2>3. AnswerOnItsWay(r, h)'
      BY <1>2, <2>2, AnswerStep
    <2> QED
      BY <2>2, <2>3 DEF AnswerOnItsWay, Awaiting
  <1> QED
    BY <1>1, <1>2 DEF CancelInv, AnswerInv

\* which holds initially.
LEMMA CancelInvInit == Init => CancelInv
  <1> SUFFICES ASSUME Init PROVE CancelInv
    OBVIOUS
  <1>1. Elements(events) = {}
    BY DEF Init, Elements
  <1> QED
    BY <1>1 DEF Init, CancelInv, AcceptedBeforeCancel, CancelCalls, NoErrors, AnswerInv

\* A cancel request that Hakoniwa accepted is answered ACCEPT to ROS and one that it did not
\* accept is answered REJECT, whatever the order in which the answer, the result of the goal and
\* the steps of cancel_callback come, as long as no fault and no shutdown interferes.
THEOREM CancelAnswersAgreeHolds == Spec => []CancelAnswersAgree
  <1>1. TypeOK /\ PairingInv /\ RelayInv /\ CancelInv /\ [Next]_vars => CancelInv'
    BY CancelInvStep
  <1>2. ASSUME TypeOK, PairingInv, CancelInv PROVE CancelAnswersAgree
    <2> SUFFICES ASSUME Undisturbed, NEW r \in RosGoals, cancelPc[r] = "idle", cancelReply[r] # "none"
                 PROVE  cancelReply[r] = "ACCEPT" <=> goalId[r] \in cancelAccepted
      BY DEF CancelAnswersAgree
    <2>1. goalPc[r] # "none" /\ AnswerOnItsWay(r, goalId[r])
      BY <1>2 DEF CancelInv, CancelCalls, AnswerInv, BoundPc
    <2> QED
      BY <2>1 DEF AnswerOnItsWay, Awaiting
  <1> QED
    BY <1>1, <1>2, CancelInvInit, RelayInvariant, PTL DEF Spec

-----------------------------------------------------------------------------
(***************************************************************************)
(* Feedback.  Its way to the ROS client leads through five places, and the *)
(* poll thread and the accepted callback move it from one to the next: the *)
(* sum of the copies in these places never changes but when Hakoniwa sends *)
(* the feedback.                                                           *)
(***************************************************************************)
One(x, e) == IF x = e THEN 1 ELSE 0

\* The places of e in the sequence s are finitely many.
LEMMA CopiesType ==
    ASSUME NEW S, NEW s \in Seq(S), NEW e
    PROVE  IsFiniteSet({i \in DOMAIN s : s[i] = e}) /\ CopiesIn(s, e) \in Nat
  <1>1. DOMAIN s = 1 .. Len(s) /\ Len(s) \in Nat
    OBVIOUS
  <1>2. IsFiniteSet(1 .. Len(s))
    BY <1>1, FS_Interval
  <1>3. {i \in DOMAIN s : s[i] = e} \in SUBSET (1 .. Len(s))
    BY <1>1
  <1>4. IsFiniteSet({i \in DOMAIN s : s[i] = e})
    BY <1>2, <1>3, FS_Subset
  <1> QED
    BY <1>4, FS_CardinalityType DEF CopiesIn

\* The copies in two sequences, one after the other.
LEMMA CopiesConcat ==
    ASSUME NEW S, NEW s \in Seq(S), NEW t \in Seq(S), NEW e
    PROVE  CopiesIn(s \o t, e) = CopiesIn(s, e) + CopiesIn(t, e)
  <1> DEFINE n == Len(s)
             First == {i \in DOMAIN s : s[i] = e}
             Second == {i \in DOMAIN t : t[i] = e}
             Moved == {i \in n + 1 .. n + Len(t) : t[i - n] = e}
             Shift == [i \in Second |-> i + n]
  <1>1. /\ n \in Nat /\ Len(t) \in Nat /\ DOMAIN s = 1 .. n /\ DOMAIN t = 1 .. Len(t)
        /\ DOMAIN (s \o t) = 1 .. n + Len(t)
        /\ \A i \in 1 .. n + Len(t) : (s \o t)[i] = IF i <= n THEN s[i] ELSE t[i - n]
    OBVIOUS
  <1>2. {i \in DOMAIN (s \o t) : (s \o t)[i] = e} = First \cup Moved
    BY <1>1
  <1>3. First \cap Moved = {}
    BY <1>1
  <1>4. Shift \in Bijection(Second, Moved)
    <2>1. \A i \in Second : i \in 1 .. Len(t) /\ t[i] = e
      BY <1>1
    <2>2. \A i \in Second : i + n \in n + 1 .. n + Len(t) /\ (i + n) - n = i
      BY <1>1, <2>1
    <2>3. \A i \in Second : i + n \in Moved
      BY <2>1, <2>2
    <2>4. Shift \in [Second -> Moved]
      BY <2>3
    <2>5. \A i, j \in Second : i + n = j + n => i = j
      BY <1>1, <2>1
    <2>6. ASSUME NEW j \in Moved PROVE \E i \in Second : i + n = j
      <3>1. j - n \in 1 .. Len(t) /\ t[j - n] = e /\ (j - n) + n = j
        BY <1>1, <2>6
      <3>2. j - n \in Second
        BY <1>1, <3>1
      <3> QED
        BY <3>1, <3>2
    <2>7. \A i \in Second : Shift[i] = i + n
      OBVIOUS
    <2> HIDE DEF Shift, Second, Moved
    <2> QED
      BY <2>4, <2>5, <2>6, <2>7 DEF Bijection, Injection, Surjection, IsInjective
  <1>5. IsFiniteSet(First) /\ IsFiniteSet(Second) /\ Cardinality(First) \in Nat
    BY CopiesType, FS_CardinalityType
  <1>6. IsFiniteSet(Moved) /\ Cardinality(Moved) = Cardinality(Second) /\ Cardinality(Moved) \in Nat
    <2>1. ExistsBijection(Second, Moved)
      BY <1>4 DEF ExistsBijection
    <2> QED
      BY <1>5, <2>1, FS_Bijection, FS_CardinalityType
  <1>7. Cardinality(First \cup Moved) = Cardinality(First) + Cardinality(Moved)
    <2> HIDE DEF First, Moved
    <2>1. Cardinality(First \cup Moved)
              = Cardinality(First) + Cardinality(Moved) - Cardinality(First \cap Moved)
      BY <1>5, <1>6, FS_Union
    <2>2. Cardinality(First \cap Moved) = 0
      BY <1>3, FS_EmptySet
    <2> QED
      BY <1>5, <1>6, <2>1, <2>2
  <1>8. CopiesIn(s, e) = Cardinality(First) /\ CopiesIn(t, e) = Cardinality(Second)
    BY DEF CopiesIn
  <1>9. CopiesIn(s \o t, e) = Cardinality(First \cup Moved)
    BY <1>2 DEF CopiesIn
  <1> QED
    BY <1>6, <1>7, <1>8, <1>9

\* The same for four.
LEMMA CopiesConcat4 ==
    ASSUME NEW S, NEW s \in Seq(S), NEW t \in Seq(S), NEW u \in Seq(S), NEW v \in Seq(S), NEW e
    PROVE  CopiesIn(s \o t \o u \o v, e)
               = CopiesIn(s, e) + CopiesIn(t, e) + CopiesIn(u, e) + CopiesIn(v, e)
  <1>1. s \o t \in Seq(S) /\ s \o t \o u \in Seq(S)
    OBVIOUS
  <1>2. CopiesIn(s \o t, e) = CopiesIn(s, e) + CopiesIn(t, e)
    BY CopiesConcat
  <1>3. CopiesIn(s \o t \o u, e) = CopiesIn(s \o t, e) + CopiesIn(u, e)
    BY <1>1, CopiesConcat
  <1>4. CopiesIn(s \o t \o u \o v, e) = CopiesIn(s \o t \o u, e) + CopiesIn(v, e)
    BY <1>1, CopiesConcat
  <1> QED
    BY <1>2, <1>3, <1>4

\* A sequence without e holds no copy of it.
LEMMA CopiesNone ==
    ASSUME NEW S, NEW s \in Seq(S), NEW e, e \notin S
    PROVE  CopiesIn(s, e) = 0
  <1>1. {i \in DOMAIN s : s[i] = e} = {}
    OBVIOUS
  <1> QED
    BY <1>1, FS_EmptySet DEF CopiesIn

\* One element is a copy or not.
LEMMA CopiesOne ==
    ASSUME NEW x, NEW e
    PROVE  CopiesIn(<<x>>, e) = One(x, e)
  <1>1. DOMAIN <<x>> = {1} /\ <<x>>[1] = x
    OBVIOUS
  <1>2. CASE x = e
    <2>1. {i \in DOMAIN <<x>> : <<x>>[i] = e} = {1}
      BY <1>1, <1>2
    <2> QED
      BY <1>2, <2>1, FS_Singleton DEF CopiesIn, One
  <1>3. CASE x # e
    <2>1. {i \in DOMAIN <<x>> : <<x>>[i] = e} = {}
      BY <1>1, <1>3
    <2> QED
      BY <1>3, <2>1, FS_EmptySet DEF CopiesIn, One
  <1> QED
    BY <1>2, <1>3

\* A copy more at the end, and one less at the head.
LEMMA CopiesAppend ==
    ASSUME NEW S, NEW s \in Seq(S), NEW x \in S, NEW e
    PROVE  CopiesIn(Append(s, x), e) = CopiesIn(s, e) + One(x, e)
  <1>1. Append(s, x) = s \o <<x>>
    BY AppendIsConcat
  <1>2. <<x>> \in Seq(S)
    OBVIOUS
  <1>3. CopiesIn(s \o <<x>>, e) = CopiesIn(s, e) + CopiesIn(<<x>>, e)
    BY <1>2, CopiesConcat
  <1> QED
    BY <1>1, <1>3, CopiesOne

LEMMA CopiesHead ==
    ASSUME NEW S, NEW s \in Seq(S), s # <<>>, NEW e
    PROVE  /\ Head(s) \in S /\ Tail(s) \in Seq(S)
           /\ CopiesIn(s, e) = One(Head(s), e) + CopiesIn(Tail(s), e)
  <1>1. Head(s) \in S /\ Tail(s) \in Seq(S) /\ <<Head(s)>> \in Seq(S)
    BY HeadTailProperties
  <1>2. s = <<Head(s)>> \o Tail(s)
    OBVIOUS
  <1>3. CopiesIn(<<Head(s)>> \o Tail(s), e) = CopiesIn(<<Head(s)>>, e) + CopiesIn(Tail(s), e)
    BY <1>1, CopiesConcat
  <1> QED
    BY <1>1, <1>2, <1>3, CopiesOne

\* The event of the n-th feedback of h, and how often it occurs between the server that sent it
\* and the ROS goal r.
Feedback(h, n) == [kind |-> "FEEDBACK", goal |-> h, seq |-> n]

Copies(r, h, n) ==
    CopiesIn(events, Feedback(h, n)) + One(pollEvent, Feedback(h, n))
    + CopiesIn(earlyEvents[h], Feedback(h, n)) + CopiesIn(early[r], Feedback(h, n))
    + CopiesIn(published[r], n)

\* What is not in use is empty.
Tidy ==
    /\ pollPc \in {"poll", "ended"} => pollEvent = NoEvent
    /\ \A r \in RosGoals : goalPc[r] \notin {"collected", "delivering"} => early[r] = <<>>
    /\ \A r \in RosGoals : goalPc[r] \notin BoundPc => published[r] = <<>>
    /\ \A h \in HakGoals : hak[h] = "none" => feedbackSent[h] = 0

\* What was sent is somewhere, once, and what was not sent is nowhere.
Accounted(r, h, n) == Copies(r, h, n) = IF n <= feedbackSent[h] THEN 1 ELSE 0

CopiesInv ==
    Undisturbed =>
        \A r \in RosGoals :
            goalPc[r] # "none" /\ execPc[r] \notin {"removing", "returned"} =>
                \A n \in 1 .. MaxFeedback : Accounted(r, goalId[r], n)

\* Every step keeps Tidy.
LEMMA TidyStep ==
    ASSUME TypeOK, PairingInv, RelayInv, Tidy, [Next]_vars
    PROVE  Tidy'
  <1> DEFINE Kept(q) ==
                 /\ goalPc[q] \notin {"collected", "delivering"} => early[q] = <<>>
                 /\ goalPc[q] \notin BoundPc => published[q] = <<>>
             Idle == pollPc \in {"poll", "ended"} => pollEvent = NoEvent
             Unsent == \A h \in HakGoals : hak[h] = "none" => feedbackSent[h] = 0
  <1>0. /\ goalPc \in [RosGoals -> GoalPc] /\ early \in [RosGoals -> Seq(Event)]
        /\ published \in [RosGoals -> Seq(1 .. MaxFeedback)]
        /\ feedbackSent \in [HakGoals -> 0 .. MaxFeedback]
    BY DEF TypeOK
  <1>1. Idle'
    <2>0. Idle
      BY DEF Tidy
    <2>1. ASSUME UNCHANGED pollVars PROVE Idle'
      BY <2>0, <2>1
    <2>2. CASE PollTake
      BY <2>0, <2>2 DEF PollTake, PollGoalResponse, PollCancelResponse, PollError, PollDelivery
    <2>3. CASE PollWork
      BY <2>0, <2>3 DEF PollWork, PollFind, PollEarly, PollDefer, PollDeliver
    <2>4. CASE PollFlush
      BY <2>4 DEF PollFlush
    <2>5. CASE Close
      BY <2>0, <2>5 DEF Close, CloseStop, CloseDecisions, CloseJoin, CloseClear
    <2>6. ASSUME NEW h \in HakGoals, HakSide(h) PROVE Idle'
      BY <2>1, <2>6, HakFrame
    <2>7. ASSUME NEW r \in RosGoals, (\E h \in HakGoals : GoalBegin(r, h)) \/ GoalTask(r)
          PROVE  UNCHANGED pollVars
      BY <2>7
         DEF GoalBegin, GoalTask, GoalSend, GoalSendFails, GoalWaitReturns, GoalReject, GoalAccept,
             BindRosAccepted, BindFails, CollectEarly, ExecuteGoal, DeliverEarly, AcceptedReturns
    <2>8. ASSUME NEW r \in RosGoals, CancelCalled(r) \/ CancelTask(r) \/ ExecTask(r)
          PROVE  UNCHANGED pollVars
      BY <2>8
         DEF CancelCalled, CancelTask, CancelBegin, CancelRefused, CancelSend, CancelSendFails,
             CancelWaitReturns, CancelAnswer, ExecTask, ExecStart, ExecAborts, ExecWake, ExecReturn
    <2>9. ASSUME UNCHANGED vars PROVE UNCHANGED pollVars
      BY <2>9 DEF vars
    <2> QED
      BY <2>1, <2>2, <2>3, <2>4, <2>5, <2>6, <2>7, <2>8, <2>9 DEF Next, HakSide
  <1>2. Unsent'
    <2>1. \A h \in HakGoals : hak'[h] = "none" => hak[h] = "none"
      BY HakLife DEF RelayInv, HakSteps, Terminal
    <2>2. \A h \in HakGoals : hak[h] = "none" => feedbackSent'[h] = feedbackSent[h]
      <3>1. ASSUME NEW h \in HakGoals, HakSide(h)
            PROVE  \/ UNCHANGED feedbackSent
                   \/ hak[h] = "executing" /\ feedbackSent' = [feedbackSent EXCEPT ![h] = @ + 1]
        BY <3>1 DEF HakSide, HakGoalAnswer, HakFeedback, HakFinish, HakCancelAnswer, HakError
      <3>2. ASSUME NEW r \in RosGoals, (\E h \in HakGoals : GoalBegin(r, h)) \/ GoalTask(r)
            PROVE  UNCHANGED feedbackSent
        BY <3>2
           DEF GoalBegin, GoalTask, GoalSend, GoalSendFails, GoalWaitReturns, GoalReject,
               GoalAccept, BindRosAccepted, BindFails, CollectEarly, ExecuteGoal, DeliverEarly,
               AcceptedReturns
      <3>3. ASSUME NEW r \in RosGoals, CancelCalled(r) \/ CancelTask(r) \/ ExecTask(r)
            PROVE  UNCHANGED feedbackSent
        BY <3>3
           DEF CancelCalled, CancelTask, CancelBegin, CancelRefused, CancelSend, CancelSendFails,
               CancelWaitReturns, CancelAnswer, ExecTask, ExecStart, ExecAborts, ExecWake,
               ExecReturn
      <3>4. ASSUME PollTake \/ PollWork \/ PollFlush PROVE UNCHANGED feedbackSent
        BY <3>4, PollFrame
      <3>5. ASSUME Close PROVE UNCHANGED feedbackSent
        BY <3>5, CloseFrame
      <3>6. ASSUME UNCHANGED vars PROVE UNCHANGED feedbackSent
        BY <3>6 DEF vars
      <3>7. \/ UNCHANGED feedbackSent
            \/ \E h \in HakGoals : /\ hak[h] = "executing"
                                   /\ feedbackSent' = [feedbackSent EXCEPT ![h] = @ + 1]
        BY <3>1, <3>2, <3>3, <3>4, <3>5, <3>6 DEF Next, HakSide
      <3> QED
        BY <1>0, <3>7
    <2> QED
      BY <2>1, <2>2 DEF Tidy
  <1>3. ASSUME NEW q \in RosGoals PROVE Kept(q)'
    <2>0. Kept(q)
      BY DEF Tidy
    <2>1. ASSUME UNCHANGED <<early, published>>, goalPc'[q] = goalPc[q] PROVE Kept(q)'
      BY <2>0, <2>1
    <2>2. ASSUME NEW r \in RosGoals,
                 \/ \E h \in HakGoals : GoalBegin(r, h)
                 \/ GoalTask(r) /\ ~CollectEarly(r) /\ ~DeliverEarly(r)
          PROVE  Kept(q)'
      <3>1. UNCHANGED <<early, published>>
        BY <2>2
           DEF GoalBegin, GoalTask, GoalSend, GoalSendFails, GoalWaitReturns, GoalReject,
               GoalAccept, BindRosAccepted, BindFails, ExecuteGoal, AcceptedReturns
      <3>2. \/ goalPc[r] \notin BoundPc /\ \E pc \in GoalPc \ {"collected", "delivering"} :
                                               goalPc' = [goalPc EXCEPT ![r] = pc]
            \/ goalPc[r] = "collected" /\ goalPc' = [goalPc EXCEPT ![r] = "delivering"]
            \/ /\ goalPc[r] = "delivering" /\ early[r] = <<>>
               /\ goalPc' = [goalPc EXCEPT ![r] = "accepted"]
        BY <2>2
           DEF GoalBegin, GoalTask, GoalSend, GoalSendFails, GoalWaitReturns, GoalReject,
               GoalAccept, BindRosAccepted, BindFails, ExecuteGoal, AcceptedReturns, BoundPc, GoalPc
      <3> QED
        BY <1>0, <2>0, <3>1, <3>2 DEF BoundPc
    <2>3. ASSUME NEW r \in RosGoals, CollectEarly(r) PROVE Kept(q)'
      BY <1>0, <2>0, <2>3 DEF CollectEarly, BoundPc
    <2>4. ASSUME NEW r \in RosGoals, DeliverEarly(r) PROVE Kept(q)'
      <3>1. /\ goalPc' = goalPc /\ goalPc[r] = "delivering"
            /\ q # r => early'[q] = early[q] /\ published'[q] = published[q]
        BY <1>0, <2>4 DEF DeliverEarly, Deliver
      <3> QED
        BY <2>0, <3>1 DEF BoundPc
    <2>5. CASE PollDeliver
      <3>1. PICK r \in RosGoals, e \in Event : Delivered(r, e)
                /\ (published' = published \/ \E n : published' = [published EXCEPT ![r] = n])
        <4>1. PICK r \in RosGoals : boundTo[r] = pollEvent.goal /\ Deliver(r, pollEvent.goal, pollEvent)
          BY <2>5 DEF PollDeliver
        <4>2. pollEvent \in TrueEvents /\ pollEvent \in Event /\ pollEvent.goal \in HakGoals
          BY <2>5 DEF PollDeliver, RelayInv, EventsTrue, TrueEvents, Event
        <4>3. goalPc[r] \in BoundPc
          BY <4>1, <4>2, BoundFacts, ActionServerAssumption
        <4> QED
          BY <4>1, <4>2, <4>3 DEF Delivered, TrueOf, Deliver
      <3>2. UNCHANGED <<early, goalPc>> /\ goalPc[r] \in BoundPc
            /\ (q # r => published'[q] = published[q])
        BY <1>0, <2>5, <3>1 DEF PollDeliver, Delivered
      <3> QED
        BY <2>0, <3>2
    <2>6. ASSUME NEW r \in RosGoals, CancelCalled(r) \/ CancelTask(r) \/ ExecTask(r)
          PROVE  Kept(q)'
      BY <2>1, <2>6
         DEF CancelCalled, CancelTask, CancelBegin, CancelRefused, CancelSend, CancelSendFails,
             CancelWaitReturns, CancelAnswer, ExecTask, ExecStart, ExecAborts, ExecWake, ExecReturn
    <2>7. CASE PollTake \/ PollFlush \/ (PollWork /\ ~PollDeliver)
      BY <2>1, <2>7
         DEF PollTake, PollGoalResponse, PollCancelResponse, PollError, PollDelivery, PollFlush,
             PollWork, PollFind, PollEarly, PollDefer
    <2>8. CASE Close
      BY <2>1, <2>8, CloseFrame
    <2>9. ASSUME NEW h \in HakGoals, HakSide(h) PROVE Kept(q)'
      BY <2>1, <2>9, HakFrame
    <2>10. CASE UNCHANGED vars
      BY <2>1, <2>10 DEF vars
    <2> HIDE DEF Kept
    <2> QED
      BY <2>2, <2>3, <2>4, <2>5, <2>6, <2>7, <2>8, <2>9, <2>10 DEF Next, HakSide, PollWork
  <1> QED
    BY <1>1, <1>2, <1>3 DEF Tidy

\* An event that is not the n-th feedback of h, and one that is.
LEMMA FeedbackIs ==
    ASSUME NEW h, NEW n, NEW e \in Event
    PROVE  /\ e = Feedback(h, n) <=> e.kind = "FEEDBACK" /\ e.goal = h /\ e.seq = n
           /\ One(e, Feedback(h, n)) = (IF e.kind = "FEEDBACK" /\ e.goal = h /\ e.seq = n THEN 1 ELSE 0)
           /\ One(NoEvent, Feedback(h, n)) = 0
  <1>1. e = Feedback(h, n) => e.kind = "FEEDBACK" /\ e.goal = h /\ e.seq = n
    BY DEF Feedback
  <1>2. e.kind = "FEEDBACK" => e = [kind |-> "FEEDBACK", goal |-> e.goal, seq |-> e.seq]
    BY DEF Event
  <1>3. NoEvent # Feedback(h, n)
    BY DEF NoEvent, Feedback
  <1> QED
    BY <1>1, <1>2, <1>3 DEF One, Feedback

\* The counts are natural numbers.
LEMMA CopiesTyped ==
    ASSUME TypeOK, NEW r \in RosGoals, NEW h \in HakGoals, NEW n
    PROVE  /\ CopiesIn(events, Feedback(h, n)) \in Nat
           /\ One(pollEvent, Feedback(h, n)) \in Nat
           /\ CopiesIn(earlyEvents[h], Feedback(h, n)) \in Nat
           /\ CopiesIn(early[r], Feedback(h, n)) \in Nat
           /\ CopiesIn(published[r], n) \in Nat
  <1>1. /\ events \in Seq(Event) /\ earlyEvents[h] \in Seq(Event) /\ early[r] \in Seq(Event)
        /\ published[r] \in Seq(1 .. MaxFeedback)
    BY DEF TypeOK
  <1> QED
    BY <1>1, CopiesType DEF One

\* A new request finds nothing of its goal.
LEMMA FreshGoal ==
    ASSUME TypeOK, PairingInv, RelayInv, Tidy, NEW r \in RosGoals, NEW h \in HakGoals,
           GoalBegin(r, h), NEW n \in 1 .. MaxFeedback
    PROVE  Accounted(r, h, n)
  <1>1. hak[h] = "none" /\ feedbackSent[h] = 0
    BY DEF GoalBegin, RelayInv, SentOnce, Tidy
  <1>2. Feedback(h, n) \notin TrueEvents /\ Feedback(h, n) \notin TrueOf(h)
    BY <1>1 DEF TrueEvents, TrueOf, Feedback
  <1>3. events \in Seq(TrueEvents) /\ earlyEvents[h] \in Seq(TrueOf(h))
    BY DEF RelayInv, EventsTrue
  <1>4. early[r] = <<>> /\ published[r] = <<>>
    BY DEF GoalBegin, Tidy, BoundPc
  <1>5. One(pollEvent, Feedback(h, n)) = 0
    <2>1. CASE pollPc \in {"poll", "ended"}
      BY <2>1 DEF Tidy, One, NoEvent, Feedback
    <2>2. CASE pollPc \notin {"poll", "ended"}
      BY <1>2, <2>2 DEF RelayInv, EventsTrue, One
    <2> QED
      BY <2>1, <2>2
  <1>6. CopiesIn(events, Feedback(h, n)) = 0 /\ CopiesIn(earlyEvents[h], Feedback(h, n)) = 0
    BY <1>2, <1>3, CopiesNone
  <1>7. <<>> \in Seq({})
    OBVIOUS
  <1>8. \A e : CopiesIn(<<>>, e) = 0
    <2> TAKE e
    <2>1. e \notin {}
      OBVIOUS
    <2> QED
      BY <1>7, <2>1, CopiesNone
  <1> QED
    BY <1>1, <1>4, <1>5, <1>6, <1>8 DEF Accounted, Copies

\* The copies of a feedback that a step moves leave one place and come to the next.
LEMMA CopiesStep ==
    ASSUME TypeOK, PairingInv, RelayInv, Tidy, CopiesInv, [Next]_vars, Undisturbed',
           NEW q \in RosGoals, NEW h \in HakGoals, goalId'[q] = h, goalPc'[q] # "none",
           execPc'[q] \notin {"removing", "returned"}, NEW n \in 1 .. MaxFeedback
    PROVE  Accounted(q, h, n)'
  <1> DEFINE F == Feedback(h, n)
             Queued == CopiesIn(events, F)
             Held == One(pollEvent, F)
             Parked == CopiesIn(earlyEvents[h], F)
             Taken == CopiesIn(early[q], F)
             Given == CopiesIn(published[q], n)
             Sent == IF n <= feedbackSent[h] THEN 1 ELSE 0
             Going == goalId[q] = h /\ goalPc[q] # "none" /\ execPc[q] \notin {"removing", "returned"}
  <1>0. /\ goalPc \in [RosGoals -> GoalPc] /\ goalId \in [RosGoals -> HakGoals \cup {NoGoal}]
        /\ execPc \in [RosGoals -> {"none", "scheduled", "awaiting", "removing", "returned"}]
        /\ early \in [RosGoals -> Seq(Event)] /\ earlyEvents \in [HakGoals -> Seq(Event)]
        /\ published \in [RosGoals -> Seq(1 .. MaxFeedback)] /\ events \in Seq(Event)
        /\ feedbackSent \in [HakGoals -> 0 .. MaxFeedback] /\ MaxFeedback \in Nat
    BY ActionServerAssumption DEF TypeOK
  <1>u. Undisturbed /\ ~Close /\ ~Fault /\ \A g \in HakGoals : ~HakError(g)
    BY StaysUndisturbed
  <1>t. /\ Queued \in Nat /\ Held \in Nat /\ Parked \in Nat /\ Taken \in Nat /\ Given \in Nat
        /\ Queued' \in Nat /\ Held' \in Nat /\ Parked' \in Nat /\ Taken' \in Nat /\ Given' \in Nat
    <2>1. TypeOK'
      BY PairingStep
    <2>2. /\ events' \in Seq(Event) /\ earlyEvents'[h] \in Seq(Event) /\ early'[q] \in Seq(Event)
          /\ published'[q] \in Seq(1 .. MaxFeedback)
      BY <2>1 DEF TypeOK
    <2>3. Queued' \in Nat /\ Held' \in Nat /\ Parked' \in Nat /\ Taken' \in Nat /\ Given' \in Nat
      BY <2>2, CopiesType DEF One
    <2>4. Queued \in Nat /\ Held \in Nat /\ Parked \in Nat /\ Taken \in Nat /\ Given \in Nat
      BY CopiesTyped
    <2> QED
      BY <2>3, <2>4
  <1>b. ASSUME Going PROVE Queued + Held + Parked + Taken + Given = Sent
    BY <1>b, <1>u DEF CopiesInv, Accounted, Copies
  <1>e. Accounted(q, h, n)' <=> Queued' + Held' + Parked' + Taken' + Given' = Sent'
    BY DEF Accounted, Copies
  <1>o. ASSUME Going, NEW r \in RosGoals, boundTo[r] = h PROVE r = q
    BY <1>o, BoundFacts, ActionServerAssumption
  <1>g. ASSUME Going, boundTo[q] # NoGoal PROVE boundTo[q] = h
    BY <1>g, BoundFacts
  <1>1. ASSUME Going, UNCHANGED <<events, pollEvent, earlyEvents, early, published, feedbackSent>>
        PROVE  Accounted(q, h, n)'
    BY <1>b, <1>e, <1>1
  <1>2. ASSUME NEW r \in RosGoals, NEW g \in HakGoals, GoalBegin(r, g) PROVE Accounted(q, h, n)'
    <2>0. UNCHANGED <<execPc, events, pollEvent, earlyEvents, early, published, feedbackSent>>
      BY <1>2 DEF GoalBegin
    <2>1. CASE r = q
      <3>1. g = h
        BY <1>0, <1>2, <2>1 DEF GoalBegin
      <3>2. Accounted(q, h, n)
        BY <1>2, <2>1, <3>1, FreshGoal
      <3> QED
        BY <2>0, <3>2 DEF Accounted, Copies
    <2>2. CASE r # q
      <3>1. Going
        BY <1>0, <1>2, <2>0, <2>2 DEF GoalBegin
      <3> QED
        BY <1>1, <2>0, <3>1
    <2> QED
      BY <2>1, <2>2
  <1>3. ASSUME \A r \in RosGoals, g \in HakGoals : ~GoalBegin(r, g) PROVE Going
    <2>1. ASSUME UNCHANGED <<goalId, goalPc, execPc>> PROVE Going
      BY <2>1
    <2>2. ASSUME NEW r \in RosGoals, GoalTask(r) PROVE Going
      <3>1. /\ UNCHANGED goalId /\ goalPc[r] # "none"
            /\ goalPc' = goalPc \/ \E pc : goalPc' = [goalPc EXCEPT ![r] = pc]
            /\ \/ UNCHANGED execPc
               \/ goalPc[r] = "collected" /\ execPc' = [execPc EXCEPT ![r] = "scheduled"]
        BY <2>2
           DEF GoalTask, GoalSend, GoalSendFails, GoalWaitReturns, GoalReject, GoalAccept,
               BindRosAccepted, BindFails, CollectEarly, ExecuteGoal, DeliverEarly, AcceptedReturns
      <3>2. goalPc[r] = "collected" => execPc[r] = "none"
        BY BoundFacts
      <3> QED
        BY <1>0, <3>1, <3>2
    <2>3. ASSUME NEW r \in RosGoals, ExecTask(r) PROVE Going
      <3>1. UNCHANGED <<goalId, goalPc>>
            /\ \/ execPc[r] \in {"scheduled", "awaiting"}
               \/ execPc[r] = "removing" /\ execPc' = [execPc EXCEPT ![r] = "returned"]
            /\ \E pc : execPc' = [execPc EXCEPT ![r] = pc]
        BY <2>3 DEF ExecTask, ExecStart, ExecAborts, ExecWake, ExecReturn
      <3> QED
        BY <1>0, <3>1
    <2>4. ASSUME NEW r \in RosGoals, CancelCalled(r) \/ CancelTask(r) PROVE Going
      BY <2>1, <2>4
         DEF CancelCalled, CancelTask, CancelBegin, CancelRefused, CancelSend, CancelSendFails,
             CancelWaitReturns, CancelAnswer
    <2>5. ASSUME PollTake \/ PollWork \/ PollFlush PROVE Going
      BY <2>1, <2>5, PollFrame
    <2>6. ASSUME NEW g \in HakGoals, HakSide(g) PROVE Going
      BY <2>1, <2>6, HakFrame
    <2>7. ASSUME UNCHANGED vars PROVE UNCHANGED <<goalId, goalPc, execPc>>
      BY <2>7 DEF vars
    <2> HIDE DEF Going
    <2> QED
      BY <1>u, <1>3, <2>1, <2>2, <2>3, <2>4, <2>5, <2>6, <2>7 DEF Next, HakSide
  <1>4. ASSUME Going, NEW r \in RosGoals, CollectEarly(r) PROVE Accounted(q, h, n)'
    <2>1. /\ UNCHANGED <<events, pollEvent, published, feedbackSent>>
          /\ early' = [early EXCEPT ![r] = earlyEvents[boundTo[r]]]
          /\ earlyEvents' = [earlyEvents EXCEPT ![boundTo[r]] = <<>>] /\ goalPc[r] = "bound"
      BY <1>4 DEF CollectEarly, WithoutParked
    <2>2. boundTo[r] = goalId[r] /\ boundTo[r] \in HakGoals
      BY <2>1, BoundFacts DEF BoundPc
    <2>3. CASE r = q
      <3>1. early[q] = <<>> /\ early'[q] = earlyEvents[h] /\ earlyEvents'[h] = <<>>
        BY <1>0, <1>4, <2>1, <2>2, <2>3 DEF Tidy
      <3>2. Taken' = Parked /\ Parked' = Taken
        BY <3>1
      <3> QED
        BY <1>b, <1>e, <1>t, <1>4, <2>1, <3>2
    <2>4. CASE r # q
      <3>1. boundTo[r] # h
        BY <1>o, <1>4, <2>4
      <3>2. early'[q] = early[q] /\ earlyEvents'[h] = earlyEvents[h]
        BY <1>0, <2>1, <2>4, <3>1
      <3> QED
        BY <1>b, <1>e, <1>4, <2>1, <3>2
    <2> QED
      BY <2>3, <2>4
  <1>5. ASSUME Going, NEW r \in RosGoals, boundTo[r] \in HakGoals, NEW e \in TrueOf(boundTo[r]),
               Deliver(r, boundTo[r], e)
        PROVE  /\ published'[q] \in Seq(1 .. MaxFeedback)
               /\ Given' = Given + (IF r = q THEN One(e, F) ELSE 0)
               /\ r # q => One(e, F) = 0
    <2>1. e \in Event /\ e.goal = boundTo[r] /\ (e.kind = "FEEDBACK" => e.seq \in 1 .. MaxFeedback)
      BY <1>5 DEF TrueOf, TrueEvents, Event
    <2>2. One(e, F) = IF e.kind = "FEEDBACK" /\ e.goal = h /\ e.seq = n THEN 1 ELSE 0
      BY <2>1, FeedbackIs
    <2>3. r = q <=> e.goal = h
      <3>1. boundTo[r] # NoGoal
        BY <1>5, ActionServerAssumption
      <3> QED
        BY <1>o, <1>g, <1>5, <2>1, <3>1
    <2>4. \/ /\ e.kind = "FEEDBACK"
             /\ published' = [published EXCEPT ![r] = Append(@, e.seq)]
          \/ e.kind # "FEEDBACK" /\ published' = published
      BY <1>u, <1>5 DEF Deliver, IsResult
    <2>5. CASE e.kind = "FEEDBACK" /\ published' = [published EXCEPT ![r] = Append(@, e.seq)]
      <3>1. CASE r = q
        <4>1. published'[q] = Append(published[q], e.seq) /\ published[q] \in Seq(1 .. MaxFeedback)
          BY <1>0, <2>5, <3>1
        <4>2. e.seq \in 1 .. MaxFeedback
          BY <2>1, <2>5
        <4>3. CopiesIn(Append(published[q], e.seq), n) = CopiesIn(published[q], n) + One(e.seq, n)
          BY <4>1, <4>2, CopiesAppend
        <4>4. Append(published[q], e.seq) \in Seq(1 .. MaxFeedback)
          BY <4>1, <4>2
        <4>5. One(e.seq, n) = One(e, F)
          BY <2>2, <2>3, <2>5, <3>1 DEF One
        <4> QED
          BY <3>1, <4>1, <4>3, <4>4, <4>5
      <3>2. CASE r # q
        <4>1. published'[q] = published[q]
          BY <1>0, <2>5, <3>2
        <4> QED
          BY <1>0, <1>t, <2>2, <2>3, <3>2, <4>1
      <3> QED
        BY <3>1, <3>2
    <2>6. CASE e.kind # "FEEDBACK" /\ published' = published
      BY <1>0, <1>t, <2>2, <2>6
    <2> QED
      BY <2>4, <2>5, <2>6
  <1>6. ASSUME Going, NEW r \in RosGoals, DeliverEarly(r) PROVE Accounted(q, h, n)'
    <2>1. /\ UNCHANGED <<events, pollEvent, earlyEvents, feedbackSent>>
          /\ early' = [early EXCEPT ![r] = Tail(early[r])] /\ early[r] # <<>>
          /\ goalPc[r] = "delivering" /\ Deliver(r, boundTo[r], Head(early[r]))
      BY <1>6 DEF DeliverEarly
    <2>2. boundTo[r] \in HakGoals /\ early[r] \in Seq(TrueOf(boundTo[r]))
      BY <2>1, BoundFacts DEF RelayInv, EventsTrue, BoundPc
    <2>3. Head(early[r]) \in TrueOf(boundTo[r])
          /\ CopiesIn(early[r], F) = One(Head(early[r]), F) + CopiesIn(Tail(early[r]), F)
      BY <2>1, <2>2, CopiesHead
    <2>4. Given' = Given + (IF r = q THEN One(Head(early[r]), F) ELSE 0)
      BY <1>5, <1>6, <2>1, <2>2, <2>3
    <2>5. CASE r = q
      <3>1. early'[q] = Tail(early[q])
        BY <1>0, <2>1, <2>5
      <3>2. Taken = One(Head(early[q]), F) + Taken'
        BY <2>3, <2>5, <3>1
      <3>3. One(Head(early[q]), F) \in Nat
        BY DEF One
      <3> HIDE DEF Queued, Held, Parked, Taken, Given
      <3> QED
        BY <1>b, <1>e, <1>t, <1>6, <2>1, <2>4, <2>5, <3>2, <3>3 DEF Queued, Held, Parked
    <2>6. CASE r # q
      <3>1. early'[q] = early[q]
        BY <1>0, <2>1, <2>6
      <3>2. Taken' = Taken /\ Given' = Given
        BY <1>t, <2>4, <2>6, <3>1
      <3> QED
        BY <1>b, <1>e, <1>6, <2>1, <3>2
    <2> QED
      BY <2>5, <2>6
  <1>7. ASSUME Going, NEW r \in RosGoals, ExecWake(r) PROVE Accounted(q, h, n)'
    <2>1. /\ UNCHANGED <<events, pollEvent, early, published, feedbackSent>>
          /\ earlyEvents' = [earlyEvents EXCEPT ![boundTo[r]] = <<>>]
          /\ execPc' = [execPc EXCEPT ![r] = "removing"]
      BY <1>7 DEF ExecWake
    <2>2. boundTo[r] # h
      BY <1>0, <1>o, <1>7, <2>1
    <2>3. earlyEvents'[h] = earlyEvents[h]
      BY <1>0, <2>1, <2>2
    <2> QED
      BY <1>b, <1>e, <1>7, <2>1, <2>3
  <1>8. ASSUME Going, NEW r \in RosGoals,
               \/ GoalTask(r) /\ ~CollectEarly(r) /\ ~DeliverEarly(r)
               \/ CancelCalled(r) \/ CancelTask(r) \/ (ExecTask(r) /\ ~ExecWake(r))
        PROVE  Accounted(q, h, n)'
    <2>1. UNCHANGED <<events, pollEvent, earlyEvents, early, published, feedbackSent>>
      BY <1>8
         DEF GoalTask, GoalSend, GoalSendFails, GoalWaitReturns, GoalReject, GoalAccept,
             BindRosAccepted, BindFails, ExecuteGoal, AcceptedReturns, CancelCalled, CancelTask,
             CancelBegin, CancelRefused, CancelSend, CancelSendFails, CancelWaitReturns,
             CancelAnswer, ExecTask, ExecStart, ExecAborts, ExecReturn
    <2> QED
      BY <1>1, <1>8, <2>1
  <1>9. ASSUME Going, PollTake PROVE Accounted(q, h, n)'
    <2>1. /\ UNCHANGED <<earlyEvents, early, published, feedbackSent>> /\ pollPc = "poll"
          /\ events # <<>> /\ events' = Tail(events)
          /\ \/ pollEvent' = Head(events)
             \/ Head(events).kind # "FEEDBACK" /\ UNCHANGED pollEvent
      BY <1>9 DEF PollTake, PollGoalResponse, PollCancelResponse, PollError, PollDelivery, Polled
    <2>2. Head(events) \in Event /\ Queued = One(Head(events), F) + Queued'
      BY <1>0, <2>1, CopiesHead
    <2>3. Held = 0
      BY <2>1, <2>2, FeedbackIs DEF Tidy
    <2>4. Held' = One(Head(events), F)
      BY <2>1, <2>2, <2>3, FeedbackIs
    <2>5. Parked' = Parked /\ Taken' = Taken /\ Given' = Given /\ Sent' = Sent
      BY <2>1
    <2> HIDE DEF Queued, Held, Parked, Taken, Given, Sent
    <2> QED
      BY <1>b, <1>e, <1>t, <1>9, <2>2, <2>3, <2>4, <2>5
  <1>10. ASSUME Going, PollEarly PROVE Accounted(q, h, n)'
    <2>1. /\ UNCHANGED <<events, early, published, feedbackSent>>
          /\ earlyEvents' = [earlyEvents EXCEPT ![pollEvent.goal] = Append(@, pollEvent)]
          /\ pollEvent' = NoEvent /\ pollPc = "early"
      BY <1>10 DEF PollEarly
    <2>2. pollEvent \in Event /\ pollEvent.goal \in HakGoals
      BY <2>1 DEF PairingInv, PollHolds, Event
    <2>3. Held' = 0
      BY <2>1, <2>2, FeedbackIs
    <2>4. Parked' = Parked + Held
      <3>1. CASE pollEvent.goal = h
        <4>1. earlyEvents'[h] = Append(earlyEvents[h], pollEvent) /\ earlyEvents[h] \in Seq(Event)
          BY <1>0, <2>1, <3>1
        <4> QED
          BY <2>2, <4>1, CopiesAppend
      <3>2. CASE pollEvent.goal # h
        <4>1. earlyEvents'[h] = earlyEvents[h]
          BY <1>0, <2>1, <3>2
        <4>2. Held = 0
          BY <2>2, <3>2, FeedbackIs
        <4> QED
          BY <1>t, <4>1, <4>2
      <3> QED
        BY <3>1, <3>2
    <2>5. Queued' = Queued /\ Taken' = Taken /\ Given' = Given /\ Sent' = Sent
      BY <2>1
    <2> HIDE DEF Queued, Held, Parked, Taken, Given, Sent
    <2> QED
      BY <1>b, <1>e, <1>t, <1>10, <2>3, <2>4, <2>5
  <1>11. ASSUME Going, PollDeliver PROVE Accounted(q, h, n)'
    <2>1. PICK r \in RosGoals : boundTo[r] = pollEvent.goal /\ Deliver(r, pollEvent.goal, pollEvent)
      BY <1>11 DEF PollDeliver
    <2>2. /\ UNCHANGED <<events, earlyEvents, early, feedbackSent>> /\ pollEvent' = NoEvent
          /\ pollPc = "deliver"
      BY <1>11 DEF PollDeliver
    <2>3. pollEvent \in Event /\ pollEvent \in TrueEvents /\ pollEvent.goal \in HakGoals
      BY <2>2 DEF RelayInv, EventsTrue, TrueEvents, Event
    <2>4. pollEvent \in TrueOf(boundTo[r]) /\ boundTo[r] \in HakGoals
      BY <2>1, <2>3 DEF TrueOf
    <2>5. Given' = Given + (IF r = q THEN Held ELSE 0) /\ (r # q => Held = 0)
      BY <1>5, <1>11, <2>1, <2>4
    <2>6. Held' = 0
      BY <2>2, <2>3, FeedbackIs
    <2>7. Queued' = Queued /\ Parked' = Parked /\ Taken' = Taken /\ Sent' = Sent
      BY <2>2
    <2> HIDE DEF Queued, Held, Parked, Taken, Given, Sent
    <2> QED
      BY <1>b, <1>e, <1>t, <1>11, <2>5, <2>6, <2>7
  <1>12. ASSUME Going, PollFind \/ PollDefer \/ PollFlush PROVE Accounted(q, h, n)'
    <2>1. UNCHANGED <<events, earlyEvents, early, published, feedbackSent>>
      BY <1>12 DEF PollFind, PollDefer, PollFlush
    <2>2. \A g \in HakGoals : One(CanceledResult(g), F) = 0 /\ One(NoEvent, F) = 0
      BY DEF One, NoEvent, CanceledResult, Feedback
    <2>3. Held' = Held
      <3>1. CASE PollFind
        BY <3>1 DEF PollFind
      <3>2. CASE PollDefer
        <4>1. pollEvent' = NoEvent /\ pollEvent = CanceledResult(pollEvent.goal) /\ pollEvent.goal \in HakGoals
          BY <3>2 DEF PollDefer, RelayInv, EventsTrue, TrueEvents, Event
        <4> QED
          BY <2>2, <4>1
      <3>3. CASE PollFlush
        <4>1. PICK g \in HakGoals : pollEvent' = CanceledResult(g)
          BY <3>3 DEF PollFlush
        <4>2. pollEvent = NoEvent
          BY <3>3 DEF PollFlush, Tidy
        <4> QED
          BY <2>2, <4>1, <4>2
      <3> QED
        BY <1>12, <3>1, <3>2, <3>3
    <2> QED
      BY <1>b, <1>e, <1>12, <2>1, <2>3
  <1>13. ASSUME Going, NEW g \in HakGoals, HakSide(g) PROVE Accounted(q, h, n)'
    <2>1. UNCHANGED <<pollEvent, earlyEvents, early, published>>
      BY <1>13, HakFrame
    <2>2. ASSUME UNCHANGED feedbackSent, NEW e \in Event, e.kind # "FEEDBACK", Emit(e)
          PROVE  Accounted(q, h, n)'
      <3>1. Queued' = Queued + One(e, F)
        BY <1>0, <2>2, CopiesAppend DEF Emit
      <3>2. One(e, F) = 0
        BY <2>2, FeedbackIs
      <3>3. Held' = Held /\ Parked' = Parked /\ Taken' = Taken /\ Given' = Given /\ Sent' = Sent
        BY <2>1, <2>2
      <3> HIDE DEF Queued, Held, Parked, Taken, Given, Sent
      <3> QED
        BY <1>b, <1>e, <1>t, <1>13, <3>1, <3>2, <3>3
    <2>3. ASSUME HakFeedback(g) PROVE Accounted(q, h, n)'
      <3> DEFINE e == Feedback(g, feedbackSent[g] + 1)
      <3>1. /\ feedbackSent' = [feedbackSent EXCEPT ![g] = feedbackSent[g] + 1]
            /\ feedbackSent[g] < MaxFeedback /\ Emit(e)
        BY <2>3 DEF HakFeedback, NextSeq, Feedback
      <3>2. e \in Event
        BY <1>0, <3>1 DEF Event, Feedback
      <3>3. Queued' = Queued + One(e, F)
        BY <1>0, <3>1, <3>2, CopiesAppend DEF Emit
      <3>4. One(e, F) = IF g = h /\ n = feedbackSent[g] + 1 THEN 1 ELSE 0
        BY DEF One, Feedback
      <3>5. Sent' = Sent + One(e, F)
        <4>1. CASE g = h
          BY <1>0, <3>1, <3>4, <4>1
        <4>2. CASE g # h
          BY <1>0, <3>1, <3>4, <4>2
        <4> QED
          BY <4>1, <4>2
      <3>6. Held' = Held /\ Parked' = Parked /\ Taken' = Taken /\ Given' = Given
        BY <2>1
      <3>7. One(e, F) \in Nat
        BY DEF One
      <3> HIDE DEF Queued, Held, Parked, Taken, Given, Sent, e
      <3> QED
        BY <1>b, <1>e, <1>t, <1>13, <3>3, <3>5, <3>6, <3>7
    <2>4. ASSUME HakGoalAnswer(g) PROVE Accounted(q, h, n)'
      <3>1. PICK accept \in BOOLEAN :
                Emit([kind |-> "GOAL_RESPONSE", goal |-> g, accepted |-> accept])
        BY <2>4 DEF HakGoalAnswer
      <3> QED
        BY <2>2, <2>4, <3>1 DEF HakGoalAnswer, Event
    <2>5. ASSUME HakFinish(g) PROVE Accounted(q, h, n)'
      <3>1. PICK status \in Terminal : Emit([kind |-> "RESULT", goal |-> g, status |-> status])
        BY <2>5 DEF HakFinish
      <3> QED
        BY <2>2, <2>5, <3>1 DEF HakFinish, Event
    <2>6. ASSUME HakCancelAnswer(g) PROVE Accounted(q, h, n)'
      <3>1. PICK accept \in BOOLEAN :
                Emit([kind |-> "CANCEL_RESPONSE", goal |-> g, accepted |-> accept])
        BY <2>6 DEF HakCancelAnswer
      <3> QED
        BY <2>2, <2>6, <3>1 DEF HakCancelAnswer, Event
    <2> QED
      BY <1>u, <1>13, <2>3, <2>4, <2>5, <2>6 DEF HakSide
  <1>14. ASSUME UNCHANGED vars PROVE Accounted(q, h, n)'
    <2>1. UNCHANGED <<events, pollEvent, earlyEvents, early, published, feedbackSent>>
          /\ UNCHANGED <<goalId, goalPc, execPc>>
      BY <1>14 DEF vars
    <2>2. Going
      BY <2>1
    <2> QED
      BY <1>1, <2>1, <2>2
  <1> HIDE DEF Going
  <1> QED
    BY <1>u, <1>2, <1>3, <1>4, <1>6, <1>7, <1>8, <1>9, <1>10, <1>11, <1>12, <1>13, <1>14
       DEF Next, HakSide, PollWork

\* In every reachable state each feedback is accounted for as long as nothing disturbs the node.
LEMMA CopiesInvariant == Spec => [](TypeOK /\ Tidy /\ CopiesInv)
  <1>1. ASSUME Init PROVE Tidy /\ CopiesInv
    <2>1. Tidy
      BY <1>1 DEF Init, Tidy
    <2>2. CopiesInv
      BY <1>1 DEF Init, CopiesInv
    <2> QED
      BY <2>1, <2>2
  <1>2. ASSUME TypeOK, PairingInv, RelayInv, Tidy, CopiesInv, [Next]_vars
        PROVE  Tidy' /\ CopiesInv'
    <2>1. Tidy'
      BY <1>2, TidyStep
    <2>2. ASSUME Undisturbed', NEW r \in RosGoals, goalPc'[r] # "none",
                 execPc'[r] \notin {"removing", "returned"}, NEW n \in 1 .. MaxFeedback
          PROVE  Accounted(r, goalId[r], n)'
      <3>1. (TypeOK /\ PairingInv)'
        BY <1>2, PairingStep
      <3>2. PICK h \in HakGoals : h = goalId'[r]
        BY <2>2, <3>1 DEF PairingInv, GoalIdsDistinct, TypeOK
      <3>3. Accounted(r, h, n)'
        BY <1>2, <2>2, <3>2, CopiesStep
      <3> QED
        BY <3>2, <3>3 DEF Accounted, Copies
    <2> QED
      BY <2>1, <2>2 DEF CopiesInv
  <1> QED
    BY <1>1, <1>2, RelayInvariant, PTL DEF Spec

\* Until the execute callback of its goal ends, every feedback that Hakoniwa sent is in one place
\* of its way to the ROS client, once: the two threads that deliver it lose none and double none.
THEOREM FeedbackAccountedHolds == Spec => []FeedbackAccounted
  <1>1. ASSUME TypeOK, PairingInv, CopiesInv PROVE FeedbackAccounted
    <2> SUFFICES ASSUME Undisturbed, NEW r \in RosGoals, goalId[r] # NoGoal,
                        execPc[r] \notin {"removing", "returned"},
                        NEW n \in 1 .. feedbackSent[goalId[r]]
                 PROVE  CopiesIn(events \o <<pollEvent>> \o earlyEvents[goalId[r]] \o early[r],
                                 Feedback(goalId[r], n))
                        + CopiesIn(published[r], n) = 1
      BY DEF FeedbackAccounted, Feedback
    <2> DEFINE F == Feedback(goalId[r], n)
               S == Event \cup {NoEvent}
               parked == earlyEvents[goalId[r]]
               held == <<pollEvent>>
    <2>1. goalId[r] \in HakGoals /\ goalPc[r] # "none"
      BY <1>1 DEF TypeOK, PairingInv, GoalIdsDistinct
    <2>2. feedbackSent[goalId[r]] \in 0 .. MaxFeedback
      BY <2>1, <1>1 DEF TypeOK
    <2>3. n \in 1 .. MaxFeedback /\ n <= feedbackSent[goalId[r]]
      BY <2>2, ActionServerAssumption
    <2>4. CopiesIn(events, F) + One(pollEvent, F) + CopiesIn(parked, F) + CopiesIn(early[r], F)
              + CopiesIn(published[r], n) = 1
      BY <1>1, <2>1, <2>3 DEF CopiesInv, Accounted, Copies
    <2>5. /\ events \in Seq(S) /\ held \in Seq(S) /\ parked \in Seq(S) /\ early[r] \in Seq(S)
      <3>1. events \in Seq(Event) /\ parked \in Seq(Event) /\ early[r] \in Seq(Event) /\ pollEvent \in S
        BY <1>1, <2>1 DEF TypeOK
      <3>2. <<pollEvent>> \in Seq(S)
        BY <3>1
      <3>3. Event \subseteq S
        OBVIOUS
      <3> HIDE DEF S, parked
      <3> QED
        BY <3>1, <3>2, <3>3, SeqGrows
    <2>6. CopiesIn(held, F) = One(pollEvent, F)
      BY CopiesOne
    <2> HIDE DEF S, F, parked, held
    <2>7. CopiesIn(events \o held \o parked \o early[r], F)
              = CopiesIn(events, F) + CopiesIn(held, F) + CopiesIn(parked, F)
                + CopiesIn(early[r], F)
      BY <2>5, CopiesConcat4
    <2>8. CopiesIn(events \o held \o parked \o early[r], F) + CopiesIn(published[r], n) = 1
      BY <2>4, <2>6, <2>7
    <2> QED
      BY <2>8 DEF F, parked, held
  <1> QED
    BY <1>1, CopiesInvariant, PairingInvariant, PTL
=============================================================================
