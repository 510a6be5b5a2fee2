---------------------- MODULE ActionClientBridge_proofs ----------------------
EXTENDS ActionClientBridge, FiniteSetTheorems, TLAPS

HakStates == {"none", "requested", "rejected", "accepted"} \cup Terminal
RosStates == {"none", "requested", "rejected", "executing", "canceling"} \cup Terminal
Clearing  == {"cleared", "closed"}

\* The types, one part for each group of variables.
StateTypes ==
    /\ ros \in RosStates /\ hak \in HakStates
    /\ pollPc \in {"poll", "sendGoal", "sendCancel"}
    /\ goalPc \in {"none", "accept", "flush", "publish", "done"}
    /\ closePc \in {"running", "stopping", "joined"} \cup Clearing
    /\ faults \in Nat

FeedbackTypes ==
    /\ pendingFeedback \in Seq(Nat) /\ goalFeedback \in Seq(Nat) /\ received \in Seq(Nat)
    /\ publishing \subseteq 1 .. started
    /\ started \in Nat /\ rosFeedback \in Nat /\ started <= rosFeedback

CancelTypes ==
    /\ asked \in 0 .. MaxCancels /\ polled \in Nat /\ polled <= asked
    /\ cancelPc \in [Cancels -> {"none", "sent", "check", "reply", "record", "done"}]
    /\ cancelFound \in [Cancels -> BOOLEAN]

ResultTypes ==
    /\ pendingResult \in Took /\ resultPc \in {"none", "done"} /\ completions \in Nat
    /\ deliverPc \in [Deliverers -> {"none", "complete", "remove", "done"}]
    /\ took \in [Deliverers -> Took]

TypeInv == StateTypes /\ FeedbackTypes /\ CancelTypes /\ ResultTypes

\* The way of the goal: from the Hakoniwa client to the ROS server and back.
GoalOrder ==
    /\ ~goalPolled => hak \in {"none", "requested"} /\ pollPc # "sendGoal" /\ ~terminal
    /\ hak = "none" => ~goalPolled
    /\ ~goalPolled \/ pollPc = "sendGoal" => ros = "none"
    /\ pollPc = "sendGoal" => hak = "requested"
    /\ ros \in {"none", "requested"} => goalPc = "none"
    /\ ros \notin {"none"} /\ goalPc \in {"none", "accept"} => hak = "requested"
    /\ ros \in {"none", "requested", "rejected"} => rosFeedback = 0
    /\ goalPc \in {"none", "accept", "flush"} => ~hakoniwaAccepted /\ goalFeedback = <<>>
    /\ goalPc \in {"none", "accept"} => ~resultRequested
    /\ resultPc # "none" => resultRequested
    /\ registered => goalPolled
    /\ goalPc \in {"flush", "publish"} \/ hakoniwaAccepted => hak \in {"accepted"} \cup Terminal

\* The cancel requests: each has one callback, and the ROS server has accepted those
\* that it has listed.
CancelOrder ==
    /\ \A c \in Cancels : cancelPc[c] # "none" => c <= polled
    /\ pollPc = "sendCancel" => polled # 0 /\ cancelPc[polled] = "none"
    /\ \/ pollPc = "sendCancel" \/ cancelPending \/ cancelAccepted
       \/ \E c \in Cancels : cancelPc[c] # "none"
       => hakoniwaAccepted
    /\ \A c \in Cancels : cancelPc[c] \in {"none", "sent"} => ~cancelFound[c]
    /\ \A c \in Cancels : cancelFound[c] => ros \in {"canceling"} \cup Terminal
    /\ CancelAcceptedByRos

\* The result is in one place: pending, or taken by one thread, until it is completed.
OneResult ==
    /\ \A d, e \in Deliverers : took[d] # "none" /\ took[e] # "none" => d = e
    /\ pendingResult # "none" => \A d \in Deliverers : took[d] = "none"
    /\ resultPc = "none" => pendingResult = "none" /\ \A d \in Deliverers : took[d] = "none"
    /\ \A d \in Deliverers : deliverPc[d] # "none" => took[d] # "none"
    /\ goalPc # "done" => deliverPc[OfGoal] = "none"
    /\ \A c \in Cancels : cancelPc[c] # "done" => took[OfCancel(c)] = "none"
    /\ CompleteAtMostOnce
    /\ completions = 1 =>
           /\ pendingResult = "none" /\ resultPc = "done"
           /\ \A d \in Deliverers : took[d] # "none" => deliverPc[d] \in {"remove", "done"}

\* A result stands for the end of the ROS goal, or for an exception.
ResultOfRos ==
    /\ pendingResult = "result" \/ (\E d \in Deliverers : took[d] = "result") => ros \in Terminal
    /\ pendingResult = "error" \/ (\E d \in Deliverers : took[d] = "error") => faults > 0

\* The Hakoniwa goal while nothing goes wrong: accepted until it is completed.
GoalUndisturbed ==
    Undisturbed =>
        /\ resultRequested /\ completions = 0 => hak = "accepted"
        /\ terminal => hak \in {"rejected"} \cup Terminal
        /\ registered /\ hak \in Terminal => \E d \in Deliverers : deliverPc[d] = "remove"
        /\ \A d \in Deliverers : deliverPc[d] = "remove" => hak \in Terminal

\* One cancel request and no other: what the ROS server accepted is recorded before the
\* result is taken.
OneCancel == Undisturbed /\ asked <= 1 /\ runtimeCancel = "none"

CancelRecorded ==
    OneCancel =>
        /\ bestEffort # "sent"
        /\ \A c \in Cancels : cancelPc[c] \in {"sent", "check", "reply", "record"} => cancelPending
        /\ pollPc = "sendCancel" => cancelPending
        /\ ros \in {"canceling", "canceled"} /\ hak \notin Terminal =>
               \E c \in Cancels :
                   /\ cancelFound[c]
                   /\ \/ cancelPc[c] \in {"check", "reply", "record"}
                      \/ cancelPc[c] = "done" /\ cancelAccepted
        /\ ros = "canceled" /\ completions = 0 /\ (\E d \in Deliverers : took[d] # "none")
               => cancelAccepted
        /\ hak \in Terminal => hak = ros

\* The context is there as long as the goal is; the endpoint is closed after it.
ContextOrder ==
    /\ goalPolled => registered \/ terminal \/ hak = "rejected"
    /\ closePc \in Clearing => terminal \/ ~goalPolled \/ hak = "rejected"

Elements(s) == {s[i] : i \in 1 .. Len(s)}

\* The feedback of a goal that has not ended: how many messages the places hold, and
\* which messages are in none of them.
Places == Len(pendingFeedback) + Len(goalFeedback) + Len(received) + Cardinality(publishing)
InPlace ==
    Elements(pendingFeedback) \cup Elements(goalFeedback) \cup Elements(received) \cup publishing
Lost == (1 .. started) \ InPlace

FeedbackInv ==
    hak \in {"none", "requested", "accepted"} /\ ~terminal =>
        /\ Places + Cardinality(Lost) <= started
        /\ Cardinality(Lost) <= faults
PublishingAccepted == publishing # {} => hakoniwaAccepted

USE DEF lifeVars, flagVars, pendingVars, contextVars, goalVars, cancelVars, deliverVars,
        callbackVars, threadVars, rosVars, hakCancelVars, hakVars

-----------------------------------------------------------------------------
\* The tuples that name the threads are different.
LEMMA ThreadsDiffer ==
    /\ OfGoal \in Deliverers /\ OfResult \in Deliverers /\ OfGoal # OfResult
    /\ \A c \in Cancels : OfCancel(c) \in Deliverers /\ OfCancel(c) # OfGoal /\ OfCancel(c) # OfResult
    /\ \A c, e \in Cancels : OfCancel(c) = OfCancel(e) => c = e
  BY DEF Deliverers, OfGoal, OfResult, OfCancel, Cancels

\* Every step keeps the types: the states of the threads and of the two goals ...
LEMMA StateStep ==
    ASSUME StateTypes, ResultTypes, OneResult, ResultOfRos, [Next]_vars
    PROVE  StateTypes'
  <1> USE ActionClientAssumption
      DEF StateTypes, HakStates, RosStates, Terminal, Clearing
  <1>1. ASSUME HakoniwaClient PROVE StateTypes'
    BY <1>1 DEF HakoniwaClient, HakRequestsGoal, HakRequestsCancel, HakRuntimeCancels
  <1>2. ASSUME PollThread PROVE StateTypes'
    <2>1. ASSUME GoalUnavailable \/ GoalRequest \/ GoalSend \/ GoalSendFails PROVE StateTypes'
      BY <2>1 DEF GoalUnavailable, GoalRequest, GoalSend, GoalSendFails, RejectGoal, Fault
    <2>2. ASSUME CancelRefuse \/ CancelRequest \/ RuntimeCancel PROVE StateTypes'
      BY <2>2 DEF CancelRefuse, CancelRequest, RuntimeCancel
    <2>3. ASSUME CancelSend PROVE StateTypes'
      BY <2>3 DEF CancelSend
    <2>4. ASSUME CancelSendFails PROVE StateTypes'
      BY <2>4 DEF CancelSendFails, Fault
    <2> QED
      BY <1>2, <2>1, <2>2, <2>3, <2>4 DEF PollThread
  <1>3. ASSUME RosServer PROVE StateTypes'
    BY <1>3 DEF RosServer, RosAnswersGoal, RosFinishes, RosFeedback, RosTakesBestEffort, RosStep,
                RosAnswersCancel, Fault
  <1>4. ASSUME GoalCallback PROVE StateTypes'
    <2>1. ASSUME GoalRejected \/ GoalHandle \/ GoalAccept PROVE StateTypes'
      BY <2>1 DEF GoalRejected, GoalHandle, GoalAccept, RejectGoal
    <2>2. ASSUME GoalResponseFails PROVE StateTypes'
      <3>1. faults' \in Nat
        BY <2>2 DEF GoalResponseFails, Fault
      <3>2. goalPc' = "done" /\ UNCHANGED <<ros, hak, pollPc, closePc>>
        BY <2>2 DEF GoalResponseFails
      <3> QED
        BY <3>1, <3>2
    <2>3. ASSUME GoalFlush PROVE StateTypes'
      <3>1. goalPc' \in {"done", "publish"} /\ UNCHANGED <<ros, hak, pollPc, closePc, faults>>
        BY <2>3 DEF GoalFlush
      <3> QED
        BY <3>1
    <2>4. ASSUME GoalPublish \/ GoalPublished PROVE StateTypes'
      BY <2>4 DEF GoalPublish, GoalPublished, Publish, Fault
    <2> QED
      BY <1>4, <2>1, <2>2, <2>3, <2>4 DEF GoalCallback
  <1>5. ASSUME FeedbackCallback \/ ResultCallback PROVE StateTypes'
    BY <1>5 DEF FeedbackCallback, FeedbackStart, FeedbackPublish, Publish, ResultCallback, RosResult,
                RosResultFails, Fault
  <1>6. ASSUME NEW c \in Cancels, CancelCallback(c) PROVE StateTypes'
    BY <1>6 DEF CancelCallback, CancelCheck, CancelReply, CancelReplyFails, CancelRecord, Fault
  <1>7. ASSUME NEW d \in Deliverers, Delivery(d) PROVE StateTypes'
    <2>1. ASSUME Complete(d) PROVE StateTypes'
      <3>1. took[d] # "none" /\ (took[d] # "error" => ros \in Terminal)
        BY <2>1 DEF Complete, OneResult, ResultOfRos, ResultTypes, Took
      <3>2. hak' \in {hak} \cup Terminal
        BY <2>1, <3>1 DEF Complete, StatusOf
      <3>3. faults' \in Nat /\ UNCHANGED <<ros, pollPc, goalPc, closePc>>
        BY <2>1 DEF Complete, Fault
      <3> QED
        BY <3>2, <3>3
    <2>2. ASSUME RemoveContext(d) PROVE StateTypes'
      BY <2>2 DEF RemoveContext
    <2> QED
      BY <1>7, <2>1, <2>2 DEF Delivery
  <1>8. ASSUME Closing PROVE StateTypes'
    BY <1>8 DEF Closing, CloseStop, CloseJoin, CloseClear, CloseEndpoint, CloseStep, Fault
  <1>9. CASE UNCHANGED vars
    BY <1>9 DEF vars
  <1> QED
    BY <1>1, <1>2, <1>3, <1>4, <1>5, <1>6, <1>7, <1>8, <1>9 DEF Next

\* ... the feedback ...
LEMMA FeedbackTypesStep ==
    ASSUME FeedbackTypes, [Next]_vars
    PROVE  FeedbackTypes'
  <1> USE DEF FeedbackTypes
  <1>1. ASSUME UNCHANGED <<pendingFeedback, goalFeedback, received, publishing, started, rosFeedback>>
        PROVE  FeedbackTypes'
    BY <1>1
  <1>2. ASSUME HakoniwaClient \/ PollThread \/ Closing PROVE FeedbackTypes'
    BY <1>1, <1>2
       DEF HakoniwaClient, HakRequestsGoal, HakRequestsCancel, HakRuntimeCancels, PollThread,
           GoalUnavailable, GoalRequest, GoalSend, GoalSendFails, CancelRefuse, CancelRequest,
           CancelSend, CancelSendFails, RuntimeCancel, Closing, CloseStop, CloseJoin, CloseClear,
           CloseEndpoint, CloseStep
  <1>3. ASSUME RosServer PROVE FeedbackTypes'
    <2>1. ASSUME RosFeedback PROVE FeedbackTypes'
      BY <2>1 DEF RosFeedback
    <2>2. ASSUME NEW c \in Cancels, RosAnswersCancel(c) PROVE FeedbackTypes'
      BY <1>1, <2>2 DEF RosAnswersCancel
    <2> QED
      BY <1>1, <1>3, <2>1, <2>2
         DEF RosServer, RosAnswersGoal, RosFinishes, RosTakesBestEffort, RosStep
  <1>4. ASSUME GoalCallback PROVE FeedbackTypes'
    <2>1. ASSUME GoalRejected \/ GoalHandle \/ GoalAccept \/ GoalResponseFails \/ GoalPublished
          PROVE  FeedbackTypes'
      BY <1>1, <2>1 DEF GoalRejected, GoalHandle, GoalAccept, GoalResponseFails, GoalPublished
    <2>2. ASSUME GoalFlush PROVE FeedbackTypes'
      <3>1. \/ UNCHANGED <<pendingFeedback, goalFeedback>>
            \/ pendingFeedback' = <<>> /\ goalFeedback' = pendingFeedback
        BY <2>2 DEF GoalFlush
      <3>2. UNCHANGED <<received, publishing, started, rosFeedback>>
        BY <2>2 DEF GoalFlush
      <3>3. <<>> \in Seq(Nat)
        OBVIOUS
      <3>4. pendingFeedback' \in Seq(Nat) /\ goalFeedback' \in Seq(Nat)
        BY <3>1, <3>3
      <3> QED
        BY <3>2, <3>4
    <2>3. ASSUME GoalPublish PROVE FeedbackTypes'
      <3>1. /\ goalFeedback # <<>> /\ goalFeedback' = Tail(goalFeedback)
            /\ UNCHANGED <<pendingFeedback, publishing, started, rosFeedback>>
            /\ received' = received \/ received' = Append(received, Head(goalFeedback))
        BY <2>3 DEF GoalPublish, Publish
      <3>2. Head(goalFeedback) \in Nat /\ goalFeedback' \in Seq(Nat)
        BY <3>1
      <3>3. Append(received, Head(goalFeedback)) \in Seq(Nat)
        BY <3>2
      <3> QED
        BY <3>1, <3>2, <3>3
    <2> QED
      BY <1>4, <2>1, <2>2, <2>3 DEF GoalCallback
  <1>5. ASSUME FeedbackStart PROVE FeedbackTypes'
    <2>1. started' = started + 1 /\ started' <= rosFeedback /\ UNCHANGED rosFeedback
      BY <1>5 DEF FeedbackStart
    <2>2. pendingFeedback' \in Seq(Nat) /\ publishing' \subseteq 1 .. started'
      BY <1>5, <2>1 DEF FeedbackStart
    <2> QED
      BY <1>5, <2>1, <2>2 DEF FeedbackStart
  <1>6. ASSUME NEW n \in 1 .. MaxFeedback, FeedbackPublish(n) PROVE FeedbackTypes'
    <2>1. /\ publishing' = publishing \ {n} /\ n \in Nat
          /\ UNCHANGED <<pendingFeedback, goalFeedback, started, rosFeedback>>
          /\ received' = received \/ received' = Append(received, n)
      BY <1>6 DEF FeedbackPublish, Publish
    <2>2. Append(received, n) \in Seq(Nat)
      BY <2>1
    <2> QED
      BY <2>1, <2>2
  <1>7. ASSUME ResultCallback PROVE FeedbackTypes'
    BY <1>1, <1>7 DEF ResultCallback, RosResult, RosResultFails
  <1>8. ASSUME NEW c \in Cancels, CancelCallback(c) PROVE FeedbackTypes'
    BY <1>1, <1>8 DEF CancelCallback, CancelCheck, CancelReply, CancelReplyFails, CancelRecord
  <1>9. ASSUME NEW d \in Deliverers, Delivery(d) PROVE FeedbackTypes'
    BY <1>1, <1>9 DEF Delivery, Complete, RemoveContext
  <1>10. CASE UNCHANGED vars
    BY <1>1, <1>10 DEF vars
  <1> QED
    BY <1>2, <1>3, <1>4, <1>5, <1>6, <1>7, <1>8, <1>9, <1>10 DEF Next, FeedbackCallback


\* ... the cancel requests, of which one is under way at a time ...
LEMMA CancelTypesStep ==
    ASSUME CancelTypes, [Next]_vars
    PROVE  CancelTypes'
  <1> USE ActionClientAssumption DEF CancelTypes, Cancels
  <1>1. ASSUME UNCHANGED <<asked, polled, cancelPc, cancelFound>> PROVE CancelTypes'
    BY <1>1
  <1>2. ASSUME HakoniwaClient PROVE CancelTypes'
    <2>1. ASSUME HakRequestsCancel PROVE CancelTypes'
      BY <2>1 DEF HakRequestsCancel
    <2> QED
      BY <1>1, <1>2, <2>1 DEF HakoniwaClient, HakRequestsGoal, HakRuntimeCancels
  <1>3. ASSUME PollThread PROVE CancelTypes'
    <2>1. ASSUME GoalUnavailable \/ GoalRequest \/ GoalSend \/ GoalSendFails \/ CancelSendFails
                 \/ RuntimeCancel
          PROVE  CancelTypes'
      BY <1>1, <2>1 DEF GoalUnavailable, GoalRequest, GoalSend, GoalSendFails, CancelSendFails,
                        RuntimeCancel
    <2>2. ASSUME CancelRefuse PROVE CancelTypes'
      BY <2>2 DEF CancelRefuse, CancelPolled
    <2>3. ASSUME CancelRequest PROVE CancelTypes'
      BY <2>3 DEF CancelRequest, CancelPolled
    <2>4. ASSUME CancelSend PROVE CancelTypes'
      BY <2>4 DEF CancelSend
    <2> QED
      BY <1>3, <2>1, <2>2, <2>3, <2>4 DEF PollThread
  <1>4. ASSUME RosServer PROVE CancelTypes'
    <2>1. ASSUME NEW c \in Cancels, RosAnswersCancel(c) PROVE CancelTypes'
      <3>1. PICK accept \in BOOLEAN :
              /\ cancelPc' = [cancelPc EXCEPT ![c] = "check"]
              /\ cancelFound' \in {cancelFound, [cancelFound EXCEPT ![c] = accept]}
              /\ UNCHANGED <<asked, polled>>
        BY <2>1 DEF RosAnswersCancel, ContainsGoal
      <3> QED
        BY <3>1
    <2> QED
      BY <1>1, <1>4, <2>1
         DEF RosServer, RosAnswersGoal, RosFinishes, RosFeedback, RosTakesBestEffort, RosStep
  <1>5. ASSUME GoalCallback PROVE CancelTypes'
    BY <1>1, <1>5 DEF GoalCallback, GoalRejected, GoalHandle, GoalAccept, GoalResponseFails, GoalFlush,
                      GoalPublish, GoalPublished
  <1>6. ASSUME FeedbackCallback \/ ResultCallback \/ Closing PROVE CancelTypes'
    BY <1>1, <1>6 DEF FeedbackCallback, FeedbackStart, FeedbackPublish, ResultCallback, RosResult,
                      RosResultFails, Closing, CloseStop, CloseJoin, CloseClear, CloseEndpoint, CloseStep
  <1>7. ASSUME NEW c \in Cancels, CancelCallback(c) PROVE CancelTypes'
    BY <1>7 DEF CancelCallback, CancelCheck, CancelReply, CancelReplyFails, CancelRecord
  <1>8. ASSUME NEW d \in Deliverers, Delivery(d) PROVE CancelTypes'
    BY <1>1, <1>8 DEF Delivery, Complete, RemoveContext
  <1>9. CASE UNCHANGED vars
    BY <1>1, <1>9 DEF vars
  <1> QED
    BY <1>2, <1>3, <1>4, <1>5, <1>6, <1>7, <1>8, <1>9 DEF Next

\* ... and the result.
LEMMA ResultTypesStep ==
    ASSUME ResultTypes, [Next]_vars
    PROVE  ResultTypes'
  <1> USE DEF ResultTypes, Took
  <1>1. ASSUME UNCHANGED <<pendingResult, resultPc, completions, deliverPc, took>>
        PROVE  ResultTypes'
    BY <1>1
  <1>2. ASSUME HakoniwaClient \/ PollThread PROVE ResultTypes'
    BY <1>1, <1>2 DEF HakoniwaClient, HakRequestsGoal, HakRequestsCancel, HakRuntimeCancels, PollThread,
           GoalUnavailable, GoalRequest, GoalSend, GoalSendFails, CancelRefuse, CancelRequest,
           CancelSend, CancelSendFails, RuntimeCancel
  <1>3. ASSUME RosServer \/ Closing PROVE ResultTypes'
    BY <1>1, <1>3 DEF RosServer, RosAnswersGoal, RosFinishes, RosFeedback, RosTakesBestEffort, RosStep,
           RosAnswersCancel, Closing, CloseStop, CloseJoin, CloseClear, CloseEndpoint, CloseStep
  <1>4. ASSUME GoalCallback PROVE ResultTypes'
    <2>1. ASSUME GoalFlush PROVE ResultTypes'
      BY <2>1, ThreadsDiffer DEF GoalFlush, Take, TakePending
    <2>2. ASSUME GoalPublished PROVE ResultTypes'
      BY <2>2, ThreadsDiffer DEF GoalPublished, Deliver
    <2> QED
      BY <1>1, <1>4, <2>1, <2>2
         DEF GoalCallback, GoalRejected, GoalHandle, GoalAccept, GoalResponseFails, GoalPublish
  <1>5. ASSUME FeedbackCallback PROVE ResultTypes'
    BY <1>1, <1>5 DEF FeedbackCallback, FeedbackStart, FeedbackPublish
  <1>6. ASSUME ResultCallback PROVE ResultTypes'
    BY <1>6, ThreadsDiffer DEF ResultCallback, RosResult, RosResultFails, Deliver
  <1>7. ASSUME NEW c \in Cancels, CancelCallback(c) PROVE ResultTypes'
    <2>1. ASSUME CancelRecord(c) PROVE ResultTypes'
      BY <2>1, ThreadsDiffer DEF CancelRecord, Take, TakePending, Deliver
    <2> QED
      BY <1>1, <1>7, <2>1 DEF CancelCallback, CancelCheck, CancelReply, CancelReplyFails
  <1>8. ASSUME NEW d \in Deliverers, Delivery(d) PROVE ResultTypes'
    BY <1>8 DEF Delivery, Complete, RemoveContext
  <1>9. CASE UNCHANGED vars
    BY <1>1, <1>9 DEF vars
  <1> QED
    BY <1>2, <1>3, <1>4, <1>5, <1>6, <1>7, <1>8, <1>9 DEF Next


-----------------------------------------------------------------------------
\* What the threads that have no part in an invariant leave alone.
LEMMA HakoniwaFrame ==
    ASSUME HakoniwaClient
    PROVE  /\ UNCHANGED <<contextVars, threadVars, rosVars, goalPolled, hakCancelAccepted, polled,
                          answered, received, completions, faults>>
           /\ hak' = hak \/ (hak = "none" /\ hak' = "requested")
           /\ asked' = asked \/ asked' = asked + 1
           /\ runtimeCancel' = runtimeCancel \/ runtimeCancel' = "asked"
  BY DEF HakoniwaClient, HakRequestsGoal, HakRequestsCancel, HakRuntimeCancels

\* What the feedback callbacks leave alone.
LEMMA FeedbackFrame ==
    ASSUME FeedbackCallback
    PROVE  /\ UNCHANGED <<lifeVars, flagVars, pendingResult, pollPc, goalVars, resultPc, cancelVars,
                          deliverVars, closePc, ros, rosFeedback, resultRequested, bestEffort, hak,
                          goalPolled, hakCancelVars, completions>>
           /\ faults' = faults \/ Fault
  BY DEF FeedbackCallback, FeedbackStart, FeedbackPublish, Publish

\* What the shutdown leaves alone, and that it only unregisters.
LEMMA ClosingFrame ==
    ASSUME Closing
    PROVE  /\ UNCHANGED <<flagVars, pendingVars, pollPc, callbackVars, ros, rosFeedback, started,
                          resultRequested, hakVars>>
           /\ registered' => registered
           /\ terminal' => terminal \/ registered
           /\ closePc' # "running"
           /\ faults' = faults \/ Fault
  <1>1. ASSUME NEW from, NEW to \in {"stopping", "joined"} \cup Clearing, CloseStep(from, to)
        PROVE  /\ UNCHANGED <<flagVars, pendingVars, pollPc, callbackVars, ros, rosFeedback, started,
                              resultRequested, hakVars>>
               /\ closePc' # "running"
    BY <1>1 DEF CloseStep, Clearing
  <1>2. CASE CloseStop \/ CloseEndpoint
    BY <1>1, <1>2 DEF CloseStop, CloseEndpoint, Clearing
  <1>3. CASE CloseJoin
    BY <1>1, <1>3 DEF CloseJoin
  <1>4. CASE CloseClear
    <2>1. (registered' => registered) /\ (terminal' => terminal \/ registered) /\ faults' = faults
      BY <1>4, Zenon DEF CloseClear
    <2> QED
      BY <1>1, <1>4, <2>1 DEF CloseClear, Clearing
  <1> QED
    BY <1>2, <1>3, <1>4 DEF Closing

\* Faults and the requests of the Hakoniwa side only become more, a ROS goal that has
\* ended stays as it is, and the shutdown goes on.
LEMMA Monotone ==
    ASSUME StateTypes, CancelTypes, GoalOrder, [Next]_vars
    PROVE  /\ faults' \in Nat /\ faults <= faults'
           /\ closePc' = "running" => closePc = "running"
           /\ asked <= asked'
           /\ runtimeCancel' = "none" => runtimeCancel = "none"
           /\ ros \in Terminal => ros' = ros
           /\ ros \in {"canceling"} \cup Terminal => ros' \in {"canceling"} \cup Terminal
  <1> DEFINE Faulty == faults' = faults \/ faults' = faults + 1
             Client == UNCHANGED <<asked, runtimeCancel>>
             Server == UNCHANGED ros
             Close  == UNCHANGED closePc
  <1>0. faults \in Nat /\ asked \in Nat
    BY ActionClientAssumption DEF StateTypes, CancelTypes
  <1>1. ASSUME HakoniwaClient PROVE Faulty /\ Server /\ Close /\ asked <= asked'
                                    /\ (runtimeCancel' = "none" => runtimeCancel = "none")
    BY <1>0, <1>1, HakoniwaFrame
  <1>2. ASSUME PollThread
        PROVE  /\ Faulty /\ Close /\ asked' = asked
               /\ runtimeCancel' = "none" => runtimeCancel = "none"
               /\ ros' = ros \/ ros = "none"
    BY <1>2 DEF PollThread, GoalUnavailable, GoalRequest, GoalSend, GoalSendFails, CancelRefuse,
                CancelRequest, CancelSend, CancelSendFails, RuntimeCancel, Fault, GoalOrder
  <1>3. ASSUME RosServer
        PROVE  /\ Faulty /\ Close /\ Client
               /\ ros \in Terminal => ros' = ros
               /\ ros = "canceling" => ros' \in {"canceling"} \cup Terminal
    <2>1. ASSUME NEW c \in Cancels, RosAnswersCancel(c)
          PROVE  Faulty /\ Close /\ Client /\ (ros' = ros \/ (ros = "executing" /\ ros' = "canceling"))
      BY <2>1 DEF RosAnswersCancel, Fault
    <2> QED
      BY <1>3, <2>1 DEF RosServer, RosAnswersGoal, RosFinishes, RosFeedback, RosTakesBestEffort,
                        RosStep, Terminal
  <1>4. ASSUME GoalCallback PROVE Faulty /\ Close /\ Client /\ Server
    BY <1>4 DEF GoalCallback, GoalRejected, GoalHandle, GoalAccept, GoalResponseFails, GoalFlush,
                GoalPublish, GoalPublished, Publish, Fault
  <1>5. ASSUME FeedbackCallback \/ ResultCallback PROVE Faulty /\ Close /\ Client /\ Server
    BY <1>5, FeedbackFrame DEF ResultCallback, RosResult, RosResultFails, Fault
  <1>6. ASSUME NEW c \in Cancels, CancelCallback(c) PROVE Faulty /\ Close /\ Client /\ Server
    BY <1>6 DEF CancelCallback, CancelCheck, CancelReply, CancelReplyFails, CancelRecord, Fault,
                AnswerCancel
  <1>7. ASSUME NEW d \in Deliverers, Delivery(d) PROVE Faulty /\ Close /\ Client /\ Server
    BY <1>7 DEF Delivery, Complete, RemoveContext, Fault
  <1>8. ASSUME Closing PROVE Faulty /\ Client /\ Server /\ closePc' # "running"
    BY <1>8, ClosingFrame DEF Fault
  <1>9. ASSUME UNCHANGED vars PROVE Faulty /\ Close /\ Client /\ Server
    BY <1>9 DEF vars
  <1>10. Faulty /\ (closePc' = "running" => closePc = "running")
    BY <1>1, <1>2, <1>3, <1>4, <1>5, <1>6, <1>7, <1>8, <1>9 DEF Next
  <1>11. asked <= asked' /\ (runtimeCancel' = "none" => runtimeCancel = "none")
    BY <1>0, <1>1, <1>2, <1>3, <1>4, <1>5, <1>6, <1>7, <1>8, <1>9 DEF Next
  <1>12. /\ ros \in Terminal => ros' = ros
         /\ ros \in {"canceling"} \cup Terminal => ros' \in {"canceling"} \cup Terminal
    BY <1>1, <1>2, <1>3, <1>4, <1>5, <1>6, <1>7, <1>8, <1>9 DEF Next, Terminal
  <1> QED
    BY <1>0, <1>10, <1>11, <1>12

-----------------------------------------------------------------------------
\* The result is handed over, never copied: every step keeps it in one place.
LEMMA OneResultStep ==
    ASSUME CancelTypes, ResultTypes, CancelOrder, OneResult, [Next]_vars
    PROVE  OneResult'
  <1> USE ThreadsDiffer DEF OneResult, CompleteAtMostOnce, ResultTypes, CancelTypes, Took
  <1>1. ASSUME UNCHANGED <<pendingResult, took, resultPc, deliverPc, completions, goalPc, cancelPc>>
        PROVE  OneResult'
    BY <1>1
  <1>2. ASSUME HakoniwaClient \/ FeedbackCallback \/ Closing PROVE OneResult'
    BY <1>1, <1>2, HakoniwaFrame, FeedbackFrame, ClosingFrame
  <1>3. ASSUME PollThread PROVE OneResult'
    <2>1. ASSUME CancelSend PROVE OneResult'
      <3>1. polled \in Cancels /\ cancelPc[polled] = "none"
        BY <2>1, ActionClientAssumption DEF CancelSend, CancelOrder, Cancels
      <3>2. \A c \in Cancels : cancelPc'[c] # "done" => cancelPc[c] # "done"
        BY <2>1, <3>1 DEF CancelSend
      <3> QED
        BY <2>1, <3>2 DEF CancelSend
    <2> QED
      BY <1>1, <1>3, <2>1
         DEF PollThread, GoalUnavailable, GoalRequest, GoalSend, GoalSendFails, CancelRefuse,
             CancelRequest, CancelSendFails, RuntimeCancel
  <1>4. ASSUME RosServer PROVE OneResult'
    <2>1. ASSUME NEW c \in Cancels, RosAnswersCancel(c) PROVE OneResult'
      BY <2>1 DEF RosAnswersCancel
    <2> QED
      BY <1>1, <1>4, <2>1
         DEF RosServer, RosAnswersGoal, RosFinishes, RosFeedback, RosTakesBestEffort, RosStep
  <1>5. ASSUME GoalCallback PROVE OneResult'
    <2>1. ASSUME GoalRejected \/ GoalHandle \/ GoalAccept \/ GoalResponseFails \/ GoalPublish
          PROVE  OneResult'
      <3>1. goalPc # "done"
        BY <2>1 DEF GoalRejected, GoalHandle, GoalAccept, GoalResponseFails, GoalPublish
      <3>2. UNCHANGED <<pendingResult, took, resultPc, deliverPc, completions, cancelPc>>
        BY <2>1 DEF GoalRejected, GoalHandle, GoalAccept, GoalResponseFails, GoalPublish
      <3> QED
        BY <3>1, <3>2
    <2>2. ASSUME GoalFlush PROVE OneResult'
      <3>1. CASE terminal
        BY <2>2, <3>1 DEF GoalFlush
      <3>2. CASE ~terminal
        BY <2>2, <3>2 DEF GoalFlush, Take, TakePending
      <3> QED
        BY <3>1, <3>2
    <2>3. ASSUME GoalPublished PROVE OneResult'
      BY <2>3 DEF GoalPublished, Deliver
    <2> QED
      BY <1>5, <2>1, <2>2, <2>3 DEF GoalCallback
  <1>6. ASSUME ResultCallback PROVE OneResult'
    <2>1. PICK r \in Took :
            /\ resultPc = "none" /\ resultPc' = "done"
            /\ pendingResult' \in Took
            /\ r # "none" => pendingResult' = pendingResult
            /\ took' = [took EXCEPT ![OfResult] = r]
            /\ deliverPc' = [deliverPc EXCEPT ![OfResult] = IF r = "none" THEN "none" ELSE "complete"]
            /\ UNCHANGED <<completions, goalPc, cancelPc>>
      <3>1. ASSUME RosResult PROVE \E r \in {"none", "result"} :
            /\ resultPc = "none" /\ resultPc' = "done"
            /\ pendingResult' \in Took
            /\ r # "none" => pendingResult' = pendingResult
            /\ took' = [took EXCEPT ![OfResult] = r]
            /\ deliverPc' = [deliverPc EXCEPT ![OfResult] = IF r = "none" THEN "none" ELSE "complete"]
            /\ UNCHANGED <<completions, goalPc, cancelPc>>
        BY <3>1 DEF RosResult, Deliver
      <3>2. ASSUME RosResultFails PROVE \E r \in {"none", "error"} :
            /\ resultPc = "none" /\ resultPc' = "done"
            /\ pendingResult' \in Took
            /\ r # "none" => pendingResult' = pendingResult
            /\ took' = [took EXCEPT ![OfResult] = r]
            /\ deliverPc' = [deliverPc EXCEPT ![OfResult] = IF r = "none" THEN "none" ELSE "complete"]
            /\ UNCHANGED <<completions, goalPc, cancelPc>>
        BY <3>2 DEF RosResultFails, Deliver
      <3> QED
        BY <1>6, <3>1, <3>2 DEF ResultCallback
    <2> QED
      BY <2>1
  <1>7. ASSUME NEW c \in Cancels, CancelCallback(c) PROVE OneResult'
    <2>1. ASSUME CancelCheck(c) \/ CancelReply(c) \/ CancelReplyFails(c) PROVE OneResult'
      BY <2>1 DEF CancelCheck, CancelReply, CancelReplyFails
    <2>2. ASSUME CancelRecord(c) PROVE OneResult'
      <3>1. CASE terminal
        BY <2>2, <3>1 DEF CancelRecord
      <3>2. CASE ~terminal
        BY <2>2, <3>2 DEF CancelRecord, Take, TakePending, Deliver
      <3> QED
        BY <3>1, <3>2
    <2> QED
      BY <1>7, <2>1, <2>2 DEF CancelCallback
  <1>8. ASSUME NEW d \in Deliverers, Delivery(d) PROVE OneResult'
    <2>1. ASSUME Complete(d) PROVE OneResult'
      <3>1. took[d] # "none" /\ completions = 0 /\ pendingResult = "none" /\ resultPc = "done"
        BY <2>1 DEF Complete
      <3> QED
        BY <2>1, <3>1 DEF Complete
    <2>2. ASSUME RemoveContext(d) PROVE OneResult'
      BY <2>2 DEF RemoveContext
    <2> QED
      BY <1>8, <2>1, <2>2 DEF Delivery
  <1>9. CASE UNCHANGED vars
    BY <1>1, <1>9 DEF vars
  <1> QED
    BY <1>2, <1>3, <1>4, <1>5, <1>6, <1>7, <1>8, <1>9 DEF Next


\* A result is taken over from the ROS client once the ROS goal has ended.
LEMMA ResultOfRosStep ==
    ASSUME TypeInv, GoalOrder, ResultOfRos, [Next]_vars
    PROVE  ResultOfRos'
  <1> USE ThreadsDiffer DEF ResultOfRos
  <1>0. /\ ros \in Terminal => ros' \in Terminal
        /\ faults > 0 => faults' > 0
        /\ took \in [Deliverers -> Took]
    <2>1. StateTypes /\ CancelTypes /\ faults \in Nat
      BY DEF TypeInv, StateTypes
    <2> QED
      BY <2>1, Monotone DEF TypeInv, ResultTypes
  <1>1. ASSUME UNCHANGED <<pendingResult, took>> PROVE ResultOfRos'
    BY <1>0, <1>1
  <1>2. ASSUME HakoniwaClient \/ FeedbackCallback \/ Closing PROVE ResultOfRos'
    BY <1>1, <1>2, HakoniwaFrame, FeedbackFrame, ClosingFrame
  <1>3. ASSUME PollThread PROVE ResultOfRos'
    BY <1>1, <1>3
       DEF PollThread, GoalUnavailable, GoalRequest, GoalSend, GoalSendFails, CancelRefuse,
           CancelRequest, CancelSend, CancelSendFails, RuntimeCancel
  <1>4. ASSUME RosServer PROVE ResultOfRos'
    BY <1>1, <1>4 DEF RosServer, RosAnswersGoal, RosFinishes, RosFeedback, RosTakesBestEffort, RosStep,
                      RosAnswersCancel
  <1>5. ASSUME NEW d \in Deliverers, took' = [took EXCEPT ![d] = pendingResult],
               pendingResult' = "none"
        PROVE  ResultOfRos'
    BY <1>0, <1>5
  <1>6. ASSUME GoalCallback PROVE ResultOfRos'
    <2>1. ASSUME GoalFlush PROVE ResultOfRos'
      BY <1>1, <1>5, <2>1 DEF GoalFlush, Take, TakePending
    <2> QED
      BY <1>1, <1>6, <2>1
         DEF GoalCallback, GoalRejected, GoalHandle, GoalAccept, GoalResponseFails, GoalPublish,
             GoalPublished
  <1>7. ASSUME RosResult PROVE ResultOfRos'
    <2>1. ros \in Terminal /\ ros' = ros /\ faults' = faults
      BY <1>7 DEF RosResult
    <2>2. /\ pendingResult' \in {"result", pendingResult}
          /\ \E r \in {"none", "result"} : took' = [took EXCEPT ![OfResult] = r]
      BY <1>7 DEF RosResult
    <2> QED
      BY <1>0, <2>1, <2>2
  <1>8. ASSUME RosResultFails PROVE ResultOfRos'
    <2>1. faults' > 0 /\ ros' = ros
      BY <1>8 DEF RosResultFails, Fault, TypeInv, StateTypes
    <2>2. /\ pendingResult' \in {"error", pendingResult}
          /\ \E r \in {"none", "error"} : took' = [took EXCEPT ![OfResult] = r]
      BY <1>8 DEF RosResultFails
    <2> QED
      BY <1>0, <2>1, <2>2
  <1>9. ASSUME NEW c \in Cancels, CancelCallback(c) PROVE ResultOfRos'
    <2>1. ASSUME CancelRecord(c) PROVE ResultOfRos'
      BY <1>1, <1>5, <2>1 DEF CancelRecord, Take, TakePending
    <2> QED
      BY <1>1, <1>9, <2>1 DEF CancelCallback, CancelCheck, CancelReply, CancelReplyFails
  <1>10. ASSUME NEW d \in Deliverers, Delivery(d) PROVE ResultOfRos'
    BY <1>1, <1>10 DEF Delivery, Complete, RemoveContext
  <1>11. CASE UNCHANGED vars
    BY <1>1, <1>11 DEF vars
  <1> QED
    BY <1>2, <1>3, <1>4, <1>6, <1>7, <1>8, <1>9, <1>10, <1>11 DEF Next, ResultCallback

\* Every step keeps the way of the goal.
LEMMA GoalOrderStep ==
    ASSUME TypeInv, GoalOrder, OneResult, ResultOfRos, [Next]_vars
    PROVE  GoalOrder'
  <1> USE DEF GoalOrder
  <1>1. ASSUME UNCHANGED <<goalPolled, hak, pollPc, terminal, ros, goalPc, rosFeedback, registered,
                           hakoniwaAccepted, goalFeedback, resultRequested, resultPc>>
        PROVE  GoalOrder'
    BY <1>1
  <1>2. ASSUME HakoniwaClient PROVE GoalOrder'
    BY <1>2, HakoniwaFrame
  <1>3. ASSUME Closing PROVE GoalOrder'
    BY <1>3, ClosingFrame
  <1>4. ASSUME FeedbackCallback PROVE GoalOrder'
    BY <1>1, <1>4, FeedbackFrame
  <1>5. ASSUME PollThread PROVE GoalOrder'
    <2>1. ASSUME GoalUnavailable PROVE GoalOrder'
      BY <2>1 DEF GoalUnavailable, RejectGoal, Polling, Terminal
    <2>2. ASSUME GoalRequest PROVE GoalOrder'
      BY <2>2 DEF GoalRequest
    <2>3. ASSUME GoalSend PROVE GoalOrder'
      BY <2>3 DEF GoalSend
    <2>4. ASSUME GoalSendFails PROVE GoalOrder'
      BY <2>4 DEF GoalSendFails, RejectGoal, Terminal
    <2>5. ASSUME CancelRefuse \/ RuntimeCancel PROVE GoalOrder'
      BY <1>1, <2>5 DEF CancelRefuse, RuntimeCancel
    <2>6. ASSUME CancelRequest \/ CancelSend \/ CancelSendFails PROVE GoalOrder'
      <3>1. /\ pollPc \in {"poll", "sendCancel"} /\ pollPc' \in {"poll", "sendCancel"}
            /\ UNCHANGED <<goalPolled, hak, terminal, ros, goalPc, rosFeedback, registered,
                           hakoniwaAccepted, goalFeedback, resultRequested, resultPc>>
        BY <2>6 DEF CancelRequest, CancelSend, CancelSendFails, CancelPolled, Polling
      <3> QED
        BY <3>1
    <2> QED
      BY <1>5, <2>1, <2>2, <2>3, <2>4, <2>5, <2>6 DEF PollThread
  <1>6. ASSUME RosServer PROVE GoalOrder'
    <2>1. ASSUME NEW c \in Cancels, RosAnswersCancel(c) PROVE GoalOrder'
      BY <2>1 DEF RosAnswersCancel
    <2>2. ASSUME RosAnswersGoal \/ RosFinishes PROVE GoalOrder'
      BY <2>2 DEF RosAnswersGoal, RosFinishes, RosStep, Terminal
    <2>3. ASSUME RosFeedback PROVE GoalOrder'
      BY <2>3 DEF RosFeedback
    <2>4. ASSUME RosTakesBestEffort PROVE GoalOrder'
      BY <2>4 DEF RosTakesBestEffort
    <2> QED
      BY <1>6, <2>1, <2>2, <2>3, <2>4 DEF RosServer
  <1>7. ASSUME GoalCallback PROVE GoalOrder'
    <2>1. ASSUME GoalRejected PROVE GoalOrder'
      BY <2>1 DEF GoalRejected, RejectGoal, Remove, Terminal
    <2>2. ASSUME GoalHandle PROVE GoalOrder'
      BY <2>2 DEF GoalHandle, RosAccepted, Terminal
    <2>3. ASSUME GoalAccept PROVE GoalOrder'
      BY <2>3 DEF GoalAccept, InState
    <2>4. ASSUME GoalResponseFails PROVE GoalOrder'
      BY <2>4 DEF GoalResponseFails, Remove, RosAccepted, Terminal
    <2>5. ASSUME GoalFlush PROVE GoalOrder'
      <3>1. CASE terminal
        BY <2>5, <3>1 DEF GoalFlush
      <3>2. CASE ~terminal
        BY <2>5, <3>2 DEF GoalFlush
      <3> QED
        BY <3>1, <3>2
    <2>6. ASSUME GoalPublish \/ GoalPublished PROVE GoalOrder'
      BY <2>6 DEF GoalPublish, GoalPublished
    <2> QED
      BY <1>7, <2>1, <2>2, <2>3, <2>4, <2>5, <2>6 DEF GoalCallback
  <1>8. ASSUME ResultCallback PROVE GoalOrder'
    BY <1>8 DEF ResultCallback, RosResult, RosResultFails
  <1>9. ASSUME NEW c \in Cancels, CancelCallback(c) PROVE GoalOrder'
    BY <1>1, <1>9 DEF CancelCallback, CancelCheck, CancelReply, CancelReplyFails, CancelRecord
  <1>10. ASSUME NEW d \in Deliverers, Delivery(d) PROVE GoalOrder'
    <2>1. took[d] # "none" /\ (took[d] # "error" => ros \in Terminal)
      BY <1>10 DEF Delivery, Complete, RemoveContext, OneResult, ResultOfRos, TypeInv, ResultTypes, Took
    <2>2. resultRequested /\ goalPolled
      BY <2>1 DEF OneResult
    <2>3. ASSUME Complete(d) PROVE GoalOrder'
      <3>1. hak' = hak \/ (hak = "accepted" /\ hak' \in Terminal)
        BY <2>1, <2>3 DEF Complete, StatusOf, InState, Terminal
      <3> QED
        BY <2>2, <2>3, <3>1 DEF Complete, Terminal
    <2>4. ASSUME RemoveContext(d) PROVE GoalOrder'
      BY <2>2, <2>4 DEF RemoveContext, Remove
    <2> QED
      BY <1>10, <2>3, <2>4 DEF Delivery
  <1>11. CASE UNCHANGED vars
    BY <1>1, <1>11 DEF vars
  <1> QED
    BY <1>2, <1>3, <1>4, <1>5, <1>6, <1>7, <1>8, <1>9, <1>10, <1>11 DEF Next

\* Every step keeps the cancel requests in order.
LEMMA CancelOrderStep ==
    ASSUME TypeInv, GoalOrder, CancelOrder, [Next]_vars
    PROVE  CancelOrder'
  <1> USE DEF CancelOrder, CancelAcceptedByRos
  <1>0. /\ ros \in {"canceling"} \cup Terminal => ros' \in {"canceling"} \cup Terminal
        /\ cancelPc \in [Cancels -> {"none", "sent", "check", "reply", "record", "done"}]
        /\ cancelFound \in [Cancels -> BOOLEAN]
    BY Monotone DEF TypeInv, CancelTypes
  <1>1. ASSUME UNCHANGED <<cancelPc, cancelFound, polled, pollPc, cancelPending, cancelAccepted,
                           hakoniwaAccepted, hakCancelAccepted>>
        PROVE  CancelOrder'
    BY <1>0, <1>1
  <1>2. ASSUME HakoniwaClient \/ FeedbackCallback \/ Closing PROVE CancelOrder'
    BY <1>1, <1>2, HakoniwaFrame, FeedbackFrame, ClosingFrame
  <1>3. ASSUME PollThread PROVE CancelOrder'
    <2>1. ASSUME GoalUnavailable \/ RuntimeCancel PROVE CancelOrder'
      BY <1>1, <2>1 DEF GoalUnavailable, RuntimeCancel
    <2>2. ASSUME GoalRequest \/ GoalSend \/ GoalSendFails PROVE CancelOrder'
      BY <1>0, <2>2 DEF GoalRequest, GoalSend, GoalSendFails
    <2>3. polled \in Nat /\ polled <= asked /\ asked \in 0 .. MaxCancels /\ MaxCancels \in Nat
      BY ActionClientAssumption DEF TypeInv, CancelTypes
    <2>4. ASSUME CancelRefuse PROVE CancelOrder'
      BY <1>0, <2>3, <2>4 DEF CancelRefuse, AnswerCancel, CancelPolled, Polling, Cancels
    <2>5. ASSUME CancelRequest PROVE CancelOrder'
      <3>1. polled' = polled + 1 /\ polled' \in Cancels /\ cancelPc[polled'] = "none"
        BY <1>0, <2>3, <2>5 DEF CancelRequest, CancelPolled, Cancels
      <3> QED
        BY <1>0, <2>3, <2>5, <3>1 DEF CancelRequest, Cancelable, Cancels
    <2>6. ASSUME CancelSend PROVE CancelOrder'
      <3>1. polled \in Cancels
        BY <2>3, <2>6 DEF CancelSend, Cancels
      <3> QED
        BY <1>0, <2>3, <2>6, <3>1 DEF CancelSend, Cancels
    <2>7. ASSUME CancelSendFails PROVE CancelOrder'
      BY <1>0, <2>7 DEF CancelSendFails, AnswerCancel
    <2> QED
      BY <1>3, <2>1, <2>2, <2>4, <2>5, <2>6, <2>7 DEF PollThread
  <1>4. ASSUME RosServer PROVE CancelOrder'
    <2>1. ASSUME NEW c \in Cancels, RosAnswersCancel(c) PROVE CancelOrder'
      <3>1. PICK accept \in BOOLEAN :
              /\ cancelPc[c] = "sent" /\ cancelPc' = [cancelPc EXCEPT ![c] = "check"]
              /\ accept => ros' = "canceling"
              /\ cancelFound' \in {cancelFound, [cancelFound EXCEPT ![c] = accept]}
        BY <2>1 DEF RosAnswersCancel, ContainsGoal
      <3>2. UNCHANGED <<polled, pollPc, cancelPending, cancelAccepted, hakoniwaAccepted,
                        hakCancelAccepted>>
        BY <2>1 DEF RosAnswersCancel
      <3> QED
        BY <1>0, <3>1, <3>2
    <2> QED
      BY <1>1, <1>4, <2>1
         DEF RosServer, RosAnswersGoal, RosFinishes, RosFeedback, RosTakesBestEffort, RosStep
  <1>5. ASSUME GoalCallback PROVE CancelOrder'
    <2>1. ASSUME GoalFlush PROVE CancelOrder'
      <3>1. (hakoniwaAccepted' \/ hakoniwaAccepted' = hakoniwaAccepted)
        BY <2>1 DEF GoalFlush
      <3>2. UNCHANGED <<cancelPc, cancelFound, polled, pollPc, cancelPending, cancelAccepted,
                        hakCancelAccepted>>
        BY <2>1 DEF GoalFlush
      <3> QED
        BY <1>0, <3>1, <3>2
    <2> QED
      BY <1>1, <1>5, <2>1
         DEF GoalCallback, GoalRejected, GoalHandle, GoalAccept, GoalResponseFails, GoalPublish,
             GoalPublished
  <1>6. ASSUME ResultCallback PROVE CancelOrder'
    BY <1>1, <1>6 DEF ResultCallback, RosResult, RosResultFails
  <1>7. ASSUME NEW c \in Cancels, CancelCallback(c) PROVE CancelOrder'
    <2>1. ASSUME CancelCheck(c) PROVE CancelOrder'
      BY <1>0, <2>1 DEF CancelCheck
    <2>2. ASSUME CancelReply(c) PROVE CancelOrder'
      BY <1>0, <2>2 DEF CancelReply, AnswerCancel
    <2>3. ASSUME CancelReplyFails(c) PROVE CancelOrder'
      BY <1>0, <2>3 DEF CancelReplyFails
    <2>4. ASSUME CancelRecord(c) PROVE CancelOrder'
      BY <1>0, <2>4 DEF CancelRecord
    <2> QED
      BY <1>7, <2>1, <2>2, <2>3, <2>4 DEF CancelCallback
  <1>8. ASSUME NEW d \in Deliverers, Delivery(d) PROVE CancelOrder'
    BY <1>1, <1>8 DEF Delivery, Complete, RemoveContext
  <1>9. CASE UNCHANGED vars
    BY <1>1, <1>9 DEF vars
  <1> QED
    BY <1>2, <1>3, <1>4, <1>5, <1>6, <1>7, <1>8, <1>9 DEF Next


\* Every step keeps the context as long as the goal needs it.
LEMMA ContextOrderStep ==
    ASSUME TypeInv, GoalOrder, ContextOrder, [Next]_vars
    PROVE  ContextOrder'
  <1> USE DEF ContextOrder, Clearing
  <1>1. ASSUME UNCHANGED <<goalPolled, registered, terminal, hak, closePc>> PROVE ContextOrder'
    BY <1>1
  <1>2. ASSUME HakoniwaClient PROVE ContextOrder'
    BY <1>2, HakoniwaFrame DEF GoalOrder
  <1>3. ASSUME FeedbackCallback PROVE ContextOrder'
    BY <1>1, <1>3, FeedbackFrame
  <1>4. ASSUME Closing PROVE ContextOrder'
    <2>1. UNCHANGED <<goalPolled, hak>>
      BY <1>4, ClosingFrame
    <2>2. ASSUME CloseStop \/ CloseJoin PROVE ContextOrder'
      BY <2>1, <2>2 DEF CloseStop, CloseJoin, CloseStep
    <2>3. ASSUME CloseClear PROVE ContextOrder'
      <3>1. terminal' = (terminal \/ registered)
        BY <2>3 DEF CloseClear
      <3>2. goalPolled => terminal' \/ hak = "rejected"
        BY <3>1, Zenon
      <3> QED
        BY <2>1, <3>2
    <2>4. ASSUME CloseEndpoint PROVE ContextOrder'
      BY <2>1, <2>4 DEF CloseEndpoint, CloseStep
    <2> QED
      BY <1>4, <2>2, <2>3, <2>4 DEF Closing
  <1>5. ASSUME PollThread PROVE ContextOrder'
    <2>1. ASSUME GoalUnavailable PROVE ContextOrder'
      BY <2>1 DEF GoalUnavailable, RejectGoal, InState, Polling
    <2>2. ASSUME GoalRequest PROVE ContextOrder'
      BY <2>2 DEF GoalRequest, Polling
    <2>3. ASSUME GoalSendFails PROVE ContextOrder'
      <3>1. hak = "requested" /\ goalPolled
        BY <2>3 DEF GoalSendFails, GoalOrder
      <3>2. hak' = "rejected" \/ (closePc = "closed" /\ hak' = hak)
        BY <2>3, <3>1 DEF GoalSendFails, RejectGoal, InState
      <3> QED
        BY <2>3, <3>1, <3>2 DEF GoalSendFails
    <2> QED
      BY <1>1, <1>5, <2>1, <2>2, <2>3
         DEF PollThread, GoalSend, CancelRefuse, CancelRequest, CancelSend, CancelSendFails,
             RuntimeCancel
  <1>6. ASSUME RosServer PROVE ContextOrder'
    BY <1>1, <1>6 DEF RosServer, RosAnswersGoal, RosFinishes, RosFeedback, RosTakesBestEffort, RosStep,
                      RosAnswersCancel
  <1>7. ASSUME GoalCallback PROVE ContextOrder'
    <2>1. ASSUME GoalRejected \/ GoalResponseFails PROVE ContextOrder'
      BY <2>1 DEF GoalRejected, GoalResponseFails, Remove
    <2>2. ASSUME GoalAccept PROVE ContextOrder'
      BY <2>2 DEF GoalAccept, InState
    <2> QED
      BY <1>1, <1>7, <2>1, <2>2 DEF GoalCallback, GoalHandle, GoalFlush, GoalPublish, GoalPublished
  <1>8. ASSUME ResultCallback PROVE ContextOrder'
    BY <1>1, <1>8 DEF ResultCallback, RosResult, RosResultFails
  <1>9. ASSUME NEW c \in Cancels, CancelCallback(c) PROVE ContextOrder'
    BY <1>1, <1>9 DEF CancelCallback, CancelCheck, CancelReply, CancelReplyFails, CancelRecord
  <1>10. ASSUME NEW d \in Deliverers, Delivery(d) PROVE ContextOrder'
    <2>1. ASSUME Complete(d) PROVE ContextOrder'
      <3>1. hak' = hak \/ hak = "accepted"
        BY <2>1 DEF Complete, InState
      <3> QED
        BY <2>1, <3>1 DEF Complete
    <2>2. ASSUME RemoveContext(d) PROVE ContextOrder'
      BY <2>2 DEF RemoveContext, Remove
    <2> QED
      BY <1>10, <2>1, <2>2 DEF Delivery
  <1>11. CASE UNCHANGED vars
    BY <1>1, <1>11 DEF vars
  <1> QED
    BY <1>2, <1>3, <1>4, <1>5, <1>6, <1>7, <1>8, <1>9, <1>10, <1>11 DEF Next

-----------------------------------------------------------------------------
\* While nothing goes wrong every step keeps the Hakoniwa goal accepted until it is
\* completed, and its context until then.
LEMMA GoalUndisturbedStep ==
    ASSUME TypeInv, GoalOrder, OneResult, ResultOfRos, CancelOrder, GoalUndisturbed, [Next]_vars
    PROVE  GoalUndisturbed'
  <1> SUFFICES ASSUME Undisturbed' PROVE GoalUndisturbed'
    BY DEF GoalUndisturbed
  <1>0. Undisturbed /\ ~Fault /\ faults' = faults /\ closePc' = "running"
    <2>1. faults' \in Nat /\ faults \in Nat /\ faults <= faults' /\ faults' = 0
          /\ closePc' = "running" /\ closePc = "running"
      BY Monotone DEF TypeInv, StateTypes, Undisturbed
    <2> QED
      BY <2>1 DEF Undisturbed, Fault
  <1> DEFINE Goal == /\ resultRequested /\ completions = 0 => hak = "accepted"
                     /\ terminal => hak \in {"rejected"} \cup Terminal
                     /\ registered /\ hak \in Terminal => \E d \in Deliverers : deliverPc[d] = "remove"
                     /\ \A d \in Deliverers : deliverPc[d] = "remove" => hak \in Terminal
  <1>a. Goal
    BY <1>0 DEF GoalUndisturbed
  <1>b. SUFFICES Goal'
    BY DEF GoalUndisturbed
  <1>c. ResultTypes
    BY DEF TypeInv
  <1> USE <1>0, <1>a, <1>c
  <1>1. ASSUME UNCHANGED <<resultRequested, completions, hak, terminal, registered, deliverPc>>
        PROVE  Goal'
    BY <1>1
  <1>2. ASSUME HakoniwaClient PROVE Goal'
    BY <1>2, HakoniwaFrame DEF Terminal
  <1>3. ASSUME FeedbackCallback PROVE Goal'
    BY <1>1, <1>3, FeedbackFrame
  <1>4. ASSUME Closing PROVE Goal'
    BY <1>4, ClosingFrame
  <1>5. ASSUME PollThread PROVE Goal'
    <2>1. ASSUME GoalUnavailable PROVE Goal'
      BY <2>1 DEF GoalUnavailable, RejectGoal, InState, Terminal, GoalOrder
    <2>2. ASSUME GoalRequest PROVE Goal'
      BY <2>2 DEF GoalRequest, Terminal
    <2> QED
      BY <1>1, <1>5, <2>1, <2>2
         DEF PollThread, GoalSend, GoalSendFails, CancelRefuse, CancelRequest, CancelSend,
             CancelSendFails, RuntimeCancel
  <1>6. ASSUME RosServer PROVE Goal'
    BY <1>1, <1>6 DEF RosServer, RosAnswersGoal, RosFinishes, RosFeedback, RosTakesBestEffort, RosStep,
                      RosAnswersCancel
  <1>7. ASSUME GoalCallback PROVE Goal'
    <2>1. ASSUME GoalRejected PROVE Goal'
      <3>1. hak = "requested" /\ hak' = "rejected" /\ ~resultRequested
        BY <2>1 DEF GoalRejected, RejectGoal, InState, GoalOrder, Undisturbed
      <3> QED
        BY <2>1, <3>1 DEF GoalRejected, Remove, Terminal
    <2>2. ASSUME GoalAccept PROVE Goal'
      BY <2>2 DEF GoalAccept, InState, Terminal
    <2>3. ASSUME GoalResponseFails PROVE FALSE
      <3>1. goalPc = "accept" /\ ~InState("requested")
        BY <2>3 DEF GoalResponseFails
      <3> QED
        BY <3>1 DEF GoalOrder, InState, Undisturbed
    <2>4. ASSUME GoalPublished PROVE Goal'
      <3>1. deliverPc[OfGoal] = "none" /\ OfGoal \in Deliverers
        BY <2>4, ThreadsDiffer DEF GoalPublished, OneResult
      <3>2. \A d \in Deliverers : deliverPc'[d] = "remove" <=> deliverPc[d] = "remove"
        BY <2>4, <3>1 DEF GoalPublished, Deliver, ResultTypes
      <3> QED
        BY <2>4, <3>2 DEF GoalPublished
    <2> QED
      BY <1>1, <1>7, <2>1, <2>2, <2>3, <2>4 DEF GoalCallback, GoalHandle, GoalFlush, GoalPublish
  <1>8. ASSUME ResultCallback PROVE Goal'
    <2>1. ASSUME RosResult PROVE Goal'
      <3>1. deliverPc[OfResult] = "none" /\ OfResult \in Deliverers
        BY <2>1, ThreadsDiffer DEF RosResult, OneResult
      <3>2. \A d \in Deliverers : deliverPc'[d] = "remove" <=> deliverPc[d] = "remove"
        BY <2>1, <3>1 DEF RosResult, Deliver, ResultTypes
      <3> QED
        BY <2>1, <3>2 DEF RosResult
    <2> QED
      BY <1>8, <2>1 DEF ResultCallback, RosResultFails
  <1>9. ASSUME NEW c \in Cancels, CancelCallback(c) PROVE Goal'
    <2>1. ASSUME CancelRecord(c) PROVE Goal'
      <3>1. deliverPc[OfCancel(c)] = "none" /\ OfCancel(c) \in Deliverers
        BY <2>1, ThreadsDiffer DEF CancelRecord, OneResult
      <3>2. \A d \in Deliverers : deliverPc'[d] = "remove" <=> deliverPc[d] = "remove"
        BY <2>1, <3>1 DEF CancelRecord, Deliver, ResultTypes
      <3> QED
        BY <2>1, <3>2 DEF CancelRecord
    <2> QED
      BY <1>1, <1>9, <2>1 DEF CancelCallback, CancelCheck, CancelReply, CancelReplyFails
  <1>10. ASSUME NEW d \in Deliverers, Delivery(d) PROVE Goal'
    <2>1. ASSUME Complete(d) PROVE Goal'
      <3>1. took[d] = "result" /\ ros \in Terminal /\ completions = 0 /\ resultRequested
        <4>1. took[d] # "none" /\ completions = 0 /\ resultPc # "none"
          BY <2>1 DEF Complete, OneResult, CompleteAtMostOnce, ResultTypes
        <4>2. took[d] # "error"
          BY DEF ResultOfRos, Undisturbed
        <4> QED
          BY <4>1, <4>2 DEF ResultOfRos, GoalOrder, ResultTypes, Took
      <3>2. hak = "accepted" /\ hak' \in Terminal
        BY <2>1, <3>1 DEF Complete, InState, Undisturbed, StatusOf, Terminal
      <3>3. completions' # 0 /\ deliverPc'[d] = "remove" /\ UNCHANGED <<terminal, registered>>
        BY <2>1, <3>1 DEF Complete, ResultTypes
      <3> QED
        BY <3>2, <3>3
    <2>2. ASSUME RemoveContext(d) PROVE Goal'
      BY <2>2 DEF RemoveContext, Remove, ResultTypes
    <2> QED
      BY <1>10, <2>1, <2>2 DEF Delivery
  <1>11. CASE UNCHANGED vars
    BY <1>1, <1>11 DEF vars
  <1> QED
    BY <1>2, <1>3, <1>4, <1>5, <1>6, <1>7, <1>8, <1>9, <1>10, <1>11 DEF Next


\* With one cancel request and no other, every step keeps what the ROS server accepted on
\* its way to cancelAccepted, ahead of the result.
LEMMA CancelRecordedStep ==
    ASSUME TypeInv, GoalOrder, OneResult, ResultOfRos, CancelOrder, GoalUndisturbed,
           CancelRecorded, [Next]_vars
    PROVE  CancelRecorded'
  <1> SUFFICES ASSUME OneCancel' PROVE CancelRecorded'
    BY DEF CancelRecorded
  <1>0. /\ OneCancel /\ Undisturbed /\ ~Fault /\ faults = 0 /\ faults' = faults
        /\ closePc = "running" /\ closePc' = "running"
        /\ runtimeCancel = "none" /\ runtimeCancel' = "none"
    <2>1. /\ faults' = 0 /\ closePc' = "running" /\ asked' <= 1 /\ runtimeCancel' = "none"
          /\ faults \in Nat /\ asked \in Nat
      BY ActionClientAssumption DEF OneCancel, Undisturbed, TypeInv, StateTypes, CancelTypes
    <2>2. /\ asked' \in 0 .. MaxCancels
      BY CancelTypesStep DEF TypeInv, CancelTypes
    <2>3. faults = 0 /\ closePc = "running" /\ asked <= 1 /\ runtimeCancel = "none"
      BY <2>1, <2>2, Monotone, ActionClientAssumption DEF TypeInv
    <2> QED
      BY <2>1, <2>3 DEF OneCancel, Undisturbed, Fault
  <1> DEFINE Way == {"check", "reply", "record"}
             Recorded ==
                 /\ bestEffort # "sent"
                 /\ \A c \in Cancels : cancelPc[c] \in {"sent"} \cup Way => cancelPending
                 /\ pollPc = "sendCancel" => cancelPending
                 /\ ros \in {"canceling", "canceled"} /\ hak \notin Terminal =>
                        \E c \in Cancels :
                            /\ cancelFound[c]
                            /\ cancelPc[c] \in Way \/ (cancelPc[c] = "done" /\ cancelAccepted)
                 /\ ros = "canceled" /\ completions = 0 /\ (\E d \in Deliverers : took[d] # "none")
                        => cancelAccepted
                 /\ hak \in Terminal => hak = ros
  <1>a. Recorded
    BY <1>0 DEF CancelRecorded
  <1>b. SUFFICES Recorded'
    BY DEF CancelRecorded
  <1>c. /\ cancelPc \in [Cancels -> {"none", "sent", "check", "reply", "record", "done"}]
        /\ cancelFound \in [Cancels -> BOOLEAN] /\ took \in [Deliverers -> Took]
        /\ deliverPc \in [Deliverers -> {"none", "complete", "remove", "done"}]
    BY DEF TypeInv, CancelTypes, ResultTypes
  \* there is one cancel request at most
  <1>d. \A c, e \in Cancels : cancelPc[c] # "none" /\ cancelPc[e] # "none" => c = e
    BY <1>0, ActionClientAssumption DEF OneCancel, CancelOrder, TypeInv, CancelTypes, Cancels
  <1>e. \A c \in Cancels : cancelPc[c] # "none" =>
            /\ hakoniwaAccepted /\ hak \in {"accepted"} \cup Terminal
            /\ terminal => hak \in Terminal
    BY <1>0 DEF CancelOrder, GoalOrder, GoalUndisturbed, Terminal
  <1>f. /\ \A d \in Deliverers : took[d] # "none" => took[d] = "result" /\ ros \in Terminal
        /\ pendingResult # "none" => pendingResult = "result" /\ ros \in Terminal
    BY <1>0, <1>c DEF ResultOfRos, TypeInv, ResultTypes, Took
  <1>g. /\ ros \in Terminal => ros' = ros
        /\ ros \in {"canceling"} \cup Terminal => ros' \in {"canceling"} \cup Terminal
    BY Monotone DEF TypeInv
  <1>h. resultPc # "none" /\ completions = 0 => hak = "accepted"
    BY <1>0 DEF GoalOrder, GoalUndisturbed
  <1> HIDE DEF Way, Recorded
  <1>1. ASSUME UNCHANGED <<bestEffort, cancelPc, cancelFound, cancelPending, cancelAccepted, ros,
                           completions, took>>,
               pollPc' = pollPc \/ pollPc' # "sendCancel",
               hak' = hak \/ (hak \notin Terminal /\ hak' \notin Terminal)
        PROVE  Recorded'
    BY <1>a, <1>1 DEF Recorded
  <1>2. ASSUME HakoniwaClient PROVE Recorded'
    BY <1>1, <1>2, HakoniwaFrame DEF Terminal
  <1>3. ASSUME FeedbackCallback PROVE Recorded'
    BY <1>1, <1>3, FeedbackFrame
  <1>4. ASSUME PollThread PROVE Recorded'
    <2>1. ASSUME GoalUnavailable \/ GoalRequest PROVE Recorded'
      BY <1>1, <2>1 DEF GoalUnavailable, GoalRequest, RejectGoal, Terminal
    <2>2. ASSUME GoalSend PROVE Recorded'
      <3>1. ros = "none" /\ ros' = "requested" /\ hak = "requested"
        BY <2>2 DEF GoalSend, GoalOrder
      <3>2. /\ UNCHANGED <<bestEffort, cancelPc, cancelPending, hak>> /\ pollPc' # "sendCancel"
        BY <2>2 DEF GoalSend
      <3> QED
        BY <1>a, <3>1, <3>2 DEF Recorded, Terminal
    <2>3. ASSUME CancelRefuse \/ RuntimeCancel PROVE Recorded'
      BY <1>0, <1>1, <2>3 DEF CancelRefuse, RuntimeCancel
    <2>4. ASSUME CancelRequest PROVE Recorded'
      <3>1. /\ UNCHANGED <<bestEffort, cancelPc, cancelFound, cancelAccepted, ros, completions, took, hak>>
            /\ cancelPending'
        BY <2>4 DEF CancelRequest
      <3> QED
        BY <1>a, <3>1 DEF Recorded
    <2>5. ASSUME CancelSend PROVE Recorded'
      <3>1. /\ UNCHANGED <<bestEffort, cancelPending, cancelFound, cancelAccepted, ros, completions,
                           took, hak>>
            /\ cancelPc' = [cancelPc EXCEPT ![polled] = "sent"]
            /\ pollPc' = "poll" /\ pollPc = "sendCancel"
        BY <2>5 DEF CancelSend
      <3>2. cancelPending /\ cancelPc[polled] = "none"
        BY <1>a, <3>1 DEF Recorded, CancelOrder
      <3> QED
        BY <1>a, <1>c, <3>1, <3>2 DEF Recorded, Way
    <2> QED
      BY <1>0, <1>4, <2>1, <2>2, <2>3, <2>4, <2>5 DEF PollThread, GoalSendFails, CancelSendFails
  <1>5. ASSUME RosServer PROVE Recorded'
    <2>1. ASSUME NEW c \in Cancels, RosAnswersCancel(c) PROVE Recorded'
      <3>1. PICK accept \in BOOLEAN :
              /\ cancelPc[c] = "sent" /\ cancelPc' = [cancelPc EXCEPT ![c] = "check"]
              /\ cancelFound' = [cancelFound EXCEPT ![c] = accept]
              /\ accept => ros = "executing" /\ ros' = "canceling"
              /\ ~accept => ros' = ros
        BY <1>0, <2>1 DEF RosAnswersCancel, ContainsGoal
      <3>2. UNCHANGED <<bestEffort, cancelPending, cancelAccepted, completions, took, hak, pollPc>>
        BY <2>1 DEF RosAnswersCancel
      <3>3. cancelPending
        BY <1>a, <3>1 DEF Recorded
      <3>4. CASE accept
        <4>1. cancelFound'[c] /\ cancelPc'[c] \in Way /\ ros' = "canceling"
          BY <1>c, <3>1, <3>4 DEF Way
        <4>2. hak \notin Terminal
          BY <1>a, <3>1, <3>4 DEF Recorded, Terminal
        <4> QED
          BY <1>a, <3>2, <3>3, <4>1, <4>2 DEF Recorded
      <3>5. CASE ~accept
        BY <1>a, <1>c, <3>1, <3>2, <3>3, <3>5 DEF Recorded, Way
      <3> QED
        BY <3>4, <3>5
    <2>2. ASSUME RosAnswersGoal PROVE Recorded'
      <3>1. hak = "requested" \/ hak \notin Terminal
        BY <1>a, <2>2 DEF RosAnswersGoal, Recorded, Terminal
      <3>2. ros' \notin {"canceling", "canceled"} /\ hak \notin Terminal
        BY <2>2, <3>1 DEF RosAnswersGoal, RosStep, Terminal
      <3>3. UNCHANGED <<bestEffort, cancelPc, cancelPending, hak, pollPc>>
        BY <2>2 DEF RosAnswersGoal, RosStep
      <3> QED
        BY <1>a, <3>2, <3>3 DEF Recorded
    <2>3. ASSUME RosFinishes PROVE Recorded'
      <3>1. /\ ros \in {"canceling", "executing"} /\ ros' \in Terminal
            /\ ros' = "canceled" => ros = "canceling"
            /\ UNCHANGED <<bestEffort, cancelPc, cancelFound, cancelPending, cancelAccepted,
                           completions, took, hak, pollPc>>
        BY <2>3 DEF RosFinishes, RosStep
      <3>2. \A d \in Deliverers : took[d] = "none"
        BY <1>f, <3>1 DEF Terminal
      <3>3. hak \notin Terminal
        BY <1>a, <3>1 DEF Recorded, Terminal
      <3> QED
        BY <1>a, <3>1, <3>2, <3>3 DEF Recorded, Terminal
    <2>4. ASSUME RosFeedback \/ RosTakesBestEffort PROVE Recorded'
      BY <1>1, <1>a, <2>4 DEF RosFeedback, RosTakesBestEffort, Recorded
    <2> QED
      BY <1>5, <2>1, <2>2, <2>3, <2>4 DEF RosServer
  <1>6. ASSUME GoalCallback PROVE Recorded'
    <2>1. ASSUME GoalRejected \/ GoalAccept PROVE Recorded'
      BY <1>1, <2>1 DEF GoalRejected, GoalAccept, RejectGoal, InState, Terminal
    <2>2. ASSUME GoalResponseFails PROVE FALSE
      <3>1. goalPc = "accept" /\ ~InState("requested")
        BY <1>0, <2>2 DEF GoalResponseFails
      <3> QED
        BY <1>0, <3>1 DEF GoalOrder, InState
    <2>3. ASSUME GoalFlush PROVE Recorded'
      <3>1. UNCHANGED <<bestEffort, cancelPc, cancelFound, cancelPending, cancelAccepted, ros,
                        completions, hak, pollPc>>
        BY <2>3 DEF GoalFlush
      <3>2. took' = took \/ took' = [took EXCEPT ![OfGoal] = pendingResult]
        BY <2>3 DEF GoalFlush, Take
      <3>3. \A c \in Cancels : cancelPc[c] = "none"
        BY <2>3 DEF GoalFlush, GoalOrder, CancelOrder
      <3>4. ros \in {"canceling", "canceled"} => hak \in Terminal
        BY <1>a, <3>3 DEF Recorded, Way
      <3>5. ASSUME ros = "canceled", completions = 0, NEW d \in Deliverers, took'[d] # "none"
            PROVE  cancelAccepted
        <4>1. took[d] # "none" \/ pendingResult # "none"
          BY <1>c, <3>2, <3>5
        <4>2. resultPc # "none"
          BY <4>1 DEF OneResult
        <4> QED
          BY <1>h, <3>4, <3>5, <4>2 DEF Terminal
      <3> QED
        BY <1>a, <3>1, <3>4, <3>5 DEF Recorded
    <2>4. ASSUME GoalHandle \/ GoalPublish \/ GoalPublished PROVE Recorded'
      BY <1>1, <2>4 DEF GoalHandle, GoalPublish, GoalPublished
    <2> QED
      BY <1>6, <2>1, <2>2, <2>3, <2>4 DEF GoalCallback
  <1>7. ASSUME ResultCallback PROVE Recorded'
    <2>1. RosResult
      BY <1>0, <1>7 DEF ResultCallback, RosResultFails
    <2>2. UNCHANGED <<bestEffort, cancelPc, cancelFound, cancelPending, cancelAccepted, ros,
                      completions, hak, pollPc>>
      BY <2>1 DEF RosResult
    <2>3. ASSUME ros = "canceled", completions = 0, NEW d \in Deliverers, took'[d] # "none"
          PROVE  cancelAccepted
      <3>1. hak = "accepted"
        BY <1>0, <2>1, <2>3 DEF RosResult, GoalUndisturbed
      <3>2. cancelPending \/ cancelAccepted
        BY <1>a, <2>3, <3>1 DEF Recorded, Way, Terminal
      <3>3. took[d] # "none" \/ ~Parked
        BY <1>c, <2>1, <2>3 DEF RosResult
      <3> QED
        BY <1>a, <2>3, <3>2, <3>3 DEF Parked, Recorded
    <2> QED
      BY <1>a, <2>2, <2>3 DEF Recorded
  <1>8. ASSUME NEW c \in Cancels, CancelCallback(c) PROVE Recorded'
    <2>1. ASSUME CancelCheck(c) PROVE Recorded'
      <3>1. /\ UNCHANGED <<bestEffort, cancelFound, cancelPending, cancelAccepted, ros, completions,
                           took, hak, pollPc>>
            /\ cancelPc[c] = "check"
            /\ cancelPc' = [cancelPc EXCEPT ![c] = IF terminal THEN "done" ELSE "reply"]
        BY <2>1 DEF CancelCheck
      <3>2. terminal => hak \in Terminal
        BY <1>e, <3>1
      <3> QED
        BY <1>a, <1>c, <3>1, <3>2 DEF Recorded, Way
    <2>2. ASSUME CancelReply(c) PROVE Recorded'
      <3>1. /\ UNCHANGED <<bestEffort, cancelFound, cancelPending, cancelAccepted, ros, completions,
                           took, hak, pollPc>>
            /\ cancelPc[c] = "reply"
            /\ cancelPc' = [cancelPc EXCEPT ![c] = "record"]
        BY <2>2 DEF CancelReply
      <3> QED
        BY <1>a, <1>c, <3>1 DEF Recorded, Way
    <2>3. ASSUME CancelReplyFails(c) PROVE Recorded'
      <3>1. /\ UNCHANGED <<bestEffort, cancelFound, cancelPending, cancelAccepted, ros, completions,
                           took, hak, pollPc>>
            /\ cancelPc[c] = "reply" /\ ~InState("accepted")
            /\ cancelPc' = [cancelPc EXCEPT ![c] = "done"]
        BY <1>0, <2>3 DEF CancelReplyFails
      <3>2. hak \in Terminal
        BY <1>0, <1>e, <3>1 DEF InState
      <3> QED
        BY <1>a, <1>c, <3>1, <3>2 DEF Recorded, Way
    <2>4. ASSUME CancelRecord(c) PROVE Recorded'
      <3>1. /\ UNCHANGED <<bestEffort, cancelFound, ros, completions, hak, pollPc>>
            /\ cancelPc[c] = "record"
            /\ cancelPc' = [cancelPc EXCEPT ![c] = "done"]
        BY <2>4 DEF CancelRecord
      <3>2. CASE terminal
        <4>1. UNCHANGED <<cancelPending, cancelAccepted, took>>
          BY <2>4, <3>2 DEF CancelRecord
        <4>2. hak \in Terminal
          BY <1>e, <3>1, <3>2
        <4> QED
          BY <1>a, <1>c, <3>1, <4>1, <4>2 DEF Recorded, Way
      <3>3. CASE ~terminal
        <4>1. /\ cancelAccepted' = cancelFound[c]
              /\ took' = [took EXCEPT ![OfCancel(c)] = pendingResult]
          BY <2>4, <3>3 DEF CancelRecord, Take
        <4>2. \A e \in Cancels : e # c => cancelPc[e] = "none" /\ cancelPc'[e] = "none"
          BY <1>c, <1>d, <3>1
        <4>3. pollPc # "sendCancel"
          BY <1>0, <1>c, <3>1, ActionClientAssumption
             DEF CancelOrder, OneCancel, TypeInv, CancelTypes, Cancels
        <4>4. ros \in {"canceling", "canceled"} /\ hak \notin Terminal => cancelFound[c]
          BY <1>a, <4>2 DEF Recorded, Way
        <4>5. cancelPc'[c] = "done"
          BY <1>c, <3>1
        <4>6. ASSUME ros = "canceled", completions = 0, NEW d \in Deliverers, took'[d] # "none"
              PROVE  cancelFound[c]
          <5>1. took[d] # "none" \/ pendingResult # "none"
            BY <1>c, <4>1, <4>6
          <5>2. resultPc # "none"
            BY <5>1 DEF OneResult
          <5> QED
            BY <1>h, <4>4, <4>6, <5>2 DEF Terminal
        <4> QED
          BY <1>a, <3>1, <4>1, <4>2, <4>3, <4>4, <4>5, <4>6 DEF Recorded, Way
      <3> QED
        BY <3>2, <3>3
    <2> QED
      BY <1>8, <2>1, <2>2, <2>3, <2>4 DEF CancelCallback
  <1>9. ASSUME NEW d \in Deliverers, Delivery(d) PROVE Recorded'
    <2>1. ASSUME Complete(d) PROVE Recorded'
      <3>1. took[d] = "result" /\ ros \in Terminal /\ completions = 0 /\ hak = "accepted"
        <4>1. took[d] # "none" /\ completions = 0
          BY <1>c, <2>1 DEF Complete, OneResult, CompleteAtMostOnce, TypeInv, ResultTypes
        <4> QED
          BY <1>f, <1>h, <4>1 DEF OneResult
      <3>2. ros = "canceled" => cancelAccepted
        BY <1>a, <3>1 DEF Recorded
      <3>3. hak' = ros
        BY <1>0, <2>1, <3>1, <3>2 DEF Complete, InState, StatusOf
      <3>4. /\ UNCHANGED <<bestEffort, cancelPc, cancelFound, cancelPending, cancelAccepted, ros,
                           took, pollPc>>
            /\ completions' = completions + 1
        BY <2>1 DEF Complete
      <3> QED
        BY <1>a, <3>1, <3>3, <3>4 DEF Recorded
    <2>2. ASSUME RemoveContext(d) PROVE Recorded'
      BY <1>1, <2>2 DEF RemoveContext
    <2> QED
      BY <1>9, <2>1, <2>2 DEF Delivery
  <1>10. CASE UNCHANGED vars
    BY <1>1, <1>10 DEF vars
  <1>11. ~Closing
    BY <1>0, ClosingFrame
  <1> QED
    BY <1>2, <1>3, <1>4, <1>5, <1>6, <1>7, <1>8, <1>9, <1>10, <1>11 DEF Next


-----------------------------------------------------------------------------
\* The elements of a sequence of feedback when it grows, when its head is taken, and
\* when it is appended to another one.
LEMMA ElementsAppend ==
    ASSUME NEW s \in Seq(Nat), NEW n \in Nat
    PROVE  Elements(Append(s, n)) = Elements(s) \cup {n} /\ Len(Append(s, n)) = Len(s) + 1
  <1>1. Len(Append(s, n)) = Len(s) + 1 /\ Len(s) \in Nat
    OBVIOUS
  <1>2. \A i \in 1 .. Len(s) : Append(s, n)[i] = s[i]
    OBVIOUS
  <1>3. Append(s, n)[Len(s) + 1] = n
    OBVIOUS
  <1>4. 1 .. Len(s) + 1 = (1 .. Len(s)) \cup {Len(s) + 1}
    BY <1>1
  <1> QED
    BY <1>1, <1>2, <1>3, <1>4 DEF Elements

\* A sequence loses its head,
LEMMA ElementsHead ==
    ASSUME NEW s \in Seq(Nat), s # <<>>
    PROVE  /\ Elements(s) = {Head(s)} \cup Elements(Tail(s))
           /\ Len(Tail(s)) = Len(s) - 1 /\ Len(s) \in Nat \ {0}
           /\ Tail(s) \in Seq(Nat) /\ Head(s) \in Nat
  <1>1. Len(s) \in Nat \ {0} /\ Len(Tail(s)) = Len(s) - 1 /\ Tail(s) \in Seq(Nat) /\ Head(s) \in Nat
    OBVIOUS
  <1>2. Head(s) = s[1] /\ \A i \in 1 .. Len(s) - 1 : Tail(s)[i] = s[i + 1]
    OBVIOUS
  <1>3. \A i \in 1 .. Len(s) : i = 1 \/ (i - 1 \in 1 .. Len(s) - 1 /\ (i - 1) + 1 = i)
    BY <1>1
  <1>4. \A i \in 1 .. Len(s) - 1 : i + 1 \in 1 .. Len(s)
    BY <1>1
  <1>5. Elements(s) \subseteq {Head(s)} \cup Elements(Tail(s))
    <2>1. ASSUME NEW i \in 1 .. Len(s) PROVE s[i] \in {Head(s)} \cup Elements(Tail(s))
      <3>1. CASE i = 1
        BY <1>2, <3>1
      <3>2. CASE i - 1 \in 1 .. Len(s) - 1 /\ (i - 1) + 1 = i
        BY <1>1, <1>2, <3>2 DEF Elements
      <3> QED
        BY <1>3, <3>1, <3>2
    <2> QED
      BY <2>1 DEF Elements
  <1>6. 1 \in 1 .. Len(s)
    BY <1>1
  <1>7. {Head(s)} \cup Elements(Tail(s)) \subseteq Elements(s)
    BY <1>1, <1>2, <1>4, <1>6 DEF Elements
  <1> QED
    BY <1>1, <1>5, <1>7

\* and takes up another one.
LEMMA ElementsConcat ==
    ASSUME NEW s \in Seq(Nat), NEW t \in Seq(Nat)
    PROVE  /\ s \o t \in Seq(Nat) /\ Len(s \o t) = Len(s) + Len(t)
           /\ Elements(s \o t) = Elements(s) \cup Elements(t)
  <1>1. /\ s \o t \in Seq(Nat) /\ Len(s \o t) = Len(s) + Len(t)
        /\ Len(s) \in Nat /\ Len(t) \in Nat
    OBVIOUS
  <1>2. /\ \A i \in 1 .. Len(s) : (s \o t)[i] = s[i] /\ i \in 1 .. Len(s \o t)
        /\ \A i \in 1 .. Len(t) : (s \o t)[Len(s) + i] = t[i] /\ Len(s) + i \in 1 .. Len(s \o t)
    BY <1>1
  <1>3. \A i \in 1 .. Len(s \o t) :
            i \in 1 .. Len(s) \/ (i - Len(s) \in 1 .. Len(t) /\ Len(s) + (i - Len(s)) = i)
    BY <1>1
  <1>4. Elements(s \o t) \subseteq Elements(s) \cup Elements(t)
    BY <1>2, <1>3 DEF Elements
  <1>5. Elements(s) \subseteq Elements(s \o t) /\ Elements(t) \subseteq Elements(s \o t)
    BY <1>2 DEF Elements
  <1> QED
    BY <1>1, <1>4, <1>5

\* Only the goal that counts as accepted has callbacks that publish.
LEMMA PublishingAcceptedStep ==
    ASSUME GoalOrder, PublishingAccepted, [Next]_vars
    PROVE  PublishingAccepted'
  <1> USE DEF PublishingAccepted
  <1>1. ASSUME UNCHANGED <<publishing, hakoniwaAccepted>> PROVE PublishingAccepted'
    BY <1>1
  <1>2. ASSUME HakoniwaClient \/ Closing PROVE PublishingAccepted'
    BY <1>1, <1>2, HakoniwaFrame, ClosingFrame
  <1>3. ASSUME FeedbackCallback PROVE PublishingAccepted'
    <2>1. ASSUME FeedbackStart PROVE PublishingAccepted'
      BY <2>1 DEF FeedbackStart, Held
    <2>2. ASSUME NEW n \in 1 .. MaxFeedback, FeedbackPublish(n) PROVE PublishingAccepted'
      BY <2>2 DEF FeedbackPublish
    <2> QED
      BY <1>3, <2>1, <2>2 DEF FeedbackCallback
  <1>4. ASSUME PollThread PROVE PublishingAccepted'
    BY <1>1, <1>4
       DEF PollThread, GoalUnavailable, GoalRequest, GoalSend, GoalSendFails, CancelRefuse,
           CancelRequest, CancelSend, CancelSendFails, RuntimeCancel
  <1>5. ASSUME RosServer PROVE PublishingAccepted'
    BY <1>1, <1>5 DEF RosServer, RosAnswersGoal, RosFinishes, RosFeedback, RosTakesBestEffort, RosStep,
                      RosAnswersCancel
  <1>6. ASSUME GoalCallback PROVE PublishingAccepted'
    <2>1. ASSUME GoalFlush PROVE PublishingAccepted'
      BY <2>1 DEF GoalFlush
    <2> QED
      BY <1>1, <1>6, <2>1
         DEF GoalCallback, GoalRejected, GoalHandle, GoalAccept, GoalResponseFails, GoalPublish,
             GoalPublished
  <1>7. ASSUME ResultCallback PROVE PublishingAccepted'
    BY <1>1, <1>7 DEF ResultCallback, RosResult, RosResultFails
  <1>8. ASSUME NEW c \in Cancels, CancelCallback(c) PROVE PublishingAccepted'
    BY <1>1, <1>8 DEF CancelCallback, CancelCheck, CancelReply, CancelReplyFails, CancelRecord
  <1>9. ASSUME NEW d \in Deliverers, Delivery(d) PROVE PublishingAccepted'
    BY <1>1, <1>9 DEF Delivery, Complete, RemoveContext
  <1>10. CASE UNCHANGED vars
    BY <1>1, <1>10 DEF vars
  <1> QED
    BY <1>2, <1>3, <1>4, <1>5, <1>6, <1>7, <1>8, <1>9, <1>10 DEF Next

\* A goal that goes on after the step went on before it.
LEMMA GoesOn ==
    ASSUME TypeInv, GoalOrder, [Next]_vars,
           hak' \in {"none", "requested", "accepted"}, ~terminal'
    PROVE  hak \in {"none", "requested", "accepted"} /\ ~terminal
  <1> USE DEF Terminal
  <1>1. ASSUME UNCHANGED <<hak, terminal>> PROVE hak \in {"none", "requested", "accepted"} /\ ~terminal
    BY <1>1
  <1>2. ASSUME HakoniwaClient PROVE hak \in {"none", "requested", "accepted"} /\ ~terminal
    BY <1>2, HakoniwaFrame
  <1>3. ASSUME Closing PROVE hak \in {"none", "requested", "accepted"} /\ ~terminal
    <2>1. hak' = hak
      BY <1>3, ClosingFrame
    <2>2. ~terminal
      BY <1>3 DEF Closing, CloseStop, CloseJoin, CloseClear, CloseEndpoint
    <2> QED
      BY <2>1, <2>2
  <1>4. ASSUME FeedbackCallback PROVE hak \in {"none", "requested", "accepted"} /\ ~terminal
    BY <1>1, <1>4, FeedbackFrame
  <1>5. ASSUME PollThread PROVE hak \in {"none", "requested", "accepted"} /\ ~terminal
    <2>1. ASSUME GoalUnavailable PROVE hak \in {"none", "requested", "accepted"} /\ ~terminal
      BY <2>1 DEF GoalUnavailable
    <2>2. ASSUME GoalSendFails PROVE hak \in {"none", "requested", "accepted"} /\ ~terminal
      BY <2>2 DEF GoalSendFails, GoalOrder
    <2> QED
      BY <1>1, <1>5, <2>1, <2>2
         DEF PollThread, GoalRequest, GoalSend, CancelRefuse, CancelRequest, CancelSend,
             CancelSendFails, RuntimeCancel
  <1>6. ASSUME RosServer PROVE hak \in {"none", "requested", "accepted"} /\ ~terminal
    BY <1>1, <1>6 DEF RosServer, RosAnswersGoal, RosFinishes, RosFeedback, RosTakesBestEffort, RosStep,
                      RosAnswersCancel
  <1>7. ASSUME GoalCallback PROVE hak \in {"none", "requested", "accepted"} /\ ~terminal
    <2>1. ASSUME GoalAccept PROVE hak \in {"none", "requested", "accepted"} /\ ~terminal
      BY <2>1 DEF GoalAccept, InState
    <2> QED
      BY <1>1, <1>7, <2>1
         DEF GoalCallback, GoalRejected, GoalHandle, GoalResponseFails, GoalFlush, GoalPublish,
             GoalPublished, Remove
  <1>8. ASSUME ResultCallback PROVE hak \in {"none", "requested", "accepted"} /\ ~terminal
    BY <1>1, <1>8 DEF ResultCallback, RosResult, RosResultFails
  <1>9. ASSUME NEW c \in Cancels, CancelCallback(c)
        PROVE  hak \in {"none", "requested", "accepted"} /\ ~terminal
    BY <1>1, <1>9 DEF CancelCallback, CancelCheck, CancelReply, CancelReplyFails, CancelRecord
  <1>10. ASSUME NEW d \in Deliverers, Delivery(d)
         PROVE  hak \in {"none", "requested", "accepted"} /\ ~terminal
    <2>1. ASSUME Complete(d) PROVE hak \in {"none", "requested", "accepted"} /\ ~terminal
      BY <2>1 DEF Complete, InState
    <2> QED
      BY <1>10, <2>1 DEF Delivery, RemoveContext, Remove
  <1>11. CASE UNCHANGED vars
    BY <1>1, <1>11 DEF vars
  <1> QED
    BY <1>2, <1>3, <1>4, <1>5, <1>6, <1>7, <1>8, <1>9, <1>10, <1>11 DEF Next


\* A sequence has no more elements than it is long.
LEMMA ElementsCount ==
    ASSUME NEW s \in Seq(Nat)
    PROVE  IsFiniteSet(Elements(s)) /\ Cardinality(Elements(s)) <= Len(s)
  <1>1. Len(s) \in Nat /\ DOMAIN s = 1 .. Len(s) /\ s \in [1 .. Len(s) -> Nat]
    OBVIOUS
  <1>2. IsFiniteSet(1 .. Len(s)) /\ Cardinality(1 .. Len(s)) = Len(s)
    <2>1. 1 \in Int /\ Len(s) \in Int /\ (1 > Len(s) => Len(s) = 0) /\ Len(s) - 1 + 1 = Len(s)
      BY <1>1
    <2> QED
      BY <2>1, FS_Interval
  <1>3. s \in Surjection(1 .. Len(s), Elements(s))
    BY <1>1 DEF Surjection, Elements
  <1> QED
    BY <1>2, <1>3, FS_Surjection

\* Two sets together have no more elements than each for itself.
LEMMA UnionCount ==
    ASSUME NEW S, NEW T, IsFiniteSet(S), IsFiniteSet(T)
    PROVE  /\ IsFiniteSet(S \cup T) /\ Cardinality(S \cup T) \in Nat
           /\ Cardinality(S) \in Nat /\ Cardinality(T) \in Nat
           /\ Cardinality(S \cup T) <= Cardinality(S) + Cardinality(T)
  <1>1. IsFiniteSet(S \cap T) /\ Cardinality(S \cap T) \in Nat
    BY FS_Subset, FS_CardinalityType
  <1>2. /\ IsFiniteSet(S \cup T)
        /\ Cardinality(S \cup T) = Cardinality(S) + Cardinality(T) - Cardinality(S \cap T)
    BY FS_Union
  <1>3. Cardinality(S \cup T) \in Nat /\ Cardinality(S) \in Nat /\ Cardinality(T) \in Nat
    BY <1>2, FS_CardinalityType
  <1> QED
    BY <1>1, <1>2, <1>3

\* Every step moves a feedback message from one place to the next, or to none when an
\* exception is caught or once the goal has ended.
LEMMA FeedbackInvStep ==
    ASSUME TypeInv, GoalOrder, ContextOrder, PublishingAccepted, FeedbackInv, [Next]_vars
    PROVE  FeedbackInv'
  <1> SUFFICES ASSUME hak' \in {"none", "requested", "accepted"}, ~terminal' PROVE FeedbackInv'
    BY DEF FeedbackInv
  <1> DEFINE Counted == Places + Cardinality(Lost) <= started /\ Cardinality(Lost) <= faults
  <1>a. hak \in {"none", "requested", "accepted"} /\ ~terminal
    BY GoesOn
  <1>b. Counted
    BY <1>a DEF FeedbackInv
  <1>c. SUFFICES Counted'
    BY DEF FeedbackInv
  <1>d. /\ pendingFeedback \in Seq(Nat) /\ goalFeedback \in Seq(Nat) /\ received \in Seq(Nat)
        /\ publishing \subseteq 1 .. started /\ started \in Nat
    BY DEF TypeInv, FeedbackTypes
  <1>e. /\ Len(pendingFeedback) \in Nat /\ Len(goalFeedback) \in Nat /\ Len(received) \in Nat
        /\ Len(<<>>) = 0 /\ Elements(<<>>) = {}
    BY <1>d DEF Elements
  <1>f. /\ IsFiniteSet(publishing) /\ Cardinality(publishing) \in Nat
        /\ IsFiniteSet(Lost) /\ Cardinality(Lost) \in Nat
    <2>1. IsFiniteSet(1 .. started)
      BY <1>d, FS_Interval
    <2>2. Lost \subseteq 1 .. started
      BY DEF Lost
    <2> QED
      BY <1>d, <2>1, <2>2, FS_Subset, FS_CardinalityType
  <1>p. Places \in Nat
    BY <1>e, <1>f DEF Places
  \* what the goal accepts is published
  <1>g. hakoniwaAccepted \/ goalPc = "publish" => InState("accepted")
    BY <1>a DEF GoalOrder, ContextOrder, InState, Clearing, Terminal
  <1>h. faults \in Nat /\ faults' \in Nat /\ faults <= faults'
    BY Monotone DEF TypeInv, StateTypes
  \* no message more is lost ...
  <1>i. ASSUME Lost' \subseteq Lost,
               \/ Places' = Places /\ started' = started
               \/ Places' = Places + 1 /\ started' = started + 1
        PROVE  Counted'
    <2>1. Cardinality(Lost') <= Cardinality(Lost) /\ Cardinality(Lost') \in Nat
      BY <1>f, <1>i, FS_Subset, FS_CardinalityType
    <2> QED
      BY <1>b, <1>d, <1>f, <1>h, <1>i, <1>p, <2>1
  \* ... or one, with an exception
  <1>j. ASSUME NEW n, Lost' \subseteq Lost \cup {n}, Places' = Places - 1, started' = started, Fault
        PROVE  Counted'
    <2>1. /\ IsFiniteSet(Lost \cup {n}) /\ Cardinality(Lost \cup {n}) <= Cardinality(Lost) + 1
          /\ Cardinality(Lost \cup {n}) \in Nat
      BY <1>f, FS_AddElement, FS_CardinalityType
    <2>2. Cardinality(Lost') <= Cardinality(Lost \cup {n}) /\ Cardinality(Lost') \in Nat
      BY <1>j, <2>1, FS_Subset, FS_CardinalityType
    <2>3. faults' = faults + 1
      BY <1>j DEF Fault
    <2> QED
      BY <1>b, <1>d, <1>f, <1>h, <1>j, <1>p, <2>1, <2>2, <2>3
  <1>1. ASSUME UNCHANGED <<pendingFeedback, goalFeedback, received, publishing, started>>
        PROVE  Counted'
    BY <1>1, <1>i DEF Places, Lost, InPlace, Elements
  <1>2. ASSUME HakoniwaClient \/ Closing PROVE Counted'
    <2>1. UNCHANGED <<pendingFeedback, goalFeedback, received, publishing, started>>
      BY <1>2, HakoniwaFrame, ClosingFrame
    <2> QED
      BY <1>1, <2>1
  <1>3. ASSUME PollThread \/ ResultCallback PROVE Counted'
    <2>1. UNCHANGED <<pendingFeedback, goalFeedback, received, publishing, started>>
      BY <1>3
         DEF PollThread, GoalUnavailable, GoalRequest, GoalSend, GoalSendFails, CancelRefuse,
             CancelRequest, CancelSend, CancelSendFails, RuntimeCancel, ResultCallback, RosResult,
             RosResultFails
    <2> QED
      BY <1>1, <2>1
  <1>4. ASSUME RosServer PROVE Counted'
    <2>1. UNCHANGED <<pendingFeedback, goalFeedback, received, publishing, started>>
      BY <1>4 DEF RosServer, RosAnswersGoal, RosFinishes, RosFeedback, RosTakesBestEffort, RosStep,
                  RosAnswersCancel
    <2> QED
      BY <1>1, <2>1
  <1>5. ASSUME GoalCallback PROVE Counted'
    <2>1. ASSUME GoalFlush PROVE Counted'
      <3>1. goalFeedback = <<>>
        BY <2>1 DEF GoalFlush, GoalOrder
      <3>2. /\ goalFeedback' = pendingFeedback /\ pendingFeedback' = <<>>
            /\ UNCHANGED <<received, publishing, started>>
        BY <1>a, <2>1 DEF GoalFlush
      <3>3. Places' = Places
        BY <1>e, <1>f, <3>1, <3>2 DEF Places
      <3>4. Lost' \subseteq Lost
        BY <1>e, <3>1, <3>2 DEF Lost, InPlace, Elements
      <3> QED
        BY <1>i, <3>2, <3>3, <3>4
    <2>2. ASSUME GoalPublish PROVE Counted'
      <3>1. /\ goalFeedback # <<>> /\ goalFeedback' = Tail(goalFeedback)
            /\ UNCHANGED <<pendingFeedback, publishing, started>>
        BY <2>2 DEF GoalPublish
      <3>2. /\ Elements(goalFeedback) = {Head(goalFeedback)} \cup Elements(goalFeedback')
            /\ Len(goalFeedback') = Len(goalFeedback) - 1 /\ Head(goalFeedback) \in Nat
        BY <1>d, <3>1, ElementsHead
      <3>3. CASE received' = Append(received, Head(goalFeedback))
        <4>1. /\ Elements(received') = Elements(received) \cup {Head(goalFeedback)}
              /\ Len(received') = Len(received) + 1
          BY <1>d, <3>2, <3>3, ElementsAppend
        <4>2. Places' = Places
          BY <1>e, <1>f, <3>1, <3>2, <4>1 DEF Places
        <4>3. InPlace' = InPlace
          BY <3>1, <3>2, <4>1 DEF InPlace, Elements
        <4> QED
          BY <1>i, <3>1, <4>2, <4>3 DEF Lost
      <3>4. CASE Fault /\ UNCHANGED received
        <4>1. Places' = Places - 1
          BY <1>e, <1>f, <3>1, <3>2, <3>4 DEF Places
        <4>2. InPlace = InPlace' \cup {Head(goalFeedback)}
          BY <3>1, <3>2, <3>4 DEF InPlace, Elements
        <4>3. Lost' \subseteq Lost \cup {Head(goalFeedback)}
          BY <3>1, <4>2 DEF Lost
        <4> QED
          BY <1>j, <3>1, <3>4, <4>1, <4>3
      <3> QED
        BY <1>g, <2>2, <3>3, <3>4 DEF GoalPublish, Publish
    <2>3. ASSUME GoalRejected \/ GoalHandle \/ GoalAccept \/ GoalResponseFails \/ GoalPublished
          PROVE  UNCHANGED <<pendingFeedback, goalFeedback, received, publishing, started>>
      BY <2>3 DEF GoalRejected, GoalHandle, GoalAccept, GoalResponseFails, GoalPublished
    <2> QED
      BY <1>1, <1>5, <2>1, <2>2, <2>3 DEF GoalCallback
  <1>6. ASSUME FeedbackStart PROVE Counted'
    <2>1. started' = started + 1 /\ UNCHANGED <<goalFeedback, received>>
      BY <1>6 DEF FeedbackStart
    <2>2. 1 .. started' = (1 .. started) \cup {started'} /\ started' \notin publishing /\ started' \in Nat
      BY <1>d, <2>1
    <2>3. CASE Held
      <3>1. pendingFeedback' = Append(pendingFeedback, started') /\ publishing' = publishing
        BY <1>a, <1>6, <2>3 DEF FeedbackStart
      <3>2. /\ Elements(pendingFeedback') = Elements(pendingFeedback) \cup {started'}
            /\ Len(pendingFeedback') = Len(pendingFeedback) + 1
        BY <1>d, <2>2, <3>1, ElementsAppend
      <3>3. Places' = Places + 1
        BY <1>e, <1>f, <2>1, <3>1, <3>2 DEF Places
      <3>4. InPlace' = InPlace \cup {started'}
        BY <2>1, <3>1, <3>2 DEF InPlace, Elements
      <3> QED
        BY <1>i, <2>1, <2>2, <3>3, <3>4 DEF Lost
    <2>4. CASE ~Held
      <3>1. pendingFeedback' = pendingFeedback /\ publishing' = publishing \cup {started'}
        BY <1>a, <1>6, <2>4 DEF FeedbackStart
      <3>2. Cardinality(publishing') = Cardinality(publishing) + 1
        BY <1>f, <2>2, <3>1, FS_AddElement
      <3>3. Places' = Places + 1
        BY <1>e, <1>f, <2>1, <3>1, <3>2 DEF Places
      <3>4. InPlace' = InPlace \cup {started'}
        BY <2>1, <3>1 DEF InPlace, Elements
      <3> QED
        BY <1>i, <2>1, <2>2, <3>3, <3>4 DEF Lost
    <2> QED
      BY <2>3, <2>4
  <1>7. ASSUME NEW n \in 1 .. MaxFeedback, FeedbackPublish(n) PROVE Counted'
    <2>1. /\ n \in publishing /\ publishing' = publishing \ {n} /\ n \in Nat
          /\ UNCHANGED <<pendingFeedback, goalFeedback, started>>
      BY <1>7 DEF FeedbackPublish
    <2>2. Cardinality(publishing') = Cardinality(publishing) - 1
      BY <1>f, <2>1, FS_RemoveElement
    <2>3. CASE received' = Append(received, n)
      <3>1. Elements(received') = Elements(received) \cup {n} /\ Len(received') = Len(received) + 1
        BY <1>d, <2>1, <2>3, ElementsAppend
      <3>2. Places' = Places
        BY <1>e, <1>f, <2>1, <2>2, <3>1 DEF Places
      <3>3. InPlace' = InPlace
        BY <2>1, <3>1 DEF InPlace, Elements
      <3> QED
        BY <1>i, <2>1, <3>2, <3>3 DEF Lost
    <2>4. CASE Fault /\ UNCHANGED received
      <3>1. Places' = Places - 1
        BY <1>e, <1>f, <2>1, <2>2, <2>4 DEF Places
      <3>2. InPlace = InPlace' \cup {n}
        BY <2>1, <2>4 DEF InPlace, Elements
      <3>3. Lost' \subseteq Lost \cup {n}
        BY <2>1, <3>2 DEF Lost
      <3> QED
        BY <1>j, <2>1, <2>4, <3>1, <3>3
    <2> QED
      BY <1>7, <1>g, <2>1, <2>3, <2>4 DEF FeedbackPublish, Publish, PublishingAccepted
  <1>8. ASSUME NEW c \in Cancels, CancelCallback(c)
        PROVE  UNCHANGED <<pendingFeedback, goalFeedback, received, publishing, started>>
    BY <1>8 DEF CancelCallback, CancelCheck, CancelReply, CancelReplyFails, CancelRecord
  <1>9. ASSUME NEW d \in Deliverers, Delivery(d)
        PROVE  UNCHANGED <<pendingFeedback, goalFeedback, received, publishing, started>>
    BY <1>9 DEF Delivery, Complete, RemoveContext
  <1>10. CASE UNCHANGED vars
    BY <1>1, <1>10 DEF vars
  <1> HIDE DEF Counted
  <1> QED
    BY <1>1, <1>2, <1>3, <1>4, <1>5, <1>6, <1>7, <1>8, <1>9, <1>10 DEF Next, FeedbackCallback

-----------------------------------------------------------------------------
GoalInv ==
    /\ TypeInv /\ GoalOrder /\ CancelOrder /\ OneResult /\ ResultOfRos /\ GoalUndisturbed
    /\ CancelRecorded /\ ContextOrder /\ FeedbackInv /\ PublishingAccepted

\* The inductive invariant of the life of a goal of HakoniwaRosActionClientNode.
LEMMA GoalInvariant == Spec => []GoalInv
  <1>1. Init => GoalInv
    <2> SUFFICES ASSUME Init PROVE GoalInv
      OBVIOUS
    <2> USE ActionClientAssumption, ThreadsDiffer DEF Init, Terminal, Cancels
    <2>1. StateTypes
      BY DEF StateTypes, HakStates, RosStates, Clearing
    <2>2. FeedbackTypes
      <3>1. <<>> \in Seq(Nat)
        OBVIOUS
      <3> QED
        BY <3>1 DEF FeedbackTypes
    <2>3. CancelTypes /\ ResultTypes
      BY DEF CancelTypes, ResultTypes, Took
    <2>4. GoalOrder /\ ContextOrder /\ PublishingAccepted
      BY DEF GoalOrder, ContextOrder, PublishingAccepted, Clearing
    <2>5. CancelOrder /\ OneResult /\ ResultOfRos
      BY DEF CancelOrder, CancelAcceptedByRos, OneResult, CompleteAtMostOnce, ResultOfRos
    <2>6. GoalUndisturbed /\ CancelRecorded
      BY DEF GoalUndisturbed, CancelRecorded
    <2>7. FeedbackInv
      <3>1. Cardinality({}) = 0
        BY FS_EmptySet
      <3>2. Len(<<>>) = 0 /\ 1 .. 0 = {}
        OBVIOUS
      <3>3. Places = 0 /\ Lost = {}
        BY <3>1, <3>2 DEF Places, Lost
      <3> QED
        BY <3>1, <3>3 DEF FeedbackInv
    <2> QED
      BY <2>1, <2>2, <2>3, <2>4, <2>5, <2>6, <2>7 DEF GoalInv, TypeInv
  <1>2. GoalInv /\ [Next]_vars => GoalInv'
    <2> SUFFICES ASSUME GoalInv, [Next]_vars PROVE GoalInv'
      OBVIOUS
    <2>1. TypeInv'
      BY StateStep, FeedbackTypesStep, CancelTypesStep, ResultTypesStep DEF GoalInv, TypeInv
    <2>2. GoalOrder' /\ ResultOfRos'
      BY GoalOrderStep, ResultOfRosStep DEF GoalInv
    <2>3. CancelOrder' /\ OneResult'
      BY CancelOrderStep, OneResultStep DEF GoalInv, TypeInv
    <2>4. GoalUndisturbed' /\ CancelRecorded'
      BY GoalUndisturbedStep, CancelRecordedStep DEF GoalInv
    <2>5. ContextOrder' /\ FeedbackInv' /\ PublishingAccepted'
      BY ContextOrderStep, FeedbackInvStep, PublishingAcceptedStep DEF GoalInv
    <2> QED
      BY <2>1, <2>2, <2>3, <2>4, <2>5 DEF GoalInv
  <1> QED
    BY <1>1, <1>2, PTL DEF Spec

\* However the goal response, the result and the cancel responses follow each other,
\* complete() is called at most once for a goal.
THEOREM CompleteAtMostOnceHolds == Spec => []CompleteAtMostOnce
  <1>1. GoalInv => CompleteAtMostOnce
    BY DEF GoalInv, OneResult
  <1> QED
    BY <1>1, GoalInvariant, PTL

\* A cancel request is accepted towards Hakoniwa only when the ROS server has accepted it.
THEOREM CancelAcceptedByRosHolds == Spec => []CancelAcceptedByRos
  <1>1. GoalInv => CancelAcceptedByRos
    BY DEF GoalInv, CancelOrder
  <1> QED
    BY <1>1, GoalInvariant, PTL

\* While nothing goes wrong _contexts holds a goal exactly until it has been answered or
\* completed.
THEOREM ContextFollowsGoalHolds == Spec => []ContextFollowsGoal
  <1>1. GoalInv => ContextFollowsGoal
    BY DEF GoalInv, GoalUndisturbed, ContextFollowsGoal
  <1> QED
    BY <1>1, GoalInvariant, PTL

\* With one cancel request and no other the Hakoniwa goal ends as the ROS goal did: the
\* CANCELED result that overtakes the cancel response is held back until it is recorded.
THEOREM ResultReflectedOnceHolds == Spec => []ResultReflectedOnce
  <1>1. GoalInv => ResultReflectedOnce
    BY DEF GoalInv, CancelRecorded, OneCancel, ResultReflectedOnce, ResultReflected
  <1> QED
    BY <1>1, GoalInvariant, PTL

\* No feedback is doubled between _on_ros_feedback, the list it is held back in and the
\* Hakoniwa client, and none is lost but the one whose publishing raised.
THEOREM FeedbackAccountedHolds == Spec => []FeedbackAccounted
  <1>1. GoalInv => FeedbackAccounted
    <2> DEFINE held == pendingFeedback \o goalFeedback \o received
               inSeq == {held[i] : i \in 1 .. Len(held)}
               lost == (1 .. started) \ (inSeq \cup publishing)
    <2> SUFFICES ASSUME GoalInv, hak \in {"requested", "accepted"} /\ ~terminal
                 PROVE  /\ Len(held) + Cardinality(publishing) + Cardinality(lost) = started
                        /\ Cardinality(lost) <= faults
      BY DEF FeedbackAccounted
    <2>1. /\ pendingFeedback \in Seq(Nat) /\ goalFeedback \in Seq(Nat) /\ received \in Seq(Nat)
          /\ publishing \subseteq 1 .. started /\ started \in Nat /\ faults \in Nat
      BY DEF GoalInv, TypeInv, FeedbackTypes, StateTypes
    <2>2. /\ pendingFeedback \o goalFeedback \in Seq(Nat)
          /\ Len(pendingFeedback \o goalFeedback) = Len(pendingFeedback) + Len(goalFeedback)
          /\ Elements(pendingFeedback \o goalFeedback)
             = Elements(pendingFeedback) \cup Elements(goalFeedback)
      BY <2>1, ElementsConcat
    <2>3. /\ held \in Seq(Nat)
          /\ Len(held) = Len(pendingFeedback) + Len(goalFeedback) + Len(received)
          /\ Elements(held)
             = Elements(pendingFeedback) \cup Elements(goalFeedback) \cup Elements(received)
      BY <2>1, <2>2, ElementsConcat
    <2>4. inSeq = Elements(held)
      BY DEF Elements
    <2> HIDE DEF held, inSeq
    <2>5. lost = Lost /\ Places = Len(held) + Cardinality(publishing)
      BY <2>3, <2>4 DEF Lost, InPlace, Places
    <2>6. Places + Cardinality(lost) <= started /\ Cardinality(lost) <= faults
      BY <2>5 DEF GoalInv, FeedbackInv
    \* all messages are in a place or lost, and the places hold them with their repetitions
    <2>7. IsFiniteSet(1 .. started) /\ Cardinality(1 .. started) = started
      <3>1. 1 \in Int /\ started \in Int /\ (1 > started => started = 0) /\ started - 1 + 1 = started
        BY <2>1
      <3> QED
        BY <3>1, FS_Interval
    <2>8. /\ IsFiniteSet(inSeq) /\ Cardinality(inSeq) <= Len(held) /\ Len(held) \in Nat
      <3>1. IsFiniteSet(Elements(held)) /\ Cardinality(Elements(held)) <= Len(held)
        BY <2>3, ElementsCount
      <3>2. Len(held) \in Nat
        BY <2>3
      <3> QED
        BY <2>4, <3>1, <3>2
    <2>a. lost \subseteq 1 .. started
      OBVIOUS
    <2>b. IsFiniteSet(publishing) /\ IsFiniteSet(lost)
      BY <2>1, <2>7, <2>a, FS_Subset
    <2>9. /\ IsFiniteSet(inSeq \cup publishing) /\ Cardinality(inSeq \cup publishing) \in Nat
          /\ Cardinality(inSeq) \in Nat /\ Cardinality(publishing) \in Nat
          /\ Cardinality(inSeq \cup publishing) <= Cardinality(inSeq) + Cardinality(publishing)
      BY <2>8, <2>b, UnionCount
    <2>10. /\ IsFiniteSet((inSeq \cup publishing) \cup lost) /\ Cardinality(lost) \in Nat
           /\ Cardinality((inSeq \cup publishing) \cup lost) \in Nat
           /\ Cardinality((inSeq \cup publishing) \cup lost)
              <= Cardinality(inSeq \cup publishing) + Cardinality(lost)
      BY <2>9, <2>b, UnionCount
    <2>11. 1 .. started \subseteq (inSeq \cup publishing) \cup lost
      OBVIOUS
    <2>12. started <= Cardinality((inSeq \cup publishing) \cup lost)
      <3>1. Cardinality(1 .. started) <= Cardinality((inSeq \cup publishing) \cup lost)
        BY <2>10, <2>11, FS_Subset
      <3> QED
        BY <2>7, <3>1
    <2>13. Len(held) + Cardinality(publishing) + Cardinality(lost) <= started
      BY <2>5, <2>6
    <2> HIDE DEF lost
    <2>14. started <= Len(held) + Cardinality(publishing) + Cardinality(lost)
      BY <2>1, <2>8, <2>9, <2>10, <2>12
    <2>15. Len(held) + Cardinality(publishing) + Cardinality(lost) = started
      <3>1. /\ Len(held) \in Nat /\ Cardinality(publishing) \in Nat /\ Cardinality(lost) \in Nat
            /\ started \in Nat
        BY <2>1, <2>8, <2>9, <2>10
      <3> QED
        BY <2>13, <2>14, <3>1
    <2> QED
      BY <2>6, <2>15
  <1> QED
    BY <1>1, GoalInvariant, PTL
=============================================================================
