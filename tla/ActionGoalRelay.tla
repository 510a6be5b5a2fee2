--------------------------- MODULE ActionGoalRelay ---------------------------
(***************************************************************************)
(* What an Action bridge promises, without its threads, queues and         *)
(* dictionaries: each ROS goal is paired with one Hakoniwa goal for good,  *)
(* and the ROS goal follows the Hakoniwa goal it is paired with and never  *)
(* runs ahead of it.  It is accepted, canceled or finished only after the  *)
(* Hakoniwa goal was, with the same status.  Only a bridge that is down    *)
(* aborts a ROS goal on its own.                                           *)
(***************************************************************************)
CONSTANTS RosGoals, HakGoals, NoGoal

VARIABLES
    mate,            \* the Hakoniwa goal sent for a ROS goal
    ros,             \* status of the ROS goals
    hak,             \* status of the Hakoniwa goals
    cancelAccepted,  \* the Hakoniwa goals whose cancel request was accepted
    down             \* whether the bridge has been closed

vars == <<mate, ros, hak, cancelAccepted, down>>

Ended == {"succeeded", "aborted", "canceled"}

Init ==
    /\ mate = [r \in RosGoals |-> NoGoal]
    /\ ros = [r \in RosGoals |-> "none"]
    /\ hak = [h \in HakGoals |-> "none"]
    /\ cancelAccepted = {}
    /\ down = FALSE

Pair(r, h) ==
    /\ mate[r] = NoGoal /\ \A q \in RosGoals : mate[q] # h
    /\ mate' = [mate EXCEPT ![r] = h]
    /\ UNCHANGED <<ros, hak, cancelAccepted, down>>

\* the life of a Hakoniwa goal, which the bridge starts but does not decide
HakStep(h) ==
    \/ /\ \/ hak[h] = "none" /\ hak' = [hak EXCEPT ![h] = "requested"]
          \/ hak[h] = "requested" /\ \E s \in {"refused", "executing"} :
                                        hak' = [hak EXCEPT ![h] = s]
          \/ hak[h] = "executing" /\ \E s \in Ended :
                 /\ s = "canceled" => h \in cancelAccepted
                 /\ hak' = [hak EXCEPT ![h] = s]
       /\ UNCHANGED <<mate, ros, cancelAccepted, down>>
    \/ /\ hak[h] = "executing"
       /\ cancelAccepted' = cancelAccepted \cup {h}
       /\ UNCHANGED <<mate, ros, hak, down>>

RosAccept(r) ==
    /\ ros[r] = "none" /\ mate[r] # NoGoal
    /\ hak[mate[r]] \in {"executing"} \cup Ended
    /\ ros' = [ros EXCEPT ![r] = "accepted"]
    /\ UNCHANGED <<mate, hak, cancelAccepted, down>>

RosExecute(r) ==
    /\ ros[r] = "accepted"
    /\ ros' = [ros EXCEPT ![r] = "executing"]
    /\ UNCHANGED <<mate, hak, cancelAccepted, down>>

RosCancel(r) ==
    /\ ros[r] = "executing" /\ mate[r] \in cancelAccepted
    /\ ros' = [ros EXCEPT ![r] = "canceling"]
    /\ UNCHANGED <<mate, hak, cancelAccepted, down>>

RosFinish(r) ==
    /\ ros[r] \in {"executing", "canceling"}
    /\ \/ hak[mate[r]] \in Ended /\ ros' = [ros EXCEPT ![r] = hak[mate[r]]]
       \/ down /\ ros' = [ros EXCEPT ![r] = "aborted"]
    /\ UNCHANGED <<mate, hak, cancelAccepted, down>>

GoDown == ~down /\ down' = TRUE /\ UNCHANGED <<mate, ros, hak, cancelAccepted>>

Next ==
    \/ \E r \in RosGoals, h \in HakGoals : Pair(r, h)
    \/ \E h \in HakGoals : HakStep(h)
    \/ \E r \in RosGoals : RosAccept(r) \/ RosExecute(r) \/ RosCancel(r) \/ RosFinish(r)
    \/ GoDown

Spec == Init /\ [][Next]_vars
=============================================================================
