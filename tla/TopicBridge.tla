---------------------------- MODULE TopicBridge ----------------------------
(***************************************************************************)
(* The topic bridge (config_loader.py, bridge_node.py, pdu_endpoint.py):   *)
(* load_config expands the binding entries and refuses topics with two     *)
(* owners; run() builds the node, spins it, and tears it down in the order *)
(* Endpoint dispatch, ROS node, ROS context, while the dispatch thread of  *)
(* the endpoint publishes the PDUs it receives.                            *)
(*                                                                         *)
(* A topic is the sequence of its segments, with the leading slash that    *)
(* _normalize_topic adds; a PDU is <<robot_name, pdu_name>>.               *)
(***************************************************************************)
EXTENDS Naturals, Sequences, SequencesExt

CONSTANTS
    Pdus,           \* the PDUs of the PDU definition
    UnknownPdu,     \* a PDU it does not define
    Topics,         \* the topics the entries may name
    NoTopic,        \* the entry names none
    MaxEntries,     \* bound: binding entries of a configuration
    MayFail         \* what may raise: "startup", "message", "stop"

ASSUME TopicBridgeAssumption ==
    /\ NoTopic \notin Topics /\ UnknownPdu \notin Pdus
    /\ Topics \cup Pdus \cup {UnknownPdu} \subseteq Seq(STRING) \ {<<>>}
    /\ MaxEntries \in Nat \ {0}
    /\ MayFail \subseteq {"startup", "message", "stop"}

VARIABLES
    config,         \* the binding entries of the file
    bindings,       \* BindingRootConfig.bindings
    mainPc,         \* the thread of run()
    node,           \* the variable of run(): "none", "alive", "destroyed"
    next,           \* the binding that the constructor sets up next
    endpoint,       \* Endpoint: "closed", "open", "started", "dispatching"
    managed,        \* PduEndpointManager._started
    receivers,      \* the bindings subscribed with on_recv_by_name
    delivering,     \* the binding whose _on_recv runs on the dispatch thread
    subscribers,    \* the bindings with a ROS subscription
    context         \* the ROS context is up

vars == <<config, bindings, mainPc, node, next, endpoint, managed, receivers, delivering,
          subscribers, context>>
setupVars  == <<next, receivers, subscribers>>
configVars == <<config, bindings>>

-----------------------------------------------------------------------------
(***************************************************************************)
(* load_config.                                                            *)
(***************************************************************************)
Directions == {"pdu_to_ros", "ros_to_pdu"}

Entry == [direction : Directions \cup {"both"}, pdu : Pdus \cup {UnknownPdu},
          topic : Topics \cup {NoTopic}]

Configs == UNION {[1 .. n -> Entry] : n \in 0 .. MaxEntries}

\* without a topic, /<robot_name>/<pdu_name>
RosTopic(e) == IF e.topic = NoTopic THEN e.pdu ELSE e.topic

\* the namespace of the mirror topics
Reserved(t) == Head(t) = "pdu"

\* (mutant) the PDU is published on the topic that ROS owns
SameTopic(d, t) == t

TopicForDirection(d, t) == IF d = "pdu_to_ros" THEN <<"pdu">> \o t ELSE t

ParseBinding(e) ==
    LET directions == IF e.direction = "both" THEN <<"pdu_to_ros", "ros_to_pdu">>
                                              ELSE <<e.direction>>
    IN  [i \in DOMAIN directions |->
            [direction |-> directions[i], pdu |-> e.pdu,
             topic |-> TopicForDirection(directions[i], RosTopic(e))]]

Expanded(c) == FlattenSeq([i \in DOMAIN c |-> ParseBinding(c[i])])

UniqueTopics(bs) == \A i, j \in DOMAIN bs : bs[i].topic = bs[j].topic => i = j

Accepted(c) ==
    /\ \A i \in DOMAIN c : c[i].pdu \in Pdus /\ ~Reserved(RosTopic(c[i]))
    /\ UniqueTopics(Expanded(c))

-----------------------------------------------------------------------------
\* rclpy.init() has returned
Init ==
    /\ config \in Configs /\ bindings = <<>>
    /\ mainPc = "load" /\ node = "none" /\ next = 1
    /\ endpoint = "closed" /\ managed = FALSE
    /\ receivers = {} /\ delivering = 0 /\ subscribers = {}
    /\ context = TRUE

\* the next step of the finally block, with or without a node
Finally == mainPc' = IF node = "alive" THEN "remove" ELSE "context"

-----------------------------------------------------------------------------
(***************************************************************************)
(* run(): the constructor of the node.                                     *)
(***************************************************************************)
Load ==
    /\ mainPc = "load"
    /\ IF Accepted(config) THEN bindings' = Expanded(config) /\ mainPc' = "start"
                           ELSE Finally /\ UNCHANGED bindings
    /\ UNCHANGED <<config, node, setupVars, endpoint, managed, delivering, context>>

\* run() without a configuration: a node without an endpoint
WithoutConfig ==
    /\ mainPc = "load" /\ config = <<>>
    /\ node' = "alive" /\ mainPc' = "spin"
    /\ UNCHANGED <<configVars, setupVars, endpoint, managed, delivering, context>>

StartManager ==
    /\ mainPc = "start"
    /\ endpoint' = "dispatching" /\ managed' = TRUE /\ mainPc' = "setup"
    /\ UNCHANGED <<configVars, node, setupVars, delivering, context>>

\* open(), start(), post_start() or start_dispatch() raises
StartFails ==
    /\ mainPc = "start" /\ "startup" \in MayFail
    /\ endpoint' \in {"closed", "open", "started"}
    /\ Finally
    /\ UNCHANGED <<configVars, node, setupVars, managed, delivering, context>>

Setting == mainPc = "setup" /\ next <= Len(bindings)

SetupInBinding ==
    /\ Setting /\ bindings[next].direction = "pdu_to_ros"
    /\ receivers' = receivers \cup {next} /\ next' = next + 1
    /\ UNCHANGED <<configVars, mainPc, node, endpoint, managed, delivering, subscribers, context>>

SetupOutBinding ==
    /\ Setting /\ bindings[next].direction = "ros_to_pdu"
    /\ subscribers' = subscribers \cup {next} /\ next' = next + 1
    /\ UNCHANGED <<configVars, mainPc, node, endpoint, managed, receivers, delivering, context>>

\* a converter or a message class is missing, or Ctrl+C: run() gets no node
SetupFails ==
    /\ mainPc = "setup" /\ "startup" \in MayFail
    /\ Finally
    /\ UNCHANGED <<configVars, node, setupVars, endpoint, managed, delivering, context>>

Constructed ==
    /\ mainPc = "setup" /\ next > Len(bindings)
    /\ node' = "alive" /\ mainPc' = "spin"
    /\ UNCHANGED <<configVars, setupVars, endpoint, managed, delivering, context>>

-----------------------------------------------------------------------------
(***************************************************************************)
(* The executor, on the thread of run(), and the dispatch thread.          *)
(***************************************************************************)
OnMsg ==
    /\ mainPc = "spin" /\ subscribers # {}
    /\ mainPc' = "callback"
    /\ UNCHANGED <<configVars, node, setupVars, endpoint, managed, delivering, context>>

Sent ==
    /\ mainPc = "callback"
    /\ mainPc' = "spin"
    /\ UNCHANGED <<configVars, node, setupVars, endpoint, managed, delivering, context>>

\* the conversion or send() raises, through spin_once
OnMsgFails ==
    /\ mainPc = "callback" /\ "message" \in MayFail
    /\ Finally
    /\ UNCHANGED <<configVars, node, setupVars, endpoint, managed, delivering, context>>

KeyboardInterrupt ==
    /\ mainPc \in {"spin", "callback"}
    /\ Finally
    /\ UNCHANGED <<configVars, node, setupVars, endpoint, managed, delivering, context>>

OnRecv(i) ==
    /\ endpoint = "dispatching" /\ delivering = 0
    /\ delivering' = i
    /\ UNCHANGED <<configVars, mainPc, node, setupVars, endpoint, managed, context>>

Published ==
    /\ delivering # 0
    /\ delivering' = 0
    /\ UNCHANGED <<configVars, mainPc, node, setupVars, endpoint, managed, context>>

-----------------------------------------------------------------------------
(***************************************************************************)
(* The finally block: remove_node, destroy_node, shutdown.                 *)
(***************************************************************************)
RemoveNode ==
    /\ mainPc = "remove"
    /\ mainPc' = "manager"
    /\ UNCHANGED <<configVars, node, setupVars, endpoint, managed, delivering, context>>

\* (mutant) the dispatch thread is not told to stop
KeepDispatching == UNCHANGED endpoint

\* stop_dispatch() (external): no callback starts from now on ...
StopRequested == endpoint' = "started"

StopDispatch ==
    /\ mainPc = "manager" /\ managed
    /\ StopRequested /\ mainPc' = "join"
    /\ UNCHANGED <<configVars, node, setupVars, managed, delivering, context>>

NotStarted ==
    /\ mainPc = "manager" /\ ~managed
    /\ mainPc' = "destroy"
    /\ UNCHANGED <<configVars, node, setupVars, endpoint, managed, delivering, context>>

\* (mutant) the callback that runs is not waited for
DispatchLeft == TRUE

\* ... and the one that runs has returned
DispatchEnded == delivering = 0

\* stop(), close()
StopEndpoint == endpoint' = "closed"

StopManager ==
    /\ mainPc = "join" /\ DispatchEnded
    /\ StopEndpoint /\ managed' = FALSE /\ mainPc' = "destroy"
    /\ UNCHANGED <<configVars, node, setupVars, delivering, context>>

\* stop_dispatch(), stop() or close() raises, or a second Ctrl+C comes: the
\* rest of the finally block does not run
StopFails ==
    /\ "stop" \in MayFail
    /\ \/ mainPc = "manager" /\ managed /\ UNCHANGED endpoint
       \/ mainPc = "join" /\ DispatchEnded /\ endpoint' \in {"started", "open"}
    /\ mainPc' = "raised"
    /\ UNCHANGED <<configVars, node, setupVars, managed, delivering, context>>

DestroyNode ==
    /\ mainPc = "destroy"
    /\ node' = "destroyed" /\ mainPc' = "context"
    /\ UNCHANGED <<configVars, setupVars, endpoint, managed, delivering, context>>

ShutdownContext ==
    /\ mainPc = "context"
    /\ context' = FALSE /\ mainPc' = "end"
    /\ UNCHANGED <<configVars, node, setupVars, endpoint, managed, delivering>>

-----------------------------------------------------------------------------
Startup  == Load \/ WithoutConfig \/ StartManager \/ StartFails \/ SetupInBinding \/ SetupOutBinding
            \/ SetupFails \/ Constructed
Spin     == OnMsg \/ Sent \/ OnMsgFails \/ KeyboardInterrupt
Dispatch == (\E i \in receivers : OnRecv(i)) \/ Published
Teardown == RemoveNode \/ StopDispatch \/ NotStarted \/ StopManager \/ StopFails
            \/ DestroyNode \/ ShutdownContext

Next == Startup \/ Spin \/ Dispatch \/ Teardown

Spec == Init /\ [][Next]_vars

\* The thread of run() goes on, and a dispatch callback returns.
FairSpec == Spec /\ WF_vars(Teardown) /\ WF_vars(Published)

-----------------------------------------------------------------------------
(***************************************************************************)
(* Properties.                                                             *)
(***************************************************************************)
Uses(e, d) == e.direction \in {d, "both"}

\* Stated of the entries as they are written: a configuration is accepted
\* unless an entry names an unknown PDU or a topic under /pdu, or two entries
\* bridge the same ROS topic in the same direction.  The mirror topics, the
\* defaults and the bindings in both directions add no conflict, and hide none.
AcceptedExactly ==
    Accepted(config) <=>
        /\ \A i \in DOMAIN config : /\ config[i].pdu # UnknownPdu
                                    /\ RosTopic(config[i])[1] # "pdu"
        /\ \A i, j \in DOMAIN config : \A d \in Directions :
               Uses(config[i], d) /\ Uses(config[j], d)
               /\ RosTopic(config[i]) = RosTopic(config[j]) => i = j

\* Once a node has been constructed, teardown is in the order Endpoint dispatch,
\* ROS node, ROS context: no callback of the dispatch thread runs, or can start,
\* on a destroyed node or after the ROS context is shut down.
TeardownOrder ==
    node # "none" /\ (~context \/ node = "destroyed") =>
        endpoint # "dispatching" /\ delivering = 0

\* Once the loop is left, by Ctrl+C or by an exception, run() ends.
TornDown == mainPc = "remove" ~> mainPc \in {"end", "raised"}
=============================================================================
