# hakoniwa-pdu-ros in TLA+

hakoniwa-pdu-ros connects the Hakoniwa simulator, which exchanges PDUs, with
ROS 2. This directory models the five bridge processes in TLA+, checks the models with TLC on
small instances, and proves the theorems that matter most with TLAPS. Paths below are relative to
`src/hakoniwa_pdu_ros/` unless they say otherwise.

1. [The system](#1-the-system)
2. [Modules and the code](#2-modules-and-the-code)
3. [Properties and runs](#3-properties-and-runs)
4. [Fairness](#4-fairness)
5. [Proofs](#5-proofs)
6. [Where the code departs from what it says](#6-where-the-code-departs-from-what-it-says)
7. [Not modelled, and abstractions](#7-not-modelled-and-abstractions)
8. [Plan](#8-plan)

## 1. The system

Each bridge is a process of its own (`run()` in its module): an rclpy node, its executor, and
threads of the node. The bridges do not call one another. They share the binding loaders, the type
mapper and the pattern of `run()`.

| component | state | operations | hard behaviour |
|---|---|---|---|
| **Action Server** (`action_server_node.py`, `action_goal_context.py`): ROS goals executed by a Hakoniwa Action Server | goal context registry (`_by_hakoniwa`, `_by_ros`, `_accepted_order`); `_goal_decisions`, `_cancel_decisions`, `_completion`, `_early_events`, `_deferred_cancel_results` under `_lock`; `_stop_event` | `goal_callback`, `accepted_callback`, `execute_callback`, `cancel_callback`, `_poll_loop` / `_dispatch_event` / `_deliver_goal_event` / `_flush_deferred_cancel_results`, `_close_runtime` | executor callbacks that wait for the poll thread; events before the ROS goal handle exists; CANCELED before rclpy is CANCELING; shutdown under waiting callbacks |
| **Action Client** (`action_client_node.py`): Hakoniwa goals executed by a ROS Action Server | `_contexts` under `_lock`: per goal the handle, `hakoniwa_accepted`, `cancel_*`, `pending_feedback`, `pending_result`, `terminal` | `_handle_goal_request`, `_on_ros_goal_response`, `_on_ros_feedback`, `_on_ros_result`, `_handle_cancel_request`, `_on_ros_cancel_response`, `_deliver_result`, `_handle_runtime_cancel`, `_close_runtime` | three callbacks may deliver the one result; goal response, feedback, result and cancel answers in any order; an exception on any of these ways; shutdown before the handle is known |
| **Service Server** (`service_server_node.py`, `service_client_pool.py`, `service_call_lifecycle.py`): ROS calls made by a pool of RPC clients | pool: `_available`, `_leased`, `_futures`, `_closed`; per call: `_future`, `_timer`, `_expired`, `_completion` | `callback` (made by `_make_callback`), `acquire`, `set_future`, `release`, `close`, `BridgeCallLifecycle._complete` / `_expire` | a `threading.Timer` per call races the RPC worker; concurrent coroutines on a bounded pool; a shutdown between two steps of a call |
| **Service Client** (`service_client_node.py`): Hakoniwa requests answered by ROS services | `_contexts` keyed by (server, token) under `_lock`, each with a deadline and `terminal` | `_handle_request`, `_handle_cancel`, `_on_ros_response`, `_expire_calls`, `_close_runtime` | response, cancel, deadline and shutdown race for the one reply; a token used again |
| **Topic bridge** (`bridge_node.py`, `pdu_endpoint.py`) | the endpoint and its dispatch thread, the ROS node, the ROS context | constructor, `_on_recv`, `_on_msg`, `run()`, `PduEndpointManager.start` / `stop` | dispatch thread against teardown; Ctrl+C at any moment |
| **Topic binding loader** (`config_loader.py`) | none | `load_config`: expansion of "both", default and mirror topics, refusal of conflicts | which combinations of entries are conflicts |
| **Binding files** (`service_binding.py`, `action_binding.py`) | none | `load_service_binding`, `load_action_binding`: validate the binding against its transport | names that collide only after the conversion to snake case; references between two files |
| **Config generators** (`service_config_generator.py`, `action_config_generator.py`, their CLIs) | the output directory: manifest, temporary file, native configuration | resolve types, compute packet sizes, `_write_json_atomic`, call the native generator, check its files; the node then loads the binding again | a kill between two steps; two nodes generate into one directory; sources edited between their reads; leftovers |
| **Type mapper** (`type_mapper.py`, `action_mapping.py`) | none | `ros_msg_to_pdu_bytes`, `pdu_bytes_to_ros_msg`, `copy_matching_fields` | recursion over types that only one side declares; byte sequences in many shapes |
| **PDU definition, QoS, zenoh** (`pdu_definition.py`, `qos.py`, `zenoh_io.py`, `gen_zenoh_io.py`) | none | look-ups and checks at start-up | |

What crosses the process boundary is external and modelled from how the code uses it: rclpy
(goal handles, futures, executor, callback groups), hakoniwa-pdu-rpc (Action Client and Server
with their event queues, RPC clients, servers and futures) and hakoniwa-pdu-endpoint (`Endpoint`).

What makes each component correct:

* *Action Server*: a ROS goal is paired with the Hakoniwa goal it asked for, follows it and never
  runs ahead of it; a cancel request gets the answer Hakoniwa gave; an accepted goal gets its result;
  no callback waits for ever.
* *Action Client*: the Hakoniwa goal is answered once, completed once, and as the ROS goal ended;
  feedback is neither lost nor doubled; what is running is canceled at shutdown.
* *Service Server*: a client is lent once and comes back idle; the deadline wins or loses against
  the result, once; calls in flight are canceled before their clients are closed.
* *Service Client*: one reply per request, under its own token; nothing is sent after shutdown.
* *Topic bridge*: a configuration is accepted exactly when no topic has two owners; no callback
  runs on a node or context that is gone.
* *All nodes*: what the constructor created is closed, the servers before what they use.
* *Start-up*: a node serves with files of its own generation, which can be used and say what the
  sources say; whatever a killed node left behind, the next start works.
* *Type mapper*: a message comes back from its PDU as it was; nothing of the other side stays in a
  destination.

`PROJECT.json` lists the hazards of the code line by line, with the properties that cover them.

## 2. Modules and the code

```
ActionGoalRelay            what an Action bridge promises (abstract)
   ^ implemented by (INSTANCE with a refinement mapping)
ActionServerBridge   <--   MCActionServerBridge      ActionServerBridge_proofs
ActionClientBridge                                   ActionClientBridge_proofs

ServiceRelay               what a Service bridge promises (abstract)
   ^ implemented by both of
ServiceServerBridge                                  ServiceServerBridge_proofs
ServiceClientBridge  <--   MCServiceClientBridge     ServiceClientBridge_proofs

TopicBridge          <--   MCTopicBridge             TopicBridge_proofs
NodeLifecycle        <--   MCNodeLifecycle           NodeLifecycle_proofs
BindingFile  <--  ConfigGenerator  <--  MCConfigGenerator
                                                     ConfigGenerator_proofs
TypeMapper           <--   MCTypeMapper              TypeMapper_proofs
```

`NodeLifecycle` is the constructor and the end of `run()` of the four RPC nodes, `ConfigGenerator` the start of
`run()` of the same nodes. A `..._proofs` module extends the module left of it (section 5).

The MC modules only define the constants of an instance. Variables carry the names of the
attributes they model; `PROJECT.json` maps every definition to its lines. In all modules an action is
one step of one thread, from one point where another thread can observe or change what it uses
to the next: the end of a lock block, a call into a runtime, an `await`, the wait for an event. Where
a thread stands is a `...Pc` variable. An exception is an alternative of the action that may raise
it, and costs one of `MaxFaults` (or is enabled by `MayFail` / `MayRaise`).
Definitions marked `(mutant)` are faulty variants of the definition below them. They are used by
no action; with one in place of the real definition, TLC finds the property it is listed for
violated.

### ActionServerBridge

| code | model |
|---|---|
| `goal_callback` 180-224 | `GoalBegin` (draw the id, register the decision), `GoalSend`, `GoalSendFails`, `GoalWaitReturns` (the wait ends by the decision, the timeout or shutdown), `GoalReject`, `GoalAccept` (`register_accepted`) |
| `accepted_callback` 226-243 | `BindRosAccepted` / `BindFails`, `CollectEarly` (completion future, early events taken), `ExecuteGoal`, `DeliverEarly`, `AcceptedReturns` |
| `execute_callback` 245-269 | `ExecStart`, `ExecAborts`, `ExecWake`, `ExecReturn` (context removed) |
| `cancel_callback` 271-334 | `CancelCalled` to `CancelAnswer`; the wait has no timeout |
| `_poll_loop`, `_dispatch_event`, `_flush_deferred_cancel_results` 338-464 | `PollGoalResponse`, `PollCancelResponse`, `PollError`, `PollDelivery` take an event; `PollFind`, `PollEarly`, `PollDefer`, `PollDeliver` finish it; `PollFlush` delivers deferred CANCELED results |
| `_deliver_goal_event` 466-503 | `Deliver`, with rclpy's transition rules as `MayTerminate` |
| `_close_runtime` 509-536 | `CloseStop`, `CloseDecisions`, `CloseJoin` (the poll thread is then `"ended"`; after the 5 s timeout it may go on), `CloseClear` |
| Hakoniwa Action Client and server | `HakGoalAnswer`, `HakFeedback`, `HakFinish`, `HakCancelAnswer`, `HakError`, the queue `events` |

The node puts all servers in one `MutuallyExclusiveCallbackGroup` (74): `GroupFree` guards the start
of a goal or cancel task. Execute tasks run outside of it.

`ActionGoalRelay` is the abstraction: per ROS goal its Hakoniwa `mate`, and the two statuses. A ROS goal is
accepted, moved to CANCELING or ended only after its mate was, with the same status; only a
bridge that is down aborts a ROS goal by itself. `ActionServerBridge` implements it (`RelaySpec`)
with `mate` <- `goalId`, and `down` <- the node is closed (`closePc = "closed"`).

### ActionClientBridge

One Hakoniwa goal and its context; goals share only the lock and the dictionary, and the node treats
each by its id. The poll thread (`PollThread`: goal request, cancel requests, runtime cancel), the three
ROS callbacks (`GoalCallback`, `ResultCallback`, `CancelCallback(c)` for each cancel request) and
the feedback callbacks interleave; whichever of the goal, result and cancel callbacks finds the pending result
deliverable becomes a `Deliverer` and calls `complete()`, then removes the context (`Delivery`).
The ROS Action Server (`RosAnswersGoal`, `RosAnswersCancel`) answers a cancel request as
rclpy does: a goal that is CANCELING already is not listed in `goals_canceling`.

### ServiceServerBridge

One service. `Callback(k)` is the coroutine of a ROS call: acquire, `call_async`, `set_future`,
the lifecycle's `add_done_callback` and timer, the await, `release`. `Timer(k)` is the
deadline in its two steps (mark as expired, ask for the cancel), `RpcWorker(k)` the done callback
in its two steps. `Closing` is `destroy_node()` down to the clients. A callback that raises ends
`executor.spin()`: `SpinRaises` is `_spin_service_executor`, which goes on after a
`ServiceCallRejected` (`Survives`, pc `"raised"`) and leaves for any other exception (`"failed"`, `closePc` `"left"`).

### ServiceClientBridge

`contexts` maps a token to the request it leads to. The poll thread takes requests and cancel
requests and runs `_expire_calls` in every round; `OnRosResponse(q)` is the done callback on the executor. A
reply is sent inside the lock, so the reply and the removal of the context are one
step; the ROS futures are canceled in a later one. `Context(q)` is the lookup, which compares the
future too, so a late response of an earlier request with the same token finds nothing.

### ServiceRelay

What both Service bridges promise, each to its own clients, without threads, pools and dictionaries: a call is
asked for, passed on to the other side at most once and before it is answered, ended there, and answered once,
with a response only if it ended with a result. A call may be *given up*; it gets no response from then on. After an exception
(`disturbed`) a refusal may be followed by another answer, unless the call was given up.

| `ServiceRelay` | `ServiceServerBridge` | `ServiceClientBridge` |
|---|---|---|
| `asked` | a callback has started | the Hakoniwa client has sent its request |
| `call` | the RPC call (`rpc`) | the ROS future: `done` is a result, `canceled` an error |
| `answers` | what the callback returned, or that it raised | the replies: `ok` is the response, the others are refusals |
| `givenUp` | the deadline has decided the call (`expired`) | its context was closed, or its client told that it is canceled, without a normal reply |
| `disturbed` | `faults > 0` | `faults > 0` |

One step of a bridge may be several of the relay at once: `Expire` of the client refuses and gives up every call that
is due, `CloseClear` gives up all that are active. `Refuse` and `CallsEnd` therefore take sets.

### TopicBridge

`Accepted` and `Expanded` are `load_config` as operators on a sequence of entries; a
configuration that is accepted starts the node, binding by binding. The dispatch thread
(`OnRecv`, `Published`) runs from `StartManager` on, also during the constructor, and the thread
of `run()` goes through `mainPc`, whose values from "remove" on are the `finally` block.

### NodeLifecycle

The four nodes that own native endpoints, which are created, started, wrapped and bound one by one,
then closed one by one. `tracked` says how many of them the node knows of when an exception
ends the constructor, and `raised` which step raised: the difference between the endpoints known
and those created is what leaks.
The Action nodes log an exception of `close()` and go on, the Service nodes let it out.

### BindingFile and ConfigGenerator

`BindingFile` holds the two loaders as the predicate `Accepts` on parsed objects, and what the
generators derive: `Candidates` / `Resolvable` (types), `Offsets` / `PacketSize` / `Align8` (sizes), `Manifest`,
`ClientNames`. A field is kept when it is compared with another or has a bound; the JSON type and the regular
expression of a single field are the flag `ok`. Names are sequences of words, and the index in a client name is its
decimal digits (`Decimal`), so that names that are different in the model are different as strings.

`ConfigGenerator` is `run()` up to the constructor, a step per access to a shared file:

| code | model |
|---|---|
| `load_service_binding` 48-66 | `Load` (binding), `CheckBinding` (transport, validation) |
| `generate_service_configs` 54-75, `_build_rpc_manifest` | `BuildManifest`, which reads the transport once more |
| `_write_json_atomic` 286-303 | `CreateTemporary`, `WriteTemporary`, `Replace`, each of which may raise |
| native generator (external) | `RpcRead`, then `RpcOpen` / `RpcWrite` for each file, in place |
| `expected.is_file()` 80-84 | `CheckGenerated` |
| `run()`: load again, construct | `Reload`, `Recheck`, `Construct` |
| an operator, a signal | `Edit`, `Kill` |

The sources are numbered editions (`history`), a generated file is the record of the editions and of the
generation it comes from. The Action files are the same with another list of `Generated` files; what
differs between the two generators is a condition on `kind`.

### TypeMapper

A message with everything nested in it is a tree: a function from paths to objects, where a path is the sequence of
attributes and list positions that lead to an object. A class knows whether it declares its field types (ROS),
annotates them (PDU) or neither. `_copy_matching_fields` calls itself for each pair of nested objects; in the model the
calls that are still to be made are the `agenda`, and one step, `CopyObject(p)`, copies the fields of one pair and
puts the pairs nested in it on the agenda. They are taken in any order, which includes the order of the recursion.

| code | model |
|---|---|
| `_copy_matching_fields` | `CopyField` for a field, `Copied` for an object, `CopyObject` for the recursive call |
| `_copy_list`, `_list_item_type` | `CopyList`, `ItemType`; `ClassAt` is the class of an object that is made |
| `_as_octet_bytes`, `_decode_binary_sequence` | `Octets`, `Decode` with `Unpack` |
| `ros_msg_to_pdu_bytes` | `ToPdu`, then `CopyObject`, then the converter in `Transfer` |
| `pdu_bytes_to_ros_msg` | `Transfer` (external: lists stay lists or become raw bytes), then `CopyObject` |
| `copy_matching_fields` by the nodes | `CopyForeign`: an object of any class and shape onto an object that is there |

`Alias` is the value of a destination field that has become the object of the source itself; a copy that raises
(`raised`) has no result.

## 3. Properties and runs

The Action Server, whose theorems need it, has a type invariant (`TypeOK`) that a run checks. All runs set
`CHECK_DEADLOCK FALSE`: nobody is obliged to send a request or to start a node, and a node that is closed, or whose
bounded requests are answered, stops. The liveness properties say what must not stop.

Several properties hold "while nothing raises" (`faults = 0`, `Undisturbed`) or except for an
endpoint that is `Abandoned`. These conditions are part of the statement because the code does not keep
the promise without them; section 6 says what happens then. The runs contain the faults and the shutdown
all the same: the other properties are checked throughout, the conditional ones up to the first fault.

### Action Server

| property | says |
|---|---|
| `Correlated` | a goal handle is bound to the Hakoniwa goal its own request sent |
| `PairingInv` | the inductive invariant behind it (section 5) |
| `IndexesAgree` | `_by_hakoniwa` and `_by_ros` describe the same pairs (part of `PairingInv`) |
| `DecisionsAwaited` | whatever the decision dictionaries hold, a callback awaits |
| `CancelAnswersAgree` | a cancel request gets the answer Hakoniwa gave |
| `ContextOutlivesGoal` | a context is removed only once the ROS goal has ended |
| `RelaySpec` | the bridge implements `ActionGoalRelay` |
| `FeedbackAccounted` | each feedback message is in one place: in the queue, parked, in hand, or published |
| `CancelReturns` | a cancel callback never waits for ever, though it waits without timeout |
| `AwaitedResultDelivered` | a result polled while the execute task awaits it ends the ROS goal |

| run | instance | shows |
|---|---|---|
| `as_safety` | 2 ROS goals and 2 Hakoniwa ids of one action, 1 cancel each, 1 fault, shutdown at any moment; ids symmetric | the first seven properties: pairing, cancel answers and refinement in every interleaving, with an exception, an ERROR event or a timeout anywhere |
| `as_liveness` | 1 goal, 1 feedback message, 2 cancels, 1 fault, shutdown at any moment | the types, that feedback is neither lost nor doubled, and the two liveness properties |
| `as_lost_result` | 1 goal, no faults | counterexample to "an accepted goal gets its result", section 6 |

Two goals are what a mismatch needs: one task leaves something behind, the other picks it up. They
are of the same action because the queues of accepted goals are per action. The proofs lift
the bounds. One goal is enough for the liveness properties: each is about one task, and
the group excludes a second one while it waits.

### Action Client

| property | says |
|---|---|
| `CompleteAtMostOnce` | whichever callbacks hand the result over, `complete()` is called once |
| `ResultReflectedOnce` | the Hakoniwa goal ends as the ROS goal did, when it was canceled at most once |
| `FeedbackAccounted` | a feedback message is in one place: held, in hand, or received; at most one is lost for each exception that `_publish_feedback` catches |
| `ContextFollowsGoal` | the context lives exactly as long as the goal |
| `CancelAcceptedByRos` | a cancel is accepted only if ROS accepted it |
| `RequestsAnswered` | every goal request and every cancel request of Hakoniwa is answered |
| `ResultDelivered` | a result that ROS has sent reaches Hakoniwa |

| run | instance | shows |
|---|---|---|
| `ac_goal` | 1 feedback message, 2 cancels, a runtime cancel, 1 fault, shutdown at any moment | all of the above, in every order of the callbacks |
| `ac_second_cancel` | 2 cancels | counterexample, section 6 |

Two cancel requests let one answer overwrite the other. One feedback message keeps the run small: it can be
lost by an exception, lost by the handover, or doubled. That the exception of one message costs no other is in the theorem, which
is for any number.

### Service Server

| property | says |
|---|---|
| `PoolConsistent` | a client is lent to one callback or available, once |
| `ReturnedIdle` | it returns only when its RPC call has ended |
| `CallSpec` | the bridge implements `ServiceRelay`: one RPC call per ROS call, one answer, and after the deadline has decided a call no late result is returned (`LateResultDiscarded`) |
| `KnownCallsCanceled` | shutdown cancels the calls the pool knows of before it closes their clients; one whose `cancel()` raises excuses that call only |
| `EveryCallEnds` | every call that got a client ends and returns it, though RPC need not answer and other calls are rejected, which raises out of the executor |

`ss_pool` checks them for 2 calls on a pool of 1 or 2 clients (the initial states choose the pool), 1
fault, shutdown at any moment: with one client the calls compete, and the second is rejected or gets
the client the first returned; with two they overlap. `ss_close_race` (1 call, 1 client) is a
counterexample, section 6.

### Service Client

| property | says |
|---|---|
| `CallSpec` | the bridge implements `ServiceRelay`: response, cancel, deadline and shutdown race, one of them replies, with the response of the request's own call or with a refusal; with exceptions too, nothing follows a normal or cancel reply (`OneReply`) |
| `TokenLeadsToCall` | an active call is found under its token, and nothing else is |
| `SilentAfterClear` | after shutdown nothing is sent |
| `RequestAnswered`, `FutureReleased` | every request is replied to and no future is left waiting, also at shutdown, though ROS need not respond |

`sc_calls` checks them for any 2 of 3 requests (`MaxRequests`), two of which have the same token, 1 fault, shutdown at
any moment. Two requests with one token are the interesting case, independent tokens share
nothing but the lock; a third request would only repeat one of them.

### Topic bridge

`tb_run` starts from every configuration of up to two entries over two PDUs and one
that is undefined, three topics (a default topic, a plain one, one under the reserved `/pdu`) and
three directions, and lets any step raise. `AcceptedExactly`: what the loader accepts is what the entries, read as
written, allow; two entries let every rule of the loader apply, and section 5 has it for any number.
`TeardownOrder` and `TornDown`: the dispatch thread ends before the node and the context, and the `finally`
block ends.

### Start-up and shutdown of the RPC nodes

`nl_any`: each of the four nodes, three endpoints, each step of the constructor and each `close()` may raise. `ServersFirst`: no ROS
server outlives an endpoint it uses; `EverythingClosed`: every endpoint the code can know of is closed, except
for an endpoint that is `Abandoned`; `ContextShutDown`: `run()` ends with the ROS context down.
Three endpoints put one before and one after the one that fails.

### Generation of the configuration

| property | says |
|---|---|
| `ManifestWhole` | nobody, at any moment, finds a part of a manifest; the native generator finds one |
| `ManifestUsable` | of what is about to be written: each client has a name of its own (`DistinctClients`; `ManifestApart` is the part about different services), packets have room (`ManifestRoom`), endpoints are declared in a fitting role (`ManifestConnected`) |
| `NoStaleFiles` | a node serves with files of its own generation or of one that overlaps it |
| `UndisturbedStartServes` | a start without fault, edit or other node serves, if the sources can be served at all |

`cg_start`: two nodes with one output directory, Service or Action, 3 starts, 1 fault (kill, exception, file not
generated), 1 edit; the directory is empty or holds an earlier generation at first. The files are four services whose names, keys
and client names come close to each other, every way of being refused, alone, and three edits. Two nodes are what an
overlap needs, the third start is the one after a failed or killed one; one edit falls between any two reads.

### Field copies

`tm_copy`: messages with a nested message, lists of up to two of them, byte, 16-bit and boolean sequences, in every combination of
their extreme values, a `byte[]` also as a list of ints and single bytes, a numeric sequence also as the `numpy.ndarray` of a fixed
array, in the message itself or in a nested one; and objects of three kinds of class in every shape of a byte sequence, copied onto
fresh, used and incomplete destinations. `RoundTrip`: ROS to PDU to ROS gives the same message, values,
representation and nested classes included, except that a `byte[]` given as a list comes back as bytes; a message with a
`numpy.ndarray` raises on the way to the PDU, and nothing of it is sent. Messages with a bounded sequence are left out.
`NoForeignObject`: no object of the other side remains in a destination.
`OctetsAreBytes`: a `byte[]` field holds bytes. The functions treat a field by its own
type and value, so two levels of nesting and two items exercise every branch.

## 4. Fairness

Weak fairness only, for

* the threads of the process: executor callbacks once started, execute tasks, the poll thread, timers, RPC
  workers, the thread of `run()` once it is in its `finally` block. The operating system schedules
  them, and none waits on a lock that another holds across a wait;
* time: a deadline that is set comes (`Due`, the timer);
* answers of the other side where the code awaits them without a timeout: the Hakoniwa server answers goal and
  cancel requests (`as_`), the ROS server does, and delivers the result of a goal that has ended (`ac_`, `RosResult`; there is
  no fairness for a callback that only fails), a canceled RPC call ends
  (`RpcAnswersCancel`), and a dispatch callback returns (`tb_`).

`SpinRaises` is fair because it is the executor's own loop. There is none for requests, for goals to finish, for a ROS service to respond, for RPC calls to
end by themselves, or for a shutdown to be asked for. `CancelReturns` in `as_liveness` therefore holds
for a node that is closed at any moment or never.

## 5. Proofs

Each theorem holds for every value of the constants that the named assumptions allow. TLC checks the
property on the instance of its run (section 3); the invariants below were checked as invariants of these
instances before they were proved.

| theorem | property | holds for |
|---|---|---|
| `ActionServerBridge_proofs!TypeCorrect` | `TypeOK` | any number of goals, ids, actions, feedback, cancels, faults, with or without shutdown |
| `ActionServerBridge_proofs!PairingInvariant` | `PairingInv` | the same |
| `ActionServerBridge_proofs!CorrelationHolds` | `Correlated` | the same |
| `ActionServerBridge_proofs!RegistryConsistent` | `IndexesAgree` | the same |
| `ActionServerBridge_proofs!RelayRefined` | `RelaySpec`: the node implements `ActionGoalRelay` | the same |
| `ActionServerBridge_proofs!DecisionsAwaitedHolds` | `DecisionsAwaited` | the same |
| `ActionServerBridge_proofs!ContextOutlivesGoalHolds` | `ContextOutlivesGoal` | the same |
| `ActionServerBridge_proofs!CancelAnswersAgreeHolds` | `CancelAnswersAgree` | the same |
| `ActionServerBridge_proofs!FeedbackAccountedHolds` | `FeedbackAccounted` | the same, event queues of any length |
| `ActionClientBridge_proofs!CompleteAtMostOnceHolds` | `CompleteAtMostOnce` | any number of cancels, feedback messages, faults |
| `ActionClientBridge_proofs!CancelAcceptedByRosHolds` | `CancelAcceptedByRos` | the same |
| `ActionClientBridge_proofs!ContextFollowsGoalHolds` | `ContextFollowsGoal` | the same |
| `ActionClientBridge_proofs!ResultReflectedOnceHolds` | `ResultReflectedOnce` | the same |
| `ActionClientBridge_proofs!FeedbackAccountedHolds` | `FeedbackAccounted` | the same |
| `ServiceServerBridge_proofs!PoolConsistentHolds` | `PoolConsistent` | any number of calls, a pool of any size, any faults |
| `ServiceServerBridge_proofs!ReturnedIdleHolds` | `ReturnedIdle` | the same |
| `ServiceServerBridge_proofs!CallRefined` | `CallSpec`: the node implements `ServiceRelay` | the same |
| `ServiceServerBridge_proofs!LateResultDiscardedHolds` | `LateResultDiscarded`, used for `CallSpec` | the same |
| `ServiceServerBridge_proofs!KnownCallsCanceledHolds` | `KnownCallsCanceled` | the same |
| `ServiceClientBridge_proofs!CallRefined` | `CallSpec`: the node implements `ServiceRelay` | any number of requests and tokens, any faults |
| `ServiceClientBridge_proofs!OneReplyHolds` | `OneReply`, used for `CallSpec` | the same |
| `ServiceClientBridge_proofs!TokenLeadsToCallHolds` | `TokenLeadsToCall` | the same |
| `ServiceClientBridge_proofs!SilentHolds` | `SilentAfterClear` | the same |
| `NodeLifecycle_proofs!EverythingClosedHolds` | `EverythingClosed` | each kind of node, any number of endpoints, any step that raises |
| `NodeLifecycle_proofs!ServersFirstHolds` | `ServersFirst` | the same |
| `TopicBridge_proofs!DispatchEndsFirst` | `TeardownOrder` | any configuration, whatever may raise (`MayFail`) |
| `TopicBridge_proofs!AcceptanceIsExact` | `AcceptedExactly` | any number of entries, any PDUs and topics |
| `ConfigGenerator_proofs!NeverTorn` | `ManifestWhole` | any number of nodes, sources, edits, starts, faults |
| `ConfigGenerator_proofs!NeverStale` | `NoStaleFiles` | the same |
| `ConfigGenerator_proofs!UndisturbedServes` | `UndisturbedStartServes` | the same |
| `ConfigGenerator_proofs!BuiltConnected` | `ManifestConnected`, part of `ManifestUsable` | the same |
| `ConfigGenerator_proofs!BuiltRoom` | `ManifestRoom`, part of `ManifestUsable` | the same, and any offset files |
| `ConfigGenerator_proofs!BuiltApart` | `ManifestApart`, part of `ManifestUsable` | the same |
| `ConfigGenerator_proofs!BuiltUsable` | `ManifestUsable` | the same |
| `TypeMapper_proofs!MessageReturns` | `RoundTrip` | any message types, nested to any depth, sequences of any length |
| `TypeMapper_proofs!CopiesPure` | `NoForeignObject` | the same, and any source and destination of a copy |
| `TypeMapper_proofs!CopiesBytes` | `OctetsAreBytes` | the same |

The assumptions:

* `ActionServerAssumption`, `ActionClientAssumption`, `ServiceServerAssumption`, `ServiceClientAssumption`,
  `NodeLifecycleAssumption`: the constants have their types, markers such as `NoGoal` are no members of the sets
  they mark, a pool is finite and not empty, a node has an endpoint.
* `TopicBridgeAssumption`: the same, and topics and PDUs are non-empty sequences of segments, which is what
  `_normalize_topic` makes of them.
* `ConfigAssumption`: the markers of an absent and of a partial file are no manifests, the name of a service is
  a sequence of words, and its capacity is an integer (`_positive_int`).
* `BindingFileAssumption`: finitely many offset files, with natural numbers.
* `MapperAssumption`: a field is a scalar, a sequence or a declared message. `Values` are complete messages whose values
  rosidl allows in their fields (`IsMessage`): a `byte[]` is bytes, or a list of ints and single bytes; an array of numbers is a list, or, if its length
  is fixed, a `numpy.ndarray` (`Opaque`); a bounded `byte[]` is bytes only. The lists of a `Foreign` object hold scalars or objects, not both (`IsSource`).
  A destination (`IsTarget`) has the attributes of its class, is of one side where something is declared, holds bytes in its `byte[]`
  fields, and is None or shares an object only where nothing is declared.

### Action Server

*Pairing.* `Correlated` is not inductive: `bind_ros_accepted` (`action_goal_context.py` 59-80)
binds the *oldest* accepted Hakoniwa goal of the action, and nothing in that line says it is the caller's.
What makes it so is `PairingInv`:

* `OneTask`: the callback group runs one goal or cancel task at a time;
* `GoalIdsDistinct`: no two requests drew the same id;
* `QueueIsTasks`: `_accepted_order` of an action is empty, or holds just the goal of the one task that has
  registered it and has not bound it yet;
* `BoundWhenBound`: what a task holds as its context agrees with how far it has come, and
  `_by_ros` with both;
* `PollHolds`: between two steps the poll thread holds only FEEDBACK and RESULT, which deliver to a handle and change no index;
* `IndexesAgree`.

`OneTask` gives that the head of the queue is the caller's own goal, `QueueIsTasks` and
`GoalIdsDistinct` that binding it disturbs no other pair. `TypeCorrect` is proved first and used in every
step. The proof has a lemma per thread and, in it, a step per action; `_by_ros` and
`_by_hakoniwa` change only in bind, remove and clear, which have lemmas of their own.

*Relay.* That the node never runs ahead of Hakoniwa is about what it has *heard*. `RelayInv`, on top of the pairing,
follows the news: an event is true of the Hakoniwa goal and filed under it wherever it is kept, in the queue, with
the poll thread, among the early events, in the hand of the accepted callback (`EventsTrue`); so is a decision (`DecisionsTrue`); hence the
handle is at most as far as its mate (`HandleFollows`), the context is found as long as it is needed (`Mapped`), and
the completion future is set only with the ROS goal ended (`ResultGiven`). Each step then maps to a step of
the relay of one goal, or to none: `GoalBegin` to `Pair`, `BindRosAccepted` and `BindFails` to `RosAccept`, `ExecuteGoal`
to `RosExecute`, `CancelAnswer` to `RosCancel`, `Deliver` and `ExecAborts` to `RosFinish`, `CloseClear` to `GoDown`, and `GoalSend` with the steps of
the Hakoniwa server to `HakStep`. `DecisionsAwaited` is a part of the invariant, `ContextOutlivesGoal` follows from it.

*Cancel answers.* `CancelInv`: while nothing raises and the node is open, what Hakoniwa has accepted is in the event
queue as an answer, in the decision of the callback that waits, or in its reply (`AnswerOnItsWay`). Beside the
places, the order in the queue matters: an answer comes before the result of the same goal, or the wait would be
found for a goal that has ended.

*Feedback.* `Copies` counts the occurrences of one feedback event in the queue, with the poll thread, among the early
events, with the accepted callback and among what is published. The invariant is that the sum is 1 for what was
sent, and 0 otherwise; `Tidy` says that places not in use are empty. Counting in sequences of any length uses the lemmas `CopiesConcat`,
`CopiesOne` and `CopiesHead`.

### Action Client

`GoalInv` is one invariant for all five theorems, with a part per concern. `OneResult` says that a result is pending,
or was taken by exactly one of the deliverers, or completed: the swap of `pending_result` under the lock is what makes `CompleteAtMostOnce` hold,
whoever calls `complete()` later. `GoalOrder` and `CancelOrder` say which callback can have run for what the two
goals are; `ResultOfRos` that a result stands for the end of the ROS goal or for an exception.
`CancelRecorded` is the argument for `ResultReflectedOnce`: with one cancel request, `cancel_pending` is set from the
request until its answer has been recorded, and `_deliver_result` does not take a result while it is. Dropping "one" is finding
`ac_second_cancel`. `GoalUndisturbed` and `ContextOrder` relate the context to the Hakoniwa goal. `FeedbackInv` states the feedback twice,
as a sum of lengths and as a union of sets: the places and the messages that are lost cover `1..started` and have
no more elements than that, so they are disjoint. A message is lost only by a step of `Publish` that raises, and each such step is one
of `faults`.

### Service Server

`BridgeInv` has four parts beside the types. `PoolInv`: what is lent and what is available. `FutureInv`: the pool knows a
future from `set_future` to `release` of the call that leases the client, so `release` forgets only its
own. `CallsInv`: per call, the RPC future, the verdict of the lock (`expired` or `completed`) and the callback are in this
order; from it `LateResultDiscarded` and, as `release` comes after the completion, `ReturnedIdle`. `CloseInv`: the clients that
`close()` found active keep their call, because no other call can lease a client of a closed pool, until it has ended or its own `cancel()` has
been made; if that raised, the call was gone or an exception is counted.
`ss_close_race` is what it does not say: a call whose future is not known yet.

*Relay.* `CallRefined` needs two facts more: what a callback returns or is about to return is a result only if the RPC call ended with
one (`ResultsOfRpc`), and a timer that runs belongs to a call that was made (`TimersOfCalls`). `RosCalls` is then `Ask`, `CallAsync` is
`PassOn`, `RpcEnds` is `CallsEnd`, `Expire` of a call that is not completed gives it up, the end of a callback (`Busy`, `Release`) is
`Respond` or `Refuse`, and the relay sees nothing of the other steps (`Unseen`).

### Service Client

`CallInv`: two requests of one token are not both open (`TokenReused`, the protocol of the Hakoniwa client), the
dictionary holds active calls under their own token, the call the poll thread is making has no reply and a free token, and a final
reply leaves the request without a context (`FinalIsOver`). With the last, no step can reply twice, whichever of the four wins.
`ClosedQuietly`: a poll thread that was joined registers nothing after the dictionary is cleared; `SilentHolds` rests on it.

*Relay.* A ROS call is made only for a request that was polled (`RosInv`). `NotDisplaced` is about a cancel request whose token
leads to the context of another request: while the client that sent it still waits, its own request never had a context, so the cancel
reply it gets ends nothing that was answered. It holds because a token is used again only after the request that had it is settled
(`TokenReused`) and a context is stored only under a free token. `StillOpen` is the key lemma: a request that is not over has no normal reply
and is not given up, so the relay allows an answer; `FoundOpen` says this of whatever a token leads to. The lemmas `Refused`,
`ResponseSent`, `CallsEnded` and `Unseen` each establish one kind of relay step, and `RelayStep` assigns the actions to them.

### Nodes

`LifeInv` follows the index of the loop: in the constructor the node knows of exactly the endpoints before the current one
(`Constructing`), when it has ended those it does not know of are closed, never created, or `Abandoned` (`UnknownAbandoned`),
and the loop that closes has closed everything below its index (`ClosedBelow`).

### Topic bridge

*Teardown.* `OrderInv` relates where `run()` is to the state of the endpoint. It has two halves: while
`node` is `"none"` only the constructor's own steps are constrained, because a constructor that raises
leaves the endpoint as it was; once there is a node, the endpoint dispatches only before the manager is stopped,
a callback runs only until it is joined, `~managed` means closed, and the node and the context end
after that. `TeardownOrder` alone is not inductive: it does not say that `DestroyNode` comes after the join.

*Acceptance.* `load_config` expands the entries to one flat list of bindings, adds defaults and mirrors,
and looks for two that agree; `AcceptedExactly` speaks of the entries. The proof needs what the expansion of *n* entries
contains, for every *n*. That is an induction, which no theorem of the library offers in a form the installed provers can use; `NatSetInduction`
derives it for sets of numbers (a set that holds 0 and every successor leaves out no least number), and
`ConcatenationExists` and `ConcatTopics` are applications of it. `FlattenTopics` says then that a binding is in the flat list if and only if an
entry makes it, `MirrorTopics` that a mirror topic under `/pdu` meets no topic that is written, which is why they add
no conflict.

### Generation

*Manifest.* `TypeInv /\ WholeInv` says for each place of `run()` where the manifest is: with the node from
`BuildManifest` on, in its temporary file after `WriteTemporary`, in the directory after `Replace`, whoever wrote it; and
that the native generator only writes files of its own. `NodeStep` reduces a step of one node to what it writes. `BuiltInv`
remembers that the two editions a node has loaded passed `Accepts`, and that the bindings were resolved before the
manifest was built: `AcceptedConnects`, `SizeOfResolved` and `PacketHolds` (with `AlignsUp`) are what follows from that for
the manifest. `BuiltApart` adds that `Accepts` refuses two services with the same key (`UniqueBindings`), and that a client name is the key with one
more element (`PrefixesApart`): keys that differ make names that differ. The names of one service differ because decimal digits do: that
the recursive function `Decimal` exists (`DigitsExist`) and that different numbers have different digits are inductions, by `NatSetInduction` of the proofs of
the topic bridge, stated here once more. `BuiltUsable` puts the parts together.

*Stale files.* `NoStaleFiles` is about files that several nodes write in turn. `FreshInv` says of each step of a start that what it has in hand
is `Recent`: not older than the oldest start of the row of any node that is starting. The manifest of a node is recent when it
replaces another's, so the native generator that reads it, its own or that of another node, writes files that are recent for all. A
node that starts while no other does begins a new row, and then nobody has anything in hand.

*Undisturbed start.* `QuietInv`: editions, faults and generations are only counted up, so a start that has not been disturbed at its end has not been
on its way; it was then alone, has loaded the current edition each time, and found its own files.

### Type mapper

The recursion of the code is over the structure of a message, and its invariants are about a copy half done.

*Destinations.* `ToInv`: no object on the agenda is below another, everything below one is still as it was at first, and
everything else is pure and has its `byte[]` fields as bytes or as something that cannot be read as bytes. The first part is what makes the order
of the steps irrelevant: a copy changes nothing another pending copy has yet to read. `CopyFieldKeeps` says of one field what `CopyStep`
needs: a copied field has values of the model, an object in it has a class of the destination's side where one is declared.
`CopiesPure` and `CopiesBytes` are parts of it.

*Round trip.* `PduTree` is what a message should be as a PDU and `PduForms` what the converter may make of it. `Faithful(src, image)` says, of each
object alone, that copied onto a new object it gives its image and asks for new objects of the right classes; it is proved for both
directions, field by field (`ToPduField`, `ToRosField`; the words of a sequence come back from their bytes by `BytesBack` and `WordsBack`). A `byte[]` in another form has
the PDU of the same `byte[]` as bytes (`ValueForms`, `BytesMessage`), so the way back needs no case of its own: what returns is
`WithBytes(source)`. A field that holds a `numpy.ndarray` makes the copy of its object raise (`ToPduRaises`).
`Phase(src, image)` is the invariant of a copy: an object on the agenda is new, every other one can be read (`Known`) and is its image, with the
objects nested in it there. An unreadable object is thus still on the agenda, and the copy cannot end without raising.
When the agenda is empty, every object of the image is there: an induction on the length of its path. `MessageInv` is
`Phase` for the direction that `stage` names.

### Only model-checked

* *Liveness*: `CancelReturns`, `AwaitedResultDelivered`, `RequestsAnswered`, `ResultDelivered`, `EveryCallEnds`,
  `RequestAnswered`, `FutureReleased`, `TornDown`, `ContextShutDown`. Fairness and ENABLED are beyond the prover.

Every safety property that a run checks is proved, action properties and refinements included.

## 6. Where the code departs from what it says

Three runs end with a counterexample to something the repository says; `PROJECT.json` quotes it.

| run | what happens |
|---|---|
| `as_lost_result` | `_dispatch_event` finds no context, `accepted_callback` binds it and takes the early events, then the poll thread stores the RESULT among them: nobody takes it, the ROS goal stays EXECUTING |
| `ac_second_cancel` | the refusal of a second cancel request resets `cancel_accepted`: CANCELED arrives as ABORTED |
| `ss_close_race` | `pool.close()` between `call_async` and `set_future` closes the client of a call it has not canceled |

The models contain further behaviours of the code that a reader may not expect. The
conditions of the properties name them; dropping the condition makes TLC show the behaviour.

| where | what happens |
|---|---|
| Action Server, feedback | the accepted callback publishes early feedback while the poll thread publishes newer feedback: the order is not kept. `FeedbackAccounted` says nothing of it |
| Action Server, `CancelAnswersAgree` | an ERROR event answers a pending cancel with REJECT, and Hakoniwa may accept it afterwards: the property is about undisturbed runs |
| Action Client, `ResultDelivered` | `accept_cancel` raises: the result that waited for it is never delivered |
| Action Client, shutdown | between `send_goal_async` and its response (265) the handle is not known: the ROS goal that is then accepted is canceled by nobody |
| Action Client, `RequestsAnswered` | an exception in the goal response callback: the Hakoniwa goal is neither accepted nor rejected |
| Action Client, feedback | held feedback is published outside the lock, newer feedback overtakes it |
| Action Client, `FeedbackAccounted` | the field copy or `send_feedback` raises: `_publish_feedback` (316-329) logs it, the message is lost and the goal goes on |
| Service Server, `ReturnedIdle` | an exception after `call_async` returns a client whose call is in flight |
| Service Server, `KnownCallsCanceled` | `future.cancel()` raises in `pool.close()`: it is swallowed (71-75), and once the wait is over the client is closed with its call in flight |
| Topic bridge, `TeardownOrder` | Ctrl+C or an exception in the constructor: `run()` has no node to destroy, and the ROS context goes down under the dispatch thread |
| Action Server, timeout | a GOAL_RESPONSE after the wait has timed out (206): the Hakoniwa goal runs without a ROS goal, its events stay in `_early_events` |
| Generators, `omitted` | the native generator returns without writing a file: an old one satisfies `is_file()`, and an Action generator does not look |
| Generators, `ManifestConnected` | the transport is edited between the check and `_build_rpc_manifest` (192): what was not checked is written |
| Generators, `run()` | the binding is loaded again (216) and only the names of the services are compared: a type, an endpoint or a capacity edited in between is used with a configuration that does not have it |
| Generators, shared directory | a node may open a file that the other has open for writing, and fails; files of both generations may serve together, which `NoStaleFiles` allows through any chain of overlaps |
| Generators, temporary file | `write()` raises: `temporary_path` is not set yet, the file stays (298-303) |
| Type mapper, bounded sequences | `sequence<T, N>` is not recognised: nested messages keep the source's class, raw bytes stay bytes, as its comment says |
| Type mapper, unreadable values | a value without fields in common with the destination is skipped without a word; fewer raw bytes than one word give an empty list, a number that is no multiple raises |
| Type mapper, `RoundTrip` | rclpy hands a fixed array of numbers over as `numpy.ndarray`, which raises `TypeError` (115-119; `DESIGN.md` 119-122 says so); a `byte[]` given as a list comes back as bytes |
| RPC nodes, `Abandoned` | `start()` or `make_typed_...` raises before the node knows of the endpoint (in a pool: the typed client): it is never closed |
| Service nodes, `Abandoned`, `ContextShutDown` | `close()` raises: the endpoints after it stay open, and the exception leaves the `finally` block before the ROS context is shut down |

## 7. Not modelled, and abstractions

* *Payloads.* In the bridges goals, feedback and results are identities, statuses and sequence numbers; the copies of
  their fields are in TypeMapper, that they may raise is kept. The encoding of PDUs is external.
* *Words* of the type mapper are bytes, 16-bit and booleans of four bytes; the other sizes and floats differ only in the format of `struct`.
* *Lists of lists* and strings that are taken for sequences do not occur in ROS messages and are left out.
* *Offset files* have a valid last line; one that has none raises, as a missing one does.
* *GOAL_RESPONSE with TIMEOUT* is the same to the Action Server as a refusal, and is one.
* *Bounds.* `MaxFeedback`, `MaxCancels`, `MaxFaults`, `MaxRequests`, `MaxEntries`, `Endpoints`, `MaxEdits` and `MaxGens` bound what would be unbounded;
  queues are bounded by them.
* *Several goals of the Action Client, several services* share no state but the lock, so one is modelled.
* *After a join timeout* the poll thread of the Action Client and of the Service
  Client only finishes what it has in hand.
* *Pool close.* The wait for the calls it knows of is one step that comes at any time: they have ended, or the 5 s are over. The stop of the dispatch thread joins it (external:
  `DispatchEnded`).
* *Destroying ROS entities* raises nowhere in `NodeLifecycle`. The Action Server and the Service nodes do it without a `try`
  (`action_server_node.py` 522-523, `service_server_node.py` 192, `service_client_node.py` 412).
* *Cancel of another service.* A cancel request whose service is not the one of the call its token leads to is logged and ignored
  (`service_client_node.py` 291-297); one service is modelled, where it cannot come.
* *Bounded `byte[]`.* One that is given as a list does not occur; like every bounded sequence it is outside `RoundTrip`.
* *A closed executor.* A coroutine that awaits a future when rclpy shuts down is dropped by rclpy; no property speaks of it.
* *Not modelled*: the PDU definition and QoS are tables, looked up without state; the zenoh check compares one file with
  what the bindings imply; `load()` of the action mappers is an import and two name checks; `sys.path` set-up and the command line keep
  no state of the bridge. Of the topic loader, the QoS fields.

## 8. Plan

The order was by how much can go wrong: Action Server (with its abstraction), Action Client, the two Service
bridges, the topic bridge, what all nodes share at shutdown and at start-up, and the field copies. The questions asked of one
component share their runs. Next:

1. *Growth*: `_early_events` and goals without a ROS goal after a timed-out GOAL_RESPONSE, with the bound under which they stay finite.
2. *The zenoh check* as an operator of `TopicBridge`: what the generator writes passes the check, and nothing else does.
3. *Liveness*: the invariants of section 5 would carry liveness proofs, once a prover for fairness and ENABLED is at hand.
