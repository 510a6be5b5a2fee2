--------------------------- MODULE NodeLifecycle ---------------------------
(***************************************************************************)
(* run(), the constructor and _close_runtime of the four RPC nodes: the    *)
(* native endpoints (Action Clients, Action Servers, RPC Servers, or the   *)
(* clients of a pool) are created one by one, each with its typed wrapper  *)
(* and its ROS entities, and closed when the node goes down, or when the   *)
(* constructor fails half way.  What the nodes do in between is in the     *)
(* modules of their own.                                                   *)
(***************************************************************************)
EXTENDS Naturals

CONSTANTS
    Kinds,          \* the nodes to check
    Endpoints,      \* bound: native endpoints of a node
    MayRaise        \* what may raise: a set of <<kind, step>>

NodeKinds   == {"action_server", "action_client", "service_server", "service_client"}
Steps       == {"create", "start", "type", "bind", "close"}
ActionKinds == {"action_server", "action_client"}
ServerKinds == {"action_server", "service_server"}

ASSUME NodeLifecycleAssumption ==
    /\ Kinds \subseteq NodeKinds
    /\ Endpoints \in Nat \ {0}
    /\ MayRaise \subseteq NodeKinds \X Steps

VARIABLES
    kind,           \* the node
    pc,             \* the thread of run(): the step that comes next
    i,              \* the endpoint it is at
    native,         \* the state of each endpoint
    tracked,        \* the endpoints the node knows of: 1 .. tracked
    stuck,          \* the endpoints whose close() raised
    ros,            \* the endpoints with ROS servers or clients
    spun,           \* the constructor has returned
    raised,         \* the step whose exception ended the constructor
    context         \* the ROS context is up

vars == <<kind, pc, i, native, tracked, stuck, ros, spun, raised, context>>

Ends == 1 .. Endpoints
Pool == kind = "service_server"

Raises(step) == <<kind, step>> \in MayRaise

Init ==
    /\ kind \in Kinds
    /\ pc = "create" /\ i = 1
    /\ native = [e \in Ends |-> "none"] /\ tracked = 0 /\ stuck = {} /\ ros = {}
    /\ raised = "none" /\ spun = FALSE /\ context = TRUE

-----------------------------------------------------------------------------
(***************************************************************************)
(* The constructor.  A pool makes the typed client before it starts the    *)
(* RPC client, the other nodes after that.                                 *)
(***************************************************************************)
Create ==
    /\ pc = "create" /\ i <= Endpoints
    /\ native' = [native EXCEPT ![i] = "created"]
    /\ pc' = IF Pool THEN "type" ELSE "start"
    /\ UNCHANGED <<kind, i, tracked, stuck, ros, spun, raised, context>>

\* the endpoint is appended to the lists of the node, or to the pool
Tracked == tracked' = i /\ pc' = "bind"

Start ==
    /\ pc = "start"
    /\ native' = [native EXCEPT ![i] = "started"]
    /\ IF Pool THEN Tracked ELSE pc' = "type" /\ UNCHANGED tracked
    /\ UNCHANGED <<kind, i, stuck, ros, spun, raised, context>>

MakeTyped ==
    /\ pc = "type"
    /\ IF Pool THEN pc' = "start" /\ UNCHANGED tracked ELSE Tracked
    /\ UNCHANGED <<kind, i, native, stuck, ros, spun, raised, context>>

\* the ROS servers or clients; a pool has one service, made when it is full
Bind ==
    /\ pc = "bind"
    /\ ros' = IF Pool /\ i < Endpoints THEN ros ELSE ros \cup {i}
    /\ pc' = "create" /\ i' = i + 1
    /\ UNCHANGED <<kind, native, tracked, stuck, spun, raised, context>>

Ready ==
    /\ pc = "create" /\ i > Endpoints
    /\ pc' = "spin" /\ spun' = TRUE
    /\ UNCHANGED <<kind, i, native, tracked, stuck, ros, raised, context>>

\* (mutant) the client whose start() raised is not closed
StartedAnyway == UNCHANGED native

\* a pool closes the client whose start() raised, the other nodes do not
\* know their endpoint yet
CloseUnstarted == native' = IF Pool THEN [native EXCEPT ![i] = "closed"] ELSE native

\* any step raises: _close_runtime, then the exception goes on to run()
Abort ==
    /\ pc \in Steps \ {"close"} /\ i <= Endpoints /\ Raises(pc)
    /\ Pool /\ pc = "bind" => i = Endpoints
    /\ raised' = pc /\ pc' = "quiet"
    /\ IF pc = "start" THEN CloseUnstarted ELSE UNCHANGED native
    /\ UNCHANGED <<kind, i, tracked, stuck, ros, spun, context>>

-----------------------------------------------------------------------------
(***************************************************************************)
(* The end of run(), and _close_runtime.                                   *)
(***************************************************************************)
\* spin() returns or raises: remove_node
Stop ==
    /\ pc = "spin"
    /\ pc' = "remove"
    /\ UNCHANGED <<kind, i, native, tracked, stuck, ros, spun, raised, context>>

RemoveNode ==
    /\ pc = "remove"
    /\ pc' = "quiet"
    /\ UNCHANGED <<kind, i, native, tracked, stuck, ros, spun, raised, context>>

\* (mutant) the ROS servers stay up until the native endpoints are closed
ServersLast == FALSE

\* the ROS servers, or the Action Clients, go before the native endpoints
RosFirst == kind # "service_client"

\* The poll thread has ended, or was not started; that the ROS servers or clients do
\* not go, where no exception is caught, is left out.
Quiet ==
    /\ pc = "quiet"
    /\ ros' = IF RosFirst THEN {} ELSE ros
    /\ pc' = "close" /\ i' = 1
    /\ UNCHANGED <<kind, native, tracked, stuck, spun, raised, context>>

CloseEndpoint ==
    /\ pc = "close" /\ i <= tracked
    /\ native' = [native EXCEPT ![i] = "closed"] /\ i' = i + 1
    /\ UNCHANGED <<kind, pc, tracked, stuck, ros, spun, raised, context>>

CloseRaises ==
    /\ pc = "close" /\ i <= tracked /\ Raises("close")
    /\ stuck' = stuck \cup {i}
    /\ UNCHANGED <<kind, native, tracked, ros, spun, raised>>

\* (mutant) an exception of one close() ends the loop
NeverLogged == FALSE

\* the Action nodes log it
Logged == kind \in ActionKinds

CloseLogged ==
    /\ Logged /\ CloseRaises
    /\ i' = i + 1
    /\ UNCHANGED <<pc, raised, context>>

\* the Service nodes let it out of _close_runtime: out of the finally block of
\* run(), or in place of what the constructor raised
CloseEscapes ==
    /\ ~Logged /\ CloseRaises
    /\ pc' = IF spun THEN "end" ELSE "context"
    /\ UNCHANGED <<i, raised, context>>

Closed ==
    /\ pc = "close" /\ i > tracked
    /\ ros' = {}
    /\ pc' = IF spun THEN "destroy" ELSE "context"
    /\ UNCHANGED <<kind, i, native, tracked, stuck, spun, raised, context>>

\* super().destroy_node() and executor.shutdown(timeout_sec=5.0)
Destroy ==
    /\ pc = "destroy"
    /\ pc' = "context"
    /\ UNCHANGED <<kind, i, native, tracked, stuck, ros, spun, raised, context>>

ShutdownContext ==
    /\ pc = "context"
    /\ context' = FALSE /\ pc' = "end"
    /\ UNCHANGED <<kind, i, native, tracked, stuck, ros, spun, raised>>

-----------------------------------------------------------------------------
Construct == Create \/ Start \/ MakeTyped \/ Bind \/ Ready \/ Abort
Close     == RemoveNode \/ Quiet \/ CloseEndpoint \/ CloseLogged \/ CloseEscapes \/ Closed
             \/ Destroy \/ ShutdownContext

Next == Construct \/ Stop \/ Close

Spec == Init /\ [][Next]_vars

\* The thread of run() goes on, once it has left spin().
FairSpec == Spec /\ WF_vars(Close)

-----------------------------------------------------------------------------
(***************************************************************************)
(* Properties.                                                             *)
(***************************************************************************)
\* An endpoint that the code cannot close: its own close() raised, or it was
\* being made when the constructor failed and nobody knew of it yet (a pool
\* knows of a client that does not start), or it comes after one whose close()
\* raised, in a Service node.
Abandoned(e) ==
    \/ e \in stuck
    \/ e = tracked + 1 /\ raised \in (IF Pool THEN {"type"} ELSE {"start", "type"})
    \/ kind \notin ActionKinds /\ \E x \in stuck : x < e

\* When run() ends, no other endpoint is open: after a shutdown as after a
\* constructor that failed at any step.
EverythingClosed ==
    pc = "end" => \A e \in Ends : native[e] \in {"none", "closed"} \/ Abandoned(e)

\* A node that serves ROS stops accepting goals and requests before the first
\* of its native endpoints is closed.
ServersFirst ==
    kind \in ServerKinds /\ spun => ros = {} \/ \A e \in Ends : native[e] # "closed"

\* Once run() has left spin(), it ends and the ROS context is shut down, unless a
\* Service node's endpoint does not close.
ContextShutDown ==
    pc = "remove" ~> ~context \/ (kind \notin ActionKinds /\ stuck # {})
=============================================================================
