------------------------ MODULE NodeLifecycle_proofs ------------------------
EXTENDS NodeLifecycle, TLAPS

\* Where run() is: in the constructor, spinning, and closing.
Building == {"create", "start", "type", "bind"}
Up       == {"spin", "remove", "quiet"}
Gone     == {"destroy", "context", "end"}

TypeInv ==
    /\ kind \in NodeKinds
    /\ pc \in Building \cup Up \cup {"close"} \cup Gone
    /\ i \in Nat \ {0} /\ tracked \in Nat
    /\ native \in [Ends -> {"none", "created", "started", "closed"}]
    /\ spun \in BOOLEAN

\* The constructor is at endpoint i: the node knows of the ones before it, and of i
\* itself while it is bound; the ones after it do not exist.
Constructing ==
    /\ ~spun /\ raised = "none" /\ stuck = {} /\ \A e \in Ends : native[e] # "closed"
    /\ tracked = IF pc = "bind" THEN i ELSE i - 1
    /\ pc # "create" => i <= Endpoints
    /\ \A e \in Ends : e > i \/ (e = i /\ pc = "create") => native[e] = "none"

\* An endpoint the node does not know of is not open, unless the constructor failed
\* while it made it.
UnknownAbandoned ==
    \A e \in Ends : e > tracked => native[e] \in {"none", "closed"} \/ Abandoned(e)

\* The endpoints below n are closed, or the code cannot close them.
ClosedBelow(n) ==
    \A e \in Ends : e <= tracked /\ e < n => native[e] = "closed" \/ Abandoned(e)

LifeInv ==
    /\ pc \in Building => Constructing
    /\ pc \notin Building => UnknownAbandoned
    /\ pc \in Up => stuck = {} /\ (spun => \A e \in Ends : native[e] # "closed")
    /\ pc = "close" => ClosedBelow(i)
    /\ pc \in Gone => ClosedBelow(tracked + 1)
    /\ pc \in {"close"} \cup Gone /\ RosFirst => ros = {}

-----------------------------------------------------------------------------
\* A step of the constructor keeps the invariant.
LEMMA ConstructStep ==
    ASSUME TypeInv, LifeInv, Construct
    PROVE  (TypeInv /\ LifeInv)'
  <1> USE NodeLifecycleAssumption
      DEF TypeInv, Building, Up, Gone, Ends, Pool, Raises, Tracked, Abandoned
  <1>1. ASSUME Create PROVE (TypeInv /\ LifeInv)'
    BY <1>1 DEF Create, LifeInv, Constructing
  <1>2. ASSUME Start PROVE (TypeInv /\ LifeInv)'
    BY <1>2 DEF Start, LifeInv, Constructing
  <1>3. ASSUME MakeTyped PROVE (TypeInv /\ LifeInv)'
    BY <1>3 DEF MakeTyped, LifeInv, Constructing
  <1>4. ASSUME Bind PROVE (TypeInv /\ LifeInv)'
    BY <1>4 DEF Bind, LifeInv, Constructing
  <1>5. ASSUME Ready PROVE (TypeInv /\ LifeInv)'
    BY <1>5 DEF Ready, LifeInv, Constructing, UnknownAbandoned
  <1>6. ASSUME Abort PROVE (TypeInv /\ LifeInv)'
    <2>1. /\ Constructing /\ pc \in Building /\ i \in Ends /\ raised' = pc /\ pc' = "quiet"
          /\ UNCHANGED <<kind, i, tracked, stuck, ros, spun>>
      BY <1>6 DEF Abort, Steps, LifeInv
    <2>2. /\ native' \in [Ends -> {"none", "created", "started", "closed"}]
          /\ \A e \in Ends : native'[e] = native[e] \/ (e = i /\ native'[e] = "closed")
          /\ pc = "start" /\ Pool => native'[i] = "closed"
      BY <1>6, <2>1 DEF Abort, CloseUnstarted
    <2>3. TypeInv'
      BY <2>1, <2>2
    <2>4. UnknownAbandoned'
      BY <2>1, <2>2 DEF UnknownAbandoned, Constructing
    <2> QED
      BY <2>1, <2>3, <2>4 DEF LifeInv, Constructing
  <1> QED
    BY <1>1, <1>2, <1>3, <1>4, <1>5, <1>6 DEF Construct

\* So does a step of the shutdown.
LEMMA CloseStep ==
    ASSUME TypeInv, LifeInv, Stop \/ Close
    PROVE  (TypeInv /\ LifeInv)'
  <1> USE NodeLifecycleAssumption
      DEF TypeInv, Building, Up, Gone, Ends, Pool, Raises, Abandoned, RosFirst
  <1>1. ASSUME Stop \/ RemoveNode PROVE (TypeInv /\ LifeInv)'
    BY <1>1 DEF Stop, RemoveNode, LifeInv, UnknownAbandoned
  <1>2. ASSUME Quiet PROVE (TypeInv /\ LifeInv)'
    BY <1>2 DEF Quiet, LifeInv, UnknownAbandoned, ClosedBelow
  <1>3. ASSUME CloseEndpoint PROVE (TypeInv /\ LifeInv)'
    <2>1. /\ pc = "close" /\ pc' = "close" /\ i <= tracked /\ i' = i + 1
          /\ native' = [native EXCEPT ![i] = "closed"]
          /\ UNCHANGED <<kind, tracked, stuck, ros, spun, raised>>
      BY <1>3 DEF CloseEndpoint
    <2>2. TypeInv'
      <3>1. native' \in [Ends -> {"none", "created", "started", "closed"}]
        BY <2>1
      <3>2. i' \in Nat \ {0}
        BY <2>1
      <3>3. spun' \in BOOLEAN
        BY <2>1
      <3> QED
        BY <2>1, <3>1, <3>2, <3>3
    <2>3. UnknownAbandoned'
      BY <2>1 DEF LifeInv, UnknownAbandoned
    <2>4. ASSUME NEW e \in Ends, e < i + 1 PROVE native'[e] = "closed" \/ Abandoned(e)
      <3>1. e < i \/ e = i
        BY <2>4
      <3> QED
        BY <2>1, <3>1 DEF LifeInv, ClosedBelow
    <2>5. ClosedBelow(i)'
      BY <2>1, <2>4 DEF ClosedBelow
    <2> QED
      BY <2>1, <2>2, <2>3, <2>5 DEF LifeInv
  <1>4. ASSUME CloseLogged PROVE (TypeInv /\ LifeInv)'
    BY <1>4 DEF CloseLogged, CloseRaises, LifeInv, UnknownAbandoned, ClosedBelow
  <1>5. ASSUME CloseEscapes PROVE (TypeInv /\ LifeInv)'
    <2>1. /\ pc = "close" /\ pc' \in {"end", "context"} /\ stuck' = stuck \cup {i}
          /\ i <= tracked /\ kind \notin ActionKinds
          /\ UNCHANGED <<kind, i, native, tracked, ros, spun, raised>>
      BY <1>5 DEF CloseEscapes, CloseRaises, Logged
    <2>2. TypeInv' /\ UnknownAbandoned'
      BY <2>1 DEF LifeInv, UnknownAbandoned
    <2>3. ClosedBelow(tracked + 1)'
      <3> SUFFICES ASSUME NEW e \in Ends, e <= tracked
                   PROVE  native[e] = "closed" \/ Abandoned(e)'
        BY <2>1 DEF ClosedBelow
      <3>1. CASE e < i
        BY <2>1, <3>1 DEF LifeInv, ClosedBelow
      <3>2. CASE e = i
        BY <2>1, <3>2
      <3>3. CASE i < e
        BY <2>1, <3>3
      <3> QED
        BY <3>1, <3>2, <3>3
    <2> QED
      BY <2>1, <2>2, <2>3 DEF LifeInv
  <1>6. ASSUME Closed PROVE (TypeInv /\ LifeInv)'
    BY <1>6 DEF Closed, LifeInv, UnknownAbandoned, ClosedBelow
  <1>7. ASSUME Destroy \/ ShutdownContext PROVE (TypeInv /\ LifeInv)'
    BY <1>7 DEF Destroy, ShutdownContext, LifeInv, UnknownAbandoned, ClosedBelow
  <1> QED
    BY <1>1, <1>2, <1>3, <1>4, <1>5, <1>6, <1>7 DEF Close

\* The invariant holds for any number of endpoints, whatever may raise.
LEMMA LifeInvariant == Spec => [](TypeInv /\ LifeInv)
  <1>1. Init => TypeInv /\ LifeInv
    <2> SUFFICES ASSUME Init PROVE TypeInv /\ LifeInv
      OBVIOUS
    <2>1. TypeInv
      <3>1. kind \in NodeKinds /\ i \in Nat \ {0} /\ tracked \in Nat
        BY NodeLifecycleAssumption DEF Init
      <3>2. native \in [Ends -> {"none", "created", "started", "closed"}]
        BY DEF Init
      <3>3. pc \in Building /\ spun \in BOOLEAN
        BY DEF Init, Building
      <3> QED
        BY <3>1, <3>2, <3>3 DEF TypeInv
    <2>2. LifeInv
      BY DEF Init, LifeInv, Building, Up, Gone, Constructing
    <2> QED
      BY <2>1, <2>2
  <1>2. TypeInv /\ LifeInv /\ [Next]_vars => (TypeInv /\ LifeInv)'
    <2> SUFFICES ASSUME TypeInv, LifeInv, UNCHANGED vars PROVE (TypeInv /\ LifeInv)'
      BY ConstructStep, CloseStep DEF Next
    <2> QED
      BY DEF vars, TypeInv, LifeInv, Building, Up, Gone, Ends, Constructing, UnknownAbandoned,
             ClosedBelow, Abandoned, RosFirst, Pool
  <1> QED
    BY <1>1, <1>2, PTL DEF Spec

\* When run() ends no endpoint is open but those the code cannot close, at whichever
\* step the constructor or the shutdown (_close_runtime) has failed.
THEOREM EverythingClosedHolds == Spec => []EverythingClosed
  <1>1. TypeInv /\ LifeInv => EverythingClosed
    BY DEF TypeInv, LifeInv, EverythingClosed, UnknownAbandoned, ClosedBelow, Building, Up, Gone,
           Ends
  <1> QED
    BY <1>1, LifeInvariant, PTL

\* The node that serves ROS destroys its servers before it closes an endpoint.
THEOREM ServersFirstHolds == Spec => []ServersFirst
  <1>1. TypeInv /\ LifeInv => ServersFirst
    BY DEF TypeInv, LifeInv, ServersFirst, Constructing, Building, Up, Gone, RosFirst, ServerKinds,
           NodeKinds
  <1> QED
    BY <1>1, LifeInvariant, PTL
=============================================================================
