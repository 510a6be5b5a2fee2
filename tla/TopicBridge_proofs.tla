------------------------- MODULE TopicBridge_proofs -------------------------
EXTENDS TopicBridge, SequenceTheorems, WellFoundedInduction, TLAPS

\* Where run() is while the endpoint dispatches.
Running == {"setup", "spin", "callback", "remove", "manager"}

\* What run() knows of the endpoint: nothing while node is "none", because the
\* constructor may have left it open; once there is a node, where the dispatch
\* thread may still be.
OrderInv ==
    /\ mainPc \in {"load", "start", "setup"} => node = "none"
    /\ mainPc = "load" => endpoint = "closed" /\ delivering = 0 /\ ~managed
    /\ mainPc = "setup" => managed
    /\ mainPc = "join" => managed
    /\ mainPc = "destroy" => node = "alive" /\ ~managed
    /\ mainPc \in (Running \ {"setup"}) \cup {"join", "raised"} => node = "alive"
    /\ node # "none" /\ endpoint = "dispatching" => mainPc \in Running \cup {"raised"}
    /\ node # "none" /\ delivering # 0 => mainPc \in Running \cup {"join", "raised"}
    /\ node # "none" /\ ~managed => endpoint = "closed" /\ delivering = 0
    /\ node = "destroyed" => mainPc \in {"context", "end"}
    /\ ~context => mainPc = "end"

\* No step of the bridge breaks it.
LEMMA OrderStep ==
    ASSUME OrderInv, [Next]_vars
    PROVE  OrderInv'
  <1> USE DEF OrderInv, Running, configVars, setupVars, Finally
  <1>1. ASSUME Startup PROVE OrderInv'
    BY <1>1 DEF Startup, Load, WithoutConfig, StartManager, StartFails, Setting, SetupInBinding,
                SetupOutBinding, SetupFails, Constructed
  <1>2. ASSUME Spin PROVE OrderInv'
    BY <1>2 DEF Spin, OnMsg, Sent, OnMsgFails, KeyboardInterrupt
  <1>3. ASSUME Dispatch PROVE OrderInv'
    <2>1. ASSUME NEW i \in receivers, OnRecv(i) PROVE OrderInv'
      BY <2>1 DEF OnRecv
    <2>2. ASSUME Published PROVE OrderInv'
      BY <2>2 DEF Published
    <2> QED
      BY <1>3, <2>1, <2>2 DEF Dispatch
  <1>4. ASSUME Teardown PROVE OrderInv'
    <2>1. ASSUME RemoveNode PROVE OrderInv'
      BY <2>1 DEF RemoveNode
    <2>2. ASSUME StopDispatch PROVE OrderInv'
      BY <2>2 DEF StopDispatch, StopRequested
    <2>3. ASSUME NotStarted PROVE OrderInv'
      BY <2>3 DEF NotStarted
    <2>4. ASSUME StopManager PROVE OrderInv'
      BY <2>4 DEF StopManager, DispatchEnded, StopEndpoint
    <2>5. ASSUME StopFails PROVE OrderInv'
      BY <2>5 DEF StopFails, DispatchEnded
    <2>6. ASSUME DestroyNode PROVE OrderInv'
      BY <2>6 DEF DestroyNode
    <2>7. ASSUME ShutdownContext PROVE OrderInv'
      BY <2>7 DEF ShutdownContext
    <2> QED
      BY <1>4, <2>1, <2>2, <2>3, <2>4, <2>5, <2>6, <2>7 DEF Teardown
  <1>5. CASE UNCHANGED vars
    BY <1>5 DEF vars
  <1> QED
    BY <1>1, <1>2, <1>3, <1>4, <1>5 DEF Next

\* For any configuration, and whatever step raises: once a node has been
\* constructed, its dispatch thread ends before the node and the ROS context do.
THEOREM DispatchEndsFirst == Spec => []TeardownOrder
  <1>1. Init => OrderInv
    BY DEF Init, OrderInv, Running
  <1>2. OrderInv /\ [Next]_vars => OrderInv'
    BY OrderStep
  <1>3. OrderInv => TeardownOrder
    BY DEF OrderInv, Running, TeardownOrder
  <1> QED
    BY <1>1, <1>2, <1>3, PTL DEF Spec

-----------------------------------------------------------------------------
(***************************************************************************)
(* The flat list of bindings that the loader compares, and the entries of  *)
(* the file it comes from.  A statement about every natural number is the  *)
(* set of the numbers that satisfy it, which has no least number missing.  *)
(***************************************************************************)
\* Induction over the natural numbers, for sets.
LEMMA NatSetInduction ==
    ASSUME NEW T, 0 \in T, \A n \in Nat : n \in T => n + 1 \in T
    PROVE  Nat \subseteq T
  <1> SUFFICES ASSUME Nat \ T # {} PROVE FALSE
    OBVIOUS
  <1> DEFINE R == {ss \in Nat \X Nat : ss[1] < ss[2]}
  <1>1. IsWellFoundedOn(R, Nat)
    BY NatLessThanWellFounded DEF OpToRel
  <1> DEFINE U == Nat \ T
  <1>2. U \subseteq Nat /\ U # {}
    OBVIOUS
  <1> HIDE DEF R, U
  <1>3. PICK x \in U : \A y \in U : <<y, x>> \notin R
    BY <1>1, <1>2, WFMin
  <1>4. x \in Nat \ {0}
    BY DEF U
  <1>5. x - 1 \in Nat /\ <<x - 1, x>> \in R
    BY <1>4 DEF R
  <1>6. x - 1 \in T
    BY <1>3, <1>5 DEF U
  <1>7. x - 1 + 1 \in T
    BY <1>5, <1>6
  <1> QED
    BY <1>4, <1>7 DEF U

\* FlattenSeq concatenates one sequence after the other.
Concatenates(f, seqs, n) ==
    f = [i \in 1 .. n |-> IF i = 1 THEN seqs[i] ELSE f[i - 1] \o seqs[i]]

\* There is such a function, for each number of sequences,
LEMMA ConcatenationExists ==
    ASSUME NEW seqs, NEW n \in Nat
    PROVE  \E f : Concatenates(f, seqs, n)
  <1> DEFINE T == {m \in Nat : \E f : Concatenates(f, seqs, m)}
  <1>1. 0 \in T
    <2> DEFINE f == [i \in 1 .. 0 |-> seqs[i]]
    <2>1. Concatenates(f, seqs, 0)
      BY DEF Concatenates
    <2> HIDE DEF f
    <2> QED
      BY <2>1
  <1>2. ASSUME NEW m \in Nat, m \in T PROVE m + 1 \in T
    <2>1. PICK f : Concatenates(f, seqs, m)
      BY <1>2
    <2> DEFINE g == [i \in 1 .. m + 1 |->
                        IF i = m + 1 THEN IF i = 1 THEN seqs[i] ELSE f[m] \o seqs[i] ELSE f[i]]
               h == [i \in 1 .. m + 1 |-> IF i = 1 THEN seqs[i] ELSE g[i - 1] \o seqs[i]]
    <2>2. ASSUME NEW i \in 1 .. m + 1 PROVE g[i] = h[i]
      <3>1. CASE i = m + 1
        BY <3>1
      <3>2. CASE i # m + 1
        <4>1. i \in 1 .. m /\ g[i] = f[i]
          BY <3>2
        <4>2. f[i] = IF i = 1 THEN seqs[i] ELSE f[i - 1] \o seqs[i]
          BY <2>1, <4>1 DEF Concatenates
        <4>3. i # 1 => i - 1 \in 1 .. m /\ i - 1 \in 1 .. m + 1 /\ i - 1 # m + 1
          BY <4>1
        <4>4. i # 1 => g[i - 1] = f[i - 1]
          BY <4>3
        <4> QED
          BY <4>1, <4>2, <4>4
      <3> QED
        BY <3>1, <3>2
    <2>3. g = h
      BY <2>2
    <2>4. Concatenates(g, seqs, m + 1)
      BY <2>3 DEF Concatenates
    <2> HIDE DEF g
    <2> QED
      BY <2>4
  <1> HIDE DEF T
  <1>3. n \in T
    BY <1>1, <1>2, NatSetInduction
  <1> QED
    BY <1>3 DEF T

\* and FlattenSeq is its last value.
LEMMA FlattenConcatenates ==
    ASSUME NEW seqs, Len(seqs) \in Nat \ {0}
    PROVE  \E f : Concatenates(f, seqs, Len(seqs)) /\ FlattenSeq(seqs) = f[Len(seqs)]
  <1> DEFINE n == Len(seqs)
             f == CHOOSE f : Concatenates(f, seqs, n)
  <1>1. Concatenates(f, seqs, n)
    BY ConcatenationExists
  <1>2. FlattenSeq(seqs) = f[n]
    BY DEF FlattenSeq, Concatenates
  <1> QED
    BY <1>1, <1>2

\* The topics of a list of bindings.
TopicsIn(s) == {s[k].topic : k \in DOMAIN s}

\* What two lists of bindings joined together bind, and when no topic is repeated.
LEMMA ConcatTopics ==
    ASSUME NEW S, NEW s \in Seq(S), NEW t \in Seq(S)
    PROVE  /\ s \o t \in Seq(S)
           /\ TopicsIn(s \o t) = TopicsIn(s) \cup TopicsIn(t)
           /\ UniqueTopics(s \o t) <=> /\ UniqueTopics(s) /\ UniqueTopics(t)
                                       /\ TopicsIn(s) \cap TopicsIn(t) = {}
  <1> DEFINE u == s \o t
  <1>1. /\ u \in Seq(S) /\ Len(s) \in Nat /\ Len(t) \in Nat
        /\ DOMAIN s = 1 .. Len(s) /\ DOMAIN t = 1 .. Len(t) /\ DOMAIN u = 1 .. Len(s) + Len(t)
    BY ConcatProperties, LenProperties
  <1>2. \A k \in 1 .. Len(s) : k \in DOMAIN u /\ u[k] = s[k]
    BY <1>1, ConcatProperties
  <1>3. \A k \in 1 .. Len(t) : Len(s) + k \in DOMAIN u /\ u[Len(s) + k] = t[k]
    BY <1>1, ConcatProperties
  <1>4. \A k \in DOMAIN u : k \in 1 .. Len(s) \/ \E l \in 1 .. Len(t) : k = Len(s) + l
    <2> TAKE k \in DOMAIN u
    <2>1. CASE k \in 1 .. Len(s)
      BY <2>1
    <2>2. CASE k \notin 1 .. Len(s)
      <3>1. k - Len(s) \in 1 .. Len(t) /\ k = Len(s) + (k - Len(s))
        BY <2>2, <1>1
      <3> QED
        BY <3>1
    <2> QED
      BY <2>1, <2>2
  <1> HIDE DEF u
  <1>5. TopicsIn(u) = TopicsIn(s) \cup TopicsIn(t)
    <2>1. TopicsIn(u) \subseteq TopicsIn(s) \cup TopicsIn(t)
      <3> SUFFICES ASSUME NEW k \in DOMAIN u
                   PROVE  u[k].topic \in TopicsIn(s) \cup TopicsIn(t)
        BY DEF TopicsIn
      <3>1. CASE k \in 1 .. Len(s)
        BY <3>1, <1>1, <1>2 DEF TopicsIn
      <3>2. CASE k \notin 1 .. Len(s)
        <4>1. PICK l \in 1 .. Len(t) : k = Len(s) + l
          BY <3>2, <1>4
        <4> QED
          BY <4>1, <1>1, <1>3 DEF TopicsIn
      <3> QED
        BY <3>1, <3>2
    <2>2. TopicsIn(s) \subseteq TopicsIn(u)
      BY <1>1, <1>2 DEF TopicsIn
    <2>3. TopicsIn(t) \subseteq TopicsIn(u)
      <3> SUFFICES ASSUME NEW k \in 1 .. Len(t) PROVE t[k].topic \in TopicsIn(u)
        BY <1>1 DEF TopicsIn
      <3>1. Len(s) + k \in DOMAIN u /\ u[Len(s) + k].topic = t[k].topic
        BY <1>3
      <3> QED
        BY <3>1 DEF TopicsIn
    <2> QED
      BY <2>1, <2>2, <2>3
  <1>6. ASSUME UniqueTopics(u)
        PROVE  UniqueTopics(s) /\ UniqueTopics(t) /\ TopicsIn(s) \cap TopicsIn(t) = {}
    <2>1. UniqueTopics(s)
      BY <1>1, <1>2, <1>6 DEF UniqueTopics
    <2>2. UniqueTopics(t)
      <3> SUFFICES ASSUME NEW i \in 1 .. Len(t), NEW j \in 1 .. Len(t), t[i].topic = t[j].topic
                   PROVE  i = j
        BY <1>1 DEF UniqueTopics
      <3>1. Len(s) + i = Len(s) + j
        BY <1>3, <1>6 DEF UniqueTopics
      <3> QED
        BY <3>1, <1>1
    <2>3. ASSUME NEW i \in 1 .. Len(s), NEW j \in 1 .. Len(t), s[i].topic = t[j].topic PROVE FALSE
      <3>1. i = Len(s) + j
        BY <2>3, <1>2, <1>3, <1>6 DEF UniqueTopics
      <3> QED
        BY <3>1, <1>1
    <2>4. TopicsIn(s) \cap TopicsIn(t) = {}
      BY <2>3, <1>1 DEF TopicsIn
    <2> QED
      BY <2>1, <2>2, <2>4
  <1>7. ASSUME UniqueTopics(s), UniqueTopics(t), TopicsIn(s) \cap TopicsIn(t) = {},
               NEW i \in DOMAIN u, NEW j \in DOMAIN u, u[i].topic = u[j].topic
        PROVE  i = j
    <2>1. ASSUME NEW k \in 1 .. Len(s), NEW l \in 1 .. Len(t), s[k].topic = t[l].topic PROVE FALSE
      BY <2>1, <1>7, <1>1 DEF TopicsIn
    <2>2. CASE i \in 1 .. Len(s) /\ j \in 1 .. Len(s)
      BY <2>2, <1>1, <1>2, <1>7 DEF UniqueTopics
    <2>3. CASE i \in 1 .. Len(s) /\ j \notin 1 .. Len(s)
      <3>1. PICK l \in 1 .. Len(t) : j = Len(s) + l
        BY <2>3, <1>4
      <3> QED
        BY <2>1, <2>3, <3>1, <1>2, <1>3, <1>7
    <2>4. CASE i \notin 1 .. Len(s) /\ j \in 1 .. Len(s)
      <3>1. PICK l \in 1 .. Len(t) : i = Len(s) + l
        BY <2>4, <1>4
      <3> QED
        BY <2>1, <2>4, <3>1, <1>2, <1>3, <1>7
    <2>5. CASE i \notin 1 .. Len(s) /\ j \notin 1 .. Len(s)
      <3>1. PICK l \in 1 .. Len(t) : i = Len(s) + l
        BY <2>5, <1>4
      <3>2. PICK m \in 1 .. Len(t) : j = Len(s) + m
        BY <2>5, <1>4
      <3>3. t[l].topic = t[m].topic
        BY <3>1, <3>2, <1>3, <1>7
      <3>4. l = m
        BY <3>3, <1>1, <1>7 DEF UniqueTopics
      <3> QED
        BY <3>1, <3>2, <3>4
    <2> QED
      BY <2>2, <2>3, <2>4, <2>5
  <1>8. UniqueTopics(u) <=> /\ UniqueTopics(s) /\ UniqueTopics(t)
                            /\ TopicsIn(s) \cap TopicsIn(t) = {}
    <2>1. ASSUME UniqueTopics(s), UniqueTopics(t), TopicsIn(s) \cap TopicsIn(t) = {}
          PROVE  UniqueTopics(u)
      BY <2>1, <1>7 DEF UniqueTopics
    <2> QED
      BY <2>1, <1>6
  <1> QED
    BY <1>1, <1>5, <1>8 DEF u

\* No topic is repeated in the flat list if and only if none is repeated in a part of
\* it, or in two parts.
LEMMA FlattenTopics ==
    ASSUME NEW S, NEW n \in Nat, NEW seqs \in [1 .. n -> Seq(S)]
    PROVE  UniqueTopics(FlattenSeq(seqs)) <=>
               /\ \A i \in 1 .. n : UniqueTopics(seqs[i])
               /\ \A i, j \in 1 .. n : i # j => TopicsIn(seqs[i]) \cap TopicsIn(seqs[j]) = {}
  <1>1. Len(seqs) = n
    <2>1. seqs \in Seq(Seq(S))
      BY SeqDef
    <2>2. 1 .. Len(seqs) = 1 .. n /\ Len(seqs) \in Nat
      BY <2>1, LenProperties
    <2> QED
      BY <2>2
  <1>2. CASE n = 0
    <2>1. FlattenSeq(seqs) = seqs /\ DOMAIN seqs = {}
      BY <1>1, <1>2 DEF FlattenSeq
    <2> QED
      BY <2>1, <1>2 DEF UniqueTopics
  <1>3. CASE n # 0
    <2>1. PICK f : Concatenates(f, seqs, n) /\ FlattenSeq(seqs) = f[n]
      BY <1>1, <1>3, FlattenConcatenates
    <2> DEFINE Apart(m) ==
                   /\ \A i \in 1 .. m : UniqueTopics(seqs[i])
                   /\ \A i, j \in 1 .. m : i # j => TopicsIn(seqs[i]) \cap TopicsIn(seqs[j]) = {}
               Good(m) == /\ f[m] \in Seq(S)
                          /\ TopicsIn(f[m]) = UNION {TopicsIn(seqs[i]) : i \in 1 .. m}
                          /\ UniqueTopics(f[m]) <=> Apart(m)
               T == {m \in Nat : m \in 1 .. n => Good(m)}
    <2>2. 0 \in T
      OBVIOUS
    <2>3. ASSUME NEW m \in Nat, m \in T PROVE m + 1 \in T
      <3> HIDE DEF Good
      <3> SUFFICES ASSUME m + 1 \in 1 .. n PROVE Good(m + 1)
        OBVIOUS
      <3>1. seqs[m + 1] \in Seq(S)
        OBVIOUS
      <3>2. CASE m = 0
        <4> USE DEF Good
        <4>1. f[1] = seqs[1] /\ 1 .. 1 = {1}
          BY <2>1, <3>2 DEF Concatenates
        <4>2. Apart(1) <=> UniqueTopics(seqs[1])
          BY <4>1
        <4>3. UNION {TopicsIn(seqs[i]) : i \in 1 .. 1} = TopicsIn(seqs[1])
          BY <4>1
        <4> HIDE DEF Apart
        <4> QED
          BY <3>1, <3>2, <4>1, <4>2, <4>3
      <3>3. CASE m # 0
        <4>1. m \in 1 .. n /\ Good(m)
          BY <2>3, <3>3
        <4> USE DEF Good
        <4>2. f[m + 1] = f[m] \o seqs[m + 1]
          <5>1. (m + 1) - 1 = m /\ m + 1 # 1
            BY <3>3
          <5> QED
            BY <2>1, <5>1 DEF Concatenates
        <4>3. /\ f[m + 1] \in Seq(S)
              /\ TopicsIn(f[m + 1]) = TopicsIn(f[m]) \cup TopicsIn(seqs[m + 1])
              /\ UniqueTopics(f[m + 1]) <=>
                     /\ UniqueTopics(f[m]) /\ UniqueTopics(seqs[m + 1])
                     /\ TopicsIn(f[m]) \cap TopicsIn(seqs[m + 1]) = {}
          BY <3>1, <4>1, <4>2, ConcatTopics
        <4>4. 1 .. m + 1 = (1 .. m) \cup {m + 1} /\ m + 1 \notin 1 .. m
          OBVIOUS
        <4>5. TopicsIn(f[m + 1]) = UNION {TopicsIn(seqs[i]) : i \in 1 .. m + 1}
          <5> HIDE DEF Apart
          <5> QED
            BY <4>1, <4>3, <4>4
        <4>6. Apart(m + 1) <=> /\ Apart(m) /\ UniqueTopics(seqs[m + 1])
                               /\ \A i \in 1 .. m :
                                     TopicsIn(seqs[i]) \cap TopicsIn(seqs[m + 1]) = {}
          BY <4>4
        <4>7. (TopicsIn(f[m]) \cap TopicsIn(seqs[m + 1]) = {}) <=>
                  \A i \in 1 .. m : TopicsIn(seqs[i]) \cap TopicsIn(seqs[m + 1]) = {}
          <5> HIDE DEF Apart
          <5> QED
            BY <4>1
        <4> HIDE DEF Apart
        <4> QED
          BY <4>1, <4>3, <4>5, <4>6, <4>7
      <3> QED
        BY <3>2, <3>3
    <2> HIDE DEF T
    <2>4. n \in T
      BY <2>2, <2>3, NatSetInduction
    <2>5. Good(n)
      BY <2>4, <1>3 DEF T
    <2> QED
      BY <2>1, <2>5
  <1> QED
    BY <1>2, <1>3

\* A segment alone is a topic.
LEMMA OneSegment ==
    ASSUME NEW S, NEW x \in S
    PROVE  <<x>> \in Seq(S)
  OBVIOUS

\* The segments of a topic.
Segment == STRING \cup {"pdu"}

\* The namespace of the mirror topics is one,
LEMMA PduSegment == <<"pdu">> \in Seq(Segment)
  BY OneSegment DEF Segment

\* and topics consist of segments.
LEMMA TopicSegments == Topics \cup Pdus \cup {UnknownPdu} \subseteq Seq(Segment) \ {<<>>}
  BY TopicBridgeAssumption, SeqMonotonic DEF Segment

\* Outside /pdu, a topic is neither the mirror topic of a topic nor another topic's.
LEMMA MirrorTopics ==
    ASSUME NEW t \in Seq(Segment) \ {<<>>}, NEW u \in Seq(Segment) \ {<<>>},
           ~Reserved(t), ~Reserved(u), NEW d \in Directions, NEW e \in Directions
    PROVE  TopicForDirection(d, t) = TopicForDirection(e, u) <=> d = e /\ t = u
  <1> DEFINE p == <<"pdu">>
  <1>1. p \in Seq(Segment) /\ Len(p) = 1 /\ p[1] = "pdu"
    BY PduSegment
  <1> HIDE DEF p
  <1>2. ASSUME NEW v \in Seq(Segment) \ {<<>>} PROVE (p \o v)[1] = "pdu"
    BY <1>1, ConcatProperties
  <1>3. t[1] # "pdu" /\ u[1] # "pdu"
    BY DEF Reserved
  <1>4. p \o t = p \o u => t = u
    BY <1>1, ConcatSimplifications
  <1>5. \A v : /\ TopicForDirection("pdu_to_ros", v) = p \o v
               /\ TopicForDirection("ros_to_pdu", v) = v
    BY DEF TopicForDirection, p
  <1>6. d \in {"pdu_to_ros", "ros_to_pdu"} /\ e \in {"pdu_to_ros", "ros_to_pdu"}
    BY DEF Directions
  <1> QED
    BY <1>2, <1>3, <1>4, <1>5, <1>6

\* A binding, as _parse_binding returns it.
Parsed == [direction : Directions, pdu : Pdus \cup {UnknownPdu}, topic : Seq(Segment)]

\* An entry that is not reserved gives one binding for each direction it uses.
LEMMA ParsedTopics ==
    ASSUME NEW e \in Entry, ~Reserved(RosTopic(e))
    PROVE  /\ RosTopic(e) \in Seq(Segment) \ {<<>>}
           /\ ParseBinding(e) \in Seq(Parsed)
           /\ TopicsIn(ParseBinding(e)) =
                  {TopicForDirection(d, RosTopic(e)) : d \in {x \in Directions : Uses(e, x)}}
           /\ UniqueTopics(ParseBinding(e))
  <1> DEFINE t == RosTopic(e)
             D == IF e.direction = "both" THEN <<"pdu_to_ros", "ros_to_pdu">>
                                          ELSE <<e.direction>>
  <1>1. t \in Seq(Segment) \ {<<>>}
    BY TopicBridgeAssumption, TopicSegments DEF Entry, RosTopic
  <1>2. \A d \in Directions : TopicForDirection(d, t) \in Seq(Segment)
    <2> DEFINE p == <<"pdu">>
    <2>1. p \in Seq(Segment)
      BY PduSegment
    <2>2. \A d : TopicForDirection(d, t) = IF d = "pdu_to_ros" THEN p \o t ELSE t
      BY DEF TopicForDirection
    <2> HIDE DEF p, t
    <2>3. p \o t \in Seq(Segment)
      BY <1>1, <2>1, ConcatProperties
    <2> QED
      BY <1>1, <2>2, <2>3
  <1>3. e.direction \in {"pdu_to_ros", "ros_to_pdu", "both"} /\ e.pdu \in Pdus \cup {UnknownPdu}
    BY DEF Entry, Directions
  <1>4. ParseBinding(e) = [i \in DOMAIN D |->
            [direction |-> D[i], pdu |-> e.pdu, topic |-> TopicForDirection(D[i], t)]]
    BY DEF ParseBinding
  <1>5. \/ DOMAIN D = {1, 2} /\ D[1] = "pdu_to_ros" /\ D[2] = "ros_to_pdu"
           /\ e.direction = "both"
        \/ DOMAIN D = {1} /\ D[1] = e.direction /\ e.direction \in Directions
    BY <1>3 DEF Directions
  <1> HIDE DEF D, t
  <1>6. DOMAIN D = 1 .. 1 \/ DOMAIN D = 1 .. 2
    BY <1>5
  <1>7. \A i \in DOMAIN D : /\ D[i] \in Directions /\ Uses(e, D[i])
                            /\ ParseBinding(e)[i] \in Parsed
                            /\ ParseBinding(e)[i].topic = TopicForDirection(D[i], t)
    BY <1>2, <1>3, <1>4, <1>5 DEF Parsed, Uses, Directions
  <1>8. ParseBinding(e) \in Seq(Parsed) /\ DOMAIN ParseBinding(e) = DOMAIN D
    BY <1>4, <1>6, <1>7
  <1>9. \A d \in Directions : Uses(e, d) => \E i \in DOMAIN D : D[i] = d
    BY <1>5 DEF Directions, Uses
  <1>10. TopicsIn(ParseBinding(e)) =
            {TopicForDirection(d, t) : d \in {x \in Directions : Uses(e, x)}}
    <2>1. TopicsIn(ParseBinding(e)) = {ParseBinding(e)[i].topic : i \in DOMAIN D}
      BY <1>8 DEF TopicsIn
    <2> QED
      BY <2>1, <1>7, <1>9
  <1>11. UniqueTopics(ParseBinding(e))
    <2> SUFFICES ASSUME NEW i \in DOMAIN D, NEW j \in DOMAIN D,
                        TopicForDirection(D[i], t) = TopicForDirection(D[j], t)
                 PROVE  i = j
      BY <1>7, <1>8 DEF UniqueTopics
    <2>1. D[i] = D[j]
      BY <1>1, <1>7, MirrorTopics DEF t
    <2> QED
      BY <2>1, <1>5
  <1> QED
    BY <1>1, <1>8, <1>10, <1>11 DEF t

\* For any number of entries, of any topics and PDUs: load_config accepts what its
\* messages say it accepts, neither more nor less.
THEOREM AcceptanceIsExact == Spec => []AcceptedExactly
  <1>1. config \in Configs => AcceptedExactly
    <2> SUFFICES ASSUME config \in Configs PROVE AcceptedExactly
      OBVIOUS
    <2>1. PICK n \in Nat : config \in [1 .. n -> Entry]
      BY TopicBridgeAssumption DEF Configs
    <2> DEFINE t(i) == RosTopic(config[i])
               Free == \A i \in 1 .. n : config[i].pdu \in Pdus /\ ~Reserved(t(i))
               Single == \A i, j \in 1 .. n : \A d \in Directions :
                            /\ Uses(config[i], d) /\ Uses(config[j], d)
                            /\ t(i) = t(j)
                            => i = j
    <2>2. ASSUME NEW i \in 1 .. n
          PROVE  /\ config[i] \in Entry
                 /\ config[i].pdu \in Pdus <=> config[i].pdu # UnknownPdu
                 /\ Reserved(t(i)) <=> t(i)[1] = "pdu"
      <3>1. config[i] \in Entry
        BY <2>1
      <3>2. t(i) \in Seq(Segment) \ {<<>>}
        BY <3>1, TopicBridgeAssumption, TopicSegments DEF Entry, RosTopic
      <3> QED
        BY <3>1, <3>2, TopicBridgeAssumption, TopicSegments DEF Entry, Reserved
    <2>3. ASSUME Free PROVE UniqueTopics(Expanded(config)) <=> Single
      <3> DEFINE seqs == [i \in 1 .. n |-> ParseBinding(config[i])]
      <3>1. \A i \in 1 .. n :
               /\ t(i) \in Seq(Segment) \ {<<>>} /\ ~Reserved(t(i))
               /\ ParseBinding(config[i]) \in Seq(Parsed)
               /\ TopicsIn(ParseBinding(config[i])) =
                      {TopicForDirection(d, t(i)) : d \in {x \in Directions : Uses(config[i], x)}}
               /\ UniqueTopics(ParseBinding(config[i]))
        BY <2>2, <2>3, ParsedTopics
      <3>2. Expanded(config) = FlattenSeq(seqs) /\ seqs \in [1 .. n -> Seq(Parsed)]
        BY <2>1, <3>1 DEF Expanded
      <3>3. \A i \in 1 .. n : seqs[i] = ParseBinding(config[i])
        OBVIOUS
      <3> HIDE DEF seqs, t
      <3>4. UniqueTopics(FlattenSeq(seqs)) <=>
               \A i, j \in 1 .. n : i # j => TopicsIn(seqs[i]) \cap TopicsIn(seqs[j]) = {}
        <4>1. UniqueTopics(FlattenSeq(seqs)) <=>
                  /\ \A i \in 1 .. n : UniqueTopics(seqs[i])
                  /\ \A i, j \in 1 .. n :
                        i # j => TopicsIn(seqs[i]) \cap TopicsIn(seqs[j]) = {}
          BY <3>2, FlattenTopics
        <4>2. \A i \in 1 .. n : UniqueTopics(seqs[i])
          BY <3>1, <3>3
        <4> QED
          BY <4>1, <4>2
      <3>5. ASSUME NEW i \in 1 .. n, NEW j \in 1 .. n
            PROVE  (TopicsIn(seqs[i]) \cap TopicsIn(seqs[j]) # {}) <=>
                      \E d \in Directions : Uses(config[i], d) /\ Uses(config[j], d) /\ t(i) = t(j)
        <4>1. \A d, e \in Directions :
                  TopicForDirection(d, t(i)) = TopicForDirection(e, t(j)) <=> d = e /\ t(i) = t(j)
          BY <3>1, MirrorTopics
        <4>2. /\ TopicsIn(seqs[i]) =
                    {TopicForDirection(d, t(i)) : d \in {x \in Directions : Uses(config[i], x)}}
              /\ TopicsIn(seqs[j]) =
                    {TopicForDirection(d, t(j)) : d \in {x \in Directions : Uses(config[j], x)}}
          BY <3>1, <3>3
        <4> QED
          BY <4>1, <4>2
      <3>6. Single <=> \A i, j \in 1 .. n : i # j => TopicsIn(seqs[i]) \cap TopicsIn(seqs[j]) = {}
        BY <3>5
      <3> QED
        BY <3>2, <3>4, <3>6
    <2>4. DOMAIN config = 1 .. n
      BY <2>1
    <2>5. Accepted(config) <=> Free /\ Single
      BY <2>3, <2>4 DEF Accepted
    <2>6. Free <=> \A i \in DOMAIN config : config[i].pdu # UnknownPdu /\ t(i)[1] # "pdu"
      BY <2>2, <2>4
    <2> HIDE DEF Free
    <2> QED
      BY <2>4, <2>5, <2>6 DEF AcceptedExactly
  <1>2. Init => config \in Configs
    BY DEF Init
  <1>3. config \in Configs /\ [Next]_vars => (config \in Configs)'
    <2>1. [Next]_vars => config' = config
      BY DEF Next, vars, configVars, Startup, Load, WithoutConfig, StartManager, StartFails,
             SetupInBinding, SetupOutBinding, SetupFails, Constructed, Setting, Spin, OnMsg, Sent,
             OnMsgFails, KeyboardInterrupt, Dispatch, OnRecv, Published, Teardown, RemoveNode,
             StopDispatch, NotStarted, StopManager, StopFails, DestroyNode, ShutdownContext
    <2> QED
      BY <2>1
  <1> QED
    BY <1>1, <1>2, <1>3, PTL DEF Spec
=============================================================================
