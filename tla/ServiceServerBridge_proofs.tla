--------------------- MODULE ServiceServerBridge_proofs ---------------------
EXTENDS ServiceServerBridge, FiniteSetTheorems, TLAPS

\* Places of a callback.
Places == {"none", "requested", "done", "raised", "failed"} \cup Holding

\* Places of the thread that destroys the node: while the pool is open, and later.
Serving  == {"open", "left", "services"}
Canceled == {"close", "closed", "raised"}

TypeInv ==
    /\ pc \in [Calls -> Places]
    /\ lease \in [Calls -> Clients \cup {NoClient}]
    /\ \A k \in Calls : pc[k] \in Holding => lease[k] \in Clients
    /\ answer \in [Calls -> {"none", "response", "rejected"}]
    /\ completion \in [Calls -> {"none"} \cup Ended]
    /\ report \in [Calls -> {"none", "intime", "late", "done"}]
    /\ expired \in [Calls -> BOOLEAN] /\ completed \in [Calls -> BOOLEAN]
    /\ rpc \in [Calls -> {"none", "active"} \cup Ended]
    /\ available \in Seq(Clients) /\ leased \subseteq Clients /\ open \subseteq Clients
    /\ future \in [Clients -> Calls \cup {NoCall}] /\ poolClosed \in BOOLEAN
    /\ closePc \in Serving \cup {"cancel"} \cup Canceled
    /\ active \subseteq Clients /\ cancels \in [Clients -> {"none", "done", "raised"}]
    /\ faults \in Nat

\* The pool is closed by the first step of its close(); what is lent has not been
\* closed before the clients are.
PoolInv ==
    /\ PoolConsistent
    /\ poolClosed <=> closePc \notin Serving
    /\ closePc \in Serving \cup {"cancel"} => leased \subseteq open

\* The pool knows the future of a call from set_future() until its release.
FutureInv ==
    \A c \in Clients : future[c] # NoCall =>
        pc[future[c]] \in {"watch", "arm", "awaiting", "releasing"} /\ lease[future[c]] = c

\* A call, its RPC future and its deadline: the future completes once, the lock
\* decides on one side whether it was in time, and the callback goes on after that.
CallState(k) ==
    /\ pc[k] \in {"none", "requested", "leased"} => rpc[k] = "none"
    /\ faults = 0 /\ rpc[k] = "active" => pc[k] \in {"called", "watch", "arm", "awaiting"}
    /\ completed[k] => rpc[k] \in Ended
    /\ report[k] # "none" => completed[k]
    /\ completion[k] # "none" => report[k] = "done"
    /\ report[k] = "intime" \/ completion[k] = "result" => ~expired[k]
    /\ answer[k] = "response" => completed[k] /\ ~expired[k]

CallsInv == \A k \in Calls : CallState(k)

\* RpcClientPool.close(): the active clients are those whose call the pool knew of,
\* no other call gets one of them, and their futures have been asked to cancel, but for
\* the clients whose cancel() raised.
CloseInv ==
    /\ closePc \in Serving => active = {} /\ \A c \in Clients : cancels[c] = "none"
    /\ \A c \in active, k \in Calls : pc[k] \in {"leased", "called"} => lease[k] # c
    /\ closePc = "cancel" => active \subseteq open
    /\ closePc \in Canceled => \A c \in active : cancels[c] # "none"
    /\ \A c \in active : cancels[c] = "done" /\ future[c] # NoCall => future[c] \in cancelAsked
    /\ \A c \in active : cancels[c] = "raised" /\ future[c] # NoCall => faults > 0

-----------------------------------------------------------------------------
\* A sequence without repetitions loses its head, and gets a new one.
NoRepeat(s) == \A i, j \in 1 .. Len(s) : s[i] = s[j] => i = j

\* acquire() takes the head of a sequence without repetitions,
LEMMA PopHead ==
    ASSUME NEW S, NEW s \in Seq(S), s # <<>>, NoRepeat(s)
    PROVE  /\ Head(s) \in Range(s) /\ Head(s) \in S /\ Tail(s) \in Seq(S)
           /\ NoRepeat(Tail(s)) /\ Range(Tail(s)) = Range(s) \ {Head(s)}
  <1>1. Len(s) \in Nat \ {0} /\ DOMAIN s = 1 .. Len(s) /\ Head(s) = s[1]
    OBVIOUS
  <1>2. /\ Tail(s) \in Seq(S) /\ Len(Tail(s)) = Len(s) - 1
        /\ DOMAIN Tail(s) = 1 .. Len(s) - 1
        /\ \A i \in 1 .. Len(s) - 1 : Tail(s)[i] = s[i + 1]
    OBVIOUS
  <1>3. Head(s) \in Range(s) /\ Head(s) \in S
    BY <1>1 DEF Range
  <1>4. NoRepeat(Tail(s))
    BY <1>1, <1>2 DEF NoRepeat
  <1>5. Range(Tail(s)) \subseteq Range(s) \ {Head(s)}
    BY <1>1, <1>2 DEF Range, NoRepeat
  <1>6. ASSUME NEW x \in Range(s) \ {Head(s)} PROVE x \in Range(Tail(s))
    <2>1. PICK i \in 1 .. Len(s) : x = s[i]
      BY <1>1 DEF Range
    <2>2. i # 1
      BY <1>1, <1>6, <2>1
    <2>3. i - 1 \in 1 .. Len(s) - 1 /\ Tail(s)[i - 1] = x
      BY <1>1, <1>2, <2>1, <2>2
    <2> QED
      BY <1>2, <2>3 DEF Range
  <1> QED
    BY <1>2, <1>3, <1>4, <1>5, <1>6

\* and release() puts a client back that is not in it.
LEMMA PushHead ==
    ASSUME NEW S, NEW s \in Seq(S), NEW c \in S, c \notin Range(s), NoRepeat(s)
    PROVE  /\ <<c>> \o s \in Seq(S) /\ NoRepeat(<<c>> \o s)
           /\ Range(<<c>> \o s) = Range(s) \cup {c}
  <1> DEFINE t == <<c>> \o s
  <1>1. Len(s) \in Nat /\ DOMAIN s = 1 .. Len(s)
    OBVIOUS
  <1>2. /\ t \in Seq(S) /\ Len(t) = Len(s) + 1 /\ DOMAIN t = 1 .. Len(s) + 1
        /\ t[1] = c /\ \A i \in 1 .. Len(s) : t[i + 1] = s[i]
    OBVIOUS
  <1> HIDE DEF t
  <1>3. \A i \in 2 .. Len(s) + 1 : i - 1 \in 1 .. Len(s) /\ t[i] = s[i - 1]
    <2> TAKE i \in 2 .. Len(s) + 1
    <2>1. i - 1 \in 1 .. Len(s) /\ (i - 1) + 1 = i
      BY <1>1
    <2> QED
      BY <1>2, <2>1
  <1>4. \A i \in 1 .. Len(s) : s[i] # c
    BY <1>1 DEF Range
  <1>5. NoRepeat(t)
    <2> SUFFICES ASSUME NEW i \in 1 .. Len(s) + 1, NEW j \in 1 .. Len(s) + 1, t[i] = t[j]
                 PROVE  i = j
      BY <1>2 DEF NoRepeat
    <2>1. CASE i = 1 \/ j = 1
      BY <1>1, <1>2, <1>3, <1>4, <2>1
    <2>2. CASE i # 1 /\ j # 1
      <3>1. i \in 2 .. Len(s) + 1 /\ j \in 2 .. Len(s) + 1
        BY <1>1, <2>2
      <3>2. s[i - 1] = s[j - 1] /\ i - 1 \in 1 .. Len(s) /\ j - 1 \in 1 .. Len(s)
        BY <1>3, <3>1
      <3>3. i - 1 = j - 1
        BY <3>2 DEF NoRepeat
      <3> QED
        BY <1>1, <3>3
    <2> QED
      BY <2>1, <2>2
  <1>6. Range(t) = Range(s) \cup {c}
    <2>1. Range(t) \subseteq Range(s) \cup {c}
      <3> SUFFICES ASSUME NEW i \in 1 .. Len(s) + 1 PROVE t[i] \in Range(s) \cup {c}
        BY <1>2 DEF Range
      <3>1. i = 1 \/ i \in 2 .. Len(s) + 1
        BY <1>1
      <3> QED
        BY <1>1, <1>2, <1>3, <3>1 DEF Range
    <2>2. Range(s) \cup {c} \subseteq Range(t)
      BY <1>1, <1>2 DEF Range
    <2> QED
      BY <2>1, <2>2
  <1> QED
    BY <1>2, <1>5, <1>6 DEF t

\* The pool that start() fills holds every client once.
LEMMA FilledPool ==
    ASSUME NEW S, IsFiniteSet(S), NEW s \in SetToSeqs(S)
    PROVE  s \in Seq(S) /\ NoRepeat(s) /\ Range(s) = S
  <1> DEFINE n == Cardinality(S)
  <1>1. n \in Nat
    BY FS_CardinalityType
  <1>2. s \in [1 .. n -> S] /\ \A i, j \in 1 .. n : i # j => s[i] # s[j]
    BY DEF SetToSeqs
  <1>3. s \in Seq(S) /\ Len(s) = n
    BY <1>1, <1>2
  <1>4. IsFiniteSet(1 .. n) /\ Cardinality(1 .. n) = n
    BY <1>1, FS_Interval
  <1>5. s \in Injection(1 .. n, S)
    BY <1>2 DEF Injection, IsInjective
  <1>6. s \in Surjection(1 .. n, S)
    BY <1>4, <1>5, FS_Injection
  <1>7. Range(s) = S
    BY <1>2, <1>6 DEF Surjection, Range
  <1> QED
    BY <1>2, <1>3, <1>7 DEF NoRepeat

-----------------------------------------------------------------------------
\* What is available is not lent, so that it can be lent; what is lent can be
\* returned.
LEMMA PoolSplit ==
    ASSUME TypeInv, PoolInv
    PROVE  NoRepeat(available) /\ (~poolClosed => Range(available) = open \ leased)
  BY DEF PoolInv, PoolConsistent, NoRepeat

\* Every step keeps the types.
LEMMA TypeStep ==
    ASSUME TypeInv, CallsInv, [Next]_vars
    PROVE  TypeInv'
  <1> USE ServiceServerAssumption
      DEF TypeInv, Places, Holding, Serving, Canceled, Ended, callVars, lifeVars, poolVars,
          closeVars, rpcVars
  <1>1. ASSUME NEW k \in Calls, RosCalls(k) \/ Busy(k) \/ CallAsync(k) PROVE TypeInv'
    BY <1>1 DEF RosCalls, Busy, CallAsync
  <1>2. ASSUME NEW k \in Calls, Acquire(k) PROVE TypeInv'
    <2>1. Head(available) \in Clients /\ Tail(available) \in Seq(Clients)
      BY <1>2 DEF Acquire
    <2> QED
      BY <1>2, <2>1 DEF Acquire
  <1>3. ASSUME NEW k \in Calls, SetFuture(k) \/ Watch(k) \/ Arm(k) \/ CallFails(k)
        PROVE  TypeInv'
    <2>1. ASSUME SetFuture(k) PROVE TypeInv'
      BY <2>1 DEF SetFuture
    <2>2. ASSUME Watch(k) PROVE TypeInv'
      BY <2>2 DEF Watch
    <2>3. ASSUME Arm(k) PROVE TypeInv'
      BY <2>3 DEF Arm
    <2>4. ASSUME CallFails(k) PROVE TypeInv'
      BY <2>4 DEF CallFails, Fault
    <2> QED
      BY <1>3, <2>1, <2>2, <2>3, <2>4
  <1>4. ASSUME NEW k \in Calls, Resume(k) PROVE TypeInv'
    BY <1>4 DEF Resume, Fault
  <1>5. ASSUME NEW k \in Calls, Release(k) PROVE TypeInv'
    <2>1. lease[k] \in Clients /\ available' \in Seq(Clients) /\ leased' \subseteq Clients
      BY <1>5 DEF Release, Return
    <2>2. /\ pc' \in [Calls -> Places] /\ \A j \in Calls : pc'[j] \in Holding => pc[j] \in Holding
          /\ faults' \in Nat
      BY <1>5 DEF Release, Fault
    <2>3. future' \in [Clients -> Calls \cup {NoCall}]
      BY <1>5, <2>1 DEF Release
    <2>4. UNCHANGED <<lease, answer, lifeVars, poolClosed, closeVars, rpcVars>>
      BY <1>5 DEF Release
    <2> QED
      BY <2>1, <2>2, <2>3, <2>4
  <1>6. ASSUME NEW k \in Calls, SpinRaises(k) PROVE TypeInv'
    BY <1>6 DEF SpinRaises
  <1>7. ASSUME NEW k \in Calls, Timer(k) PROVE TypeInv'
    <2>1. expired' \in [Calls -> BOOLEAN] /\ UNCHANGED completion
      BY <1>7 DEF Timer, Expire, MayExpire, ExpireCancel, CancelExpired
    <2> QED
      BY <1>7, <2>1 DEF Timer, Expire, ExpireCancel, Fault
  <1>8. ASSUME NEW k \in Calls, Complete(k) PROVE TypeInv'
    BY <1>8 DEF Complete
  <1>9. ASSUME NEW k \in Calls, Report(k) PROVE TypeInv'
    <2>1. Outcome(k) \in Ended
      BY <1>9 DEF Report, Outcome, CallsInv, CallState
    <2> QED
      BY <1>9, <2>1 DEF Report
  <1>10. ASSUME NEW k \in Calls, RpcEnds(k) PROVE TypeInv'
    BY <1>10 DEF RpcEnds
  <1>11. ASSUME Closing PROVE TypeInv'
    <2>1. ASSUME CloseServices \/ CloseMark \/ CloseWait PROVE TypeInv'
      BY <2>1 DEF CloseServices, CloseMark, CloseWait
    <2>2. ASSUME NEW c \in Clients, CloseCancel(c) PROVE TypeInv'
      BY <2>2 DEF CloseCancel, CancelActive, Fault
    <2>3. ASSUME NEW c \in Clients, CloseClient(c) PROVE TypeInv'
      <3>1. closePc' \in {"close", "closed", "raised"} /\ open' \subseteq open /\ faults' \in Nat
        BY <2>3 DEF CloseClient, Fault
      <3> QED
        BY <2>3, <3>1 DEF CloseClient
    <2> QED
      BY <1>11, <2>1, <2>2, <2>3 DEF Closing
  <1>12. CASE UNCHANGED vars
    BY <1>12 DEF vars
  <1> QED
    BY <1>1, <1>2, <1>3, <1>4, <1>5, <1>6, <1>7, <1>8, <1>9, <1>10, <1>11, <1>12
       DEF Next, Callback, RpcWorker

\* A step that changes neither the pool nor who holds a client.
LEMMA PoolFrame ==
    ASSUME TypeInv, PoolInv,
           UNCHANGED <<lease, available, leased, open, poolClosed>>,
           \A k \in Calls : pc'[k] \in Holding <=> pc[k] \in Holding,
           closePc' \in Serving <=> closePc \in Serving, closePc' = "cancel" => closePc = "cancel"
    PROVE  PoolInv'
  BY DEF PoolInv, PoolConsistent

\* The pool is consistent after every step.
LEMMA PoolStep ==
    ASSUME TypeInv, PoolInv, [Next]_vars
    PROVE  PoolInv'
  <1> USE DEF callVars, lifeVars, poolVars, closeVars, rpcVars
  <1>1. ASSUME NEW k \in Calls,
               \/ RosCalls(k) \/ Busy(k) \/ CallAsync(k) \/ SetFuture(k) \/ Watch(k) \/ Arm(k)
               \/ CallFails(k) \/ Resume(k) \/ SpinRaises(k)
        PROVE  PoolInv'
    <2>1. \A j \in Calls : pc'[j] \in Holding <=> pc[j] \in Holding
      BY <1>1 DEF TypeInv, RosCalls, Busy, CallAsync, SetFuture, Watch, Arm, CallFails, Resume,
                  SpinRaises, Holding
    <2>2. UNCHANGED <<lease, available, leased, open, poolClosed>>
      BY <1>1 DEF RosCalls, Busy, CallAsync, SetFuture, Watch, Arm, CallFails, Resume, SpinRaises
    <2>3. /\ closePc' \in Serving <=> closePc \in Serving
          /\ closePc' = "cancel" => closePc = "cancel"
      BY <1>1 DEF RosCalls, Busy, CallAsync, SetFuture, Watch, Arm, CallFails, Resume, SpinRaises,
                  Serving
    <2> QED
      BY <2>1, <2>2, <2>3, PoolFrame
  <1>2. ASSUME NEW k \in Calls, Acquire(k) PROVE PoolInv'
    <2> DEFINE c == Head(available)
    <2>1. /\ pc[k] = "requested" /\ ~poolClosed /\ available # <<>>
          /\ lease' = [lease EXCEPT ![k] = c] /\ leased' = leased \cup {c}
          /\ available' = Tail(available) /\ pc' = [pc EXCEPT ![k] = "leased"]
          /\ UNCHANGED <<poolClosed, closePc, open>>
      BY <1>2 DEF Acquire
    <2>2. Range(available) = open \ leased /\ NoRepeat(available)
      BY <2>1, PoolSplit
    <2>3. /\ c \in open \ leased /\ NoRepeat(available')
          /\ Range(available') = open \ (leased \cup {c})
      BY <2>1, <2>2, PopHead DEF TypeInv
    <2> HIDE DEF c
    <2>4. /\ \A j \in Calls : pc'[j] \in Holding <=> pc[j] \in Holding \/ j = k
          /\ \A j \in Calls : lease'[j] = IF j = k THEN c ELSE lease[j]
          /\ pc[k] \notin Holding
      BY <2>1 DEF TypeInv, Holding
    <2>5. leased = {lease[j] : j \in {i \in Calls : pc[i] \in Holding}}
      BY DEF PoolInv, PoolConsistent
    <2>6. leased' = {lease'[j] : j \in {i \in Calls : pc'[i] \in Holding}}
      BY <2>1, <2>4, <2>5
    <2>7. \A i, j \in Calls : pc'[i] \in Holding /\ pc'[j] \in Holding /\ lease'[i] = lease'[j] => i = j
      BY <2>3, <2>4, <2>5 DEF PoolInv, PoolConsistent
    <2> QED
      BY <2>1, <2>3, <2>6, <2>7 DEF PoolInv, PoolConsistent, NoRepeat
  <1>3. ASSUME NEW k \in Calls, Release(k) PROVE PoolInv'
    <2> DEFINE c == lease[k]
    <2>1. /\ pc[k] = "releasing" /\ c \in leased /\ leased' = leased \ {c}
          /\ available' = IF poolClosed THEN available ELSE <<c>> \o available
          /\ UNCHANGED <<lease, poolClosed, closePc, open>>
          /\ \E p \in {"done", "raised", "failed"} : pc' = [pc EXCEPT ![k] = p]
      BY <1>3 DEF Release, Return
    <2>2. c \in Clients
      BY <2>1 DEF TypeInv
    <2>3. /\ pc[k] \in Holding
          /\ \A j \in Calls : pc'[j] \in Holding <=> pc[j] \in Holding /\ j # k
      BY <2>1 DEF TypeInv, Holding
    <2>4. leased = {lease[j] : j \in {i \in Calls : pc[i] \in Holding}}
      BY DEF PoolInv, PoolConsistent
    <2>5. \A i, j \in Calls : pc[i] \in Holding /\ pc[j] \in Holding /\ lease[i] = lease[j] => i = j
      BY DEF PoolInv, PoolConsistent
    <2>6. leased' = {lease'[j] : j \in {i \in Calls : pc'[i] \in Holding}}
      BY <2>1, <2>3, <2>4, <2>5
    <2>7. NoRepeat(available') /\ (~poolClosed => Range(available') = open \ leased')
      <3>1. CASE poolClosed
        BY <2>1, <3>1, PoolSplit
      <3>2. CASE ~poolClosed
        <4>1. Range(available) = open \ leased /\ NoRepeat(available) /\ c \in open
          BY <2>1, <3>2, PoolSplit DEF PoolInv
        <4>2. /\ NoRepeat(<<c>> \o available)
              /\ Range(<<c>> \o available) = Range(available) \cup {c}
          BY <2>1, <2>2, <4>1, PushHead DEF TypeInv
        <4> QED
          BY <2>1, <3>2, <4>1, <4>2
      <3> QED
        BY <3>1, <3>2
    <2> HIDE DEF c
    <2> QED
      BY <2>1, <2>3, <2>5, <2>6, <2>7 DEF PoolInv, PoolConsistent, NoRepeat
  <1>4. ASSUME NEW k \in Calls, Timer(k) \/ RpcWorker(k) \/ RpcEnds(k) PROVE PoolInv'
    <2>1. UNCHANGED <<pc, lease, available, leased, open, poolClosed, closePc>>
      BY <1>4 DEF Timer, Expire, ExpireCancel, RpcWorker, Complete, Report, RpcEnds
    <2> QED
      BY <2>1, PoolFrame
  <1>5. ASSUME CloseServices \/ CloseWait \/ \E c \in Clients : CloseCancel(c) PROVE PoolInv'
    <2>1. UNCHANGED <<pc, lease, available, leased, open, poolClosed>>
      BY <1>5 DEF CloseServices, CloseCancel, CloseWait
    <2>2. /\ closePc' \in Serving <=> closePc \in Serving
          /\ closePc' = "cancel" => closePc = "cancel"
      BY <1>5 DEF CloseServices, CloseCancel, CloseWait, Serving
    <2> QED
      BY <2>1, <2>2, PoolFrame
  <1>6. ASSUME CloseMark PROVE PoolInv'
    BY <1>6 DEF CloseMark, PoolInv, PoolConsistent, Serving
  <1>7. ASSUME NEW c \in Clients, CloseClient(c) PROVE PoolInv'
    <2>1. /\ UNCHANGED <<pc, lease, available, leased, poolClosed>>
          /\ closePc = "close" /\ closePc' \in Canceled
      BY <1>7 DEF CloseClient, Canceled
    <2>2. poolClosed
      BY <2>1 DEF PoolInv, Serving
    <2> QED
      BY <2>1, <2>2 DEF PoolInv, PoolConsistent, Serving, Canceled
  <1>8. CASE UNCHANGED vars
    BY <1>8, PoolFrame DEF vars
  <1> QED
    BY <1>1, <1>2, <1>3, <1>4, <1>5, <1>6, <1>7, <1>8 DEF Next, Callback, Closing

-----------------------------------------------------------------------------
\* The futures of the pool belong to calls under way after every step.
LEMMA FutureStep ==
    ASSUME TypeInv, PoolInv, FutureInv, [Next]_vars
    PROVE  FutureInv'
  <1> USE ServiceServerAssumption
      DEF TypeInv, FutureInv, callVars, lifeVars, poolVars, closeVars, rpcVars
  <1>1. ASSUME NEW k \in Calls,
               \/ RosCalls(k) \/ Busy(k) \/ CallAsync(k) \/ Watch(k) \/ Arm(k)
               \/ CallFails(k) \/ Resume(k) \/ SpinRaises(k)
        PROVE  FutureInv'
    BY <1>1 DEF RosCalls, Busy, CallAsync, Watch, Arm, CallFails, Resume, SpinRaises
  <1>2. ASSUME NEW k \in Calls, Acquire(k) PROVE FutureInv'
    BY <1>2 DEF Acquire
  <1>3. ASSUME NEW k \in Calls, SetFuture(k) PROVE FutureInv'
    BY <1>3 DEF SetFuture, Holding
  <1>4. ASSUME NEW k \in Calls, Release(k) PROVE FutureInv'
    <2>1. pc' \in [Calls -> Places] /\ \A j \in Calls \ {k} : pc'[j] = pc[j]
      BY <1>4 DEF Release, Places
    <2>2. lease[k] \in Clients /\ lease' = lease /\ future' = [future EXCEPT ![lease[k]] = NoCall]
      BY <1>4 DEF Release
    <2> QED
      BY <2>1, <2>2
  <1>5. ASSUME NEW k \in Calls, Timer(k) \/ RpcWorker(k) \/ RpcEnds(k) PROVE FutureInv'
    BY <1>5 DEF Timer, Expire, ExpireCancel, RpcWorker, Complete, Report, RpcEnds
  <1>6. ASSUME Closing PROVE FutureInv'
    BY <1>6 DEF Closing, CloseServices, CloseMark, CloseCancel, CloseWait, CloseClient
  <1>7. CASE UNCHANGED vars
    BY <1>7 DEF vars
  <1> QED
    BY <1>1, <1>2, <1>3, <1>4, <1>5, <1>6, <1>7 DEF Next, Callback

\* The deadline and the completion of a call agree after every step.
LEMMA CallsStep ==
    ASSUME TypeInv, CallsInv, [Next]_vars
    PROVE  CallsInv'
  <1>1. ASSUME NEW k \in Calls, faults' = 0 => faults = 0,
               \A j \in Calls \ {k} :
                   /\ pc'[j] = pc[j] /\ rpc'[j] = rpc[j] /\ completed'[j] = completed[j]
                   /\ report'[j] = report[j] /\ completion'[j] = completion[j]
                   /\ expired'[j] = expired[j] /\ answer'[j] = answer[j],
               CallState(k)'
        PROVE  CallsInv'
    BY <1>1 DEF CallsInv, CallState
  <1>2. ASSUME UNCHANGED <<pc, rpc, completed, report, completion, expired, answer>>,
               faults' = 0 => faults = 0
        PROVE  CallsInv'
    BY <1>2 DEF CallsInv, CallState
  <1>3. \A k \in Calls : CallState(k)
    BY DEF CallsInv
  <1> USE ServiceServerAssumption DEF TypeInv, callVars, lifeVars, poolVars, closeVars, rpcVars
  <1>4. ASSUME NEW k \in Calls, RosCalls(k) \/ Acquire(k) \/ Busy(k) PROVE CallsInv'
    <2>1. CallState(k)'
      BY <1>3, <1>4 DEF RosCalls, Acquire, Busy, CallState
    <2> QED
      BY <1>1, <1>4, <2>1 DEF RosCalls, Acquire, Busy
  <1>5. ASSUME NEW k \in Calls, CallAsync(k) \/ SetFuture(k) \/ Watch(k) \/ Arm(k)
        PROVE  CallsInv'
    <2>1. CallState(k)'
      BY <1>3, <1>5 DEF CallAsync, SetFuture, Watch, Arm, CallState, Ended
    <2> QED
      BY <1>1, <1>5, <2>1 DEF CallAsync, SetFuture, Watch, Arm
  <1>6. ASSUME NEW k \in Calls, CallFails(k) PROVE CallsInv'
    <2>1. CallState(k)'
      BY <1>3, <1>6 DEF CallFails, CallState, Ended, Fault
    <2> QED
      BY <1>1, <1>6, <2>1 DEF CallFails, Fault
  <1>7. ASSUME NEW k \in Calls, Resume(k) PROVE CallsInv'
    <2>1. CallState(k)'
      BY <1>3, <1>7 DEF Resume, CallState, Ended, Fault
    <2> QED
      BY <1>1, <1>7, <2>1 DEF Resume, Fault
  <1>8. ASSUME NEW k \in Calls, Release(k) \/ SpinRaises(k) PROVE CallsInv'
    <2>1. \E p \in {"done", "raised", "failed"} : pc' = [pc EXCEPT ![k] = p]
      BY <1>8 DEF Release, SpinRaises
    <2>2. CallState(k)'
      BY <1>3, <1>8, <2>1 DEF Release, SpinRaises, CallState, Fault
    <2> QED
      BY <1>1, <1>8, <2>1, <2>2 DEF Release, SpinRaises, Fault
  <1>9. ASSUME NEW k \in Calls, Timer(k) PROVE CallsInv'
    <2>1. ASSUME Expire(k) PROVE CallsInv'
      <3>1. /\ expired' = [expired EXCEPT ![k] = @ \/ MayExpire(k)]
            /\ UNCHANGED <<pc, rpc, completed, report, completion, answer, faults>>
        BY <2>1 DEF Expire
      <3>2. CallState(k)'
        BY <1>3, <3>1, Zenon DEF CallState, MayExpire
      <3> QED
        BY <1>1, <3>1, <3>2
    <2>2. ASSUME ExpireCancel(k) PROVE CallsInv'
      BY <1>2, <2>2 DEF ExpireCancel, CancelExpired, Fault
    <2> QED
      BY <1>9, <2>1, <2>2 DEF Timer
  <1>10. ASSUME NEW k \in Calls, Complete(k) PROVE CallsInv'
    <2>1. CallState(k)'
      BY <1>3, <1>10 DEF Complete, CallState
    <2> QED
      BY <1>1, <1>10, <2>1 DEF Complete
  <1>11. ASSUME NEW k \in Calls, Report(k) PROVE CallsInv'
    <2>1. CallState(k)'
      BY <1>3, <1>11 DEF Report, Outcome, CallState
    <2> QED
      BY <1>1, <1>11, <2>1 DEF Report
  <1>12. ASSUME NEW k \in Calls, RpcEnds(k) PROVE CallsInv'
    <2>1. CallState(k)'
      BY <1>3, <1>12 DEF RpcEnds, CallState, Ended
    <2> QED
      BY <1>1, <1>12, <2>1 DEF RpcEnds
  <1>13. ASSUME Closing \/ UNCHANGED vars PROVE CallsInv'
    BY <1>2, <1>13 DEF Closing, CloseServices, CloseMark, CloseCancel, CancelActive, CloseWait,
                       CloseClient, Fault, vars
  <1> QED
    BY <1>4, <1>5, <1>6, <1>7, <1>8, <1>9, <1>10, <1>11, <1>12, <1>13
       DEF Next, Callback, RpcWorker

\* What has been disturbed stays so.
LEMMA FaultsCounted ==
    ASSUME TypeInv, [Next]_vars
    PROVE  faults' \in {faults, faults + 1} /\ (faults' > 0) \in {faults > 0, TRUE}
  <1> USE DEF callVars, lifeVars, poolVars, closeVars, rpcVars, Fault
  <1>1. ASSUME NEW k \in Calls, RosCalls(k) \/ Callback(k) PROVE faults' \in {faults, faults + 1}
    BY <1>1 DEF RosCalls, Callback, Acquire, Busy, CallAsync, SetFuture, Watch, Arm, CallFails,
                Resume, Release, SpinRaises
  <1>2. ASSUME NEW k \in Calls, Timer(k) \/ RpcWorker(k) \/ RpcEnds(k)
        PROVE  faults' \in {faults, faults + 1}
    BY <1>2 DEF Timer, Expire, ExpireCancel, RpcWorker, Complete, Report, RpcEnds
  <1>3. ASSUME Closing \/ UNCHANGED vars PROVE faults' \in {faults, faults + 1}
    BY <1>3 DEF Closing, CloseServices, CloseMark, CloseCancel, CancelActive, CloseWait, CloseClient, vars
  <1>4. faults' \in {faults, faults + 1}
    BY <1>1, <1>2, <1>3 DEF Next
  <1>5. faults \in Nat
    BY DEF TypeInv
  <1>6. CASE faults > 0
    <2>1. faults' > 0
      BY <1>4, <1>5, <1>6
    <2> QED
      BY <1>4, <1>6, <2>1
  <1>7. CASE ~(faults > 0)
    <2>1. CASE faults' > 0
      <3>1. (faults' > 0) = TRUE
        BY <2>1
      <3> QED
        BY <1>4, <3>1, Zenon
    <2>2. CASE ~(faults' > 0)
      <3>1. (faults' > 0) = (faults > 0)
        BY <1>7, <2>2
      <3> QED
        BY <1>4, <3>1, Zenon
    <2> QED
      BY <2>1, <2>2
  <1> QED
    BY <1>6, <1>7

\* The pool's close() keeps knowing the calls it has canceled.
LEMMA CloseStep ==
    ASSUME TypeInv, PoolInv, FutureInv, CloseInv, [Next]_vars
    PROVE  CloseInv'
  <1> USE ServiceServerAssumption
      DEF TypeInv, CloseInv, Serving, Canceled, callVars, lifeVars, poolVars, closeVars, rpcVars
  <1>0. faults \in Nat /\ (faults > 0 => faults' > 0)
    <2>1. faults' \in {faults, faults + 1}
      BY FaultsCounted, Zenon
    <2> QED
      BY <2>1
  <1>1. ASSUME NEW k \in Calls,
               \/ RosCalls(k) \/ Busy(k) \/ CallAsync(k) \/ Watch(k) \/ Arm(k)
               \/ CallFails(k) \/ Resume(k)
        PROVE  CloseInv'
    BY <1>0, <1>1 DEF RosCalls, Busy, CallAsync, Watch, Arm, CallFails, Resume
  <1>2. ASSUME NEW k \in Calls, Acquire(k) PROVE CloseInv'
    BY <1>0, <1>2 DEF Acquire, PoolInv
  <1>3. ASSUME NEW k \in Calls, SetFuture(k) PROVE CloseInv'
    <2>1. lease[k] \notin active
      BY <1>3 DEF SetFuture
    <2> QED
      BY <1>0, <1>3, <2>1 DEF SetFuture
  <1>4. ASSUME NEW k \in Calls, Release(k) PROVE CloseInv'
    <2>1. /\ \A j \in Calls : pc'[j] \in {"leased", "called"} => pc[j] \in {"leased", "called"}
          /\ \A c \in Clients : future'[c] # NoCall => future'[c] = future[c]
          /\ UNCHANGED <<lease, active, cancels, closePc, open, cancelAsked>>
      BY <1>4 DEF Release
    <2> QED
      BY <1>0, <2>1
  <1>5. ASSUME NEW k \in Calls, SpinRaises(k) PROVE CloseInv'
    BY <1>0, <1>5 DEF SpinRaises
  <1>6. ASSUME NEW k \in Calls, Timer(k) \/ RpcWorker(k) \/ RpcEnds(k) PROVE CloseInv'
    BY <1>0, <1>6 DEF Timer, Expire, ExpireCancel, CancelExpired, RpcWorker, Complete, Report, RpcEnds
  <1>7. ASSUME CloseServices \/ CloseWait PROVE CloseInv'
    BY <1>7 DEF CloseServices, CloseWait
  <1>c. ASSUME NEW c \in Clients, CloseCancel(c) PROVE CloseInv'
    <2>1. /\ UNCHANGED <<pc, lease, future, closePc, active, open>> /\ closePc = "cancel"
          /\ cancelAsked \subseteq cancelAsked'
      BY <1>c DEF CloseCancel, CancelActive
    <2>2. \A d \in Clients \ {c} : cancels'[d] = cancels[d]
      BY <1>c DEF CloseCancel, CancelActive
    <2>3. /\ cancels'[c] \in {"done", "raised"}
          /\ cancels'[c] = "done" => future[c] \in cancelAsked'
          /\ cancels'[c] = "raised" /\ future[c] # NoCall => faults' > 0
      BY <1>c DEF CloseCancel, CancelActive, Fault
    <2> QED
      BY <1>0, <2>1, <2>2, <2>3
  <1>8. ASSUME CloseMark PROVE CloseInv'
    <2>1. ASSUME NEW c \in Clients, future[c] # NoCall
          PROVE  c \in open /\ \A k \in Calls : pc[k] \in {"leased", "called"} => lease[k] # c
      BY <1>8, <2>1 DEF CloseMark, FutureInv, PoolInv, PoolConsistent, Holding
    <2> QED
      BY <1>8, <2>1 DEF CloseMark
  <1>9. ASSUME NEW c \in Clients, CloseClient(c) PROVE CloseInv'
    BY <1>0, <1>9 DEF CloseClient
  <1>10. CASE UNCHANGED vars
    BY <1>10 DEF vars
  <1> QED
    BY <1>1, <1>2, <1>3, <1>4, <1>5, <1>6, <1>7, <1>8, <1>9, <1>10, <1>c DEF Next, Callback, Closing

-----------------------------------------------------------------------------
\* The invariant holds in every reachable state, for any calls and clients, with or
\* without exceptions and a shutdown.
BridgeInv == TypeInv /\ PoolInv /\ FutureInv /\ CallsInv /\ CloseInv

LEMMA BridgeInvariant == Spec => []BridgeInv
  <1>1. Init => BridgeInv
    <2> SUFFICES ASSUME Init PROVE BridgeInv
      OBVIOUS
    <2>1. available \in Seq(open) /\ NoRepeat(available) /\ Range(available) = open
      <3>1. IsFiniteSet(open)
        BY ServiceServerAssumption, FS_Subset DEF Init
      <3> QED
        BY <3>1, FilledPool DEF Init
    <2>2. available \in Seq(Clients) /\ open \subseteq Clients
      BY <2>1 DEF Init
    <2>3. TypeInv
      BY <2>2, ServiceServerAssumption DEF Init, TypeInv, Places, Holding, Serving, Ended
    <2>4. PoolInv
      BY <2>1 DEF Init, PoolInv, PoolConsistent, NoRepeat, Holding, Serving
    <2>5. FutureInv /\ CallsInv /\ CloseInv
      BY DEF Init, FutureInv, CallsInv, CallState, CloseInv, Serving, Canceled
    <2> QED
      BY <2>3, <2>4, <2>5 DEF BridgeInv
  <1>2. BridgeInv /\ [Next]_vars => BridgeInv'
    BY TypeStep, PoolStep, FutureStep, CallsStep, CloseStep DEF BridgeInv
  <1> QED
    BY <1>1, <1>2, PTL DEF Spec

\* However many callbacks acquire and release clients, and whatever raises between
\* (RpcClientPool.acquire, release, close), no client is lost or lent twice.
THEOREM PoolConsistentHolds == Spec => []PoolConsistent
  BY BridgeInvariant, PTL DEF BridgeInv, PoolInv

\* While nothing raises, a client that is available has no call under way, also after
\* a deadline (BridgeCallLifecycle._expire).
THEOREM ReturnedIdleHolds == Spec => []ReturnedIdle
  <1>1. BridgeInv => ReturnedIdle
    <2> SUFFICES ASSUME BridgeInv, faults = 0, ~poolClosed, NEW k \in Calls,
                        lease[k] \in Range(available), rpc[k] = "active"
                 PROVE  FALSE
      BY DEF ReturnedIdle
    <2>1. pc[k] \in Holding
      BY DEF BridgeInv, CallsInv, CallState, Holding
    <2>2. lease[k] \in leased /\ Range(available) = open \ leased
      BY <2>1 DEF BridgeInv, PoolInv, PoolConsistent
    <2> QED
      BY <2>2
  <1> QED
    BY <1>1, BridgeInvariant, PTL

\* The deadline and the result decide under one lock (_expire, _complete): a response
\* is never one of an expired call.
THEOREM LateResultDiscardedHolds == Spec => []LateResultDiscarded
  <1>1. BridgeInv => LateResultDiscarded
    BY DEF BridgeInv, CallsInv, CallState, LateResultDiscarded
  <1> QED
    BY <1>1, BridgeInvariant, PTL

\* RpcClientPool.close() closes no client whose known call it has not canceled, unless the
\* cancel() of that very call raised.
THEOREM KnownCallsCanceledHolds == Spec => []KnownCallsCanceled
  <1>1. BridgeInv => KnownCallsCanceled
    BY DEF BridgeInv, TypeInv, CloseInv, KnownCallsCanceled
  <1> QED
    BY <1>1, BridgeInvariant, PTL

-----------------------------------------------------------------------------
(***************************************************************************)
(* The node implements ServiceRelay.                                       *)
(***************************************************************************)
\* What is taken for a result is one: an outcome only comes from the RPC future.
ResultsOfRpc ==
    \A k \in Calls : completion[k] = "result" \/ answer[k] = "response" => rpc[k] = "result"

LEMMA ResultStep ==
    ASSUME TypeInv, CallsInv, ResultsOfRpc, [Next]_vars
    PROVE  ResultsOfRpc'
  <1>1. ASSUME NEW k \in Calls,
               \A j \in Calls \ {k} : rpc'[j] = rpc[j] /\ completion'[j] = completion[j]
                                      /\ answer'[j] = answer[j],
               completion'[k] = "result" \/ answer'[k] = "response" => rpc'[k] = "result"
        PROVE  ResultsOfRpc'
    BY <1>1 DEF ResultsOfRpc
  <1>2. ASSUME UNCHANGED <<rpc, completion, answer>> PROVE ResultsOfRpc'
    BY <1>2 DEF ResultsOfRpc
  <1>3. \A k \in Calls : CallState(k)
    BY DEF CallsInv
  <1> USE DEF TypeInv, callVars, lifeVars, poolVars, closeVars, rpcVars
  <1>4. ASSUME NEW k \in Calls, Busy(k) \/ CallFails(k) PROVE ResultsOfRpc'
    BY <1>1, <1>4 DEF Busy, CallFails, ResultsOfRpc
  <1>5. ASSUME NEW k \in Calls, CallAsync(k) PROVE ResultsOfRpc'
    <2>1. rpc[k] = "none"
      BY <1>3, <1>5 DEF CallAsync, CallState
    <2>2. completion[k] # "result" /\ answer[k] # "response"
      BY <2>1 DEF ResultsOfRpc
    <2> QED
      BY <1>1, <1>5, <2>2 DEF CallAsync
  <1>6. ASSUME NEW k \in Calls, Resume(k) PROVE ResultsOfRpc'
    <2>1. answer'[k] = "response" => completion[k] = "result"
      BY <1>6 DEF Resume, Ended
    <2> QED
      BY <1>1, <1>6, <2>1 DEF Resume, ResultsOfRpc
  <1>7. ASSUME NEW k \in Calls, Report(k) PROVE ResultsOfRpc'
    <2>1. completion'[k] = "result" => rpc[k] = "result"
      BY <1>7 DEF Report, Outcome
    <2> QED
      BY <1>1, <1>7, <2>1 DEF Report, ResultsOfRpc
  <1>8. ASSUME NEW k \in Calls, RpcEnds(k) PROVE ResultsOfRpc'
    <2>1. completion[k] # "result" /\ answer[k] # "response"
      BY <1>8 DEF RpcEnds, ResultsOfRpc
    <2> QED
      BY <1>1, <1>8, <2>1 DEF RpcEnds
  <1>9. ASSUME NEW k \in Calls,
               \/ RosCalls(k) \/ Acquire(k) \/ SetFuture(k) \/ Watch(k) \/ Arm(k) \/ Release(k)
               \/ SpinRaises(k) \/ Timer(k) \/ Complete(k)
        PROVE  ResultsOfRpc'
    BY <1>2, <1>9 DEF RosCalls, Acquire, SetFuture, Watch, Arm, Release, SpinRaises, Timer, Expire,
                      ExpireCancel, CancelExpired, Complete
  <1>10. ASSUME Closing \/ UNCHANGED vars PROVE ResultsOfRpc'
    BY <1>2, <1>10 DEF Closing, CloseServices, CloseMark, CloseCancel, CloseWait, CloseClient, vars
  <1> QED
    BY <1>4, <1>5, <1>6, <1>7, <1>8, <1>9, <1>10 DEF Next, Callback, RpcWorker

\* A timer that runs belongs to a call that was made.
TimersOfCalls ==
    /\ timer \in [Calls -> {"none", "armed", "cancelling", "off"}]
    /\ \A k \in Calls : timer[k] = "armed" => pc[k] # "none"

LEMMA TimerStep ==
    ASSUME TypeInv, TimersOfCalls, [Next]_vars
    PROVE  TimersOfCalls'
  <1> USE DEF TypeInv, TimersOfCalls, callVars, lifeVars, poolVars, closeVars, rpcVars
  <1>1. ASSUME NEW k \in Calls, RosCalls(k) \/ Callback(k)
        PROVE  \A j \in Calls : pc[j] # "none" => pc'[j] # "none"
    BY <1>1 DEF RosCalls, Callback, Acquire, Busy, CallAsync, SetFuture, Watch, Arm, CallFails,
                Resume, Release, SpinRaises
  <1>2. ASSUME NEW k \in Calls, Arm(k) PROVE TimersOfCalls'
    BY <1>2 DEF Arm
  <1>3. ASSUME NEW k \in Calls, RosCalls(k) \/ Callback(k), ~Arm(k) PROVE TimersOfCalls'
    <2>1. timer' = timer
      BY <1>3 DEF RosCalls, Callback, Acquire, Busy, CallAsync, SetFuture, Watch, CallFails, Resume,
                  Release, SpinRaises
    <2> QED
      BY <1>1, <1>3, <2>1
  <1>4. ASSUME NEW k \in Calls, Timer(k) \/ RpcWorker(k) \/ RpcEnds(k) PROVE TimersOfCalls'
    <2>1. UNCHANGED pc /\ (timer' = timer \/ timer' = [timer EXCEPT ![k] = "cancelling"]
                                          \/ timer' = [timer EXCEPT ![k] = "off"])
      <3>1. CASE Expire(k)
        BY <3>1 DEF Expire
      <3>2. CASE Report(k)
        BY <3>2 DEF Report
      <3>3. CASE ExpireCancel(k) \/ Complete(k) \/ RpcEnds(k)
        BY <3>3 DEF ExpireCancel, Complete, RpcEnds
      <3> QED
        BY <1>4, <3>1, <3>2, <3>3 DEF Timer, RpcWorker
    <2> QED
      BY <2>1
  <1>5. ASSUME Closing \/ UNCHANGED vars PROVE TimersOfCalls'
    BY <1>5 DEF Closing, CloseServices, CloseMark, CloseCancel, CloseWait, CloseClient, vars
  <1> QED
    BY <1>2, <1>3, <1>4, <1>5 DEF Next

\* A call that only one step concerns.
LEMMA OnlyOne ==
    ASSUME NEW k \in Calls, \A j \in Calls \ {k} : pc'[j] = pc[j] /\ answer'[j] = answer[j]
    PROVE  \A j \in Calls \ {k} : Answers'[j] = Answers[j] /\ (j \in Asked' <=> j \in Asked)
  BY DEF Answers, Over, Asked

\* A step that the ROS clients and RPC do not see.
LEMMA Unseen ==
    ASSUME Asked' = Asked, rpc' = rpc, \A k \in Calls : Answers'[k] = Answers[k],
           GivenUp' = GivenUp, (faults' > 0) \in {faults > 0, TRUE}
    PROVE  Relay!Next
  <1>1. Answers' = [k \in Calls |-> Answers[k]]
    BY DEF Answers
  <1>2. Relay!Refuse({}, {})
    BY <1>1 DEF Relay!Refuse
  <1> QED
    BY <1>2 DEF Relay!Next

\* A step that sends one answer.
LEMMA AnswerSent ==
    ASSUME NEW k \in Calls, \A j \in Calls \ {k} : Answers'[j] = Answers[j], Asked' = Asked, rpc' = rpc,
           GivenUp' = GivenUp, (faults' > 0) \in {faults > 0, TRUE}, k \in Asked, Answers[k] = <<>>,
           \/ Answers'[k] = <<"refusal">>
           \/ Answers'[k] = <<"response">> /\ rpc[k] = "result" /\ k \notin GivenUp
    PROVE  Relay!Next
  <1>1. DOMAIN Answers = Calls /\ DOMAIN Answers' = Calls
    BY DEF Answers
  <1>2. Answers = [j \in Calls |-> Answers[j]] /\ Answers' = [j \in Calls |-> Answers'[j]]
    BY DEF Answers
  <1>3. Relay!MayAnswer(k)
    BY DEF Relay!MayAnswer
  <1>4. CASE Answers'[k] = <<"refusal">>
    <2>1. Answers' = [j \in Calls |-> IF j \in {k} THEN Append(Answers[j], "refusal") ELSE Answers[j]]
      <3>1. Append(Answers[k], "refusal") = <<"refusal">>
        OBVIOUS
      <3> QED
        BY <1>2, <1>4, <3>1, Zenon
    <2>2. Relay!Refuse({k}, {})
      BY <1>3, <2>1 DEF Relay!Refuse
    <2> QED
      BY <2>2 DEF Relay!Next
  <1>5. CASE Answers'[k] = <<"response">> /\ rpc[k] = "result" /\ k \notin GivenUp
    <2>1. Append(Answers[k], "response") = <<"response">>
      OBVIOUS
    <2>2. Answers' = [Answers EXCEPT ![k] = Append(@, "response")]
      BY <1>1, <1>2, <1>5, <2>1
    <2>3. Relay!Respond(k)
      BY <1>3, <1>5, <2>2 DEF Relay!Respond
    <2> QED
      BY <2>3 DEF Relay!Next
  <1> QED
    BY <1>4, <1>5

\* Every step is a step of the relay.
LEMMA RelayStep ==
    ASSUME BridgeInv, ResultsOfRpc, TimersOfCalls, [Next]_vars
    PROVE  [Relay!Next]_(Relay!vars)
  <1>0. /\ TypeInv /\ \A k \in Calls : CallState(k)
        /\ (faults' > 0) \in {faults > 0, TRUE}
    BY FaultsCounted DEF BridgeInv, CallsInv
  <1> USE DEF callVars, lifeVars, poolVars, closeVars, rpcVars
  <1>1. ASSUME UNCHANGED <<pc, answer, expired, rpc>> PROVE Relay!Next
    <2>1. Asked' = Asked /\ GivenUp' = GivenUp /\ Answers' = Answers
      BY <1>1 DEF Asked, GivenUp, Answers, Over
    <2> QED
      BY <1>0, <1>1, <2>1, Unseen
  <1>2. ASSUME NEW k \in Calls, NEW p \in Places, pc' = [pc EXCEPT ![k] = p],
               pc[k] # "none", p # "none", \A j \in Calls \ {k} : answer'[j] = answer[j],
               UNCHANGED expired
        PROVE  /\ Asked' = Asked /\ GivenUp' = GivenUp /\ k \in Asked
               /\ \A j \in Calls \ {k} : Answers'[j] = Answers[j]
    <2>1. \A j \in Calls \ {k} : pc'[j] = pc[j]
      BY <1>0, <1>2 DEF TypeInv
    <2>2. pc'[k] = p
      BY <1>0, <1>2 DEF TypeInv
    <2>3. \A j \in Calls : pc'[j] # "none" <=> pc[j] # "none"
      BY <1>2, <2>1, <2>2
    <2> QED
      BY <1>2, <2>1, <2>3, OnlyOne DEF Asked, GivenUp
  <1>3. ASSUME NEW k \in Calls, NEW p \in Places \ {"raised", "failed", "done"},
               pc' = [pc EXCEPT ![k] = p], pc[k] \notin {"none", "raised", "failed", "done"}, p # "none",
               \A j \in Calls \ {k} : answer'[j] = answer[j], UNCHANGED <<expired, rpc>>
        PROVE  Relay!Next
    <2>1. Answers'[k] = Answers[k]
      BY <1>0, <1>3 DEF Answers, Over, TypeInv
    <2>2. /\ Asked' = Asked /\ GivenUp' = GivenUp
          /\ \A j \in Calls \ {k} : Answers'[j] = Answers[j]
      BY <1>2, <1>3
    <2> QED
      BY <1>0, <1>3, <2>1, <2>2, Unseen
  <1>4. ASSUME NEW k \in Calls, RosCalls(k) PROVE Relay!Next
    <2>1. k \notin Asked /\ Asked' = Asked \cup {k} /\ GivenUp' = GivenUp
      BY <1>0, <1>4 DEF RosCalls, Asked, GivenUp, TypeInv
    <2>2. Answers' = Answers
      BY <1>0, <1>4 DEF RosCalls, Answers, Over, TypeInv
    <2>3. Relay!Ask(k)
      BY <1>4, <2>1, <2>2 DEF RosCalls, Relay!Ask
    <2> QED
      BY <1>0, <2>3 DEF Relay!Next
  <1>5. ASSUME NEW k \in Calls, CallAsync(k) PROVE Relay!Next
    <2>1. /\ Asked' = Asked /\ GivenUp' = GivenUp /\ k \in Asked
          /\ \A j \in Calls \ {k} : Answers'[j] = Answers[j]
      BY <1>2, <1>5 DEF CallAsync, Places, Holding
    <2>2. Answers[k] = <<>> /\ Answers'[k] = <<>>
      BY <1>0, <1>5 DEF CallAsync, Answers, Over, TypeInv
    <2>3. Answers' = Answers
      BY <2>1, <2>2 DEF Answers
    <2>4. rpc[k] = "none" /\ rpc' = [rpc EXCEPT ![k] = "active"]
      BY <1>0, <1>5 DEF CallAsync, CallState
    <2>5. Relay!PassOn(k)
      BY <2>1, <2>2, <2>3, <2>4 DEF Relay!PassOn
    <2> QED
      BY <1>0, <2>5 DEF Relay!Next
  <1>6. ASSUME NEW k \in Calls,
               Acquire(k) \/ SetFuture(k) \/ Watch(k) \/ Arm(k) \/ CallFails(k) \/ Resume(k)
        PROVE  Relay!Next
    <2>1. \E p \in {"leased", "watch", "arm", "awaiting", "releasing"} : pc' = [pc EXCEPT ![k] = p]
      BY <1>6 DEF Acquire, SetFuture, Watch, Arm, CallFails, Resume
    <2>2. /\ pc[k] \in {"requested"} \cup Holding
          /\ \A j \in Calls \ {k} : answer'[j] = answer[j]
          /\ UNCHANGED <<expired, rpc>>
      BY <1>0, <1>6 DEF Acquire, SetFuture, Watch, Arm, CallFails, Resume, Holding, TypeInv
    <2> QED
      BY <1>3, <2>1, <2>2 DEF Places, Holding
  <1>7. ASSUME NEW k \in Calls, Busy(k) \/ Release(k) PROVE Relay!Next
    <2>1. PICK p \in {"raised", "failed", "done"} :
              pc' = [pc EXCEPT ![k] = p] /\ (p = "raised" <=> answer'[k] # "response")
      BY <1>0, <1>7 DEF Busy, Release, TypeInv
    <2>2. /\ pc[k] \in {"requested", "releasing"} /\ \A j \in Calls \ {k} : answer'[j] = answer[j]
          /\ answer'[k] = "response" => answer[k] = "response"
          /\ UNCHANGED <<expired, rpc>>
      BY <1>0, <1>7 DEF Busy, Release, TypeInv
    <2>3. /\ Asked' = Asked /\ GivenUp' = GivenUp /\ k \in Asked
          /\ \A j \in Calls \ {k} : Answers'[j] = Answers[j]
      BY <1>2, <2>1, <2>2 DEF Places
    <2>4. Answers[k] = <<>>
      BY <2>2 DEF Answers, Over
    <2>5. Answers'[k] = IF answer'[k] = "response" THEN <<"response">> ELSE <<"refusal">>
      BY <1>0, <2>1 DEF Answers, Over, TypeInv
    <2>6. answer'[k] = "response" => rpc[k] = "result" /\ k \notin GivenUp
      BY <1>0, <2>2 DEF ResultsOfRpc, CallState, GivenUp
    <2> QED
      BY <1>0, <2>2, <2>3, <2>4, <2>5, <2>6, AnswerSent
  <1>8. ASSUME NEW k \in Calls, SpinRaises(k) PROVE Relay!Next
    <2>1. /\ Asked' = Asked /\ GivenUp' = GivenUp
          /\ \A j \in Calls \ {k} : Answers'[j] = Answers[j]
      BY <1>2, <1>8 DEF SpinRaises, Places
    <2>2. Answers'[k] = Answers[k]
      BY <1>0, <1>8 DEF SpinRaises, Answers, Over, TypeInv
    <2> QED
      BY <1>0, <1>8, <2>1, <2>2, Unseen DEF SpinRaises
  <1>9. ASSUME NEW k \in Calls, Expire(k) PROVE Relay!Next
    <2>1. Asked' = Asked /\ Answers' = Answers /\ rpc' = rpc
      BY <1>9 DEF Expire, Asked, Answers, Over
    <2>2. CASE completed[k]
      <3>1. GivenUp' = GivenUp
        BY <1>0, <1>9, <2>2 DEF Expire, MayExpire, GivenUp, TypeInv
      <3> QED
        BY <1>0, <2>1, <3>1, Unseen
    <2>3. CASE ~completed[k]
      <3>1. GivenUp' = GivenUp \cup {k}
        BY <1>0, <1>9, <2>3 DEF Expire, MayExpire, GivenUp, TypeInv
      <3>2. answer[k] # "response"
        BY <1>0, <2>3 DEF CallState
      <3>3. ~Relay!Responded(k)
        BY <3>2 DEF Relay!Responded, Answers
      <3>4. Answers' = [j \in Calls |-> IF j \in {} THEN Append(Answers[j], "refusal") ELSE Answers[j]]
        BY <2>1 DEF Answers
      <3>5. Relay!Refuse({}, {k})
        BY <2>1, <3>1, <3>3, <3>4 DEF Relay!Refuse
      <3>6. k \in Asked
        BY <1>9 DEF Expire, TimersOfCalls, Asked
      <3> QED
        BY <1>0, <3>5, <3>6 DEF Relay!Next
    <2> QED
      BY <2>2, <2>3
  <1>10. ASSUME NEW k \in Calls, ExpireCancel(k) \/ RpcWorker(k) PROVE Relay!Next
    BY <1>1, <1>10 DEF ExpireCancel, CancelExpired, RpcWorker, Complete, Report
  <1>11. ASSUME NEW k \in Calls, RpcEnds(k) PROVE Relay!Next
    <2>1. Asked' = Asked /\ GivenUp' = GivenUp /\ Answers' = Answers
      BY <1>11 DEF RpcEnds, Asked, GivenUp, Answers, Over
    <2>2. PICK s \in {"result", "error"} : rpc' = [rpc EXCEPT ![k] = s]
      BY <1>11 DEF RpcEnds, Ended
    <2>3. rpc[k] = "active" /\ rpc' = [j \in Calls |-> IF j \in {k} THEN s ELSE rpc[j]]
      BY <1>0, <1>11, <2>2 DEF RpcEnds, TypeInv
    <2>4. Relay!CallsEnd({k}, s)
      BY <2>1, <2>3 DEF Relay!CallsEnd
    <2>5. k \in Asked
      BY <1>0, <2>3 DEF CallState, Asked
    <2> QED
      BY <1>0, <2>4, <2>5 DEF Relay!Next
  <1>12. ASSUME Closing PROVE Relay!Next
    BY <1>1, <1>12 DEF Closing, CloseServices, CloseMark, CloseCancel, CloseWait, CloseClient
  <1>13. ASSUME UNCHANGED vars PROVE Relay!Next
    BY <1>1, <1>13 DEF vars
  <1> QED
    BY <1>4, <1>5, <1>6, <1>7, <1>8, <1>9, <1>10, <1>11, <1>12, <1>13 DEF Next, Callback, Timer

\* The node implements the relay of a call: however the callbacks, the timers, the RPC workers
\* and the shutdown interleave, a ROS call is made by one RPC call and answered once, by the result
\* of that call only if its deadline has not come first.
THEOREM CallRefined == Spec => CallSpec
  <1>1. Init => Relay!Init /\ ResultsOfRpc /\ TimersOfCalls
    <2> SUFFICES ASSUME Init PROVE Relay!Init /\ ResultsOfRpc /\ TimersOfCalls
      OBVIOUS
    <2>1. Asked = {} /\ GivenUp = {} /\ Answers = [k \in Calls |-> <<>>]
      BY DEF Init, Asked, GivenUp, Answers, Over
    <2> QED
      BY <2>1 DEF Init, Relay!Init, ResultsOfRpc, TimersOfCalls
  <1>2. BridgeInv /\ ResultsOfRpc /\ TimersOfCalls /\ [Next]_vars
        => ResultsOfRpc' /\ TimersOfCalls' /\ [Relay!Next]_(Relay!vars)
    BY ResultStep, TimerStep, RelayStep DEF BridgeInv
  <1> QED
    BY <1>1, <1>2, BridgeInvariant, PTL DEF Spec, CallSpec, Relay!Spec
=============================================================================
