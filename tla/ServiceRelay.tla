---------------------------- MODULE ServiceRelay ----------------------------
(***************************************************************************)
(* What a Service bridge promises, in either direction and without its     *)
(* threads, pools and dictionaries: a call is passed on to the other side  *)
(* at most once, before it is answered; its response is the result of that *)
(* call and nothing else; and it is answered once.  A bridge gives up      *)
(* calls, when their time is over, when they are canceled or when it is    *)
(* closed, and what it gave up gets no response any more.  Only when an    *)
(* exception has been raised may another answer follow a refusal, as long  *)
(* as the call has not been given up.                                      *)
(***************************************************************************)
EXTENDS Sequences

CONSTANT Calls

VARIABLES
    asked,      \* the calls that were asked for
    call,       \* what became of them on the other side
    answers,    \* what the one who asked has been sent
    givenUp,    \* the calls that get no response
    disturbed   \* whether something has raised

vars == <<asked, call, answers, givenUp, disturbed>>

Init ==
    /\ asked = {}
    /\ call = [k \in Calls |-> "none"]
    /\ answers = [k \in Calls |-> <<>>]
    /\ givenUp = {}
    /\ disturbed = FALSE

Responded(k) == \E i \in DOMAIN answers[k] : answers[k][i] = "response"

MayAnswer(k) ==
    answers[k] = <<>> \/ (disturbed /\ ~Responded(k) /\ k \notin givenUp)

Ask(k) ==
    /\ k \notin asked
    /\ asked' = asked \cup {k}
    /\ UNCHANGED <<call, answers, givenUp>>

PassOn(k) ==
    /\ k \in asked /\ call[k] = "none" /\ answers[k] = <<>>
    /\ call' = [call EXCEPT ![k] = "active"]
    /\ UNCHANGED <<asked, answers, givenUp>>

\* the other side ends calls of its own accord, or because they were canceled
CallsEnd(K, outcome) ==
    /\ \A k \in K : call[k] = "active"
    /\ call' = [k \in Calls |-> IF k \in K THEN outcome ELSE call[k]]
    /\ UNCHANGED <<asked, answers, givenUp>>

Respond(k) ==
    /\ call[k] = "result" /\ k \notin givenUp /\ MayAnswer(k)
    /\ answers' = [answers EXCEPT ![k] = Append(@, "response")]
    /\ UNCHANGED <<asked, call, givenUp>>

\* some calls are refused and some, the same or others, are given up
Refuse(K, G) ==
    /\ \A k \in K : MayAnswer(k)
    /\ \A k \in G : ~Responded(k)
    /\ answers' = [k \in Calls |-> IF k \in K THEN Append(answers[k], "refusal") ELSE answers[k]]
    /\ givenUp' = givenUp \cup G
    /\ UNCHANGED <<asked, call>>

Next ==
    /\ \/ \E k \in Calls : Ask(k) \/ PassOn(k) \/ Respond(k)
       \/ \E K \in SUBSET asked, outcome \in {"result", "error"} : CallsEnd(K, outcome)
       \/ \E K, G \in SUBSET asked : Refuse(K, G)
    /\ disturbed' \in {disturbed, TRUE}

Spec == Init /\ [][Next]_vars
=============================================================================
