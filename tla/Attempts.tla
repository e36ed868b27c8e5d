------------------------------ MODULE Attempts ------------------------------
(***************************************************************************)
(* What the processes that analyze one artifact promise those who read     *)
(* their results, without claims, rows and transactions: an analysis is    *)
(* attempted under an id of its own; an attempt that succeeds publishes    *)
(* its result, in one step and only then, as the latest of its subject; no *)
(* attempt ends twice.  With ExclusiveSpec, nobody moreover begins what    *)
(* somebody is busy with.                                                  *)
(***************************************************************************)
CONSTANTS
    Ids,        \* of attempts
    Subjects,   \* what is analyzed
    Lasting,    \* those of the subjects whose latest result is kept
    NoAttempt

VARIABLES
    used,       \* ids of the attempts that have begun
    open,       \* the attempts that are being made
    outcome,    \* outcome[a]: how a ended
    result      \* result[s]: the attempt that published the latest result

vars == <<used, open, outcome, result>>

Init ==
    /\ used = {}
    /\ open = {}
    /\ outcome = [a \in Ids |-> "none"]
    /\ result = [s \in Lasting |-> NoAttempt]

Open(a, s) ==
    /\ a \notin used
    /\ used' = used \cup {a}
    /\ open' = open \cup {[attempt |-> a, subject |-> s]}
    /\ UNCHANGED <<outcome, result>>

Close(o) == open' = open \ {o} /\ UNCHANGED used

Publish(o) ==
    /\ Close(o)
    /\ outcome' = [outcome EXCEPT ![o.attempt] = "success"]
    /\ result' = [s \in Lasting |-> IF s = o.subject THEN o.attempt ELSE result[s]]

Fail(o) ==
    /\ Close(o)
    /\ outcome' = [outcome EXCEPT ![o.attempt] = "failed"]
    /\ UNCHANGED result

\* Whoever made the attempt is gone.
Abandon(o) == Close(o) /\ UNCHANGED <<outcome, result>>

End == \E o \in open : Publish(o) \/ Fail(o) \/ Abandon(o)

Next == End \/ \E a \in Ids, s \in Subjects : Open(a, s)

Spec == Init /\ [][Next]_vars

\* Nobody is busy with s.
Vacant(s) == \A o \in open : o.subject # s

ExclusiveNext ==
    End \/ \E a \in Ids, s \in Subjects : Vacant(s) /\ Open(a, s)

ExclusiveSpec == Init /\ [][ExclusiveNext]_vars
=============================================================================
