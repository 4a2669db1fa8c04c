------------------------------- MODULE Calls -------------------------------
(***************************************************************************)
(* What the embedded Python application promises: a number of calls, each  *)
(* of which yields a value or nothing, and an exit code that says whether  *)
(* all of them yielded a value, given when the last of them is over and    *)
(* Python is finalized.  An application that cannot start, or that dies of *)
(* an uncaught exception, never reports success.                           *)
(***************************************************************************)
EXTENDS Integers

CONSTANT NumCalls

VARIABLES
    result,     \* [1 .. NumCalls -> what the call returned]
    exit        \* how the process ended

vars == <<result, exit>>

Init ==
    /\ result = [w \in 1 .. NumCalls |-> "pending"]
    /\ exit = "running"

\* One call returns, or leaves with an exception.
Return(w) ==
    /\ exit = "running"
    /\ result[w] = "pending"
    /\ \E r \in {"ok", "none", "thrown"} : result' = [result EXCEPT ![w] = r]
    /\ UNCHANGED exit

Results == {result[w] : w \in 1 .. NumCalls}

Exit ==
    /\ exit = "running"
    /\ \/ exit' = "0" /\ Results = {"ok"}
       \/ exit' = "-1" /\ Results \subseteq {"ok", "none"} /\ "none" \in Results
       \/ exit' = "-1" /\ Results = {"pending"}
       \/ exit' = "aborted"
    /\ UNCHANGED result

Next == (\E w \in 1 .. NumCalls : Return(w)) \/ Exit

Spec == Init /\ [][Next]_vars
=============================================================================
