----------------------------- MODULE MCOrderFlow -----------------------------
(* Small instances of OrderFlow: which mishaps meet in one behaviour. *)
EXTENDS OrderFlow, TLC
CONSTANTS s1, s2, j1

None == [k \in Kinds |-> 0]
\* What the orchestrator's retries leave behind, what is repeated, what comes
\* too early or is lost, and what comes too late.
SafetyBudgets ==
    {[None EXCEPT !["outage"] = 2],
     [None EXCEPT !["crash"] = 1, !["redeliver"] = 1],
     [None EXCEPT !["redeliver"] = 2],
     [None EXCEPT !["slow"] = 1],
     [None EXCEPT !["late"] = 1, !["http"] = 1],
     [None EXCEPT !["drop"] = 1, !["refund"] = 1]}
ProgressBudgets == {[None EXCEPT !["drop"] = 2, !["late"] = 1]}

\* One mishap at a time.
LateBudgets == {[None EXCEPT !["late"] = 1]}
OutageBudgets == {[None EXCEPT !["outage"] = 2]}

Symmetry == Permutations(Sagas)
=============================================================================
