-------------------------- MODULE MCOrchestrator --------------------------
(***************************************************************************)
(* The orchestrator on small instances: two runs, two workers, one or two  *)
(* threads that serve calls, at most one chat.                             *)
(***************************************************************************)
EXTENDS Orchestrator, TLC

MCDims == {"sandboxes", "memory_mb"}

\* Room for one run of the usual size: two workers compete for it.
OneLease == [sandboxes |-> 1, memory_mb |-> 3]

MCNeed == [sandboxes |-> 1, memory_mb |-> 2]

Usual == {MCNeed}

\* Settings may also ask for more than there is: such a run never fits.
Settings == {MCNeed, [MCNeed EXCEPT !["memory_mb"] = 4]}

Symmetry == Permutations(Runs) \cup Permutations(Workers) \cup Permutations(Clients)
===========================================================================
