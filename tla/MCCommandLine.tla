---------------------------- MODULE MCCommandLine ----------------------------
(* Instances of CommandLine for TLC. *)
EXTENDS CommandLine, TLC

CONSTANTS r1, r2

\* Two source files, the second with all that is in the first.
MCInputs == {{r1}, {r1, r2}}
\* The memory of the first does not verify until the second record is there.
MCUnverifiable == {{r1}}

Symmetry == Permutations(Process)
=============================================================================
