----------------------------- MODULE MCMigrator -----------------------------
(***************************************************************************)
(* Small instances of Migrator: interchangeable operators, two processes   *)
(* that may run different releases.                                        *)
(***************************************************************************)
EXTENDS Migrator, TLC

CONSTANTS p1, p2, o1, o2

\* Processes differ only in the release Init gives them, so renaming them maps
\* behaviours to behaviours.
ProcSymmetry == Permutations(Procs) \cup Permutations(Operators)

\* For the same reason it is enough to give p1 the code that is not newer.  (With
\* liveness properties TLC does not reduce by symmetry.)
OlderFirst == Init /\ code[p1] <= code[p2]
LeaseSpec == OlderFirst /\ [][Next]_vars /\ Fairness

Plain      == {{}}
NoModes    == {}
SomeOptions == {{}, {"maintenance"}, {"targeted"}}
Checked1   == {"checked"}
=============================================================================
