------------------------------ MODULE MCPublisher ------------------------------
(***************************************************************************)
(* Values for model-checking GeneratedDataPublisher: one generated file     *)
(* that must stay tracked, one more file inside the allowlist, and one      *)
(* outside it.                                                              *)
(***************************************************************************)
EXTENDS GeneratedDataPublisher, TLC

CONSTANTS r1, r2, r3, r4, n1, n2, index, detail, source, old, new

MCAllowed == {index, detail}
MCRequired == {index}

Plain == [p \in Paths |-> IF p = detail THEN Absent ELSE old]
Refreshed == [Plain EXCEPT ![index] = new]
Extended == [Plain EXCEPT ![index] = new, ![detail] = new]
Dropped == [Plain EXCEPT ![index] = Absent]
Linked == [Plain EXCEPT ![detail] = Link]
Strayed == [Plain EXCEPT ![source] = new]
Unrelated == [Plain EXCEPT ![source] = new]

PlainBase == {Plain}
MovingBase == {Plain, Unrelated}
RefreshedOnly == {Refreshed}
CandidateOrNone == {Refreshed, Plain}
SomeWorktree == {Refreshed, Extended, Plain, Linked, Dropped, Strayed}
NoSeed == {}
ExtendedSeed == {Extended}
RefreshedSeed == {Refreshed}

RunAndNumberSymmetry == Permutations(Runs) \cup Permutations(PRNums)
=============================================================================
