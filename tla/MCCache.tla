------------------------------ MODULE MCCache ------------------------------
(* Instances of Cache for TLC. *)
EXTENDS Cache, TLC

\* One row of each table, but no profile.
OneOfEach == {c \in Cells : c[2] = 1 /\ c[1] # "profiles"}

Interchangeable == Permutations(Requests)
=============================================================================
