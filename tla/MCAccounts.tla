----------------------------- MODULE MCAccounts -----------------------------
(* Instances of Accounts for TLC. *)
EXTENDS Accounts, TLC

Row(id, e, n) == [id |-> id, email |-> e, name |-> n, active |-> TRUE, hash |-> "p1"]

Two == {Row(1, "e1", "n1"), Row(2, "e2", "n2")}

Interchangeable == Permutations(Requests)
=============================================================================
