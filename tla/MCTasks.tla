------------------------------ MODULE MCTasks ------------------------------
(* Instances of Tasks for TLC. *)
EXTENDS Tasks, TLC

\* Registration or enrollment, bulk enrollment, and an avatar.
EveryKind == {<<"mail">>, <<"unsendable">>, <<"unsendable", "unsendable">>,
              <<"mail", "mail">>, <<"sync">>}

OneMail == {<<"mail">>}

Interchangeable == Permutations(Requests) \cup Permutations(Admins)
=============================================================================
