---------------------------- MODULE MCEnrollment ----------------------------
(* Values for the constants of Enrollment, small enough for TLC.            *)
EXTENDS Enrollment, TLC

SeatOf(id, u, c) == [id |-> id, user |-> u, course |-> c]

NoSeats   == {}
OneSeat   == {SeatOf(1, 1, 1)}
TwoSeats  == {SeatOf(1, 1, 1), SeatOf(2, 2, 1)}
SomeSeats == {SeatOf(1, 1, 1), SeatOf(2, 2, 1), SeatOf(3, 1, 2)}

Interchangeable == Permutations(Requests)
=============================================================================
