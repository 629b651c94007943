----------------------------- MODULE MCCatalog -----------------------------
(* Values for the constants of Catalog. *)
EXTENDS Catalog, TLC

\* Two categories with a course each, a lesson, an enrollment and an instructor, who
\* teaches the second course.
Start == [categories  |-> <<[name |-> 0], [name |-> 1]>>,
          courses     |-> <<NewCourse(1), [NewCourse(2) EXCEPT !.instructor_id = 1]>>,
          lessons     |-> <<[title |-> 0, course_id |-> 1]>>,
          enrollments |-> <<[progress |-> 0, completed |-> 0, course_id |-> 1]>>,
          instructors |-> <<[bio |-> Null]>>]

\* The same without the second course and with the first in no category.
Sparse == [Start EXCEPT !.courses = <<NewCourse(Null)>>]

OneOrOther == {Start, Sparse}

Interchangeable == Permutations(Requests)
=============================================================================
