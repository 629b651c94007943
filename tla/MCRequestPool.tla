--------------------------- MODULE MCRequestPool ---------------------------
(* Values for the constants of RequestPool. *)
EXTENDS RequestPool

\* A change, an enrollment with tasks that fail for good, and an upload by a user whom
\* the request has authenticated first.
Mixed == {"update_course", "concurrent_enroll", "upload_avatar"}
=============================================================================
