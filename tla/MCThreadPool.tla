---------------------------- MODULE MCThreadPool ----------------------------
(* Two workers and two submitters, three tasks of which one has a future. *)
EXTENDS ThreadPool
=============================================================================
