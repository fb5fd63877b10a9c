----------------------------- MODULE MCScheduler -----------------------------
(* Small instances of Scheduler. *)
EXTENDS Scheduler

CONSTANTS f1, f2, d1, t1

NoIo      == {}
Forever   == {NoTimeout}
OneOrNone == {1, NoTimeout}
\* A mask that poll may answer in part, and one that build_interest rejects.
SomeMasks == {{"readable", "writable"}, {"priority"}}
=============================================================================
