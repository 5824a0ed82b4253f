---------------------------- MODULE MCAlertsFile ----------------------------
(* AlertsFile on three disks. *)
EXTENDS AlertsFile

\* A rotation that fails early or leaves copies behind; writes that tear and
\* chunks that stay; without gzip, a rotation that fails late.
MCScenarios == {
    [gzip |-> TRUE, faulty |-> {"rename", "gzip", "unlink", "crash"}],
    [gzip |-> TRUE, faulty |-> {"flush", "rename", "gzip", "unlink", "remove", "crash"}],
    [gzip |-> FALSE, faulty |-> {"prune", "open", "crash"}]}
=============================================================================
