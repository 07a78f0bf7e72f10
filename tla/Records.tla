------------------------------ MODULE Records ------------------------------
(* What the store keeps beside the configuration: the default arguments of    *)
(* tools and the records of finished calls.  The two share the database and   *)
(* no row of it.                                                              *)
EXTENDS ToolDefaults, UsageStore

RecSpec ==
    /\ DefInit /\ UsInit
    /\ [][(DefNext /\ UNCHANGED usVars) \/ (UsNext /\ UNCHANGED defVars)]_<<defVars, usVars>>

(* What the gateway remembers is true of the calls it saw: the defaults that  *)
(* were captured and the records of finished calls (admin/defaults.rs,        *)
(* store/sqlite.rs, sqlite_aggregation.rs, retention.rs).                     *)
RowsTrue ==
    /\ CapturedTaken
    /\ QueryInOrder /\ SeriesExact /\ EachCountedOnce /\ RecordsAgree /\ RetentionExact
=============================================================================
