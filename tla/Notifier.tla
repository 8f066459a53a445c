------------------------------ MODULE Notifier ------------------------------
(***************************************************************************)
(* What the debouncer promises for one path: a change that is reported to  *)
(* it is owed to the client until a notification, which reads the file     *)
(* then, is sent or the path is no longer watched; what is owed is paid.   *)
(* FsWatcher's "due" set is this promise, path by path.                    *)
(***************************************************************************)
VARIABLE owed

Init == owed = FALSE

Change  == owed' = TRUE
Notify  == owed /\ owed' = FALSE
Unwatch == owed' = FALSE

Next == Change \/ Notify \/ Unwatch

Spec == Init /\ [][Next]_owed /\ WF_owed(Notify)
=============================================================================
