------------------------------ MODULE RunStore ------------------------------
(***************************************************************************)
(* What a run writer promises the readers of one output path: at any time  *)
(* the path shows nothing usable or exactly one whole run, a run is shown  *)
(* at most once, and an old run is withdrawn before the next one appears   *)
(* (a directory writer removes, then renames) or is exchanged for it in    *)
(* one step (the benchmark renames a file over a file).                    *)
(***************************************************************************)

CONSTANTS
  Runs,       \* every run a writer may publish at this path
  Prior,      \* the run that was there before, if any
  Nothing     \* the path shows no whole run

VARIABLES
  visible,    \* what a reader of the path finds
  shown       \* the runs that have been shown so far

storeVars == <<visible, shown>>

StoreInit ==
  /\ visible \in {Nothing, Prior}
  /\ shown = {visible} \ {Nothing}

\* A run becomes visible, whole, where no run was.
Publish(r) ==
  /\ visible = Nothing
  /\ r \notin shown
  /\ visible' = r
  /\ shown' = shown \union {r}

\* A writer that replaces the run has begun to remove it.
Withdraw ==
  /\ visible # Nothing
  /\ visible' = Nothing
  /\ UNCHANGED shown

\* A report file is renamed over the report that was there.
Exchange(r) ==
  /\ visible # Nothing
  /\ r \notin shown
  /\ visible' = r
  /\ shown' = shown \union {r}

StoreNext ==
  \/ Withdraw
  \/ \E r \in Runs : Publish(r) \/ Exchange(r)

StoreSpec == StoreInit /\ [][StoreNext]_storeVars

=============================================================================
