---------------------------- MODULE MCRecoveryRun ----------------------------
(* Two fixtures of one seed and geometry, the second with a training outlier   *)
(* fraction: frames 0 and 1 have other observations, frame 2 does not, and no  *)
(* points differ.  What a run can mix up without noticing is thus at hand.     *)
EXTENDS RecoveryRun

MCVersions == {"clean", "outliers"}

MCContentOf(f, v) ==
  IF f \in {Manifest, Oracle} \/ (f[1] = "observations" /\ f[2] < 2) THEN v ELSE "same"

MCTraining == <<0, 1>>
MCHeld == <<2>>

=============================================================================
