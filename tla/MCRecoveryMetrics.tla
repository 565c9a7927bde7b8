---------------------------- MODULE MCRecoveryMetrics ----------------------------
(* Two frames of one or two records of ten kinds, given out of order, and of *)
(* one record each in order.                                                 *)
EXTENDS RecoveryMetrics

\* A point is where no correction shows it, or one of two that only some show.
MCSeen(c, point) ==
  LET at == point + c
      Unseen(status) == [status |-> status, at |-> 0] IN
  CASE point = 90 -> IF c < 1 THEN Unseen("behind_or_too_near") ELSE [status |-> "visible", at |-> c]
    [] point = 91 -> IF c > 0 THEN Unseen("non_positive_homogeneous_depth")
                     ELSE [status |-> "visible", at |-> 4 + c]
    [] OTHER -> IF at \in 0..Width - 1 THEN [status |-> "visible", at |-> at]
                ELSE Unseen("outside_image")

MCKinds ==
  { [source |-> s, point |-> k[1], target |-> k[2], weight |-> k[3]] :
      <<s, k>> \in {1, 2} \X {<<2, 3, 1>>, <<5, 5, 1>>, <<0, 5, 2>>, <<0, 1, 0>>, <<1, 6, 9>>, <<4, 3, 1>>,
                              <<90, 2, 1>>, <<91, 3, 0>>, <<3, 8, 1>>,  <<3, 3, 201>>} }
MCObservations == { <<a>> : a \in MCKinds } \cup { <<a, b>> : <<a, b>> \in MCKinds \X MCKinds }
MCInputs ==
  {<<>>}
        \cup { <<[frame |-> 1, observations |-> a], [frame |-> 0, observations |-> b]>> :
                  <<a, b>> \in MCObservations \X { <<r>> : r \in MCKinds } }
        \cup { <<[frame |-> 0, observations |-> <<a>>], [frame |-> 1, observations |-> <<b>>]>> :
                  <<a, b>> \in MCKinds \X MCKinds }
        \cup { <<[frame |-> 1, observations |-> <<a>>], [frame |-> 1, observations |-> <<a>>]>> :
                  a \in MCKinds }
MCGrid == <<-1, 0, 1>>
=============================================================================
