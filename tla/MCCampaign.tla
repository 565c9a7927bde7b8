------------------------------- MODULE MCCampaign -------------------------------
(* A campaign of eight cases, one or two of each kind. *)
EXTENDS Campaign

MCCases ==
  << [dataset |-> "A", config |-> "clean", expected |-> "recovery"],
     [dataset |-> "B", config |-> "seed17", expected |-> "noise"],
     [dataset |-> "B2", config |-> "seed29", expected |-> "noise"],
     [dataset |-> "C", config |-> "outliers", expected |-> "paired"],
     [dataset |-> "C", config |-> "outliers", expected |-> "paired"],
     [dataset |-> "D", config |-> "narrow", expected |-> "diagnostic"],
     [dataset |-> "E", config |-> "clean", expected |-> "bound"],
     [dataset |-> "E2", config |-> "clean", expected |-> "invalid"] >>

\* The outcomes a run can have: a best candidate, full coverage and held-out
\* metrics come in this order; without a diagnosis an answer is poor.
Possible ==
  { o \in [status : {"grid_complete", "bound_limited", "no_valid_candidate"},
           available : BOOLEAN, poor : BOOLEAN,
           parameter : BOOLEAN, full : BOOLEAN, heldout : BOOLEAN,
           replay : BOOLEAN, error : {1, 2, Nothing}, rmse : {1, 2, Nothing}] :
      /\ o.heldout => o.full
      /\ o.full => o.rmse # Nothing
      /\ o.rmse # Nothing => o.error # Nothing
      /\ o.parameter => o.error # Nothing
      /\ ~o.available => o.poor
      /\ o.status = "no_valid_candidate" <=> o.error = Nothing
      /\ o.available => o.error # Nothing }

Plain(o) == o.replay /\ o.available /\ ~o.poor /\ o.parameter /\ o.heldout /\ o.status = "grid_complete"
Good == CHOOSE o \in Possible : Plain(o) /\ o.error = 1 /\ o.rmse = 1
Lost == CHOOSE o \in Possible : o.status = "no_valid_candidate" /\ o.replay

MCOutcomes(i) ==
  CASE MCCases[i].expected = "recovery" ->
         { o \in Possible : o.error \in {1, Nothing} /\ o.rmse \in {1, Nothing} /\ o.status # "bound_limited"
                            /\ Cardinality({ f \in {"available", "parameter", "full", "heldout", "replay"} : ~o[f] }) <= 1 }
    [] MCCases[i].expected = "noise"  -> {Good, Lost}
    [] MCCases[i].expected = "paired" ->
         { o \in Possible : Plain(o) /\ o.full } \cup {Lost, [Good EXCEPT !.full = FALSE, !.heldout = FALSE, !.rmse = Nothing]}
    [] MCCases[i].expected = "diagnostic" ->
         {Good, [Good EXCEPT !.poor = TRUE], [Good EXCEPT !.available = FALSE, !.poor = TRUE]}
    [] OTHER -> {Good, Lost, [Good EXCEPT !.status = "bound_limited"],
                 [Lost EXCEPT !.replay = FALSE]}

\* A killed campaign of another version left its fixtures.
MCLeftovers == { [d \in Datasets |-> IF d = left THEN "outliers" ELSE Nothing] : left \in {"A", "C"} }
=============================================================================
