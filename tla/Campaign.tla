-------------------------------- MODULE Campaign --------------------------------
(***************************************************************************)
(* run_extrinsic_campaign: the frozen cases are run one after the other in *)
(* a stage of the campaign's own, each on a fixture that is generated when *)
(* its data set is not there yet; a gate is decided for every case, the    *)
(* L2 and the Huber case are compared, and a summary with one row per case *)
(* is published, whether the required gates passed or not.  How the stage  *)
(* reaches its destination among other writers is StagedPublication, what  *)
(* happens inside one case is RecoveryRun.                                 *)
(*                                                                         *)
(* A fixture is named by the configuration it was generated from, and a    *)
(* case is its place in cases(); what a case's run finds is data.  The     *)
(* initial predicate and what follows from it are called after the         *)
(* campaign: ReportProofs extends this module along with RecoveryMetrics.  *)
(***************************************************************************)
EXTENDS Integers, Sequences, FiniteSets

CONSTANTS
  Cases,        \* cases(): [dataset, config, expected] in their order
  L2Case,       \* the place of C_l2
  HuberCase,    \* the place of C_huber
  Outcomes(_),  \* what the run of a case may find
  Leftovers,    \* what a killed campaign may have left in the stage
  Nothing       \* no stage, no fixture, no value

Numbers == DOMAIN Cases
Datasets == { Cases[i].dataset : i \in Numbers }
Configs == { Cases[i].config : i \in Numbers }

\* What main uses of ExtrinsicSearchResult, RecoveryAcceptance and the held-out
\* clean comparison: error and rmse are normalizedError and recoveredRmse.
Findings ==
  [status : {"grid_complete", "bound_limited", "refinement_limited", "no_valid_candidate"},
   available : BOOLEAN, poor : BOOLEAN,
   parameter : BOOLEAN, full : BOOLEAN, heldout : BOOLEAN,
   replay : BOOLEAN, error : Int \cup {Nothing}, rmse : Int \cup {Nothing}]

ASSUME CasesAssumption ==
  /\ Cases \in Seq([dataset : Datasets, config : Configs,
                    expected : {"recovery", "bound", "invalid", "diagnostic",
                                "offgrid", "noise", "paired"}])
  /\ \A i, j \in Numbers : Cases[i].dataset = Cases[j].dataset => Cases[i].config = Cases[j].config
  /\ L2Case \in Numbers /\ HuberCase \in Numbers /\ L2Case < HuberCase
  /\ Cases[L2Case].dataset = Cases[HuberCase].dataset
ASSUME OutcomesAssumption == \A i \in Numbers : Outcomes(i) \subseteq Findings
ASSUME NothingAssumption == Nothing \notin Configs /\ Nothing \notin Int

VARIABLES
  stage,      \* <run>.tmp: Nothing, or the configuration of each fixture in it
  pc,         \* where main is: claim, fixture, run, summary, or done
  at,         \* the case that the loop is at
  rows,       \* the rows so far
  required,   \* required_pass
  samples,    \* brmse: the rmse of each noise case, or Nothing
  l2, huber,  \* the error and the rmse of the paired cases
  shared,     \* c_identity
  published,  \* the campaign.json that this run put at the destination, if any
  exit        \* the exit status, Nothing before

campaign == <<stage, pc, at, rows, required, samples, l2, huber, shared, published, exit>>

-----------------------------------------------------------------------------
(* The gates                                                               *)

\* assessExtrinsicRecovery: without an estimate only the search gate is decided.
Passed(o) ==
  /\ o.status # "no_valid_candidate"
  /\ o.parameter /\ o.full /\ o.heldout
  /\ o.status = "grid_complete" /\ o.available /\ ~o.poor

CaseGate(expected, o) ==
  /\ o.replay
  /\ expected = "recovery" => Passed(o)
  /\ expected = "bound" => o.status = "bound_limited" /\ ~Passed(o)
  /\ expected = "invalid" => o.status = "no_valid_candidate" /\ ~Passed(o)
  /\ expected = "diagnostic" => ~Passed(o) /\ o.available

NoPair == [error |-> Nothing, rmse |-> Nothing]

\* Mutant: one of the two errors is enough.
RobustInOne ==
  /\ \A r \in {l2, huber} : r.error # Nothing /\ r.rmse # Nothing
  /\ huber.error < l2.error \/ huber.rmse < l2.rmse

Robust ==
  /\ \A r \in {l2, huber} : r.error # Nothing /\ r.rmse # Nothing
  /\ huber.error < l2.error /\ huber.rmse < l2.rmse

-----------------------------------------------------------------------------
(* The steps of main                                                       *)

CampaignInit ==
  /\ stage \in {Nothing} \cup Leftovers
  /\ pc = "claim" /\ at = 1
  /\ rows = <<>> /\ required = TRUE /\ samples = <<>>
  /\ l2 = NoPair /\ huber = NoPair /\ shared = Nothing
  /\ published = {} /\ exit = Nothing

Claims(free) ==
  /\ pc = "claim"
  /\ IF free
     THEN /\ stage' = (IF stage = Nothing THEN [d \in Datasets |-> Nothing] ELSE stage)
          /\ pc' = "fixture" /\ exit' = exit
     ELSE stage' = stage /\ pc' = "done" /\ exit' = 5
  /\ UNCHANGED <<at, rows, required, samples, l2, huber, shared, published>>

\* Mutant: a directory that is already there will do.
ClaimAny == Claims(TRUE)

\* CampaignStage: create_directory, and no clean-up when it was there.
Claim == Claims(stage = Nothing)

Dataset == Cases[at].dataset

\* Mutant: any fixture of this campaign will do.
PrepareFirstFixture ==
  /\ pc = "fixture" /\ at \in Numbers
  /\ stage' = [stage EXCEPT ![Dataset] = IF \A d \in Datasets : stage[d] = Nothing
                                         THEN Cases[at].config ELSE @]
  /\ pc' = "run"
  /\ UNCHANGED <<at, rows, required, samples, l2, huber, shared, published, exit>>

\* The case's data set, unless an earlier case has generated it.
PrepareFixture ==
  /\ pc = "fixture" /\ at \in Numbers
  /\ stage' = [stage EXCEPT ![Dataset] = IF @ = Nothing THEN Cases[at].config ELSE @]
  /\ pc' = "run"
  /\ UNCHANGED <<at, rows, required, samples, l2, huber, shared, published, exit>>

\* composeRecoveryRun, the case's own report, its gates and its row.
RunCase ==
  /\ pc = "run"
  /\ \E o \in Outcomes(at) :
       LET gate == CaseGate(Cases[at].expected, o)
           pair == [error |-> o.error, rmse |-> o.rmse] IN
       /\ rows' = Append(rows, [number |-> at, gate |-> gate, found |-> o,
                                identity |-> stage[Dataset]])
       /\ required' = (required /\ gate /\ (at = HuberCase => stage[Dataset] = shared))
       /\ samples' = (IF Cases[at].expected = "noise" THEN Append(samples, o.rmse) ELSE samples)
       /\ l2' = (IF at = L2Case THEN pair ELSE l2)
       /\ shared' = (IF at = L2Case THEN stage[Dataset] ELSE shared)
       /\ huber' = (IF at = HuberCase THEN pair ELSE huber)
  /\ at' = at + 1 /\ pc' = "fixture"
  /\ UNCHANGED <<stage, published, exit>>

\* After the loop: the robustness gate joins the others.
Summarise ==
  /\ pc = "fixture" /\ at \notin Numbers
  /\ required' = (required /\ Robust)
  /\ pc' = "summary"
  /\ UNCHANGED <<stage, at, rows, samples, l2, huber, shared, published, exit>>

\* campaign.json is written, the stage takes the place of the destination.
Publish ==
  /\ pc = "summary"
  /\ published' = {[required_gates_passed |-> required, cases |-> rows,
                    requested |-> Len(samples),
                    samples |-> Cardinality({ i \in DOMAIN samples : samples[i] # Nothing }),
                    same_fixture_identity |-> shared, required_robustness_gate |-> Robust]}
  /\ stage' = Nothing
  /\ pc' = "done" /\ exit' = (IF required THEN 0 ELSE 4)
  /\ UNCHANGED <<at, rows, required, samples, l2, huber, shared>>

\* Any exception once the stage is there: its guard removes it.  Only what
\* composeRecoveryRun turns into an ArgumentError ends with 2.
Fail ==
  /\ pc \in {"fixture", "run", "summary"}
  /\ exit' \in (IF pc = "run" THEN {2, 5} ELSE {5})
  /\ stage' = Nothing /\ pc' = "done"
  /\ UNCHANGED <<at, rows, required, samples, l2, huber, shared, published>>

CampaignNext == Claim \/ PrepareFixture \/ RunCase \/ Summarise \/ Publish \/ Fail

CampaignSpec == CampaignInit /\ [][CampaignNext]_campaign

-----------------------------------------------------------------------------
(* Properties                                                              *)

\* The variables have their types; a row is only written for a case whose
\* fixture is there (the loop of main).
TypeOK ==
  /\ pc \in {"claim", "fixture", "run", "summary", "done"}
  /\ pc \in {"fixture", "run", "summary"} =>
       stage \in [Datasets -> Configs \cup {Nothing}]
  /\ at \in Nat /\ 1 <= at /\ at <= Len(Cases) + 1
  /\ pc = "run" => at \in Numbers
  /\ Len(rows) = at - 1
  /\ \A i \in DOMAIN rows : rows[i].identity \in Configs
  /\ required \in BOOLEAN
  /\ exit \in {Nothing, 0, 2, 4, 5}

\* The gates of spec.md 17.7, from what the cases found.
Deserves(i, o) ==
  LET recovered == o.status = "grid_complete" /\ o.available /\ ~o.poor
                     /\ o.parameter /\ o.full /\ o.heldout
  IN CASE Cases[i].expected = "recovery"   -> o.replay /\ recovered
       [] Cases[i].expected = "bound"      -> o.replay /\ o.status = "bound_limited"
       [] Cases[i].expected = "invalid"    -> o.replay /\ o.status = "no_valid_candidate"
       [] Cases[i].expected = "diagnostic" -> o.replay /\ o.available /\ ~recovered
       [] OTHER                            -> o.replay
HuberWins(h, l) ==
  /\ Nothing \notin {h.error, l.error, h.rmse, l.rmse}
  /\ h.error < l.error /\ h.rmse < l.rmse

\* A published campaign has one row for every case, in the order of cases() and
\* none left out; its verdict is that every case met its gate and that Huber
\* beat L2 on one fixture; every noise case counts as requested; and the exit
\* status says the verdict, 0 or 4 only when the campaign was published.
VerdictIsTheGates ==
  /\ \A p \in published :
       LET found(i) == p.cases[i].found
           noise == { i \in Numbers : Cases[i].expected = "noise" } IN
       /\ DOMAIN p.cases = Numbers
       /\ \A i \in Numbers : p.cases[i].number = i /\ p.cases[i].gate = Deserves(i, found(i))
       /\ p.required_robustness_gate = HuberWins(found(HuberCase), found(L2Case))
       /\ p.required_gates_passed = /\ \A i \in Numbers : Deserves(i, found(i))
                                    /\ HuberWins(found(HuberCase), found(L2Case))
       /\ p.requested = Cardinality(noise)
       /\ p.samples = Cardinality({ i \in noise : found(i).rmse # Nothing })
  /\ exit = 0 <=> \E p \in published : p.required_gates_passed
  /\ exit = 4 <=> \E p \in published : ~p.required_gates_passed

\* Every row is about a fixture of its own case's configuration, generated by
\* this campaign, and so is the one that the paired cases are said to share:
\* never about what a killed campaign or another case left under that name
\* (CampaignStage, the test for the data set before generateExtrinsicFixture).
OwnFixture ==
  /\ \A i \in DOMAIN rows : rows[i].identity = Cases[i].config
  /\ \A p \in published : \A i \in {L2Case, HuberCase} : p.same_fixture_identity = rows[i].identity

=============================================================================
