----------------------------- MODULE MCCalibration -----------------------------
(***************************************************************************)
(* The calibration scripts on small data: campaigns and panels over two      *)
(* tasks of two sessions, reviews over three exports, every fit of up to    *)
(* three labels for each of four scores, and the choice of a tier that the  *)
(* fitted P(success) serves.                                                *)
(***************************************************************************)
EXTENDS LabelCampaign, HumanReview, IsotonicFit, TierChoice

TwoTasks == <<"fix", "port">>
OldTask  == "weak"
TaskSessions == [task \in {"fix", "port", OldTask} |-> IF task = "port" THEN "s2" ELSE "s1"]

(* One grader and one panelist share a model with the first generator, one  *)
(* panelist with the second, and one of the fill pool with a grader.        *)
ClientModels ==
  [gen0 |-> "pro", gen1 |-> "k3",
   gradeA |-> "pro", gradeB |-> "flash", gradeC |-> "glm",
   panelPro |-> "pro", panelK3 |-> "k3", panelGlm |-> "glm5", fill |-> "flash"]
PanelThenFill == <<"panelPro", "panelK3", "panelGlm", "fill">>
AllJudges == {"gradeA", "gradeB", "gradeC", "panelPro", "panelK3", "panelGlm", "fill"}

(* The panel is told the generators' models, or takes the first generator   *)
(* for another model and does not know the second.                          *)
TrueAndWrongAuthors ==
  {[gen0 |-> "pro", gen1 |-> "k3"], [gen0 |-> "glm5", gen1 |-> "no model"]}

(* With either seed one of the sessions is held out. *)
OneHeldOut == {<<"first", "s1">>, <<"second", "s2">>}

Good == [j \in AllJudges |-> 8]
Bad  == [j \in AllJudges |-> 2]
(* Graders disagree; of the panel for the first generator one answers, of   *)
(* that for the second two.                                                 *)
Split == [j \in AllJudges |->
            IF j \in {"panelK3", "fill"} THEN NoScore ELSE IF j = "gradeC" THEN 2 ELSE 8]

SmallSheets ==
  [s \in {"fix", "port"} \X {"gen0", "gen1"} |->
     CASE s = <<"fix", "gen0">>  -> {Good, Split}
       [] s = <<"fix", "gen1">>  -> {Split}
       [] s = <<"port", "gen0">> -> {Bad}
       [] s = <<"port", "gen1">> -> {Split}]

WeakRow ==
  [sample |-> <<OldTask, "gen0">>, seed |-> "none", split |-> "none", success |-> TRUE,
   by |-> "nobody", votes |-> [j \in {} |-> TRUE], author |-> "no model", weak |-> TRUE]
OneWeakRow == {WeakRow}

Export(id, signals, success, provenance) ==
  [id |-> id, signals |-> signals, success |-> success, provenance |-> provenance]

(* An export, a later one of the same turns, and a script's row without id. *)
ThreeExports ==
  {{Export("t1", {}, "none", "none"), Export("t2", {"failure"}, "bad", "none")},
   {Export("t1", {"feedback_good"}, "good", "none"),
    Export("t2", {"failure", "feedback_good"}, "bad", "none")},
   {Export("no id", {}, "good", "scripted_intent")}}
OneDisagreement == {Export("d1", {}, "none", "none")}

(* A local model, two economical ones of different providers, a frontier    *)
(* one, and one that is down.                                               *)
PricedModels  == {"local", "mini", "flash", "gpt", "down"}
PricedCatalog == <<"down", "local", "flash", "mini", "gpt">>
Priced(tier, provider, cost) ==
  [tier |-> tier, provider |-> provider, healthy |-> TRUE, window |-> 0, registryWindow |-> 40,
   maxOutput |-> 10, cost |-> cost, subscription |-> FALSE, auto |-> FALSE]
PricedProfile ==
  [local |-> Priced("zero-tier", "ollama", 0), mini |-> Priced("economical-cloud", "openai", 1),
   flash |-> Priced("economical-cloud", "deepseek", 7), gpt |-> Priced("frontier-cloud", "openai", 10),
   down |-> [Priced("frontier-cloud", "anthropic", 5) EXCEPT !.healthy = FALSE]]

(* With both economical models, with the dear one only, without a frontier  *)
(* model that is up.                                                        *)
FittingFleets == {PricedModels, PricedModels \ {"mini"}, {"down", "local", "mini"}}

(* A local model that costs something beside a frontier one on a            *)
(* subscription; a frontier model that is cheaper than its list price; an   *)
(* economical one dearer than its list price beside one that is off peak.   *)
Unknown == [m \in PricedModels |-> NoPrice]
Listed == [override |-> Unknown, registry |-> Unknown, quota |-> Unknown, offPeak |-> {}]
SomePriceLists ==
  {Listed,
   [Listed EXCEPT !.registry["local"] = 3, !.quota["gpt"] = 8],
   [Listed EXCEPT !.override["gpt"] = 4],
   [Listed EXCEPT !.override["mini"] = 9, !.offPeak = {"flash"}]}

-----------------------------------------------------------------------------
(* Each part moves only as long as the others have not begun: they share no *)
(* file here, so no behaviour of any is lost.                               *)
Opening ==
  [fleet |-> PricedModels, prices |-> Listed, quota |-> Window, trust |-> 0, alpha |-> 0,
   ready |-> FALSE, pin |-> NoModel]
NoTurn == market = Opening
NoScript == FitInit /\ Init /\ HumanInit

CalibrationInit == NoScript /\ ChoiceInit

CalibrationNext ==
  \/ NoTurn /\ HumanInit /\ FitInit /\ Next /\ UNCHANGED <<hvars, ivars, choiceVars>>
  \/ NoTurn /\ Init /\ FitInit /\ HumanNext /\ UNCHANGED <<vars, ivars, choiceVars>>
  \/ NoTurn /\ Init /\ HumanInit /\ FitNext /\ UNCHANGED <<vars, hvars, choiceVars>>
  \/ NoScript /\ ChoiceNext /\ UNCHANGED <<vars, hvars, ivars>>

CalibrationSpec == CalibrationInit /\ [][CalibrationNext]_<<vars, hvars, ivars, choiceVars>>
=============================================================================
