------------------------------- MODULE MCRouter -------------------------------
(* Small fleets, requests and sessions for RouterPipeline.                  *)
EXTENDS RouterPipeline

Plain == [tier |-> "economical-cloud", provider |-> "openai", healthy |-> TRUE,
          window |-> 0, registryWindow |-> 40, maxOutput |-> 10, cost |-> 1,
          subscription |-> FALSE, auto |-> FALSE]

(* A local model, two economical ones of different providers (one of them   *)
(* small, one too dear to be worth a switch), a frontier one, and one that  *)
(* is down.                                                                 *)
FullModels  == {"local", "mini", "flash", "gpt", "down"}
FullCatalog == <<"down", "local", "flash", "mini", "gpt">>
FullProfile ==
  [m \in FullModels |->
     CASE m = "local" -> [Plain EXCEPT !.tier = "zero-tier", !.provider = "ollama", !.cost = 0]
       [] m = "mini"  -> [Plain EXCEPT !.window = 10]
       [] m = "flash" -> [Plain EXCEPT !.provider = "google", !.cost = 7]
       [] m = "gpt"   -> [Plain EXCEPT !.tier = "frontier-cloud", !.cost = 10]
       [] m = "down"  -> [Plain EXCEPT !.tier = "frontier-cloud", !.provider = "anthropic",
                                       !.healthy = FALSE]]
FullScope == {FullModels}
HealthyScope == {FullModels \ {"down"}}

Main == [kind |-> "main_loop", tool |-> "ok", tokens |-> 4, candidate |-> "none", replayRisk |-> FALSE]
Long == [Main EXCEPT !.tokens = 20]
Plan == [Main EXCEPT !.kind = "planning"]
Tool == [Main EXCEPT !.kind = "tool_result"]
Failed == [Tool EXCEPT !.tool = "enoent"]
Unsupported == [Tool EXCEPT !.tool = "unknown tool"]
Wants(m) == [Main EXCEPT !.candidate = m]

TurnRequests == {Main, Long, Plan, Tool, Failed, Unsupported, Wants("gpt"), Wants("mini"),
                 [Tool EXCEPT !.replayRisk = TRUE]}

OneSession == {"s1"}
OneSlot == {"r1"}
TwoSlots == {"r1", "r2"}
OnePipeline == {"p1"}
TwoPipelines == {"p1", "p2"}
Errors == {"enoent", "unknown tool"}
TurnEvents == {"compact", "select", "abort", "unpin", "idle"}
TurnFailures == {"turn_envelope", "session_pin", "hydra_match", "context_overflow_fallback"}
TurnTargets == {"flash", "down"}
ProbeFails == {"hardware_probe"}
NoEvents == {}
MainRequests == {Main}

(* Two turns, two pipelines, and everything that may happen around them.    *)
RaceModels  == {"local", "mini"}
RaceCatalog == <<"local", "mini">>
RaceProfile == [m \in RaceModels |-> FullProfile[m]]
RaceScopes  == {{"mini"}, {"local"}}
NoTargets == {}
RaceRequests == {Main}
RaceEvents == {"rebuild", "restart", "flush", "shutdown"}
RaceFailures == {"hardware_probe", "hydra_match", "context_overflow_fallback"}
=============================================================================
