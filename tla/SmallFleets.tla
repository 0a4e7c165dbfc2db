----------------------------- MODULE SmallFleets -----------------------------
(* Small fleets, sessions and answers for the model checking of Delegation. *)
EXTENDS Naturals

Plain == [tier |-> "economical-cloud", provider |-> "openai", healthy |-> TRUE,
          window |-> 40, registryWindow |-> 40, maxOutput |-> 10, cost |-> 1,
          subscription |-> FALSE, auto |-> FALSE]

Small == [Plain EXCEPT !.window = 10, !.registryWindow = 10]

(* Two Google models of different tiers, and an economical one of another   *)
(* provider that is too small for long inputs.                              *)
MixedModels  == {"mini", "flash", "gemini"}
MixedCatalog == <<"flash", "mini", "gemini">>
MixedProfile ==
  [m \in MixedModels |->
     CASE m = "mini"   -> Small
       [] m = "flash"  -> [Plain EXCEPT !.provider = "google", !.cost = 2]
       [] m = "gemini" -> [Plain EXCEPT !.tier = "frontier-cloud", !.provider = "google",
                                        !.window = 0, !.cost = 3]]

(* An economical model that is too small and a frontier one that is not.    *)
NarrowModels  == {"mini", "opus"}
NarrowCatalog == <<"mini", "opus">>
NarrowProfile ==
  [m \in NarrowModels |->
     IF m = "mini" THEN [Small EXCEPT !.provider = "google"]
     ELSE [Plain EXCEPT !.tier = "frontier-cloud", !.provider = "anthropic", !.cost = 9]]

(* Two models of a tier and no window to run out of.                        *)
TwinModels  == {"a", "b"}
TwinCatalog == <<"a", "b">>
TwinProfile == [m \in TwinModels |-> Plain]

OneSession == {"s1"}
TwoSessions == {"s1", "s2"}
SmallInput == {1}
BothInputs == {1, 20}

MixedAnswers == {"done", "length", "server_error", "thought_signature", "throw"}
RetryableAnswers == {"done", "server_error", "length", "throw", "thought_signature"}
InfraOrDone == {"done", "server_error", "opaque"}
=============================================================================
