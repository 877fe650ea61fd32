------------------------------ MODULE MCRouter ------------------------------
(* The routes of config/llm_routes.toml: the cloud with the local reasoning  *)
(* model behind it, and the fast local model alone, on the same provider.    *)
EXTENDS Router

CONSTANTS groq, ollama, cloud, reasoning, fast

MCProviders == {groq, ollama}
MCModels == {cloud, reasoning, fast}
MCProviderOf == [m \in MCModels |-> IF m = cloud THEN groq ELSE ollama]
MCPaid == {cloud}
MCChains == {<<cloud, reasoning>>, <<fast>>}

=============================================================================
