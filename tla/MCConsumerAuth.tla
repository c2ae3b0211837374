--------------------------- MODULE MCConsumerAuth ---------------------------
EXTENDS AgentConnection, TLC

CONSTANTS a, b

\* A card lookup beside an RPC; a message with a file beside a connect, where a
\* refresh is a login; a handler's upload beside another's connection token and card lookup.
MCCalls == {a, b}
MCMaxIssued == [m \in {"apiKey", "provider", "agent"} |-> IF m = "agent" THEN 3 ELSE 2]
MCOperations ==
  ("apiKey" :> (a :> GetAgentCard @@ b :> GetTask)) @@
  ("provider" :> (a :> SendMessage @@ b :> Connect)) @@
  ("agent" :> (a :> AgentUpload @@ b :> GetToken \o GetAgentCard))
=============================================================================
