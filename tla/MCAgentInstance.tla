--------------------------- MODULE MCAgentInstance ---------------------------
(* TLC instance of AgentInstance. *)
EXTENDS AgentInstance, TLC

CONSTANTS t1, t2

TwoTasks == {t1, t2}

\* One task calls createStream twice, the other once.
ThreeCalls == {<<t1, 1>>, <<t1, 2>>, <<t2, 1>>}
WantedKinds == <<t1, 1>> :> {"shared"} @@ <<t1, 2>> :> {"shared", "external"}
               @@ <<t2, 1>> :> {"shared"}
=============================================================================
