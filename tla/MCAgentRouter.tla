---------------------------- MODULE MCAgentRouter ----------------------------
(* Instances of AgentRouter: the tools are members of PAYMENT_TOOLS.       *)
EXTENDS AgentRouter

MCRegistered == {"quote_payment", "mpesa_stk_query", "mpesa_stk_push"}
MCReadOnly == {"quote_payment", "mpesa_stk_query"}
MCStatusTools == {"mpesa_stk_query"}
MCPush == {"mpesa_stk_push"}
MCQuoteOnly == {"quote_payment"}
MCPushAndQuote == {"quote_payment", "mpesa_stk_push"}
NoToken == {Nil}
NoTools == {}
AllEscapes == {"circuit_open", "interrupted"}
NoEscapes == {}

=============================================================================
