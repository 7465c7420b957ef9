----------------------------- MODULE MCSession -----------------------------
EXTENDS Session

MCOwners == [k \in Keys |-> IF k = "router" THEN {"epp"} ELSE {"namespace", "vllm"}]
MCPairs == {<<"*", "router">>, <<"a", "router">>, <<"*", "serviceAccountOverride">>}
MCTop == [f \in Files |-> IF f = "trace" THEN "logs" ELSE f]
MCWrittenBy == [f \in Files |-> IF f = "metrics" THEN "summary" ELSE "harness"]
=============================================================================
