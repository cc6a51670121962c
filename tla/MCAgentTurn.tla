---------------------------- MODULE MCAgentTurn -----------------------------
(* Instances of a turn for TLC, in units of 500 ms: the default timers   *)
(* are 3 for the model, 1 for a tool and 4 for the voice request.           *)
EXTENDS GroundedTurn

CONSTANTS normalize, echo, disabled, mcp, transfer, invented

Entry(status, source, riskClass, timeoutMs) ==
  [status |-> status, source |-> source, riskClass |-> riskClass, timeoutMs |-> timeoutMs]

\* One tool for each reason to refuse, beside the product's tool.
AllTools == {normalize, echo, disabled, mcp, transfer, invented}

Registry ==
  [t \in AllTools \ {invented} |->
     CASE t = normalize -> Entry("active", "native", "read", 1)
       [] t = echo      -> Entry("active", "native", "read", 2)
       [] t = disabled  -> Entry("disabled", "native", "read", 1)
       [] t = mcp       -> Entry("active", "mcp", "read", 1)
       [] t = transfer  -> Entry("active", "native", "irreversible", 1)]

\* An agent whose allowlist is wider than the port's.
WideAllowlist == {normalize, disabled, mcp, transfer, invented}
NarrowPort    == {normalize, echo, disabled, mcp, transfer}

\* No document, one of one chunk, two of three chunks (with a blank inside, and
\* ending in a short chunk), and one that cannot be ingested.
ExampleDocuments == {{}, 2 .. 4, 0 .. 5, {0, 2, 3, 4, 6}, {0, 1, 6}}
=============================================================================
