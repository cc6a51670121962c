--------------------------- MODULE MCQualityGate ---------------------------
(* A gate of two suites: the agent's, which holds the security case, and   *)
(* the voice suite, which has no prompt.                                   *)
EXTENDS QualityGate

MCKeys == <<"runtime-demo", "voice">>
MCNames == {"agent", "voice"}
MCSegments == {"injection", "turn"}
MCSecurity == {<<"agent", "injection">>}
MCFiles ==
    [k \in KeySet |->
        IF k = "voice"
          THEN [name |-> "voice", dataset |-> 1, prompt |-> NoVersion, cases |-> <<"turn">>]
          ELSE [name |-> "agent", dataset |-> 1, prompt |-> 1, cases |-> <<"injection">>]]
MCBaseline ==
    [required |-> {<<"agent", "injection">>, <<"voice", "turn">>},
     pins |-> [n \in MCNames |-> [dataset |-> 1, prompt |-> IF n = "voice" THEN NoVersion ELSE 1]]]
=============================================================================
