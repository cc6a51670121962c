----------------------------- MODULE AgentThread -----------------------------
(***************************************************************************)
(* What a voice request knows of the agent turn it started: it runs at     *)
(* most one tool and returns a reply, a timeout or another error, at any   *)
(* time or never, and no reply once its tool has failed.  AgentTurn        *)
(* implements it; VoiceRuntime runs one beside each request.               *)
(***************************************************************************)

VARIABLE thread  \* "off", or how far the turn has come

\* A request starts its turn, if it has one, on its first step.
Init == thread \in {"off", "running"}

Start == thread = "off" /\ thread' = "running"

MayEndTool == thread = "running"

ToolEnds(status) ==
  /\ MayEndTool
  /\ thread' = IF status = "succeeded" THEN "tool_done" ELSE "tool_failed"

MayReturn(result) ==
  /\ thread \in {"running", "tool_done", "tool_failed"}
  /\ thread = "tool_failed" => result # "ok"

Return(result) == MayReturn(result) /\ thread' = result

Next ==
  \/ Start
  \/ \E status \in {"succeeded", "failed"} : ToolEnds(status)
  \/ \E result \in {"ok", "timeout", "error"} : Return(result)

Spec == Init /\ [][Next]_thread
=============================================================================
