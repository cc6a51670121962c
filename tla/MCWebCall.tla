----------------------------- MODULE MCWebCall -----------------------------
(* An instance of WebCall for TLC: two attempts, and one message more than   *)
(* the transcript keeps.                                                     *)
EXTENDS WebCall
=============================================================================
