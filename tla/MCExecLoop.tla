----------------------------- MODULE MCExecLoop -----------------------------
(* Values for the constants of ExecLoop.  Clock select 1 is the prescaler  *)
(* 1, 2 stands for 8 and 64, and 3 for 256 and 1024, the prescalers that   *)
(* are multiples of the counter's modulus.                                 *)
EXTENDS ExecLoopClaims, ExecLoopRefinement

MCPrescDiv == [p \in Prescs |-> CASE p = 0 -> 0 [] p = 1 -> 1 [] p = 2 -> 2
                                  [] p = 3 -> Byte]

(* Two prescalers that take several cycles per tick. *)
MCSlowPrescDiv == [p \in Prescs |-> IF p = 0 THEN 0 ELSE p]
=============================================================================
