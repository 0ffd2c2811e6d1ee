---------------------------- MODULE ExecLoopClaims ----------------------------
(***************************************************************************)
(* What a comment in the source says of interrupt entry, and the code does *)
(* not do.  It is checked by a run that is expected to find a              *)
(* counterexample.                                                         *)
(***************************************************************************)
EXTENDS ExecLoop

(* DataSpace.cpp, checkForIntr: "0x2E timer0 overflow interrupt vector".   *)
(* The first instruction that runs after an interrupt was entered is the   *)
(* one at its vector, not the one behind it.                               *)
EntersAtVector == mcu.pc # "pastVector"
=============================================================================
