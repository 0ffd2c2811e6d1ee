----------------------------- MODULE MCCallStack -----------------------------
(***************************************************************************)
(* Two programs, each on a machine of its own, one of which runs. The      *)
(* first leaves its frames by returning or by popping the return address;  *)
(* the second, in a smaller memory, also throws whole stacks away          *)
(* (longjmp).                                                              *)
(***************************************************************************)
EXTENDS CallStack

VARIABLES throws,       \* whether it is the second that runs
          tpc, tsp, tram, tinside, tmarks, tshadow, tlastSP, tfault, tlive

Thrower ==
  INSTANCE CallStack
    WITH Top <- 5, CodeTop <- 1, MaxShadow <- 4, Habits <- {"discard", "drop"},
         pc <- tpc, sp <- tsp, ram <- tram, inside <- tinside, marks <- tmarks,
         shadow <- tshadow, lastSP <- tlastSP, fault <- tfault, live <- tlive

tvars == <<tpc, tsp, tram, tinside, tmarks, tshadow, tlastSP, tfault, tlive>>

MCInit == throws \in BOOLEAN /\ Init /\ Thrower!Init
Returning == ~throws /\ Next /\ UNCHANGED <<throws, tvars>>
Throwing == throws /\ Thrower!Next /\ UNCHANGED <<throws, vars>>
MCNext == Returning \/ Throwing
MCSpec == MCInit /\ [][MCNext]_<<throws, vars, tvars>>

(* CallStack!NeverTooShallow for the program that throws stacks away: stale *)
(* marks never make the debugger hide a call that is still on the stack.    *)
ThrowsNeverTooShallow == Thrower!NeverTooShallow
=============================================================================
