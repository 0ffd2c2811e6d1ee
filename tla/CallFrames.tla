----------------------------- MODULE CallFrames -----------------------------
(***************************************************************************)
(* What the debugger's call stack promises whoever looks at it: the list   *)
(* of calls and interrupts the program is in, outermost first, each with   *)
(* where it went, where it came from and where it will resume.             *)
(* There is no memory, no stack pointer and no marking of bytes here.      *)
(***************************************************************************)
EXTENDS Integers, Sequences

CONSTANT Code     \* program addresses

VARIABLES
  pc,
  frames,   \* sequence of [to, from, resume]
  depth     \* calls and interrupts entered and not left

vars == <<pc, frames, depth>>

Init == pc = 0 /\ frames = <<>> /\ depth = 0

(* A call resumes behind the call instruction, an interrupt at the very    *)
(* instruction it came in front of.                                        *)
Enter(to, len) ==
  /\ pc' = to /\ depth' = depth + 1
  /\ frames' = Append(frames, [to |-> to, from |-> pc, resume |-> pc + len])

Innermost == frames[Len(frames)]
Outer == SubSeq(frames, 1, Len(frames) - 1)

Leave ==
  /\ frames # <<>>
  /\ pc' = Innermost.resume
  /\ frames' = Outer /\ depth' = depth - 1

(* The program throws a return address away. *)
Discard ==
  /\ frames # <<>>
  /\ frames' = Outer /\ depth' = depth - 1
  /\ pc' \in Code

Run == pc' \in Code /\ UNCHANGED <<frames, depth>>

Reset == pc' = 0 /\ frames' = <<>> /\ depth' = 0

Next ==
  \/ \E to \in Code, len \in 0..2 : Enter(to, len)
  \/ Leave \/ Discard \/ Run \/ Reset

Spec == Init /\ [][Next]_vars
=============================================================================
