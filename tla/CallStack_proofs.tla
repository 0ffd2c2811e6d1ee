--------------------------- MODULE CallStack_proofs ---------------------------
(***************************************************************************)
(* For every size of RAM, of code and of the debugger's array: the stack   *)
(* and its shadow keep their types, insideInterrupt is set only while      *)
(* there is an interrupt to return from, the debugger never shows too few  *)
(* frames whatever the program does with its stack, and exactly the frames *)
(* the program is in if it leaves them by returning or discarding them.    *)
(***************************************************************************)
EXTENDS CallStack, FiniteSetTheorems, SequenceTheorems, TLAPS

LEMMA CountUpTo ==
  ASSUME NEW n \in Nat, NEW S \in SUBSET (1..n)
  PROVE  Cardinality(S) \in 0..n
<1>1. IsFiniteSet(1..n) /\ Cardinality(1..n) = n
  BY FS_Interval
<1>2. IsFiniteSet(S) /\ Cardinality(S) <= Cardinality(1..n)
  BY <1>1, FS_Subset
<1>3. Cardinality(S) \in Nat
  BY <1>2, FS_CardinalityType
<1> QED BY <1>1, <1>2, <1>3

LEMMA CountIsNat ==
  ASSUME NEW a \in Int, NEW b \in Int, NEW S \in SUBSET (a..b)
  PROVE  Cardinality(S) \in Nat
<1>1. IsFiniteSet(a..b)
  BY FS_Interval
<1>2. IsFiniteSet(S)
  BY <1>1, FS_Subset
<1> QED BY <1>2, FS_CardinalityType

LEMMA CountInterval ==
  ASSUME NEW n \in Nat
  PROVE  IsFiniteSet(1..n) /\ Cardinality(1..n) = n
BY FS_Interval

(* The first n elements. *)
LEMMA FirstN ==
  ASSUME NEW S, NEW s \in Seq(S), NEW n \in 0..Len(s)
  PROVE  /\ SubSeq(s, 1, n) \in Seq(S)
         /\ Len(SubSeq(s, 1, n)) = n
         /\ \A k \in 1..n : SubSeq(s, 1, n)[k] = s[k]
BY SubSeqProperties

LEMMA DecType ==
  ASSUME TypeOK, NEW addr \in 1..Top, RegisterStackDec(addr)
  PROVE  /\ marks' \in [Ram -> 0..2] /\ lastSP' \in 1..Top
         /\ shadow' \in Seq([to : Code, from : Code]) /\ Len(shadow') <= MaxShadow
         /\ fault' \in {"none", "overflow", "underflow"}
<1> DEFINE bytes == (lastSP - 1)..addr
<1>1. Calls(bytes) \in Nat
  <2>1. {i \in bytes : marks[i] = 1} \in SUBSET bytes
    OBVIOUS
  <2>2. lastSP - 1 \in Int /\ addr \in Int
    BY StackAssumption DEF TypeOK
  <2> QED BY <2>1, <2>2, CountIsNat DEF Calls
<1>2. marks' \in [Ram -> 0..2] /\ lastSP' \in 1..Top
  BY DEF RegisterStackDec, Unmarked, TypeOK
<1>3. PopEntries(Calls(bytes))
  BY DEF RegisterStackDec
<1>4. CASE Calls(bytes) <= Len(shadow)
  <2>1. Len(shadow) - Calls(bytes) \in 0..Len(shadow)
    BY <1>1, <1>4 DEF TypeOK
  <2>2. shadow' = SubSeq(shadow, 1, Len(shadow) - Calls(bytes)) /\ fault' = fault
    BY <1>3, <1>4 DEF PopEntries
  <2>3. /\ SubSeq(shadow, 1, Len(shadow) - Calls(bytes)) \in Seq([to : Code, from : Code])
        /\ Len(SubSeq(shadow, 1, Len(shadow) - Calls(bytes))) = Len(shadow) - Calls(bytes)
    BY <2>1, FirstN DEF TypeOK
  <2>4. Len(shadow) - Calls(bytes) <= MaxShadow
    BY <1>1, <2>1, StackAssumption DEF TypeOK
  <2> QED BY <1>2, <2>2, <2>3, <2>4 DEF TypeOK
<1>5. CASE ~(Calls(bytes) <= Len(shadow))
  BY <1>2, <1>3, <1>5, StackAssumption DEF PopEntries, TypeOK
<1> QED BY <1>4, <1>5

LEMMA KeptType ==
  ASSUME TypeOK, NEW s \in Ram
  PROVE  Kept(s) \in Seq(Frame)
<1>1. Cardinality({k \in 1..Len(live) : live[k].base > s}) \in 0..Len(live)
  BY CountUpTo DEF TypeOK
<1> QED BY <1>1, FirstN DEF Kept, TypeOK

LEMMA AboveType ==
  ASSUME TypeOK, NEW s \in Ram
  PROVE  Above(s) \in [Ram -> Cell]
BY DEF Above, Cell, TypeOK

LEMMA EnterType ==
  ASSUME TypeOK, NEW to \in Code, NEW resume \in Code, NEW intr \in BOOLEAN,
         Enter(to, resume, intr), inside' \in BOOLEAN
  PROVE  TypeOK'
<1>1. pc' \in Code /\ sp' \in Ram
  BY StackAssumption DEF Enter, TypeOK, Ram, Code
<1>2. ram' \in [Ram -> Cell]
  BY DEF Enter, TypeOK, Cell
<1>3. marks' \in [Ram -> 0..2] /\ lastSP' \in 1..Top
  BY StackAssumption DEF Enter, EnterShadow, TypeOK, Ram
<1>4. /\ shadow' \in Seq([to : Code, from : Code]) /\ Len(shadow') <= MaxShadow
      /\ fault' \in {"none", "overflow", "underflow"}
  <2>1. CASE Len(shadow) < MaxShadow
    <3>1. [to |-> to, from |-> pc] \in [to : Code, from : Code]
      BY DEF TypeOK
    <3>2. shadow' = Append(shadow, [to |-> to, from |-> pc]) /\ fault' = fault
      BY <2>1 DEF Enter, EnterShadow
    <3> QED BY <2>1, <3>1, <3>2, AppendProperties, StackAssumption DEF TypeOK
  <2>2. CASE ~(Len(shadow) < MaxShadow)
    BY <2>2 DEF Enter, EnterShadow, TypeOK
  <2> QED BY <2>1, <2>2
<1>5. live' \in Seq(Frame)
  <2>1. [base |-> sp, intr |-> intr] \in Frame
    BY DEF Frame, TypeOK
  <2> QED BY <2>1, AppendProperties DEF Enter, TypeOK
<1> QED BY <1>1, <1>2, <1>3, <1>4, <1>5 DEF TypeOK

LEMMA LeaveType ==
  ASSUME TypeOK, NEW intr \in BOOLEAN, Leave(intr), inside' \in BOOLEAN
  PROVE  TypeOK'
<1>1. live[Len(live)] \in Frame
  BY ElementOfSeq, LenProperties, EmptySeq DEF Leave, TypeOK
<1>2. sp + 2 = live[Len(live)].base /\ sp + 2 \in 1..Top /\ sp + 2 \in Ram
  BY <1>1, StackAssumption DEF Leave, TopBase, Frame, TypeOK, Ram
<1>3. /\ marks' \in [Ram -> 0..2] /\ lastSP' \in 1..Top
      /\ shadow' \in Seq([to : Code, from : Code]) /\ Len(shadow') <= MaxShadow
      /\ fault' \in {"none", "overflow", "underflow"}
  BY <1>2, DecType DEF Leave
<1>4. pc' \in Code /\ sp' \in Ram
  BY <1>2 DEF Leave
<1>5. ram' \in [Ram -> Cell]
  BY <1>2, AboveType DEF Leave
<1>6. live' \in Seq(Frame)
  <2>1. Len(live) - 1 \in 0..Len(live)
    BY DEF Leave, TypeOK
  <2> QED BY <2>1, FirstN DEF Leave, TypeOK
<1> QED BY <1>3, <1>4, <1>5, <1>6 DEF TypeOK

LEMMA NextType ==
  ASSUME TypeOK, [Next]_vars
  PROVE  TypeOK'
<1>1. CASE Call
  <2>1. PICK to \in Entries, len \in 1..2 :
          /\ pc + len \in Code
          /\ Enter(to, pc + len, FALSE)
    BY <1>1 DEF Call
  <2>2. inside' \in BOOLEAN /\ to \in Code
    BY <1>1, StackAssumption DEF Call, TypeOK
  <2> QED BY <2>1, <2>2, EnterType
<1>2. CASE Interrupt
  <2>1. Vector \in Code /\ pc \in Code /\ inside' \in BOOLEAN
    BY <1>2, StackAssumption DEF Interrupt, TypeOK
  <2> QED BY <1>2, <2>1, EnterType DEF Interrupt
<1>3. CASE Ret
  BY <1>3, LeaveType DEF Ret, TypeOK
<1>4. CASE Reti
  BY <1>4, LeaveType DEF Reti
<1>5. CASE Push
  <2>1. sp' \in Ram /\ ram' \in [Ram -> Cell]
    BY <1>5, StackAssumption DEF Push, TypeOK, Ram, Cell
  <2> QED BY <1>5, <2>1 DEF Push, debugger, TypeOK
<1>6. CASE Pop
  <2>1. sp + 1 \in 1..Top /\ sp + 1 \in Ram
    BY <1>6, StackAssumption DEF Pop, TypeOK, Ram
  <2>2. /\ marks' \in [Ram -> 0..2] /\ lastSP' \in 1..Top
        /\ shadow' \in Seq([to : Code, from : Code]) /\ Len(shadow') <= MaxShadow
        /\ fault' \in {"none", "overflow", "underflow"}
    BY <1>6, <2>1, DecType DEF Pop
  <2>3. ram' \in [Ram -> Cell] /\ live' \in Seq(Frame)
    BY <1>6, <2>1, AboveType, KeptType DEF Pop
  <2> QED BY <1>6, <2>1, <2>2, <2>3 DEF Pop, TypeOK
<1>7. CASE OutSP
  <2>1. PICK s \in Ram \ {sp} :
          sp' = s /\ ram' = Above(s) /\ live' = Kept(s)
    BY <1>7 DEF OutSP
  <2>2. ram' \in [Ram -> Cell] /\ live' \in Seq(Frame)
    BY <2>1, AboveType, KeptType
  <2>3. UNCHANGED <<pc, inside, debugger, fault>>
    BY <1>7 DEF OutSP
  <2> QED BY <2>1, <2>2, <2>3 DEF debugger, TypeOK
<1>8. CASE Jump
  BY <1>8 DEF Jump, debugger, TypeOK
<1>9. CASE Reset
  <2>1. pc' \in Code /\ sp' \in Ram
    BY <1>9, StackAssumption DEF Reset, Ram, Code
  <2>2. ram' \in [Ram -> Cell] /\ marks' \in [Ram -> 0..2]
    BY <1>9 DEF Reset, Cell
  <2>3. /\ shadow' \in Seq([to : Code, from : Code]) /\ Len(shadow') <= MaxShadow
        /\ live' \in Seq(Frame)
    BY <1>9, EmptySeq, StackAssumption DEF Reset
  <2> QED BY <1>9, <2>1, <2>2, <2>3 DEF Reset, TypeOK
<1>10. CASE UNCHANGED vars
  BY <1>10 DEF vars, TypeOK
<1> QED
  BY <1>1, <1>2, <1>3, <1>4, <1>5, <1>6, <1>7, <1>8, <1>9, <1>10 DEF Next

LEMMA InitType ==
  ASSUME Init
  PROVE  TypeOK
<1>1. pc \in Code /\ sp \in Ram /\ lastSP \in 1..Top
  BY StackAssumption DEF Init, Ram, Code
<1>2. ram \in [Ram -> Cell] /\ marks \in [Ram -> 0..2]
  BY DEF Init, Cell
<1>3. /\ shadow \in Seq([to : Code, from : Code]) /\ Len(shadow) <= MaxShadow
      /\ live \in Seq(Frame)
  BY EmptySeq, StackAssumption DEF Init
<1> QED BY <1>1, <1>2, <1>3 DEF Init, TypeOK

(* The stack pointer, the stack and the debugger's arrays stay what they    *)
(* are, and lastSPRecived never becomes 0: pushAddrToStack, the pops and    *)
(* registerStackDec.                                                        *)
THEOREM TypeCorrect == Spec => []TypeOK
<1>1. Init => TypeOK
  BY InitType
<1>2. TypeOK /\ [Next]_vars => TypeOK'
  BY NextType
<1> QED BY <1>1, <1>2, PTL DEF Spec

-----------------------------------------------------------------------------
(* The frames of a program that only discards: each lies below the one it  *)
(* was entered from, and the stack pointer is below them all.              *)
FramesNest ==
  /\ \A k \in 1..Len(live) : sp < live[k].base
  /\ \A j, k \in 1..Len(live) : j < k => live[k].base < live[j].base

InsideInv == TypeOK /\ FramesNest /\ InsideHasFrame

LEMMA BaseType ==
  ASSUME TypeOK, NEW k \in 1..Len(live)
  PROVE  live[k] \in Frame /\ live[k].base \in Ram
<1>1. live[k] \in Frame
  BY ElementOfSeq DEF TypeOK
<1> QED BY <1>1 DEF Frame

(* Stepping back to s keeps every frame, or loses the innermost one.       *)
LEMMA KeptAll ==
  ASSUME TypeOK, NEW s \in Ram, \A k \in 1..Len(live) : s < live[k].base
  PROVE  Kept(s) = live
<1>1. {k \in 1..Len(live) : live[k].base > s} = 1..Len(live)
  BY BaseType DEF Ram
<1>2. Cardinality(1..Len(live)) = Len(live)
  <2>1. Len(live) \in Nat
    BY DEF TypeOK
  <2> QED BY <2>1, CountInterval
<1>3. SubSeq(live, 1, Len(live)) = live
  BY SubSeqProperties DEF TypeOK
<1> QED BY <1>1, <1>2, <1>3 DEF Kept

LEMMA KeptOuter ==
  ASSUME TypeOK, FramesNest, live # <<>>
  PROVE  Kept(live[Len(live)].base) = SubSeq(live, 1, Len(live) - 1)
<1> DEFINE n == Len(live)
<1>1. n \in Nat /\ n > 0
  BY EmptySeq DEF TypeOK
<1>2. \A k \in 1..n : live[k].base > live[n].base <=> k # n
  BY <1>1, BaseType DEF FramesNest, Ram
<1>3. {k \in 1..n : live[k].base > live[n].base} = 1..(n - 1)
  BY <1>1, <1>2
<1>4. Cardinality(1..(n - 1)) = n - 1
  BY <1>1, FS_Interval
<1> QED BY <1>3, <1>4 DEF Kept

(* What a step does to the frames: nothing, enters one, leaves the          *)
(* innermost one, or starts over.                                           *)
LEMMA FramesSame ==
  ASSUME InsideInv, TypeOK', live' = live, inside' = inside,
         \A k \in 1..Len(live) : sp' < live[k].base
  PROVE  InsideInv'
BY DEF InsideInv, FramesNest, InsideHasFrame

LEMMA FrameEntered ==
  ASSUME InsideInv, TypeOK', NEW to \in Code, NEW resume \in Code,
         NEW intr \in BOOLEAN, Enter(to, resume, intr),
         inside' = (inside \/ intr)
  PROVE  InsideInv'
<1> DEFINE n == Len(live)
           new == [base |-> sp, intr |-> intr]
<1>1. live' = Append(live, new) /\ sp' = sp - 2 /\ sp \in Nat /\ n \in Nat
  BY DEF Enter, InsideInv, TypeOK, Ram
<1>2. /\ Len(live') = n + 1 /\ live'[n + 1] = new
      /\ \A k \in 1..n : live'[k] = live[k]
  BY <1>1, AppendProperties DEF InsideInv, TypeOK
<1>3. \A k \in 1..n : sp < live[k].base /\ live[k].base \in Nat
  BY BaseType DEF InsideInv, FramesNest, Ram
<1>4. \A k \in 1..(n + 1) : sp' < live'[k].base
  BY <1>1, <1>2, <1>3
<1>5. \A j, k \in 1..(n + 1) : j < k => live'[k].base < live'[j].base
  <2> SUFFICES ASSUME NEW j \in 1..(n + 1), NEW k \in 1..(n + 1), j < k
               PROVE  live'[k].base < live'[j].base
    OBVIOUS
  <2>1. j \in 1..n
    BY <1>1
  <2>2. CASE k = n + 1
    BY <1>2, <1>3, <2>1, <2>2
  <2>3. CASE k # n + 1
    <3>1. k \in 1..n
      BY <1>1, <2>3
    <3> QED BY <1>2, <2>1, <3>1 DEF InsideInv, FramesNest
  <2> QED BY <2>2, <2>3
<1>6. inside' => \E k \in 1..(n + 1) : live'[k].intr
  <2>1. CASE intr
    BY <1>1, <1>2, <2>1
  <2>2. CASE ~intr
    <3>1. inside' => \E k \in 1..n : live[k].intr
      BY <2>2 DEF InsideInv, InsideHasFrame
    <3> QED BY <1>1, <1>2, <3>1
  <2> QED BY <2>1, <2>2
<1> QED BY <1>2, <1>4, <1>5, <1>6 DEF InsideInv, FramesNest, InsideHasFrame

LEMMA FrameLeft ==
  ASSUME InsideInv, TypeOK', live # <<>>,
         live' = SubSeq(live, 1, Len(live) - 1),
         sp' = live[Len(live)].base,
         ~inside' \/ (inside' = inside /\ ~live[Len(live)].intr)
  PROVE  InsideInv'
<1> DEFINE n == Len(live)
<1>1. n \in Nat /\ n > 0
  BY EmptySeq DEF InsideInv, TypeOK
<1>2. Len(live') = n - 1 /\ \A k \in 1..(n - 1) : live'[k] = live[k]
  <2>1. n - 1 \in 0..Len(live) /\ live \in Seq(Frame)
    BY <1>1 DEF InsideInv, TypeOK
  <2> QED BY <2>1, FirstN
<1>3. \A k \in 1..(n - 1) : sp' < live[k].base
  BY <1>1 DEF InsideInv, FramesNest
<1>4. \A j, k \in 1..(n - 1) : j < k => live[k].base < live[j].base
  BY <1>1 DEF InsideInv, FramesNest
<1>5. inside' => \E k \in 1..(n - 1) : live[k].intr
  <2> SUFFICES ASSUME inside'
               PROVE  \E k \in 1..(n - 1) : live[k].intr
    OBVIOUS
  <2>1. inside /\ ~live[n].intr
    OBVIOUS
  <2>2. PICK k \in 1..n : live[k].intr
    BY <2>1 DEF InsideInv, InsideHasFrame
  <2>3. k # n
    BY <2>1, <2>2
  <2>4. k \in 1..(n - 1)
    BY <1>1, <2>3
  <2> QED BY <2>2, <2>4
<1> QED
  BY <1>2, <1>3, <1>4, <1>5 DEF InsideInv, FramesNest, InsideHasFrame

LEMMA LeaveFrames ==
  ASSUME InsideInv, TypeOK', NEW intr \in BOOLEAN, Leave(intr),
         ~inside' \/ (inside' = inside /\ ~intr)
  PROVE  InsideInv'
<1>1. live # <<>> /\ live[Len(live)].intr = intr
  BY DEF Leave
<1>2. Len(live) \in 1..Len(live)
  BY <1>1, EmptySeq DEF InsideInv, TypeOK
<1>3. live[Len(live)].base \in Int
  BY <1>2, BaseType DEF InsideInv, Ram
<1>4. sp' = live[Len(live)].base
  BY <1>1, <1>3 DEF Leave, TopBase, InsideInv, TypeOK, Ram
<1> QED BY <1>1, <1>4, FrameLeft DEF Leave

LEMMA InsideNext ==
  ASSUME InsideInv, [Next]_vars, "drop" \notin Habits
  PROVE  InsideInv'
<1>t. TypeOK /\ TypeOK'
  BY NextType DEF InsideInv
<1>b. \A k \in 1..Len(live) :
        /\ live[k].base \in Int /\ sp < live[k].base
        /\ TopBase \in Int /\ TopBase <= live[k].base
  <2> SUFFICES ASSUME NEW k \in 1..Len(live)
               PROVE  /\ live[k].base \in Int /\ sp < live[k].base
                      /\ TopBase \in Int /\ TopBase <= live[k].base
    OBVIOUS
  <2>1. Len(live) \in 1..Len(live) /\ live # <<>>
    BY <1>t, EmptySeq DEF TypeOK
  <2>2. live[k].base \in Int /\ live[Len(live)].base \in Int
    BY <1>t, <2>1, BaseType DEF Ram
  <2>3. TopBase = live[Len(live)].base
    BY <2>1 DEF TopBase
  <2>4. live[Len(live)].base <= live[k].base
    <3>1. CASE k = Len(live)
      BY <2>2, <3>1
    <3>2. CASE k # Len(live)
      <4>1. k < Len(live)
        BY <2>1, <3>2
      <4>2. live[Len(live)].base < live[k].base
        BY <2>1, <4>1 DEF InsideInv, FramesNest
      <4> QED BY <2>2, <4>2
    <3> QED BY <3>1, <3>2
  <2> QED BY <2>2, <2>3, <2>4 DEF InsideInv, FramesNest
<1>s. sp \in Int
  BY <1>t DEF TypeOK, Ram
<1>1. CASE Call
  <2>1. PICK to \in Entries, len \in 1..2 :
          pc + len \in Code /\ Enter(to, pc + len, FALSE)
    BY <1>1 DEF Call
  <2>2. to \in Code /\ inside' = (inside \/ FALSE)
    BY <1>1, <1>t, StackAssumption DEF Call, TypeOK
  <2> QED BY <1>t, <2>1, <2>2, FrameEntered
<1>2. CASE Interrupt
  <2>1. Vector \in Code /\ pc \in Code /\ inside' = (inside \/ TRUE)
    BY <1>2, <1>t, StackAssumption DEF Interrupt, TypeOK
  <2> QED BY <1>2, <1>t, <2>1, FrameEntered DEF Interrupt
<1>3. CASE Ret
  BY <1>3, <1>t, LeaveFrames DEF Ret
<1>4. CASE Reti
  BY <1>4, <1>t, LeaveFrames DEF Reti
<1>5. CASE Push
  <2>1. live' = live /\ inside' = inside /\ sp' = sp - 1
    BY <1>5 DEF Push
  <2>2. \A k \in 1..Len(live) : sp' < live[k].base
    BY <1>b, <1>s, <2>1
  <2> QED BY <1>t, <2>1, <2>2, FramesSame
<1>6. CASE Pop
  <2>1. sp' = sp + 1 /\ sp' \in Ram /\ live' = Kept(sp') /\ inside' = inside
    BY <1>6, <1>t DEF Pop, TypeOK
  <2>2. CASE sp + 1 <= TopBase - 2 \/ live = <<>> \/ sp + 1 < TopBase
    <3>1. \A k \in 1..Len(live) : sp' < live[k].base
      <4>1. live = <<>> => Len(live) = 0
        OBVIOUS
      <4> QED BY <1>b, <1>s, <2>1, <2>2, <4>1
    <3> QED BY <1>t, <2>1, <3>1, KeptAll, FramesSame
  <2>3. CASE ~(sp + 1 <= TopBase - 2) /\ live # <<>> /\ ~(sp + 1 < TopBase)
    <3>1. ~live[Len(live)].intr
      BY <1>6, <2>3 DEF Pop
    <3>2. TopBase = live[Len(live)].base /\ Len(live) \in 1..Len(live)
      BY <1>t, <2>3, EmptySeq DEF TopBase, TypeOK
    <3>3. sp' = live[Len(live)].base
      BY <1>b, <1>s, <2>1, <2>3, <3>2
    <3>4. live' = SubSeq(live, 1, Len(live) - 1)
      BY <1>t, <2>1, <2>3, <3>3, KeptOuter DEF InsideInv
    <3> QED BY <1>t, <2>1, <2>3, <3>1, <3>3, <3>4, FrameLeft
  <2> QED BY <2>2, <2>3
<1>7. CASE OutSP
  <2>1. PICK s \in Ram \ {sp} :
          s <= TopBase - 2 /\ sp' = s /\ live' = Kept(s) /\ inside' = inside
    BY <1>7, "drop" \notin Habits DEF OutSP
  <2>2. \A k \in 1..Len(live) : sp' < live[k].base
    BY <1>b, <2>1 DEF Ram
  <2> QED BY <1>t, <2>1, <2>2, KeptAll, FramesSame
<1>8. CASE Jump
  BY <1>8, <1>b, <1>t, FramesSame DEF Jump
<1>9. CASE Reset
  BY <1>9, <1>t DEF Reset, InsideInv, FramesNest, InsideHasFrame
<1>10. CASE UNCHANGED vars
  BY <1>10, <1>b, <1>t, FramesSame DEF vars
<1> QED
  BY <1>1, <1>2, <1>3, <1>4, <1>5, <1>6, <1>7, <1>8, <1>9, <1>10 DEF Next

(* insideInterrupt is a flag that the RETI of a nested handler clears for   *)
(* the outer one too; but while it is set, some interrupt has not returned, *)
(* for any program that never moves SP past a frame it is in.               *)
THEOREM InsideInterrupt ==
  ASSUME "drop" \notin Habits
  PROVE  Spec => []InsideHasFrame
<1>1. Init => InsideInv
  <2> SUFFICES ASSUME Init PROVE InsideInv
    OBVIOUS
  <2>1. TypeOK
    BY InitType
  <2>2. live = <<>> /\ inside = FALSE
    BY DEF Init
  <2> QED BY <2>1, <2>2 DEF InsideInv, FramesNest, InsideHasFrame
<1>2. InsideInv /\ [Next]_vars => InsideInv'
  BY InsideNext
<1>3. InsideInv => InsideHasFrame
  BY DEF InsideInv
<1> QED BY <1>1, <1>2, <1>3, PTL DEF Spec

-----------------------------------------------------------------------------
(* The debugger never shows too little.  Every low byte that is marked has *)
(* an entry of its own, so no pop takes an entry that is not there; and    *)
(* the low byte of every frame on the stack is marked.                     *)

Marked == {i \in Ram : marks[i] = 1}

ShallowInv ==
  /\ TypeOK /\ FramesNest
  /\ fault # "overflow" =>
       /\ fault = "none"
       /\ \A k \in 1..Len(live) : marks[live[k].base] = 1
       /\ Cardinality(Marked) <= Len(shadow)

LEMMA RamFinite ==
  ASSUME NEW S \in SUBSET Ram
  PROVE  IsFiniteSet(S) /\ Cardinality(S) \in Nat
<1>1. IsFiniteSet(Ram)
  BY FS_Interval, StackAssumption DEF Ram
<1>2. IsFiniteSet(S)
  BY <1>1, FS_Subset
<1> QED BY <1>2, FS_CardinalityType

(* The frames left when the stack pointer moves to s are the outermost     *)
(* ones: those whose return address lies above it.                         *)
LEMMA KeptPrefix ==
  ASSUME TypeOK, FramesNest, NEW s \in Ram
  PROVE  \E m \in 0..Len(live) :
           /\ Kept(s) = SubSeq(live, 1, m)
           /\ \A k \in 1..Len(live) : live[k].base > s <=> k <= m
<1> DEFINE n == Len(live)
           K == {k \in 1..n : live[k].base > s}
           m == Cardinality(K)
<1>1. n \in Nat /\ \A k \in 1..n : live[k].base \in Int
  BY BaseType DEF TypeOK, Ram
<1>2. m \in 0..n /\ IsFiniteSet(K)
  <2>1. K \in SUBSET (1..n)
    OBVIOUS
  <2>2. IsFiniteSet(1..n)
    BY <1>1, CountInterval
  <2> QED BY <1>1, <2>1, <2>2, CountUpTo, FS_Subset
<1>3. ASSUME NEW k \in K PROVE k <= m
  <2>1. 1..k \in SUBSET K
    <3> SUFFICES ASSUME NEW j \in 1..k PROVE j \in K
      OBVIOUS
    <3>1. j \in 1..n /\ k \in 1..n /\ live[k].base > s /\ s \in Int
      BY <1>1 DEF Ram
    <3>2. CASE j = k
      BY <3>2
    <3>3. CASE j # k
      <4>1. j < k
        BY <1>1, <3>1, <3>3
      <4>2. live[k].base < live[j].base
        BY <3>1, <4>1 DEF FramesNest
      <4>3. live[j].base > s
        BY <1>1, <3>1, <4>2
      <4> QED BY <3>1, <4>3
    <3> QED BY <3>2, <3>3
  <2>2. Cardinality(1..k) = k
    BY <1>1, FS_Interval
  <2>3. Cardinality(1..k) <= m
    BY <1>2, <2>1, FS_Subset
  <2> QED BY <2>2, <2>3
<1>4. K \in SUBSET (1..m)
  BY <1>1, <1>2, <1>3
<1>5. IsFiniteSet(1..m) /\ Cardinality(1..m) = m
  BY <1>2, FS_Interval
<1>6. K = 1..m
  <2> HIDE DEF K
  <2> QED BY <1>4, <1>5, FS_Subset
<1>7. Kept(s) = SubSeq(live, 1, m)
  BY DEF Kept
<1> HIDE DEF m
<1>8. \A k \in 1..n : live[k].base > s <=> k <= m
  BY <1>1, <1>2, <1>6
<1> QED BY <1>2, <1>7, <1>8

(* What Kept returns, as the proofs below use it. *)
LEMMA KeptFrames ==
  ASSUME TypeOK, FramesNest, NEW s \in Ram
  PROVE  LET kept == Kept(s) IN
         /\ Len(kept) \in Nat /\ Len(kept) <= Len(live)
         /\ \A k \in 1..Len(kept) : kept[k] = live[k] /\ s < live[k].base
<1>1. PICK m \in 0..Len(live) :
        /\ Kept(s) = SubSeq(live, 1, m)
        /\ \A k \in 1..Len(live) : live[k].base > s <=> k <= m
  BY KeptPrefix
<1>2. /\ Len(SubSeq(live, 1, m)) = m
      /\ \A k \in 1..m : SubSeq(live, 1, m)[k] = live[k]
  BY FirstN DEF TypeOK
<1>3. \A k \in 1..m : live[k].base \in Int /\ live[k].base > s
  BY <1>1, BaseType DEF TypeOK, Ram
<1> QED BY <1>1, <1>2, <1>3 DEF Ram

(* Nesting is kept when frames go from the inner end. *)
LEMMA NestKept ==
  ASSUME FramesNest, Len(live) \in Nat, Len(live') \in Nat, Len(live') <= Len(live),
         \A k \in 1..Len(live') : live'[k] = live[k] /\ sp' < live[k].base
  PROVE  FramesNest'
BY DEF FramesNest

LEMMA NestEntered ==
  ASSUME TypeOK, FramesNest, sp' = sp - 2, NEW intr \in BOOLEAN,
         live' = Append(live, [base |-> sp, intr |-> intr])
  PROVE  /\ FramesNest'
         /\ Len(live') = Len(live) + 1 /\ live'[Len(live) + 1].base = sp
         /\ \A k \in 1..Len(live) : live'[k] = live[k]
<1> DEFINE n == Len(live)
           new == [base |-> sp, intr |-> intr]
<1>1. sp \in Nat /\ n \in Nat /\ new \in Frame
  BY DEF TypeOK, Ram, Frame
<1>2. /\ Len(live') = n + 1 /\ live'[n + 1] = new
      /\ \A k \in 1..n : live'[k] = live[k]
  BY <1>1, AppendProperties DEF TypeOK
<1>3. \A k \in 1..n : sp < live[k].base /\ live[k].base \in Nat
  BY BaseType DEF FramesNest, Ram
<1>4. \A k \in 1..(n + 1) : sp' < live'[k].base
  BY <1>1, <1>2, <1>3
<1>5. \A j, k \in 1..(n + 1) : j < k => live'[k].base < live'[j].base
  <2> SUFFICES ASSUME NEW j \in 1..(n + 1), NEW k \in 1..(n + 1), j < k
               PROVE  live'[k].base < live'[j].base
    OBVIOUS
  <2>1. j \in 1..n
    BY <1>1
  <2>2. CASE k = n + 1
    BY <1>2, <1>3, <2>1, <2>2
  <2>3. CASE k # n + 1
    <3>1. k \in 1..n
      BY <1>1, <2>3
    <3> QED BY <1>2, <2>1, <3>1 DEF FramesNest
  <2> QED BY <2>2, <2>3
<1> QED BY <1>2, <1>4, <1>5 DEF FramesNest

(* registerStackDec pops one entry for each low byte it unmarks. *)
LEMMA DecShallow ==
  ASSUME TypeOK, fault = "none", Cardinality(Marked) <= Len(shadow),
         NEW addr \in 1..Top, RegisterStackDec(addr)
  PROVE  /\ fault' = "none" /\ Cardinality(Marked') <= Len(shadow')
         /\ \A i \in Ram : i > addr => marks'[i] = marks[i]
<1> DEFINE bytes == (lastSP - 1)..addr
           B == {i \in bytes : marks[i] = 1}
<1>1. bytes \in SUBSET Ram /\ lastSP - 1 \in Int /\ marks \in [Ram -> 0..2]
      /\ Len(shadow) \in Nat
  BY StackAssumption DEF TypeOK, Ram
<1>2. marks' = [i \in Ram |-> IF i \in bytes THEN 0 ELSE marks[i]]
  BY DEF RegisterStackDec, Unmarked
<1> HIDE DEF bytes
<1>3. B = Marked \cap bytes /\ Marked' = Marked \ bytes
  BY <1>1, <1>2 DEF Marked
<1>4. /\ IsFiniteSet(Marked) /\ Cardinality(Marked) \in Nat
      /\ Cardinality(Marked \cap bytes) \in Nat
  BY RamFinite DEF Marked
<1>5. Cardinality(Marked \ bytes) = Cardinality(Marked) - Cardinality(Marked \cap bytes)
  BY <1>4, FS_Difference
<1>6. Calls(bytes) = Cardinality(Marked \cap bytes)
  BY <1>3 DEF Calls
<1>7. Cardinality(Marked \cap bytes) <= Cardinality(Marked)
  BY <1>4, FS_Intersection
<1> DEFINE c == Calls(bytes)
<1>8. c \in 0..Len(shadow) /\ Cardinality(Marked') = Cardinality(Marked) - c
  BY <1>1, <1>3, <1>4, <1>5, <1>6, <1>7
<1>9. PopEntries(c)
  BY DEF RegisterStackDec, bytes
<1> HIDE DEF c
<1>10. shadow' = SubSeq(shadow, 1, Len(shadow) - c) /\ fault' = fault
  BY <1>1, <1>8, <1>9 DEF PopEntries
<1>11. Len(shadow') = Len(shadow) - c
  <2>1. Len(shadow) - c \in 0..Len(shadow)
    BY <1>1, <1>8
  <2> QED BY <1>10, <2>1, FirstN DEF TypeOK
<1>12. \A i \in Ram : i > addr => marks'[i] = marks[i]
  <2>1. \A i \in Ram : i > addr => i \notin bytes
    BY DEF bytes, Ram
  <2> QED BY <1>2, <2>1
<1> QED BY <1>1, <1>4, <1>8, <1>10, <1>11, <1>12

(* A call or an interrupt marks one low byte and adds one entry, unless    *)
(* the array is full.                                                      *)
LEMMA EnterShallow ==
  ASSUME ShallowInv, TypeOK', NEW to, NEW resume, NEW intr \in BOOLEAN,
         Enter(to, resume, intr)
  PROVE  ShallowInv'
<1>1. /\ fault = "none" /\ sp \in Ram /\ sp \in Int /\ sp - 1 \in Ram /\ sp' = sp - 2
      /\ marks \in [Ram -> 0..2] /\ Len(shadow) \in Nat
      /\ marks' = [marks EXCEPT ![sp] = 1, ![sp - 1] = 2]
  BY StackAssumption DEF Enter, EnterShadow, ShallowInv, TypeOK, Ram
<1>2. live' = Append(live, [base |-> sp, intr |-> intr])
  BY DEF Enter
<1>3. /\ FramesNest'
      /\ Len(live') = Len(live) + 1 /\ live'[Len(live) + 1].base = sp
      /\ \A k \in 1..Len(live) : live'[k] = live[k]
  BY <1>1, <1>2, NestEntered DEF ShallowInv
<1>4. CASE Len(shadow) < MaxShadow
  <2>1. fault' = "none" /\ Len(shadow') = Len(shadow) + 1
    <3>1. shadow' = Append(shadow, [to |-> to, from |-> pc]) /\ fault' = fault
      BY <1>4 DEF Enter, EnterShadow
    <3>2. shadow \in Seq([to : Code, from : Code])
      BY DEF ShallowInv, TypeOK
    <3> QED BY <1>1, <3>1, <3>2
  <2>2. marks'[sp] = 1 /\ \A i \in Ram : i > sp => marks'[i] = marks[i]
    BY <1>1 DEF Ram
  <2>3. \A k \in 1..Len(live') : marks'[live'[k].base] = 1
    <3> SUFFICES ASSUME NEW k \in 1..Len(live') PROVE marks'[live'[k].base] = 1
      OBVIOUS
    <3>1. Len(live) \in Nat
      BY DEF ShallowInv, TypeOK
    <3>2. CASE k \in 1..Len(live)
      <4>1. live[k].base \in Ram /\ live[k].base > sp /\ marks[live[k].base] = 1
        BY <1>1, <3>2, BaseType DEF ShallowInv, FramesNest, Ram
      <4> QED BY <1>3, <2>2, <3>2, <4>1
    <3>3. CASE k = Len(live) + 1
      BY <1>3, <2>2, <3>3
    <3> QED BY <1>3, <3>1, <3>2, <3>3
  <2>4. Cardinality(Marked') <= Cardinality(Marked) + 1 /\ Cardinality(Marked) \in Nat
        /\ Cardinality(Marked') \in Nat
    <3>1. Marked' \in SUBSET (Marked \cup {sp})
      <4> SUFFICES ASSUME NEW i \in Ram, marks'[i] = 1, i # sp PROVE marks[i] = 1
        BY DEF Marked
      <4>1. marks'[i] = IF i = sp - 1 THEN 2 ELSE marks[i]
        BY <1>1
      <4> QED BY <4>1
    <3>2. /\ IsFiniteSet(Marked) /\ Cardinality(Marked) \in Nat
          /\ Cardinality(Marked') \in Nat
      BY RamFinite DEF Marked
    <3>3. /\ IsFiniteSet(Marked \cup {sp})
          /\ Cardinality(Marked \cup {sp}) <= Cardinality(Marked) + 1
      BY <3>2, FS_AddElement
    <3>4. Cardinality(Marked \cup {sp}) \in Nat
      BY <3>3, FS_CardinalityType
    <3>5. Cardinality(Marked') <= Cardinality(Marked \cup {sp})
      BY <3>1, <3>3, FS_Subset
    <3> QED BY <3>2, <3>3, <3>4, <3>5
  <2>5. Cardinality(Marked') <= Len(shadow')
    BY <1>1, <2>1, <2>4 DEF ShallowInv
  <2> QED BY <1>3, <2>1, <2>3, <2>5 DEF ShallowInv
<1>5. CASE ~(Len(shadow) < MaxShadow)
  <2>1. fault' = "overflow"
    BY <1>5 DEF Enter, EnterShadow
  <2> QED BY <1>3, <2>1 DEF ShallowInv
<1> QED BY <1>4, <1>5

(* Frames go from the inner end, and what is unmarked lies below the rest. *)
LEMMA GoneShallow ==
  ASSUME ShallowInv, TypeOK', fault' = "none",
         Len(live') <= Len(live), Cardinality(Marked') <= Len(shadow'),
         \A k \in 1..Len(live') : live'[k] = live[k] /\ sp' < live[k].base,
         fault = "none", \A i \in Ram : i > sp' => marks'[i] = marks[i]
  PROVE  ShallowInv'
<1>1. Len(live) \in Nat /\ Len(live') \in Nat
  BY DEF ShallowInv, TypeOK
<1>2. FramesNest'
  BY <1>1, NestKept DEF ShallowInv
<1>3. ASSUME NEW k \in 1..Len(live') PROVE marks'[live'[k].base] = 1
  <2>1. k \in 1..Len(live)
    BY <1>1
  <2>2. live[k].base \in Ram /\ sp' \in Ram
    BY <2>1, BaseType DEF ShallowInv, TypeOK
  <2>3. live[k].base > sp' /\ marks[live[k].base] = 1
    BY <2>1, <2>2 DEF ShallowInv, Ram
  <2> QED BY <2>2, <2>3
<1> QED BY <1>2, <1>3 DEF ShallowInv

LEMMA LeaveShallow ==
  ASSUME ShallowInv, TypeOK', NEW intr \in BOOLEAN, Leave(intr)
  PROVE  ShallowInv'
<1> DEFINE n == Len(live)
<1>1. n \in Nat \ {0} /\ live # <<>>
  BY EmptySeq DEF Leave, ShallowInv, TypeOK
<1>2. live[n].base \in Ram /\ n \in 1..n
  BY <1>1, BaseType DEF ShallowInv
<1>3. sp' = live[n].base /\ sp' \in 1..Top /\ sp + 2 = sp'
  BY <1>1, <1>2 DEF Leave, TopBase, ShallowInv, TypeOK, Ram
<1>4. RegisterStackDec(sp')
  BY <1>3 DEF Leave
<1>5. fault = "none" /\ Cardinality(Marked) <= Len(shadow)
  BY DEF Leave, ShallowInv
<1>6. /\ fault' = "none" /\ Cardinality(Marked') <= Len(shadow')
      /\ \A i \in Ram : i > sp' => marks'[i] = marks[i]
  BY <1>3, <1>4, <1>5, DecShallow DEF ShallowInv
<1>7. Len(live') = n - 1 /\ \A k \in 1..(n - 1) : live'[k] = live[k]
  <2>1. n - 1 \in 0..Len(live) /\ live \in Seq(Frame) /\ live' = SubSeq(live, 1, n - 1)
    BY <1>1 DEF ShallowInv, TypeOK, Leave
  <2> QED BY <2>1, FirstN
<1>8. \A k \in 1..(n - 1) : sp' < live[k].base
  BY <1>1, <1>3 DEF ShallowInv, FramesNest
<1> QED BY <1>1, <1>5, <1>6, <1>7, <1>8, GoneShallow

LEMMA ShallowNext ==
  ASSUME ShallowInv, [Next]_vars
  PROVE  ShallowInv'
<1>t. TypeOK /\ TypeOK' /\ sp \in Int /\ Len(live) \in Nat
  BY NextType DEF ShallowInv, TypeOK, Ram
<1>b. \A k \in 1..Len(live) : live[k].base \in Int /\ sp < live[k].base
  BY BaseType DEF ShallowInv, FramesNest, Ram
<1>1. CASE Call
  BY <1>1, <1>t, EnterShallow DEF Call
<1>2. CASE Interrupt
  BY <1>2, <1>t, EnterShallow DEF Interrupt
<1>3. CASE Ret
  BY <1>3, <1>t, LeaveShallow DEF Ret
<1>4. CASE Reti
  BY <1>4, <1>t, LeaveShallow DEF Reti
<1>5. CASE Push
  <2>1. /\ live' = live /\ marks' = marks /\ shadow' = shadow /\ fault' = fault
        /\ sp' = sp - 1 /\ fault = "none"
    BY <1>5 DEF Push, debugger
  <2>2. Marked' = Marked
    BY <2>1 DEF Marked
  <2> QED BY <1>t, <1>b, <2>1, <2>2, GoneShallow DEF ShallowInv
<1>6. CASE Pop
  <2>1. sp' = sp + 1 /\ sp' \in 1..Top /\ sp' \in Ram /\ live' = Kept(sp')
        /\ RegisterStackDec(sp') /\ fault = "none"
    BY <1>6, <1>t DEF Pop, TypeOK, Ram
  <2>2. /\ fault' = "none" /\ Cardinality(Marked') <= Len(shadow')
        /\ \A i \in Ram : i > sp' => marks'[i] = marks[i]
    BY <2>1, DecShallow DEF ShallowInv
  <2> QED BY <1>t, <2>1, <2>2, KeptFrames, GoneShallow DEF ShallowInv
<1>7. CASE OutSP
  <2>1. /\ sp' \in Ram /\ live' = Kept(sp') /\ fault = "none" /\ fault' = fault
        /\ marks' = marks /\ shadow' = shadow
    BY <1>7 DEF OutSP, debugger
  <2>2. Marked' = Marked
    BY <2>1 DEF Marked
  <2> QED BY <1>t, <2>1, <2>2, KeptFrames, GoneShallow DEF ShallowInv
<1>8. CASE Jump
  <2>1. /\ live' = live /\ marks' = marks /\ shadow' = shadow /\ fault' = fault
        /\ sp' = sp /\ fault = "none"
    BY <1>8 DEF Jump, debugger
  <2>2. Marked' = Marked
    BY <2>1 DEF Marked
  <2> QED BY <1>t, <1>b, <2>1, <2>2, GoneShallow DEF ShallowInv
<1>9. CASE Reset
  <2>1. /\ live' = <<>> /\ shadow' = <<>> /\ marks' = [i \in Ram |-> 0]
        /\ fault' = "none"
    BY <1>9 DEF Reset
  <2>2. Marked' = {}
    BY <2>1 DEF Marked
  <2>3. Cardinality(Marked') = 0 /\ Len(shadow') = 0 /\ Len(live') = 0
    BY <2>1, <2>2, FS_EmptySet
  <2> QED BY <1>t, <2>1, <2>3 DEF ShallowInv, FramesNest
<1>10. CASE UNCHANGED vars
  BY <1>10 DEF vars, ShallowInv, FramesNest, Marked, TypeOK
<1> QED
  BY <1>1, <1>2, <1>3, <1>4, <1>5, <1>6, <1>7, <1>8, <1>9, <1>10 DEF Next

LEMMA InitShallow == Init => ShallowInv
<1> SUFFICES ASSUME Init PROVE ShallowInv
  OBVIOUS
<1>1. TypeOK
  BY InitType
<1>2. /\ live = <<>> /\ shadow = <<>> /\ marks = [i \in Ram |-> 0] /\ fault = "none"
  BY DEF Init
<1>3. Marked = {}
  BY <1>2 DEF Marked
<1>4. Cardinality(Marked) = 0 /\ Len(shadow) = 0 /\ Len(live) = 0
  BY <1>2, <1>3, FS_EmptySet
<1> QED BY <1>1, <1>2, <1>4 DEF ShallowInv, FramesNest

LEMMA BasesDiffer ==
  ASSUME TypeOK, FramesNest, NEW j \in 1..Len(live), NEW k \in 1..Len(live), j # k
  PROVE  live[j].base # live[k].base
<1>1. live[k].base \in Int /\ live[j].base \in Int /\ Len(live) \in Nat
  BY BaseType DEF TypeOK, Ram
<1>2. j < k \/ k < j
  BY <1>1
<1> QED BY <1>1, <1>2 DEF FramesNest

(* While there is no overflow, no entry is missing.                        *)
LEMMA MarksCount ==
  ASSUME ShallowInv, fault # "overflow"
  PROVE  NeverTooShallow
<1> DEFINE n == Len(live)
           f == [k \in 1..n |-> live[k].base]
<1>1. /\ fault = "none" /\ n \in Nat /\ Len(shadow) \in Nat
      /\ Cardinality(Marked) <= Len(shadow) /\ TypeOK /\ FramesNest
      /\ \A k \in 1..n : marks[live[k].base] = 1
  BY DEF ShallowInv, TypeOK
<1>2. IsFiniteSet(Marked) /\ Cardinality(Marked) \in Nat
  BY RamFinite DEF Marked
<1>3. f \in [1..n -> Marked]
  BY <1>1, BaseType DEF Marked
<1>4. \A j, k \in 1..n : j # k => f[j] # f[k]
  BY <1>1, BasesDiffer
<1>5. IsFiniteSet(1..n) /\ Cardinality(1..n) = n
  BY <1>1, CountInterval
<1> HIDE DEF f
<1>6. ~(Cardinality(Marked) < n)
  BY <1>2, <1>3, <1>4, <1>5, FS_PigeonHole
<1> QED BY <1>1, <1>2, <1>6 DEF NeverTooShallow

(* What is left to say of the call that finds the array full: it is the    *)
(* only one without an entry.  A return address takes the byte of its base *)
(* and the one below, so no base is below 2.                               *)
FullInv ==
  /\ ShallowInv
  /\ \A k \in 1..Len(live) : live[k].base >= 2
  /\ fault = "overflow" => Len(shadow) = MaxShadow /\ Len(live) <= MaxShadow + 1

LEMMA EnterFull ==
  ASSUME FullInv, ShallowInv', NEW to, NEW resume, NEW intr \in BOOLEAN,
         Enter(to, resume, intr)
  PROVE  FullInv'
<1>1. /\ TypeOK /\ FramesNest /\ sp \in Int /\ sp >= 2 /\ sp' = sp - 2
      /\ fault = "none" /\ Len(shadow) \in Nat /\ Len(shadow) <= MaxShadow
      /\ MaxShadow \in Nat
      /\ live' = Append(live, [base |-> sp, intr |-> intr])
  BY StackAssumption DEF FullInv, ShallowInv, Enter, TypeOK, Ram
<1>2. /\ Len(live') = Len(live) + 1 /\ live'[Len(live) + 1].base = sp
      /\ \A k \in 1..Len(live) : live'[k] = live[k]
  BY <1>1, NestEntered
<1>3. Len(live) \in Nat /\ Len(live) <= Len(shadow)
  BY <1>1, MarksCount DEF FullInv, NeverTooShallow, TypeOK
<1>4. ASSUME NEW k \in 1..Len(live') PROVE live'[k].base >= 2
  <2>1. k \in 1..Len(live) \/ k = Len(live) + 1
    BY <1>2, <1>3
  <2> QED BY <1>1, <1>2, <2>1 DEF FullInv
<1>5. fault' = "overflow" => Len(shadow') = MaxShadow
  BY <1>1 DEF Enter, EnterShadow
<1>6. Len(live') <= MaxShadow + 1
  BY <1>1, <1>2, <1>3
<1> QED BY <1>4, <1>5, <1>6 DEF FullInv

(* Frames go from the inner end, and nothing is added.                     *)
LEMMA GoneFull ==
  ASSUME FullInv, ShallowInv', fault' # "overflow",
         Len(live') \in Nat, Len(live') <= Len(live),
         \A k \in 1..Len(live') : live'[k] = live[k]
  PROVE  FullInv'
<1>1. Len(live) \in Nat
  BY DEF FullInv, ShallowInv, TypeOK
<1> QED BY <1>1 DEF FullInv

LEMMA DecFull ==
  ASSUME fault = "none", NEW addr, RegisterStackDec(addr)
  PROVE  fault' # "overflow"
BY DEF RegisterStackDec, PopEntries

LEMMA LeaveFull ==
  ASSUME FullInv, ShallowInv', NEW intr \in BOOLEAN, Leave(intr)
  PROVE  FullInv'
<1> DEFINE n == Len(live)
<1>1. n \in Nat \ {0} /\ live \in Seq(Frame) /\ live' = SubSeq(live, 1, n - 1)
  BY EmptySeq DEF Leave, FullInv, ShallowInv, TypeOK
<1>2. n - 1 \in 0..Len(live)
  BY <1>1
<1>3. Len(live') = n - 1 /\ \A k \in 1..(n - 1) : live'[k] = live[k]
  BY <1>1, <1>2, FirstN
<1>4. fault' # "overflow"
  BY DecFull DEF Leave
<1> QED BY <1>1, <1>3, <1>4, GoneFull

LEMMA FullNext ==
  ASSUME FullInv, [Next]_vars
  PROVE  FullInv'
<1>t. TypeOK /\ FramesNest /\ Len(live) \in Nat /\ ShallowInv'
  BY ShallowNext DEF FullInv, ShallowInv, TypeOK
<1>1. CASE Call
  BY <1>1, <1>t, EnterFull DEF Call
<1>2. CASE Interrupt
  BY <1>2, <1>t, EnterFull DEF Interrupt
<1>3. CASE Ret
  BY <1>3, <1>t, LeaveFull DEF Ret
<1>4. CASE Reti
  BY <1>4, <1>t, LeaveFull DEF Reti
<1>5. CASE Push
  BY <1>5, <1>t, GoneFull DEF Push
<1>6. CASE Pop
  <2>1. fault' # "overflow"
    BY <1>6, DecFull DEF Pop
  <2>2. sp \in Ram /\ sp < Top /\ sp' = sp + 1 /\ live' = Kept(sp')
    BY <1>6, <1>t DEF Pop, TypeOK
  <2>3. sp' \in Ram
    BY <2>2, StackAssumption DEF Ram
  <2> QED BY <1>t, <2>1, <2>2, <2>3, KeptFrames, GoneFull
<1>7. CASE OutSP
  <2>1. PICK s \in Ram : live' = Kept(s) /\ fault' = "none"
    BY <1>7 DEF OutSP
  <2> QED BY <1>t, <2>1, KeptFrames, GoneFull
<1>8. CASE Jump
  BY <1>8, <1>t, GoneFull DEF Jump
<1>9. CASE Reset
  <2>1. Len(live') = 0 /\ fault' = "none"
    BY <1>9 DEF Reset
  <2> QED BY <1>t, <2>1, GoneFull
<1>10. CASE UNCHANGED vars
  BY <1>10, <1>t DEF vars, FullInv
<1> QED
  BY <1>1, <1>2, <1>3, <1>4, <1>5, <1>6, <1>7, <1>8, <1>9, <1>10 DEF Next

LEMMA InitFull == Init => FullInv
<1>1. Init => Len(live) = 0 /\ fault = "none"
  BY DEF Init
<1> QED BY <1>1, InitShallow DEF FullInv

(* A program may do anything with its stack, throw whole stacks away       *)
(* (longjmp) included: registerStackDec never takes an entry that is not   *)
(* there, and no call or interrupt that is still on the stack is hidden    *)
(* but the one for which callStack has no room, if there comes one.        *)
THEOREM NeverHides ==
  Spec => []( \/ NeverTooShallow
              \/ fault = "overflow" /\ Len(shadow) = MaxShadow
                 /\ Len(live) = MaxShadow + 1)
<1> DEFINE Claim == \/ NeverTooShallow
                    \/ fault = "overflow" /\ Len(shadow) = MaxShadow
                       /\ Len(live) = MaxShadow + 1
<1>1. ASSUME FullInv PROVE Claim
  <2>1. CASE fault # "overflow"
    BY <1>1, <2>1, MarksCount DEF FullInv
  <2>2. CASE fault = "overflow"
    BY <1>1, <2>2, StackAssumption DEF FullInv, ShallowInv, TypeOK, NeverTooShallow
  <2> QED BY <2>1, <2>2
<1>2. FullInv /\ [Next]_vars => FullInv'
  BY FullNext
<1>3. FullInv => Claim
  BY <1>1
<1> QED BY InitFull, <1>2, <1>3, PTL DEF Spec

(* The same without exception where callStack has an entry for all the     *)
(* frames that fit the stack.  Their bases differ, and the lowest is 2.    *)
THEOREM NothingHidden ==
  ASSUME MaxShadow >= Top - 1
  PROVE  Spec => []NeverTooShallow
<1>1. ASSUME FullInv PROVE NeverTooShallow
  <2> DEFINE n == Len(live)
             f == [k \in 1..n |-> live[k].base - 1]
  <2>1. /\ n \in Nat /\ TypeOK /\ FramesNest /\ Top - 1 \in Nat /\ MaxShadow \in Nat
        /\ \A k \in 1..n : live[k].base \in 2..Top
    BY <1>1, BaseType, StackAssumption DEF FullInv, ShallowInv, TypeOK, Ram
  <2>2. f \in [1..n -> 1..(Top - 1)]
    <3> SUFFICES ASSUME NEW k \in 1..n PROVE live[k].base - 1 \in 1..(Top - 1)
      OBVIOUS
    <3>1. live[k].base \in 2..Top
      BY <2>1
    <3> QED BY <2>1, <3>1, StackAssumption
  <2>3. \A j, k \in 1..n : j # k => f[j] # f[k]
    BY <2>1, BasesDiffer
  <2>4. /\ IsFiniteSet(1..n) /\ Cardinality(1..n) = n
        /\ IsFiniteSet(1..(Top - 1)) /\ Cardinality(1..(Top - 1)) = Top - 1
    BY <2>1, CountInterval
  <2> HIDE DEF f
  <2>5. ~(Top - 1 < n)
    BY <2>2, <2>3, <2>4, FS_PigeonHole
  <2>6. CASE fault = "overflow"
    BY <1>1, <2>1, <2>5, <2>6 DEF FullInv, NeverTooShallow
  <2>7. CASE fault # "overflow"
    BY <1>1, <2>7, MarksCount DEF FullInv
  <2> QED BY <2>6, <2>7
<1>2. FullInv /\ [Next]_vars => FullInv'
  BY FullNext
<1>3. FullInv => NeverTooShallow
  BY <1>1
<1> QED BY InitFull, <1>2, <1>3, PTL DEF Spec

-----------------------------------------------------------------------------
(* The refinement of CallFrames, by programs that leave a frame by         *)
(* returning or by popping its address.  For them the debugger's view is   *)
(* exact: the low bytes that are marked are those of the frames on the     *)
(* stack, one entry each, and the search of registerStackDec starts no     *)
(* higher than the innermost of them.                                      *)
Bases == {live[k].base : k \in 1..Len(live)}

ExactInv ==
  /\ TypeOK /\ FramesNest
  /\ fault # "overflow" =>
       /\ fault = "none" /\ Len(shadow) = Len(live)
       /\ Marked = Bases /\ lastSP <= TopBase

(* Functions on 1..n are sequences. *)
LEMMA FunSeq ==
  ASSUME NEW n \in Nat, NEW f, f = [k \in 1..n |-> f[k]],
         NEW S, \A k \in 1..n : f[k] \in S
  PROVE  f \in Seq(S) /\ Len(f) = n
<1>1. f \in [1..n -> S]
  OBVIOUS
<1>2. f \in Seq(S)
  BY <1>1, SeqDef
<1>3. Len(f) \in Nat /\ DOMAIN f = 1..Len(f) /\ DOMAIN f = 1..n
  BY <1>1, <1>2, LenProperties
<1> QED BY <1>2, <1>3

LEMMA FunAppend ==
  ASSUME NEW n \in Nat, NEW f, f = [k \in 1..n |-> f[k]],
         NEW g, g = [k \in 1..(n + 1) |-> g[k]], \A k \in 1..n : g[k] = f[k]
  PROVE  g = Append(f, g[n + 1])
<1> DEFINE S == {g[k] : k \in 1..(n + 1)}
           h == Append(f, g[n + 1])
<1>1. \A k \in 1..(n + 1) : g[k] \in S
  OBVIOUS
<1>2. \A k \in 1..n : f[k] \in S
  <2>1. \A k \in 1..n : k \in 1..(n + 1)
    OBVIOUS
  <2> HIDE DEF S
  <2> QED BY <1>1, <2>1, Zenon
<1> HIDE DEF S
<1>3. f \in Seq(S) /\ Len(f) = n
  BY <1>2, FunSeq
<1>4. n + 1 \in Nat /\ g[n + 1] \in S
  BY <1>1
<1>5. g \in Seq(S) /\ Len(g) = n + 1
  BY <1>1, <1>4, FunSeq
<1>6. /\ h \in Seq(S) /\ Len(h) = n + 1 /\ h[n + 1] = g[n + 1]
      /\ \A k \in 1..n : h[k] = f[k]
  BY <1>3, <1>4, AppendProperties
<1> HIDE DEF h
<1>7. ASSUME NEW k \in 1..Len(g) PROVE g[k] = h[k]
  <2>1. k \in 1..n \/ k = n + 1
    BY <1>5
  <2>2. CASE k \in 1..n
    BY <1>6, <2>2, Zenon
  <2> QED BY <1>6, <2>1, <2>2
<1>8. g = h
  BY <1>5, <1>6, <1>7, SeqEqual
<1> QED BY <1>8 DEF h

LEMMA FunOuter ==
  ASSUME NEW n \in Nat, NEW f, f = [k \in 1..(n + 1) |-> f[k]],
         NEW g, g = [k \in 1..n |-> g[k]], \A k \in 1..n : g[k] = f[k]
  PROVE  g = SubSeq(f, 1, Len(f) - 1) /\ Len(f) = n + 1
<1> DEFINE S == {f[k] : k \in 1..(n + 1)}
           h == SubSeq(f, 1, n)
<1>1. \A k \in 1..(n + 1) : f[k] \in S
  OBVIOUS
<1>2. \A k \in 1..n : g[k] \in S
  <2>1. \A k \in 1..n : k \in 1..(n + 1)
    OBVIOUS
  <2> HIDE DEF S
  <2> QED BY <1>1, <2>1, Zenon
<1> HIDE DEF S
<1>3. g \in Seq(S) /\ Len(g) = n
  BY <1>2, FunSeq
<1>4. f \in Seq(S) /\ Len(f) = n + 1
  <2>1. n + 1 \in Nat
    OBVIOUS
  <2> QED BY <1>1, <2>1, FunSeq
<1>5. h \in Seq(S) /\ Len(h) = n /\ \A k \in 1..n : h[k] = f[k]
  BY <1>4, FirstN
<1> HIDE DEF h
<1>6. g = h
  BY <1>3, <1>5, SeqEqual
<1>7. Len(f) - 1 = n
  BY <1>4
<1> QED BY <1>4, <1>6, <1>7 DEF h

(* The innermost frame is the lowest one. *)
LEMMA InnermostLowest ==
  ASSUME TypeOK, FramesNest
  PROVE  /\ TopBase \in Int /\ sp < TopBase
         /\ \A k \in 1..Len(live) : TopBase <= live[k].base
         /\ \A k \in 1..Len(live) : live[k].base = TopBase => k = Len(live)
<1>0. sp \in Int /\ sp <= Top /\ Len(live) \in Nat /\ Top \in Nat
  BY StackAssumption DEF TypeOK, Ram
<1>1. CASE live = <<>>
  BY <1>0, <1>1 DEF TopBase
<1>2. CASE live # <<>>
  <2> DEFINE n == Len(live)
  <2>1. n \in 1..n /\ TopBase = live[n].base
    BY <1>2, EmptySeq DEF TypeOK, TopBase
  <2>2. \A k \in 1..n : live[k].base \in Int
    BY BaseType DEF Ram
  <2>3. \A k \in 1..n : k # n => live[n].base < live[k].base
    BY <1>0, <2>1 DEF FramesNest
  <2> QED BY <2>1, <2>2, <2>3 DEF FramesNest
<1> QED BY <1>1, <1>2

(* registerStackDec below the innermost frame changes nothing that shows;  *)
(* at its low byte it pops its entry and no other.                         *)
LEMMA DecExact ==
  ASSUME ExactInv, fault = "none", NEW addr \in 1..Top, addr <= TopBase,
         RegisterStackDec(addr)
  PROVE  /\ fault' = "none" /\ lastSP' = addr
         /\ addr < TopBase => Marked' = Marked /\ shadow' = shadow
         /\ addr = TopBase /\ live # <<>> =>
              /\ Marked' = Marked \ {addr}
              /\ shadow' = SubSeq(shadow, 1, Len(shadow) - 1)
<1> DEFINE bytes == (lastSP - 1)..addr
           B == {i \in bytes : marks[i] = 1}
<1>1. /\ bytes \in SUBSET Ram /\ lastSP \in Int /\ marks \in [Ram -> 0..2]
      /\ Len(shadow) \in Nat /\ addr \in Int /\ lastSP <= TopBase /\ TopBase \in Int
  BY StackAssumption, InnermostLowest DEF ExactInv, TypeOK, Ram
<1>2. marks' = [i \in Ram |-> IF i \in bytes THEN 0 ELSE marks[i]] /\ lastSP' = addr
      /\ PopEntries(Calls(bytes))
  BY DEF RegisterStackDec, Unmarked
<1>3. \A i \in bytes : i <= addr /\ i \in Int
  BY <1>1
<1>4. \A i \in Marked : TopBase <= i /\ i \in Int
  BY InnermostLowest, BaseType DEF ExactInv, Bases, Ram
<1>5. addr = TopBase => addr \in bytes
  BY <1>1
<1> HIDE DEF bytes
<1>6. B = Marked \cap bytes /\ Marked' = Marked \ bytes
  BY <1>1, <1>2 DEF Marked
<1>7. Calls(bytes) = Cardinality(B)
  BY DEF Calls
<1>8. CASE addr < TopBase
  <2>1. Marked \cap bytes = {}
    BY <1>1, <1>3, <1>4, <1>8
  <2>2. Calls(bytes) = 0
    BY <1>6, <1>7, <2>1, FS_EmptySet
  <2>3. shadow' = SubSeq(shadow, 1, Len(shadow) - 0) /\ fault' = fault
    BY <1>1, <1>2, <2>2 DEF PopEntries
  <2>4. shadow' = shadow
    BY <1>1, <2>3, SubSeqFull DEF ExactInv, TypeOK
  <2>5. Marked' = Marked /\ ~(addr = TopBase)
    BY <1>1, <1>6, <1>8, <2>1
  <2>6. fault' = "none" /\ lastSP' = addr
    BY <1>2, <2>3
  <2> QED BY <2>4, <2>5, <2>6, Zenon
<1>9. CASE addr = TopBase /\ live = <<>>
  <2>1. addr = Top + 2
    BY <1>9 DEF TopBase
  <2>2. FALSE
    BY <2>1, StackAssumption
  <2> QED BY <2>2
<1>10. CASE addr = TopBase /\ live # <<>>
  <2>1. addr \in Marked
    <3>1. Len(live) \in 1..Len(live) /\ TopBase = live[Len(live)].base
      BY <1>10, EmptySeq DEF ExactInv, TypeOK, TopBase
    <3>2. addr \in Bases
      BY <1>10, <3>1 DEF Bases
    <3> QED BY <3>2 DEF ExactInv
  <2>2. Marked \cap bytes = {addr} /\ Marked \ bytes = Marked \ {addr}
    BY <1>1, <1>3, <1>4, <1>5, <1>10, <2>1
  <2>3. Calls(bytes) = 1
    BY <1>6, <1>7, <2>2, FS_Singleton
  <2>4. Len(shadow) >= 1
    <3>1. Len(shadow) = Len(live)
      BY DEF ExactInv
    <3> QED BY <1>10, <3>1, EmptySeq DEF ExactInv, TypeOK
  <2>5. shadow' = SubSeq(shadow, 1, Len(shadow) - 1) /\ fault' = fault
    BY <1>1, <1>2, <2>3, <2>4 DEF PopEntries
  <2> QED BY <1>1, <1>2, <1>6, <1>10, <2>2, <2>5
<1> QED BY <1>1, <1>8, <1>9, <1>10

(* What the frames of CallFrames become. *)
LEMMA ShownShape ==
  /\ Shown = [k \in 1..Len(shadow) |-> Shown[k]]
  /\ \A k \in 1..Len(shadow) :
       Shown[k] = [to |-> shadow[k].to, from |-> shadow[k].from,
                   resume |-> IF k <= Len(live) THEN ram[live[k].base][2] ELSE 0]
BY DEF Shown

(* Entries, frames and return addresses stay, so does what is shown. *)
LEMMA ShownSame ==
  ASSUME Len(shadow) \in Nat, Len(live) = Len(shadow), live' = live, shadow' = shadow,
         \A k \in 1..Len(live) : ram'[live[k].base] = ram[live[k].base]
  PROVE  Shown' = Shown
<1>1. Len(live') = Len(live) /\ Len(shadow') = Len(shadow)
  OBVIOUS
<1> QED BY <1>1 DEF Shown

(* The first n entries show what they showed. *)
LEMMA ShownPrefix ==
  ASSUME NEW n \in Nat, n <= Len(shadow), n <= Len(shadow'), n <= Len(live), n <= Len(live'),
         Len(shadow) \in Nat, Len(shadow') \in Nat, Len(live) \in Nat, Len(live') \in Nat,
         \A k \in 1..n : /\ shadow'[k] = shadow[k] /\ live'[k] = live[k]
                         /\ ram'[live[k].base] = ram[live[k].base]
  PROVE  \A k \in 1..n : Shown'[k] = Shown[k]
<1> SUFFICES ASSUME NEW k \in 1..n PROVE Shown'[k] = Shown[k]
  OBVIOUS
<1>1. k \in 1..Len(shadow) /\ k \in 1..Len(shadow') /\ k <= Len(live) /\ k <= Len(live')
  OBVIOUS
<1>2. Shown[k] = [to |-> shadow[k].to, from |-> shadow[k].from,
                  resume |-> ram[live[k].base][2]]
  BY <1>1 DEF Shown
<1>3. Shown'[k] = [to |-> shadow'[k].to, from |-> shadow'[k].from,
                   resume |-> ram'[live'[k].base][2]]
  BY <1>1 DEF Shown
<1> QED BY <1>2, <1>3

(* A call or an interrupt of the machine is one of CallFrames. *)
LEMMA EnterExact ==
  ASSUME ExactInv, TypeOK', fault' # "overflow", NEW to \in Code, NEW len \in 0..2,
         NEW intr \in BOOLEAN, Enter(to, pc + len, intr)
  PROVE  ExactInv' /\ Frames!Enter(to, len)
<1> DEFINE n == Len(live)
           resume == pc + len
           entry == [to |-> to, from |-> pc]
           new == [base |-> sp, intr |-> intr]
<1>1. /\ fault = "none" /\ sp \in Ram /\ sp \in Int /\ sp >= 2 /\ sp - 1 \in Ram
      /\ sp' = sp - 2 /\ marks \in [Ram -> 0..2] /\ n \in Nat /\ Len(shadow) = n
      /\ pc \in Code /\ entry \in [to : Code, from : Code] /\ new \in Frame
      /\ marks' = [marks EXCEPT ![sp] = 1, ![sp - 1] = 2]
      /\ ram \in [Ram -> Cell] /\ Marked = Bases
      /\ ram' = [ram EXCEPT ![sp] = Low(resume), ![sp - 1] = High(resume)]
      /\ live' = Append(live, new) /\ pc' = to /\ lastSP' = sp
      /\ shadow \in Seq([to : Code, from : Code]) /\ live \in Seq(Frame)
  BY StackAssumption DEF Enter, EnterShadow, ExactInv, TypeOK, Ram, Frame
<1>2. shadow' = Append(shadow, entry) /\ fault' = fault
  BY DEF Enter, EnterShadow
<1> HIDE DEF resume
<1>3. /\ FramesNest' /\ Len(live') = n + 1 /\ live'[n + 1].base = sp
      /\ \A k \in 1..n : live'[k] = live[k]
  BY <1>1, NestEntered DEF ExactInv
<1>4. /\ Len(shadow') = n + 1 /\ shadow'[n + 1] = entry
      /\ \A k \in 1..n : shadow'[k] = shadow[k]
  BY <1>1, <1>2, AppendProperties
<1>5. \A k \in 1..n : live[k].base \in Ram /\ live[k].base \in Int /\ live[k].base > sp
  BY <1>1, BaseType DEF ExactInv, FramesNest, Ram
<1>6. \A i \in Ram : i > sp => ram'[i] = ram[i] /\ marks'[i] = marks[i]
  BY <1>1 DEF Ram
<1>7. marks'[sp] = 1 /\ marks'[sp - 1] = 2 /\ ram'[sp] = Low(resume)
  <2>1. sp # sp - 1
    BY <1>1
  <2> QED BY <1>1, <2>1
<1>8. Marked' = Marked \cup {sp}
  <2>1. \A i \in Ram : i # sp /\ i # sp - 1 => marks'[i] = marks[i]
    BY <1>1
  <2>2. sp - 1 \notin Marked
    BY <1>1, <1>5 DEF Bases
  <2>3. sp - 1 # sp
    BY <1>1
  <2>4. \A i \in Ram : marks'[i] = 1 <=> marks[i] = 1 \/ i = sp
    <3> SUFFICES ASSUME NEW i \in Ram PROVE marks'[i] = 1 <=> marks[i] = 1 \/ i = sp
      OBVIOUS
    <3>1. CASE i = sp
      BY <1>7, <3>1
    <3>2. CASE i = sp - 1
      BY <1>1, <1>7, <2>2, <2>3, <3>2 DEF Marked
    <3> QED BY <2>1, <3>1, <3>2
  <2> QED BY <1>1, <2>4 DEF Marked
<1>9. Bases' = Bases \cup {sp}
  <2>1. 1..Len(live') = 1..n \cup {n + 1}
    BY <1>1, <1>3
  <2>2. \A k \in 1..n : live'[k].base = live[k].base
    BY <1>3
  <2> QED BY <1>3, <2>1, <2>2 DEF Bases
<1>10. TopBase' = sp
  <2>1. live' # <<>>
    BY <1>1, AppendProperties
  <2> QED BY <1>3, <2>1 DEF TopBase
<1>11. ExactInv'
  BY <1>1, <1>2, <1>3, <1>4, <1>8, <1>9, <1>10 DEF ExactInv
<1>12. \A k \in 1..n : Shown'[k] = Shown[k]
  <2>1. \A k \in 1..n : ram'[live[k].base] = ram[live[k].base]
    BY <1>5, <1>6
  <2>2. /\ n \in Nat /\ n <= Len(shadow) /\ n <= Len(shadow') /\ n <= Len(live)
        /\ n <= Len(live') /\ Len(shadow) \in Nat /\ Len(shadow') \in Nat
        /\ Len(live) \in Nat /\ Len(live') \in Nat
    BY <1>1, <1>3, <1>4
  <2>3. \A k \in 1..n : /\ shadow'[k] = shadow[k] /\ live'[k] = live[k]
                        /\ ram'[live[k].base] = ram[live[k].base]
    BY <1>3, <1>4, <2>1
  <2> HIDE DEF n
  <2> QED BY <2>2, <2>3, ShownPrefix
<1>13. Shown'[n + 1] = [to |-> to, from |-> pc, resume |-> resume]
  <2>1. n + 1 \in 1..Len(shadow') /\ n + 1 <= Len(live')
    BY <1>1, <1>3, <1>4
  <2>2. Shown'[n + 1] = [to |-> entry.to, from |-> entry.from, resume |-> ram'[sp][2]]
    BY <1>3, <1>4, <2>1 DEF Shown
  <2>3. ram'[sp][2] = resume
    BY <1>7 DEF Low
  <2> QED BY <2>2, <2>3
<1>14. Shown = [k \in 1..n |-> Shown[k]] /\ Shown' = [k \in 1..(n + 1) |-> Shown'[k]]
  BY <1>1, <1>4 DEF Shown
<1>15. Shown' = Append(Shown, [to |-> to, from |-> pc, resume |-> resume])
  <2> DEFINE s == Shown
             t == Shown'
  <2>1. /\ s = [k \in 1..n |-> s[k]] /\ t = [k \in 1..(n + 1) |-> t[k]]
        /\ \A k \in 1..n : t[k] = s[k]
    BY <1>12, <1>14
  <2> HIDE DEF s, t, n
  <2>2. n \in Nat
    BY <1>1 DEF n
  <2>3. t = Append(s, t[n + 1])
    BY <2>1, <2>2, FunAppend
  <2> QED BY <1>13, <2>3 DEF s, t, n
<1> QED BY <1>1, <1>3, <1>11, <1>15 DEF Frames!Enter, resume

(* The innermost frame goes, with its entry: what is shown is what was     *)
(* around it.                                                              *)
LEMMA OuterExact ==
  ASSUME ExactInv, TypeOK', fault = "none", live # <<>>,
         sp' = TopBase, RegisterStackDec(sp'), ram' = Above(sp'),
         live' = SubSeq(live, 1, Len(live) - 1)
  PROVE  /\ ExactInv' /\ Shown # <<>> /\ Len(Shown) = Len(live)
         /\ Shown' = SubSeq(Shown, 1, Len(Shown) - 1)
         /\ Len(live') = Len(live) - 1
<1> DEFINE n == Len(live)
           m == n - 1
<1>1. /\ n \in Nat \ {0} /\ m \in Nat /\ n = m + 1 /\ TopBase = live[n].base
      /\ Len(shadow) = n /\ sp' \in 1..Top /\ sp' \in Int /\ lastSP \in Int
      /\ shadow \in Seq([to : Code, from : Code]) /\ live \in Seq(Frame)
      /\ Marked = Bases /\ ram \in [Ram -> Cell] /\ sp' \in Ram
  <2>1. n \in Nat \ {0}
    BY EmptySeq DEF ExactInv, TypeOK
  <2>2. TopBase = live[n].base /\ TopBase > sp /\ sp \in Ram
    BY InnermostLowest DEF TopBase, ExactInv, TypeOK
  <2>3. sp' \in Ram /\ sp' > 0
    BY <2>2, StackAssumption DEF TypeOK, Ram
  <2> QED BY <2>1, <2>2, <2>3, StackAssumption DEF ExactInv, TypeOK, Ram
<1>2. /\ fault' = "none" /\ lastSP' = sp' /\ Marked' = Marked \ {sp'}
      /\ shadow' = SubSeq(shadow, 1, Len(shadow) - 1)
  <2>1. sp' <= TopBase
    BY <1>1
  <2> QED BY <1>1, <2>1, DecExact
<1>3. Len(live') = m /\ \A k \in 1..m : live'[k] = live[k]
  <2>1. m \in 0..Len(live)
    BY <1>1
  <2> QED BY <1>1, <2>1, FirstN
<1>4. Len(shadow') = m /\ \A k \in 1..m : shadow'[k] = shadow[k]
  <2>1. m \in 0..Len(shadow)
    BY <1>1
  <2> QED BY <1>1, <1>2, <2>1, FirstN
<1>5. \A k \in 1..m : live[k].base \in Ram /\ live[k].base \in Int /\ live[k].base > sp'
  <2>1. \A k \in 1..m : k \in 1..n /\ k < n /\ n \in 1..n
    BY <1>1
  <2>2. \A k \in 1..n : live[k].base \in Ram /\ live[k].base \in Int
    BY BaseType DEF ExactInv, Ram
  <2> QED BY <1>1, <2>1, <2>2 DEF ExactInv, FramesNest
<1>6. FramesNest'
  <2>1. m <= n
    BY <1>1
  <2> QED BY <1>1, <1>3, <1>5, <2>1, NestKept DEF ExactInv
<1>7. Bases' = Bases \ {sp'}
  <2>1. 1..n = 1..m \cup {n} /\ 1..Len(live') = 1..m
    BY <1>1, <1>3
  <2>2. \A k \in 1..m : live'[k].base = live[k].base /\ live[k].base # sp'
    BY <1>1, <1>3, <1>5
  <2> QED BY <1>1, <2>1, <2>2 DEF Bases
<1>8. lastSP' <= TopBase'
  <2>1. CASE live' = <<>>
    BY <1>1, <1>2, <2>1, StackAssumption DEF TopBase
  <2>2. CASE live' # <<>>
    <3>1. m \in 1..m
      BY <1>1, <1>3, <2>2, EmptySeq DEF TypeOK
    <3>2. TopBase' = live[m].base
      BY <1>3, <2>2, <3>1 DEF TopBase
    <3> QED BY <1>1, <1>2, <1>5, <3>1, <3>2
  <2> QED BY <2>1, <2>2
<1>9. ExactInv'
  BY <1>1, <1>2, <1>3, <1>4, <1>6, <1>7, <1>8 DEF ExactInv
<1>10. \A k \in 1..m : ram'[live[k].base] = ram[live[k].base]
  BY <1>1, <1>5 DEF Above
<1>11. \A k \in 1..m : Shown'[k] = Shown[k]
  <2>1. /\ m \in Nat /\ m <= Len(shadow) /\ m <= Len(shadow') /\ m <= Len(live)
        /\ m <= Len(live') /\ Len(shadow) \in Nat /\ Len(shadow') \in Nat
        /\ Len(live) \in Nat /\ Len(live') \in Nat
    BY <1>1, <1>3, <1>4
  <2>2. \A k \in 1..m : /\ shadow'[k] = shadow[k] /\ live'[k] = live[k]
                        /\ ram'[live[k].base] = ram[live[k].base]
    BY <1>3, <1>4, <1>10
  <2> HIDE DEF m
  <2> QED BY <2>1, <2>2, ShownPrefix
<1>12. Shown = [k \in 1..(m + 1) |-> Shown[k]] /\ Shown' = [k \in 1..m |-> Shown'[k]]
  BY <1>1, <1>4 DEF Shown
<1>13. Shown' = SubSeq(Shown, 1, Len(Shown) - 1) /\ Len(Shown) = m + 1
  <2> DEFINE s == Shown
             t == Shown'
  <2>1. /\ s = [k \in 1..(m + 1) |-> s[k]] /\ t = [k \in 1..m |-> t[k]]
        /\ \A k \in 1..m : t[k] = s[k]
    BY <1>11, <1>12
  <2> HIDE DEF s, t, m
  <2>2. m \in Nat
    BY <1>1
  <2>3. t = SubSeq(s, 1, Len(s) - 1) /\ Len(s) = m + 1
    BY <2>1, <2>2, FunOuter
  <2> QED BY <2>3 DEF s, t
<1>14. Shown # <<>>
  <2>1. Len(Shown) # 0
    BY <1>1, <1>13
  <2> QED BY <2>1
<1> QED BY <1>1, <1>3, <1>9, <1>13, <1>14

LEMMA LeaveExact ==
  ASSUME ExactInv, TypeOK', NEW intr \in BOOLEAN, Leave(intr)
  PROVE  ExactInv' /\ Frames!Leave
<1> DEFINE n == Len(live)
<1>1. /\ fault = "none" /\ live # <<>> /\ sp' = sp + 2 /\ sp = TopBase - 2
      /\ RegisterStackDec(sp + 2) /\ ram' = Above(sp')
      /\ live' = SubSeq(live, 1, Len(live) - 1)
  BY DEF Leave
<1>2. sp' = TopBase
  BY <1>1, InnermostLowest DEF ExactInv
<1>3. /\ ExactInv' /\ Shown # <<>> /\ Len(Shown) = n
      /\ Shown' = SubSeq(Shown, 1, Len(Shown) - 1)
      /\ Len(live') = n - 1
  BY <1>1, <1>2, OuterExact
<1>4. PICK a \in Code : ram[sp + 2] = Low(a) /\ pc' = a
  BY DEF Leave
<1>5. n \in 1..n /\ Len(shadow) = n /\ TopBase = live[n].base
  BY <1>1, EmptySeq DEF ExactInv, TypeOK, TopBase
<1>6. Shown[n].resume = pc'
  <2>1. n \in 1..Len(shadow) /\ n <= Len(live)
    BY <1>5
  <2>2. Shown[n] = [to |-> shadow[n].to, from |-> shadow[n].from,
                    resume |-> ram[live[n].base][2]]
    BY <2>1 DEF Shown
  <2>3. ram[live[n].base] = Low(a)
    BY <1>1, <1>2, <1>4, <1>5
  <2> QED BY <1>4, <2>2, <2>3 DEF Low
<1>7. pc' = Frames!Innermost.resume
  BY <1>3, <1>6 DEF Frames!Innermost
<1> QED BY <1>3, <1>7 DEF Frames!Leave, Frames!Outer

(* A step that touches no frame, entry or mark shows what was shown. *)
LEMMA StayExact ==
  ASSUME ExactInv, TypeOK', fault = "none", fault' = fault, live' = live,
         shadow' = shadow, Marked' = Marked, lastSP' <= TopBase,
         \A k \in 1..Len(live) : sp' < live[k].base,
         \A k \in 1..Len(live) : ram'[live[k].base] = ram[live[k].base]
  PROVE  ExactInv' /\ Shown' = Shown /\ Len(live') = Len(live)
<1>1. Len(live) \in Nat /\ Len(live) = Len(shadow) /\ Marked = Bases /\ FramesNest
  BY DEF ExactInv, TypeOK
<1>2. TopBase' = TopBase /\ Bases' = Bases /\ Len(live') = Len(live)
      /\ Len(shadow') = Len(shadow)
  BY DEF TopBase, Bases
<1>3. Shown' = Shown
  BY <1>1, ShownSame
<1>4. FramesNest'
  BY <1>1, <1>2 DEF FramesNest
<1> QED BY <1>1, <1>2, <1>3, <1>4 DEF ExactInv

LEMMA ExactNext ==
  ASSUME ExactInv, fault # "overflow", [Next]_vars, fault' # "overflow",
         "drop" \notin Habits
  PROVE  ExactInv' /\ [Frames!Next]_(Frames!vars)
<1>t. TypeOK /\ TypeOK' /\ FramesNest /\ fault = "none" /\ sp \in Int /\ Len(live) \in Nat
  BY NextType DEF ExactInv, TypeOK, Ram
<1>b. /\ TopBase \in Int /\ sp < TopBase /\ lastSP <= TopBase /\ lastSP \in Int
      /\ \A k \in 1..Len(live) : /\ live[k].base \in Ram /\ live[k].base \in Int
                                 /\ sp < live[k].base /\ TopBase <= live[k].base
  BY <1>t, InnermostLowest, BaseType DEF ExactInv, FramesNest, TypeOK, Ram
<1>1. CASE Call
  <2>1. PICK to \in Entries, len \in 1..2 : Enter(to, pc + len, FALSE)
    BY <1>1 DEF Call
  <2>2. to \in Code /\ len \in 0..2
    BY StackAssumption
  <2>3. ExactInv' /\ Frames!Enter(to, len)
    BY <1>t, <2>1, <2>2, EnterExact
  <2> QED BY <2>2, <2>3 DEF Frames!Next
<1>2. CASE Interrupt
  <2>1. Vector \in Code /\ 0 \in 0..2 /\ pc + 0 = pc
    BY <1>t, StackAssumption DEF TypeOK, Code
  <2>2. Enter(Vector, pc + 0, TRUE)
    BY <1>2, <2>1 DEF Interrupt
  <2>3. ExactInv' /\ Frames!Enter(Vector, 0)
    BY <1>t, <2>1, <2>2, EnterExact
  <2> QED BY <2>1, <2>3 DEF Frames!Next
<1>3. CASE Ret \/ Reti
  BY <1>3, <1>t, LeaveExact DEF Ret, Reti, Frames!Next
<1>5. CASE Push
  <2>1. /\ live' = live /\ marks' = marks /\ shadow' = shadow /\ fault' = fault
        /\ sp' = sp - 1 /\ lastSP' = lastSP /\ pc' = pc
        /\ ram' = [ram EXCEPT ![sp] = <<"data">>]
    BY <1>5 DEF Push, debugger
  <2>2. Marked' = Marked
    BY <2>1 DEF Marked
  <2>3. \A k \in 1..Len(live) : sp' < live[k].base
    BY <1>t, <1>b, <2>1
  <2>4. \A k \in 1..Len(live) : ram'[live[k].base] = ram[live[k].base]
    BY <1>t, <1>b, <2>1 DEF TypeOK
  <2>5. ExactInv' /\ Shown' = Shown /\ Len(live') = Len(live)
    BY <1>t, <1>b, <2>1, <2>2, <2>3, <2>4, StayExact
  <2> QED BY <2>1, <2>5 DEF Frames!vars
<1>6. CASE Pop
  <2>1. /\ sp' = sp + 1 /\ sp' \in 1..Top /\ sp' \in Ram /\ sp' \in Int
        /\ live' = Kept(sp') /\ RegisterStackDec(sp') /\ ram' = Above(sp') /\ pc' = pc
        /\ sp' <= TopBase /\ pc \in Code
    BY <1>6, <1>t, <1>b DEF Pop, TypeOK, Ram
  <2>2. /\ fault' = "none" /\ lastSP' = sp'
        /\ sp' < TopBase => Marked' = Marked /\ shadow' = shadow
    BY <1>t, <2>1, DecExact
  <2>3. CASE sp' < TopBase
    <3>1. \A k \in 1..Len(live) : sp' < live[k].base
      BY <1>b, <2>1, <2>3
    <3>2. live' = live
      BY <1>t, <2>1, <3>1, KeptAll
    <3>3. \A k \in 1..Len(live) : ram'[live[k].base] = ram[live[k].base]
      BY <1>b, <2>1, <3>1 DEF Above
    <3>4. lastSP' <= TopBase /\ fault' = fault /\ Marked' = Marked /\ shadow' = shadow
      BY <1>t, <2>1, <2>2, <2>3
    <3>5. ExactInv' /\ Shown' = Shown /\ Len(live') = Len(live)
      BY <1>t, <3>1, <3>2, <3>3, <3>4, StayExact
    <3> QED BY <2>1, <3>5 DEF Frames!vars
  <2>4. CASE sp' = TopBase
    <3>1. live # <<>>
      BY <2>1, <2>4, StackAssumption DEF TopBase
    <3>2. live' = SubSeq(live, 1, Len(live) - 1)
      <4>1. TopBase = live[Len(live)].base
        BY <3>1 DEF TopBase
      <4> QED BY <1>t, <2>1, <2>4, <3>1, <4>1, KeptOuter
    <3>3. /\ ExactInv' /\ Shown # <<>> /\ Len(Shown) = Len(live)
          /\ Shown' = SubSeq(Shown, 1, Len(Shown) - 1)
          /\ Len(live') = Len(live) - 1
      BY <1>t, <2>1, <2>4, <3>1, <3>2, OuterExact
    <3>4. Frames!Discard
      BY <2>1, <3>3 DEF Frames!Discard, Frames!Outer
    <3> QED BY <3>3, <3>4 DEF Frames!Next
  <2> QED BY <1>b, <2>1, <2>3, <2>4
<1>7. CASE OutSP
  <2>1. /\ sp' \in Ram /\ sp' \in Int /\ sp' <= TopBase - 2
        /\ live' = Kept(sp') /\ ram' = Above(sp')
        /\ marks' = marks /\ shadow' = shadow /\ fault' = fault /\ lastSP' = lastSP
        /\ pc' = pc
    BY <1>7 DEF OutSP, debugger, Ram
  <2>2. Marked' = Marked
    BY <2>1 DEF Marked
  <2>3. \A k \in 1..Len(live) : sp' < live[k].base
    BY <1>b, <2>1
  <2>4. live' = live
    BY <1>t, <2>1, <2>3, KeptAll
  <2>5. \A k \in 1..Len(live) : ram'[live[k].base] = ram[live[k].base]
    BY <1>b, <2>1, <2>3 DEF Above
  <2>6. ExactInv' /\ Shown' = Shown /\ Len(live') = Len(live)
    BY <1>t, <1>b, <2>1, <2>2, <2>3, <2>4, <2>5, StayExact
  <2> QED BY <2>1, <2>6 DEF Frames!vars
<1>8. CASE Jump
  <2>1. /\ live' = live /\ marks' = marks /\ shadow' = shadow /\ fault' = fault
        /\ sp' = sp /\ lastSP' = lastSP /\ pc' \in Code /\ ram' = ram
    BY <1>8 DEF Jump, debugger
  <2>2. Marked' = Marked
    BY <2>1 DEF Marked
  <2>3. ExactInv' /\ Shown' = Shown /\ Len(live') = Len(live)
    BY <1>t, <1>b, <2>1, <2>2, StayExact
  <2>4. Frames!Run
    BY <2>1, <2>3 DEF Frames!Run
  <2> QED BY <2>3, <2>4 DEF Frames!Next
<1>9. CASE Reset
  <2>1. /\ live' = <<>> /\ shadow' = <<>> /\ marks' = [i \in Ram |-> 0]
        /\ fault' = "none" /\ lastSP' = lastSP /\ pc' = 0
    BY <1>9, <1>t DEF Reset
  <2>2. Len(live') = 0 /\ Len(shadow') = 0
    BY <2>1
  <2>3. Marked' = {} /\ Bases' = {}
    BY <2>1, <2>2 DEF Marked, Bases
  <2>4. lastSP' <= TopBase' /\ FramesNest'
    BY <1>t, <2>1, <2>2, StackAssumption DEF TopBase, FramesNest, TypeOK
  <2>5. ExactInv'
    BY <1>t, <2>1, <2>2, <2>3, <2>4 DEF ExactInv
  <2>6. Shown' = <<>>
    BY <2>2 DEF Shown
  <2>7. Frames!Reset
    BY <2>1, <2>2, <2>6 DEF Frames!Reset
  <2> QED BY <2>5, <2>7 DEF Frames!Next
<1>10. CASE UNCHANGED vars
  <2>1. /\ live' = live /\ marks' = marks /\ shadow' = shadow /\ fault' = fault
        /\ sp' = sp /\ lastSP' = lastSP /\ pc' = pc /\ ram' = ram
    BY <1>10 DEF vars
  <2>2. Marked' = Marked
    BY <2>1 DEF Marked
  <2>3. ExactInv' /\ Shown' = Shown /\ Len(live') = Len(live)
    BY <1>t, <1>b, <2>1, <2>2, StayExact
  <2> QED BY <2>1, <2>3 DEF Frames!vars
<1> QED
  BY <1>1, <1>2, <1>3, <1>5, <1>6, <1>7, <1>8, <1>9, <1>10 DEF Next

LEMMA InitExact == Init => ExactInv /\ Frames!Init
<1> SUFFICES ASSUME Init PROVE ExactInv /\ Frames!Init
  OBVIOUS
<1>1. TypeOK
  BY InitType
<1>2. /\ live = <<>> /\ shadow = <<>> /\ marks = [i \in Ram |-> 0] /\ fault = "none"
      /\ lastSP = Top /\ pc = 0
  BY DEF Init
<1>3. Len(live) = 0 /\ Len(shadow) = 0
  BY <1>2
<1>4. Marked = {} /\ Bases = {}
  BY <1>2, <1>3 DEF Marked, Bases
<1>5. Shown = <<>>
  BY <1>3 DEF Shown
<1> QED BY <1>1, <1>2, <1>3, <1>4, <1>5, StackAssumption DEF ExactInv, FramesNest,
           TopBase, Frames!Init

(* For every program that leaves its frames by returning or by popping     *)
(* their addresses, as long as the debugger's array is not full: what      *)
(* registerAddressBytes and registerStackDec make of the pushes and pops   *)
(* they see is the list of the calls and interrupts the program is in.     *)
THEOREM TheFramesAreShown ==
  "drop" \notin Habits /\ Spec /\ [](fault # "overflow") => ShowsTheFrames
<1> DEFINE Room == fault # "overflow"
           Returns == "drop" \notin Habits
<1>1. Returns /\ ExactInv /\ Room /\ [Next]_vars /\ Room'
        => ExactInv' /\ [Frames!Next]_(Frames!vars) /\ Returns'
  BY ExactNext
<1>2. Init => ExactInv /\ Frames!Init
  BY InitExact
<1>3. Room <=> fault # "overflow"
  OBVIOUS
<1>4. Returns <=> "drop" \notin Habits
  OBVIOUS
<1> HIDE DEF Room, Returns
<1> QED BY <1>1, <1>2, <1>3, <1>4, PTL DEF Spec, ShowsTheFrames, Frames!Spec
=============================================================================
