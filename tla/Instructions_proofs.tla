------------------------- MODULE Instructions_proofs -------------------------
(***************************************************************************)
(* The disassembler lists everything execution can reach, in every program *)
(* and from all starts, and its arrows and labels are where they belong;   *)
(* sequences of byte instructions add, subtract, compare and multiply      *)
(* words, and others negate, shift, test and mask them, on all operands    *)
(* and with the flags each leaves to the next; and a handler that saves    *)
(* and restores SREG leaves it as it was.                                  *)
(***************************************************************************)
EXTENDS MCInstructions, WellFoundedInduction, TLAPS

Addr == Dis!Addr
Listed == Dis!Listed
Unread == Dis!Unread
In(s) == {s[i] : i \in DOMAIN s}
Top == walk[Len(walk)]

(* The words disasmRecurse goes to from the word at an address. *)
Reaches(at) ==
  IF flash[at][1] = "ret" THEN {}
  ELSE {Dis!Recurses(flash[at], at), Dis!GoesOn(flash[at], at)} \cap Addr

WalkTyped ==
  /\ flash \in [Addr -> Codes \cup {Unread}] /\ counted \subseteq Addr
  /\ roots \in Seq(Nat) /\ walk \in Seq(Int) /\ lines \in Seq(Addr)
(* What is listed has been read, with its second word. *)
ReadFirst ==
  \A at \in Listed : /\ flash[at] # Unread
                     /\ Dis!is2WordInst(flash[at]) => flash[at + 1] # Unread
(* A second word is plain; only the walk's own word may still wait for it. *)
Paired ==
  \A a \in Addr : Dis!is2WordInst(flash[a]) =>
    /\ a + 1 \in Addr
    /\ flash[a + 1][1] # "plain" => flash[a + 1] = Unread /\ walk # << >> /\ Top = a
(* Where a listed word leads is listed, or the walk has yet to come there. *)
Closed == \A at \in Listed : Reaches(at) \subseteq Listed \cup In(walk)
Started == In(Vectors \o Seeds) \cap Addr \subseteq Listed \cup In(walk) \cup In(roots)
Labelled ==
  \A at \in Listed : flash[at][1] = "call" => Dis!Second(flash, at) \in funcCalls

WalkInv == WalkTyped /\ ReadFirst /\ Paired /\ Closed /\ Started /\ Labelled
-----------------------------------------------------------------------------
\* Sequences as the sets of their elements

LEMMA InAppend ==
  ASSUME NEW S, NEW s \in Seq(S), NEW x \in S
  PROVE  Append(s, x) \in Seq(S) /\ In(Append(s, x)) = In(s) \cup {x}
<1> DEFINE t == Append(s, x)
<1>1. /\ t \in Seq(S) /\ Len(s) \in Nat /\ DOMAIN s = 1..Len(s)
      /\ DOMAIN t = 1..(Len(s) + 1) /\ t[Len(s) + 1] = x
      /\ \A i \in 1..Len(s) : t[i] = s[i]
  OBVIOUS
<1> HIDE DEF t
<1>2. In(t) = In(s) \cup {x}
  BY <1>1 DEF In
<1> QED BY <1>1, <1>2 DEF t

LEMMA InHead ==
  ASSUME NEW S, NEW s \in Seq(S), s # << >>
  PROVE  /\ Head(s) \in S /\ Tail(s) \in Seq(S)
         /\ In(s) = In(Tail(s)) \cup {Head(s)}
<1>1. \A x \in In(s) : x \in In(Tail(s)) \cup {Head(s)}
  <2> SUFFICES ASSUME NEW i \in DOMAIN s, i # 1
               PROVE  s[i] \in In(Tail(s))
    BY DEF In
  <2>1. i - 1 \in DOMAIN Tail(s) /\ Tail(s)[i - 1] = s[i]
    OBVIOUS
  <2> QED BY <2>1 DEF In
<1>2. \A x \in In(Tail(s)) : x \in In(s)
  <2> SUFFICES ASSUME NEW i \in DOMAIN Tail(s)
               PROVE  Tail(s)[i] \in In(s)
    BY DEF In
  <2>1. i + 1 \in DOMAIN s /\ Tail(s)[i] = s[i + 1]
    OBVIOUS
  <2> QED BY <2>1 DEF In
<1>3. Head(s) \in In(s)
  BY DEF In
<1> QED BY <1>1, <1>2, <1>3

LEMMA InFront ==
  ASSUME NEW S, NEW s \in Seq(S), s # << >>
  PROVE  /\ s[Len(s)] \in S /\ Dis!Front(s) \in Seq(S)
         /\ In(s) = In(Dis!Front(s)) \cup {s[Len(s)]}
<1>1. /\ Dis!Front(s) \in Seq(S) /\ Len(s) \in Nat \ {0}
      /\ DOMAIN Dis!Front(s) = 1..(Len(s) - 1) /\ DOMAIN s = 1..Len(s)
      /\ \A i \in 1..(Len(s) - 1) : Dis!Front(s)[i] = s[i]
  BY DEF Dis!Front
<1> QED BY <1>1 DEF In

LEMMA InReplaced ==
  ASSUME NEW S, NEW s \in Seq(S), s # << >>, NEW x \in S
  PROVE  /\ [s EXCEPT ![Len(s)] = x] \in Seq(S)
         /\ In(s) \subseteq In([s EXCEPT ![Len(s)] = x]) \cup {s[Len(s)]}
         /\ x \in In([s EXCEPT ![Len(s)] = x])
<1> DEFINE t == [s EXCEPT ![Len(s)] = x]
<1>1. /\ t \in Seq(S) /\ Len(s) \in Nat \ {0} /\ DOMAIN t = 1..Len(s) /\ DOMAIN s = 1..Len(s)
      /\ Len(s) \in DOMAIN t /\ t[Len(s)] = x
      /\ \A i \in 1..Len(s) : i # Len(s) => t[i] = s[i]
  OBVIOUS
<1> HIDE DEF t
<1>2. x \in In(t)
  <2>1. \A i \in DOMAIN t : t[i] \in In(t)
    BY DEF In
  <2> QED BY <1>1, <2>1
<1>3. In(s) \subseteq In(t) \cup {s[Len(s)]}
  <2> SUFFICES ASSUME NEW i \in 1..Len(s), i # Len(s)
               PROVE  s[i] \in In(t)
    BY <1>1 DEF In
  <2> QED BY <1>1 DEF In
<1> QED BY <1>1, <1>2, <1>3 DEF t
-----------------------------------------------------------------------------
\* Words and where they lead

LEMMA ListedIsIn == Listed = In(lines) /\ (WalkTyped => Listed \subseteq Addr)
<1>1. Listed = In(lines)
  BY DEF Listed, Dis!Listed, Dis!Range, In
<1> QED BY <1>1 DEF WalkTyped, In

LEMMA ReadWord ==
  ASSUME WalkTyped, NEW a \in Addr
  PROVE  /\ flash[a] = Unread \/ flash[a] \in Codes
         /\ flash[a] # Unread => flash[a][1] \in Dis!Kinds /\ flash[a][2] \in Int
         /\ flash[a][1] = "plain" => flash[a][2] \in Nat
         /\ flash[a][1] = "unread" <=> flash[a] = Unread
BY InstructionsAssumption DEF WalkTyped, Unread, Dis!Unread, Dis!Kinds

LEMMA SecondIsAddress ==
  ASSUME WalkTyped, NEW at \in Addr
  PROVE  Dis!Second(flash, at) \in Nat
<1>1. at + 1 \in Addr => (flash[at + 1][1] = "plain" => flash[at + 1][2] \in Nat)
  BY ReadWord
<1> QED BY <1>1, InstructionsAssumption DEF Dis!Second, Addr

LEMMA WhereTo ==
  ASSUME WalkTyped, NEW at \in Addr, flash[at] # Unread
  PROVE  Dis!Recurses(flash[at], at) \in Int /\ Dis!GoesOn(flash[at], at) \in Int
<1>1. flash[at][2] \in Int /\ at \in Int /\ Dis!Second(flash, at) \in Int
  BY ReadWord, SecondIsAddress, InstructionsAssumption DEF Addr, Dis!Addr
<1> QED BY <1>1 DEF Dis!Recurses, Dis!GoesOn, Dis!Length, Dis!Nowhere

LEMMA ReachesStays ==
  ASSUME NEW at, flash'[at] = flash[at],
         Dis!is2WordInst(flash[at]) => flash'[at + 1] = flash[at + 1]
  PROVE  /\ Reaches(at)' = Reaches(at)
         /\ Dis!is2WordInst(flash[at]) => Dis!Second(flash, at)' = Dis!Second(flash, at)
<1>1. Dis!is2WordInst(flash[at]) => Dis!Second(flash, at)' = Dis!Second(flash, at)
  BY DEF Dis!Second
<1>2. /\ Dis!Recurses(flash[at], at)' = Dis!Recurses(flash[at], at)
      /\ Dis!GoesOn(flash[at], at)' = Dis!GoesOn(flash[at], at)
  BY <1>1 DEF Dis!Recurses, Dis!GoesOn, Dis!is2WordInst, Dis!Length
<1> QED BY <1>1, <1>2 DEF Reaches
-----------------------------------------------------------------------------
\* The steps of the walk

LEMMA LeastCounted ==
  ASSUME NEW S \in SUBSET Nat, S # {}
  PROVE  Dis!Min(S) \in S
<1> DEFINE Below == {ss \in Nat \X Nat : ss[1] < ss[2]}
<1>1. IsWellFoundedOn(Below, Nat)
  <2>1. OpToRel(<, Nat) = Below
    BY Zenon DEF OpToRel
  <2> QED BY <2>1, NatLessThanWellFounded
<1>2. PICK x \in S : \A y \in S : ~(<<y, x>> \in Below)
  <2> HIDE DEF Below
  <2> QED BY <1>1, WFMin, Zenon
<1>3. \A y \in S : x =< y
  <2> SUFFICES ASSUME NEW y \in S, ~(x =< y) PROVE FALSE
    OBVIOUS
  <2>1. <<y, x>> \in Below
    OBVIOUS
  <2> QED BY <1>2, <2>1, Zenon
<1> QED BY <1>3 DEF Dis!Min

LEMMA SamePlaces ==
  ASSUME UNCHANGED flash
  PROVE  /\ \A at : Reaches(at)' = Reaches(at)
         /\ \A at : Dis!Second(flash, at)' = Dis!Second(flash, at)
<1>1. \A at : Dis!Second(flash, at)' = Dis!Second(flash, at)
  BY DEF Dis!Second
<1>2. \A at : /\ Dis!Recurses(flash[at], at)' = Dis!Recurses(flash[at], at)
              /\ Dis!GoesOn(flash[at], at)' = Dis!GoesOn(flash[at], at)
  BY <1>1 DEF Dis!Recurses, Dis!GoesOn
<1> QED BY <1>1, <1>2 DEF Reaches

(* The walk is at no word: every second word is plain. *)
LEMMA RootStep ==
  ASSUME WalkInv, Dis!Root
  PROVE  WalkInv'
<1>1. /\ walk = << >> /\ UNCHANGED <<flash, counted, lines, funcCalls>>
      /\ \/ \E pending \in SUBSET Addr : /\ pending # {} /\ walk' = <<Dis!Min(pending)>>
                                         /\ roots' = roots
         \/ roots # << >> /\ walk' = <<Head(roots)>> /\ roots' = Tail(roots)
  <2>1. counted \ Dis!Listed \in SUBSET Addr
    BY DEF WalkInv, WalkTyped
  <2> QED BY <2>1 DEF Dis!Root
<1>2. Listed' = Listed /\ In(walk) = {}
  BY <1>1 DEF Listed, Dis!Listed, Dis!Range, In
<1>3. /\ walk' \in Seq(Int) /\ roots' \in Seq(Nat)
      /\ In(roots) \subseteq In(walk') \cup In(roots')
  <2>1. CASE roots # << >> /\ walk' = <<Head(roots)>> /\ roots' = Tail(roots)
    <3>1. Head(roots) \in Nat /\ roots' \in Seq(Nat) /\ In(roots) = In(roots') \cup {Head(roots)}
      BY <2>1, InHead DEF WalkInv, WalkTyped
    <3>2. walk' \in Seq(Int) /\ Head(roots) \in In(walk')
      BY <2>1, <3>1 DEF In
    <3> QED BY <3>1, <3>2
  <2>2. ASSUME NEW pending \in SUBSET Addr, pending # {}, walk' = <<Dis!Min(pending)>>,
               roots' = roots
        PROVE  walk' \in Seq(Int) /\ roots' \in Seq(Nat) /\ In(roots) \subseteq In(roots')
    <3>1. pending \in SUBSET Nat
      BY <2>2, InstructionsAssumption DEF Addr, Dis!Addr
    <3>2. Dis!Min(pending) \in Int
      <4>1. Dis!Min(pending) \in pending
        BY <2>2, <3>1, LeastCounted, Zenon
      <4>2. Dis!Min(pending) \in Nat
        BY <3>1, <4>1, Zenon
      <4> QED BY <4>2
    <3> QED BY <2>2, <3>2 DEF WalkInv, WalkTyped
  <2> QED BY <1>1, <2>1, <2>2
<1>4. WalkTyped' /\ ReadFirst'
  BY <1>1, <1>2, <1>3 DEF WalkInv, WalkTyped, ReadFirst
<1>5. Paired'
  BY <1>1 DEF WalkInv, Paired
<1>6. Closed' /\ Labelled'
  BY <1>1, <1>2, SamePlaces DEF WalkInv, Closed, Labelled
<1>7. Started'
  BY <1>1, <1>2, <1>3 DEF WalkInv, Started
<1> QED BY <1>4, <1>5, <1>6, <1>7 DEF WalkInv

(* A word is read where nothing has been read, so nothing listed changes. *)
LEMMA FetchStep ==
  ASSUME WalkInv, Dis!Fetch
  PROVE  WalkInv'
<1>1. PICK a \in Addr, w \in Codes :
        /\ walk # << >> /\ flash[a] = Unread /\ flash' = [flash EXCEPT ![a] = w]
        /\ Dis!is2WordInst(w) => /\ a + 1 \in Addr
                                 /\ flash[a + 1][1] \in {"unread", "plain"}
        /\ a # Top => w[1] = "plain"
  BY DEF Dis!Fetch, Addr, Unread, Top
<1>2. UNCHANGED <<counted, roots, walk, lines, funcCalls>>
  BY DEF Dis!Fetch
<1>3. Listed' = Listed /\ In(walk)' = In(walk) /\ In(roots)' = In(roots) /\ Top' = Top
  BY <1>2 DEF Listed, Dis!Listed, Dis!Range, In, Top
<1>4. /\ flash'[a] = w /\ DOMAIN flash = Addr
      /\ \A b \in Addr : b # a => flash'[b] = flash[b]
      /\ \A b \in Addr : flash[b] # Unread => flash'[b] = flash[b]
  BY <1>1 DEF WalkInv, WalkTyped
<1>5. WalkTyped'
  BY <1>1, <1>2 DEF WalkInv, WalkTyped
<1>6. \A at \in Listed : /\ at \in Addr /\ flash'[at] = flash[at]
                         /\ Dis!is2WordInst(flash[at]) => flash'[at + 1] = flash[at + 1]
  BY <1>4, ListedIsIn DEF WalkInv, ReadFirst, Paired
<1>7. ReadFirst'
  BY <1>3, <1>6 DEF WalkInv, ReadFirst
<1>8. Paired'
  <2> SUFFICES ASSUME NEW b \in Addr, Dis!is2WordInst(flash'[b])
               PROVE  /\ b + 1 \in Addr
                      /\ flash'[b + 1][1] # "plain" => /\ flash'[b + 1] = Unread
                                                       /\ walk # << >> /\ Top = b
    BY <1>2, <1>3 DEF Paired
  <2>1. CASE b = a
    <3>1. a + 1 \in Addr /\ flash[a + 1][1] \in {"unread", "plain"} /\ a + 1 # a
      BY <1>1, <1>4, <2>1, InstructionsAssumption DEF Addr, Dis!Addr
    <3>2. a = Top
      BY <1>1, <1>4, <2>1 DEF Dis!is2WordInst
    <3>3. flash'[a + 1] = flash[a + 1] /\ (flash[a + 1][1] = "unread" => flash[a + 1] = Unread)
      BY <1>4, <3>1, ReadWord DEF WalkInv
    <3> QED BY <1>1, <2>1, <3>1, <3>2, <3>3
  <2>2. CASE b # a
    <3>1. /\ flash'[b] = flash[b] /\ b + 1 \in Addr
          /\ flash[b + 1][1] # "plain" => /\ flash[b + 1] = Unread
                                          /\ walk # << >> /\ Top = b
      BY <1>4, <2>2 DEF WalkInv, Paired
    <3>2. CASE b + 1 = a
      <4>1. flash[a][1] # "plain"
        BY <1>1, <1>4, ReadWord DEF WalkInv, Unread, Dis!Unread
      <4>2. Top = b
        BY <3>1, <3>2, <4>1
      <4> QED BY <1>1, <1>4, <2>2, <3>1, <3>2, <4>2
    <3>3. CASE b + 1 # a
      BY <1>4, <3>1, <3>3
    <3> QED BY <3>2, <3>3
  <2> QED BY <2>1, <2>2
<1>9. Closed' /\ Labelled'
  <2>1. \A at \in Listed : Reaches(at)' = Reaches(at)
    BY <1>6, ReachesStays
  <2>2. \A at \in Listed : Dis!is2WordInst(flash[at]) =>
                             Dis!Second(flash, at)' = Dis!Second(flash, at)
    BY <1>6, ReachesStays
  <2>3. Closed'
    BY <1>3, <2>1 DEF WalkInv, Closed
  <2>4. Labelled'
    BY <1>2, <1>3, <1>6, <2>2 DEF WalkInv, Labelled, Dis!is2WordInst
  <2> QED BY <2>3, <2>4
<1>10. Started'
  BY <1>3 DEF WalkInv, Started
<1> QED BY <1>5, <1>7, <1>8, <1>9, <1>10 DEF WalkInv

(* An activation that returns was nowhere, or where the listing has been. *)
LEMMA ReturnStep ==
  ASSUME WalkInv, Dis!Return
  PROVE  WalkInv'
<1>1. /\ walk # << >> /\ walk' = Dis!Front(walk)
      /\ Top \notin Addr \/ Top \in Listed
      /\ UNCHANGED <<flash, counted, roots, lines, funcCalls>>
  BY DEF Dis!Return, Top, Addr, Listed, Dis!disasmed
<1>2. walk' \in Seq(Int) /\ In(walk) = In(walk') \cup {Top}
  <2>1. walk \in Seq(Int)
    BY DEF WalkInv, WalkTyped
  <2>2. /\ Dis!Front(walk) \in Seq(Int)
        /\ In(walk) = In(Dis!Front(walk)) \cup {walk[Len(walk)]}
    BY <1>1, <2>1, InFront, Zenon
  <2> QED BY <1>1, <2>2, Zenon DEF Top
<1>3. Listed' = Listed /\ In(roots)' = In(roots)
  BY <1>1 DEF Listed, Dis!Listed, Dis!Range, In
<1>4. WalkTyped' /\ ReadFirst'
  BY <1>1, <1>2, <1>3 DEF WalkInv, WalkTyped, ReadFirst
<1>5. Paired'
  BY <1>1 DEF WalkInv, Paired, ReadFirst
<1>6. Closed' /\ Labelled'
  <2>1. \A at \in Listed : Reaches(at) \subseteq Addr
    BY DEF Reaches
  <2> QED BY <1>1, <1>2, <1>3, <2>1, SamePlaces DEF WalkInv, Closed, Labelled
<1>7. Started'
  BY <1>1, <1>2, <1>3 DEF WalkInv, Started
<1> QED BY <1>4, <1>5, <1>6, <1>7 DEF WalkInv

(* Where the word just listed leads is left to the walk. *)
LEMMA ListStep ==
  ASSUME WalkInv, Dis!List
  PROVE  WalkInv'
<1> DEFINE w(at) == flash[at]
           inside(at) == Dis!Recurses(flash[at], at)
           self(at) == [walk EXCEPT ![Len(walk)] = Dis!GoesOn(flash[at], at)]
<1>1. PICK at \in Addr :
        /\ Dis!AtNewWord(at) /\ lines' = Append(lines, at)
        /\ walk' = IF flash[at][1] = "ret" THEN Dis!Front(walk)
                   ELSE IF inside(at) = Dis!Nowhere THEN self(at)
                   ELSE Append(self(at), inside(at))
        /\ funcCalls' = funcCalls \cup
             IF flash[at][1] \in {"call", "rcall"} /\ inside(at) # Dis!Nowhere
             THEN {inside(at)} ELSE {}
  BY DEF Dis!List, Dis!Push, Addr
<1>2. UNCHANGED <<flash, counted, roots>>
  BY DEF Dis!List
<1>3. /\ walk # << >> /\ Top = at /\ flash[at] # Unread
      /\ Dis!is2WordInst(flash[at]) => flash[at + 1] # Unread
  BY <1>1 DEF Dis!AtNewWord, Top, Unread, WalkInv, Paired, Addr
<1>4. Listed' = Listed \cup {at} /\ lines' \in Seq(Addr) /\ In(roots)' = In(roots)
  <2>1. Append(lines, at) \in Seq(Addr) /\ In(Append(lines, at)) = In(lines) \cup {at}
    BY InAppend DEF WalkInv, WalkTyped
  <2>2. In(lines') = In(lines) \cup {at}
    BY <1>1, <2>1
  <2>3. Listed' = In(lines')
    BY DEF Listed, Dis!Listed, Dis!Range, In
  <2> QED BY <1>1, <1>2, <2>1, <2>2, <2>3, ListedIsIn DEF In
<1>5. inside(at) \in Int /\ Dis!GoesOn(flash[at], at) \in Int /\ walk \in Seq(Int)
  BY <1>3, WhereTo DEF WalkInv, WalkTyped
<1>6. /\ walk' \in Seq(Int) /\ In(walk) \subseteq In(walk') \cup {at}
      /\ Reaches(at) \subseteq In(walk')
  <2>1. CASE flash[at][1] = "ret"
    BY <1>1, <1>3, <1>5, <2>1, InFront DEF Top, Reaches
  <2>2. CASE flash[at][1] # "ret"
    <3>1. /\ self(at) \in Seq(Int) /\ In(walk) \subseteq In(self(at)) \cup {at}
          /\ Dis!GoesOn(flash[at], at) \in In(self(at))
      BY <1>3, <1>5, InReplaced DEF Top
    <3> HIDE DEF self, inside
    <3>2. CASE inside(at) = Dis!Nowhere
      <4>1. Dis!Recurses(flash[at], at) \notin Addr
        BY <3>2, InstructionsAssumption DEF inside, Dis!Nowhere, Addr, Dis!Addr
      <4> QED BY <1>1, <2>2, <3>1, <3>2, <4>1 DEF Reaches
    <3>3. CASE inside(at) # Dis!Nowhere
      <4>1. walk' = Append(self(at), inside(at))
        BY <1>1, <2>2, <3>3
      <4>2. walk' \in Seq(Int) /\ In(walk') = In(self(at)) \cup {inside(at)}
        BY <1>5, <3>1, <4>1, InAppend
      <4> QED BY <3>1, <4>2 DEF Reaches, inside
    <3> QED BY <3>2, <3>3
  <2> QED BY <2>1, <2>2
<1> HIDE DEF self, inside
<1>7. WalkTyped' /\ ReadFirst'
  <2>1. WalkTyped'
    BY <1>2, <1>4, <1>6 DEF WalkInv, WalkTyped
  <2> QED BY <1>2, <1>3, <1>4, <2>1 DEF WalkInv, ReadFirst
<1>8. Paired'
  BY <1>2, <1>3 DEF WalkInv, Paired
<1>9. Closed'
  <2>1. \A q \in Listed : Reaches(q) \subseteq Listed \cup In(walk)
    BY DEF WalkInv, Closed
  <2> QED BY <1>2, <1>4, <1>6, <2>1, SamePlaces DEF Closed
<1>10. Labelled'
  <2>1. flash[at][1] = "call" => Dis!Second(flash, at) \in funcCalls'
    <3>1. flash[at][1] = "call" => inside(at) = Dis!Second(flash, at)
      BY DEF inside, Dis!Recurses
    <3>2. Dis!Second(flash, at) # Dis!Nowhere
      BY SecondIsAddress DEF WalkInv, Dis!Nowhere
    <3> QED BY <1>1, <3>1, <3>2
  <2> QED BY <1>1, <1>2, <1>4, <2>1, SamePlaces DEF WalkInv, Labelled
<1>11. Started'
  BY <1>2, <1>4, <1>6 DEF WalkInv, Started
<1> QED BY <1>7, <1>8, <1>9, <1>10, <1>11 DEF WalkInv

-----------------------------------------------------------------------------
\* The invariant, and the listing when the walk has ended

LEMMA WalkInvKept ==
  /\ InstInit => WalkInv
  /\ WalkInv /\ [InstNext]_<<part, aluVars, memVars, decVars, disVars>> => WalkInv'
<1>1. ASSUME Dis!Init PROVE WalkInv
  <2>1. /\ flash = [a \in Addr |-> Unread] /\ counted \in Counts
        /\ roots = Vectors \o Seeds /\ walk = << >> /\ lines = << >>
    BY <1>1 DEF Dis!Init, Addr, Unread
  <2>2. Listed = {} /\ In(walk) = {}
    BY <2>1, ListedIsIn DEF In
  <2>3. WalkTyped
    BY <2>1, InstructionsAssumption DEF WalkTyped, Addr
  <2>4. Paired
    BY <2>1 DEF Paired, Unread, Dis!Unread, Dis!is2WordInst
  <2> QED BY <2>1, <2>2, <2>3, <2>4 DEF WalkInv, ReadFirst, Closed, Started, Labelled
<1>2. ASSUME WalkInv, UNCHANGED disVars PROVE WalkInv'
  <2>1. UNCHANGED <<flash, counted, roots, walk, lines, funcCalls>>
    BY <1>2 DEF disVars
  <2>2. /\ Listed' = Listed /\ In(walk)' = In(walk) /\ In(roots)' = In(roots) /\ Top' = Top
    BY <2>1 DEF Listed, Dis!Listed, Dis!Range, In, Top
  <2>3. WalkTyped' /\ ReadFirst' /\ Paired' /\ Started'
    BY <1>2, <2>1, <2>2 DEF WalkInv, WalkTyped, ReadFirst, Paired, Started
  <2>4. Closed' /\ Labelled'
    BY <1>2, <2>1, <2>2, SamePlaces DEF WalkInv, Closed, Labelled
  <2> QED BY <2>3, <2>4 DEF WalkInv
<1>3. ASSUME WalkInv, Dis!Next PROVE WalkInv'
  <2>1. CASE Dis!Root
    BY <1>3, <2>1, RootStep
  <2>2. CASE Dis!Fetch
    BY <1>3, <2>2, FetchStep
  <2>3. CASE Dis!List
    BY <1>3, <2>3, ListStep
  <2>4. CASE Dis!Return
    BY <1>3, <2>4, ReturnStep
  <2>5. CASE Dis!Done
    BY <1>2, <1>3, <2>5 DEF Dis!Done, Dis!vars, disVars
  <2> QED BY <1>3, <2>1, <2>2, <2>3, <2>4, <2>5 DEF Dis!Next
<1>4. ASSUME [InstNext]_<<part, aluVars, memVars, decVars, disVars>>
      PROVE  Dis!Next \/ UNCHANGED disVars
  BY <1>4, Zenon DEF InstNext, Bodies, Moving, Decoding, Walking
<1> QED BY <1>1, <1>2, <1>3, <1>4 DEF InstInit

LEMMA ClosedWhenFinished ==
  ASSUME WalkInv, Dis!Finished
  PROVE  /\ walk = << >> /\ \A at \in Listed : Reaches(at) \subseteq Listed
         /\ \A a \in Addr : Dis!is2WordInst(flash[a]) =>
                              a + 1 \in Addr /\ flash[a + 1][1] = "plain"
<1>1. walk = << >> /\ In(walk) = {}
  BY DEF Dis!Finished, In
<1> QED BY <1>1 DEF WalkInv, Closed, Paired

(* Where InstHandler goes from a listed word is listed; a skip over two words *)
(* arrives there through the second of them.                                  *)
LEMMA SuccessorsListed ==
  ASSUME WalkInv, Dis!Finished, NEW at \in Listed
  PROVE  Dis!Successors(at) \cap Addr \subseteq Listed
<1> DEFINE on == at + Dis!Length(flash[at])
<1>1. /\ at \in Addr /\ flash[at] # Unread /\ flash[at][1] \in Dis!Kinds
      /\ flash[at][2] \in Int /\ at \in Int
  BY ListedIsIn, ReadWord, InstructionsAssumption
     DEF WalkInv, ReadFirst, Addr, Dis!Addr
<1>2. Reaches(at) \subseteq Listed
  BY ClosedWhenFinished
<1>3. CASE flash[at][1] = "ret"
  BY <1>3 DEF Dis!Successors
<1>4. CASE flash[at][1] = "jmp"
  BY <1>2, <1>4 DEF Dis!Successors, Reaches, Dis!GoesOn
<1>5. CASE flash[at][1] = "rjmp"
  BY <1>2, <1>5 DEF Dis!Successors, Reaches, Dis!GoesOn
<1>6. CASE flash[at][1] \in {"br", "rcall"}
  <2>1. Dis!GoesOn(flash[at], at) = on /\ on = at + 1
    BY <1>6 DEF Dis!GoesOn, Dis!Length, Dis!is2WordInst
  <2>2. Dis!Successors(at) = {on, at + flash[at][2] + 1}
    BY <1>6 DEF Dis!Successors
  <2>3. at + flash[at][2] + 1 \in {on, Dis!Recurses(flash[at], at)}
    BY <1>1, <1>6, <2>1 DEF Dis!Recurses
  <2> QED BY <1>2, <1>6, <2>1, <2>2, <2>3 DEF Reaches
<1>7. CASE flash[at][1] = "call"
  <2>1. /\ Dis!GoesOn(flash[at], at) = on
        /\ Dis!Recurses(flash[at], at) = Dis!Second(flash, at)
        /\ Dis!Successors(at) = {on, Dis!Second(flash, at)}
    BY <1>7 DEF Dis!GoesOn, Dis!Recurses, Dis!Successors
  <2> QED BY <1>2, <1>7, <2>1 DEF Reaches
<1>8. CASE flash[at][1] \in {"skip", "cpse"}
  <2>1. /\ Dis!GoesOn(flash[at], at) = on /\ on = at + 1
        /\ Dis!Recurses(flash[at], at) = at + 2
    BY <1>8 DEF Dis!GoesOn, Dis!Recurses, Dis!Length, Dis!is2WordInst
  <2>2. {on, at + 2} \cap Addr \subseteq Listed
    BY <1>2, <1>8, <2>1 DEF Reaches
  <2>3. Dis!Successors(at) =
          {on, IF on \in Addr THEN on + Dis!Length(flash[on]) ELSE on}
    BY <1>8 DEF Dis!Successors, Addr
  <2>4. CASE on \in Addr /\ Dis!is2WordInst(flash[on])
    <3>1. at + 2 \in Addr /\ flash[at + 2][1] = "plain"
      BY <1>1, <2>1, <2>4, ClosedWhenFinished
    <3>2. at + 2 \in Listed /\ Reaches(at + 2) \subseteq Listed
      BY <2>2, <3>1, ClosedWhenFinished
    <3>3. Dis!GoesOn(flash[at + 2], at + 2) = at + 3 /\ at + 3 = on + 2
      BY <1>1, <2>1, <3>1 DEF Dis!GoesOn, Dis!Length, Dis!is2WordInst
    <3>4. {at + 3} \cap Addr \subseteq Listed
      BY <3>1, <3>2, <3>3 DEF Reaches
    <3> QED BY <2>2, <2>3, <2>4, <3>3, <3>4 DEF Dis!Length
  <2>5. CASE ~(on \in Addr /\ Dis!is2WordInst(flash[on]))
    BY <1>1, <2>1, <2>2, <2>3, <2>5 DEF Dis!Length
  <2> QED BY <2>4, <2>5
<1>9. CASE flash[at][1] \in {"plain", "lds"}
  <2>1. Dis!GoesOn(flash[at], at) = on /\ Dis!Successors(at) = {on}
    BY <1>9 DEF Dis!GoesOn, Dis!Successors
  <2> QED BY <1>2, <1>9, <2>1 DEF Reaches
<1> QED BY <1>1, <1>3, <1>4, <1>5, <1>6, <1>7, <1>8, <1>9 DEF Dis!Kinds

(* The finished listing is closed under the control flow of execution from all *)
(* starts, in every program (disassembleBinFile, disasmRecurse).               *)
THEOREM ListingCoversExecution == InstSpec => []CoversExecution
<1>1. WalkInv => CoversExecution
  <2> SUFFICES ASSUME WalkInv, Dis!Finished
               PROVE  /\ Dis!Starts \cap Addr \subseteq Listed
                      /\ \A at \in Listed : Dis!Successors(at) \cap Addr \subseteq Listed
    BY DEF CoversExecution, Dis!CoversExecution, Addr, Listed
  <2>1. In(walk) = {} /\ In(roots) = {} /\ counted \subseteq Listed
    BY DEF Dis!Finished, In, Listed
  <2>2. Dis!Starts = In(Vectors \o Seeds) \cup counted
    BY DEF Dis!Starts, Dis!Range, In
  <2> QED BY <2>1, <2>2, SuccessorsListed DEF WalkInv, Started
<1>2. InstSpec => []WalkInv
  BY WalkInvKept, PTL DEF InstSpec
<1> QED BY <1>1, <1>2, PTL

(* The arrows of the UI end on lines of the listing and the targets of calls *)
(* carry labels (getJumpDests, disasmRecurse).                               *)
THEOREM ArrowsHaveEnds == InstSpec => []ArrowsEndOnLines
<1>1. WalkInv => ArrowsEndOnLines
  <2> SUFFICES ASSUME WalkInv, Dis!Finished, NEW at \in Listed
               PROVE  /\ Dis!getJumpDests(flash, at) \in Addr =>
                           Dis!getJumpDests(flash, at) \in Listed
                      /\ flash[at][1] = "call" =>
                           Dis!getJumpDests(flash, at) \in funcCalls
    BY DEF ArrowsEndOnLines, Dis!ArrowsEndOnLines, Addr, Listed
  <2>1. /\ at \in Addr /\ flash[at][2] \in Int /\ at \in Int
        /\ Reaches(at) \subseteq Listed
    BY ListedIsIn, ReadWord, ClosedWhenFinished, InstructionsAssumption
       DEF WalkInv, ReadFirst, Addr, Dis!Addr
  <2>2. CASE flash[at][1] \in {"jmp", "rjmp"}
    BY <2>1, <2>2 DEF Dis!getJumpDests, Reaches, Dis!GoesOn
  <2>3. CASE flash[at][1] = "call"
    BY <2>1, <2>3 DEF Dis!getJumpDests, Reaches, Dis!Recurses, WalkInv, Labelled
  <2>4. CASE flash[at][1] \in {"br", "rcall", "skip"}
    BY <2>1, <2>4
       DEF Dis!getJumpDests, Reaches, Dis!Recurses, Dis!GoesOn, Dis!Length, Dis!is2WordInst
  <2>5. CASE flash[at][1] \notin {"jmp", "rjmp", "call", "br", "rcall", "skip"}
    BY <2>5, InstructionsAssumption DEF Dis!getJumpDests, Addr, Dis!Addr
  <2> QED BY <2>2, <2>3, <2>4, <2>5
<1>2. InstSpec => []WalkInv
  BY WalkInvKept, PTL DEF InstSpec
<1> QED BY <1>1, <1>2, PTL
-----------------------------------------------------------------------------
\* Words from bytes

Byte == Alu!Byte
\* The flags of the cache, and a record that holds just these
Names == {"C", "Z", "N", "V", "S", "H", "T"}
Flagged(f) == f = [x \in Names |-> f[x]]

\* The V and S that the sum of two bytes and a carry sets are those of the signed sum
LEMMA SumSign ==
  ASSUME NEW x \in Byte, NEW y \in Byte, NEW c \in 0..1
  PROVE  LET res == (x + y + c) % 256
             V == \/ Alu!Top(x) /\ Alu!Top(y) /\ ~Alu!Top(res)
                  \/ ~Alu!Top(x) /\ ~Alu!Top(y) /\ Alu!Top(res)
             sum == Alu!Signed(x) + Alu!Signed(y) + c
         IN  /\ res \in Byte
             /\ V <=> (sum < -128 \/ sum > 127)
             /\ (Alu!Top(res) # V) <=> (sum < 0)
             /\ ((x + y + c) \div 256 # 0) <=> (x + y + c > 255)
<1> DEFINE res == (x + y + c) % 256
           V == \/ Alu!Top(x) /\ Alu!Top(y) /\ ~Alu!Top(res)
                \/ ~Alu!Top(x) /\ ~Alu!Top(y) /\ Alu!Top(res)
           sum == Alu!Signed(x) + Alu!Signed(y) + c
<1>1. /\ res \in Byte /\ x \in 0..255 /\ y \in 0..255
      /\ res = IF x + y + c > 255 THEN x + y + c - 256 ELSE x + y + c
      /\ ((x + y + c) \div 256 # 0) <=> (x + y + c > 255)
  BY DEF Byte, Alu!Byte
<1> HIDE DEF res
<1>2. V <=> (sum < -128 \/ sum > 127)
  BY <1>1 DEF Byte, Alu!Byte, Alu!Top, Alu!Signed
<1>3. (Alu!Top(res) # V) <=> (sum < 0)
  <2>1. V \in BOOLEAN /\ Alu!Top(res) \in BOOLEAN
    BY DEF Alu!Top
  <2> HIDE DEF V
  <2>2. (Alu!Top(res) # V) <=> ~(Alu!Top(res) <=> V)
    BY <2>1
  <2>3. (Alu!Top(res) <=> (sum < -128 \/ sum > 127)) <=> ~(sum < 0)
    BY <1>1 DEF Byte, Alu!Byte, Alu!Top, Alu!Signed
  <2> QED BY <1>2, <2>2, <2>3
<1> QED BY <1>1, <1>2, <1>3 DEF res

\* The S that a difference of bytes sets is the sign of the signed difference
LEMMA DiffSign ==
  ASSUME NEW x \in Byte, NEW y \in Byte, NEW c \in 0..1
  PROVE  LET res == (x - (y + c)) % 256
             V == Alu!Signed(res) # Alu!Signed(x) - Alu!Signed(y) - c
         IN  /\ res \in Byte
             /\ (Alu!Top(res) # V) <=> (Alu!Signed(x) - Alu!Signed(y) - c < 0)
<1> DEFINE res == (x - (y + c)) % 256
           V == Alu!Signed(res) # Alu!Signed(x) - Alu!Signed(y) - c
<1>1. /\ res \in Byte /\ x \in 0..255 /\ y \in 0..255
      /\ res = IF x < y + c THEN x - (y + c) + 256 ELSE x - (y + c)
  BY DEF Byte, Alu!Byte
<1> HIDE DEF res
<1>2. (Alu!Top(res) # V) <=> (Alu!Signed(x) - Alu!Signed(y) - c < 0)
  BY <1>1 DEF Byte, Alu!Byte, Alu!Top, Alu!Signed
<1> QED BY <1>1, <1>2 DEF res

\* A signed word is its signed high byte times 256, and its low byte
LEMMA WordSign ==
  ASSUME NEW h \in Byte, NEW l \in Byte
  PROVE  Alu!SignedWord(Alu!Word(h, l)) = 256 * Alu!Signed(h) + l /\ Alu!Signed(h) \in -128..127
BY DEF Byte, Alu!Byte, Alu!SignedWord, Alu!Word, Alu!Signed

\* Two byte sums, the carry of the first in the second, are the sum of the words
LEMMA SumWord ==
  ASSUME NEW al \in Byte, NEW ah \in Byte, NEW bl \in Byte, NEW bh \in Byte,
         NEW c \in 0..1, c = IF al + bl > 255 THEN 1 ELSE 0
  PROVE  LET a == Alu!Word(ah, al)
             b == Alu!Word(bh, bl)
             sum == Alu!Signed(ah) + Alu!Signed(bh) + c
         IN  /\ Alu!Word((ah + bh + c) % 256, (al + bl) % 256) = (a + b) % 65536
             /\ (ah + bh + c > 255) <=> (a + b > 65535)
             /\ (sum < -128 \/ sum > 127) <=> ~Alu!InWord(Alu!SignedWord(a) + Alu!SignedWord(b))
             /\ (sum < 0) <=> (Alu!SignedWord(a) + Alu!SignedWord(b) < 0)
<1> DEFINE a == Alu!Word(ah, al)
           b == Alu!Word(bh, bl)
           sa == Alu!Signed(ah)
           sb == Alu!Signed(bh)
<1>1. /\ Alu!Word((ah + bh + c) % 256, (al + bl) % 256) = (a + b) % 65536
      /\ (ah + bh + c > 255) <=> (a + b > 65535)
  BY DEF Byte, Alu!Byte, Alu!Word
<1>2. /\ Alu!SignedWord(a) = 256 * sa + al /\ sa \in -128..127
      /\ Alu!SignedWord(b) = 256 * sb + bl /\ sb \in -128..127
  BY WordSign
<1> HIDE DEF a, b, sa, sb
<1>3. (sa + sb + c < -128 \/ sa + sb + c > 127) <=> ~Alu!InWord(Alu!SignedWord(a) + Alu!SignedWord(b))
  <2> DEFINE x == Alu!SignedWord(a) + Alu!SignedWord(b)
  <2>1. x = 256 * (sa + sb) + al + bl /\ x \in Int
    BY <1>2 DEF Byte, Alu!Byte
  <2> HIDE DEF x
  <2>2. Alu!InWord(x) <=> (x >= -32768 /\ x <= 32767)
    BY DEF Alu!InWord
  <2>3. (sa + sb + c < -128 \/ sa + sb + c > 127) <=> (x < -32768 \/ x > 32767)
    BY <1>2, <2>1 DEF Byte, Alu!Byte
  <2>4. ~(x >= -32768 /\ x <= 32767) <=> (x < -32768 \/ x > 32767)
    BY <2>1
  <2> QED BY <2>2, <2>3, <2>4 DEF x
<1>4. (sa + sb + c < 0) <=> (Alu!SignedWord(a) + Alu!SignedWord(b) < 0)
  BY <1>2 DEF Byte, Alu!Byte
<1> QED BY <1>1, <1>3, <1>4 DEF a, b, sa, sb

\* The difference of two words from those of their bytes
DiffFacts(al, ah, bl, bh, c) ==
         LET a == Alu!Word(ah, al)
             b == Alu!Word(bh, bl)
             diff == Alu!Signed(ah) - Alu!Signed(bh) - c
         IN  /\ Alu!Word((ah - (bh + c)) % 256, (al - bl) % 256) = (a - b) % 65536
             /\ (ah < bh + c) <=> (a < b)
             /\ (diff < 0) <=> (Alu!SignedWord(a) < Alu!SignedWord(b))
             /\ ((ah - (bh + c)) % 256 = 0 /\ al = bl) <=> (a = b)

\* Two byte differences, the borrow of the first in the second, are that of the words
LEMMA DiffWord ==
  ASSUME NEW al \in Byte, NEW ah \in Byte, NEW bl \in Byte, NEW bh \in Byte,
         NEW c \in 0..1, c = IF al < bl THEN 1 ELSE 0
  PROVE  DiffFacts(al, ah, bl, bh, c)
<1> DEFINE a == Alu!Word(ah, al)
           b == Alu!Word(bh, bl)
           sa == Alu!Signed(ah)
           sb == Alu!Signed(bh)
           low == (al - bl) % 256
           high == (ah - (bh + c)) % 256
<1>1. /\ low = al - bl + 256 * c
      /\ high = IF ah < bh + c THEN ah - bh - c + 256 ELSE ah - bh - c
  BY DEF Byte, Alu!Byte
<1>2. a = 256 * ah + al /\ b = 256 * bh + bl
  BY DEF Alu!Word
<1>3. /\ Alu!SignedWord(a) = 256 * sa + al /\ sa \in -128..127
      /\ Alu!SignedWord(b) = 256 * sb + bl /\ sb \in -128..127
  BY WordSign
<1> HIDE DEF a, b, sa, sb, low, high
<1>4. (ah < bh + c) <=> (a < b)
  BY <1>2 DEF Byte, Alu!Byte
<1>5. (a - b) % 65536 = IF a < b THEN a - b + 65536 ELSE a - b
  BY <1>2 DEF Byte, Alu!Byte
<1>6. 256 * high + low = IF a < b THEN a - b + 65536 ELSE a - b
  BY <1>1, <1>2, <1>4 DEF Byte, Alu!Byte
<1>7. (high = 0 /\ al = bl) <=> (a = b)
  BY <1>1, <1>2 DEF Byte, Alu!Byte
<1>8. (sa - sb - c < 0) <=> (Alu!SignedWord(a) < Alu!SignedWord(b))
  BY <1>3 DEF Byte, Alu!Byte
<1> QED BY <1>4, <1>5, <1>6, <1>7, <1>8 DEF a, b, sa, sb, low, high, Alu!Word, DiffFacts

\* The carry ADIW reads off the top bits is the carry of the sum
LEMMA AddConstant ==
  ASSUME NEW w \in Int, 0 <= w, w <= 65535, NEW K \in Int, 0 <= K, K <= 63,
         NEW res \in Int, res = (w + K) % 65536
  PROVE  /\ 0 <= res /\ res <= 65535
         /\ (res < 32768 /\ w >= 32768) <=> (w + K > 65535)
<1>1. res = IF w + K > 65535 THEN w + K - 65536 ELSE w + K
  OBVIOUS
<1>2. 0 <= res /\ res <= 65535
  BY <1>1
<1>3. (res < 32768 /\ w >= 32768) <=> (w + K > 65535)
  BY <1>1
<1> QED BY <1>2, <1>3

\* The sign SBIW makes of the top bits is that of the signed difference
LEMMA SubtractConstant ==
  ASSUME NEW w \in Int, 0 <= w, w <= 65535, NEW K \in Int, 0 <= K, K <= 63,
         NEW res \in Int, res = (w - K) % 65536
  PROVE  /\ 0 <= res /\ res <= 65535
         /\ (res = 0) <=> (w = K)
         /\ ~((res >= 32768) <=> (w >= 32768 /\ res < 32768)) <=> (Alu!SignedWord(w) < K)
<1>1. res = IF w < K THEN w - K + 65536 ELSE w - K
  OBVIOUS
<1>2. 0 <= res /\ res <= 65535
  BY <1>1
<1>3. (res = 0) <=> (w = K)
  BY <1>1
<1>4. ~((res >= 32768) <=> (w >= 32768 /\ res < 32768)) <=> (Alu!SignedWord(w) < K)
  BY <1>1 DEF Alu!SignedWord
<1> QED BY <1>2, <1>3, <1>4

LEMMA WordBounds ==
  ASSUME NEW h \in Byte, NEW l \in Byte
  PROVE  Alu!Word(h, l) \in Int /\ 0 <= Alu!Word(h, l) /\ Alu!Word(h, l) <= 65535
BY DEF Byte, Alu!Byte, Alu!Word

LEMMA SixBits ==
  ASSUME NEW x \in Byte
  PROVE  x % 64 \in Int /\ 0 <= x % 64 /\ x % 64 <= 63
BY DEF Byte, Alu!Byte

\* A word is made of its two bytes
LEMMA BytesOfWord ==
  ASSUME NEW w \in Int, 0 <= w, w <= 65535
  PROVE  /\ w \div 256 \in Byte /\ w % 256 \in Byte
         /\ Alu!Word(w \div 256, w % 256) = w
<1>1. w \div 256 \in Byte /\ w % 256 \in Byte
  BY DEF Byte, Alu!Byte
<1>2. Alu!Word(w \div 256, w % 256) = w
  BY DEF Alu!Word
<1> QED BY <1>1, <1>2
-----------------------------------------------------------------------------
\* The flag functions

\* What the flags of a sum and of a difference say
Added(g, x, y, c) ==
  /\ Flagged(g)
  /\ (g.C \in BOOLEAN /\ g.V \in BOOLEAN /\ g.S \in BOOLEAN)
  /\ (g.C <=> (x + y + c > 255))
  /\ (g.V <=> (Alu!Signed(x) + Alu!Signed(y) + c < -128 \/ Alu!Signed(x) + Alu!Signed(y) + c > 127))
  /\ (g.S <=> (Alu!Signed(x) + Alu!Signed(y) + c < 0))
Taken(g, f, x, y, c, inclZ) ==
  /\ Flagged(g)
  /\ (g.C \in BOOLEAN /\ g.Z \in BOOLEAN /\ g.S \in BOOLEAN)
  /\ (g.C <=> (x < y + c))
  /\ (g.Z <=> ((x - (y + c)) % 256 = 0 /\ (inclZ => f.Z)))
  /\ (g.S <=> (Alu!Signed(x) - Alu!Signed(y) - c < 0))

LEMMA FlagsOfAdd ==
  ASSUME NEW f, Flagged(f), NEW x \in Byte, NEW y \in Byte, NEW c \in 0..1,
         NEW g, g = Alu!setFlags_HSVNZC_ADD(f, x, y, c, (x + y + c) % 256)
  PROVE  Added(g, x, y, c)
<1> DEFINE res == (x + y + c) % 256
           V == \/ Alu!Top(x) /\ Alu!Top(y) /\ ~Alu!Top(res)
                \/ ~Alu!Top(x) /\ ~Alu!Top(y) /\ Alu!Top(res)
           sum == Alu!Signed(x) + Alu!Signed(y) + c
           f2 == Alu!setFlags_NZ(f, res)
<1>0. Flagged(f2)
  BY DEF Alu!setFlags_NZ, Flagged, Names
<1>a. g = [f2 EXCEPT !.V = V, !.S = Alu!Top(res) # V, !.C = (x + y + c) \div 256 # 0,
                     !.H = (x % 16) + (y % 16) + c >= 16]
  BY Zenon DEF Alu!setFlags_HSVNZC_ADD
<1>1. Flagged(g)
  <2> HIDE DEF f2, V, res
  <2> QED BY <1>0, <1>a DEF Flagged, Names
<1>2. g.C = ((x + y + c) \div 256 # 0)
  BY DEF Alu!setFlags_HSVNZC_ADD, Alu!setFlags_NZ, Flagged, Names
<1>3. g.V = V
  BY DEF Alu!setFlags_HSVNZC_ADD, Alu!setFlags_NZ, Flagged, Names
<1>4. g.S = (Alu!Top(res) # V)
  BY DEF Alu!setFlags_HSVNZC_ADD, Alu!setFlags_NZ, Flagged, Names
<1>5. g.C \in BOOLEAN /\ g.V \in BOOLEAN /\ g.S \in BOOLEAN
  BY <1>2, <1>3, <1>4, Zenon
<1>6. (g.V <=> (sum < -128 \/ sum > 127))
  <2>1. V <=> (sum < -128 \/ sum > 127)
    BY SumSign
  <2> HIDE DEF V, sum
  <2> QED BY <1>3, <2>1, Zenon
<1>7. (g.S <=> (sum < 0))
  <2>1. (Alu!Top(res) # V) <=> (sum < 0)
    BY SumSign, ZenonT(60)
  <2> HIDE DEF V, res, sum
  <2> QED BY <1>4, <2>1, Zenon
<1>8. (g.C <=> (x + y + c > 255))
  <2>1. ((x + y + c) \div 256 # 0) <=> (x + y + c > 255)
    BY SumSign
  <2> QED BY <1>2, <2>1, Zenon
<1> QED BY <1>1, <1>5, <1>6, <1>7, <1>8, Zenon DEF Added

LEMMA FlagsOfSub ==
  ASSUME NEW f, Flagged(f), NEW x \in Byte, NEW y \in Byte, NEW c \in 0..1, NEW inclZ,
         NEW g, g = Alu!setFlags_HSVNZC_SUB(f, x, y, c, (x - (y + c)) % 256, inclZ)
  PROVE  Taken(g, f, x, y, c, inclZ)
<1> DEFINE res == (x - (y + c)) % 256
           V == Alu!Signed(res) # Alu!Signed(x) - Alu!Signed(y) - c
           Z == res = 0 /\ (inclZ => f.Z)
<1>1. Flagged(g)
  BY ZenonT(60) DEF Alu!setFlags_HSVNZC_SUB, Flagged, Names
<1>2. g.C = (x < y + c)
  BY DEF Alu!setFlags_HSVNZC_SUB, Flagged, Names
<1>3. g.Z = Z
  BY DEF Alu!setFlags_HSVNZC_SUB, Flagged, Names
<1>4. g.S = (Alu!Top(res) # V)
  BY DEF Alu!setFlags_HSVNZC_SUB, Flagged, Names
<1>5. g.C \in BOOLEAN /\ g.Z \in BOOLEAN /\ g.S \in BOOLEAN
  <2>1. Z \in BOOLEAN
    BY Zenon
  <2>2. g.C \in BOOLEAN
    <3>1. (x < y + c) \in BOOLEAN
      BY DEF Byte, Alu!Byte
    <3> QED BY <1>2, <3>1, Zenon
  <2>3. g.S \in BOOLEAN
    BY <1>4
  <2> HIDE DEF Z
  <2> QED BY <1>3, <2>1, <2>2, <2>3, Zenon
<1>6. (g.S <=> (Alu!Signed(x) - Alu!Signed(y) - c < 0))
  <2>1. (Alu!Top(res) # V) <=> (Alu!Signed(x) - Alu!Signed(y) - c < 0)
    BY DiffSign
  <2> HIDE DEF V, res
  <2> QED BY <1>4, <2>1, Zenon
<1>7. (g.C <=> (x < y + c)) /\ (g.Z <=> (res = 0 /\ (inclZ => f.Z)))
  BY <1>2, <1>3, Zenon
<1> QED BY <1>1, <1>5, <1>6, <1>7, Zenon DEF Taken
-----------------------------------------------------------------------------
\* The instructions of the sequences

LEMMA Carry == ASSUME NEW p PROVE Alu!Num(p) \in 0..1 /\ (p => Alu!Num(p) = 1) /\ (~p => Alu!Num(p) = 0)
BY DEF Alu!Num

\* What each instruction returns, on any flags
LEMMA AdcDoes ==
  ASSUME NEW f, Flagged(f), NEW x \in Byte, NEW y \in Byte,
         NEW out, out = Alu!INST_ADC(x, y, f), NEW c, c = Alu!Num(f.C)
  PROVE  /\ out.v = (x + y + c) % 256 /\ out.v \in Byte
         /\ Added(out.f, x, y, c)
<1>1. c \in 0..1
  BY Carry, Zenon
<1>2. /\ out.v = (x + y + c) % 256
      /\ out.f = Alu!setFlags_HSVNZC_ADD(f, x, y, c, (x + y + c) % 256)
  BY DEF Alu!INST_ADC, Alu!Out
<1>3. (x + y + c) % 256 \in Byte
  BY <1>1 DEF Byte, Alu!Byte
<1>4. Added(out.f, x, y, c)
  BY <1>1, <1>2, FlagsOfAdd
<1> QED BY <1>2, <1>3, <1>4

LEMMA AddDoes ==
  ASSUME NEW f, Flagged(f), NEW x \in Byte, NEW y \in Byte,
         NEW out, out = Alu!INST_ADD(x, y, f)
  PROVE  /\ out.v = (x + y) % 256 /\ out.v \in Byte
         /\ Added(out.f, x, y, 0)
<1>1. (x + y) % 256 = (x + y + 0) % 256 /\ (x + y) % 256 \in Byte /\ 0 \in 0..1
  BY DEF Byte, Alu!Byte
<1>2. out.v = (x + y) % 256 /\ out.f = Alu!setFlags_HSVNZC_ADD(f, x, y, 0, (x + y) % 256)
  BY DEF Alu!INST_ADD, Alu!Out
<1>3. Added(out.f, x, y, 0)
  BY <1>1, <1>2, FlagsOfAdd
<1> QED BY <1>1, <1>2, <1>3

\* What SUB and SBC return
Subtracted(out, f, x, y) ==
  /\ out.v = (x - y) % 256 /\ out.v \in Byte
  /\ Taken(out.f, f, x, y, 0, FALSE)
Borrowed(out, f, x, y, c) ==
  /\ out.v = (x - (y + c)) % 256 /\ out.v \in Byte
  /\ Taken(out.f, f, x, y, c, TRUE)

LEMMA SubDoes ==
  ASSUME NEW f, Flagged(f), NEW x \in Byte, NEW y \in Byte,
         NEW out, out = Alu!INST_SUB(x, y, f)
  PROVE  Subtracted(out, f, x, y)
<1>1. (x - y) % 256 = (x - (y + 0)) % 256 /\ (x - y) % 256 \in Byte /\ 0 \in 0..1
  BY DEF Byte, Alu!Byte
<1>2. /\ out.v = (x - y) % 256
      /\ out.f = Alu!setFlags_HSVNZC_SUB(f, x, y, 0, (x - y) % 256, FALSE)
  BY DEF Alu!INST_SUB, Alu!Out
<1>3. Taken(out.f, f, x, y, 0, FALSE)
  BY <1>1, <1>2, FlagsOfSub
<1> QED BY <1>1, <1>2, <1>3 DEF Subtracted

LEMMA SbcDoes ==
  ASSUME NEW f, Flagged(f), NEW x \in Byte, NEW y \in Byte,
         NEW out, out = Alu!INST_SBC(x, y, f), NEW c, c = Alu!Num(f.C)
  PROVE  Borrowed(out, f, x, y, c)
<1>1. c \in 0..1
  BY Carry, Zenon
<1>2. /\ out.v = (x - (y + c)) % 256
      /\ out.f = Alu!setFlags_HSVNZC_SUB(f, x, y, c, (x - (y + c)) % 256, TRUE)
  BY DEF Alu!INST_SBC, Alu!Out
<1>3. (x - (y + c)) % 256 \in Byte
  <2>1. \A k \in Int : k % 256 \in Byte
    BY DEF Byte, Alu!Byte
  <2>2. x - (y + c) \in Int
    BY <1>1 DEF Byte, Alu!Byte
  <2> QED BY <2>1, <2>2, Zenon
<1>4. Taken(out.f, f, x, y, c, TRUE)
  BY <1>1, <1>2, FlagsOfSub
<1> QED BY <1>2, <1>3, <1>4 DEF Borrowed

LEMMA CountDoes ==
  ASSUME NEW f, Flagged(f), NEW x \in Byte,
         NEW out, out = Alu!INST_INC(x, f) \/ out = Alu!INST_DEC(x, f)
  PROVE  out.v \in Byte /\ Flagged(out.f) /\ (out.f.C <=> f.C)
<1> DEFINE Step(res, V) == [Alu!setFlags_NZ(f, res) EXCEPT !.V = V, !.S = Alu!Top(res) # V]
<1>1. (x + 1) % 256 \in Byte /\ (x - 1) % 256 \in Byte
  BY DEF Byte, Alu!Byte
<1>2. out.v \in Byte
  BY <1>1 DEF Alu!INST_INC, Alu!INST_DEC, Alu!Out
<1>3. CASE out = Alu!INST_INC(x, f)
  <2>1. out.f = Step((x + 1) % 256, (x + 1) % 256 = 128)
    BY <1>3 DEF Alu!INST_INC, Alu!Out
  <2>2. Flagged(out.f)
    BY <2>1 DEF Alu!setFlags_NZ, Flagged, Names
  <2>3. out.f.C = f.C
    BY <2>1 DEF Alu!setFlags_NZ, Flagged, Names
  <2> QED BY <1>2, <2>2, <2>3, Zenon
<1>4. CASE out = Alu!INST_DEC(x, f)
  <2>1. out.f = Step((x - 1) % 256, (x - 1) % 256 = 127)
    BY <1>4 DEF Alu!INST_DEC, Alu!Out
  <2>2. Flagged(out.f)
    BY <2>1 DEF Alu!setFlags_NZ, Flagged, Names
  <2>3. out.f.C = f.C
    BY <2>1 DEF Alu!setFlags_NZ, Flagged, Names
  <2> QED BY <1>2, <2>2, <2>3, Zenon
<1> QED BY <1>3, <1>4

\* The flags that the words' instructions assign
Five(g, f, V, N, S, Z, C) == g = [f EXCEPT !.V = V, !.N = N, !.S = S, !.Z = Z, !.C = C]
OfProduct(g, f, p, whole) == g = [f EXCEPT !.C = p >= 32768, !.Z = whole = 0]
Two(g, f, C, Z) == g = [f EXCEPT !.C = C, !.Z = Z]

LEMMA FiveFlags ==
  ASSUME NEW f, Flagged(f), NEW g, NEW V, NEW N, NEW S \in BOOLEAN, NEW Z \in BOOLEAN,
         NEW C \in BOOLEAN, Five(g, f, V, N, S, Z, C)
  PROVE  /\ Flagged(g) /\ (g.C \in BOOLEAN /\ g.Z \in BOOLEAN /\ g.S \in BOOLEAN)
         /\ (g.C <=> C) /\ (g.Z <=> Z) /\ (g.S <=> S)
BY DEF Flagged, Names, Five

LEMMA TwoFlags ==
  ASSUME NEW f, Flagged(f), NEW g, NEW Z \in BOOLEAN, NEW C \in BOOLEAN, Two(g, f, C, Z)
  PROVE  /\ Flagged(g) /\ (g.C \in BOOLEAN /\ g.Z \in BOOLEAN)
         /\ (g.C <=> C) /\ (g.Z <=> Z)
BY DEF Flagged, Names, Two

\* What the flags of ADIW and of SBIW say
WordAdded(g, w, K, res) ==
  /\ Flagged(g) /\ (g.C \in BOOLEAN /\ g.Z \in BOOLEAN)
  /\ (g.C <=> (res < 32768 /\ w >= 32768)) /\ (g.Z <=> (res = 0))
WordTaken(g, w, K, res) ==
  /\ Flagged(g) /\ (g.C \in BOOLEAN /\ g.Z \in BOOLEAN /\ g.S \in BOOLEAN)
  /\ (g.C <=> (K > w)) /\ (g.Z <=> (res = 0))
  /\ (g.S <=> ~((res >= 32768) <=> (w >= 32768 /\ res < 32768)))
\* C and Z of a product and of its double
Multiplied(g, p, whole) ==
  /\ Flagged(g) /\ (g.C \in BOOLEAN /\ g.Z \in BOOLEAN)
  /\ (g.C <=> (p >= 32768)) /\ (g.Z <=> (whole = 0))

LEMMA FlagsOfAdiw ==
  ASSUME NEW f, Flagged(f), NEW w \in Int, NEW K \in Int, NEW res \in Int,
         NEW g, g = Alu!setFlags_SVNZC_ADD_16(f, w, K, res)
  PROVE  WordAdded(g, w, K, res)
<1> DEFINE V == res # w + K
           N == res >= 32768
           S == N # V
           Z == res = 0
           C == res < 32768 /\ w >= 32768
<1>1. Five(g, f, V, N, S, Z, C)
  BY DEF Alu!setFlags_SVNZC_ADD_16, Five
<1>2. C \in BOOLEAN /\ Z \in BOOLEAN /\ S \in BOOLEAN
  OBVIOUS
<1> HIDE DEF V, N, S, Z, C
<1>3. Flagged(g) /\ (g.C \in BOOLEAN /\ g.Z \in BOOLEAN)
  BY <1>1, <1>2, FiveFlags
<1>4. (g.C <=> C) /\ (g.Z <=> Z)
  BY <1>1, <1>2, FiveFlags, Zenon
<1> QED BY <1>3, <1>4 DEF C, Z, WordAdded

LEMMA FlagsOfSbiw ==
  ASSUME NEW f, Flagged(f), NEW w \in Int, NEW K \in Int, NEW res \in Int,
         NEW g, g = Alu!setFlags_SVNZC_SUB_16(f, w, K, res)
  PROVE  WordTaken(g, w, K, res)
<1> DEFINE V == w >= 32768 /\ res < 32768
           N == res >= 32768
           S == N # V
           Z == res = 0
           C == K > w
<1>1. Five(g, f, V, N, S, Z, C)
  BY DEF Alu!setFlags_SVNZC_SUB_16, Five
<1>2. C \in BOOLEAN /\ Z \in BOOLEAN /\ S \in BOOLEAN
  OBVIOUS
<1>3. S <=> ~(N <=> V)
  <2>1. N \in BOOLEAN /\ V \in BOOLEAN
    OBVIOUS
  <2> HIDE DEF N, V
  <2> QED BY <2>1
<1> HIDE DEF V, N, S, Z, C
<1>4. Flagged(g) /\ (g.C \in BOOLEAN /\ g.Z \in BOOLEAN /\ g.S \in BOOLEAN)
  BY <1>1, <1>2, FiveFlags
<1>5. (g.C <=> C) /\ (g.Z <=> Z) /\ (g.S <=> S)
  BY <1>1, <1>2, FiveFlags, Zenon
<1>6. (g.S <=> ~(N <=> V))
  BY <1>3, <1>5, Zenon
<1> QED BY <1>4, <1>5, <1>6 DEF C, Z, N, V, WordTaken

LEMMA FlagsOfProduct ==
  ASSUME NEW f, Flagged(f), NEW p \in Int, NEW whole \in Int,
         NEW g, OfProduct(g, f, p, whole)
  PROVE  Multiplied(g, p, whole)
<1> DEFINE C == p >= 32768
           Z == whole = 0
<1>1. Two(g, f, C, Z)
  BY DEF Two, OfProduct
<1>2. C \in BOOLEAN /\ Z \in BOOLEAN
  OBVIOUS
<1> HIDE DEF C, Z
<1>3. Flagged(g) /\ (g.C \in BOOLEAN /\ g.Z \in BOOLEAN)
  BY <1>1, <1>2, TwoFlags
<1>4. (g.C <=> C) /\ (g.Z <=> Z)
  BY <1>1, <1>2, TwoFlags, Zenon
<1> QED BY <1>3, <1>4 DEF C, Z, Multiplied

LEMMA ProductDoes ==
  ASSUME NEW f, Flagged(f), NEW p \in Int, NEW out, out = Alu!Product(p, f)
  PROVE  out.v = p % 65536 /\ Multiplied(out.f, p % 65536, p % 65536)
<1>1. /\ out.v = p % 65536
      /\ out.f = [f EXCEPT !.C = p % 65536 >= 32768, !.Z = p % 65536 = 0]
  BY DEF Alu!Product, Alu!Out
<1>2. p % 65536 \in Int
  OBVIOUS
<1> DEFINE res == p % 65536
<1> HIDE DEF res
<1>3. OfProduct(out.f, f, res, res) /\ res \in Int
  BY <1>1, <1>2 DEF res, OfProduct
<1>4. Multiplied(out.f, res, res)
  BY <1>3, FlagsOfProduct
<1> QED BY <1>1, <1>4 DEF res

LEMMA FractionDoes ==
  ASSUME NEW f, Flagged(f), NEW p \in Int, NEW out, out = Alu!Fraction(p, f)
  PROVE  out.v = (2 * p) % 65536 /\ Multiplied(out.f, p % 65536, (2 * p) % 65536)
<1>1. /\ out.v = (2 * p) % 65536
      /\ out.f = [f EXCEPT !.C = p % 65536 >= 32768, !.Z = (2 * p) % 65536 = 0]
  BY DEF Alu!Fraction, Alu!Out
<1>2. p % 65536 \in Int /\ (2 * p) % 65536 \in Int
  OBVIOUS
<1> DEFINE res == p % 65536
           whole == (2 * p) % 65536
<1> HIDE DEF res, whole
<1>3. OfProduct(out.f, f, res, whole) /\ res \in Int /\ whole \in Int
  BY <1>1, <1>2 DEF res, whole, OfProduct
<1>4. Multiplied(out.f, res, whole)
  BY <1>3, FlagsOfProduct
<1> QED BY <1>1, <1>4 DEF res, whole

LEMMA AdiwDoes ==
  ASSUME NEW f, Flagged(f), NEW w \in Int, NEW K \in Int, NEW out, out = Alu!INST_ADIW(w, K, f)
  PROVE  out.v = (w + K) % 65536 /\ WordAdded(out.f, w, K, (w + K) % 65536)
<1>1. out.v = (w + K) % 65536 /\ out.f = Alu!setFlags_SVNZC_ADD_16(f, w, K, (w + K) % 65536)
  BY DEF Alu!INST_ADIW, Alu!Out
<1>2. (w + K) % 65536 \in Int
  OBVIOUS
<1> QED BY <1>1, <1>2, FlagsOfAdiw

LEMMA SbiwDoes ==
  ASSUME NEW f, Flagged(f), NEW w \in Int, NEW K \in Int, NEW out, out = Alu!INST_SBIW(w, K, f)
  PROVE  out.v = (w - K) % 65536 /\ WordTaken(out.f, w, K, (w - K) % 65536)
<1>1. out.v = (w - K) % 65536 /\ out.f = Alu!setFlags_SVNZC_SUB_16(f, w, K, (w - K) % 65536)
  BY DEF Alu!INST_SBIW, Alu!Out
<1>2. (w - K) % 65536 \in Int
  OBVIOUS
<1> QED BY <1>1, <1>2, FlagsOfSbiw
-----------------------------------------------------------------------------
\* Any instruction leaves flags, of the same names

LEMMA KeepsNZ ==
  ASSUME NEW f, Flagged(f), NEW res
  PROVE  Flagged(Alu!setFlags_NZ(f, res))
<1> DEFINE N == res >= 128
           Z == res = 0
<1>1. Alu!setFlags_NZ(f, res) = [f EXCEPT !.N = N, !.Z = Z]
  BY DEF Alu!setFlags_NZ
<1> HIDE DEF N, Z
<1> QED BY <1>1 DEF Flagged, Names

LEMMA KeepsSub ==
  ASSUME NEW f, Flagged(f), NEW x, NEW y, NEW c, NEW res, NEW inclZ
  PROVE  Flagged(Alu!setFlags_HSVNZC_SUB(f, x, y, c, res, inclZ))
<1> DEFINE V == Alu!Signed(res) # Alu!Signed(x) - Alu!Signed(y) - c
           N == Alu!Top(res)
           S == N # V
           Z == res = 0 /\ (inclZ => f.Z)
           C == x < y + c
           H == (y % 16) + c > x % 16
<1>1. Alu!setFlags_HSVNZC_SUB(f, x, y, c, res, inclZ) = [f EXCEPT !.V = V, !.N = N, !.S = S, !.Z = Z, !.C = C, !.H = H]
  BY DEF Alu!setFlags_HSVNZC_SUB
<1> HIDE DEF V, N, S, Z, C, H
<1> QED BY <1>1 DEF Flagged, Names

LEMMA KeepsAddWord ==
  ASSUME NEW f, Flagged(f), NEW x, NEW y, NEW res
  PROVE  Flagged(Alu!setFlags_SVNZC_ADD_16(f, x, y, res))
<1> DEFINE V == res # x + y
           N == res >= 32768
           S == N # V
           Z == res = 0
           C == res < 32768 /\ x >= 32768
<1>1. Alu!setFlags_SVNZC_ADD_16(f, x, y, res) = [f EXCEPT !.V = V, !.N = N, !.S = S, !.Z = Z, !.C = C]
  BY DEF Alu!setFlags_SVNZC_ADD_16
<1> HIDE DEF V, N, S, Z, C
<1> QED BY <1>1 DEF Flagged, Names

LEMMA KeepsSubWord ==
  ASSUME NEW f, Flagged(f), NEW x, NEW y, NEW res
  PROVE  Flagged(Alu!setFlags_SVNZC_SUB_16(f, x, y, res))
<1> DEFINE V == x >= 32768 /\ res < 32768
           N == res >= 32768
           S == N # V
           Z == res = 0
           C == y > x
<1>1. Alu!setFlags_SVNZC_SUB_16(f, x, y, res) = [f EXCEPT !.V = V, !.N = N, !.S = S, !.Z = Z, !.C = C]
  BY DEF Alu!setFlags_SVNZC_SUB_16
<1> HIDE DEF V, N, S, Z, C
<1> QED BY <1>1 DEF Flagged, Names

LEMMA KeepsAdd ==
  ASSUME NEW f, Flagged(f), NEW x, NEW y, NEW c, NEW res
  PROVE  Flagged(Alu!setFlags_HSVNZC_ADD(f, x, y, c, res))
<1> DEFINE V == \/ Alu!Top(x) /\ Alu!Top(y) /\ ~Alu!Top(res)
                \/ ~Alu!Top(x) /\ ~Alu!Top(y) /\ Alu!Top(res)
           S == Alu!Top(res) # V
           C == (x + y + c) \div 256 # 0
           H == (x % 16) + (y % 16) + c >= 16
           base == Alu!setFlags_NZ(f, res)
<1>1. Alu!setFlags_HSVNZC_ADD(f, x, y, c, res) = [base EXCEPT !.V = V, !.S = S, !.C = C, !.H = H]
  BY DEF Alu!setFlags_HSVNZC_ADD
<1>2. Flagged(base)
  BY KeepsNZ
<1> HIDE DEF V, S, C, H, base
<1> QED BY <1>1, <1>2 DEF Flagged, Names

LEMMA KeepsSVNZ ==
  ASSUME NEW f, Flagged(f), NEW res
  PROVE  Flagged(Alu!setFlags_SVNZ(f, res))
<1> DEFINE S == Alu!Top(res)
           base == Alu!setFlags_NZ(f, res)
<1>1. Alu!setFlags_SVNZ(f, res) = [base EXCEPT !.V = FALSE, !.S = S]
  BY DEF Alu!setFlags_SVNZ
<1>2. Flagged(base)
  BY KeepsNZ
<1> HIDE DEF S, base
<1> QED BY <1>1, <1>2 DEF Flagged, Names

LEMMA KeepsSVNZC ==
  ASSUME NEW f, Flagged(f), NEW res
  PROVE  Flagged(Alu!setFlags_SVNZC(f, res))
<1> DEFINE base == Alu!setFlags_SVNZ(f, res)
<1>1. Alu!setFlags_SVNZC(f, res) = [base EXCEPT !.C = TRUE] /\ Flagged(base)
  BY KeepsSVNZ DEF Alu!setFlags_SVNZC
<1> HIDE DEF base
<1> QED BY <1>1 DEF Flagged, Names

LEMMA KeepsNeg ==
  ASSUME NEW f, Flagged(f), NEW d
  PROVE  Flagged(Alu!INST_NEG(d, f).f)
<1> DEFINE res == (0 - d) % 256
           H == d % 16 # 0
           V == res = 128
           S == Alu!Top(res) # V
           C == res # 0
           base == Alu!setFlags_NZ(f, (0 - d) % 256)
<1>1. Alu!INST_NEG(d, f).f = [base EXCEPT !.H = H, !.V = V, !.S = S, !.C = C]
  BY DEF Alu!INST_NEG, Alu!Out
<1>2. Flagged(base)
  BY KeepsNZ
<1> HIDE DEF res, H, V, S, C, base
<1> QED BY <1>1, <1>2 DEF Flagged, Names

LEMMA KeepsInc ==
  ASSUME NEW f, Flagged(f), NEW d
  PROVE  Flagged(Alu!INST_INC(d, f).f)
<1> DEFINE res == (d + 1) % 256
           V == res = 128
           S == Alu!Top(res) # V
           base == Alu!setFlags_NZ(f, (d + 1) % 256)
<1>1. Alu!INST_INC(d, f).f = [base EXCEPT !.V = V, !.S = S]
  BY DEF Alu!INST_INC, Alu!Out
<1>2. Flagged(base)
  BY KeepsNZ
<1> HIDE DEF res, V, S, base
<1> QED BY <1>1, <1>2 DEF Flagged, Names

LEMMA KeepsDec ==
  ASSUME NEW f, Flagged(f), NEW d
  PROVE  Flagged(Alu!INST_DEC(d, f).f)
<1> DEFINE res == (d - 1) % 256
           V == res = 127
           S == Alu!Top(res) # V
           base == Alu!setFlags_NZ(f, (d - 1) % 256)
<1>1. Alu!INST_DEC(d, f).f = [base EXCEPT !.V = V, !.S = S]
  BY DEF Alu!INST_DEC, Alu!Out
<1>2. Flagged(base)
  BY KeepsNZ
<1> HIDE DEF res, V, S, base
<1> QED BY <1>1, <1>2 DEF Flagged, Names

LEMMA KeepsShift ==
  ASSUME NEW f, Flagged(f), NEW d, NEW res
  PROVE  Flagged(Alu!Shifted(d, res, f).f)
<1> DEFINE C == d % 2 = 1
           N == Alu!Top(res)
           V == N # C
           S == N # (N # C)
           Z == res = 0
<1>1. Alu!Shifted(d, res, f).f = [f EXCEPT !.C = C, !.N = N, !.V = V, !.S = S, !.Z = Z]
  BY DEF Alu!Shifted, Alu!Out
<1> HIDE DEF C, N, V, S, Z
<1> QED BY <1>1 DEF Flagged, Names

LEMMA KeepsProduct ==
  ASSUME NEW f, Flagged(f), NEW p
  PROVE  Flagged(Alu!Product(p, f).f) /\ Flagged(Alu!Fraction(p, f).f)
<1> DEFINE C == p % 65536 >= 32768
           Z == p % 65536 = 0
           Z2 == (2 * p) % 65536 = 0
<1>1. /\ Alu!Product(p, f).f = [f EXCEPT !.C = C, !.Z = Z]
      /\ Alu!Fraction(p, f).f = [f EXCEPT !.C = C, !.Z = Z2]
  BY DEF Alu!Product, Alu!Fraction, Alu!Out
<1> HIDE DEF C, Z, Z2
<1> QED BY <1>1 DEF Flagged, Names

LEMMA KeepsBit ==
  ASSUME NEW f, Flagged(f), NEW d
  PROVE  Flagged(Alu!INST_BST(d, 7, f).f)
<1> DEFINE T == Alu!Bit(d, 7)
<1>1. Alu!INST_BST(d, 7, f).f = [f EXCEPT !.T = T]
  BY DEF Alu!INST_BST, Alu!Out
<1> HIDE DEF T
<1> QED BY <1>1 DEF Flagged, Names

LEMMA KeepsWhole ==
  ASSUME NEW f, Flagged(f), NEW val, NEW s
  PROVE  /\ Flagged(Alu!updateSREGCache(f, val))
         /\ Flagged(Alu!INST_BSET(s, f)) /\ Flagged(Alu!INST_BCLR(s, f))
<1> DEFINE P(flag) == Alu!Bit(val, (CHOOSE i \in 1..7 : Alu!sregOrder[i] = flag) - 1)
<1>1. DOMAIN f = Names
  BY DEF Flagged
<1>2. Alu!updateSREGCache(f, val) = [flag \in Names |-> P(flag)]
  BY <1>1 DEF Alu!updateSREGCache
<1> HIDE DEF P
<1>3. Flagged(Alu!updateSREGCache(f, val))
  BY <1>2 DEF Flagged
<1>4. Flagged(Alu!INST_BSET(s, f))
  BY <1>1 DEF Alu!INST_BSET, Flagged
<1>5. Flagged(Alu!INST_BCLR(s, f))
  BY <1>1 DEF Alu!INST_BCLR, Flagged
<1> QED BY <1>3, <1>4, <1>5

LEMMA FlagsStay ==
  ASSUME Flagged(sreg), Alu!Arithmetic \/ Alu!LogicAndBits
  PROVE  Flagged(sreg')
<1>1. \A v, f : Alu!Out(v, f).f = f
  BY DEF Alu!Out
<1>2. \A x, y : /\ Flagged(Alu!INST_ADD(x, y, sreg).f) /\ Flagged(Alu!INST_ADC(x, y, sreg).f)
                /\ Flagged(Alu!INST_SUB(x, y, sreg).f) /\ Flagged(Alu!INST_SBC(x, y, sreg).f)
  <2>1. \A x, y : Flagged(Alu!INST_ADD(x, y, sreg).f)
    BY <1>1, KeepsAdd DEF Alu!INST_ADD
  <2>2. \A x, y : Flagged(Alu!INST_ADC(x, y, sreg).f)
    BY <1>1, KeepsAdd DEF Alu!INST_ADC
  <2>3. \A x, y : Flagged(Alu!INST_SUB(x, y, sreg).f)
    <3>1. \A x, y, c, res : Flagged(Alu!setFlags_HSVNZC_SUB(sreg, x, y, c, res, FALSE))
      BY KeepsSub, Zenon
    <3>2. ASSUME NEW x, NEW y PROVE Flagged(Alu!INST_SUB(x, y, sreg).f)
      <4>1. \E c, res : Alu!INST_SUB(x, y, sreg).f = Alu!setFlags_HSVNZC_SUB(sreg, x, y, c, res, FALSE)
        BY <1>1, ZenonT(60) DEF Alu!INST_SUB
      <4> QED BY <3>1, <4>1, Zenon
    <3> QED BY <3>2
  <2>4. \A x, y : Flagged(Alu!INST_SBC(x, y, sreg).f)
    <3>1. \A x, y, c, res : Flagged(Alu!setFlags_HSVNZC_SUB(sreg, x, y, c, res, TRUE))
      BY KeepsSub, Zenon
    <3>2. ASSUME NEW x, NEW y PROVE Flagged(Alu!INST_SBC(x, y, sreg).f)
      <4>1. \E c, res : Alu!INST_SBC(x, y, sreg).f = Alu!setFlags_HSVNZC_SUB(sreg, x, y, c, res, TRUE)
        BY <1>1, ZenonT(60) DEF Alu!INST_SBC
      <4> QED BY <3>1, <4>1, Zenon
    <3> QED BY <3>2
  <2> QED BY <2>1, <2>2, <2>3, <2>4, Zenon
<1>3. \A x, y : /\ Flagged(Alu!INST_SUBI(x, y, sreg).f) /\ Flagged(Alu!INST_SBCI(x, y, sreg).f)
                /\ Flagged(Alu!INST_CP(x, y, sreg).f) /\ Flagged(Alu!INST_CPI(x, y, sreg).f)
                /\ Flagged(Alu!INST_CPC(x, y, sreg).f)
  BY <1>1, <1>2, Zenon DEF Alu!INST_SUBI, Alu!INST_SBCI, Alu!INST_CP, Alu!INST_CPI, Alu!INST_CPC
<1>4. \A x, y : Flagged(Alu!INST_ADIW(x, y, sreg).f) /\ Flagged(Alu!INST_SBIW(x, y, sreg).f)
  BY <1>1, KeepsAddWord, KeepsSubWord DEF Alu!INST_ADIW, Alu!INST_SBIW
<1>5. \A x, y : /\ Flagged(Alu!INST_MUL(x, y, sreg).f) /\ Flagged(Alu!INST_MULS(x, y, sreg).f)
                /\ Flagged(Alu!INST_MULSU(x, y, sreg).f) /\ Flagged(Alu!INST_FMUL(x, y, sreg).f)
                /\ Flagged(Alu!INST_FMULS(x, y, sreg).f) /\ Flagged(Alu!INST_FMULSU(x, y, sreg).f)
  BY KeepsProduct, Zenon DEF Alu!INST_MUL, Alu!INST_MULS, Alu!INST_MULSU, Alu!INST_FMUL,
     Alu!INST_FMULS, Alu!INST_FMULSU
<1>6. \A x : /\ Flagged(Alu!INST_NEG(x, sreg).f) /\ Flagged(Alu!INST_INC(x, sreg).f)
             /\ Flagged(Alu!INST_DEC(x, sreg).f)
  BY KeepsNeg, KeepsInc, KeepsDec, Zenon
<1>7. \A x, y : /\ Flagged(Alu!INST_AND(x, y, sreg).f) /\ Flagged(Alu!INST_OR(x, y, sreg).f)
                /\ Flagged(Alu!INST_EOR(x, y, sreg).f)
  BY <1>1, KeepsSVNZ, ZenonT(60) DEF Alu!INST_AND, Alu!INST_OR, Alu!INST_EOR, Alu!Logic
<1>8. \A x, y : Flagged(Alu!INST_ANDI(x, y, sreg).f) /\ Flagged(Alu!INST_ORI(x, y, sreg).f)
  BY <1>7, Zenon DEF Alu!INST_ANDI, Alu!INST_ORI
<1>9. \A x : /\ Flagged(Alu!INST_COM(x, sreg).f) /\ Flagged(Alu!INST_LSR(x, sreg).f)
             /\ Flagged(Alu!INST_ROR(x, sreg).f) /\ Flagged(Alu!INST_ASR(x, sreg).f)
             /\ Flagged(Alu!INST_SWAP(x, sreg).f) /\ Flagged(Alu!INST_BST(x, 7, sreg).f)
             /\ Flagged(Alu!INST_BLD(x, 7, sreg).f)
  <2>1. \A x : Flagged(Alu!INST_COM(x, sreg).f)
    BY <1>1, KeepsSVNZC DEF Alu!INST_COM
  <2>2. \A x : Flagged(Alu!INST_LSR(x, sreg).f) /\ Flagged(Alu!INST_ROR(x, sreg).f) /\ Flagged(Alu!INST_ASR(x, sreg).f)
    BY KeepsShift, Zenon DEF Alu!INST_LSR, Alu!INST_ROR, Alu!INST_ASR
  <2>3. \A x : Flagged(Alu!INST_SWAP(x, sreg).f) /\ Flagged(Alu!INST_BLD(x, 7, sreg).f)
    BY <1>1, Zenon DEF Alu!INST_SWAP, Alu!INST_BLD
  <2> QED BY <2>1, <2>2, <2>3, KeepsBit, Zenon
<1>10. CASE Alu!Arithmetic
  BY <1>10, <1>2, <1>3, <1>4, <1>5, <1>6
  DEF Alu!Arithmetic, Alu!Byte1, Alu!Byte2, Alu!Wide, Alu!Multiply, Alu!INST_MOVW
<1>11. CASE Alu!LogicAndBits
  BY <1>11, <1>1, <1>7, <1>8, <1>9, KeepsWhole DEF Alu!LogicAndBits, Alu!Byte1, Alu!Byte2
<1> QED BY <1>10, <1>11
-----------------------------------------------------------------------------
\* The step of an instruction, by its name

\* The second operand; the result in the register, in ah:al, in p1:p0
Source == Alu!Operand(Alu!Current[3])
Stored(r, v) == R' = [R EXCEPT ![r] = v]
Result(out) == Stored(Alu!Current[2], out.v) /\ sreg' = out.f
Pair(out) == R' = [R EXCEPT !.ah = out.v \div 256, !.al = out.v % 256] /\ sreg' = out.f
Double(out) == R' = [R EXCEPT !.p1 = out.v \div 256, !.p0 = out.v % 256] /\ sreg' = out.f

LEMMA Runs ==
  ASSUME Alu!Arithmetic \/ Alu!LogicAndBits, NEW op, op = Alu!Current[1]
  PROVE  /\ (op = "ADD" => Result(Alu!INST_ADD(R[Alu!Current[2]], Source, sreg)))
         /\ (op = "ADC" => Result(Alu!INST_ADC(R[Alu!Current[2]], Source, sreg)))
         /\ (op = "SUB" => Result(Alu!INST_SUB(R[Alu!Current[2]], Source, sreg)))
         /\ (op = "SBC" => Result(Alu!INST_SBC(R[Alu!Current[2]], Source, sreg)))
         /\ (op = "SUBI" => Result(Alu!INST_SUBI(R[Alu!Current[2]], Source, sreg)))
         /\ (op = "SBCI" => Result(Alu!INST_SBCI(R[Alu!Current[2]], Source, sreg)))
         /\ (op = "CP" => Result(Alu!INST_CP(R[Alu!Current[2]], Source, sreg)))
         /\ (op = "CPC" => Result(Alu!INST_CPC(R[Alu!Current[2]], Source, sreg)))
         /\ (op = "CPI" => Result(Alu!INST_CPI(R[Alu!Current[2]], Source, sreg)))
         /\ (op = "INC" => Result(Alu!INST_INC(R[Alu!Current[2]], sreg)))
         /\ (op = "DEC" => Result(Alu!INST_DEC(R[Alu!Current[2]], sreg)))
         /\ (op = "ADIW" => Pair(Alu!INST_ADIW(Alu!Word(R.ah, R.al), R.bl % 64, sreg)))
         /\ (op = "SBIW" => Pair(Alu!INST_SBIW(Alu!Word(R.ah, R.al), R.bl % 64, sreg)))
         /\ (op = "MUL" => Double(Alu!INST_MUL(R[Alu!Current[2]], R[Alu!Current[3]], sreg)))
         /\ (op = "MULS" => Double(Alu!INST_MULS(R[Alu!Current[2]], R[Alu!Current[3]], sreg)))
         /\ (op = "MULSU" => Double(Alu!INST_MULSU(R[Alu!Current[2]], R[Alu!Current[3]], sreg)))
         /\ (op = "FMUL" => Double(Alu!INST_FMUL(R[Alu!Current[2]], R[Alu!Current[3]], sreg)))
         /\ (op = "FMULS" => Double(Alu!INST_FMULS(R[Alu!Current[2]], R[Alu!Current[3]], sreg)))
         /\ (op = "FMULSU" => Double(Alu!INST_FMULSU(R[Alu!Current[2]], R[Alu!Current[3]], sreg)))
         /\ (op = "MOVW" => R' = [R EXCEPT ![Alu!Current[2]] = R.p1, ![Alu!Current[3]] = R.p0] /\ sreg' = sreg)
<1>1. ASSUME op = "ADD" PROVE Result(Alu!INST_ADD(R[Alu!Current[2]], Source, sreg))
  BY <1>1 DEF Alu!Arithmetic, Alu!LogicAndBits, Alu!Byte1, Alu!Byte2, Alu!Wide, Alu!Multiply, Alu!INST_MOVW, Result, Stored, Source
<1>2. ASSUME op = "ADC" PROVE Result(Alu!INST_ADC(R[Alu!Current[2]], Source, sreg))
  BY <1>2 DEF Alu!Arithmetic, Alu!LogicAndBits, Alu!Byte1, Alu!Byte2, Alu!Wide, Alu!Multiply, Alu!INST_MOVW, Result, Stored, Source
<1>3. ASSUME op = "SUB" PROVE Result(Alu!INST_SUB(R[Alu!Current[2]], Source, sreg))
  BY <1>3 DEF Alu!Arithmetic, Alu!LogicAndBits, Alu!Byte1, Alu!Byte2, Alu!Wide, Alu!Multiply, Alu!INST_MOVW, Result, Stored, Source
<1>4. ASSUME op = "SBC" PROVE Result(Alu!INST_SBC(R[Alu!Current[2]], Source, sreg))
  BY <1>4 DEF Alu!Arithmetic, Alu!LogicAndBits, Alu!Byte1, Alu!Byte2, Alu!Wide, Alu!Multiply, Alu!INST_MOVW, Result, Stored, Source
<1>5. ASSUME op = "SUBI" PROVE Result(Alu!INST_SUBI(R[Alu!Current[2]], Source, sreg))
  BY <1>5 DEF Alu!Arithmetic, Alu!LogicAndBits, Alu!Byte1, Alu!Byte2, Alu!Wide, Alu!Multiply, Alu!INST_MOVW, Result, Stored, Source
<1>6. ASSUME op = "SBCI" PROVE Result(Alu!INST_SBCI(R[Alu!Current[2]], Source, sreg))
  BY <1>6 DEF Alu!Arithmetic, Alu!LogicAndBits, Alu!Byte1, Alu!Byte2, Alu!Wide, Alu!Multiply, Alu!INST_MOVW, Result, Stored, Source
<1>7. ASSUME op = "CP" PROVE Result(Alu!INST_CP(R[Alu!Current[2]], Source, sreg))
  BY <1>7 DEF Alu!Arithmetic, Alu!LogicAndBits, Alu!Byte1, Alu!Byte2, Alu!Wide, Alu!Multiply, Alu!INST_MOVW, Result, Stored, Source
<1>8. ASSUME op = "CPC" PROVE Result(Alu!INST_CPC(R[Alu!Current[2]], Source, sreg))
  BY <1>8 DEF Alu!Arithmetic, Alu!LogicAndBits, Alu!Byte1, Alu!Byte2, Alu!Wide, Alu!Multiply, Alu!INST_MOVW, Result, Stored, Source
<1>9. ASSUME op = "CPI" PROVE Result(Alu!INST_CPI(R[Alu!Current[2]], Source, sreg))
  BY <1>9 DEF Alu!Arithmetic, Alu!LogicAndBits, Alu!Byte1, Alu!Byte2, Alu!Wide, Alu!Multiply, Alu!INST_MOVW, Result, Stored, Source
<1>10. ASSUME op = "INC" PROVE Result(Alu!INST_INC(R[Alu!Current[2]], sreg))
  BY <1>10 DEF Alu!Arithmetic, Alu!LogicAndBits, Alu!Byte1, Alu!Byte2, Alu!Wide, Alu!Multiply, Alu!INST_MOVW, Result, Stored
<1>11. ASSUME op = "DEC" PROVE Result(Alu!INST_DEC(R[Alu!Current[2]], sreg))
  BY <1>11 DEF Alu!Arithmetic, Alu!LogicAndBits, Alu!Byte1, Alu!Byte2, Alu!Wide, Alu!Multiply, Alu!INST_MOVW, Result, Stored
<1>12. ASSUME op = "ADIW" PROVE Pair(Alu!INST_ADIW(Alu!Word(R.ah, R.al), R.bl % 64, sreg))
  BY <1>12 DEF Alu!Arithmetic, Alu!LogicAndBits, Alu!Byte1, Alu!Byte2, Alu!Wide, Alu!Multiply, Alu!INST_MOVW, Pair
<1>13. ASSUME op = "SBIW" PROVE Pair(Alu!INST_SBIW(Alu!Word(R.ah, R.al), R.bl % 64, sreg))
  BY <1>13 DEF Alu!Arithmetic, Alu!LogicAndBits, Alu!Byte1, Alu!Byte2, Alu!Wide, Alu!Multiply, Alu!INST_MOVW, Pair
<1>14. ASSUME op = "MUL" PROVE Double(Alu!INST_MUL(R[Alu!Current[2]], R[Alu!Current[3]], sreg))
  BY <1>14 DEF Alu!Arithmetic, Alu!LogicAndBits, Alu!Byte1, Alu!Byte2, Alu!Wide, Alu!Multiply, Alu!INST_MOVW, Double
<1>15. ASSUME op = "MULS" PROVE Double(Alu!INST_MULS(R[Alu!Current[2]], R[Alu!Current[3]], sreg))
  BY <1>15 DEF Alu!Arithmetic, Alu!LogicAndBits, Alu!Byte1, Alu!Byte2, Alu!Wide, Alu!Multiply, Alu!INST_MOVW, Double
<1>16. ASSUME op = "MULSU" PROVE Double(Alu!INST_MULSU(R[Alu!Current[2]], R[Alu!Current[3]], sreg))
  BY <1>16 DEF Alu!Arithmetic, Alu!LogicAndBits, Alu!Byte1, Alu!Byte2, Alu!Wide, Alu!Multiply, Alu!INST_MOVW, Double
<1>17. ASSUME op = "FMUL" PROVE Double(Alu!INST_FMUL(R[Alu!Current[2]], R[Alu!Current[3]], sreg))
  BY <1>17 DEF Alu!Arithmetic, Alu!LogicAndBits, Alu!Byte1, Alu!Byte2, Alu!Wide, Alu!Multiply, Alu!INST_MOVW, Double
<1>18. ASSUME op = "FMULS" PROVE Double(Alu!INST_FMULS(R[Alu!Current[2]], R[Alu!Current[3]], sreg))
  BY <1>18 DEF Alu!Arithmetic, Alu!LogicAndBits, Alu!Byte1, Alu!Byte2, Alu!Wide, Alu!Multiply, Alu!INST_MOVW, Double
<1>19. ASSUME op = "FMULSU" PROVE Double(Alu!INST_FMULSU(R[Alu!Current[2]], R[Alu!Current[3]], sreg))
  BY <1>19 DEF Alu!Arithmetic, Alu!LogicAndBits, Alu!Byte1, Alu!Byte2, Alu!Wide, Alu!Multiply, Alu!INST_MOVW, Double
<1>20. ASSUME op = "MOVW"
       PROVE  R' = [R EXCEPT ![Alu!Current[2]] = R.p1, ![Alu!Current[3]] = R.p0] /\ sreg' = sreg
  BY <1>20 DEF Alu!Arithmetic, Alu!LogicAndBits, Alu!Byte1, Alu!Byte2, Alu!Wide, Alu!Multiply, Alu!INST_MOVW
<1> QED BY <1>1, <1>2, <1>3, <1>4, <1>5, <1>6, <1>7, <1>8, <1>9, <1>10, <1>11, <1>12, <1>13, <1>14, <1>15, <1>16, <1>17, <1>18, <1>19, <1>20

LEMMA TheSequences ==
  /\ DOMAIN Alu!Programs = {"add", "loop", "sub", "subi", "cp", "cpi", "neg", "test", "same", "not",
       "lsr", "asr", "asrt", "shl4", "isr", "adiw", "sbiw", "mul", "muls", "fmuls"}
  /\ Alu!Programs["add"] = << <<"ADD", "al", "bl">>, <<"ADC", "ah", "bh">> >>
  /\ Alu!Programs["loop"] = << <<"ADD", "al", "bl">>, <<"INC", "n", "-">>, <<"DEC", "n", "-">>, <<"ADC", "ah", "bh">> >>
  /\ Alu!Programs["sub"] = << <<"SUB", "al", "bl">>, <<"SBC", "ah", "bh">> >>
  /\ Alu!Programs["subi"] = << <<"SUBI", "al", "bl">>, <<"SBCI", "ah", "bh">> >>
  /\ Alu!Programs["cp"] = << <<"CP", "al", "bl">>, <<"CPC", "ah", "bh">> >>
  /\ Alu!Programs["cpi"] = << <<"CPI", "al", "bl">>, <<"CPC", "ah", "bh">> >>
  /\ Alu!Programs["adiw"] = << <<"ADIW", "a", "bl">> >>
  /\ Alu!Programs["sbiw"] = << <<"SBIW", "a", "bl">> >>
  /\ Alu!Programs["mul"] = << <<"MUL", "ah", "bh">>, <<"MOVW", "q3", "q2">>, <<"MUL", "al", "bl">>,
       <<"MOVW", "q1", "q0">>, <<"MUL", "ah", "bl">>, <<"ADD", "q1", "p0">>, <<"ADC", "q2", "p1">>,
       <<"ADC", "q3", "z">>, <<"MUL", "bh", "al">>, <<"ADD", "q1", "p0">>, <<"ADC", "q2", "p1">>,
       <<"ADC", "q3", "z">> >>
  /\ Alu!Programs["muls"] = << <<"MULS", "ah", "bh">>, <<"MOVW", "q3", "q2">>, <<"MUL", "al", "bl">>,
       <<"MOVW", "q1", "q0">>, <<"MULSU", "ah", "bl">>, <<"SBC", "q3", "z">>, <<"ADD", "q1", "p0">>,
       <<"ADC", "q2", "p1">>, <<"ADC", "q3", "z">>, <<"MULSU", "bh", "al">>, <<"SBC", "q3", "z">>,
       <<"ADD", "q1", "p0">>, <<"ADC", "q2", "p1">>, <<"ADC", "q3", "z">> >>
  /\ Alu!Programs["fmuls"] = << <<"FMULS", "ah", "bh">>, <<"MOVW", "q3", "q2">>, <<"FMUL", "al", "bl">>,
       <<"ADC", "q2", "z">>, <<"MOVW", "q1", "q0">>, <<"FMULSU", "ah", "bl">>, <<"SBC", "q3", "z">>,
       <<"ADD", "q1", "p0">>, <<"ADC", "q2", "p1">>, <<"ADC", "q3", "z">>, <<"FMULSU", "bh", "al">>,
       <<"SBC", "q3", "z">>, <<"ADD", "q1", "p0">>, <<"ADC", "q2", "p1">>, <<"ADC", "q3", "z">> >>
BY DEF Alu!Programs, Alu!High, Alu!Low, Alu!Extend, Alu!AddLow, Alu!AddMid, Alu!AddHigh
-----------------------------------------------------------------------------
\* What one instruction of a sequence does for the word

\* The registers are bytes; half a sum, and a whole one
Registers == R \in [Alu!Regs -> Byte] /\ R0 \in [Alu!Regs -> Byte]
LowSum == /\ R.al = (R0.al + R0.bl) % 256 /\ R.ah = R0.ah /\ R.bh = R0.bh
          /\ (sreg.C <=> (R0.al + R0.bl > 255))
SumDone == /\ Alu!A1 = (Alu!A0 + Alu!B0) % 65536
           /\ sreg.C = (Alu!A0 + Alu!B0 > 65535)
           /\ sreg.V = ~Alu!InWord(Alu!SignedWord(Alu!A0) + Alu!SignedWord(Alu!B0))
           /\ sreg.S = (Alu!SignedWord(Alu!A0) + Alu!SignedWord(Alu!B0) < 0)

\* ADD of the low bytes; INC and DEC keep its carry; ADC of the high bytes
LEMMA LowByteAdded ==
  ASSUME Registers, Flagged(sreg), R = R0, R0' = R0,
         NEW out, out = Alu!INST_ADD(R["al"], R["bl"], sreg),
         Stored("al", out.v), sreg' = out.f
  PROVE  Registers' /\ Flagged(sreg') /\ LowSum'
<1>1. R["al"] \in Byte /\ R["bl"] \in Byte
  BY DEF Registers, Alu!Regs, Stored
<1>2. /\ out.v = (R["al"] + R["bl"]) % 256 /\ out.v \in Byte
      /\ Added(out.f, R["al"], R["bl"], 0)
  BY <1>1, AddDoes
<1>3. Flagged(sreg') /\ (sreg'.C <=> (R["al"] + R["bl"] > 255))
  <2>1. R["al"] + R["bl"] + 0 = R["al"] + R["bl"]
    <3>1. \A x, y \in Byte : x + y + 0 = x + y
      BY DEF Byte, Alu!Byte
    <3> QED BY <1>1, <3>1, Zenon
  <2>2. Flagged(sreg') /\ (sreg'.C <=> (R["al"] + R["bl"] + 0 > 255))
    BY <1>2 DEF Added
  <2> QED BY <2>1, <2>2
<1>4. Registers'
  BY <1>2 DEF Registers, Alu!Regs, Stored
<1>5. R'.al = (R0'.al + R0'.bl) % 256 /\ R'.ah = R0'.ah /\ R'.bh = R0'.bh
  BY <1>2 DEF Registers, Alu!Regs, Stored
<1> QED BY <1>3, <1>4, <1>5 DEF LowSum

LEMMA Counted ==
  ASSUME Registers, Flagged(sreg), LowSum, R0' = R0,
         NEW out, out = Alu!INST_INC(R["n"], sreg) \/ out = Alu!INST_DEC(R["n"], sreg),
         Stored("n", out.v), sreg' = out.f
  PROVE  Registers' /\ Flagged(sreg') /\ LowSum'
<1>1. R["n"] \in Byte
  BY DEF Registers, Alu!Regs, Stored
<1>2. out.v \in Byte /\ Flagged(out.f) /\ (out.f.C <=> sreg.C)
  BY <1>1, CountDoes
<1>3. Registers'
  BY <1>2 DEF Registers, Alu!Regs, Stored
<1>4. R'.al = R.al /\ R'.ah = R.ah /\ R'.bh = R.bh
  BY DEF Registers, Alu!Regs, Stored
<1>5. (sreg'.C <=> sreg.C)
  BY <1>2
<1> QED BY <1>2, <1>3, <1>4, <1>5 DEF LowSum

LEMMA HighByteAdded ==
  ASSUME Registers, Flagged(sreg), LowSum, R0' = R0,
         NEW out, out = Alu!INST_ADC(R["ah"], R["bh"], sreg),
         Stored("ah", out.v), sreg' = out.f
  PROVE  Registers' /\ Flagged(sreg') /\ SumDone'
<1> DEFINE al == R0["al"]
           ah == R0["ah"]
           bl == R0["bl"]
           bh == R0["bh"]
           c == Alu!Num(sreg.C)
           a == Alu!Word(ah, al)
           bb == Alu!Word(bh, bl)
<1>1. al \in Byte /\ ah \in Byte /\ bl \in Byte /\ bh \in Byte
  BY DEF Registers, Alu!Regs, Stored
<1>2. c \in 0..1 /\ c = IF al + bl > 255 THEN 1 ELSE 0
  <2>1. (sreg.C <=> (al + bl > 255))
    BY DEF LowSum
  <2> QED BY <2>1, Carry
<1>3. out.v = (ah + bh + c) % 256 /\ out.v \in Byte /\ Added(out.f, ah, bh, c)
  <2>1. R["ah"] = ah /\ R["bh"] = bh
    BY DEF LowSum
  <2> HIDE DEF c, ah, bh
  <2> QED BY <1>1, <2>1, AdcDoes DEF c
<1>4. Registers' /\ R'.ah = out.v /\ R'.al = (al + bl) % 256
  BY <1>3 DEF Registers, Alu!Regs, Stored, LowSum
<1>5. Alu!A1' = Alu!Word(out.v, (al + bl) % 256) /\ Alu!A0' = a /\ Alu!B0' = bb
  BY <1>4 DEF Alu!A1, Alu!A0, Alu!B0
<1> HIDE DEF al, ah, bl, bh, c
<1>6. LET sum == Alu!Signed(ah) + Alu!Signed(bh) + c
      IN  /\ Alu!Word((ah + bh + c) % 256, (al + bl) % 256) = (a + bb) % 65536
          /\ (ah + bh + c > 255) <=> (a + bb > 65535)
          /\ (sum < -128 \/ sum > 127) <=> ~Alu!InWord(Alu!SignedWord(a) + Alu!SignedWord(bb))
          /\ (sum < 0) <=> (Alu!SignedWord(a) + Alu!SignedWord(bb) < 0)
  BY <1>1, <1>2, SumWord
<1> HIDE DEF a, bb
<1>7. Alu!A1' = (a + bb) % 65536
  BY <1>3, <1>5, <1>6
<1>8. /\ (sreg'.C \in BOOLEAN /\ sreg'.V \in BOOLEAN /\ sreg'.S \in BOOLEAN)
      /\ (sreg'.C <=> (a + bb > 65535))
      /\ (sreg'.V <=> ~Alu!InWord(Alu!SignedWord(a) + Alu!SignedWord(bb)))
      /\ (sreg'.S <=> (Alu!SignedWord(a) + Alu!SignedWord(bb) < 0))
  BY <1>3, <1>6 DEF Added
<1>9. /\ sreg'.C = (a + bb > 65535)
      /\ sreg'.V = ~Alu!InWord(Alu!SignedWord(a) + Alu!SignedWord(bb))
      /\ sreg'.S = (Alu!SignedWord(a) + Alu!SignedWord(bb) < 0)
  BY <1>8
<1>10. Flagged(sreg')
  BY <1>3 DEF Added
<1> QED BY <1>4, <1>5, <1>7, <1>9, <1>10 DEF SumDone

\* Half a difference, and the flags of a whole one
LowTaken == /\ R.ah = R0.ah /\ R.bh = R0.bh
            /\ (sreg.C <=> (R0.al < R0.bl)) /\ (sreg.Z <=> (R0.al = R0.bl))
DiffFlags == /\ sreg.C = (Alu!A0 < Alu!B0) /\ sreg.Z = (Alu!A0 = Alu!B0)
             /\ sreg.S = (Alu!SignedWord(Alu!A0) < Alu!SignedWord(Alu!B0))

\* SUB, SUBI, CP or CPI of the low bytes, then SBC, SBCI or CPC of the high bytes
LEMMA LowByteTaken ==
  ASSUME Registers, Flagged(sreg), R = R0, R0' = R0,
         NEW out, out = Alu!INST_SUB(R["al"], R["bl"], sreg), sreg' = out.f,
         NEW v, v = out.v \/ v = R["al"], Stored("al", v)
  PROVE  /\ Registers' /\ Flagged(sreg') /\ LowTaken'
         /\ R'.al = v /\ out.v = (R0["al"] - R0["bl"]) % 256
<1>1. R["al"] \in Byte /\ R["bl"] \in Byte
  BY DEF Registers, Alu!Regs, Stored
<1>2. /\ out.v = (R["al"] - R["bl"]) % 256 /\ out.v \in Byte
      /\ Taken(out.f, sreg, R["al"], R["bl"], 0, FALSE)
  <2>1. Subtracted(out, sreg, R["al"], R["bl"])
    BY <1>1, SubDoes
  <2> QED BY <2>1 DEF Subtracted
<1>3. \A x, y \in Byte : /\ y + 0 = y
                         /\ ((x - (y + 0)) % 256 = 0 <=> x = y)
  BY SMTT(60) DEF Byte, Alu!Byte
<1>4. /\ Flagged(sreg') /\ (sreg'.C <=> (R["al"] < R["bl"] + 0))
      /\ (sreg'.Z <=> ((R["al"] - (R["bl"] + 0)) % 256 = 0 /\ (FALSE => sreg.Z)))
  BY <1>2 DEF Taken
<1>5. (sreg'.C <=> (R["al"] < R["bl"])) /\ (sreg'.Z <=> (R["al"] = R["bl"]))
  BY <1>1, <1>3, <1>4, ZenonT(60)
<1>6. Registers' /\ R'.al = v /\ R'.ah = R0'.ah /\ R'.bh = R0'.bh
  BY <1>1, <1>2 DEF Registers, Alu!Regs, Stored
<1> QED BY <1>2, <1>4, <1>5, <1>6 DEF LowTaken

LEMMA HighByteTaken ==
  ASSUME Registers, Flagged(sreg), LowTaken, R0' = R0,
         NEW out, out = Alu!INST_SBC(R["ah"], R["bh"], sreg), sreg' = out.f,
         NEW v, v = out.v \/ v = R["ah"], Stored("ah", v)
  PROVE  /\ Registers' /\ Flagged(sreg') /\ DiffFlags'
         /\ v = out.v /\ R.al = (R0.al - R0.bl) % 256
              => Alu!A1' = (Alu!A0' - Alu!B0') % 65536
         /\ v = R.ah /\ R.al = R0.al => Alu!A1' = Alu!A0'
<1> DEFINE al == R0["al"]
           ah == R0["ah"]
           bl == R0["bl"]
           bh == R0["bh"]
           c == Alu!Num(sreg.C)
           a == Alu!Word(ah, al)
           bb == Alu!Word(bh, bl)
<1>1. al \in Byte /\ ah \in Byte /\ bl \in Byte /\ bh \in Byte
  BY DEF Registers, Alu!Regs, Stored
<1>2. /\ c \in 0..1 /\ c = IF al < bl THEN 1 ELSE 0
      /\ (sreg.Z <=> (al = bl))
  <2>1. (sreg.C <=> (al < bl)) /\ (sreg.Z <=> (al = bl))
    BY DEF LowTaken
  <2> QED BY <2>1, Carry
<1>3. Borrowed(out, sreg, ah, bh, c) /\ R["ah"] = ah
  <2>1. R["ah"] = ah /\ R["bh"] = bh
    BY DEF LowTaken
  <2> HIDE DEF c, ah, bh
  <2> QED BY <1>1, <2>1, SbcDoes DEF c
<1>4. Registers' /\ R'.ah = v /\ R'.al = R.al
  BY <1>1, <1>3 DEF Registers, Alu!Regs, Stored, Borrowed
<1>5. Alu!A1' = Alu!Word(v, R.al) /\ Alu!A0' = a /\ Alu!B0' = bb
  BY <1>4 DEF Alu!A1, Alu!A0, Alu!B0
<1>a. v = R.ah /\ R.al = R0.al => Alu!A1' = Alu!A0'
  BY <1>3, <1>5
<1> HIDE DEF al, ah, bl, bh, c
<1>6. DiffFacts(al, ah, bl, bh, c)
  BY <1>1, <1>2, DiffWord
<1>b. LET diff == Alu!Signed(ah) - Alu!Signed(bh) - c
      IN  /\ Alu!Word((ah - (bh + c)) % 256, (al - bl) % 256) = (a - bb) % 65536
          /\ (ah < bh + c) <=> (a < bb)
          /\ (diff < 0) <=> (Alu!SignedWord(a) < Alu!SignedWord(bb))
          /\ ((ah - (bh + c)) % 256 = 0 /\ al = bl) <=> (a = bb)
  BY <1>6 DEF DiffFacts
<1> HIDE DEF a, bb
<1>7. v = out.v /\ R.al = (al - bl) % 256 => Alu!A1' = (a - bb) % 65536
  BY <1>3, <1>5, <1>b DEF Borrowed
<1>8. /\ (sreg'.C \in BOOLEAN /\ sreg'.Z \in BOOLEAN /\ sreg'.S \in BOOLEAN)
      /\ (sreg'.C <=> (a < bb)) /\ (sreg'.Z <=> (a = bb))
      /\ (sreg'.S <=> (Alu!SignedWord(a) < Alu!SignedWord(bb)))
  BY <1>2, <1>3, <1>b DEF Taken, Borrowed
<1>9. /\ sreg'.C = (a < bb) /\ sreg'.Z = (a = bb)
      /\ sreg'.S = (Alu!SignedWord(a) < Alu!SignedWord(bb))
  BY <1>8
<1>10. Flagged(sreg')
  BY <1>3 DEF Taken, Borrowed
<1> QED BY <1>4, <1>5, <1>a, <1>7, <1>9, <1>10 DEF DiffFlags, al, bl

\* ADIW and SBIW, in one step
LEMMA ConstantAdded ==
  ASSUME Registers, Flagged(sreg), R = R0, R0' = R0,
         NEW out, out = Alu!INST_ADIW(Alu!Word(R.ah, R.al), R.bl % 64, sreg),
         Pair(out)
  PROVE  /\ Registers' /\ Flagged(sreg')
         /\ Alu!A1' = (Alu!A0' + Alu!K6') % 65536
         /\ sreg'.C = (Alu!A0' + Alu!K6' > 65535) /\ sreg'.Z = (Alu!A1' = 0)
<1> DEFINE w == Alu!Word(R0.ah, R0.al)
           K == R0.bl % 64
           res == (w + K) % 65536
<1>1. R0.ah \in Byte /\ R0.al \in Byte /\ R0.bl \in Byte
  BY DEF Registers, Alu!Regs
<1>2. w \in Int /\ 0 <= w /\ w <= 65535 /\ K \in Int /\ 0 <= K /\ K <= 63
  BY <1>1, WordBounds, SixBits
<1>3. out = Alu!INST_ADIW(w, K, sreg) /\ Alu!A0' = w /\ Alu!K6' = K
  BY DEF Alu!A0, Alu!K6
<1> HIDE DEF w, K
<1>4. out.v = res /\ WordAdded(out.f, w, K, res)
  BY <1>2, <1>3, AdiwDoes
<1>5. /\ res \in Int /\ 0 <= res /\ res <= 65535
      /\ ((res < 32768 /\ w >= 32768) <=> (w + K > 65535))
  BY <1>2, AddConstant
<1> HIDE DEF res
<1>b. res \in Int /\ 0 <= res /\ res <= 65535
  BY <1>5
<1>6. res \div 256 \in Byte /\ res % 256 \in Byte /\ Alu!Word(res \div 256, res % 256) = res
  BY <1>b, BytesOfWord
<1>7. Registers' /\ R'.ah = res \div 256 /\ R'.al = res % 256
  BY <1>4, <1>6, ZenonT(60) DEF Registers, Alu!Regs, Pair
<1>8. Alu!A1' = res
  BY <1>6, <1>7 DEF Alu!A1
<1>9. /\ Flagged(sreg') /\ (sreg'.C \in BOOLEAN /\ sreg'.Z \in BOOLEAN)
      /\ (sreg'.C <=> (w + K > 65535)) /\ (sreg'.Z <=> (res = 0))
  BY <1>4, <1>5 DEF WordAdded, Pair
<1>10. sreg'.C = (w + K > 65535) /\ sreg'.Z = (res = 0)
  BY <1>9
<1> QED BY <1>3, <1>7, <1>8, <1>9, <1>10 DEF res

LEMMA ConstantTaken ==
  ASSUME Registers, Flagged(sreg), R = R0, R0' = R0,
         NEW out, out = Alu!INST_SBIW(Alu!Word(R.ah, R.al), R.bl % 64, sreg),
         Pair(out)
  PROVE  /\ Registers' /\ Flagged(sreg')
         /\ Alu!A1' = (Alu!A0' - Alu!K6') % 65536
         /\ sreg'.C = (Alu!A0' < Alu!K6') /\ sreg'.Z = (Alu!A0' = Alu!K6')
         /\ sreg'.S = (Alu!SignedWord(Alu!A0') < Alu!K6')
<1> DEFINE w == Alu!Word(R0.ah, R0.al)
           K == R0.bl % 64
           res == (w - K) % 65536
<1>1. R0.ah \in Byte /\ R0.al \in Byte /\ R0.bl \in Byte
  BY DEF Registers, Alu!Regs
<1>2. w \in Int /\ 0 <= w /\ w <= 65535 /\ K \in Int /\ 0 <= K /\ K <= 63
  BY <1>1, WordBounds, SixBits
<1>3. out = Alu!INST_SBIW(w, K, sreg) /\ Alu!A0' = w /\ Alu!K6' = K
  BY DEF Alu!A0, Alu!K6
<1> HIDE DEF w, K
<1>4. out.v = res /\ WordTaken(out.f, w, K, res)
  BY <1>2, <1>3, SbiwDoes
<1>5. /\ res \in Int /\ 0 <= res /\ res <= 65535
      /\ ((res = 0) <=> (w = K))
      /\ (~((res >= 32768) <=> (w >= 32768 /\ res < 32768)) <=> (Alu!SignedWord(w) < K))
  BY <1>2, SubtractConstant
<1> HIDE DEF res
<1>b. res \in Int /\ 0 <= res /\ res <= 65535
  BY <1>5
<1>6. res \div 256 \in Byte /\ res % 256 \in Byte /\ Alu!Word(res \div 256, res % 256) = res
  BY <1>b, BytesOfWord
<1>7. Registers' /\ R'.ah = res \div 256 /\ R'.al = res % 256
  BY <1>4, <1>6, ZenonT(60) DEF Registers, Alu!Regs, Pair
<1>8. Alu!A1' = res
  BY <1>6, <1>7 DEF Alu!A1
<1>9. /\ Flagged(sreg') /\ (sreg'.C \in BOOLEAN /\ sreg'.Z \in BOOLEAN /\ sreg'.S \in BOOLEAN)
      /\ (sreg'.C <=> (w < K)) /\ (sreg'.Z <=> (w = K))
      /\ (sreg'.S <=> (Alu!SignedWord(w) < K))
  <2>1. (K > w) <=> (w < K)
    BY <1>2
  <2> QED BY <1>4, <1>5, <2>1 DEF WordTaken, Pair
<1>10. /\ sreg'.C = (w < K) /\ sreg'.Z = (w = K)
       /\ sreg'.S = (Alu!SignedWord(w) < K)
  BY <1>9
<1> QED BY <1>3, <1>7, <1>8, <1>9, <1>10 DEF res

\* Bytes, and other numbers, by their bounds
Within(x, lo, hi) == x \in Int /\ lo <= x /\ x <= hi
USE DEF Within
LEMMA ByteBounds == \A x : x \in Byte <=> Within(x, 0, 255)
BY DEF Byte, Alu!Byte

\* The three bytes a product is added to, and the product
Upper(r) == 65536 * r.q3 + 256 * r.q2 + r.q1
Product16(r) == 256 * r.p1 + r.p0
\* The same number of 16 and of 24 bits
Like16(x, y) == \E k \in Int : x = y + 65536 * k
Like24(x, y) == \E k \in Int : x = y + 16777216 * k
\* The operands and the zero register are left alone
OperandsKept == R.z = 0 /\ R.ah = R0.ah /\ R.al = R0.al /\ R.bh = R0.bh /\ R.bl = R0.bl

\* ADD of the low byte leaves the carry and the high byte to be added
LEMMA LowAdded ==
  ASSUME Registers, Flagged(sreg), OperandsKept, R0' = R0, NEW aim \in Int,
         Like24(Upper(R) + Product16(R), aim),
         NEW out, out = Alu!INST_ADD(R["q1"], R["p0"], sreg), Stored("q1", out.v), sreg' = out.f
  PROVE  /\ Registers' /\ Flagged(sreg') /\ OperandsKept' /\ R'.q0 = R.q0
         /\ Like24(Upper(R') + 256 * Alu!Num(sreg'.C) + 256 * R'.p1, aim)
<1> DEFINE x == R["q1"]
           y == R["p0"]
           c == Alu!Num(sreg'.C)
<1>1. x \in Byte /\ y \in Byte /\ R.q3 \in Byte /\ R.q2 \in Byte /\ R.p1 \in Byte
  BY DEF Registers, Alu!Regs
<1>2. /\ out.v = (x + y) % 256 /\ out.v \in Byte /\ Added(out.f, x, y, 0)
  BY <1>1, AddDoes
<1>3. Flagged(sreg') /\ (sreg'.C <=> (x + y + 0 > 255))
  BY <1>2 DEF Added
<1>4. Registers' /\ OperandsKept' /\ R'.q0 = R.q0
  BY <1>2 DEF Registers, Alu!Regs, Stored, OperandsKept
<1>5. /\ R'.q1 = out.v /\ R'.q2 = R.q2 /\ R'.q3 = R.q3 /\ R'.p1 = R.p1
  BY DEF Registers, Alu!Regs, Stored
<1> DEFINE v == out.v
           q3 == R.q3
           q2 == R.q2
           p1 == R.p1
           n == Upper(R) + Product16(R)
           m == Upper(R') + 256 * c + 256 * R'.p1
<1>6. /\ x \in Byte /\ y \in Byte /\ q3 \in Byte /\ q2 \in Byte /\ p1 \in Byte
      /\ v = (x + y) % 256
      /\ n = 65536 * q3 + 256 * q2 + x + (256 * p1 + y)
      /\ m = 65536 * q3 + 256 * q2 + v + 256 * c + 256 * p1
  BY <1>1, <1>2, <1>5 DEF Upper, Product16
<1>a. sreg'.C <=> (x + y + 0 > 255)
  BY <1>3
<1> HIDE DEF x, y, v, q3, q2, p1, n, m, c
<1>7. x + y + 0 > 255 <=> x + y > 255
  BY ByteBounds, <1>6
<1>8. c = IF x + y > 255 THEN 1 ELSE 0
  BY <1>a, <1>7, Carry DEF c
<1>b. v + 256 * c = x + y /\ Within(v, 0, 255) /\ c \in 0..1
  <2>1. Within(x, 0, 255) /\ Within(y, 0, 255) /\ v = (x + y) % 256
    BY ByteBounds, <1>6
  <2>2. CASE x + y > 255
    BY <1>8, <2>1, <2>2
  <2>3. CASE ~(x + y > 255)
    BY <1>8, <2>1, <2>3
  <2> QED BY <2>2, <2>3
<1>9. m = n
  BY ByteBounds, <1>6, <1>b
<1>10. Like24(n, aim)
  BY DEF n
<1> QED BY <1>3, <1>4, <1>9, <1>10 DEF c, m

\* ADC of the high byte leaves its carry
LEMMA MidAdded ==
  ASSUME Registers, Flagged(sreg), OperandsKept, R0' = R0, NEW aim \in Int,
         Like24(Upper(R) + 256 * Alu!Num(sreg.C) + 256 * R.p1, aim),
         NEW out, out = Alu!INST_ADC(R["q2"], R["p1"], sreg), Stored("q2", out.v), sreg' = out.f
  PROVE  /\ Registers' /\ Flagged(sreg') /\ OperandsKept' /\ R'.q0 = R.q0
         /\ Like24(Upper(R') + 65536 * Alu!Num(sreg'.C), aim)
<1> DEFINE x == R["q2"]
           y == R["p1"]
           b == Alu!Num(sreg.C)
           c == Alu!Num(sreg'.C)
<1>1. x \in Byte /\ y \in Byte /\ R.q3 \in Byte /\ R.q1 \in Byte /\ b \in 0..1
  BY Carry DEF Registers, Alu!Regs
<1>2. /\ out.v = (x + y + b) % 256 /\ out.v \in Byte /\ Added(out.f, x, y, b)
  BY <1>1, AdcDoes
<1>3. Flagged(sreg') /\ (sreg'.C <=> (x + y + b > 255))
  BY <1>2 DEF Added
<1>4. Registers' /\ OperandsKept' /\ R'.q0 = R.q0
  BY <1>2 DEF Registers, Alu!Regs, Stored, OperandsKept
<1>5. R'.q2 = out.v /\ R'.q1 = R.q1 /\ R'.q3 = R.q3
  BY DEF Registers, Alu!Regs, Stored
<1> DEFINE v == out.v
           q3 == R.q3
           q1 == R.q1
           n == Upper(R) + 256 * b + 256 * R.p1
           m == Upper(R') + 65536 * c
<1>6. /\ x \in Byte /\ y \in Byte /\ q3 \in Byte /\ q1 \in Byte /\ b \in 0..1
      /\ v = (x + y + b) % 256
      /\ n = 65536 * q3 + 256 * x + q1 + 256 * b + 256 * y
      /\ m = 65536 * q3 + 256 * v + q1 + 65536 * c
  BY <1>1, <1>2, <1>5 DEF Upper
<1>a. sreg'.C <=> (x + y + b > 255)
  BY <1>3
<1> HIDE DEF x, y, v, q3, q1, n, m, b, c
<1>7. c = IF x + y + b > 255 THEN 1 ELSE 0
  BY <1>a, Carry DEF c
<1>b. v + 256 * c = x + y + b /\ Within(v, 0, 255) /\ c \in 0..1
  <2>1. Within(x, 0, 255) /\ Within(y, 0, 255) /\ Within(b, 0, 1) /\ v = (x + y + b) % 256
    BY ByteBounds, <1>6
  <2>2. CASE x + y + b > 255
    BY <1>7, <2>1, <2>2
  <2>3. CASE ~(x + y + b > 255)
    BY <1>7, <2>1, <2>3
  <2> QED BY <2>2, <2>3
<1>8. m = n
  BY ByteBounds, <1>6, <1>b
<1>9. Like24(n, aim)
  BY DEF n, b
<1> QED BY <1>3, <1>4, <1>8, <1>9 DEF c, m

\* ADC of zero takes the carry, and SBC of zero the sign, into the top byte
LEMMA TopAdded ==
  ASSUME Registers, Flagged(sreg), OperandsKept, R0' = R0, NEW aim \in Int,
         Like24(Upper(R) + 65536 * Alu!Num(sreg.C), aim),
         NEW out, out = Alu!INST_ADC(R["q3"], R["z"], sreg), Stored("q3", out.v), sreg' = out.f
  PROVE  /\ Registers' /\ Flagged(sreg') /\ OperandsKept' /\ R'.q0 = R.q0
         /\ Like24(Upper(R'), aim)
<1> DEFINE x == R["q3"]
           b == Alu!Num(sreg.C)
<1>1. /\ x \in Byte /\ R.q2 \in Byte /\ R.q1 \in Byte /\ b \in 0..1 /\ R["z"] = 0 /\ 0 \in Byte
  BY ByteBounds, Carry DEF Registers, Alu!Regs, OperandsKept
<1>2. out.v = (x + 0 + b) % 256 /\ out.v \in Byte /\ Added(out.f, x, 0, b)
  BY <1>1, AdcDoes
<1>3. Flagged(sreg')
  BY <1>2 DEF Added
<1>4. Registers' /\ OperandsKept' /\ R'.q0 = R.q0
  BY <1>2 DEF Registers, Alu!Regs, Stored, OperandsKept
<1>5. R'.q3 = out.v /\ R'.q1 = R.q1 /\ R'.q2 = R.q2
  BY DEF Registers, Alu!Regs, Stored
<1> DEFINE v == out.v
           q2 == R.q2
           q1 == R.q1
           n == Upper(R) + 65536 * b
           m == Upper(R')
<1>6. /\ x \in Byte /\ q2 \in Byte /\ q1 \in Byte /\ b \in 0..1
      /\ v = (x + 0 + b) % 256 /\ v \in Byte
      /\ n = 65536 * x + 256 * q2 + q1 + 65536 * b
      /\ m = 65536 * v + 256 * q2 + q1
  BY <1>1, <1>2, <1>5 DEF Upper
<1>7. PICK k \in Int : n = aim + 16777216 * k
  BY DEF Like24
<1> HIDE DEF x, v, q2, q1, n, m, b
<1>8. v = x + b \/ v = x + b - 256
  <2>1. Within(x, 0, 255) /\ b \in 0..1 /\ v = (x + b) % 256
    BY ByteBounds, <1>6
  <2> QED BY <2>1
<1>9. m = n \/ m = n - 16777216
  BY ByteBounds, <1>6, <1>8
<1>10. m = aim + 16777216 * k \/ m = aim + 16777216 * (k - 1)
  BY <1>7, <1>9
<1>11. PICK j \in {k, k - 1} : m = aim + 16777216 * j
  BY <1>10
<1>12. Like24(m, aim)
  <2>1. j \in Int
    BY <1>7, <1>11
  <2> QED BY <1>11, <2>1 DEF Like24
<1> QED BY <1>3, <1>4, <1>12 DEF m

LEMMA SignTaken ==
  ASSUME Registers, Flagged(sreg), OperandsKept, R0' = R0, NEW aim \in Int,
         Like24(Upper(R) + Product16(R) - 65536 * Alu!Num(sreg.C), aim),
         NEW out, out = Alu!INST_SBC(R["q3"], R["z"], sreg), Stored("q3", out.v), sreg' = out.f
  PROVE  /\ Registers' /\ Flagged(sreg') /\ OperandsKept' /\ R'.q0 = R.q0
         /\ Like24(Upper(R') + Product16(R'), aim)
<1> DEFINE x == R["q3"]
           b == Alu!Num(sreg.C)
<1>1. /\ x \in Byte /\ R.q2 \in Byte /\ R.q1 \in Byte /\ R.p1 \in Byte /\ R.p0 \in Byte
      /\ b \in 0..1 /\ R["z"] = 0 /\ 0 \in Byte
  BY ByteBounds, Carry DEF Registers, Alu!Regs, OperandsKept
<1>2. out.v = (x - (0 + b)) % 256 /\ out.v \in Byte /\ Flagged(sreg')
  <2>1. Borrowed(out, sreg, x, 0, b)
    BY <1>1, SbcDoes
  <2> QED BY <2>1 DEF Borrowed, Taken
<1>4. Registers' /\ OperandsKept' /\ R'.q0 = R.q0
  BY <1>2 DEF Registers, Alu!Regs, Stored, OperandsKept
<1>5. /\ R'.q3 = out.v /\ R'.q1 = R.q1 /\ R'.q2 = R.q2 /\ R'.p1 = R.p1 /\ R'.p0 = R.p0
  BY DEF Registers, Alu!Regs, Stored
<1> DEFINE v == out.v
           q2 == R.q2
           q1 == R.q1
           p == Product16(R)
           n == Upper(R) + Product16(R) - 65536 * b
           m == Upper(R') + Product16(R')
<1>6. /\ x \in Byte /\ q2 \in Byte /\ q1 \in Byte /\ b \in 0..1
      /\ v = (x - (0 + b)) % 256 /\ v \in Byte
      /\ n = 65536 * x + 256 * q2 + q1 + p - 65536 * b
      /\ m = 65536 * v + 256 * q2 + q1 + p
  BY <1>1, <1>2, <1>5 DEF Upper, Product16
<1>7. p \in Int
  <2>1. \A i, j \in Byte : 256 * i + j \in Int
    BY ByteBounds
  <2> QED BY <1>1, <2>1 DEF Product16
<1>8. PICK k \in Int : n = aim + 16777216 * k
  BY DEF Like24
<1> HIDE DEF x, v, q2, q1, p, n, m, b
<1>9. v = x - b \/ v = x - b + 256
  BY ByteBounds, <1>6
<1>10. m = n \/ m = n + 16777216
  BY ByteBounds, <1>6, <1>7, <1>9
<1>11. m = aim + 16777216 * k \/ m = aim + 16777216 * (k + 1)
  BY <1>8, <1>10
<1>12. PICK j \in {k, k + 1} : m = aim + 16777216 * j
  BY <1>11
<1>13. Like24(m, aim)
  <2>1. j \in Int
    BY <1>8, <1>12
  <2> QED BY <1>12, <2>1 DEF Like24
<1> QED BY <1>2, <1>4, <1>13 DEF m

\* Both bytes of a product stored
PairStored(hi, lo) == R' = [R EXCEPT !.p1 = hi, !.p0 = lo]
LEMMA ProductStored ==
  ASSUME Registers, R0' = R0, NEW hi \in Byte, NEW lo \in Byte, PairStored(hi, lo)
  PROVE  Registers'
BY DEF Registers, Alu!Regs, PairStored

\* A product in p1:p0, and nothing else changed but the flags
LEMMA Multiplying ==
  ASSUME Registers, OperandsKept, R0' = R0, NEW out, NEW top \in Int, NEW res \in Int,
         0 <= res, res <= 65535, out.v = res, Multiplied(out.f, top, res), Double(out)
  PROVE  /\ Registers' /\ Flagged(sreg') /\ OperandsKept'
         /\ R'.q3 = R.q3 /\ R'.q2 = R.q2 /\ R'.q1 = R.q1 /\ R'.q0 = R.q0
         /\ Product16(R') = res
         /\ Alu!Num(sreg'.C) = IF top >= 32768 THEN 1 ELSE 0
<1> DEFINE hi == res \div 256
           lo == res % 256
<1>1. hi \in Byte /\ lo \in Byte /\ Alu!Word(hi, lo) = res
  BY BytesOfWord
<1>2. R' = [R EXCEPT !.p1 = hi, !.p0 = lo] /\ sreg' = out.f
  BY DEF Double
<1> HIDE DEF hi, lo
<1>3. /\ Registers' /\ OperandsKept' /\ R'.p1 = hi /\ R'.p0 = lo
      /\ R'.q3 = R.q3 /\ R'.q2 = R.q2 /\ R'.q1 = R.q1 /\ R'.q0 = R.q0
  <2>1. Registers'
    <3>1. hi \in Byte /\ lo \in Byte
      BY <1>1
    <3>2. PairStored(hi, lo)
      BY <1>2 DEF PairStored
    <3>3. Registers /\ R0' = R0
      OBVIOUS
    <3> HIDE DEF Registers
    <3> QED BY <3>1, <3>2, <3>3, ProductStored
  <2>2. R'.p1 = hi /\ R'.p0 = lo
    BY <1>2 DEF Registers, Alu!Regs
  <2>3. R'.q3 = R.q3 /\ R'.q2 = R.q2 /\ R'.q1 = R.q1 /\ R'.q0 = R.q0
    BY <1>2 DEF Registers, Alu!Regs
  <2>4. R'.z = R.z /\ R'.ah = R.ah /\ R'.al = R.al /\ R'.bh = R.bh /\ R'.bl = R.bl
    BY <1>2 DEF Registers, Alu!Regs
  <2>5. OperandsKept'
    BY <2>4 DEF OperandsKept
  <2> QED BY <2>1, <2>2, <2>3, <2>5
<1>4. Flagged(sreg') /\ (sreg'.C <=> (top >= 32768))
  BY <1>2 DEF Multiplied
<1>5. Product16(R') = res
  BY <1>1, <1>3 DEF Product16, Alu!Word
<1> QED BY <1>3, <1>4, <1>5, Carry

LEMMA Moved2 ==
  ASSUME Registers, OperandsKept, R0' = R0, NEW hi, NEW lo,
         <<hi, lo>> = <<"q3", "q2">> \/ <<hi, lo>> = <<"q1", "q0">>,
         R' = [R EXCEPT ![hi] = R.p1, ![lo] = R.p0]
  PROVE  /\ Registers' /\ OperandsKept' /\ R'[hi] = R.p1 /\ R'[lo] = R.p0
         /\ R'.p1 = R.p1 /\ R'.p0 = R.p0
         /\ (hi = "q1" => R'.q3 = R.q3 /\ R'.q2 = R.q2)
BY DEF Registers, Alu!Regs, OperandsKept

\* Products of bytes are words, and of a signed and an unsigned byte signed words
LEMMA BoundedProduct ==
  ASSUME NEW lo \in Int, NEW hi \in Int, NEW x \in Int, NEW y \in Int, NEW w \in Int,
         lo <= x, x <= hi, 0 <= y, w = x * y
  PROVE  lo * y <= w /\ w <= hi * y
<1>1. \A a, b \in Int : a >= 0 /\ b >= 0 => a * b >= 0
  OBVIOUS
<1>2. (hi - x) * y >= 0 /\ (x - lo) * y >= 0
  BY <1>1
<1>3. (hi - x) * y = hi * y - w /\ (x - lo) * y = w - lo * y
  OBVIOUS
<1>4. hi * y \in Int /\ lo * y \in Int
  OBVIOUS
<1> DEFINE h == hi * y
           l == lo * y
<1>5. h - w >= 0 /\ w - l >= 0 /\ h \in Int /\ l \in Int
  BY <1>2, <1>3, <1>4
<1> HIDE DEF h, l
<1>6. l <= w /\ w <= h
  BY <1>5
<1> QED BY <1>6 DEF h, l

LEMMA ByteProducts ==
  ASSUME NEW x \in Byte, NEW y \in Byte
  PROVE  /\ Within(x * y, 0, 65025)
         /\ Within(Alu!Signed(x) * y, -32640, 32385)
         /\ Alu!Signed(x) * Alu!Signed(y) \in Int
<1> DEFINE s == Alu!Signed(x)
           t == Alu!Signed(y)
<1>1. Within(s, -128, 127) /\ Within(t, -128, 127) /\ Within(x, 0, 255) /\ Within(y, 0, 255)
  BY ByteBounds DEF Alu!Signed
<1>2. x \in Int /\ y \in Int /\ 0 <= x /\ x <= 255 /\ 0 <= y /\ y <= 255
  BY <1>1
<1> HIDE DEF s, t
<1>3. s \in Int /\ t \in Int /\ -128 <= s /\ s <= 127
  BY <1>1
<1> DEFINE w == x * y
           v == s * y
<1>4. w \in Int /\ v \in Int /\ s * t \in Int
  BY <1>2, <1>3
<1>5. 0 * y <= w /\ w <= 255 * y
  BY <1>2, <1>4, BoundedProduct
<1>6. -128 * y <= v /\ v <= 127 * y
  BY <1>2, <1>3, <1>4, BoundedProduct
<1> HIDE DEF w, v
<1>7. Within(w, 0, 65025) /\ Within(v, -32640, 32385)
  BY <1>2, <1>4, <1>5, <1>6
<1> QED BY <1>4, <1>7 DEF w, v, s, t

\* The four products of a sequence, doubled for fractions
LongProducts == {"mul", "muls", "fmuls"}
Hh(p) == CASE p = "mul" -> R0["ah"] * R0["bh"]
           [] p = "muls" -> Alu!Signed(R0["ah"]) * Alu!Signed(R0["bh"])
           [] p = "fmuls" -> 2 * (Alu!Signed(R0["ah"]) * Alu!Signed(R0["bh"]))
Ll(p) == IF p = "fmuls" THEN 2 * (R0["al"] * R0["bl"]) ELSE R0["al"] * R0["bl"]
Hl(p) == CASE p = "mul" -> R0["ah"] * R0["bl"]
           [] p = "muls" -> Alu!Signed(R0["ah"]) * R0["bl"]
           [] p = "fmuls" -> 2 * (Alu!Signed(R0["ah"]) * R0["bl"])
Lh(p) == CASE p = "mul" -> R0["bh"] * R0["al"]
           [] p = "muls" -> Alu!Signed(R0["bh"]) * R0["al"]
           [] p = "fmuls" -> 2 * (Alu!Signed(R0["bh"]) * R0["al"])
Base(p) == 256 * Hh(p) + Ll(p) \div 256

LEMMA PartBounds ==
  ASSUME Registers, NEW p \in LongProducts
  PROVE  /\ Hh(p) \in Int /\ Within(Ll(p), 0, 130050) /\ (p # "fmuls" => Within(Ll(p), 0, 65025))
         /\ Within(Hl(p), -65280, 65025) /\ Within(Lh(p), -65280, 65025)
         /\ p = "mul" => Within(Hl(p), 0, 65025) /\ Within(Lh(p), 0, 65025)
         /\ p = "muls" => Within(Hl(p), -32640, 32385) /\ Within(Lh(p), -32640, 32385)
<1>1. R0["ah"] \in Byte /\ R0["al"] \in Byte /\ R0["bh"] \in Byte /\ R0["bl"] \in Byte
  BY DEF Registers, Alu!Regs
<1>2. Within(Ll(p), 0, 130050) /\ (p # "fmuls" => Within(Ll(p), 0, 65025))
  <2> DEFINE w == R0["al"] * R0["bl"]
  <2>1. Within(w, 0, 65025)
    BY <1>1, ByteProducts
  <2>2. Ll(p) = IF p = "fmuls" THEN 2 * w ELSE w
    BY DEF Ll
  <2> HIDE DEF w
  <2> QED BY <2>1, <2>2
<1>3. Hh(p) \in Int
  <2>1. /\ R0["ah"] * R0["bh"] \in Int /\ Alu!Signed(R0["ah"]) * Alu!Signed(R0["bh"]) \in Int
    BY <1>1, ByteProducts
  <2>2. \A k \in Int : 2 * k \in Int
    OBVIOUS
  <2> QED BY <2>1, <2>2, Zenon DEF Hh, LongProducts
<1>4. /\ Within(Hl(p), -65280, 65025) /\ (p = "mul" => Within(Hl(p), 0, 65025))
      /\ (p = "muls" => Within(Hl(p), -32640, 32385))
  <2> DEFINE w == R0["ah"] * R0["bl"]
             v == Alu!Signed(R0["ah"]) * R0["bl"]
  <2>1. Within(w, 0, 65025) /\ Within(v, -32640, 32385)
    BY <1>1, ByteProducts
  <2>2. /\ (p = "mul" => Hl(p) = w) /\ (p = "muls" => Hl(p) = v)
        /\ (p = "fmuls" => Hl(p) = 2 * v)
    BY DEF Hl
  <2> HIDE DEF w, v
  <2> QED BY <2>1, <2>2 DEF LongProducts
<1>5. /\ Within(Lh(p), -65280, 65025) /\ (p = "mul" => Within(Lh(p), 0, 65025))
      /\ (p = "muls" => Within(Lh(p), -32640, 32385))
  <2> DEFINE w == R0["bh"] * R0["al"]
             v == Alu!Signed(R0["bh"]) * R0["al"]
  <2>1. Within(w, 0, 65025) /\ Within(v, -32640, 32385)
    BY <1>1, ByteProducts
  <2>2. /\ (p = "mul" => Lh(p) = w) /\ (p = "muls" => Lh(p) = v)
        /\ (p = "fmuls" => Lh(p) = 2 * v)
    BY DEF Lh
  <2> HIDE DEF w, v
  <2> QED BY <2>1, <2>2 DEF LongProducts
<1> QED BY <1>2, <1>3, <1>4, <1>5

\* Whole numbers that are like the bits of the product are its two words
Assembled(u, q, hh, hl, lh, ll, low, high) ==
  /\ Within(u, 0, 16777215) /\ q \in Byte /\ q = ll % 256
  /\ hh \in Int /\ hl \in Int /\ lh \in Int /\ ll \in Int
  /\ low = 256 * hl + ll /\ high = 256 * hh + lh
  /\ Like24(u, 256 * hh + ll \div 256 + hl + lh)

LEMMA WordsOfProduct ==
  ASSUME NEW u, NEW q, NEW hh, NEW hl, NEW lh, NEW ll, NEW low, NEW high,
         Assembled(u, q, hh, hl, lh, ll, low, high)
  PROVE  /\ u \div 256 = ((low \div 256 + high) \div 256) % 65536
         /\ 256 * (u % 256) + q = (low + 256 * (high % 256)) % 65536
<1>0. /\ Within(u, 0, 16777215) /\ q \in Byte /\ q = ll % 256
      /\ hh \in Int /\ hl \in Int /\ lh \in Int /\ ll \in Int
      /\ low = 256 * hl + ll /\ high = 256 * hh + lh
      /\ Like24(u, 256 * hh + ll \div 256 + hl + lh)
  BY DEF Assembled
<1> DEFINE sum == 256 * hh + ll \div 256 + hl + lh
<1>1. PICK k \in Int : u = sum + 16777216 * k
  BY <1>0 DEF Like24
<1>2. low \div 256 = hl + ll \div 256
  BY <1>0
<1>3. low \div 256 + high = sum /\ sum \in Int
  BY <1>0, <1>2
<1> HIDE DEF sum
<1>4. u \div 256 = (sum \div 256) % 65536
  <2>1. u \div 256 = sum \div 256 + 65536 * k
    BY <1>0, <1>1, <1>3
  <2>2. Within(u \div 256, 0, 65535) /\ sum \div 256 \in Int
    BY <1>0, <1>3
  <2> DEFINE v == u \div 256
             w == sum \div 256
  <2>3. v = w + 65536 * k /\ Within(v, 0, 65535) /\ w \in Int
    BY <2>1, <2>2
  <2> HIDE DEF v, w
  <2>4. v = w % 65536
    BY <2>3
  <2> QED BY <2>4 DEF v, w
<1>5. 256 * (u % 256) + q = (low + 256 * (high % 256)) % 65536
  <2> DEFINE l == ll \div 256
             h == high % 256
             v == u % 256
  <2>1. ll = 256 * l + q /\ l \in Int /\ Within(q, 0, 255) /\ Within(h, 0, 255) /\ Within(v, 0, 255)
    BY ByteBounds, <1>0
  <2> DEFINE i == high \div 256
             j == u \div 256
  <2>2. high = 256 * i + h /\ i \in Int
    BY <1>0
  <2>3. u = 256 * j + v /\ j \in Int
    BY <1>0
  <2>4. sum = high + hl + l
    BY <1>0, <1>2, <1>3
  <2> HIDE DEF l, h, v, i, j
  <2>5. v = h + hl + l + 256 * (i - j + 65536 * k)
    BY <1>0, <1>1, <1>3, <2>1, <2>2, <2>3, <2>4
  <2> DEFINE n == i - j + 65536 * k
  <2>6. n \in Int /\ v = h + hl + l + 256 * n
    BY <1>1, <2>2, <2>3, <2>5
  <2> HIDE DEF n
  <2>7. low + 256 * h = (256 * v + q) - 65536 * n
    BY <1>0, <2>1, <2>6
  <2> DEFINE w == low + 256 * h
             x == 256 * v + q
  <2>8. x = w + 65536 * n /\ Within(x, 0, 65535) /\ w \in Int
    BY <1>0, <2>1, <2>6, <2>7
  <2> HIDE DEF w, x
  <2>9. x = w % 65536
    BY <2>6, <2>8
  <2> QED BY <2>9 DEF w, x, v, h
<1> QED BY <1>3, <1>4, <1>5
-----------------------------------------------------------------------------
\* The invariant: how far a sequence has come, and what it has computed by then

Differences == {"sub", "subi", "cp", "cpi"}
Followed == {"add", "loop", "adiw", "sbiw"} \cup Differences \cup LongProducts

DiffDone(p) ==
  DiffFlags /\ Alu!A1 = IF p \in {"sub", "subi"} THEN (Alu!A0 - Alu!B0) % 65536 ELSE Alu!A0
AdiwDone == /\ Alu!A1 = (Alu!A0 + Alu!K6) % 65536
            /\ sreg.C = (Alu!A0 + Alu!K6 > 65535) /\ sreg.Z = (Alu!A1 = 0)
SbiwDone == /\ Alu!A1 = (Alu!A0 - Alu!K6) % 65536
            /\ sreg.C = (Alu!A0 < Alu!K6) /\ sreg.Z = (Alu!A0 = Alu!K6)
            /\ sreg.S = (Alu!SignedWord(Alu!A0) < Alu!K6)
AtAdd == program = "add" => /\ pc \in 1..3
                            /\ (pc = 2 => LowSum) /\ (pc = 3 => SumDone)
AtLoop == program = "loop" => /\ pc \in 1..5
                              /\ (pc \in 2..4 => LowSum) /\ (pc = 5 => SumDone)
LowDiff(p) == LowTaken /\ R.al = IF p \in {"sub", "subi"} THEN (R0.al - R0.bl) % 256 ELSE R0.al
AtDiff == program \in Differences =>
            /\ pc \in 1..3
            /\ (pc = 2 => LowDiff(program)) /\ (pc = 3 => DiffDone(program))
AtAdiw == program = "adiw" => pc \in 1..2 /\ (pc = 2 => AdiwDone)
AtSbiw == program = "sbiw" => pc \in 1..2 /\ (pc = 2 => SbiwDone)
\* Where a product sequence is: which product comes next, or what is still to be done
\* with the last one
Stages ==
  [mul  |-> <<"hh", "high", "ll", "low", "hl", "add", "adc", "top",
              "lh", "add", "adc", "top", "done">>,
   muls |-> <<"hh", "high", "ll", "low", "hl", "extend", "add", "adc", "top",
              "lh", "extend", "add", "adc", "top", "done">>,
   fmuls |-> <<"hh", "high", "ll", "carry", "low", "hl", "extend", "add", "adc", "top",
               "lh", "extend", "add", "adc", "top", "done">>]
Half == [mul |-> 9, muls |-> 10, fmuls |-> 11]
Stage == Stages[program][pc]
\* What the bytes come to: with the third product, and from there on with the fourth
Aim == Base(program) + Hl(program) + (IF pc <= Half[program] THEN 0 ELSE Lh(program))
C01 == Alu!Num(sreg.C)
FirstPart ==
  /\ Stage = "high" => /\ Like16(Product16(R), Hh(program))
                       /\ program = "fmuls" => R.p0 % 2 = 0
  /\ Stage \in {"ll", "carry"} => /\ Like16(256 * R.q3 + R.q2, Hh(program))
                                  /\ program = "fmuls" => R.q2 % 2 = 0
  /\ Stage = "carry" => Product16(R) + 65536 * C01 = Ll(program)
  /\ Stage = "low" => /\ Like16(256 * R.q3 + R.q2, Hh(program) + Ll(program) \div 65536)
                      /\ Product16(R) = Ll(program) % 65536
SecondPart ==
  /\ Stage \in {"hl", "extend", "add", "adc", "top", "lh", "done"} => R.q0 = Ll(program) % 256
  /\ Stage = "hl" => Like24(Upper(R), Base(program))
  /\ Stage = "extend" => Like24(Upper(R) + Product16(R) - 65536 * C01, Aim)
  /\ Stage = "add" => Like24(Upper(R) + Product16(R), Aim)
  /\ Stage = "adc" => Like24(Upper(R) + 256 * C01 + 256 * R.p1, Aim)
  /\ Stage = "top" => Like24(Upper(R) + 65536 * C01, Aim)
  /\ Stage \in {"lh", "done"} => Like24(Upper(R), Aim)
AtProduct == program \in LongProducts =>
  /\ pc \in 1..(Len(Alu!Programs[program]) + 1) /\ OperandsKept /\ FirstPart /\ SecondPart
Untouched == /\ program = "idle" => R \in [Alu!Regs -> Byte] /\ R["z"] = 0
             /\ program \in Followed => Registers /\ (pc = 1 => R = R0)

\* What each sequence has computed by each of its instructions.
AluInv == /\ program \in {"idle"} \cup DOMAIN Alu!Programs /\ Flagged(sreg) /\ Untouched
          /\ AtAdd /\ AtLoop /\ AtDiff /\ AtAdiw /\ AtSbiw /\ AtProduct

\* A step of a sequence, and what it makes of the invariant for each sequence
LEMMA Stepping ==
  ASSUME Alu!Step
  PROVE  /\ program' = program /\ R0' = R0 /\ pc' = pc + 1
         /\ program # "idle" /\ ~(pc > Len(Alu!Programs[program]))
         /\ Alu!Arithmetic \/ Alu!LogicAndBits
BY DEF Alu!Step, Alu!Running, Alu!Finished

LEMMA StepAdd ==
  ASSUME AluInv, Alu!Step, program = "add"
  PROVE  Registers' /\ Flagged(sreg') /\ AtAdd' /\ pc' # 1
<1>1. /\ program' = "add" /\ R0' = R0 /\ pc' = pc + 1 /\ ~(pc > Len(Alu!Programs["add"]))
      /\ Alu!Arithmetic \/ Alu!LogicAndBits
  BY Stepping
<1>2. Registers /\ Flagged(sreg) /\ (pc = 1 => R = R0) /\ pc \in 1..3 /\ (pc = 2 => LowSum)
  BY DEF AluInv, Untouched, AtAdd, Followed
<1>3. pc \in 1..2 /\ pc' # 1 /\ pc' \in 1..3
  BY <1>1, <1>2, TheSequences
<1>4. CASE pc = 1
  <2>1. Alu!Current = <<"ADD", "al", "bl">>
    BY <1>4, TheSequences DEF Alu!Current
  <2>2. Source = R["bl"]
    BY <2>1 DEF Source, Alu!Operand, Alu!Regs
  <2> DEFINE out == Alu!INST_ADD(R["al"], R["bl"], sreg)
  <2>3. Result(out)
    BY <1>1, <2>1, <2>2, Runs
  <2>4. Stored("al", out.v) /\ sreg' = out.f
    BY <2>1, <2>3 DEF Result
  <2> HIDE DEF out
  <2>5. Registers' /\ Flagged(sreg') /\ LowSum'
    BY <1>1, <1>2, <1>4, <2>4, LowByteAdded DEF out
  <2> QED BY <1>1, <1>3, <1>4, <2>5 DEF AtAdd
<1>5. CASE pc = 2
  <2>1. Alu!Current = <<"ADC", "ah", "bh">>
    BY <1>5, TheSequences DEF Alu!Current
  <2>2. Source = R["bh"]
    BY <2>1 DEF Source, Alu!Operand, Alu!Regs
  <2> DEFINE out == Alu!INST_ADC(R["ah"], R["bh"], sreg)
  <2>3. Result(out)
    BY <1>1, <2>1, <2>2, Runs
  <2>4. Stored("ah", out.v) /\ sreg' = out.f
    BY <2>1, <2>3 DEF Result
  <2> HIDE DEF out
  <2>5. Registers' /\ Flagged(sreg') /\ SumDone'
    BY <1>1, <1>2, <1>5, <2>4, HighByteAdded DEF out
  <2> QED BY <1>1, <1>3, <1>5, <2>5 DEF AtAdd
<1> QED BY <1>3, <1>4, <1>5

LEMMA StepLoop ==
  ASSUME AluInv, Alu!Step, program = "loop"
  PROVE  Registers' /\ Flagged(sreg') /\ AtLoop' /\ pc' # 1
<1>1. /\ program' = "loop" /\ R0' = R0 /\ pc' = pc + 1 /\ ~(pc > Len(Alu!Programs["loop"]))
      /\ Alu!Arithmetic \/ Alu!LogicAndBits
  BY Stepping
<1>2. /\ Registers /\ Flagged(sreg) /\ (pc = 1 => R = R0)
      /\ pc \in 1..5 /\ (pc \in 2..4 => LowSum)
  BY DEF AluInv, Untouched, AtLoop, Followed
<1>3. pc \in 1..4 /\ pc' # 1 /\ pc' \in 1..5
  BY <1>1, <1>2, TheSequences
<1>4. CASE pc = 1
  <2>1. Alu!Current = <<"ADD", "al", "bl">>
    BY <1>4, TheSequences DEF Alu!Current
  <2>2. Source = R["bl"]
    BY <2>1 DEF Source, Alu!Operand, Alu!Regs
  <2> DEFINE out == Alu!INST_ADD(R["al"], R["bl"], sreg)
  <2>3. Result(out)
    BY <1>1, <2>1, <2>2, Runs
  <2>4. Stored("al", out.v) /\ sreg' = out.f
    BY <2>1, <2>3 DEF Result
  <2> HIDE DEF out
  <2>5. Registers' /\ Flagged(sreg') /\ LowSum'
    BY <1>1, <1>2, <1>4, <2>4, LowByteAdded DEF out
  <2> QED BY <1>1, <1>3, <1>4, <2>5 DEF AtLoop
<1>5. CASE pc \in {2, 3}
  <2>1. /\ (pc = 2 => Alu!Current = <<"INC", "n", "-">>)
        /\ (pc = 3 => Alu!Current = <<"DEC", "n", "-">>)
    BY <1>5, TheSequences DEF Alu!Current
  <2>2. \E out : /\ (out = Alu!INST_INC(R["n"], sreg) \/ out = Alu!INST_DEC(R["n"], sreg))
                 /\ Stored("n", out.v) /\ sreg' = out.f
    <3>1. CASE pc = 2
      <4>1. Result(Alu!INST_INC(R["n"], sreg))
        BY <1>1, <2>1, <3>1, Runs
      <4> QED BY <2>1, <3>1, <4>1 DEF Result
    <3>2. CASE pc = 3
      <4>1. Result(Alu!INST_DEC(R["n"], sreg))
        BY <1>1, <2>1, <3>2, Runs
      <4> QED BY <2>1, <3>2, <4>1 DEF Result
    <3> QED BY <1>5, <3>1, <3>2
  <2>3. Registers' /\ Flagged(sreg') /\ LowSum'
    BY <1>1, <1>2, <1>5, <2>2, Counted
  <2> QED BY <1>1, <1>3, <1>5, <2>3 DEF AtLoop
<1>6. CASE pc = 4
  <2>1. Alu!Current = <<"ADC", "ah", "bh">>
    BY <1>6, TheSequences DEF Alu!Current
  <2>2. Source = R["bh"]
    BY <2>1 DEF Source, Alu!Operand, Alu!Regs
  <2> DEFINE out == Alu!INST_ADC(R["ah"], R["bh"], sreg)
  <2>3. Result(out)
    BY <1>1, <2>1, <2>2, Runs
  <2>4. Stored("ah", out.v) /\ sreg' = out.f
    BY <2>1, <2>3 DEF Result
  <2> HIDE DEF out
  <2>5. Registers' /\ Flagged(sreg') /\ SumDone'
    BY <1>1, <1>2, <1>6, <2>4, HighByteAdded DEF out
  <2> QED BY <1>1, <1>3, <1>6, <2>5 DEF AtLoop
<1> QED BY <1>3, <1>4, <1>5, <1>6

LEMMA StepDiff ==
  ASSUME AluInv, Alu!Step, program \in Differences
  PROVE  Registers' /\ Flagged(sreg') /\ AtDiff' /\ pc' # 1
<1>1. /\ program' = program /\ R0' = R0 /\ pc' = pc + 1 /\ ~(pc > Len(Alu!Programs[program]))
      /\ Alu!Arithmetic \/ Alu!LogicAndBits
  BY Stepping
<1>2. /\ Registers /\ Flagged(sreg) /\ (pc = 1 => R = R0)
      /\ pc \in 1..3 /\ (pc = 2 => LowDiff(program))
  BY DEF AluInv, Untouched, AtDiff, Followed
<1>3. pc \in 1..2 /\ pc' # 1 /\ pc' \in 1..3
  <2>1. Len(Alu!Programs[program]) = 2
    <3>1. \A a, b : Len(<<a, b>>) = 2
      OBVIOUS
    <3>2. \E a, b : Alu!Programs[program] = <<a, b>>
      BY TheSequences, Zenon DEF Differences
    <3> QED BY <3>1, <3>2, Zenon
  <2> QED BY <1>1, <1>2, <2>1
<1>4. CASE pc = 1
  <2>1. /\ Alu!Current[2] = "al" /\ Alu!Current[3] = "bl"
        /\ (program = "sub" => Alu!Current[1] = "SUB") /\ (program = "subi" => Alu!Current[1] = "SUBI")
        /\ (program = "cp" => Alu!Current[1] = "CP") /\ (program = "cpi" => Alu!Current[1] = "CPI")
    BY <1>4, TheSequences DEF Alu!Current, Differences
  <2>2. Source = R["bl"]
    BY <2>1 DEF Source, Alu!Operand, Alu!Regs
  <2> DEFINE out == Alu!INST_SUB(R["al"], R["bl"], sreg)
             v == IF program \in {"sub", "subi"} THEN out.v ELSE R["al"]
  <2>3. Stored("al", v) /\ sreg' = out.f
    <3>1. CASE program \in {"sub", "subi"}
      <4>1. Result(out)
        BY <1>1, <2>1, <2>2, <3>1, Runs DEF Alu!INST_SUBI
      <4> QED BY <2>1, <3>1, <4>1 DEF Result
    <3>2. CASE program \in {"cp", "cpi"}
      <4>1. Result(Alu!Out(R["al"], out.f))
        BY <1>1, <2>1, <2>2, <3>2, Runs DEF Alu!INST_CPI, Alu!INST_CP
      <4> QED BY <2>1, <3>2, <4>1 DEF Result, Alu!Out
    <3> QED BY <3>1, <3>2 DEF Differences
  <2>4. v = out.v \/ v = R["al"]
    OBVIOUS
  <2>a. v = IF program \in {"sub", "subi"} THEN out.v ELSE R["al"]
    OBVIOUS
  <2> HIDE DEF out, v
  <2>5. /\ Registers' /\ Flagged(sreg') /\ LowTaken'
        /\ R'.al = v /\ out.v = (R0["al"] - R0["bl"]) % 256
    BY <1>1, <1>2, <1>4, <2>3, <2>4, LowByteTaken DEF out
  <2>6. LowDiff(program)'
    BY <1>1, <1>2, <1>4, <2>5, <2>a DEF LowDiff
  <2> QED BY <1>1, <1>3, <1>4, <2>5, <2>6 DEF AtDiff
<1>5. CASE pc = 2
  <2>1. /\ Alu!Current[2] = "ah" /\ Alu!Current[3] = "bh"
        /\ (program = "sub" => Alu!Current[1] = "SBC") /\ (program = "subi" => Alu!Current[1] = "SBCI")
        /\ (program \in {"cp", "cpi"} => Alu!Current[1] = "CPC")
    BY <1>5, TheSequences DEF Alu!Current, Differences
  <2>2. Source = R["bh"]
    BY <2>1 DEF Source, Alu!Operand, Alu!Regs
  <2> DEFINE out == Alu!INST_SBC(R["ah"], R["bh"], sreg)
             v == IF program \in {"sub", "subi"} THEN out.v ELSE R["ah"]
  <2>3. Stored("ah", v) /\ sreg' = out.f
    <3>1. CASE program \in {"sub", "subi"}
      <4>1. Result(out)
        BY <1>1, <2>1, <2>2, <3>1, Runs DEF Alu!INST_SBCI
      <4> QED BY <2>1, <3>1, <4>1 DEF Result
    <3>2. CASE program \in {"cp", "cpi"}
      <4>1. Result(Alu!Out(R["ah"], out.f))
        BY <1>1, <2>1, <2>2, <3>2, Runs DEF Alu!INST_CPC
      <4> QED BY <2>1, <3>2, <4>1 DEF Result, Alu!Out
    <3> QED BY <3>1, <3>2 DEF Differences
  <2>4. v = out.v \/ v = R["ah"]
    OBVIOUS
  <2>a. v = IF program \in {"sub", "subi"} THEN out.v ELSE R["ah"]
    OBVIOUS
  <2> HIDE DEF out, v
  <2>b. LowTaken /\ R.al = IF program \in {"sub", "subi"} THEN (R0.al - R0.bl) % 256 ELSE R0.al
    BY <1>2, <1>5 DEF LowDiff
  <2>5. /\ Registers' /\ Flagged(sreg') /\ DiffFlags'
        /\ v = out.v /\ R.al = (R0.al - R0.bl) % 256
              => Alu!A1' = (Alu!A0' - Alu!B0') % 65536
        /\ v = R.ah /\ R.al = R0.al => Alu!A1' = Alu!A0'
    BY <1>1, <1>2, <2>3, <2>4, <2>b, HighByteTaken DEF out
  <2>6. DiffDone(program)'
    BY <1>1, <2>5, <2>a, <2>b DEF DiffDone
  <2> QED BY <1>1, <1>3, <1>5, <2>5, <2>6 DEF AtDiff
<1> QED BY <1>3, <1>4, <1>5

LEMMA StepAdiw ==
  ASSUME AluInv, Alu!Step, program = "adiw"
  PROVE  Registers' /\ Flagged(sreg') /\ AtAdiw' /\ pc' # 1
<1>1. /\ program' = "adiw" /\ R0' = R0 /\ pc' = pc + 1 /\ ~(pc > Len(Alu!Programs["adiw"]))
      /\ Alu!Arithmetic \/ Alu!LogicAndBits
  BY Stepping
<1>2. Registers /\ Flagged(sreg) /\ (pc = 1 => R = R0) /\ pc \in 1..2
  BY DEF AluInv, Untouched, AtAdiw, Followed
<1>3. pc = 1 /\ pc' = 2
  BY <1>1, <1>2, TheSequences
<1>4. Alu!Current[1] = "ADIW"
  BY <1>3, TheSequences DEF Alu!Current
<1> DEFINE out == Alu!INST_ADIW(Alu!Word(R.ah, R.al), R.bl % 64, sreg)
<1>5. Pair(out)
  BY <1>1, <1>4, Runs
<1> HIDE DEF out
<1>6. Registers' /\ Flagged(sreg') /\ AdiwDone'
  BY <1>1, <1>2, <1>3, <1>5, ConstantAdded DEF AdiwDone, out
<1> QED BY <1>1, <1>3, <1>6 DEF AtAdiw

LEMMA StepSbiw ==
  ASSUME AluInv, Alu!Step, program = "sbiw"
  PROVE  Registers' /\ Flagged(sreg') /\ AtSbiw' /\ pc' # 1
<1>1. /\ program' = "sbiw" /\ R0' = R0 /\ pc' = pc + 1 /\ ~(pc > Len(Alu!Programs["sbiw"]))
      /\ Alu!Arithmetic \/ Alu!LogicAndBits
  BY Stepping
<1>2. Registers /\ Flagged(sreg) /\ (pc = 1 => R = R0) /\ pc \in 1..2
  BY DEF AluInv, Untouched, AtSbiw, Followed
<1>3. pc = 1 /\ pc' = 2
  BY <1>1, <1>2, TheSequences
<1>4. Alu!Current[1] = "SBIW"
  BY <1>3, TheSequences DEF Alu!Current
<1> DEFINE out == Alu!INST_SBIW(Alu!Word(R.ah, R.al), R.bl % 64, sreg)
<1>5. Pair(out)
  BY <1>1, <1>4, Runs
<1> HIDE DEF out
<1>6. Registers' /\ Flagged(sreg') /\ SbiwDone'
  BY <1>1, <1>2, <1>3, <1>5, ConstantTaken DEF SbiwDone, out
<1> QED BY <1>1, <1>3, <1>6 DEF AtSbiw

\* What the next instruction is at each stage, and the stage it leads to
Leads(here, op, hi, lo, there) ==
  Stage = here => Alu!Current = <<op, hi, lo>> /\ Stages[program][pc + 1] = there
LEMMA TheStages ==
  ASSUME program \in LongProducts, pc \in 1..(Len(Alu!Programs[program]) + 1),
         ~(pc > Len(Alu!Programs[program]))
  PROVE  /\ Leads("high", "MOVW", "q3", "q2", "ll") /\ Leads("carry", "ADC", "q2", "z", "low")
         /\ Leads("low", "MOVW", "q1", "q0", "hl") /\ Leads("extend", "SBC", "q3", "z", "add")
         /\ Leads("add", "ADD", "q1", "p0", "adc") /\ Leads("adc", "ADC", "q2", "p1", "top")
         /\ Leads("top", "ADC", "q3", "z", IF pc < Half[program] THEN "lh" ELSE "done")
         /\ program = "mul" =>
              /\ Leads("hh", "MUL", "ah", "bh", "high") /\ Leads("ll", "MUL", "al", "bl", "low")
              /\ Leads("hl", "MUL", "ah", "bl", "add") /\ Leads("lh", "MUL", "bh", "al", "add")
         /\ program = "muls" =>
              /\ Leads("hh", "MULS", "ah", "bh", "high") /\ Leads("ll", "MUL", "al", "bl", "low")
              /\ Leads("hl", "MULSU", "ah", "bl", "extend")
              /\ Leads("lh", "MULSU", "bh", "al", "extend")
         /\ program = "fmuls" =>
              /\ Leads("hh", "FMULS", "ah", "bh", "high") /\ Leads("ll", "FMUL", "al", "bl", "carry")
              /\ Leads("hl", "FMULSU", "ah", "bl", "extend")
              /\ Leads("lh", "FMULSU", "bh", "al", "extend")
         /\ Stage = "carry" => program = "fmuls"
         /\ Stage = "extend" => program # "mul"
         /\ (Stage = "hl" => pc < Half[program]) /\ (Stage = "lh" => pc = Half[program])
         /\ (Stage \in {"extend", "add", "adc"} => pc # Half[program])
         /\ (Stage = "top" => pc # Half[program])
         /\ Stage \in {"hh", "high", "ll", "carry", "low", "hl", "extend", "add", "adc", "top", "lh"}
<1>1. CASE program = "mul"
  <2>1. pc \in 1..12 /\ Half[program] = 9
    BY <1>1, TheSequences DEF Half
  <2> QED BY <1>1, <2>1, TheSequences, SMTT(60) DEF Leads, Stage, Stages, Alu!Current
<1>2. CASE program = "muls"
  <2>1. pc \in 1..14 /\ Half[program] = 10
    BY <1>2, TheSequences DEF Half
  <2> QED BY <1>2, <2>1, TheSequences, SMTT(60) DEF Leads, Stage, Stages, Alu!Current
<1>3. CASE program = "fmuls"
  <2>1. pc \in 1..15 /\ Half[program] = 11
    BY <1>3, TheSequences DEF Half
  <2> QED BY <1>3, <2>1, TheSequences, SMTT(60) DEF Leads, Stage, Stages, Alu!Current
<1> QED BY <1>1, <1>2, <1>3 DEF LongProducts

\* What a step of a product sequence has to start from, and where it leads
Handed == Registers /\ Flagged(sreg) /\ OperandsKept
LEMMA AtStage ==
  ASSUME AluInv, Alu!Step, program \in LongProducts
  PROVE  /\ Handed /\ FirstPart /\ SecondPart /\ program' = program /\ R0' = R0 /\ pc' = pc + 1
         /\ pc \in 1..(Len(Alu!Programs[program]) + 1) /\ ~(pc > Len(Alu!Programs[program]))
         /\ pc' \in 1..(Len(Alu!Programs[program]) + 1) /\ pc' # 1 /\ pc \in Nat
         /\ Stage' = Stages[program][pc + 1] /\ Half[program] \in Nat
         /\ Alu!Arithmetic \/ Alu!LogicAndBits
<1>1. /\ program' = program /\ R0' = R0 /\ pc' = pc + 1 /\ ~(pc > Len(Alu!Programs[program]))
      /\ Alu!Arithmetic \/ Alu!LogicAndBits
  BY Stepping
<1>2. /\ Handed /\ FirstPart /\ SecondPart /\ pc \in 1..(Len(Alu!Programs[program]) + 1)
  BY DEF AluInv, Untouched, Followed, AtProduct, Handed
<1>3. Len(Alu!Programs[program]) \in Nat /\ Half[program] \in Nat
  <2>1. CASE program = "mul"
    BY <2>1, TheSequences DEF Half
  <2>2. CASE program = "muls"
    BY <2>2, TheSequences DEF Half
  <2>3. CASE program = "fmuls"
    BY <2>3, TheSequences DEF Half
  <2> QED BY <2>1, <2>2, <2>3 DEF LongProducts
<1>4. pc \in Nat /\ pc' \in 1..(Len(Alu!Programs[program]) + 1) /\ pc' # 1
  <2> DEFINE len == Len(Alu!Programs[program])
  <2>1. len \in Nat /\ pc \in 1..(len + 1) /\ ~(pc > len) /\ pc' = pc + 1
    BY <1>1, <1>2, <1>3
  <2> HIDE DEF len
  <2>2. pc \in Nat /\ pc' \in 1..(len + 1) /\ pc' # 1
    BY <2>1
  <2> QED BY <2>2 DEF len
<1>5. Stage' = Stages[program][pc + 1]
  BY <1>1 DEF Stage, Stages
<1> QED BY <1>1, <1>2, <1>3, <1>4, <1>5

LEMMA SameParts ==
  ASSUME program' = program, R0' = R0
  PROVE  /\ Hh(program)' = Hh(program) /\ Ll(program)' = Ll(program)
         /\ Hl(program)' = Hl(program) /\ Lh(program)' = Lh(program)
         /\ Base(program)' = Base(program) /\ Half[program]' = Half[program]
<1>1. Hh(program)' = Hh(program) /\ Hl(program)' = Hl(program) /\ Lh(program)' = Lh(program)
  BY DEF Hh, Hl, Lh
<1>2. Ll(program)' = Ll(program)
  BY DEF Ll
<1>3. Half[program]' = Half[program]
  BY DEF Half
<1> QED BY <1>1, <1>2, <1>3, Zenon DEF Base

\* The product a stage computes, and the instruction that does
OfStage(p, s) == CASE s = "hh" -> Hh(p) [] s = "ll" -> Ll(p)
                   [] s = "hl" -> Hl(p) [] s = "lh" -> Lh(p)
Computes(h, out) ==
  /\ h \in Int /\ Double(out)
  /\ program = "fmuls" => OfStage(program, Stage) = 2 * h /\ out = Alu!Fraction(h, sreg)
  /\ program # "fmuls" => OfStage(program, Stage) = h /\ out = Alu!Product(h, sreg)

LEMMA TheProduct ==
  ASSUME AluInv, Alu!Step, program \in LongProducts, Stage \in {"hh", "ll", "hl", "lh"}
  PROVE  \E h, out : Computes(h, out)
<1>1. /\ Handed
      /\ Alu!Arithmetic \/ Alu!LogicAndBits
      /\ pc \in 1..(Len(Alu!Programs[program]) + 1) /\ ~(pc > Len(Alu!Programs[program]))
  BY AtStage
<1>2. /\ R["ah"] = R0["ah"] /\ R["al"] = R0["al"] /\ R["bh"] = R0["bh"] /\ R["bl"] = R0["bl"]
      /\ R0["ah"] \in Byte /\ R0["al"] \in Byte /\ R0["bh"] \in Byte /\ R0["bl"] \in Byte
  BY <1>1 DEF Handed, OperandsKept, Registers, Alu!Regs
<1>3. \A x, y \in Byte : /\ x * y \in Int /\ Alu!Signed(x) * y \in Int
                         /\ Alu!Signed(x) * Alu!Signed(y) \in Int
  BY ByteProducts
<1>4. CASE program = "mul"
  <2>1. CASE Stage = "hh"
    <3>1. Alu!Current = <<"MUL", "ah", "bh">>
      BY <1>1, <1>4, <2>1, TheStages DEF Leads
    <3>2. Double(Alu!Product(R0["ah"] * R0["bh"], sreg))
      BY <1>1, <1>2, <3>1, Runs DEF Alu!INST_MUL
    <3> QED BY <1>2, <1>3, <1>4, <2>1, <3>2 DEF Computes, OfStage, Hh
  <2>2. CASE Stage = "ll"
    <3>1. Alu!Current = <<"MUL", "al", "bl">>
      BY <1>1, <1>4, <2>2, TheStages DEF Leads
    <3>2. Double(Alu!Product(R0["al"] * R0["bl"], sreg))
      BY <1>1, <1>2, <3>1, Runs DEF Alu!INST_MUL
    <3> QED BY <1>2, <1>3, <1>4, <2>2, <3>2 DEF Computes, OfStage, Ll
  <2>3. CASE Stage = "hl"
    <3>1. Alu!Current = <<"MUL", "ah", "bl">>
      BY <1>1, <1>4, <2>3, TheStages DEF Leads
    <3>2. Double(Alu!Product(R0["ah"] * R0["bl"], sreg))
      BY <1>1, <1>2, <3>1, Runs DEF Alu!INST_MUL
    <3> QED BY <1>2, <1>3, <1>4, <2>3, <3>2 DEF Computes, OfStage, Hl
  <2>4. CASE Stage = "lh"
    <3>1. Alu!Current = <<"MUL", "bh", "al">>
      BY <1>1, <1>4, <2>4, TheStages DEF Leads
    <3>2. Double(Alu!Product(R0["bh"] * R0["al"], sreg))
      BY <1>1, <1>2, <3>1, Runs DEF Alu!INST_MUL
    <3> QED BY <1>2, <1>3, <1>4, <2>4, <3>2 DEF Computes, OfStage, Lh
  <2> QED BY <2>1, <2>2, <2>3, <2>4
<1>5. CASE program = "muls"
  <2>1. CASE Stage = "hh"
    <3>1. Alu!Current = <<"MULS", "ah", "bh">>
      BY <1>1, <1>5, <2>1, TheStages DEF Leads
    <3>2. Double(Alu!Product(Alu!Signed(R0["ah"]) * Alu!Signed(R0["bh"]), sreg))
      BY <1>1, <1>2, <3>1, Runs DEF Alu!INST_MULS
    <3> QED BY <1>2, <1>3, <1>5, <2>1, <3>2 DEF Computes, OfStage, Hh
  <2>2. CASE Stage = "ll"
    <3>1. Alu!Current = <<"MUL", "al", "bl">>
      BY <1>1, <1>5, <2>2, TheStages DEF Leads
    <3>2. Double(Alu!Product(R0["al"] * R0["bl"], sreg))
      BY <1>1, <1>2, <3>1, Runs DEF Alu!INST_MUL
    <3> QED BY <1>2, <1>3, <1>5, <2>2, <3>2 DEF Computes, OfStage, Ll
  <2>3. CASE Stage = "hl"
    <3>1. Alu!Current = <<"MULSU", "ah", "bl">>
      BY <1>1, <1>5, <2>3, TheStages DEF Leads
    <3>2. Double(Alu!Product(Alu!Signed(R0["ah"]) * R0["bl"], sreg))
      BY <1>1, <1>2, <3>1, Runs DEF Alu!INST_MULSU
    <3> QED BY <1>2, <1>3, <1>5, <2>3, <3>2 DEF Computes, OfStage, Hl
  <2>4. CASE Stage = "lh"
    <3>1. Alu!Current = <<"MULSU", "bh", "al">>
      BY <1>1, <1>5, <2>4, TheStages DEF Leads
    <3>2. Double(Alu!Product(Alu!Signed(R0["bh"]) * R0["al"], sreg))
      BY <1>1, <1>2, <3>1, Runs DEF Alu!INST_MULSU
    <3> QED BY <1>2, <1>3, <1>5, <2>4, <3>2 DEF Computes, OfStage, Lh
  <2> QED BY <2>1, <2>2, <2>3, <2>4
<1>6. CASE program = "fmuls"
  <2>1. CASE Stage = "hh"
    <3>1. Alu!Current = <<"FMULS", "ah", "bh">>
      BY <1>1, <1>6, <2>1, TheStages DEF Leads
    <3>2. Double(Alu!Fraction(Alu!Signed(R0["ah"]) * Alu!Signed(R0["bh"]), sreg))
      BY <1>1, <1>2, <3>1, Runs DEF Alu!INST_FMULS
    <3> QED BY <1>2, <1>3, <1>6, <2>1, <3>2 DEF Computes, OfStage, Hh
  <2>2. CASE Stage = "ll"
    <3>1. Alu!Current = <<"FMUL", "al", "bl">>
      BY <1>1, <1>6, <2>2, TheStages DEF Leads
    <3>2. Double(Alu!Fraction(R0["al"] * R0["bl"], sreg))
      BY <1>1, <1>2, <3>1, Runs DEF Alu!INST_FMUL
    <3> QED BY <1>2, <1>3, <1>6, <2>2, <3>2 DEF Computes, OfStage, Ll
  <2>3. CASE Stage = "hl"
    <3>1. Alu!Current = <<"FMULSU", "ah", "bl">>
      BY <1>1, <1>6, <2>3, TheStages DEF Leads
    <3>2. Double(Alu!Fraction(Alu!Signed(R0["ah"]) * R0["bl"], sreg))
      BY <1>1, <1>2, <3>1, Runs DEF Alu!INST_FMULSU
    <3> QED BY <1>2, <1>3, <1>6, <2>3, <3>2 DEF Computes, OfStage, Hl
  <2>4. CASE Stage = "lh"
    <3>1. Alu!Current = <<"FMULSU", "bh", "al">>
      BY <1>1, <1>6, <2>4, TheStages DEF Leads
    <3>2. Double(Alu!Fraction(Alu!Signed(R0["bh"]) * R0["al"], sreg))
      BY <1>1, <1>2, <3>1, Runs DEF Alu!INST_FMULSU
    <3> QED BY <1>2, <1>3, <1>6, <2>4, <3>2 DEF Computes, OfStage, Lh
  <2> QED BY <2>1, <2>2, <2>3, <2>4
<1> QED BY <1>4, <1>5, <1>6 DEF LongProducts

\* The product comes to p1:p0 modulo 2^16, its double too, and C tells what is missing:
\* the bit lost by doubling, or the sign
Missing(w, c) ==
  /\ Product16(R)' = w % 65536
  /\ program = "fmuls" => w % 2 = 0
  /\ program = "fmuls" /\ Within(w, 0, 131070) => Product16(R)' + 65536 * c = w
  /\ program = "muls" /\ Within(w, -32768, 32767) => Product16(R)' - 65536 * c = w
  /\ program = "fmuls" /\ Within(w, -65536, 65535) => Product16(R)' - 65536 * c = w

LEMMA Multiplies ==
  ASSUME AluInv, Alu!Step, program \in LongProducts, Stage \in {"hh", "ll", "hl", "lh"}
  PROVE  /\ Handed' /\ R'.q3 = R.q3 /\ R'.q2 = R.q2 /\ R'.q1 = R.q1 /\ R'.q0 = R.q0
         /\ Missing(OfStage(program, Stage), Alu!Num(sreg'.C))
<1> DEFINE w == OfStage(program, Stage)
<1>1. PICK h, out : Computes(h, out)
  BY TheProduct
<1>2. Registers /\ Flagged(sreg) /\ OperandsKept /\ R0' = R0
  BY AtStage DEF Handed
<1>3. h \in Int /\ Double(out)
  BY <1>1 DEF Computes
<1>4. CASE program = "fmuls"
  <2> DEFINE top == h % 65536
             res == (2 * h) % 65536
             c == Alu!Num(sreg'.C)
  <2>1. out.v = res /\ Multiplied(out.f, top, res) /\ w = 2 * h
    BY <1>1, <1>2, <1>4, FractionDoes DEF Computes
  <2>2. top \in Int /\ res \in Int /\ 0 <= res /\ res <= 65535
    BY <1>3
  <2> HIDE DEF top, res, w
  <2>3. /\ Registers' /\ Flagged(sreg') /\ OperandsKept'
        /\ R'.q3 = R.q3 /\ R'.q2 = R.q2 /\ R'.q1 = R.q1 /\ R'.q0 = R.q0
        /\ Product16(R') = res /\ c = IF top >= 32768 THEN 1 ELSE 0
    BY <1>2, <1>3, <2>1, <2>2, Multiplying
  <2>4. Product16(R)' = Product16(R')
    BY DEF Product16
  <2> HIDE DEF c
  <2>5. /\ res = w % 65536 /\ w % 2 = 0
        /\ (Within(w, 0, 131070) => res + 65536 * c = w)
        /\ (Within(w, -65536, 65535) => res - 65536 * c = w)
    <3>1. res = w % 65536 /\ w % 2 = 0
      BY <1>3, <2>1 DEF res
    <3>2. ASSUME Within(w, 0, 131070) PROVE res + 65536 * c = w
      BY <1>3, <2>1, <2>3, <3>2 DEF res, top
    <3>3. ASSUME Within(w, -65536, 65535) PROVE res - 65536 * c = w
      BY <1>3, <2>1, <2>3, <3>3 DEF res, top
    <3> QED BY <3>1, <3>2, <3>3
  <2>6. Missing(w, c)
    BY <1>4, <2>3, <2>4, <2>5 DEF Missing
  <2> QED BY <2>3, <2>6 DEF w, c, Handed
<1>5. CASE program # "fmuls"
  <2> DEFINE res == h % 65536
             c == Alu!Num(sreg'.C)
  <2>1. out.v = res /\ Multiplied(out.f, res, res) /\ w = h
    BY <1>1, <1>2, <1>5, ProductDoes DEF Computes
  <2>2. res \in Int /\ 0 <= res /\ res <= 65535
    BY <1>3
  <2> HIDE DEF res, w
  <2>3. /\ Registers' /\ Flagged(sreg') /\ OperandsKept'
        /\ R'.q3 = R.q3 /\ R'.q2 = R.q2 /\ R'.q1 = R.q1 /\ R'.q0 = R.q0
        /\ Product16(R') = res /\ c = IF res >= 32768 THEN 1 ELSE 0
    BY <1>2, <1>3, <2>1, <2>2, Multiplying
  <2>4. Product16(R)' = Product16(R')
    BY DEF Product16
  <2> HIDE DEF c
  <2>5. res = w % 65536 /\ (Within(w, -32768, 32767) => res - 65536 * c = w)
    <3>1. res = w % 65536
      BY <2>1 DEF res
    <3>2. ASSUME Within(w, -32768, 32767) PROVE res - 65536 * c = w
      BY <1>3, <2>1, <2>3, <3>2 DEF res
    <3> QED BY <3>1, <3>2
  <2>6. Missing(w, c)
    BY <1>5, <2>3, <2>4, <2>5 DEF Missing
  <2> QED BY <2>3, <2>6 DEF w, c, Handed
<1> QED BY <1>4, <1>5

\* The first part: the high product in q3:q2, the low one in q1:q0, a bit it lost by
\* doubling carried into q2
LEMMA StepFirst ==
  ASSUME AluInv, Alu!Step, program \in LongProducts,
         Stage \in {"hh", "high", "ll", "carry", "low"}
  PROVE  Handed' /\ FirstPart' /\ SecondPart'
<1>1. /\ Handed /\ FirstPart /\ program' = program /\ R0' = R0 /\ pc' = pc + 1
      /\ pc \in 1..(Len(Alu!Programs[program]) + 1) /\ ~(pc > Len(Alu!Programs[program]))
      /\ Stage' = Stages[program][pc + 1]
      /\ Alu!Arithmetic \/ Alu!LogicAndBits
  BY AtStage
<1>2. /\ Registers /\ OperandsKept /\ Flagged(sreg) /\ R0' = R0
      /\ R.q3 \in Byte /\ R.q2 \in Byte /\ R.q1 \in Byte /\ R.p1 \in Byte /\ R.p0 \in Byte
  BY <1>1 DEF Handed, Registers, Alu!Regs
<1> DEFINE hh == Hh(program)
           ll == Ll(program)
<1>3. hh \in Int /\ Within(ll, 0, 130050) /\ (program # "fmuls" => Within(ll, 0, 65025))
  BY <1>2, PartBounds
<1>4. Hh(program)' = hh /\ Ll(program)' = ll /\ Base(program)' = 256 * hh + ll \div 256
  BY <1>1, SameParts DEF Base
<1> HIDE DEF hh, ll
<1>5. CASE Stage = "hh"
  <2>1. Stage' = "high"
    BY <1>1, <1>5, TheStages DEF Leads, LongProducts
  <2>2. Handed' /\ Missing(hh, Alu!Num(sreg'.C))
    BY <1>5, Multiplies DEF OfStage, hh
  <2>3. Product16(R)' = hh % 65536 /\ (program = "fmuls" => hh % 2 = 0)
    BY <2>2 DEF Missing
  <2>4. Like16(Product16(R)', hh)
    <3> DEFINE k == -(hh \div 65536)
    <3>1. k \in Int /\ hh % 65536 = hh + 65536 * k
      BY <1>3
    <3> HIDE DEF k
    <3> QED BY <2>3, <3>1 DEF Like16
  <2>5. program = "fmuls" => R'.p0 % 2 = 0
    <3>1. R'.p1 \in Byte /\ R'.p0 \in Byte
      BY <2>2 DEF Handed, Registers, Alu!Regs
    <3>2. Product16(R)' = 256 * R'.p1 + R'.p0
      BY DEF Product16
    <3> QED BY ByteBounds, <1>3, <2>3, <3>1, <3>2
  <2>6. Like16(Product16(R), Hh(program))'
    BY <1>4, <2>4 DEF Like16
  <2>7. FirstPart' /\ SecondPart'
    BY <1>1, <2>1, <2>5, <2>6 DEF FirstPart, SecondPart
  <2> QED BY <2>2, <2>7
<1>6. CASE Stage = "high"
  <2>1. Stage' = "ll" /\ Alu!Current = <<"MOVW", "q3", "q2">>
    BY <1>1, <1>6, TheStages DEF Leads
  <2>2. R' = [R EXCEPT !["q3"] = R.p1, !["q2"] = R.p0] /\ sreg' = sreg
    BY <1>1, <2>1, Runs
  <2>3. Registers' /\ OperandsKept' /\ R'.q3 = R.p1 /\ R'.q2 = R.p0
    BY <1>2, <2>2, Moved2
  <2>4. Like16(Product16(R), hh) /\ (program = "fmuls" => R.p0 % 2 = 0)
    BY <1>1, <1>6 DEF FirstPart, hh
  <2>5. Like16(256 * R.q3 + R.q2, Hh(program))'
    BY <1>4, <2>3, <2>4 DEF Like16, Product16
  <2>6. FirstPart' /\ SecondPart'
    BY <1>1, <2>1, <2>3, <2>4, <2>5 DEF FirstPart, SecondPart
  <2> QED BY <1>2, <2>2, <2>3, <2>6 DEF Handed
<1>7. CASE Stage = "ll"
  <2> DEFINE c == Alu!Num(sreg'.C)
  <2>1. /\ Stage' = IF program = "fmuls" THEN "carry" ELSE "low"
    BY <1>1, <1>7, TheStages DEF Leads, LongProducts
  <2>2. Handed' /\ R'.q3 = R.q3 /\ R'.q2 = R.q2 /\ Missing(ll, c)
    BY <1>7, Multiplies DEF OfStage, ll
  <2>3. Like16(256 * R.q3 + R.q2, hh) /\ (program = "fmuls" => R.q2 % 2 = 0)
    BY <1>1, <1>7 DEF FirstPart, hh
  <2>4. Like16(256 * R.q3 + R.q2, Hh(program))'
    BY <1>4, <2>2, <2>3 DEF Like16
  <2> HIDE DEF c
  <2>5. CASE program = "fmuls"
    <3>1. Product16(R)' + 65536 * c = ll
      BY <1>3, <2>2, <2>5 DEF Missing
    <3>2. C01' = c
      BY DEF C01, c
    <3> QED BY <1>1, <1>4, <2>1, <2>2, <2>3, <2>4, <2>5, <3>1, <3>2 DEF FirstPart, SecondPart
  <2>6. CASE program # "fmuls"
    <3>1. Product16(R)' = ll % 65536 /\ ll \div 65536 = 0 /\ hh + 0 = hh
      BY <1>3, <2>2, <2>6 DEF Missing
    <3>2. (Hh(program) + Ll(program) \div 65536)' = Hh(program)'
      BY <1>4, <3>1
    <3> QED BY <1>1, <1>4, <2>1, <2>2, <2>4, <2>6, <3>1, <3>2 DEF FirstPart, SecondPart
  <2> QED BY <2>5, <2>6
<1>8. CASE Stage = "carry"
  <2> DEFINE c == Alu!Num(sreg.C)
             q == 256 * R.q3 + R.q2
  <2>1. /\ program = "fmuls" /\ Stage' = "low" /\ Alu!Current = <<"ADC", "q2", "z">>
    BY <1>1, <1>8, TheStages DEF Leads
  <2>2. Source = R["z"]
    BY <2>1 DEF Source, Alu!Operand, Alu!Regs
  <2> DEFINE out == Alu!INST_ADC(R["q2"], R["z"], sreg)
  <2>3. Stored("q2", out.v) /\ sreg' = out.f
    BY <1>1, <2>1, <2>2, Runs DEF Result
  <2>4. /\ Like16(q, hh) /\ R.q2 % 2 = 0 /\ Product16(R) + 65536 * c = ll
    BY <1>1, <1>8, <2>1 DEF FirstPart, hh, ll, C01
  <2>5. R["q2"] \in Byte /\ R["z"] = 0 /\ 0 \in Byte /\ c \in 0..1
    BY ByteBounds, <1>2, Carry DEF OperandsKept
  <2> HIDE DEF out
  <2>6. out.v = (R["q2"] + 0 + c) % 256 /\ out.v \in Byte /\ Added(out.f, R["q2"], 0, c)
    BY <1>2, <2>5, AdcDoes DEF out
  <2>7. Flagged(sreg')
    BY <2>3, <2>6 DEF Added
  <2>8. Registers' /\ OperandsKept' /\ R'.q2 = out.v /\ R'.q3 = R.q3 /\ R'.p1 = R.p1 /\ R'.p0 = R.p0
    BY <1>2, <2>3, <2>6 DEF Registers, Alu!Regs, Stored, OperandsKept
  <2> HIDE DEF c
  <2>9. out.v = R.q2 + c
    <3> DEFINE x == R["q2"]
    <3>1. Within(x, 0, 255) /\ Within(c, 0, 1) /\ x % 2 = 0 /\ out.v = (x + 0 + c) % 256
      BY ByteBounds, <2>4, <2>5, <2>6
    <3> HIDE DEF x
    <3>2. out.v = x + c
      BY <3>1
    <3> QED BY <3>2 DEF x
  <2>10. Within(Product16(R), 0, 65535)
    BY ByteBounds, <1>2 DEF Product16
  <2>11. ll \div 65536 = c /\ Product16(R) = ll % 65536
    BY <2>4, <2>5, <2>10
  <2>12. Like16(q + c, hh + ll \div 65536)
    <3>1. PICK k \in Int : q = hh + 65536 * k
      BY <2>4 DEF Like16
    <3>2. q + c = (hh + c) + 65536 * k
      BY <1>3, <2>5, <3>1
    <3> QED BY <2>11, <3>2 DEF Like16
  <2>13. (256 * R.q3 + R.q2)' = q + c
    BY ByteBounds, <1>2, <2>5, <2>8, <2>9
  <2>14. Product16(R)' = Product16(R)
    BY <2>8 DEF Product16
  <2> HIDE DEF q
  <2>15. Like16(256 * R.q3 + R.q2, Hh(program) + Ll(program) \div 65536)'
    BY <1>4, <2>12, <2>13 DEF Like16
  <2>16. FirstPart' /\ SecondPart'
    BY <1>1, <1>4, <2>1, <2>11, <2>14, <2>15 DEF FirstPart, SecondPart
  <2> QED BY <2>7, <2>8, <2>16 DEF Handed
<1>9. CASE Stage = "low"
  <2> DEFINE q == 256 * R.q3 + R.q2
             e == ll \div 65536
             f == ll % 65536
  <2>1. Stage' = "hl" /\ Alu!Current = <<"MOVW", "q1", "q0">>
    BY <1>1, <1>9, TheStages DEF Leads
  <2>2. R' = [R EXCEPT !["q1"] = R.p1, !["q0"] = R.p0] /\ sreg' = sreg
    BY <1>1, <2>1, Runs
  <2>3. Registers' /\ OperandsKept' /\ R'.q1 = R.p1 /\ R'.q0 = R.p0 /\ R'.q3 = R.q3 /\ R'.q2 = R.q2
    BY <1>2, <2>2, Moved2
  <2>4. Like16(q, hh + e) /\ Product16(R) = f
    BY <1>1, <1>9 DEF FirstPart, hh, ll
  <2>5. PICK k \in Int : q = hh + e + 65536 * k
    BY <2>4 DEF Like16
  <2>6. /\ ll = 65536 * e + f /\ e \in Int /\ f = 256 * R.p1 + R.p0
    BY <1>3, <2>4 DEF Product16
  <2>7. /\ Upper(R)' = 256 * q + R.p1 /\ q \in Int
    BY ByteBounds, <1>2, <2>3 DEF Upper
  <2> HIDE DEF q, e, f
  <2>8. ll % 256 = R.p0 /\ ll \div 256 = 256 * e + R.p1
    <3> DEFINE i == R.p1
               j == R.p0
    <3>1. Within(i, 0, 255) /\ Within(j, 0, 255) /\ ll = 256 * (256 * e + i) + j /\ e \in Int
      BY ByteBounds, <1>2, <2>6
    <3> HIDE DEF i, j
    <3>2. ll % 256 = j /\ ll \div 256 = 256 * e + i
      BY <3>1
    <3> QED BY <3>2 DEF i, j
  <2>9. Upper(R)' = (256 * hh + ll \div 256) + 16777216 * k
    BY ByteBounds, <1>2, <1>3, <2>5, <2>6, <2>7, <2>8
  <2>10. Like24(Upper(R), Base(program))'
    BY <1>4, <2>9 DEF Like24
  <2>11. (R.q0 = Ll(program) % 256)'
    BY <1>4, <2>3, <2>8
  <2>12. FirstPart' /\ SecondPart'
    BY <1>1, <2>1, <2>10, <2>11 DEF FirstPart, SecondPart
  <2> QED BY <1>2, <2>2, <2>3, <2>12 DEF Handed
<1> QED BY <1>5, <1>6, <1>7, <1>8, <1>9

\* The second part: a product of a high and a low byte, extended and added
LEMMA StepSecond ==
  ASSUME AluInv, Alu!Step, program \in LongProducts,
         Stage \in {"hl", "extend", "add", "adc", "top", "lh"}
  PROVE  Handed' /\ FirstPart' /\ SecondPart'
<1>1. /\ Handed /\ SecondPart /\ program' = program /\ R0' = R0 /\ pc' = pc + 1 /\ pc \in Nat
      /\ pc \in 1..(Len(Alu!Programs[program]) + 1) /\ ~(pc > Len(Alu!Programs[program]))
      /\ Stage' = Stages[program][pc + 1]
      /\ Alu!Arithmetic \/ Alu!LogicAndBits
      /\ Half[program] \in Nat
  BY AtStage
<1>2. Registers /\ OperandsKept /\ Flagged(sreg)
  BY <1>1 DEF Handed
<1> DEFINE half == Half[program]
           base == Base(program)
           hl == Hl(program)
           lh == Lh(program)
           up == Upper(R)
<1>3. /\ base \in Int /\ Within(hl, -65280, 65025) /\ Within(lh, -65280, 65025) /\ up \in Int
      /\ program = "mul" => Within(hl, 0, 65025) /\ Within(lh, 0, 65025)
      /\ program = "muls" => Within(hl, -32640, 32385) /\ Within(lh, -32640, 32385)
  <2>1. Hh(program) \in Int /\ Within(Ll(program), 0, 130050)
    BY <1>2, PartBounds
  <2>2. base \in Int
    BY <2>1 DEF Base
  <2>3. up \in Int
    <3>1. R.q3 \in Byte /\ R.q2 \in Byte /\ R.q1 \in Byte
      BY <1>2 DEF Registers, Alu!Regs
    <3> QED BY ByteBounds, <3>1 DEF Upper
  <2> QED BY <1>2, <2>2, <2>3, PartBounds
<1>4. /\ Ll(program)' = Ll(program)
      /\ Aim = base + hl + (IF pc <= half THEN 0 ELSE lh)
      /\ Aim' = base + hl + (IF pc + 1 <= half THEN 0 ELSE lh)
  BY <1>1, SameParts DEF Aim
<1>5. R.q0 = Ll(program) % 256
  BY <1>1 DEF SecondPart
<1>6. Upper(R)' = Upper(R') /\ Product16(R)' = Product16(R') /\ C01' = Alu!Num(sreg'.C)
  BY DEF Upper, Product16, C01
<1>7. ASSUME Stage \in {"hl", "lh"}
      PROVE  Handed' /\ FirstPart' /\ SecondPart'
  <2> DEFINE w == IF Stage = "hl" THEN hl ELSE lh
             c == Alu!Num(sreg'.C)
             p == Product16(R)'
  <2>1. Stage' = IF program = "mul" THEN "add" ELSE "extend"
    BY <1>1, <1>7, TheStages DEF Leads, LongProducts
  <2>2. OfStage(program, Stage) = w
    BY <1>7 DEF OfStage
  <2>3. /\ Handed' /\ R'.q3 = R.q3 /\ R'.q2 = R.q2 /\ R'.q1 = R.q1 /\ R'.q0 = R.q0
        /\ Missing(w, c)
    BY <1>7, <2>2, Multiplies
  <2>4. Upper(R)' = up /\ (R.q0 = Ll(program) % 256)'
    BY <1>4, <1>5, <2>3 DEF Upper
  <2>5. PICK k \in Int : up + w = Aim' + 16777216 * k
    <3>1. CASE Stage = "hl"
      <4>1. PICK k \in Int : up = base + 16777216 * k
        BY <1>1, <3>1 DEF SecondPart, Like24
      <4>2. pc + 1 <= half
        BY <1>1, <3>1, TheStages
      <4> QED BY <1>3, <1>4, <3>1, <4>1, <4>2
    <3>2. CASE Stage = "lh"
      <4>1. PICK k \in Int : up = Aim + 16777216 * k
        BY <1>1, <3>2 DEF SecondPart, Like24
      <4>2. pc = half
        BY <1>1, <3>2, TheStages
      <4> QED BY <1>1, <1>3, <1>4, <3>2, <4>1, <4>2
    <3> QED BY <1>7, <3>1, <3>2
  <2>6. /\ Within(w, -65280, 65025) /\ (program = "mul" => Within(w, 0, 65025))
        /\ (program = "muls" => Within(w, -32640, 32385))
    BY <1>3
  <2> HIDE DEF w, c
  <2>7. CASE program = "mul"
    <3>1. p = w
      BY <2>3, <2>6, <2>7 DEF Missing
    <3>2. Like24(Upper(R) + Product16(R), Aim)'
      BY <2>4, <2>5, <3>1 DEF Like24
    <3> QED BY <2>1, <2>3, <2>4, <2>7, <3>2 DEF FirstPart, SecondPart
  <2>8. CASE program # "mul"
    <3>1. p - 65536 * c = w
      BY <2>3, <2>6, <2>8 DEF Missing, LongProducts
    <3>2. p \in Int /\ c \in Int
      <4>1. R'.p1 \in Byte /\ R'.p0 \in Byte
        BY <2>3 DEF Handed, Registers, Alu!Regs
      <4> QED BY ByteBounds, <4>1, Carry DEF Product16, c
    <3> HIDE DEF p
    <3>3. up + p - 65536 * c = Aim' + 16777216 * k
      BY <1>3, <2>5, <3>1, <3>2
    <3>4. Like24(Upper(R) + Product16(R) - 65536 * C01, Aim)'
      BY <1>6, <2>4, <3>3 DEF Like24, p, c
    <3> QED BY <2>1, <2>3, <2>4, <2>8, <3>4 DEF FirstPart, SecondPart
  <2> QED BY <2>7, <2>8
<1>8. CASE Stage \in {"extend", "add", "adc", "top"}
  <2>1. pc # half /\ Aim' = Aim /\ Aim \in Int
    <3>1. pc # half
      BY <1>1, <1>8, TheStages
    <3> QED BY <1>1, <1>3, <1>4, <3>1
  <2> HIDE DEF half, base, hl, lh, up
  <2>2. CASE Stage = "extend"
    <3>1. Stage' = "add" /\ Alu!Current = <<"SBC", "q3", "z">>
      BY <1>1, <2>2, TheStages DEF Leads
    <3>2. Source = R["z"]
      BY <3>1 DEF Source, Alu!Operand, Alu!Regs
    <3> DEFINE out == Alu!INST_SBC(R["q3"], R["z"], sreg)
    <3>3. Stored("q3", out.v) /\ sreg' = out.f
      BY <1>1, <3>1, <3>2, Runs DEF Result
    <3>4. Like24(Upper(R) + Product16(R) - 65536 * Alu!Num(sreg.C), Aim)
      BY <1>1, <2>2 DEF SecondPart, C01
    <3> HIDE DEF out
    <3>5. /\ Registers' /\ Flagged(sreg') /\ OperandsKept' /\ R'.q0 = R.q0
          /\ Like24(Upper(R') + Product16(R'), Aim)
      BY <1>1, <1>2, <2>1, <3>3, <3>4, SignTaken DEF out
    <3>6. Like24(Upper(R) + Product16(R), Aim)'
      BY <1>6, <2>1, <3>5 DEF Like24
    <3> QED BY <1>4, <1>5, <3>1, <3>5, <3>6 DEF FirstPart, SecondPart, Handed
  <2>3. CASE Stage = "add"
    <3>1. Stage' = "adc" /\ Alu!Current = <<"ADD", "q1", "p0">>
      BY <1>1, <2>3, TheStages DEF Leads
    <3>2. Source = R["p0"]
      BY <3>1 DEF Source, Alu!Operand, Alu!Regs
    <3> DEFINE out == Alu!INST_ADD(R["q1"], R["p0"], sreg)
    <3>3. Stored("q1", out.v) /\ sreg' = out.f
      BY <1>1, <3>1, <3>2, Runs DEF Result
    <3>4. Like24(Upper(R) + Product16(R), Aim)
      BY <1>1, <2>3 DEF SecondPart
    <3> HIDE DEF out
    <3>5. /\ Registers' /\ Flagged(sreg') /\ OperandsKept' /\ R'.q0 = R.q0
          /\ Like24(Upper(R') + 256 * Alu!Num(sreg'.C) + 256 * R'.p1, Aim)
      BY <1>1, <1>2, <2>1, <3>3, <3>4, LowAdded DEF out
    <3>6. Like24(Upper(R) + 256 * C01 + 256 * R.p1, Aim)'
      BY <1>6, <2>1, <3>5 DEF Like24
    <3> QED BY <1>4, <1>5, <3>1, <3>5, <3>6 DEF FirstPart, SecondPart, Handed
  <2>4. CASE Stage = "adc"
    <3>1. Stage' = "top" /\ Alu!Current = <<"ADC", "q2", "p1">>
      BY <1>1, <2>4, TheStages DEF Leads
    <3>2. Source = R["p1"]
      BY <3>1 DEF Source, Alu!Operand, Alu!Regs
    <3> DEFINE out == Alu!INST_ADC(R["q2"], R["p1"], sreg)
    <3>3. Stored("q2", out.v) /\ sreg' = out.f
      BY <1>1, <3>1, <3>2, Runs DEF Result
    <3>4. Like24(Upper(R) + 256 * Alu!Num(sreg.C) + 256 * R.p1, Aim)
      BY <1>1, <2>4 DEF SecondPart, C01
    <3> HIDE DEF out
    <3>5. /\ Registers' /\ Flagged(sreg') /\ OperandsKept' /\ R'.q0 = R.q0
          /\ Like24(Upper(R') + 65536 * Alu!Num(sreg'.C), Aim)
      BY <1>1, <1>2, <2>1, <3>3, <3>4, MidAdded DEF out
    <3>6. Like24(Upper(R) + 65536 * C01, Aim)'
      BY <1>6, <2>1, <3>5 DEF Like24
    <3> QED BY <1>4, <1>5, <3>1, <3>5, <3>6 DEF FirstPart, SecondPart, Handed
  <2>5. CASE Stage = "top"
    <3>1. Stage' \in {"lh", "done"} /\ Alu!Current = <<"ADC", "q3", "z">>
      BY <1>1, <2>5, TheStages DEF Leads
    <3>2. Source = R["z"]
      BY <3>1 DEF Source, Alu!Operand, Alu!Regs
    <3> DEFINE out == Alu!INST_ADC(R["q3"], R["z"], sreg)
    <3>3. Stored("q3", out.v) /\ sreg' = out.f
      BY <1>1, <3>1, <3>2, Runs DEF Result
    <3>4. Like24(Upper(R) + 65536 * Alu!Num(sreg.C), Aim)
      BY <1>1, <2>5 DEF SecondPart, C01
    <3> HIDE DEF out
    <3>5. /\ Registers' /\ Flagged(sreg') /\ OperandsKept' /\ R'.q0 = R.q0
          /\ Like24(Upper(R'), Aim)
      BY <1>1, <1>2, <2>1, <3>3, <3>4, TopAdded DEF out
    <3>6. Like24(Upper(R), Aim)'
      BY <1>6, <2>1, <3>5 DEF Like24
    <3> QED BY <1>4, <1>5, <3>1, <3>5, <3>6 DEF FirstPart, SecondPart, Handed
  <2> QED BY <1>8, <2>2, <2>3, <2>4, <2>5
<1> QED BY <1>7, <1>8

LEMMA StepProduct ==
  ASSUME AluInv, Alu!Step, program \in LongProducts
  PROVE  Registers' /\ Flagged(sreg') /\ AtProduct' /\ pc' # 1
<1>1. /\ pc \in 1..(Len(Alu!Programs[program]) + 1) /\ ~(pc > Len(Alu!Programs[program]))
      /\ pc' \in 1..(Len(Alu!Programs[program]) + 1) /\ pc' # 1
      /\ program' = program
  BY AtStage
<1>2. Stage \in {"hh", "high", "ll", "carry", "low", "hl", "extend", "add", "adc", "top", "lh"}
  BY <1>1, TheStages
<1>3. Handed' /\ FirstPart' /\ SecondPart'
  BY <1>2, StepFirst, StepSecond
<1>4. Len(Alu!Programs[program])' = Len(Alu!Programs[program])
  BY <1>1
<1> QED BY <1>1, <1>3, <1>4 DEF AtProduct, Handed

\* What the host loads: registers of bytes and any flags
LEMMA LoadsBytes ==
  ASSUME AluInv, Alu!Load
  PROVE  /\ program' \in DOMAIN Alu!Programs /\ program' # "idle" /\ pc' = 1 /\ R0' = R'
         /\ R' \in [Alu!Regs -> Byte] /\ R'["z"] = 0 /\ sreg' \in Alu!Flags /\ sreg0' = sreg'
<1>1. /\ program' \in DOMAIN Alu!Programs /\ program' # "idle" /\ pc' = 1 /\ R0' = R'
      /\ sreg0' = sreg'
  BY TheSequences DEF Alu!Load
<1>2. R' \in [Alu!Regs -> Byte] /\ R'["z"] = 0
  <2>1. R \in [Alu!Regs -> Byte] /\ R["z"] = 0
    BY DEF Alu!Load, AluInv, Untouched
  <2>2. Bytes \subseteq Byte
    BY InstructionsAssumption DEF Byte
  <2>3. PICK ah, al, bh, bl \in Bytes :
          R' = [R EXCEPT !.ah = ah, !.al = al, !.bh = bh, !.bl = bl]
    BY DEF Alu!Load
  <2> QED BY <2>1, <2>2, <2>3 DEF Alu!Regs
<1>3. sreg' \in Alu!Flags
  BY InstructionsAssumption DEF Alu!Load
<1> QED BY <1>1, <1>2, <1>3

LEMMA Loaded ==
  ASSUME AluInv, Alu!Load
  PROVE  AluInv'
<1>1. /\ program' \in DOMAIN Alu!Programs /\ program' # "idle" /\ pc' = 1 /\ R0' = R'
      /\ R' \in [Alu!Regs -> Byte] /\ R'["z"] = 0
  BY LoadsBytes
<1>3. Flagged(sreg')
  BY LoadsBytes DEF Flagged, Names, Alu!Flags
<1>4. Untouched'
  BY <1>1 DEF Untouched, Registers
<1>5. AtAdd' /\ AtLoop' /\ AtDiff' /\ AtAdiw' /\ AtSbiw'
  BY <1>1 DEF AtAdd, AtLoop, AtDiff, AtAdiw, AtSbiw
<1>6. AtProduct'
  <2> SUFFICES ASSUME program' \in LongProducts PROVE AtProduct'
    BY DEF AtProduct
  <2>1. Stage' = "hh" /\ pc' \in 1..(Len(Alu!Programs[program']) + 1)
    <3>1. CASE program' = "mul"
      BY <1>1, <3>1, TheSequences DEF Stage, Stages
    <3>2. CASE program' = "muls"
      BY <1>1, <3>2, TheSequences DEF Stage, Stages
    <3>3. CASE program' = "fmuls"
      BY <1>1, <3>3, TheSequences DEF Stage, Stages
    <3> QED BY <3>1, <3>2, <3>3 DEF LongProducts
  <2>2. OperandsKept'
    BY <1>1 DEF OperandsKept
  <2>3. FirstPart' /\ SecondPart'
    BY <2>1 DEF FirstPart, SecondPart
  <2> QED BY <2>1, <2>2, <2>3 DEF AtProduct
<1> QED BY <1>1, <1>3, <1>4, <1>5, <1>6 DEF AluInv

\* A sequence that is not running asks nothing
LEMMA Elsewhere ==
  /\ (program' # "add" => AtAdd') /\ (program' # "loop" => AtLoop')
  /\ (program' # "adiw" => AtAdiw') /\ (program' # "sbiw" => AtSbiw')
  /\ (program' \notin Differences => AtDiff') /\ (program' \notin LongProducts => AtProduct')
  /\ {"add", "loop", "adiw", "sbiw"} \cap (Differences \cup LongProducts) = {}
<1>1. (program' # "add" => AtAdd') /\ (program' # "loop" => AtLoop')
  BY DEF AtAdd, AtLoop
<1>2. (program' # "adiw" => AtAdiw') /\ (program' # "sbiw" => AtSbiw')
  BY DEF AtAdiw, AtSbiw
<1>3. (program' \notin Differences => AtDiff') /\ (program' \notin LongProducts => AtProduct')
  BY DEF AtDiff, AtProduct
<1>4. {"add", "loop", "adiw", "sbiw"} \cap (Differences \cup LongProducts) = {}
  BY DEF Differences, LongProducts
<1> QED BY <1>1, <1>2, <1>3, <1>4

LEMMA Stepped ==
  ASSUME AluInv, Alu!Step
  PROVE  AluInv'
<1>1. /\ program' = program /\ program # "idle"
      /\ Alu!Arithmetic \/ Alu!LogicAndBits
      /\ program' \in {"idle"} \cup DOMAIN Alu!Programs
  BY Stepping DEF AluInv
<1>2. Flagged(sreg')
  BY <1>1, FlagsStay DEF AluInv
<1> SUFFICES /\ (program \in Followed => Registers' /\ pc' # 1)
             /\ AtAdd' /\ AtLoop' /\ AtDiff' /\ AtAdiw' /\ AtSbiw' /\ AtProduct'
  BY <1>1, <1>2 DEF AluInv, Untouched
<1>3. CASE program = "add"
  BY <1>1, <1>3, StepAdd, Elsewhere
<1>4. CASE program = "loop"
  BY <1>1, <1>4, StepLoop, Elsewhere
<1>5. CASE program \in Differences
  <2>1. program \notin {"add", "loop", "adiw", "sbiw"} \cup LongProducts
    BY <1>5 DEF Differences, LongProducts
  <2> QED BY <1>1, <1>5, <2>1, StepDiff, Elsewhere
<1>6. CASE program = "adiw"
  BY <1>1, <1>6, StepAdiw, Elsewhere
<1>7. CASE program = "sbiw"
  BY <1>1, <1>7, StepSbiw, Elsewhere
<1>8. CASE program \in LongProducts
  <2>1. program \notin {"add", "loop", "adiw", "sbiw"} \cup Differences
    BY <1>8 DEF Differences, LongProducts
  <2> QED BY <1>1, <1>8, <2>1, StepProduct, Elsewhere
<1>9. CASE program \notin Followed
  BY <1>1, <1>9, Elsewhere DEF Followed
<1> QED BY <1>3, <1>4, <1>5, <1>6, <1>7, <1>8, <1>9 DEF Followed

LEMMA Zeroed == [r \in Alu!Regs |-> 0] \in [Alu!Regs -> Byte] /\ [r \in Alu!Regs |-> 0]["z"] = 0
BY DEF Byte, Alu!Byte, Alu!Regs

LEMMA Unloaded ==
  ASSUME AluInv, Alu!Unload
  PROVE  AluInv'
<1>1. program' = "idle" /\ R' \in [Alu!Regs -> Byte] /\ R'["z"] = 0
  BY Zeroed DEF Alu!Unload
<1>2. Flagged(sreg')
  <2>1. DOMAIN sreg = Names
    BY DEF AluInv, Flagged
  <2> QED BY <2>1 DEF Alu!Unload, Flagged
<1> QED BY <1>1, <1>2 DEF AluInv, Untouched, Followed, Differences, LongProducts,
         AtAdd, AtLoop, AtDiff, AtAdiw, AtSbiw, AtProduct

LEMMA AluStarts == InstInit => AluInv
<1> SUFFICES ASSUME Alu!Init PROVE AluInv
  BY DEF InstInit
<1>1. program = "idle" /\ R \in [Alu!Regs -> Byte] /\ R["z"] = 0 /\ Flagged(sreg)
  BY Zeroed DEF Alu!Init, Flagged, Names
<1> QED BY <1>1 DEF AluInv, Untouched, Followed, Differences, LongProducts,
         AtAdd, AtLoop, AtDiff, AtAdiw, AtSbiw, AtProduct

LEMMA AluKept ==
  ASSUME AluInv, [InstNext]_<<part, aluVars, memVars, decVars, disVars>>
  PROVE  AluInv'
<1>1. CASE Bodies
  BY <1>1, Loaded, Stepped, Unloaded DEF Bodies, Alu!Next
<1>2. CASE UNCHANGED aluVars
  <2>1. /\ R' = R /\ sreg' = sreg /\ program' = program /\ pc' = pc /\ R0' = R0
    BY <1>2 DEF aluVars
  <2>2. Alu!A0' = Alu!A0 /\ Alu!A1' = Alu!A1 /\ Alu!B0' = Alu!B0 /\ Alu!K6' = Alu!K6
    BY <2>1 DEF Alu!A0, Alu!A1, Alu!B0, Alu!K6
  <2>3. Untouched' /\ Flagged(sreg')
    BY <2>1 DEF AluInv, Untouched, Registers
  <2>4. AtAdd' /\ AtLoop'
    BY <2>1, <2>2 DEF AluInv, AtAdd, AtLoop, LowSum, SumDone
  <2>5. AtDiff'
    BY <2>1, <2>2 DEF AluInv, AtDiff, LowDiff, LowTaken, DiffDone, DiffFlags
  <2>6. AtAdiw' /\ AtSbiw'
    BY <2>1, <2>2 DEF AluInv, AtAdiw, AtSbiw, AdiwDone, SbiwDone
  <2>7. AtProduct'
    <3>1. /\ Hh(program)' = Hh(program) /\ Ll(program)' = Ll(program)
          /\ Base(program)' = Base(program) /\ Stage' = Stage /\ Aim' = Aim
      <4>1. Stage' = Stage
        BY <2>1 DEF Stage, Stages
      <4> QED BY <2>1, <4>1, SameParts DEF Aim
    <3>2. /\ Upper(R)' = Upper(R) /\ Product16(R)' = Product16(R) /\ C01' = C01
          /\ OperandsKept' = OperandsKept
      BY <2>1 DEF Upper, Product16, C01, OperandsKept
    <3>3. FirstPart => FirstPart'
      BY <2>1, <3>1, <3>2 DEF FirstPart, Like16
    <3>4. SecondPart => SecondPart'
      BY <2>1, <3>1, <3>2 DEF SecondPart, Like24
    <3> QED BY <2>1, <3>2, <3>3, <3>4 DEF AluInv, AtProduct
  <2> QED BY <2>1, <2>3, <2>4, <2>5, <2>6, <2>7 DEF AluInv
<1> QED BY <1>1, <1>2 DEF InstNext, Moving, Decoding, Walking

\* The words of a finished product sequence
LEMMA ProductParts ==
  ASSUME Registers, NEW p \in LongProducts,
         NEW a, a = [mul |-> Alu!A0, muls |-> Alu!SignedWord(Alu!A0), fmuls |-> 2 * Alu!SignedWord(Alu!A0)],
         NEW b, b = [mul |-> Alu!B0, muls |-> Alu!SignedWord(Alu!B0), fmuls |-> Alu!SignedWord(Alu!B0)]
  PROVE  /\ Alu!TimesLow(a[p], b[p]) = 256 * Hl(p) + Ll(p)
         /\ Alu!TimesHigh(a[p], b[p]) = 256 * Hh(p) + Lh(p)
<1> DEFINE ah == R0["ah"]
           al == R0["al"]
           bh == R0["bh"]
           bl == R0["bl"]
           sa == Alu!Signed(ah)
           sb == Alu!Signed(bh)
<1>1. ah \in Byte /\ al \in Byte /\ bh \in Byte /\ bl \in Byte
  BY DEF Registers, Alu!Regs
<1>2. /\ Alu!A0 = 256 * ah + al /\ Alu!B0 = 256 * bh + bl
  BY DEF Alu!A0, Alu!B0, Alu!Word
<1>3. /\ Alu!SignedWord(Alu!A0) = 256 * sa + al /\ sa \in -128..127
      /\ Alu!SignedWord(Alu!B0) = 256 * sb + bl /\ sb \in -128..127
  BY <1>1, WordSign DEF Alu!A0, Alu!B0
<1> DEFINE da == Alu!A0
           db == Alu!B0
           wa == Alu!SignedWord(Alu!A0)
           wb == Alu!SignedWord(Alu!B0)
<1>4. /\ (p = "mul" => Hh(p) = ah * bh) /\ (p = "muls" => Hh(p) = sa * sb)
      /\ (p = "fmuls" => Hh(p) = 2 * (sa * sb))
  BY DEF Hh
<1>5. /\ (p = "mul" => Hl(p) = ah * bl) /\ (p = "muls" => Hl(p) = sa * bl)
      /\ (p = "fmuls" => Hl(p) = 2 * (sa * bl))
  BY DEF Hl
<1>6. /\ (p = "mul" => Lh(p) = bh * al) /\ (p = "muls" => Lh(p) = sb * al)
      /\ (p = "fmuls" => Lh(p) = 2 * (sb * al))
  BY DEF Lh
<1>7. Ll(p) = IF p = "fmuls" THEN 2 * (al * bl) ELSE al * bl
  BY DEF Ll
<1>8. /\ p = "mul" => a[p] = da /\ b[p] = db
      /\ p = "muls" => a[p] = wa /\ b[p] = wb
      /\ p = "fmuls" => a[p] = 2 * wa /\ b[p] = wb
  OBVIOUS
<1>9. \A h, l \in Int : 0 <= l /\ l <= 255 => (256 * h + l) % 256 = l /\ (256 * h + l) \div 256 = h
  OBVIOUS
<1>10. /\ db % 256 = bl /\ db \div 256 = bh /\ wb % 256 = bl /\ wb \div 256 = sb
  BY ByteBounds, <1>1, <1>2, <1>3, <1>9
<1>11. ah \in Int /\ al \in Int /\ bh \in Int /\ bl \in Int /\ sa \in Int /\ sb \in Int
  BY ByteBounds, <1>1, <1>3
<1> HIDE DEF ah, al, bh, bl, sa, sb, da, db, wa, wb
<1>12. \A x, y, z \in Int : /\ (256 * x + y) * z = 256 * (x * z) + y * z
                            /\ (2 * (256 * x + y)) * z = 256 * (2 * (x * z)) + 2 * (y * z)
                            /\ x * z = z * x
  OBVIOUS
<1>13. CASE p = "mul"
  BY <1>2, <1>4, <1>5, <1>6, <1>7, <1>8, <1>10, <1>11, <1>12, <1>13
     DEF Alu!TimesLow, Alu!TimesHigh, da, db
<1>14. CASE p = "muls"
  BY <1>3, <1>4, <1>5, <1>6, <1>7, <1>8, <1>10, <1>11, <1>12, <1>14
     DEF Alu!TimesLow, Alu!TimesHigh, wa, wb
<1>15. CASE p = "fmuls"
  BY <1>3, <1>4, <1>5, <1>6, <1>7, <1>8, <1>10, <1>11, <1>12, <1>15
     DEF Alu!TimesLow, Alu!TimesHigh, wa, wb
<1> QED BY <1>13, <1>14, <1>15 DEF LongProducts

LEMMA LongProductsDone ==
  ASSUME AluInv
  PROVE  Products
<1> DEFINE a == [mul |-> Alu!A0, muls |-> Alu!SignedWord(Alu!A0), fmuls |-> 2 * Alu!SignedWord(Alu!A0)]
           b == [mul |-> Alu!B0, muls |-> Alu!SignedWord(Alu!B0), fmuls |-> Alu!SignedWord(Alu!B0)]
<1> SUFFICES ASSUME NEW p \in LongProducts, Alu!Done(p)
             PROVE  /\ Alu!Word(R.q3, R.q2) = Alu!UpperWord(a[p], b[p])
                    /\ Alu!Word(R.q1, R.q0) = Alu!LowerWord(a[p], b[p])
  BY DEF Products, Alu!Products, LongProducts
<1>1. /\ program = p /\ Registers /\ SecondPart
      /\ pc \in 1..(Len(Alu!Programs[p]) + 1) /\ pc > Len(Alu!Programs[p])
  BY DEF AluInv, AtProduct, Untouched, Followed, Alu!Done, Alu!Finished
<1>2. Stage = "done" /\ ~(pc <= Half[p])
  <2>1. CASE p = "mul"
    <3>1. pc = 13
      BY <1>1, <2>1, TheSequences
    <3> QED BY <1>1, <2>1, <3>1 DEF Stage, Stages, Half
  <2>2. CASE p = "muls"
    <3>1. pc = 15
      BY <1>1, <2>2, TheSequences
    <3> QED BY <1>1, <2>2, <3>1 DEF Stage, Stages, Half
  <2>3. CASE p = "fmuls"
    <3>1. pc = 16
      BY <1>1, <2>3, TheSequences
    <3> QED BY <1>1, <2>3, <3>1 DEF Stage, Stages, Half
  <2> QED BY <2>1, <2>2, <2>3 DEF LongProducts
<1> DEFINE hh == Hh(p)
           hl == Hl(p)
           lh == Lh(p)
           ll == Ll(p)
           low == Alu!TimesLow(a[p], b[p])
           high == Alu!TimesHigh(a[p], b[p])
           u == Upper(R)
<1>3. Like24(u, Aim) /\ R.q0 = ll % 256
  BY <1>1, <1>2 DEF SecondPart
<1>4. hh \in Int /\ ll \in Int /\ hl \in Int /\ lh \in Int
  BY <1>1, PartBounds
<1>5. low = 256 * hl + ll /\ high = 256 * hh + lh
  BY <1>1, ProductParts
<1>6. R.q3 \in Byte /\ R.q2 \in Byte /\ R.q1 \in Byte /\ R.q0 \in Byte
  BY <1>1 DEF Registers, Alu!Regs
<1>7. Aim = 256 * hh + ll \div 256 + hl + lh
  BY <1>1, <1>2, <1>4 DEF Aim, Base
<1> HIDE DEF a, b, hh, hl, lh, ll, low, high
<1>8. /\ Within(u, 0, 16777215) /\ u \div 256 = 256 * R.q3 + R.q2 /\ u % 256 = R.q1
  <2> DEFINE i == R.q3
             j == R.q2
             k == R.q1
  <2>1. Within(i, 0, 255) /\ Within(j, 0, 255) /\ Within(k, 0, 255) /\ u = 65536 * i + 256 * j + k
    BY ByteBounds, <1>6 DEF Upper
  <2> HIDE DEF i, j, k, u
  <2>2. Within(u, 0, 16777215) /\ u \div 256 = 256 * i + j /\ u % 256 = k
    BY <2>1
  <2> QED BY <2>2 DEF i, j, k
<1> HIDE DEF u
<1>9. low \in Int /\ high \in Int
  BY <1>4, <1>5
<1>10. /\ u \div 256 = ((low \div 256 + high) \div 256) % 65536
       /\ 256 * (u % 256) + R.q0 = (low + 256 * (high % 256)) % 65536
  <2> DEFINE goal == Aim
             q0 == R.q0
  <2>1. Like24(u, goal) /\ q0 = ll % 256 /\ goal = 256 * hh + ll \div 256 + hl + lh /\ q0 \in Byte
    BY <1>3, <1>6, <1>7
  <2> HIDE DEF goal, q0
  <2>2. Like24(u, 256 * hh + ll \div 256 + hl + lh)
    BY <2>1
  <2>3. /\ u \div 256 = ((low \div 256 + high) \div 256) % 65536
        /\ 256 * (u % 256) + q0 = (low + 256 * (high % 256)) % 65536
    <3> HIDE DEF u
    <3>1. Assembled(u, q0, hh, hl, lh, ll, low, high)
      BY <1>4, <1>5, <1>8, <2>1, <2>2 DEF Assembled
    <3> QED BY <3>1, WordsOfProduct
  <2> QED BY <2>3 DEF q0
<1> QED BY <1>8, <1>10 DEF Alu!Word, Alu!UpperWord, Alu!LowerWord, low, high

LEMMA AluResults == AluInv => SumCarries /\ CompareOrders /\ Products
<1> SUFFICES ASSUME AluInv PROVE SumCarries /\ CompareOrders /\ Products
  OBVIOUS
<1>1. SumCarries
  <2>1. Alu!Done("add") => SumDone
    <3>1. Len(Alu!Programs["add"]) = 2
      BY TheSequences
    <3>2. Alu!Done("add") => program = "add" /\ pc > 2
      BY <3>1 DEF Alu!Done, Alu!Finished
    <3> QED BY <3>2 DEF AluInv, AtAdd
  <2>2. Alu!Done("loop") => SumDone
    <3>1. Len(Alu!Programs["loop"]) = 4
      BY TheSequences
    <3>2. Alu!Done("loop") => program = "loop" /\ pc > 4
      BY <3>1 DEF Alu!Done, Alu!Finished
    <3> QED BY <3>2 DEF AluInv, AtLoop
  <2>3. Alu!Done("adiw") => AdiwDone
    <3>1. Len(Alu!Programs["adiw"]) = 1
      BY TheSequences
    <3>2. Alu!Done("adiw") => program = "adiw" /\ pc > 1
      BY <3>1 DEF Alu!Done, Alu!Finished
    <3> QED BY <3>2 DEF AluInv, AtAdiw
  <2> QED BY <2>1, <2>2, <2>3 DEF SumCarries, Alu!SumCarries, SumDone, AdiwDone
<1>2. CompareOrders
  <2>1. \A p \in Differences : Alu!Done(p) => DiffDone(p)
    <3>1. \A a, b : Len(<<a, b>>) = 2
      OBVIOUS
    <3>2. \A p \in Differences : \E a, b : Alu!Programs[p] = <<a, b>>
      BY TheSequences, Zenon DEF Differences
    <3>3. \A p \in Differences : Len(Alu!Programs[p]) = 2
      BY <3>1, <3>2, Zenon
    <3> QED BY <3>3, SMTT(60) DEF AluInv, AtDiff, Alu!Done, Alu!Finished
  <2>2. Alu!Done("sbiw") => SbiwDone
    <3>1. Len(Alu!Programs["sbiw"]) = 1
      BY TheSequences
    <3>2. Alu!Done("sbiw") => program = "sbiw" /\ pc > 1
      BY <3>1 DEF Alu!Done, Alu!Finished
    <3> QED BY <3>2 DEF AluInv, AtSbiw
  <2> QED BY <2>1, <2>2 DEF CompareOrders, Alu!CompareOrders, DiffDone, DiffFlags, SbiwDone, Differences
<1>3. Products
  BY LongProductsDone
<1> QED BY <1>1, <1>2, <1>3

(* A sequence of sums of bytes leaves the sum of the words with its carry and  *)
(* its overflow, on any operands and any flags before it (setFlags_HSVNZC_ADD, *)
(* setFlags_SVNZC_ADD_16).                                                     *)
THEOREM SumsAndCarries == InstSpec => []SumCarries
<1> QED BY AluStarts, AluKept, AluResults, PTL DEF InstSpec

(* After a subtraction or a comparison of words C, Z and S order them, unsigned *)
(* and signed, and a comparison writes no register (setFlags_HSVNZC_SUB,        *)
(* setFlags_SVNZC_SUB_16).                                                      *)
THEOREM WordsCompared == InstSpec => []CompareOrders
<1> QED BY AluStarts, AluKept, AluResults, PTL DEF InstSpec

(* Sequences of byte products leave the 32-bit product of two words, unsigned,  *)
(* signed, and doubled for fractions: C extends a signed part by its sign and   *)
(* carries the bit a doubled one loses (INST_MUL to INST_FMULSU, INST_SBC,      *)
(* INST_ADC, INST_MOVW).                                                        *)
THEOREM ProductsExact == InstSpec => []Products
<1> QED BY AluStarts, AluKept, AluResults, PTL DEF InstSpec
-----------------------------------------------------------------------------
\* Bytes as eight bits

Octet(b0, b1, b2, b3, b4, b5, b6, b7) ==
  Alu!Num(b0) + 2 * Alu!Num(b1) + 4 * Alu!Num(b2) + 8 * Alu!Num(b3)
  + 16 * Alu!Num(b4) + 32 * Alu!Num(b5) + 64 * Alu!Num(b6) + 128 * Alu!Num(b7)
HasBits(x, b0, b1, b2, b3, b4, b5, b6, b7) ==
  /\ (Alu!Bit(x, 0) <=> b0) /\ (Alu!Bit(x, 1) <=> b1) /\ (Alu!Bit(x, 2) <=> b2)
  /\ (Alu!Bit(x, 3) <=> b3) /\ (Alu!Bit(x, 4) <=> b4) /\ (Alu!Bit(x, 5) <=> b5)
  /\ (Alu!Bit(x, 6) <=> b6) /\ (Alu!Bit(x, 7) <=> b7)

LEMMA BitsAre ==
  ASSUME NEW x \in Int
  PROVE  /\ (Alu!Bit(x, 0) <=> (x % 2 = 1))
         /\ (Alu!Bit(x, 1) <=> ((x \div 2) % 2 = 1))
         /\ (Alu!Bit(x, 2) <=> ((x \div 4) % 2 = 1))
         /\ (Alu!Bit(x, 3) <=> ((x \div 8) % 2 = 1))
         /\ (Alu!Bit(x, 4) <=> ((x \div 16) % 2 = 1))
         /\ (Alu!Bit(x, 5) <=> ((x \div 32) % 2 = 1))
         /\ (Alu!Bit(x, 6) <=> ((x \div 64) % 2 = 1))
         /\ (Alu!Bit(x, 7) <=> ((x \div 128) % 2 = 1))
BY DEF Alu!Bit

LEMMA OctetHasBits ==
  ASSUME NEW b0, NEW b1, NEW b2, NEW b3, NEW b4, NEW b5, NEW b6, NEW b7,
         NEW x, x = Octet(b0, b1, b2, b3, b4, b5, b6, b7)
  PROVE  x \in Byte /\ HasBits(x, b0, b1, b2, b3, b4, b5, b6, b7)
<1>1. \A p : Alu!Num(p) \in 0..1 /\ (Alu!Num(p) = 1 <=> p)
  BY Carry
<1>2. PICK n0 \in 0..1 : n0 = Alu!Num(b0)
  BY <1>1
<1>3. PICK n1 \in 0..1 : n1 = Alu!Num(b1)
  BY <1>1
<1>4. PICK n2 \in 0..1 : n2 = Alu!Num(b2)
  BY <1>1
<1>5. PICK n3 \in 0..1 : n3 = Alu!Num(b3)
  BY <1>1
<1>6. PICK n4 \in 0..1 : n4 = Alu!Num(b4)
  BY <1>1
<1>7. PICK n5 \in 0..1 : n5 = Alu!Num(b5)
  BY <1>1
<1>8. PICK n6 \in 0..1 : n6 = Alu!Num(b6)
  BY <1>1
<1>9. PICK n7 \in 0..1 : n7 = Alu!Num(b7)
  BY <1>1
<1>10. x = n0 + 2 * n1 + 4 * n2 + 8 * n3 + 16 * n4 + 32 * n5 + 64 * n6 + 128 * n7
  BY <1>2, <1>3, <1>4, <1>5, <1>6, <1>7, <1>8, <1>9 DEF Octet
<1>11. /\ x \in 0..255 /\ x \in Int /\ x % 2 = n0
       /\ (x \div 2) % 2 = n1 /\ (x \div 4) % 2 = n2 /\ (x \div 8) % 2 = n3
       /\ (x \div 16) % 2 = n4 /\ (x \div 32) % 2 = n5 /\ (x \div 64) % 2 = n6
       /\ (x \div 128) % 2 = n7
  BY ONLY <1>10
<1>12. /\ (n0 = 1 <=> b0) /\ (n1 = 1 <=> b1) /\ (n2 = 1 <=> b2) /\ (n3 = 1 <=> b3)
       /\ (n4 = 1 <=> b4) /\ (n5 = 1 <=> b5) /\ (n6 = 1 <=> b6) /\ (n7 = 1 <=> b7)
  BY <1>1, <1>2, <1>3, <1>4, <1>5, <1>6, <1>7, <1>8, <1>9
<1> QED BY <1>11, <1>12, BitsAre, ZenonT(60) DEF HasBits, Byte, Alu!Byte

LEMMA ByteOfBits ==
  ASSUME NEW x \in Byte, NEW b0, NEW b1, NEW b2, NEW b3, NEW b4, NEW b5, NEW b6, NEW b7,
         HasBits(x, b0, b1, b2, b3, b4, b5, b6, b7)
  PROVE  x = Octet(b0, b1, b2, b3, b4, b5, b6, b7)
<1> DEFINE n(p) == Alu!Num(p)
<1>1. \A p : n(p) \in 0..1 /\ (n(p) = 1 <=> p)
  BY Carry
<1>2. x \in Int /\ x \in 0..255
  BY DEF Byte, Alu!Byte
<1>3. /\ (x % 2 = 1 <=> b0) /\ ((x \div 2) % 2 = 1 <=> b1) /\ ((x \div 4) % 2 = 1 <=> b2)
      /\ ((x \div 8) % 2 = 1 <=> b3) /\ ((x \div 16) % 2 = 1 <=> b4)
      /\ ((x \div 32) % 2 = 1 <=> b5) /\ ((x \div 64) % 2 = 1 <=> b6)
      /\ ((x \div 128) % 2 = 1 <=> b7)
  BY <1>2, BitsAre, Zenon DEF HasBits
<1> HIDE DEF n
<1>4. x = n(b0) + 2 * n(b1) + 4 * n(b2) + 8 * n(b3) + 16 * n(b4) + 32 * n(b5) + 64 * n(b6) + 128 * n(b7)
  <2>1. \A k \in Int : k % 2 \in 0..1
    OBVIOUS
  <2>2. /\ x \div 2 \in Int /\ x \div 4 \in Int /\ x \div 8 \in Int /\ x \div 16 \in Int
        /\ x \div 32 \in Int /\ x \div 64 \in Int /\ x \div 128 \in Int
    BY <1>2
  <2>3. /\ x % 2 = n(b0) /\ (x \div 2) % 2 = n(b1) /\ (x \div 4) % 2 = n(b2)
        /\ (x \div 8) % 2 = n(b3) /\ (x \div 16) % 2 = n(b4)
        /\ (x \div 32) % 2 = n(b5) /\ (x \div 64) % 2 = n(b6)
        /\ (x \div 128) % 2 = n(b7)
    BY <1>1, <1>2, <1>3, <2>1, <2>2
  <2>4. x = (x % 2) + 2 * ((x \div 2) % 2) + 4 * ((x \div 4) % 2) + 8 * ((x \div 8) % 2)
            + 16 * ((x \div 16) % 2) + 32 * ((x \div 32) % 2) + 64 * ((x \div 64) % 2)
            + 128 * ((x \div 128) % 2)
    BY <1>2
  <2> QED BY <2>3, <2>4
<1> QED BY <1>4 DEF Octet, n
-----------------------------------------------------------------------------
\* The instructions, bit by bit

Place(flag) == CHOOSE i \in 1..7 : Alu!sregOrder[i] = flag

LEMMA SregOrder ==
  /\ Place("C") = 1 /\ Place("Z") = 2 /\ Place("N") = 3 /\ Place("V") = 4
  /\ Place("S") = 5 /\ Place("H") = 6 /\ Place("T") = 7
<1>1. /\ Alu!sregOrder[1] = "C" /\ Alu!sregOrder[2] = "Z" /\ Alu!sregOrder[3] = "N"
      /\ Alu!sregOrder[4] = "V" /\ Alu!sregOrder[5] = "S" /\ Alu!sregOrder[6] = "H"
      /\ Alu!sregOrder[7] = "T"
  BY DEF Alu!sregOrder
<1>2. \A j \in 1..7 : j = 1 \/ j = 2 \/ j = 3 \/ j = 4 \/ j = 5 \/ j = 6 \/ j = 7
  OBVIOUS
<1> QED BY <1>1, <1>2 DEF Place

LEMMA SregByte ==
  ASSUME NEW f \in Alu!Flags
  PROVE  Alu!getSREG(f) = Octet(f.C, f.Z, f.N, f.V, f.S, f.H, f.T, FALSE)
<1>1. /\ Alu!sregOrder[0 + 1] = "C" /\ Alu!sregOrder[1 + 1] = "Z" /\ Alu!sregOrder[2 + 1] = "N"
      /\ Alu!sregOrder[3 + 1] = "V" /\ Alu!sregOrder[4 + 1] = "S" /\ Alu!sregOrder[5 + 1] = "H"
      /\ Alu!sregOrder[6 + 1] = "T"
  BY DEF Alu!sregOrder
<1> QED BY <1>1 DEF Alu!getSREG, Alu!FromBits, Alu!Num, Octet

LEMMA SregRestored ==
  ASSUME NEW f \in Alu!Flags, NEW g, Flagged(g)
  PROVE  Alu!getSREG(f) \in Byte /\ Alu!updateSREGCache(g, Alu!getSREG(f)) = f
<1> DEFINE x == Alu!getSREG(f)
           h == Alu!updateSREGCache(g, Alu!getSREG(f))
<1>1. x \in Byte /\ HasBits(x, f.C, f.Z, f.N, f.V, f.S, f.H, f.T, FALSE)
  BY SregByte, OctetHasBits
<1>2. DOMAIN g = Names
  BY DEF Flagged
<1>3. h = [flag \in Names |-> Alu!Bit(x, Place(flag) - 1)]
  BY <1>2 DEF Alu!updateSREGCache, Place
<1> HIDE DEF x, h
<1>4. /\ (h.C <=> Alu!Bit(x, 0)) /\ (h.Z <=> Alu!Bit(x, 1)) /\ (h.N <=> Alu!Bit(x, 2))
      /\ (h.V <=> Alu!Bit(x, 3)) /\ (h.S <=> Alu!Bit(x, 4)) /\ (h.H <=> Alu!Bit(x, 5))
      /\ (h.T <=> Alu!Bit(x, 6))
  <2>1. \A flag \in Names : h[flag] = Alu!Bit(x, Place(flag) - 1)
    BY <1>3
  <2>2. /\ Place("C") - 1 = 0 /\ Place("Z") - 1 = 1 /\ Place("N") - 1 = 2 /\ Place("V") - 1 = 3
        /\ Place("S") - 1 = 4 /\ Place("H") - 1 = 5 /\ Place("T") - 1 = 6
    BY SregOrder
  <2> QED BY <2>1, <2>2, Zenon DEF Names
<1>5. \A flag \in Names : h[flag] \in BOOLEAN
  BY <1>3 DEF Alu!Bit
<1>6. /\ h.C = f.C /\ h.Z = f.Z /\ h.N = f.N /\ h.V = f.V
      /\ h.S = f.S /\ h.H = f.H /\ h.T = f.T
  BY <1>1, <1>4, <1>5 DEF HasBits, Alu!Flags, Names
<1>7. h = f
  BY <1>3, <1>6 DEF Names, Alu!Flags
<1> QED BY <1>1, <1>7 DEF x, h

LEMMA LogicBits ==
  ASSUME NEW x, NEW y, NEW f
  PROVE  /\ Alu!INST_AND(x, y, f).v =
              Octet(Alu!Bit(x, 0) /\ Alu!Bit(y, 0), Alu!Bit(x, 1) /\ Alu!Bit(y, 1),
                    Alu!Bit(x, 2) /\ Alu!Bit(y, 2), Alu!Bit(x, 3) /\ Alu!Bit(y, 3),
                    Alu!Bit(x, 4) /\ Alu!Bit(y, 4), Alu!Bit(x, 5) /\ Alu!Bit(y, 5),
                    Alu!Bit(x, 6) /\ Alu!Bit(y, 6), Alu!Bit(x, 7) /\ Alu!Bit(y, 7))
         /\ Alu!INST_OR(x, y, f).v =
              Octet(Alu!Bit(x, 0) \/ Alu!Bit(y, 0), Alu!Bit(x, 1) \/ Alu!Bit(y, 1),
                    Alu!Bit(x, 2) \/ Alu!Bit(y, 2), Alu!Bit(x, 3) \/ Alu!Bit(y, 3),
                    Alu!Bit(x, 4) \/ Alu!Bit(y, 4), Alu!Bit(x, 5) \/ Alu!Bit(y, 5),
                    Alu!Bit(x, 6) \/ Alu!Bit(y, 6), Alu!Bit(x, 7) \/ Alu!Bit(y, 7))
         /\ Alu!INST_EOR(x, y, f).v =
              Octet(Alu!Bit(x, 0) # Alu!Bit(y, 0), Alu!Bit(x, 1) # Alu!Bit(y, 1),
                    Alu!Bit(x, 2) # Alu!Bit(y, 2), Alu!Bit(x, 3) # Alu!Bit(y, 3),
                    Alu!Bit(x, 4) # Alu!Bit(y, 4), Alu!Bit(x, 5) # Alu!Bit(y, 5),
                    Alu!Bit(x, 6) # Alu!Bit(y, 6), Alu!Bit(x, 7) # Alu!Bit(y, 7))
BY DEF Alu!INST_AND, Alu!INST_OR, Alu!INST_EOR, Alu!Logic, Alu!FromBits, Alu!Out, Octet

LEMMA LogicDoes ==
  ASSUME NEW x, NEW y, NEW f
  PROVE  /\ Alu!INST_AND(x, y, f).v \in Byte /\ Alu!INST_OR(x, y, f).v \in Byte
         /\ Alu!INST_EOR(x, y, f).v \in Byte
         /\ \A i \in 0..7 :
              /\ (Alu!Bit(Alu!INST_AND(x, y, f).v, i) <=> (Alu!Bit(x, i) /\ Alu!Bit(y, i)))
              /\ (Alu!Bit(Alu!INST_OR(x, y, f).v, i) <=> (Alu!Bit(x, i) \/ Alu!Bit(y, i)))
              /\ (Alu!Bit(Alu!INST_EOR(x, y, f).v, i) <=> (Alu!Bit(x, i) # Alu!Bit(y, i)))
<1>1. \A i \in 0..7 : i = 0 \/ i = 1 \/ i = 2 \/ i = 3 \/ i = 4 \/ i = 5 \/ i = 6 \/ i = 7
  OBVIOUS
<1> DEFINE v == Alu!INST_AND(x, y, f).v
           w == Alu!INST_OR(x, y, f).v
           u == Alu!INST_EOR(x, y, f).v
<1>2. v \in Byte /\ \A i \in 0..7 : (Alu!Bit(v, i) <=> (Alu!Bit(x, i) /\ Alu!Bit(y, i)))
  <2> DEFINE c(i) == Alu!Bit(x, i) /\ Alu!Bit(y, i)
  <2>1. v = Octet(c(0), c(1), c(2), c(3), c(4), c(5), c(6), c(7))
    BY LogicBits
  <2> HIDE DEF v, c
  <2>2. v \in Byte /\ HasBits(v, c(0), c(1), c(2), c(3), c(4), c(5), c(6), c(7))
    BY <2>1, OctetHasBits
  <2>3. \A i \in 0..7 : (Alu!Bit(v, i) <=> c(i))
    BY <1>1, <2>2, Zenon DEF HasBits
  <2> QED BY <2>2, <2>3 DEF c
<1>3. w \in Byte /\ \A i \in 0..7 : (Alu!Bit(w, i) <=> (Alu!Bit(x, i) \/ Alu!Bit(y, i)))
  <2> DEFINE c(i) == Alu!Bit(x, i) \/ Alu!Bit(y, i)
  <2>1. w = Octet(c(0), c(1), c(2), c(3), c(4), c(5), c(6), c(7))
    BY LogicBits
  <2> HIDE DEF w, c
  <2>2. w \in Byte /\ HasBits(w, c(0), c(1), c(2), c(3), c(4), c(5), c(6), c(7))
    BY <2>1, OctetHasBits
  <2>3. \A i \in 0..7 : (Alu!Bit(w, i) <=> c(i))
    BY <1>1, <2>2, Zenon DEF HasBits
  <2> QED BY <2>2, <2>3 DEF c
<1>4. u \in Byte /\ \A i \in 0..7 : (Alu!Bit(u, i) <=> (Alu!Bit(x, i) # Alu!Bit(y, i)))
  <2> DEFINE c(i) == Alu!Bit(x, i) # Alu!Bit(y, i)
  <2>1. u = Octet(c(0), c(1), c(2), c(3), c(4), c(5), c(6), c(7))
    BY LogicBits
  <2> HIDE DEF u, c
  <2>2. u \in Byte /\ HasBits(u, c(0), c(1), c(2), c(3), c(4), c(5), c(6), c(7))
    BY <2>1, OctetHasBits
  <2>3. \A i \in 0..7 : (Alu!Bit(u, i) <=> c(i))
    BY <1>1, <2>2, Zenon DEF HasBits
  <2> QED BY <2>2, <2>3 DEF c
<1> QED BY <1>2, <1>3, <1>4, Zenon

LEMMA BitsDecide ==
  ASSUME NEW x \in Byte, NEW y \in Byte, \A i \in 0..7 : (Alu!Bit(x, i) <=> Alu!Bit(y, i))
  PROVE  x = y
<1>1. /\ 0 \in 0..7 /\ 1 \in 0..7 /\ 2 \in 0..7 /\ 3 \in 0..7
      /\ 4 \in 0..7 /\ 5 \in 0..7 /\ 6 \in 0..7 /\ 7 \in 0..7
  OBVIOUS
<1>2. HasBits(x, Alu!Bit(y, 0), Alu!Bit(y, 1), Alu!Bit(y, 2), Alu!Bit(y, 3),
              Alu!Bit(y, 4), Alu!Bit(y, 5), Alu!Bit(y, 6), Alu!Bit(y, 7))
  BY <1>1, Zenon DEF HasBits
<1>3. HasBits(y, Alu!Bit(y, 0), Alu!Bit(y, 1), Alu!Bit(y, 2), Alu!Bit(y, 3),
              Alu!Bit(y, 4), Alu!Bit(y, 5), Alu!Bit(y, 6), Alu!Bit(y, 7))
  BY Zenon DEF HasBits
<1>4. x = Octet(Alu!Bit(y, 0), Alu!Bit(y, 1), Alu!Bit(y, 2), Alu!Bit(y, 3),
                Alu!Bit(y, 4), Alu!Bit(y, 5), Alu!Bit(y, 6), Alu!Bit(y, 7))
  BY <1>2, ByteOfBits
<1>5. y = Octet(Alu!Bit(y, 0), Alu!Bit(y, 1), Alu!Bit(y, 2), Alu!Bit(y, 3),
                Alu!Bit(y, 4), Alu!Bit(y, 5), Alu!Bit(y, 6), Alu!Bit(y, 7))
  BY <1>3, ByteOfBits
<1> QED BY <1>4, <1>5, Zenon

LEMMA ZeroBits == 0 \in Byte /\ \A i \in 0..7 : ~Alu!Bit(0, i)
<1>1. \A i \in 0..7 : i = 0 \/ i = 1 \/ i = 2 \/ i = 3 \/ i = 4 \/ i = 5 \/ i = 6 \/ i = 7
  OBVIOUS
<1>2. /\ ~Alu!Bit(0, 0) /\ ~Alu!Bit(0, 1) /\ ~Alu!Bit(0, 2) /\ ~Alu!Bit(0, 3)
      /\ ~Alu!Bit(0, 4) /\ ~Alu!Bit(0, 5) /\ ~Alu!Bit(0, 6) /\ ~Alu!Bit(0, 7)
  BY BitsAre
<1> QED BY <1>1, <1>2 DEF Byte, Alu!Byte

LEMMA BitIsBoolean == \A x, i : Alu!Bit(x, i) \in BOOLEAN
BY DEF Alu!Bit

LEMMA OrZero ==
  ASSUME NEW x \in Byte, NEW y \in Byte, NEW f
  PROVE  Alu!INST_OR(x, y, f).v = 0 <=> (x = 0 /\ y = 0)
<1> DEFINE v == Alu!INST_OR(x, y, f).v
<1>1. v \in Byte /\ \A i \in 0..7 : (Alu!Bit(v, i) <=> (Alu!Bit(x, i) \/ Alu!Bit(y, i)))
  BY LogicDoes
<1> HIDE DEF v
<1>2. ASSUME v = 0 PROVE x = 0 /\ y = 0
  <2>1. \A i \in 0..7 : ~Alu!Bit(x, i) /\ ~Alu!Bit(y, i)
    BY <1>1, <1>2, ZeroBits, Zenon
  <2> QED BY <2>1, ZeroBits, BitsDecide
<1>3. ASSUME x = 0, y = 0 PROVE v = 0
  <2>1. \A i \in 0..7 : ~Alu!Bit(v, i)
    BY <1>1, <1>3, ZeroBits, Zenon
  <2> QED BY <1>1, <2>1, ZeroBits, BitsDecide
<1> QED BY <1>2, <1>3 DEF v

LEMMA EorZero ==
  ASSUME NEW x \in Byte, NEW y \in Byte, NEW f
  PROVE  Alu!INST_EOR(x, y, f).v = 0 <=> x = y
<1> DEFINE v == Alu!INST_EOR(x, y, f).v
<1>1. v \in Byte /\ \A i \in 0..7 : (Alu!Bit(v, i) <=> (Alu!Bit(x, i) # Alu!Bit(y, i)))
  BY LogicDoes
<1> HIDE DEF v
<1>2. ASSUME v = 0 PROVE x = y
  <2>1. \A i \in 0..7 : (Alu!Bit(x, i) <=> Alu!Bit(y, i))
    BY <1>1, <1>2, ZeroBits, BitIsBoolean
  <2> QED BY <2>1, BitsDecide
<1>3. ASSUME x = y PROVE v = 0
  <2>1. \A i \in 0..7 : ~Alu!Bit(v, i)
    BY <1>1, <1>3, BitIsBoolean
  <2> QED BY <1>1, <2>1, ZeroBits, BitsDecide
<1> QED BY <1>2, <1>3 DEF v

LEMMA ComplementBits ==
  ASSUME NEW x \in Byte
  PROVE  255 - x \in Byte /\ \A i \in 0..7 : (Alu!Bit(255 - x, i) <=> ~Alu!Bit(x, i))
<1>1. \A i \in 0..7 : i = 0 \/ i = 1 \/ i = 2 \/ i = 3 \/ i = 4 \/ i = 5 \/ i = 6 \/ i = 7
  OBVIOUS
<1>2. x \in 0..255 /\ 255 - x \in Int /\ 255 - x \in Byte /\ x \in Int
  BY DEF Byte, Alu!Byte
<1>3. /\ ((255 - x) % 2 = 1 <=> ~(x % 2 = 1))
      /\ (((255 - x) \div 2) % 2 = 1 <=> ~((x \div 2) % 2 = 1))
      /\ (((255 - x) \div 4) % 2 = 1 <=> ~((x \div 4) % 2 = 1))
      /\ (((255 - x) \div 8) % 2 = 1 <=> ~((x \div 8) % 2 = 1))
      /\ (((255 - x) \div 16) % 2 = 1 <=> ~((x \div 16) % 2 = 1))
      /\ (((255 - x) \div 32) % 2 = 1 <=> ~((x \div 32) % 2 = 1))
      /\ (((255 - x) \div 64) % 2 = 1 <=> ~((x \div 64) % 2 = 1))
      /\ (((255 - x) \div 128) % 2 = 1 <=> ~((x \div 128) % 2 = 1))
  BY <1>2, SMTT(60)
<1>4. /\ (Alu!Bit(255 - x, 0) <=> ~Alu!Bit(x, 0)) /\ (Alu!Bit(255 - x, 1) <=> ~Alu!Bit(x, 1))
      /\ (Alu!Bit(255 - x, 2) <=> ~Alu!Bit(x, 2)) /\ (Alu!Bit(255 - x, 3) <=> ~Alu!Bit(x, 3))
      /\ (Alu!Bit(255 - x, 4) <=> ~Alu!Bit(x, 4)) /\ (Alu!Bit(255 - x, 5) <=> ~Alu!Bit(x, 5))
      /\ (Alu!Bit(255 - x, 6) <=> ~Alu!Bit(x, 6)) /\ (Alu!Bit(255 - x, 7) <=> ~Alu!Bit(x, 7))
  BY <1>2, <1>3, BitsAre
<1> QED BY <1>1, <1>2, <1>4
-----------------------------------------------------------------------------
\* What the instructions of the bit sequences return

\* The byte of a right shift; C is the bit that fell out, T stays
LEMMA ShiftDoes ==
  ASSUME NEW f, Flagged(f), NEW d \in Byte, NEW res, NEW out, out = Alu!Shifted(d, res, f)
  PROVE  /\ out.v = res /\ (out.f.C <=> (d % 2 = 1)) /\ out.f.C \in BOOLEAN
         /\ out.f.T = f.T
<1> DEFINE C == d % 2 = 1
           N == Alu!Top(res)
           V == N # C
           S == N # (N # C)
           Z == res = 0
<1>1. out.v = res /\ out.f = [f EXCEPT !.C = C, !.N = N, !.V = V, !.S = S, !.Z = Z]
  BY DEF Alu!Shifted, Alu!Out
<1>2. C \in BOOLEAN
  OBVIOUS
<1> HIDE DEF C, N, V, S, Z
<1>3. out.f.C = C /\ out.f.T = f.T
  BY <1>1 DEF Flagged, Names
<1> QED BY <1>1, <1>2, <1>3 DEF C

\* The byte of NEG, and its carry: there was something to negate
LEMMA NegDoes ==
  ASSUME NEW f, Flagged(f), NEW d \in Byte, NEW out, out = Alu!INST_NEG(d, f)
  PROVE  out.v = (0 - d) % 256 /\ out.v \in Byte /\ (out.f.C <=> d # 0)
<1> DEFINE res == (0 - d) % 256
           H == d % 16 # 0
           V == res = 128
           S == Alu!Top(res) # V
           C == res # 0
           base == Alu!setFlags_NZ(f, (0 - d) % 256)
<1>1. out.v = res /\ out.f = [base EXCEPT !.H = H, !.V = V, !.S = S, !.C = C]
  BY DEF Alu!INST_NEG, Alu!Out
<1>2. Flagged(base)
  BY KeepsNZ
<1>3. res \in Byte /\ (C <=> d # 0)
  BY DEF Byte, Alu!Byte
<1> HIDE DEF res, H, V, S, C, base
<1>4. out.f.C = C
  BY <1>1, <1>2 DEF Flagged, Names
<1> QED BY <1>1, <1>3, <1>4 DEF res

\* OR sets Z when both bytes are zero
LEMMA OrDoes ==
  ASSUME NEW f, Flagged(f), NEW x \in Byte, NEW y \in Byte, NEW out, out = Alu!INST_OR(x, y, f)
  PROVE  (out.f.Z <=> (x = 0 /\ y = 0)) /\ out.f.Z \in BOOLEAN
<1> DEFINE N == out.v >= 128
           Z == out.v = 0
           S == Alu!Top(out.v)
<1>1. out.f = [[f EXCEPT !.N = N, !.Z = Z] EXCEPT !.V = FALSE, !.S = S]
  BY DEF Alu!INST_OR, Alu!Logic, Alu!setFlags_SVNZ, Alu!setFlags_NZ, Alu!Out
<1>2. Z \in BOOLEAN /\ (Z <=> (x = 0 /\ y = 0))
  BY OrZero
<1> HIDE DEF N, Z, S
<1>3. out.f.Z = Z
  BY <1>1 DEF Flagged, Names
<1> QED BY <1>2, <1>3

\* BLD puts T on top of a byte that has no bit there
LEMMA BldDoes ==
  ASSUME NEW x \in Byte, x < 128, NEW f, NEW t, (f.T <=> t)
  PROVE  Alu!INST_BLD(x, 7, f).v = x + 128 * Alu!Num(t)
<1> DEFINE b(i) == Alu!Bit(x, i)
           n(p) == Alu!Num(p)
<1>1. Alu!INST_BLD(x, 7, f).v = Octet(b(0), b(1), b(2), b(3), b(4), b(5), b(6), f.T)
  BY DEF Alu!INST_BLD, Alu!FromBits, Alu!Out, Octet
<1>2. x = Octet(b(0), b(1), b(2), b(3), b(4), b(5), b(6), b(7))
  <2>1. HasBits(x, b(0), b(1), b(2), b(3), b(4), b(5), b(6), b(7))
    BY Zenon DEF HasBits
  <2> HIDE DEF b
  <2> QED BY <2>1, ByteOfBits
<1>3. ~b(7)
  BY BitsAre DEF Byte, Alu!Byte
<1>4. n(b(7)) = 0 /\ n(f.T) = n(t)
  BY <1>3, Carry
<1>5. \A p : n(p) \in Int
  BY Carry
<1> HIDE DEF b, n
<1> QED BY <1>1, <1>2, <1>4, <1>5 DEF Octet, n

\* The bits of a byte are those of its nibbles
LEMMA NibbleBits ==
  ASSUME NEW h \in 0..15, NEW l \in 0..15
  PROVE  /\ 16 * h + l \in Byte /\ 16 * h \in Byte
         /\ \A i \in 0..7 :
              /\ Alu!Bit(16 * h + l, i) <=> IF i < 4 THEN Alu!Bit(l, i) ELSE Alu!Bit(16 * h, i)
              /\ (i < 4 => ~Alu!Bit(16 * h, i)) /\ (i >= 4 => ~Alu!Bit(l, i))
<1>1. \A i \in 0..7 : i = 0 \/ i = 1 \/ i = 2 \/ i = 3 \/ i = 4 \/ i = 5 \/ i = 6 \/ i = 7
  OBVIOUS
<1>2. 16 * h + l \in Int /\ 16 * h \in Int /\ l \in Int
  OBVIOUS
<1>3. /\ (16 * h + l) % 2 = l % 2 /\ ((16 * h + l) \div 2) % 2 = (l \div 2) % 2
      /\ ((16 * h + l) \div 4) % 2 = (l \div 4) % 2 /\ ((16 * h + l) \div 8) % 2 = (l \div 8) % 2
      /\ ((16 * h + l) \div 16) % 2 = ((16 * h) \div 16) % 2
      /\ ((16 * h + l) \div 32) % 2 = ((16 * h) \div 32) % 2
      /\ ((16 * h + l) \div 64) % 2 = ((16 * h) \div 64) % 2
      /\ ((16 * h + l) \div 128) % 2 = ((16 * h) \div 128) % 2
  OBVIOUS
<1>4. /\ (16 * h) % 2 = 0 /\ ((16 * h) \div 2) % 2 = 0 /\ ((16 * h) \div 4) % 2 = 0
      /\ ((16 * h) \div 8) % 2 = 0
      /\ (l \div 16) % 2 = 0 /\ (l \div 32) % 2 = 0 /\ (l \div 64) % 2 = 0 /\ (l \div 128) % 2 = 0
  OBVIOUS
<1> DEFINE w == 16 * h + l
           k == 16 * h
<1> HIDE DEF w, k
<1>5. /\ (Alu!Bit(w, 0) <=> Alu!Bit(l, 0)) /\ (Alu!Bit(w, 1) <=> Alu!Bit(l, 1))
      /\ (Alu!Bit(w, 2) <=> Alu!Bit(l, 2)) /\ (Alu!Bit(w, 3) <=> Alu!Bit(l, 3))
      /\ (Alu!Bit(w, 4) <=> Alu!Bit(k, 4)) /\ (Alu!Bit(w, 5) <=> Alu!Bit(k, 5))
      /\ (Alu!Bit(w, 6) <=> Alu!Bit(k, 6)) /\ (Alu!Bit(w, 7) <=> Alu!Bit(k, 7))
  BY <1>2, <1>3, BitsAre DEF w, k
<1>6. /\ ~Alu!Bit(k, 0) /\ ~Alu!Bit(k, 1) /\ ~Alu!Bit(k, 2) /\ ~Alu!Bit(k, 3)
      /\ ~Alu!Bit(l, 4) /\ ~Alu!Bit(l, 5) /\ ~Alu!Bit(l, 6) /\ ~Alu!Bit(l, 7)
  BY <1>2, <1>4, BitsAre DEF k
<1>7. 16 * h + l \in Byte /\ 16 * h \in Byte
  BY DEF Byte, Alu!Byte
<1>8. ASSUME NEW i \in 0..7
      PROVE  /\ Alu!Bit(w, i) <=> IF i < 4 THEN Alu!Bit(l, i) ELSE Alu!Bit(k, i)
             /\ (i < 4 => ~Alu!Bit(k, i)) /\ (i >= 4 => ~Alu!Bit(l, i))
  BY <1>1, <1>5, <1>6
<1> QED BY <1>7, <1>8 DEF w, k

\* A byte has two nibbles
LEMMA Nibbles ==
  ASSUME NEW x \in Byte
  PROVE  /\ x \div 16 \in 0..15 /\ x % 16 \in 0..15
         /\ x = 16 * (x \div 16) + (x % 16)
<1>1. x \in 0..255
  BY DEF Byte, Alu!Byte
<1>2. x \div 16 \in Int /\ x \div 16 >= 0 /\ x \div 16 <= 15
  BY <1>1
<1>3. x % 16 \in 0..15
  BY <1>1
<1>4. x = 16 * (x \div 16) + (x % 16)
  BY <1>1
<1> QED BY <1>2, <1>3, <1>4

\* A mask of the high nibble, and two exclusive ors that cancel out
LEMMA HighNibble ==
  ASSUME NEW h \in 0..15, NEW l \in 0..15, NEW f
  PROVE  Alu!INST_ANDI(16 * h + l, 240, f).v = 16 * h
<1> DEFINE v == Alu!INST_ANDI(16 * h + l, 240, f).v
<1>1. /\ v \in Byte
      /\ \A i \in 0..7 : (Alu!Bit(v, i) <=> (Alu!Bit(16 * h + l, i) /\ Alu!Bit(240, i)))
  BY LogicDoes DEF Alu!INST_ANDI
<1>2. \A i \in 0..7 : (Alu!Bit(240, i) <=> i >= 4)
  <2>1. \A i \in 0..7 : i = 0 \/ i = 1 \/ i = 2 \/ i = 3 \/ i = 4 \/ i = 5 \/ i = 6 \/ i = 7
    OBVIOUS
  <2>2. /\ ~Alu!Bit(240, 0) /\ ~Alu!Bit(240, 1) /\ ~Alu!Bit(240, 2) /\ ~Alu!Bit(240, 3)
        /\ Alu!Bit(240, 4) /\ Alu!Bit(240, 5) /\ Alu!Bit(240, 6) /\ Alu!Bit(240, 7)
    BY BitsAre
  <2> QED BY <2>1, <2>2
<1> HIDE DEF v
<1>3. \A i \in 0..7 : (Alu!Bit(v, i) <=> Alu!Bit(16 * h, i))
  BY <1>1, <1>2, NibbleBits
<1>4. 16 * h \in Byte
  BY NibbleBits
<1>5. v = 16 * h
  BY <1>1, <1>3, <1>4, BitsDecide, Zenon
<1> QED BY <1>5 DEF v

Nibble == 0..15
Crossed(v, x, y) == \A i \in 0..7 : (Alu!Bit(v, i) <=> (Alu!Bit(x, i) # Alu!Bit(y, i)))

LEMMA Cancelled ==
  ASSUME NEW s \in Nibble, NEW q \in Nibble, NEW p \in Nibble, NEW f,
         NEW v, Crossed(v, 16 * s, 16 * q + p)
  PROVE  Alu!INST_EOR(v, 16 * q, f).v = 16 * s + p
<1> DEFINE u == Alu!INST_EOR(v, 16 * q, f).v
<1>1. u \in Byte /\ \A i \in 0..7 : (Alu!Bit(u, i) <=> (Alu!Bit(v, i) # Alu!Bit(16 * q, i)))
  BY LogicDoes
<1> HIDE DEF u
<1>2. /\ 16 * s + p \in Byte
      /\ \A i \in 0..7 : /\ Alu!Bit(16 * s + p, i) <=> IF i < 4 THEN Alu!Bit(p, i) ELSE Alu!Bit(16 * s, i)
                         /\ (i < 4 => ~Alu!Bit(16 * s, i))
  BY NibbleBits DEF Nibble
<1>3. \A i \in 0..7 : /\ Alu!Bit(16 * q + p, i) <=> IF i < 4 THEN Alu!Bit(p, i) ELSE Alu!Bit(16 * q, i)
                      /\ (i < 4 => ~Alu!Bit(16 * q, i))
  BY NibbleBits DEF Nibble
<1>4. ASSUME NEW i \in 0..7 PROVE Alu!Bit(u, i) <=> Alu!Bit(16 * s + p, i)
  <2> DEFINE bu == Alu!Bit(u, i)
             bv == Alu!Bit(v, i)
             bq == Alu!Bit(16 * q, i)
             bp == Alu!Bit(p, i)
             bs == Alu!Bit(16 * s, i)
             bm == Alu!Bit(16 * q + p, i)
             br == Alu!Bit(16 * s + p, i)
  <2>1. /\ bu \in BOOLEAN /\ bv \in BOOLEAN /\ bq \in BOOLEAN /\ bp \in BOOLEAN
        /\ bs \in BOOLEAN /\ bm \in BOOLEAN /\ br \in BOOLEAN
    BY BitIsBoolean
  <2>2. (bu <=> (bv # bq)) /\ (bv <=> (bs # bm))
    BY <1>1 DEF Crossed
  <2>3. i < 4 => (bm <=> bp) /\ (br <=> bp) /\ ~bq /\ ~bs
    BY <1>2, <1>3
  <2>4. ~(i < 4) => (bm <=> bq) /\ (br <=> bs)
    BY <1>2, <1>3
  <2> HIDE DEF bu, bv, bq, bp, bs, bm, br
  <2>5. bu <=> br
    BY <2>1, <2>2, <2>3, <2>4
  <2> QED BY <2>5 DEF bu, br
<1> QED BY <1>1, <1>2, <1>4, BitsDecide DEF u

\* A byte halved, as a number and as a signed one
LEMMA HalfByteIn ==
  ASSUME NEW h \in Byte
  PROVE  /\ h \div 2 \in Byte /\ h \div 2 < 128 /\ h % 2 \in 0..1
         /\ (Alu!Signed(h) \div 2) % 256 \in Byte
         /\ (Alu!Signed(h) \div 2) % 256 = (h \div 2) + IF h >= 128 THEN 128 ELSE 0
<1>1. h \in 0..255
  BY DEF Byte, Alu!Byte
<1>2. h \div 2 \in Byte /\ h \div 2 < 128 /\ h % 2 \in 0..1
  BY <1>1 DEF Byte, Alu!Byte
<1>3. (Alu!Signed(h) \div 2) % 256 = (h \div 2) + IF h >= 128 THEN 128 ELSE 0
  BY <1>1 DEF Alu!Signed
<1>4. (Alu!Signed(h) \div 2) % 256 \in Byte
  BY <1>1, <1>3 DEF Byte, Alu!Byte
<1> QED BY <1>2, <1>3, <1>4

\* A word halved from its bytes
LEMMA HalfWord ==
  ASSUME NEW h \in Byte, NEW l \in Byte
  PROVE  LET low == l \div 2 + 128 * (h % 2)
         IN  /\ low \in Byte /\ h \div 2 \in Byte /\ (Alu!Signed(h) \div 2) % 256 \in Byte
             /\ h \div 2 < 128 /\ h % 2 \in 0..1
             /\ Alu!Word(h \div 2, low) = Alu!Word(h, l) \div 2
             /\ Alu!Word((Alu!Signed(h) \div 2) % 256, low)
                  = (Alu!SignedWord(Alu!Word(h, l)) \div 2) % 65536
             /\ (Alu!Signed(h) \div 2) % 256 = h \div 2 + IF h >= 128 THEN 128 ELSE 0
             /\ Alu!Word(h, l) % 2 = l % 2
<1>1. h \in 0..255 /\ l \in 0..255
  BY DEF Byte, Alu!Byte
<1> DEFINE low == l \div 2 + 128 * (h % 2)
           top == (Alu!Signed(h) \div 2) % 256
<1>2. low \in Byte /\ h \div 2 \in Byte /\ h \div 2 < 128 /\ h % 2 \in 0..1
  BY <1>1 DEF Byte, Alu!Byte
<1>3. Alu!Word(h \div 2, low) = Alu!Word(h, l) \div 2 /\ Alu!Word(h, l) % 2 = l % 2
  BY <1>1 DEF Alu!Word
<1>4. top = h \div 2 + IF h >= 128 THEN 128 ELSE 0
  BY <1>1 DEF Alu!Signed
<1>5. top \in Byte
  BY <1>1, <1>4 DEF Byte, Alu!Byte
<1>6. Alu!Word(top, low) = (Alu!SignedWord(Alu!Word(h, l)) \div 2) % 65536
  <2> DEFINE whole == 256 * h + l
  <2>1. whole \in Nat /\ whole <= 65535 /\ Alu!Word(h, l) = whole
    BY <1>1 DEF Alu!Word
  <2>2. 256 * (h \div 2) + low = whole \div 2
    BY <1>1
  <2>3. Alu!Word(top, low) = whole \div 2 + IF h >= 128 THEN 32768 ELSE 0
    <3> HIDE DEF low
    <3> QED BY <1>1, <1>2, <1>4, <2>2 DEF Alu!Word, Byte, Alu!Byte
  <2>4. h >= 128 <=> whole >= 32768
    BY <1>1
  <2> HIDE DEF whole, low, top
  <2>5. (IF whole >= 32768 THEN whole - 65536 ELSE whole) \div 2
          = IF whole >= 32768 THEN whole \div 2 - 32768 ELSE whole \div 2
    BY <2>1
  <2>6. (IF whole >= 32768 THEN whole \div 2 - 32768 ELSE whole \div 2) % 65536
          = whole \div 2 + IF whole >= 32768 THEN 32768 ELSE 0
    BY <2>1
  <2> QED BY <2>1, <2>3, <2>4, <2>5, <2>6 DEF Alu!SignedWord
<1> QED BY <1>2, <1>3, <1>4, <1>5, <1>6
-----------------------------------------------------------------------------
\* The sequences that work on bits, and the step of each instruction

LEMMA RunsBits ==
  ASSUME Alu!Arithmetic \/ Alu!LogicAndBits, NEW op, op = Alu!Current[1]
  PROVE  /\ (op = "AND" => Result(Alu!INST_AND(R[Alu!Current[2]], Source, sreg)))
         /\ (op = "ANDI" => Result(Alu!INST_ANDI(R[Alu!Current[2]], Source, sreg)))
         /\ (op = "OR" => Result(Alu!INST_OR(R[Alu!Current[2]], Source, sreg)))
         /\ (op = "ORI" => Result(Alu!INST_ORI(R[Alu!Current[2]], Source, sreg)))
         /\ (op = "EOR" => Result(Alu!INST_EOR(R[Alu!Current[2]], Source, sreg)))
         /\ (op = "COM" => Result(Alu!INST_COM(R[Alu!Current[2]], sreg)))
         /\ (op = "NEG" => Result(Alu!INST_NEG(R[Alu!Current[2]], sreg)))
         /\ (op = "LSR" => Result(Alu!INST_LSR(R[Alu!Current[2]], sreg)))
         /\ (op = "ROR" => Result(Alu!INST_ROR(R[Alu!Current[2]], sreg)))
         /\ (op = "ASR" => Result(Alu!INST_ASR(R[Alu!Current[2]], sreg)))
         /\ (op = "SWAP" => Result(Alu!INST_SWAP(R[Alu!Current[2]], sreg)))
         /\ (op = "BST" => Result(Alu!INST_BST(R[Alu!Current[2]], 7, sreg)))
         /\ (op = "BLD" => Result(Alu!INST_BLD(R[Alu!Current[2]], 7, sreg)))
         /\ (op \in {"BSET", "BCLR"} => Stored(Alu!Current[2], R[Alu!Current[2]]))
         /\ (op = "IN" => Stored(Alu!Current[2], Alu!getSREG(sreg)) /\ sreg' = sreg)
         /\ (op = "OUT" => /\ Stored(Alu!Current[2], R[Alu!Current[2]])
                           /\ sreg' = Alu!updateSREGCache(sreg, R[Alu!Current[2]]))
<1>1. ASSUME op = "AND" PROVE Result(Alu!INST_AND(R[Alu!Current[2]], Source, sreg))
  BY <1>1 DEF Alu!Arithmetic, Alu!LogicAndBits, Alu!Byte1, Alu!Byte2, Alu!Wide, Alu!Multiply, Alu!INST_MOVW,
     Result, Stored, Source
<1>2. ASSUME op = "ANDI" PROVE Result(Alu!INST_ANDI(R[Alu!Current[2]], Source, sreg))
  BY <1>2 DEF Alu!Arithmetic, Alu!LogicAndBits, Alu!Byte1, Alu!Byte2, Alu!Wide, Alu!Multiply, Alu!INST_MOVW,
     Result, Stored, Source
<1>3. ASSUME op = "OR" PROVE Result(Alu!INST_OR(R[Alu!Current[2]], Source, sreg))
  BY <1>3 DEF Alu!Arithmetic, Alu!LogicAndBits, Alu!Byte1, Alu!Byte2, Alu!Wide, Alu!Multiply, Alu!INST_MOVW,
     Result, Stored, Source
<1>4. ASSUME op = "ORI" PROVE Result(Alu!INST_ORI(R[Alu!Current[2]], Source, sreg))
  BY <1>4 DEF Alu!Arithmetic, Alu!LogicAndBits, Alu!Byte1, Alu!Byte2, Alu!Wide, Alu!Multiply, Alu!INST_MOVW,
     Result, Stored, Source
<1>5. ASSUME op = "EOR" PROVE Result(Alu!INST_EOR(R[Alu!Current[2]], Source, sreg))
  BY <1>5 DEF Alu!Arithmetic, Alu!LogicAndBits, Alu!Byte1, Alu!Byte2, Alu!Wide, Alu!Multiply, Alu!INST_MOVW,
     Result, Stored, Source
<1>6. ASSUME op = "COM" PROVE Result(Alu!INST_COM(R[Alu!Current[2]], sreg))
  BY <1>6 DEF Alu!Arithmetic, Alu!LogicAndBits, Alu!Byte1, Alu!Byte2, Alu!Wide, Alu!Multiply, Alu!INST_MOVW,
     Result, Stored, Source
<1>7. ASSUME op = "NEG" PROVE Result(Alu!INST_NEG(R[Alu!Current[2]], sreg))
  BY <1>7 DEF Alu!Arithmetic, Alu!LogicAndBits, Alu!Byte1, Alu!Byte2, Alu!Wide, Alu!Multiply, Alu!INST_MOVW,
     Result, Stored, Source
<1>8. ASSUME op = "LSR" PROVE Result(Alu!INST_LSR(R[Alu!Current[2]], sreg))
  BY <1>8 DEF Alu!Arithmetic, Alu!LogicAndBits, Alu!Byte1, Alu!Byte2, Alu!Wide, Alu!Multiply, Alu!INST_MOVW,
     Result, Stored, Source
<1>9. ASSUME op = "ROR" PROVE Result(Alu!INST_ROR(R[Alu!Current[2]], sreg))
  BY <1>9 DEF Alu!Arithmetic, Alu!LogicAndBits, Alu!Byte1, Alu!Byte2, Alu!Wide, Alu!Multiply, Alu!INST_MOVW,
     Result, Stored, Source
<1>10. ASSUME op = "ASR" PROVE Result(Alu!INST_ASR(R[Alu!Current[2]], sreg))
  BY <1>10 DEF Alu!Arithmetic, Alu!LogicAndBits, Alu!Byte1, Alu!Byte2, Alu!Wide, Alu!Multiply, Alu!INST_MOVW,
     Result, Stored, Source
<1>11. ASSUME op = "SWAP" PROVE Result(Alu!INST_SWAP(R[Alu!Current[2]], sreg))
  BY <1>11 DEF Alu!Arithmetic, Alu!LogicAndBits, Alu!Byte1, Alu!Byte2, Alu!Wide, Alu!Multiply, Alu!INST_MOVW,
     Result, Stored, Source
<1>12. ASSUME op = "BST" PROVE Result(Alu!INST_BST(R[Alu!Current[2]], 7, sreg))
  BY <1>12 DEF Alu!Arithmetic, Alu!LogicAndBits, Alu!Byte1, Alu!Byte2, Alu!Wide, Alu!Multiply, Alu!INST_MOVW,
     Result, Stored, Source
<1>13. ASSUME op = "BLD" PROVE Result(Alu!INST_BLD(R[Alu!Current[2]], 7, sreg))
  BY <1>13 DEF Alu!Arithmetic, Alu!LogicAndBits, Alu!Byte1, Alu!Byte2, Alu!Wide, Alu!Multiply, Alu!INST_MOVW,
     Result, Stored, Source
<1>14. ASSUME op \in {"BSET", "BCLR"} PROVE Stored(Alu!Current[2], R[Alu!Current[2]])
  BY <1>14 DEF Alu!Arithmetic, Alu!LogicAndBits, Alu!Byte1, Alu!Byte2, Alu!Wide, Alu!Multiply, Alu!INST_MOVW,
     Stored, Alu!Out
<1>15. ASSUME op = "IN" PROVE Stored(Alu!Current[2], Alu!getSREG(sreg)) /\ sreg' = sreg
  BY <1>15 DEF Alu!Arithmetic, Alu!LogicAndBits, Alu!Byte1, Alu!Byte2, Alu!Wide, Alu!Multiply, Alu!INST_MOVW,
     Stored, Alu!Out
<1>16. ASSUME op = "OUT"
       PROVE  /\ Stored(Alu!Current[2], R[Alu!Current[2]])
              /\ sreg' = Alu!updateSREGCache(sreg, R[Alu!Current[2]])
  BY <1>16 DEF Alu!Arithmetic, Alu!LogicAndBits, Alu!Byte1, Alu!Byte2, Alu!Wide, Alu!Multiply, Alu!INST_MOVW,
     Stored, Alu!Out
<1> QED BY <1>1, <1>2, <1>3, <1>4, <1>5, <1>6, <1>7, <1>8, <1>9, <1>10, <1>11, <1>12, <1>13,
           <1>14, <1>15, <1>16

LEMMA TheBitSequences ==
  /\ Alu!Programs["neg"] = << <<"COM", "ah", "-">>, <<"NEG", "al", "-">>, <<"SBCI", "ah", "FF">> >>
  /\ Alu!Programs["test"] = << <<"OR", "al", "ah">> >>
  /\ Alu!Programs["same"] = << <<"EOR", "al", "bl">>, <<"EOR", "ah", "bh">>, <<"OR", "al", "ah">> >>
  /\ Alu!Programs["not"] = << <<"COM", "al", "-">>, <<"COM", "ah", "-">>, <<"AND", "al", "bl">>,
                              <<"ORI", "ah", "bh">> >>
  /\ Alu!Programs["lsr"] = << <<"LSR", "ah", "-">>, <<"ROR", "al", "-">> >>
  /\ Alu!Programs["asr"] = << <<"ASR", "ah", "-">>, <<"ROR", "al", "-">> >>
  /\ Alu!Programs["asrt"] = << <<"BST", "ah", "7">>, <<"LSR", "ah", "-">>, <<"ROR", "al", "-">>,
                               <<"BLD", "ah", "7">> >>
  /\ Alu!Programs["shl4"] = << <<"SWAP", "ah", "-">>, <<"SWAP", "al", "-">>, <<"ANDI", "ah", "F0">>,
                               <<"EOR", "ah", "al">>, <<"ANDI", "al", "F0">>, <<"EOR", "ah", "al">> >>
  /\ Alu!Programs["isr"] = << <<"IN", "n", "SREG">>, <<"ADD", "al", "bl">>, <<"BSET", "n", "T">>,
                              <<"BCLR", "n", "Z">>, <<"OUT", "n", "SREG">> >>
BY DEF Alu!Programs

\* One register changes
LEMMA StoredByte ==
  ASSUME Registers, R0' = R0, NEW r \in Alu!Regs, NEW v \in Byte, Stored(r, v)
  PROVE  Registers' /\ R'[r] = v /\ \A q \in Alu!Regs : q # r => R'[q] = R[q]
BY DEF Registers, Stored

WordBits == {"neg", "lsr", "asr", "asrt", "test", "same", "not", "shl4", "isr"}

AtNeg == program = "neg" =>
  /\ pc \in 1..4
  /\ (pc = 2 => R.ah = 255 - R0.ah /\ R.al = R0.al)
  /\ (pc = 3 => R.ah = 255 - R0.ah /\ R.al = (0 - R0.al) % 256 /\ (sreg.C <=> R0.al # 0))
  /\ (pc = 4 => Alu!A1 = (-Alu!A0) % 65536)

\* The high byte is shifted, its lost bit is in C; the word is
Halved(h) == R.ah = h /\ R.al = R0.al /\ (sreg.C <=> R0.ah % 2 = 1)
RightDone(w) == Alu!A1 = w /\ sreg.C = (Alu!A0 % 2 = 1)
HalfByte(p) == IF p = "lsr" THEN R0.ah \div 2 ELSE (Alu!Signed(R0.ah) \div 2) % 256
HalfOf(p) == IF p = "lsr" THEN Alu!A0 \div 2 ELSE (Alu!SignedWord(Alu!A0) \div 2) % 65536
AtRight == program \in {"lsr", "asr"} =>
  /\ pc \in 1..3
  /\ (pc = 2 => Halved(HalfByte(program))) /\ (pc = 3 => RightDone(HalfOf(program)))
AtSigned == program = "asrt" =>
  /\ pc \in 1..5
  /\ (pc \in 2..4 => (sreg.T <=> R0.ah >= 128))
  /\ (pc = 2 => R.ah = R0.ah /\ R.al = R0.al) /\ (pc = 3 => Halved(HalfByte("lsr")))
  /\ (pc = 4 => R.ah = R0.ah \div 2 /\ RightDone(HalfOf("lsr")))
  /\ (pc = 5 => RightDone(HalfOf("asrt")))

AtTest == program = "test" => pc \in 1..2 /\ (pc = 2 => sreg.Z = (Alu!A0 = 0))
AtSame == program = "same" =>
  /\ pc \in 1..4
  /\ (pc \in 2..3 => (R.al = 0 <=> R0.al = R0.bl))
  /\ (pc = 2 => R.ah = R0.ah /\ R.bh = R0.bh)
  /\ (pc = 3 => (R.ah = 0 <=> R0.ah = R0.bh))
  /\ (pc = 4 => sreg.Z = (Alu!A0 = Alu!B0))

LowAnd == \A i \in 0..7 : Alu!Bit(R.al, i) = (~Alu!Bit(R0.al, i) /\ Alu!Bit(R0.bl, i))
HighOr == \A i \in 0..7 : Alu!Bit(R.ah, i) = (~Alu!Bit(R0.ah, i) \/ Alu!Bit(R0.bh, i))
AtNot == program = "not" =>
  /\ pc \in 1..5
  /\ (pc \in 2..4 => R.bh = R0.bh) /\ (pc \in 2..3 => R.bl = R0.bl)
  /\ (pc \in 2..3 => R.al = 255 - R0.al) /\ (pc = 2 => R.ah = R0.ah)
  /\ (pc \in 3..4 => R.ah = 255 - R0.ah)
  /\ (pc \in 4..5 => LowAnd) /\ (pc = 5 => HighOr)

\* The nibbles of a pair: r s in the high byte, p q in the low one
P0 == R0.al \div 16
Q0 == R0.al % 16
S0 == R0.ah % 16
AtShl4 == program = "shl4" =>
  /\ pc \in 1..7
  /\ (pc \in 2..3 => R.ah = 16 * S0 + (R0.ah \div 16)) /\ (pc = 2 => R.al = R0.al)
  /\ (pc \in 3..5 => R.al = 16 * Q0 + P0) /\ (pc = 4 => R.ah = 16 * S0)
  /\ (pc \in 5..6 => Crossed(R.ah, 16 * S0, 16 * Q0 + P0)) /\ (pc = 6 => R.al = 16 * Q0)
  /\ (pc = 7 => Alu!A1 = (16 * Alu!A0) % 65536)

AtIsr == program = "isr" =>
  /\ pc \in 1..6 /\ sreg0 \in Alu!Flags
  /\ (pc \in 2..5 => R.n = Alu!getSREG(sreg0)) /\ (pc \in {1, 6} => sreg = sreg0)

\* What each of these sequences has computed at each of its instructions
BitInv == /\ program \in WordBits => Registers /\ (pc = 1 => R = R0)
          /\ AtNeg /\ AtRight /\ AtSigned /\ AtTest /\ AtSame /\ AtNot /\ AtShl4 /\ AtIsr

LEMMA StepNeg ==
  ASSUME Flagged(sreg), BitInv, Alu!Step, program = "neg"
  PROVE  Registers' /\ AtNeg' /\ pc' # 1
<1>1. /\ program' = "neg" /\ R0' = R0 /\ pc' = pc + 1 /\ ~(pc > Len(Alu!Programs["neg"]))
      /\ Alu!Arithmetic \/ Alu!LogicAndBits
  BY Stepping
<1>2. Registers /\ (pc = 1 => R = R0) /\ pc \in 1..4
  BY DEF BitInv, AtNeg, WordBits
<1>3. pc \in 1..3 /\ pc' # 1 /\ pc' \in 1..4
  BY <1>1, <1>2, TheBitSequences
<1>4. /\ R.ah \in Byte /\ R.al \in Byte /\ R.bh \in Byte /\ R.bl \in Byte /\ R.n \in Byte
      /\ R0.ah \in Byte /\ R0.al \in Byte /\ R0.bh \in Byte /\ R0.bl \in Byte
      /\ {"ah", "al", "bh", "bl", "n"} \subseteq Alu!Regs
  BY <1>2 DEF Registers, Alu!Regs
<1>5. CASE pc = 1
  <2>1. Alu!Current = <<"COM", "ah", "-">>
    BY <1>1, <1>5, TheBitSequences DEF Alu!Current
  <2> DEFINE out == Alu!INST_COM(R["ah"], sreg)
  <2>3. Stored("ah", out.v) /\ sreg' = out.f
    <3>1. Result(out)
      BY <1>1, <2>1, RunsBits
    <3> QED BY <2>1, <3>1 DEF Result
  <2> HIDE DEF out
  <2>4. out.v = 255 - R.ah /\ out.v \in Byte
    BY <1>4, ComplementBits DEF out, Alu!INST_COM, Alu!Out
  <2>5. Registers' /\ R'.ah = out.v /\ R'.al = R.al
    BY <1>1, <1>2, <1>4, <2>3, <2>4, StoredByte
  <2> QED BY <1>1, <1>2, <1>3, <1>5, <2>4, <2>5 DEF AtNeg
<1>6. CASE pc = 2
  <2>1. Alu!Current = <<"NEG", "al", "-">>
    BY <1>1, <1>6, TheBitSequences DEF Alu!Current
  <2> DEFINE out == Alu!INST_NEG(R["al"], sreg)
  <2>3. Stored("al", out.v) /\ sreg' = out.f
    <3>1. Result(out)
      BY <1>1, <2>1, RunsBits
    <3> QED BY <2>1, <3>1 DEF Result
  <2> HIDE DEF out
  <2>4. out.v = (0 - R.al) % 256 /\ out.v \in Byte /\ (out.f.C <=> R.al # 0)
    BY <1>4, NegDoes DEF out
  <2>5. Registers' /\ R'.al = out.v /\ R'.ah = R.ah
    BY <1>1, <1>2, <1>4, <2>3, <2>4, StoredByte
  <2>6. R.ah = 255 - R0.ah /\ R.al = R0.al
    BY <1>6 DEF BitInv, AtNeg
  <2> QED BY <1>1, <1>3, <1>6, <2>3, <2>4, <2>5, <2>6 DEF AtNeg
<1>7. CASE pc = 3
  <2>1. Alu!Current = <<"SBCI", "ah", "FF">>
    BY <1>1, <1>7, TheBitSequences DEF Alu!Current
  <2>2. Source = 255
    BY <2>1 DEF Source, Alu!Operand, Alu!Regs
  <2> DEFINE out == Alu!INST_SBC(R["ah"], 255, sreg)
  <2>3. Stored("ah", out.v) /\ sreg' = out.f
    <3>1. Result(out)
      BY <1>1, <2>1, <2>2, Runs DEF Alu!INST_SBCI
    <3> QED BY <2>1, <3>1 DEF Result
  <2> HIDE DEF out
  <2> DEFINE c == Alu!Num(sreg.C)
  <2>a. R.ah = 255 - R0.ah /\ R.al = (0 - R0.al) % 256 /\ (sreg.C <=> R0.al # 0)
    BY <1>7 DEF BitInv, AtNeg
  <2>b. c \in 0..1 /\ c = IF R0.al # 0 THEN 1 ELSE 0
    BY <2>a, Carry
  <2>4. out.v = (R.ah - (255 + c)) % 256 /\ out.v \in Byte
    <3>1. Borrowed(out, sreg, R["ah"], 255, c)
      <4>1. 255 \in Byte
        BY DEF Byte, Alu!Byte
      <4> QED BY <1>4, <4>1, SbcDoes DEF out
    <3> QED BY <3>1 DEF Borrowed
  <2>5. Registers' /\ R'.ah = out.v /\ R'.al = R.al
    BY <1>1, <1>2, <1>4, <2>3, <2>4, StoredByte
  <2>6. Alu!A1' = (-Alu!A0') % 65536
    <3>1. /\ Alu!A1' = 256 * ((255 - R0.ah - (255 + c)) % 256) + ((0 - R0.al) % 256)
          /\ Alu!A0' = 256 * R0.ah + R0.al
      BY <1>1, <2>4, <2>5, <2>a DEF Alu!A1, Alu!A0, Alu!Word
    <3>2. ASSUME NEW h \in 0..255, NEW l \in 0..255, NEW b \in 0..1, b = IF l # 0 THEN 1 ELSE 0
          PROVE  256 * ((255 - h - (255 + b)) % 256) + ((0 - l) % 256) = (-(256 * h + l)) % 65536
      BY <3>2
    <3>3. R0.ah \in 0..255 /\ R0.al \in 0..255
      BY <1>4 DEF Byte, Alu!Byte
    <3> HIDE DEF c
    <3> QED BY <2>b, <3>1, <3>2, <3>3, SMTT(60)
  <2> QED BY <1>1, <1>3, <1>7, <2>5, <2>6 DEF AtNeg
<1> QED BY <1>3, <1>5, <1>6, <1>7

\* ROR of the low byte takes the bit that the high byte lost
LEMMA LowByteHalved ==
  ASSUME Registers, Flagged(sreg), R0' = R0, R0["ah"] \in Byte, R0["al"] \in Byte,
         NEW h \in Byte, Halved(h),
         NEW out, out = Alu!INST_ROR(R["al"], sreg), Stored("al", out.v), sreg' = out.f
  PROVE  /\ Registers' /\ R'["ah"] = h /\ R'["al"] = (R0["al"] \div 2) + 128 * (R0["ah"] % 2)
         /\ sreg'["C"] = (Alu!A0' % 2 = 1) /\ sreg'["T"] = sreg["T"]
<1> DEFINE c == Alu!Num(sreg.C)
<1>1. R.ah = h /\ R.al = R0.al /\ c = R0.ah % 2
  <2>1. R.ah = h /\ R.al = R0.al /\ (sreg.C <=> R0.ah % 2 = 1)
    BY DEF Halved
  <2>2. R0["ah"] % 2 \in 0..1
    BY HalfWord
  <2> QED BY <2>1, <2>2, Carry
<1>2. /\ out.v = (R0["al"] \div 2) + 128 * c /\ (out.f.C <=> (R0["al"] % 2 = 1))
      /\ out.f.C \in BOOLEAN /\ out.f.T = sreg.T
  BY <1>1, ShiftDoes DEF Alu!INST_ROR
<1>3. out.v \in Byte /\ Alu!Word(R0["ah"], R0["al"]) % 2 = R0["al"] % 2
  BY <1>1, <1>2, HalfWord
<1>4. Registers' /\ R'["al"] = out.v /\ R'["ah"] = R["ah"]
  BY <1>3, StoredByte DEF Alu!Regs
<1>5. sreg'["C"] = (Alu!A0' % 2 = 1)
  BY <1>2, <1>3 DEF Alu!A0
<1> QED BY <1>1, <1>2, <1>4, <1>5

LEMMA StepLsr ==
  ASSUME Flagged(sreg), BitInv, Alu!Step, program = "lsr"
  PROVE  Registers' /\ AtRight' /\ pc' # 1
<1>1. /\ program' = "lsr" /\ R0' = R0 /\ pc' = pc + 1 /\ ~(pc > Len(Alu!Programs["lsr"]))
      /\ Alu!Arithmetic \/ Alu!LogicAndBits
  BY Stepping
<1>2. Registers /\ (pc = 1 => R = R0) /\ pc \in 1..3
  BY DEF BitInv, AtRight, WordBits
<1>3. pc \in 1..2 /\ pc' # 1 /\ pc' \in 1..3
  BY <1>1, <1>2, TheBitSequences
<1>4. /\ R.ah \in Byte /\ R.al \in Byte /\ R.bh \in Byte /\ R.bl \in Byte /\ R.n \in Byte
      /\ R0.ah \in Byte /\ R0.al \in Byte /\ R0.bh \in Byte /\ R0.bl \in Byte
      /\ {"ah", "al", "bh", "bl", "n"} \subseteq Alu!Regs
  BY <1>2 DEF Registers, Alu!Regs
<1>5. CASE pc = 1
  <2>1. Alu!Current = <<"LSR", "ah", "-">>
    BY <1>1, <1>5, TheBitSequences DEF Alu!Current
  <2> DEFINE out == Alu!INST_LSR(R["ah"], sreg)
  <2>3. Stored("ah", out.v) /\ sreg' = out.f
    <3>1. Result(out)
      BY <1>1, <2>1, RunsBits
    <3> QED BY <2>1, <3>1 DEF Result
  <2> HIDE DEF out
  <2>4. /\ out.v = HalfByte(program) /\ out.v \in Byte /\ (out.f.C <=> R.ah % 2 = 1)
        /\ R.ah = R0.ah /\ R.al = R0.al
    <3>1. R.ah = R0.ah /\ R.al = R0.al
      BY <1>2, <1>5
    <3>2. out.v = R["ah"] \div 2 /\ (out.f.C <=> R.ah % 2 = 1)
      BY <1>4, ShiftDoes DEF out, Alu!INST_LSR
    <3>3. HalfByte(program) = R0["ah"] \div 2 /\ R0["ah"] \div 2 \in Byte
      BY <1>4, HalfByteIn DEF HalfByte
    <3> QED BY <3>1, <3>2, <3>3
  <2>5. Registers' /\ R'.ah = out.v /\ R'.al = R.al
    BY <1>1, <1>2, <1>4, <2>3, <2>4, StoredByte
  <2>6. HalfByte(program)' = HalfByte(program)
    BY <1>1 DEF HalfByte
  <2> QED BY <1>1, <1>3, <1>5, <2>3, <2>4, <2>5, <2>6 DEF AtRight, Halved
<1>6. CASE pc = 2
  <2>1. Alu!Current = <<"ROR", "al", "-">>
    BY <1>1, <1>6, TheBitSequences DEF Alu!Current
  <2> DEFINE out == Alu!INST_ROR(R["al"], sreg)
  <2>3. Stored("al", out.v) /\ sreg' = out.f
    <3>1. Result(out)
      BY <1>1, <2>1, RunsBits
    <3> QED BY <2>1, <3>1 DEF Result
  <2> HIDE DEF out
  <2>4. Halved(HalfByte(program))
    BY <1>6 DEF BitInv, AtRight
  <2>5. HalfByte(program) \in Byte
    BY <1>4, HalfByteIn DEF HalfByte
  <2>6. /\ Registers' /\ R'["ah"] = HalfByte(program)
        /\ R'["al"] = (R0["al"] \div 2) + 128 * (R0["ah"] % 2)
        /\ sreg'["C"] = (Alu!A0' % 2 = 1) /\ sreg'["T"] = sreg["T"]
    BY <1>1, <1>2, <1>4, <2>3, <2>4, <2>5, LowByteHalved DEF out
  <2>7. Alu!A1' = HalfOf(program)'
    <3>1. /\ Alu!A1' = Alu!Word(HalfByte(program), (R0["al"] \div 2) + 128 * (R0["ah"] % 2))
          /\ Alu!A0' = Alu!Word(R0["ah"], R0["al"])
      BY <1>1, <2>6 DEF Alu!A1, Alu!A0
    <3> QED BY <1>1, <1>4, <3>1, HalfWord DEF HalfByte, HalfOf
  <2> QED BY <1>1, <1>3, <1>6, <2>6, <2>7 DEF AtRight, RightDone
<1> QED BY <1>3, <1>5, <1>6

LEMMA StepAsr ==
  ASSUME Flagged(sreg), BitInv, Alu!Step, program = "asr"
  PROVE  Registers' /\ AtRight' /\ pc' # 1
<1>1. /\ program' = "asr" /\ R0' = R0 /\ pc' = pc + 1 /\ ~(pc > Len(Alu!Programs["asr"]))
      /\ Alu!Arithmetic \/ Alu!LogicAndBits
  BY Stepping
<1>2. Registers /\ (pc = 1 => R = R0) /\ pc \in 1..3
  BY DEF BitInv, AtRight, WordBits
<1>3. pc \in 1..2 /\ pc' # 1 /\ pc' \in 1..3
  BY <1>1, <1>2, TheBitSequences
<1>4. /\ R.ah \in Byte /\ R.al \in Byte /\ R.bh \in Byte /\ R.bl \in Byte /\ R.n \in Byte
      /\ R0.ah \in Byte /\ R0.al \in Byte /\ R0.bh \in Byte /\ R0.bl \in Byte
      /\ {"ah", "al", "bh", "bl", "n"} \subseteq Alu!Regs
  BY <1>2 DEF Registers, Alu!Regs
<1>5. CASE pc = 1
  <2>1. Alu!Current = <<"ASR", "ah", "-">>
    BY <1>1, <1>5, TheBitSequences DEF Alu!Current
  <2> DEFINE out == Alu!INST_ASR(R["ah"], sreg)
  <2>3. Stored("ah", out.v) /\ sreg' = out.f
    <3>1. Result(out)
      BY <1>1, <2>1, RunsBits
    <3> QED BY <2>1, <3>1 DEF Result
  <2> HIDE DEF out
  <2>4. /\ out.v = HalfByte(program) /\ out.v \in Byte /\ (out.f.C <=> R.ah % 2 = 1)
        /\ R.ah = R0.ah /\ R.al = R0.al
    <3>1. R.ah = R0.ah /\ R.al = R0.al
      BY <1>2, <1>5
    <3>2. out.v = (Alu!Signed(R["ah"]) \div 2) % 256 /\ (out.f.C <=> R.ah % 2 = 1)
      BY <1>4, ShiftDoes DEF out, Alu!INST_ASR
    <3>3. HalfByte(program) = (Alu!Signed(R0["ah"]) \div 2) % 256 /\ (Alu!Signed(R0["ah"]) \div 2) % 256 \in Byte
      BY <1>4, HalfByteIn DEF HalfByte
    <3> QED BY <3>1, <3>2, <3>3
  <2>5. Registers' /\ R'.ah = out.v /\ R'.al = R.al
    BY <1>1, <1>2, <1>4, <2>3, <2>4, StoredByte
  <2>6. HalfByte(program)' = HalfByte(program)
    BY <1>1 DEF HalfByte
  <2> QED BY <1>1, <1>3, <1>5, <2>3, <2>4, <2>5, <2>6 DEF AtRight, Halved
<1>6. CASE pc = 2
  <2>1. Alu!Current = <<"ROR", "al", "-">>
    BY <1>1, <1>6, TheBitSequences DEF Alu!Current
  <2> DEFINE out == Alu!INST_ROR(R["al"], sreg)
  <2>3. Stored("al", out.v) /\ sreg' = out.f
    <3>1. Result(out)
      BY <1>1, <2>1, RunsBits
    <3> QED BY <2>1, <3>1 DEF Result
  <2> HIDE DEF out
  <2>4. Halved(HalfByte(program))
    BY <1>6 DEF BitInv, AtRight
  <2>5. HalfByte(program) \in Byte
    BY <1>4, HalfByteIn DEF HalfByte
  <2>6. /\ Registers' /\ R'["ah"] = HalfByte(program)
        /\ R'["al"] = (R0["al"] \div 2) + 128 * (R0["ah"] % 2)
        /\ sreg'["C"] = (Alu!A0' % 2 = 1) /\ sreg'["T"] = sreg["T"]
    BY <1>1, <1>2, <1>4, <2>3, <2>4, <2>5, LowByteHalved DEF out
  <2>7. Alu!A1' = HalfOf(program)'
    <3>1. /\ Alu!A1' = Alu!Word(HalfByte(program), (R0["al"] \div 2) + 128 * (R0["ah"] % 2))
          /\ Alu!A0' = Alu!Word(R0["ah"], R0["al"])
      BY <1>1, <2>6 DEF Alu!A1, Alu!A0
    <3> QED BY <1>1, <1>4, <3>1, HalfWord DEF HalfByte, HalfOf
  <2> QED BY <1>1, <1>3, <1>6, <2>6, <2>7 DEF AtRight, RightDone
<1> QED BY <1>3, <1>5, <1>6

LEMMA StepSigned ==
  ASSUME Flagged(sreg), BitInv, Alu!Step, program = "asrt"
  PROVE  Registers' /\ AtSigned' /\ pc' # 1
<1>1. /\ program' = "asrt" /\ R0' = R0 /\ pc' = pc + 1 /\ ~(pc > Len(Alu!Programs["asrt"]))
      /\ Alu!Arithmetic \/ Alu!LogicAndBits
  BY Stepping
<1>2. Registers /\ (pc = 1 => R = R0) /\ pc \in 1..5
  BY DEF BitInv, AtSigned, WordBits
<1>3. pc \in 1..4 /\ pc' # 1 /\ pc' \in 1..5
  BY <1>1, <1>2, TheBitSequences
<1>4. /\ R.ah \in Byte /\ R.al \in Byte /\ R.bh \in Byte /\ R.bl \in Byte /\ R.n \in Byte
      /\ R0.ah \in Byte /\ R0.al \in Byte /\ R0.bh \in Byte /\ R0.bl \in Byte
      /\ {"ah", "al", "bh", "bl", "n"} \subseteq Alu!Regs
  BY <1>2 DEF Registers, Alu!Regs
<1>5. CASE pc = 1
  <2>1. Alu!Current = <<"BST", "ah", "7">>
    BY <1>1, <1>5, TheBitSequences DEF Alu!Current
  <2> DEFINE out == Alu!INST_BST(R["ah"], 7, sreg)
  <2>3. Stored("ah", out.v) /\ sreg' = out.f
    <3>1. Result(out)
      BY <1>1, <2>1, RunsBits
    <3> QED BY <2>1, <3>1 DEF Result
  <2> HIDE DEF out
  <2>4. out.v = R.ah /\ out.v \in Byte /\ (out.f.T <=> R.ah >= 128)
    <3>1. out.v = R.ah /\ out.f.T = Alu!Bit(R.ah, 7)
      BY DEF out, Alu!INST_BST, Alu!Out, Flagged, Names
    <3>2. Alu!Bit(R.ah, 7) <=> R.ah >= 128
      BY <1>4, BitsAre DEF Byte, Alu!Byte
    <3> QED BY <1>4, <3>1, <3>2
  <2>5. Registers' /\ R'.ah = out.v /\ R'.al = R.al
    BY <1>1, <1>2, <1>4, <2>3, <2>4, StoredByte
  <2> QED BY <1>1, <1>2, <1>3, <1>5, <2>3, <2>4, <2>5 DEF AtSigned
<1>6. CASE pc = 2
  <2>1. Alu!Current = <<"LSR", "ah", "-">>
    BY <1>1, <1>6, TheBitSequences DEF Alu!Current
  <2> DEFINE out == Alu!INST_LSR(R["ah"], sreg)
  <2>3. Stored("ah", out.v) /\ sreg' = out.f
    <3>1. Result(out)
      BY <1>1, <2>1, RunsBits
    <3> QED BY <2>1, <3>1 DEF Result
  <2> HIDE DEF out
  <2>6. R.ah = R0.ah /\ R.al = R0.al /\ (sreg.T <=> R0.ah >= 128)
    BY <1>6 DEF BitInv, AtSigned
  <2>4. /\ out.v = R0.ah \div 2 /\ out.v \in Byte /\ (out.f.C <=> R0.ah % 2 = 1)
        /\ out.f.T = sreg.T
    <3>1. out.v = R["ah"] \div 2 /\ (out.f.C <=> R["ah"] % 2 = 1) /\ out.f.T = sreg.T
      BY <1>4, ShiftDoes DEF out, Alu!INST_LSR
    <3>2. R0["ah"] \div 2 \in Byte
      BY <1>4, HalfByteIn
    <3> QED BY <2>6, <3>1, <3>2
  <2>5. Registers' /\ R'.ah = out.v /\ R'.al = R.al
    BY <1>1, <1>2, <1>4, <2>3, <2>4, StoredByte
  <2>7. Halved(HalfByte("lsr"))'
    BY <1>1, <2>3, <2>4, <2>5, <2>6 DEF Halved, HalfByte
  <2> QED BY <1>1, <1>3, <1>6, <2>3, <2>4, <2>5, <2>6, <2>7 DEF AtSigned
<1>7. CASE pc = 3
  <2>1. Alu!Current = <<"ROR", "al", "-">>
    BY <1>1, <1>7, TheBitSequences DEF Alu!Current
  <2> DEFINE out == Alu!INST_ROR(R["al"], sreg)
  <2>3. Stored("al", out.v) /\ sreg' = out.f
    <3>1. Result(out)
      BY <1>1, <2>1, RunsBits
    <3> QED BY <2>1, <3>1 DEF Result
  <2> HIDE DEF out
  <2>4. Halved(HalfByte("lsr"))
    BY <1>7 DEF BitInv, AtSigned
  <2>5. HalfByte("lsr") \in Byte
    BY <1>4, HalfByteIn DEF HalfByte
  <2>6. /\ Registers' /\ R'["ah"] = HalfByte("lsr")
        /\ R'["al"] = (R0["al"] \div 2) + 128 * (R0["ah"] % 2)
        /\ sreg'["C"] = (Alu!A0' % 2 = 1) /\ sreg'["T"] = sreg["T"]
    BY <1>1, <1>2, <1>4, <2>3, <2>4, <2>5, LowByteHalved DEF out
  <2>7. Alu!A1' = HalfOf("lsr")' /\ R'["ah"] = R0["ah"] \div 2
    <3>1. /\ Alu!A1' = Alu!Word(HalfByte("lsr"), (R0["al"] \div 2) + 128 * (R0["ah"] % 2))
          /\ Alu!A0' = Alu!Word(R0["ah"], R0["al"])
      BY <1>1, <2>6 DEF Alu!A1, Alu!A0
    <3> QED BY <1>1, <1>4, <2>6, <3>1, HalfWord DEF HalfByte, HalfOf
  <2>8. sreg.T <=> R0.ah >= 128
    BY <1>7 DEF BitInv, AtSigned
  <2> QED BY <1>1, <1>3, <1>7, <2>6, <2>7, <2>8 DEF AtSigned, RightDone
<1>8. CASE pc = 4
  <2>1. Alu!Current = <<"BLD", "ah", "7">>
    BY <1>1, <1>8, TheBitSequences DEF Alu!Current
  <2> DEFINE out == Alu!INST_BLD(R["ah"], 7, sreg)
  <2>3. Stored("ah", out.v) /\ sreg' = out.f
    <3>1. Result(out)
      BY <1>1, <2>1, RunsBits
    <3> QED BY <2>1, <3>1 DEF Result
  <2> HIDE DEF out
  <2>6. /\ R.ah = R0.ah \div 2 /\ Alu!A1 = Alu!A0 \div 2 /\ sreg.C = (Alu!A0 % 2 = 1)
        /\ (sreg.T <=> R0.ah >= 128)
    BY <1>8 DEF BitInv, AtSigned, RightDone, HalfOf
  <2>7. R0.ah \div 2 \in Byte /\ R0.ah \div 2 < 128
    BY <1>4, HalfByteIn
  <2>a. out.v = R.ah + 128 * Alu!Num(R0.ah >= 128) /\ out.f = sreg
    <3>1. R["ah"] \in Byte /\ R["ah"] < 128 /\ (sreg.T <=> R0.ah >= 128)
      BY <2>6, <2>7
    <3>2. out.v = R["ah"] + 128 * Alu!Num(R0.ah >= 128)
      <4> DEFINE t == R0.ah >= 128
      <4>1. (sreg.T <=> t)
        BY <3>1
      <4> HIDE DEF t
      <4>2. out.v = R["ah"] + 128 * Alu!Num(t)
        BY <3>1, <4>1, BldDoes DEF out
      <4> QED BY <4>2 DEF t
    <3>3. out.f = sreg
      BY DEF out, Alu!INST_BLD, Alu!Out
    <3> QED BY <3>2, <3>3
  <2>4. out.v = (Alu!Signed(R0.ah) \div 2) % 256 /\ out.v \in Byte
    <3>1. /\ (Alu!Signed(R0["ah"]) \div 2) % 256 \in Byte
          /\ (Alu!Signed(R0["ah"]) \div 2) % 256 = (R0["ah"] \div 2) + IF R0["ah"] >= 128 THEN 128 ELSE 0
      BY <1>4, HalfByteIn
    <3>2. out.v = (R0["ah"] \div 2) + IF R0["ah"] >= 128 THEN 128 ELSE 0
      BY <1>4, <2>6, <2>a DEF Alu!Num, Byte, Alu!Byte
    <3> QED BY <3>1, <3>2
  <2>5. Registers' /\ R'.ah = out.v /\ R'.al = R.al
    BY <1>1, <1>2, <1>4, <2>3, <2>4, StoredByte
  <2>8. R.al = (R0.al \div 2) + 128 * (R0.ah % 2)
    <3>1. R.al \in 0..255 /\ R0.al \in 0..255 /\ R0.ah \in 0..255
      BY <1>4 DEF Byte, Alu!Byte
    <3>2. 256 * (R0.ah \div 2) + R.al = (256 * R0.ah + R0.al) \div 2
      BY <2>6 DEF Alu!A0, Alu!A1, Alu!Word
    <3>3. ASSUME NEW h \in 0..255, NEW l \in 0..255, NEW v \in 0..255,
                 256 * (h \div 2) + v = (256 * h + l) \div 2
          PROVE  v = (l \div 2) + 128 * (h % 2)
      BY <3>3
    <3> QED BY <3>1, <3>2, <3>3
  <2>9. Alu!A1' = HalfOf("asrt")'
    <3>1. /\ Alu!A1' = Alu!Word((Alu!Signed(R0.ah) \div 2) % 256, (R0.al \div 2) + 128 * (R0.ah % 2))
          /\ Alu!A0' = Alu!Word(R0.ah, R0.al)
      BY <1>1, <2>4, <2>5, <2>8 DEF Alu!A1, Alu!A0
    <3> QED BY <1>4, <3>1, HalfWord DEF HalfOf
  <2>10. sreg'.C = (Alu!A0' % 2 = 1)
    BY <1>1, <2>3, <2>6, <2>a DEF Alu!A0
  <2> QED BY <1>1, <1>3, <1>8, <2>5, <2>9, <2>10 DEF AtSigned, RightDone
<1> QED BY <1>3, <1>5, <1>6, <1>7, <1>8

\* Two nibbles make a byte, four a word, and SWAP exchanges those of a byte
LEMMA TwoNibbles ==
  ASSUME NEW h \in 0..15, NEW l \in 0..15
  PROVE  16 * h + l \in Byte /\ 16 * h \in Byte
BY DEF Byte, Alu!Byte

LEMMA Swapped ==
  ASSUME NEW x \in Byte, NEW f
  PROVE  Alu!INST_SWAP(x, f).v = 16 * (x % 16) + (x \div 16)
<1>1. x \in 0..255
  BY DEF Byte, Alu!Byte
<1>2. (x \div 16) + 16 * (x % 16) = 16 * (x % 16) + (x \div 16)
  BY <1>1
<1> QED BY <1>2 DEF Alu!INST_SWAP, Alu!Out

LEMMA ShiftedByFour ==
  ASSUME NEW r \in Nibble, NEW s \in Nibble, NEW p \in Nibble, NEW q \in Nibble
  PROVE  256 * (16 * s + p) + 16 * q = (16 * (256 * (16 * r + s) + (16 * p + q))) % 65536
<1> USE DEF Nibble
<1> DEFINE w == 256 * (16 * s + p) + 16 * q
<1>1. 16 * (256 * (16 * r + s) + (16 * p + q)) = 65536 * r + w
  OBVIOUS
<1>2. w \in Int /\ w >= 0 /\ w < 65536
  OBVIOUS
<1> HIDE DEF w
<1>3. w = (65536 * r + w) % 65536
  BY <1>2
<1> QED BY <1>1, <1>3 DEF w

LEMMA SameWords ==
  ASSUME NEW h \in Byte, NEW l \in Byte, NEW k \in Byte, NEW m \in Byte
  PROVE  /\ Alu!Word(h, l) = 0 <=> (l = 0 /\ h = 0)
         /\ Alu!Word(h, l) = Alu!Word(k, m) <=> (l = m /\ h = k)
BY DEF Alu!Word, Byte, Alu!Byte

LEMMA SumIsByte ==
  ASSUME NEW x \in Byte, NEW y \in Byte, NEW f
  PROVE  Alu!INST_ADD(x, y, f).v \in Byte
<1>1. (x + y) % 256 \in 0..255
  BY DEF Byte, Alu!Byte
<1> QED BY <1>1 DEF Alu!INST_ADD, Alu!Out, Byte, Alu!Byte

LEMMA StepTest ==
  ASSUME Flagged(sreg), BitInv, Alu!Step, program = "test"
  PROVE  Registers' /\ AtTest' /\ pc' # 1
<1>1. /\ program' = "test" /\ R0' = R0 /\ pc' = pc + 1 /\ ~(pc > Len(Alu!Programs["test"]))
      /\ Alu!Arithmetic \/ Alu!LogicAndBits
  BY Stepping
<1>2. Registers /\ (pc = 1 => R = R0) /\ pc \in 1..2
  BY DEF BitInv, AtTest, WordBits
<1>3. pc \in 1..1 /\ pc' # 1 /\ pc' \in 1..2
  BY <1>1, <1>2, TheBitSequences
<1>4. /\ R.ah \in Byte /\ R.al \in Byte /\ R.bh \in Byte /\ R.bl \in Byte /\ R.n \in Byte
      /\ R0.ah \in Byte /\ R0.al \in Byte /\ R0.bh \in Byte /\ R0.bl \in Byte
      /\ {"ah", "al", "bh", "bl", "n"} \subseteq Alu!Regs
  BY <1>2 DEF Registers, Alu!Regs
<1>5. CASE pc = 1
  <2>1. Alu!Current = <<"OR", "al", "ah">>
    BY <1>1, <1>5, TheBitSequences DEF Alu!Current
  <2>2. Source = R["ah"]
    BY <2>1 DEF Source, Alu!Operand, Alu!Regs
  <2> DEFINE out == Alu!INST_OR(R["al"], R["ah"], sreg)
  <2>3. Stored("al", out.v) /\ sreg' = out.f
    <3>1. Result(out)
      BY <1>1, <2>1, <2>2, RunsBits
    <3> QED BY <2>1, <3>1 DEF Result
  <2> HIDE DEF out
  <2>4. out.v \in Byte /\ (out.f.Z <=> (R.al = 0 /\ R.ah = 0)) /\ out.f.Z \in BOOLEAN
    BY <1>4, LogicDoes, OrDoes DEF out
  <2>5. Registers' /\ R'.al = out.v /\ R'.ah = R.ah
    BY <1>1, <1>2, <1>4, <2>3, <2>4, StoredByte
  <2>6. R.ah = R0.ah /\ R.al = R0.al
    BY <1>2, <1>5
  <2>7. Alu!A0' = 0 <=> (R0.al = 0 /\ R0.ah = 0)
    <3>1. Alu!A0' = Alu!Word(R0["ah"], R0["al"])
      BY <1>1 DEF Alu!A0
    <3> QED BY <1>4, <3>1, SameWords
  <2>8. sreg'.Z = (Alu!A0' = 0)
    BY <2>3, <2>4, <2>6, <2>7
  <2> QED BY <1>1, <1>3, <1>5, <2>5, <2>8 DEF AtTest
<1> QED BY <1>3, <1>5

LEMMA StepSame ==
  ASSUME Flagged(sreg), BitInv, Alu!Step, program = "same"
  PROVE  Registers' /\ AtSame' /\ pc' # 1
<1>1. /\ program' = "same" /\ R0' = R0 /\ pc' = pc + 1 /\ ~(pc > Len(Alu!Programs["same"]))
      /\ Alu!Arithmetic \/ Alu!LogicAndBits
  BY Stepping
<1>2. Registers /\ (pc = 1 => R = R0) /\ pc \in 1..4
  BY DEF BitInv, AtSame, WordBits
<1>3. pc \in 1..3 /\ pc' # 1 /\ pc' \in 1..4
  BY <1>1, <1>2, TheBitSequences
<1>4. /\ R.ah \in Byte /\ R.al \in Byte /\ R.bh \in Byte /\ R.bl \in Byte /\ R.n \in Byte
      /\ R0.ah \in Byte /\ R0.al \in Byte /\ R0.bh \in Byte /\ R0.bl \in Byte
      /\ {"ah", "al", "bh", "bl", "n"} \subseteq Alu!Regs
  BY <1>2 DEF Registers, Alu!Regs
<1>5. CASE pc = 1
  <2>1. Alu!Current = <<"EOR", "al", "bl">>
    BY <1>1, <1>5, TheBitSequences DEF Alu!Current
  <2>2. Source = R["bl"]
    BY <2>1 DEF Source, Alu!Operand, Alu!Regs
  <2> DEFINE out == Alu!INST_EOR(R["al"], R["bl"], sreg)
  <2>3. Stored("al", out.v) /\ sreg' = out.f
    <3>1. Result(out)
      BY <1>1, <2>1, <2>2, RunsBits
    <3> QED BY <2>1, <3>1 DEF Result
  <2> HIDE DEF out
  <2>4. out.v \in Byte /\ (out.v = 0 <=> R.al = R.bl)
    BY <1>4, LogicDoes, EorZero DEF out
  <2>5. Registers' /\ R'.al = out.v /\ R'.ah = R.ah /\ R'.bh = R.bh
    BY <1>1, <1>2, <1>4, <2>3, <2>4, StoredByte
  <2> QED BY <1>1, <1>2, <1>3, <1>5, <2>4, <2>5 DEF AtSame
<1>6. CASE pc = 2
  <2>1. Alu!Current = <<"EOR", "ah", "bh">>
    BY <1>1, <1>6, TheBitSequences DEF Alu!Current
  <2>2. Source = R["bh"]
    BY <2>1 DEF Source, Alu!Operand, Alu!Regs
  <2> DEFINE out == Alu!INST_EOR(R["ah"], R["bh"], sreg)
  <2>3. Stored("ah", out.v) /\ sreg' = out.f
    <3>1. Result(out)
      BY <1>1, <2>1, <2>2, RunsBits
    <3> QED BY <2>1, <3>1 DEF Result
  <2> HIDE DEF out
  <2>4. out.v \in Byte /\ (out.v = 0 <=> R.ah = R.bh)
    BY <1>4, LogicDoes, EorZero DEF out
  <2>5. Registers' /\ R'.ah = out.v /\ R'.al = R.al
    BY <1>1, <1>2, <1>4, <2>3, <2>4, StoredByte
  <2>6. R.ah = R0.ah /\ R.bh = R0.bh /\ (R.al = 0 <=> R0.al = R0.bl)
    BY <1>6 DEF BitInv, AtSame
  <2> QED BY <1>1, <1>3, <1>6, <2>4, <2>5, <2>6 DEF AtSame
<1>7. CASE pc = 3
  <2>1. Alu!Current = <<"OR", "al", "ah">>
    BY <1>1, <1>7, TheBitSequences DEF Alu!Current
  <2>2. Source = R["ah"]
    BY <2>1 DEF Source, Alu!Operand, Alu!Regs
  <2> DEFINE out == Alu!INST_OR(R["al"], R["ah"], sreg)
  <2>3. Stored("al", out.v) /\ sreg' = out.f
    <3>1. Result(out)
      BY <1>1, <2>1, <2>2, RunsBits
    <3> QED BY <2>1, <3>1 DEF Result
  <2> HIDE DEF out
  <2>4. out.v \in Byte /\ (out.f.Z <=> (R.al = 0 /\ R.ah = 0)) /\ out.f.Z \in BOOLEAN
    BY <1>4, LogicDoes, OrDoes DEF out
  <2>5. Registers' /\ R'.al = out.v /\ R'.ah = R.ah
    BY <1>1, <1>2, <1>4, <2>3, <2>4, StoredByte
  <2>6. (R.al = 0 <=> R0.al = R0.bl) /\ (R.ah = 0 <=> R0.ah = R0.bh)
    BY <1>7 DEF BitInv, AtSame
  <2>7. Alu!A0' = Alu!B0' <=> (R0.al = R0.bl /\ R0.ah = R0.bh)
    <3>1. Alu!A0' = Alu!Word(R0["ah"], R0["al"]) /\ Alu!B0' = Alu!Word(R0["bh"], R0["bl"])
      BY <1>1 DEF Alu!A0, Alu!B0
    <3> QED BY <1>4, <3>1, SameWords
  <2>8. sreg'.Z = (Alu!A0' = Alu!B0')
    BY <2>3, <2>4, <2>6, <2>7
  <2> QED BY <1>1, <1>3, <1>7, <2>5, <2>8 DEF AtSame
<1> QED BY <1>3, <1>5, <1>6, <1>7

LEMMA StepNot ==
  ASSUME Flagged(sreg), BitInv, Alu!Step, program = "not"
  PROVE  Registers' /\ AtNot' /\ pc' # 1
<1>1. /\ program' = "not" /\ R0' = R0 /\ pc' = pc + 1 /\ ~(pc > Len(Alu!Programs["not"]))
      /\ Alu!Arithmetic \/ Alu!LogicAndBits
  BY Stepping
<1>2. Registers /\ (pc = 1 => R = R0) /\ pc \in 1..5
  BY DEF BitInv, AtNot, WordBits
<1>3. pc \in 1..4 /\ pc' # 1 /\ pc' \in 1..5
  BY <1>1, <1>2, TheBitSequences
<1>4. /\ R.ah \in Byte /\ R.al \in Byte /\ R.bh \in Byte /\ R.bl \in Byte /\ R.n \in Byte
      /\ R0.ah \in Byte /\ R0.al \in Byte /\ R0.bh \in Byte /\ R0.bl \in Byte
      /\ {"ah", "al", "bh", "bl", "n"} \subseteq Alu!Regs
  BY <1>2 DEF Registers, Alu!Regs
<1>5. CASE pc = 1
  <2>1. Alu!Current = <<"COM", "al", "-">>
    BY <1>1, <1>5, TheBitSequences DEF Alu!Current
  <2> DEFINE out == Alu!INST_COM(R["al"], sreg)
  <2>3. Stored("al", out.v) /\ sreg' = out.f
    <3>1. Result(out)
      BY <1>1, <2>1, RunsBits
    <3> QED BY <2>1, <3>1 DEF Result
  <2> HIDE DEF out
  <2>4. out.v = 255 - R.al /\ out.v \in Byte
    BY <1>4, ComplementBits DEF out, Alu!INST_COM, Alu!Out
  <2>5. Registers' /\ R'.al = out.v /\ R'.ah = R.ah /\ R'.bl = R.bl /\ R'.bh = R.bh
    BY <1>1, <1>2, <1>4, <2>3, <2>4, StoredByte
  <2>6. R.ah = R0.ah /\ R.al = R0.al /\ R.bh = R0.bh /\ R.bl = R0.bl
    BY <1>2, <1>5
  <2> QED BY <1>1, <1>3, <1>5, <2>4, <2>5, <2>6 DEF AtNot
<1>6. CASE pc = 2
  <2>1. Alu!Current = <<"COM", "ah", "-">>
    BY <1>1, <1>6, TheBitSequences DEF Alu!Current
  <2> DEFINE out == Alu!INST_COM(R["ah"], sreg)
  <2>3. Stored("ah", out.v) /\ sreg' = out.f
    <3>1. Result(out)
      BY <1>1, <2>1, RunsBits
    <3> QED BY <2>1, <3>1 DEF Result
  <2> HIDE DEF out
  <2>4. out.v = 255 - R.ah /\ out.v \in Byte
    BY <1>4, ComplementBits DEF out, Alu!INST_COM, Alu!Out
  <2>5. Registers' /\ R'.ah = out.v /\ R'.al = R.al /\ R'.bl = R.bl /\ R'.bh = R.bh
    BY <1>1, <1>2, <1>4, <2>3, <2>4, StoredByte
  <2>6. R.ah = R0.ah /\ R.al = 255 - R0.al /\ R.bh = R0.bh /\ R.bl = R0.bl
    BY <1>6 DEF BitInv, AtNot
  <2> QED BY <1>1, <1>3, <1>6, <2>4, <2>5, <2>6 DEF AtNot
<1>7. CASE pc = 3
  <2>1. Alu!Current = <<"AND", "al", "bl">>
    BY <1>1, <1>7, TheBitSequences DEF Alu!Current
  <2>2. Source = R["bl"]
    BY <2>1 DEF Source, Alu!Operand, Alu!Regs
  <2> DEFINE out == Alu!INST_AND(R["al"], R["bl"], sreg)
  <2>3. Stored("al", out.v) /\ sreg' = out.f
    <3>1. Result(out)
      BY <1>1, <2>1, <2>2, RunsBits
    <3> QED BY <2>1, <3>1 DEF Result
  <2> HIDE DEF out
  <2>4. /\ out.v \in Byte
        /\ \A i \in 0..7 : (Alu!Bit(out.v, i) <=> (Alu!Bit(R["al"], i) /\ Alu!Bit(R["bl"], i)))
    BY LogicDoes DEF out
  <2>5. Registers' /\ R'.al = out.v /\ R'.ah = R.ah /\ R'.bl = R.bl /\ R'.bh = R.bh
    BY <1>1, <1>2, <1>4, <2>3, <2>4, StoredByte
  <2>6. R.ah = 255 - R0.ah /\ R["al"] = 255 - R0["al"] /\ R.bh = R0.bh /\ R["bl"] = R0["bl"]
    BY <1>7 DEF BitInv, AtNot
  <2>7. \A i \in 0..7 : (Alu!Bit(255 - R0["al"], i) <=> ~Alu!Bit(R0["al"], i))
    BY <1>4, ComplementBits
  <2>8. LowAnd'
    <3>1. \A i \in 0..7 : (Alu!Bit(R'["al"], i) <=> (~Alu!Bit(R0["al"], i) /\ Alu!Bit(R0["bl"], i)))
      BY <2>4, <2>5, <2>6, <2>7
    <3> QED BY <1>1, <3>1, BitIsBoolean DEF LowAnd
  <2> QED BY <1>1, <1>3, <1>7, <2>5, <2>6, <2>8 DEF AtNot
<1>8. CASE pc = 4
  <2>1. Alu!Current = <<"ORI", "ah", "bh">>
    BY <1>1, <1>8, TheBitSequences DEF Alu!Current
  <2>2. Source = R["bh"]
    BY <2>1 DEF Source, Alu!Operand, Alu!Regs
  <2> DEFINE out == Alu!INST_ORI(R["ah"], R["bh"], sreg)
  <2>3. Stored("ah", out.v) /\ sreg' = out.f
    <3>1. Result(out)
      BY <1>1, <2>1, <2>2, RunsBits
    <3> QED BY <2>1, <3>1 DEF Result
  <2> HIDE DEF out
  <2>4. /\ out.v \in Byte
        /\ \A i \in 0..7 : (Alu!Bit(out.v, i) <=> (Alu!Bit(R["ah"], i) \/ Alu!Bit(R["bh"], i)))
    BY LogicDoes DEF out, Alu!INST_ORI
  <2>5. Registers' /\ R'.ah = out.v /\ R'.al = R.al
    BY <1>1, <1>2, <1>4, <2>3, <2>4, StoredByte
  <2>6. R["ah"] = 255 - R0["ah"] /\ R["bh"] = R0["bh"] /\ LowAnd
    BY <1>8 DEF BitInv, AtNot
  <2>7. \A i \in 0..7 : (Alu!Bit(255 - R0["ah"], i) <=> ~Alu!Bit(R0["ah"], i))
    BY <1>4, ComplementBits
  <2>8. HighOr'
    <3>1. \A i \in 0..7 : (Alu!Bit(R'["ah"], i) <=> (~Alu!Bit(R0["ah"], i) \/ Alu!Bit(R0["bh"], i)))
      BY <2>4, <2>5, <2>6, <2>7
    <3> QED BY <1>1, <3>1, BitIsBoolean DEF HighOr
  <2>9. LowAnd'
    BY <1>1, <2>5, <2>6 DEF LowAnd
  <2> QED BY <1>1, <1>3, <1>8, <2>5, <2>8, <2>9 DEF AtNot
<1> QED BY <1>3, <1>5, <1>6, <1>7, <1>8

LEMMA StepShl4 ==
  ASSUME Flagged(sreg), BitInv, Alu!Step, program = "shl4"
  PROVE  Registers' /\ AtShl4' /\ pc' # 1
<1>1. /\ program' = "shl4" /\ R0' = R0 /\ pc' = pc + 1 /\ ~(pc > Len(Alu!Programs["shl4"]))
      /\ Alu!Arithmetic \/ Alu!LogicAndBits
  BY Stepping
<1>2. Registers /\ (pc = 1 => R = R0) /\ pc \in 1..7
  BY DEF BitInv, AtShl4, WordBits
<1>3. pc \in 1..6 /\ pc' # 1 /\ pc' \in 1..7
  BY <1>1, <1>2, TheBitSequences
<1>4. /\ R.ah \in Byte /\ R.al \in Byte /\ R.bh \in Byte /\ R.bl \in Byte /\ R.n \in Byte
      /\ R0.ah \in Byte /\ R0.al \in Byte /\ R0.bh \in Byte /\ R0.bl \in Byte
      /\ {"ah", "al", "bh", "bl", "n"} \subseteq Alu!Regs
  BY <1>2 DEF Registers, Alu!Regs
<1>a. /\ P0 \in 0..15 /\ Q0 \in 0..15 /\ S0 \in 0..15 /\ R0.ah \div 16 \in 0..15
      /\ R0.al = 16 * P0 + Q0 /\ R0.ah = 16 * (R0.ah \div 16) + S0
      /\ P0' = P0 /\ Q0' = Q0 /\ S0' = S0 /\ R0'.ah = R0.ah
  BY <1>1, <1>4, Nibbles DEF P0, Q0, S0
<1>b. /\ 16 * S0 + (R0.ah \div 16) \in Byte /\ 16 * Q0 + P0 \in Byte
      /\ 16 * S0 \in Byte /\ 16 * Q0 \in Byte /\ 16 * S0 + P0 \in Byte
  BY <1>a, TwoNibbles
<1>c. P0 \in Nibble /\ Q0 \in Nibble /\ S0 \in Nibble /\ R0.ah \div 16 \in Nibble
  BY <1>a DEF Nibble
<1>5. CASE pc = 1
  <2>1. Alu!Current = <<"SWAP", "ah", "-">>
    BY <1>1, <1>5, TheBitSequences DEF Alu!Current
  <2> DEFINE out == Alu!INST_SWAP(R["ah"], sreg)
  <2>3. Stored("ah", out.v) /\ sreg' = out.f
    <3>1. Result(out)
      BY <1>1, <2>1, RunsBits
    <3> QED BY <2>1, <3>1 DEF Result
  <2> HIDE DEF out
  <2>6. R.ah = R0.ah /\ R.al = R0.al
    BY <1>2, <1>5
  <2>4. out.v = 16 * S0 + (R0.ah \div 16) /\ out.v \in Byte
    <3>1. out.v = 16 * (R0["ah"] % 16) + (R0["ah"] \div 16)
      BY <1>4, <2>6, Swapped DEF out
    <3>2. S0 = R0.ah % 16
      BY DEF S0
    <3> QED BY <1>a, <1>b, <3>1, <3>2
  <2>5. Registers' /\ R'.ah = out.v /\ R'.al = R.al
    BY <1>1, <1>2, <1>4, <2>3, <2>4, StoredByte
  <2> QED BY <1>1, <1>3, <1>a, <1>5, <2>4, <2>5, <2>6 DEF AtShl4
<1>6. CASE pc = 2
  <2>1. Alu!Current = <<"SWAP", "al", "-">>
    BY <1>1, <1>6, TheBitSequences DEF Alu!Current
  <2> DEFINE out == Alu!INST_SWAP(R["al"], sreg)
  <2>3. Stored("al", out.v) /\ sreg' = out.f
    <3>1. Result(out)
      BY <1>1, <2>1, RunsBits
    <3> QED BY <2>1, <3>1 DEF Result
  <2> HIDE DEF out
  <2>6. R.ah = 16 * S0 + (R0.ah \div 16) /\ R.al = R0.al
    BY <1>6 DEF BitInv, AtShl4
  <2>4. out.v = 16 * Q0 + P0 /\ out.v \in Byte
    <3>1. out.v = 16 * (R0["al"] % 16) + (R0["al"] \div 16)
      BY <1>4, <2>6, Swapped DEF out
    <3>2. P0 = R0.al \div 16 /\ Q0 = R0.al % 16
      BY DEF P0, Q0
    <3> QED BY <1>a, <1>b, <3>1, <3>2
  <2>5. Registers' /\ R'.al = out.v /\ R'.ah = R.ah
    BY <1>1, <1>2, <1>4, <2>3, <2>4, StoredByte
  <2> QED BY <1>1, <1>3, <1>a, <1>6, <2>4, <2>5, <2>6 DEF AtShl4
<1>7. CASE pc = 3
  <2>1. Alu!Current = <<"ANDI", "ah", "F0">>
    BY <1>1, <1>7, TheBitSequences DEF Alu!Current
  <2>2. Source = 240
    BY <2>1 DEF Source, Alu!Operand, Alu!Regs
  <2> DEFINE out == Alu!INST_ANDI(R["ah"], 240, sreg)
  <2>3. Stored("ah", out.v) /\ sreg' = out.f
    <3>1. Result(out)
      BY <1>1, <2>1, <2>2, RunsBits
    <3> QED BY <2>1, <3>1 DEF Result
  <2> HIDE DEF out
  <2>6. R["ah"] = 16 * S0 + (R0.ah \div 16) /\ R["al"] = 16 * Q0 + P0
    BY <1>7 DEF BitInv, AtShl4
  <2>4. out.v = 16 * S0 /\ out.v \in Byte
    <3> DEFINE h == S0
               l == R0.ah \div 16
    <3>1. h \in 0..15 /\ l \in 0..15
      BY <1>a
    <3>2. R["ah"] = 16 * h + l
      BY <2>6
    <3>3. 16 * h \in Byte
      BY <1>b
    <3> HIDE DEF h, l
    <3>4. Alu!INST_ANDI(16 * h + l, 240, sreg).v = 16 * h
      BY <3>1, HighNibble
    <3>5. out.v = 16 * h
      BY <3>2, <3>4 DEF out
    <3> QED BY <3>3, <3>5 DEF h
  <2>5. Registers' /\ R'.ah = out.v /\ R'.al = R.al
    BY <1>1, <1>2, <1>4, <2>3, <2>4, StoredByte
  <2> QED BY <1>1, <1>3, <1>a, <1>7, <2>4, <2>5, <2>6 DEF AtShl4
<1>8. CASE pc = 4
  <2>1. Alu!Current = <<"EOR", "ah", "al">>
    BY <1>1, <1>8, TheBitSequences DEF Alu!Current
  <2>2. Source = R["al"]
    BY <2>1 DEF Source, Alu!Operand, Alu!Regs
  <2> DEFINE out == Alu!INST_EOR(R["ah"], R["al"], sreg)
  <2>3. Stored("ah", out.v) /\ sreg' = out.f
    <3>1. Result(out)
      BY <1>1, <2>1, <2>2, RunsBits
    <3> QED BY <2>1, <3>1 DEF Result
  <2> HIDE DEF out
  <2>6. R["ah"] = 16 * S0 /\ R["al"] = 16 * Q0 + P0
    BY <1>8 DEF BitInv, AtShl4
  <2>4. /\ out.v \in Byte
        /\ \A i \in 0..7 : (Alu!Bit(out.v, i) <=> (Alu!Bit(R["ah"], i) # Alu!Bit(R["al"], i)))
    BY LogicDoes DEF out
  <2>5. Registers' /\ R'.ah = out.v /\ R'.al = R.al
    BY <1>1, <1>2, <1>4, <2>3, <2>4, StoredByte
  <2>7. Crossed(R.ah, 16 * S0, 16 * Q0 + P0)'
    BY <1>a, <2>4, <2>5, <2>6 DEF Crossed
  <2> QED BY <1>1, <1>3, <1>a, <1>8, <2>5, <2>6, <2>7 DEF AtShl4
<1>9. CASE pc = 5
  <2>1. Alu!Current = <<"ANDI", "al", "F0">>
    BY <1>1, <1>9, TheBitSequences DEF Alu!Current
  <2>2. Source = 240
    BY <2>1 DEF Source, Alu!Operand, Alu!Regs
  <2> DEFINE out == Alu!INST_ANDI(R["al"], 240, sreg)
  <2>3. Stored("al", out.v) /\ sreg' = out.f
    <3>1. Result(out)
      BY <1>1, <2>1, <2>2, RunsBits
    <3> QED BY <2>1, <3>1 DEF Result
  <2> HIDE DEF out
  <2>6. R["al"] = 16 * Q0 + P0 /\ Crossed(R["ah"], 16 * S0, 16 * Q0 + P0)
    BY <1>9 DEF BitInv, AtShl4
  <2>4. out.v = 16 * Q0 /\ out.v \in Byte
    <3> DEFINE h == Q0
               l == P0
    <3>1. h \in 0..15 /\ l \in 0..15
      BY <1>a
    <3>2. R["al"] = 16 * h + l
      BY <2>6
    <3>3. 16 * h \in Byte
      BY <1>b
    <3> HIDE DEF h, l
    <3>4. Alu!INST_ANDI(16 * h + l, 240, sreg).v = 16 * h
      BY <3>1, HighNibble
    <3>5. out.v = 16 * h
      BY <3>2, <3>4 DEF out
    <3> QED BY <3>3, <3>5 DEF h
  <2>5. Registers' /\ R'.al = out.v /\ R'.ah = R.ah
    BY <1>1, <1>2, <1>4, <2>3, <2>4, StoredByte
  <2>7. Crossed(R.ah, 16 * S0, 16 * Q0 + P0)'
    BY <1>a, <2>5, <2>6 DEF Crossed
  <2> QED BY <1>1, <1>3, <1>a, <1>9, <2>4, <2>5, <2>7 DEF AtShl4
<1>10. CASE pc = 6
  <2>1. Alu!Current = <<"EOR", "ah", "al">>
    BY <1>1, <1>10, TheBitSequences DEF Alu!Current
  <2>2. Source = R["al"]
    BY <2>1 DEF Source, Alu!Operand, Alu!Regs
  <2> DEFINE out == Alu!INST_EOR(R["ah"], R["al"], sreg)
  <2>3. Stored("ah", out.v) /\ sreg' = out.f
    <3>1. Result(out)
      BY <1>1, <2>1, <2>2, RunsBits
    <3> QED BY <2>1, <3>1 DEF Result
  <2> HIDE DEF out
  <2>6. R["al"] = 16 * Q0 /\ Crossed(R["ah"], 16 * S0, 16 * Q0 + P0)
    BY <1>10 DEF BitInv, AtShl4
  <2>4. out.v = 16 * S0 + P0 /\ out.v \in Byte
    <3>1. Alu!INST_EOR(R["ah"], 16 * Q0, sreg).v = 16 * S0 + P0
      BY <1>c, <2>6, Cancelled
    <3> QED BY <1>b, <2>6, <3>1 DEF out
  <2>5. Registers' /\ R'.ah = out.v /\ R'.al = R.al
    BY <1>1, <1>2, <1>4, <2>3, <2>4, StoredByte
  <2>7. Alu!A1' = (16 * Alu!A0') % 65536
    <3>1. /\ Alu!A1' = 256 * (16 * S0 + P0) + 16 * Q0
          /\ Alu!A0' = 256 * R0.ah + R0.al
      BY <1>1, <2>4, <2>5, <2>6 DEF Alu!A1, Alu!A0, Alu!Word
    <3>2. Alu!A0' = 256 * (16 * (R0.ah \div 16) + S0) + (16 * P0 + Q0)
      BY <1>a, <3>1
    <3>3. 256 * (16 * S0 + P0) + 16 * Q0
            = (16 * (256 * (16 * (R0.ah \div 16) + S0) + (16 * P0 + Q0))) % 65536
      BY <1>c, ShiftedByFour
    <3> QED BY <3>1, <3>2, <3>3
  <2> QED BY <1>1, <1>3, <1>10, <2>5, <2>7 DEF AtShl4
<1> QED BY <1>3, <1>5, <1>6, <1>7, <1>8, <1>9, <1>10

LEMMA StepIsr ==
  ASSUME Flagged(sreg), BitInv, Alu!Step, program = "isr"
  PROVE  Registers' /\ AtIsr' /\ pc' # 1
<1>1. /\ program' = "isr" /\ R0' = R0 /\ pc' = pc + 1 /\ ~(pc > Len(Alu!Programs["isr"]))
      /\ Alu!Arithmetic \/ Alu!LogicAndBits
  BY Stepping
<1>2. Registers /\ (pc = 1 => R = R0) /\ pc \in 1..6
  BY DEF BitInv, AtIsr, WordBits
<1>3. pc \in 1..5 /\ pc' # 1 /\ pc' \in 1..6
  BY <1>1, <1>2, TheBitSequences
<1>4. /\ R.ah \in Byte /\ R.al \in Byte /\ R.bh \in Byte /\ R.bl \in Byte /\ R.n \in Byte
      /\ R0.ah \in Byte /\ R0.al \in Byte /\ R0.bh \in Byte /\ R0.bl \in Byte
      /\ {"ah", "al", "bh", "bl", "n"} \subseteq Alu!Regs
  BY <1>2 DEF Registers, Alu!Regs
<1>a. sreg0' = sreg0 /\ sreg0 \in Alu!Flags
  BY <1>1, <1>2 DEF BitInv, AtIsr, Alu!Step
<1>b. Alu!getSREG(sreg0) \in Byte /\ Alu!updateSREGCache(sreg, Alu!getSREG(sreg0)) = sreg0
  BY <1>a, SregRestored
<1>5. CASE pc = 1
  <2>1. Alu!Current = <<"IN", "n", "SREG">>
    BY <1>1, <1>5, TheBitSequences DEF Alu!Current
  <2>2. Stored("n", Alu!getSREG(sreg)) /\ sreg = sreg0
    BY <1>1, <1>5, <2>1, RunsBits DEF BitInv, AtIsr
  <2>3. Registers' /\ R'.n = Alu!getSREG(sreg0)
    BY <1>1, <1>2, <1>4, <1>b, <2>2, StoredByte
  <2> QED BY <1>1, <1>3, <1>5, <1>a, <2>3 DEF AtIsr
<1>6. CASE pc = 2
  <2>1. Alu!Current = <<"ADD", "al", "bl">>
    BY <1>1, <1>6, TheBitSequences DEF Alu!Current
  <2>2. Source = R["bl"]
    BY <2>1 DEF Source, Alu!Operand, Alu!Regs
  <2> DEFINE out == Alu!INST_ADD(R["al"], R["bl"], sreg)
  <2>3. Stored("al", out.v) /\ sreg' = out.f
    <3>1. Result(out)
      BY <1>1, <2>1, <2>2, Runs
    <3> QED BY <2>1, <3>1 DEF Result
  <2> HIDE DEF out
  <2>4. out.v \in Byte
    BY <1>4, SumIsByte DEF out
  <2>5. Registers' /\ R'.al = out.v /\ R'.n = R.n
    BY <1>1, <1>2, <1>4, <2>3, <2>4, StoredByte
  <2> QED BY <1>1, <1>3, <1>6, <1>a, <2>5 DEF BitInv, AtIsr
<1>7. CASE pc = 3
  <2>1. Alu!Current = <<"BSET", "n", "T">>
    BY <1>1, <1>7, TheBitSequences DEF Alu!Current
  <2>2. Stored("n", R["n"])
    BY <1>1, <2>1, RunsBits
  <2>3. Registers' /\ R'.n = R.n
    BY <1>1, <1>2, <1>4, <2>2, StoredByte
  <2> QED BY <1>1, <1>3, <1>7, <1>a, <2>3 DEF BitInv, AtIsr
<1>8. CASE pc = 4
  <2>1. Alu!Current = <<"BCLR", "n", "Z">>
    BY <1>1, <1>8, TheBitSequences DEF Alu!Current
  <2>2. Stored("n", R["n"])
    BY <1>1, <2>1, RunsBits
  <2>3. Registers' /\ R'.n = R.n
    BY <1>1, <1>2, <1>4, <2>2, StoredByte
  <2> QED BY <1>1, <1>3, <1>8, <1>a, <2>3 DEF BitInv, AtIsr
<1>9. CASE pc = 5
  <2>1. Alu!Current = <<"OUT", "n", "SREG">>
    BY <1>1, <1>9, TheBitSequences DEF Alu!Current
  <2>2. Stored("n", R["n"]) /\ sreg' = Alu!updateSREGCache(sreg, R["n"])
    BY <1>1, <2>1, RunsBits
  <2>3. Registers' /\ R'.n = R.n
    BY <1>1, <1>2, <1>4, <2>2, StoredByte
  <2>4. sreg' = sreg0
    BY <1>9, <1>b, <2>2 DEF BitInv, AtIsr
  <2> QED BY <1>1, <1>3, <1>9, <1>a, <2>3, <2>4 DEF AtIsr
<1> QED BY <1>3, <1>5, <1>6, <1>7, <1>8, <1>9

\* A sequence that is not running asks nothing
LEMMA ElsewhereBits ==
  /\ (program' # "neg" => AtNeg') /\ (program' \notin {"lsr", "asr"} => AtRight')
  /\ (program' # "asrt" => AtSigned') /\ (program' # "test" => AtTest')
  /\ (program' # "same" => AtSame') /\ (program' # "not" => AtNot')
  /\ (program' # "shl4" => AtShl4') /\ (program' # "isr" => AtIsr')
<1>1. (program' # "neg" => AtNeg') /\ (program' \notin {"lsr", "asr"} => AtRight')
  BY DEF AtNeg, AtRight
<1>2. (program' # "asrt" => AtSigned') /\ (program' # "test" => AtTest')
  BY DEF AtSigned, AtTest
<1>3. (program' # "same" => AtSame') /\ (program' # "not" => AtNot')
  BY DEF AtSame, AtNot
<1>4. (program' # "shl4" => AtShl4') /\ (program' # "isr" => AtIsr')
  BY DEF AtShl4, AtIsr
<1> QED BY <1>1, <1>2, <1>3, <1>4

LEMMA LoadedBits ==
  ASSUME AluInv, Alu!Load
  PROVE  BitInv'
<1>1. pc' = 1 /\ R0' = R' /\ sreg0' = sreg' /\ sreg' \in Alu!Flags /\ R' \in [Alu!Regs -> Byte]
  BY LoadsBytes
<1>2. Registers'
  BY <1>1 DEF Registers
<1>3. AtNeg' /\ AtRight' /\ AtSigned' /\ AtTest'
  BY <1>1 DEF AtNeg, AtRight, AtSigned, AtTest
<1>4. AtSame' /\ AtNot' /\ AtShl4' /\ AtIsr'
  BY <1>1 DEF AtSame, AtNot, AtShl4, AtIsr
<1> QED BY <1>1, <1>2, <1>3, <1>4 DEF BitInv

LEMMA SteppedBits ==
  ASSUME AluInv, BitInv, Alu!Step
  PROVE  BitInv'
<1>1. program' = program /\ Flagged(sreg)
  BY Stepping DEF AluInv
<1> SUFFICES /\ (program \in WordBits => Registers' /\ pc' # 1)
             /\ AtNeg' /\ AtRight' /\ AtSigned' /\ AtTest'
             /\ AtSame' /\ AtNot' /\ AtShl4' /\ AtIsr'
  BY <1>1 DEF BitInv
<1>2. CASE program = "neg"
  BY <1>1, <1>2, StepNeg, ElsewhereBits
<1>3. CASE program = "lsr"
  BY <1>1, <1>3, StepLsr, ElsewhereBits
<1>4. CASE program = "asr"
  BY <1>1, <1>4, StepAsr, ElsewhereBits
<1>5. CASE program = "asrt"
  BY <1>1, <1>5, StepSigned, ElsewhereBits
<1>6. CASE program = "test"
  BY <1>1, <1>6, StepTest, ElsewhereBits
<1>7. CASE program = "same"
  BY <1>1, <1>7, StepSame, ElsewhereBits
<1>8. CASE program = "not"
  BY <1>1, <1>8, StepNot, ElsewhereBits
<1>9. CASE program = "shl4"
  BY <1>1, <1>9, StepShl4, ElsewhereBits
<1>10. CASE program = "isr"
  BY <1>1, <1>10, StepIsr, ElsewhereBits
<1>11. CASE program \notin WordBits
  BY <1>1, <1>11, ElsewhereBits DEF WordBits
<1> QED BY <1>2, <1>3, <1>4, <1>5, <1>6, <1>7, <1>8, <1>9, <1>10, <1>11 DEF WordBits

\* Between two sequences there is nothing to remember
LEMMA IdleBits == program = "idle" => BitInv
<1>1. program = "idle" => AtNeg /\ AtRight /\ AtSigned /\ AtTest
  BY DEF AtNeg, AtRight, AtSigned, AtTest
<1>2. program = "idle" => AtSame /\ AtNot /\ AtShl4 /\ AtIsr
  BY DEF AtSame, AtNot, AtShl4, AtIsr
<1> QED BY <1>1, <1>2 DEF BitInv, WordBits

LEMMA UnloadedBits ==
  ASSUME Alu!Unload
  PROVE  BitInv'
<1>1. program' = "idle"
  BY DEF Alu!Unload
<1>2. AtNeg' /\ AtRight' /\ AtSigned' /\ AtTest' /\ AtSame' /\ AtNot' /\ AtShl4' /\ AtIsr'
  BY <1>1, ElsewhereBits
<1> QED BY <1>1, <1>2 DEF BitInv, WordBits

LEMMA BitsKept ==
  ASSUME AluInv, BitInv, [InstNext]_<<part, aluVars, memVars, decVars, disVars>>
  PROVE  BitInv'
<1>1. CASE Bodies
  BY <1>1, LoadedBits, SteppedBits, UnloadedBits DEF Bodies, Alu!Next
<1>2. CASE UNCHANGED aluVars
  <2>1. /\ R' = R /\ sreg' = sreg /\ program' = program /\ pc' = pc /\ R0' = R0
        /\ sreg0' = sreg0
    BY <1>2 DEF aluVars
  <2>2. Alu!A0' = Alu!A0 /\ Alu!A1' = Alu!A1 /\ Alu!B0' = Alu!B0
    BY <2>1 DEF Alu!A0, Alu!A1, Alu!B0
  <2>3. Registers' = Registers
    BY <2>1 DEF Registers
  <2>4. AtNeg'
    BY <2>1, <2>2 DEF BitInv, AtNeg
  <2>5. AtRight' /\ AtSigned'
    BY <2>1, <2>2 DEF BitInv, AtRight, AtSigned, Halved, RightDone, HalfByte, HalfOf
  <2>6. AtTest' /\ AtSame'
    BY <2>1, <2>2 DEF BitInv, AtTest, AtSame
  <2>7. AtNot'
    BY <2>1 DEF BitInv, AtNot, LowAnd, HighOr
  <2>8. AtShl4'
    BY <2>1, <2>2 DEF BitInv, AtShl4, P0, Q0, S0, Crossed
  <2>9. AtIsr'
    BY <2>1 DEF BitInv, AtIsr
  <2> QED BY <2>1, <2>3, <2>4, <2>5, <2>6, <2>7, <2>8, <2>9 DEF BitInv
<1> QED BY <1>1, <1>2 DEF InstNext, Moving, Decoding, Walking

LEMMA BitResults == BitInv => BitsOfWords /\ FlagsSurvive
<1> SUFFICES ASSUME BitInv PROVE BitsOfWords /\ FlagsSurvive
  OBVIOUS
<1>1. /\ Len(Alu!Programs["neg"]) = 3 /\ Len(Alu!Programs["test"]) = 1
      /\ Len(Alu!Programs["same"]) = 3 /\ Len(Alu!Programs["not"]) = 4
      /\ Len(Alu!Programs["lsr"]) = 2 /\ Len(Alu!Programs["asr"]) = 2
      /\ Len(Alu!Programs["asrt"]) = 4 /\ Len(Alu!Programs["shl4"]) = 6
      /\ Len(Alu!Programs["isr"]) = 5
  BY TheBitSequences
<1>2. Alu!Done("neg") => Alu!A1 = (-Alu!A0) % 65536
  <2>1. Alu!Done("neg") => program = "neg" /\ pc > 3
    BY <1>1 DEF Alu!Done, Alu!Finished
  <2> QED BY <2>1 DEF BitInv, AtNeg
<1>3. \A p \in {"lsr", "asr"} : Alu!Done(p) => RightDone(HalfOf(p))
  <2>1. \A p \in {"lsr", "asr"} : Alu!Done(p) => program = p /\ pc > 2
    BY <1>1 DEF Alu!Done, Alu!Finished
  <2> QED BY <2>1 DEF BitInv, AtRight
<1>4. Alu!Done("asrt") => RightDone(HalfOf("asrt"))
  <2>1. Alu!Done("asrt") => program = "asrt" /\ pc > 4
    BY <1>1 DEF Alu!Done, Alu!Finished
  <2> QED BY <2>1 DEF BitInv, AtSigned
<1>5. Alu!Done("shl4") => Alu!A1 = (16 * Alu!A0) % 65536
  <2>1. Alu!Done("shl4") => program = "shl4" /\ pc > 6
    BY <1>1 DEF Alu!Done, Alu!Finished
  <2> QED BY <2>1 DEF BitInv, AtShl4
<1>6. /\ Alu!Done("test") => sreg.Z = (Alu!A0 = 0)
      /\ Alu!Done("same") => sreg.Z = (Alu!A0 = Alu!B0)
  <2>1. (Alu!Done("test") => program = "test" /\ pc > 1) /\ (Alu!Done("same") => program = "same" /\ pc > 3)
    BY <1>1 DEF Alu!Done, Alu!Finished
  <2> QED BY <2>1 DEF BitInv, AtTest, AtSame
<1>7. Alu!Done("not") => LowAnd /\ HighOr
  <2>1. Alu!Done("not") => program = "not" /\ pc > 4
    BY <1>1 DEF Alu!Done, Alu!Finished
  <2> QED BY <2>1 DEF BitInv, AtNot
<1>8. Alu!Done("isr") => sreg = sreg0
  <2>1. Alu!Done("isr") => program = "isr" /\ pc > 5
    BY <1>1 DEF Alu!Done, Alu!Finished
  <2> QED BY <2>1 DEF BitInv, AtIsr
<1>9. BitsOfWords
  <2>1. \A p \in {"lsr", "asr", "asrt"} : Alu!Done(p) =>
          /\ Alu!A1 = IF p = "lsr" THEN Alu!A0 \div 2 ELSE (Alu!SignedWord(Alu!A0) \div 2) % 65536
          /\ sreg.C = (Alu!A0 % 2 = 1)
    BY <1>3, <1>4 DEF RightDone, HalfOf
  <2> QED BY <1>2, <1>5, <1>6, <1>7, <2>1 DEF BitsOfWords, Alu!BitsOfWords, LowAnd, HighOr
<1> QED BY <1>8, <1>9 DEF FlagsSurvive, Alu!FlagsSurvive

LEMMA BitsHold == InstSpec => []BitInv
<1>1. InstInit => BitInv
  <2>1. InstInit => program = "idle"
    BY DEF InstInit, Alu!Init
  <2> QED BY <2>1, IdleBits
<1>2. AluInv /\ BitInv /\ [InstNext]_<<part, aluVars, memVars, decVars, disVars>> => BitInv'
  BY BitsKept
<1>3. AluInv /\ [InstNext]_<<part, aluVars, memVars, decVars, disVars>> => AluInv'
  BY AluKept
<1> QED BY <1>1, <1>2, <1>3, AluStarts, PTL DEF InstSpec

\* COM, NEG and SBCI negate a word, the right shifts halve it and leave the lost
\* bit in C, SWAP with masks shifts it by four, OR and EOR test and compare it,
\* AND, OR and COM work bit by bit, for all operand bytes (InstHandler.cpp
\* INST_COM, INST_NEG, INST_LSR, INST_ROR, INST_ASR, INST_BST, INST_BLD,
\* INST_SWAP, INST_AND, INST_OR, INST_EOR; DataSpace.cpp setFlags_SVNZ).
THEOREM WordsOfBits == InstSpec => []BitsOfWords
BY BitsHold, BitResults, PTL

\* A handler that saves SREG with IN, adds, sets T, clears Z and restores SREG with
\* OUT leaves every flag as it found it, whatever the flags were (DataSpace.cpp
\* getByteAt of SREG, updateSREGCache).
THEOREM FlagsRestored == InstSpec => []FlagsSurvive
BY BitsHold, BitResults, PTL
=============================================================================
