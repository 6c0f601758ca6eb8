--------------------------- MODULE VMControlProofs ---------------------------
(***************************************************************************)
(* Theorems about VMControl, for all scripts, limits, breakpoints and      *)
(* sequences of host calls.                                                *)
(*                                                                         *)
(* The invariants about the stacks only depend on what a step does to the  *)
(* invocation stack and to the two current stacks, so StepShape first      *)
(* reduces every action to one of five shapes (Keeps, Grows, Replaces,     *)
(* Returns, Resets), and the inductive invariant FramesInv is proved shape *)
(* by shape.                                                               *)
(***************************************************************************)
EXTENDS VMControl, SequenceTheorems, TLAPS

-----------------------------------------------------------------------------
(* Sequences                                                               *)

\* What putting an element on top of a stack gives.
LEMMA ConsProperties ==
  ASSUME NEW S, NEW c \in S, NEW t \in Seq(S)
  PROVE  /\ <<c>> \o t \in Seq(S)
         /\ Len(<<c>> \o t) = Len(t) + 1
         /\ (<<c>> \o t)[1] = c
         /\ \A i \in 1..Len(t) : (<<c>> \o t)[i + 1] = t[i]
         /\ <<c>> \o t # <<>>
  OBVIOUS

\* What taking the top off a stack gives.
LEMMA TailProperties ==
  ASSUME NEW S, NEW s \in Seq(S), s # <<>>
  PROVE  /\ Tail(s) \in Seq(S)
         /\ Len(s) \in Nat /\ Len(s) >= 1
         /\ Len(Tail(s)) = Len(s) - 1
         /\ s[1] \in S /\ Head(s) = s[1]
         /\ \A i \in 1..(Len(s) - 1) : Tail(s)[i] = s[i + 1]
  OBVIOUS

\* Take and Drop of a stack of items are stacks of items.
LEMMA TakeDropType ==
  ASSUME NEW S, NEW s \in Seq(S), NEW n \in Nat, n <= Len(s)
  PROVE  Take(s, n) \in Seq(S) /\ Drop(s, n) \in Seq(S)
  BY DEF Take, Drop

-----------------------------------------------------------------------------
(* Types                                                                   *)

\* The instruction to execute is one, and its context goes on as a context.
LEMMA FetchType ==
  ASSUME TypeOK, istack # <<>>
  PROVE  /\ ctx \in Context /\ callers \in Seq(Context)
         /\ instr \in Instruction /\ moved \in Context
         /\ prog \in Seq(Instruction)
         /\ Advanced \in Seq(Context)
<1>1. ctx \in Context /\ callers \in Seq(Context)
  BY DEF TypeOK, ctx, callers
<1>2. prog \in Seq(Instruction)
  BY <1>1 DEF TypeOK, prog, Context, Script
<1>3. ctx.nextip \in Nat /\ Len(prog) \in Nat
  BY <1>1, <1>2 DEF Context
<1>4. instr \in Instruction
  <2>1. CASE PastEnd
    BY <2>1 DEF instr, Instruction
  <2>2. CASE ~PastEnd
    <3>1. ctx.nextip + 1 \in 1..Len(prog)
      BY <1>3, <2>2 DEF PastEnd
    <3> QED BY <1>2, <2>2, <3>1 DEF instr
  <2> QED BY <2>1, <2>2
<1>5. moved \in Context
  <2> DEFINE n == IF PastEnd THEN ctx.nextip ELSE ctx.nextip + 1
  <2>1. n \in Nat
    BY <1>3
  <2>2. moved = [ctx EXCEPT !.ip = ctx.nextip, !.nextip = n]
    BY <1>1 DEF moved, Context
  <2> HIDE DEF n
  <2> QED BY <1>1, <1>3, <2>1, <2>2 DEF Context
<1>6. Advanced \in Seq(Context)
  BY <1>1, <1>5 DEF Advanced
<1> QED BY <1>1, <1>2, <1>4, <1>5, <1>6

LEMMA ZeroWord == 0 \in Words
  BY MaxInt64Assumption DEF Words

\* What is spent is an int64.
LEMMA Int64Type ==
  ASSUME NEW n \in Int
  PROVE  Int64(n) \in Words
  BY MaxInt64Assumption DEF Int64, Words

LEMMA SpentType ==
  ASSUME TypeOK, istack # <<>>, ~Unpriced
  PROVE  Spent \in Words
<1>1. gas \in Words /\ gas \in Int
  BY MaxInt64Assumption DEF TypeOK, Words
<1>2. Price \in Int
  <2>1. CASE instr.op = "RENEW"
    <3>1. stacks[estack] \in Seq(Item) /\ Len(stacks[estack]) >= 2
      BY <2>1 DEF TypeOK, Unpriced
    <3>2. Years \in Item
      BY <3>1 DEF Years
    <3>3. RenewalPrice[Years] \in Int
      BY <3>2, RenewalAssumption, MaxInt64Assumption DEF Words
    <3> QED BY <2>1, <3>3 DEF Price
  <2>2. CASE instr.op # "RENEW"
    BY <2>2 DEF Price
  <2> QED BY <2>1, <2>2
<1>3. gas + Price \in Int
  BY <1>1, <1>2
<1>4. Int64(gas + Price) \in Words
  BY <1>3, Int64Type
<1> QED BY <1>1, <1>4 DEF Spent

\* The parameters of each kind of instruction.
LEMMA ParameterTypes ==
  ASSUME instr \in Instruction
  PROVE  /\ instr.op = "PUSH" => instr.item \in Item
         /\ instr.op \in {"JMP", "JMPIF", "CALL", "CALLI"} => instr.target \in Int
         /\ instr.op \in {"APPCALL", "TAILCALL"} => instr.hash \in Hashes \union {"zero"}
         /\ instr.op \in {"CALLE", "CALLET"} => instr.hash \in Hashes
         /\ instr.op \in {"CALLI", "CALLE", "CALLET", "CALLED", "CALLEDT"} =>
              instr.rvcount \in Nat /\ instr.pcount \in Nat
  BY DEF Instruction

\* TypeOK in two: what an instruction does to the stacks, and the rest.
FrameTypes ==
  /\ istack \in Seq(Context)
  /\ stacks \in [StackIds -> Seq(Item)]
  /\ estack \in StackIds /\ astack \in StackIds
  /\ size \in Int
OtherTypes ==
  /\ code \in [Scripts -> Script]
  /\ state \in SUBSET Flags
  /\ entryStack \in StackIds
  /\ gas \in Words
  /\ mode \in {"host", "Run", "StepInto", "StepOut", "StepOver", "CheckStepOver"}
  /\ expSize \in Nat
  /\ failed \in BOOLEAN

LEMMA TypesSplitNext == TypeOK' <=> FrameTypes' /\ OtherTypes'
  BY DEF TypeOK, FrameTypes, OtherTypes

\* How an instruction ends: with a panic or not.
Ends == Panicked \/ Done(state) \/ Done({"HALT"})

LEMMA EndTypes ==
  ASSUME TypeOK, Executes, Ends, gas' \in Words
  PROVE  OtherTypes'
<1>1. mode \in {"Run", "StepInto", "StepOver", "StepOut"}
  BY DEF Executes
<1>2. Leaves
  BY DEF Ends, Panicked, Done
<1>3. /\ mode' \in {"host", "Run", "StepInto", "StepOut", "StepOver", "CheckStepOver"}
      /\ code' = code /\ expSize' = expSize /\ entryStack' = entryStack
  BY <1>1, <1>2 DEF Leaves, AfterStepInto
<1>4. state' \in SUBSET Flags
  <2>1. CASE Panicked
    BY <2>1 DEF Panicked, Flags
  <2>2. ASSUME NEW s \in SUBSET Flags, Done(s) PROVE state' \in SUBSET Flags
    <3>1. \/ state' = {"FAULT"} \/ state' = {"BREAK"} \/ state' = s
      BY <2>2 DEF Done
    <3> QED BY <3>1 DEF Flags
  <2>3. state \in SUBSET Flags /\ {"HALT"} \in SUBSET Flags
    BY DEF TypeOK, Flags
  <2> QED BY <2>1, <2>2, <2>3 DEF Ends
<1>5. failed' \in BOOLEAN
  BY Zenon DEF TypeOK, Ends, Panicked, Done
<1> QED BY <1>3, <1>4, <1>5 DEF TypeOK, OtherTypes

LEMMA PanicFrameTypes ==
  ASSUME TypeOK, istack # <<>>, NEW items \in Seq(Item), NEW sz \in Int, PanicWith(items, sz)
  PROVE  FrameTypes' /\ Ends
<1>1. Advanced \in Seq(Context)
  BY FetchType
<1> QED BY <1>1 DEF PanicWith, FrameTypes, TypeOK, Ends

\* A panic leaves the evaluation stack as it is.
LEMMA PlainPanicFrameTypes ==
  ASSUME TypeOK, istack # <<>>, Panic
  PROVE  FrameTypes' /\ Ends
<1>1. stacks[estack] \in Seq(Item) /\ size \in Int
  BY DEF TypeOK
<1> QED BY <1>1, PanicFrameTypes DEF Panic

LEMMA ChargedFacts ==
  ASSUME TypeOK, NEW ops, Charged(ops)
  PROVE  istack # <<>> /\ Executes /\ gas' \in Words /\ instr.op \in ops
<1>1. istack # <<>> /\ Executes
  BY DEF Charged, Executes
<1> QED BY <1>1, SpentType DEF Charged

\* The two new stacks are nobody's.
LEMMA FreshStacks ==
  ASSUME HasFresh
  PROVE  /\ NewAlt \in StackIds \ Live
         /\ NewEval \in StackIds \ Live
         /\ NewEval # NewAlt
<1>1. \E s \in StackIds : s \notin Live
  BY StackIdsAssumption DEF HasFresh
<1>2. NewAlt \in StackIds /\ NewAlt \notin Live
  BY <1>1 DEF NewAlt
<1>3. \E s \in StackIds : s \notin Live \union {NewAlt}
  BY <1>2 DEF HasFresh
<1>4. NewEval \in StackIds /\ NewEval \notin Live \union {NewAlt}
  BY <1>3 DEF NewEval
<1> QED BY <1>2, <1>4

\* A jump inside the script leaves a context a context.
LEMMA JumpType ==
  ASSUME TypeOK, istack # <<>>, NEW c \in Context, NEW n \in Int
  PROVE  /\ JumpTo(c, n) \in Context
         /\ JumpTo(c, n).es = c.es /\ JumpTo(c, n).as = c.as /\ JumpTo(c, n).dyn = c.dyn
         /\ JumpTo(c, n).script = c.script /\ JumpTo(c, n).rvcount = c.rvcount
<1>1. ValidOffset(n) => n \in Nat
  <2>1. Len(prog) \in Nat
    BY FetchType
  <2> QED BY <2>1 DEF ValidOffset
<1> QED BY <1>1 DEF JumpTo, Context

LEMMA NewContextType ==
  ASSUME NEW h \in Scripts, NEW es \in StackIds, NEW as \in StackIds, NEW rv \in Int,
         NEW dyn \in BOOLEAN
  PROVE  /\ NewContext(h, es, as, rv, dyn) \in Context
         /\ NewContext(h, es, as, rv, dyn).es = es /\ NewContext(h, es, as, rv, dyn).as = as
         /\ NewContext(h, es, as, rv, dyn).script = h
         /\ NewContext(h, es, as, rv, dyn).rvcount = rv
         /\ NewContext(h, es, as, rv, dyn).dyn = dyn
  BY LimitsAssumption DEF NewContext, Context

\* Changing what two stacks hold leaves the stacks well typed.
LEMMA StacksType ==
  ASSUME NEW ss \in [StackIds -> Seq(Item)], NEW s \in StackIds, NEW items \in Seq(Item)
  PROVE  [ss EXCEPT ![s] = items] \in [StackIds -> Seq(Item)]
  OBVIOUS

LEMMA TwoStacksType ==
  ASSUME NEW ss \in [StackIds -> Seq(Item)], NEW s \in StackIds, NEW t \in StackIds,
         NEW a \in Seq(Item), NEW b \in Seq(Item)
  PROVE  [ss EXCEPT ![s] = a, ![t] = b] \in [StackIds -> Seq(Item)]
  OBVIOUS

LEMMA NoItems == <<>> \in Seq(Item)
  OBVIOUS

LEMMA ConcatType ==
  ASSUME NEW S, NEW s \in Seq(S), NEW t \in Seq(S)
  PROVE  s \o t \in Seq(S)
  OBVIOUS

\* A copy of a context for a new frame.
LEMMA SharedCopyType ==
  ASSUME NEW c \in Context, NEW rv \in Int, NEW as \in StackIds
  PROVE  LET d == [c EXCEPT !.rvcount = rv, !.as = as]
         IN d \in Context /\ d.rvcount = rv /\ d.es = c.es /\ d.as = as
              /\ d.script = c.script /\ d.dyn = c.dyn
  BY DEF Context
LEMMA IsolatedCopyType ==
  ASSUME NEW c \in Context, NEW rv \in Int, NEW es \in StackIds, NEW as \in StackIds
  PROVE  LET d == [c EXCEPT !.rvcount = rv, !.es = es, !.as = as]
         IN d \in Context /\ d.rvcount = rv /\ d.es = es /\ d.as = as
              /\ d.script = c.script /\ d.dyn = c.dyn
  BY DEF Context

LEMMA ComputeTypes ==
  ASSUME TypeOK, Nop \/ Renew \/ Push \/ PopOne \/ ToAltStack \/ FromAltStack \/ Jump \/ JumpIf
  PROVE  FrameTypes' /\ Ends /\ Executes /\ gas' \in Words
<1> USE DEF Ends
<1>0. /\ estack \in StackIds /\ astack \in StackIds /\ size \in Int
      /\ stacks \in [StackIds -> Seq(Item)]
      /\ stacks[estack] \in Seq(Item) /\ stacks[astack] \in Seq(Item)
  BY DEF TypeOK
<1>1. CASE Nop \/ Renew
  <2>1. istack # <<>> /\ Executes /\ gas' \in Words
    BY <1>1, ChargedFacts DEF Nop, Renew
  <2> QED BY <1>0, <1>1, <2>1, FetchType DEF Nop, Renew, FrameTypes
<1>2. CASE Push
  <2>1. istack # <<>> /\ Executes /\ gas' \in Words /\ instr.op \in {"PUSH"}
    BY <1>2, ChargedFacts DEF Push
  <2>2. instr.item \in Item /\ Advanced \in Seq(Context)
    BY <2>1, FetchType, ParameterTypes
  <2>3. <<instr.item>> \o stacks[estack] \in Seq(Item)
    BY <1>0, <2>2, ConsProperties
  <2> QED BY <1>0, <1>2, <2>1, <2>2, <2>3, StacksType DEF Push, FrameTypes
<1>3. CASE PopOne
  <2>1. istack # <<>> /\ Executes /\ gas' \in Words
    BY <1>3, ChargedFacts DEF PopOne
  <2>2. Advanced \in Seq(Context)
    BY <2>1, FetchType
  <2>3. CASE Panic
    BY <2>1, <2>3, PlainPanicFrameTypes
  <2>4. CASE stacks[estack] # <<>> /\ ~Panic
    <3>1. Tail(stacks[estack]) \in Seq(Item)
      BY <1>0, <2>4
    <3>2. CASE PanicWith(Tail(stacks[estack]), size - 1)
      <4>1. size - 1 \in Int
        BY <1>0
      <4> QED BY <2>1, <3>1, <3>2, <4>1, PanicFrameTypes
    <3>3. CASE /\ istack' = Advanced /\ stacks' = [stacks EXCEPT ![estack] = Tail(@)]
               /\ size' = size - 1 /\ UNCHANGED <<estack, astack>> /\ Done(state)
      <4>1. stacks' = [stacks EXCEPT ![estack] = Tail(stacks[estack])]
        BY <3>3
      <4>2. stacks' \in [StackIds -> Seq(Item)]
        BY <1>0, <3>1, <4>1, StacksType
      <4>3. FrameTypes'
        BY <1>0, <2>2, <3>3, <4>2 DEF FrameTypes
      <4> QED BY <2>1, <3>3, <4>3
    <3> QED BY <1>3, <2>1, <2>4, <3>2, <3>3 DEF PopOne
  <2> QED BY <1>3, <2>1, <2>3, <2>4 DEF PopOne
<1>4. ASSUME NEW from \in StackIds, NEW to \in StackIds, istack # <<>>, MoveTop(from, to)
      PROVE  FrameTypes' /\ Ends
  <2>1. CASE stacks[from] = <<>>
    BY <1>4, <2>1, PlainPanicFrameTypes DEF MoveTop
  <2>2. CASE stacks[from] # <<>>
    <3>1. Tail(stacks[from]) \in Seq(Item) /\ Head(stacks[from]) \in Item
      BY <1>0, <2>2
    <3>2. DEFINE ss == [stacks EXCEPT ![from] = Tail(@)]
    <3>3. ss \in [StackIds -> Seq(Item)]
      BY <1>0, <3>1
    <3>4. \A i \in Seq(Item) : <<Head(stacks[from])>> \o i \in Seq(Item)
      BY <3>1, ConsProperties
    <3>5. stacks' = [ss EXCEPT ![to] = <<Head(stacks[from])>> \o @]
      BY <1>4, <2>2 DEF MoveTop
    <3>6. stacks' \in [StackIds -> Seq(Item)]
      <4> HIDE DEF ss
      <4> QED BY <3>3, <3>4, <3>5
    <3> QED BY <1>0, <1>4, <2>2, <3>6, FetchType DEF MoveTop, FrameTypes
  <2> QED BY <2>1, <2>2
<1>5. CASE ToAltStack
  <2>1. istack # <<>> /\ Executes /\ gas' \in Words
    BY <1>5, ChargedFacts DEF ToAltStack
  <2> QED BY <1>0, <1>4, <1>5, <2>1 DEF ToAltStack
<1>6. CASE FromAltStack
  <2>1. istack # <<>> /\ Executes /\ gas' \in Words
    BY <1>6, ChargedFacts DEF FromAltStack
  <2> QED BY <1>0, <1>4, <1>6, <2>1 DEF FromAltStack
<1>7. ASSUME istack # <<>>, instr.op \in {"JMP", "JMPIF"}
      PROVE  <<JumpTo(moved, instr.target)>> \o callers \in Seq(Context)
  <2>1. moved \in Context /\ callers \in Seq(Context) /\ instr.target \in Int
    BY <1>7, FetchType, ParameterTypes
  <2>2. JumpTo(moved, instr.target) \in Context
    BY <1>7, <2>1, JumpType
  <2> QED BY <2>1, <2>2, ConsProperties
<1>8. CASE Jump
  <2>1. istack # <<>> /\ Executes /\ gas' \in Words /\ instr.op \in {"JMP"}
    BY <1>8, ChargedFacts DEF Jump
  <2>2. CASE Panic
    BY <2>1, <2>2, PlainPanicFrameTypes
  <2>3. CASE ~Panic
    BY <1>0, <1>7, <1>8, <2>1, <2>3 DEF Jump, FrameTypes
  <2> QED BY <2>1, <2>2, <2>3
<1>9. CASE JumpIf
  <2>1. istack # <<>> /\ Executes /\ gas' \in Words /\ instr.op \in {"JMPIF"}
    BY <1>9, ChargedFacts DEF JumpIf
  <2>2. CASE Panic
    BY <2>1, <2>2, PlainPanicFrameTypes
  <2>3. CASE ~Panic
    <3>1. stacks[estack] # <<>>
      BY <1>9, <2>3 DEF JumpIf
    <3>2. Tail(stacks[estack]) \in Seq(Item)
      BY <1>0, <3>1
    <3>3. Advanced \in Seq(Context)
      BY <2>1, FetchType
    <3>4. istack' \in Seq(Context)
      BY <1>7, <1>9, <2>1, <2>3, <3>3 DEF JumpIf
    <3>5. /\ stacks' = [stacks EXCEPT ![estack] = Tail(stacks[estack])]
          /\ size' = size - 1 /\ UNCHANGED <<estack, astack>> /\ Done(state)
      BY <1>9, <2>3 DEF JumpIf
    <3>6. stacks' \in [StackIds -> Seq(Item)]
      BY <1>0, <3>2, <3>5, StacksType
    <3>7. FrameTypes'
      BY <1>0, <3>4, <3>5, <3>6 DEF FrameTypes
    <3> QED BY <2>1, <3>5, <3>7
  <2> QED BY <2>1, <2>2, <2>3
<1> QED BY <1>1, <1>2, <1>3, <1>5, <1>6, <1>8, <1>9

LEMMA CallTypes ==
  ASSUME TypeOK, Call
  PROVE  FrameTypes' /\ Ends /\ Executes /\ gas' \in Words
<1>1. istack # <<>> /\ Executes /\ gas' \in Words /\ instr.op \in {"CALL"}
  BY ChargedFacts DEF Call
<1>2. CASE Panic
  BY <1>1, <1>2, PlainPanicFrameTypes
<1>3. CASE ~Panic
  <2> DEFINE c == [moved EXCEPT !.rvcount = -1, !.as = NewAlt]
             d == JumpTo(c, instr.target)
  <2>1. /\ HasFresh
        /\ istack' = <<d>> \o Advanced
        /\ stacks' = [stacks EXCEPT ![NewAlt] = <<>>]
        /\ astack' = NewAlt /\ estack' = estack /\ size' = size
        /\ Done(state) \/ Panicked
    BY <1>3 DEF Call
  <2>2. NewAlt \in StackIds
    BY <2>1, FreshStacks
  <2>3. moved \in Context /\ Advanced \in Seq(Context) /\ instr.target \in Int
    BY <1>1, FetchType, ParameterTypes
  <2>4. c \in Context
    <3>1. -1 \in Int
      OBVIOUS
    <3> QED BY <2>2, <2>3, <3>1, SharedCopyType
  <2> HIDE DEF c
  <2>5. d \in Context
    BY <1>1, <2>3, <2>4, JumpType
  <2> HIDE DEF d
  <2>6. istack' \in Seq(Context)
    BY <2>1, <2>3, <2>5, ConsProperties
  <2>7. stacks' \in [StackIds -> Seq(Item)]
    BY <2>1, <2>2 DEF TypeOK
  <2>8. FrameTypes'
    BY <2>1, <2>2, <2>6, <2>7 DEF FrameTypes, TypeOK
  <2> QED BY <1>1, <2>1, <2>8 DEF Ends
<1> QED BY <1>2, <1>3

LEMMA AppCallTypes ==
  ASSUME TypeOK, AppCall
  PROVE  FrameTypes' /\ Ends /\ Executes /\ gas' \in Words
<1> DEFINE dynamic == instr.hash = "zero"
           items == stacks[estack]
           hash == IF dynamic THEN Head(items) ELSE instr.hash
           rest == IF dynamic THEN Tail(items) ELSE items
           left == IF dynamic THEN size - 1 ELSE size
           d == NewContext(hash, estack, NewAlt, -1, code[hash].dyn)
<1>1. istack # <<>> /\ Executes /\ gas' \in Words /\ instr.op \in {"APPCALL", "TAILCALL"}
  BY ChargedFacts DEF AppCall
<1>2. CASE dynamic /\ items = <<>>
  <2>1. Panic
    BY <1>2 DEF AppCall
  <2> QED BY <1>1, <2>1, PlainPanicFrameTypes
<1>3. CASE ~(dynamic /\ items = <<>>)
  <2>1. items \in Seq(Item) /\ size \in Int /\ estack \in StackIds
    BY DEF TypeOK
  <2>2. rest \in Seq(Item) /\ left \in Int
    BY <1>3, <2>1
  <2>3. CASE PanicWith(rest, left)
    <3> HIDE DEF rest, left
    <3> QED BY <1>1, <2>2, <2>3, PanicFrameTypes
  <2>4. CASE ~PanicWith(rest, left)
    <3>1. /\ hash \in Scripts
          /\ HasFresh
          /\ istack' = <<d>> \o (IF instr.op = "APPCALL" THEN Advanced ELSE callers)
          /\ stacks' = [stacks EXCEPT ![estack] = rest, ![NewAlt] = <<>>]
          /\ astack' = NewAlt /\ size' = left /\ estack' = estack
          /\ Done(state)
      BY <1>3, <2>4, Zenon DEF AppCall
    <3>2. NewAlt \in StackIds /\ Advanced \in Seq(Context) /\ callers \in Seq(Context)
      BY <1>1, <3>1, FreshStacks, FetchType
    <3>3. code[hash].dyn \in BOOLEAN
      BY <3>1 DEF TypeOK, Script
    <3>4. d \in Context
      <4> HIDE DEF hash
      <4>1. -1 \in Int
        OBVIOUS
      <4> QED BY <2>1, <3>1, <3>2, <3>3, <4>1, NewContextType
    <3> HIDE DEF d, rest, left, hash
    <3>5. istack' \in Seq(Context)
      BY <3>1, <3>2, <3>4, ConsProperties
    <3>6. stacks' \in [StackIds -> Seq(Item)]
      BY <2>1, <2>2, <3>1, <3>2, NoItems, TwoStacksType DEF TypeOK
    <3>7. FrameTypes'
      BY <2>1, <2>2, <3>1, <3>2, <3>5, <3>6 DEF FrameTypes
    <3> QED BY <1>1, <3>1, <3>7 DEF Ends
  <2> QED BY <2>3, <2>4
<1> QED BY <1>2, <1>3

LEMMA ReturnTypes ==
  ASSUME TypeOK, Return
  PROVE  FrameTypes' /\ Ends /\ Executes /\ gas' \in Words
<1>1. istack # <<>> /\ Executes /\ gas' \in Words
  BY ChargedFacts DEF Return
<1>2. /\ ctx \in Context /\ callers \in Seq(Context) /\ istack' = callers /\ size' = size
      /\ ctx.rvcount \in Int /\ ctx.as \in StackIds
  BY <1>1, FetchType DEF Return, Context
<1>3. CASE UNCHANGED <<stacks, estack, astack>> /\ (Panicked \/ Done({"HALT"}))
  BY <1>1, <1>2, <1>3 DEF FrameTypes, TypeOK, Ends
<1>4. CASE /\ ~(ctx.rvcount > 0 /\ Len(stacks[estack]) < ctx.rvcount)
           /\ callers # <<>>
  <2> DEFINE es == callers[1].es
             as == callers[1].as
             n == IF ctx.rvcount < 0 THEN Len(stacks[estack]) ELSE ctx.rvcount
  <2>1. /\ stacks' = Returned(es, as) /\ estack' = es /\ astack' = as /\ Done(state)
    BY <1>4 DEF Return, Resume
  <2>2. es \in StackIds /\ as \in StackIds
    <3>1. callers[1] \in Context
      BY <1>2, <1>4, TailProperties
    <3> QED BY <3>1 DEF Context
  <2>3. /\ stacks \in [StackIds -> Seq(Item)] /\ estack \in StackIds
        /\ stacks[estack] \in Seq(Item) /\ Len(stacks[estack]) \in Nat
        /\ stacks[es] \in Seq(Item) /\ stacks[as] \in Seq(Item) /\ stacks[ctx.as] \in Seq(Item)
    BY <1>2, <2>2 DEF TypeOK
  <2>4. n \in Nat /\ n <= Len(stacks[estack])
    BY <1>2, <1>4, <2>3
  <2> HIDE DEF es, as
  <2>5. Returned(es, as) \in [StackIds -> Seq(Item)]
    <3>1. CASE estack # es
      <4>1. Take(stacks[estack], n) \in Seq(Item) /\ Drop(stacks[estack], n) \in Seq(Item)
        <5> HIDE DEF n
        <5> QED BY <2>3, <2>4, TakeDropType
      <4>2. Take(stacks[estack], n) \o stacks[es] \in Seq(Item)
        BY <2>3, <4>1
      <4>3. Returned(es, as) = [stacks EXCEPT ![es] = Take(stacks[estack], n) \o stacks[es],
                                               ![estack] = Drop(stacks[estack], n)]
        BY <2>2, <2>3, <3>1 DEF Returned
      <4> HIDE DEF n
      <4> QED BY <2>2, <2>3, <4>1, <4>2, <4>3, TwoStacksType
    <3>2. CASE ~(estack # es)
      <4>1. stacks[ctx.as] \o stacks[as] \in Seq(Item)
        BY <2>3, ConcatType
      <4>2. \/ Returned(es, as) = stacks
            \/ Returned(es, as) = [stacks EXCEPT ![as] = stacks[ctx.as] \o stacks[as],
                                                  ![ctx.as] = <<>>]
        BY <2>2, <2>3, <3>2 DEF Returned
      <4> QED BY <1>2, <2>2, <2>3, <4>1, <4>2, NoItems, TwoStacksType
    <3> QED BY <3>1, <3>2
  <2>6. FrameTypes'
    BY <1>2, <2>1, <2>2, <2>5 DEF FrameTypes, TypeOK
  <2> QED BY <1>1, <2>1, <2>6 DEF Ends
<1> QED BY <1>3, <1>4 DEF Return

LEMMA CallIsolatedTypes ==
  ASSUME TypeOK, CallIsolated
  PROVE  FrameTypes' /\ Ends /\ Executes /\ gas' \in Words
<1> DEFINE onStack == instr.op \in {"CALLED", "CALLEDT"}
           tail == instr.op \in {"CALLET", "CALLEDT"}
           items == IF onStack THEN Tail(stacks[estack]) ELSE stacks[estack]
           left == IF onStack THEN size - 1 ELSE size
           hash == IF onStack THEN Head(stacks[estack]) ELSE instr.hash
           copy == [moved EXCEPT !.rvcount = instr.rvcount, !.es = NewEval, !.as = NewAlt]
           frame == IF instr.op = "CALLI" THEN JumpTo(copy, instr.target)
                    ELSE NewContext(hash, NewEval, NewAlt, instr.rvcount, code[hash].dyn)
           missing == \/ onStack /\ ~ctx.dyn
                      \/ Len(stacks[estack]) < instr.pcount + (IF onStack THEN 1 ELSE 0)
                      \/ tail /\ ctx.rvcount # instr.rvcount
                      \/ ~tail /\ IstackFull
           lost == instr.op # "CALLI" /\ hash \notin Scripts
<1>1. /\ istack # <<>> /\ Executes /\ gas' \in Words
      /\ instr.op \in {"CALLI", "CALLE", "CALLED", "CALLET", "CALLEDT"}
  BY ChargedFacts DEF CallIsolated
<1>2. /\ instr.rvcount \in Nat /\ instr.pcount \in Nat
      /\ instr.op = "CALLI" => instr.target \in Int
      /\ moved \in Context /\ Advanced \in Seq(Context) /\ callers \in Seq(Context)
  BY <1>1, FetchType, ParameterTypes
<1>3. stacks[estack] \in Seq(Item) /\ size \in Int /\ estack \in StackIds
  BY DEF TypeOK
<1>4. CASE missing
  <2>1. Panic
    BY <1>4 DEF CallIsolated
  <2> QED BY <1>1, <2>1, PlainPanicFrameTypes
<1>5. CASE ~missing
  <2>1. items \in Seq(Item) /\ left \in Int /\ instr.pcount <= Len(items)
    <3>1. CASE onStack
      <4>1. Len(stacks[estack]) >= instr.pcount + 1 /\ stacks[estack] # <<>>
        BY <1>2, <1>3, <1>5, <3>1
      <4> QED BY <1>2, <1>3, <3>1, <4>1, TailProperties
    <3>2. CASE ~onStack
      BY <1>2, <1>3, <1>5, <3>2
    <3> QED BY <3>1, <3>2
  <2>2. CASE lost
    <3>1. PanicWith(items, left)
      BY <1>5, <2>2 DEF CallIsolated
    <3> HIDE DEF items, left
    <3> QED BY <1>1, <2>1, <3>1, PanicFrameTypes
  <2>3. CASE ~lost
    <3>1. /\ HasFresh
          /\ istack' = <<frame>> \o (IF tail THEN callers ELSE Advanced)
          /\ stacks' = [stacks EXCEPT ![estack] = Drop(items, instr.pcount),
                                      ![NewEval] = Take(items, instr.pcount),
                                      ![NewAlt] = <<>>]
          /\ estack' = NewEval /\ astack' = NewAlt /\ size' = left
          /\ Panicked \/ Done(state)
      BY <1>5, <2>3, Zenon DEF CallIsolated
    <3>2. NewAlt \in StackIds /\ NewEval \in StackIds
      BY <3>1, FreshStacks
    <3>3. frame \in Context
      <4>1. CASE instr.op = "CALLI"
        <5>1. copy \in Context
          <6>1. instr.rvcount \in Int
            BY <1>2
          <6> QED BY <1>2, <3>2, <6>1, IsolatedCopyType
        <5> HIDE DEF copy
        <5> QED BY <1>1, <1>2, <4>1, <5>1, JumpType
      <4>2. CASE instr.op # "CALLI"
        <5>1. hash \in Scripts /\ instr.rvcount \in Int
          BY <1>2, <2>3, <4>2
        <5>2. code[hash].dyn \in BOOLEAN
          BY <5>1 DEF TypeOK, Script
        <5>3. frame = NewContext(hash, NewEval, NewAlt, instr.rvcount, code[hash].dyn)
          BY <4>2
        <5> HIDE DEF hash, frame
        <5> QED BY <3>2, <5>1, <5>2, <5>3, NewContextType
      <4> QED BY <4>1, <4>2
    <3>4. Drop(items, instr.pcount) \in Seq(Item) /\ Take(items, instr.pcount) \in Seq(Item)
      <4> HIDE DEF items
      <4> QED BY <1>2, <2>1, TakeDropType
    <3> HIDE DEF frame, items, left, hash, tail, onStack
    <3>5. istack' \in Seq(Context)
      BY <1>2, <3>1, <3>3, ConsProperties
    <3>6. stacks' \in [StackIds -> Seq(Item)]
      BY <1>3, <3>1, <3>2, <3>4, NoItems, StacksType, TwoStacksType DEF TypeOK
    <3>7. FrameTypes'
      BY <2>1, <3>1, <3>2, <3>5, <3>6 DEF FrameTypes
    <3> QED BY <1>1, <3>1, <3>7 DEF Ends
  <2> QED BY <2>2, <2>3
<1> QED BY <1>4, <1>5

LEMMA FailedFetchTypes ==
  ASSUME TypeOK, FailUnpriced \/ OutOfGas
  PROVE  FrameTypes' /\ Ends /\ Executes /\ gas' \in Words
<1>1. Executes /\ Panic /\ (gas' = gas \/ (~Unpriced /\ gas' = Spent))
  BY DEF FailUnpriced, OutOfGas
<1>2. istack # <<>>
  BY <1>1 DEF Executes
<1>3. gas' \in Words
  BY <1>1, <1>2, SpentType DEF TypeOK
<1> QED BY <1>1, <1>2, <1>3, PlainPanicFrameTypes

LEMMA ExecuteTypes ==
  ASSUME TypeOK, Execute
  PROVE  TypeOK' /\ Ends /\ Executes
<1>1. FrameTypes' /\ Ends /\ Executes /\ gas' \in Words
  BY FailedFetchTypes, ComputeTypes, CallTypes, AppCallTypes, CallIsolatedTypes, ReturnTypes
     DEF Execute
<1>2. OtherTypes'
  BY <1>1, EndTypes
<1> QED BY <1>1, <1>2, TypesSplitNext

LEMMA LoopTypes ==
  ASSUME TypeOK, RunEnd \/ StepIntoStopped \/ StepOutEnd \/ StepOverEnd
  PROVE  TypeOK'
<1>1. UNCHANGED <<code, frames, gas, expSize, failed, entryStack>>
  BY DEF RunEnd, StepIntoStopped, StepOutEnd, StepOverEnd
<1>2. state' \in SUBSET Flags
  BY DEF RunEnd, StepIntoStopped, StepOutEnd, StepOverEnd, TypeOK, Flags
<1>3. mode' \in {"host", "StepOut", "StepOver", "CheckStepOver"}
  BY DEF RunEnd, StepIntoStopped, StepOutEnd, StepOverEnd, AfterStepInto
<1> QED BY <1>1, <1>2, <1>3 DEF TypeOK, frames

LEMMA EnterTypes ==
  ASSUME TypeOK, NEW ss \in [StackIds -> Seq(Item)], Enter(ss)
  PROVE  FrameTypes' /\ entryStack' \in StackIds
<1>1. NewAlt \in StackIds /\ estack \in StackIds
  BY FreshStacks DEF Enter, TypeOK
<1>2. -1 \in Int /\ FALSE \in BOOLEAN /\ Entry \in Scripts
  BY NamesAssumption
<1>3. NewContext(Entry, estack, NewAlt, -1, FALSE) \in Context
  BY <1>1, <1>2, NewContextType
<1>4. istack' \in Seq(Context)
  <2> DEFINE c == NewContext(Entry, estack, NewAlt, -1, FALSE)
  <2>1. istack' = <<c>> /\ c \in Context
    BY <1>3 DEF Enter
  <2> HIDE DEF c
  <2> QED BY <2>1
<1>5. stacks' \in [StackIds -> Seq(Item)]
  <2>1. stacks' = [ss EXCEPT ![NewAlt] = <<>>]
    BY DEF Enter
  <2> QED BY <1>1, <2>1, NoItems, StacksType
<1> QED BY <1>1, <1>4, <1>5 DEF Enter, FrameTypes, TypeOK

LEMMA HostTypes ==
  ASSUME TypeOK, Host
  PROVE  TypeOK'
<1>1. CASE LoadScript
  <2>1. FrameTypes' /\ entryStack' \in StackIds
    BY <1>1, EnterTypes DEF LoadScript, TypeOK
  <2>2. OtherTypes'
    BY <1>1, <2>1 DEF LoadScript, Enter, TypeOK, OtherTypes
  <2> QED BY <2>1, <2>2, TypesSplitNext
<1>2. CASE Load
  <2>1. [stacks EXCEPT ![estack] = <<>>, ![astack] = <<>>] \in [StackIds -> Seq(Item)]
    BY NoItems, TwoStacksType DEF TypeOK
  <2>2. FrameTypes' /\ entryStack' \in StackIds
    BY <1>2, <2>1, EnterTypes DEF Load
  <2>3. {} \in SUBSET Flags /\ 0 \in Nat
    OBVIOUS
  <2>4. OtherTypes'
    BY <1>2, <2>2, <2>3, ZeroWord DEF Load, Enter, TypeOK, OtherTypes
  <2> QED BY <2>2, <2>4, TypesSplitNext
<1>3. ASSUME NEW n \in BreakPoints, AddBreakPoint(n) PROVE TypeOK'
  <2> DEFINE c == [istack[1] EXCEPT !.breakPoints = @ \union {n}]
  <2>1. istack # <<>> /\ istack[1] \in Context
    BY <1>3, TailProperties DEF AddBreakPoint, TypeOK
  <2>2. c \in Context
    BY <2>1 DEF Context
  <2>3. istack' = [istack EXCEPT ![1] = c]
    BY <1>3 DEF AddBreakPoint
  <2> HIDE DEF c
  <2>4. istack' \in Seq(Context)
    BY <2>1, <2>2, <2>3 DEF TypeOK
  <2> QED BY <1>3, <2>4 DEF AddBreakPoint, TypeOK
<1>4. CASE Run
  BY <1>4 DEF Run, TypeOK, Flags, frames
<1>5. CASE StepInto
  BY <1>5 DEF StepInto, TypeOK, frames
<1>6. ASSUME StepOut \/ StepOver PROVE TypeOK'
  <2>1. Toggled \in SUBSET Flags /\ Len(istack) \in Nat
    BY DEF Toggled, Flags, TypeOK
  <2> QED BY <1>6, <2>1 DEF StepOut, StepOver, TypeOK, frames
<1> QED BY <1>1, <1>2, <1>3, <1>4, <1>5, <1>6 DEF Host

LEMMA NextTypes ==
  ASSUME TypeOK, [Next]_vars
  PROVE  TypeOK'
<1>1. CASE Host
  BY <1>1, HostTypes
<1>2. CASE Engine
  BY <1>2, ExecuteTypes, LoopTypes DEF Engine
<1>3. CASE UNCHANGED vars
  BY <1>3 DEF vars, TypeOK
<1> QED BY <1>1, <1>2, <1>3 DEF Next

LEMMA InitTypes ==
  ASSUME Init
  PROVE  TypeOK
<1>1. estack \in StackIds /\ astack \in StackIds
  BY StackIdsAssumption DEF Init
<1>2. code \in [Scripts -> Script] /\ istack \in Seq(Context)
  BY CodesAssumption DEF Init
<1>3. stacks \in [StackIds -> Seq(Item)]
  BY NoItems DEF Init
<1>4. state \in SUBSET Flags /\ failed \in BOOLEAN /\ mode = "host"
  BY DEF Init, Flags
<1>5. size \in Int /\ gas \in Words /\ expSize \in Nat /\ entryStack \in StackIds
  BY <1>1, ZeroWord DEF Init
<1> QED BY <1>1, <1>2, <1>3, <1>4, <1>5 DEF TypeOK

\* Every variable keeps its type, whatever the scripts and the host do.
THEOREM VMTypesHold == Spec => []TypeOK
<1>1. Init => TypeOK
  BY InitTypes
<1>2. TypeOK /\ [Next]_vars => TypeOK'
  BY NextTypes
<1> QED BY <1>1, <1>2, PTL DEF Spec

-----------------------------------------------------------------------------
(* The shapes of a step                                                    *)

\* Two contexts that differ in their instruction pointers and breakpoints only.
Alike(c, d) ==
  /\ c.es = d.es /\ c.as = d.as
  /\ c.script = d.script /\ c.dyn = d.dyn /\ c.rvcount = d.rvcount

\* A context with an alt stack of its own, allowed what its script or the
\* context it copies is.
NewFrame(c) ==
  /\ c.as \in StackIds \ Live /\ astack' = c.as
  /\ \/ c.dyn => code[c.script].dyn
     \/ istack # <<>> /\ c.script = istack[1].script /\ c.dyn = istack[1].dyn

OnSharedStack(c) ==
  /\ estack' = estack
  /\ \/ c.es = estack
     \/ istack # <<>> /\ c.es = istack[1].es
OnOwnStack(c) == estack' = c.es /\ c.es \in StackIds \ Live /\ c.es # c.as

Keeps ==
  /\ Len(istack') = Len(istack)
  /\ \A i \in 1..Len(istack) : Alike(istack'[i], istack[i])
  /\ estack' = estack /\ astack' = astack

Grows ==
  /\ istack # <<>> /\ Len(istack) < MaxInvocationStackSize
  /\ Len(istack') = Len(istack) + 1
  /\ \A i \in 1..Len(istack) : Alike(istack'[i + 1], istack[i])
  /\ NewFrame(istack'[1])
  /\ OnSharedStack(istack'[1]) \/ OnOwnStack(istack'[1])

Replaces ==
  /\ istack # <<>>
  /\ Len(istack') = Len(istack)
  /\ \A i \in 1..(Len(istack) - 1) : Alike(istack'[i + 1], istack[i + 1])
  /\ NewFrame(istack'[1])
  /\ \/ estack' = estack /\ istack'[1].es = estack /\ istack'[1].rvcount = -1
     \/ OnOwnStack(istack'[1]) /\ istack'[1].rvcount = istack[1].rvcount /\ istack[1].rvcount # -1

Returns ==
  /\ istack # <<>>
  /\ Len(istack') = Len(istack) - 1
  /\ \A i \in 1..(Len(istack) - 1) : Alike(istack'[i], istack[i + 1])
  /\ \/ estack' = estack /\ astack' = astack /\ (failed' \/ Len(istack) = 1)
     \/ Len(istack) > 1 /\ estack' = istack[2].es /\ astack' = istack[2].as

\* One context, on the current evaluation stack.
Resets ==
  /\ Len(istack') = 1
  /\ NewFrame(istack'[1])
  /\ estack' = estack /\ istack'[1].es = estack
  /\ istack'[1].rvcount = -1 /\ ~istack'[1].dyn
  /\ entryStack' = estack

StepShape == Keeps \/ Grows \/ Replaces \/ Returns

\* An advanced context is alike, and below it nothing changes.
LEMMA AdvancedShape ==
  ASSUME TypeOK, istack # <<>>
  PROVE  /\ Len(istack) \in Nat /\ Len(istack) >= 1
         /\ Advanced \in Seq(Context) /\ Len(Advanced) = Len(istack)
         /\ \A i \in 1..Len(istack) : Alike(Advanced[i], istack[i])
         /\ callers \in Seq(Context) /\ Len(callers) = Len(istack) - 1
         /\ \A i \in 1..(Len(istack) - 1) : Alike(callers[i], istack[i + 1])
         /\ moved \in Context /\ Alike(moved, istack[1])
<1>1. istack \in Seq(Context)
  BY DEF TypeOK
<1>2. /\ callers \in Seq(Context) /\ Len(istack) \in Nat /\ Len(istack) >= 1
      /\ Len(callers) = Len(istack) - 1
      /\ \A i \in 1..(Len(istack) - 1) : callers[i] = istack[i + 1]
  BY <1>1, TailProperties DEF callers
<1>3. moved \in Context /\ Alike(moved, istack[1])
  <2>1. moved \in Context /\ ctx \in Context
    BY FetchType
  <2> QED BY <2>1 DEF moved, ctx, Alike, Context
<1>4. /\ Advanced \in Seq(Context) /\ Len(Advanced) = Len(istack) /\ Advanced[1] = moved
      /\ \A i \in 1..(Len(istack) - 1) : Advanced[i + 1] = callers[i]
  BY <1>2, <1>3, ConsProperties DEF Advanced
<1>5. ASSUME NEW i \in 1..Len(istack) PROVE Alike(Advanced[i], istack[i])
  <2>1. CASE i = 1
    BY <1>3, <1>4, <2>1
  <2>2. CASE i # 1
    <3>1. i - 1 \in 1..(Len(istack) - 1) /\ (i - 1) + 1 = i
      BY <1>2, <2>2
    <3>2. Advanced[i] = istack[i]
      BY <1>2, <1>4, <3>1
    <3> QED BY <3>2 DEF Alike
  <2> QED BY <2>1, <2>2
<1>6. \A i \in 1..(Len(istack) - 1) : Alike(callers[i], istack[i + 1])
  BY <1>2 DEF Alike
<1> QED BY <1>2, <1>3, <1>4, <1>5, <1>6

\* The context that jumps is still alike.
LEMMA JumpShape ==
  ASSUME TypeOK, istack # <<>>, NEW n \in Int
  PROVE  LET s == <<JumpTo(moved, n)>> \o callers
         IN Len(s) = Len(istack) /\ \A i \in 1..Len(istack) : Alike(s[i], istack[i])
<1> DEFINE m == JumpTo(moved, n)
           s == <<m>> \o callers
<1>1. m \in Context /\ Alike(m, istack[1])
  BY AdvancedShape, JumpType DEF Alike
<1> HIDE DEF m
<1>2. /\ Len(s) = Len(istack) /\ s[1] = m
      /\ \A i \in 1..(Len(istack) - 1) : s[i + 1] = callers[i]
  BY <1>1, AdvancedShape, ConsProperties
<1> HIDE DEF s
<1>3. ASSUME NEW i \in 1..Len(istack) PROVE Alike(s[i], istack[i])
  <2>1. CASE i = 1
    BY <1>1, <1>2, <2>1
  <2>2. CASE i # 1
    <3>1. i - 1 \in 1..(Len(istack) - 1) /\ (i - 1) + 1 = i
      BY <2>2, AdvancedShape
    <3> QED BY <1>2, <3>1, AdvancedShape
  <2> QED BY <2>1, <2>2
<1> QED BY <1>2, <1>3 DEF s, m

\* A frame on top of the advanced context, or of its callers.
LEMMA FrameShape ==
  ASSUME TypeOK, istack # <<>>, NEW c \in Context
  PROVE  /\ LET s == <<c>> \o Advanced
            IN /\ Len(s) = Len(istack) + 1 /\ s[1] = c
               /\ \A i \in 1..Len(istack) : Alike(s[i + 1], istack[i])
         /\ LET s == <<c>> \o callers
            IN /\ Len(s) = Len(istack) /\ s[1] = c
               /\ \A i \in 1..(Len(istack) - 1) : Alike(s[i + 1], istack[i + 1])
<1>1. /\ Len(istack) \in Nat /\ Advanced \in Seq(Context) /\ callers \in Seq(Context)
      /\ Len(Advanced) = Len(istack) /\ Len(callers) = Len(istack) - 1
  BY AdvancedShape
<1>2. LET s == <<c>> \o Advanced
      IN Len(s) = Len(istack) + 1 /\ s[1] = c /\ \A i \in 1..Len(istack) : s[i + 1] = Advanced[i]
  BY <1>1, ConsProperties
<1>3. LET s == <<c>> \o callers
      IN Len(s) = Len(istack) /\ s[1] = c /\ \A i \in 1..(Len(istack) - 1) : s[i + 1] = callers[i]
  BY <1>1, ConsProperties
<1> QED BY <1>2, <1>3, AdvancedShape

LEMMA PanicShape ==
  ASSUME TypeOK, istack # <<>>, NEW items, NEW sz, PanicWith(items, sz)
  PROVE  Keeps
  BY AdvancedShape DEF PanicWith, Keeps

LEMMA ComputeShape ==
  ASSUME TypeOK, istack # <<>>,
         \/ FailUnpriced \/ OutOfGas
         \/ Nop \/ Renew \/ Push \/ PopOne \/ ToAltStack \/ FromAltStack \/ Jump \/ JumpIf
  PROVE  Keeps
<1>1. CASE istack' = Advanced /\ UNCHANGED <<estack, astack>>
  BY <1>1, AdvancedShape DEF Keeps
<1>2. CASE \E items, sz : PanicWith(items, sz)
  BY <1>2, PanicShape
<1>3. CASE /\ instr.op \in {"JMP", "JMPIF"}
           /\ istack' = <<JumpTo(moved, instr.target)>> \o callers
           /\ UNCHANGED <<estack, astack>>
  <2>1. instr.target \in Int
    BY <1>3, FetchType, ParameterTypes
  <2> QED BY <1>3, <2>1, JumpShape DEF Keeps
<1>4. Panic => \E items, sz : PanicWith(items, sz)
  BY DEF Panic
<1>5. CASE FailUnpriced \/ OutOfGas
  BY <1>2, <1>4, <1>5 DEF FailUnpriced, OutOfGas
<1>6. CASE Nop \/ Renew \/ Push \/ PopOne
  BY <1>1, <1>2, <1>4, <1>6 DEF Nop, Renew, Push, PopOne
<1>7. CASE ToAltStack \/ FromAltStack
  BY <1>1, <1>2, <1>4, <1>7 DEF ToAltStack, FromAltStack, MoveTop
<1>8. CASE Jump
  BY <1>2, <1>3, <1>4, <1>8 DEF Jump, Charged
<1>9. CASE JumpIf
  BY <1>1, <1>2, <1>3, <1>4, <1>9 DEF JumpIf, Charged
<1> QED BY <1>5, <1>6, <1>7, <1>8, <1>9

LEMMA CallShape ==
  ASSUME TypeOK, istack # <<>>, Call
  PROVE  Keeps \/ Grows
<1>1. CASE Panic
  BY <1>1, PanicShape DEF Panic
<1>2. CASE ~Panic
  <2> DEFINE c == [moved EXCEPT !.rvcount = -1, !.as = NewAlt]
             d == JumpTo(c, instr.target)
  <2>1. /\ HasFresh /\ ~IstackFull
        /\ istack' = <<d>> \o Advanced
        /\ astack' = NewAlt /\ estack' = estack
        /\ instr.op = "CALL"
    BY <1>2 DEF Call, Charged
  <2>2. NewAlt \in StackIds \ Live
    BY <2>1, FreshStacks
  <2>3. moved \in Context /\ instr.target \in Int /\ Alike(moved, istack[1])
    BY <2>1, FetchType, ParameterTypes, AdvancedShape
  <2>4. c \in Context /\ c.es = moved.es /\ c.as = NewAlt /\ c.script = moved.script
          /\ c.dyn = moved.dyn
    <3>1. -1 \in Int
      OBVIOUS
    <3>2. NewAlt \in StackIds
      BY <2>2
    <3>3. c \in Context
      BY <2>3, <3>1, <3>2, SharedCopyType
    <3>4. c.es = moved.es /\ c.as = NewAlt /\ c.script = moved.script /\ c.dyn = moved.dyn
      BY <2>3 DEF Context
    <3> QED BY <3>3, <3>4
  <2> HIDE DEF c
  <2>5. /\ d \in Context
        /\ d.es = c.es /\ d.as = c.as /\ d.script = c.script /\ d.dyn = c.dyn
    BY <2>3, <2>4, JumpType
  <2> HIDE DEF d
  <2>6. /\ Len(istack') = Len(istack) + 1 /\ istack'[1] = d
        /\ \A i \in 1..Len(istack) : Alike(istack'[i + 1], istack[i])
    BY <2>1, <2>5, FrameShape
  <2>7. NewFrame(d) /\ OnSharedStack(d)
    BY <2>1, <2>2, <2>3, <2>4, <2>5 DEF NewFrame, OnSharedStack, Alike
  <2>8. Len(istack) < MaxInvocationStackSize
    BY <2>1, AdvancedShape, LimitsAssumption DEF IstackFull
  <2> QED BY <2>6, <2>7, <2>8 DEF Grows
<1> QED BY <1>1, <1>2

LEMMA AppCallShape ==
  ASSUME TypeOK, istack # <<>>, AppCall
  PROVE  Keeps \/ Grows \/ Replaces
<1> DEFINE hash == IF instr.hash = "zero" THEN Head(stacks[estack]) ELSE instr.hash
           d == NewContext(hash, estack, NewAlt, -1, code[hash].dyn)
<1>1. CASE \E items, sz : PanicWith(items, sz)
  BY <1>1, PanicShape
<1>2. CASE ~\E items, sz : PanicWith(items, sz)
  <2>0. ~Panic
    BY <1>2 DEF Panic
  <2>1. /\ hash \in Scripts /\ HasFresh
        /\ instr.op \in {"APPCALL", "TAILCALL"}
        /\ instr.op = "APPCALL" => ~IstackFull
        /\ istack' = <<d>> \o (IF instr.op = "APPCALL" THEN Advanced ELSE callers)
        /\ astack' = NewAlt /\ estack' = estack
    BY <1>2, <2>0 DEF AppCall, Charged
  <2>2. NewAlt \in StackIds \ Live /\ estack \in StackIds
    BY <2>1, FreshStacks DEF TypeOK
  <2>3. code[hash].dyn \in BOOLEAN /\ -1 \in Int
    BY <2>1 DEF TypeOK, Script
  <2>4. /\ d \in Context /\ d.es = estack /\ d.as = NewAlt /\ d.script = hash
        /\ d.rvcount = -1 /\ d.dyn = code[hash].dyn
    <3> HIDE DEF hash
    <3> QED BY <2>1, <2>2, <2>3, NewContextType
  <2> HIDE DEF d
  <2>5. NewFrame(d) /\ OnSharedStack(d)
    <3>1. d.dyn => code[d.script].dyn
      BY <2>4, Zenon
    <3>2. d.as \in StackIds \ Live /\ astack' = d.as
      BY <2>1, <2>2, <2>4
    <3>3. estack' = estack /\ d.es = estack
      BY <2>1, <2>4
    <3>4. OnSharedStack(d)
      BY <3>3 DEF OnSharedStack
    <3>5. NewFrame(d)
      BY <3>1, <3>2 DEF NewFrame
    <3> QED BY <3>4, <3>5
  <2>6. CASE instr.op = "APPCALL"
    <3>1. istack' = <<d>> \o Advanced
      BY <2>1, <2>6
    <3>2. /\ Len(istack') = Len(istack) + 1 /\ istack'[1] = d
          /\ \A i \in 1..Len(istack) : Alike(istack'[i + 1], istack[i])
      BY <2>4, <3>1, FrameShape
    <3>3. Len(istack) < MaxInvocationStackSize
      BY <2>1, <2>6, AdvancedShape, LimitsAssumption DEF IstackFull
    <3> QED BY <2>5, <3>2, <3>3 DEF Grows
  <2>7. CASE instr.op = "TAILCALL"
    <3>1. istack' = <<d>> \o callers
      BY <2>1, <2>7
    <3>2. /\ Len(istack') = Len(istack) /\ istack'[1] = d
          /\ \A i \in 1..(Len(istack) - 1) : Alike(istack'[i + 1], istack[i + 1])
      BY <2>4, <3>1, FrameShape
    <3> QED BY <2>1, <2>4, <2>5, <3>2 DEF Replaces
  <2> QED BY <2>1, <2>6, <2>7
<1> QED BY <1>1, <1>2

LEMMA CallIsolatedShape ==
  ASSUME TypeOK, istack # <<>>, CallIsolated
  PROVE  Keeps \/ Grows \/ Replaces
<1> DEFINE onStack == instr.op \in {"CALLED", "CALLEDT"}
           tail == instr.op \in {"CALLET", "CALLEDT"}
           hash == IF onStack THEN Head(stacks[estack]) ELSE instr.hash
           copy == [moved EXCEPT !.rvcount = instr.rvcount, !.es = NewEval, !.as = NewAlt]
           frame == IF instr.op = "CALLI" THEN JumpTo(copy, instr.target)
                    ELSE NewContext(hash, NewEval, NewAlt, instr.rvcount, code[hash].dyn)
<1>1. CASE \E items, sz : PanicWith(items, sz)
  BY <1>1, PanicShape
<1>2. CASE ~\E items, sz : PanicWith(items, sz)
  <2>0. ~Panic
    BY <1>2 DEF Panic
  <2>1. /\ instr.op # "CALLI" => hash \in Scripts
        /\ HasFresh
        /\ instr.op \in {"CALLI", "CALLE", "CALLED", "CALLET", "CALLEDT"}
        /\ tail => ctx.rvcount = instr.rvcount
        /\ ~tail => ~IstackFull
        /\ istack' = <<frame>> \o (IF tail THEN callers ELSE Advanced)
        /\ astack' = NewAlt /\ estack' = NewEval
    BY <1>2, <2>0 DEF CallIsolated, Charged
  <2>2. NewAlt \in StackIds \ Live /\ NewEval \in StackIds \ Live /\ NewEval # NewAlt
    BY <2>1, FreshStacks
  <2>3. /\ moved \in Context /\ Alike(moved, istack[1])
        /\ instr.rvcount \in Nat /\ instr.rvcount \in Int
        /\ instr.op = "CALLI" => instr.target \in Int
    BY <2>1, FetchType, ParameterTypes, AdvancedShape
  <2>4. /\ frame \in Context /\ frame.es = NewEval /\ frame.as = NewAlt
        /\ frame.rvcount = instr.rvcount
        /\ \/ frame.dyn => code[frame.script].dyn
           \/ frame.script = istack[1].script /\ frame.dyn = istack[1].dyn
    <3>1. CASE instr.op = "CALLI"
      <4>1. /\ copy \in Context /\ copy.rvcount = instr.rvcount
            /\ copy.es = NewEval /\ copy.as = NewAlt
            /\ copy.script = moved.script /\ copy.dyn = moved.dyn
        <5>1. NewAlt \in StackIds /\ NewEval \in StackIds
          BY <2>2
        <5>2. copy \in Context
          BY <2>3, <5>1, IsolatedCopyType
        <5>3. /\ copy.rvcount = instr.rvcount /\ copy.es = NewEval /\ copy.as = NewAlt
              /\ copy.script = moved.script /\ copy.dyn = moved.dyn
          BY <2>3 DEF Context
        <5> QED BY <5>2, <5>3
      <4> HIDE DEF copy
      <4>2. frame = JumpTo(copy, instr.target)
        BY <3>1
      <4> HIDE DEF frame
      <4>3. /\ frame \in Context /\ frame.es = copy.es /\ frame.as = copy.as
            /\ frame.script = copy.script /\ frame.dyn = copy.dyn /\ frame.rvcount = copy.rvcount
        BY <2>3, <3>1, <4>1, <4>2, JumpType
      <4> QED BY <2>3, <4>1, <4>3 DEF Alike
    <3>2. CASE instr.op # "CALLI"
      <4>1. hash \in Scripts
        BY <2>1, <3>2
      <4>2. code[hash].dyn \in BOOLEAN
        BY <4>1 DEF TypeOK, Script
      <4>3. frame = NewContext(hash, NewEval, NewAlt, instr.rvcount, code[hash].dyn)
        BY <3>2
      <4> HIDE DEF hash, frame
      <4>4. /\ frame \in Context /\ frame.es = NewEval /\ frame.as = NewAlt
            /\ frame.rvcount = instr.rvcount /\ frame.script = hash
            /\ frame.dyn = code[hash].dyn
        BY <2>2, <2>3, <4>1, <4>2, <4>3, NewContextType
      <4> QED BY <4>4
    <3> QED BY <3>1, <3>2
  <2> HIDE DEF frame
  <2>5. NewFrame(frame) /\ OnOwnStack(frame)
    BY <2>1, <2>2, <2>4 DEF NewFrame, OnOwnStack
  <2>6. CASE ~tail
    <3>1. istack' = <<frame>> \o Advanced
      BY <2>1, <2>6
    <3>2. /\ Len(istack') = Len(istack) + 1 /\ istack'[1] = frame
          /\ \A i \in 1..Len(istack) : Alike(istack'[i + 1], istack[i])
      BY <2>4, <3>1, FrameShape
    <3>3. Len(istack) < MaxInvocationStackSize
      BY <2>1, <2>6, AdvancedShape, LimitsAssumption DEF IstackFull
    <3> QED BY <2>5, <3>2, <3>3 DEF Grows
  <2>7. CASE tail
    <3>1. istack' = <<frame>> \o callers
      BY <2>1, <2>7
    <3>2. /\ Len(istack') = Len(istack) /\ istack'[1] = frame
          /\ \A i \in 1..(Len(istack) - 1) : Alike(istack'[i + 1], istack[i + 1])
      BY <2>4, <3>1, FrameShape
    <3>3. frame.rvcount = istack[1].rvcount /\ istack[1].rvcount # -1
      BY <2>1, <2>3, <2>4, <2>7 DEF ctx
    <3> QED BY <2>5, <3>2, <3>3 DEF Replaces
  <2> QED BY <2>6, <2>7
<1> QED BY <1>1, <1>2

LEMMA ReturnShape ==
  ASSUME TypeOK, istack # <<>>, Return
  PROVE  Returns
<1>1. /\ istack' = callers /\ Len(istack) \in Nat /\ Len(istack') = Len(istack) - 1
      /\ \A i \in 1..(Len(istack) - 1) : Alike(istack'[i], istack[i + 1])
  BY AdvancedShape DEF Return, Resume
<1>2. CASE UNCHANGED <<estack, astack>> /\ Panicked
  BY <1>1, <1>2 DEF Returns, Panicked
<1>3. CASE UNCHANGED <<estack, astack>> /\ callers = <<>>
  <2>1. Len(istack) = 1
    BY <1>3, AdvancedShape
  <2> QED BY <1>1, <1>3, <2>1 DEF Returns
<1>4. CASE callers # <<>> /\ estack' = callers[1].es /\ astack' = callers[1].as
  <2>1. Len(callers) >= 1 /\ 1 \in 1..(Len(istack) - 1)
    BY <1>4, AdvancedShape, TailProperties
  <2>2. callers[1].es = istack[1 + 1].es /\ callers[1].as = istack[1 + 1].as
    BY <2>1, AdvancedShape DEF Alike
  <2> QED BY <1>1, <1>4, <2>1, <2>2 DEF Returns
<1> QED BY <1>2, <1>3, <1>4 DEF Return, Resume

\* An instruction has one of the first four shapes and never unsets failed.
LEMMA ExecuteShape ==
  ASSUME TypeOK, Execute
  PROVE  StepShape /\ (failed => failed') /\ UNCHANGED <<code, entryStack>>
<1>1. Ends /\ Executes
  BY ExecuteTypes
<1>2. istack # <<>>
  BY <1>1 DEF Executes
<1>3. (failed => failed') /\ Leaves
  <2>1. CASE Panicked
    BY <2>1 DEF Panicked
  <2>2. ASSUME NEW s, Done(s) PROVE (failed => failed') /\ Leaves
    BY <2>2, Zenon DEF Done
  <2> QED BY <1>1, <2>1, <2>2 DEF Ends
<1>4. UNCHANGED <<code, entryStack>>
  BY <1>3 DEF Leaves
<1>5. StepShape
  <2>1. CASE Call
    BY <1>2, <2>1, CallShape DEF StepShape
  <2>2. CASE AppCall
    BY <1>2, <2>2, AppCallShape DEF StepShape
  <2>3. CASE CallIsolated
    BY <1>2, <2>3, CallIsolatedShape DEF StepShape
  <2>4. CASE Return
    BY <1>2, <2>4, ReturnShape DEF StepShape
  <2>5. CASE \/ FailUnpriced \/ OutOfGas
             \/ Nop \/ Renew \/ Push \/ PopOne \/ ToAltStack \/ FromAltStack \/ Jump \/ JumpIf
    BY <1>2, <2>5, ComputeShape DEF StepShape
  <2> QED BY <2>1, <2>2, <2>3, <2>4, <2>5 DEF Execute
<1> QED BY <1>3, <1>4, <1>5

\* What the loops and the host do beside executing: nothing, or a load.
LEMMA OtherShape ==
  ASSUME TypeOK, Host \/ RunEnd \/ StepIntoStopped \/ StepOutEnd \/ StepOverEnd
  PROVE  /\ \/ Keeps /\ entryStack' = entryStack /\ (failed' <=> failed)
            \/ Resets
         /\ code' = code
<1>1. ASSUME UNCHANGED frames PROVE Keeps
  BY <1>1 DEF frames, Keeps, Alike
<1>2. CASE RunEnd \/ StepIntoStopped \/ StepOutEnd \/ StepOverEnd
  BY <1>1, <1>2 DEF RunEnd, StepIntoStopped, StepOutEnd, StepOverEnd
<1>3. CASE Run \/ StepInto \/ StepOut \/ StepOver
  BY <1>1, <1>3 DEF Run, StepInto, StepOut, StepOver
<1>4. ASSUME NEW n, AddBreakPoint(n)
      PROVE  Keeps /\ UNCHANGED <<code, entryStack, failed>>
  <2>1. istack \in Seq(Context) /\ istack # <<>> /\ Len(istack) \in Nat /\ istack[1] \in Context
    BY <1>4, TailProperties DEF AddBreakPoint, TypeOK
  <2> DEFINE c == [istack[1] EXCEPT !.breakPoints = @ \union {n}]
  <2>2. Alike(c, istack[1])
    BY <2>1 DEF Alike, Context
  <2>3. istack' = [istack EXCEPT ![1] = c]
    BY <1>4 DEF AddBreakPoint
  <2> HIDE DEF c
  <2>4. /\ Len(istack') = Len(istack)
        /\ \A i \in 1..Len(istack) : istack'[i] = IF i = 1 THEN c ELSE istack[i]
    BY <2>1, <2>3
  <2>5. \A i \in 1..Len(istack) : Alike(istack'[i], istack[i])
    BY <2>2, <2>4 DEF Alike
  <2> QED BY <1>4, <2>4, <2>5 DEF AddBreakPoint, Keeps
<1>5. ASSUME NEW ss, Enter(ss) PROVE Resets /\ code' = code
  <2> DEFINE c == NewContext(Entry, estack, NewAlt, -1, FALSE)
  <2>1. NewAlt \in StackIds \ Live /\ estack \in StackIds
    BY <1>5, FreshStacks DEF Enter, TypeOK
  <2>2. -1 \in Int /\ FALSE \in BOOLEAN /\ Entry \in Scripts
    BY NamesAssumption
  <2>3. c \in Context /\ c.es = estack /\ c.as = NewAlt /\ c.rvcount = -1 /\ c.dyn = FALSE
    <3>1. NewAlt \in StackIds
      BY <2>1
    <3>2. c \in Context
      BY <2>1, <2>2, <3>1, NewContextType
    <3>3. c.es = estack /\ c.as = NewAlt /\ c.rvcount = -1 /\ c.dyn = FALSE
      BY DEF NewContext
    <3> QED BY <3>2, <3>3
  <2>4. istack' = <<c>> /\ UNCHANGED <<code, estack>> /\ astack' = NewAlt /\ entryStack' = estack
    BY <1>5 DEF Enter
  <2> HIDE DEF c
  <2>5. Len(istack') = 1 /\ istack'[1] = c
    BY <2>4
  <2>6. ~c.dyn
    BY <2>3
  <2>7. NewFrame(c)
    BY <2>1, <2>3, <2>4, <2>6 DEF NewFrame
  <2> QED BY <2>3, <2>4, <2>5, <2>6, <2>7 DEF Resets
<1>6. CASE LoadScript \/ Load
  BY <1>5, <1>6 DEF LoadScript, Load
<1> QED BY <1>2, <1>3, <1>4, <1>6 DEF Host

-----------------------------------------------------------------------------
(* The inductive invariant                                                 *)

\* v.estack is the top context's or, once an instruction failed, nobody's;
\* it is never an alt stack.  This is what keeps a stack shared by
\* neighbours only, also after a failure.
EstackPlaced ==
  /\ istack # <<>> =>
       estack = istack[1].es \/ \A i \in 1..Len(istack) : estack # istack[i].es
  /\ \A i \in 1..Len(istack) : estack # istack[i].as

\* Nobody called the bottom context for a number of results, and so it is
\* never replaced by a frame with a stack of its own.
BottomFrame ==
  istack # <<>> =>
    /\ istack[Len(istack)].rvcount = -1
    /\ ~failed => istack[Len(istack)].es = entryStack

FramesInv ==
  /\ TypeOK /\ IstackBounded /\ StacksOwned /\ EstackPlaced
  /\ DynamicOnlyIfAllowed /\ CurrentStacks /\ BottomFrame /\ ResultOnEntryStack

\* What the stacks of a context are compared with.
LEMMA InLive ==
  ASSUME TypeOK
  PROVE  /\ estack \in Live /\ astack \in Live
         /\ \A i \in 1..Len(istack) : istack[i].es \in Live /\ istack[i].as \in Live
  BY DEF Live, TypeOK

LEMMA LengthFacts ==
  ASSUME TypeOK
  PROVE  /\ Len(istack) \in Nat /\ DOMAIN istack = 1..Len(istack)
         /\ istack # <<>> <=> Len(istack) > 0
         /\ istack = <<>> <=> Len(istack) = 0
  BY DEF TypeOK

LEMMA KeepsFrames ==
  ASSUME FramesInv, TypeOK', Keeps, UNCHANGED <<code, entryStack>>, failed => failed'
  PROVE  FramesInv'
<1>1. /\ Len(istack) \in Nat /\ DOMAIN istack = 1..Len(istack)
      /\ istack # <<>> <=> Len(istack) > 0
      /\ DOMAIN istack' = 1..Len(istack)
      /\ istack' # <<>> <=> Len(istack) > 0
      /\ Len(istack') = Len(istack)
  BY LengthFacts DEF FramesInv, TypeOK, Keeps
<1>2. \A i \in 1..Len(istack) :
        /\ istack'[i].es = istack[i].es /\ istack'[i].as = istack[i].as
        /\ istack'[i].script = istack[i].script /\ istack'[i].dyn = istack[i].dyn
        /\ istack'[i].rvcount = istack[i].rvcount
  BY DEF Keeps, Alike
<1>3. estack' = estack /\ astack' = astack
  BY DEF Keeps
<1>4. IstackBounded'
  BY <1>1 DEF FramesInv, IstackBounded
<1>5. StacksOwned'
  BY <1>1, <1>2 DEF FramesInv, StacksOwned
<1>6. EstackPlaced'
  BY <1>1, <1>2, <1>3 DEF FramesInv, EstackPlaced
<1>7. DynamicOnlyIfAllowed'
  BY <1>1, <1>2, Zenon DEF FramesInv, DynamicOnlyIfAllowed
<1>8. CurrentStacks' /\ BottomFrame' /\ ResultOnEntryStack'
  BY <1>1, <1>2, <1>3 DEF FramesInv, CurrentStacks, BottomFrame, ResultOnEntryStack
<1> QED BY <1>4, <1>5, <1>6, <1>7, <1>8 DEF FramesInv

LEMMA GrowsFrames ==
  ASSUME FramesInv, TypeOK', Grows, UNCHANGED <<code, entryStack>>, failed => failed'
  PROVE  FramesInv'
<1> DEFINE n == Len(istack)
           c == istack'[1]
<1>1. /\ n \in Nat /\ n > 0 /\ DOMAIN istack = 1..n /\ istack # <<>>
      /\ Len(istack') = n + 1 /\ DOMAIN istack' = 1..(n + 1)
      /\ istack' # <<>> /\ n < MaxInvocationStackSize /\ MaxInvocationStackSize \in Nat
  BY LengthFacts, LimitsAssumption DEF FramesInv, TypeOK, Grows
<1>2. \A i \in 1..n :
        /\ istack'[i + 1].es = istack[i].es /\ istack'[i + 1].as = istack[i].as
        /\ istack'[i + 1].script = istack[i].script /\ istack'[i + 1].dyn = istack[i].dyn
        /\ istack'[i + 1].rvcount = istack[i].rvcount
  BY DEF Grows, Alike
<1>3. c.as \in StackIds \ Live /\ astack' = c.as
  BY DEF Grows, NewFrame
<1>4. \/ estack' = estack /\ (c.es = estack \/ c.es = istack[1].es)
      \/ estack' = c.es /\ c.es \notin Live /\ c.es # c.as
  BY DEF Grows, OnSharedStack, OnOwnStack
<1>5. \A j \in 1..(n + 1) : j = 1 \/ \E i \in 1..n : j = i + 1
  BY <1>1
<1>6. /\ estack \in Live
      /\ \A i \in 1..n : istack[i].es \in Live /\ istack[i].as \in Live
  BY InLive DEF FramesInv
<1>7. /\ \A i \in 1..n : estack # istack[i].as
      /\ estack = istack[1].es \/ \A i \in 1..n : estack # istack[i].es
      /\ \A i, j \in 1..n : istack[i].as # istack[j].es
      /\ \A i, j \in 1..n : i # j => istack[i].as # istack[j].as
      /\ \A i, k \in 1..n : istack[i].es = istack[k].es =>
           \A j \in i..k : istack[j].es = istack[i].es
  BY <1>1 DEF FramesInv, EstackPlaced, StacksOwned
<1> HIDE DEF n, c
<1>0. ASSUME NEW j \in 1..(n + 1), j # 1
      PROVE  /\ j - 1 \in 1..n /\ istack'[j].es = istack[j - 1].es
             /\ istack'[j].as = istack[j - 1].as
  <2>1. j - 1 \in 1..n /\ (j - 1) + 1 = j
    BY <1>0, <1>1
  <2> QED BY <1>2, <2>1
<1>8. ASSUME NEW i \in 1..(n + 1), NEW j \in 1..(n + 1), i # j
      PROVE  istack'[i].as # istack'[j].as
  <2>1. CASE i # 1 /\ j # 1
    <3>1. i - 1 # j - 1
      BY <1>1, <1>8
    <3> QED BY <1>0, <1>7, <2>1, <3>1
  <2>2. CASE i = 1 \/ j = 1
    BY <1>0, <1>3, <1>6, <1>8, <2>2 DEF c
  <2> QED BY <2>1, <2>2
<1>9. \A i, j \in 1..(n + 1) : istack'[i].as # istack'[j].es
  <2>1. \A i \in 1..n : istack[i].as # c.es
    BY <1>1, <1>4, <1>6, <1>7
  <2>2. c.as # c.es /\ \A i \in 1..n : c.as # istack[i].es
    BY <1>1, <1>3, <1>4, <1>6
  <2> QED BY <1>2, <1>5, <1>7, <2>1, <2>2 DEF c
<1>10. ASSUME NEW i \in 1..(n + 1), NEW k \in 1..(n + 1), istack'[i].es = istack'[k].es,
              NEW j \in i..k
       PROVE  istack'[j].es = istack'[i].es
  <2>1. CASE i # 1
    <3>1. /\ i - 1 \in 1..n /\ k - 1 \in 1..n /\ j - 1 \in (i - 1)..(k - 1) /\ j - 1 \in 1..n
          /\ (i - 1) + 1 = i /\ (k - 1) + 1 = k /\ (j - 1) + 1 = j
      BY <1>1, <2>1
    <3>2. /\ istack'[i].es = istack[i - 1].es /\ istack'[k].es = istack[k - 1].es
          /\ istack'[j].es = istack[j - 1].es
      BY <1>2, <3>1
    <3>3. istack[i - 1].es = istack[k - 1].es
      BY <1>10, <3>2
    <3>4. istack[j - 1].es = istack[i - 1].es
      BY <1>7, <3>1, <3>3
    <3> QED BY <3>2, <3>4
  <2>2. CASE i = 1 /\ j # 1
    <3>1. /\ k - 1 \in 1..n /\ j - 1 \in 1..(k - 1) /\ j - 1 \in 1..n /\ 1 \in 1..n
          /\ (k - 1) + 1 = k /\ (j - 1) + 1 = j
      BY <1>1, <2>2
    <3>2. istack'[k].es = istack[k - 1].es /\ istack'[j].es = istack[j - 1].es
      BY <1>2, <3>1
    <3>3. c.es = istack[k - 1].es
      BY <1>10, <2>2, <3>2 DEF c
    <3>4. c.es = istack[1].es
      BY <1>4, <1>6, <1>7, <3>1, <3>3
    <3>5. istack[j - 1].es = istack[1].es
      BY <1>7, <3>1, <3>3, <3>4
    <3> QED BY <2>2, <3>2, <3>4, <3>5 DEF c
  <2> QED BY <2>1, <2>2
<1>11. StacksOwned'
  BY <1>1, <1>8, <1>9, <1>10 DEF StacksOwned, n
<1>12. IstackBounded'
  BY <1>1 DEF IstackBounded
<1>13. EstackPlaced'
  <2>1. estack' = c.es \/ \A i \in 1..(n + 1) : estack' # istack'[i].es
    <3>1. ASSUME estack' # c.es, NEW i \in 1..(n + 1) PROVE estack' # istack'[i].es
      <4>1. estack' = estack /\ c.es = istack[1].es /\ \A k \in 1..n : estack # istack[k].es
        BY <1>4, <1>7, <3>1
      <4> QED BY <1>0, <3>1, <4>1 DEF c
    <3> QED BY <3>1
  <2>2. ASSUME NEW i \in 1..(n + 1) PROVE estack' # istack'[i].as
    <3>1. CASE i = 1
      BY <1>3, <1>4, <1>6, <3>1 DEF c
    <3>2. CASE i # 1
      BY <1>0, <1>4, <1>6, <1>7, <3>2
    <3> QED BY <3>1, <3>2
  <2> QED BY <1>1, <2>1, <2>2 DEF EstackPlaced, c
<1>14. DynamicOnlyIfAllowed'
  <2>1. ASSUME NEW i \in 1..n PROVE istack'[i + 1].dyn => code'[istack'[i + 1].script].dyn
    BY <1>1, <1>2, Zenon DEF FramesInv, DynamicOnlyIfAllowed
  <2>2. \/ c.dyn => code[c.script].dyn
        \/ c.script = istack[1].script /\ c.dyn = istack[1].dyn
    BY Zenon DEF Grows, NewFrame, c
  <2>3. istack[1].dyn => code[istack[1].script].dyn
    <3>1. 1 \in DOMAIN istack
      BY <1>1
    <3> QED BY <3>1, Zenon DEF FramesInv, DynamicOnlyIfAllowed
  <2>4. c.dyn => code'[c.script].dyn
    BY <2>2, <2>3, Zenon
  <2> QED BY <1>1, <1>5, <2>1, <2>4, Zenon DEF DynamicOnlyIfAllowed, c
<1>15. CurrentStacks'
  <2>1. ~failed => estack = istack[1].es
    BY <1>1 DEF FramesInv, CurrentStacks
  <2> QED BY <1>1, <1>3, <1>4, <2>1 DEF CurrentStacks, c
<1>16. BottomFrame' /\ ResultOnEntryStack'
  <2>1. n \in 1..n /\ istack'[Len(istack')] = istack'[n + 1]
    BY <1>1
  <2>2. istack'[n + 1].rvcount = istack[n].rvcount /\ istack'[n + 1].es = istack[n].es
    BY <1>2, <2>1
  <2>3. istack[n].rvcount = -1 /\ (~failed => istack[n].es = entryStack)
    BY <1>1 DEF FramesInv, BottomFrame, n
  <2> QED BY <1>1, <2>1, <2>2, <2>3 DEF BottomFrame, ResultOnEntryStack
<1> QED BY <1>11, <1>12, <1>13, <1>14, <1>15, <1>16 DEF FramesInv

LEMMA ReplacesFrames ==
  ASSUME FramesInv, TypeOK', Replaces, UNCHANGED <<code, entryStack>>, failed => failed'
  PROVE  FramesInv'
<1> DEFINE n == Len(istack)
           c == istack'[1]
<1>1. /\ n \in Nat /\ n > 0 /\ DOMAIN istack = 1..n /\ istack # <<>>
      /\ Len(istack') = n /\ DOMAIN istack' = 1..n /\ istack' # <<>>
  BY LengthFacts DEF FramesInv, TypeOK, Replaces
<1>2. ASSUME NEW j \in 1..n, j # 1 PROVE Alike(istack'[j], istack[j])
  <2>1. j - 1 \in 1..(n - 1) /\ (j - 1) + 1 = j
    BY <1>1, <1>2
  <2> QED BY <2>1 DEF Replaces
<1>3. c.as \in StackIds \ Live /\ astack' = c.as
  BY DEF Replaces, NewFrame
<1>4. \/ estack' = estack /\ c.es = estack /\ c.rvcount = -1
      \/ /\ estack' = c.es /\ c.es \notin Live /\ c.es # c.as
         /\ c.rvcount = istack[1].rvcount /\ istack[1].rvcount # -1
  BY DEF Replaces, OnOwnStack
<1>6. /\ estack \in Live
      /\ \A i \in 1..n : istack[i].es \in Live /\ istack[i].as \in Live
  BY InLive DEF FramesInv
<1>7. /\ \A i \in 1..n : estack # istack[i].as
      /\ estack = istack[1].es \/ \A i \in 1..n : estack # istack[i].es
      /\ \A i, j \in 1..n : istack[i].as # istack[j].es
      /\ \A i, j \in 1..n : i # j => istack[i].as # istack[j].as
      /\ \A i, k \in 1..n : istack[i].es = istack[k].es =>
           \A j \in i..k : istack[j].es = istack[i].es
  BY <1>1 DEF FramesInv, EstackPlaced, StacksOwned
<1> HIDE DEF n, c
<1>0. ASSUME NEW j \in 1..n, j # 1
      PROVE  istack'[j].es = istack[j].es /\ istack'[j].as = istack[j].as
  BY <1>0, <1>2 DEF Alike
<1>8. ASSUME NEW i \in 1..n, NEW j \in 1..n, i # j PROVE istack'[i].as # istack'[j].as
  <2>1. CASE i # 1 /\ j # 1
    BY <1>0, <1>7, <1>8, <2>1
  <2>2. CASE i = 1 \/ j = 1
    BY <1>0, <1>3, <1>6, <1>8, <2>2 DEF c
  <2> QED BY <2>1, <2>2
<1>9. ASSUME NEW i \in 1..n, NEW j \in 1..n PROVE istack'[i].as # istack'[j].es
  <2>1. CASE i = 1
    BY <1>0, <1>3, <1>4, <1>6, <2>1 DEF c
  <2>2. CASE i # 1
    <3>1. istack'[i].as = istack[i].as
      BY <1>0, <2>2
    <3>2. istack[i].as # c.es
      BY <1>4, <1>6, <1>7
    <3> QED BY <1>0, <1>7, <3>1, <3>2 DEF c
  <2> QED BY <2>1, <2>2
<1>10. ASSUME NEW i \in 1..n, NEW k \in 1..n, istack'[i].es = istack'[k].es, NEW j \in i..k
       PROVE  istack'[j].es = istack'[i].es
  <2>1. CASE i # 1
    <3>1. j \in 1..n /\ j # 1 /\ k # 1
      BY <1>1, <2>1
    <3>2. istack[i].es = istack[k].es
      BY <1>0, <1>10, <2>1, <3>1
    <3>3. istack[j].es = istack[i].es
      BY <1>7, <3>2
    <3> QED BY <1>0, <2>1, <3>1, <3>3
  <2>2. CASE i = 1 /\ j # 1
    <3>1. j \in 1..n /\ k # 1 /\ 1 \in 1..n /\ j \in 1..k
      BY <1>1, <2>2
    <3>2. c.es = istack[k].es
      BY <1>0, <1>10, <2>2, <3>1 DEF c
    <3>3. c.es = estack /\ c.es = istack[1].es
      BY <1>4, <1>6, <1>7, <3>2
    <3>4. istack[j].es = istack[1].es
      BY <1>7, <3>1, <3>2, <3>3
    <3> QED BY <1>0, <2>2, <3>1, <3>3, <3>4 DEF c
  <2> QED BY <2>1, <2>2
<1>11. StacksOwned'
  BY <1>1, <1>8, <1>9, <1>10 DEF StacksOwned
<1>12. IstackBounded'
  BY <1>1 DEF FramesInv, IstackBounded, n
<1>13. EstackPlaced'
  <2>1. estack' = c.es
    BY <1>4
  <2>2. ASSUME NEW i \in 1..n PROVE estack' # istack'[i].as
    BY <1>0, <1>3, <1>4, <1>6, <1>7, <2>1 DEF c
  <2> QED BY <1>1, <2>1, <2>2 DEF EstackPlaced, c
<1>14. DynamicOnlyIfAllowed'
  <2>1. ASSUME NEW i \in 1..n, i # 1 PROVE istack'[i].dyn => code'[istack'[i].script].dyn
    <3>1. istack'[i].dyn = istack[i].dyn /\ istack'[i].script = istack[i].script
      BY <1>2, <2>1 DEF Alike
    <3> QED BY <1>1, <3>1, Zenon DEF FramesInv, DynamicOnlyIfAllowed
  <2>2. \/ c.dyn => code[c.script].dyn
        \/ c.script = istack[1].script /\ c.dyn = istack[1].dyn
    BY Zenon DEF Replaces, NewFrame, c
  <2>3. istack[1].dyn => code[istack[1].script].dyn
    <3>1. 1 \in DOMAIN istack
      BY <1>1
    <3> QED BY <3>1, Zenon DEF FramesInv, DynamicOnlyIfAllowed
  <2>4. c.dyn => code'[c.script].dyn
    BY <2>2, <2>3, Zenon
  <2> QED BY <1>1, <2>1, <2>4, Zenon DEF DynamicOnlyIfAllowed, c
<1>15. CurrentStacks'
  BY <1>1, <1>3, <1>4 DEF CurrentStacks, c
<1>16. BottomFrame' /\ ResultOnEntryStack'
  <2>1. istack[n].rvcount = -1 /\ (~failed => istack[n].es = entryStack)
    BY <1>1 DEF FramesInv, BottomFrame, n
  <2>2. istack'[Len(istack')] = istack'[n] /\ n \in 1..n
    BY <1>1
  <2>3. CASE n # 1
    <3>1. istack'[n].rvcount = istack[n].rvcount /\ istack'[n].es = istack[n].es
      BY <1>2, <2>2, <2>3 DEF Alike
    <3> QED BY <1>1, <2>1, <2>2, <3>1 DEF BottomFrame, ResultOnEntryStack
  <2>4. CASE n = 1
    <3>1. estack' = estack /\ c.es = estack /\ c.rvcount = -1
      BY <1>4, <2>1, <2>4
    <3>2. ~failed => estack = istack[1].es
      BY <1>1 DEF FramesInv, CurrentStacks
    <3> QED BY <1>1, <2>1, <2>2, <2>4, <3>1, <3>2 DEF BottomFrame, ResultOnEntryStack, c
  <2> QED BY <2>3, <2>4
<1> QED BY <1>11, <1>12, <1>13, <1>14, <1>15, <1>16 DEF FramesInv

LEMMA ReturnsFrames ==
  ASSUME FramesInv, TypeOK', Returns, UNCHANGED <<code, entryStack>>, failed => failed'
  PROVE  FramesInv'
<1> DEFINE n == Len(istack)
<1>1. /\ n \in Nat /\ n > 0 /\ DOMAIN istack = 1..n /\ istack # <<>>
      /\ Len(istack') = n - 1 /\ DOMAIN istack' = 1..(n - 1)
      /\ istack' # <<>> <=> n > 1
  BY LengthFacts DEF FramesInv, TypeOK, Returns
<1>2. \A i \in 1..(n - 1) :
        /\ istack'[i].es = istack[i + 1].es /\ istack'[i].as = istack[i + 1].as
        /\ istack'[i].script = istack[i + 1].script /\ istack'[i].dyn = istack[i + 1].dyn
        /\ istack'[i].rvcount = istack[i + 1].rvcount
  BY DEF Returns, Alike
<1>3. \/ estack' = estack /\ astack' = astack /\ (failed' \/ n = 1)
      \/ n > 1 /\ estack' = istack[2].es /\ astack' = istack[2].as
  BY DEF Returns
<1>4. /\ \A i \in 1..n : estack # istack[i].as
      /\ estack = istack[1].es \/ \A i \in 1..n : estack # istack[i].es
      /\ \A i, j \in 1..n : istack[i].as # istack[j].es
      /\ \A i, j \in 1..n : i # j => istack[i].as # istack[j].as
      /\ \A i, k \in 1..n : istack[i].es = istack[k].es =>
           \A j \in i..k : istack[j].es = istack[i].es
  BY <1>1 DEF FramesInv, EstackPlaced, StacksOwned
<1>5. \A i \in 1..(n - 1) : i + 1 \in 1..n
  BY <1>1
<1> HIDE DEF n
<1>6. StacksOwned'
  <2>1. ASSUME NEW i \in 1..(n - 1), NEW j \in 1..(n - 1), i # j
        PROVE  istack'[i].as # istack'[j].as
    <3>1. i + 1 \in 1..n /\ j + 1 \in 1..n /\ i + 1 # j + 1
      BY <1>1, <2>1
    <3> QED BY <1>2, <1>4, <3>1
  <2>2. \A i, j \in 1..(n - 1) : istack'[i].as # istack'[j].es
    BY <1>2, <1>4, <1>5
  <2>3. ASSUME NEW i \in 1..(n - 1), NEW k \in 1..(n - 1), istack'[i].es = istack'[k].es,
               NEW j \in i..k
        PROVE  istack'[j].es = istack'[i].es
    <3>1. j \in 1..(n - 1) /\ j + 1 \in (i + 1)..(k + 1) /\ i + 1 \in 1..n /\ k + 1 \in 1..n
      BY <1>1
    <3>2. istack[i + 1].es = istack[k + 1].es
      BY <1>2, <2>3
    <3>3. istack[j + 1].es = istack[i + 1].es
      BY <1>4, <3>1, <3>2
    <3> QED BY <1>2, <3>1, <3>3
  <2> QED BY <1>1, <2>1, <2>2, <2>3 DEF StacksOwned
<1>7. IstackBounded'
  BY <1>1, LimitsAssumption DEF FramesInv, IstackBounded, n
<1>8. EstackPlaced'
  <2>1. CASE estack' = estack
    <3>1. \A i \in 1..(n - 1) : estack # istack'[i].as
      BY <1>2, <1>4, <1>5
    <3>2. CASE n > 1
      <4>1. 1 \in 1..(n - 1) /\ 2 \in 1..n /\ 1 \in 1..n /\ istack'[1].es = istack[2].es
        BY <1>1, <1>2, <3>2
      <4>2. ASSUME NEW i \in 1..(n - 1), estack = istack'[i].es PROVE estack = istack[2].es
        <5>1. estack = istack[i + 1].es /\ i + 1 \in 1..n /\ 2 \in 1..(i + 1)
          BY <1>1, <1>2, <4>2
        <5>2. istack[1].es = istack[i + 1].es /\ estack = istack[1].es
          BY <1>4, <5>1
        <5>3. istack[2].es = istack[1].es
          BY <1>4, <4>1, <5>1, <5>2
        <5> QED BY <5>2, <5>3
      <4> QED BY <1>1, <2>1, <3>1, <4>1, <4>2 DEF EstackPlaced
    <3>3. CASE ~(n > 1)
      BY <1>1, <2>1, <3>1, <3>3 DEF EstackPlaced
    <3> QED BY <3>2, <3>3
  <2>2. CASE n > 1 /\ estack' = istack[2].es
    <3>1. 1 \in 1..(n - 1) /\ 2 \in 1..n /\ istack'[1].es = istack[2].es
      BY <1>1, <1>2, <2>2
    <3>2. \A i \in 1..(n - 1) : istack[2].es # istack'[i].as
      BY <1>2, <1>4, <1>5, <3>1
    <3> QED BY <1>1, <2>2, <3>1, <3>2 DEF EstackPlaced
  <2> QED BY <1>3, <2>1, <2>2
<1>9. DynamicOnlyIfAllowed'
  <2>1. ASSUME NEW i \in 1..(n - 1) PROVE istack'[i].dyn => code'[istack'[i].script].dyn
    <3>1. istack'[i].dyn = istack[i + 1].dyn /\ istack'[i].script = istack[i + 1].script
      BY <1>2
    <3>2. i + 1 \in DOMAIN istack
      BY <1>1, <1>5
    <3> QED BY <3>1, <3>2, Zenon DEF FramesInv, DynamicOnlyIfAllowed
  <2> QED BY <1>1, <2>1, Zenon DEF DynamicOnlyIfAllowed
<1>10. CurrentStacks'
  <2>1. CASE n > 1
    <3>1. istack'[1].es = istack[2].es /\ istack'[1].as = istack[2].as
      BY <1>1, <1>2, <2>1
    <3> QED BY <1>3, <2>1, <3>1 DEF CurrentStacks
  <2>2. CASE ~(n > 1)
    BY <1>1, <2>2 DEF CurrentStacks
  <2> QED BY <2>1, <2>2
<1>11. BottomFrame' /\ ResultOnEntryStack'
  <2>1. istack[n].rvcount = -1 /\ (~failed => istack[n].es = entryStack)
    BY <1>1 DEF FramesInv, BottomFrame, n
  <2>2. CASE n > 1
    <3>1. n - 1 \in 1..(n - 1) /\ (n - 1) + 1 = n
      BY <1>1, <2>2
    <3>2. /\ istack'[Len(istack')].rvcount = istack[n].rvcount
          /\ istack'[Len(istack')].es = istack[n].es
      BY <1>1, <1>2, <3>1
    <3> QED BY <1>1, <2>1, <2>2, <3>2 DEF BottomFrame, ResultOnEntryStack
  <2>3. CASE ~(n > 1)
    <3>1. n = 1 /\ estack' = estack
      BY <1>1, <1>3, <2>3
    <3>2. ~failed => estack = istack[1].es
      BY <1>1 DEF FramesInv, CurrentStacks
    <3> QED BY <1>1, <2>1, <3>1, <3>2 DEF BottomFrame, ResultOnEntryStack
  <2> QED BY <2>2, <2>3
<1> QED BY <1>6, <1>7, <1>8, <1>9, <1>10, <1>11 DEF FramesInv

LEMMA ResetsFrames ==
  ASSUME FramesInv, TypeOK', Resets, code' = code
  PROVE  FramesInv'
<1> DEFINE c == istack'[1]
<1>1. Len(istack') = 1 /\ DOMAIN istack' = {1} /\ istack' # <<>> /\ 1..Len(istack') = {1}
  <2>1. istack' \in Seq(Context) /\ Len(istack') = 1
    BY DEF Resets, TypeOK
  <2>2. DOMAIN istack' = 1..Len(istack') /\ istack' # <<>>
    BY <2>1
  <2>3. 1..1 = {1}
    OBVIOUS
  <2> QED BY <2>1, <2>2, <2>3
<1>2. /\ c.as \in StackIds \ Live /\ astack' = c.as /\ estack' = estack /\ c.es = estack
      /\ c.rvcount = -1 /\ entryStack' = estack /\ estack \in Live
  BY InLive DEF Resets, NewFrame, FramesInv
<1>3. ~c.dyn
  BY DEF Resets
<1> HIDE DEF c
<1>4. StacksOwned'
  BY <1>1, <1>2 DEF StacksOwned, c
<1>5. IstackBounded'
  BY <1>1, LimitsAssumption DEF IstackBounded
<1>6. EstackPlaced'
  BY <1>1, <1>2 DEF EstackPlaced, c
<1>7. DynamicOnlyIfAllowed'
  BY <1>1, <1>3, Zenon DEF DynamicOnlyIfAllowed, c
<1>8. CurrentStacks' /\ BottomFrame' /\ ResultOnEntryStack'
  BY <1>1, <1>2 DEF CurrentStacks, BottomFrame, ResultOnEntryStack, c
<1> QED BY <1>4, <1>5, <1>6, <1>7, <1>8 DEF FramesInv

LEMMA NextFrames ==
  ASSUME FramesInv, [Next]_vars
  PROVE  FramesInv'
<1>1. TypeOK /\ TypeOK'
  BY NextTypes DEF FramesInv
<1>2. CASE Execute
  BY <1>1, <1>2, ExecuteShape, KeepsFrames, GrowsFrames, ReplacesFrames, ReturnsFrames
     DEF StepShape
<1>3. CASE Host \/ RunEnd \/ StepIntoStopped \/ StepOutEnd \/ StepOverEnd
  BY <1>1, <1>3, OtherShape, KeepsFrames, ResetsFrames
<1>4. CASE UNCHANGED vars
  <2>1. Keeps /\ UNCHANGED <<code, entryStack, failed>>
    BY <1>4 DEF vars, Keeps, Alike
  <2> QED BY <1>1, <2>1, KeepsFrames
<1> QED BY <1>2, <1>3, <1>4 DEF Next, Engine

LEMMA InitFrames ==
  ASSUME Init
  PROVE  FramesInv
<1>1. TypeOK /\ istack = <<>> /\ estack = entryStack
  BY InitTypes DEF Init
<1>2. Len(istack) = 0 /\ 1..Len(istack) = {} /\ DOMAIN istack = {}
  BY <1>1
<1> QED BY <1>1, <1>2, LimitsAssumption
        DEF FramesInv, IstackBounded, StacksOwned, EstackPlaced, DynamicOnlyIfAllowed,
            CurrentStacks, BottomFrame, ResultOnEntryStack

THEOREM FramesInvHolds == Spec => []FramesInv
<1>1. Init => FramesInv
  BY InitFrames
<1>2. FramesInv /\ [Next]_vars => FramesInv'
  BY NextFrames
<1> QED BY <1>1, <1>2, PTL DEF Spec

\* Calls never nest deeper than the limit, whatever kinds of calls are mixed.
THEOREM InvocationStackBounded == Spec => []IstackBounded
<1>1. FramesInv => IstackBounded
  BY DEF FramesInv
<1> QED BY <1>1, FramesInvHolds, PTL

\* Alt stacks are private and evaluation stacks shared by neighbours only,
\* even after a failure.
THEOREM StacksAreOwned == Spec => []StacksOwned
<1>1. FramesInv => StacksOwned
  BY DEF FramesInv
<1> QED BY <1>1, FramesInvHolds, PTL

\* Until an instruction fails the current stacks are the top context's.
THEOREM StacksAreCurrent == Spec => []CurrentStacks
<1>1. FramesInv => CurrentStacks
  BY DEF FramesInv
<1> QED BY <1>1, FramesInvHolds, PTL

\* No context may make dynamic calls that its script may not.
THEOREM DynamicCallsAllowed == Spec => []DynamicOnlyIfAllowed
<1>1. FramesInv => DynamicOnlyIfAllowed
  BY DEF FramesInv
<1> QED BY <1>1, FramesInvHolds, PTL

\* Without a failure the results end up on the stack of the loaded script.
THEOREM ResultsOnEntryStack == Spec => []ResultOnEntryStack
<1>1. FramesInv => ResultOnEntryStack
  BY DEF FramesInv
<1> QED BY <1>1, FramesInvHolds, PTL

-----------------------------------------------------------------------------
(* How Run ends                                                            *)

\* Between two instructions of Run the machine either goes on in some context
\* or has halted with none.
RunInv ==
  mode = "Run" => \/ state = {} /\ istack # <<>>
                  \/ state = {"HALT"} /\ istack = <<>>

LEMMA ExecuteEnds ==
  ASSUME TypeOK, Execute
  PROVE  \/ Panicked
         \/ Done(state) /\ istack' # <<>>
         \/ Done({"HALT"}) /\ istack' = <<>>
<1>1. istack # <<>> /\ Len(istack) \in Nat /\ Len(istack) >= 1 /\ istack' \in Seq(Context)
  BY ExecuteTypes, LengthFacts DEF Executes, TypeOK
<1>2. CASE Return
  <2>1. CASE callers = <<>>
    BY <1>2, <2>1 DEF Return
  <2>2. CASE callers # <<>>
    BY <1>2, <2>2 DEF Return
  <2> QED BY <2>1, <2>2
<1>3. CASE ~Return
  <2>1. Len(istack') >= 1
    <3>1. Keeps \/ Grows \/ Replaces
      BY <1>1, <1>3, ComputeShape, CallShape, AppCallShape, CallIsolatedShape DEF Execute
    <3> QED BY <1>1, <3>1 DEF Keeps, Grows, Replaces
  <2>2. istack' # <<>>
    BY <1>1, <2>1
  <2>3. Panicked \/ Done(state)
    <3>1. \A items, sz : PanicWith(items, sz) => Panicked
      BY DEF PanicWith
    <3>2. Panic => Panicked
      BY <3>1 DEF Panic
    <3>3. CASE FailUnpriced \/ OutOfGas
      BY <3>2, <3>3 DEF FailUnpriced, OutOfGas
    <3>4. CASE Nop \/ Renew \/ Push \/ PopOne
      BY <3>1, <3>2, <3>4 DEF Nop, Renew, Push, PopOne
    <3>5. CASE ToAltStack \/ FromAltStack
      BY <3>2, <3>5 DEF ToAltStack, FromAltStack, MoveTop
    <3>6. CASE Jump \/ JumpIf
      BY <3>2, <3>6 DEF Jump, JumpIf
    <3>7. CASE Call
      BY <3>2, <3>7 DEF Call
    <3>8. CASE AppCall
      BY <3>1, <3>2, <3>8 DEF AppCall
    <3>9. CASE CallIsolated
      BY <3>1, <3>2, <3>9 DEF CallIsolated
    <3> QED BY <1>3, <3>3, <3>4, <3>5, <3>6, <3>7, <3>8, <3>9 DEF Execute
  <2> QED BY <2>2, <2>3
<1> QED BY <1>2, <1>3

\* An instruction run by Run: a fault makes Run return, anything else not.
LEMMA RunStep ==
  ASSUME TypeOK, Execute, mode = "Run"
  PROVE  \/ mode' = "host" /\ state' = {"FAULT"} /\ failed'
         \/ mode' = "Run" /\ (\/ state' = {} /\ istack' # <<>>
                              \/ state' = {"HALT"} /\ istack' = <<>>)
<1>1. Executes /\ state = {}
  BY ExecuteTypes DEF Executes
<1>2. CASE Panicked
  <2>1. state' = {"FAULT"} /\ failed'
    BY <1>2, Zenon DEF Panicked
  <2>2. mode' = "host"
    BY <1>2, <2>1 DEF Panicked, Leaves
  <2> QED BY <2>1, <2>2
<1>3. ASSUME NEW s \in {{}, {"HALT"}}, Done(s)
      PROVE  \/ mode' = "host" /\ state' = {"FAULT"} /\ failed'
             \/ mode' = "Run" /\ state' = s
  <2>1. CASE TooMany
    <3>1. state' = {"FAULT"} /\ mode' = "host"
      BY <1>3, <2>1 DEF Done, Leaves
    <3>2. failed'
      BY <1>3, <2>1, Zenon DEF Done
    <3> QED BY <3>1, <3>2
  <2>2. CASE ~TooMany
    <3>1. state' = s
      BY <1>3, <2>2 DEF Done
    <3>2. "FAULT" \notin state'
      BY <1>3, <3>1
    <3> QED BY <1>3, <3>1, <3>2 DEF Done, Leaves
  <2> QED BY <2>1, <2>2
<1> QED BY <1>1, <1>2, <1>3, ExecuteEnds

LEMMA RunInvNext ==
  ASSUME TypeOK, RunInv, [Next]_vars
  PROVE  RunInv'
<1>1. CASE Execute
  <2>1. CASE mode = "Run"
    BY <1>1, <2>1, RunStep DEF RunInv
  <2>2. CASE mode # "Run"
    <3>1. Leaves /\ Executes
      BY <1>1, ExecuteEnds, ExecuteTypes DEF Panicked, Done
    <3>2. mode' # "Run"
      BY <2>2, <3>1 DEF Leaves, Executes, AfterStepInto
    <3> QED BY <3>2 DEF RunInv
  <2> QED BY <2>1, <2>2
<1>2. CASE RunEnd \/ StepIntoStopped \/ StepOutEnd \/ StepOverEnd
  <2>1. mode' # "Run"
    BY <1>2 DEF RunEnd, StepIntoStopped, StepOutEnd, StepOverEnd, AfterStepInto
  <2> QED BY <2>1 DEF RunInv
<1>3. CASE Run
  BY <1>3 DEF Run, RunInv, HostCalls, frames
<1>4. CASE Host /\ ~Run
  <2>1. mode' # "Run"
    BY <1>4 DEF Host, LoadScript, Load, Enter, AddBreakPoint, StepInto, StepOut, StepOver, HostCalls
  <2> QED BY <2>1 DEF RunInv
<1>5. CASE UNCHANGED vars
  BY <1>5 DEF vars, RunInv
<1> QED BY <1>1, <1>2, <1>3, <1>4, <1>5 DEF Next, Engine

\* Run returns with HALT and no context left, with FAULT, or with BREAK and a
\* context to go on in, and never with more than one of them.
THEOREM RunEndsInOneWay == Spec => RunEndsProperly
<1> DEFINE Proper ==
      mode = "Run" /\ mode' = "host" /\ ~failed =>
        \/ state' = {"HALT"} /\ istack' = <<>> /\ ~failed'
        \/ state' = {"FAULT"} /\ failed'
        \/ state' = {"BREAK"} /\ istack' # <<>> /\ ~failed'
<1>1. Init => RunInv
  BY DEF Init, RunInv
<1>2. TypeOK /\ RunInv /\ [Next]_vars => RunInv'
  BY RunInvNext
<1>3. ASSUME TypeOK, RunInv, [Next]_vars PROVE [Proper]_vars
  <2> SUFFICES ASSUME mode = "Run", mode' = "host", ~failed PROVE Proper
    OBVIOUS
  <2>1. CASE Execute
    BY <1>3, <2>1, RunStep
  <2>2. CASE RunEnd
    <3>1. UNCHANGED <<istack, failed>> /\ (BreakHere => istack # <<>>)
      BY <2>2 DEF RunEnd, frames, BreakHere
    <3>2. \/ BreakHere /\ state = {} /\ state' = {"BREAK"}
          \/ ~BreakHere /\ state = {"HALT"} /\ state' = {"HALT"} /\ istack = <<>>
      BY <1>3, <2>2, <3>1 DEF RunEnd, RunInv
    <3> QED BY <3>1, <3>2
  <2>3. ~Host /\ ~StepIntoStopped /\ ~StepOutEnd /\ ~StepOverEnd /\ ~UNCHANGED vars
    BY DEF Host, LoadScript, Load, AddBreakPoint, Run, StepInto, StepOut, StepOver, HostCalls,
           StepIntoStopped, StepOutEnd, StepOverEnd, vars
  <2> QED BY <1>3, <2>1, <2>2, <2>3 DEF Next, Engine
<1> QED BY <1>1, <1>2, <1>3, VMTypesHold, PTL DEF Spec, RunEndsProperly

\* No call of the host executes an instruction while the state says FAULT.
THEOREM FaultedMachineIsInert == Spec => FaultIsInert
<1>1. ASSUME TypeOK, [Next]_vars
      PROVE  [mode # "host" /\ "FAULT" \in state => UNCHANGED <<frames, gas>>]_vars
  <2> SUFFICES ASSUME mode # "host", "FAULT" \in state PROVE UNCHANGED <<frames, gas>>
    OBVIOUS
  <2>1. ~Execute
    <3>1. Execute => Executes
      BY <1>1, ExecuteTypes
    <3>2. ~Executes
      BY DEF Executes, HasStopped
    <3> QED BY <3>1, <3>2
  <2>2. ~Host
    BY DEF Host, LoadScript, Load, AddBreakPoint, Run, StepInto, StepOut, StepOver, HostCalls
  <2>3. CASE RunEnd \/ StepIntoStopped \/ StepOutEnd \/ StepOverEnd
    BY <2>3 DEF RunEnd, StepIntoStopped, StepOutEnd, StepOverEnd
  <2>4. CASE UNCHANGED vars
    BY <2>4 DEF vars, frames
  <2> QED BY <1>1, <2>1, <2>2, <2>3, <2>4 DEF Next, Engine
<1> QED BY <1>1, VMTypesHold, PTL DEF Spec, FaultIsInert

-----------------------------------------------------------------------------
(* What runs on top of a context leaves the context's own stacks alone.    *)
(* Each instruction writes the current stacks, stacks nobody points to, or *)
(* puts results on a caller's stack; StacksOwned, from FramesInv, says     *)
(* that none of the first two is a stack further down.                     *)

\* new is old, with something on top of it.
Extends(new, old) == Len(new) >= Len(old) /\ Drop(new, Len(new) - Len(old)) = old

LEMMA SameExtends ==
  ASSUME NEW S, NEW old \in Seq(S)
  PROVE  Extends(old, old)
<1>1. Len(old) \in Nat /\ Len(old) - Len(old) = 0 /\ Len(old) >= Len(old)
  BY LenProperties
<1>2. SubSeq(old, 1, Len(old)) = old
  OBVIOUS
<1> QED BY <1>1, <1>2 DEF Extends, Drop

\* Concatenation puts its first part on top.
LEMMA ConcatExtends ==
  ASSUME NEW S, NEW top \in Seq(S), NEW old \in Seq(S)
  PROVE  Extends(top \o old, old)
<1> DEFINE new == top \o old
           m == Len(top)
           n == Len(old)
<1>1. /\ m \in Nat /\ n \in Nat /\ new \in Seq(S) /\ Len(new) = m + n
      /\ \A i \in 1..(m + n) : new[i] = IF i <= m THEN top[i] ELSE old[i - m]
  BY LenProperties, ConcatProperties
<1> HIDE DEF new, m, n
<1>2. Len(new) - n = m /\ Len(new) >= n
  BY <1>1
<1>3. /\ Drop(new, m) \in Seq(S) /\ Len(Drop(new, m)) = n
      /\ \A i \in 1..n : Drop(new, m)[i] = new[m + i]
  <2>1. Drop(new, m) = SubSeq(new, m + 1, m + n)
    BY <1>1 DEF Drop
  <2>2. /\ SubSeq(new, m + 1, m + n) \in Seq(S)
        /\ Len(SubSeq(new, m + 1, m + n)) = n
        /\ \A i \in 1..n : SubSeq(new, m + 1, m + n)[i] = new[m + i]
    BY <1>1
  <2> QED BY <2>1, <2>2
<1>4. \A i \in 1..n : Drop(new, m)[i] = old[i]
  BY <1>1, <1>3
<1>5. Drop(new, m) = old
  BY <1>1, <1>3, <1>4, SeqEqual DEF n
<1> QED BY <1>2, <1>5 DEF Extends, new, n

-----------------------------------------------------------------------------
(* Stacks an instruction may not touch                                     *)

\* In use, and neither current nor the alt stack of the top context, which
\* the current one need not be after a failure.
Below(s) ==
  /\ s \in StackIds \intersect Live
  /\ s \notin {estack, astack}
  /\ istack # <<>> => s # istack[1].as

LEMMA SameStack ==
  ASSUME TypeOK, NEW s \in StackIds, stacks'[s] = stacks[s]
  PROVE  Extends(stacks'[s], stacks[s])
<1>1. stacks[s] \in Seq(Item)
  BY DEF TypeOK
<1> QED BY <1>1, SameExtends

\* A panic only takes what was popped from the current evaluation stack.
LEMMA PanicBelow ==
  ASSUME TypeOK, NEW s, Below(s), NEW items, NEW sz, PanicWith(items, sz)
  PROVE  Extends(stacks'[s], stacks[s])
<1>1. s \in StackIds /\ s # estack
  BY DEF Below
<1>2. stacks'[s] = stacks[s]
  BY <1>1 DEF PanicWith, TypeOK
<1> QED BY <1>1, <1>2, SameStack

LEMMA ComputeBelow ==
  ASSUME TypeOK, NEW s, Below(s),
         \/ FailUnpriced \/ OutOfGas
         \/ Nop \/ Renew \/ Push \/ PopOne \/ ToAltStack \/ FromAltStack \/ Jump \/ JumpIf
  PROVE  Extends(stacks'[s], stacks[s])
<1>1. s \in StackIds /\ s # estack /\ s # astack /\ stacks \in [StackIds -> Seq(Item)]
  BY DEF Below, TypeOK
<1>2. CASE \E items, sz : PanicWith(items, sz)
  BY <1>2, PanicBelow
<1>3. Panic => \E items, sz : PanicWith(items, sz)
  BY DEF Panic
<1>4. CASE UNCHANGED stacks
  BY <1>1, <1>4, SameStack
<1>5. CASE \E items : stacks' = [stacks EXCEPT ![estack] = items]
  <2>1. stacks'[s] = stacks[s]
    BY <1>1, <1>5
  <2> QED BY <1>1, <2>1, SameStack
<1>6. CASE \E a, b : \/ stacks' = [stacks EXCEPT ![estack] = a, ![astack] = b]
                     \/ stacks' = [stacks EXCEPT ![astack] = a, ![estack] = b]
  <2>1. stacks'[s] = stacks[s]
    BY <1>1, <1>6
  <2> QED BY <1>1, <2>1, SameStack
<1>7. CASE FailUnpriced \/ OutOfGas
  BY <1>2, <1>3, <1>7 DEF FailUnpriced, OutOfGas
<1>8. CASE Nop \/ Renew
  BY <1>4, <1>8 DEF Nop, Renew
<1>9. CASE Push
  BY <1>5, <1>9 DEF Push
<1>10. CASE PopOne
  BY <1>2, <1>3, <1>5, <1>10 DEF PopOne
<1>11. CASE ToAltStack
  BY <1>2, <1>3, <1>6, <1>11 DEF ToAltStack, MoveTop
<1>12. CASE FromAltStack
  BY <1>2, <1>3, <1>6, <1>12 DEF FromAltStack, MoveTop
<1>13. CASE Jump
  BY <1>2, <1>3, <1>4, <1>13 DEF Jump
<1>14. CASE JumpIf
  BY <1>2, <1>3, <1>5, <1>14 DEF JumpIf
<1> QED BY <1>7, <1>8, <1>9, <1>10, <1>11, <1>12, <1>13, <1>14

\* The stacks of a new frame were nobody's.
LEMMA CallsBelow ==
  ASSUME TypeOK, NEW s, Below(s), Call \/ AppCall \/ CallIsolated
  PROVE  Extends(stacks'[s], stacks[s])
<1>1. /\ s \in StackIds /\ s # estack /\ s \in Live
      /\ stacks \in [StackIds -> Seq(Item)]
  BY DEF Below, TypeOK
<1>2. CASE \E items, sz : PanicWith(items, sz)
  BY <1>2, PanicBelow
<1>3. Panic => \E items, sz : PanicWith(items, sz)
  BY DEF Panic
<1>4. HasFresh => s # NewAlt /\ s # NewEval
  BY <1>1, FreshStacks
<1>5. CASE Call
  <2>1. CASE HasFresh /\ stacks' = [stacks EXCEPT ![NewAlt] = <<>>]
    <3>1. stacks'[s] = stacks[s]
      BY <1>1, <1>4, <2>1
    <3> QED BY <1>1, <3>1, SameStack
  <2> QED BY <1>2, <1>3, <1>5, <2>1 DEF Call
<1>6. CASE AppCall
  <2>1. ASSUME HasFresh, NEW rest, stacks' = [stacks EXCEPT ![estack] = rest, ![NewAlt] = <<>>]
        PROVE  Extends(stacks'[s], stacks[s])
    <3>1. stacks'[s] = stacks[s]
      BY <1>1, <1>4, <2>1
    <3> QED BY <1>1, <3>1, SameStack
  <2> QED BY <1>2, <1>3, <1>6, <2>1 DEF AppCall
<1>7. CASE CallIsolated
  <2>1. ASSUME HasFresh, NEW a, NEW b,
               stacks' = [stacks EXCEPT ![estack] = a, ![NewEval] = b, ![NewAlt] = <<>>]
        PROVE  Extends(stacks'[s], stacks[s])
    <3>1. stacks'[s] = stacks[s]
      BY <1>1, <1>4, <2>1
    <3> QED BY <1>1, <3>1, SameStack
  <2> QED BY <1>2, <1>3, <1>7, <2>1 DEF CallIsolated
<1> QED BY <1>5, <1>6, <1>7

\* RET puts what a frame returns on top of a stack of its caller.
LEMMA ReturnBelow ==
  ASSUME TypeOK, NEW s, Below(s), Return
  PROVE  Extends(stacks'[s], stacks[s])
<1>1. istack # <<>>
  BY ChargedFacts DEF Return
<1>2. /\ s \in StackIds /\ s # estack /\ s # ctx.as
      /\ stacks \in [StackIds -> Seq(Item)] /\ estack \in StackIds
  BY <1>1 DEF Below, TypeOK, ctx
<1>3. ctx.rvcount \in Int /\ ctx.as \in StackIds
  BY <1>1, FetchType DEF Context
<1>4. CASE UNCHANGED stacks
  BY <1>2, <1>4, SameStack
<1>5. CASE /\ ~(ctx.rvcount > 0 /\ Len(stacks[estack]) < ctx.rvcount)
           /\ stacks' = Returned(callers[1].es, callers[1].as)
  <2> DEFINE es == callers[1].es
             as == callers[1].as
             n == IF ctx.rvcount < 0 THEN Len(stacks[estack]) ELSE ctx.rvcount
  <2>1. /\ stacks[s] \in Seq(Item) /\ stacks[ctx.as] \in Seq(Item)
        /\ stacks[estack] \in Seq(Item) /\ Len(stacks[estack]) \in Nat
    BY <1>2, <1>3
  <2>2. n \in Nat /\ n <= Len(stacks[estack])
    BY <1>3, <1>5, <2>1
  <2>3. Take(stacks[estack], n) \in Seq(Item)
    <3> HIDE DEF n
    <3> QED BY <2>1, <2>2, TakeDropType
  <2>4. stacks' = Returned(es, as)
    BY <1>5
  <2> HIDE DEF es, as
  <2>5. CASE stacks'[s] = stacks[s]
    BY <1>2, <2>5, SameStack
  <2>6. \/ stacks'[s] = stacks[s]
        \/ stacks'[s] = Take(stacks[estack], n) \o stacks[s]
        \/ stacks'[s] = stacks[ctx.as] \o stacks[s]
    BY <1>2, <2>4 DEF Returned
  <2> HIDE DEF n
  <2> QED BY <2>1, <2>3, <2>5, <2>6, ConcatExtends
<1> QED BY <1>4, <1>5 DEF Return

LEMMA OthersBelow ==
  ASSUME TypeOK, NEW s, Below(s), Host \/ RunEnd \/ StepIntoStopped \/ StepOutEnd \/ StepOverEnd
  PROVE  Extends(stacks'[s], stacks[s])
<1>1. /\ s \in StackIds /\ s # estack /\ s # astack /\ s \in Live
      /\ stacks \in [StackIds -> Seq(Item)]
  BY DEF Below, TypeOK
<1>2. CASE Load \/ LoadScript
  <2>1. HasFresh /\ s # NewAlt
    BY <1>1, <1>2, FreshStacks DEF Load, LoadScript, Enter
  <2>2. stacks'[s] = stacks[s]
    BY <1>1, <1>2, <2>1 DEF Load, LoadScript, Enter
  <2> QED BY <1>1, <2>2, SameStack
<1>3. CASE ~(Load \/ LoadScript)
  <2>1. stacks' = stacks
    BY <1>3 DEF Host, AddBreakPoint, Run, StepInto, StepOut, StepOver,
                RunEnd, StepIntoStopped, StepOutEnd, StepOverEnd, frames
  <2> QED BY <1>1, <2>1, SameStack
<1> QED BY <1>2, <1>3

LEMMA NextBelow ==
  ASSUME TypeOK, NEW s, Below(s), [Next]_vars
  PROVE  Extends(stacks'[s], stacks[s])
<1>1. CASE UNCHANGED vars
  BY <1>1, SameStack DEF vars, Below
<1> QED BY <1>1, ComputeBelow, CallsBelow, ReturnBelow, OthersBelow DEF Next, Engine, Execute

\* What runs on top of a context may leave results on the context's own
\* stacks, but takes nothing from them and reorders nothing, for any mix of
\* calls, tail calls, returns, failures and host calls.
THEOREM FramesAreIsolated == Spec => FramesIsolated
<1>1. ASSUME FramesInv, [Next]_vars,
             NEW i \in 2..Len(istack), NEW s \in {istack[i].es, istack[i].as} \ {estack, astack}
      PROVE  Extends(stacks'[s], stacks[s])
  <2>1. TypeOK /\ Len(istack) \in Nat /\ DOMAIN istack = 1..Len(istack)
    BY <1>1, LengthFacts DEF FramesInv
  <2>2. i \in 1..Len(istack) /\ 1 \in 1..Len(istack) /\ i # 1
    BY <2>1
  <2>3. s \in StackIds \intersect Live
    <3>1. istack[i] \in Context
      BY <2>1, <2>2 DEF TypeOK
    <3>2. istack[i].es \in StackIds /\ istack[i].as \in StackIds
      BY <3>1 DEF Context
    <3>3. istack[i].es \in Live /\ istack[i].as \in Live
      BY <2>1, <2>2, InLive
    <3> QED BY <3>2, <3>3
  <2>4. s # istack[1].as
    BY <1>1, <2>1, <2>2 DEF FramesInv, StacksOwned
  <2> QED BY <1>1, <2>1, <2>3, <2>4, NextBelow DEF Below
<1>2. FramesInv /\ [Next]_vars =>
        [\A i \in 2..Len(istack) : \A s \in {istack[i].es, istack[i].as} \ {estack, astack} :
           Len(stacks'[s]) >= Len(stacks[s])
             /\ Drop(stacks'[s], Len(stacks'[s]) - Len(stacks[s])) = stacks[s]]_vars
  BY <1>1 DEF Extends
<1> QED BY <1>2, FramesInvHolds, PTL DEF Spec, FramesIsolated
=============================================================================
