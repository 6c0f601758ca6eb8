------------------------------ MODULE VMControl ------------------------------
(***************************************************************************)
(* The control of the NEO virtual machine (pkg/vm/vm.go, context.go,       *)
(* state.go, stack.go): the state flags, the invocation stack and the      *)
(* stacks its contexts point to, the calls and returns that move items     *)
(* between them, gas, and the operations a host drives the machine with:   *)
(* Load, LoadScript, AddBreakPoint, Run, StepInto, StepOut and StepOver.   *)
(*                                                                         *)
(* An instruction is a record holding its decoded parameter and takes one  *)
(* position of its script.  Every instruction that only computes on the    *)
(* evaluation stack is represented by PUSH and DROP, and items are         *)
(* primitive: booleans and script hashes.  Of the system calls there is    *)
(* the one that need not cost anything, Neo.Asset.Renew as the CLI has it. *)
(* The host is sequential: an operation runs to its end, one instruction   *)
(* per step, before the next.                                              *)
(***************************************************************************)
EXTENDS Words, Sequences, FiniteSets

CONSTANTS
  Codes,                    \* the sets of scripts to run, see CodesAssumption
  Scripts,                  \* hashes getScript knows
  Entry,                    \* the script the host loads
  Unknown,                  \* a hash getScript does not know
  StackIds,                 \* addresses of evaluation and alt stacks
  MaxInvocationStackSize,
  MaxStackSize,
  GasLimit,                 \* 0: no limit
  RenewalPrice,             \* what getSyscallPrice makes of an item, for
                            \* Asset.Renew: 5000 GAS by the year, in int64
  BreakPoints,              \* positions the host sets breakpoints at
  HostOps,                  \* the operations the host uses
  MaxSize, MaxGas           \* the host stops when size or gas is above these:
                            \* bounds of the model, the program has none

VARIABLES
  code,            \* the scripts of this behaviour; never changes
  state,           \* v.state, a set of flags
  istack,          \* invocation stack, a sequence of contexts, top first
  stacks,          \* items of every evaluation and alt stack, top first
  estack, astack,  \* v.estack and v.astack, in StackIds
  size,            \* v.size, items counted on all stacks
  gas,             \* v.gasConsumed, an int64
  mode,            \* where the host call in progress is, "host" between calls
  expSize,         \* the local variable of StepOut and StepOver
  failed,          \* history: an instruction failed since the last Load
  entryStack       \* history: the evaluation stack the script was loaded on

vars == <<code, state, istack, stacks, estack, astack, size, gas, mode, expSize,
          failed, entryStack>>

frames == <<istack, stacks, estack, astack, size>>

Bools == {"true", "false"}
Hashes == Scripts \union {Unknown}
Item == Bools \union Hashes
Flags == {"HALT", "FAULT", "BREAK"}

Context == [script : Scripts, ip : Nat, nextip : Nat, breakPoints : SUBSET BreakPoints,
            rvcount : Int, es : StackIds, as : StackIds, dyn : BOOLEAN]

\* TRUNCATED is an instruction whose parameter runs past the end of the script.
Instruction ==
       [op : {"NOP", "DROP", "TOALTSTACK", "FROMALTSTACK", "RET", "THROWIFNOT", "RENEW",
              "TRUNCATED"}]
  \union [op : {"PUSH"}, item : Item]
  \union [op : {"JMP", "JMPIF", "CALL"}, target : Int]
  \union [op : {"APPCALL", "TAILCALL"}, hash : Hashes \union {"zero"}]
  \union [op : {"CALLI"}, rvcount : Nat, pcount : Nat, target : Int]
  \union [op : {"CALLE", "CALLET"}, rvcount : Nat, pcount : Nat, hash : Hashes]
  \union [op : {"CALLED", "CALLEDT"}, rvcount : Nat, pcount : Nat]

Script == [prog : Seq(Instruction), dyn : BOOLEAN]

ASSUME CodesAssumption == \A c \in Codes : c \in [Scripts -> Script]
ASSUME NamesAssumption ==
  /\ Entry \in Scripts /\ Unknown \notin Scripts
  /\ Hashes \intersect (Bools \union {"zero"}) = {}
ASSUME LimitsAssumption ==
  /\ MaxInvocationStackSize \in Nat \ {0}
  /\ MaxStackSize \in Nat /\ GasLimit \in Nat
  /\ MaxSize \in Nat /\ MaxGas \in Nat
  /\ BreakPoints \subseteq Nat
ASSUME RenewalAssumption == RenewalPrice \in [Item -> Words]
ASSUME StackIdsAssumption == \E a, b \in StackIds : a # b

TypeOK ==
  /\ code \in [Scripts -> Script]
  /\ state \in SUBSET Flags
  /\ istack \in Seq(Context)
  /\ stacks \in [StackIds -> Seq(Item)]
  /\ estack \in StackIds /\ astack \in StackIds /\ entryStack \in StackIds
  /\ size \in Int
  /\ gas \in Words
  /\ mode \in {"host", "Run", "StepInto", "StepOut", "StepOver", "CheckStepOver"}
  /\ expSize \in Nat
  /\ failed \in BOOLEAN

-----------------------------------------------------------------------------
(* Stacks                                                                  *)

\* Mutant: the loop that moves items stops one short.
TakeTooFew(s, n) == SubSeq(s, 1, n - 1)
Take(s, n) == SubSeq(s, 1, n)
Drop(s, n) == SubSeq(s, n + 1, Len(s))

\* The stacks some pointer of the machine leads to.
Live == {estack, astack} \union {istack[i].es : i \in DOMAIN istack}
                        \union {istack[i].as : i \in DOMAIN istack}

\* The items on the stacks S, each at a place of its own.
Places(held, S) == UNION {{s} \X DOMAIN held[s] : s \in S}
LiveItems == Cardinality(Places(stacks, Live))

\* newItemStack gives a stack nobody points to; two are left.
HasFresh == \A s \in StackIds : ~(StackIds \subseteq Live \union {s})
\* Mutant: a call keeps the caller's alt stack.
SharedAlt == astack
NewAlt == CHOOSE s \in StackIds : s \notin Live
NewEval == CHOOSE s \in StackIds : s \notin Live \union {NewAlt}

\* Mutant: the called script may invoke dynamically if its caller may.
InheritingContext(h, es, as, rvcount, dyn) ==
  [script |-> h, ip |-> 0, nextip |-> 0, breakPoints |-> {}, rvcount |-> rvcount,
   es |-> es, as |-> as, dyn |-> dyn \/ (istack # <<>> /\ istack[1].dyn)]
NewContext(h, es, as, rvcount, dyn) ==
  [script |-> h, ip |-> 0, nextip |-> 0, breakPoints |-> {}, rvcount |-> rvcount,
   es |-> es, as |-> as, dyn |-> dyn]

AtBreakPoint(c) == c.ip \in c.breakPoints
BreakHere == istack # <<>> /\ AtBreakPoint(istack[1])
\* Mutant: only a halt stops the machine.
HasHalted == "HALT" \in state
HasStopped == state \intersect {"HALT", "FAULT"} # {}

-----------------------------------------------------------------------------
(* One instruction                                                         *)

ctx == istack[1]
callers == Tail(istack)
prog == code[ctx.script].prog

\* Past its last instruction a script returns.
PastEnd == ctx.nextip >= Len(prog)
instr == IF PastEnd THEN [op |-> "RET"] ELSE prog[ctx.nextip + 1]

\* ctx after Next has moved it on.
moved == [ctx EXCEPT !.ip = ctx.nextip, !.nextip = IF PastEnd THEN @ ELSE @ + 1]
Advanced == <<moved>> \o callers

\* getSyscallPrice peeks at the element below the top for the years to renew.
Years == stacks[estack][2]

\* Mutant: passing control is free.
PriceOfWork ==
  CASE instr.op \in {"PUSH", "NOP", "JMP", "CALL", "CALLET"} -> 0
    [] instr.op \in {"APPCALL", "TAILCALL"} -> 10
    [] instr.op = "RENEW" -> RenewalPrice[Years]
    [] OTHER -> 1

\* The getPrice of the CLI, in units of 0.001 GAS.
Price ==
  CASE instr.op \in {"PUSH", "NOP"} -> 0
    [] instr.op \in {"APPCALL", "TAILCALL"} -> 10
    [] instr.op = "RENEW" -> RenewalPrice[Years]
    [] OTHER -> 1

\* Nothing is charged for falling off the end, nor is the limit looked at then.
Spent == IF PastEnd THEN gas ELSE Int64(gas + Price)
Exceeds == ~PastEnd /\ GasLimit > 0 /\ Spent > GasLimit

\* Whether the loop of the operation in progress gets to execute an instruction.
Executes ==
  /\ istack # <<>>
  /\ \/ mode = "Run" /\ state = {} /\ ~BreakHere
     \/ mode \in {"StepInto", "StepOver"} /\ ~HasStopped
     \/ mode = "StepOut" /\ state = {} /\ Len(istack) >= expSize

\* Where a loop goes on after StepInto.
AfterStepInto ==
  CASE mode = "StepInto" -> "host"
    [] mode = "StepOver" -> "CheckStepOver"
    [] mode = "StepOut" -> "StepOut"

Leaves ==
  /\ mode' = IF mode # "Run" THEN AfterStepInto
             ELSE IF "FAULT" \in state' THEN "host" ELSE "Run"
  /\ UNCHANGED <<code, expSize, entryStack>>

\* Mutant: an item too many.
TooManyPlusOne == size' > MaxStackSize + 1
TooMany == size' > MaxStackSize

\* The deferred function of execute after a panic, and after an instruction
\* that left the state at s; StepInto then looks for a breakpoint.
Panicked == state' = {"FAULT"} /\ failed' = TRUE /\ Leaves
Done(s) ==
  /\ state' = IF TooMany THEN {"FAULT"}
              ELSE IF mode # "Run" /\ BreakHere' THEN {"BREAK"}
              ELSE s
  /\ failed' = (failed \/ TooMany)
  /\ Leaves

\* A panic once the evaluation stack holds items and size has followed.
PanicWith(items, sz) ==
  /\ istack' = Advanced
  /\ stacks' = [stacks EXCEPT ![estack] = items]
  /\ size' = sz
  /\ UNCHANGED <<estack, astack>>
  /\ Panicked
Panic == PanicWith(stacks[estack], size)

\* Next cannot read the parameter, or getSyscallPrice finds no element to peek at.
Unpriced == instr.op = "TRUNCATED" \/ (instr.op = "RENEW" /\ Len(stacks[estack]) < 2)
FailUnpriced == Executes /\ Unpriced /\ Panic /\ UNCHANGED gas
OutOfGas == Executes /\ ~Unpriced /\ Exceeds /\ Panic /\ gas' = Spent

Charged(ops) == Executes /\ instr.op \in ops /\ ~Unpriced /\ ~Exceeds /\ gas' = Spent

Nop ==
  /\ Charged({"NOP"})
  /\ istack' = Advanced
  /\ UNCHANGED <<stacks, estack, astack, size>>
  /\ Done(state)

\* The CLI's Asset.Renew does nothing yet.
Renew ==
  /\ Charged({"RENEW"})
  /\ istack' = Advanced
  /\ UNCHANGED <<stacks, estack, astack, size>>
  /\ Done(state)

Push ==
  /\ Charged({"PUSH"})
  /\ istack' = Advanced
  /\ stacks' = [stacks EXCEPT ![estack] = <<instr.item>> \o @]
  /\ size' = size + 1
  /\ UNCHANGED <<estack, astack>>
  /\ Done(state)

\* DROP, and THROWIFNOT which panics on what it popped.
PopOne ==
  /\ Charged({"DROP", "THROWIFNOT"})
  /\ IF stacks[estack] = <<>> THEN Panic
     ELSE IF instr.op = "THROWIFNOT" /\ Head(stacks[estack]) = "false"
     THEN PanicWith(Tail(stacks[estack]), size - 1)
     ELSE /\ istack' = Advanced
          /\ stacks' = [stacks EXCEPT ![estack] = Tail(@)]
          /\ size' = size - 1
          /\ UNCHANGED <<estack, astack>>
          /\ Done(state)

MoveTop(from, to) ==
  IF stacks[from] = <<>> THEN Panic
  ELSE /\ istack' = Advanced
       /\ stacks' = [stacks EXCEPT ![from] = Tail(@), ![to] = <<Head(stacks[from])>> \o @]
       /\ UNCHANGED <<estack, astack, size>>
       /\ Done(state)

ToAltStack == Charged({"TOALTSTACK"}) /\ MoveTop(estack, astack)
FromAltStack == Charged({"FROMALTSTACK"}) /\ MoveTop(astack, estack)

\* getJumpOffset panics on an offset outside the script; its end is inside.
\* Mutant: the offset is only compared with the end.
OffsetBeforeEnd(n) == n <= Len(prog)
ValidOffset(n) == n \in 0..Len(prog)
JumpTo(c, n) == IF ValidOffset(n) THEN [c EXCEPT !.nextip = n] ELSE c

Jump ==
  /\ Charged({"JMP"})
  /\ IF ~ValidOffset(instr.target) THEN Panic
     ELSE /\ istack' = <<JumpTo(moved, instr.target)>> \o callers
          /\ UNCHANGED <<stacks, estack, astack, size>>
          /\ Done(state)

JumpIf ==
  /\ Charged({"JMPIF"})
  /\ IF ~ValidOffset(instr.target) \/ stacks[estack] = <<>> THEN Panic
     ELSE /\ istack' = IF Head(stacks[estack]) = "false" THEN Advanced
                       ELSE <<JumpTo(moved, instr.target)>> \o callers
          /\ stacks' = [stacks EXCEPT ![estack] = Tail(@)]
          /\ size' = size - 1
          /\ UNCHANGED <<estack, astack>>
          /\ Done(state)

\* checkInvocationStackSize panics.
\* Mutant: an off-by-one.
IstackOverfull == Len(istack) > MaxInvocationStackSize
IstackFull == Len(istack) >= MaxInvocationStackSize

\* A copy of the context on the same evaluation stack, with an alt stack of
\* its own; the offset is only looked at when the copy is on the stack.
Call ==
  /\ Charged({"CALL"})
  /\ IF IstackFull THEN Panic
     ELSE /\ HasFresh
          /\ istack' = <<JumpTo([moved EXCEPT !.rvcount = -1, !.as = NewAlt], instr.target)>>
                       \o Advanced
          /\ stacks' = [stacks EXCEPT ![NewAlt] = <<>>]
          /\ astack' = NewAlt
          /\ UNCHANGED <<estack, size>>
          /\ IF ValidOffset(instr.target) THEN Done(state) ELSE Panicked

\* Another script on the same evaluation stack, after the caller or in place
\* of it.  A zero hash stands for one on the stack.
AppCall ==
  LET dynamic == instr.hash = "zero"
      items == stacks[estack]
      hash == IF dynamic THEN Head(items) ELSE instr.hash
      rest == IF dynamic THEN Tail(items) ELSE items
      left == IF dynamic THEN size - 1 ELSE size
  IN /\ Charged({"APPCALL", "TAILCALL"})
     /\ IF dynamic /\ items = <<>> THEN Panic
        ELSE IF \/ dynamic /\ ~ctx.dyn
                \/ instr.op = "APPCALL" /\ IstackFull
                \/ hash \notin Scripts
        THEN PanicWith(rest, left)
        ELSE /\ HasFresh
             /\ istack' = <<NewContext(hash, estack, NewAlt, -1, code[hash].dyn)>>
                          \o (IF instr.op = "APPCALL" THEN Advanced ELSE callers)
             /\ stacks' = [stacks EXCEPT ![estack] = rest, ![NewAlt] = <<>>]
             /\ astack' = NewAlt
             /\ size' = left
             /\ UNCHANGED estack
             /\ Done(state)

\* CALLI and its family: a frame with evaluation and alt stacks of its own,
\* handed pcount items and to return rvcount.
CallIsolated ==
  LET onStack == instr.op \in {"CALLED", "CALLEDT"}
      tail == instr.op \in {"CALLET", "CALLEDT"}
      needed == instr.pcount + (IF onStack THEN 1 ELSE 0)
      items == IF onStack THEN Tail(stacks[estack]) ELSE stacks[estack]
      left == IF onStack THEN size - 1 ELSE size
      hash == IF onStack THEN Head(stacks[estack]) ELSE instr.hash
      frame == IF instr.op = "CALLI"
               THEN JumpTo([moved EXCEPT !.rvcount = instr.rvcount, !.es = NewEval, !.as = NewAlt],
                           instr.target)
               ELSE NewContext(hash, NewEval, NewAlt, instr.rvcount, code[hash].dyn)
  IN /\ Charged({"CALLI", "CALLE", "CALLED", "CALLET", "CALLEDT"})
     /\ IF \/ onStack /\ ~ctx.dyn
           \/ Len(stacks[estack]) < needed
           \/ tail /\ ctx.rvcount # instr.rvcount
           \/ ~tail /\ IstackFull
        THEN Panic
        ELSE IF instr.op # "CALLI" /\ hash \notin Scripts THEN PanicWith(items, left)
        ELSE /\ HasFresh
             /\ istack' = <<frame>> \o (IF tail THEN callers ELSE Advanced)
             /\ stacks' = [stacks EXCEPT ![estack] = Drop(items, instr.pcount),
                                         ![NewEval] = Take(items, instr.pcount),
                                         ![NewAlt] = <<>>]
             /\ estack' = NewEval /\ astack' = NewAlt
             /\ size' = left
             /\ IF instr.op = "CALLI" /\ ~ValidOffset(instr.target) THEN Panicked ELSE Done(state)

\* RET: the items a frame returns go on top of its caller's, those of an alt
\* stack only when the frame shared the caller's evaluation stack.
\* Mutant: the results replace the caller's items.
Overwritten(es, as) ==
  LET n == IF ctx.rvcount < 0 THEN Len(stacks[estack]) ELSE ctx.rvcount
  IN IF estack # es
     THEN [stacks EXCEPT ![es] = Take(stacks[estack], n), ![estack] = Drop(@, n)]
     ELSE IF ctx.rvcount = -1 /\ as # ctx.as
     THEN [stacks EXCEPT ![as] = stacks[ctx.as] \o @, ![ctx.as] = <<>>]
     ELSE stacks
Returned(es, as) ==
  LET n == IF ctx.rvcount < 0 THEN Len(stacks[estack]) ELSE ctx.rvcount
  IN IF estack # es
     THEN [stacks EXCEPT ![es] = Take(stacks[estack], n) \o @, ![estack] = Drop(@, n)]
     ELSE IF ctx.rvcount = -1 /\ as # ctx.as
     THEN [stacks EXCEPT ![as] = stacks[ctx.as] \o @, ![ctx.as] = <<>>]
     ELSE stacks

\* The caller goes on.
\* Mutants: with the alt or the evaluation stack of the frame that ended.
ResumeKeepingAlt(c) == estack' = c.es /\ UNCHANGED astack
ResumeKeepingEval(c) == UNCHANGED estack /\ astack' = c.as
Resume(c) == estack' = c.es /\ astack' = c.as

Return ==
  /\ Charged({"RET"})
  /\ istack' = callers
  /\ UNCHANGED size
  /\ IF ctx.rvcount > 0 /\ Len(stacks[estack]) < ctx.rvcount
     THEN UNCHANGED <<stacks, estack, astack>> /\ Panicked
     ELSE IF callers = <<>> THEN UNCHANGED <<stacks, estack, astack>> /\ Done({"HALT"})
     ELSE /\ stacks' = Returned(callers[1].es, callers[1].as)
          /\ Resume(callers[1])
          /\ Done(state)

Execute ==
  \/ FailUnpriced \/ OutOfGas \/ Nop \/ Renew \/ Push \/ PopOne \/ ToAltStack \/ FromAltStack
  \/ Jump \/ JumpIf \/ Call \/ AppCall \/ CallIsolated \/ Return

-----------------------------------------------------------------------------
(* The loops of Run, StepInto, StepOut and StepOver                        *)

RunEnd ==
  /\ mode = "Run"
  /\ state # {} \/ BreakHere
  /\ state' = IF BreakHere THEN state \union {"BREAK"} ELSE state
  /\ mode' = "host"
  /\ UNCHANGED <<code, frames, gas, expSize, failed, entryStack>>

\* StepInto returns before executing anything.
StepIntoStopped ==
  /\ \/ mode \in {"StepInto", "StepOver"}
     \/ mode = "StepOut" /\ state = {} /\ Len(istack) >= expSize
  /\ istack = <<>> \/ HasStopped
  /\ state' = IF istack = <<>> THEN state \union {"HALT"} ELSE state
  /\ mode' = AfterStepInto
  /\ UNCHANGED <<code, frames, gas, expSize, failed, entryStack>>

StepOutEnd ==
  /\ mode = "StepOut"
  /\ state # {} \/ Len(istack) < expSize
  /\ mode' = "host"
  /\ UNCHANGED <<code, state, frames, gas, expSize, failed, entryStack>>

StepOverEnd ==
  /\ mode = "CheckStepOver"
  /\ IF state = {} /\ Len(istack) > expSize
     THEN mode' = "StepOver" /\ UNCHANGED state
     ELSE mode' = "host" /\ state' = IF state = {} THEN {"BREAK"} ELSE state
  /\ UNCHANGED <<code, frames, gas, expSize, failed, entryStack>>

Engine == Execute \/ RunEnd \/ StepIntoStopped \/ StepOutEnd \/ StepOverEnd

-----------------------------------------------------------------------------
(* The host's calls                                                        *)

HostCalls(op) ==
  mode = "host" /\ op \in HostOps /\ size <= MaxSize /\ gas <= MaxGas

\* LoadScript: the script goes on the current evaluation stack.
Enter(cleared) ==
  /\ HasFresh
  /\ istack' = <<NewContext(Entry, estack, NewAlt, -1, FALSE)>>
  /\ stacks' = [cleared EXCEPT ![NewAlt] = <<>>]
  /\ astack' = NewAlt
  /\ entryStack' = estack
  /\ UNCHANGED <<code, estack, size, mode, expSize>>

LoadScript ==
  /\ HostCalls("LoadScript")
  /\ istack = <<>>
  /\ Enter(stacks)
  /\ UNCHANGED <<state, gas, failed>>

\* Load empties the current stacks; v.size still counts what was on them.
Load ==
  /\ HostCalls("Load")
  /\ Enter([stacks EXCEPT ![estack] = <<>>, ![astack] = <<>>])
  /\ state' = {} /\ gas' = 0 /\ failed' = FALSE

AddBreakPoint(n) ==
  /\ HostCalls("AddBreakPoint")
  /\ istack # <<>>
  /\ istack' = [istack EXCEPT ![1].breakPoints = @ \union {n}]
  /\ UNCHANGED <<code, state, stacks, estack, astack, size, gas, mode, expSize, failed, entryStack>>

\* Mutant: the state is left as it was.
RunAsIs ==
  /\ HostCalls("Run")
  /\ IF istack = <<>> THEN state' = {"FAULT"} /\ UNCHANGED mode
     ELSE IF "FAULT" \in state THEN UNCHANGED <<state, mode>>
     ELSE UNCHANGED state /\ mode' = "Run"
  /\ UNCHANGED <<code, frames, gas, expSize, failed, entryStack>>
Run ==
  /\ HostCalls("Run")
  /\ IF istack = <<>> THEN state' = {"FAULT"} /\ UNCHANGED mode
     ELSE IF "FAULT" \in state THEN UNCHANGED <<state, mode>>
     ELSE state' = {} /\ mode' = "Run"
  /\ UNCHANGED <<code, frames, gas, expSize, failed, entryStack>>

StepInto ==
  /\ HostCalls("StepInto")
  /\ mode' = "StepInto"
  /\ UNCHANGED <<code, state, frames, gas, expSize, failed, entryStack>>

\* StepOut and StepOver toggle breakState before they step.
Toggled == IF state = {"BREAK"} THEN {} ELSE {"BREAK"}

StepOut ==
  /\ HostCalls("StepOut")
  /\ state' = Toggled /\ expSize' = Len(istack) /\ mode' = "StepOut"
  /\ UNCHANGED <<code, frames, gas, failed, entryStack>>

StepOver ==
  /\ HostCalls("StepOver")
  /\ ~HasStopped
  /\ state' = Toggled /\ expSize' = Len(istack) /\ mode' = "StepOver"
  /\ UNCHANGED <<code, frames, gas, failed, entryStack>>

Host ==
  \/ LoadScript \/ Load \/ Run \/ StepInto \/ StepOut \/ StepOver
  \/ \E n \in BreakPoints : AddBreakPoint(n)

\* New: two empty stacks, no script, haltState.
Init ==
  /\ code \in Codes
  /\ state = {"HALT"}
  /\ istack = <<>>
  /\ stacks = [s \in StackIds |-> <<>>]
  /\ estack = CHOOSE s \in StackIds : TRUE
  /\ astack = CHOOSE s \in StackIds : s # estack
  /\ entryStack = estack
  /\ size = 0 /\ gas = 0
  /\ mode = "host" /\ expSize = 0
  /\ failed = FALSE

Next == Host \/ Engine

Spec == Init /\ [][Next]_vars

\* A host call runs to its end: nothing but the machine itself stops it.
FairSpec == Spec /\ WF_vars(Engine)
-----------------------------------------------------------------------------
(* Properties                                                              *)

\* Calls never nest deeper than MaxInvocationStackSize, whatever mix of CALL,
\* APPCALL and CALLI grows the stack: tail calls are not checked
\* (vm.go:1168-1170, 1362-1368) and rely on the pop before their push.
IstackBounded == Len(istack) <= MaxInvocationStackSize

\* As long as no instruction failed, v.estack and v.astack are the top
\* context's: every call and return updates three places (vm.go:258-264,
\* 1137-1147, 1185-1216, 1396-1404) and the items of a frame follow.
CurrentStacks ==
  ~failed /\ istack # <<>> => estack = istack[1].es /\ astack = istack[1].as

\* An alt stack belongs to one context and is nobody's evaluation stack, and
\* the contexts sharing an evaluation stack are neighbours: RET compares the
\* pointers to tell what kind of call it returns from (vm.go:1198, 1209).
StacksOwned ==
  /\ \A i, j \in DOMAIN istack : i # j => istack[i].as # istack[j].as
  /\ \A i, j \in DOMAIN istack : istack[i].as # istack[j].es
  /\ \A i, k \in DOMAIN istack : istack[i].es = istack[k].es =>
       \A j \in i..k : istack[j].es = istack[i].es

\* Code runs dynamic invocations only in a context whose script getScript
\* allowed to, however the context was made: copied by CALL and CALLI,
\* replaced by a tail call (vm.go:523-542, 269-274, 1386-1390).
DynamicOnlyIfAllowed ==
  \A i \in DOMAIN istack : istack[i].dyn => code[istack[i].script].dyn

\* When the last context returned without a failure, the current evaluation
\* stack, which the host reads results from, is the one the script was loaded
\* on; tail calls and isolated frames all find their way back to it.
ResultOnEntryStack == ~failed /\ istack = <<>> => estack = entryStack

\* Items in use are counted, so that the check of v.size in execute bounds
\* them: no path moves an item between stacks without counting it.
LiveCounted == LiveItems <= size
ItemsWithinLimit == ~failed => LiveItems <= MaxStackSize

\* v.size drifts from the items in use, and the drift never shrinks: nothing
\* gives those items back.  Until an instruction fails it only grows when a frame
\* is dropped with items nobody asked back (RET with rvcount, tail calls) or on
\* Load and LoadScript; a machine that goes on after a failure may leave the
\* current stacks behind with any call.
LeakOnlyAtFrameEnd ==
  [][LET leak == size - LiveItems
     IN leak' # leak =>
          /\ leak' > leak
          /\ \/ mode = "host" \/ failed
             \/ instr.op \in {"RET", "TAILCALL", "CALLET", "CALLEDT"}]_vars

\* What runs on top of a context never takes or reorders an item of a stack
\* it does not share with it: it may at most leave its results on top.
FramesIsolated ==
  [][\A i \in 2..Len(istack) : \A s \in {istack[i].es, istack[i].as} \ {estack, astack} :
       Len(stacks'[s]) >= Len(stacks[s]) /\ Drop(stacks'[s], Len(stacks'[s]) - Len(stacks[s])) = stacks[s]]_vars

\* Run ends in exactly one of three ways: HALT with every context returned,
\* FAULT after an error, BREAK with a context left to continue.
RunEndsProperly ==
  [][mode = "Run" /\ mode' = "host" /\ ~failed =>
       \/ state' = {"HALT"} /\ istack' = <<>> /\ ~failed'
       \/ state' = {"FAULT"} /\ failed'
       \/ state' = {"BREAK"} /\ istack' # <<>> /\ ~failed']_vars

\* Once an instruction failed no call of the host executes another one, while
\* the state says so.
FaultIsInert ==
  [][mode # "host" /\ "FAULT" \in state => UNCHANGED <<frames, gas>>]_vars

\* With a gas limit every call of the host returns, for each cycle of a script
\* holds an instruction that is not free; but a script that renews an asset at no
\* price, or gains by it, again and again may pay for all its cycles that way and
\* never end (main.go:1666-1668).
CallsReturn == (mode # "host" ~> mode = "host") \/ []<><<Renew /\ gas' <= gas>>_vars

\* A machine that failed stays failed until the next Load.
FailedStaysFailed == failed => "FAULT" \in state

\* Run stops before the instruction a breakpoint was set at.
BreaksBefore ==
  [][mode = "Run" /\ "BREAK" \in state' => istack[1].nextip \in istack[1].breakPoints]_vars
=============================================================================
