----------------------------- MODULE MCVMControl -----------------------------
(* Instances of VMControl: two scripts, main and lib, put together from     *)
(* small sets of instructions.                                              *)
EXTENDS VMControl, TLC

MCScripts == {"main", "lib"}
MCBreakPoints == {0, 1, 2}
NoBreakPoints == {}
CallHost == {"LoadScript", "Load", "Run"}
DebugHost == {"LoadScript", "Load", "AddBreakPoint", "Run", "StepInto", "StepOut", "StepOver"}
BreakHost == {"Load", "AddBreakPoint", "Run"}
StepHost == {"Load", "Run", "StepOut"}

\* No years, a price above the limit, one below it, and two that give gas back.
MCRenewalPrice ==
  ("false" :> 0) @@ ("true" :> 50) @@ ("none" :> 25) @@ ("lib" :> -1) @@ ("main" :> -9)

I(op) == [op |-> op]
P(item) == [op |-> "PUSH", item |-> item]
T(op, target) == [op |-> op, target |-> target]
H(op, hash) == [op |-> op, hash |-> hash]
CI(rv, p, target) == [op |-> "CALLI", rvcount |-> rv, pcount |-> p, target |-> target]
CH(op, rv, p, hash) == [op |-> op, rvcount |-> rv, pcount |-> p, hash |-> hash]
CD(op, rv, p) == [op |-> op, rvcount |-> rv, pcount |-> p]

\* Only lib may always call dynamically.
Both(mains, libs) ==
  {("main" :> [prog |-> m, dyn |-> d]) @@ ("lib" :> [prog |-> l, dyn |-> TRUE]) :
     m \in mains, l \in libs, d \in BOOLEAN}

Calls ==
  {T("CALL", 1), T("CALL", 9), CI(1, 1, 1), CI(0, 1, 2), CI(1, 0, 9),
   H("APPCALL", "lib"), H("APPCALL", "none"), H("APPCALL", "zero"),
   H("TAILCALL", "lib"), H("TAILCALL", "zero"),
   CH("CALLE", 1, 1, "lib"), CH("CALLE", 0, 0, "none"), CH("CALLET", 1, 0, "lib"),
   CD("CALLED", 1, 0), CD("CALLED", 0, 1)}
Rest ==
  {I("TOALTSTACK"), I("FROMALTSTACK"), I("DROP"), T("JMP", 0), T("JMPIF", 1), T("JMPIF", 9), T("JMPIF", -1),
   I("THROWIFNOT"), H("TAILCALL", "lib")}
LibStarts ==
  {P("true"), I("TOALTSTACK"), I("DROP"), CH("CALLET", 1, 0, "lib"), CH("CALLET", 0, 1, "lib"),
   CD("CALLEDT", 1, 0), H("TAILCALL", "main"), CH("CALLE", 1, 1, "lib"), T("CALL", 1)}

\* A loop that renews: with lib it balances, with main it gains until gas wraps
\* around, and with the others it ends.
Renewals ==
  {<<P(years), P("true"), I("RENEW"), c>> :
     years \in Item, c \in {T("JMP", 2), I("DROP"), T("CALL", 2)}}
    \union {<<P("lib"), I("RENEW")>>}

\* main pushes two items, calls and goes on; lib does something and returns.
CallCodes ==
  Both(Renewals, {<<I("NOP")>>}) \union
  Both({<<P(a), P("lib"), c, x>> : a \in {"true", "false"}, c \in Calls, x \in Rest},
       {<<y, z>> : y \in LibStarts, z \in {P("true"), I("TOALTSTACK"), I("NOP"), I("TRUNCATED")}})

\* A loop of calls, a call of the other script, a script that fails, and loops that
\* renew.
DebugCodes ==
  Both({<<P(years), P("true"), I("RENEW"), T("JMP", 2)>> : years \in {"lib", "main"}}, {<<I("RET")>>})
  \union
  Both({<<x, T("CALL", 2), y>> : x \in {P("true"), T("JMP", 0), H("APPCALL", "lib")},
                                 y \in {P("true"), I("THROWIFNOT")}},
       {<<P("true"), I("RET")>>})
=============================================================================
