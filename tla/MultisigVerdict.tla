--------------------------- MODULE MultisigVerdict ---------------------------
(***************************************************************************)
(* What the CHECKMULTISIG instruction promises to a script: one verdict    *)
(* per call, TRUE exactly when the signatures can be assigned to distinct  *)
(* keys in the order both were given, and a FAULT only where the call was  *)
(* malformed or a key or signature cannot be used.                         *)
(***************************************************************************)
EXTENDS MultisigCall

VARIABLES
  in,        \* the arguments of the call, see MultisigCall
  verdict    \* "none" until the call ends

vars == <<in, verdict>>

Init == in \in Input /\ verdict = "none"

Answer == /\ verdict = "none"
          /\ verdict' \in {"TRUE", "FALSE"}
          /\ verdict' = "TRUE" <=> AllMatch(in)
          /\ UNCHANGED in

Fault == /\ verdict = "none"
         /\ MayFault(in)
         /\ verdict' = "FAULT"
         /\ UNCHANGED in

Next == Answer \/ Fault

Spec == Init /\ [][Next]_vars
=============================================================================
