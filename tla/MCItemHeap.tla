------------------------------ MODULE MCItemHeap ------------------------------
(* Instances of ItemHeap.                                                  *)
EXTENDS ItemHeap

AnyAddress == Permutations(Addresses)
AllOps == DOMAIN Operands \union DOMAIN Looks \union {"PUSH", "NEWMAP"}
ListOps == {"PUSH", "DUP", "DROP", "NEWARRAY", "APPEND", "SETITEM", "REMOVE"}
=============================================================================
