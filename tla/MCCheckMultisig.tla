-------------------------- MODULE MCCheckMultisig --------------------------
(***************************************************************************)
(* Small instances of CheckMultisig: every relation between MaxSigs        *)
(* signatures and MaxKeys keys.                                            *)
(***************************************************************************)
EXTENDS CheckMultisig, TLC

CONSTANTS MaxKeys, MaxSigs,
          BadKeys,      \* keys that may be undecodable
          InfKeys,      \* keys that may be the point at infinity
          ShortSigs     \* signatures that may be shorter than 64 bytes

Call(n, m, valid, bad, inf, short, hash) ==
  [nkeys |-> n, nsigs |-> m, checkhash |-> hash, undecodable |-> bad,
   infinity |-> inf, short |-> short,
   valid |-> {p \in valid : /\ p[2] \notin bad \union inf
                            /\ p[1] \notin short}]

MCInputs ==
  UNION {{Call(n, m, valid, bad, inf, short, TRUE) :
             valid \in SUBSET ((0..m - 1) \X (0..n - 1)),
             bad \in SUBSET (BadKeys \intersect 0..n - 1),
             inf \in SUBSET (InfKeys \intersect 0..n - 1),
             short \in SUBSET (ShortSigs \intersect 0..m - 1)} :
           <<n, m>> \in (1..MaxKeys) \X (1..MaxSigs)}
  \union {Call(1, 1, {<<0, 0>>}, {}, {}, {}, FALSE)}

WorkerSymmetry == Permutations(Workers)
=============================================================================
