----------------------------- MODULE MultisigCall -----------------------------
(***************************************************************************)
(* The arguments of one CHECKMULTISIG call and what they decide: the       *)
(* sequential definition the parallel search is measured against.          *)
(***************************************************************************)
EXTENDS Integers

\* The arguments as the algorithm sees them.  Keys and signatures are
\* numbered from 0; <<s, k>> \in valid says signature s verifies under key k.
Input == [nkeys : Nat \ {0}, nsigs : Nat \ {0}, checkhash : BOOLEAN,
          valid : SUBSET (Nat \X Nat), undecodable : SUBSET Nat,
          infinity : SUBSET Nat, short : SUBSET Nat]

\* Signatures sl..sh can be assigned, in order, to distinct keys of kl..kh.
Matchable(valid, sl, sh, kl, kh) ==
  \E f \in [sl..sh -> kl..kh] :
     /\ \A s \in sl..sh : <<s, f[s]>> \in valid
     /\ \A s, t \in sl..sh : s < t => f[s] < f[t]

AllMatch(i) == Matchable(i.valid, 0, i.nsigs - 1, 0, i.nkeys - 1)

\* The inputs that may make the instruction fail instead of answering.
MayFault(i) ==
  \/ i.nkeys < i.nsigs
  \/ ~i.checkhash
  \/ \E k \in i.undecodable : k \in 0..i.nkeys - 1
  \/ i.nsigs = 1 /\ 0 \in i.short
=============================================================================
