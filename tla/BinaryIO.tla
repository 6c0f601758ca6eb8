------------------------------- MODULE BinaryIO -------------------------------
(***************************************************************************)
(* Package io: the writer, the reader and the variable-length integers     *)
(* that every record of the ledger is encoded with.                        *)
(*                                                                         *)
(* A wire is a sequence of units, one for each integer or run of bytes: n  *)
(* bytes whose content is v.  A read gets a unit only if it asks for just  *)
(* as many bytes; any other read meets the end of the data or takes bytes  *)
(* of two units, and both are errors here.                                 *)
(***************************************************************************)
EXTENDS Integers, SequencesExt

CONSTANTS
  Max16, Max32, MaxU64,  \* 2^16 - 1, 2^32 - 1 and 2^64 - 1
  MaxArraySize           \* io.MaxArraySize

Escape == 253            \* 0xfd, from where on a length takes more than a byte

ASSUME WidthsAssumption ==
  /\ Max16 \in Nat /\ Max32 \in Nat /\ MaxU64 \in Nat
  /\ Escape + 2 < Max16 /\ Max16 < Max32 /\ Max32 < MaxU64
ASSUME MaxArraySizeAssumption == MaxArraySize \in Nat

-----------------------------------------------------------------------------
(* Units, and the values that are runs of bytes                            *)

Unit(n, v) == [n |-> n, v |-> v]
NoBytes == Unit(0, <<>>)

\* Mutant: as many bytes as getVarIntSize says.
WidthsByTheSize(v) ==
  IF v < Escape THEN <<Unit(1, v)>>
  ELSE IF v <= Max16 THEN <<Unit(1, Escape), Unit(2, v)>> ELSE <<Unit(1, Escape + 1), Unit(4, v)>>

VarUint(v) ==
  CASE v < Escape -> <<Unit(1, v)>>
    [] v >= Escape /\ v < Max16 -> <<Unit(1, Escape), Unit(2, v)>>
    [] v >= Max16 /\ v < Max32 -> <<Unit(1, Escape + 1), Unit(4, v)>>
    [] OTHER -> <<Unit(1, Escape + 2), Unit(8, v)>>

getVarIntSize(v) == IF v < Escape THEN 1 ELSE IF v <= Max16 THEN 3 ELSE 5

\* GetVarSize of a string or a slice of bytes, and of a slice of which the
\* elements take `sizes' bytes.
GetVarSizeOfBytes(b) == getVarIntSize(b.n) + b.n
GetVarSizeOfSlice(sizes) == getVarIntSize(Len(sizes)) + FoldLeft(LAMBDA a, n : a + n, 0, sizes)

-----------------------------------------------------------------------------
(* The writer: out is what it wrote, err its sticky error.                 *)

NewWriter == [out |-> <<>>, err |-> FALSE]
WriteUnits(w, units) == IF w.err THEN w ELSE [w EXCEPT !.out = @ \o units]
WriteBytes(w, b) == WriteUnits(w, IF b.n = 0 THEN <<>> ELSE <<b>>)
WriteVarUint(w, v) == WriteUnits(w, VarUint(v))
WriteVarBytes(w, b) == WriteBytes(WriteVarUint(w, b.n), b)
FailWrite(w) == [w EXCEPT !.err = TRUE]

\* What counterWriter counts.
SizeOf(units) == FoldLeft(LAMBDA a, u : a + u.n, 0, units)

-----------------------------------------------------------------------------
(* The reader: in is what it has not read, err its sticky error, v what    *)
(* the last read returned: zeroes after an error.                          *)

NewReader(units) == [in |-> units, err |-> FALSE, v |-> NoBytes]
FailRead(r) == [r EXCEPT !.err = TRUE]

ReadBytes(r, n) ==
  IF ~r.err /\ n > 0 /\ r.in # <<>> /\ Head(r.in).n = n
  THEN [in |-> Tail(r.in), err |-> r.err, v |-> Head(r.in)]
  ELSE [in |-> r.in, err |-> r.err \/ n > 0, v |-> Unit(n, <<>>)]

ReadUint(r, n) == LET b == ReadBytes(r, n) IN [b EXCEPT !.v = IF b.err THEN 0 ELSE b.v.v]

ReadVarUint(r) ==
  LET b == ReadUint(r, 1)
  IN CASE b.v = Escape -> ReadUint(b, 2)
       [] b.v = Escape + 1 -> ReadUint(b, 4)
       [] b.v = Escape + 2 -> ReadUint(b, 8)
       [] OTHER -> b

ReadVarBytes(r) ==
  LET n == ReadVarUint(r)
  IN IF n.v > MaxArraySize THEN [FailRead(n) EXCEPT !.v = NoBytes] ELSE ReadBytes(n, n.v)
=============================================================================
