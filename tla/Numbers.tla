-------------------------------- MODULE Numbers --------------------------------
(***************************************************************************)
(* Numbers of a script: two's complement, little endian byte arrays        *)
(* (pkg/vm/emit/bigint.go) and the instructions that compute with numbers  *)
(* (pkg/vm/vm.go).                                                         *)
(***************************************************************************)
EXTENDS Integers, SequencesExt

CONSTANT MaxBits     \* MaxBigIntegerSizeBits

ASSUME MaxBitsAssumption == MaxBits \in Nat \ {0}

Magnitude(n) == IF n < 0 THEN -n ELSE n

\* All numbers whose two's complement is as long as that of n, or shorter: halving
\* one, towards minus infinity, gives another, and ends in 0 or -1.
Not(n) == -n - 1
Extent(n) == IF n < 0 THEN Not(n) ELSE n
Span(k) == Not(k)..k

-----------------------------------------------------------------------------
(* Numbers and byte arrays                                                 *)

Byte == 0..255

\* As few bytes as will do, and one for 0.
IntToBytes(n) ==
  LET bytes[m \in Span(Extent(n))] ==
        IF m \in -128..127 THEN <<m % 256>> ELSE <<m % 256>> \o bytes[m \div 256]
  IN bytes[n]

\* The sign is that of the last byte.
BytesToInt(data) ==
  LET from[i \in DOMAIN data] ==
        IF i < Len(data) THEN data[i] + 256 * from[i + 1]
        ELSE IF data[i] < 128 THEN data[i] ELSE data[i] - 256
  IN IF data = <<>> THEN 0 ELSE from[1]

-----------------------------------------------------------------------------
(* Arithmetic                                                              *)

Fits(n) == Magnitude(n) < 2^MaxBits

\* Quotients are truncated, so that the remainder has the sign of a.
Quo(a, b) ==
  LET q == Magnitude(a) \div Magnitude(b) IN IF (a < 0) = (b < 0) THEN q ELSE -q
Rem(a, b) == a - b * Quo(a, b)

Bit(n, i) == IF i = 0 THEN n % 2 ELSE (n \div 2) % 2
BitOf(op, x, y) ==
  CASE op = "AND" -> x * y [] op = "OR" -> x + y - x * y [] op = "XOR" -> (x + y) % 2
\* Bit by bit of the infinite two's complements, whose bits beyond those written
\* are all those of 0 or of -1.
BitByBit(op, a, b) ==
  LET k == IF Extent(a) < Extent(b) THEN Extent(b) ELSE Extent(a)
      made[p \in Span(k) \X Span(k)] ==
        IF p[1] \in -1..0 /\ p[2] \in -1..0 THEN -BitOf(op, -p[1], -p[2])
        ELSE BitOf(op, p[1] % 2, p[2] % 2) + 2 * made[<<p[1] \div 2, p[2] \div 2>>]
  IN made[<<a, b>>]

Sign(n) == IF n < 0 THEN -1 ELSE IF n = 0 THEN 0 ELSE 1
\* One bit at a time; a shift by a negative number goes the other way.
Shifted(op, a, b) ==
  LET left == (op = "SHL") = (b > 0)
      by[i \in 0..Magnitude(b)] ==
        IF i = 0 THEN a ELSE IF left THEN 2 * by[i - 1] ELSE by[i - 1] \div 2
  IN by[Magnitude(b)]

Bitwise2 == {"AND", "OR", "XOR"}
Arithmetic2 == {"ADD", "SUB", "MUL", "DIV", "MOD"}
Shifts == {"SHL", "SHR"}

\* b was on top of a.
Computed(op, a, b) ==
  CASE op \in Bitwise2 -> BitByBit(op, a, b)
    [] op = "ADD" -> a + b
    [] op = "SUB" -> a - b
    [] op = "MUL" -> a * b
    [] op = "DIV" -> Quo(a, b)
    [] op = "MOD" -> Rem(a, b)
    [] op \in Shifts -> Shifted(op, a, b)

\* checkBigIntSize looks at the operands of arithmetic and at what ADD, SUB and
\* MUL make, never at what AND, OR and XOR do.
Computes(op, a, b) ==
  CASE op \in Bitwise2 -> TRUE
    [] op \in {"ADD", "SUB", "MUL"} -> Fits(a) /\ Fits(b) /\ Fits(Computed(op, a, b))
    [] op \in {"DIV", "MOD"} -> Fits(a) /\ Fits(b) /\ b # 0
    [] op \in Shifts -> Magnitude(b) <= MaxBits /\ Fits(a) /\ Fits(Computed(op, a, b))

Comparisons == {"NUMEQUAL", "NUMNOTEQUAL", "LT", "GT", "LTE", "GTE"}
Compared(op, a, b) ==
  CASE op = "NUMEQUAL" -> a = b
    [] op = "NUMNOTEQUAL" -> a # b
    [] op = "LT" -> a < b
    [] op = "GT" -> a > b
    [] op = "LTE" -> a <= b
    [] op = "GTE" -> a >= b
=============================================================================
