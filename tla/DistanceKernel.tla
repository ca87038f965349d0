--------------------------- MODULE DistanceKernel ---------------------------
(***************************************************************************)
(* DistanceUtils and SIMDUtils: the same distance, or sum, written once    *)
(* per element type and instruction set as a row of loops.  A loop takes   *)
(* whole groups of elements, in loads of one register each, while the      *)
(* group still fits; the next one takes what is left in smaller groups.    *)
(*                                                                         *)
(* Floats are exact here.  Int8 elements have Bits bits, int16 elements    *)
(* and 16-bit lanes 2 * Bits, 32-bit lanes 4 * Bits.                       *)
(***************************************************************************)
EXTENDS Integers, Sequences, FiniteSets, FiniteSetsExt

CONSTANTS
  Bits,    \* width of an int8_t: 8 in the code
  Lengths  \* bound: the dimensions tried
KernelAssumption == Bits \in 2 .. 8 /\ Lengths \subseteq Nat

Types == {"int8", "uint8", "int16", "float"}
Sets == {"naive", "SSE", "AVX", "AVX512"}

(* GetBase: the length a vector of the type is normalised to.              *)
Base(t) == CASE t = "int8" -> 2^(Bits - 1) - 1
             [] t = "uint8" -> 2^Bits - 1
             [] t = "int16" -> 2^(2 * Bits - 1) - 1
             [] t = "float" -> 1

(* n mod 2^w, as the signed value a lane of w bits holds.                  *)
Signed(n, w) == LET r == n % 2^w IN IF r >= 2^(w - 1) THEN r - 2^w ELSE r

(* A loop while pX < pX0 + (length / group) * group, of reads of load      *)
(* elements each: single elements when load is 1.                          *)
Loop(group, load) == [group |-> group, load |-> load]
Tail4 == <<Loop(4, 1), Loop(1, 1)>>
Tail1 == <<Loop(1, 1)>>

(* ComputeL2Distance.                                                      *)
L2_naive == Tail4
L2_int8_SSE == <<Loop(32, 16), Loop(16, 16)>> \o Tail4
L2_int8_AVX == <<Loop(32, 32), Loop(16, 16)>> \o Tail4
L2_int8_AVX512 == <<Loop(64, 64), Loop(32, 32), Loop(16, 16)>> \o Tail4
L2_uint8_SSE == <<Loop(32, 16), Loop(16, 16)>> \o Tail4
L2_uint8_AVX == <<Loop(32, 32), Loop(16, 16)>> \o Tail4
L2_uint8_AVX512 == <<Loop(64, 64), Loop(32, 32), Loop(16, 16)>> \o Tail4
L2_int16_SSE == <<Loop(16, 8), Loop(8, 8)>> \o Tail4
L2_int16_AVX == <<Loop(16, 16), Loop(8, 8)>> \o Tail4
L2_int16_AVX512 == <<Loop(32, 32), Loop(16, 16), Loop(8, 8)>> \o Tail4
L2_float_SSE == <<Loop(16, 4), Loop(4, 4)>> \o Tail1
L2_float_AVX == <<Loop(16, 8), Loop(4, 4)>> \o Tail1
L2_float_AVX512 == <<Loop(16, 16), Loop(8, 8), Loop(4, 4)>> \o Tail1

(* ComputeCosineDistance.                                                  *)
Cosine_naive == Tail4
Cosine_int8_SSE == <<Loop(32, 16), Loop(16, 16)>> \o Tail4
Cosine_int8_AVX == <<Loop(32, 32), Loop(16, 16)>> \o Tail4
Cosine_int8_AVX512 == <<Loop(64, 64), Loop(32, 32), Loop(16, 16)>> \o Tail4
Cosine_uint8_SSE == <<Loop(32, 16), Loop(16, 16)>> \o Tail4
Cosine_uint8_AVX == <<Loop(32, 32), Loop(16, 16)>> \o Tail4
Cosine_uint8_AVX512 == <<Loop(64, 64), Loop(32, 32), Loop(16, 16)>> \o Tail4
Cosine_int16_SSE == <<Loop(16, 8), Loop(8, 8)>> \o Tail4
Cosine_int16_AVX == <<Loop(16, 16), Loop(8, 8)>> \o Tail4
Cosine_int16_AVX512 == <<Loop(32, 32), Loop(16, 16), Loop(8, 8)>> \o Tail4
Cosine_float_SSE == <<Loop(16, 4), Loop(4, 4)>> \o Tail1
Cosine_float_AVX == <<Loop(16, 8), Loop(4, 4)>> \o Tail1
Cosine_float_AVX512 == <<Loop(16, 16), Loop(8, 8), Loop(4, 4)>> \o Tail1

(* ComputeSum: the three instruction sets are written alike.               *)
Sum_naive == Tail1
Sum_int8 == <<Loop(16, 16)>> \o Tail1
Sum_uint8 == <<Loop(16, 16)>> \o Tail1
Sum_int16 == <<Loop(8, 8)>> \o Tail1
Sum_float == <<Loop(4, 4)>> \o Tail1

Naive == [L2 |-> L2_naive, Cosine |-> Cosine_naive, Sum |-> Sum_naive]
Alike(loops) == [SSE |-> loops, AVX |-> loops, AVX512 |-> loops]
Kernels ==
  [L2 |-> [int8 |-> [SSE |-> L2_int8_SSE, AVX |-> L2_int8_AVX, AVX512 |-> L2_int8_AVX512],
           uint8 |-> [SSE |-> L2_uint8_SSE, AVX |-> L2_uint8_AVX, AVX512 |-> L2_uint8_AVX512],
           int16 |-> [SSE |-> L2_int16_SSE, AVX |-> L2_int16_AVX, AVX512 |-> L2_int16_AVX512],
           float |-> [SSE |-> L2_float_SSE, AVX |-> L2_float_AVX, AVX512 |-> L2_float_AVX512]],
   Cosine |-> [int8 |-> [SSE |-> Cosine_int8_SSE, AVX |-> Cosine_int8_AVX, AVX512 |-> Cosine_int8_AVX512],
           uint8 |-> [SSE |-> Cosine_uint8_SSE, AVX |-> Cosine_uint8_AVX, AVX512 |-> Cosine_uint8_AVX512],
           int16 |-> [SSE |-> Cosine_int16_SSE, AVX |-> Cosine_int16_AVX, AVX512 |-> Cosine_int16_AVX512],
           float |-> [SSE |-> Cosine_float_SSE, AVX |-> Cosine_float_AVX, AVX512 |-> Cosine_float_AVX512]],
   Sum |-> [int8 |-> Alike(Sum_int8), uint8 |-> Alike(Sum_uint8),
            int16 |-> Alike(Sum_int16), float |-> Alike(Sum_float)]]

(* What cpuid tells, and the instruction set picked from it: the integer   *)
(* kernels need AVX2 and SSE2, those for float AVX and SSE.                *)
HasAVX512(c) == "AVX512F" \in c \/ "AVX512BW" \in c
Selected(c, t) ==
  IF HasAVX512(c) THEN "AVX512"
  ELSE IF "AVX2" \in c \/ (t = "float" /\ "AVX" \in c) THEN "AVX"
  ELSE IF "SSE2" \in c \/ (t = "float" /\ "SSE" \in c) THEN "SSE"
  ELSE "naive"
SelectedSum(c, t) ==
  IF HasAVX512(c) THEN "AVX512"
  ELSE IF "AVX2" \in c \/ (t = "float" /\ "AVX" \in c) THEN "AVX"
  ELSE IF "SSE2" \in c \/ (t = "float" /\ "SSE" \in c) THEN "SSE"
  ELSE "naive"

CONSTANT Cpus  \* bound: the processors tried, as sets of features
VARIABLES
  cpu,
  fun,      \* L2, Cosine or Sum
  type,     \* T
  set,      \* the instruction set of the kernel picked
  length,
  fill,     \* what the vectors hold
  pos,      \* pX - pX0, which is pY - pY0
  loop,     \* the loop pX is in
  rep,      \* reads done of this group
  acc,      \* diff512, diff256, diff128 and diff together
  out       \* Sum: the elements of pX
vars == <<cpu, fun, type, set, length, fill, pos, loop, rep, acc, out>>

(* The elements as bits.  Each fill has its hazard: the largest            *)
(* differences, the largest products, and different elements everywhere.   *)
Fills == {"far", "high", "mixed"}
Width(t) == IF t \in {"int8", "uint8"} THEN Bits ELSE 2 * Bits
ToBits(v, t) == IF t = "float" THEN v ELSE v % 2^Width(t)
ValueX(t, i) == IF fill = "mixed" THEN (i % 3) + 1 ELSE Base(t)
ValueY(t, i) == CASE fill = "mixed" -> IF t = "uint8" THEN i % 5 ELSE (i % 5) - 2
                  [] fill = "high" -> Base(t)
                  [] fill = "far" -> IF t = "uint8" THEN 0 ELSE -Base(t)
X(i) == ToBits(ValueX(type, i), type)
Y(i) == ToBits(ValueY(type, i), type)

Init ==
  /\ cpu \in Cpus /\ fun \in {"L2", "Cosine", "Sum"} /\ type \in Types
  /\ set = IF fun = "Sum" THEN SelectedSum(cpu, type) ELSE Selected(cpu, type)
  /\ length \in Lengths /\ fill \in Fills
  /\ pos = 0 /\ loop = 1 /\ rep = 0 /\ acc = 0
  /\ out = IF fun = "Sum" THEN [i \in 0 .. length - 1 |-> X(i)] ELSE <<>>

Loops == IF set = "naive" THEN Naive[fun] ELSE Kernels[fun][type][set]
Running == loop <= Len(Loops)
This == Loops[loop]
ScalarOf(v) == IF type \in {"int8", "int16"} THEN Signed(v, Width(type)) ELSE v

(* The elements of a register, widened to lanes twice as wide.             *)
sqdf_epi8(x, y) == LET d == Signed(Signed(x, Bits) - Signed(y, Bits), 2 * Bits) IN d * d
sqdf_epu8(x, y) == LET d == Signed(x - y, 2 * Bits) IN d * d
mul_epi8(x, y) == Signed(x, Bits) * Signed(y, Bits)
mul_epu8(x, y) == Signed(x, 2 * Bits) * Signed(y, 2 * Bits)
sqdf_epi16(x, y) ==
  LET d == Signed(Signed(x, 2 * Bits) - Signed(y, 2 * Bits), 4 * Bits) IN d * d
mul_epi16(x, y) == Signed(x, 2 * Bits) * Signed(y, 2 * Bits)
sqdf_ps(x, y) == (x - y) * (x - y)
mul_ps(x, y) == x * y

Exec(x, y) ==
  IF fun = "L2"
  THEN CASE type = "int8" -> sqdf_epi8(x, y) [] type = "uint8" -> sqdf_epu8(x, y)
         [] type = "int16" -> sqdf_epi16(x, y) [] type = "float" -> sqdf_ps(x, y)
  ELSE CASE type = "int8" -> mul_epi8(x, y) [] type = "uint8" -> mul_epu8(x, y)
         [] type = "int16" -> mul_epi16(x, y) [] type = "float" -> mul_ps(x, y)
Scalar(x, y) ==
  IF fun = "L2" THEN (ScalarOf(x) - ScalarOf(y)) * (ScalarOf(x) - ScalarOf(y))
  ELSE ScalarOf(x) * ScalarOf(y)

(* madd adds the products of two neighbours in a lane of 32 bits.          *)
Madd == type \in {"int8", "uint8"} \/ (type = "int16" /\ fun = "Cosine")
Register(p, n) ==
  IF ~Madd THEN FoldSet(LAMBDA i, s : s + Exec(X(i), Y(i)), 0, p .. p + n - 1)
  ELSE FoldSet(LAMBDA j, s : s + Signed(Exec(X(p + 2*j), Y(p + 2*j)) + Exec(X(p + 2*j + 1), Y(p + 2*j + 1)), 4 * Bits),
               0, 0 .. n \div 2 - 1)
Added(i) == ToBits(out[i] + Y(i), type)

ReadUncounted ==
  /\ Running /\ pos < length
  /\ pos' = pos + This.load /\ rep' = rep + 1
  /\ UNCHANGED <<cpu, fun, type, set, length, fill, loop, acc, out>>
(* REPEAT, or one element.                                                 *)
Read ==
  /\ Running
  /\ rep > 0 \/ pos < (length \div This.group) * This.group
  /\ IF fun = "Sum"
     THEN /\ out' = [i \in DOMAIN out |-> IF i \in pos .. pos + This.load - 1 THEN Added(i) ELSE out[i]]
          /\ acc' = acc
     ELSE /\ acc' = acc + (IF This.load = 1 THEN Scalar(X(pos), Y(pos)) ELSE Register(pos, This.load))
          /\ out' = out
  /\ pos' = pos + This.load
  /\ rep' = (rep + 1) % Max({1, This.group \div This.load})
  /\ UNCHANGED <<cpu, fun, type, set, length, fill, loop>>

LeaveLoop ==
  /\ Running /\ rep = 0 /\ pos >= (length \div This.group) * This.group
  /\ loop' = loop + 1
  /\ UNCHANGED <<cpu, fun, type, set, length, fill, pos, rep, acc, out>>

Next == Read \/ LeaveLoop
Spec == Init /\ [][Next]_vars

Result == IF fun = "Cosine" THEN Base(type) * Base(type) - acc ELSE acc

-----------------------------------------------------------------------------
TypeOK ==
  /\ set \in Sets /\ loop \in 1 .. Len(Loops) + 1 /\ rep \in 0 .. 3
  /\ pos \in Nat /\ acc \in Int

(* No kernel reads or writes past the last element, whatever the dimension *)
(* leaves for the narrower loops.                                          *)
InBounds == pos <= length

(* Every kernel of a type gives the distance its definition gives: no      *)
(* element is skipped or counted twice, and no lane is too narrow.         *)
Term(i) ==
  IF fun = "L2" THEN (ValueX(type, i) - ValueY(type, i)) * (ValueX(type, i) - ValueY(type, i))
  ELSE ValueX(type, i) * ValueY(type, i)
Reference ==
  LET s == FoldSet(LAMBDA i, n : n + Term(i), 0, 0 .. length - 1)
  IN  IF fun = "Cosine" THEN Base(type) * Base(type) - s ELSE s
Exact == ~Running /\ fun # "Sum" => Result = Reference

(* ComputeSum adds each element of pY once to that of pX, in the width of  *)
(* the type.                                                               *)
Summed ==
  ~Running /\ fun = "Sum" =>
    \A i \in 0 .. length - 1 : out[i] = ToBits(ValueX(type, i) + ValueY(type, i), type)

(* The kernel picked runs on this processor: it needs what it is compiled  *)
(* for.                                                                    *)
Needs(s, t) == CASE s = "naive" -> {}
                 [] s = "SSE" -> IF t = "float" THEN {"SSE"} ELSE {"SSE2"}
                 [] s = "AVX" -> IF t = "float" THEN {"AVX"} ELSE {"AVX2"}
                 [] s = "AVX512" -> {"AVX512F", "AVX512BW", "AVX512DQ"}
Supported == Needs(set, type) \subseteq cpu
=============================================================================
