-------------------------- MODULE CacheAlignedTuple --------------------------
(***************************************************************************)
(* The layout of include/orizzonte/utility/cache_aligned_tuple.hpp, in     *)
(* which an all keeps the outputs of its children.                         *)
(*                                                                         *)
(* The children of an all write their outputs at the same time, each into  *)
(* its own component of the tuple.  What the tuple is for is that no two   *)
(* of them write into the same cache line.                                 *)
(***************************************************************************)
EXTENDS Integers, TLAPS

cache_line_size == 64

Aligned(x) == \E k \in Nat : x = cache_line_size * k

\* sizeof(cache_aligned<T>): alignas makes it a multiple of the alignment.
Padded(size) ==
    cache_line_size * ((size + cache_line_size - 1) \div cache_line_size)

\* The member _x of a cache_aligned<T> starts where the component does; get
\* refers to it.
First(tuple, offset) == tuple + offset

\* The cache lines the value of a component lies in.
LinesOf(tuple, offset, size) ==
    {byte \div cache_line_size :
        byte \in First(tuple, offset) .. First(tuple, offset) + size - 1}

\* std::tuple (external): where it puts its components is its own affair, but
\* each is aligned as its type requires, and they do not overlap.
Laid(offset1, size1, offset2, size2) ==
    /\ Aligned(offset1)
    /\ Aligned(offset2)
    /\ \/ offset1 + Padded(size1) <= offset2
       \/ offset2 + Padded(size2) <= offset1

-----------------------------------------------------------------------------
\* A component of a cache_aligned_tuple is as large as what it holds at least,
\* and fills whole cache lines.
LEMMA PaddedFits ==
    ASSUME NEW size \in Nat \ {0}
    PROVE  Padded(size) \in Nat /\ size <= Padded(size) /\ Aligned(Padded(size))
<1> DEFINE k == (size + cache_line_size - 1) \div cache_line_size
<1>1. k \in Nat /\ size <= 64 * k
    BY Z3 DEF cache_line_size
<1>2. Padded(size) = 64 * k
    BY DEF Padded, cache_line_size
<1> QED
    BY <1>1, <1>2 DEF Aligned, cache_line_size

\* The lines of a component that starts at a multiple of the line's size are
\* those up to the end of its padding.
LEMMA LinesWithin ==
    ASSUME NEW from \in Nat, NEW size \in Nat \ {0}, Aligned(from),
           NEW byte \in from .. from + size - 1
    PROVE  /\ byte \div cache_line_size \in Nat
           /\ from <= cache_line_size * (byte \div cache_line_size)
           /\ cache_line_size * (byte \div cache_line_size) + cache_line_size
                <= from + Padded(size)
<1>1. PICK k \in Nat : from = 64 * k
    BY DEF Aligned, cache_line_size
<1>2. PICK p \in Nat : Padded(size) = 64 * p /\ size <= 64 * p
    BY PaddedFits DEF Aligned, cache_line_size
<1>3. byte \in Nat /\ 64 * k <= byte /\ byte < 64 * k + 64 * p
    BY <1>1, <1>2
<1> DEFINE line == byte \div 64
<1>4. line \in Nat /\ 64 * line <= byte /\ byte < 64 * line + 64
    BY <1>3, Z3
<1>5. k <= line /\ line + 1 <= k + p
    <2> HIDE DEF line
    <2> QED
        BY <1>3, <1>4
<1>6. 64 * k <= 64 * line /\ 64 * line + 64 <= 64 * k + 64 * p
    <2> HIDE DEF line
    <2> QED
        BY <1>4, <1>5
<1> QED
    BY <1>1, <1>2, <1>4, <1>6 DEF cache_line_size

\* The outputs of two children of an all never share a cache line, whatever their
\* types and sizes are and in whatever order std::tuple puts them.
THEOREM NoFalseSharing ==
    ASSUME NEW tuple \in Nat, Aligned(tuple),
           NEW offset1 \in Nat, NEW size1 \in Nat \ {0},
           NEW offset2 \in Nat, NEW size2 \in Nat \ {0},
           Laid(offset1, size1, offset2, size2)
    PROVE  LinesOf(tuple, offset1, size1) \intersect
                LinesOf(tuple, offset2, size2) = {}
<1> DEFINE from1 == tuple + offset1
           from2 == tuple + offset2
<1>1. from1 \in Nat /\ from2 \in Nat
    OBVIOUS
<1>2. Aligned(from1) /\ Aligned(from2)
    <2>1. PICK i \in Nat : tuple = 64 * i
        BY DEF Aligned, cache_line_size
    <2>2. PICK j \in Nat : offset1 = 64 * j
        BY DEF Laid, Aligned, cache_line_size
    <2>3. PICK k \in Nat : offset2 = 64 * k
        BY DEF Laid, Aligned, cache_line_size
    <2>4. from1 = 64 * (i + j) /\ from2 = 64 * (i + k)
        BY <2>1, <2>2, <2>3
    <2>5. i + j \in Nat /\ i + k \in Nat
        OBVIOUS
    <2> QED
        BY <2>4, <2>5 DEF Aligned, cache_line_size
<1>3. \/ from1 + Padded(size1) <= from2
      \/ from2 + Padded(size2) <= from1
    BY PaddedFits DEF Laid
<1>4. SUFFICES ASSUME NEW byte1 \in from1 .. from1 + size1 - 1,
                      NEW byte2 \in from2 .. from2 + size2 - 1,
                      byte1 \div cache_line_size = byte2 \div cache_line_size
               PROVE  FALSE
    BY Zenon DEF LinesOf, First
<1> HIDE DEF from1, from2
<1> DEFINE line == byte1 \div cache_line_size
<1>5. /\ line \in Nat
      /\ from1 <= 64 * line
      /\ 64 * line + 64 <= from1 + Padded(size1)
    BY <1>1, <1>2, LinesWithin DEF cache_line_size
<1>6. /\ from2 <= 64 * line
      /\ 64 * line + 64 <= from2 + Padded(size2)
    BY <1>1, <1>2, <1>4, LinesWithin DEF cache_line_size
<1>7. Padded(size1) \in Nat /\ Padded(size2) \in Nat
    BY PaddedFits
<1> HIDE DEF line
<1> QED
    BY <1>1, <1>3, <1>5, <1>6, <1>7

=============================================================================
