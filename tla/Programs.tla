------------------------------- MODULE Programs -------------------------------
(***************************************************************************)
(* The graphs that src/new3.cpp and src/bfuture_bench.cpp build and        *)
(* execute, with the functions of their leaves, and what the ENSUREs of    *)
(* these programs say of the results.                                      *)
(*                                                                         *)
(* A graph is written with the class templates of the library, leaf, seq,  *)
(* all, any and then(); it is turned into the nodes of module Graph, whose *)
(* behaviours say which function was applied to which output.  Only then   *)
(* are the functions applied, and the results judged.                      *)
(***************************************************************************)
EXTENDS Integers, SequencesExt

-----------------------------------------------------------------------------
\* Types.

NothingType == [name |-> "nothing"]
IntType == [name |-> "int"]
MOType == [name |-> "MO"]
TupleType(types) == [name |-> "tuple", args |-> types]
VariantType(types) == [name |-> "variant", args |-> types]

\* boost::variant holds a value of any one of its types.
Accepts(type, held) ==
    \/ type = held
    \/ type.name = "variant" /\ held \in ToSet(type.args)

-----------------------------------------------------------------------------
\* The functions of leaves: from what to what, and what they do.

Lambda(in, out, does, arg) == [in |-> in, out |-> out, does |-> does, arg |-> arg]

Give(x) == Lambda(NothingType, IntType, "return", x)
GiveFrom(in, x) == Lambda(in, IntType, "return", x)
Add(x) == Lambda(IntType, IntType, "add", x)

\* The value of a variable of the move-only struct MO, and what is left in a
\* variable that was moved from.
MO == 1
MovedFrom == -1

MakeMO == Lambda(NothingType, MOType, "return", MO)
TakeMO == Lambda(MOType, NothingType, "take", 0)

-----------------------------------------------------------------------------
\* Graphs.

leaf(f) == [class |-> "leaf", fun |-> f, kids |-> <<>>]
seq(a, b) == [class |-> "seq", kids |-> <<a, b>>]
all(fs) == [class |-> "all", kids |-> fs]
any(fs) == [class |-> "any", kids |-> fs]

\* Leaves that return the numbers xs, each its own.
leaves(xs) == [i \in DOMAIN xs |-> leaf(Give(xs[i]))]

\* is_executable: a node has a member execute, a function object has not.
IsExecutable(x) == "class" \in DOMAIN x

\* leaf::then and seq::then.
then(g, x) == seq(g, IF IsExecutable(x) THEN x ELSE leaf(x))

\* in_type; the children of an all or an any have a common one.
RECURSIVE InType(_)
InType(g) == IF g.class = "leaf" THEN g.fun.in ELSE InType(g.kids[1])

\* Mutant of OutType: the out_type of a seq is that of its first node.
RECURSIVE OutTypeOfFirst(_)
OutTypeOfFirst(g) ==
    LET outs == [i \in DOMAIN g.kids |-> OutTypeOfFirst(g.kids[i])]
    IN  CASE g.class = "leaf" -> g.fun.out
          [] g.class = "seq" -> outs[1]
          [] g.class = "all" -> TupleType(outs)
          [] g.class = "any" -> VariantType(outs)

\* out_type: a leaf's is what its function returns, nothing instead of void.
RECURSIVE OutType(_)
OutType(g) ==
    LET outs == [i \in DOMAIN g.kids |-> OutType(g.kids[i])]
    IN  CASE g.class = "leaf" -> g.fun.out
          [] g.class = "seq" -> outs[2]
          [] g.class = "all" -> TupleType(outs)
          [] g.class = "any" -> VariantType(outs)

\* The nodes of a graph as module Graph numbers them, parents first.
Shift(nodes, by) ==
    [n \in DOMAIN nodes |->
        [nodes[n] EXCEPT !.kids = [i \in DOMAIN @ |-> @[i] + by]]]

RECURSIVE NodesOf(_)
NodesOf(g) ==
    LET Attach(nodes, kid) ==
            [nodes EXCEPT ![1].kids = Append(@, Len(nodes) + 1)]
            \o Shift(NodesOf(kid), Len(nodes))
    IN  FoldLeft(Attach, << [class |-> g.class, graph |-> g, kids |-> <<>>] >>,
                 g.kids)

-----------------------------------------------------------------------------
\* new3.cpp.

T0 == leaf(Give(42))
T0Ensures(r) == r = 42

T1 == seq(leaf(Give(21)), leaf(Add(21)))
T1Ensures(r) == r = 42

T2 == all(<<leaf(Give(42))>>)
T2Ensures(r) == r[1] = 42

T3 == all(leaves(<<0, 1>>))
T3Ensures(r) == r[1] = 0 /\ r[2] = 1

T4 == any(<<leaf(Give(42))>>)
T4Ensures(r) == r = 42

T5 == any(leaves(<<0, 1>>))
T5Ensures(r) == r \in {0, 1}

T6 == all(<< any(leaves(<<0, 1, 2>>)), any(leaves(<<3, 4, 5>>)) >>)
T6Ensures(r) == r[1] \in {0, 1, 2} /\ r[2] \in {3, 4, 5}

T7 == any(<< all(leaves(<<0, 1, 2>>)), all(leaves(<<3, 4, 5>>)) >>)
T7Ensures(r) == r \in {<<0, 1, 2>>, <<3, 4, 5>>}

T8 == LET half == all(<< any(leaves(<<0, 1>>)), leaf(Give(2)) >>)
      IN  any(<<half, half>>)
T8Ensures(r) == r[1] \in {0, 1} /\ r[2] = 2

T9 == LET half == seq(any(leaves(<<0, 1>>)),
                      leaf(GiveFrom(VariantType(<<IntType, IntType>>), 2)))
      IN  any(<<half, half>>)
T9Ensures(r) == r = 2

\* t61 makes its own int_latch and calls execute() and wait() itself, with the
\* count of sync_execute; its `then` looks at no result.
T61 == any(leaves(<<0, 1, 2>>))

\* The move-only graphs of main().
MoveLeaf == leaf(MakeMO)
MoveSeq == seq(leaf(MakeMO), leaf(TakeMO))
MoveAll == all(<<leaf(MakeMO), leaf(MakeMO)>>)
MoveAny == any(<<leaf(MakeMO), leaf(MakeMO)>>)

-----------------------------------------------------------------------------
\* bfuture_bench.cpp, the variants that use the library.

B0 == leaf(Give(42))
B0Ensures(x) == x = 42

B1 == seq(seq(leaf(Give(42)), leaf(Add(1))), leaf(Add(1)))
B1Ensures(x) == x = 44

\* Seven calls of then().
B1More ==
    LET chain[n \in 0 .. 7] ==
            IF n = 0 THEN leaf(Give(0)) ELSE then(chain[n - 1], Add(1))
    IN  chain[7]
B1MoreEnsures(x) == x = 7

\* The ENSUREs of the second leaf are part of its function.
B2 ==
    LET three == TupleType(<<IntType, IntType, IntType>>)
    IN  seq(seq(all(leaves(<<0, 1, 2>>)),
                leaf(Lambda(three, IntType, "ensure012", 42))),
            leaf(Add(2)))
B2Ensures(x) == x = 44

B3 ==
    LET one == VariantType(<<IntType, IntType, IntType>>)
    IN  seq(seq(any(leaves(<<0, 1, 2>>)),
                leaf(Lambda(one, IntType, "visit", 42))),
            leaf(Add(2)))
B3Ensures(x) == x > 41

B4 ==
    LET zero == leaf(GiveFrom(IntType, 0))
        one == VariantType(<<TupleType(<<IntType, IntType, IntType>>), IntType,
                           IntType>>)
    IN  seq(seq(any(<<then(leaf(Give(0)), all(<<zero, zero, zero>>)),
                      leaf(Give(1)), leaf(Give(2))>>),
                leaf(Lambda(one, IntType, "visit", 42))),
            leaf(Add(2)))
B4Ensures(x) == x > 41

-----------------------------------------------------------------------------
\* The programs side by side.

Graphs == << T0, T1, T2, T3, T4, T5, T6, T7, T8, T9, T61,
             MoveLeaf, MoveSeq, MoveAll, MoveAny,
             B0, B1, B1More, B2, B3, B4 >>

\* What the `then` of program p ensures of the result r.
Ensures(p, r) ==
    CASE p = 1 -> T0Ensures(r) [] p = 2 -> T1Ensures(r) [] p = 3 -> T2Ensures(r)
      [] p = 4 -> T3Ensures(r) [] p = 5 -> T4Ensures(r) [] p = 6 -> T5Ensures(r)
      [] p = 7 -> T6Ensures(r) [] p = 8 -> T7Ensures(r) [] p = 9 -> T8Ensures(r)
      [] p = 10 -> T9Ensures(r)
      [] p \in {12, 15} -> r = MO
      [] p = 14 -> r = <<MO, MO>>
      [] p = 16 -> B0Ensures(r) [] p = 17 -> B1Ensures(r)
      [] p = 18 -> B1MoreEnsures(r) [] p = 19 -> B2Ensures(r)
      [] p = 20 -> B3Ensures(r) [] p = 21 -> B4Ensures(r)
      [] OTHER -> TRUE

\* Their nodes, one graph after the other.
Forest ==
    LET Plant(nodes, g) == nodes \o Shift(NodesOf(g), Len(nodes))
    IN  FoldLeft(Plant, <<>>, Graphs)

\* The 118 nodes of Forest (KidsAssumption of Graph says that it has as many).
ProgramNode == 1 .. 118
ProgramKind == [n \in DOMAIN Forest |-> Forest[n].class]
ProgramKids == [n \in DOMAIN Forest |-> Forest[n].kids]

=============================================================================
