------------------------------ MODULE MCPrograms ------------------------------
(***************************************************************************)
(* The programs of module Programs, run by module Graph for TLC: what      *)
(* their functions are applied to, and what they return.                   *)
(***************************************************************************)
EXTENDS Programs, Graph

\* The program a root belongs to: the roots are numbered in their order.
ProgramOf(r) == Cardinality({q \in Roots : q <= r})

\* The assertion of t61.
ASSUME T61Count == \A r \in Roots : ProgramOf(r) = 11 => CleanupCount[r] = 1

-----------------------------------------------------------------------------
\* What an output of module Graph stands for: the functions are applied.

Fun(n) == Forest[n].graph.fun

\* apply_visitor with a function that returns an int as it is, and 0 for a tuple.
Visit(v, n) == IF Kind[n] = "all" THEN 0 ELSE v

RECURSIVE Value(_)
Value(output) ==
    LET n == output[1]
        of == output[2]
        f == Fun(n)
    IN  CASE output = Nothing -> MovedFrom
          [] n = Main -> 0
          [] n # Main /\ Kind[n] = "all" ->
                [i \in DOMAIN of |-> Value(of[i])]
          [] n # Main /\ Kind[n] = "leaf" ->
                CASE f.does = "return" -> f.arg
                  [] f.does = "add" -> Value(of) + f.arg
                  [] f.does = "visit" -> f.arg + Visit(Value(of), of[1])
                  [] f.does = "take" -> IF Value(of) = MO THEN 0 ELSE MovedFrom
                  [] f.does = "ensure012" ->
                        IF Value(of) = <<0, 1, 2>> THEN f.arg ELSE MovedFrom

\* The type of what an output holds: an any passes its winner's on.
TypeOf(output) ==
    IF output[1] = Main THEN NothingType ELSE OutType(Forest[output[1]].graph)

-----------------------------------------------------------------------------
\* The ENSUREs of the programs hold, in whatever order threads run: the caller's
\* `then` is invoked with a result they accept, made of values nobody has moved
\* from, each of which is the output of the function it should be.
EnsuresHold ==
    \A i \in DOMAIN results, p \in {ProgramOf(root)} :
        Ensures(p, Value(results[i]))

\* The types the nodes declare are those of what is passed on when they run: a
\* leaf is called with a value its in_type can hold, the caller's `then` with one
\* of the root's out_type.
TypesTellTheTruth ==
    /\ \A t \in Thread :
        pc[t] = "exec" /\ Kind[cur[t]] = "leaf" =>
            Accepts(InType(Forest[cur[t]].graph), TypeOf(Input(t, cur[t])))
    /\ \A i \in DOMAIN results :
        Accepts(OutType(Forest[root].graph), TypeOf(results[i]))

=============================================================================
