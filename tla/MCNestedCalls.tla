---------------------------- MODULE MCNestedCalls ----------------------------
(***************************************************************************)
(* An instance of NestedCalls for TLC.                                     *)
(***************************************************************************)
EXTENDS NestedCalls

\* Three tasks that wait for tasks: two side by side in the outermost call, the
\* first of which makes a second call from its last child, and one inside the
\* other's call; and a call without tasks, which keeps no worker for long.
Nest == <<
    <<2, 3, None, 5>>,
    <<None, 4>>, <<6, None>>, <<None, None>>,
    <<None>>, <<None, None>> >>

\* Calls from children of an any, which may lose, an any inside an any, and an any of
\* one child, which is first and last.
NestRoot == <<"any", "all", "any", "all", "any", "any">>

NestCall == DOMAIN Nest

=============================================================================
