---------------------------- MODULE MCLifecycle ----------------------------
(***************************************************************************)
(* TLC instances of MappingLifecycle.                                      *)
(***************************************************************************)
EXTENDS MappingLifecycle, TLC

CONSTANTS t1, t2  \* tool names

Schema(props, details) ==
  [properties |-> props, required |-> {}, details |-> details]
Def(input, output) ==
  [description |-> "text", input |-> input, output |-> output]

\* The first schema, and the same with another output schema.
Base   == Def(Schema({"p"}, "string"), None)
Output == Def(Schema({"p"}, "string"), "object")

Both(d1, d2) == [t \in ToolNames |-> IF t = t1 THEN d1 ELSE d2]

\* One tool that changes its output schema.
TwoSchemas == {Both(Base, Base), Both(Output, Base)}
\* One tool that changes its schema or goes away, beside one that stays.
ThreeListings == TwoSchemas \cup {Both(None, Base)}
\* One tool that goes away and comes back.
ComesAndGoes == {Both(Base, Base), Both(None, Base)}

HandlerSymmetry == Permutations(Handlers)
=============================================================================
