----------------------------- MODULE ToolSchema -----------------------------
(***************************************************************************)
(* Tool definitions as the registry stores them and MCP servers publish    *)
(* them, the digest that identifies a schema, and the comparison that      *)
(* decides whether a re-inspected tool has changed.                        *)
(*                                                                         *)
(* An input schema is a JSON Schema object.  The code reads two members    *)
(* of it, "properties" (by name only) and "required"; everything else it   *)
(* holds (types, formats, nested schemas) is its "details", which only the *)
(* digest looks at.                                                        *)
(***************************************************************************)
CONSTANTS
  Descriptions,  \* description texts
  Params,        \* names of input parameters
  Details,       \* what an input schema says beyond names and "required"
  Outputs,       \* output schemas
  ToolNames,     \* names of tools
  None           \* SQL NULL / Python None

InputSchema == [properties : SUBSET Params,
                required   : SUBSET Params,
                details    : Details]

ToolDef == [description : Descriptions,
            input       : InputSchema,
            output      : Outputs \cup {None}]

\* SHA-256 over the tool's name and its two schemas: equal only for equal
\* inputs.  The description is not part of it.
SchemaDigest == [name   : ToolNames,
                 input  : InputSchema,
                 output : Outputs \cup {None}]

ToolDigest(name, def) ==
  [name |-> name, input |-> def.input, output |-> def.output]

ParamsAdded(prev, curr)   == curr.input.properties \ prev.input.properties
ParamsRemoved(prev, curr) == prev.input.properties \ curr.input.properties
NowRequired(prev, curr)   == curr.input.required \ prev.input.required

\* A plausible slip: the output schema left out of the comparison.
IsChangedInputOnly(prev, curr) ==
  \/ prev.description # curr.description
  \/ ParamsAdded(prev, curr) # {}
  \/ ParamsRemoved(prev, curr) # {}
  \/ NowRequired(prev, curr) # {}

\* compare_tool_definitions returns a ToolChange, not None.
IsChanged(prev, curr) ==
  \/ prev.description # curr.description
  \/ ParamsAdded(prev, curr) # {}
  \/ ParamsRemoved(prev, curr) # {}
  \/ NowRequired(prev, curr) # {}
  \/ prev.output # curr.output

\* The is_breaking flag of the ToolChange.
IsBreaking(prev, curr) ==
  \/ ParamsRemoved(prev, curr) # {}
  \/ NowRequired(prev, curr) # {}
  \/ /\ prev.output # curr.output
     /\ None \notin {prev.output, curr.output}
=============================================================================
