----------------------------- MODULE ReviewGate -----------------------------
(***************************************************************************)
(* What the fabric promises about taking tools in and out of routing: the  *)
(* machinery may hold a mapping back at any time, but once held back it    *)
(* returns to routing only by an administrator's approval on record.       *)
(* MappingLifecycle implements this, with sessions that overlap.           *)
(***************************************************************************)
CONSTANT Items  \* the mappings that may exist

VARIABLES
  gate,     \* where each item stands
  approved  \* items with an approval on record

Gates == {"absent", "routed", "held", "retired"}

TypeOK ==
  /\ gate \in [Items -> Gates]
  /\ approved \subseteq Items

Present == {i \in Items : gate[i] # "absent"}

Move(moved, where) == [i \in Items |-> IF i \in moved THEN where ELSE gate[i]]

Init ==
  /\ gate = [i \in Items |-> "absent"]
  /\ approved = {}

\* A new item is routed at once or, when it collides, held.
Admit(i) ==
  /\ i \notin Present
  /\ \E where \in {"routed", "held"} : gate' = Move({i}, where)
  /\ UNCHANGED approved

\* Drift or an unreachable server.
Hold(held) ==
  /\ held \subseteq Present
  /\ gate' = Move(held, "held")
  /\ UNCHANGED approved

Retire(retired) ==
  /\ retired \subseteq Present
  /\ gate' = Move(retired, "retired")
  /\ UNCHANGED approved

\* The approval may find the item moved on: then it is only recorded.
Approve(i) ==
  /\ i \in Present
  /\ approved' = approved \cup {i}
  /\ gate' = Move({i}, "routed") \/ UNCHANGED gate

Next ==
  \/ \E i \in Items : Admit(i) \/ Approve(i)
  \/ \E moved \in SUBSET Items : Hold(moved) \/ Retire(moved)

Spec == Init /\ [][Next]_<<gate, approved>>
=============================================================================
