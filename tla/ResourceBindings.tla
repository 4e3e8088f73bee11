--------------------------- MODULE ResourceBindings ---------------------------
(***************************************************************************)
(* The tables of ResourceService: the resource dimensions of a capability, *)
(* the value map of a dimension, and the values that an identity or a pack *)
(* is bound to.  set_identity_bindings, set_pack_bindings and set_value_map*)
(* are the same two steps, a DELETE of what the owner has and an INSERT of *)
(* what it is to have, so they are one operation on an owner here.  The    *)
(* DELETE sees the rows that were committed when it began (READ COMMITTED),*)
(* waits for a transaction that has deleted one of them, and leaves alone  *)
(* what others commit while it waits.                                      *)
(***************************************************************************)
EXTENDS Naturals, FiniteSets

CONSTANTS
    Bound,              \* identities and packs: one row per value (unique index)
    DimensionRows,      \* dimensions: one value map, but no index says so
    AllowedValues,
    SetRequests,        \* bound: the requests of several steps, each served once
    AtFirst             \* what the rows of the initial state were written by

ASSUME BindingsAssumption ==
    /\ Bound \cap DimensionRows = {} /\ AtFirst \notin SetRequests /\ IsFiniteSet(SetRequests)

VARIABLES
    owners,         \* the identities, packs and dimensions that exist
    bindings,       \* the rows that belong to them, and who inserted each
    setting         \* where each request is

bindingsVars == <<owners, bindings, setting>>

AllOwners == Bound \cup DimensionRows
Binding == [owner: AllOwners, value: AllowedValues, by: SetRequests \cup {AtFirst}]
BindingsOf(o) == {l \in bindings : l.owner = o}

\* ResourceBindingBulkRequest carries any list, DimensionValueMapCreate one source.
ListsFor(o) == IF o \in Bound THEN SUBSET AllowedValues ELSE {{v} : v \in AllowedValues}

NotServed == [op |-> "new"]
BindingsInit ==
    /\ owners \in SUBSET AllOwners
    /\ \E list \in [owners -> SUBSET AllowedValues] :
          /\ \A o \in owners \cap DimensionRows : Cardinality(list[o]) <= 1
          /\ bindings = {l \in [owner: owners, value: AllowedValues, by: {AtFirst}] : l.value \in list[l.owner]}
    /\ setting = [r \in SetRequests |-> NotServed]
------------------------------------------------------------------------------
Setting(op) == {r \in SetRequests : setting[r].op = op}
Replacing(o) == {r \in Setting("set") : setting[r].owner = o}

\* The requests that have locked one of these rows by deleting it.
Holding(rows) == {r \in Setting("set") : setting[r].waits = {} /\ setting[r].doomed \cap rows # {}}

\* A transaction is over: who waited for it goes on.
Released(r, tasks) ==
    [q \in SetRequests |-> IF q \in Setting("set") \ {r} THEN [tasks[q] EXCEPT !.waits = @ \ {r}] ELSE tasks[q]]
RolledBack(r) == setting' = Released(r, [setting EXCEPT ![r] = [op |-> "failed"]])

\* create_dimension (the index refuses a second one), create_identity, create_pack
CreateOwner(o) == o \notin owners /\ owners' = owners \cup {o} /\ UNCHANGED <<bindings, setting>>
\* delete_dimension and its like take their rows with them, once nobody holds one.
DeleteOwner(o) ==
    /\ o \in owners /\ Holding(BindingsOf(o)) = {}
    /\ owners' = owners \ {o}
    /\ bindings' = bindings \ BindingsOf(o)
    /\ UNCHANGED setting

OnlyDropped(o, list) == {l \in BindingsOf(o) : l.value \notin list}    \* mutant: what stays is kept
Doomed(o, list) == BindingsOf(o)
\* The DELETE.  Only set_value_map looks for the owner first.
SetDelete(r, o, list) ==
    /\ setting[r] = NotServed
    /\ o \in DimensionRows => o \in owners
    /\ LET doomed == Doomed(o, list) IN
       setting' = [setting EXCEPT ![r] = [op |-> "set", owner |-> o, list |-> list, doomed |-> doomed,
                                          waits |-> Holding(doomed), since |-> {}]]
    /\ UNCHANGED <<owners, bindings>>

\* The INSERTs and the commit.  The foreign key and the unique index may refuse them.
NoIndexOnValues(t) == t.owner \in owners           \* mutant: a value may be bound twice
Accepted(t) == t.owner \in owners /\ (t.owner \in Bound => ~\E l \in BindingsOf(t.owner) \ t.doomed : l.value \in t.list)
SetCommit(r) ==
    /\ r \in Setting("set") /\ setting[r].waits = {}
    /\ LET t == setting[r] IN
       IF Accepted(t)
       THEN /\ bindings' = (bindings \ t.doomed) \cup [owner: {t.owner}, value: t.list, by: {r}]
            /\ setting' = Released(r, [q \in SetRequests |->
                 CASE q = r -> [op |-> "done", since |-> t.since]
                   [] q \in Replacing(t.owner) \ {r} -> [setting[q] EXCEPT !.since = @ \cup {r}, !.doomed = @ \ t.doomed]
                   [] OTHER -> setting[q]])
       ELSE RolledBack(r) /\ UNCHANGED bindings
    /\ UNCHANGED owners
\* The request dies, or the database ends a deadlock at its expense.
SetAborts(r) == r \in Setting("set") /\ RolledBack(r) /\ UNCHANGED <<owners, bindings>>

\* delete_identity_binding, delete_pack_binding: the row is read, then deleted by its id.
UnbindLoad(r, l) ==
    /\ setting[r] = NotServed /\ l.owner \in Bound
    /\ setting' = [setting EXCEPT ![r] = [op |-> "unbind", row |-> l]]
    /\ UNCHANGED <<owners, bindings>>
UnbindCommit(r) ==
    /\ r \in Setting("unbind") /\ Holding({setting[r].row}) = {}
    /\ bindings' = bindings \ {setting[r].row}
    /\ setting' = [setting EXCEPT ![r] = [op |-> "unbound"]]
    /\ UNCHANGED owners

SetBindings(r) == \E o \in Bound : \E list \in ListsFor(o) : SetDelete(r, o, list)
SetValueMap(r) == \E o \in DimensionRows : \E list \in ListsFor(o) : SetDelete(r, o, list)

BindingsNext ==
    \/ \E o \in AllOwners : CreateOwner(o) \/ DeleteOwner(o)
    \/ \E r \in SetRequests :
          \/ SetBindings(r) \/ SetValueMap(r)
          \/ SetCommit(r) \/ SetAborts(r)
          \/ \E l \in bindings : UnbindLoad(r, l)
          \/ UnbindCommit(r)
BindingsSpec == BindingsInit /\ [][BindingsNext]_bindingsVars
------------------------------------------------------------------------------
\* The type of the tables: a row has an owner that exists, and an identity or a pack has a
\* value once.
BindingsTypeOK ==
    /\ owners \subseteq AllOwners
    /\ bindings \subseteq Binding
    /\ \A l \in bindings :
          /\ l.owner \in owners
          /\ l.owner \in Bound => ~\E k \in BindingsOf(l.owner) : k # l /\ k.value = l.value

Overlapped(q, r) == \E x, y \in {q, r} : x \in Setting("done") /\ y \in setting[x].since

\* What an owner is bound to is the list of one request, or less: lists are mixed only when one
\* of their requests was committed between the DELETE and the commit of another.  A dimension
\* that has two value maps got them in that way too.
ListsMixOnlyByOverlap ==
    \A l \in bindings : \A k \in BindingsOf(l.owner) : l.by # k.by => Overlapped(l.by, k.by)
==============================================================================
