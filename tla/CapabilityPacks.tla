--------------------------- MODULE CapabilityPacks ---------------------------
(***************************************************************************)
(* Capability packs: which capabilities a pack holds, which agent classes  *)
(* it is assigned to (PackService), and the walk from an agent's class     *)
(* over its packs to the capabilities it may use                           *)
(* (AuthService.get_agent_capability_surface).                             *)
(*                                                                         *)
(* Both junction tables are one set of links here: a row joins a pack with *)
(* a capability or with a class, and neither table has a unique index.     *)
(* Assignments check before they insert, removals delete the row they      *)
(* found, and clone_pack and the walk read in several queries: each of     *)
(* these is a request of several steps, and requests overlap.              *)
(***************************************************************************)
EXTENDS Sequences

CONSTANTS
    Packs,
    Classes,
    Caps,           \* capabilities: nothing deletes them
    PackRequests    \* bound: the requests of several steps, each served once

ASSUME PacksAssumption ==
    Packs \cap (Classes \cup Caps) = {} /\ Classes \cap Caps = {}

VARIABLES
    row,            \* "new", "there" or "gone": the row of a pack or a class
    link,           \* the rows of pack_assignments and agent_class_packs
    task            \* what each request has read so far

packsVars == <<row, link, task>>

Linked == Classes \cup Caps
\* Every row has an id of its own: the request that inserted it, after the id of the row that it
\* copied, if any.
Link == [pack: Packs, to: Linked, id: Seq(PackRequests)]
Pair(l) == <<l.pack, l.to>>
Pairs(links) == {Pair(l) : l \in links}
RowsOf(p, x) == {l \in link : Pair(l) = <<p, x>>}
Rows(S) == {x \in Packs \cup Classes : row[x] \in S}
Present == Rows({"there"}) \cup Caps

Fresh == [op |-> "fresh"]
Over == [op |-> "over"]

\* Some packs and classes are there, and some of them are joined, each pair by one row.
PacksInit ==
    /\ row \in [Packs \cup Classes -> {"new", "there"}]
    /\ \E pairs \in SUBSET ((Packs \cap Present) \X (Linked \cap Present)) :
          link = {[pack |-> x[1], to |-> x[2], id |-> <<>>] : x \in pairs}
    /\ task = [r \in PackRequests |-> Fresh]
------------------------------------------------------------------------------
Doing(op) == {r \in PackRequests : task[r].op = op}
Readers == Doing("assign") \cup Doing("clone") \cup Doing("surface")
Become(r, t) == task' = [task EXCEPT ![r] = t]

\* History of a request that reads first and acts or answers later: the pairs, of those it
\* is about, that were joined throughout (kept) and at some time (ever).
Watch(about) == [about |-> about, kept |-> Pairs(link) \cap about, ever |-> Pairs(link) \cap about]
WatchOn(w, links) == [about |-> w.about, kept |-> w.kept \cap Pairs(links),
                      ever |-> w.ever \cup (Pairs(links) \cap w.about)]

\* A change of the links, as every request under way sees it.
Change(links, tasks) ==
    /\ link' = links
    /\ task' = [r \in PackRequests |->
                  IF r \in Readers /\ tasks[r] # Over THEN [tasks[r] EXCEPT !.watch = WatchOn(@, links)]
                  ELSE tasks[r]]
Served(r) == [task EXCEPT ![r] = Over]

\* create_pack, create_agent_class
CreateRow(x) == row[x] = "new" /\ row' = [row EXCEPT ![x] = "there"] /\ UNCHANGED <<link, task>>

\* delete_pack, delete_agent_class: the rows that refer to it go with it (ON DELETE CASCADE).
DeleteRow(x) ==
    /\ row[x] = "there"
    /\ row' = [row EXCEPT ![x] = "gone"]
    /\ Change({l \in link : l.pack # x /\ l.to # x}, task)

\* assign_capability, assign_to_class: nothing like it is there, and the class exists.  A
\* pair that is there twice makes the check itself fail (scalar_one_or_none).
NothingChecked(p, x) == x \in Present       \* mutant: an assignment that is there is not seen
MayAssign(p, x) == x \in Present /\ RowsOf(p, x) = {}
AssignLoad(r, p, x) ==
    /\ task[r] = Fresh
    /\ MayAssign(p, x)
    /\ Become(r, [op |-> "assign", pack |-> p, to |-> x, watch |-> Watch({<<p, x>>})])
    /\ UNCHANGED <<row, link>>

\* The foreign keys are checked at the commit; the pack has not been looked at before.
AssignCommit(r) ==
    /\ r \in Doing("assign")
    /\ LET t == task[r] IN
       IF {t.pack, t.to} \subseteq Present
       THEN Change(link \cup {[pack |-> t.pack, to |-> t.to, id |-> <<r>>]}, Served(r))
       ELSE Become(r, Over) /\ UNCHANGED link          \* IntegrityError
    /\ UNCHANGED row

\* remove_capability, remove_from_class: exactly one row is found, and deleted by its id.
RemoveLoad(r, p, x) ==
    /\ task[r] = Fresh
    /\ \E l \in link : RowsOf(p, x) = {l} /\ Become(r, [op |-> "remove", row |-> l])
    /\ UNCHANGED <<row, link>>
RemoveCommit(r) ==
    /\ r \in Doing("remove")
    /\ Change(link \ {task[r].row}, Served(r))
    /\ UNCHANGED row
------------------------------------------------------------------------------
(***************************************************************************)
(* clone_pack: the empty copy is committed, then the links of the source   *)
(* are read in two queries and inserted for the copy in a second commit.   *)
(***************************************************************************)
CloneBegin(r, p, q) ==
    /\ task[r] = Fresh
    /\ row[p] = "there" /\ row[q] = "new"
    /\ row' = [row EXCEPT ![q] = "there"]
    /\ Become(r, [op |-> "clone", pack |-> p, copy |-> q, left |-> <<Caps, Classes>>, read |-> {},
                  watch |-> Watch({p, q} \X Linked)])
    /\ UNCHANGED link

ReadOfCopy(t, kind) == {l \in link : l.pack = t.copy /\ l.to \in kind}   \* mutant: the copy's own rows
ReadOf(t, kind) == {l \in link : l.pack = t.pack /\ l.to \in kind}
\* The two queries, one after the other.
CloneRead(r) ==
    /\ r \in Doing("clone") /\ task[r].left # <<>>
    /\ Become(r, [task[r] EXCEPT !.left = Tail(@), !.read = @ \cup ReadOf(task[r], Head(task[r].left))])
    /\ UNCHANGED <<row, link>>

\* A copy of each row that was read, with an id of its own.
Copies(t, r) == {[l EXCEPT !.pack = t.copy, !.id = Append(@, r)] : l \in t.read}
CloneCommit(r) ==
    /\ r \in Doing("clone") /\ task[r].left = <<>>
    /\ LET t == task[r] IN
       IF {t.copy} \cup {l.to : l \in t.read} \subseteq Present
       THEN Change(link \cup Copies(t, r), Served(r))
       ELSE Become(r, Over) /\ UNCHANGED link          \* IntegrityError: the copy stays as it is
    /\ UNCHANGED row

------------------------------------------------------------------------------
(***************************************************************************)
(* get_agent_capability_surface: the packs of the class, then pack by pack *)
(* the capabilities in it.                                                 *)
(***************************************************************************)
SurfaceBegin(r, k) ==
    /\ task[r] = Fresh
    /\ row[k] = "there"
    /\ Become(r, [op |-> "surface", class |-> k, left |-> {p \in Packs : RowsOf(p, k) # {}}, answer |-> {},
                  watch |-> Watch(Packs \X ({k} \cup Caps))])
    /\ UNCHANGED <<row, link>>

SurfaceRead(r) ==
    /\ r \in Doing("surface")
    /\ \E p \in task[r].left :
          Become(r, [task[r] EXCEPT !.left = @ \ {p},
                                    !.answer = @ \cup {c \in Caps : RowsOf(p, c) # {}}])
    /\ UNCHANGED <<row, link>>

\* A request may die between two steps.
Dies(r) == task[r] \notin {Fresh, Over} /\ Become(r, Over) /\ UNCHANGED <<row, link>>

CreatePack == \E p \in Packs : CreateRow(p)
DeletePack == \E p \in Packs : DeleteRow(p)
CreateAgentClass == \E k \in Classes : CreateRow(k)
DeleteAgentClass == \E k \in Classes : DeleteRow(k)
AssignCapability(r) == \E p \in Packs, c \in Caps : AssignLoad(r, p, c)
AssignToClass(r) == \E p \in Packs, k \in Classes : AssignLoad(r, p, k)
RemoveCapability(r) == \E p \in Packs, c \in Caps : RemoveLoad(r, p, c)
RemoveFromClass(r) == \E p \in Packs, k \in Classes : RemoveLoad(r, p, k)
ClonePack(r) == (\E p, q \in Packs : CloneBegin(r, p, q)) \/ CloneRead(r) \/ CloneCommit(r)
Surface(r) == (\E k \in Classes : SurfaceBegin(r, k)) \/ SurfaceRead(r)

PacksNext ==
    \/ CreatePack \/ DeletePack \/ CreateAgentClass \/ DeleteAgentClass
    \/ \E r \in PackRequests :
          \/ AssignCapability(r) \/ AssignToClass(r) \/ AssignCommit(r)
          \/ RemoveCapability(r) \/ RemoveFromClass(r) \/ RemoveCommit(r)
          \/ ClonePack(r) \/ Surface(r) \/ Dies(r)
PacksSpec == PacksInit /\ [][PacksNext]_packsVars
------------------------------------------------------------------------------
\* The type of both tables and what they refer to: a row never outlives its pack or class.
PacksTypeOK ==
    /\ row \in [Packs \cup Classes -> {"new", "there", "gone"}]
    /\ link \subseteq Link
    /\ \A l \in link : {l.pack, l.to} \subseteq Present

\* Pairs joined by more than one row: neither assign_capability nor remove_capability gets
\* past its own check for them any more.
Doubled(links) == {Pair(l) : l \in {l \in links : \E m \in links : m # l /\ Pair(m) = Pair(l)}}

\* A pair is joined by a second row only by a request that found it free and was overtaken
\* by one that joined it, or by copying a pair that was doubled in the source.
DoublesOnlyByRace ==
    [][\A pair \in Doubled(link') \ Doubled(link) :
          \E r \in Readers :
             /\ task[r].op # "surface" /\ task'[r] = Over
             /\ \/ pair \in task[r].watch.ever \ task[r].watch.kept
                \/ task[r].op = "clone" /\ <<task[r].pack, pair[2]>> \in Doubled(task[r].read)]_packsVars

\* A surface lists every capability that was within reach of the class throughout the walk
\* and none whose links never existed during it; a clone copies every link its source had
\* throughout and none it never had meanwhile.
WalksAreFaithful ==
    /\ \A r \in Doing("surface") : LET t == task[r] IN
          t.left = {} =>
             /\ {c \in Caps : \E p \in Packs : {<<p, t.class>>, <<p, c>>} \subseteq t.watch.kept} \subseteq t.answer
             /\ t.answer \subseteq {c \in Caps : \E p \in Packs : {<<p, t.class>>, <<p, c>>} \subseteq t.watch.ever}
    /\ \A r \in Doing("clone") : LET t == task[r] copied == {l.to : l \in t.read} IN
          t.left = <<>> =>
             /\ {x \in Linked : <<t.pack, x>> \in t.watch.kept} \subseteq copied
             /\ copied \subseteq {x \in Linked : <<t.pack, x>> \in t.watch.ever}
==============================================================================
