------------------------------ MODULE OrgChart ------------------------------
(***************************************************************************)
(* The organization chart: who is drawn, and whose details can be opened.  *)
(*                                                                         *)
(* getOrgTree reads the whole table for an ADMIN, and walks down           *)
(* users.manager_id from the caller for a MANAGER, with a depth and a row  *)
(* limit, because nothing keeps the cached lines free of cycles.  The page *)
(* keeps the tree while lines move; opening a node asks getOrgUser, which  *)
(* walks again to check the caller and then adds the person's profile and  *)
(* groups from Microsoft Graph, page by page, keeping complete answers.    *)
(* User holds the people of the caller's own space: the same scope clause  *)
(* is part of every query, so the others take no part.                     *)
(*                                                                         *)
(* Definitions named Short..., Unmarked... or Lenient... are broken on     *)
(* purpose and take no part in Spec.                                       *)
(***************************************************************************)
EXTENDS Integers, FiniteSetsExt

CONSTANTS User,      \* ids, in the order of the display names
          Me,        \* the caller
          Nobody,    \* SQL NULL
          Group,     \* of Entra ID, in the order of its pages, one a page
          MaxDepth,  \* ORG_TREE_MAX_DEPTH
          NodeCaps,  \* values of MAX_ORG_NODES
          MaxKeys,   \* CACHE_MAX_KEYS
          MaxEvents  \* bound: changes of lines and memberships

ASSUME OrgAssumption ==
    /\ Me \in User /\ Nobody \notin User
    /\ User \subseteq Nat /\ IsFiniteSet(User) /\ Group \subseteq Nat \ {0}
    /\ MaxDepth \in Nat \ {0} /\ NodeCaps \subseteq Nat \ {0}
    /\ MaxKeys \in Nat /\ MaxEvents \in Nat

VARIABLES lines,   \* users.manager_id of the people who have a row
          member,  \* [User -> groups in Entra ID]
          maxNodes, \* MAX_ORG_NODES: one value per behaviour
          caller,  \* role and kind of session
          tree,    \* what the page shows
          dialog,  \* the detail dialog and its request
          read,    \* the reading of somebody's groups
          cache,   \* [User -> userGroups entry]
          events

vars == <<lines, member, maxNodes, caller, tree, dialog, read, cache, events>>

NoTree == [nodes |-> {}, roots |-> {}, truncated |-> FALSE, depth |-> 0, lines |-> <<>>]
Closed == [phase |-> "closed"]
Resting == [who |-> Nobody]
Absent == [held |-> FALSE]

People == DOMAIN lines

Init ==
    /\ lines \in UNION {[S -> S \cup {Nobody}] : S \in {T \in SUBSET User : Me \in T}}
    /\ member = [u \in User |-> Group]
    /\ maxNodes \in NodeCaps
    /\ caller \in [role : {"ADMIN", "MANAGER"}, demo : BOOLEAN]
    /\ tree = NoTree
    /\ dialog = Closed
    /\ read = Resting
    /\ cache = [u \in User |-> Absent]
    /\ events = 0

-----------------------------------------------------------------------------
(* The walk down manager_id. *)

\* The recursive query: a level holds those whose manager is in the level above, and
\* nothing leaves out who was met before.
Levels(root) ==
    LET level[d \in 0 .. MaxDepth] ==
            IF d = 0 THEN {root} ELSE {u \in People : lines[u] \in level[d - 1]}
    IN  level

ShortIsInSubtree(root, u) ==
    \/ u = root
    \/ \E d \in 0 .. MaxDepth - 1 : u \in Levels(root)[d]

IsInSubtree(root, u) ==
    \/ u = root
    \/ \E d \in 0 .. MaxDepth : u \in Levels(root)[d]

\* How many rows the first levels make.
RowsAbove(level, d) == MapThenSumSet(LAMBDA i : Cardinality(level[i]), 0 .. d - 1)

\* The first rows, as many as the limit leaves: whole levels, then some rows of one
\* level in any order.
FirstRows(level, depth, limit) ==
    LET size == Min({limit, RowsAbove(level, depth + 1)})
        Above(d) == UNION {level[i] : i \in 0 .. d - 1}
    IN  UNION {{[above |-> Above(d), last |-> part] :
                    part \in kSubset(size - RowsAbove(level, d), level[d])} :
               d \in {i \in 0 .. depth : RowsAbove(level, i) < size}}

Answer(nodes, roots, truncated) ==
    [nodes |-> nodes, roots |-> roots, truncated |-> truncated, depth |-> 0,
     lines |-> lines]

UnmarkedGetOrgSubtree(root, depth) ==
    {Answer(rows.above \cup rows.last, {root}, FALSE) :
        rows \in FirstRows(Levels(root), depth, maxNodes)}

\* Duplicates go after the limit was applied; what is left beyond the cap goes next.
GetOrgSubtree(root, depth) ==
    UNION {LET unique == rows.above \cup rows.last
           IN  IF Cardinality(unique) > maxNodes
               THEN {Answer(unique \ {last}, {root}, TRUE) : last \in rows.last}
               ELSE {Answer(unique, {root}, FALSE)} :
           rows \in FirstRows(Levels(root), depth, maxNodes + 1)}

\* No manager, or one who is not in the answer.
RootsOf(nodes) == {u \in nodes : lines[u] = Nobody \/ lines[u] \notin nodes}

\* The first people by name.
GetAllOrgNodes ==
    LET nodes == {u \in People : Cardinality({v \in People : v < u}) < maxNodes}
    IN  Answer(nodes, RootsOf(nodes), nodes # People)

\* The depth asked for, within the limits; without a number, the largest.
ResolveMaxDepth(asked) == Min({Max({asked, 1}), MaxDepth})

-----------------------------------------------------------------------------
(* The page. *)

\* First load, refresh, or a refetch of a tree gone stale; the page asks for all
\* levels, its query hook and the endpoint for as many as one likes.  Bound: not while
\* the dialog is open, which keeps the node it was opened with.
LoadTree(asked) ==
    /\ dialog = Closed
    /\ \E answer \in IF caller.role = "ADMIN" THEN {GetAllOrgNodes}
                     ELSE GetOrgSubtree(Me, ResolveMaxDepth(asked)) :
          tree' = [answer EXCEPT !.depth = ResolveMaxDepth(asked)]
    /\ UNCHANGED <<lines, member, maxNodes, caller, dialog, read, cache, events>>

\* The alert takes the place of the chart, until a load succeeds.
LoadFails ==
    /\ dialog = Closed
    /\ tree' = NoTree
    /\ UNCHANGED <<lines, member, maxNodes, caller, dialog, read, cache, events>>

\* A click on a node; the dialog keeps the node as it was drawn.
Open(u) ==
    /\ dialog = Closed
    /\ u \in tree.nodes
    /\ dialog' = [phase |-> "check", who |-> u, lines |-> tree.lines]
    /\ UNCHANGED <<lines, member, maxNodes, caller, tree, read, cache, events>>

\* The page drops the answer; what the server reads, it goes on reading.
Close ==
    /\ dialog.phase \in {"graph", "shown", "refused"}
    /\ dialog' = Closed
    /\ UNCHANGED <<lines, member, maxNodes, caller, tree, read, cache, events>>

-----------------------------------------------------------------------------
(* getOrgUser. *)

Waiting == dialog.phase = "graph" /\ dialog.who = read.who
Refused == [dialog EXCEPT !.phase = "refused"]
Stored == [phase |-> "shown", who |-> dialog.who, source |-> "local"]

Reading(u) ==
    [who |-> u, list |-> {}, next |-> 1, always |-> member[u], ever |-> member[u]]

\* The row is read and the walk repeated; profile and groups are then asked for
\* together.  Bound: one reading of groups at a time.
Check ==
    LET u == dialog.who
        allowed == caller.role = "ADMIN" \/ IsInSubtree(Me, u)
    IN  /\ dialog.phase = "check"
        /\ \/ ~allowed /\ dialog' = Refused /\ UNCHANGED read
           \/ allowed /\ caller.demo /\ dialog' = Stored /\ UNCHANGED read
           \/ /\ allowed /\ ~caller.demo
              /\ read = Resting
              /\ dialog' = [phase |-> "graph", who |-> u, profile |-> FALSE,
                            groups |-> cache[u]]
              /\ read' = IF cache[u].held THEN read ELSE Reading(u)
        /\ UNCHANGED <<lines, member, maxNodes, caller, tree, cache, events>>

\* getUserById: from the cache or from Graph.
ProfileComes ==
    /\ dialog.phase = "graph"
    /\ ~dialog.profile
    /\ dialog' = [dialog EXCEPT !.profile = TRUE]
    /\ UNCHANGED <<lines, member, maxNodes, caller, tree, read, cache, events>>

\* One failure is enough for the stored row; the groups are still read to the end.
ProfileFails ==
    /\ dialog.phase = "graph"
    /\ ~dialog.profile
    /\ dialog' = Stored
    /\ UNCHANGED <<lines, member, maxNodes, caller, tree, read, cache, events>>

\* Both are in.
AnswerFromDirectory ==
    /\ dialog.phase = "graph"
    /\ dialog.profile
    /\ dialog.groups.held
    /\ dialog' = [phase |-> "shown", who |-> dialog.who, source |-> "directory",
                  groups |-> dialog.groups]
    /\ UNCHANGED <<lines, member, maxNodes, caller, tree, read, cache, events>>

-----------------------------------------------------------------------------
(* getUserGroups and paginateGraphCollection. *)

\* The groups on the pages that are still to come.
Ahead == {g \in member[read.who] : g >= read.next}

\* One page, with what the directory says at that moment.
ReadPage ==
    /\ read # Resting
    /\ Ahead # {}
    /\ LET g == Min(Ahead)
       IN  read' = [read EXCEPT !.list = @ \cup {g}, !.next = g + 1]
    /\ UNCHANGED <<lines, member, maxNodes, caller, tree, dialog, cache, events>>

Entry == [held |-> TRUE, list |-> read.list, always |-> read.always, ever |-> read.ever]
Room(u) == cache[u].held \/ Cardinality({v \in User : cache[v].held}) < MaxKeys

\* The list goes to whoever waits for it, and into the cache if there is room.
Delivered ==
    LET u == read.who
    IN  /\ read' = Resting
        /\ dialog' = IF Waiting THEN [dialog EXCEPT !.groups = Entry] ELSE dialog
        /\ cache' = IF Room(u) THEN [cache EXCEPT ![u] = Entry] ELSE cache

\* No further page.
LastPage ==
    /\ read # Resting
    /\ Ahead = {}
    /\ Delivered
    /\ UNCHANGED <<lines, member, maxNodes, caller, tree, events>>

LenientPageFails ==
    /\ read # Resting
    /\ Delivered
    /\ UNCHANGED <<lines, member, maxNodes, caller, tree, events>>

\* Attempts used up, a page without its list, a link elsewhere, too many pages, no
\* token: nothing of what was read is used or cached.
PageFails ==
    /\ read # Resting
    /\ read' = Resting
    /\ dialog' = IF Waiting THEN Stored ELSE dialog
    /\ UNCHANGED <<lines, member, maxNodes, caller, tree, cache, events>>

\* The 15 minutes of an entry are over.
Expire(u) ==
    /\ cache[u].held
    /\ cache' = [cache EXCEPT ![u] = Absent]
    /\ UNCHANGED <<lines, member, maxNodes, caller, tree, dialog, read, events>>

-----------------------------------------------------------------------------
(* Outside. *)

Happens == events < MaxEvents /\ events' = events + 1

\* Another manager, or none, for one person: see ManagerDirectory.
Move(u, m) ==
    /\ Happens
    /\ m # lines[u]
    /\ lines' = [lines EXCEPT ![u] = m]
    /\ UNCHANGED <<member, maxNodes, caller, tree, dialog, read, cache>>

\* Somebody whose groups are being read joins or leaves one.
Regroup(g) ==
    LET u == read.who
        joins == g \notin member[u]
    IN  /\ read # Resting
        /\ Happens
        /\ member' = [member EXCEPT ![u] = IF joins THEN @ \cup {g} ELSE @ \ {g}]
        /\ read' = [read EXCEPT !.always = @ \ {g}, !.ever = IF joins THEN @ \cup {g} ELSE @]
        /\ UNCHANGED <<lines, maxNodes, caller, tree, dialog, cache>>

Next ==
    \/ \E asked \in 0 .. MaxDepth + 1 : LoadTree(asked)
    \/ LoadFails
    \/ \E u \in People : Open(u)
    \/ Close
    \/ Check \/ ProfileComes \/ ProfileFails \/ AnswerFromDirectory
    \/ ReadPage \/ LastPage \/ PageFails
    \/ \E u \in User : Expire(u)
    \/ \E u \in People, m \in People \cup {Nobody} : Move(u, m)
    \/ \E g \in Group : Regroup(g)

Spec == Init /\ [][Next]_vars

-----------------------------------------------------------------------------
(* Properties. *)

\* Types.
TypeOK ==
    /\ Me \in People /\ People \subseteq User
    /\ \A u \in People : lines[u] \in People \cup {Nobody}
    /\ member \in [User -> SUBSET Group]
    /\ tree.nodes \subseteq User /\ tree.roots \subseteq tree.nodes
    /\ dialog.phase \in {"closed", "check", "graph", "shown", "refused"}
    /\ read # Resting => read.who \in User /\ read.list \subseteq Group
    /\ \A u \in User : cache[u].held => cache[u].list \subseteq Group

\* Up the lines: the person, the manager, the manager's manager...
Line(t, u, n) ==
    LET up[k \in 0 .. n] == IF k = 0 THEN u
                            ELSE IF up[k - 1] \in DOMAIN t.lines THEN t.lines[up[k - 1]]
                            ELSE Nobody
    IN  up

\* Who comes up to the caller within the depth, and by how many steps; on a cycle the
\* same person does more than once.
Ways(t) == {way \in (0 .. t.depth) \X DOMAIN t.lines : Line(t, way[2], way[1])[way[1]] = Me}

\* Who is drawn can be opened: the walk that draws the chart and the walk that guards
\* the details agree for every depth asked for and every cut, also on lines with
\* cycles; a refusal means that lines have moved since the tree was read.
DrawnCanBeOpened ==
    [][dialog.phase = "check" /\ dialog'.phase = "refused" => lines # dialog.lines]_vars

\* The row limit, which is applied before duplicates go, takes the right people: those
\* of a manager's page who are left out are no nearer to the caller than anybody drawn,
\* on lines with cycles too; nobody is drawn who does not belong there; and a page is
\* not called capped when nobody is missing.  A page without that note misses people
\* only where the walk meets some of them again, and has more rows than are read.
\* So the note is not the "precise signal" of models/user.ts:44-46; and since what is
\* due goes only as far down as was asked for, it does not tell that the depth has cut
\* the chart, as layout.ts:14-15 has it.
CapCutsTheFarthest ==
    LET ways == Ways(tree)
        due == IF caller.role = "ADMIN" THEN DOMAIN tree.lines ELSE {way[2] : way \in ways}
        missing == due \ tree.nodes
    IN  tree # NoTree =>
          /\ tree.nodes \subseteq due
          /\ Cardinality(tree.nodes) <= maxNodes
          /\ tree.truncated => missing # {}
          /\ missing # {} /\ ~tree.truncated =>
                /\ caller.role = "MANAGER"
                /\ Cardinality(ways) > Cardinality(due)
                /\ Cardinality(ways) > maxNodes + 1
          /\ caller.role = "MANAGER" =>
                \A way \in ways, v \in tree.nodes :
                   way[2] \in missing => \E n \in 0 .. way[1] : <<n, v>> \in ways

\* However often readings fail, and whatever changes meanwhile: a list of groups that
\* is cached or shown as the directory's has every group the person was in all the
\* time, and none the person was never in.
Honest(e) == e.always \subseteq e.list /\ e.list \subseteq e.ever
NoHalfLists ==
    /\ \A u \in User : cache[u].held => Honest(cache[u])
    /\ dialog.phase = "shown" /\ dialog.source = "directory" => Honest(dialog.groups)
=============================================================================
