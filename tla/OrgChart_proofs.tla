--------------------------- MODULE OrgChart_proofs ---------------------------
(***************************************************************************)
(* Theorems about OrgChart for any set of people, any lines of management, *)
(* with cycles or without, any depth, any cap and any groups.              *)
(*                                                                         *)
(* The last part is about ClientSession, for any set of roles: the whole   *)
(* cache of a tab when its user switches roles. What a request was asked   *)
(* under is settled when it starts, so the argument goes through the       *)
(* requests under way: each carries the role in storage, or one lost       *)
(* since, or its entry is marked. The two specifications share no variable *)
(* and are not composed: each theorem is about one of them.                *)
(***************************************************************************)
EXTENDS OrgChart, ClientSession, FiniteSetTheorems, FunctionTheorems, TLAPS

-----------------------------------------------------------------------------
(* Numbers. *)

\* Every nonempty set of numbers has a least member.
LEMMA LeastMember ==
    ASSUME NEW S \in SUBSET Nat, S # {}
    PROVE  \E m \in S : \A n \in S : m <= n
<1>1. \E x \in S : \A y \in S : ~ (<<y, x>> \in OpToRel(<, Nat))
  BY WFMin, NatLessThanWellFounded
<1>2. OpToRel(<, Nat) = {ss \in Nat \X Nat : ss[1] < ss[2]}
  BY DEF OpToRel
<1>. DEFINE R == {ss \in Nat \X Nat : ss[1] < ss[2]}
<1>3. \E x \in S : \A y \in S : ~ (<<y, x>> \in R)
  BY <1>1, <1>2, Zenon
<1>4. ASSUME NEW x \in Nat, NEW y \in Nat, y < x
      PROVE  <<y, x>> \in R
  <2>1. <<y, x>> \in Nat \X Nat /\ <<y, x>>[1] = y /\ <<y, x>>[2] = x
    OBVIOUS
  <2>2. QED
    BY <2>1, <1>4
<1>. HIDE DEF R
<1>5. PICK x \in S : \A y \in S : ~ (<<y, x>> \in R)
  BY <1>3
<1>6. ASSUME NEW n \in S
      PROVE  x <= n
  <2>1. x \in Nat /\ n \in Nat
    OBVIOUS
  <2>2. ~(n < x)
    BY <1>4, <1>5, <2>1, Zenon
  <2>3. QED
    BY <2>1, <2>2
<1>7. QED
  BY <1>6

\* So the least member is one.
LEMMA LeastIsMin ==
    ASSUME NEW S \in SUBSET Nat, S # {}
    PROVE  Min(S) \in S /\ \A n \in S : Min(S) <= n
BY LeastMember DEF Min

-----------------------------------------------------------------------------
(* The groups of a person. *)

Held == {e \in [held : {TRUE}, list : SUBSET Group, always : SUBSET Group, ever : SUBSET Group] :
            Honest(e)}
Entries == Held \cup {Absent}

Charts == UNION {[S -> S \cup {Nobody}] : S \in {T \in SUBSET User : Me \in T}}

Readings == [who : User, list : SUBSET Group, next : Nat,
             always : SUBSET Group, ever : SUBSET Group]

Dialogs == {Closed}
           \cup [phase : {"check", "refused"}, who : User, lines : Charts]
           \cup [phase : {"graph"}, who : User, profile : BOOLEAN, groups : Entries]
           \cup [phase : {"shown"}, who : User, source : {"local"}]
           \cup [phase : {"shown"}, who : User, source : {"directory"}, groups : Held]

\* What a reading has so far, against what the directory says now: the list has
\* every group it passed that the person has been in all the time.
Progress ==
    read # Resting =>
        /\ read.always \subseteq member[read.who]
        /\ member[read.who] \subseteq read.ever
        /\ read.list \subseteq read.ever
        /\ \A g \in read.always : g < read.next => g \in read.list

\* tree.lines is a chart once a tree was loaded.
TypeInv ==
    /\ lines \in Charts
    /\ member \in [User -> SUBSET Group]
    /\ maxNodes \in NodeCaps
    /\ caller \in [role : {"ADMIN", "MANAGER"}, demo : BOOLEAN]
    /\ tree # NoTree => tree.lines \in Charts
    /\ dialog \in Dialogs
    /\ read \in Readings \cup {Resting}
    /\ cache \in [User -> Entries]

ListInv == TypeInv /\ Progress

\* A chart says for some people, the caller among them, who their manager is.
LEMMA ChartFacts ==
    ASSUME NEW chart \in Charts
    PROVE  /\ Me \in DOMAIN chart /\ DOMAIN chart \subseteq User
           /\ \A u \in DOMAIN chart : chart[u] \in DOMAIN chart \cup {Nobody}
BY DEF Charts

LEMMA ChartMoves ==
    ASSUME NEW chart \in Charts, NEW u \in DOMAIN chart, NEW m \in DOMAIN chart \cup {Nobody}
    PROVE  [chart EXCEPT ![u] = m] \in Charts
<1>1. PICK S \in {T \in SUBSET User : Me \in T} : chart \in [S -> S \cup {Nobody}]
  BY DEF Charts
<1>2. [chart EXCEPT ![u] = m] \in [S -> S \cup {Nobody}]
  BY <1>1
<1>3. QED
  BY <1>1, <1>2 DEF Charts

\* What a dialog holds in each of its phases.
LEMMA DialogFacts ==
    ASSUME TypeInv
    PROVE  /\ dialog.phase = "check" =>
                dialog \in [phase : {"check", "refused"}, who : User, lines : Charts]
           /\ dialog.phase = "graph" =>
                dialog \in [phase : {"graph"}, who : User, profile : BOOLEAN, groups : Entries]
           /\ dialog.phase \in {"closed", "check", "graph", "shown", "refused"}
           /\ dialog.phase = "shown" /\ dialog.source = "directory" =>
                dialog.groups \in Held
<1>1. CASE dialog = Closed
  BY <1>1 DEF Closed
<1>2. CASE dialog \in [phase : {"check", "refused"}, who : User, lines : Charts]
  BY <1>2
<1>3. CASE dialog \in [phase : {"graph"}, who : User, profile : BOOLEAN, groups : Entries]
  BY <1>3
<1>4. CASE dialog \in [phase : {"shown"}, who : User, source : {"local"}]
  BY <1>4
<1>5. CASE dialog \in [phase : {"shown"}, who : User, source : {"directory"}, groups : Held]
  BY <1>5
<1>6. QED
  BY <1>1, <1>2, <1>3, <1>4, <1>5 DEF TypeInv, Dialogs

\* A reading under way is not at rest, and the other way round.
LEMMA ReadingFacts ==
    ASSUME TypeInv
    PROVE  /\ Resting \notin Readings
           /\ read # Resting => read \in Readings
BY OrgAssumption DEF TypeInv, Resting, Readings

\* A list that was read to the end is honest.
LEMMA EndedReading ==
    ASSUME ListInv, read # Resting, Ahead = {}
    PROVE  Entry \in Held
<1>1. read \in Readings
  BY ReadingFacts DEF ListInv
<1>2. \A g \in member[read.who] : g \in Nat /\ ~(g >= read.next)
  BY <1>1, OrgAssumption DEF Ahead, ListInv, TypeInv, Readings
<1>3. \A g \in read.always : g < read.next
  BY <1>1, <1>2 DEF ListInv, Progress, Readings
<1>4. Honest(Entry)
  BY <1>3 DEF ListInv, Progress, Honest, Entry
<1>5. QED
  BY <1>1, <1>4 DEF Held, Entry, Readings

\* An answer is a tree for the lines as they are.
LEMMA LoadedTree ==
    ASSUME NEW asked \in 0 .. MaxDepth + 1, LoadTree(asked)
    PROVE  tree'.lines = lines
<1>1. PICK answer \in IF caller.role = "ADMIN" THEN {GetAllOrgNodes}
                      ELSE GetOrgSubtree(Me, ResolveMaxDepth(asked)) :
          tree' = [answer EXCEPT !.depth = ResolveMaxDepth(asked)]
  BY DEF LoadTree
<1>2. \E nodes, roots, truncated : answer = Answer(nodes, roots, truncated)
  <2>1. CASE caller.role = "ADMIN"
    BY <1>1, <2>1, Zenon DEF GetAllOrgNodes
  <2>2. CASE caller.role # "ADMIN"
    <3>1. PICK rows \in FirstRows(Levels(Me), ResolveMaxDepth(asked), maxNodes + 1) :
              LET unique == rows.above \cup rows.last
              IN  answer \in IF Cardinality(unique) > maxNodes
                             THEN {Answer(unique \ {last}, {Me}, TRUE) : last \in rows.last}
                             ELSE {Answer(unique, {Me}, FALSE)}
      BY <1>1, <2>2, Zenon DEF GetOrgSubtree
    <3>2. QED
      BY <3>1, Zenon
  <2>3. QED
    BY <2>1, <2>2
<1>3. answer.lines = lines /\ DOMAIN answer = {"nodes", "roots", "truncated", "depth", "lines"}
  BY <1>2 DEF Answer
<1>4. QED
  BY <1>1, <1>3

LEMMA ListsBegin ==
    ASSUME Init
    PROVE  ListInv
<1>1. lines \in Charts
  BY DEF Init, Charts
<1>2. cache \in [User -> Entries]
  BY DEF Init, Entries
<1>3. QED
  BY <1>1, <1>2 DEF Init, ListInv, TypeInv, Progress, Dialogs, NoTree

\* Each step keeps the types and the progress of the reading.
LEMMA ListsGoOn ==
    ASSUME ListInv, [Next]_vars
    PROVE  ListInv'
<1>. USE DEF ListInv
<1>1. ASSUME NEW asked \in 0 .. MaxDepth + 1, LoadTree(asked)
      PROVE  ListInv'
  <2>1. tree'.lines = lines
    BY <1>1, LoadedTree
  <2>2. QED
    BY <1>1, <2>1 DEF LoadTree, TypeInv, Progress
<1>2. CASE LoadFails
  BY <1>2 DEF LoadFails, TypeInv, Progress
<1>3. ASSUME NEW u \in People, Open(u)
      PROVE  ListInv'
  <2>1. u \in User
    BY ChartFacts DEF TypeInv, People
  <2>2. tree # NoTree
    BY <1>3 DEF Open, NoTree
  <2>3. dialog' \in Dialogs
    BY <1>3, <2>1, <2>2 DEF Open, TypeInv, Dialogs
  <2>4. QED
    BY <1>3, <2>3 DEF Open, TypeInv, Progress
<1>4. CASE Close
  BY <1>4 DEF Close, TypeInv, Progress, Dialogs
<1>5. CASE Check
  <2>1. dialog \in [phase : {"check", "refused"}, who : User, lines : Charts]
    BY <1>5, DialogFacts DEF Check
  <2>2. Refused \in Dialogs /\ Stored \in Dialogs
    BY <2>1 DEF Refused, Stored, Dialogs
  <2>3. cache[dialog.who] \in Entries
    BY <2>1 DEF TypeInv
  <2>4. [phase |-> "graph", who |-> dialog.who, profile |-> FALSE,
         groups |-> cache[dialog.who]] \in Dialogs
    BY <2>1, <2>3 DEF Dialogs
  <2>5. dialog' \in Dialogs
    BY <1>5, <2>2, <2>4 DEF Check
  <2>6. Reading(dialog.who) \in Readings
    BY <2>1 DEF Reading, Readings, TypeInv
  <2>7. CASE read' = read
    BY <1>5, <2>5, <2>7 DEF Check, TypeInv, Progress
  <2>8. CASE read' = Reading(dialog.who)
    <3>. DEFINE begun == Reading(dialog.who)
    <3>0. begun.always \subseteq Nat \ {0} /\ begun.next = 1
      BY <2>1, OrgAssumption DEF Reading, TypeInv
    <3>1. \A g \in begun.always : ~(g < begun.next)
      BY <3>0
    <3>2. Progress'
      BY <1>5, <2>8, <3>1 DEF Check, Progress, Reading
    <3>3. QED
      BY <1>5, <2>5, <2>6, <2>8, <3>2 DEF Check, TypeInv
  <2>9. QED
    BY <1>5, <2>7, <2>8 DEF Check
<1>6. CASE ProfileComes
  <2>1. dialog' \in Dialogs
    BY <1>6, DialogFacts DEF ProfileComes, Dialogs
  <2>2. QED
    BY <1>6, <2>1 DEF ProfileComes, TypeInv, Progress
<1>7. CASE ProfileFails
  <2>1. dialog' \in Dialogs
    BY <1>7, DialogFacts DEF ProfileFails, Stored, Dialogs
  <2>2. QED
    BY <1>7, <2>1 DEF ProfileFails, TypeInv, Progress
<1>8. CASE AnswerFromDirectory
  <2>1. dialog \in [phase : {"graph"}, who : User, profile : BOOLEAN, groups : Entries]
    BY <1>8, DialogFacts DEF AnswerFromDirectory
  <2>2. dialog.groups \in Held
    BY <1>8, <2>1 DEF AnswerFromDirectory, Entries, Absent
  <2>3. dialog' \in Dialogs
    BY <1>8, <2>1, <2>2 DEF AnswerFromDirectory, Dialogs
  <2>4. QED
    BY <1>8, <2>3 DEF AnswerFromDirectory, TypeInv, Progress
<1>9. CASE ReadPage
  <2>1. read \in Readings
    BY <1>9, ReadingFacts DEF ReadPage
  <2>. DEFINE g == Min(Ahead)
  <2>2. Ahead \in SUBSET Nat
    BY <2>1, OrgAssumption DEF Ahead, Readings, TypeInv
  <2>3. g \in Ahead /\ \A h \in Ahead : g <= h
    BY <1>9, <2>2, LeastIsMin DEF ReadPage
  <2>4. read' = [read EXCEPT !.list = @ \cup {g}, !.next = g + 1]
    BY <1>9 DEF ReadPage
  <2>. HIDE DEF g
  <2>5. g \in Nat /\ g \in Group /\ g \in member[read.who] /\ g >= read.next
    BY <2>1, <2>2, <2>3 DEF Ahead, Readings, TypeInv
  <2>6. read' \in Readings
    <3>1. read.list \cup {g} \in SUBSET Group /\ g + 1 \in Nat
      BY <2>1, <2>5 DEF Readings
    <3>2. QED
      BY <2>1, <2>4, <3>1 DEF Readings
  <2>7. /\ read'.who = read.who /\ read'.always = read.always /\ read'.ever = read.ever
        /\ read'.list = read.list \cup {g} /\ read'.next = g + 1
    BY <2>1, <2>4 DEF Readings
  <2>8. ASSUME NEW h \in read.always, h < g + 1
        PROVE  h \in read.list \cup {g}
    <3>1. h \in member[read.who] /\ h \in Nat
      BY <1>9, <2>1, OrgAssumption DEF ReadPage, Progress, Readings
    <3>2. CASE h < read.next
      BY <1>9, <3>2 DEF ReadPage, Progress
    <3>3. CASE h >= read.next
      BY <2>3, <2>5, <2>8, <3>1, <3>3 DEF Ahead
    <3>4. QED
      BY <2>1, <3>1, <3>2, <3>3 DEF Readings
  <2>9. Progress'
    <3>1. /\ read.always \subseteq member[read.who]
          /\ member[read.who] \subseteq read.ever
          /\ read.list \subseteq read.ever
      BY <1>9 DEF ReadPage, Progress
    <3>2. member' = member
      BY <1>9 DEF ReadPage
    <3>3. QED
      BY <2>5, <2>7, <2>8, <3>1, <3>2 DEF Progress
  <2>10. QED
    BY <1>9, <2>6, <2>9 DEF ReadPage, TypeInv
<1>10. CASE LastPage
  <2>1. Entry \in Held
    BY <1>10, EndedReading DEF LastPage
  <2>2. dialog' \in Dialogs
    BY <1>10, <2>1, DialogFacts DEF LastPage, Delivered, Waiting, TypeInv, Dialogs, Entries
  <2>3. cache' \in [User -> Entries]
    BY <1>10, <2>1 DEF LastPage, Delivered, TypeInv, Entries
  <2>4. QED
    BY <1>10, <2>2, <2>3 DEF LastPage, Delivered, TypeInv, Progress
<1>11. CASE PageFails
  <2>1. dialog' \in Dialogs
    BY <1>11, DialogFacts DEF PageFails, Waiting, Stored, TypeInv, Dialogs
  <2>2. QED
    BY <1>11, <2>1 DEF PageFails, TypeInv, Progress
<1>12. ASSUME NEW u \in User, Expire(u)
       PROVE  ListInv'
  <2>1. cache' \in [User -> Entries]
    BY <1>12 DEF Expire, TypeInv, Entries
  <2>2. QED
    BY <1>12, <2>1 DEF Expire, TypeInv, Progress
<1>13. ASSUME NEW u \in People, NEW m \in People \cup {Nobody}, Move(u, m)
       PROVE  ListInv'
  <2>1. lines' \in Charts
    BY <1>13, ChartMoves DEF Move, TypeInv, People
  <2>2. QED
    BY <1>13, <2>1 DEF Move, TypeInv, Progress
<1>14. ASSUME NEW g \in Group, Regroup(g)
       PROVE  ListInv'
  <2>1. read \in Readings /\ read.who \in User
    BY <1>14, ReadingFacts DEF Regroup, Readings
  <2>2. member' \in [User -> SUBSET Group]
    BY <1>14, <2>1 DEF Regroup, TypeInv
  <2>3. read' \in Readings
    BY <1>14, <2>1 DEF Regroup, Readings
  <2>4. Progress'
    BY <1>14, <2>1 DEF Regroup, Progress, Readings, TypeInv
  <2>5. QED
    BY <1>14, <2>2, <2>3, <2>4 DEF Regroup, TypeInv
<1>15. CASE UNCHANGED vars
  BY <1>15 DEF vars, TypeInv, Progress
<1>16. QED
  BY <1>1, <1>2, <1>3, <1>4, <1>5, <1>6, <1>7, <1>8, <1>9, <1>10, <1>11, <1>12, <1>13, <1>14,
     <1>15 DEF Next

\* Every behaviour keeps the types and the progress of the reading.
THEOREM Invariance == Spec => []ListInv
<1>1. Init => ListInv
  BY ListsBegin
<1>2. ListInv /\ [Next]_vars => ListInv'
  BY ListsGoOn
<1>3. QED
  BY <1>1, <1>2, PTL DEF Spec

\* No list of groups that is cached or shown as the directory's misses a group the
\* person was in all the time, or has one the person was never in.
THEOREM WholeLists == Spec => []NoHalfLists
<1>1. ASSUME ListInv
      PROVE  NoHalfLists
  <2>1. ASSUME NEW u \in User, cache[u].held
        PROVE  Honest(cache[u])
    <3>1. cache[u] \in Entries
      BY <1>1 DEF ListInv, TypeInv
    <3>2. cache[u] \in Held
      BY <2>1, <3>1 DEF Entries, Absent
    <3>3. QED
      BY <3>2 DEF Held
  <2>2. dialog.phase = "shown" /\ dialog.source = "directory" => Honest(dialog.groups)
    BY <1>1, DialogFacts DEF ListInv, Held
  <2>3. QED
    BY <2>1, <2>2 DEF NoHalfLists
<1>2. QED
  BY <1>1, Invariance, PTL

-----------------------------------------------------------------------------
(* Walks: what the recursive definitions of the model stand for. *)

\* The first n applications of a function.
Walks(S, step, start, n) ==
    {f \in [0 .. n -> S] : f[0] = start /\ \A d \in 1 .. n : f[d] = step[f[d - 1]]}

\* A function can be applied again and again for as long as one likes.
LEMMA Iteration ==
    ASSUME NEW S, NEW step \in [S -> S], NEW start \in S, NEW n \in Nat
    PROVE  Walks(S, step, start, n) # {}
<1>. DEFINE Walk(m, f) == /\ f \in [0 .. m -> S]
                          /\ f[0] = start
                          /\ \A d \in 1 .. m : f[d] = step[f[d - 1]]
            Short == {m \in Nat : ~ \E f : Walk(m, f)}
<1>1. CASE Short = {}
  BY <1>1 DEF Walks
<1>2. CASE Short # {}
  <2>1. PICK m \in Short : \A k \in Short : m <= k
    BY <1>2, LeastMember
  <2>2. m # 0
    <3>1. Walk(0, [d \in 0 .. 0 |-> start])
      OBVIOUS
    <3>2. QED
      BY <2>1, <3>1
  <2>3. m \in Nat /\ m - 1 \in Nat /\ m - 1 \notin Short
    <3>1. m \in Nat /\ m - 1 \in Nat /\ ~(m <= m - 1)
      BY <2>1, <2>2
    <3>2. QED
      BY <2>1, <3>1
  <2>4. PICK f : Walk(m - 1, f)
    BY <2>3
  <2>. DEFINE longer == [d \in 0 .. m |-> IF d < m THEN f[d] ELSE step[f[m - 1]]]
  <2>5. f[m - 1] \in S
    BY <2>3, <2>4
  <2>6. longer \in [0 .. m -> S]
    BY <2>1, <2>3, <2>4, <2>5
  <2>7. \A d \in 0 .. m : longer[d] = IF d < m THEN f[d] ELSE step[f[m - 1]]
    OBVIOUS
  <2>. HIDE DEF longer
  <2>8. longer[0] = start
    BY <2>1, <2>2, <2>4, <2>7
  <2>9. ASSUME NEW d \in 1 .. m
        PROVE  longer[d] = step[longer[d - 1]]
    <3>1. d - 1 \in 0 .. m /\ d \in 0 .. m /\ d - 1 < m
      BY <2>1
    <3>2. longer[d - 1] = f[d - 1]
      BY <2>7, <3>1
    <3>3. CASE d = m
      BY <2>7, <3>1, <3>2, <3>3
    <3>4. CASE d < m
      BY <2>1, <2>4, <2>7, <3>1, <3>2, <3>4
    <3>5. QED
      BY <2>1, <3>3, <3>4
  <2>10. Walk(m, longer)
    BY <2>6, <2>8, <2>9
  <2>11. QED
    BY <2>1, <2>10
<1>3. QED
  BY <1>1, <1>2

\* The levels of a chart, and the line of managers above somebody.
LevelsOf(chart) ==
    LET level[d \in 0 .. MaxDepth] ==
            IF d = 0 THEN {Me} ELSE {u \in DOMAIN chart : chart[u] \in level[d - 1]}
    IN  level

LineOf(chart, u, n) ==
    LET up[k \in 0 .. n] == IF k = 0 THEN u
                            ELSE IF up[k - 1] \in DOMAIN chart THEN chart[up[k - 1]]
                            ELSE Nobody
    IN  up

\* The walk of the model is the one of the chart of the moment.
LEMMA LevelsOfNow == Levels(Me) = LevelsOf(lines)
BY DEF Levels, LevelsOf, People

LEMMA LinesOfTrees ==
    \A t, u, n : Line(t, u, n) = LineOf(t.lines, u, n)
BY DEF Line, LineOf

\* A level holds those whose manager is in the level above.
LEMMA LevelFacts ==
    ASSUME NEW chart \in Charts
    PROVE  /\ LevelsOf(chart) \in [0 .. MaxDepth -> SUBSET DOMAIN chart]
           /\ LevelsOf(chart)[0] = {Me}
           /\ \A d \in 1 .. MaxDepth :
                 LevelsOf(chart)[d] = {u \in DOMAIN chart : chart[u] \in LevelsOf(chart)[d - 1]}
<1>. DEFINE S == SUBSET DOMAIN chart
            step == [A \in S |-> {u \in DOMAIN chart : chart[u] \in A}]
            Def(f) == f = [d \in 0 .. MaxDepth |->
                              IF d = 0 THEN {Me} ELSE {u \in DOMAIN chart : chart[u] \in f[d - 1]}]
<1>1. step \in [S -> S] /\ {Me} \in S /\ MaxDepth \in Nat
  BY ChartFacts, OrgAssumption
<1>2. PICK f \in Walks(S, step, {Me}, MaxDepth) : TRUE
  <2>. HIDE DEF S, step
  <2>1. QED
    BY <1>1, Iteration
<1>2a. f \in [0 .. MaxDepth -> S] /\ f[0] = {Me} /\ \A d \in 1 .. MaxDepth : f[d] = step[f[d - 1]]
  BY <1>2 DEF Walks
<1>3. ASSUME NEW d \in 1 .. MaxDepth
      PROVE  f[d] = {u \in DOMAIN chart : chart[u] \in f[d - 1]}
  <2>1. d - 1 \in 0 .. MaxDepth
    BY <1>1
  <2>2. f[d - 1] \in S
    BY <1>2a, <2>1
  <2>3. QED
    BY <1>2a, <2>2
<1>4. Def(f)
  <2>1. \A d \in 0 .. MaxDepth : f[d] = IF d = 0 THEN {Me}
                                        ELSE {u \in DOMAIN chart : chart[u] \in f[d - 1]}
    BY <1>1, <1>2a, <1>3
  <2>2. QED
    BY <1>2a, <2>1
<1>5. Def(LevelsOf(chart))
  <2>1. LevelsOf(chart) = CHOOSE g : Def(g)
    BY DEF LevelsOf
  <2>. HIDE DEF Def
  <2>2. QED
    BY <1>4, <2>1
<1>6. ASSUME NEW g, Def(g)
      PROVE  /\ \A d \in 0 .. MaxDepth : g[d] = IF d = 0 THEN {Me}
                                             ELSE {u \in DOMAIN chart : chart[u] \in g[d - 1]}
             /\ g = [d \in 0 .. MaxDepth |-> g[d]]
  BY <1>6
<1>. DEFINE level == LevelsOf(chart)
<1>. HIDE DEF level, Def
<1>7. /\ \A d \in 0 .. MaxDepth : level[d] = IF d = 0 THEN {Me}
                                             ELSE {u \in DOMAIN chart : chart[u] \in level[d - 1]}
      /\ level = [d \in 0 .. MaxDepth |-> level[d]]
  BY <1>5, <1>6 DEF level
<1>8. level[0] = {Me}
  BY <1>1, <1>7
<1>9. \A d \in 1 .. MaxDepth : level[d] = {u \in DOMAIN chart : chart[u] \in level[d - 1]}
  BY <1>1, <1>7
<1>10. \A d \in 0 .. MaxDepth : level[d] \in SUBSET DOMAIN chart
  BY <1>1, <1>7, ChartFacts
<1>11. QED
  BY <1>7, <1>8, <1>9, <1>10 DEF level

\* First the person, then one manager after the other.
Climbs(chart, u, n, line) ==
    /\ line \in [0 .. n -> User \cup {Nobody}]
    /\ line[0] = u
    /\ \A k \in 1 .. n : line[k] = IF line[k - 1] \in DOMAIN chart
                                   THEN chart[line[k - 1]] ELSE Nobody

\* The line above somebody is the way up.
LEMMA LineFacts ==
    ASSUME NEW chart \in Charts, NEW u \in User \cup {Nobody}, NEW n \in Nat
    PROVE  Climbs(chart, u, n, LineOf(chart, u, n))
<1>. DEFINE S == User \cup {Nobody}
            step == [v \in S |-> IF v \in DOMAIN chart THEN chart[v] ELSE Nobody]
            Def(f) == f = [k \in 0 .. n |-> IF k = 0 THEN u
                                            ELSE IF f[k - 1] \in DOMAIN chart THEN chart[f[k - 1]]
                                            ELSE Nobody]
<1>1. step \in [S -> S] /\ u \in S
  BY ChartFacts
<1>2. PICK f \in Walks(S, step, u, n) : TRUE
  <2>. HIDE DEF S, step
  <2>1. QED
    BY <1>1, Iteration
<1>2a. f \in [0 .. n -> S] /\ f[0] = u /\ \A d \in 1 .. n : f[d] = step[f[d - 1]]
  BY <1>2 DEF Walks
<1>3. ASSUME NEW k \in 1 .. n
      PROVE  f[k] = IF f[k - 1] \in DOMAIN chart THEN chart[f[k - 1]] ELSE Nobody
  <2>1. k - 1 \in 0 .. n
    OBVIOUS
  <2>2. f[k - 1] \in S
    BY <1>2a, <2>1
  <2>3. QED
    BY <1>2a, <2>2
<1>4. Def(f)
  <2>1. \A k \in 0 .. n : f[k] = IF k = 0 THEN u
                                 ELSE IF f[k - 1] \in DOMAIN chart THEN chart[f[k - 1]]
                                 ELSE Nobody
    BY <1>2a, <1>3
  <2>2. QED
    BY <1>2a, <2>1
<1>5. Def(LineOf(chart, u, n))
  <2>1. LineOf(chart, u, n) = CHOOSE g : Def(g)
    BY DEF LineOf
  <2>. HIDE DEF Def
  <2>2. QED
    BY <1>4, <2>1
<1>. DEFINE line == LineOf(chart, u, n)
<1>6. /\ \A k \in 0 .. n : line[k] = IF k = 0 THEN u
                                     ELSE IF line[k - 1] \in DOMAIN chart THEN chart[line[k - 1]]
                                     ELSE Nobody
      /\ line = [k \in 0 .. n |-> line[k]]
  <2>1. ASSUME NEW g, Def(g)
        PROVE  /\ \A k \in 0 .. n : g[k] = IF k = 0 THEN u
                                           ELSE IF g[k - 1] \in DOMAIN chart THEN chart[g[k - 1]]
                                           ELSE Nobody
               /\ g = [k \in 0 .. n |-> g[k]]
    BY <2>1
  <2>. HIDE DEF line, Def
  <2>2. QED
    BY <1>5, <2>1 DEF line
<1>. HIDE DEF line
<1>7. line[0] = u
  BY <1>6
<1>8. ASSUME NEW k \in 1 .. n
      PROVE  line[k] = IF line[k - 1] \in DOMAIN chart THEN chart[line[k - 1]] ELSE Nobody
  <2>1. k \in 0 .. n /\ k # 0
    OBVIOUS
  <2>2. QED
    BY <1>6, <2>1
<1>9. \A k \in 0 .. n : line[k] \in S
  <2>1. CASE n = 0
    BY <1>7, <2>1
  <2>2. \A k \in 1 .. n : line[k] \in S
    BY <1>8, ChartFacts
  <2>3. QED
    BY <1>7, <2>2
<1>10. QED
  BY <1>6, <1>7, <1>8, <1>9 DEF line, Climbs

-----------------------------------------------------------------------------
(* Down and up. *)

\* A step of a line is a step of the line that begins with the manager.
LEMMA LineShifts ==
    ASSUME NEW chart \in Charts, NEW u \in DOMAIN chart, NEW n \in Nat
    PROVE  \A k \in 1 .. n : LineOf(chart, u, n)[k] = LineOf(chart, chart[u], n)[k - 1]
<1>. DEFINE line == LineOf(chart, u, n)
            from == LineOf(chart, chart[u], n)
            Differ == {k \in Nat : k \in 1 .. n /\ line[k] # from[k - 1]}
<1>1. u \in User /\ chart[u] \in User \cup {Nobody}
  BY ChartFacts
<1>2. /\ line[0] = u /\ from[0] = chart[u]
      /\ \A k \in 1 .. n : line[k] = IF line[k - 1] \in DOMAIN chart
                                     THEN chart[line[k - 1]] ELSE Nobody
      /\ \A k \in 1 .. n : from[k] = IF from[k - 1] \in DOMAIN chart
                                     THEN chart[from[k - 1]] ELSE Nobody
  <2>1. u \in User \cup {Nobody}
    BY <1>1
  <2>2. Climbs(chart, u, n, line) /\ Climbs(chart, chart[u], n, from)
    BY <1>1, <2>1, LineFacts
  <2>. HIDE DEF line, from
  <2>3. QED
    BY <2>2 DEF Climbs
<1>. HIDE DEF line, from
<1>3. CASE Differ = {}
  BY <1>3 DEF line, from
<1>4. CASE Differ # {}
  <2>1. PICK k \in Differ : \A j \in Differ : k <= j
    BY <1>4, LeastMember
  <2>2. CASE k = 1
    BY <1>2, <2>1, <2>2
  <2>3. CASE k > 1
    <3>1. k - 1 \in 1 .. n /\ k \in 1 .. n /\ k - 1 \in Nat /\ ~(k <= k - 1)
      BY <2>1, <2>3
    <3>2. line[k - 1] = from[k - 1 - 1]
      BY <2>1, <3>1
    <3>3. line[k] = from[k - 1]
      BY <1>2, <3>1, <3>2
    <3>4. QED
      BY <2>1, <3>3
  <2>4. QED
    BY <2>1, <2>2, <2>3
<1>5. QED
  BY <1>3, <1>4

\* There is nobody above nobody.
LEMMA NobodysLine ==
    ASSUME NEW chart \in Charts, NEW n \in Nat
    PROVE  \A k \in 0 .. n : LineOf(chart, Nobody, n)[k] = Nobody
<1>. DEFINE line == LineOf(chart, Nobody, n)
            Some == {k \in Nat : k \in 0 .. n /\ line[k] # Nobody}
<1>1. /\ line[0] = Nobody /\ Nobody \notin DOMAIN chart
      /\ \A k \in 1 .. n : line[k] = IF line[k - 1] \in DOMAIN chart
                                     THEN chart[line[k - 1]] ELSE Nobody
  <2>1. Nobody \in User \cup {Nobody}
    OBVIOUS
  <2>2. Nobody \notin DOMAIN chart
    BY ChartFacts, OrgAssumption
  <2>3. QED
    BY <2>1, <2>2, LineFacts DEF Climbs
<1>. HIDE DEF line
<1>2. CASE Some = {}
  BY <1>2 DEF line
<1>3. CASE Some # {}
  <2>1. PICK k \in Some : \A j \in Some : k <= j
    BY <1>3, LeastMember
  <2>2. k # 0
    BY <1>1, <2>1
  <2>3. k - 1 \in 0 .. n /\ k \in 1 .. n /\ k - 1 \in Nat /\ ~(k <= k - 1)
    BY <2>1, <2>2
  <2>4. line[k - 1] = Nobody
    BY <2>1, <2>3
  <2>5. line[k] = Nobody
    BY <1>1, <2>3, <2>4
  <2>6. QED
    BY <2>1, <2>5
<1>4. QED
  BY <1>2, <1>3

\* Who is in a level is as many steps below the caller.
LEMMA LevelsAreLines ==
    ASSUME NEW chart \in Charts, NEW n \in Nat
    PROVE  \A d \in 0 .. MaxDepth : d <= n =>
              \A u \in DOMAIN chart : u \in LevelsOf(chart)[d] <=> LineOf(chart, u, n)[d] = Me
<1>. DEFINE level == LevelsOf(chart)
            Agree(d) == \A u \in DOMAIN chart : u \in level[d] <=> LineOf(chart, u, n)[d] = Me
            Differ == {d \in Nat : d \in 0 .. MaxDepth /\ d <= n /\ ~Agree(d)}
<1>1. CASE Differ = {}
  BY <1>1, OrgAssumption
<1>2. CASE Differ # {}
  <2>1. PICK d \in Differ : \A j \in Differ : d <= j
    BY <1>2, LeastMember
  <2>2. d \in Nat /\ d \in 0 .. MaxDepth /\ d <= n /\ ~Agree(d)
    BY <2>1
  <2>3. CASE d = 0
    <3>1. \A u \in DOMAIN chart : LineOf(chart, u, n)[0] = u
      BY ChartFacts, LineFacts DEF Climbs
    <3>2. level[0] = {Me}
      BY LevelFacts
    <3>3. QED
      BY <2>2, <2>3, <3>1, <3>2
  <2>4. CASE d > 0
    <3>1. d - 1 \in Nat /\ d - 1 \in 0 .. MaxDepth /\ d - 1 <= n /\ ~(d <= d - 1) /\ d \in 1 .. n
          /\ d \in 1 .. MaxDepth
      BY <2>2, <2>4, OrgAssumption
    <3>2. Agree(d - 1)
      BY <2>1, <3>1
    <3>3. level[d] = {u \in DOMAIN chart : chart[u] \in level[d - 1]}
      BY <3>1, LevelFacts
    <3>4. ASSUME NEW u \in DOMAIN chart
          PROVE  u \in level[d] <=> LineOf(chart, u, n)[d] = Me
      <4>1. LineOf(chart, u, n)[d] = LineOf(chart, chart[u], n)[d - 1]
        BY <3>1, LineShifts
      <4>2. CASE chart[u] \in DOMAIN chart
        BY <3>2, <3>3, <4>1, <4>2
      <4>3. CASE chart[u] = Nobody
        <5>1. chart[u] \notin level[d - 1]
          BY <3>1, <4>3, LevelFacts, ChartFacts, OrgAssumption
        <5>2. LineOf(chart, Nobody, n)[d - 1] # Me
          <6>1. d - 1 \in 0 .. n
            BY <3>1
          <6>2. LineOf(chart, Nobody, n)[d - 1] = Nobody
            BY <6>1, NobodysLine
          <6>3. QED
            BY <6>2, OrgAssumption
        <5>3. QED
          BY <3>3, <4>1, <4>3, <5>1, <5>2
      <4>4. QED
        BY <4>2, <4>3, ChartFacts
    <3>5. QED
      BY <2>2, <3>4
  <2>5. QED
    BY <2>2, <2>3, <2>4
<1>3. QED
  BY <1>1, <1>2

-----------------------------------------------------------------------------
(* Rows: a person is in as many rows of the recursive query as levels. *)

RowsOf(level, D) == {r \in D \X User : r[2] \in level[r[1]]}

Sets == [0 .. MaxDepth -> SUBSET User]

LEMMA RowsAreFinite ==
    ASSUME NEW level, NEW D, IsFiniteSet(D)
    PROVE  IsFiniteSet(RowsOf(level, D)) /\ Cardinality(RowsOf(level, D)) \in Nat
<1>1. IsFiniteSet(D \X User)
  BY OrgAssumption, FS_Product
<1>2. RowsOf(level, D) \in SUBSET (D \X User)
  BY DEF RowsOf
<1>3. IsFiniteSet(RowsOf(level, D))
  BY <1>1, <1>2, FS_Subset
<1>4. QED
  BY <1>3, FS_CardinalityType

\* The rows of one level more.
LEMMA RowsAddUp ==
    ASSUME NEW level \in Sets, NEW D \in SUBSET (0 .. MaxDepth), NEW d \in D
    PROVE  Cardinality(RowsOf(level, D))
              = Cardinality(level[d]) + Cardinality(RowsOf(level, D \ {d}))
<1>. DEFINE here == RowsOf(level, {d})
            rest == RowsOf(level, D \ {d})
            all == RowsOf(level, D)
<1>1. IsFiniteSet(D)
  <2>1. 0 \in Int /\ MaxDepth \in Int
    BY OrgAssumption
  <2>2. IsFiniteSet(0 .. MaxDepth)
    BY <2>1, FS_Interval
  <2>3. QED
    BY <2>2, FS_Subset
<1>2. IsFiniteSet({d}) /\ IsFiniteSet(D \ {d})
  BY <1>1, FS_Singleton, FS_RemoveElement
<1>3. IsFiniteSet(here) /\ IsFiniteSet(rest) /\ Cardinality(here) \in Nat
      /\ Cardinality(rest) \in Nat
  BY <1>2, RowsAreFinite
<1>4. here \cup rest = all /\ here \cap rest = {}
  BY DEF RowsOf
<1>5. Cardinality(here) = Cardinality(level[d])
  <2>1. level[d] \subseteq User
    BY DEF Sets
  <2>. DEFINE f == [r \in here |-> r[2]]
  <2>2. f \in [here -> level[d]]
    BY DEF RowsOf
  <2>3. \A a, b \in here : f[a] = f[b] => a = b
    BY DEF RowsOf
  <2>4. \A u \in level[d] : \E r \in here : f[r] = u
    <3>1. ASSUME NEW u \in level[d]
          PROVE  <<d, u>> \in here /\ f[<<d, u>>] = u
      BY <2>1 DEF RowsOf
    <3>2. QED
      BY <3>1
  <2>5. f \in Bijection(here, level[d])
    <3>. HIDE DEF f, here
    <3>1. QED
      BY <2>2, <2>3, <2>4, Fun_IsBij
  <2>6. ExistsBijection(here, level[d])
    BY <2>5 DEF ExistsBijection
  <2>7. QED
    BY <1>3, <2>6, FS_Bijection
<1>6. QED
  <2>. HIDE DEF here, rest, all
  <2>1. Cardinality(here \cup rest)
           = Cardinality(here) + Cardinality(rest) - Cardinality(here \cap rest)
    BY <1>3, FS_Union
  <2>2. Cardinality(here \cap rest) = 0
    BY <1>4, FS_EmptySet
  <2>2a. Cardinality(here \cup rest) = Cardinality(all)
    BY <1>4, Zenon
  <2>3. Cardinality(all) = Cardinality(here) + Cardinality(rest)
    BY <1>3, <2>1, <2>2, <2>2a
  <2>4. QED
    BY <1>5, <2>3 DEF all, rest

\* The sum that the limit is compared with counts the rows of whole levels.
LEMMA RowsAboveCounts ==
    ASSUME NEW level \in Sets, NEW d \in 0 .. MaxDepth + 1
    PROVE  RowsAbove(level, d) = Cardinality(RowsOf(level, 0 .. d - 1))
<1>. DEFINE T == 0 .. d - 1
            Count(s) == Cardinality(RowsOf(level, s))
            Pick(s) == CHOOSE i \in s : TRUE
            Def(iter) == iter = [s \in SUBSET T |->
                            IF s = {} THEN 0
                            ELSE Cardinality(level[Pick(s)]) + iter[s \ {Pick(s)}]]
            iter == CHOOSE f : Def(f)
<1>1. RowsAbove(level, d) = iter[T]
  BY DEF RowsAbove, MapThenSumSet, MapThenFoldSet
<1>2. /\ T \subseteq 0 .. MaxDepth /\ IsFiniteSet(T) /\ MaxDepth \in Nat
  BY OrgAssumption, FS_Interval
<1>3. \A s \in SUBSET T : IsFiniteSet(s) /\ Cardinality(s) \in Nat
  BY <1>2, FS_Subset, FS_CardinalityType
<1>4. Count({}) = 0
  <2>1. RowsOf(level, {}) = {}
    BY DEF RowsOf
  <2>2. QED
    BY <2>1, FS_EmptySet
<1>5. ASSUME NEW s \in SUBSET T, s # {}
      PROVE  /\ Pick(s) \in s
             /\ Count(s) = Cardinality(level[Pick(s)]) + Count(s \ {Pick(s)})
  <2>1. Pick(s) \in s
    BY <1>5
  <2>. HIDE DEF Pick
  <2>2. QED
    BY <1>2, <2>1, RowsAddUp
<1>. HIDE DEF Count, Pick, T
<1>6. Def([s \in SUBSET T |-> Count(s)])
  <2>. DEFINE g == [s \in SUBSET T |-> Count(s)]
  <2>1. \A s \in SUBSET T : g[s] = IF s = {} THEN 0
                                   ELSE Cardinality(level[Pick(s)]) + g[s \ {Pick(s)}]
    BY <1>4, <1>5
  <2>2. g = [s \in SUBSET T |-> g[s]]
    OBVIOUS
  <2>. HIDE DEF g
  <2>3. g = [s \in SUBSET T |-> IF s = {} THEN 0
                                ELSE Cardinality(level[Pick(s)]) + g[s \ {Pick(s)}]]
    BY <2>1, <2>2
  <2>4. QED
    BY <2>3 DEF g
<1>7. Def(iter)
  <2>. HIDE DEF Def
  <2>1. QED
    BY <1>6
<1>8. \A s \in SUBSET T : iter[s] = IF s = {} THEN 0
                                    ELSE Cardinality(level[Pick(s)]) + iter[s \ {Pick(s)}]
  <2>1. ASSUME NEW f, Def(f)
        PROVE  \A s \in SUBSET T : f[s] = IF s = {} THEN 0
                                          ELSE Cardinality(level[Pick(s)]) + f[s \ {Pick(s)}]
    BY <2>1
  <2>. HIDE DEF Def, iter
  <2>2. QED
    BY <1>7, <2>1
<1>. HIDE DEF iter
<1>. DEFINE Wrong == {n \in Nat : \E s \in SUBSET T : Cardinality(s) = n /\ iter[s] # Count(s)}
<1>9. CASE Wrong = {}
  <2>1. Cardinality(T) \in Nat /\ T \in SUBSET T
    BY <1>3
  <2>2. iter[T] = Count(T)
    BY <1>9, <2>1
  <2>3. QED
    BY <1>1, <2>2 DEF Count, T
<1>10. CASE Wrong # {}
  <2>1. PICK n \in Wrong : \A m \in Wrong : n <= m
    BY <1>10, LeastMember
  <2>2. PICK s \in SUBSET T : Cardinality(s) = n /\ iter[s] # Count(s)
    BY <2>1
  <2>3. CASE s = {}
    BY <1>4, <1>8, <2>2, <2>3
  <2>4. CASE s # {}
    <3>1. Pick(s) \in s /\ s \ {Pick(s)} \in SUBSET T /\ IsFiniteSet(s)
      BY <1>3, <1>5, <2>4
    <3>2. Cardinality(s \ {Pick(s)}) = n - 1 /\ Cardinality(s \ {Pick(s)}) \in Nat
      BY <1>3, <2>2, <3>1, FS_RemoveElement
    <3>3. n - 1 \notin Wrong
      BY <2>1, <3>2
    <3>4. iter[s \ {Pick(s)}] = Count(s \ {Pick(s)})
      BY <3>1, <3>2, <3>3
    <3>5. QED
      BY <1>5, <1>8, <2>2, <2>4, <3>4
  <2>5. QED
    BY <2>3, <2>4
<1>11. QED
  BY <1>9, <1>10

\* Who is in the first levels, n included.
Walked(level, n) == UNION {level[i] : i \in 0 .. n}

Apart(level, n) == \A i, j \in 0 .. n : i # j => level[i] \cap level[j] = {}

\* People are as many as rows, or fewer when somebody is in several.
LEMMA WalkedAreFewer ==
    ASSUME NEW level \in Sets, NEW n \in -1 .. MaxDepth
    PROVE  /\ IsFiniteSet(Walked(level, n))
           /\ Cardinality(Walked(level, n)) \in Nat
           /\ Cardinality(Walked(level, n)) <= Cardinality(RowsOf(level, 0 .. n))
           /\ Apart(level, n) <=> Cardinality(Walked(level, n)) = Cardinality(RowsOf(level, 0 .. n))
<1>. DEFINE rows == RowsOf(level, 0 .. n)
            people == Walked(level, n)
            f == [r \in rows |-> r[2]]
<1>1. MaxDepth \in Nat /\ n \in Int /\ \A i \in 0 .. n : i \in 0 .. MaxDepth
  BY OrgAssumption
<1>2. IsFiniteSet(rows)
  <2>1. 0 \in Int /\ IsFiniteSet(0 .. n)
    BY <1>1, FS_Interval
  <2>2. QED
    BY <2>1, RowsAreFinite
<1>3. f \in [rows -> people]
  <2>1. ASSUME NEW r \in rows
        PROVE  r[2] \in people
    BY DEF RowsOf, Walked
  <2>2. QED
    BY <2>1
<1>4. ASSUME NEW u \in people
      PROVE  \E r \in rows : f[r] = u
  <2>1. PICK i \in 0 .. n : u \in level[i]
    BY DEF Walked
  <2>2. u \in User
    BY <1>1, <2>1 DEF Sets
  <2>3. <<i, u>> \in rows
    BY <2>1, <2>2 DEF RowsOf
  <2>4. QED
    BY <2>3
<1>5. f \in Surjection(rows, people)
  <2>. HIDE DEF f, rows, people
  <2>1. QED
    BY <1>3, <1>4, Fun_IsSurj
<1>6. /\ IsFiniteSet(people)
      /\ Cardinality(people) <= Cardinality(rows)
      /\ Cardinality(people) = Cardinality(rows) <=> f \in Injection(rows, people)
  <2>. HIDE DEF f, rows, people
  <2>1. QED
    BY <1>2, <1>5, FS_Surjection
<1>7. ASSUME Apart(level, n)
      PROVE  f \in Injection(rows, people)
  <2>1. ASSUME NEW a \in rows, NEW b \in rows, f[a] = f[b]
        PROVE  a = b
    <3>1. /\ a \in (0 .. n) \X User /\ b \in (0 .. n) \X User
          /\ a[2] \in level[a[1]] /\ b[2] \in level[b[1]] /\ a[2] = b[2]
      BY <2>1 DEF RowsOf
    <3>2. a[1] = b[1]
      BY <1>1, <1>7, <3>1 DEF Apart
    <3>3. QED
      BY <3>1, <3>2
  <2>. HIDE DEF f, rows, people
  <2>2. QED
    BY <1>3, <2>1, Fun_IsInj
<1>8. ASSUME f \in Injection(rows, people)
      PROVE  Apart(level, n)
  <2>1. SUFFICES ASSUME NEW i \in 0 .. n, NEW j \in 0 .. n, NEW u \in level[i] \cap level[j]
                 PROVE  i = j
    BY DEF Apart
  <2>2. u \in User
    BY <1>1 DEF Sets
  <2>3. <<i, u>> \in rows /\ <<j, u>> \in rows
    BY <2>2 DEF RowsOf
  <2>4. f[<<i, u>>] = f[<<j, u>>]
    BY <2>3
  <2>. HIDE DEF f, rows, people
  <2>5. <<i, u>> = <<j, u>>
    BY <1>8, <2>3, <2>4 DEF Injection, IsInjective
  <2>6. QED
    BY <2>5
<1>9. Cardinality(people) \in Nat
  BY <1>6, FS_CardinalityType
<1>10. QED
  BY <1>6, <1>7, <1>8, <1>9

-----------------------------------------------------------------------------
(* What the recursive query answers. *)

\* The rows a limit leaves: no more people than the limit, the caller among them; they
\* come from whole levels and the one below; and they hold all who are walked when the
\* limit is large enough for the rows, or is not reached and nobody is met twice.
LEMMA FirstRowsFacts ==
    ASSUME NEW level \in Sets, level[0] = {Me},
           NEW depth \in 0 .. MaxDepth, NEW limit \in Nat,
           NEW rows \in FirstRows(level, depth, limit)
    PROVE  LET unique == rows.above \cup rows.last
           IN  /\ IsFiniteSet(unique) /\ Cardinality(unique) \in Nat
               /\ unique \subseteq Walked(level, depth)
               /\ Cardinality(unique) <= limit
               /\ Cardinality(unique) = limit => rows.above \cap rows.last = {}
               /\ Me \in rows.above \/ unique = {Me}
               /\ \E d \in 0 .. depth : /\ rows.above = Walked(level, d - 1)
                                       /\ rows.last \subseteq level[d]
               /\ Apart(level, depth) /\ Cardinality(unique) < limit
                     => unique = Walked(level, depth)
               /\ Cardinality(RowsOf(level, 0 .. depth)) <= limit
                     => unique = Walked(level, depth)
<1>. DEFINE R == Cardinality(RowsOf(level, 0 .. depth))
            size == Min({limit, RowsAbove(level, depth + 1)})
            A(d) == Cardinality(RowsOf(level, 0 .. d - 1))
<1>1. MaxDepth \in Nat /\ depth \in Nat /\ depth \in -1 .. MaxDepth
  BY OrgAssumption
<1>2. RowsAbove(level, depth + 1) = R
  <2>1. depth + 1 \in 0 .. MaxDepth + 1 /\ (depth + 1) - 1 = depth
    BY <1>1
  <2>2. QED
    BY <2>1, RowsAboveCounts
<1>3. PICK d \in 0 .. depth :
          /\ RowsAbove(level, d) < size
          /\ rows.above = Walked(level, d - 1)
          /\ rows.last \in kSubset(size - RowsAbove(level, d), level[d])
  <2>1. PICK d \in {i \in 0 .. depth : RowsAbove(level, i) < size} :
              \E part \in kSubset(size - RowsAbove(level, d), level[d]) :
                 rows = [above |-> UNION {level[i] : i \in 0 .. d - 1}, last |-> part]
    <3>. DEFINE D == {i \in 0 .. depth : RowsAbove(level, i) < size}
                G(d) == {[above |-> UNION {level[i] : i \in 0 .. d - 1}, last |-> part] :
                            part \in kSubset(size - RowsAbove(level, d), level[d])}
    <3>1. FirstRows(level, depth, limit) = UNION {G(d) : d \in D}
      BY Zenon DEF FirstRows
    <3>2. \E d \in D : rows \in G(d)
      <4>. HIDE DEF D, G
      <4>1. QED
        BY <3>1
    <3>3. QED
      BY <3>2, Zenon
  <2>2. QED
    BY <2>1 DEF Walked
<1>4. /\ d \in Nat /\ d \in 0 .. MaxDepth + 1 /\ d - 1 \in -1 .. MaxDepth /\ d \in 0 .. MaxDepth
      /\ \A i \in 0 .. d - 1 : i \in 0 .. depth /\ i \in 0 .. MaxDepth /\ i # d
  BY <1>1
<1>5. RowsAbove(level, d) = A(d)
  BY <1>4, RowsAboveCounts
<1>6. A(d) \in Nat /\ R \in Nat
  <2>1. IsFiniteSet(0 .. d - 1) /\ IsFiniteSet(0 .. depth)
    BY <1>1, <1>4, FS_Interval
  <2>2. QED
    BY <2>1, RowsAreFinite
<1>7. size \in {limit, R} /\ size <= limit /\ size <= R /\ size \in Nat
  <2>1. {limit, R} \in SUBSET Nat /\ {limit, R} # {}
    BY <1>6
  <2>. HIDE DEF R
  <2>2. size \in {limit, R} /\ \A x \in {limit, R} : size <= x
    BY <1>2, <2>1, LeastIsMin
  <2>3. QED
    BY <2>1, <2>2
<1>. DEFINE above == rows.above
            last == rows.last
            unique == above \cup last
<1>8. A(d) < size
  BY <1>3, <1>5
<1>9. last \subseteq level[d] /\ Cardinality(last) = size - A(d) /\ last \subseteq User
  BY <1>3, <1>4, <1>5 DEF kSubset, Sets
<1>10. above = Walked(level, d - 1)
  BY <1>3
<1>11. /\ IsFiniteSet(above) /\ Cardinality(above) \in Nat /\ Cardinality(above) <= A(d)
       /\ Apart(level, depth) => Cardinality(above) = A(d)
  <2>1. Apart(level, depth) => Apart(level, d - 1)
    BY <1>4 DEF Apart
  <2>2. QED
    BY <1>4, <1>10, <2>1, WalkedAreFewer
<1>12. IsFiniteSet(last)
  BY <1>9, OrgAssumption, FS_Subset
<1>. HIDE DEF R, size, A, above, last
<1>13. /\ IsFiniteSet(unique)
       /\ Cardinality(unique) = Cardinality(above) + Cardinality(last) - Cardinality(above \cap last)
  BY <1>11, <1>12, FS_Union
<1>14. /\ IsFiniteSet(above \cap last) /\ Cardinality(above \cap last) \in Nat
       /\ Cardinality(above \cap last) = 0 => above \cap last = {}
       /\ above \cap last = {} => Cardinality(above \cap last) = 0
  BY <1>11, FS_Intersection, FS_CardinalityType, FS_EmptySet
<1>15. Cardinality(unique) \in Nat
  BY <1>13, FS_CardinalityType
<1>16. Cardinality(unique) <= size
  BY <1>6, <1>7, <1>8, <1>9, <1>11, <1>13, <1>14, <1>15
<1>17. unique \subseteq Walked(level, depth)
  BY <1>4, <1>9, <1>10 DEF Walked
<1>18. Cardinality(unique) <= limit
  BY <1>7, <1>15, <1>16
<1>19. ASSUME Cardinality(unique) = limit
       PROVE  above \cap last = {}
  BY <1>6, <1>7, <1>8, <1>9, <1>11, <1>13, <1>14, <1>15, <1>19
<1>20. Me \in above \/ unique = {Me}
  <2>1. CASE d = 0
    <3>1. 0 .. d - 1 = {}
      BY <2>1
    <3>2. above = {} /\ last \subseteq {Me}
      BY <1>9, <1>10, <2>1, <3>1 DEF Walked
    <3>3. Cardinality(last) # 0
      BY <1>6, <1>7, <1>8, <1>9
    <3>4. last # {}
      BY <3>3, FS_EmptySet
    <3>5. QED
      BY <3>2, <3>4
  <2>2. CASE d > 0
    <3>1. 0 \in 0 .. d - 1
      BY <1>4, <2>2
    <3>2. Me \in level[0]
      OBVIOUS
    <3>3. QED
      BY <1>10, <3>1, <3>2 DEF Walked
  <2>3. QED
    BY <1>4, <2>1, <2>2
<1>21. ASSUME Apart(level, depth), Cardinality(unique) < limit
       PROVE  unique = Walked(level, depth)
  <2>1. above \cap last = {}
    BY <1>4, <1>9, <1>10, <1>21 DEF Apart, Walked
  <2>2. Cardinality(unique) = size
    BY <1>6, <1>7, <1>9, <1>11, <1>13, <1>14, <1>15, <1>21, <2>1
  <2>3. size = R
    BY <1>7, <1>21, <2>2
  <2>4. /\ IsFiniteSet(Walked(level, depth))
        /\ Cardinality(Walked(level, depth)) = R
    BY <1>1, <1>21, WalkedAreFewer DEF R
  <2>5. QED
    BY <1>17, <2>2, <2>3, <2>4, FS_Subset
<1>22. ASSUME R <= limit
       PROVE  unique = Walked(level, depth)
  <2>. DEFINE below == RowsOf(level, d .. depth)
              part == {r \in {d} \X User : r[2] \in last}
  <2>1. size = R
    BY <1>6, <1>7, <1>22
  <2>2. below \in SUBSET RowsOf(level, 0 .. depth) /\ IsFiniteSet(below)
    <3>1. below \in SUBSET RowsOf(level, 0 .. depth)
      BY <1>1, <1>4 DEF RowsOf
    <3>2. d \in Int /\ depth \in Int
      BY <1>1, <1>4
    <3>3. IsFiniteSet(d .. depth)
      BY <3>2, FS_Interval
    <3>4. IsFiniteSet(below)
      BY <1>1, <3>3, RowsAreFinite
    <3>5. QED
      BY <3>1, <3>4
  <2>3. Cardinality(below) = R - A(d) /\ Cardinality(below) \in Nat
    <3>. DEFINE first == RowsOf(level, 0 .. d - 1)
    <3>1. first \cup below = RowsOf(level, 0 .. depth) /\ first \cap below = {}
      BY <1>1, <1>4 DEF RowsOf
    <3>2. IsFiniteSet(first)
      <4>1. 0 \in Int /\ d - 1 \in Int
        BY <1>4
      <4>2. IsFiniteSet(0 .. d - 1)
        BY <4>1, FS_Interval
      <4>3. QED
        BY <1>1, <4>2, RowsAreFinite
    <3>3. A(d) = Cardinality(first) /\ R = Cardinality(first \cup below)
      BY <3>1 DEF R, A
    <3>. HIDE DEF first, below
    <3>4. Cardinality(first) \in Nat /\ Cardinality(below) \in Nat
      BY <2>2, <3>2, FS_CardinalityType
    <3>5. Cardinality(first \cap below) = 0
      BY <3>1, FS_EmptySet
    <3>6. Cardinality(first \cup below)
             = Cardinality(first) + Cardinality(below) - Cardinality(first \cap below)
      BY <2>2, <3>2, FS_Union
    <3>7. QED
      BY <3>3, <3>4, <3>5, <3>6
  <2>4. part \subseteq below /\ IsFiniteSet(part)
    <3>1. d \in d .. depth
      BY <1>1, <1>3, <1>4
    <3>2. part \subseteq below
      BY <1>9, <3>1 DEF RowsOf
    <3>3. QED
      BY <2>2, <3>2, FS_Subset
  <2>5. Cardinality(part) = Cardinality(last)
    <3>. DEFINE f == [r \in part |-> r[2]]
    <3>1. f \in [part -> last] /\ \A a, b \in part : f[a] = f[b] => a = b
      OBVIOUS
    <3>2. \A u \in last : \E r \in part : f[r] = u
      <4>1. ASSUME NEW u \in last
            PROVE  <<d, u>> \in part /\ f[<<d, u>>] = u
        BY <1>9
      <4>2. QED
        BY <4>1
    <3>3. f \in Bijection(part, last)
      <4>. HIDE DEF f, part
      <4>1. QED
        BY <3>1, <3>2, Fun_IsBij
    <3>. HIDE DEF f, part
    <3>4. ExistsBijection(part, last)
      BY <3>3 DEF ExistsBijection
    <3>5. QED
      BY <2>4, <3>4, FS_Bijection
  <2>6. part = below
    <3>. HIDE DEF part, below
    <3>1. Cardinality(part) = Cardinality(below)
      BY <1>9, <2>1, <2>3, <2>5
    <3>2. QED
      BY <2>2, <2>4, <3>1, FS_Subset
  <2>7. ASSUME NEW i \in 0 .. depth, NEW u \in level[i]
        PROVE  u \in unique
    <3>1. CASE i \in 0 .. d - 1
      BY <1>10, <2>7, <3>1 DEF Walked
    <3>2. CASE i \in d .. depth
      <4>1. u \in User
        BY <1>1, <2>7 DEF Sets
      <4>2. <<i, u>> \in below
        BY <2>7, <3>2, <4>1 DEF RowsOf
      <4>3. QED
        BY <2>6, <4>2
    <3>3. QED
      BY <1>1, <1>4, <3>1, <3>2
  <2>8. QED
    BY <1>17, <2>7 DEF Walked
<1>23. \E e \in 0 .. depth : above = Walked(level, e - 1) /\ last \subseteq level[e]
  BY <1>9, <1>10
<1>24. QED
  BY <1>13, <1>15, <1>17, <1>18, <1>19, <1>20, <1>21, <1>22, <1>23 DEF above, last, R

\* Somebody is met again, and the rows are more than the query reads.
Overflows(level, depth) ==
    /\ Cardinality(RowsOf(level, 0 .. depth)) > Cardinality(Walked(level, depth))
    /\ Cardinality(RowsOf(level, 0 .. depth)) > maxNodes + 1

\* Who is walked and not in S is no nearer to the caller than anybody in S.
NearestFirst(level, depth, S) ==
    \A n \in 0 .. depth : \A u \in level[n] \ S, v \in S : \E m \in 0 .. n : v \in level[m]

\* A manager's answer: people walked, the caller among them, within the cap and the
\* nearest first; with the note that it was capped not all of them, and without it all
\* of them, unless the walk meets people again and overflows.
LEMMA SubtreeFacts ==
    ASSUME lines \in Charts, maxNodes \in Nat \ {0},
           NEW depth \in 0 .. MaxDepth, NEW answer \in GetOrgSubtree(Me, depth)
    PROVE  LET level == LevelsOf(lines)
               walked == Walked(level, depth)
           IN  /\ answer = Answer(answer.nodes, {Me}, answer.truncated)
               /\ answer.truncated \in BOOLEAN
               /\ Me \in answer.nodes
               /\ answer.nodes \subseteq walked
               /\ Cardinality(answer.nodes) <= maxNodes
               /\ answer.truncated => answer.nodes # walked
               /\ ~answer.truncated => answer.nodes = walked \/ Overflows(level, depth)
               /\ NearestFirst(level, depth, answer.nodes)
<1>. DEFINE level == LevelsOf(lines)
            walked == Walked(level, depth)
            R == Cardinality(RowsOf(level, 0 .. depth))
<1>1. level \in Sets /\ level[0] = {Me}
  BY LevelFacts, ChartFacts DEF Sets
<1>2. Levels(Me) = level
  BY LevelsOfNow
<1>. HIDE DEF level
<1>3. /\ Cardinality(walked) \in Nat /\ R \in Nat /\ Cardinality(walked) <= R
      /\ Apart(level, depth) <=> Cardinality(walked) = R
  <2>1. depth \in -1 .. MaxDepth /\ IsFiniteSet(0 .. depth)
    BY OrgAssumption, FS_Interval
  <2>2. QED
    BY <1>1, <2>1, WalkedAreFewer, RowsAreFinite
<1>. HIDE DEF R
<1>4. PICK rows \in FirstRows(level, depth, maxNodes + 1) :
          LET unique == rows.above \cup rows.last
          IN  answer \in IF Cardinality(unique) > maxNodes
                         THEN {Answer(unique \ {last}, {Me}, TRUE) : last \in rows.last}
                         ELSE {Answer(unique, {Me}, FALSE)}
  BY <1>2, Zenon DEF GetOrgSubtree
<1>. DEFINE unique == rows.above \cup rows.last
<1>5. /\ IsFiniteSet(unique) /\ Cardinality(unique) \in Nat
      /\ unique \subseteq walked
      /\ Cardinality(unique) <= maxNodes + 1
      /\ Cardinality(unique) = maxNodes + 1 => rows.above \cap rows.last = {}
      /\ Me \in rows.above \/ unique = {Me}
      /\ \E d \in 0 .. depth : rows.above = Walked(level, d - 1) /\ rows.last \subseteq level[d]
      /\ Apart(level, depth) /\ Cardinality(unique) < maxNodes + 1 => unique = walked
      /\ R <= maxNodes + 1 => unique = walked
  <2>1. maxNodes + 1 \in Nat
    OBVIOUS
  <2>2. QED
    BY <1>1, <1>4, <2>1, FirstRowsFacts DEF R
<1>6. PICK d \in 0 .. depth : rows.above = Walked(level, d - 1) /\ rows.last \subseteq level[d]
  BY <1>5
<1>7. ASSUME NEW S \in SUBSET unique, rows.above \subseteq S
      PROVE  NearestFirst(level, depth, S)
  <2>1. SUFFICES ASSUME NEW n \in 0 .. depth, NEW u \in level[n] \ S, NEW v \in S
                 PROVE  \E m \in 0 .. n : v \in level[m]
    BY DEF NearestFirst
  <2>2. MaxDepth \in Nat /\ d \in Nat /\ n \in Nat
    BY OrgAssumption
  <2>3. n >= d
    <3>1. SUFFICES ASSUME n < d PROVE FALSE
      BY <2>2
    <3>2. n \in 0 .. d - 1
      BY <2>2, <3>1
    <3>3. u \in rows.above
      BY <1>6, <3>2 DEF Walked
    <3>4. QED
      BY <1>7, <3>3
  <2>4. \E m \in 0 .. d : v \in level[m]
    <3>1. CASE v \in rows.above
      BY <1>6, <2>2, <3>1 DEF Walked
    <3>2. CASE v \in rows.last
      <4>1. d \in 0 .. d
        BY <2>2
      <4>2. QED
        BY <1>6, <3>2, <4>1
    <3>3. QED
      BY <1>7, <3>1, <3>2
  <2>5. \A m \in 0 .. d : m \in 0 .. n
    BY <2>2, <2>3
  <2>6. QED
    BY <2>4, <2>5
<1>8. CASE Cardinality(unique) > maxNodes
  <2>1. PICK last \in rows.last : answer = Answer(unique \ {last}, {Me}, TRUE)
    BY <1>4, <1>8
  <2>2. answer.nodes = unique \ {last} /\ answer.truncated = TRUE
    BY <2>1 DEF Answer
  <2>3. Cardinality(unique) = maxNodes + 1 /\ Cardinality(unique) # 1
    BY <1>5, <1>8
  <2>4. last \in unique /\ last \in walked /\ last \notin rows.above
    BY <1>5, <2>3
  <2>5. Cardinality(unique \ {last}) = maxNodes
    <3>. HIDE DEF unique
    <3>1. Cardinality(unique \ {last}) = Cardinality(unique) - 1
      BY <1>5, <2>4, FS_RemoveElement
    <3>2. QED
      BY <1>5, <2>3, <3>1
  <2>6. unique # {Me}
    BY <2>3, FS_Singleton
  <2>7. Me \in unique \ {last}
    BY <1>5, <2>4, <2>6
  <2>8. answer = Answer(answer.nodes, {Me}, answer.truncated)
    BY <2>1, <2>2, Zenon
  <2>9. answer.nodes \subseteq walked /\ answer.nodes # walked
    BY <1>5, <2>2, <2>4
  <2>10. NearestFirst(level, depth, answer.nodes)
    BY <1>7, <2>2, <2>4
  <2>. HIDE DEF walked, unique
  <2>11. Me \in answer.nodes /\ Cardinality(answer.nodes) <= maxNodes
    BY <2>2, <2>5, <2>7
  <2>12. QED
    BY <2>2, <2>8, <2>9, <2>10, <2>11 DEF walked, level
<1>9. CASE ~(Cardinality(unique) > maxNodes)
  <2>1. answer = Answer(unique, {Me}, FALSE)
    BY <1>4, <1>9
  <2>2. answer.nodes = unique /\ answer.truncated = FALSE
    BY <2>1 DEF Answer
  <2>3. Cardinality(unique) <= maxNodes /\ Cardinality(unique) < maxNodes + 1
    BY <1>5, <1>9
  <2>4. Me \in unique
    BY <1>5
  <2>5. unique = walked \/ Overflows(level, depth)
    <3>. HIDE DEF unique, walked
    <3>1. ASSUME unique # walked
          PROVE  R > maxNodes + 1 /\ R > Cardinality(walked)
      BY <1>3, <1>5, <2>3, <3>1
    <3>2. QED
      BY <3>1 DEF Overflows, R, walked
  <2>6. answer = Answer(answer.nodes, {Me}, answer.truncated)
    BY <2>1, <2>2, Zenon
  <2>7. unique \subseteq walked
    BY <1>5
  <2>8. NearestFirst(level, depth, answer.nodes)
    BY <1>7, <2>2
  <2>. HIDE DEF walked, unique
  <2>9. QED
    BY <2>2, <2>3, <2>4, <2>5, <2>6, <2>7, <2>8 DEF walked, level
<1>10. QED
  BY <1>8, <1>9

\* An administrator's answer: the first people by name, as many as the cap allows.
LEMMA FirstPeopleAreFew ==
    ASSUME lines \in Charts, maxNodes \in Nat \ {0}
    PROVE  Cardinality(GetAllOrgNodes.nodes) <= maxNodes
<1>. DEFINE Before(u) == {v \in People : v < u}
            nodes == {u \in People : Cardinality(Before(u)) < maxNodes}
            Rest == {r \in Nat : \E u \in nodes : r = maxNodes - Cardinality(Before(u))}
<1>1. People \subseteq Nat /\ IsFiniteSet(People)
  <2>1. People \in SUBSET User
    BY ChartFacts DEF People
  <2>2. QED
    BY <2>1, OrgAssumption, FS_Subset
<1>2. \A u \in People : IsFiniteSet(Before(u)) /\ Cardinality(Before(u)) \in Nat
  BY <1>1, FS_Subset, FS_CardinalityType
<1>3. GetAllOrgNodes.nodes = nodes
  BY DEF GetAllOrgNodes, Answer
<1>4. CASE nodes = {}
  <2>. HIDE DEF nodes
  <2>1. Cardinality(nodes) = 0
    BY <1>4, FS_EmptySet
  <2>2. QED
    BY <1>3, <2>1
<1>5. CASE nodes # {}
  <2>0. \A u \in nodes : maxNodes - Cardinality(Before(u)) \in Rest
    <3>. HIDE DEF Before
    <3>1. QED
      BY <1>2
  <2>1. PICK r \in Rest : \A q \in Rest : r <= q
    <3>1. Rest # {}
      BY <1>5, <2>0
    <3>. HIDE DEF Rest
    <3>2. Rest \in SUBSET Nat
      BY DEF Rest
    <3>3. QED
      BY <3>1, <3>2, LeastMember
  <2>2. PICK u \in nodes : r = maxNodes - Cardinality(Before(u))
    BY <2>1
  <2>3. Cardinality(Before(u) \cup {u}) = Cardinality(Before(u)) + 1
        /\ IsFiniteSet(Before(u) \cup {u})
    <3>1. u \notin Before(u) /\ IsFiniteSet(Before(u))
      BY <1>1, <1>2
    <3>. HIDE DEF Before
    <3>2. QED
      BY <3>1, FS_AddElement
  <2>4. nodes \subseteq Before(u) \cup {u}
    <3>1. SUFFICES ASSUME NEW v \in nodes, v > u
                   PROVE  FALSE
      <4>1. \A v \in nodes : v \in Nat /\ u \in Nat /\ v \in People
        BY <1>1
      <4>2. \A v \in nodes : v > u \/ v < u \/ v = u
        <5>. HIDE DEF nodes
        <5>1. QED
          BY <4>1
      <4>3. QED
        BY <4>1, <4>2
    <3>2. Before(u) \cup {u} \in SUBSET Before(v)
      <4>1. u \in People /\ u \in Nat /\ v \in Nat /\ u < v
        BY <1>1, <3>1
      <4>2. ASSUME NEW w \in Before(u)
            PROVE  w \in Before(v)
        <5>1. w \in People /\ w \in Nat /\ w < u
          BY <1>1
        <5>2. w < v
          BY <4>1, <5>1
        <5>3. QED
          BY <5>1, <5>2
      <4>3. u \in Before(v)
        BY <4>1
      <4>4. QED
        BY <4>2, <4>3
    <3>3. Cardinality(Before(u)) + 1 <= Cardinality(Before(v))
      <4>. HIDE DEF Before
      <4>1. QED
        BY <1>2, <2>3, <3>2, FS_Subset
    <3>4. r <= maxNodes - Cardinality(Before(v))
      BY <2>0, <2>1
    <3>5. Cardinality(Before(u)) \in Nat /\ Cardinality(Before(v)) \in Nat
      BY <1>2
    <3>. HIDE DEF Before
    <3>6. QED
      BY <2>2, <3>3, <3>4, <3>5
  <2>5. Cardinality(nodes) <= Cardinality(Before(u) \cup {u}) /\ Cardinality(nodes) \in Nat
    BY <2>3, <2>4, FS_Subset, FS_CardinalityType
  <2>6. Cardinality(Before(u)) < maxNodes /\ Cardinality(Before(u)) \in Nat
    BY <1>2
  <2>. HIDE DEF Before, nodes
  <2>7. QED
    BY <1>3, <2>3, <2>5, <2>6
<1>6. QED
  BY <1>4, <1>5

-----------------------------------------------------------------------------
(* The tree on the page, and what was opened on it. *)

\* The tree is what the walk of its own lines, depth and caller gives, or a part.
Walk == Walked(LevelsOf(tree.lines), tree.depth)

TreeInv ==
    tree # NoTree =>
        /\ tree.depth \in 0 .. MaxDepth
        /\ tree.roots \subseteq tree.nodes
        /\ Cardinality(tree.nodes) <= maxNodes
        /\ caller.role = "ADMIN" =>
              /\ tree.nodes \subseteq DOMAIN tree.lines
              /\ tree.truncated <=> tree.nodes # DOMAIN tree.lines
        /\ caller.role = "MANAGER" =>
              /\ tree.nodes \subseteq Walk
              /\ tree.truncated => tree.nodes # Walk
              /\ ~tree.truncated => tree.nodes = Walk \/ Overflows(LevelsOf(tree.lines), tree.depth)
              /\ NearestFirst(LevelsOf(tree.lines), tree.depth, tree.nodes)

\* Who is about to be looked up was on the walk of the lines he was drawn from.
DialogInv ==
    dialog.phase = "check" /\ caller.role = "MANAGER" =>
        \E d \in 0 .. MaxDepth : dialog.who \in LevelsOf(dialog.lines)[d]

ChartInv == ListInv /\ TreeInv /\ DialogInv

\* The depth that is walked is within the limits.
LEMMA ResolvedDepth ==
    ASSUME NEW asked \in 0 .. MaxDepth + 1
    PROVE  ResolveMaxDepth(asked) \in 0 .. MaxDepth
<1>1. asked \in Nat /\ MaxDepth \in Nat \ {0}
  BY OrgAssumption
<1>2. Max({asked, 1}) \in Nat \ {0}
  <2>1. CASE asked >= 1
    <3>1. asked \in {asked, 1} /\ \A y \in {asked, 1} : asked >= y
      BY <1>1, <2>1
    <3>2. Max({asked, 1}) \in {asked, 1} /\ \A y \in {asked, 1} : Max({asked, 1}) >= y
      BY <3>1 DEF Max
    <3>3. QED
      BY <1>1, <3>2
  <2>2. CASE asked < 1
    <3>1. 1 \in {asked, 1} /\ \A y \in {asked, 1} : 1 >= y
      BY <1>1, <2>2
    <3>2. Max({asked, 1}) \in {asked, 1} /\ \A y \in {asked, 1} : Max({asked, 1}) >= y
      BY <3>1 DEF Max
    <3>3. QED
      BY <1>1, <3>2
  <2>3. QED
    BY <1>1, <2>1, <2>2
<1>. DEFINE most == Max({asked, 1})
<1>. HIDE DEF most
<1>3. {most, MaxDepth} \in SUBSET Nat /\ {most, MaxDepth} # {}
  BY <1>1, <1>2 DEF most
<1>4. Min({most, MaxDepth}) \in {most, MaxDepth}
      /\ \A n \in {most, MaxDepth} : Min({most, MaxDepth}) <= n
  BY <1>3, LeastIsMin
<1>5. QED
  BY <1>1, <1>3, <1>4 DEF ResolveMaxDepth, most

\* A tree that was just loaded.
LEMMA LoadedTreeFacts ==
    ASSUME ListInv, NEW asked \in 0 .. MaxDepth + 1, LoadTree(asked)
    PROVE  TreeInv'
<1>. DEFINE depth == ResolveMaxDepth(asked)
<1>1. depth \in 0 .. MaxDepth
  BY ResolvedDepth
<1>2. maxNodes \in Nat \ {0} /\ lines \in Charts
  BY OrgAssumption DEF ListInv, TypeInv
<1>3. PICK answer \in IF caller.role = "ADMIN" THEN {GetAllOrgNodes}
                      ELSE GetOrgSubtree(Me, depth) :
          tree' = [answer EXCEPT !.depth = depth]
  BY DEF LoadTree
<1>4. maxNodes' = maxNodes /\ caller' = caller
  BY DEF LoadTree
<1>. HIDE DEF depth
<1>5. CASE caller.role = "ADMIN"
  <2>1. tree' = [GetAllOrgNodes EXCEPT !.depth = depth]
    BY <1>3, <1>5
  <2>. DEFINE nodes == GetAllOrgNodes.nodes
  <2>2. GetAllOrgNodes = Answer(nodes, RootsOf(nodes), nodes # People)
    BY Zenon DEF GetAllOrgNodes, Answer
  <2>3. nodes \subseteq People
    BY DEF GetAllOrgNodes, Answer
  <2>4. Cardinality(nodes) <= maxNodes
    BY <1>2, FirstPeopleAreFew
  <2>. HIDE DEF nodes
  <2>5. /\ tree'.nodes = nodes /\ tree'.roots = RootsOf(nodes) /\ tree'.depth = depth
        /\ tree'.truncated = (nodes # People) /\ tree'.lines = lines
    BY <2>1, <2>2 DEF Answer
  <2>6. RootsOf(nodes) \subseteq nodes
    BY DEF RootsOf
  <2>7. QED
    BY <1>1, <1>4, <1>5, <2>3, <2>4, <2>5, <2>6 DEF TreeInv, People
<1>6. CASE caller.role # "ADMIN"
  <2>1. answer \in GetOrgSubtree(Me, depth)
    BY <1>3, <1>6
  <2>. DEFINE level == LevelsOf(lines)
              walked == Walked(level, depth)
  <2>2. /\ answer = Answer(answer.nodes, {Me}, answer.truncated)
        /\ answer.truncated \in BOOLEAN
        /\ Me \in answer.nodes
        /\ answer.nodes \subseteq walked
        /\ Cardinality(answer.nodes) <= maxNodes
        /\ answer.truncated => answer.nodes # walked
        /\ ~answer.truncated => answer.nodes = walked \/ Overflows(level, depth)
        /\ NearestFirst(level, depth, answer.nodes)
    BY <1>1, <1>2, <2>1, SubtreeFacts
  <2>3. /\ tree'.nodes = answer.nodes /\ tree'.roots = {Me} /\ tree'.depth = depth
        /\ tree'.truncated = answer.truncated /\ tree'.lines = lines
    BY <1>3, <2>2 DEF Answer
  <2>4. /\ (Walk)' = walked
        /\ Overflows(LevelsOf(tree.lines), tree.depth)' = Overflows(level, depth)
        /\ NearestFirst(LevelsOf(tree.lines), tree.depth, tree.nodes)'
              = NearestFirst(level, depth, answer.nodes)
    BY <1>4, <2>3 DEF Walk, Overflows, NearestFirst
  <2>. HIDE DEF walked, level
  <2>5. Cardinality(tree'.nodes) <= maxNodes' /\ tree'.roots \subseteq tree'.nodes
        /\ tree'.depth \in 0 .. MaxDepth
    BY <1>1, <1>4, <2>2, <2>3
  <2>6. /\ tree'.nodes \subseteq (Walk)'
        /\ tree'.truncated => tree'.nodes # (Walk)'
        /\ ~tree'.truncated =>
              tree'.nodes = (Walk)' \/ Overflows(LevelsOf(tree.lines), tree.depth)'
        /\ NearestFirst(LevelsOf(tree.lines), tree.depth, tree.nodes)'
    BY <2>2, <2>3, <2>4
  <2>7. caller'.role # "ADMIN"
    BY <1>4, <1>6
  <2>8. QED
    BY <2>5, <2>6, <2>7 DEF TreeInv
<1>7. QED
  BY <1>5, <1>6

LEMMA TreeStays ==
    ASSUME TreeInv, UNCHANGED <<tree, caller, maxNodes>>
    PROVE  TreeInv'
BY DEF TreeInv, Walk, Overflows

LEMMA DialogStays ==
    ASSUME DialogInv, dialog' = dialog \/ dialog'.phase # "check", caller' = caller
    PROVE  DialogInv'
BY DEF DialogInv

\* A drawn tree stays what getOrgSubtree or getAllOrgNodes made of the lines it was read
\* from, whatever happens to them later: people of its walk, the nearest first, all of them
\* unless the cap has cut or rows of people met again have used up the row limit.
THEOREM TreesAreWalks == Spec => []ChartInv
<1>1. Init => ChartInv
  BY ListsBegin DEF Init, ChartInv, TreeInv, DialogInv, Closed
<1>2. ASSUME ChartInv, [Next]_vars
      PROVE  ChartInv'
  <2>. USE DEF ChartInv
  <2>1. ListInv'
    BY <1>2, ListsGoOn
  <2>2. ASSUME NEW asked \in 0 .. MaxDepth + 1, LoadTree(asked)
        PROVE  ChartInv'
    <3>1. TreeInv'
      BY <1>2, <2>2, LoadedTreeFacts
    <3>2. DialogInv'
      BY <1>2, <2>2, DialogStays DEF LoadTree
    <3>3. QED
      BY <2>1, <3>1, <3>2
  <2>3. CASE LoadFails
    <3>1. TreeInv'
      BY <2>3 DEF LoadFails, TreeInv
    <3>2. DialogInv'
      BY <1>2, <2>3, DialogStays DEF LoadFails
    <3>3. QED
      BY <2>1, <3>1, <3>2
  <2>4. ASSUME NEW u \in People, Open(u)
        PROVE  ChartInv'
    <3>1. TreeInv'
      BY <1>2, <2>4, TreeStays DEF Open
    <3>2. ASSUME caller.role = "MANAGER"
          PROVE  \E d \in 0 .. MaxDepth : u \in LevelsOf(tree.lines)[d]
      <4>1. u \in Walk /\ tree.depth \in 0 .. MaxDepth
        BY <1>2, <2>4, <3>2 DEF Open, TreeInv, NoTree
      <4>2. PICK d \in 0 .. tree.depth : u \in LevelsOf(tree.lines)[d]
        BY <4>1 DEF Walk, Walked
      <4>3. d \in 0 .. MaxDepth
        BY <4>1, OrgAssumption
      <4>4. QED
        BY <4>2, <4>3
    <3>3. DialogInv'
      BY <2>4, <3>2 DEF Open, DialogInv
    <3>4. QED
      BY <2>1, <3>1, <3>3
  <2>5. ASSUME UNCHANGED <<tree, caller, maxNodes>>,
               dialog' = dialog \/ dialog'.phase # "check"
        PROVE  ChartInv'
    BY <1>2, <2>1, <2>5, TreeStays, DialogStays
  <2>6. CASE Close
    BY <2>5, <2>6 DEF Close, Closed
  <2>7. CASE Check
    <3>1. dialog \in [phase : {"check", "refused"}, who : User, lines : Charts]
      BY <1>2, <2>7, DialogFacts DEF Check, ListInv
    <3>2. dialog'.phase # "check"
      BY <2>7, <3>1 DEF Check, Refused, Stored
    <3>3. QED
      BY <2>5, <2>7, <3>2 DEF Check
  <2>8. CASE ProfileComes
    BY <1>2, <2>5, <2>8, DialogFacts DEF ProfileComes, ListInv
  <2>9. CASE ProfileFails
    BY <2>5, <2>9 DEF ProfileFails, Stored
  <2>10. CASE AnswerFromDirectory
    BY <2>5, <2>10 DEF AnswerFromDirectory
  <2>11. CASE ReadPage
    BY <2>5, <2>11 DEF ReadPage
  <2>12. CASE LastPage
    <3>1. Waiting => [dialog EXCEPT !.groups = Entry].phase # "check"
      BY <1>2, DialogFacts DEF Waiting, ListInv
    <3>2. dialog' = dialog \/ dialog'.phase # "check"
      BY <2>12, <3>1 DEF LastPage, Delivered
    <3>3. QED
      BY <2>5, <2>12, <3>2 DEF LastPage
  <2>13. CASE PageFails
    BY <2>5, <2>13 DEF PageFails, Stored
  <2>14. ASSUME NEW u \in User, Expire(u)
         PROVE  ChartInv'
    BY <2>5, <2>14 DEF Expire
  <2>15. ASSUME NEW u \in People, NEW m \in People \cup {Nobody}, Move(u, m)
         PROVE  ChartInv'
    BY <2>5, <2>15 DEF Move
  <2>16. ASSUME NEW g \in Group, Regroup(g)
         PROVE  ChartInv'
    BY <2>5, <2>16 DEF Regroup
  <2>17. CASE UNCHANGED vars
    BY <2>5, <2>17 DEF vars
  <2>18. QED
    BY <1>2, <2>2, <2>3, <2>4, <2>6, <2>7, <2>8, <2>9, <2>10, <2>11, <2>12, <2>13, <2>14, <2>15,
       <2>16, <2>17 DEF Next
<1>3. QED
  BY <1>1, <1>2, PTL DEF Spec

\* Everything has its type.
THEOREM TypeCorrect == Spec => []TypeOK
<1>1. ASSUME ChartInv
      PROVE  TypeOK
  <2>. USE <1>1 DEF ChartInv, ListInv, TypeInv
  <2>1. Me \in People /\ People \subseteq User /\ \A u \in People : lines[u] \in People \cup {Nobody}
    BY ChartFacts DEF People
  <2>2. tree.nodes \subseteq User /\ tree.roots \subseteq tree.nodes
    <3>1. CASE tree = NoTree
      BY <3>1 DEF NoTree
    <3>2. CASE tree # NoTree
      <4>1. tree.lines \in Charts /\ DOMAIN tree.lines \subseteq User /\ tree.depth \in 0 .. MaxDepth
        BY <3>2, ChartFacts DEF TreeInv
      <4>2. Walk \subseteq DOMAIN tree.lines
        BY <4>1, LevelFacts, OrgAssumption DEF Walk, Walked
      <4>3. QED
        BY <3>2, <4>1, <4>2 DEF TreeInv
    <3>3. QED
      BY <3>1, <3>2
  <2>3. dialog.phase \in {"closed", "check", "graph", "shown", "refused"}
    BY DialogFacts
  <2>4. read # Resting => read.who \in User /\ read.list \subseteq Group
    BY ReadingFacts DEF Readings
  <2>5. ASSUME NEW u \in User, cache[u].held
        PROVE  cache[u].list \subseteq Group
    <3>1. cache[u] \in Held
      BY <2>5 DEF Entries, Absent
    <3>2. QED
      BY <3>1 DEF Held
  <2>6. QED
    BY <2>1, <2>2, <2>3, <2>4, <2>5 DEF TypeOK
<1>2. QED
  BY <1>1, TreesAreWalks, PTL

\* The ways up to the caller are the rows of the walk down from him, and those they
\* begin with are the people of the walk.
LEMMA WaysAreRows ==
    ASSUME NEW t, t.lines \in Charts, t.depth \in 0 .. MaxDepth
    PROVE  LET level == LevelsOf(t.lines)
           IN  /\ Ways(t) = RowsOf(level, 0 .. t.depth)
               /\ {way[2] : way \in Ways(t)} = Walked(level, t.depth)
               /\ \A n \in 0 .. t.depth : \A u : <<n, u>> \in Ways(t) <=> u \in level[n]
<1>. DEFINE level == LevelsOf(t.lines)
<1>1. t.depth \in Nat /\ \A n \in 0 .. t.depth : n \in 0 .. MaxDepth /\ n \in Nat
  BY OrgAssumption
<1>2. /\ \A n \in 0 .. t.depth : level[n] \subseteq DOMAIN t.lines
      /\ DOMAIN t.lines \subseteq User
  BY <1>1, LevelFacts, ChartFacts
<1>3. ASSUME NEW n \in 0 .. t.depth, NEW u \in DOMAIN t.lines
      PROVE  u \in level[n] <=> Line(t, u, n)[n] = Me
  <2>1. n \in 0 .. MaxDepth /\ n \in Nat /\ n <= n
    BY <1>1
  <2>2. u \in level[n] <=> LineOf(t.lines, u, n)[n] = Me
    BY <2>1, LevelsAreLines
  <2>3. QED
    BY <2>2, LinesOfTrees
<1>. HIDE DEF level
<1>4. Ways(t) = RowsOf(level, 0 .. t.depth)
  <2>1. \A way \in (0 .. t.depth) \X DOMAIN t.lines :
           way \in Ways(t) <=> way[2] \in level[way[1]]
    BY <1>3 DEF Ways
  <2>2. \A way \in Ways(t) : way \in (0 .. t.depth) \X DOMAIN t.lines
    BY DEF Ways
  <2>3. \A way \in RowsOf(level, 0 .. t.depth) : way \in (0 .. t.depth) \X DOMAIN t.lines
    BY <1>2 DEF RowsOf
  <2>4. QED
    BY <1>2, <2>1, <2>2, <2>3 DEF RowsOf
<1>5. \A n \in 0 .. t.depth : \A u : <<n, u>> \in Ways(t) <=> u \in level[n]
  BY <1>2, <1>4 DEF RowsOf
<1>6. {way[2] : way \in Ways(t)} = Walked(level, t.depth)
  <2>1. ASSUME NEW n \in 0 .. t.depth, NEW u \in level[n]
        PROVE  u \in {way[2] : way \in Ways(t)}
    <3>1. <<n, u>> \in Ways(t)
      BY <1>5, <2>1
    <3>2. <<n, u>>[2] = u
      OBVIOUS
    <3>3. QED
      BY <3>1, <3>2
  <2>2. QED
    BY <1>4, <2>1 DEF RowsOf, Walked
<1>7. QED
  BY <1>4, <1>5, <1>6 DEF level

\* A page has people who belong there, no more than the cap, and those nearest to the
\* caller; it is called capped only when somebody is missing; and without that note
\* somebody is missing only when the query's own limit was used up by people met again.
THEOREM NearestAreDrawn == Spec => []CapCutsTheFarthest
<1>1. ASSUME ChartInv
      PROVE  CapCutsTheFarthest
  <2>. DEFINE ways == Ways(tree)
              level == LevelsOf(tree.lines)
              below == {way[2] : way \in ways}
  <2>1. SUFFICES ASSUME tree # NoTree
                 PROVE  CapCutsTheFarthest
    BY DEF CapCutsTheFarthest
  <2>2. /\ tree.lines \in Charts /\ tree.depth \in 0 .. MaxDepth
        /\ caller.role \in {"ADMIN", "MANAGER"}
    BY <1>1, <2>1 DEF ChartInv, TreeInv, ListInv, TypeInv
  <2>3. Cardinality(tree.nodes) <= maxNodes
    BY <1>1, <2>1 DEF ChartInv, TreeInv
  <2>4. CASE caller.role = "ADMIN"
    <3>1. tree.nodes \subseteq DOMAIN tree.lines
          /\ (tree.truncated <=> tree.nodes # DOMAIN tree.lines)
      BY <1>1, <2>1, <2>4 DEF ChartInv, TreeInv
    <3>2. QED
      BY <2>3, <2>4, <3>1 DEF CapCutsTheFarthest
  <2>5. CASE caller.role = "MANAGER"
    <3>1. /\ ways = RowsOf(level, 0 .. tree.depth)
          /\ below = Walk
          /\ \A n \in 0 .. tree.depth : \A u : <<n, u>> \in ways <=> u \in level[n]
      BY <2>2, WaysAreRows DEF Walk
    <3>2. /\ tree.nodes \subseteq Walk
          /\ tree.truncated => tree.nodes # Walk
          /\ ~tree.truncated => tree.nodes = Walk \/ Overflows(level, tree.depth)
          /\ NearestFirst(level, tree.depth, tree.nodes)
      BY <1>1, <2>1, <2>5 DEF ChartInv, TreeInv
    <3>3. Overflows(level, tree.depth) =>
             Cardinality(ways) > Cardinality(below) /\ Cardinality(ways) > maxNodes + 1
      BY <3>1 DEF Overflows, Walk
    <3>4. ASSUME NEW way \in ways, NEW v \in tree.nodes, way[2] \notin tree.nodes
          PROVE  \E n \in 0 .. way[1] : <<n, v>> \in ways
      <4>1. way[1] \in 0 .. tree.depth /\ way[2] \in level[way[1]]
        BY <3>1 DEF RowsOf
      <4>2. \E n \in 0 .. way[1] : v \in level[n]
        BY <3>2, <3>4, <4>1 DEF NearestFirst
      <4>3. \A n \in 0 .. way[1] : n \in 0 .. tree.depth
        BY <2>2, <4>1, OrgAssumption
      <4>4. QED
        BY <3>1, <4>2, <4>3
    <3>. HIDE DEF ways, level
    <3>5. tree.nodes \subseteq below
          /\ (tree.truncated => below \ tree.nodes # {})
          /\ (below \ tree.nodes # {} /\ ~tree.truncated =>
                 Cardinality(ways) > Cardinality(below) /\ Cardinality(ways) > maxNodes + 1)
      BY <3>1, <3>2, <3>3
    <3>6. QED
      BY <2>3, <2>5, <3>4, <3>5 DEF CapCutsTheFarthest, ways
  <2>6. QED
    BY <2>2, <2>4, <2>5
<1>2. QED
  BY <1>1, TreesAreWalks, PTL

\* Who is drawn can be opened while the lines are as they were drawn.
THEOREM OpenableNodes == Spec => DrawnCanBeOpened
<1>1. ASSUME ChartInv, [Next]_vars, dialog.phase = "check", dialog'.phase = "refused"
      PROVE  lines # dialog.lines
  <2>1. CASE Check
    <3>1. dialog \in [phase : {"check", "refused"}, who : User, lines : Charts]
      BY <1>1, DialogFacts DEF ChartInv, ListInv
    <3>2. ~(caller.role = "ADMIN" \/ IsInSubtree(Me, dialog.who))
      BY <1>1, <2>1, <3>1 DEF Check, Stored
    <3>3. caller.role = "MANAGER"
      BY <1>1, <3>2 DEF ChartInv, ListInv, TypeInv
    <3>4. PICK d \in 0 .. MaxDepth : dialog.who \in LevelsOf(dialog.lines)[d]
      BY <1>1, <3>3 DEF ChartInv, DialogInv
    <3>5. dialog.who \notin LevelsOf(lines)[d]
      BY <3>2, LevelsOfNow DEF IsInSubtree
    <3>6. QED
      BY <3>4, <3>5
  <2>2. ASSUME NEW asked \in 0 .. MaxDepth + 1, LoadTree(asked)
        PROVE  FALSE
    BY <1>1, <2>2 DEF LoadTree, Closed
  <2>3. CASE LoadFails
    BY <1>1, <2>3 DEF LoadFails, Closed
  <2>4. ASSUME NEW u \in People, Open(u)
        PROVE  FALSE
    BY <1>1, <2>4 DEF Open, Closed
  <2>5. CASE Close \/ ProfileComes \/ ProfileFails \/ AnswerFromDirectory
    BY <1>1, <2>5 DEF Close, ProfileComes, ProfileFails, AnswerFromDirectory
  <2>6. CASE UNCHANGED dialog
    BY <1>1, <2>6
  <2>7. CASE ReadPage
    BY <2>6, <2>7 DEF ReadPage
  <2>8. CASE LastPage
    BY <1>1, <2>6, <2>8 DEF LastPage, Delivered, Waiting
  <2>9. CASE PageFails
    BY <1>1, <2>6, <2>9 DEF PageFails, Waiting, Stored
  <2>10. ASSUME NEW u \in User, Expire(u)
         PROVE  lines # dialog.lines
    BY <2>6, <2>10 DEF Expire
  <2>11. ASSUME NEW u \in People, NEW m \in People \cup {Nobody}, Move(u, m)
         PROVE  lines # dialog.lines
    BY <2>6, <2>11 DEF Move
  <2>12. ASSUME NEW g \in Group, Regroup(g)
         PROVE  lines # dialog.lines
    BY <2>6, <2>12 DEF Regroup
  <2>13. CASE UNCHANGED vars
    BY <2>6, <2>13 DEF vars
  <2>14. QED
    BY <1>1, <2>1, <2>2, <2>3, <2>4, <2>5, <2>7, <2>8, <2>9, <2>10, <2>11, <2>12, <2>13 DEF Next
<1>2. ChartInv /\ [Next]_vars =>
         [dialog.phase = "check" /\ dialog'.phase = "refused" => lines # dialog.lines]_vars
  BY <1>1
<1>3. QED
  BY <1>2, TreesAreWalks, PTL DEF Spec, DrawnCanBeOpened

-----------------------------------------------------------------------------
(* The tab as a whole: sessions and roles.                                 *)

-----------------------------------------------------------------------------
(* The invariant. *)

Header == Role \cup {NoRole}
Profiles == {p \in [as : Header, role : Role, roles : (SUBSET Role) \ {{}}] :
                p.role \in p.roles /\ p.role = Effective(p.as, p.roles)}
Plains == [as : Header, role : {NoRole}, roles : {{}}]
Content(k) == IF k = "me" THEN Profiles ELSE Plains

\* Entries of the cache for values in V; a request carries a header, then an answer.
TabSnapshots(V) == [data : SUBSET V, stale : BOOLEAN, failed : BOOLEAN]
TabEntries(V) ==
    [data : SUBSET V, fetch : {"idle", "asked", "answered", "hung"},
      answer : SUBSET (Header \cup V),
      before : TabSnapshots(V), stale : BOOLEAN, failed : BOOLEAN, late : BOOLEAN,
      missed : BOOLEAN]
IsTabEntry(c, V) ==
    /\ c \in TabEntries(V)
    /\ c.fetch = "asked" => c.answer \subseteq Header
    /\ c.fetch = "answered" => c.answer \subseteq V

\* A request under way was or will be asked under one of the headers in H.
AskedAs(values, H) == \A v \in values : v.as \in H
Carries(c, H) ==
    /\ c.fetch = "asked" => c.answer \subseteq H
    /\ c.fetch = "answered" => AskedAs(c.answer, H)

\* What a page shows, and its request, or it is known to be outdated.
ShowsOnly(c, H) ==
    /\ c.stale \/ c.missed \/ AskedAs(c.data, H)
    /\ c.late \/ Carries(c, H)

\* The profile and its request.
ActsOnly(c, H) ==
    /\ c.fetch = "idle" /\ ~c.failed => AskedAs(c.data, H)
    /\ Carries(c, H)

TabTypes ==
    /\ page \in {"login", "app", "microsoft"}
    /\ leaving \in {"stay", "home", "login", "microsoft"}
    /\ demoToken \in {"none", "live", "dead"}
    /\ active \in Header /\ dropped \in SUBSET Role
    /\ active # NoRole => dropped = {}
    /\ held \in (SUBSET Role) \ {{}}

CacheTypes ==
    /\ queries = [k \in Key |-> queries[k]]
    /\ \A k \in Key : IsTabEntry(queries[k], Content(k))

Follows ==
    page = "app" /\ leaving = "stay" =>
        /\ ActsOnly(queries["me"], {active})
        /\ ShowsOnly(queries["screen"], {active} \cup dropped)

TabInv == TabTypes /\ CacheTypes /\ Follows

-----------------------------------------------------------------------------
(* Roles. *)

\* A nonempty set of numbers has a least member (the order of the numbers is
\* well-founded), so a finite one, by its least part without one, has a greatest.
LEMMA LeastNumber ==
    ASSUME NEW S \in SUBSET Nat, S # {}
    PROVE  \E m \in S : \A n \in S : m <= n
<1>1. \E x \in S : \A y \in S : ~ (<<y, x>> \in OpToRel(<, Nat))
  BY WFMin, NatLessThanWellFounded
<1>2. OpToRel(<, Nat) = {ss \in Nat \X Nat : ss[1] < ss[2]}
  BY DEF OpToRel
<1>. DEFINE R == {ss \in Nat \X Nat : ss[1] < ss[2]}
<1>3. \E x \in S : \A y \in S : ~ (<<y, x>> \in R)
  BY <1>1, <1>2, Zenon
<1>4. ASSUME NEW x \in Nat, NEW y \in Nat, y < x
      PROVE  <<y, x>> \in R
  <2>1. <<y, x>> \in Nat \X Nat /\ <<y, x>>[1] = y /\ <<y, x>>[2] = x
    OBVIOUS
  <2>2. QED
    BY <2>1, <1>4
<1>. HIDE DEF R
<1>5. PICK x \in S : \A y \in S : ~ (<<y, x>> \in R)
  BY <1>3
<1>6. ASSUME NEW n \in S
      PROVE  x <= n
  <2>1. x \in Nat /\ n \in Nat
    OBVIOUS
  <2>2. ~(n < x)
    BY <1>4, <1>5, <2>1, Zenon
  <2>3. QED
    BY <2>1, <2>2
<1>7. QED
  BY <1>6

HasHighest(S) == \E r \in S : \A s \in S : s <= r

LEMMA Highest ==
    ASSUME NEW T \in SUBSET Nat, IsFiniteSet(T), T # {}
    PROVE  HasHighest(T)
<1> DEFINE Bad == {S \in SUBSET T : S # {} /\ ~HasHighest(S)}
<1>1. SUFFICES ASSUME T \in Bad PROVE FALSE
  OBVIOUS
<1> DEFINE Sizes == {Cardinality(S) : S \in Bad}
<1>2. \A S \in SUBSET T : IsFiniteSet(S) /\ Cardinality(S) \in Nat
  BY FS_Subset, FS_CardinalityType
<1>3. Sizes \in SUBSET Nat /\ Sizes # {}
  BY <1>1, <1>2
<1>4. PICK S \in Bad : \A R \in Bad : Cardinality(S) <= Cardinality(R)
  <2> HIDE DEF Sizes
  <2>1. PICK n \in Sizes : \A m \in Sizes : n <= m
    BY <1>3, LeastNumber
  <2>2. QED
    BY <2>1 DEF Sizes
<1>5. PICK x \in S : x \in Nat
  BY <1>4
<1> DEFINE R == S \ {x}
<1>6. R \in SUBSET T /\ Cardinality(R) < Cardinality(S)
  <2>1. Cardinality(R) = Cardinality(S) - 1
    BY <1>2, <1>4, <1>5, FS_RemoveElement
  <2>2. QED
    BY <1>2, <1>4, <2>1
<1>7. R \notin Bad
  BY <1>2, <1>4, <1>6
<1>8. CASE R = {}
  <2>1. \A s \in S : s <= x
    BY <1>5, <1>8
  <2>2. QED
    BY <1>4, <1>5, <2>1 DEF HasHighest
<1>9. CASE R # {}
  <2>1. PICK r \in R : \A s \in R : s <= r
    BY <1>6, <1>7, <1>9 DEF HasHighest
  <2>2. \A s \in S : s \in Nat
    BY <1>4
  <2>3. CASE x <= r
    BY <1>4, <1>5, <2>1, <2>2, <2>3 DEF HasHighest
  <2>4. CASE ~(x <= r)
    <3>1. \A s \in S : s <= x
      BY <1>5, <2>1, <2>2, <2>4
    <3>2. QED
      BY <1>4, <1>5, <3>1 DEF HasHighest
  <2>5. QED
    BY <2>3, <2>4
<1>10. QED
  BY <1>8, <1>9

\* The server always resolves the header to a role that is held.
LEMMA EffectiveIsHeld ==
    ASSUME NEW h \in Header, NEW R \in (SUBSET Role) \ {{}}
    PROVE  Effective(h, R) \in R /\ Profile(h, R) \in Profiles
<1>1. R \in SUBSET Nat /\ IsFiniteSet(R)
  BY FS_Subset, SessionAssumption
<1>2. Effective(h, R) \in R
  <2>1. \E r \in R : \A s \in R : s <= r
    BY <1>1, Highest DEF HasHighest
  <2>2. QED
    BY <2>1, Zenon DEF Effective
<1>3. QED
  BY <1>2 DEF Profile, Profiles

-----------------------------------------------------------------------------
(* Entries of the cache. *)

LEMMA AskedTab ==
    ASSUME NEW V, NEW c \in TabEntries(V)
    PROVE  /\ Ask(c) \in TabEntries(V) /\ IsTabEntry(Ask(c), V)
           /\ Ask(c).data = c.data /\ Ask(c).stale = c.stale /\ Ask(c).missed = c.missed
           /\ Ask(c).answer = {} /\ Ask(c).fetch = "asked"
           /\ \A H : /\ ActsOnly(Ask(c), H)
                     /\ c.stale \/ ShowsOnly(c, H) => ShowsOnly(Ask(c), H)
<1>1. [data |-> c.data, stale |-> c.stale, failed |-> c.failed] \in TabSnapshots(V)
  BY DEF TabEntries, TabSnapshots
<1>2. Ask(c) \in TabEntries(V)
  BY <1>1 DEF Ask, TabEntries, Loaded
<1>3. /\ Ask(c).data = c.data /\ Ask(c).stale = c.stale /\ Ask(c).missed = c.missed
      /\ Ask(c).answer = {} /\ Ask(c).fetch = "asked"
  BY <1>1 DEF Ask, TabEntries, Loaded
<1>4. QED
  BY <1>2, <1>3 DEF IsTabEntry, ActsOnly, ShowsOnly, Carries

\* Mounts, failures and promises that never settle.
LEMMA TabSteps ==
    ASSUME NEW V, NEW c, IsTabEntry(c, V), NEW old \in BOOLEAN
    PROVE  /\ IsTabEntry(Mount(c, old), V) /\ IsTabEntry(Fail(c), V)
           /\ IsTabEntry([c EXCEPT !.fetch = "hung", !.answer = {}], V)
           /\ \A H : /\ ShowsOnly(c, H) => ShowsOnly(Mount(c, old), H)
                     /\ ShowsOnly(Fail(c), H) /\ ActsOnly(Fail(c), H)
                     /\ ActsOnly([c EXCEPT !.fetch = "hung", !.answer = {}], H)
                     /\ ShowsOnly(c, H) =>
                            ShowsOnly([c EXCEPT !.fetch = "hung", !.answer = {}], H)
<1>1. c \in TabEntries(V)
  BY DEF IsTabEntry
<1>2. IsTabEntry(Mount(c, old), V) /\ \A H : ShowsOnly(c, H) => ShowsOnly(Mount(c, old), H)
  BY <1>1, AskedTab DEF Mount
<1>3. IsTabEntry(Fail(c), V) /\ \A H : ShowsOnly(Fail(c), H) /\ ActsOnly(Fail(c), H)
  <2>1. NotAsked \in TabSnapshots(V)
    BY DEF NotAsked, TabSnapshots
  <2>2. Fail(c) \in TabEntries(V)
    BY <1>1, <2>1 DEF Fail, TabEntries
  <2>3. Fail(c).fetch = "idle" /\ Fail(c).stale /\ Fail(c).failed
    BY <1>1 DEF Fail, TabEntries
  <2>4. QED
    BY <2>2, <2>3 DEF IsTabEntry, ShowsOnly, ActsOnly, Carries
<1>4. /\ IsTabEntry([c EXCEPT !.fetch = "hung", !.answer = {}], V)
      /\ \A H : /\ ActsOnly([c EXCEPT !.fetch = "hung", !.answer = {}], H)
                /\ ShowsOnly(c, H) => ShowsOnly([c EXCEPT !.fetch = "hung", !.answer = {}], H)
  <2> DEFINE h == [c EXCEPT !.fetch = "hung", !.answer = {}]
  <2>1. h \in TabEntries(V)
    BY <1>1 DEF TabEntries
  <2>2. h.fetch = "hung" /\ h.data = c.data /\ h.stale = c.stale /\ h.missed = c.missed
    BY <1>1 DEF TabEntries
  <2> HIDE DEF h
  <2>3. IsTabEntry(h, V) /\ \A H : ActsOnly(h, H) /\ (ShowsOnly(c, H) => ShowsOnly(h, H))
    BY <2>1, <2>2 DEF IsTabEntry, ShowsOnly, ActsOnly, Carries
  <2>4. QED
    BY <2>3 DEF h
<1>5. QED
  BY <1>2, <1>3, <1>4

LEMMA EmptyTab ==
    ASSUME NEW V
    PROVE  Empty \in TabEntries(V) /\ IsTabEntry(Empty, V)
           /\ \A H : ActsOnly(Empty, H) /\ ShowsOnly(Empty, H)
<1>1. Empty \in TabEntries(V)
  BY DEF Empty, TabEntries, TabSnapshots, NotAsked
<1>2. Empty.data = {} /\ Empty.fetch = "idle"
  BY DEF Empty
<1>3. QED
  BY <1>1, <1>2 DEF IsTabEntry, ActsOnly, ShowsOnly, Carries, AskedAs

\* An answer is put in its place.
LEMMA ArrivedTab ==
    ASSUME NEW V, NEW c, IsTabEntry(c, V), c.fetch = "answered"
    PROVE  /\ IsTabEntry(Arrive(c), V)
           /\ \A H : /\ ActsOnly(c, H) => ActsOnly(Arrive(c), H)
                     /\ ShowsOnly(c, H) => ShowsOnly(Arrive(c), H)
<1>1. c \in TabEntries(V) /\ c.answer \subseteq V
  BY DEF IsTabEntry
<1>2. NotAsked \in TabSnapshots(V)
  BY DEF NotAsked, TabSnapshots
<1>3. Arrive(c) \in TabEntries(V)
  BY <1>1, <1>2 DEF Arrive, TabEntries
<1>4. Arrive(c).fetch = "idle" /\ Arrive(c).data = c.answer /\ Arrive(c).missed = c.late
  BY <1>1 DEF Arrive, TabEntries
<1>5. QED
  BY <1>3, <1>4 DEF IsTabEntry, ActsOnly, ShowsOnly, Carries

\* The server answers under the header of the request.
LEMMA ReadTab ==
    ASSUME NEW V, NEW c, IsTabEntry(c, V), c.fetch = "asked", NEW v \in V
    PROVE  /\ IsTabEntry(Read(c, v, TRUE), V)
           /\ v.as \in c.answer =>
                \A H : /\ ActsOnly(c, H) => ActsOnly(Read(c, v, TRUE), H)
                       /\ ShowsOnly(c, H) => ShowsOnly(Read(c, v, TRUE), H)
<1>1. c \in TabEntries(V)
  BY DEF IsTabEntry
<1>2. Read(c, v, TRUE) \in TabEntries(V)
  BY <1>1 DEF Read, TabEntries
<1>3. /\ Read(c, v, TRUE).fetch = "answered" /\ Read(c, v, TRUE).answer = {v}
      /\ Read(c, v, TRUE).data = c.data /\ Read(c, v, TRUE).stale = c.stale
      /\ Read(c, v, TRUE).missed = c.missed /\ Read(c, v, TRUE).late = c.late
  BY <1>1 DEF Read, TabEntries
<1>4. QED
  BY <1>2, <1>3 DEF IsTabEntry, ActsOnly, ShowsOnly, Carries, AskedAs

\* An invalidated entry is asked for at once or when it is next in use; a loaded
\* one that is in use, at once.
LEMMA InvalidatedTab ==
    ASSUME NEW V, NEW c, IsTabEntry(c, V), NEW yes \in BOOLEAN
    PROVE  /\ IsTabEntry(Invalidate(c, yes), V)
           /\ \A H : /\ ShowsOnly(Invalidate(c, yes), H)
                     /\ yes /\ Loaded(c) => ActsOnly(Invalidate(c, yes), H)
<1> DEFINE marked == [c EXCEPT !.stale = TRUE]
<1>1. /\ marked \in TabEntries(V) /\ marked.stale
      /\ marked.answer = c.answer /\ marked.fetch = c.fetch
  BY DEF IsTabEntry, TabEntries
<1>2. /\ IsTabEntry(Ask(marked), V)
      /\ \A H : ActsOnly(Ask(marked), H) /\ ShowsOnly(Ask(marked), H)
  BY <1>1, AskedTab
<1>3. CASE Invalidate(c, yes) = Ask(marked)
  BY <1>2, <1>3
<1>4. CASE /\ ~(yes /\ Loaded(c))
           /\ Invalidate(c, yes) = [marked EXCEPT !.late = @ \/ Fetching(c)]
  <2>1. Fetching(c) \in BOOLEAN
    BY DEF Fetching
  <2>2. /\ Invalidate(c, yes) \in TabEntries(V) /\ Invalidate(c, yes).stale
        /\ Invalidate(c, yes).answer = c.answer /\ Invalidate(c, yes).fetch = c.fetch
        /\ Fetching(c) => Invalidate(c, yes).late
    BY <1>1, <1>4, <2>1 DEF TabEntries
  <2>3. QED
    BY <1>4, <2>2 DEF IsTabEntry, ShowsOnly, Carries, Fetching
<1>5. QED
  BY <1>3, <1>4 DEF Invalidate

\* A request that starts takes the header of the role in storage.
LEMMA StampedTab ==
    ASSUME NEW c, NEW k \in Key, NEW V, IsTabEntry(c[k], V), NEW role \in Header
    PROVE  /\ IsTabEntry(Stamped(c, role)[k], V)
           /\ \A H : role \in H =>
                /\ ActsOnly(c[k], H) => ActsOnly(Stamped(c, role)[k], H)
                /\ ShowsOnly(c[k], H) => ShowsOnly(Stamped(c, role)[k], H)
<1>1. CASE Stamped(c, role)[k] = c[k]
  BY <1>1
<1>2. CASE /\ c[k].fetch = "asked"
           /\ Stamped(c, role)[k] = [c[k] EXCEPT !.answer = {role}]
  <2> DEFINE s == [c[k] EXCEPT !.answer = {role}]
  <2>1. s \in TabEntries(V)
    BY DEF IsTabEntry, TabEntries
  <2>2. /\ s.answer = {role} /\ s.fetch = c[k].fetch /\ s.late = c[k].late /\ s.data = c[k].data
        /\ s.stale = c[k].stale /\ s.missed = c[k].missed /\ s.failed = c[k].failed
    BY DEF IsTabEntry, TabEntries
  <2> HIDE DEF s
  <2>3. /\ IsTabEntry(s, V)
        /\ \A H : role \in H => /\ ActsOnly(c[k], H) => ActsOnly(s, H)
                                /\ ShowsOnly(c[k], H) => ShowsOnly(s, H)
    BY <1>2, <2>1, <2>2 DEF IsTabEntry, ActsOnly, ShowsOnly, Carries
  <2>4. QED
    BY <1>2, <2>3 DEF s
<1>3. QED
  BY <1>1, <1>2 DEF Stamped

-----------------------------------------------------------------------------
(* Steps. *)

\* One entry changes.
LEMMA EntryChanges ==
    ASSUME TabInv, UNCHANGED <<page, leaving, active, dropped, held>>,
           demoToken' \in {"none", "live", "dead"},
           NEW k \in Key, NEW e,
           queries' = [queries EXCEPT ![k] = e], IsTabEntry(e, Content(k)),
           ActsOnly(queries[k], {active}) => ActsOnly(e, {active}),
           ShowsOnly(queries[k], {active} \cup dropped) => ShowsOnly(e, {active} \cup dropped)
    PROVE  TabInv'
<1>1. TabTypes'
  BY DEF TabInv, TabTypes, Header
<1>2. \A j \in Key : queries'[j] = IF j = k THEN e ELSE queries[j]
  BY DEF TabInv, CacheTypes
<1>3. CacheTypes'
  <2>1. queries' = [j \in Key |-> queries'[j]]
    BY DEF TabInv, CacheTypes
  <2>2. QED
    BY <1>2, <2>1 DEF TabInv, CacheTypes
<1>4. Follows'
  BY <1>2 DEF TabInv, Follows, Key
<1>5. QED
  BY <1>1, <1>3, <1>4 DEF TabInv

\* The tab is elsewhere or on its way: nothing is claimed of what it shows.
LEMMA NothingShown ==
    ASSUME TabTypes', queries' = [k \in Key |-> queries'[k]],
           \A k \in Key : IsTabEntry(queries'[k], Content(k)),
           page' # "app" \/ leaving' # "stay"
    PROVE  TabInv'
BY DEF TabInv, CacheTypes, Follows

\* A page that loads asks for the profile, in the role in storage.
LEMMA FreshCache ==
    ASSUME active \in Header, NEW yes \in BOOLEAN,
           queries' = Stamped(
               [k \in Key |-> IF k = "me" /\ yes THEN Ask(Empty) ELSE Empty],
               active)
    PROVE  /\ queries' = [k \in Key |-> queries'[k]]
           /\ \A k \in Key : IsTabEntry(queries'[k], Content(k))
           /\ yes => ActsOnly(queries'["me"], {active})
           /\ \A H : active \in H => ShowsOnly(queries'["screen"], H)
<1> DEFINE c == [k \in Key |-> IF k = "me" /\ yes THEN Ask(Empty) ELSE Empty]
<1>1. \A k \in Key : /\ IsTabEntry(c[k], Content(k))
                     /\ \A H : ActsOnly(c[k], H) /\ ShowsOnly(c[k], H)
  BY EmptyTab, AskedTab
<1> HIDE DEF c
<1>2. queries' = Stamped(c, active)
  BY DEF c
<1>3. queries' = [k \in Key |-> queries'[k]]
  BY <1>2 DEF Stamped
<1>4. "me" \in Key /\ "screen" \in Key
  BY DEF Key
<1>5. QED
  BY <1>1, <1>2, <1>3, <1>4, StampedTab

LEMMA Loads ==
    ASSUME TabInv, Load, UNCHANGED <<demoToken, active, held>>
    PROVE  TabInv'
<1>1. page' \in {"login", "app"} /\ leaving' = "stay" /\ dropped' = {}
  BY DEF Load
<1>2. TabTypes'
  BY <1>1 DEF TabInv, TabTypes, Header
<1>3. active \in Header /\ (page' = "app") \in BOOLEAN
  BY DEF TabInv, TabTypes
<1>4. /\ queries' = [k \in Key |-> queries'[k]]
      /\ \A k \in Key : IsTabEntry(queries'[k], Content(k))
      /\ page' = "app" => ActsOnly(queries'["me"], {active})
      /\ ShowsOnly(queries'["screen"], {active} \cup {})
  BY <1>3, FreshCache DEF Load
<1>5. QED
  BY <1>1, <1>2, <1>4 DEF TabInv, CacheTypes, Follows

LEMMA Returns ==
    ASSUME TabInv, Return
    PROVE  TabInv'
<1>1. /\ page' \in {"login", "app"} /\ dropped' = {}
      /\ UNCHANGED <<leaving, demoToken, active, held>>
  BY DEF Return
<1>2. TabTypes'
  BY <1>1 DEF TabInv, TabTypes, Header
<1>3. active \in Header /\ (page' = "app") \in BOOLEAN
  BY DEF TabInv, TabTypes
<1>4. /\ queries' = [k \in Key |-> queries'[k]]
      /\ \A k \in Key : IsTabEntry(queries'[k], Content(k))
      /\ page' = "app" => ActsOnly(queries'["me"], {active})
      /\ ShowsOnly(queries'["screen"], {active} \cup {})
  BY <1>3, FreshCache DEF Return
<1>5. QED
  BY <1>1, <1>2, <1>4 DEF TabInv, CacheTypes, Follows

\* Steps that leave the cache and the role alone.
LEMMA Departs ==
    ASSUME TabInv, Unload \/ Depart \/ Login \/ DemoLogin \/ Launched
    PROVE  TabInv'
<1>1. CASE Unload
  BY <1>1, Loads DEF Unload, storage
<1>2. CASE Depart
  <2>1. TabTypes'
    BY <1>2 DEF Depart, storage, TabInv, TabTypes, Header
  <2>2. queries' = [k \in Key |-> Empty]
    BY <1>2 DEF Depart
  <2>3. QED
    BY <1>2, <2>1, <2>2, EmptyTab, NothingShown DEF Depart
<1>3. CASE Login
  <2>1. TabTypes'
    BY <1>3 DEF Login, storage, TabInv, TabTypes, Header
  <2>2. QED
    BY <1>3, <2>1 DEF Login, TabInv, CacheTypes, Follows
<1>4. CASE DemoLogin
  <2>1. TabTypes'
    BY <1>4 DEF DemoLogin, storage, TabInv, TabTypes, Header
  <2>2. QED
    BY <1>4, <2>1 DEF DemoLogin, TabInv, CacheTypes, Follows
<1>5. CASE Launched
  <2>1. TabTypes'
    BY <1>5 DEF Launched, TabInv, TabTypes, Header
  <2>2. QED
    BY <1>5, <2>1 DEF Launched, TabInv, CacheTypes, Follows
<1>6. QED
  BY <1>1, <1>2, <1>3, <1>4, <1>5

LEMMA Browses ==
    ASSUME TabInv, Navigate
    PROVE  TabInv'
<1>1. UNCHANGED <<page, leaving, active, dropped, held, demoToken>>
  BY DEF Navigate, storage
<1>2. TabTypes'
  BY <1>1 DEF TabInv, TabTypes, Header
<1>3. CASE queries' = queries
  BY <1>1, <1>2, <1>3 DEF TabInv, CacheTypes, Follows
<1>4. ASSUME NEW old \in BOOLEAN,
             queries' = Stamped([queries EXCEPT !["screen"] = Mount(@, old)], active)
      PROVE  TabInv'
  <2> DEFINE c == [queries EXCEPT !["screen"] = Mount(@, old)]
  <2>1. /\ \A k \in Key : IsTabEntry(c[k], Content(k))
        /\ "me" \in Key /\ "screen" \in Key
        /\ c["me"] = queries["me"]
        /\ \A H : ShowsOnly(queries["screen"], H) => ShowsOnly(c["screen"], H)
    BY TabSteps DEF TabInv, CacheTypes, Key
  <2> HIDE DEF c
  <2>2. queries' = Stamped(c, active) /\ active \in Header
    BY <1>4 DEF c, TabInv, TabTypes
  <2>3. CacheTypes'
    <3>1. queries' = [k \in Key |-> queries'[k]]
      BY <2>2 DEF Stamped
    <3>2. QED
      BY <2>1, <2>2, <3>1, StampedTab DEF CacheTypes
  <2>4. Follows'
    BY <1>1, <2>1, <2>2, StampedTab DEF TabInv, Follows
  <2>5. QED
    BY <1>2, <2>3, <2>4 DEF TabInv
<1>5. QED
  BY <1>3, <1>4 DEF Navigate

LEMMA Polls ==
    ASSUME TabInv, Poll
    PROVE  TabInv'
<1>1. UNCHANGED <<page, leaving, active, dropped, held, demoToken>>
  BY DEF Poll, storage, place
<1>2. TabTypes'
  BY <1>1 DEF TabInv, TabTypes, Header
<1> DEFINE c == [queries EXCEPT !["count"] = Ask(@)]
<1>3. /\ \A k \in Key : IsTabEntry(c[k], Content(k))
      /\ "me" \in Key /\ "screen" \in Key
      /\ c["me"] = queries["me"] /\ c["screen"] = queries["screen"]
  BY AskedTab DEF TabInv, CacheTypes, Key, IsTabEntry
<1> HIDE DEF c
<1>4. queries' = Stamped(c, active) /\ active \in Header
  BY DEF c, Poll, TabInv, TabTypes
<1>5. CacheTypes'
  <2>1. queries' = [k \in Key |-> queries'[k]]
    BY <1>4 DEF Stamped
  <2>2. QED
    BY <1>3, <1>4, <2>1, StampedTab DEF CacheTypes
<1>6. Follows'
  BY <1>1, <1>3, <1>4, StampedTab DEF TabInv, Follows
<1>7. QED
  BY <1>2, <1>5, <1>6 DEF TabInv

\* What an entry that is loaded holds.
LEMMA ShownProfile ==
    ASSUME TabInv, Loaded(queries["me"])
    PROVE  Value(queries["me"]) \in queries["me"].data /\ Value(queries["me"]) \in Profiles
<1>1. IsTabEntry(queries["me"], Profiles)
  BY DEF TabInv, CacheTypes, Key, Content
<1>2. QED
  BY <1>1 DEF Loaded, Value, IsTabEntry, TabEntries

\* A switch asks for the profile in the new role, and for everything else by then.
LEMMA Switches ==
    ASSUME TabInv, NEW role \in Role, SwitchRole(role)
    PROVE  TabInv'
<1>1. /\ UNCHANGED <<page, leaving, held, demoToken>>
      /\ active' = role /\ dropped' = {} /\ role \in Header
      /\ Loaded(queries["me"]) /\ queries' = Invalidated(queries, role)
  BY DEF SwitchRole, Shown, Header
<1>2. TabTypes'
  BY <1>1 DEF TabInv, TabTypes, Header
<1> DEFINE c == [k \in Key |-> Invalidate(queries[k], InUse(k))]
<1>3. /\ \A k \in Key : InUse(k) \in BOOLEAN
      /\ InUse("me") /\ "me" \in Key /\ "screen" \in Key
  BY DEF InUse, Key
<1>4. \A k \in Key : IsTabEntry(queries[k], Content(k))
  BY DEF TabInv, CacheTypes
<1>5. \A k \in Key : IsTabEntry(c[k], Content(k)) /\ \A H : ShowsOnly(c[k], H)
  BY <1>3, <1>4, InvalidatedTab
<1>6. \A H : ActsOnly(c["me"], H)
  BY <1>1, <1>3, <1>4, InvalidatedTab
<1>7. queries' = Stamped(c, role)
  BY <1>1 DEF Invalidated
<1> HIDE DEF c
<1>8. CacheTypes'
  <2>1. queries' = [k \in Key |-> queries'[k]]
    BY <1>7 DEF Stamped
  <2>2. QED
    BY <1>1, <1>5, <1>7, <2>1, StampedTab DEF CacheTypes
<1>9. Follows'
  BY <1>1, <1>3, <1>5, <1>6, <1>7, StampedTab DEF Follows
<1>10. QED
  BY <1>2, <1>8, <1>9 DEF TabInv

LEMMA Leaves ==
    ASSUME TabInv, Logout
    PROVE  TabInv'
<1>1. TabTypes' /\ leaving' # "stay"
  BY DEF Logout, TabInv, TabTypes, Header, NoRole
<1>2. queries' = queries \/ queries' = [queries EXCEPT !["me"] = Empty]
  BY DEF Logout
<1>3. /\ queries' = [k \in Key |-> queries'[k]]
      /\ \A k \in Key : IsTabEntry(queries'[k], Content(k))
  BY <1>2, EmptyTab DEF TabInv, CacheTypes
<1>4. QED
  BY <1>1, <1>3, NothingShown

LEMMA Serves ==
    ASSUME TabInv, NEW k \in Key, Serve(k)
    PROVE  TabInv'
<1> DEFINE roles == IF demoToken = "live" THEN {CHOOSE r \in Role : TRUE} ELSE held
           value(h) == CASE k = "me" -> Profile(h, roles)
                         [] k = "count" -> Plain(NoRole)
                         [] OTHER -> Plain(h)
<1>1. UNCHANGED <<page, leaving, active, dropped, held, demoToken>>
  BY DEF Serve, storage, place
<1>2. IsTabEntry(queries[k], Content(k)) /\ queries[k].fetch = "asked"
  BY DEF Serve, TabInv, CacheTypes
<1>3. PICK h \in queries[k].answer : queries' = [queries EXCEPT ![k] = Read(@, value(h), TRUE)]
  BY DEF Serve
<1>4. h \in Header
  BY <1>2, <1>3 DEF IsTabEntry
<1>5. roles \in (SUBSET Role) \ {{}}
  BY SessionAssumption DEF TabInv, TabTypes
<1>6. value(h) \in Content(k) /\ (k # "count" => value(h).as = h)
  <2> HIDE DEF roles
  <2>1. Profile(h, roles) \in Profiles /\ Profile(h, roles).as = h
    BY <1>4, <1>5, EffectiveIsHeld DEF Profile
  <2>2. \A g \in Header : Plain(g) \in Plains /\ Plain(g).as = g
    BY DEF Plain, Plains
  <2>3. NoRole \in Header
    BY DEF Header
  <2>4. QED
    BY <1>4, <2>1, <2>2, <2>3 DEF Content
<1> HIDE DEF value
<1> DEFINE e == Read(queries[k], value(h), TRUE)
<1>7. /\ IsTabEntry(e, Content(k))
      /\ k # "count" => \A H : /\ ActsOnly(queries[k], H) => ActsOnly(e, H)
                               /\ ShowsOnly(queries[k], H) => ShowsOnly(e, H)
  BY <1>2, <1>3, <1>6, ReadTab
<1>8. queries' = [queries EXCEPT ![k] = e]
  BY <1>3
<1> HIDE DEF e
<1>9. CASE k = "count"
  <2>1. \A j \in Key : queries'[j] = IF j = k THEN e ELSE queries[j]
    BY <1>8 DEF TabInv, CacheTypes
  <2>2. CacheTypes'
    <3>1. queries' = [j \in Key |-> queries'[j]]
      BY <1>8 DEF TabInv, CacheTypes
    <3>2. QED
      BY <1>7, <2>1, <3>1 DEF TabInv, CacheTypes
  <2>3. TabTypes' /\ Follows'
    BY <1>1, <1>9, <2>1 DEF TabInv, TabTypes, Header, Follows, Key
  <2>4. QED
    BY <2>2, <2>3 DEF TabInv
<1>10. CASE k # "count"
  BY <1>1, <1>7, <1>8, <1>10, EntryChanges DEF TabInv, TabTypes
<1>11. QED
  BY <1>9, <1>10

\* Requests that fail or are never settled.
LEMMA Fails ==
    ASSUME TabInv, NEW k \in Key, queries' = [queries EXCEPT ![k] = Fail(@)] \/ Hang(k),
           UNCHANGED <<active, dropped, held, page>>,
           demoToken' \in {"none", "live", "dead"},
           leaving' = leaving \/ leaving' \in {"login", "microsoft"}
    PROVE  TabInv'
<1>1. IsTabEntry(queries[k], Content(k))
  BY DEF TabInv, CacheTypes
<1>2. PICK e : /\ queries' = [queries EXCEPT ![k] = e] /\ IsTabEntry(e, Content(k))
               /\ \A H : ActsOnly(e, H) /\ (ShowsOnly(queries[k], H) => ShowsOnly(e, H))
  <2>1. CASE queries' = [queries EXCEPT ![k] = Fail(@)]
    BY <1>1, <2>1, TabSteps
  <2>2. CASE Hang(k)
    <3> DEFINE e == [queries[k] EXCEPT !.fetch = "hung", !.answer = {}]
    <3>1. queries' = [queries EXCEPT ![k] = e]
      BY <2>2, <1>1 DEF Hang, IsTabEntry, TabEntries
    <3>2. /\ IsTabEntry(e, Content(k))
          /\ \A H : ActsOnly(e, H) /\ (ShowsOnly(queries[k], H) => ShowsOnly(e, H))
      BY <1>1, TabSteps, FALSE \in BOOLEAN
    <3> HIDE DEF e
    <3>3. QED
      BY <3>1, <3>2
  <2>3. QED
    BY <2>1, <2>2
<1>3. CASE leaving' = leaving
  BY <1>2, <1>3, EntryChanges
<1>4. CASE leaving' \in {"login", "microsoft"}
  <2>1. TabTypes'
    BY <1>4 DEF TabInv, TabTypes, Header
  <2>2. /\ queries' = [j \in Key |-> queries'[j]]
        /\ \A j \in Key : IsTabEntry(queries'[j], Content(j))
    BY <1>2 DEF TabInv, CacheTypes
  <2>3. QED
    BY <1>4, <2>1, <2>2, NothingShown
<1>5. QED
  BY <1>3, <1>4

LEMMA Refusals ==
    ASSUME TabInv, NEW k \in Key,
           Lost(k) \/ UnauthorizedDemo(k) \/ Unauthorized(k) \/ Interact(k)
    PROVE  TabInv'
<1>1. CASE Lost(k)
  BY <1>1, Fails DEF Lost, place, storage, TabInv, TabTypes
<1>2. CASE UnauthorizedDemo(k)
  BY <1>2, Fails DEF UnauthorizedDemo
<1>3. CASE Unauthorized(k)
  BY <1>3, Fails DEF Unauthorized, storage, TabInv, TabTypes
<1>4. CASE Interact(k)
  BY <1>4, Fails DEF Interact, storage, TabInv, TabTypes
<1>5. QED
  BY <1>1, <1>2, <1>3, <1>4

\* An answer comes; a profile without the role in storage takes it away.
LEMMA Answers ==
    ASSUME TabInv, NEW k \in Key, ResponseArrives(k)
    PROVE  TabInv'
<1> DEFINE arrived == [queries EXCEPT ![k] = Arrive(@)]
           mounted == IF Shown(arrived) /\ ~Shown(queries) /\ at = "screen"
                      THEN [arrived EXCEPT !["screen"] = Mount(@, FALSE)] ELSE arrived
           drops == k = "me" /\ Stale(arrived)
           c == IF drops THEN [mounted EXCEPT !["me"] = Invalidate(@, TRUE)] ELSE mounted
           Same(d, e) == \A H : /\ ActsOnly(d["me"], H) => ActsOnly(e["me"], H)
                                /\ ShowsOnly(d["screen"], H) => ShowsOnly(e["screen"], H)
           Typed(d) == /\ d = [j \in Key |-> d[j]]
                       /\ \A j \in Key : IsTabEntry(d[j], Content(j))
<1>1. /\ UNCHANGED <<page, leaving, held, demoToken>>
      /\ active' = IF drops THEN NoRole ELSE active
      /\ dropped' = IF drops THEN {active} ELSE dropped
      /\ queries' = Stamped(c, active')
  BY DEF ResponseArrives, place
<1>2. "me" \in Key /\ "screen" \in Key
  BY DEF Key
<1>3. Typed(queries) /\ queries[k].fetch = "answered"
  BY DEF ResponseArrives, TabInv, CacheTypes
<1>4. Typed(arrived) /\ Same(queries, arrived)
  <2>1. \A j \in Key : arrived[j] = IF j = k THEN Arrive(queries[k]) ELSE queries[j]
    BY <1>3
  <2>2. IsTabEntry(queries[k], Content(k))
    BY <1>3
  <2>3. /\ IsTabEntry(Arrive(queries[k]), Content(k))
        /\ \A H : /\ ActsOnly(queries[k], H) => ActsOnly(Arrive(queries[k]), H)
                  /\ ShowsOnly(queries[k], H) => ShowsOnly(Arrive(queries[k]), H)
    BY <1>3, <2>2, ArrivedTab
  <2>4. Same(queries, arrived)
    BY <1>2, <2>1, <2>3
  <2>5. \A j \in Key : IsTabEntry(arrived[j], Content(j))
    BY <1>3, <2>1, <2>3
  <2>6. QED
    BY <1>3, <2>4, <2>5
<1> HIDE DEF arrived
<1>5. Typed(mounted) /\ Same(arrived, mounted) /\ mounted["me"] = arrived["me"]
  <2>1. CASE mounted = arrived
    BY <1>4, <2>1
  <2>2. CASE mounted = [arrived EXCEPT !["screen"] = Mount(@, FALSE)]
    <3>1. \A j \in Key :
              mounted[j] = IF j = "screen" THEN Mount(arrived["screen"], FALSE) ELSE arrived[j]
      BY <1>4, <2>2
    <3>2. IsTabEntry(arrived["screen"], Content("screen"))
      BY <1>2, <1>4
    <3>3. /\ IsTabEntry(Mount(arrived["screen"], FALSE), Content("screen"))
          /\ \A H : ShowsOnly(arrived["screen"], H) =>
                        ShowsOnly(Mount(arrived["screen"], FALSE), H)
      BY <3>2, TabSteps
    <3>4. QED
      BY <1>2, <1>4, <2>2, <3>1, <3>3
  <2>3. QED
    BY <2>1, <2>2
<1> HIDE DEF mounted
<1>6. CASE drops
  <2>1. /\ active \in Role /\ active' = NoRole /\ dropped' = {active} /\ NoRole \in Header
        /\ Loaded(arrived["me"])
    BY <1>1, <1>6 DEF Stale, Shown, TabInv, TabTypes, Header
  <2>2. TabTypes'
    BY <1>1, <2>1 DEF TabInv, TabTypes, Header
  <2>3. IsTabEntry(mounted["me"], Content("me")) /\ Loaded(mounted["me"])
    BY <1>2, <1>5, <2>1
  <2>4. /\ IsTabEntry(Invalidate(mounted["me"], TRUE), Content("me"))
        /\ \A H : ActsOnly(Invalidate(mounted["me"], TRUE), H)
    BY <2>3, InvalidatedTab
  <2>5. c = [mounted EXCEPT !["me"] = Invalidate(@, TRUE)]
    BY <1>6
  <2> HIDE DEF c, drops
  <2>6. \A j \in Key :
            c[j] = IF j = "me" THEN Invalidate(mounted["me"], TRUE) ELSE mounted[j]
    BY <1>5, <2>5
  <2>7. \A j \in Key : IsTabEntry(c[j], Content(j))
    BY <1>5, <2>4, <2>6
  <2>8. \A H : /\ ActsOnly(c["me"], H)
               /\ ShowsOnly(queries["screen"], H) => ShowsOnly(c["screen"], H)
    BY <1>2, <1>4, <1>5, <2>4, <2>6
  <2>9. queries' = Stamped(c, NoRole)
    BY <1>1, <2>1
  <2>10. CacheTypes'
    <3>1. queries' = [j \in Key |-> queries'[j]]
      BY <2>9 DEF Stamped
    <3>2. QED
      BY <2>1, <2>7, <2>9, <3>1, StampedTab DEF CacheTypes
  <2>11. Follows'
    <3>1. dropped = {}
      BY <2>1, SessionAssumption DEF TabInv, TabTypes, NoRole
    <3>2. SUFFICES ASSUME page = "app", leaving = "stay"
                   PROVE  /\ ActsOnly(queries'["me"], {NoRole})
                          /\ ShowsOnly(queries'["screen"], {NoRole} \cup {active})
      BY <1>1, <2>1 DEF Follows
    <3>3. ShowsOnly(queries["screen"], {active})
      BY <3>1, <3>2 DEF TabInv, Follows
    <3>4. ShowsOnly(c["screen"], {NoRole} \cup {active})
      <4>1. ShowsOnly(c["screen"], {active})
        BY <2>8, <3>3
      <4>2. QED
        BY <4>1 DEF ShowsOnly, Carries, AskedAs
    <3>5. QED
      BY <1>2, <2>1, <2>7, <2>8, <2>9, <3>4, StampedTab
  <2>12. QED
    BY <2>2, <2>10, <2>11 DEF TabInv
<1>7. CASE ~drops
  <2>1. /\ active' = active /\ dropped' = dropped /\ c = mounted
    BY <1>1, <1>7
  <2> HIDE DEF c, drops
  <2>2. TabTypes'
    BY <1>1, <2>1 DEF TabInv, TabTypes, Header
  <2>3. queries' = Stamped(mounted, active) /\ active \in Header
    BY <1>1, <2>1 DEF TabInv, TabTypes
  <2>4. CacheTypes'
    <3>1. queries' = [j \in Key |-> queries'[j]]
      BY <2>3 DEF Stamped
    <3>2. QED
      BY <1>5, <2>3, <3>1, StampedTab DEF CacheTypes
  <2>5. Follows'
    BY <1>1, <1>2, <1>4, <1>5, <2>1, <2>3, StampedTab DEF TabInv, Follows
  <2>6. QED
    BY <2>2, <2>4, <2>5 DEF TabInv
<1>8. QED
  BY <1>6, <1>7

-----------------------------------------------------------------------------
(* The theorems. *)

\* In the beginning there is the login page, and nothing in the cache.
LEMMA TabBegins == SessionInit => TabInv
<1> SUFFICES ASSUME SessionInit PROVE TabInv
  OBVIOUS
<1>1. /\ queries = [k \in Key |-> Empty]
      /\ \A k \in Key : IsTabEntry(Empty, Content(k))
  BY EmptyTab DEF SessionInit
<1>2. QED
  BY <1>1 DEF SessionInit, TabInv, TabTypes, CacheTypes, Follows, Header

LEMMA TabStays ==
    TabInv /\ [SessionNext]_sessionVars => TabInv'
<1> SUFFICES ASSUME TabInv, [SessionNext]_sessionVars PROVE TabInv'
  OBVIOUS
<1>1. CASE Unload \/ Depart \/ Login \/ DemoLogin \/ Launched
  BY <1>1, Departs
<1>2. CASE Return
  BY <1>2, Returns
<1>3. CASE Navigate
  BY <1>3, Browses
<1>4. CASE Poll
  BY <1>4, Polls
<1>5. CASE Logout
  BY <1>5, Leaves
<1>6. CASE Reload
  BY <1>6, Loads DEF Reload, storage
<1>7. ASSUME NEW r \in Role, SwitchRole(r)
      PROVE  TabInv'
  BY <1>7, Switches
<1>8. ASSUME NEW k \in Key, \/ Serve(k) \/ ResponseArrives(k) \/ Lost(k)
                            \/ UnauthorizedDemo(k) \/ Unauthorized(k) \/ Interact(k)
      PROVE  TabInv'
  BY <1>8, Serves, Answers, Refusals
<1>9. CASE DemoEnds \/ AccountEnds \/ Reassign \/ UNCHANGED sessionVars
  <2>1. TabTypes' /\ UNCHANGED <<queries, page, leaving, active, dropped>>
    BY <1>9 DEF DemoEnds, AccountEnds, Reassign, sessionVars, place, storage,
                TabInv, TabTypes, Header
  <2>2. QED
    BY <2>1 DEF TabInv, CacheTypes, Follows
<1>10. QED
  BY <1>1, <1>2, <1>3, <1>4, <1>5, <1>6, <1>7, <1>8, <1>9 DEF SessionNext

\* The inductive invariant of ClientSession: what every request under way was or
\* will be asked under, and what the entries hold.
THEOREM TabInvariance == SessionSpec => []TabInv
BY TabBegins, TabStays, PTL DEF SessionSpec

\* A profile in the cache acts in one of its roles.
LEMMA TypesHold == TabInv => SessionTypeOK
<1> SUFFICES ASSUME TabInv PROVE SessionTypeOK
  OBVIOUS
<1>1. Loaded(queries["me"]) => Value(queries["me"]).role \in Value(queries["me"]).roles
  BY ShownProfile DEF Profiles
<1>2. QED
  BY <1>1 DEF TabInv, TabTypes, SessionTypeOK, Header

\* TypeOK of ClientSession (AuthContext, activeRole, the query cache): roles and
\* sessions keep their types, and a profile always acts in one of the roles it
\* lists (resolveActiveRole).
THEOREM TabTypeCorrect == SessionSpec => []SessionTypeOK
BY TabInvariance, TypesHold, PTL

LEMMA ChoiceHolds == TabInv => RoleFollowsChoice
<1> SUFFICES ASSUME TabInv, page = "app", leaving = "stay"
             PROVE  RoleFollowsChoice
  BY DEF RoleFollowsChoice
<1>1. ASSUME Shown(queries), ~Fetching(queries["me"])
      PROVE  Value(queries["me"]).role = Effective(active, Value(queries["me"]).roles)
  <2>1. /\ Value(queries["me"]) \in queries["me"].data /\ Value(queries["me"]) \in Profiles
        /\ queries["me"].fetch = "idle" /\ ~queries["me"].failed
    BY <1>1, ShownProfile DEF Shown, Fetching
  <2>2. Value(queries["me"]).as = active
    BY <2>1 DEF TabInv, Follows, ActsOnly, AskedAs
  <2>3. QED
    BY <2>1, <2>2 DEF Profiles
<1>2. ASSUME Loaded(queries["screen"]), ~queries["screen"].stale, ~queries["screen"].missed
      PROVE  Value(queries["screen"]).as \in {active} \cup dropped
  <2>1. Value(queries["screen"]) \in queries["screen"].data
    BY <1>2 DEF Value, Loaded
  <2>2. QED
    BY <1>2, <2>1 DEF TabInv, Follows, ShowsOnly, AskedAs
<1>3. QED
  BY <1>1, <1>2 DEF RoleFollowsChoice

\* RoleFollowsChoice of ClientSession (switchRole and the effect of AuthContext that
\* drops a lost role): the name's role is the one last chosen, and a page shows what
\* was asked for in it, or in a role found lost since.
THEOREM RoleIsChosen == SessionSpec => []RoleFollowsChoice
BY TabInvariance, ChoiceHolds, PTL
=============================================================================
