------------------------ MODULE DemoWorkspaces_proofs ------------------------
(***************************************************************************)
(* Theorems about DemoWorkspaces for any number of workspaces, launches,   *)
(* requests and reaper ticks, any cap and any batch.                       *)
(***************************************************************************)
EXTENDS DemoWorkspaces, FiniteSetTheorems, TLAPS

Handler == [phase : {"idle", "load", "check", "write"}, by : Place,
            op : {"submit", "decide"}, on : Place]

-----------------------------------------------------------------------------
(* Types. *)

\* Clock, launches and reaper: their tables keep their types.
LEMMA JobsKeepTypes ==
    ASSUME TypeOK,
           \/ \E w \in Workspace : Age(w)
           \/ \E l \in Launch : CheckCapacity(l) \/ \E w \in Workspace : CreateWorkspace(l, w)
           \/ \E t \in Reaper : ReaperSelect(t) \/ ReaperCommit(t) \/ ReaperFails(t)
    PROVE  TypeOK'
<1>1. ASSUME NEW w \in Workspace, Age(w) PROVE TypeOK'
  BY <1>1 DEF TypeOK, Age
<1>2. ASSUME NEW l \in Launch, CheckCapacity(l) PROVE TypeOK'
  BY <1>2 DEF TypeOK, CheckCapacity, LaunchGoes
<1>3. ASSUME NEW l \in Launch, NEW w \in Workspace, CreateWorkspace(l, w) PROVE TypeOK'
  BY <1>3 DEF TypeOK, CreateWorkspace, LaunchGoes, Place
<1>4. ASSUME NEW t \in Reaper, ReaperSelect(t) PROVE TypeOK'
  BY <1>4 DEF TypeOK, ReaperSelect
<1>5. ASSUME NEW t \in Reaper, ReaperCommit(t) PROVE TypeOK'
  BY <1>5 DEF TypeOK, ReaperCommit
<1>6. ASSUME NEW t \in Reaper, ReaperFails(t) PROVE TypeOK'
  BY <1>6 DEF TypeOK, ReaperFails
<1>7. QED
  BY <1>1, <1>2, <1>3, <1>4, <1>5, <1>6

\* A request handler is replaced by one of its kind.
LEMMA RequestsKeepTypes ==
    ASSUME TypeOK, NEW r \in Request,
           \/ \E q, p \in Place, op \in {"submit", "decide"} : Arrive(r, q, op, p)
           \/ Load(r) \/ Check(r) \/ Write(r)
    PROVE  TypeOK'
<1>1. Idle \in Handler
  BY DEF Idle, Handler, Place
<1>2. req \in [Request -> Handler]
  BY DEF TypeOK, Handler
<1>3. ASSUME NEW phase \in {"check", "write"}, Moves(r, phase) PROVE req' \in [Request -> Handler]
  BY <1>2, <1>3 DEF Moves, Handler
<1>4. Ends(r) => req' \in [Request -> Handler]
  BY <1>1, <1>2 DEF Ends
<1>5. ASSUME NEW q \in Place, NEW p \in Place, NEW op \in {"submit", "decide"},
             Arrive(r, q, op, p)
      PROVE  TypeOK'
  <2>1. req' \in [Request -> Handler]
    BY <1>2, <1>5 DEF Arrive, Handler
  <2>2. QED
    BY <1>5, <2>1 DEF Arrive, TypeOK, Handler
<1>6. CASE Load(r)
  BY <1>3, <1>4, <1>6 DEF Load, TypeOK, Handler
<1>7. CASE Check(r)
  BY <1>3, <1>4, <1>7 DEF Check, TypeOK, Handler
<1>8. CASE Write(r)
  <2>1. req[r].by \in Place /\ req[r].on \in Place
    BY <1>2 DEF Handler
  <2>2. QED
    BY <1>4, <1>8, <2>1 DEF Write, TypeOK, Handler
<1>9. QED
  BY <1>5, <1>6, <1>7, <1>8

\* Rows, clocks, launches, requests and ticks keep their types.
THEOREM TypeCorrect == Spec => []TypeOK
<1>1. Init => TypeOK
  BY DEF Init, TypeOK, Idle, Place
<1>2. TypeOK /\ [Next]_vars => TypeOK'
  <2> SUFFICES ASSUME TypeOK, [Next]_vars PROVE TypeOK'
    OBVIOUS
  <2>1. CASE UNCHANGED vars
    BY <2>1 DEF vars, TypeOK
  <2>2. CASE Next
    BY <2>2, JobsKeepTypes, RequestsKeepTypes DEF Next
  <2>3. QED
    BY <2>1, <2>2
<1>3. QED
  BY <1>1, <1>2, PTL DEF Spec

-----------------------------------------------------------------------------
(* The boundary.  The check is made one await before the write, so the      *)
(* invariant speaks of handlers that are past it.                           *)

\* A session that is about to write was let through for its own workspace.
AdmittedInside ==
    \A r \in Request : req[r].phase = "write" /\ req[r].by \in Workspace
                           => req[r].on = req[r].by

BoundaryInv == AdmittedInside /\ SessionsStayInside

\* Every way into the phase before the write keeps to the caller's workspace.
LEMMA AdmittedInsideStep ==
    ASSUME TypeOK, AdmittedInside, [Next]_vars
    PROVE  AdmittedInside'
<1>1. CASE UNCHANGED req
  BY <1>1 DEF AdmittedInside
<1>2. ASSUME NEW r \in Request, Ends(r) PROVE AdmittedInside'
  BY <1>2 DEF AdmittedInside, Ends, Idle, TypeOK
<1>3. ASSUME NEW r \in Request, NEW q \in Place, NEW p \in Place,
             NEW op \in {"submit", "decide"}, Arrive(r, q, op, p)
      PROVE  AdmittedInside'
  BY <1>3 DEF AdmittedInside, Arrive, TypeOK
<1>4. ASSUME NEW r \in Request, Moves(r, "check") PROVE AdmittedInside'
  BY <1>4 DEF AdmittedInside, Moves, TypeOK
<1>5. ASSUME NEW r \in Request, MayDecide(req[r].by, req[r].on), Moves(r, "write")
      PROVE  AdmittedInside'
  BY <1>5 DEF AdmittedInside, MayDecide, Moves, TypeOK
<1>6. QED
  BY <1>1, <1>2, <1>3, <1>4, <1>5
     DEF Next, vars, Age, CheckCapacity, CreateWorkspace, Load, Check, Write,
         ReaperSelect, ReaperCommit, ReaperFails

\* The trail grows by seeding and by writes, and shrinks by reaping.
LEMMA SessionsStayInsideStep ==
    ASSUME TypeOK, BoundaryInv, [Next]_vars
    PROVE  SessionsStayInside'
<1>1. CASE UNCHANGED auditLog
  BY <1>1 DEF BoundaryInv, SessionsStayInside
<1>2. ASSUME NEW l \in Launch, NEW w \in Workspace, CreateWorkspace(l, w)
      PROVE  SessionsStayInside'
  BY <1>2 DEF CreateWorkspace, BoundaryInv, SessionsStayInside
<1>3. ASSUME NEW r \in Request, Write(r) PROVE SessionsStayInside'
  BY <1>3 DEF Write, BoundaryInv, AdmittedInside, SessionsStayInside
<1>4. ASSUME NEW t \in Reaper, ReaperCommit(t) PROVE SessionsStayInside'
  BY <1>4 DEF ReaperCommit, BoundaryInv, SessionsStayInside
<1>5. QED
  BY <1>1, <1>2, <1>3, <1>4
     DEF Next, vars, Age, CheckCapacity, Arrive, Load, Check, ReaperSelect, ReaperFails

\* A demo session leaves audit entries on expenses of its own workspace only, whatever
\* ids it asks for and whatever the reaper and real administrators do meanwhile
\* (verifyManagerRelationship).
THEOREM Boundary == Spec => []SessionsStayInside
<1>1. Init => BoundaryInv
  BY DemoAssumption DEF Init, Idle, BoundaryInv, AdmittedInside, SessionsStayInside
<1>2. TypeOK /\ BoundaryInv /\ [Next]_vars => BoundaryInv'
  BY AdmittedInsideStep, SessionsStayInsideStep DEF BoundaryInv
<1>3. BoundaryInv => SessionsStayInside
  BY DEF BoundaryInv
<1>4. QED
  BY <1>1, <1>2, <1>3, TypeCorrect, PTL DEF Spec

-----------------------------------------------------------------------------
(* The cap. *)

Creating == {l \in Launch : launching[l] = "creating"}

CapInv == IsFiniteSet(users) /\ OvershootBounded

\* The sets that are counted are finite.
LEMMA CountedSets ==
    ASSUME IsFiniteSet(users)
    PROVE  /\ IsFiniteSet(Active) /\ Cardinality(Active) \in Nat
           /\ IsFiniteSet(Creating) /\ Cardinality(Creating) \in Nat
           /\ Cardinality(Creating) <= Cardinality(Launch)
           /\ Cardinality(Launch) \in Nat
BY FS_Subset, FS_CardinalityType, DemoAssumption DEF Active, Creating

\* No step but a creation adds a workspace; when neither that set nor the set of
\* launches on their way grows, the bound stays.
LEMMA FewerKeepBound ==
    ASSUME CapInv, IsFiniteSet(users'), Active' \subseteq Active, Creating' \subseteq Creating
    PROVE  CapInv'
<1>1. /\ IsFiniteSet(Active) /\ Cardinality(Active) \in Nat
      /\ IsFiniteSet(Creating) /\ Cardinality(Creating) \in Nat
      /\ Cardinality(Launch) \in Nat
  BY CountedSets DEF CapInv
<1>2. /\ Cardinality(Active') <= Cardinality(Active) /\ Cardinality(Active') \in Nat
      /\ Cardinality(Creating') <= Cardinality(Creating) /\ Cardinality(Creating') \in Nat
  BY <1>1, FS_Subset, FS_CardinalityType
<1>3. Cardinality(Active) + Cardinality(Creating) <= Cap - 1 + Cardinality(Launch)
  BY DEF CapInv, OvershootBounded, Creating
<1>4. Cardinality(Active') + Cardinality(Creating') <= Cap - 1 + Cardinality(Launch)
  BY <1>1, <1>2, <1>3, DemoAssumption
<1>5. QED
  BY <1>4 DEF CapInv, OvershootBounded, Creating

\* The launch that passes the count found room, and all launches together are no more
\* than can be in flight.
LEMMA CheckKeepsBound ==
    ASSUME TypeOK, CapInv, NEW l \in Launch, CheckCapacity(l)
    PROVE  CapInv'
<1>1. Active' = Active /\ users' = users
  BY DEF CheckCapacity, Active
<1>2. Creating' \subseteq Launch
  BY DEF Creating
<1>3. Cardinality(Creating') \in Nat /\ Cardinality(Creating') <= Cardinality(Launch)
  BY <1>2, FS_Subset, FS_CardinalityType, DemoAssumption
<1>4. Cardinality(Active) \in Nat /\ Cardinality(Launch) \in Nat
  BY CountedSets DEF CapInv
<1>5. Cardinality(Active) < Cap
  BY DEF CheckCapacity, HasRoom
<1>6. Cardinality(Active') + Cardinality(Creating') <= Cap - 1 + Cardinality(Launch)
  BY <1>1, <1>3, <1>4, <1>5, DemoAssumption
<1>7. QED
  BY <1>1, <1>6 DEF CapInv, OvershootBounded, Creating

\* A creation trades a launch on its way for at most one workspace.
LEMMA CreationKeepsBound ==
    ASSUME TypeOK, CapInv, NEW l \in Launch, NEW w \in Workspace, CreateWorkspace(l, w)
    PROVE  CapInv'
<1>1. /\ IsFiniteSet(users) /\ IsFiniteSet(Active) /\ Cardinality(Active) \in Nat
      /\ IsFiniteSet(Creating) /\ Cardinality(Creating) \in Nat
      /\ Cardinality(Launch) \in Nat
  BY CountedSets DEF CapInv
<1>2. Creating' = Creating \ {l} /\ l \in Creating
  BY DEF CreateWorkspace, LaunchGoes, Creating, TypeOK
<1>3. Cardinality(Creating') = Cardinality(Creating) - 1
  BY <1>1, <1>2, FS_RemoveElement
<1>4. IsFiniteSet(users') /\ Active' \subseteq Active \cup {w}
  <2>1. CASE UNCHANGED <<age, users>>
    BY <1>1, <2>1 DEF Active
  <2>2. CASE age' = [age EXCEPT ![w] = "live"] /\ users' = users \cup {w}
    BY <1>1, <2>2, FS_AddElement DEF Active, TypeOK
  <2>3. QED
    BY <2>1, <2>2 DEF CreateWorkspace
<1>5. Cardinality(Active') \in Nat /\ Cardinality(Active') <= Cardinality(Active) + 1
  <2>1. /\ IsFiniteSet(Active \cup {w})
        /\ Cardinality(Active \cup {w}) \in Nat
        /\ Cardinality(Active \cup {w}) <= Cardinality(Active) + 1
    <3>1. /\ IsFiniteSet(Active \cup {w})
          /\ Cardinality(Active \cup {w})
               = IF w \in Active THEN Cardinality(Active) ELSE Cardinality(Active) + 1
      BY <1>1, FS_AddElement
    <3>2. QED
      BY <1>1, <3>1
  <2>2. QED
    BY <1>1, <1>4, <2>1, FS_Subset, FS_CardinalityType
<1>6. Cardinality(Active) + Cardinality(Creating) <= Cap - 1 + Cardinality(Launch)
  BY DEF CapInv, OvershootBounded, Creating
<1>7. Cardinality(Active') + Cardinality(Creating') <= Cap - 1 + Cardinality(Launch)
  BY <1>1, <1>3, <1>5, <1>6, DemoAssumption
<1>8. QED
  BY <1>4, <1>7 DEF CapInv, OvershootBounded, Creating

\* demoLogin can pass its cap, but by no more than the launches that were between the
\* count and the creation at the same time.
THEOREM BoundedOvershoot == Spec => []OvershootBounded
<1>1. Init => CapInv
  <2> SUFFICES ASSUME Init PROVE CapInv
    OBVIOUS
  <2>1. users = {} /\ Active = {} /\ Creating = {}
    BY DEF Init, Active, Creating
  <2>2. IsFiniteSet(users) /\ Cardinality(Active) = 0 /\ Cardinality(Creating) = 0
    BY <2>1, FS_EmptySet
  <2>3. Cardinality(Launch) \in Nat
    BY DemoAssumption, FS_CardinalityType
  <2>4. QED
    BY <2>2, <2>3, DemoAssumption DEF CapInv, OvershootBounded, Creating
<1>2. TypeOK /\ CapInv /\ [Next]_vars => CapInv'
  <2> SUFFICES ASSUME TypeOK, CapInv, [Next]_vars PROVE CapInv'
    OBVIOUS
  <2>1. CASE UNCHANGED <<age, users, launching>>
    BY <2>1, FewerKeepBound DEF CapInv, Active, Creating
  <2>2. ASSUME NEW w \in Workspace, Age(w) PROVE CapInv'
    <3>1. Active' \subseteq Active /\ Creating' = Creating /\ users' = users
      BY <2>2 DEF Age, Active, Creating, TypeOK
    <3>2. QED
      BY <3>1, FewerKeepBound DEF CapInv
  <2>3. ASSUME NEW t \in Reaper, ReaperCommit(t) PROVE CapInv'
    <3>1. Active' \subseteq Active /\ Creating' = Creating /\ users' \subseteq users
      BY <2>3 DEF ReaperCommit, Active, Creating
    <3>2. IsFiniteSet(users')
      BY <3>1, FS_Subset DEF CapInv
    <3>3. QED
      BY <3>1, <3>2, FewerKeepBound
  <2>4. QED
    BY <2>1, <2>2, <2>3, CheckKeepsBound, CreationKeepsBound
       DEF Next, vars, Arrive, Load, Check, Write, ReaperSelect, ReaperFails
<1>3. CapInv => OvershootBounded
  BY DEF CapInv
<1>4. QED
  BY <1>1, <1>2, <1>3, TypeCorrect, PTL DEF Spec

=============================================================================
