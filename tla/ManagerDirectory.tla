-------------------------- MODULE ManagerDirectory --------------------------
(***************************************************************************)
(* Who manages whom, and what else the directory says of an employee:      *)
(* Microsoft Graph knows, the row in users remembers, and caches hold the  *)
(* last answers, a list of direct reports per manager and a profile per    *)
(* employee.                                                               *)
(*                                                                         *)
(* A queue request (getPendingApprovals, getManagerEmployees) takes the    *)
(* cached list or fetches one, reads the rows of these employees, moves    *)
(* manager_id to itself where it differs and drops the caches concerned;   *)
(* getManagerEmployees then copies the reports' attributes to their rows.  *)
(* A visit (getMyDirectory) copies those of its caller.  A check           *)
(* (verifyManagerRelationship before every decision and every look at      *)
(* somebody's expense) always fetches.  The list arrives page by page      *)
(* while the directory may change.                                         *)
(*                                                                         *)
(* An employee's attributes (department, title, office) change with the    *)
(* manager here, so the manager they belong to stands for them, and the    *)
(* list of m says m.  The groups that a visit stores too have no other     *)
(* writer and are left out.                                                *)
(*                                                                         *)
(* Definitions named Cached... or Timid... are broken on purpose and take  *)
(* no part in DirectorySpec.                                               *)
(***************************************************************************)
EXTENDS Naturals, FiniteSets

CONSTANTS Employee, Manager, Request,
          None,      \* SQL NULL; nobody
          First,     \* the directory at the beginning
          MaxMoves   \* bound: changes of the directory

ASSUME DirectoryAssumption ==
    /\ None \notin Manager
    /\ First \in [Employee -> Manager]
    /\ MaxMoves \in Nat

VARIABLES graph,    \* [Employee -> manager, and with him the attributes, in Entra ID]
          column,   \* [Employee -> users.manager_id]
          attrs,    \* [Employee -> users.department, job_title, ...]
          cache,    \* [Manager -> directReports entry]
          profile,  \* [Employee -> meProfile entry: {} or {attributes}]
          req,      \* [Request -> request handler]
          during,   \* ghost: [Request -> if a check, reports of its manager at some time since it began]
          moves

directoryVars == <<graph, column, attrs, cache, profile, req, during, moves>>
copies == <<column, attrs, cache, profile>>

Idle == [phase |-> "idle"]

\* A key of node-cache: nothing held, or a list, which may be empty.
Absent == [held |-> FALSE, list |-> {}]
Entry(list) == [held |-> TRUE, list |-> list]

ReportsOf(m) == {e \in Employee : graph[e] = m}

IsCheck(handler) == handler # Idle /\ handler.op = "check"

DirectoryInit ==
    /\ graph = First
    /\ column = [e \in Employee |-> None]
    /\ attrs = [e \in Employee |-> None]
    /\ cache = [m \in Manager |-> Absent]
    /\ profile = [e \in Employee |-> {}]
    /\ req = [r \in Request |-> Idle]
    /\ during = [r \in Request |-> {}]
    /\ moves = 0

-----------------------------------------------------------------------------
(* Outside the server. *)

\* An employee gets another manager, or none.
Move(e, m) ==
    /\ moves < MaxMoves
    /\ m # graph[e]
    /\ moves' = moves + 1
    /\ graph' = [graph EXCEPT ![e] = m]
    /\ during' = [r \in Request |-> IF IsCheck(req[r]) /\ req[r].who = m
                                    THEN during[r] \cup {e} ELSE during[r]]
    /\ UNCHANGED <<copies, req>>

\* node-cache drops an entry after its 15 minutes.
Expire(m) ==
    /\ cache[m] # Absent
    /\ cache' = [cache EXCEPT ![m] = Absent]
    /\ UNCHANGED <<graph, column, attrs, profile, req, during, moves>>

ExpireProfile(e) ==
    /\ profile[e] # {}
    /\ profile' = [profile EXCEPT ![e] = {}]
    /\ UNCHANGED <<graph, column, attrs, cache, req, during, moves>>

-----------------------------------------------------------------------------
(* The start of a request and getDirectReports. *)

At(r, phase) == req[r].phase = phase
Ends(r) == req' = [req EXCEPT ![r] = Idle] /\ during' = [during EXCEPT ![r] = {}]

Handler(m, op, e, phase, reports) ==
    [phase |-> phase, who |-> m, op |-> op, target |-> e, reports |-> reports,
     unread |-> Employee, seen |-> [x \in Employee |-> None]]

Begins(r, handler) ==
    /\ At(r, "idle")
    /\ req' = [req EXCEPT ![r] = handler]
    /\ during' = [during EXCEPT ![r] = IF IsCheck(handler) THEN ReportsOf(handler.who) ELSE {}]
    /\ UNCHANGED <<graph, copies, moves>>

\* The cache is asked unless the team page wants a new list.  An empty list, cached
\* or fetched, is answered from the database.
StartQueue(r, m) ==
    \/ Begins(r, Handler(m, "queue", None, "token", {}))
    \/ cache[m].list # {} /\ Begins(r, Handler(m, "queue", None, "match", cache[m].list))

CachedStartCheck(r, m, e) ==
    \/ cache[m] = Absent /\ Begins(r, Handler(m, "check", e, "token", {}))
    \/ e \in cache[m].list /\ Begins(r, Handler(m, "check", e, "allowed", cache[m].list))

\* forceRefresh: the cache is not asked.
StartCheck(r, m, e) == Begins(r, Handler(m, "check", e, "token", {}))

\* getGraphTokenOBO: the caller's token for one of Graph, cached or exchanged.
GetToken(r) ==
    /\ At(r, "token")
    /\ req' = [req EXCEPT ![r].phase = "fetch"]
    /\ UNCHANGED <<graph, copies, during, moves>>

\* One page of /me/directReports, with what the directory says at that moment.
ReadPage(r, e) ==
    /\ At(r, "fetch")
    /\ e \in req[r].unread
    /\ req' = [req EXCEPT ![r].unread = @ \ {e},
                          ![r].reports = IF graph[e] = req[r].who THEN @ \cup {e} ELSE @]
    /\ UNCHANGED <<graph, copies, during, moves>>

Continues(r, phase) ==
    req' = [req EXCEPT ![r].phase = phase] /\ UNCHANGED during

\* The last page is in: the list is cached, unless the cache is full, and used.
FetchDone(r) ==
    LET m == req[r].who
    IN  /\ At(r, "fetch")
        /\ req[r].unread = {}
        /\ cache' = [cache EXCEPT ![m] = Entry(req[r].reports)] \/ UNCHANGED cache
        /\ \/ req[r].op = "queue" /\ req[r].reports # {} /\ Continues(r, "match")
           \/ req[r].op = "queue" /\ req[r].reports = {} /\ Ends(r)
           \/ req[r].op = "check" /\ req[r].target \in req[r].reports /\ Continues(r, "allowed")
           \/ req[r].op = "check" /\ req[r].target \notin req[r].reports /\ Ends(r)
        /\ UNCHANGED <<graph, column, attrs, profile, moves>>

\* No token, or retries are used up, and nothing is cached: a queue is answered from
\* the database,
FallBack(r) ==
    /\ At(r, "token") \/ At(r, "fetch")
    /\ req[r].op = "queue"
    /\ Ends(r)
    /\ UNCHANGED <<graph, copies, moves>>

\* and a check fails closed.
FailClosed(r) ==
    /\ At(r, "token") \/ At(r, "fetch")
    /\ req[r].op = "check"
    /\ Ends(r)
    /\ UNCHANGED <<graph, copies, moves>>

\* The decision, or the look, the check was for.
Act(r) ==
    /\ At(r, "allowed")
    /\ Ends(r)
    /\ UNCHANGED <<graph, copies, moves>>

-----------------------------------------------------------------------------
(* The reconciliation of manager_id with the list. *)

\* findByEntraIds
Match(r) ==
    /\ At(r, "match")
    /\ req' = [req EXCEPT ![r].phase = "reassign", ![r].seen = column]
    /\ UNCHANGED <<graph, copies, during, moves>>

TimidToReassign(r) == {e \in req[r].reports : req[r].seen[e] = None}

\* The reports whose row, as read, names another manager or none.
ToReassign(r) == {e \in req[r].reports : req[r].seen[e] # req[r].who}

Reassigned(r) ==
    [e \in Employee |-> IF e \in ToReassign(r) THEN req[r].who ELSE column[e]]

\* The reports whose attributes are still to be written are kept in unread.
ThenSync(r) ==
    /\ req' = [req EXCEPT ![r] = [Handler(@.who, "queue", None, "sync", {})
                                  EXCEPT !.unread = req[r].reports]]
    /\ UNCHANGED during

\* One UPDATE for all of them; without any the handler goes on.  When the statement
\* fails, before or after its commit, nothing is dropped from the cache and the
\* answer comes from the database.
Reassign(r) ==
    /\ At(r, "reassign")
    /\ \/ Ends(r) /\ UNCHANGED column
       \/ ToReassign(r) = {} /\ ThenSync(r) /\ UNCHANGED column
       \/ /\ ToReassign(r) # {}
          /\ column' = Reassigned(r)
          /\ Continues(r, "invalidate") \/ Ends(r)
    /\ UNCHANGED <<graph, attrs, cache, profile, moves>>

\* The new manager and every previous one the rows named.
Concerned(r) == {req[r].who} \cup {req[r].seen[e] : e \in ToReassign(r)}

\* invalidateUser for these and the reports; then getPendingApprovals is done, and
\* getManagerEmployees goes on.
Invalidate(r) ==
    /\ At(r, "invalidate")
    /\ Ends(r) \/ ThenSync(r)
    /\ cache' = [m \in Manager |-> IF m \in Concerned(r) THEN Absent ELSE cache[m]]
    /\ profile' = [e \in Employee |-> IF e \in ToReassign(r) THEN {} ELSE profile[e]]
    /\ UNCHANGED <<graph, column, attrs, moves>>

\* syncOrgAttributesForUsers: an UPDATE of each report's row, in any order; what
\* fails leaves the others going.
Sync(r, e) ==
    /\ At(r, "sync")
    /\ e \in req[r].unread
    /\ attrs' = [attrs EXCEPT ![e] = req[r].who] \/ UNCHANGED attrs
    /\ IF req[r].unread = {e} THEN Ends(r)
       ELSE req' = [req EXCEPT ![r].unread = @ \ {e}] /\ UNCHANGED during
    /\ UNCHANGED <<graph, column, cache, profile, moves>>

-----------------------------------------------------------------------------
(* getMyDirectory. *)

\* says: the caller's attributes, once read.
Visitor(e, phase, says) == [phase |-> phase, op |-> "visit", who |-> e, says |-> says]

StartVisit(r, e) ==
    IF profile[e] = {} THEN Begins(r, Visitor(e, "me", {}))
    ELSE Begins(r, Visitor(e, "keep", profile[e]))

\* Graph answers /me.
ReadMe(r) ==
    /\ At(r, "me")
    /\ req' = [req EXCEPT ![r].phase = "read", ![r].says = {graph[req[r].who]}]
    /\ UNCHANGED <<graph, copies, during, moves>>

\* getMyOrgProfile caches the answer if there is room, also when a reading beside it
\* has failed; then nothing is stored.
MeArrives(r) ==
    /\ At(r, "read")
    /\ profile' = [profile EXCEPT ![req[r].who] = req[r].says] \/ UNCHANGED profile
    /\ Continues(r, "keep") \/ Ends(r)
    /\ UNCHANGED <<graph, column, attrs, cache, moves>>

\* A reading fails, and the answer comes from the database.
MeFails(r) ==
    /\ At(r, "me")
    /\ Ends(r)
    /\ UNCHANGED <<graph, copies, moves>>

\* setOrgAttributes on the caller's row, which may fail.
Keep(r) ==
    /\ At(r, "keep")
    /\ \E a \in req[r].says : attrs' = [attrs EXCEPT ![req[r].who] = a] \/ UNCHANGED attrs
    /\ Ends(r)
    /\ UNCHANGED <<graph, column, cache, profile, moves>>

DirectoryNext ==
    \/ \E e \in Employee, m \in Manager \cup {None} : Move(e, m)
    \/ \E m \in Manager : Expire(m)
    \/ \E e \in Employee : ExpireProfile(e)
    \/ \E r \in Request :
          \/ \E m \in Manager : StartQueue(r, m) \/ \E e \in Employee : StartCheck(r, m, e)
          \/ \E e \in Employee : ReadPage(r, e) \/ Sync(r, e) \/ StartVisit(r, e)
          \/ ReadMe(r) \/ MeArrives(r) \/ MeFails(r) \/ Keep(r)
          \/ GetToken(r) \/ FetchDone(r) \/ FallBack(r) \/ FailClosed(r) \/ Act(r)
          \/ Match(r) \/ Reassign(r) \/ Invalidate(r)

\* Cache entries have a time to live.
DirectoryFairness ==
    /\ \A m \in Manager : WF_directoryVars(Expire(m))
    /\ \A e \in Employee : WF_directoryVars(ExpireProfile(e))

DirectorySpec == DirectoryInit /\ [][DirectoryNext]_directoryVars /\ DirectoryFairness

-----------------------------------------------------------------------------
(* Properties. *)

\* Handlers that work with a list of reports, and visits.
ListHandler ==
    [phase : {"token", "fetch", "match", "reassign", "invalidate", "sync", "allowed"},
     who : Manager, op : {"queue", "check"}, target : Employee \cup {None},
     reports : SUBSET Employee, unread : SUBSET Employee,
     seen : [Employee -> Manager \cup {None}]]
VisitHandler ==
    [phase : {"me", "read", "keep"}, op : {"visit"}, who : Employee,
     says : SUBSET (Manager \cup {None})]

\* Types.
DirectoryTypeOK ==
    /\ graph \in [Employee -> Manager \cup {None}]
    /\ column \in [Employee -> Manager \cup {None}]
    /\ attrs \in [Employee -> Manager \cup {None}]
    /\ cache \in [Manager -> [held : BOOLEAN, list : SUBSET Employee]]
    /\ profile \in [Employee -> SUBSET (Manager \cup {None})]
    /\ req \in [Request -> {Idle} \cup ListHandler \cup VisitHandler]
    /\ during \in [Request -> SUBSET Employee]
    /\ moves \in 0 .. MaxMoves

\* approve, reject and every read of somebody else's expense: who is let through was
\* the manager at some moment of this very request; no cached list and no database
\* row ever stands in for the directory, whatever fails.
DecisionsAreLive ==
    \A r \in Request : At(r, "allowed") => req[r].target \in during[r]

\* The UPDATE of a queue request of m, if it needs one, has not failed.
ReconciledBy(m) ==
    \E r \in Request : /\ At(r, "reassign")
                       /\ req[r].who = m
                       /\ Reassign(r)
                       /\ column' = Reassigned(r)

\* The attributes of e are copied, for the team page of m or a visit of e.
CopiedFor(e, m) ==
    \E r \in Request : \/ Sync(r, e) /\ req[r].who = m /\ attrs'[e] = m
                       \/ Keep(r) /\ req[r].who = e /\ {attrs'[e]} = req[r].says

\* Stale answers heal: once the directory has settled on a manager whose queue
\* requests keep succeeding, manager_id names that manager for good, and attributes
\* that keep being copied become the directory's for good, whatever lists and
\* profiles other requests were still carrying.
HealsEventually ==
    \A e \in Employee, m \in Manager :
        <>[](graph[e] = m) =>
            /\ []<><<ReconciledBy(m)>>_directoryVars => <>[](column[e] = m)
            /\ []<><<CopiedFor(e, m)>>_directoryVars => <>[](attrs[e] = m)
=============================================================================
