------------------------------- MODULE SignIn -------------------------------
(***************************************************************************)
(* authenticate: from an Entra ID token to a row of users and a role.      *)
(*                                                                         *)
(* The directory changes accounts and issues tokens; a token keeps what    *)
(* the directory said when it was issued, so requests with tokens of       *)
(* different age run side by side.  One action per database round trip.    *)
(* A display name is the oid of the account it comes from.  Demo and stub  *)
(* sessions do not pass here.  Rows of security_events are written best    *)
(* effort and read by no action; of LOGIN_SUCCESS the model keeps what one *)
(* life of the map of loginEvents has recorded.  The map is memory of the  *)
(* process, which may stop at any moment; the rows of users stay.          *)
(*                                                                         *)
(* Definitions named Promoting... or Hasty... are broken on purpose and    *)
(* take no part in SignInSpec.                                             *)
(***************************************************************************)
EXTENDS Naturals, FiniteSets

CONSTANTS Oid, Email, Request,
          Address,      \* [Oid -> Email]: the addresses accounts have at first
          Known,        \* accounts that may have signed in before
          NoRow,        \* the null findByEntraId returns
          Window,       \* FRESH_WINDOW_MS
          MaxEntries,   \* MAX_ENTRIES
          MaxTicks,     \* bound: of the clock
          MaxEvents     \* bound: other things that happen outside the server

Role == {"ADMIN", "MANAGER", "EMPLOYEE"}
Row == [email : Email, name : Oid, role : Role, active : BOOLEAN]

ASSUME SignInAssumption ==
    /\ Address \in [Oid -> Email]
    /\ \A o, p \in Oid : Address[o] = Address[p] => o = p
    /\ Known \subseteq Oid
    /\ NoRow \notin Row
    /\ Window \in Nat /\ MaxEntries \in Nat
    /\ MaxTicks \in Nat /\ MaxEvents \in Nat

VARIABLES account,   \* [Oid -> email and app roles in Entra ID]
          tokens,    \* tokens that verify
          users,     \* [Oid -> row of users]
          req,       \* [Request -> authenticate]
          seen,      \* the map of loginEvents: <<oid, iat>> with recordedAt
          now,
          events,    \* what has happened outside so far
          recorded,  \* ghost: <<oid, iat>> with a LOGIN_SUCCESS since seen was last emptied
          repeated   \* ghost: keys that were recorded again in that time

directory == <<account, tokens, now, events>>
logbook == <<seen, recorded, repeated>>
signInVars == <<directory, users, req, logbook>>

Idle == [phase |-> "idle"]

Key(t) == <<t.oid, t.iat>>

\* What the directory puts into a token.
TokenFor(o) == [oid |-> o, email |-> account[o].email, roles |-> account[o].roles, iat |-> now]

\* resolveRoles orders the roles; the first one is the canonical role.
Canonical(roles) ==
    IF "ADMIN" \in roles THEN "ADMIN"
    ELSE IF "MANAGER" \in roles THEN "MANAGER"
    ELSE IF "EMPLOYEE" \in roles THEN "EMPLOYEE" ELSE "none"

\* Earlier sign-ins of Known accounts may have left rows, with the addresses and the
\* role of their time; each of them also has a token, issued a tick ago.
LeftBehind(o, row) ==
    row # NoRow => o \in Known /\ row.name = o /\ row.role = "MANAGER" /\ row.active

HasEmail(p, e) == users[p] # NoRow /\ users[p].email = e

SignInInit ==
    /\ account = [o \in Oid |-> [email |-> Address[o], roles |-> {"EMPLOYEE"}]]
    /\ users \in [Oid -> Row \cup {NoRow}]
    /\ \A o \in Oid : LeftBehind(o, users[o])
    /\ \A o, p \in Oid, e \in Email : HasEmail(o, e) /\ HasEmail(p, e) => o = p
    /\ now = 1 /\ events = 0
    /\ tokens = {[TokenFor(o) EXCEPT !.iat = 0] : o \in Known}
    /\ req = [r \in Request |-> Idle]
    /\ seen = {} /\ recorded = {} /\ repeated = {}

-----------------------------------------------------------------------------
(* Outside the server: Entra ID, the clock, the operator who sets is_active, and the *)
(* host, which may stop the process.                                                 *)

Happens == events < MaxEvents /\ events' = events + 1

\* An account gets other roles, or an address no account has at the moment.
ChangeAccount(o) ==
    /\ Happens
    /\ \/ \E roles \in {{}, {"EMPLOYEE"}, {"EMPLOYEE", "MANAGER"}} :
             account' = [account EXCEPT ![o].roles = roles]
       \/ \E e \in Email :
             /\ \A p \in Oid : account[p].email # e
             /\ account' = [account EXCEPT ![o].email = e]
    /\ UNCHANGED <<tokens, now, users, req, logbook>>

Fresh(iat) == now - iat <= Window

IssueToken(o) ==
    /\ Happens
    /\ tokens' = tokens \cup {TokenFor(o)}
    /\ UNCHANGED <<account, now, users, req, logbook>>

\* Tokens are good for longer than the window.
TokenExpires(t) ==
    /\ ~Fresh(t.iat)
    /\ tokens' = tokens \ {t}
    /\ UNCHANGED <<account, now, events, users, req, logbook>>

Tick ==
    /\ now < MaxTicks
    /\ now' = now + 1
    /\ UNCHANGED <<account, tokens, events, users, req, logbook>>

SetActive(o, active) ==
    /\ users[o] # NoRow
    /\ users[o].active # active
    /\ Happens
    /\ users' = [users EXCEPT ![o].active = active]
    /\ UNCHANGED <<account, tokens, now, req, logbook>>

\* A stop, by scaling to zero or otherwise, and a cold start.
Restart ==
    /\ Happens
    /\ req' = [r \in Request |-> Idle]
    /\ seen' = {} /\ recorded' = {}
    /\ UNCHANGED <<account, tokens, now, users, repeated>>

-----------------------------------------------------------------------------
(* authenticate up to the role sync. *)

At(r, phase) == req[r].phase = phase
Continues(r, phase) == req' = [req EXCEPT ![r].phase = phase]
Ends(r) == req' = [req EXCEPT ![r] = Idle]

\* verifyToken; without a recognised role the request ends with a 403.
Present(r, t) ==
    /\ At(r, "idle")
    /\ t.roles # {}
    /\ req' = [req EXCEPT ![r] = [phase |-> "upsert", token |-> t]]
    /\ UNCHANGED <<directory, users, logbook>>

\* INSERT ... ON DUPLICATE KEY UPDATE.  users has two unique keys: a new oid with
\* the address of another row updates that row, and a known oid cannot take the
\* address of another row.
Upsert(r) ==
    LET t == req[r].token
        o == t.oid
        others == {p \in Oid \ {o} : HasEmail(p, t.email)}
    IN  /\ At(r, "upsert")
        /\ \/ /\ users[o] = NoRow /\ others = {}
              /\ users' = [users EXCEPT ![o] = [email |-> t.email, name |-> o,
                                                role |-> Canonical(t.roles), active |-> TRUE]]
           \/ /\ users[o] # NoRow /\ others = {}
              /\ users' = [users EXCEPT ![o].email = t.email, ![o].name = o]
           \/ /\ users[o] = NoRow
              /\ \E p \in others : users' = [users EXCEPT ![p].name = o]
        /\ Continues(r, "load")
        /\ UNCHANGED <<directory, logbook>>

ActiveRole(roles, header) == IF header \in roles THEN header ELSE Canonical(roles)

HastyKept == {entry \in seen : now - entry[2] < Window}

\* prune: old entries go, and all of them when there are still too many.
Kept == {entry \in seen : now - entry[2] <= Window}

\* recordLoginSuccess, for a request that is let in.
RecordLogin(t) ==
    \/ /\ Fresh(t.iat)
       /\ \A entry \in seen : entry[1] # Key(t)
       /\ LET full == Cardinality(Kept) > MaxEntries
              before == IF full THEN {} ELSE recorded
          IN  /\ seen' = (IF full THEN {} ELSE Kept) \cup {<<Key(t), now>>}
              /\ recorded' = before \cup {Key(t)}
              /\ repeated' = repeated \cup (before \cap {Key(t)})
    \/ /\ ~Fresh(t.iat) \/ \E entry \in seen : entry[1] = Key(t)
       /\ UNCHANGED logbook

\* is_active of the row last read; X-Active-Role may narrow the role; the handler,
\* or the role gate before it, goes on from there.
Concludes(r, active) ==
    \/ ~active /\ Ends(r) /\ UNCHANGED logbook
    \/ /\ active
       /\ \E header \in Role \cup {"none"} :
             req' = [req EXCEPT ![r] = [phase |-> "served", oid |-> req[r].token.oid,
                                        role |-> ActiveRole(req[r].token.roles, header)]]
       /\ RecordLogin(req[r].token)

PromotingNeedsSync(role, canonical) == role = "EMPLOYEE" /\ canonical # role

NeedsSync(role, canonical) == role # canonical

\* findByEntraId; without a row the upsert throws, which is a 401.
Load(r) ==
    LET t == req[r].token
        row == users[t.oid]
    IN  /\ At(r, "load")
        /\ \/ row = NoRow /\ Ends(r) /\ UNCHANGED logbook
           \/ /\ row # NoRow
              /\ NeedsSync(row.role, Canonical(t.roles))
              /\ Continues(r, "sync")
              /\ UNCHANGED logbook
           \/ /\ row # NoRow
              /\ ~NeedsSync(row.role, Canonical(t.roles))
              /\ Concludes(r, row.active)
        /\ UNCHANGED <<directory, users>>

-----------------------------------------------------------------------------
(* The role sync. *)

\* updateRole's UPDATE.
Sync(r) ==
    LET t == req[r].token
    IN  /\ At(r, "sync")
        /\ users' = [users EXCEPT ![t.oid].role = Canonical(t.roles)]
        /\ Continues(r, "reload")
        /\ UNCHANGED <<directory, logbook>>

\* updateRole's findById.
Reload(r) ==
    /\ At(r, "reload")
    /\ req' = [req EXCEPT ![r] = [phase |-> "event", token |-> req[r].token,
                                  active |-> users[req[r].token.oid].active]]
    /\ UNCHANGED <<directory, users, logbook>>

\* The ROLE_CHANGED row has been written, or not; then as without a sync.
RecordRoleChange(r) ==
    /\ At(r, "event")
    /\ Concludes(r, req[r].active)
    /\ UNCHANGED <<directory, users>>

\* The handler runs and answers.
Finish(r) ==
    /\ At(r, "served")
    /\ Ends(r)
    /\ UNCHANGED <<directory, users, logbook>>

\* A statement fails, for its own reasons or on uk_email: 401.
AuthFails(r) ==
    /\ \E phase \in {"upsert", "load", "sync", "reload"} : At(r, phase)
    /\ Ends(r)
    /\ UNCHANGED <<directory, users, logbook>>

Step(r) ==
    Upsert(r) \/ Load(r) \/ Sync(r) \/ Reload(r) \/ RecordRoleChange(r) \/ Finish(r) \/ AuthFails(r)

SignInNext ==
    \/ \E o \in Oid : \/ ChangeAccount(o) \/ IssueToken(o)
                      \/ \E active \in BOOLEAN : SetActive(o, active)
    \/ \E t \in tokens : TokenExpires(t)
    \/ Tick \/ Restart
    \/ \E r \in Request : Step(r) \/ \E t \in tokens : Present(r, t)

\* A request does not hang: every statement ends, with or without success.
SignInFairness == \A r \in Request : WF_signInVars(Step(r))

SignInSpec == SignInInit /\ [][SignInNext]_signInVars /\ SignInFairness

-----------------------------------------------------------------------------
(* Properties. *)

Keys == Oid \X (0 .. now)

SignInTypeOK ==
    /\ users \in [Oid -> Row \cup {NoRow}]
    /\ \A r \in Request : req[r] # Idle =>
          /\ req[r].phase \in {"upsert", "load", "sync", "reload", "event", "served"}
          /\ req[r].phase = "served" => req[r].role \in Role
    /\ seen \subseteq Keys \X (0 .. now)
    /\ recorded \subseteq Keys /\ repeated \subseteq Keys

\* "Entra is the source of truth": tokens of different age may flip the stored role,
\* but once all valid tokens of an account agree, and it keeps signing in, the row
\* agrees with them for good.
RoleSettles ==
    \A o \in Oid, role \in Role :
        /\ <>[](\A t \in tokens : t.oid = o => Canonical(t.roles) = role)
        /\ []<>(\E r \in Request : At(r, "served") /\ req[r].oid = o)
        => <>[](users[o] # NoRow /\ users[o].role = role)

\* One LOGIN_SUCCESS per freshly issued token in one life of the map, although prune
\* drops tokens from it: what it drops can no longer count as a sign-in, whenever the
\* token was recorded.  That life ends where prune clears the map at its cap, and with
\* the process; then a token that is still fresh may be recorded once more.
OneLoginPerToken == repeated = {}
=============================================================================
