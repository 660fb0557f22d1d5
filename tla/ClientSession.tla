---------------------------- MODULE ClientSession ----------------------------
(***************************************************************************)
(* One browser tab from sign-in to sign-out: which session it has, which   *)
(* role its user acts in, and what the 401 of a session that has ended     *)
(* does (services/api, context/AuthContext, services/activeRole,           *)
(* services/demoAuth, ProtectedRoute, RoleSwitcher, pages/Login).          *)
(*                                                                         *)
(* A visitor comes with a demo token or with an account at Microsoft.      *)
(* Three queries stand for all: "me" (GET /me), "screen" (a page whose     *)
(* contents depend on the role, under one key for every role) and "count"  *)
(* (the unread count, which polls).  A redirect takes time: until the page *)
(* is gone its scripts go on.                                              *)
(*                                                                         *)
(* The value of an entry is what the server served: the header it was      *)
(* served under and, as "me" does, the role and the roles.  The answer of  *)
(* a request that is on its way is the header it carries; one whose        *)
(* promise is never settled is "hung".                                     *)
(*                                                                         *)
(* Definitions named Forgetful... are broken on purpose and take no part   *)
(* in SessionSpec.                                                         *)
(***************************************************************************)
EXTENDS Naturals, FiniteSets, QueryCache

CONSTANTS Role,      \* ranks, higher numbers before lower ones
          MaxClicks, \* bound: what the user does
          MaxOthers  \* bound: changes of roles, failures

ASSUME SessionAssumption ==
    /\ Role \subseteq Nat \ {0} /\ IsFiniteSet(Role) /\ Role # {}
    /\ MaxClicks \in Nat /\ MaxOthers \in Nat

VARIABLES page,      \* "login", "app", or "microsoft" when the tab is there
          leaving,   \* where a redirect under way leads, or "stay"
          at,        \* "home" or "screen", under the app
          provider,  \* the session the app was mounted with, chosen when it loaded
          demoToken, \* in sessionStorage: "none", "live", or "dead" once it is refused
          active,    \* in sessionStorage: the role to act in, or NoRole
          account,   \* at MSAL: "none", "good", "revoked" (the API says 401) or
                     \* "expired" (no token without interaction)
          held,      \* roles assigned to the account
          queries,   \* the query cache
          redirectInFlight,
          launch,    \* POST /auth/demo-login is under way
          dropped,   \* ghost: the role taken from storage, because its user has lost
                     \* it, since the page was loaded or he last chose one, or {}
          clicks, others

sessionVars == <<page, leaving, at, provider, demoToken, active, account, held, queries,
                 redirectInFlight, launch, dropped, clicks, others>>
storage == <<demoToken, active, account>>
place == <<page, leaving, at, provider, redirectInFlight, launch>>

NoRole == 0
Key == {"me", "screen", "count"}

Value(e) == CHOOSE d \in e.data : TRUE

\* resolveActiveRole of the server: the header counts if it names a role one has.
Effective(header, roles) ==
    IF header \in roles THEN header ELSE CHOOSE r \in roles : \A s \in roles : s <= r

\* serializeMe: the role the request acted in, and all one has.
Profile(header, roles) == [as |-> header, role |-> Effective(header, roles), roles |-> roles]

\* The other answers show in whose role they were asked for; the count is the same
\* in every role.
Plain(as) == [as |-> as, role |-> NoRole, roles |-> {}]

\* The provider's user: nobody before GET /me is answered and after it failed.
Shown(c) == page = "app" /\ Loaded(c["me"]) /\ ~c["me"].failed

\* ProtectedRoute: "Unable to load your profile", with Retry and Sign out.
Unable == page = "app" /\ queries["me"].failed

\* The session the next request will carry is accepted.
Accepted == demoToken = "live" \/ (demoToken = "none" /\ account = "good")

\* api's request interceptor reads the role when a request starts.
Stamped(c, role) ==
    [k \in Key |-> IF c[k].fetch = "asked" /\ c[k].answer = {}
                   THEN [c[k] EXCEPT !.answer = {role}] ELSE c[k]]

SessionInit ==
    /\ page = "login" /\ leaving = "stay" /\ at = "home" /\ provider = "msal"
    /\ demoToken = "none" /\ active = NoRole /\ account = "none"
    /\ held \in (SUBSET Role) \ {{}}
    /\ queries = [k \in Key |-> Empty]
    /\ redirectInFlight = FALSE /\ launch = FALSE /\ dropped = {}
    /\ clicks = 0 /\ others = 0

Click == clicks < MaxClicks /\ clicks' = clicks + 1
Other == others < MaxOthers /\ others' = others + 1

-----------------------------------------------------------------------------
(* Page loads. *)

\* The app starts anew; sessionStorage is all it has.  A demo token wins over
\* an account; without either, /login is shown, and otherwise never is.
Load ==
    /\ page' = IF demoToken # "none" \/ account # "none" THEN "app" ELSE "login"
    /\ provider' = IF demoToken # "none" THEN "demo" ELSE "msal"
    /\ leaving' = "stay"
    /\ redirectInFlight' = FALSE /\ launch' = FALSE /\ dropped' = {}
    /\ queries' = Stamped([k \in Key |-> IF k = "me" /\ page' = "app" THEN Ask(Empty) ELSE Empty],
                          active)

\* A redirect within the site has got so far,
Unload ==
    /\ leaving \in {"home", "login"}
    /\ Load
    /\ at' = "home"
    /\ UNCHANGED <<storage, held, clicks, others>>

\* or one to Microsoft.
Depart ==
    /\ leaving = "microsoft"
    /\ page' = "microsoft" /\ leaving' = "stay"
    /\ queries' = [k \in Key |-> Empty]
    /\ UNCHANGED <<at, provider, redirectInFlight, launch, storage, held, dropped, clicks, others>>

\* Back from Microsoft, signed in or as before.
Return ==
    /\ page = "microsoft"
    /\ account' \in {"good", account}
    /\ page' = IF demoToken # "none" \/ account' # "none" THEN "app" ELSE "login"
    /\ provider' = IF demoToken # "none" THEN "demo" ELSE "msal"
    /\ redirectInFlight' = FALSE /\ launch' = FALSE /\ dropped' = {} /\ at' = "home"
    /\ queries' = Stamped([k \in Key |-> IF k = "me" /\ page' = "app" THEN Ask(Empty) ELSE Empty],
                          active)
    /\ UNCHANGED <<leaving, demoToken, active, held, clicks, others>>

-----------------------------------------------------------------------------
(* The login page. *)

\* "Sign in with Microsoft".
Login ==
    /\ Click
    /\ page = "login" /\ leaving = "stay"
    /\ leaving' = "microsoft"
    /\ UNCHANGED <<page, at, provider, redirectInFlight, launch, storage, held, dropped, queries, others>>

\* handleDemoLogin, with its guard against a second click in the same tick.
DemoLogin ==
    /\ Click
    /\ page = "login" /\ ~launch
    /\ launch' = TRUE
    /\ UNCHANGED <<page, leaving, at, provider, redirectInFlight, storage, held, dropped, queries, others>>

\* Its answer: the role of an earlier session goes, the token comes.
Launched ==
    /\ launch /\ page = "login"
    /\ \/ /\ active' = NoRole /\ demoToken' = "live" /\ leaving' = "home"
          /\ UNCHANGED <<launch, others>>
       \/ /\ Other
          /\ launch' = FALSE
          /\ UNCHANGED <<active, demoToken, leaving>>
    /\ UNCHANGED <<page, at, provider, redirectInFlight, account, held, dropped, queries, clicks>>

-----------------------------------------------------------------------------
(* The app. *)

\* A link, to the page whose contents depend on the role or away from it.
Navigate ==
    /\ Click
    /\ Shown(queries) /\ leaving = "stay"
    /\ at' = IF at = "home" THEN "screen" ELSE "home"
    /\ IF at = "home"
       THEN \E old \in BOOLEAN :
                queries' = Stamped([queries EXCEPT !["screen"] = Mount(@, old)], active)
       ELSE UNCHANGED queries
    /\ UNCHANGED <<page, leaving, provider, redirectInFlight, launch, storage, held, dropped, others>>

\* The interval of the unread count.
Poll ==
    /\ Shown(queries) /\ ~Fetching(queries["count"])
    /\ queries' = Stamped([queries EXCEPT !["count"] = Ask(@)], active)
    /\ UNCHANGED <<place, storage, held, dropped, clicks, others>>

InUse(k) == CASE k = "me" -> TRUE
              [] k = "count" -> TRUE
              [] k = "screen" -> at = "screen"

\* Broken: only the profile is asked for again.
ForgetfulInvalidated(c, role) == Stamped([c EXCEPT !["me"] = Invalidate(@, TRUE)], role)

\* invalidateQueries() without a key, while the old page is still in use.
Invalidated(c, role) == Stamped([k \in Key |-> Invalidate(c[k], InUse(k))], role)

\* handleSwitch and switchRole; a demo visitor holds one role.
SwitchRole(role) ==
    /\ Click
    /\ Shown(queries) /\ leaving = "stay" /\ provider = "msal"
    /\ role \in Value(queries["me"]).roles \ {Value(queries["me"]).role}
    /\ active' = role /\ dropped' = {}
    /\ queries' = Invalidated(queries, role)
    /\ at' = "home"
    /\ UNCHANGED <<page, leaving, provider, redirectInFlight, launch, demoToken, account, held, others>>

\* Sign out, of the menu and of ProtectedRoute.
Logout ==
    /\ Click
    /\ Shown(queries) \/ Unable
    /\ active' = NoRole
    /\ IF provider = "demo"
       THEN /\ demoToken' = "none" /\ leaving' = "login"
            /\ UNCHANGED <<account, queries>>
       ELSE /\ account' = "none" /\ leaving' = "microsoft"
            /\ queries' = [queries EXCEPT !["me"] = Empty]
            /\ UNCHANGED demoToken
    /\ UNCHANGED <<page, at, provider, redirectInFlight, launch, held, dropped, others>>

\* Retry of ProtectedRoute.
Reload ==
    /\ Click
    /\ Unable
    /\ Load
    /\ UNCHANGED <<at, storage, held, others>>

-----------------------------------------------------------------------------
(* Requests. *)

\* The server answers a request of an accepted session.  A demo visitor has the
\* one role he chose, which one makes no difference here.
Serve(k) ==
    /\ queries[k].fetch = "asked"
    /\ Accepted
    /\ LET roles == IF demoToken = "live" THEN {CHOOSE r \in Role : TRUE} ELSE held
       IN  \E header \in queries[k].answer :
               queries' = [queries EXCEPT ![k] = Read(@,
                    CASE k = "me" -> Profile(header, roles)
                      [] k = "count" -> Plain(NoRole)
                      [] OTHER -> Plain(header), TRUE)]
    /\ UNCHANGED <<place, storage, held, dropped, clicks, others>>

\* The effect of AuthContext: a stored role its user does not hold is dropped.
Stale(c) == Shown(c) /\ provider = "msal" /\ active # NoRole /\ active \notin Value(c["me"]).roles

ResponseArrives(k) ==
    /\ queries[k].fetch = "answered"
    /\ LET arrived == [queries EXCEPT ![k] = Arrive(@)]
           mounted == IF Shown(arrived) /\ ~Shown(queries) /\ at = "screen"
                      THEN [arrived EXCEPT !["screen"] = Mount(@, FALSE)] ELSE arrived
           drops == k = "me" /\ Stale(arrived)
       IN  /\ active' = IF drops THEN NoRole ELSE active
           /\ dropped' = IF drops THEN {active} ELSE dropped
           /\ queries' = Stamped(IF drops THEN [mounted EXCEPT !["me"] = Invalidate(@, TRUE)] ELSE mounted,
                                 active')
    /\ UNCHANGED <<place, demoToken, account, held, clicks, others>>

\* No answer, or one of a failure that is not about the session.
Lost(k) ==
    /\ Other
    /\ queries[k].fetch \in {"asked", "answered"}
    /\ queries' = [queries EXCEPT ![k] = Fail(@)]
    /\ UNCHANGED <<place, storage, held, dropped, clicks>>

Hang(k) == queries' = [queries EXCEPT ![k].fetch = "hung", ![k].answer = {}]

\* Broken: the token stays where it is.
ForgetfulUnauthorizedDemo(k) ==
    /\ queries[k].fetch = "asked"
    /\ demoToken = "dead"
    /\ leaving' = "login"
    /\ Hang(k)
    /\ UNCHANGED <<page, at, provider, redirectInFlight, launch, storage, held, dropped, clicks, others>>

\* 401 while there is a demo token: it is dropped.
UnauthorizedDemo(k) ==
    /\ queries[k].fetch = "asked"
    /\ demoToken = "dead"
    /\ demoToken' = "none" /\ leaving' = "login"
    /\ Hang(k)
    /\ UNCHANGED <<page, at, provider, redirectInFlight, launch, active, account, held, dropped, clicks, others>>

\* 401 without one: the first sends the tab to Microsoft, others fail; also the
\* second of a demo session, whose token the first one dropped.
Unauthorized(k) ==
    /\ queries[k].fetch = "asked"
    /\ demoToken = "none" /\ account \in {"none", "revoked"}
    /\ IF redirectInFlight
       THEN /\ queries' = [queries EXCEPT ![k] = Fail(@)]
            /\ UNCHANGED <<leaving, redirectInFlight, others>>
       ELSE /\ Hang(k)
            /\ \/ redirectInFlight' = TRUE /\ leaving' = "microsoft" /\ UNCHANGED others
               \/ Other /\ UNCHANGED <<redirectInFlight, leaving>>
    /\ UNCHANGED <<page, at, provider, launch, storage, held, dropped, clicks>>

\* No token without interaction: the request interceptor redirects, and fails
\* where another redirect has begun.
Interact(k) ==
    /\ queries[k].fetch = "asked"
    /\ demoToken = "none" /\ account = "expired"
    /\ IF leaving = "microsoft"
       THEN queries' = [queries EXCEPT ![k] = Fail(@)] /\ UNCHANGED leaving
       ELSE leaving' = "microsoft" /\ Hang(k)
    /\ UNCHANGED <<page, at, provider, redirectInFlight, launch, storage, held, dropped, clicks, others>>

-----------------------------------------------------------------------------
(* Elsewhere. *)

\* The demo session is reaped or runs out.
DemoEnds ==
    /\ demoToken = "live" /\ demoToken' = "dead"
    /\ UNCHANGED <<place, active, account, held, dropped, queries, clicks, others>>

AccountEnds ==
    /\ account = "good" /\ account' \in {"revoked", "expired"}
    /\ UNCHANGED <<place, demoToken, active, held, dropped, queries, clicks, others>>

\* Roles are assigned and withdrawn; the next token says so.
Reassign ==
    /\ Other
    /\ held' \in (SUBSET Role) \ {{}, held}
    /\ UNCHANGED <<place, storage, dropped, queries, clicks>>

SessionNext ==
    \/ Unload \/ Depart \/ Return \/ Login \/ DemoLogin \/ Launched
    \/ Navigate \/ Poll \/ Logout \/ Reload
    \/ \E r \in Role : SwitchRole(r)
    \/ \E k \in Key : \/ Serve(k) \/ ResponseArrives(k) \/ Lost(k)
                      \/ UnauthorizedDemo(k) \/ Unauthorized(k) \/ Interact(k)
    \/ DemoEnds \/ AccountEnds \/ Reassign

\* Requests end, the interval fires in a tab that is in view, and a redirect
\* that has begun completes.
SessionFairness ==
    /\ WF_sessionVars(Poll \/ \E k \in Key : \/ Serve(k) \/ ResponseArrives(k)
                                     \/ UnauthorizedDemo(k) \/ Unauthorized(k) \/ Interact(k))
    /\ WF_sessionVars(Unload \/ Depart)

SessionSpec == SessionInit /\ [][SessionNext]_sessionVars /\ SessionFairness

-----------------------------------------------------------------------------
(* Properties. *)

\* Types.
SessionTypeOK ==
    /\ page \in {"login", "app", "microsoft"}
    /\ leaving \in {"stay", "home", "login", "microsoft"}
    /\ demoToken \in {"none", "live", "dead"} /\ active \in Role \cup {NoRole}
    /\ held \subseteq Role /\ held # {} /\ dropped \subseteq Role
    /\ Loaded(queries["me"]) => Value(queries["me"]).role \in Value(queries["me"]).roles

\* Switches, late answers and a role lost meanwhile may overlap: the role beside
\* the name is the one last chosen (or, had its user lost it, the one he falls
\* back to) unless it is being asked for, and what a page shows was asked for in
\* the role last chosen, or in one found lost since, for then the profile alone is
\* asked for again.  Data that will be asked for when next in use are
\* excepted, and data whose first request the switch could not restart.
RoleFollowsChoice ==
    page = "app" /\ leaving = "stay" =>
        /\ Shown(queries) /\ ~Fetching(queries["me"]) =>
               LET me == Value(queries["me"]) IN me.role = Effective(active, me.roles)
        /\ LET e == queries["screen"]
           IN  Loaded(e) /\ ~e.stale /\ ~e.missed => Value(e).as \in {active} \cup dropped

\* No tab keeps showing the app of a session that has ended: it leaves, or says
\* that the profile cannot be loaded and offers a way out, unless a redirect
\* has failed (then a request hangs for good).
Hung == leaving = "stay" /\ \E k \in Key : queries[k].fetch = "hung"
EndedSessionsLeave == []<>~(page = "app" /\ ~Accepted /\ ~Unable /\ ~Hung)
=============================================================================
