# Expense Management System: TLA+ models and proofs

This directory holds TLA+ specifications of the Expense Management System
(`src/`): an Express server on MySQL (`src/server`), its SQL schema and stored
procedures (`src/database`) and a React client (`src/client`). The modules model
what is hard to test there: requests that interleave at their `await`s, a
database, a disk and a directory that are never written together, caches, jobs
beside the requests, failures between two steps. TLC checks them on small
instances; TLAPS proves, for every size, every safety property the runs check:
the invariants, the action properties and the two refinements.

Server paths below are relative to `src/server/src/` unless they begin with
`src/`.

## 1. The system

| Component | State it keeps | Operations | Hard behaviour | What makes it correct |
|---|---|---|---|---|
| Expense lifecycle (`controllers/expenseController.ts`, `models/expense.ts`) | `expenses`, `audit_logs` | create, edit, resubmit, delete; lists and exports read | a handler checks one row and writes another one later; audit rows on separate connections | writes land only on the row that was read; every version is accounted for in the trail |
| Approval decisions (`controllers/approvalController.ts`, `src/database/stored-procedures.sql`) | the same tables | approve, reject | a network call between reading and deciding; two approvers; approve against edit | no version decided twice, nobody decides their own, row and trail agree |
| Receipts (`middleware/upload.ts`, `middleware/validate.ts`, `utils/receiptFiles.ts`, `models/receipt.ts`) | upload directory, `receipts` | upload with create, unlink with delete, download | two stores without a common transaction; unlinks nobody awaits; a lost COMMIT reply; a stop in between | the receipt of a live expense is on disk; no file is forgotten silently |
| Demo sandbox (`services/demoService.ts`, `routes/auth.ts`) | user, expense and audit rows of one `demo_session_id` | launch, use, reap | count and create in two steps; overlapping reaper ticks; requests of a workspace that is being reaped | bounded number of workspaces; sessions stay inside theirs; expired ones go |
| Manager directory (`services/graphApi.ts`, `services/managerAuthorization.ts`, `services/cacheService.ts`, `controllers/managerController.ts`) | Microsoft Graph, `users.manager_id`, node-cache entries | fetch, cache, reconcile, check | three copies of one relation, pages, retries, concurrent reconciliations | decisions rest on the directory as it is; the copies heal |
| Log shipping (`config/pulsarLogsTransport.ts`) | queue, batch in flight, backoff | log, drain, retry, flush | outage, full buffer, shutdown during a send | bounded memory, order, no unintended loss |
| Process lifecycle (`src/server/server.ts`) | shutdown progress | graceful shutdown, forced exit | the force timer at any moment | the process ends; what was buffered is sent if time allows |
| Authentication and roles (`middleware/auth.ts`, `middleware/rbac.ts`, `middleware/loginEvents.ts`, `models/user.ts`) | `users`, `security_events`, map of seen tokens | verify, upsert, sync role, narrow role | first requests in parallel; tokens from before and after a role change | one row per identity; a header never widens the role |
| Notifications and comments (`services/notificationService.ts`, `models/notification.ts`, `controllers/commentController.ts`, `controllers/notificationController.ts`) | `notifications`, `comments`, preferences | notify, list, count, mark read, comment | best effort after the commit; the mute switch is read between a comment and its notices | nobody is told of what did not happen, nor after he was told his notices are off |
| Admin and profile (`controllers/adminController.ts`, `controllers/meController.ts`) | preferences; otherwise reads | ledger, trail, profile, preferences, directory copy | a COUNT and a SELECT around somebody else's commit | the lists below; a saved preference holds |
| Org chart (`controllers/orgController.ts`, `models/user.ts`, `src/client/src/pages/OrgChart.tsx`, `pages/org-chart`) | `users.manager_id`, the page's tree, `userGroups` cache entries | tree, outline, details of a person | cycles, depth and row limits, two walks at different times, paged readings that fail | what is drawn can be opened; the row limit leaves out the farthest only; no half list of groups is kept |
| Client data layer (`src/client/src/queries`, `services`, `context/AuthContext.tsx`) | query cache, stored role and tokens, redirect under way | optimistic update, rollback, refetch, invalidation, redirect on 401 | overlapping mutations, refetches and redirects | the screen agrees with what this tab was told, once all is settled |
| Client user interface (`src/client/src/pages`, `components`) | page, filters, forms, previews | browse, search, edit, file, decide, settings | renders between two answers; forms that outlive the data they were opened on | a request carries what the user asked for, once |
| Statistics, metrics, CSV, currency (`controllers/statsController.ts`, `models/stats.ts`, `utils/fx.ts`, `utils/csv.ts`) | reads | figures per role, exports | several statements without a transaction | the figures of one answer belong together |
| Deployment, end-to-end tests | – | – | – | – |

How they interact: a request passes authentication, then a controller, which
calls models (SQL), the manager check (Graph or the demo boundary) and, after
its commit, the audit model and the notification service. The demo reaper and
the log transport run on timers beside the requests. The client talks to the
server through HTTP alone. Node runs one thread, so everything between two
`await`s is atomic, and every `await` is a place where another request may run.
That is the grain of the server modules. In the browser it is the same: a click,
a timer or the arrival of an answer runs to its end and is followed by a render.
A client action is one of these with the render it causes.

## 2. The modules

| Module | Models | Checked by |
|---|---|---|
| `ExpenseContract` | what the expense component promises: a small state machine per expense with numbered revisions | refined by `ExpenseLifecycle` |
| `ExpenseLifecycle` | handlers of create, edit, resubmit, delete, approve, reject, one action per round trip | `MCExpenseLifecycle` |
| `ExpenseLifecycle_proofs` | theorems about it | TLAPS |
| `ReceiptStore` | receipt files against receipt rows | `MCReceiptStore` |
| `ReceiptStore_proofs` | theorems about it and about `NoticeBell` | TLAPS |
| `DemoWorkspaces` | launches, sessions, reaper | `MCDemoWorkspaces` |
| `DemoWorkspaces_proofs` | theorems about it | TLAPS |
| `ManagerDirectory` | Graph, its copies in `users`, caches | `MCManagerDirectory` |
| `SignIn` | Entra sign-in: upsert, role sync, active role, sign-in events | `MCSignIn` |
| `LossyQueue` | what log shipping promises: oldest first, at least once, only the oldest may be dropped | refined by `LogTransport` |
| `LogTransport` | log buffer, retries, shutdown flush | `MCLogTransport` |
| `LogTransport_proofs` | theorems about it and about `ManagerDirectory` | TLAPS |
| `QueryCache` | one entry of the client's query cache, as operators | the client modules below, which extend it |
| `ListScreens` | approval queue, ledger and trail with paging, search, filters and optimistic decisions | `MCListScreens` |
| `ListScreens_proofs` | theorems about it | TLAPS |
| `ExpenseScreens` | detail page, edit form, filing form, their writes and previews | `MCExpenseScreens` |
| `ExpenseScreens_proofs` | theorems about it, and that its server keeps `ExpenseContract` | TLAPS |
| `NoticeBell` | comments, their notices, the bell, the mute switch; client and server | `MCNoticeBell` |
| `CommentThread` | the comments of expenses as one tab reads and writes them; client and server | `MCCommentThread` |
| `CommentThread_proofs` | theorems about it and about `SignIn` | TLAPS |
| `ClientSession` | one tab from sign-in to sign-out: role switch, 401, redirects; client and server | `MCClientSession` |
| `OrgChart` | the two walks down `manager_id`, the page, the details with their Graph readings; client and server | `MCOrgChart` |
| `OrgChart_proofs` | theorems about it and about `ClientSession` | TLAPS |

The definitions of `NoticeBell`, `SignIn`, `ManagerDirectory` and `ClientSession`
that every specification has begin with `Bell`, `SignIn`, `Directory` and `Session`
(`BellInit`, `BellNext`, `BellSpec`, `bellVars`, ...), because each of these modules
shares its module of proofs with another component. No two components are composed
there.

Each module contains, next to some definitions, a variant with a defect a
programmer might introduce (a dropped guard, a missing reset, a swapped order).
The header of the module says how they are named. They take no part in the
specification; putting one in the place of its original makes TLC find a
violation of the property listed with it in `PROJECT.json`, which shows that the
property depends on the code being the way it is.

`TypeOK` (`BellTypeOK`, ...) documents the state of each module and is a theorem of it; it is no part
of the runs.

### ExpenseLifecycle

`expenses[e]` is the row of the `expenses` table (`content` stands for title,
amount, date, category, ...; `reason` for whether `rejection_reason` is set).
`auditLog` is `audit_logs` in insertion order; `version` there is the
`version_after` that the stored procedures put into `details`, 0 for other
entries. `notices` counts the rows of `notifications`. `req[r]` is the memory of
one handler: above all `snap`, the row that its first `findById` returned, and
on whose status, owner and version everything later is decided. `unlogged` is a
ghost that counts writes whose handler ended without an audit row.

| Action | Code |
|---|---|
| `CreateExpense` | `createExpense` with `createSubmission`: expense and SUBMITTED row in one transaction |
| `LoadOwn` | the first `findById` of edit, resubmit, delete, with 404/403/409 on its row |
| `UpdateWrite`, `UpdateReread`, `UpdateAudit` | `expenseModel.update`: a guarded UPDATE, a second `findById`, then `auditLogModel.create`, three round trips |
| `ResubmitWrite`, `ResubmitAudit` | `expenseModel.resubmit` under the row lock, then the audit row |
| `DeleteWrite` | `expenseModel.delete`: soft delete and DELETED row in one transaction |
| `LoadForDecision`, `Authorize`, `Decide` | `approveExpense`/`rejectExpense`: read, manager check (network), `sp_approve_expense`/`sp_reject_expense` |
| `Notify` | the notification after the commit, and the answer |
| `Fail` | an error or a stop at any `await` |

`Authorize` accepts both answers of the manager check: nothing about an
expense's integrity may depend on it. `ManagerDirectory` is about that answer.

### ReceiptStore

An upload stands for its file, its receipt row and its expense. `creating`,
`deleting` and `serving` are the three kinds of request. `unlinks` are the
`safeUnlinkReceipt` calls that have been started and that nobody awaits. Two
ghosts describe what cannot be seen in the program: `unsure`, the uploads whose
COMMIT succeeded but was reported as failed, and `orphans`, the files nothing
will ever remove. `Crash` loses requests and started unlinks; disk and database
survive.

### DemoWorkspaces

Rows are kept per place: a workspace, or `Real` for all real users. `age` is
`demo_expires_at` against the clock, with the second of equality as a value of
its own (`edge`), because the three places that compare the two use `>`, `<` and
`<`. `CheckCapacity` and `CreateWorkspace` are the two halves of `demoLogin`;
`Arrive`, `Load`, `Check`, `Write` a request; `ReaperSelect`, `ReaperCommit`,
`ReaperFails` one tick of the reaper. Foreign keys are modelled where they
refuse something. `AdminReach` says of which places real admins use the expense ids;
what they do there is logged under their own name.

### ManagerDirectory

`graph` is the directory (outside the server), `column` is `users.manager_id`,
`cache` the `directReports` entry of each manager. A queue request
(`getPendingApprovals`, `getManagerEmployees`) goes through `StartQueue`,
`GetToken`, `ReadPage`, `FetchDone`, `Match`, `Reassign`, `Invalidate`, or ends in
`FallBack` (the database's list); a check (`verifyManagerRelationship`) through
`StartCheck`, `GetToken`, `ReadPage`, `FetchDone`, `Act`, or ends in `FailClosed`.
`Sync` is what `getManagerEmployees` does beyond the queue: it copies the reports'
attributes (department, title, ...) to their rows. `StartVisit`, `ReadMe`,
`MeArrives`, `Keep` are `getMyDirectory`, which copies the caller's own; `attrs`
is that copy, `profile` the caller's cache entry. An employee's attributes change
with the manager in the model, so the manager stands for them. Each page sees the directory as it is when it is read. `during` is a
ghost: who was a report of the manager at some moment since the request began.

### SignIn

`account` and `tokens` are Entra ID (outside the server); a token keeps what the
directory said when it was issued. `users` has one row per oid with its address,
its role, and in `name` the account its display name comes from. A request goes
through `Present` (token verified, roles resolved), `Upsert` and `Load`
(`upsertByEntraId`), if the role differs `Sync`, `Reload`, `RecordRoleChange`
(`updateRole` and the ROLE_CHANGED event), and is then served with the role that
`X-Active-Role` narrows. Both unique keys of `users` are modelled, because
`ON DUPLICATE KEY UPDATE` acts on either. `seen` is the map of
`loginEvents.ts` with its pruning and its cap; it is memory of the process, which
`Restart` stops together with the requests under way. The ghost `recorded` holds the
tokens with a LOGIN_SUCCESS since the map was last empty. Accounts in `Known` have
signed in before: they have a token that is a tick old, and may have rows.

### LogTransport

`queue`, `sender` (`this.flushing`, with who holds it), `backoff`
(`nextAttemptAt` is in the future) and `batch` (the local variable) follow the
code; `shutdown` is the progress of `shutdown()` in `src/server/server.ts`.
`stored` is what the endpoint has, the ghost `discarded` what was refused or dropped.
A line is the number of its `log()` call. How many lines fit into the byte
budget is a free choice. A failed send may have been stored all the same. `Contract` maps
the batch on its way followed by the queue to what waits in `LossyQueue`: a drain
that takes a batch is a stutter there, its answer is `Store`, `Refuse` or `Retry`.

### QueryCache and the client modules

TanStack Query 5 is a library; `QueryCache` models what the code in
`src/client/src/queries` uses of it: mounting, invalidation, cancellation,
`setQueryData`, success and failure of an entry. The rule that matters most: an
invalidation restarts a request under way only if the entry already has data, so
a first request goes on, and its answer, perhaps read by the server before the
write that caused the invalidation, then counts as new. The ghosts `late` and
`missed` mark such an answer, and the properties that say "the screen agrees
with what happened" except it by name. That is the one hole they leave.

### ListScreens

`status` is the server's table, `cache` the entries of `expenseKeys.list`,
`approvalKeys.pending` and the trail; `typed` the search box, `term` its
debounced copy, `only` the filter, `kept` what `keepPreviousData` shows. A list
request is `Count` then `Select`, two statements. `Decide`, `Reach`, `Settle` are
`useApproveExpense`/`useRejectExpense`: optimistic removal with snapshots, the
server's verdict, rollback or not, invalidation. `Elsewhere` is another user's
decision. `MyExpenses` is the ledger for one owner.

### ExpenseScreens

`form` keeps the values it was opened with; its prop `initial` follows the cache.
`TypeIn`, `ChooseFile`, `Create`, `Save`, `Act` are what the user does; `call[k]`
a write under way, `Apply`/`Refuse` what the server makes of it, `Finish` the
mutation's callbacks (invalidation, navigation, error). `Preview`, `ClosePreview`,
`PreviewArrives`, `PreviewIgnored` follow the receipt preview and its object URLs.
`Render` unmounts the detail page whenever the route changes, to the page of another
expense too: as in `CommentThread`, the frame is keyed on the path.

### NoticeBell

`Comment`, `LookUp`, `Tell`, `Posted` are `addComment` with
`notificationService.expenseComment`, one recipient at a time. `Poll`,
`CountUnread`, `SelectList`, `BadgeArrives`, `ListArrives` are the two queries;
`OpenItem`, `MarkAll`, `Reach`, `Refused`, `Settle` the marks with their
optimistic cache writes. `OpenSettings` to `ProfileArrives` are the settings page:
the form is set from the profile, saved as a whole, and set again when the
profile changes.

### CommentThread

A thread in the cache is a bag of rows, because the append of `useAddComment` may
meet a request that has brought the row already. `PostComment`, `Find`, `Insert`,
`PostFails` are the post; `Posted` its callbacks, of the hook (append) and of the
page (blank draft), `NotPosted` the error. `LookUp`, `SelectRows`, `Answer` are
`getComments`. `DeleteElsewhere` may come between `Find` and `Insert`. `AppShell` keys
what it frames on the path (`src/client/src/components/layout/AppShell.tsx:36`), so the
page of another expense is another page: its draft is blank, and it hears nothing of the
posts of the one before (`Unheard`), which go on.
`told`, `raced` and `errors` are ghosts: what this tab was told, which of it a
request for the thread has overtaken, failures shown.

### ClientSession

`page`, `leaving` and `redirectInFlight` say where the tab is and where it is
being sent; between the two its scripts go on. `demoToken`, `active` and
`account` are `sessionStorage` and MSAL's cache; the ghost `dropped` is the role the
effect of `AuthContext` has taken from there. Three queries stand for all:
`me`, a page whose contents depend on the role, and the unread count that polls.
`queries` is the tab's query cache. `Serve` and `ResponseArrives` are a request that succeeds, `UnauthorizedDemo`,
`Unauthorized`, `Interact`, `Lost` the ways it fails.

### OrgChart

`lines` is `manager_id`, of arbitrary shape, cycles included. `LoadTree` is
`getOrgTree`: `GetOrgSubtree` for a manager (the recursive query, level by level,
with its depth and row limits before duplicates go), `GetAllOrgNodes` for an
administrator. `Open`, `Check` walk again (`IsInSubtree`); `ProfileComes`,
`ReadPage`, `LastPage`, `PageFails` read Graph; `AnswerFromDirectory` is the
`Promise.all` of the two. MySQL produces the rows of a recursive query level by
level; the model relies on it.

## 3. The runs

| Run | Bounds | Shows |
|---|---|---|
| `MCExpenseLifecycle` | 1 expense, 3 users (2 approvers), 2 handlers at a time, 4 requests, 2 contents; 72 000 states | all safety properties of the core and that it implements `ExpenseContract` |
| `MCReceiptStore` | 2 uploads, 1 delete, 1 download, 1 stop; 48 000 states | files and rows |
| `MCDemoWorkspaces` | 3 workspaces, cap 1, 2 launches, 1 request, 2 reapers, batch 2, real admins act on one workspace; 169 000 states | boundary, overshoot, reaping |
| `MCManagerDirectory` | 1 employee, 2 managers, 2 requests, 1 move, columns unset at first; 482 000 states | decisions are live; `manager_id` and the attributes heal |
| `MCSignIn` | 2 accounts, 3 addresses, 2 requests, a token to begin with, 2 events outside (tokens, changes, restarts), window 1 tick, 2 ticks, map of 1; 471 000 states | roles, sign-in events |
| `MCLogTransport` | buffer 3, batch 2, 6 lines, 2 failed sends; 58 000 states | order kept, `LossyQueue` implemented, everything shipped |
| `MCListScreens` | 2 expenses, pages of 1, 2 filters, 2 decisions at a time, 3 clicks, 1 event elsewhere; 488 000 states | pages, rollbacks, cached lists |
| `MCExpenseScreens` | an expense of one's own and one to decide, 2 amounts, 2 writes at a time, 4 clicks, 1 event elsewhere; 411 000 states | forms, details, previews |
| `MCNoticeBell` | 2 comments, 2 marks at a time, a list of 1, 3 clicks, 1 event elsewhere; 514 000 states | bell and mute switch |
| `MCCommentThread` | 2 expenses, 2 posts at a time, 2 texts, 6 clicks, 1 event elsewhere; 1 819 000 states | threads, retries, deletions |
| `MCClientSession` | 2 roles, 3 clicks, 2 outside events; 101 000 states | role switch, dead sessions |
| `MCOrgChart` | 3 people, all shapes of lines, 2 groups, depth limit 2, row limits 2 and 3, 1 cache key, 1 change; 1 644 000 states | the chart |

Why the bounds are enough. Expenses do not interact (no action names two), so
one shows every race; two handlers in flight with four requests include every
pair of operations against each other with a history of two before them, among
them reject–resubmit–approve against an edit. Five requests (452 000 states)
give the same result, and the theorems remove the bound altogether. Receipts:
races are between one create, one delete, one download and the reaper on a file,
a second upload is there to be confused with; two deletes (446 000 states) pass
as well. Workspaces: cap 1 with two launches is the smallest overshoot; three
workspaces with batch 2 make a tick that cannot take all; admins who act on one of
them block ticks that have taken it alone or with another (all places, 509 000 states,
give the same result). Directory: two
managers are the old and the new one, a third adds no new kind of step; one move
has requests before, across and after it. Without visits, two moves, which let
the employee come back, pass as well (261 000 states). The employee begins under
one manager; under the other it is the same up to names (twice the states). Sign-in: the first token, a change
and a new token are the shortest history in which requests disagree. The window is one
tick, so a token may be recorded at once or late; two ticks later the one recorded late
is pruned. A map of one is cleared by the third token, and a restart may come while a
token is fresh: TLC finds second events in both cases when `recorded` is not reset. Log
transport: a buffer of three and batches of two make every overflow case (a
requeued batch into an empty, a partly full, a full buffer) happen; six lines are
enough to fill the buffer twice, 7 lines and 3 failed sends (235 000 states)
pass. Lists: pages of one make the second expense a second page, so that a
decision empties a page; two decisions are what a rollback can get wrong; three
clicks are two decisions with a page turn between or before them. Expense
screens: the shortest bad history edits, saves and looks again; four clicks allow
it on either expense with a navigation in between. Bell: two comments are a
notice that was read and one that came after; the list shows one, so the count
and the list differ. Threads: two texts with two posts are a post that outlives its
page beside one of the next page: open, type and post, twice, are six clicks. Session: sign in, look at a page, switch role are three
clicks, in any order the app allows; two outside events take a role away and give it
back. Four clicks (511 000 states) pass as well. Org chart: three people give every shape up to a cycle with a tail;
depth 2 and row limit 2 cut both ways.

Deadlock is not checked where a model stops when its bounded requests, launches,
moves, lines or clicks are used up, as the system idles when nothing arrives. It
is checked for `NoticeBell` (the bell polls for ever) and `OrgChart` (the page can
always be opened and closed).

### The properties

*Core.* `WritesOnWhatWasRead`: whoever changes a row held exactly that row, so
an approval cannot land on an edited amount. `VersionStandsForRow` says why
comparing version and status is enough for that; it is proved, and no part of a
run. `DecisionAudited`, `DecisionsInOrder`,
`DecisionColumnsAgree`, `NobodyDecidesTheirOwn`: row and trail through any number
of rounds. `AuditAccountsForEveryVersion`: version number = audit rows + entries
on their way + entries lost. `RefusalsWroteNothing`: a 403, 404 or 409 changed
nothing, with one exception (see section 5). `NoticesFollowTheTrail`: nobody is
told of a decision that was not taken, nor twice. `ImplementsContract`: the
refinement.

*Receipts.* `LiveReceiptsAreKept`, `FilesAreAccountedFor`, and in the end
`UnneededFilesGo`: files of withdrawn receipts and of refused uploads.

*Demo.* `OvershootBounded` (what the cap does give: at most the launches in
flight too many), `SessionsStayInside`, `ExpiredWorkspacesGo`: every expired workspace
goes with every row in it, for good. There is one exception (`Pinned`): a real
administrator's audit entry on an expense of an expired workspace, which holds up the
ticks that take it and everything else in their batch (see section 5).

*Directory.* `DecisionsAreLive`: whoever is let through was the manager at some
moment of this request. `HealsEventually`: a manager who has the employee for
good, and whose requests keep succeeding, has the column for good, and attributes
that keep being copied, by whomever, end as the directory's.

*Sign-in.* `RoleSettles`: tokens of different age may flip the stored role, in the
end it is the directory's. `OneLoginPerToken`: in one life of the map of seen tokens a
token is recorded once, because what pruning drops can no longer count as a sign-in.
That life ends when the map is cleared at its cap, and with the process (the cold start
of `loginEvents.ts:12`); after that a token that is still fresh may be recorded again.

*Logs.* `LinesKeepTheirOrder`. `ImplementsLossyQueue`: lines leave oldest first and
at least once; what is dropped on the way has a full buffer of newer lines behind it;
no retry, drop or hand-over to the flush reorders, skips or forgets a line.
`EverythingIsShipped`.

*Lists.* `PageBelongsToItsSearch`: no page number chosen under one search is sent
with another. `DecidedStayGone`: a rollback does not bring back what another
decision removed. `ScreenSettles`: no cancelled request leaves a screen waiting.

*Expense screens.* `SavesOnlyTheEdit`, `OneFilingPerForm`, `ReadsItsWrites`,
`UrlsAreReleased`.

*Threads.* `WholeUnlessRaced`: nothing but a request that overlaps a post can
double or lose a comment. `OneRowPerText`: no text is stored
more often than failures told the user to try again. `OnlyOvertakenAreLate`: after a
deletion only the posts then under way are still stored.

*Bell.* `ReadStaysRead`, `MutedStaysQuiet`, `BadgeSettles`.

*Session.* `RoleFollowsChoice`: what is shown was asked for in the role chosen last, or in
one found lost since.
`EndedSessionsLeave`: the app does not stay open on a dead session.

*Org chart.* `DrawnCanBeOpened`: only a line that moved after the tree was drawn
refuses a click. `CapCutsTheFarthest`: the row limit, which counts a person once for
every way to him, still takes the right people: nobody who is left out is nearer to the
caller than anybody drawn. It also says exactly what the note of a capped page is worth:
it never appears when nobody is missing, and without it somebody within the depth is
missing only where the walk meets people again, as on a cycle, also one through the
caller, and has more rows than are read. `NoHalfLists`.

### Fairness

- `ExpenseLifecycle`: none; its properties are safety properties.
- `ReceiptStore`: weak fairness on the steps of create requests and on started
  unlinks: the event loop runs every promise to its end, unless the process
  stops, which `Crash` may do at any time. No client has to send anything.
- `DemoWorkspaces`: weak fairness on time and on the reaper's selection (the
  interval fires for ever); strong fairness on the commit: a transaction that
  can commit is not the victim of a deadlock every single time.
- `ManagerDirectory`: weak fairness on the expiry of cache entries only (without
  that of profiles TLC finds attributes that never heal).
  `HealsEventually` states its other assumptions itself.
- `SignIn`: weak fairness on the steps of a request (every statement ends).
  `RoleSettles` states its other assumptions itself.
- `LogTransport`: weak fairness on the interval, on the end of a backoff, on the
  end of a send (it has a timeout and an abort controller), on flush and on the
  exit (the force timer). The number of failed sends is bounded, so the endpoint
  is up in the end; nothing is assumed of `log()` or of the signal.
- `ListScreens`: weak fairness on the debounce timer, on the steps of list
  requests and on those of decisions (the client's timeout ends each).
- `NoticeBell`: weak fairness on the poll of the unread count and its request
  (`refetchInterval`); lost answers are bounded.
- `ClientSession`: weak fairness on the poll with its requests and on a redirect
  that is under way; a redirect that fails is a step of its own.
- `ExpenseScreens`, `CommentThread`, `OrgChart`: none; their properties are safety properties.

## 4. What is proved

TLAPS checks the proofs below for every value of the constants: any number of
expenses, users, requests, clicks. Eight modules hold them. Four of these are about two
components each, that of their name and a second one, which they extend as well:
`NoticeBell` in `ReceiptStore_proofs`, `ManagerDirectory` in `LogTransport_proofs`,
`SignIn` in `CommentThread_proofs`, `ClientSession` in `OrgChart_proofs`. The two share
no variable, and every theorem names the specification it is about.

| Module | Theorem | Statement |
|---|---|---|
| `ExpenseLifecycle_proofs` | `TypeCorrect`, `Invariance` | `TypeOK`, the inductive invariant of row and trail |
| | `SnapshotsAreSound` | `VersionStandsForRow` |
| | `OptimisticConcurrency` | `WritesOnWhatWasRead`, an action property |
| | `OrderedDecisions`, `AuditedDecisions`, `ConsistentColumns`, `SeparationOfDuties` | `DecisionsInOrder`, `DecisionAudited`, `DecisionColumnsAgree`, `NobodyDecidesTheirOwn` |
| | `Refinement` | `ImplementsContract` |
| | `BooksBalance` | the counting invariant `CountInv` |
| | `AuditComplete`, `HonestRefusals`, `NoticesAfterTheFact` | `AuditAccountsForEveryVersion`, `RefusalsWroteNothing`, `NoticesFollowTheTrail` |
| `ReceiptStore_proofs` | `TypeCorrect`, `Invariance` | `TypeOK`, the inductive invariant of files and rows |
| | `KeptReceipts`, `AccountedFiles` | `LiveReceiptsAreKept`, `FilesAreAccountedFor` |
| | `OrphansAreNobodys`, `AbandonedForGood` | `LostInv` (what is given up, nobody needs or is about to remove), `OrphansStay` (an action property: no step removes it) |
| | `BellInvariance`, `BellTypeCorrect` | the inductive invariant of `NoticeBell`, its `BellTypeOK` |
| | `MarksLast`, `MutedIsMuted` | `ReadStaysRead`, `MutedStaysQuiet` |
| `DemoWorkspaces_proofs` | `TypeCorrect`, `Boundary`, `BoundedOvershoot` | `TypeOK`, `SessionsStayInside`, `OvershootBounded` |
| `LogTransport_proofs` | `TypeCorrect`, `Invariance` | `TypeOK`, the inductive invariant of the sender and of what is pending |
| | `OrderedLines`, `CompleteLines`, `BoundedMemory` | `LinesKeepTheirOrder`, `NothingVanishes`, `MemoryBounded` |
| | `Refinement` | `ImplementsLossyQueue` |
| | `DirectoryTypes`, `LiveDecisions` | `DirectoryTypeOK` of `ManagerDirectory`, `DecisionsAreLive` |
| `OrgChart_proofs` | `Invariance`, `TypeCorrect` | types and the progress of a reading, `TypeOK` |
| | `TreesAreWalks` | what a drawn tree is, `ChartInv` |
| | `WholeLists`, `NearestAreDrawn`, `OpenableNodes` | `NoHalfLists`, `CapCutsTheFarthest`, `DrawnCanBeOpened` (an action property) |
| | `TabInvariance`, `TabTypeCorrect` | the inductive invariant of `ClientSession`, its `SessionTypeOK` |
| | `RoleIsChosen` | `RoleFollowsChoice` |
| `ListScreens_proofs` | `Invariance`, `TypeCorrect` | the inductive invariant of view, decisions and cache, `TypeOK` |
| | `PagesOfTheirSearch`, `DecidedAreGone` | `PageBelongsToItsSearch`, `DecidedStayGone` |
| `ExpenseScreens_proofs` | `Invariance`, `TypeCorrect` | the inductive invariant of pages, forms and writes, `TypeOK` |
| | `MinimalSaves`, `NoHiddenRepeats`, `OwnWritesAreShown`, `NoLeakedUrls` | `SavesOnlyTheEdit`, `OneFilingPerForm`, `ReadsItsWrites`, `UrlsAreReleased` |
| | `ServerKeepsContract` | `RowsFollowContract`: every change of a row is a step of `ExpenseContract` |
| | `RightsOfTheUser` | `AsksInOwnName`: the pages send edits of one's own expenses and decisions on those of others, nothing else |
| `CommentThread_proofs` | `Invariance`, `TypeCorrect` | the inductive invariant of rows, threads and posts, `TypeOK` |
| | `WholeThreads`, `NoRepeatedRows`, `LateComments` | `WholeUnlessRaced`, `OneRowPerText`, `OnlyOvertakenAreLate` |
| | `SignInTypes`, `SignInTypeCorrect`, `OneLogin` | the inductive types of `SignIn`, its `SignInTypeOK`, `OneLoginPerToken` |

They rest on the assumption each module names, which TLC evaluates in the runs:

- `ExpenseLifecycle`: `BoundAssumption` (the bound is a number) and
  `SentinelAssumption` (the NULL-like constants differ from the values they are
  mixed with, approvers are users).
- `ReceiptStore`, `ManagerDirectory`, `SignIn`: sentinels differ from values; what
  is given at the beginning (managers, addresses) is a function, no two accounts
  have one address at the beginning, and those known from before are accounts; bounds, the window and caps are numbers.
- `DemoWorkspaces`: the same, and the launches are finitely many: what is counted
  is finite.
- `LogTransport`: the sizes are positive numbers, and a batch fits into the buffer.
- `OrgChart`: depth and row limits are positive numbers, and the users are finitely
  many, as the rows of a table are; users and groups are numbers.
- `ListScreens`: expenses are finitely many numbers, pages hold at least one, and
  the two search terms differ.
- `NoticeBell`: the people differ; the list's limit and the bounds are numbers.
- `ClientSession`: roles are finitely many positive numbers, and there is one.
- `ExpenseScreens`: there is an amount (every expense has one); expenses are not 0.

### The arguments

*Row and trail.* None of the four properties of row and trail is inductive on its
own: a handler that is about to write has checked a row it read long ago. The
invariant therefore begins with `VersionStandsForRow`: a handler that still has
to write may hold an outdated row, but if its version is the stored one it holds
the stored row itself. This is preserved because each step that changes a row
raises its version by one (`OneRevision`), so that every snapshot of it becomes
strictly older. With it, the guard of a write (same version and status) turns
what the handler checked on its snapshot, for instance that the approver is not
the owner, into a fact about the stored row. The rest of the invariant (`RowInv`,
`LogInv`) says that columns and status agree, that no logged decision has a
version above the row's, and that the current decision is in the trail. Rather
than going through all actions for each conjunct, `TableSteps` and `StepEffect`
first reduce a step to the few effects it can have on table and trail (a
submission, one guarded write, a late audit row, nothing). The refinement maps
each of them to a step of `ExpenseContract` or to a stutter.

*Counting.* `AuditAccountsForEveryVersion` and `NoticesFollowTheTrail` compare a
number with cardinalities of sets that grow with the trail and with the
handlers. `CountInv` keeps the books balanced step by step: each step adds one
element to at most one of the sets, or moves a handler from one to the next.
A refusal means that nothing was written because a handler that may still be refused
has not written yet (`SessionInv` says what each phase has done so far), but for the edit
that meets its row deleted, and a deleted row stays as it is (`DeletedStays`).

*Receipts.* Whether a file may be unlinked was decided awaits ago. The invariant
says what such a request still may rely on: until its transaction a create request alone
knows of its file, so that there is no row and nobody unlinks it (`CreationInv`); the
receipt row stays while the expense is live (`RowsInv`); what a delete request has
read is still all there is, if its expense is still live (`DeletionInv`).
`FilesAreAccountedFor` excepts the files that were given up, so it says as much as
that exception is narrow. `OrphanInv` says when a file may be called given up: its
create request answers for it no more, its expense is not live, no unlink has been
started; and nothing is stored before its create request has begun
(`NotYetStored`). From there no request finds the file again, so it stays for good
(`OrphansStay`). Uploads whose COMMIT was reported as failed are left out of both:
there a deletion may still find the row and remove the file.

*Workspaces.* `SessionsStayInside` needs only that whoever is admitted to the
phase before the write was compared with the workspace of the row
(`AdmittedInside`). `OvershootBounded` counts: a creation moves a launch from the
set of those on their way to the set of active ones, and everything else removes.

*Directory.* `DecisionsAreLive` speaks of the end of a check, after any number of
pages during which the directory changed. The invariant `LiveCheck` says what the
list is worth at every page: everybody on it, and everybody who reports to the
manager now, did so at some moment of this check. A page adds somebody who reports
now; a move adds somebody to the manager and to the ghost in one step. Neither
caches nor rows occur in the invariant, which is the point of the property.

*Log lines.* The batch on its way followed by the queue is an increasing sequence
of line numbers (`Increasing(batch \o queue)`), which a requeue restores because
whatever was logged meanwhile is later than the batch; trimming takes the oldest.
The sender's lock is held exactly while a batch is on its way, so there is one batch
at most. For the refinement, a batch and the queue behind it are one sequence cut in
two: `Accept` and `Retry` of `LossyQueue` allow what the two ways of trimming do,
dropping from the front of the queue behind a batch under way (`log`) and from the front
of what a requeue has put together. That the dropped lines have `MaxBuffer` newer ones
behind them follows from the buffer's size alone.

*Sign-in events.* What `prune` drops has to be too old to count again.
`LoginInv` says that a fresh token that was recorded since the map was last empty is in
the map, and that a token is recorded after it was issued; so what is too old to stay is
too old to count, if both comparisons with the window are of the same kind
(`PruneKeepsFresh`). Clearing at the cap and a restart make both sides empty.

*Org chart.* The walks are recursive functions, and the row limit is a fold.
Neither the library's induction theorems nor a recursive operator can be used, but
an argument by the least counterexample can: `LeastMember` (every nonempty set of
naturals has a least member, from the well-founded order of the naturals) gives
the facts about the levels of the walk (`LevelFacts`), about the line of bosses
upwards (`LineFacts`), and that a person is on level `d` exactly if the line leads
to the caller in `d` steps (`LevelsAreLines`). So the walk that draws and the walk that
guards agree for every depth and every cut, and the rows of the query are the ways up to
the caller (`WaysAreRows`). What a limit on rows leaves of people is a matter of counting
(`WalkedAreFewer`, `FirstRowsFacts`): rows are no fewer than people, as many only if no
two levels share anybody (`Apart`); and since rows come level by level, whole levels are
in before the level that is cut (`NearestFirst`). Cycles need no case of their own.
A reading of a paged collection keeps the groups that
were there all the time and came before the next page (`Progress`).

*Lists.* `PageBelongsToItsSearch` is inductive. `DecidedStayGone` is not: while a
decision is under way, a cancelled request can bring a page back as it was and take
away the mark that it has to be asked for again, and a rollback can write back a page
that shows what another decision has removed. Nothing is claimed of the lists in that
time (`Gone` is empty); `CacheInv` then only has to hold from the step in which the
last decision ends, and there `Invalidated` marks every list of pending expenses or
asks for it (`GoodInvalidated`). From then on a request finds an expense decided
(`DecidedInv`), unless it was under way before, which is what `late` and `missed` note.

*Expense screens.* Most steps end in a render, which may unmount what asked for a
write or a picture; the lemmas `RenderedCalls`, `RenderedForm` and
`RenderedPictures` say once what a render can do. `SavesOnlyTheEdit` needs that an
untouched field still has the value the form was opened with. `OneFilingPerForm`
needs that at most one filing of the form is under way, and that the form is one
ahead only while an answer is out (`FilingInv`). `ReadsItsWrites` needs to be said of
answers on their way as well: what will count as good when it arrives was read after
the write (`Current`), and no answer to a write is ahead of the table (`ReadInv`). The
proof showed that the property holds also while something is under way, and it is
stated so. `ServerKeepsContract` ties the client's models to the core: the server in
`ExpenseScreens` is an abstraction of its own, with rows, versions and guards but no
handlers, and all its writes, of this tab or of other sessions, map to steps of the
`ExpenseContract` that `ExpenseLifecycle` implements. The mapping takes the user of the
tab for the owner of the expenses in `Mine` and for the one who decides the others;
`RightsOfTheUser` is the client's half of that: an edit page is open for an expense of his
own only, through every navigation and render.

*Threads.* `WholeUnlessRaced` is about what is shown, and a request for the thread
replaces what is shown; `ThreadInv` therefore says the same of the answer that is on
its way: it holds each comment once, or else the comment is marked as overtaken,
and what is on its way holds no rows but those of its expense (`Sound`). `OneRowPerText` counts rows, and
needs what each text is still worth: `BudgetInv` says that rows, posts under way that
may still insert, and a text in the composer that may be sent together afford no more
than one more than the failures shown (`Afford`). `PostInv` is the reason why a post is not repeated
while it is under way: the page hears of it. `OnlyOvertakenAreLate` needs that a
deletion marks every post that has passed the look-up (`LateInv`).

*Bell.* Who is muted was told that his switch is off, and the switch is off until he
saves another (`MuteInv`): so a post that found it on (`wanted`) was never one of a
muted owner. `ReadStaysRead` is not inductive, for the reason `DecidedStayGone` is
not: while marks overlap, a rollback can bring back a list that another mark has
changed. `ShownInv` claims nothing in that time; the mark that ends last asks for both
entries, marks them, or has removed the count, and then what a request reads
agrees with everything this tab was told, because what it was told was read is read
(`MarkInv`). A new notice only raises the number the badge must not exceed.

*Tab.* `RoleFollowsChoice` speaks of answers, and what an answer was asked under
is settled when its request starts. `Follows` therefore says of a tab that stays where
it is: every request for the profile carries the role in storage, and every
request for a page carries that role or one lost since, unless its entry is marked.
A page load keeps nothing, so nothing has to be said of a tab about to go.
`EffectiveIsHeld`, that the server finds a role to act in, needs that a finite set of
numbers has a greatest member, which is proved by its least part without one
(`Highest`, `LeastNumber`). The property as first stated, that a page shows what its user
sees in the role he acts in, is not true: the proof failed where the profile arrives
without the role in storage, and TLC then found the history (section 5).

### Only model-checked

The liveness properties, for liveness under fairness is out of TLAPS's reach:
`UnneededFilesGo`, `ExpiredWorkspacesGo`, `HealsEventually`, `RoleSettles`,
`EverythingIsShipped`, `ScreenSettles`, `BadgeSettles`, `EndedSessionsLeave`. All other
properties of the runs are theorems. MySQL's and the library's behaviour is part of
the models, not of the proofs.

## 5. Observations

Places where text and code differ, or where the behaviour surprises. The first
eight are steps of the models; stating the promise as an invariant or a property
of the module makes TLC show it broken.

- Sign-in: `users` is unique in `entra_id` and in `email`. When an address has moved
  to a new account, the upsert of the new account finds the old row through `email`,
  puts the new name on it and then fails to find a row of its own: the sign-in is
  refused every time (`models/user.ts:341`; the comments at `middleware/auth.ts:302`
  and `models/user.ts:329` call it an upsert by `entra_id`).
  `users[o].name = o` fails for an `o` that has a row.
- Threads: a comment is appended to the cached thread when it is answered, and no
  request for the thread is cancelled or looked at. One that has read the row before
  the append makes it appear twice; one that has read the rows before the insert and
  is answered after the append takes it away until the next request
  (`src/client/src/queries/expenses.ts:194`; the comment at `:179`).
  `WholeUnlessRaced` fails without its exception.
- Edits: an edit commits, the owner deletes the expense before the handler reads
  it again, `findById` returns null, the handler answers 409 and writes no UPDATED
  entry, although the version was raised (`controllers/expenseController.ts:248`;
  `src/database/schema.sql:222`). `AuditAccountsForEveryVersion` counts it in
  `unlogged`, and `RefusalsWroteNothing` excepts it.
- Workspaces: the cap is tested and used in two steps, and launches that count
  together pass together (`routes/auth.ts:36`; `src/README.md:69` promises the
  cap). `Cardinality(Active) <= Cap` fails; `OvershootBounded` is what holds.
- Workspaces: real administrators may decide demo expenses. Their audit entry is
  not the workspace's, `fk_audit_expense` is RESTRICT, and the reaper's transaction
  fails from then on whenever it takes that workspace (`services/demoService.ts:313`).
  The comment at `:281` calls a blocked tick impossible, because whole sessions are
  deleted together. `ExpiredWorkspacesGo` fails without `Pinned`.
- Directory: cache entries are dropped when an employee moves, but a fetch that
  began before puts its list into the cache afterwards, for 15 minutes
  (`services/graphApi.ts:436`; the comment at `models/user.ts:294`). It shows and
  reassigns with the old list; decisions do not use it (`DecisionsAreLive`).
- Logs: the shutdown flush looks at the queue, not at the batch a drain is
  sending, so the process can exit in the middle of it
  (`config/pulsarLogsTransport.ts:314`; the comment at `:376`).
- Roles: a stored role its user has lost is dropped, and `/me` alone is asked for
  again (`src/client/src/context/AuthContext.tsx:108`). A page asked for in that role
  stays as it is, also when the role is assigned again before `/me` is answered: then
  the name says one role, the page shows another (a switch, a visit to the page, and two
  changes of roles suffice). `RoleFollowsChoice` fails without `dropped`.
- Lists: after the only row of the last page of the queue is decided, the page
  says "All caught up" and hides the paging while earlier pages have rows. The
  queue is ordered by `created_at` alone. Decisions do not invalidate the trail.
- Forms: the body of an update is the difference to the row as last read. A
  refetch while the form is open makes a stale field count as an edit, so the save
  puts the old value back; the client sends no version. A failed background
  refetch unmounts the edit form. Deleting does not invalidate the detail entry.
- Currency: the prefill overwrites USD that was picked on purpose
  (`components/expenses/ExpenseForm.tsx:212`, client).
- Settings: the form is set again whenever the profile object changes. A failed
  background read of `/me` replaces the app by "Unable to load your profile".
- Session: two 401s of one dead demo session: the first clears the token, so the
  second is taken for an Entra session and starts the MSAL redirect
  (`context/AuthContext.tsx:136`). A failed `acquireTokenRedirect` leaves its
  request pending for ever. A role switch does not restart first requests
  (`context/AuthContext.tsx:88`).
- Comments: a thread that could not be loaded says "No comments yet". A post of the
  page that blanks the composer when answered also blanks what was typed since.
- Chart: an administrator's outline omits people on a cycle without a root, whom
  the canvas draws (`pages/OrgChart.tsx:31`).
- Chart: `truncated` is not set when only the depth limit cut, although the page
  takes it to tell of that (`pages/org-chart/layout.ts:14`, client). Nor is it the
  "precise signal" of `models/user.ts:44`: on a cycle the rows of people met again use up
  the limit, and reports are dropped without the note. `CapCutsTheFarthest` fails
  without the conjuncts that name the second case, and for the first if the depth
  limit of the server is taken for what is due.

## 6. What is not modelled

- The groups and the manager chain of `getMyDirectory` (the groups are replaced in
  one transaction and have no other writer), and the cache of the org details on
  the client.
- Statistics and dashboards: several statements without a transaction, which write
  nothing. Metrics, CSV, drawing of the charts: counters, formatting.
- The receipt rows' downloads beyond `ReceiptStore`; file names.
- Signatures of tokens and key retrieval: a library's work. The development stub
  of authentication. The cache of On-Behalf-Of tokens: `GetToken` either has one
  or not.
- Layout, wording and help pages of the client; deployment files; tests.
- MySQL itself: a transaction that locks its row with FOR UPDATE is one atomic
  step, a single statement is atomic, foreign keys are guards. Deadlock victims
  appear as failures.
- Several server processes at a time: each has a map of seen tokens of its own, so a
  token may be recorded once by each (`SignIn` has one process, which may restart).
- Several tabs of one user, and React's development mode.

## 7. Plan

Done: the core with its proofs; receipts, demo, directory, sign-in and logs; the
client's lists, forms, bell, threads, session and chart; and theorems that state every
safety property of the runs. To come: models of the dashboards (several statements without a transaction,
and the writes that invalidate them). Invariants are written as conjunctions of
named parts and no module uses a `RECURSIVE` operator, so that proofs can be added.

## 8. Running it

```
tlc -config MCExpenseLifecycle.cfg MCExpenseLifecycle
tlapm ExpenseLifecycle_proofs.tla
```

and likewise for every `.cfg` and every `_proofs` module listed above.
