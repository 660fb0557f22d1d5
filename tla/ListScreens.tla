---------------------------- MODULE ListScreens ----------------------------
(***************************************************************************)
(* The paged lists of the client in one browser tab, over one query cache: *)
(* the approval queue (pages/Approvals, queries/approvals), the ledger     *)
(* (components/admin/AdminExpenses; pages/MyExpenses is its twin for one   *)
(* owner) and the trail (components/admin/AuditLog), whose rows are the    *)
(* audit entries of decisions and whose search box is the expense id.      *)
(*                                                                         *)
(* A decision removes its expense from every cached page of the queue      *)
(* before it is sent, puts the pages back when it fails and asks for the   *)
(* lists again in both cases.  Several decisions, page and filter changes, *)
(* requests, answers and other users' decisions overlap.  A render happens *)
(* in the step that changes its inputs.                                    *)
(*                                                                         *)
(* Definitions named Sticky..., Forgetful... or Lazy... are broken on      *)
(* purpose and take no part in Spec.                                       *)
(***************************************************************************)
EXTENDS Naturals, FiniteSets, QueryCache

CONSTANTS Expense,     \* ids, a set of numbers; a list shows higher ids first
          PageSize,
          Blank, Term, \* search terms: none, and one that
          Titled,      \* these expenses' titles contain
          Filters,     \* choices of the status filter
          Mutation,    \* decisions that can be under way at a time
          MaxClicks,   \* bound: what the user does
          MaxOthers    \* bound: decisions taken elsewhere, and reconnects

ASSUME ListAssumption ==
    /\ Expense \subseteq Nat /\ IsFiniteSet(Expense)
    /\ PageSize \in Nat \ {0}
    /\ Titled \subseteq Expense
    /\ Blank # Term
    /\ "ALL" \in Filters /\ Filters \subseteq {"ALL", "PENDING", "DECIDED"}
    /\ MaxClicks \in Nat /\ MaxOthers \in Nat

VARIABLES status,   \* [Expense -> expenses.status], as far as lists tell it apart
          cache,    \* the query cache: entries of some keys
          screen, page,
          typed,    \* the search box
          term,     \* its debounced copy, which requests carry
          only,     \* the status filter
          kept,     \* keepPreviousData: {} or the {key} shown until the next one is loaded
          decision, \* [Mutation -> useApproveExpense / useRejectExpense call]
          turned,   \* ghost: search and filter under which the page was chosen
          decided,  \* ghost: decisions this tab was told have been taken
          clicks, others

vars == <<status, cache, screen, page, typed, term, only, kept, decision,
          turned, decided, clicks, others>>
view == <<screen, page, typed, term, only, kept, turned>>

Status == {"PENDING", "DECIDED"}
All == "ALL"
Screens == {"approvals", "ledger", "trail"}
\* Also an empty list has a first page.
Pages == {1} \cup 1 .. ((Cardinality(Expense) + PageSize - 1) \div PageSize)

\* approvalKeys.pending(params) and expenseKeys.list(params).
Queue(p) == [screen |-> "approvals", page |-> p, term |-> Blank, only |-> "PENDING"]
Key == {Queue(p) : p \in Pages}
       \cup [screen : {"ledger", "trail"}, page : Pages, term : {Blank, Term}, only : Filters]
KeyOf(s, p, t, o) == IF s = "approvals" THEN Queue(p)
                     ELSE [screen |-> s, page |-> p, term |-> t, only |-> o]
Current == KeyOf(screen, page, term, only)
QueueKeys == {k \in Key : k.screen = "approvals"}

NoDecision == [phase |-> "none"]

Entry(k) == IF k \in DOMAIN cache THEN cache[k] ELSE Empty
Put(k, e) == [x \in DOMAIN cache \cup {k} |-> IF x = k THEN e ELSE cache[x]]

-----------------------------------------------------------------------------
(* The server's side of a list: a COUNT and then the rows of the page. *)

\* The expenses a search lets through; on the trail it is the id of one.
Found(t) == IF t = Term THEN Titled ELSE Expense

PendingOf == {e \in Expense : status[e] = "PENDING"}

LedgerOf(t, o) == {e \in Found(t) : o \in {All, status[e]}}

\* One row per decision; the filter is the action.
TrailOf(t, o) == {e \in Found(t) : status[e] = "DECIDED" /\ o \in {All, "DECIDED"}}

Matches(k) == CASE k.screen = "approvals" -> PendingOf
                [] k.screen = "ledger" -> LedgerOf(k.term, k.only)
                [] k.screen = "trail" -> TrailOf(k.term, k.only)

\* Newest first, LIMIT and OFFSET.
PageOf(k) == {e \in Matches(k) :
    LET above == Cardinality({f \in Matches(k) : f > e})
    IN  above >= (k.page - 1) * PageSize /\ above < k.page * PageSize}

-----------------------------------------------------------------------------
(* What the screen shows. *)

\* The page in view: its own data, or while these are pending the data shown
\* before; none after a failure that found nothing in the cache.
Shown == IF Loaded(Entry(Current)) THEN Entry(Current).data
         ELSE IF Entry(Current).failed THEN {}
         ELSE UNION {cache[k].data : k \in kept}

Rows == UNION {d.items : d \in Shown}
Total == LET totals == {d.total : d \in Shown} IN IF totals = {} THEN 0 ELSE CHOOSE t \in totals : TRUE

\* The queue has a skeleton, cards, or nothing; a failure is a line on top.
QueueFace == IF Shown = {} /\ ~Entry(Current).failed THEN "loading"
             ELSE IF Rows = {} THEN "empty" ELSE "rows"

\* The other lists replace even the rows they have by the failure.
View == IF Entry(Current).failed /\ screen # "approvals" THEN "failed" ELSE QueueFace

\* Previous and Next are part of the table, on the ledger they stand below it.
Paging == /\ View = "rows" \/ (screen = "ledger" /\ View = "empty")
          /\ Total > PageSize

Init ==
    /\ status = [e \in Expense |-> "PENDING"]
    /\ screen = "approvals"
    /\ page = 1 /\ typed = Blank /\ term = Blank /\ only = All
    /\ kept = {}
    /\ cache = [k \in {Current} |-> Ask(Empty)]
    /\ decision = [m \in Mutation |-> NoDecision]
    /\ turned = <<Blank, All>>
    /\ decided = {}
    /\ clicks = 0 /\ others = 0

Click == clicks < MaxClicks /\ clicks' = clicks + 1

\* The screen turns to another key: what it showed stays until that is loaded.
Turn(k) ==
    /\ kept' = IF k # Current /\ Loaded(Entry(Current)) THEN {Current} ELSE kept
    /\ \E old \in BOOLEAN :
           cache' = IF k = Current THEN cache ELSE Put(k, Mount(Entry(k), old))

-----------------------------------------------------------------------------
(* The user pages, searches and filters. *)

\* Previous and Next.
GoTo(p) ==
    /\ Click
    /\ Paging
    /\ p \in {page - 1, page + 1} \cap Pages
    /\ p > page => page * PageSize < Total
    /\ page' = p
    /\ turned' = <<term, only>>
    /\ Turn(KeyOf(screen, p, term, only))
    /\ UNCHANGED <<status, screen, typed, term, only, decision, decided, others>>

\* A key in the search box: nothing is asked for yet.
Type(t) ==
    /\ Click
    /\ screen # "approvals" /\ t # typed
    /\ typed' = t
    /\ UNCHANGED <<status, cache, screen, page, term, only, kept, decision, turned, decided, others>>

\* Broken: the debounced term changes and the page stays.
StickyDebounce ==
    /\ term # typed
    /\ term' = typed
    /\ Turn(KeyOf(screen, page, typed, only))
    /\ UNCHANGED <<status, screen, page, typed, only, decision, turned, decided, clicks, others>>

\* The timer of the search box fires; the render that sees the new term is on
\* page 1 already.
Debounce ==
    /\ term # typed
    /\ term' = typed
    /\ page' = 1
    /\ Turn(KeyOf(screen, 1, typed, only))
    /\ UNCHANGED <<status, screen, typed, only, decision, turned, decided, clicks, others>>

\* Another value in a select box.
Filter(o) ==
    /\ Click
    /\ screen # "approvals" /\ o # only
    /\ only' = o
    /\ page' = 1
    /\ Turn(KeyOf(screen, 1, term, o))
    /\ UNCHANGED <<status, screen, typed, term, decision, turned, decided, others>>

\* "Clear filters": the debounced term follows later.
ClearFilters ==
    /\ Click
    /\ screen # "approvals" /\ (typed # Blank \/ only # All)
    /\ typed' = Blank /\ only' = All /\ page' = 1
    /\ Turn(KeyOf(screen, 1, term, All))
    /\ UNCHANGED <<status, screen, term, decision, turned, decided, others>>

\* Another screen: state of the old one is gone, the cache is not.
Navigate(to) ==
    /\ Click
    /\ to # screen
    /\ screen' = to
    /\ page' = 1 /\ typed' = Blank /\ term' = Blank /\ only' = All
    /\ kept' = {}
    /\ \E old \in BOOLEAN :
           LET k == KeyOf(to, 1, Blank, All) IN cache' = Put(k, Mount(Entry(k), old))
    /\ UNCHANGED <<status, decision, turned, decided, others>>

\* "Try again" where a list could not be loaded.
Refetch ==
    /\ Click
    /\ View = "failed"
    /\ cache' = Put(Current, Ask(Entry(Current)))
    /\ UNCHANGED <<status, view, decision, decided, others>>

-----------------------------------------------------------------------------
(* Requests for lists. *)

Counting(k) == cache[k].fetch = "asked" /\ cache[k].answer = {}

Count(k) ==
    /\ Counting(k)
    /\ cache' = [cache EXCEPT ![k] = Read(@, [total |-> Cardinality(Matches(k)), items |-> {}], FALSE)]
    /\ UNCHANGED <<status, view, decision, decided, clicks, others>>

Select(k) ==
    /\ cache[k].fetch = "asked" /\ ~Counting(k)
    /\ \E counted \in cache[k].answer :
           cache' = [cache EXCEPT ![k] = Read(@, [counted EXCEPT !.items = PageOf(k)], TRUE)]
    /\ UNCHANGED <<status, view, decision, decided, clicks, others>>

Answer(k) ==
    /\ cache[k].fetch = "answered"
    /\ cache' = [cache EXCEPT ![k] = Arrive(@)]
    /\ UNCHANGED <<status, view, decision, decided, clicks, others>>

AnswerLost(k) ==
    /\ Fetching(cache[k])
    /\ cache' = [cache EXCEPT ![k] = Fail(@)]
    /\ UNCHANGED <<status, view, decision, decided, clicks, others>>

-----------------------------------------------------------------------------
(* Decisions. *)

Without(d, e) == IF e \in d.items
                 THEN [items |-> d.items \ {e}, total |-> IF d.total = 0 THEN 0 ELSE d.total - 1]
                 ELSE d

\* onMutate: requests for the queue are cancelled, its pages remembered, and
\* the expense taken off them.
Decide(m, e) ==
    /\ Click
    /\ screen = "approvals" /\ View = "rows" /\ e \in Rows
    /\ decision[m] = NoDecision
    /\ LET calm == [k \in DOMAIN cache |-> IF k \in QueueKeys THEN Cancel(cache[k]) ELSE cache[k]]
       IN  /\ decision' = [decision EXCEPT ![m] =
                 [phase |-> "sent", id |-> e, pages |-> [k \in QueueKeys \cap DOMAIN cache |-> calm[k].data]]]
           /\ cache' = [k \in DOMAIN cache |->
                 IF k \in QueueKeys /\ \E d \in calm[k].data : e \in d.items
                 THEN Write(calm[k], Without(CHOOSE d \in calm[k].data : TRUE, e))
                 ELSE calm[k]]
    /\ UNCHANGED <<status, view, decided, others>>

\* PATCH /approvals/:id/...: taken, refused because it was taken already, or
\* unanswered, with or without effect.
Reach(m) ==
    /\ decision[m].phase = "sent"
    /\ LET e == decision[m].id
       IN  \/ /\ status[e] = "PENDING"
              /\ status' = [status EXCEPT ![e] = "DECIDED"]
              /\ \E r \in {"taken", "refused"} : decision' = [decision EXCEPT ![m].phase = r]
           \/ /\ decision' = [decision EXCEPT ![m].phase = "refused"]
              /\ UNCHANGED status
    /\ UNCHANGED <<cache, view, decided, clicks, others>>

\* rollback: every page remembered is written back.
RolledBack(c, pages) ==
    [k \in DOMAIN c |-> IF k \in DOMAIN pages /\ pages[k] # {}
                   THEN Write(c[k], CHOOSE d \in pages[k] : TRUE) ELSE c[k]]

\* Broken: only the lists of expenses are asked for again.
ForgetfulInvalidated(c) ==
    [k \in DOMAIN c |-> IF k.screen # "ledger" THEN c[k] ELSE Invalidate(c[k], k = Current)]

\* Broken: the lists are only marked (refetchType "none").
LazyInvalidated(c) ==
    [k \in DOMAIN c |-> IF k.screen = "trail" THEN c[k] ELSE Invalidate(c[k], FALSE)]

\* invalidateAfterDecision: the queue and the lists of expenses, not the trail.
Invalidated(c) ==
    [k \in DOMAIN c |-> IF k.screen = "trail" THEN c[k] ELSE Invalidate(c[k], k = Current)]

\* onError and onSettled.
Settle(m) ==
    /\ decision[m].phase \in {"taken", "refused"}
    /\ cache' = Invalidated(IF decision[m].phase = "taken" THEN cache
                            ELSE RolledBack(cache, decision[m].pages))
    /\ decided' = IF decision[m].phase = "taken" THEN decided \cup {decision[m].id} ELSE decided
    /\ decision' = [decision EXCEPT ![m] = NoDecision]
    /\ UNCHANGED <<status, view, clicks, others>>

\* Somebody decides, edits or files in another session.
Elsewhere(e) ==
    /\ others < MaxOthers
    /\ others' = others + 1
    /\ status[e] = "PENDING"
    /\ status' = [status EXCEPT ![e] = "DECIDED"]
    /\ UNCHANGED <<cache, view, decision, decided, clicks>>

\* The network comes back: the list in view is asked for if it is stale.
Reconnect ==
    /\ others < MaxOthers
    /\ others' = others + 1
    /\ cache' = Put(Current, Mount(Entry(Current), TRUE))
    /\ cache' # cache
    /\ UNCHANGED <<status, view, decision, decided, clicks>>

Next ==
    \/ \E p \in Pages : GoTo(p)
    \/ \E t \in {Blank, Term} : Type(t)
    \/ \E o \in Filters : Filter(o)
    \/ Debounce \/ ClearFilters \/ Refetch \/ Reconnect
    \/ \E to \in Screens : Navigate(to)
    \/ \E k \in DOMAIN cache : Count(k) \/ Select(k) \/ Answer(k) \/ AnswerLost(k)
    \/ \E m \in Mutation, e \in Expense : Decide(m, e)
    \/ \E m \in Mutation : Reach(m) \/ Settle(m)
    \/ \E e \in Expense : Elsewhere(e)

\* The timer fires; requests end, with an answer or by the 30 s of axios.
Fairness ==
    /\ WF_vars(Debounce)
    /\ WF_vars(\E k \in DOMAIN cache : Count(k) \/ Select(k) \/ Answer(k))
    /\ WF_vars(\E m \in Mutation : Reach(m) \/ Settle(m))

Spec == Init /\ [][Next]_vars /\ Fairness

-----------------------------------------------------------------------------
(* Properties. *)

\* Types.
TypeOK ==
    /\ status \in [Expense -> Status]
    /\ page \in Pages /\ typed \in {Blank, Term} /\ term \in {Blank, Term}
    /\ only \in Filters
    /\ kept \subseteq Key /\ Cardinality(kept) <= 1
    /\ DOMAIN cache \subseteq Key
    /\ decided \subseteq Expense

\* A request never carries a page that was chosen under another search or
\* filter, however keystrokes, the debounce timer and page clicks interleave:
\* the promise of lib/useResetPageOnChange.
PageBelongsToItsSearch == page > 1 => turned = <<term, only>>

\* Once no decision and no request is under way, an expense this tab decided
\* is in no cached list of pending expenses, whatever other decisions failed
\* and were rolled back meanwhile.  Lists that will be asked for when they are
\* next in use are excepted, and lists whose first request a decision's
\* invalidation could not restart (missed in QueryCache): these do show it.
Quiet == /\ \A m \in Mutation : decision[m] = NoDecision
         /\ \A k \in DOMAIN cache : ~Fetching(cache[k])
DecidedStayGone ==
    Quiet => \A k \in DOMAIN cache :
        k.only = "PENDING" /\ ~cache[k].stale /\ ~cache[k].missed
            => \A d \in cache[k].data : d.items \cap decided = {}

\* Every screen comes to show what was asked for last, or the failure to load
\* it: no cancelled request leaves it without an answer.
ScreenSettles ==
    <>[](term = typed /\ (Loaded(Entry(Current)) \/ Entry(Current).failed))
=============================================================================
