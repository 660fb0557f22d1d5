--------------------------- MODULE CommentThread ---------------------------
(***************************************************************************)
(* The comments of some expenses, as one tab reads and writes them on the  *)
(* detail page: useExpenseComments and useAddComment (queries/expenses),   *)
(* the composer of components/expenses/ExpenseDetail, and getComments and  *)
(* addComment of commentController.  Others comment too, and delete an     *)
(* expense.  Who is told of a comment is the subject of NoticeBell.        *)
(*                                                                         *)
(* A thread in the cache is a bag of rows: the same row can be in it       *)
(* twice.  Its order is the order of creation, whatever was fetched or     *)
(* appended, and is left out.  AppShell keys what it frames on the path,   *)
(* so each expense has a page of its own: another id, or a way out and     *)
(* back, is a page with a blank draft that awaits no post.                 *)
(*                                                                         *)
(* Definitions named Forgetful..., Eager... or Blind... are broken on      *)
(* purpose and take no part in Spec.                                       *)
(***************************************************************************)
EXTENDS Naturals, Sequences, FiniteSets, Bags, QueryCache

CONSTANTS Expense,   \* ids
          Call,      \* posts that can be under way at a time
          MaxDrafts, \* bound: texts the user types
          MaxClicks, \* bound: what the user does
          MaxOthers  \* bound: comments and deletions elsewhere, reconnects, failures

ASSUME ThreadAssumption ==
    /\ IsFiniteSet(Expense) /\ 0 \notin Expense
    /\ MaxDrafts \in Nat /\ MaxClicks \in Nat /\ MaxOthers \in Nat

VARIABLES live,    \* [Expense -> not deleted]
          rows,    \* table comments, in the order of creation
          thread,  \* [Expense -> cache entry, expenseKeys.comments(id)]
          at,      \* the expense whose page is shown, or 0
          draft,   \* commentBody: 0 when blank, else the number of the text
          typed,   \* texts typed so far
          post,    \* [Call -> useAddComment call under way]
          told,    \* ghost: rows this tab was told it has written
          errors,  \* ghost: [text -> failures the user was shown for it]
          raced,   \* ghost: those of them a request for the thread has overtaken
          clicks, others

vars == <<live, rows, thread, at, draft, typed, post, told, errors,
          raced, clicks, others>>
server == <<live, rows>>
page == <<at, draft, typed>>

Draft == 1 .. MaxDrafts
NoPost == [phase |-> "none"]
Shown(e) == CHOOSE d \in e.data : TRUE

On(e) == {n \in DOMAIN rows : rows[n].on = e}

\* A comment of somebody else has no draft.
Theirs(e) == [on |-> e, draft |-> 0, late |-> FALSE, overtaken |-> FALSE]

Init ==
    /\ live = [e \in Expense |-> TRUE]
    /\ \/ rows = <<>>
       \/ \E e \in Expense : rows = <<Theirs(e)>>
    /\ thread = [e \in Expense |-> Empty]
    /\ at = 0 /\ draft = 0 /\ typed = 0
    /\ post = [k \in Call |-> NoPost]
    /\ told = {} /\ errors = [d \in Draft |-> 0]
    /\ raced = {}
    /\ clicks = 0 /\ others = 0

Click == clicks < MaxClicks /\ clicks' = clicks + 1
Other == others < MaxOthers /\ others' = others + 1

-----------------------------------------------------------------------------
(* The user. *)

\* A page that is gone hears nothing of its posts.
Unheard == [k \in Call |-> IF post[k] = NoPost THEN NoPost ELSE [post[k] EXCEPT !.heard = FALSE]]

\* A link to an expense, from a list or, on the page of another one, from the
\* bell: the page that was shown is gone, the new one is mounted.
Open(e) ==
    /\ Click
    /\ at # e
    /\ at' = e
    /\ \E old \in BOOLEAN : thread' = [thread EXCEPT ![e] = Mount(@, old)]
    /\ draft' = 0
    /\ post' = Unheard
    /\ UNCHANGED <<server, typed, told, errors, raced, others>>

Leave ==
    /\ Click
    /\ at # 0
    /\ at' = 0 /\ draft' = 0
    /\ post' = Unheard
    /\ UNCHANGED <<server, thread, typed, told, errors, raced, others>>

\* The text area is never disabled.
Type ==
    /\ Click
    /\ at # 0 /\ typed < MaxDrafts
    /\ typed' = typed + 1 /\ draft' = typed'
    /\ UNCHANGED <<server, thread, at, post, told, errors, raced, others>>

\* Broken: nobody looks whether a post is pending.
EagerPending == FALSE

\* addComment.isPending
Pending == \E k \in Call : post[k] # NoPost /\ post[k].heard

\* handlePostComment
PostComment(k) ==
    /\ Click
    /\ at # 0 /\ draft # 0 /\ ~Pending
    /\ post[k] = NoPost
    /\ post' = [post EXCEPT ![k] = [phase |-> "sent", on |-> at, draft |-> draft,
                                    heard |-> TRUE, row |-> 0, overtaken |-> FALSE]]
    /\ UNCHANGED <<server, thread, page, told, errors, raced, others>>

\* A decision or an edit of this tab is answered.  It invalidates the key of
\* the expense's detail, of which the key of its thread is an extension.
Touch(e) ==
    /\ Click
    /\ thread' = [thread EXCEPT ![e] = Invalidate(@, at = e)]
    /\ UNCHANGED <<server, page, post, told, errors, raced, others>>

-----------------------------------------------------------------------------
(* GET /expenses/:id/comments. *)

\* findById finds the expense, and the user may see it.
LookUp(e) ==
    /\ thread[e].fetch = "asked" /\ thread[e].answer = {}
    /\ live[e]
    /\ thread' = [thread EXCEPT ![e] = Read(@, EmptyBag, FALSE)]
    /\ UNCHANGED <<server, page, post, told, errors, raced, clicks, others>>

\* findByExpenseId
SelectRows(e) ==
    /\ thread[e].fetch = "asked" /\ thread[e].answer # {}
    /\ thread' = [thread EXCEPT ![e] = Read(@, SetToBag(On(e)), TRUE)]
    /\ UNCHANGED <<server, page, post, told, errors, raced, clicks, others>>

Answer(e) ==
    /\ thread[e].fetch = "answered"
    /\ thread' = [thread EXCEPT ![e] = Arrive(@)]
    /\ UNCHANGED <<server, page, post, told, errors, raced, clicks, others>>

\* The expense is gone, or the request fails.
AnswerLost(e) ==
    /\ Fetching(thread[e])
    /\ IF live[e] THEN Other ELSE UNCHANGED others
    /\ thread' = [thread EXCEPT ![e] = Fail(@)]
    /\ UNCHANGED <<server, page, post, told, errors, raced, clicks>>

-----------------------------------------------------------------------------
(* POST /expenses/:id/comments. *)

\* Broken: a deleted expense is found as well.
BlindFind(k) ==
    /\ post[k].phase = "sent"
    /\ post' = [post EXCEPT ![k].phase = "found"]
    /\ UNCHANGED <<server, thread, page, told, errors, raced, clicks, others>>

\* findById finds the expense, and ensureCanAccessExpense asks the directory.
Find(k) ==
    /\ post[k].phase = "sent"
    /\ live[post[k].on]
    /\ post' = [post EXCEPT ![k].phase = "found"]
    /\ UNCHANGED <<server, thread, page, told, errors, raced, clicks, others>>

\* The row is inserted and read back, and notices are written, whose failure is
\* swallowed.
Insert(k) ==
    /\ post[k].phase = "found"
    /\ LET p == post[k]
       IN  rows' = Append(rows, [on |-> p.on, draft |-> p.draft, late |-> ~live[p.on],
                                 overtaken |-> p.overtaken])
    /\ post' = [post EXCEPT ![k].phase = "done", ![k].row = Len(rows) + 1]
    /\ UNCHANGED <<live, thread, page, told, errors, raced, clicks, others>>

\* Refused, or failed before or after the insert.
PostFails(k) ==
    /\ post[k].phase \in {"sent", "found", "done"}
    /\ IF post[k].phase = "sent" /\ ~live[post[k].on] THEN UNCHANGED others ELSE Other
    /\ post' = [post EXCEPT ![k].phase = "failed"]
    /\ UNCHANGED <<server, thread, page, told, errors, raced, clicks>>

\* Broken: the thread is left to the next request.
ForgetfulAppended(e, row) == e

\* The comment is added to whatever is cached; that may be nothing yet.
Appended(e, row) ==
    Write(e, IF Loaded(e) THEN Shown(e) (+) SetToBag({row}) ELSE SetToBag({row}))

\* The draft is blanked by the page that posted, whatever is in it by then.
Cleared(k) == IF post[k].heard THEN 0 ELSE draft

\* A request for the thread is under way when a post is answered, or has brought
\* the row already.
Overtaken(p) ==
    Fetching(thread[p.on]) \/ \E d \in thread[p.on].data : BagIn(p.row, d)

\* onSuccess of useAddComment and of the page.
Posted(k) ==
    /\ post[k].phase = "done"
    /\ LET p == post[k]
       IN  /\ thread' = [thread EXCEPT ![p.on] = Appended(@, p.row)]
           /\ told' = told \cup {p.row}
           /\ raced' = IF Overtaken(p) THEN raced \cup {p.row} ELSE raced
    /\ draft' = Cleared(k)
    /\ post' = [post EXCEPT ![k] = NoPost]
    /\ UNCHANGED <<server, at, typed, errors, clicks, others>>

\* onError: a message, and the draft stays.
NotPosted(k) ==
    /\ post[k].phase = "failed"
    /\ post' = [post EXCEPT ![k] = NoPost]
    /\ errors' = IF post[k].heard THEN [errors EXCEPT ![post[k].draft] = @ + 1] ELSE errors
    /\ UNCHANGED <<server, thread, page, told, raced, clicks, others>>

-----------------------------------------------------------------------------
(* Other sessions. *)

CommentElsewhere(e) ==
    /\ Other
    /\ live[e]
    /\ rows' = Append(rows, Theirs(e))
    /\ UNCHANGED <<live, thread, page, post, told, errors, raced, clicks>>

\* A soft delete: the comments stay in their table.
DeleteElsewhere(e) ==
    /\ Other
    /\ live[e]
    /\ live' = [live EXCEPT ![e] = FALSE]
    /\ post' = [k \in Call |-> IF post[k] # NoPost /\ post[k].on = e
                               THEN [post[k] EXCEPT !.overtaken = TRUE] ELSE post[k]]
    /\ UNCHANGED <<rows, thread, page, told, errors, raced, clicks>>

\* The network comes back: a thread in use for more than 30 s is asked for.
Reconnect ==
    /\ Other
    /\ at # 0
    /\ thread' = [thread EXCEPT ![at] = Mount(@, TRUE)]
    /\ UNCHANGED <<server, page, post, told, errors, raced, clicks>>

Next ==
    \/ Leave \/ Type \/ Reconnect
    \/ \E e \in Expense : \/ Open(e) \/ Touch(e)
                          \/ LookUp(e) \/ SelectRows(e) \/ Answer(e) \/ AnswerLost(e)
                          \/ CommentElsewhere(e) \/ DeleteElsewhere(e)
    \/ \E k \in Call : \/ PostComment(k) \/ Find(k) \/ Insert(k)
                       \/ PostFails(k) \/ Posted(k) \/ NotPosted(k)

Spec == Init /\ [][Next]_vars

-----------------------------------------------------------------------------
(* Properties. *)

\* Types.
TypeOK ==
    /\ at \in Expense \cup {0} /\ draft \in Draft \cup {0}
    /\ at = 0 => draft = 0
    /\ told \cup raced \subseteq DOMAIN rows
    /\ \A e \in Expense : \A d \in thread[e].data : IsABag(d) /\ BagToSet(d) \subseteq On(e)

\* A comment this tab was told is posted is in its thread, and once, however
\* requests and posts overlap, unless the post's answer met a request for the
\* thread, or one that had been answered since its insert.
WholeUnlessRaced ==
    \A n \in told \ raced : \A d \in thread[rows[n].on].data : BagIn(n, d) /\ d[n] = 1

\* A text that was typed is stored once per failure the user was shown, and once
\* more: no click repeats what is under way.
OneRowPerText ==
    \A d \in Draft : Cardinality({n \in DOMAIN rows : rows[n].draft = d}) <= 1 + errors[d]

\* The deletion of an expense ends its thread but for the posts under way then,
\* of which several may still be stored.
OnlyOvertakenAreLate == \A n \in DOMAIN rows : rows[n].late => rows[n].overtaken
=============================================================================
