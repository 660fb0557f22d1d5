--------------------------- MODULE ExpenseScreens ---------------------------
(***************************************************************************)
(* The pages of one expense in one browser tab: the detail page            *)
(* (components/expenses/ExpenseDetail), the edit page and the form to file *)
(* a new one (pages/EditExpense, pages/SubmitExpense, ExpenseForm), with   *)
(* their reads from the query cache, their writes (queries/expenses,       *)
(* queries/approvals) and what the server makes of them, while the same    *)
(* expenses change in other sessions.                                      *)
(*                                                                         *)
(* A form keeps the values it was opened with while the expense behind it  *)
(* (its prop "initial") follows the cache.  Fields stand for two kinds:    *)
(* "amount" is text on the way in and a number in the form, "description"  *)
(* may be null, blank or text.  A render happens in the step that changes  *)
(* its inputs, so no click meets a button of an earlier state.             *)
(*                                                                         *)
(* Definitions named Strict..., Wrong..., Forgetful... or Late... are      *)
(* broken on purpose and take no part in Spec.                             *)
(***************************************************************************)
EXTENDS Naturals, FiniteSets, QueryCache

CONSTANTS Expense,   \* ids
          Mine,      \* those the user of this tab submitted; he decides the others
          Amount,    \* amounts, as numbers
          Call,      \* writes that can be under way at a time
          MaxClicks, \* bound: what the user does
          MaxOthers  \* bound: what happens in other sessions, and reconnects

ASSUME ScreensAssumption ==
    /\ Mine \subseteq Expense /\ IsFiniteSet(Expense) /\ 0 \notin Expense
    /\ Amount # {} /\ IsFiniteSet(Call)
    /\ MaxClicks \in Nat /\ MaxOthers \in Nat

VARIABLES row,     \* [Expense -> its row in the database]
          cache,   \* [Expense -> entry of the query cache, expenseKeys.detail(id)]
          route,   \* the page
          form,    \* state of the mounted ExpenseForm
          call,    \* [Call -> write under way]
          preview, \* receipt previews of the detail page
          urls,    \* object URLs created and not revoked
          told,    \* ghost: [Expense -> version this tab was last told of by a write]
          clicks, others

vars == <<row, cache, route, form, call, preview, urls, told, clicks, others>>
page == <<route, form, preview, urls>>

Field == {"amount", "description"}
Description == {"null", "blank", "text"}
Status == {"PENDING", "APPROVED", "REJECTED", "DELETED"}

Home == [at |-> "home", id |-> 0]
New == [at |-> "new", id |-> 0]
Detail(e) == [at |-> "detail", id |-> e]
Edit(e) == [at |-> "edit", id |-> e]
Route == {Home, New} \cup {Detail(e) : e \in Expense} \cup {Edit(e) : e \in Expense}

NoCall == [kind |-> "none"]
FormWrites == {"create", "update", "resubmit"}

Data(e) == CHOOSE d \in cache[e].data : TRUE
Using(e) == route.id = e

-----------------------------------------------------------------------------
(* The form. *)

NoForm == [mounted |-> FALSE]

\* A missing description is an empty text area.
Values(r) == [amount |-> r.amount,
              description |-> IF r.description = "null" THEN "blank" ELSE r.description]

\* opened, typed, errors and filed are ghosts: the row the form was opened on,
\* the fields the user touched, failures shown, expenses it filed.
Opened(r) == [mounted |-> TRUE, values |-> Values(r), opened |-> r, typed |-> {},
              file |-> "none", errors |-> 0, filed |-> 0]
NewForm == Opened([amount |-> 0, description |-> "null"])

\* The edit page shows the form only while its expense is loaded and the last
\* request for it did not fail.
EditShows(e, c) == Loaded(c[e]) /\ ~c[e].failed

FormStays(to, c) == /\ form.mounted /\ to = route
                    /\ to.at = "edit" => EditShows(to.id, c)

FormAt(to, c) ==
    IF FormStays(to, c) THEN form
    ELSE IF to.at = "new" THEN NewForm
    ELSE IF to.at = "edit" /\ EditShows(to.id, c)
         THEN Opened(CHOOSE d \in c[to.id].data : TRUE)
    ELSE NoForm

\* normalizeDescription, on both sides of the comparison.
Normal(r) == [r EXCEPT !.description = IF @ = "blank" THEN "null" ELSE @]

\* Broken: the number of the form is compared with the text of the API.
StrictDiffers(f, values, initial) ==
    f = "amount" \/ Normal(values)[f] # Normal(initial)[f]

\* A field counts as changed against the expense as it is cached now.
Differs(f, values, initial) == Normal(values)[f] # Normal(initial)[f]

Body(values, initial) ==
    [f \in {g \in Field : Differs(g, values, initial)} |-> Normal(values)[f]]

\* Editing a rejected expense resubmits it.
IsResubmit == route.at = "edit" /\ Data(route.id).status = "REJECTED"

FormKind == IF route.at = "new" THEN "create"
            ELSE IF IsResubmit THEN "resubmit" ELSE "update"

Pending(kind) == \E k \in Call : call[k].kind = kind /\ call[k].mine

\* Broken: a new expense looks at the update under way.
WrongIsSubmitting == Pending(IF FormKind = "create" THEN "update" ELSE FormKind)

\* Submit and Discard are disabled while the write of this kind is pending.
IsSubmitting == Pending(FormKind)

-----------------------------------------------------------------------------
(* The detail page. *)

ShowOwnerActions(e) == Loaded(cache[e]) /\ e \in Mine /\ Data(e).status = "PENDING"
ShowResubmit(e) == Loaded(cache[e]) /\ e \in Mine /\ Data(e).status = "REJECTED"
ShowApprovalActions(e) == Loaded(cache[e]) /\ e \notin Mine /\ Data(e).status = "PENDING"

-----------------------------------------------------------------------------
(* Renders. *)

\* The next page, from the next cache and the writes still under way.  AppShell keys
\* the page on the path, so the page of another expense is another page.  What is
\* unmounted revokes its URL and hears no more of its writes and previews.
Render(to, c, calls) ==
    LET leaves == route.at = "detail" /\ to # route
        closes == form.mounted /\ ~FormStays(to, c)
        heard(k) == IF calls[k].kind \in FormWrites THEN ~closes ELSE ~leaves
    IN  /\ route' = to /\ cache' = c
        /\ form' = FormAt(to, c)
        /\ call' = [k \in Call |-> IF calls[k] = NoCall THEN NoCall
                                   ELSE [calls[k] EXCEPT !.mine = @ /\ heard(k)]]
        /\ preview' = IF leaves
                      THEN [asked |-> 0, late |-> preview.late + preview.asked, shown |-> FALSE]
                      ELSE preview
        /\ urls' = urls - (IF leaves /\ preview.shown THEN 1 ELSE 0)
                        - (IF closes /\ form.file = "image" THEN 1 ELSE 0)

Init ==
    /\ row \in [Expense -> [status : {"PENDING", "REJECTED"}, amount : {CHOOSE a \in Amount : TRUE},
                            description : {"null", "blank"}, version : {1}]]
    /\ \A e \in Expense \ Mine : row[e].status = "PENDING" /\ row[e].description = "null"
    /\ cache = [e \in Expense |-> Empty]
    /\ route = Home
    /\ form = NoForm
    /\ call = [k \in Call |-> NoCall]
    /\ preview = [asked |-> 0, late |-> 0, shown |-> FALSE]
    /\ urls = 0
    /\ told = [e \in Expense |-> 0]
    /\ clicks = 0 /\ others = 0

Click == clicks < MaxClicks /\ clicks' = clicks + 1

-----------------------------------------------------------------------------
(* The user. *)

\* Links of the lists, the bell, the side bar and the detail page; Back and
\* Discard are among them.  A page in use asks for its expense if it is stale.
Navigate(to) ==
    /\ Click
    /\ to # route
    /\ to.at = "edit" => /\ route = Detail(to.id)
                         /\ ShowOwnerActions(to.id) \/ ShowResubmit(to.id)
    /\ \E old \in BOOLEAN :
           Render(to, [e \in Expense |-> IF to.id = e THEN Mount(cache[e], old) ELSE cache[e]], call)
    /\ UNCHANGED <<row, told, others>>

\* "Try again" of the edit page.
Refetch ==
    /\ Click
    /\ route.at = "edit" /\ cache[route.id].failed
    /\ Render(route, [cache EXCEPT ![route.id] = Ask(@)], call)
    /\ UNCHANGED <<row, told, others>>

\* Nothing depends on what is typed into a new form.
TypeIn(f, v) ==
    /\ Click
    /\ route.at = "edit" /\ form.mounted /\ form.values[f] # v
    /\ form' = [form EXCEPT !.values[f] = v, !.typed = @ \cup {f}]
    /\ UNCHANGED <<row, cache, route, call, preview, urls, told, others>>

\* FileDropzone: a refused file takes the chosen one away, an image has a
\* thumbnail and "remove" is the file "none".
ChooseFile(file) ==
    /\ Click
    /\ route.at = "new"
    /\ LET chosen == IF file = "refused" THEN "none" ELSE file
       IN  /\ form' = [form EXCEPT !.file = chosen]
           /\ urls' = urls - (IF form.file = "image" THEN 1 ELSE 0)
                           + (IF chosen = "image" THEN 1 ELSE 0)
    /\ UNCHANGED <<row, cache, route, call, preview, told, others>>

\* meant, a ghost: the fields the user touched and those whose cached value has
\* changed since the form was opened.
Send(k, kind, e, body, meant) ==
    /\ call[k] = NoCall
    /\ call' = [call EXCEPT ![k] = [kind |-> kind, id |-> e, phase |-> "sent", mine |-> TRUE,
                                    body |-> body, meant |-> meant, version |-> 0]]

\* onSubmit of a new expense.
Create(k) ==
    /\ Click
    /\ route.at = "new" /\ ~IsSubmitting
    /\ Send(k, "create", 0, <<>>, {})
    /\ UNCHANGED <<row, cache, page, told, others>>

\* onSubmit of an edit: a resubmission carries every field, an update those
\* that changed; without any the form is left.
Save(k) ==
    /\ Click
    /\ route.at = "edit" /\ form.mounted /\ ~IsSubmitting
    /\ LET e == route.id
           body == IF IsResubmit THEN Normal(form.values) ELSE Body(form.values, Data(e))
       IN  IF DOMAIN body = {}
           THEN \E old \in BOOLEAN :
                    Render(Detail(e), [cache EXCEPT ![e] = Mount(@, old)], call)
           ELSE /\ Send(k, FormKind, e, body,
                       form.typed \cup {f \in Field : Normal(Data(e))[f] # Normal(form.opened)[f]})
                /\ UNCHANGED <<cache, page>>
    /\ UNCHANGED <<row, told, others>>

\* The dialog's button, and Approve.
Act(k, kind) ==
    /\ Click
    /\ route.at = "detail"
    /\ IF kind = "delete" THEN ShowOwnerActions(route.id) ELSE ShowApprovalActions(route.id)
    /\ ~Pending(kind)
    /\ Send(k, kind, route.id, <<>>, {})
    /\ UNCHANGED <<row, cache, page, told, others>>

\* handlePreview, up to its await.
Preview ==
    /\ Click
    /\ route.at = "detail" /\ Loaded(cache[route.id])
    /\ preview' = [preview EXCEPT !.asked = @ + 1]
    /\ UNCHANGED <<row, cache, route, form, call, urls, told, others>>

ClosePreview ==
    /\ Click
    /\ preview.shown
    /\ preview' = [preview EXCEPT !.shown = FALSE]
    /\ urls' = urls - 1
    /\ UNCHANGED <<row, cache, route, form, call, told, others>>

-----------------------------------------------------------------------------
(* Answers to reads. *)

\* handlePreview, after its await: the picture replaces the one shown.
PreviewArrives ==
    /\ preview.asked > 0
    /\ \/ /\ preview' = [preview EXCEPT !.asked = @ - 1, !.shown = TRUE]
          /\ urls' = urls - (IF preview.shown THEN 1 ELSE 0) + 1
       \/ /\ preview' = [preview EXCEPT !.asked = @ - 1]
          /\ UNCHANGED urls
    /\ UNCHANGED <<row, cache, route, form, call, told, clicks, others>>

\* Broken: nobody looks whether the page is still there.
LatePreviewIgnored ==
    /\ preview.late > 0
    /\ preview' = [preview EXCEPT !.late = @ - 1]
    /\ urls' = urls + 1
    /\ UNCHANGED <<row, cache, route, form, call, told, clicks, others>>

\* The page is gone.
PreviewIgnored ==
    /\ preview.late > 0
    /\ preview' = [preview EXCEPT !.late = @ - 1]
    /\ UNCHANGED <<row, cache, route, form, call, urls, told, clicks, others>>

\* GET /expenses/:id has read the row.
ReadRow(e) ==
    /\ cache[e].fetch = "asked"
    /\ row[e].status # "DELETED"
    /\ cache' = [cache EXCEPT ![e] = Read(@, row[e], TRUE)]
    /\ UNCHANGED <<row, page, call, told, clicks, others>>

Answer(e) ==
    /\ cache[e].fetch = "answered"
    /\ Render(route, [cache EXCEPT ![e] = Arrive(@)], call)
    /\ UNCHANGED <<row, told, clicks, others>>

AnswerLost(e) ==
    /\ Fetching(cache[e])
    /\ Render(route, [cache EXCEPT ![e] = Fail(@)], call)
    /\ UNCHANGED <<row, told, clicks, others>>

-----------------------------------------------------------------------------
(* Writes. *)

\* The status from which the server accepts a write, and what it leaves.
From(kind) == IF kind = "resubmit" THEN "REJECTED" ELSE "PENDING"
Written(r, w) ==
    LET status == CASE w.kind = "approve" -> "APPROVED"
                    [] w.kind = "reject" -> "REJECTED"
                    [] w.kind = "delete" -> "DELETED"
                    [] OTHER -> "PENDING"
        fields == IF w.kind \in FormWrites THEN w.body ELSE <<>>
    IN  [n \in DOMAIN r |-> IF n = "status" THEN status
                            ELSE IF n = "version" THEN r.version + 1
                            ELSE IF n \in DOMAIN fields THEN fields[n] ELSE r[n]]

\* The write takes effect; its answer arrives or is lost.
Apply(k) ==
    /\ call[k].kind # "none" /\ call[k].phase = "sent"
    /\ IF call[k].kind = "create"
       THEN /\ form' = IF call[k].mine THEN [form EXCEPT !.filed = @ + 1] ELSE form
            /\ UNCHANGED row
       ELSE /\ row[call[k].id].status = From(call[k].kind)
            /\ row' = [row EXCEPT ![call[k].id] = Written(@, call[k])]
            /\ UNCHANGED form
    /\ \E phase \in {"done", "failed"} :
           call' = [call EXCEPT ![k].phase = phase,
                                ![k].version = IF call[k].id \in Expense THEN row'[call[k].id].version ELSE 0]
    /\ UNCHANGED <<cache, route, preview, urls, told, clicks, others>>

\* 404, 409, a failure of the server or of the network.
Refuse(k) ==
    /\ call[k].kind # "none" /\ call[k].phase = "sent"
    /\ call' = [call EXCEPT ![k].phase = "failed"]
    /\ UNCHANGED <<row, cache, page, told, clicks, others>>

\* Broken: an edit leaves the cached expense alone.
ForgetfulTouched(w) ==
    IF w.kind \in {"approve", "reject"} THEN {w.id} ELSE {}

\* Entries a write invalidates: a decision always, an edit when it succeeds,
\* a new or deleted expense none of these.
Touched(w) ==
    IF w.kind \in {"approve", "reject"} \/ (w.kind \in {"update", "resubmit"} /\ w.phase = "done")
    THEN {w.id} ELSE {}

\* Where a success leads, if the component that asked is still there.
Target(w) == IF ~w.mine \/ w.phase = "failed" \/ w.kind \in {"approve", "reject"} THEN route
             ELSE IF w.kind \in {"update", "resubmit"} THEN Detail(w.id) ELSE Home

Finish(k) ==
    /\ call[k].kind # "none" /\ call[k].phase \in {"done", "failed"}
    /\ LET w == call[k]
           calls == [call EXCEPT ![k] = NoCall]
           c == [e \in Expense |-> IF e \in Touched(w) THEN Invalidate(cache[e], Using(e)) ELSE cache[e]]
           fails == w.mine /\ w.phase = "failed" /\ w.kind \in FormWrites
       IN  /\ IF fails
              THEN /\ call' = calls /\ cache' = c
                   /\ form' = [form EXCEPT !.errors = @ + 1]
                   /\ UNCHANGED <<route, preview, urls>>
              ELSE Render(Target(w), c, calls)
           /\ told' = IF w.phase = "done" /\ w.kind \notin {"create", "delete"}
                      THEN [told EXCEPT ![w.id] = w.version] ELSE told
    /\ UNCHANGED <<row, clicks, others>>

-----------------------------------------------------------------------------
(* Other sessions. *)

\* The owner edits, deletes or resubmits in another tab, an approver decides.
Elsewhere(e) ==
    /\ others < MaxOthers /\ others' = others + 1
    /\ \/ /\ row[e].status = "PENDING"
          /\ \E kind \in {"approve", "reject", "delete"} :
                 row' = [row EXCEPT ![e] = Written(@, [kind |-> kind])]
       \/ /\ row[e].status \in {"PENDING", "REJECTED"} /\ e \in Mine
          /\ \E a \in Amount \ {row[e].amount} :
                 row' = [row EXCEPT ![e] = Written(@, [kind |-> "update", body |-> [amount |-> a]])]
    /\ UNCHANGED <<cache, page, call, told, clicks>>

\* The network comes back: an expense in use for more than 30 s is asked for.
Reconnect ==
    /\ others < MaxOthers /\ others' = others + 1
    /\ \E e \in Expense : Using(e) /\ cache' = [cache EXCEPT ![e] = Mount(@, TRUE)]
    /\ cache' # cache
    /\ UNCHANGED <<row, page, call, told, clicks>>

Next ==
    \/ \E to \in Route : Navigate(to)
    \/ Refetch \/ Preview \/ ClosePreview
    \/ \E a \in Amount : TypeIn("amount", a)
    \/ \E d \in Description \ {"null"} : TypeIn("description", d)
    \/ \E file \in {"image", "pdf", "refused", "none"} : ChooseFile(file)
    \/ \E k \in Call : \/ Create(k) \/ Save(k)
                       \/ \E kind \in {"delete", "approve", "reject"} : Act(k, kind)
                       \/ Apply(k) \/ Refuse(k) \/ Finish(k)
    \/ PreviewArrives \/ PreviewIgnored
    \/ \E e \in Expense : ReadRow(e) \/ Answer(e) \/ AnswerLost(e) \/ Elsewhere(e)
    \/ Reconnect

Spec == Init /\ [][Next]_vars

-----------------------------------------------------------------------------
(* Properties. *)

\* Types.
TypeOK ==
    /\ \A e \in Expense : row[e].status \in Status /\ row[e].amount \in Amount
                          /\ row[e].description \in Description
    /\ route \in Route
    /\ form.mounted => route.at \in {"new", "edit"}
    /\ preview.shown => route.at = "detail"
    /\ urls \in Nat

\* An update carries no field the user left alone, unless the expense was read
\* again and showed another value of it while the form was open: the audit
\* trail then names the fields that were edited, and a value changed elsewhere
\* is not undone by a save of another field.
SavesOnlyTheEdit ==
    \A k \in Call : call[k].kind = "update" => DOMAIN call[k].body \subseteq call[k].meant

\* A form files an expense more than once only after telling the user that an
\* attempt failed: nothing is repeated behind his back.
OneFilingPerForm == form.mounted => form.filed <= form.errors + 1

\* A page shows what this tab was told its own writes did, however reads, writes,
\* navigation and failures overlap, also while some of them are under way.  As for
\* the lists, entries that will be asked for when next in use are excepted, and
\* those whose first request the invalidation could not restart.
ReadsItsWrites ==
    \A e \in Expense :
        Loaded(cache[e]) /\ ~cache[e].stale /\ ~cache[e].missed
            => Data(e).version >= told[e]

\* Object URLs are never more than the picture and the thumbnail in view.
UrlsAreReleased ==
    urls = (IF preview.shown THEN 1 ELSE 0)
           + (IF form.mounted /\ form.file = "image" THEN 1 ELSE 0)
=============================================================================
