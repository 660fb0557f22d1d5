----------------------- MODULE ExpenseScreens_proofs -----------------------
(***************************************************************************)
(* Theorems about ExpenseScreens for any number of expenses, amounts and   *)
(* writes under way.                                                       *)
(*                                                                         *)
(* Most steps end in a render, which may unmount what asked for a write or *)
(* a picture.  RenderKeeps says once what a render can do; the parts of    *)
(* the invariant then go through the steps that are left.                  *)
(***************************************************************************)
EXTENDS ExpenseScreens, TLAPS

-----------------------------------------------------------------------------
(* The invariant. *)

Rows == [status : Status, amount : Amount, description : Description, version : Nat]
Blank == [amount |-> 0, description |-> "null"]

Snapshots == [data : SUBSET Rows, stale : BOOLEAN, failed : BOOLEAN]
Entries == [data : SUBSET Rows, fetch : {"idle", "asked", "answered"}, answer : SUBSET Rows,
            before : Snapshots, stale : BOOLEAN, failed : BOOLEAN,
            late : BOOLEAN, missed : BOOLEAN]

Inputs == [amount : Amount \cup {0}, description : {"blank", "text"}]
Forms == [mounted : {TRUE}, values : Inputs, opened : Rows \cup {Blank}, typed : SUBSET Field,
          file : {"none", "image", "pdf"}, errors : Nat, filed : Nat]

Bodies == UNION {[D -> Amount \cup {0} \cup Description] : D \in SUBSET Field}
Calls == [kind : FormWrites \cup {"delete", "approve", "reject"}, id : Expense \cup {0},
          phase : {"sent", "done", "failed"}, mine : BOOLEAN, body : Bodies,
          meant : SUBSET Field, version : Nat]

\* What the variables hold, but for urls.
TypeInv ==
    /\ row \in [Expense -> Rows]
    /\ cache \in [Expense -> Entries]
    /\ route \in Route
    /\ form \in Forms \cup {NoForm}
    /\ call \in [Call -> Calls \cup {NoCall}]
    /\ preview \in [asked : Nat, late : Nat, shown : BOOLEAN]
    /\ told \in [Expense -> Nat]

\* Only a new expense is written without an id, and no write leaves a value a row
\* cannot have.
Fits(body) ==
    /\ DOMAIN body \subseteq Field
    /\ "amount" \in DOMAIN body => body["amount"] \in Amount
    /\ "description" \in DOMAIN body => body["description"] \in Description
Writable(w) == w.kind \notin {"none", "create"} => w.id \in Expense /\ Fits(w.body)

\* Who still hears of a form's write is the form that sent it.
Heard(w) ==
    w.kind \in FormWrites /\ w.mine =>
        /\ form.mounted
        /\ w.kind = "create" <=> route.at = "new"

\* What is on a page.
PageInv ==
    /\ form.mounted => route.at \in {"new", "edit"}
    /\ route.at = "new" => form.mounted
    /\ form.mounted /\ route.at = "edit" => form.values.amount \in Amount
    /\ preview.shown \/ preview.asked > 0 => route.at = "detail"
    /\ \A k \in Call : Writable(call[k]) /\ Heard(call[k])

\* A field nobody typed into still has the value the form was opened with.
FormInv ==
    form.mounted =>
        \A f \in Field \ form.typed : Normal(form.values)[f] = Normal(form.opened)[f]

\* The new form's writes: one at a time, and one more filed than failed only while
\* an answer is out.
Filing(w) == w.kind = "create" /\ w.mine
FilingInv ==
    /\ \A k, l \in Call : Filing(call[k]) /\ Filing(call[l]) => k = l
    /\ form.mounted =>
          \/ form.filed <= form.errors
          \/ /\ form.filed = form.errors + 1
             /\ \E k \in Call : Filing(call[k]) /\ call[k].phase \in {"done", "failed"}

\* An entry c whose data count as good shows version v or a later one, and so does
\* an answer on its way that will count as good.
Current(c, v) ==
    /\ ~c.stale /\ ~c.missed => \A d \in c.data : d.version >= v
    /\ c.fetch = "answered" /\ ~c.late => \A d \in c.answer : d.version >= v

\* A write whose success is on its way to the tab.
Answered(w) == w.kind \notin {"none", "create"} /\ w.phase = "done"

\* What the tab was told, or will be, is not ahead of the table.
ReadInv ==
    /\ \A e \in Expense : told[e] <= row[e].version /\ Current(cache[e], told[e])
    /\ \A k \in Call : Answered(call[k]) => call[k].version <= row[call[k].id].version

-----------------------------------------------------------------------------
(* Entries of the cache. *)

\* What the library does with an entry is an entry.
LEMMA EntriesStay ==
    ASSUME NEW c \in Entries, NEW yes \in BOOLEAN
    PROVE  /\ Ask(c) \in Entries /\ Mount(c, yes) \in Entries /\ Invalidate(c, yes) \in Entries
           /\ Arrive(c) \in Entries /\ Fail(c) \in Entries
           /\ \A r \in Rows : Read(c, r, TRUE) \in Entries
<1>1. c.data \in SUBSET Rows /\ c.answer \in SUBSET Rows /\ c.before \in Snapshots
      /\ c.stale \in BOOLEAN /\ c.failed \in BOOLEAN /\ c.late \in BOOLEAN /\ c.missed \in BOOLEAN
      /\ c.fetch \in {"idle", "asked", "answered"}
  BY DEF Entries
<1>2. NotAsked \in Snapshots
  BY DEF NotAsked, Snapshots
<1>3. \A s \in BOOLEAN : [data |-> c.data, stale |-> s, failed |-> c.failed] \in Snapshots
  BY <1>1 DEF Snapshots
<1>4. \A x \in Entries : [data |-> x.data, stale |-> x.stale, failed |-> x.failed] \in Snapshots
  BY DEF Entries, Snapshots
<1>5. \A x \in Entries : Ask(x) \in Entries
  BY <1>4 DEF Ask, Entries, Loaded
<1>6. Mount(c, yes) \in Entries
  BY <1>5 DEF Mount
<1>7. Invalidate(c, yes) \in Entries
  <2>1. [c EXCEPT !.stale = TRUE] \in Entries
    BY DEF Entries
  <2>2. \A m \in Entries : [m EXCEPT !.late = @ \/ Fetching(c)] \in Entries
    BY DEF Entries, Fetching
  <2>3. QED
    BY <1>5, <2>1, <2>2 DEF Invalidate
<1>8. \A r \in Rows : Read(c, r, TRUE) \in Entries
  BY <1>1 DEF Read, Entries
<1>9. Arrive(c) \in Entries /\ Fail(c) \in Entries
  BY <1>1, <1>2 DEF Arrive, Fail, Entries
<1>10. QED
  BY <1>5, <1>6, <1>7, <1>8, <1>9

\* None of it makes old data count as good.
LEMMA EntriesStayCurrent ==
    ASSUME NEW c \in Entries, NEW v \in Nat, Current(c, v), NEW yes \in BOOLEAN
    PROVE  /\ Current(Ask(c), v) /\ Current(Mount(c, yes), v)
           /\ Current(Fail(c), v)
           /\ c.fetch = "answered" => Current(Arrive(c), v)
<1>1. Current(Ask(c), v)
  BY DEF Current, Ask, Entries
<1>2. Current(Mount(c, yes), v)
  BY <1>1 DEF Mount
<1>3. Current(Fail(c), v)
  BY DEF Current, Fail, Entries
<1>4. c.fetch = "answered" => Current(Arrive(c), v)
  BY DEF Current, Arrive, Entries
<1>5. QED
  BY <1>1, <1>2, <1>3, <1>4

\* After an invalidation nothing counts as good before it is asked for again.
LEMMA InvalidatedIsCurrent ==
    ASSUME NEW c \in Entries, NEW yes \in BOOLEAN, NEW v
    PROVE  Current(Invalidate(c, yes), v)
BY DEF Current, Invalidate, Ask, Entries, Fetching, Loaded

\* What the server reads now is the row as it is.
LEMMA ReadIsCurrent ==
    ASSUME NEW c \in Entries, NEW v \in Nat, NEW r \in Rows, Current(c, v), v <= r.version
    PROVE  Current(Read(c, r, TRUE), v)
BY DEF Current, Read, Entries, Rows

-----------------------------------------------------------------------------
(* Rows. *)

\* A write leaves a row, one version later.
LEMMA WrittenRow ==
    ASSUME NEW r \in Rows, NEW w, w.kind \in FormWrites => Fits(w.body)
    PROVE  Written(r, w) \in Rows /\ Written(r, w).version = r.version + 1
<1>1. DOMAIN r = {"status", "amount", "description", "version"}
      /\ r.amount \in Amount /\ r.description \in Description /\ r.version \in Nat
  BY DEF Rows
<1> DEFINE fields == IF w.kind \in FormWrites THEN w.body ELSE <<>>
           status == CASE w.kind = "approve" -> "APPROVED"
                       [] w.kind = "reject" -> "REJECTED"
                       [] w.kind = "delete" -> "DELETED"
                       [] OTHER -> "PENDING"
<1>2. status \in Status
  BY DEF Status
<1>3. /\ DOMAIN fields \subseteq Field
      /\ "amount" \in DOMAIN fields => fields["amount"] \in Amount
      /\ "description" \in DOMAIN fields => fields["description"] \in Description
  BY DEF Field, Fits
<1>4. Written(r, w) = [n \in DOMAIN r |-> IF n = "status" THEN status
                                          ELSE IF n = "version" THEN r.version + 1
                                          ELSE IF n \in DOMAIN fields THEN fields[n] ELSE r[n]]
  BY DEF Written
<1> HIDE DEF fields, status
<1>5. /\ Written(r, w)["status"] = status /\ Written(r, w)["version"] = r.version + 1
      /\ Written(r, w)["amount"] \in Amount /\ Written(r, w)["description"] \in Description
  BY <1>1, <1>3, <1>4 DEF Field
<1>6. Written(r, w) = [status |-> Written(r, w)["status"], amount |-> Written(r, w)["amount"],
                       description |-> Written(r, w)["description"],
                       version |-> Written(r, w)["version"]]
  BY <1>1, <1>4
<1>7. QED
  BY <1>1, <1>2, <1>5, <1>6 DEF Rows

-----------------------------------------------------------------------------
(* Renders. *)

\* What becomes of a write v under way, seen as w: it may lose its listener.
Follows(w, v) ==
    \/ w = NoCall /\ v = NoCall
    \/ /\ v \in Calls /\ w \in Calls
       /\ w.kind = v.kind /\ w.id = v.id /\ w.phase = v.phase /\ w.body = v.body
       /\ w.meant = v.meant /\ w.version = v.version
       /\ w.mine => v.mine

\* A form that has just been mounted, or none.
Fresh(f) ==
    f.mounted => /\ f.typed = {} /\ f.errors = 0 /\ f.filed = 0 /\ f.file = "none"
                 /\ f.opened \in Rows \cup {Blank} /\ f.values = Values(f.opened)

\* Routes, by where they are.
LEMMA RouteFacts ==
    ASSUME NEW to \in Route
    PROVE  /\ to.at \in {"home", "new", "detail", "edit"}
           /\ to.at \in {"detail", "edit"} => to.id \in Expense
           /\ to.at = "home" => to = Home
           /\ to.at = "new" => to = New
BY DEF Route, Home, New, Detail, Edit

\* A form opens on a row or blank.
LEMMA OpenedForms ==
    ASSUME NEW r \in Rows \cup {Blank}
    PROVE  /\ Opened(r) \in Forms /\ Fresh(Opened(r)) /\ Opened(r).mounted
           /\ Opened(r).opened = r
           /\ r \in Rows => Opened(r).values.amount \in Amount
<1>1. r.description \in Description /\ r.amount \in Amount \cup {0}
      /\ (r \in Rows => r.amount \in Amount)
  BY DEF Rows, Blank, Description
<1>2. Values(r) \in Inputs /\ Values(r).amount = r.amount
  BY <1>1 DEF Values, Inputs, Description
<1>3. QED
  BY <1>1, <1>2 DEF Opened, Forms, Fresh

\* FormAt: the form stays as it is, or is mounted anew, or there is none.
LEMMA FormAtFacts ==
    ASSUME form \in Forms \cup {NoForm}, NEW to \in Route, NEW c \in [Expense -> Entries],
           ~FormStays(to, c)
    PROVE  /\ FormAt(to, c) \in Forms \cup {NoForm}
           /\ Fresh(FormAt(to, c))
           /\ FormAt(to, c).mounted => to.at \in {"new", "edit"}
           /\ to.at = "new" => FormAt(to, c).mounted
           /\ FormAt(to, c).mounted /\ to.at = "edit" => FormAt(to, c).values.amount \in Amount
<1>1. NoForm.mounted = FALSE /\ Fresh(NoForm)
  BY DEF NoForm, Fresh
<1>2. CASE to.at = "new"
  <2>1. FormAt(to, c) = Opened(Blank)
    BY <1>2 DEF FormAt, NewForm, Blank
  <2>2. QED
    BY <1>2, <2>1, OpenedForms
<1>3. CASE to.at = "edit" /\ EditShows(to.id, c)
  <2>1. PICK r \in Rows : r = (CHOOSE d \in c[to.id].data : TRUE)
    <3>1. c[to.id].data \subseteq Rows
      BY <1>3, RouteFacts DEF Entries
    <3>2. c[to.id].data # {}
      BY <1>3 DEF EditShows, Loaded
    <3>3. QED
      BY <3>1, <3>2
  <2>2. FormAt(to, c) = Opened(r)
    BY <1>3, <2>1 DEF FormAt
  <2>3. QED
    BY <1>3, <2>2, OpenedForms
<1>4. CASE to.at # "new" /\ ~(to.at = "edit" /\ EditShows(to.id, c))
  <2>1. FormAt(to, c) = NoForm
    BY <1>4 DEF FormAt
  <2>2. QED
    BY <1>1, <1>4, <2>1
<1>5. QED
  BY <1>2, <1>3, <1>4

\* Renders, with the next page, the next cache and the writes still under way.
Drawn(to, c, calls) ==
    /\ to \in Route /\ c \in [Expense -> Entries] /\ calls \in [Call -> Calls \cup {NoCall}]
    /\ \A k \in Call : calls[k] \in {call[k], NoCall}
    /\ Render(to, c, calls)

\* The writes after a render: those of a form that goes are no longer heard, and
\* those of a form that stays are.
LEMMA RenderedCalls ==
    ASSUME TypeInv, PageInv, NEW to, NEW c, NEW calls, Drawn(to, c, calls)
    PROVE  /\ call' \in [Call -> Calls \cup {NoCall}]
           /\ \A k \in Call : Follows(call'[k], calls[k])
           /\ \A k \in Call : call'[k].kind \in FormWrites =>
                 IF FormStays(to, c) THEN call'[k].mine = calls[k].mine ELSE ~call'[k].mine
<1> DEFINE leaves == route.at = "detail" /\ to # route
           closes == form.mounted /\ ~FormStays(to, c)
           heard(k) == IF calls[k].kind \in FormWrites THEN ~closes ELSE ~leaves
<1>1. call' = [k \in Call |-> IF calls[k] = NoCall THEN NoCall
                              ELSE [calls[k] EXCEPT !.mine = @ /\ heard(k)]]
  BY DEF Drawn, Render
<1>2. \A k \in Call : heard(k) \in BOOLEAN
  OBVIOUS
<1>3. \A k \in Call : calls[k].kind \in FormWrites => (heard(k) <=> ~closes)
  OBVIOUS
<1> HIDE DEF heard
<1>4. ASSUME NEW k \in Call
      PROVE  /\ call'[k] \in Calls \cup {NoCall} /\ Follows(call'[k], calls[k])
             /\ call'[k].kind \in FormWrites =>
                   IF FormStays(to, c) THEN call'[k].mine = calls[k].mine ELSE ~call'[k].mine
  <2>1. CASE calls[k] = NoCall
    BY <1>1, <2>1 DEF Follows, NoCall, FormWrites
  <2>2. CASE calls[k] # NoCall
    <3>1. calls[k] \in Calls /\ calls[k] = call[k] /\ calls[k].mine \in BOOLEAN
      BY <2>2 DEF Drawn, Calls
    <3>2. call'[k] = [calls[k] EXCEPT !.mine = @ /\ heard(k)]
      BY <1>1, <2>2
    <3>3. call'[k] \in Calls /\ Follows(call'[k], calls[k])
          /\ call'[k].kind = calls[k].kind
          /\ call'[k].mine = (calls[k].mine /\ heard(k))
      BY <1>2, <3>1, <3>2 DEF Calls, Follows
    <3>4. ~form.mounted /\ call[k].kind \in FormWrites => ~call[k].mine
      BY DEF PageInv, Heard
    <3>5. QED
      BY <1>3, <3>1, <3>3, <3>4
  <2>3. QED
    BY <2>1, <2>2
<1>5. call' \in [Call -> Calls \cup {NoCall}]
  BY <1>1, <1>4
<1>6. QED
  BY <1>4, <1>5

\* The form after a render.
LEMMA RenderedForm ==
    ASSUME TypeInv, PageInv, NEW to, NEW c, NEW calls, Drawn(to, c, calls)
    PROVE  /\ form' \in Forms \cup {NoForm}
           /\ FormStays(to, c) => form' = form /\ form.mounted /\ to = route
           /\ ~FormStays(to, c) => Fresh(form')
           /\ form'.mounted => to.at \in {"new", "edit"}
           /\ to.at = "new" => form'.mounted
           /\ form'.mounted /\ to.at = "edit" => form'.values.amount \in Amount
<1>1. form' = FormAt(to, c) /\ to \in Route /\ c \in [Expense -> Entries]
      /\ form \in Forms \cup {NoForm}
  BY DEF Drawn, Render, TypeInv
<1>2. CASE FormStays(to, c)
  <2>1. form' = form /\ form.mounted /\ to = route
    BY <1>1, <1>2 DEF FormAt, FormStays
  <2>2. QED
    BY <1>1, <1>2, <2>1 DEF PageInv
<1>3. CASE ~FormStays(to, c)
  BY <1>1, <1>3, FormAtFacts
<1>4. QED
  BY <1>2, <1>3

\* The pictures after a render.
LEMMA RenderedPictures ==
    ASSUME TypeInv, PageInv, UrlsAreReleased, NEW to, NEW c, NEW calls, Drawn(to, c, calls)
    PROVE  /\ preview' \in [asked : Nat, late : Nat, shown : BOOLEAN]
           /\ preview'.shown \/ preview'.asked > 0 => to.at = "detail"
           /\ UrlsAreReleased'
<1>1. preview \in [asked : Nat, late : Nat, shown : BOOLEAN]
      /\ (preview.shown \/ preview.asked > 0 => route.at = "detail")
  BY DEF TypeInv, PageInv
<1> DEFINE leaves == route.at = "detail" /\ to # route
           closes == form.mounted /\ ~FormStays(to, c)
<1>2. /\ preview' = IF leaves
                    THEN [asked |-> 0, late |-> preview.late + preview.asked, shown |-> FALSE]
                    ELSE preview
      /\ urls' = urls - (IF leaves /\ preview.shown THEN 1 ELSE 0)
                      - (IF closes /\ form.file = "image" THEN 1 ELSE 0)
  BY DEF Drawn, Render
<1>3. /\ preview' \in [asked : Nat, late : Nat, shown : BOOLEAN]
      /\ preview'.shown \/ preview'.asked > 0 => to.at = "detail"
      /\ preview'.shown <=> preview.shown /\ ~leaves
  BY <1>1, <1>2
<1>4. form'.mounted /\ form'.file = "image"
         <=> form.mounted /\ form.file = "image" /\ ~closes
  BY RenderedForm DEF Fresh
<1>5. UrlsAreReleased'
  <2>1. urls = (IF preview.shown THEN 1 ELSE 0)
               + (IF form.mounted /\ form.file = "image" THEN 1 ELSE 0)
    BY DEF UrlsAreReleased
  <2>2. urls' = (IF preview'.shown THEN 1 ELSE 0)
                + (IF form'.mounted /\ form'.file = "image" THEN 1 ELSE 0)
    BY <1>2, <1>3, <1>4, <2>1
  <2>3. QED
    BY <2>2 DEF UrlsAreReleased
<1>6. QED
  BY <1>3, <1>5

\* A render keeps types, pages and what a form was opened with.
LEMMA RenderKeeps ==
    ASSUME TypeInv, PageInv, FormInv, SavesOnlyTheEdit, UrlsAreReleased,
           NEW to, NEW c, NEW calls, Drawn(to, c, calls),
           row' = row, told' \in [Expense -> Nat]
    PROVE  TypeInv' /\ PageInv' /\ FormInv' /\ SavesOnlyTheEdit' /\ UrlsAreReleased'
<1>1. route' = to /\ cache' = c /\ to \in Route /\ c \in [Expense -> Entries]
      /\ \A k \in Call : calls[k] \in {call[k], NoCall}
  BY DEF Drawn, Render
<1>2. \A k \in Call : Follows(call'[k], calls[k])
  BY RenderedCalls
<1>3. \A k \in Call : call'[k] = NoCall \/ Follows(call'[k], call[k])
  BY <1>1, <1>2 DEF Follows, Calls, NoCall
<1>4. TypeInv'
  <2>1. row' \in [Expense -> Rows] /\ cache' \in [Expense -> Entries] /\ route' \in Route
        /\ told' \in [Expense -> Nat]
    BY <1>1 DEF TypeInv
  <2>2. call' \in [Call -> Calls \cup {NoCall}]
    BY RenderedCalls
  <2>3. form' \in Forms \cup {NoForm}
    BY RenderedForm
  <2>4. preview' \in [asked : Nat, late : Nat, shown : BOOLEAN]
    BY RenderedPictures
  <2>5. QED
    BY <2>1, <2>2, <2>3, <2>4 DEF TypeInv
<1>5. \A k \in Call : Writable(call'[k])
  BY <1>3 DEF PageInv, Writable, Follows, NoCall
<1>6. \A k \in Call : Heard(call[k])'
  <2>1. ASSUME NEW k \in Call, call'[k].kind \in FormWrites, call'[k].mine
        PROVE  form'.mounted /\ (call'[k].kind = "create" <=> route'.at = "new")
    <3>1. FormStays(to, c) /\ call'[k] # NoCall
      BY <2>1, RenderedCalls DEF NoCall, FormWrites
    <3>2. form' = form /\ form.mounted /\ to = route
      BY <3>1, RenderedForm
    <3>3. call[k].kind = call'[k].kind /\ call[k].mine
      BY <1>3, <2>1, <3>1 DEF Follows
    <3>4. QED
      BY <1>1, <2>1, <3>2, <3>3 DEF PageInv, Heard
  <2>2. QED
    BY <2>1 DEF Heard
<1>7. PageInv'
  <2>1. /\ form'.mounted => route'.at \in {"new", "edit"}
        /\ route'.at = "new" => form'.mounted
        /\ form'.mounted /\ route'.at = "edit" => form'.values.amount \in Amount
    BY <1>1, RenderedForm
  <2>2. preview'.shown \/ preview'.asked > 0 => route'.at = "detail"
    BY <1>1, RenderedPictures
  <2>3. QED
    BY <1>5, <1>6, <2>1, <2>2 DEF PageInv, Writable
<1>8. FormInv'
  <2>1. CASE FormStays(to, c)
    BY <2>1, RenderedForm DEF FormInv
  <2>2. CASE ~FormStays(to, c) /\ form'.mounted
    <3>1. form'.opened \in Rows \cup {Blank} /\ form'.values = Values(form'.opened)
      BY <2>2, RenderedForm DEF Fresh
    <3>2. \A r \in Rows \cup {Blank} : \A f \in Field : Normal(Values(r))[f] = Normal(r)[f]
      BY DEF Rows, Blank, Description, Field, Normal, Values
    <3>3. QED
      BY <3>1, <3>2 DEF FormInv
  <2>3. CASE ~form'.mounted
    BY <2>3 DEF FormInv
  <2>4. QED
    BY <2>1, <2>2, <2>3
<1>9. SavesOnlyTheEdit'
  BY <1>3 DEF SavesOnlyTheEdit, Follows, NoCall
<1>10. UrlsAreReleased'
  BY RenderedPictures
<1>11. QED
  BY <1>4, <1>7, <1>8, <1>9, <1>10

\* A render keeps the account of filings, if a form stays only when no filing of
\* its own ends.
LEMMA RenderKeepsFiling ==
    ASSUME TypeInv, PageInv, FilingInv, NEW to, NEW c, NEW calls, Drawn(to, c, calls),
           FormStays(to, c) => \A k \in Call : calls[k] = call[k] \/ ~Filing(call[k])
    PROVE  FilingInv'
<1>1. \A k \in Call : Follows(call'[k], calls[k]) /\ calls[k] \in {call[k], NoCall}
  BY RenderedCalls DEF Drawn
<1>2. CASE FormStays(to, c)
  <2>1. form' = form
    BY <1>2, RenderedForm
  <2>2. \A k \in Call : Filing(call[k])' => Filing(call[k])
    BY <1>1 DEF Follows, Filing, NoCall
  <2>3. ASSUME NEW k \in Call, Filing(call[k]), call[k].phase \in {"done", "failed"}
        PROVE  Filing(call[k])' /\ call'[k].phase \in {"done", "failed"}
    <3>1. calls[k] = call[k] /\ call[k] # NoCall
      BY <1>2, <2>3 DEF Filing, NoCall
    <3>2. call'[k] # NoCall
      BY <1>1, <3>1 DEF Follows, Calls, NoCall
    <3>3. QED
      BY <1>1, <1>2, <2>3, <3>1, <3>2, RenderedCalls DEF Follows, Filing, FormWrites
  <2>4. QED
    BY <2>1, <2>2, <2>3 DEF FilingInv
<1>3. CASE ~FormStays(to, c)
  <2>1. Fresh(form')
    BY <1>3, RenderedForm
  <2>2. \A k \in Call : ~Filing(call[k])'
    BY <1>3, RenderedCalls DEF Filing, FormWrites
  <2>3. QED
    BY <2>1, <2>2 DEF FilingInv, Fresh
<1>4. QED
  BY <1>2, <1>3

\* Links, reads that are answered and reads that are repeated end in a render.
LEMMA DrawingSteps ==
    ASSUME TypeInv,
           \/ \E to \in Route : Navigate(to)
           \/ Refetch
           \/ \E e \in Expense : Answer(e) \/ AnswerLost(e)
    PROVE  row' = row /\ told' = told /\ \E to, c : Drawn(to, c, call)
<1>1. cache \in [Expense -> Entries] /\ route \in Route /\ call \in [Call -> Calls \cup {NoCall}]
  BY DEF TypeInv
<1>2. ASSUME NEW to \in Route, NEW c \in [Expense -> Entries], Render(to, c, call)
      PROVE  \E x, y : Drawn(x, y, call)
  BY <1>1, <1>2 DEF Drawn
<1>3. ASSUME NEW to \in Route, Navigate(to) PROVE \E x, y : Drawn(x, y, call)
  <2>1. PICK old \in BOOLEAN :
            Render(to, [e \in Expense |-> IF to.id = e THEN Mount(cache[e], old) ELSE cache[e]], call)
    BY <1>3 DEF Navigate
  <2>2. [e \in Expense |-> IF to.id = e THEN Mount(cache[e], old) ELSE cache[e]] \in [Expense -> Entries]
    BY <1>1, EntriesStay
  <2>3. QED
    BY <1>2, <2>1, <2>2
<1>4. ASSUME Refetch PROVE \E x, y : Drawn(x, y, call)
  <2>1. [cache EXCEPT ![route.id] = Ask(@)] \in [Expense -> Entries]
    BY <1>1, <1>4, RouteFacts, EntriesStay DEF Refetch
  <2>2. QED
    BY <1>1, <1>2, <1>4, <2>1 DEF Refetch
<1>5. ASSUME NEW e \in Expense, Answer(e) \/ AnswerLost(e) PROVE \E x, y : Drawn(x, y, call)
  <2>1. /\ [cache EXCEPT ![e] = Arrive(@)] \in [Expense -> Entries]
        /\ [cache EXCEPT ![e] = Fail(@)] \in [Expense -> Entries]
    BY <1>1, EntriesStay
  <2>2. QED
    BY <1>1, <1>2, <1>5, <2>1 DEF Answer, AnswerLost
<1>6. row' = row /\ told' = told
  BY DEF Navigate, Refetch, Answer, AnswerLost
<1>7. QED
  BY <1>3, <1>4, <1>5, <1>6

\* What a save sends, and the fields it may send.
Sent == IF IsResubmit THEN Normal(form.values) ELSE Body(form.values, Data(route.id))
Meant == form.typed \cup {f \in Field : Normal(Data(route.id))[f] # Normal(form.opened)[f]}

\* A save without a change leaves the form, which is a render too.
LEMMA SavingSteps ==
    ASSUME TypeInv, NEW k \in Call, Save(k)
    PROVE  /\ route.at = "edit" /\ route.id \in Expense /\ form.mounted
           /\ row' = row /\ told' = told
           /\ FormKind \in {"update", "resubmit"} /\ (FormKind = "update" => ~IsResubmit)
           /\ \/ \E to, c : Drawn(to, c, call)
              \/ Send(k, FormKind, route.id, Sent, Meant) /\ UNCHANGED <<row, cache, page, told>>
<1>1. cache \in [Expense -> Entries] /\ route \in Route /\ call \in [Call -> Calls \cup {NoCall}]
  BY DEF TypeInv
<1>2. route.at = "edit" /\ form.mounted /\ row' = row /\ told' = told
  BY DEF Save
<1>3. route.id \in Expense /\ Detail(route.id) \in Route
  BY <1>1, <1>2, RouteFacts DEF Route
<1>4. FormKind \in {"update", "resubmit"} /\ (FormKind = "update" => ~IsResubmit)
  BY <1>2 DEF FormKind
<1>5. CASE DOMAIN Sent = {}
  <2>1. PICK old \in BOOLEAN :
            Render(Detail(route.id), [cache EXCEPT ![route.id] = Mount(@, old)], call)
    BY <1>5 DEF Save, Sent
  <2>2. [cache EXCEPT ![route.id] = Mount(@, old)] \in [Expense -> Entries]
    BY <1>1, <1>3, EntriesStay
  <2>3. Drawn(Detail(route.id), [cache EXCEPT ![route.id] = Mount(@, old)], call)
    BY <1>1, <1>3, <2>1, <2>2 DEF Drawn
  <2>4. QED
    BY <1>2, <1>3, <1>4, <2>3
<1>6. CASE DOMAIN Sent # {}
  <2>1. Send(k, FormKind, route.id, Sent, Meant) /\ UNCHANGED <<cache, page>>
    BY <1>6 DEF Save, Sent, Meant
  <2>2. QED
    BY <1>2, <1>3, <1>4, <2>1
<1>7. QED
  BY <1>5, <1>6

-----------------------------------------------------------------------------
(* Types, pages and forms. *)

CoreInv == TypeInv /\ PageInv /\ FormInv /\ SavesOnlyTheEdit /\ UrlsAreReleased

\* Reads, and the renders that follow from them.
LEMMA ReadsKeepCore ==
    ASSUME CoreInv,
           \/ \E to \in Route : Navigate(to)
           \/ Refetch
           \/ \E e \in Expense : ReadRow(e) \/ Answer(e) \/ AnswerLost(e)
           \/ Reconnect
    PROVE  CoreInv'
<1>1. cache \in [Expense -> Entries] /\ route \in Route /\ told \in [Expense -> Nat]
      /\ call \in [Call -> Calls \cup {NoCall}] /\ row \in [Expense -> Rows]
  BY DEF CoreInv, TypeInv
<1>2. ASSUME \/ \E to \in Route : Navigate(to)
             \/ Refetch
             \/ \E e \in Expense : Answer(e) \/ AnswerLost(e)
      PROVE  CoreInv'
  <2>1. PICK to, c : Drawn(to, c, call)
    BY <1>2, DrawingSteps DEF CoreInv
  <2>2. row' = row /\ told' = told
    BY <1>2, DrawingSteps DEF CoreInv
  <2>3. QED
    BY <1>1, <2>1, <2>2, RenderKeeps DEF CoreInv
<1>3. ASSUME NEW c \in [Expense -> Entries], cache' = c, UNCHANGED <<row, page, call, told>>
      PROVE  CoreInv'
  <2>1. UNCHANGED <<row, call, told, route, form, preview, urls>> /\ cache' \in [Expense -> Entries]
    BY <1>3 DEF page
  <2>2. TypeInv'
    BY <2>1 DEF CoreInv, TypeInv
  <2>3. PageInv'
    BY <2>1 DEF CoreInv, PageInv, Writable, Heard
  <2>4. FormInv' /\ SavesOnlyTheEdit' /\ UrlsAreReleased'
    BY <2>1 DEF CoreInv, FormInv, SavesOnlyTheEdit, UrlsAreReleased
  <2>5. QED
    BY <2>2, <2>3, <2>4 DEF CoreInv
<1>4. ASSUME NEW e \in Expense, ReadRow(e) PROVE CoreInv'
  <2>1. [cache EXCEPT ![e] = Read(@, row[e], TRUE)] \in [Expense -> Entries]
    BY <1>1, EntriesStay
  <2>2. QED
    BY <1>3, <1>4, <2>1 DEF ReadRow
<1>5. CASE Reconnect
  <2>1. PICK e \in Expense : cache' = [cache EXCEPT ![e] = Mount(@, TRUE)]
    BY <1>5 DEF Reconnect
  <2>2. [cache EXCEPT ![e] = Mount(@, TRUE)] \in [Expense -> Entries]
    BY <1>1, EntriesStay
  <2>3. QED
    BY <1>3, <1>5, <2>1, <2>2 DEF Reconnect
<1>6. QED
  BY <1>2, <1>4, <1>5

\* A write that is sent is a write like the others.
LEMMA SendKeepsCore ==
    ASSUME CoreInv, NEW k \in Call, NEW kind \in FormWrites \cup {"delete", "approve", "reject"},
           NEW e \in Expense \cup {0}, NEW body \in Bodies, NEW meant \in SUBSET Field,
           kind # "create" => e \in Expense /\ Fits(body),
           kind \in FormWrites => form.mounted /\ (kind = "create" <=> route.at = "new"),
           kind = "update" => DOMAIN body \subseteq meant,
           Send(k, kind, e, body, meant), UNCHANGED <<row, cache, page, told>>
    PROVE  CoreInv'
<1> DEFINE w == [kind |-> kind, id |-> e, phase |-> "sent", mine |-> TRUE,
                 body |-> body, meant |-> meant, version |-> 0]
<1>1. w \in Calls
  BY DEF Calls
<1>2. call' = [call EXCEPT ![k] = w] /\ call \in [Call -> Calls \cup {NoCall}]
      /\ UNCHANGED <<row, cache, told, route, form, preview, urls>>
  BY DEF Send, CoreInv, TypeInv, page
<1>3. TypeInv'
  BY <1>1, <1>2 DEF CoreInv, TypeInv
<1>4. Writable(w) /\ Heard(w)
  BY DEF Writable, Heard
<1>5. PageInv'
  <2>1. \A j \in Call : Writable(call'[j])
    BY <1>2, <1>4 DEF CoreInv, PageInv
  <2>2. \A j \in Call : Heard(call'[j])
    BY <1>2, <1>4 DEF CoreInv, PageInv
  <2>3. \A j \in Call : Heard(call[j])'
    BY <1>2, <2>2 DEF Heard
  <2>4. QED
    BY <1>2, <2>1, <2>3 DEF CoreInv, PageInv, Writable
<1>6. SavesOnlyTheEdit'
  <2>1. w.kind = "update" => DOMAIN w.body \subseteq w.meant
    OBVIOUS
  <2>2. QED
    BY <1>2, <2>1 DEF CoreInv, SavesOnlyTheEdit
<1>7. FormInv' /\ UrlsAreReleased'
  BY <1>2 DEF CoreInv, FormInv, UrlsAreReleased
<1>8. QED
  BY <1>3, <1>5, <1>6, <1>7 DEF CoreInv

\* What a save sends has the fields of a row.
LEMMA SavedBodies ==
    ASSUME NEW values \in Inputs
    PROVE  /\ Normal(values) \in Bodies
           /\ values.amount \in Amount => Fits(Normal(values))
           /\ \A D \in SUBSET Field :
                 /\ [f \in D |-> Normal(values)[f]] \in Bodies
                 /\ values.amount \in Amount => Fits([f \in D |-> Normal(values)[f]])
<1> DEFINE v == Normal(values)
<1>1. /\ v = [f \in Field |-> v[f]]
      /\ v["amount"] = values.amount
      /\ v["amount"] \in Amount \cup {0} /\ v["description"] \in Description
  BY DEF Normal, Inputs, Field, Description
<1> HIDE DEF v
<1>2. ASSUME NEW D \in SUBSET Field
      PROVE  /\ [f \in D |-> v[f]] \in Bodies
             /\ values.amount \in Amount => Fits([f \in D |-> v[f]])
  <2>1. [f \in D |-> v[f]] \in [D -> Amount \cup {0} \cup Description]
    BY <1>1 DEF Field
  <2>2. QED
    BY <1>1, <2>1 DEF Bodies, Fits
<1>3. v \in Bodies /\ (values.amount \in Amount => Fits(v))
  BY <1>1, <1>2
<1>4. QED
  BY <1>2, <1>3 DEF v

\* A form that is mounted is a form.
LEMMA MountedForms ==
    ASSUME TypeInv, form.mounted
    PROVE  form \in Forms /\ form.values \in Inputs /\ form.typed \subseteq Field
<1>1. form \in Forms
  BY DEF TypeInv, NoForm
<1>2. QED
  BY <1>1 DEF Forms

\* What the user does to a form or on the detail page.
LEMMA UserKeepsCore ==
    ASSUME CoreInv,
           \/ \E a \in Amount : TypeIn("amount", a)
           \/ \E d \in Description \ {"null"} : TypeIn("description", d)
           \/ \E file \in {"image", "pdf", "refused", "none"} : ChooseFile(file)
           \/ \E k \in Call : \/ Create(k) \/ Save(k)
                              \/ \E kind \in {"delete", "approve", "reject"} : Act(k, kind)
    PROVE  CoreInv'
<1>1. cache \in [Expense -> Entries] /\ route \in Route /\ told \in [Expense -> Nat]
      /\ call \in [Call -> Calls \cup {NoCall}] /\ row \in [Expense -> Rows]
      /\ form \in Forms \cup {NoForm}
  BY DEF CoreInv, TypeInv
<1>2. ASSUME NEW f \in Field, NEW v \in Amount \cup Description, TypeIn(f, v),
             IF f = "amount" THEN v \in Amount ELSE v \in Description \ {"null"}
      PROVE  CoreInv'
  <2>1. form \in Forms /\ UNCHANGED <<row, cache, route, call, preview, urls, told>>
        /\ form' = [form EXCEPT !.values[f] = v, !.typed = @ \cup {f}]
    BY <1>2, MountedForms DEF TypeIn, CoreInv
  <2>2. /\ form' \in Forms
        /\ form'.values.amount = IF f = "amount" THEN v ELSE form.values.amount
        /\ form'.typed = form.typed \cup {f} /\ form'.opened = form.opened /\ form'.mounted
        /\ form'.file = form.file /\ form.mounted
    BY <1>2, <2>1 DEF Forms, Inputs, Field, Description
  <2>3. TypeInv'
    BY <2>1, <2>2 DEF CoreInv, TypeInv
  <2>4. \A k \in Call : Heard(call[k])'
    BY <2>1, <2>2 DEF CoreInv, PageInv, Heard
  <2>5. PageInv'
    BY <1>2, <2>1, <2>2, <2>4 DEF CoreInv, PageInv, Writable, TypeIn
  <2>6. FormInv'
    <3>1. ASSUME NEW g \in Field \ form'.typed
          PROVE  Normal(form'.values)[g] = Normal(form.values)[g]
      BY <1>2, <2>1, <2>2, <3>1 DEF Normal, Forms, Inputs, Field
    <3>2. QED
      BY <2>2, <3>1 DEF CoreInv, FormInv
  <2>7. SavesOnlyTheEdit' /\ UrlsAreReleased'
    BY <2>1, <2>2 DEF CoreInv, SavesOnlyTheEdit, UrlsAreReleased
  <2>8. QED
    BY <2>3, <2>5, <2>6, <2>7 DEF CoreInv
<1>3. ASSUME NEW file \in {"image", "pdf", "refused", "none"}, ChooseFile(file)
      PROVE  CoreInv'
  <2>1. PICK chosen \in {"image", "pdf", "none"} :
            /\ form' = [form EXCEPT !.file = chosen]
            /\ urls' = urls - (IF form.file = "image" THEN 1 ELSE 0)
                            + (IF chosen = "image" THEN 1 ELSE 0)
    BY <1>3 DEF ChooseFile
  <2>2. form \in Forms /\ UNCHANGED <<row, cache, route, call, preview, told>>
        /\ route.at = "new"
    BY <1>1, <1>3 DEF ChooseFile, CoreInv, PageInv, NoForm
  <2>3. /\ form' \in Forms /\ form'.file = chosen /\ form'.values = form.values
        /\ form'.typed = form.typed /\ form'.opened = form.opened
        /\ form'.mounted /\ form.mounted
    BY <2>1, <2>2 DEF Forms
  <2>4. TypeInv'
    BY <2>2, <2>3 DEF CoreInv, TypeInv
  <2>5. \A k \in Call : Heard(call[k])'
    BY <2>2, <2>3 DEF CoreInv, PageInv, Heard
  <2>6. PageInv'
    BY <2>2, <2>3, <2>5 DEF CoreInv, PageInv, Writable
  <2>7. FormInv' /\ SavesOnlyTheEdit'
    BY <2>2, <2>3 DEF CoreInv, FormInv, SavesOnlyTheEdit
  <2>8. UrlsAreReleased'
    BY <2>1, <2>2, <2>3 DEF CoreInv, UrlsAreReleased
  <2>9. QED
    BY <2>4, <2>6, <2>7, <2>8 DEF CoreInv
<1>4. <<>> \in Bodies /\ Fits(<<>>)
  <2>1. <<>> = [f \in {} |-> 0]
    OBVIOUS
  <2>2. QED
    BY <2>1 DEF Bodies, Fits
<1>5. ASSUME NEW k \in Call, Create(k) PROVE CoreInv'
  <2>1. form.mounted
    BY <1>5 DEF Create, CoreInv, PageInv
  <2>2. QED
    BY <1>4, <1>5, <2>1, SendKeepsCore DEF Create, FormWrites
<1>6. ASSUME NEW k \in Call, NEW kind \in {"delete", "approve", "reject"}, Act(k, kind)
      PROVE  CoreInv'
  <2>1. route.id \in Expense
    BY <1>1, <1>6, RouteFacts DEF Act
  <2>2. QED
    BY <1>4, <1>6, <2>1, SendKeepsCore DEF Act, FormWrites
<1>7. ASSUME NEW k \in Call, Save(k) PROVE CoreInv'
  <2>1. route.at = "edit" /\ route.id \in Expense /\ form.mounted /\ row' = row /\ told' = told
        /\ FormKind \in {"update", "resubmit"} /\ (FormKind = "update" => ~IsResubmit)
    BY <1>7, SavingSteps DEF CoreInv
  <2>2. form.values \in Inputs /\ form.typed \subseteq Field /\ form.values.amount \in Amount
    BY <2>1, MountedForms DEF CoreInv, PageInv
  <2>3. CASE \E to, c : Drawn(to, c, call)
    <3>1. PICK to, c : Drawn(to, c, call)
      BY <2>3
    <3>2. QED
      BY <1>1, <2>1, <3>1, RenderKeeps DEF CoreInv
  <2>4. CASE Send(k, FormKind, route.id, Sent, Meant) /\ UNCHANGED <<row, cache, page, told>>
    <3>1. Sent \in Bodies /\ Fits(Sent)
      <4>1. {g \in Field : Differs(g, form.values, Data(route.id))} \in SUBSET Field
        OBVIOUS
      <4>2. QED
        BY <2>2, <4>1, SavedBodies DEF Sent, Body
    <3>2. ~IsResubmit => DOMAIN Sent \subseteq Meant
      <4>1. \A f \in Field : Differs(f, form.values, Data(route.id)) => f \in Meant
        BY <2>1 DEF Differs, Meant, CoreInv, FormInv
      <4>2. QED
        BY <4>1 DEF Sent, Body
    <3>3. Meant \in SUBSET Field
      BY <2>2 DEF Meant
    <3>4. QED
      BY <2>1, <2>4, <3>1, <3>2, <3>3, SendKeepsCore DEF FormWrites
  <2>5. QED
    BY <1>7, <2>3, <2>4, SavingSteps DEF CoreInv
<1>8. "amount" \in Field /\ "description" \in Field
  BY DEF Field
<1>9. QED
  BY <1>2, <1>3, <1>5, <1>6, <1>7, <1>8

\* Pictures that are asked for, arrive and are closed.
LEMMA PicturesKeepCore ==
    ASSUME CoreInv, Preview \/ ClosePreview \/ PreviewArrives \/ PreviewIgnored
    PROVE  CoreInv'
<1>1. UNCHANGED <<row, cache, route, form, call, told>>
  BY DEF Preview, ClosePreview, PreviewArrives, PreviewIgnored
<1>2. preview \in [asked : Nat, late : Nat, shown : BOOLEAN]
      /\ (preview.shown \/ preview.asked > 0 => route.at = "detail")
  BY DEF CoreInv, TypeInv, PageInv
<1>3. /\ preview' \in [asked : Nat, late : Nat, shown : BOOLEAN]
      /\ preview'.shown \/ preview'.asked > 0 => route.at = "detail"
      /\ urls' = urls - (IF preview.shown THEN 1 ELSE 0) + (IF preview'.shown THEN 1 ELSE 0)
  <2>1. urls \in Nat
    BY DEF CoreInv, UrlsAreReleased
  <2>2. CASE Preview
    BY <1>2, <2>1, <2>2 DEF Preview
  <2>3. CASE ClosePreview
    <3>1. /\ preview' \in [asked : Nat, late : Nat, shown : BOOLEAN]
          /\ preview'.shown = FALSE /\ preview'.asked = preview.asked
          /\ preview.shown = TRUE /\ urls' = urls - 1
      BY <1>2, <2>3 DEF ClosePreview
    <3>2. urls' = urls - 1 + 0
      BY <2>1, <3>1
    <3>3. QED
      BY <1>2, <3>1, <3>2
  <2>4. CASE PreviewArrives
    <3>1. preview.asked - 1 \in Nat
      BY <1>2, <2>4 DEF PreviewArrives
    <3>2. CASE /\ preview' = [preview EXCEPT !.asked = @ - 1, !.shown = TRUE]
               /\ urls' = urls - (IF preview.shown THEN 1 ELSE 0) + 1
      BY <1>2, <2>4, <3>1, <3>2 DEF PreviewArrives
    <3>3. CASE preview' = [preview EXCEPT !.asked = @ - 1] /\ UNCHANGED urls
      <4>1. preview'.shown = preview.shown /\ preview' \in [asked : Nat, late : Nat, shown : BOOLEAN]
        BY <1>2, <3>1, <3>3
      <4>2. urls' = urls - (IF preview.shown THEN 1 ELSE 0) + (IF preview.shown THEN 1 ELSE 0)
        BY <2>1, <3>3
      <4>3. QED
        BY <1>2, <2>4, <4>1, <4>2 DEF PreviewArrives
    <3>4. QED
      BY <2>4, <3>2, <3>3 DEF PreviewArrives
  <2>5. CASE PreviewIgnored
    BY <1>2, <2>1, <2>5 DEF PreviewIgnored
  <2>6. QED
    BY <2>2, <2>3, <2>4, <2>5
<1>4. TypeInv'
  BY <1>1, <1>3 DEF CoreInv, TypeInv
<1>5. PageInv'
  <2>1. \A k \in Call : Heard(call[k])' /\ Writable(call[k])'
    BY <1>1 DEF CoreInv, PageInv, Heard, Writable
  <2>2. QED
    BY <1>1, <1>3, <2>1 DEF CoreInv, PageInv
<1>6. FormInv' /\ SavesOnlyTheEdit'
  BY <1>1 DEF CoreInv, FormInv, SavesOnlyTheEdit
<1>7. UrlsAreReleased'
  BY <1>1, <1>3 DEF CoreInv, UrlsAreReleased
<1>8. QED
  BY <1>4, <1>5, <1>6, <1>7 DEF CoreInv

\* A write of the tab takes effect: rows stay rows, and versions only grow.
LEMMA AppliedRows ==
    ASSUME TypeInv, PageInv, NEW k \in Call, Apply(k)
    PROVE  /\ row' \in [Expense -> Rows]
           /\ \A e \in Expense : row'[e].version >= row[e].version
           /\ call[k] \in Calls
           /\ \E phase \in {"done", "failed"}, v \in Nat :
                 /\ call' = [call EXCEPT ![k] = [@ EXCEPT !.phase = phase, !.version = v]]
                 /\ call[k].kind # "create" =>
                       call[k].id \in Expense /\ v = row'[call[k].id].version
<1>1. call[k] \in Calls
  BY DEF TypeInv, Apply, NoCall
<1>2. /\ row' \in [Expense -> Rows]
      /\ \A e \in Expense : row'[e].version >= row[e].version
  <2>1. CASE call[k].kind = "create"
    BY <2>1 DEF Apply, TypeInv, Rows
  <2>2. CASE call[k].kind # "create"
    <3>1. call[k].id \in Expense /\ Fits(call[k].body)
      BY <1>1, <2>2 DEF PageInv, Writable, Calls, FormWrites
    <3>2. row' = [row EXCEPT ![call[k].id] = Written(@, call[k])]
      BY <2>2 DEF Apply
    <3>3. row[call[k].id] \in Rows
      BY <3>1 DEF TypeInv
    <3>4. /\ Written(row[call[k].id], call[k]) \in Rows
          /\ Written(row[call[k].id], call[k]).version = row[call[k].id].version + 1
      BY <3>1, <3>3, WrittenRow
    <3>5. \A e \in Expense : row[e].version \in Nat
      BY DEF TypeInv, Rows
    <3>6. QED
      BY <3>1, <3>2, <3>4, <3>5 DEF TypeInv
  <2>3. QED
    BY <2>1, <2>2
<1>3. PICK phase \in {"done", "failed"} :
          call' = [call EXCEPT ![k].phase = phase,
                               ![k].version = IF call[k].id \in Expense
                                              THEN row'[call[k].id].version ELSE 0]
  BY DEF Apply
<1>4. PICK v : v = IF call[k].id \in Expense THEN row'[call[k].id].version ELSE 0
  OBVIOUS
<1>5. v \in Nat
  BY <1>2, <1>4 DEF Rows
<1>6. call' = [call EXCEPT ![k] = [@ EXCEPT !.phase = phase, !.version = v]]
  BY <1>3, <1>4 DEF TypeInv
<1>7. call[k].kind # "create" => call[k].id \in Expense
  BY <1>1 DEF PageInv, Writable, Calls, FormWrites
<1>8. QED
  BY <1>1, <1>2, <1>4, <1>5, <1>6, <1>7

\* Other sessions write rows too.
LEMMA RowsElsewhere ==
    ASSUME TypeInv, NEW e \in Expense, Elsewhere(e)
    PROVE  row' \in [Expense -> Rows] /\ \A x \in Expense : row'[x].version >= row[x].version
<1>1. row \in [Expense -> Rows] /\ \A x \in Expense : row[x].version \in Nat
  BY DEF TypeInv, Rows
<1>2. PICK w : row' = [row EXCEPT ![e] = Written(@, w)]
               /\ (w.kind \in FormWrites => Fits(w.body))
  <2>1. \A kind \in {"approve", "reject", "delete"} :
            [kind |-> kind].kind \notin FormWrites
    BY DEF FormWrites
  <2>2. \A a \in Amount : Fits([kind |-> "update", body |-> [amount |-> a]].body)
    BY DEF Fits, Field
  <2>3. QED
    BY <2>1, <2>2 DEF Elsewhere
<1>3. Written(row[e], w) \in Rows /\ Written(row[e], w).version = row[e].version + 1
  BY <1>1, <1>2, WrittenRow
<1>4. QED
  BY <1>1, <1>2, <1>3

\* A write whose answer changes hands, with what else happens to rows and form.
LEMMA PhaseKeepsCore ==
    ASSUME CoreInv, NEW k \in Call, Apply(k) \/ Refuse(k)
    PROVE  CoreInv'
<1>1. call[k] \in Calls /\ UNCHANGED <<cache, route, preview, urls, told>>
      /\ row' \in [Expense -> Rows]
  <2>1. CASE Apply(k)
    BY <2>1, AppliedRows DEF CoreInv, Apply
  <2>2. CASE Refuse(k)
    BY <2>2 DEF CoreInv, TypeInv, Refuse, NoCall, page
  <2>3. QED
    BY <2>1, <2>2
<1>2. PICK phase \in {"done", "failed"}, v \in Nat :
          call' = [call EXCEPT ![k] = [@ EXCEPT !.phase = phase, !.version = v]]
  <2>1. CASE Apply(k)
    BY <2>1, AppliedRows DEF CoreInv
  <2>2. CASE Refuse(k)
    <3>1. call[k].version \in Nat /\ [call[k] EXCEPT !.phase = "failed"]
                = [call[k] EXCEPT !.phase = "failed", !.version = call[k].version]
      BY <1>1 DEF Calls
    <3>2. call' = [call EXCEPT ![k] = [@ EXCEPT !.phase = "failed"]]
      BY <2>2 DEF Refuse
    <3>3. QED
      BY <3>1, <3>2
  <2>3. QED
    BY <2>1, <2>2
<1>3. \E n \in Nat : form' = form \/ (form.mounted /\ form' = [form EXCEPT !.filed = n])
  <2>1. CASE form' = form
    BY <2>1
  <2>2. CASE form' # form
    <3>1. call[k].kind = "create" /\ call[k].mine /\ form' = [form EXCEPT !.filed = @ + 1]
      BY <2>2 DEF Apply, Refuse, page
    <3>2. form.mounted
      BY <3>1 DEF CoreInv, PageInv, Heard, FormWrites
    <3>3. form.filed + 1 \in Nat
      BY <3>2, MountedForms DEF CoreInv, Forms
    <3>4. QED
      BY <3>1, <3>2, <3>3
  <2>3. QED
    BY <2>1, <2>2
<1>4. /\ form' \in Forms \cup {NoForm}
      /\ form'.mounted <=> form.mounted
      /\ form.mounted => /\ form'.values = form.values /\ form'.opened = form.opened
                         /\ form'.typed = form.typed /\ form'.file = form.file
  <2>1. CASE form' = form
    BY <2>1 DEF CoreInv, TypeInv
  <2>2. ASSUME NEW n \in Nat, form.mounted, form' = [form EXCEPT !.filed = n]
        PROVE  /\ form' \in Forms /\ form'.mounted
               /\ form'.values = form.values /\ form'.opened = form.opened
               /\ form'.typed = form.typed /\ form'.file = form.file
    <3>1. form \in Forms
      BY <2>2, MountedForms DEF CoreInv
    <3>2. QED
      BY <2>2, <3>1 DEF Forms
  <2>3. QED
    BY <1>3, <2>1, <2>2
<1>5. \A j \in Call : call'[j] = call[j] \/
          /\ call[j] \in Calls /\ call'[j] \in Calls
          /\ call'[j].kind = call[j].kind /\ call'[j].id = call[j].id /\ call'[j].mine = call[j].mine
          /\ call'[j].body = call[j].body /\ call'[j].meant = call[j].meant
  <2>1. /\ call'[k] \in Calls
        /\ call'[k].kind = call[k].kind /\ call'[k].id = call[k].id /\ call'[k].mine = call[k].mine
        /\ call'[k].body = call[k].body /\ call'[k].meant = call[k].meant
    BY <1>1, <1>2 DEF CoreInv, TypeInv, Calls
  <2>2. QED
    BY <1>1, <1>2, <2>1 DEF CoreInv, TypeInv
<1>6. TypeInv'
  <2>1. call' \in [Call -> Calls \cup {NoCall}]
    BY <1>2, <1>5 DEF CoreInv, TypeInv
  <2>2. QED
    BY <1>1, <1>4, <2>1 DEF CoreInv, TypeInv
<1>7. PageInv'
  <2>1. \A j \in Call : Writable(call'[j]) /\ Heard(call[j])'
    BY <1>1, <1>4, <1>5 DEF CoreInv, PageInv, Writable, Heard
  <2>2. QED
    BY <1>1, <1>4, <2>1 DEF CoreInv, PageInv, Writable
<1>8. FormInv'
  BY <1>4 DEF CoreInv, FormInv
<1>9. SavesOnlyTheEdit'
  BY <1>5 DEF CoreInv, SavesOnlyTheEdit
<1>10. UrlsAreReleased'
  BY <1>1, <1>4 DEF CoreInv, UrlsAreReleased
<1>11. QED
  BY <1>6, <1>7, <1>8, <1>9, <1>10 DEF CoreInv

\* What an answered write leaves in the cache, and where it leads.
Finished(k) == [call EXCEPT ![k] = NoCall]
Refreshed(w) ==
    [e \in Expense |-> IF e \in Touched(w) THEN Invalidate(cache[e], Using(e)) ELSE cache[e]]
Fails(w) == w.mine /\ w.phase = "failed" /\ w.kind \in FormWrites

\* A write is answered: a form that fails stays as it is, everything else is a render.
LEMMA FinishSteps ==
    ASSUME TypeInv, PageInv, NEW k \in Call, Finish(k)
    PROVE  /\ call[k] \in Calls /\ call[k].phase \in {"done", "failed"}
           /\ Refreshed(call[k]) \in [Expense -> Entries]
           /\ cache' = Refreshed(call[k])
           /\ row' = row
           /\ told' = IF call[k].phase = "done" /\ call[k].kind \notin {"create", "delete"}
                      THEN [told EXCEPT ![call[k].id] = call[k].version] ELSE told
           /\ IF Fails(call[k])
              THEN /\ call' = Finished(k) /\ form.mounted
                   /\ form' = [form EXCEPT !.errors = @ + 1]
                   /\ UNCHANGED <<route, preview, urls>>
              ELSE Drawn(Target(call[k]), Refreshed(call[k]), Finished(k))
<1>1. call[k] \in Calls /\ call[k].phase \in {"done", "failed"}
  BY DEF TypeInv, Finish, NoCall
<1>2. Refreshed(call[k]) \in [Expense -> Entries]
  <2>1. \A e \in Expense : Using(e) \in BOOLEAN
    BY DEF Using
  <2>2. QED
    BY <2>1, EntriesStay DEF Refreshed, TypeInv
<1>3. /\ row' = row
      /\ told' = IF call[k].phase = "done" /\ call[k].kind \notin {"create", "delete"}
                 THEN [told EXCEPT ![call[k].id] = call[k].version] ELSE told
      /\ IF Fails(call[k])
         THEN /\ call' = Finished(k) /\ cache' = Refreshed(call[k])
              /\ form' = [form EXCEPT !.errors = @ + 1]
              /\ UNCHANGED <<route, preview, urls>>
         ELSE Render(Target(call[k]), Refreshed(call[k]), Finished(k))
  BY DEF Finish, Fails, Finished, Refreshed
<1>4. Target(call[k]) \in Route
  BY <1>1 DEF Target, Calls, PageInv, Writable, TypeInv, Route, FormWrites
<1>5. Finished(k) \in [Call -> Calls \cup {NoCall}]
      /\ \A j \in Call : Finished(k)[j] \in {call[j], NoCall}
  BY DEF Finished, TypeInv
<1>6. ~Fails(call[k]) => Drawn(Target(call[k]), Refreshed(call[k]), Finished(k))
  BY <1>2, <1>3, <1>4, <1>5 DEF Drawn
<1>7. Fails(call[k]) => form.mounted
  BY DEF Fails, PageInv, Heard
<1>8. cache' = Refreshed(call[k])
  BY <1>3 DEF Render
<1>9. QED
  BY <1>1, <1>2, <1>3, <1>6, <1>7, <1>8

\* The answer to a write, on the page and in the cache.
LEMMA FinishKeepsCore ==
    ASSUME CoreInv, NEW k \in Call, Finish(k)
    PROVE  CoreInv'
<1>1. TypeInv /\ PageInv
  BY DEF CoreInv
<1>2. told' \in [Expense -> Nat]
  <2>1. call[k] \in Calls /\ (call[k].kind \notin {"create"} => call[k].id \in Expense)
    BY <1>1, FinishSteps DEF PageInv, Writable, Calls, FormWrites
  <2>2. call[k].version \in Nat
    BY <2>1 DEF Calls
  <2>3. QED
    BY <1>1, <2>1, <2>2, FinishSteps DEF TypeInv
<1>3. CASE ~Fails(call[k])
  BY <1>1, <1>2, <1>3, FinishSteps, RenderKeeps DEF CoreInv
<1>4. CASE Fails(call[k])
  <2>1. form.mounted /\ call' = Finished(k) /\ form' = [form EXCEPT !.errors = @ + 1]
        /\ UNCHANGED <<route, preview, urls, row>> /\ cache' \in [Expense -> Entries]
    BY <1>1, <1>4, FinishSteps
  <2>2. /\ form' \in Forms /\ form'.mounted
        /\ form'.values = form.values /\ form'.opened = form.opened
        /\ form'.typed = form.typed /\ form'.file = form.file
    <3>1. form \in Forms
      BY <1>1, <2>1, MountedForms
    <3>2. form.errors + 1 \in Nat
      BY <3>1 DEF Forms
    <3>3. QED
      BY <2>1, <3>1, <3>2 DEF Forms
  <2>3. \A j \in Call : call'[j] \in {call[j], NoCall}
    BY <2>1 DEF Finished, CoreInv, TypeInv
  <2>4. TypeInv'
    <3>1. call' \in [Call -> Calls \cup {NoCall}]
      BY <1>1, <2>1 DEF Finished, TypeInv
    <3>2. QED
      BY <1>1, <1>2, <2>1, <2>2, <3>1 DEF TypeInv
  <2>5. PageInv'
    <3>1. \A j \in Call : Writable(call'[j]) /\ Heard(call[j])'
      BY <1>1, <2>1, <2>2, <2>3 DEF PageInv, Writable, Heard, NoCall, FormWrites
    <3>2. QED
      BY <1>1, <2>1, <2>2, <3>1 DEF PageInv, Writable
  <2>6. FormInv' /\ UrlsAreReleased'
    BY <2>1, <2>2 DEF CoreInv, FormInv, UrlsAreReleased
  <2>7. SavesOnlyTheEdit'
    BY <2>3 DEF CoreInv, SavesOnlyTheEdit, NoCall
  <2>8. QED
    BY <2>4, <2>5, <2>6, <2>7 DEF CoreInv
<1>5. QED
  BY <1>3, <1>4

\* Every step.
LEMMA CoreStep ==
    ASSUME CoreInv, [Next]_vars
    PROVE  CoreInv'
<1>1. ASSUME NEW e \in Expense, Elsewhere(e) PROVE CoreInv'
  <2>1. UNCHANGED <<cache, call, told, route, form, preview, urls>> /\ row' \in [Expense -> Rows]
    BY <1>1, RowsElsewhere DEF Elsewhere, page, CoreInv
  <2>2. \A j \in Call : Writable(call[j])' /\ Heard(call[j])'
    BY <2>1 DEF CoreInv, PageInv, Writable, Heard
  <2>3. TypeInv' /\ PageInv'
    BY <2>1, <2>2 DEF CoreInv, TypeInv, PageInv
  <2>4. FormInv' /\ SavesOnlyTheEdit' /\ UrlsAreReleased'
    BY <2>1 DEF CoreInv, FormInv, SavesOnlyTheEdit, UrlsAreReleased
  <2>5. QED
    BY <2>3, <2>4 DEF CoreInv
<1>2. CASE UNCHANGED vars
  <2>1. \A j \in Call : Writable(call[j])' /\ Heard(call[j])'
    BY <1>2 DEF CoreInv, PageInv, Writable, Heard, vars
  <2>2. TypeInv' /\ PageInv'
    BY <1>2, <2>1 DEF CoreInv, TypeInv, PageInv, vars
  <2>3. FormInv' /\ SavesOnlyTheEdit' /\ UrlsAreReleased'
    BY <1>2 DEF CoreInv, FormInv, SavesOnlyTheEdit, UrlsAreReleased, vars
  <2>4. QED
    BY <2>2, <2>3 DEF CoreInv
<1>3. QED
  BY <1>1, <1>2, ReadsKeepCore, UserKeepsCore, PicturesKeepCore, PhaseKeepsCore, FinishKeepsCore
     DEF Next

\* At the start there is nothing but the rows.
LEMMA CoreStart ==
    ASSUME Init
    PROVE  CoreInv
<1>1. \A a : a \in {CHOOSE x \in Amount : TRUE} => a \in Amount
  BY ScreensAssumption
<1>2. row \in [Expense -> Rows]
  <2>1. {CHOOSE a \in Amount : TRUE} \subseteq Amount
    BY <1>1
  <2>2. [status : {"PENDING", "REJECTED"}, amount : {CHOOSE a \in Amount : TRUE},
         description : {"null", "blank"}, version : {1}] \subseteq Rows
    BY <2>1 DEF Rows, Status, Description
  <2>3. QED
    BY <2>2 DEF Init
<1>3. Empty \in Entries
  BY DEF Empty, NotAsked, Entries, Snapshots
<1>4. TypeInv
  BY <1>2, <1>3 DEF Init, TypeInv, Route, Home
<1>5. PageInv
  <2>1. \A k \in Call : call[k].kind = "none"
    BY DEF Init, NoCall
  <2>2. QED
    BY <2>1 DEF Init, PageInv, Writable, Heard, Home, NoForm, FormWrites
<1>6. FormInv /\ SavesOnlyTheEdit /\ UrlsAreReleased
  BY DEF Init, FormInv, SavesOnlyTheEdit, UrlsAreReleased, NoForm, NoCall
<1>7. QED
  BY <1>4, <1>5, <1>6 DEF CoreInv

\* Pages, forms, writes under way and rows keep their types, a render at a time.
THEOREM Invariance == Spec => []CoreInv
<1>1. QED
  BY CoreStart, CoreStep, PTL DEF Spec

\* The type invariant of ExpenseScreens.
THEOREM TypeCorrect == Spec => []TypeOK
<1>1. CoreInv => TypeOK
  <2> SUFFICES ASSUME CoreInv PROVE TypeOK
    OBVIOUS
  <2>1. \A e \in Expense : row[e].status \in Status /\ row[e].amount \in Amount
                           /\ row[e].description \in Description
    BY DEF CoreInv, TypeInv, Rows
  <2>2. urls \in Nat
    BY DEF CoreInv, UrlsAreReleased
  <2>3. QED
    BY <2>1, <2>2 DEF CoreInv, TypeInv, PageInv, TypeOK
<1>2. QED
  BY <1>1, Invariance, PTL

\* onSubmit of ExpenseForm: an update carries only fields the user touched, or whose
\* value changed while the form was open; for any expenses, writes and renders.
THEOREM MinimalSaves == Spec => []SavesOnlyTheEdit
<1>1. CoreInv => SavesOnlyTheEdit
  BY DEF CoreInv
<1>2. QED
  BY <1>1, Invariance, PTL

\* The object URLs that exist are those of the picture and the thumbnail in view.
THEOREM NoLeakedUrls == Spec => []UrlsAreReleased
<1>1. CoreInv => UrlsAreReleased
  BY DEF CoreInv
<1>2. QED
  BY <1>1, Invariance, PTL

-----------------------------------------------------------------------------
(* Filings. *)

\* Steps that leave the writes and the count of the form alone.
LEMMA FilingStands ==
    ASSUME FilingInv, call' = call,
           form'.mounted => form.mounted /\ form'.errors = form.errors /\ form'.filed = form.filed
    PROVE  FilingInv'
BY DEF FilingInv, Filing

\* A new expense is sent only while none is under way.
LEMMA SendKeepsFiling ==
    ASSUME TypeInv, FilingInv, form' = form,
           NEW k \in Call, NEW kind, NEW e, NEW body, NEW meant, Send(k, kind, e, body, meant),
           kind = "create" => \A j \in Call : ~Filing(call[j])
    PROVE  FilingInv'
<1>1. \A j \in Call \ {k} : call'[j] = call[j]
  BY DEF Send, TypeInv
<1>2. ~Filing(call[k])
  BY DEF Send, Filing, NoCall
<1>3. Filing(call'[k]) => kind = "create"
  BY DEF Send, Filing, TypeInv
<1>4. \A i, j \in Call : Filing(call'[i]) /\ Filing(call'[j]) => i = j
  BY <1>1, <1>3 DEF FilingInv
<1>5. \A j \in Call : Filing(call[j]) => call'[j] = call[j]
  BY <1>1, <1>2
<1>6. QED
  BY <1>4, <1>5 DEF FilingInv, Filing

\* The form counts one filing per write that took effect.
LEMMA PhaseKeepsFiling ==
    ASSUME TypeInv, PageInv, FilingInv, NEW k \in Call, Apply(k) \/ Refuse(k)
    PROVE  FilingInv'
<1>1. call[k] \in Calls /\ call[k].phase = "sent"
  BY DEF TypeInv, Apply, Refuse, NoCall
<1>2. /\ \A j \in Call \ {k} : call'[j] = call[j]
      /\ call'[k].kind = call[k].kind /\ call'[k].mine = call[k].mine
      /\ call'[k].phase \in {"done", "failed"}
  BY <1>1 DEF TypeInv, Apply, Refuse, Calls
<1>3. \A j \in Call : Filing(call'[j]) <=> Filing(call[j])
  BY <1>2 DEF Filing
<1>4. \A i, j \in Call : Filing(call'[i]) /\ Filing(call'[j]) => i = j
  BY <1>3 DEF FilingInv
<1>5. CASE form' = form
  <2>1. \A j \in Call : Filing(call[j]) /\ call[j].phase \in {"done", "failed"}
                           => Filing(call'[j]) /\ call'[j].phase \in {"done", "failed"}
    BY <1>1, <1>2, <1>3
  <2>2. QED
    BY <1>4, <1>5, <2>1 DEF FilingInv, Filing
<1>6. CASE form' # form
  <2>1. Filing(call[k]) /\ form' = [form EXCEPT !.filed = @ + 1]
    BY <1>6 DEF Apply, Refuse, Filing, page
  <2>2. form \in Forms /\ form.mounted
    BY <2>1, MountedForms DEF PageInv, Heard, Filing, FormWrites
  <2>3. form.filed <= form.errors
    BY <1>1, <2>1, <2>2 DEF FilingInv
  <2>4. /\ form'.errors = form.errors /\ form'.filed = form.filed + 1
        /\ form.errors \in Nat /\ form.filed \in Nat
    BY <2>1, <2>2 DEF Forms
  <2>5. form'.filed <= form'.errors \/ form'.filed = form'.errors + 1
    BY <2>3, <2>4
  <2>6. Filing(call'[k]) /\ call'[k].phase \in {"done", "failed"}
    BY <1>2, <1>3, <2>1
  <2>7. QED
    BY <1>4, <2>5, <2>6 DEF FilingInv, Filing
<1>7. QED
  BY <1>5, <1>6

\* A failure that is shown pays for a filing; a success takes the form away.
LEMMA FinishKeepsFiling ==
    ASSUME TypeInv, PageInv, FilingInv, NEW k \in Call, Finish(k)
    PROVE  FilingInv'
<1>1. CASE Fails(call[k])
  <2>1. form.mounted /\ call' = Finished(k) /\ form' = [form EXCEPT !.errors = @ + 1]
    BY <1>1, FinishSteps
  <2>2. form \in Forms
    BY <2>1, MountedForms
  <2>3. /\ form'.errors = form.errors + 1 /\ form'.filed = form.filed
        /\ form.errors \in Nat /\ form.filed \in Nat
    BY <2>1, <2>2 DEF Forms
  <2>4. form'.filed <= form'.errors
    BY <2>1, <2>3 DEF FilingInv
  <2>5. \A j \in Call : Filing(call'[j]) => Filing(call[j])
    BY <2>1 DEF Finished, TypeInv, Filing, NoCall
  <2>6. \A i, j \in Call : Filing(call'[i]) /\ Filing(call'[j]) => i = j
    BY <2>5 DEF FilingInv
  <2>7. QED
    BY <2>4, <2>6 DEF FilingInv, Filing
<1>2. CASE ~Fails(call[k])
  <2>1. Drawn(Target(call[k]), Refreshed(call[k]), Finished(k))
        /\ call[k] \in Calls /\ call[k].phase \in {"done", "failed"}
    BY <1>2, FinishSteps
  <2>2. \A j \in Call \ {k} : Finished(k)[j] = call[j]
    BY DEF Finished, TypeInv
  <2>3. Filing(call[k]) => ~FormStays(Target(call[k]), Refreshed(call[k]))
    <3>1. HAVE Filing(call[k])
    <3>2. call[k].phase = "done" /\ call[k].mine /\ call[k].kind = "create"
      BY <1>2, <2>1, <3>1 DEF Fails, Filing, FormWrites
    <3>3. Target(call[k]) = Home
      BY <3>2 DEF Target
    <3>4. route.at = "new"
      BY <3>2 DEF PageInv, Heard, FormWrites
    <3>5. QED
      BY <3>3, <3>4 DEF FormStays, Home
  <2>4. QED
    BY <2>1, <2>2, <2>3, RenderKeepsFiling
<1>3. QED
  BY <1>1, <1>2

\* Every step.
LEMMA FilingStep ==
    ASSUME CoreInv, FilingInv, [Next]_vars
    PROVE  FilingInv'
<1>1. TypeInv /\ PageInv
  BY DEF CoreInv
<1>3. ASSUME NEW to, NEW c, Drawn(to, c, call) PROVE FilingInv'
  BY <1>1, <1>3, RenderKeepsFiling
<1>4. CASE UNCHANGED <<form, call>>
  BY <1>4, FilingStands
<1>5. ASSUME \/ \E to \in Route : Navigate(to)
             \/ Refetch
             \/ \E e \in Expense : Answer(e) \/ AnswerLost(e)
      PROVE  FilingInv'
  <2>1. PICK to, c : Drawn(to, c, call)
    BY <1>1, <1>5, DrawingSteps
  <2>2. QED
    BY <1>3, <2>1
<1>8. ASSUME NEW f, NEW v, TypeIn(f, v) PROVE FilingInv'
  <2>1. form \in Forms /\ form' = [form EXCEPT !.values[f] = v, !.typed = @ \cup {f}]
        /\ form.mounted /\ call' = call
    BY <1>1, <1>8, MountedForms DEF TypeIn
  <2>2. form'.errors = form.errors /\ form'.filed = form.filed
    BY <2>1 DEF Forms
  <2>3. QED
    BY <2>1, <2>2, FilingStands
<1>9. ASSUME NEW file, ChooseFile(file) PROVE FilingInv'
  <2>1. PICK chosen : form' = [form EXCEPT !.file = chosen]
    BY <1>9 DEF ChooseFile
  <2>2. form \in Forms /\ form.mounted /\ call' = call
    BY <1>1, <1>9, MountedForms DEF ChooseFile, PageInv
  <2>3. form'.errors = form.errors /\ form'.filed = form.filed
    BY <2>1, <2>2 DEF Forms
  <2>4. QED
    BY <2>2, <2>3, FilingStands
<1>10. ASSUME NEW k \in Call, Create(k) PROVE FilingInv'
  <2>1. ~Pending("create") /\ form' = form
    BY <1>10 DEF Create, IsSubmitting, FormKind, page
  <2>2. \A j \in Call : ~Filing(call[j])
    BY <2>1 DEF Pending, Filing
  <2>3. QED
    BY <1>1, <1>10, <2>1, <2>2, SendKeepsFiling DEF Create
<1>11. ASSUME NEW k \in Call, Save(k) PROVE FilingInv'
  <2>1. FormKind # "create"
    BY <1>1, <1>11, SavingSteps
  <2>2. CASE Send(k, FormKind, route.id, Sent, Meant) /\ UNCHANGED <<row, cache, page, told>>
    <3>1. form' = form
      BY <2>2 DEF page
    <3>2. QED
      BY <1>1, <2>1, <2>2, <3>1, SendKeepsFiling
  <2>3. QED
    BY <1>1, <1>3, <1>11, <2>2, SavingSteps
<1>12. ASSUME NEW k \in Call, NEW kind \in {"delete", "approve", "reject"}, Act(k, kind)
       PROVE  FilingInv'
  BY <1>1, <1>12, SendKeepsFiling DEF Act, page
<1>13. ASSUME Preview \/ ClosePreview \/ PreviewArrives \/ PreviewIgnored \/ Reconnect
              \/ \E e \in Expense : ReadRow(e) \/ Elsewhere(e)
       PROVE  FilingInv'
  <2>1. UNCHANGED <<form, call>>
    BY <1>13 DEF Preview, ClosePreview, PreviewArrives, PreviewIgnored, Reconnect, ReadRow,
                 Elsewhere, page
  <2>2. QED
    BY <1>4, <2>1
<1>14. CASE UNCHANGED vars
  BY <1>4, <1>14 DEF vars
<1>15. QED
  BY <1>1, <1>5, <1>8, <1>9, <1>10, <1>11, <1>12, <1>13, <1>14,
     PhaseKeepsFiling, FinishKeepsFiling DEF Next

\* handleSubmit of ExpenseForm: a form files its expense again only after the user was
\* told that an attempt failed.
THEOREM NoHiddenRepeats == Spec => []OneFilingPerForm
<1>1. Init => FilingInv
  BY DEF Init, FilingInv, Filing, NoCall, NoForm
<1>2. CoreInv /\ FilingInv => OneFilingPerForm
  <2> SUFFICES ASSUME CoreInv, FilingInv, form.mounted PROVE form.filed <= form.errors + 1
    BY DEF OneFilingPerForm
  <2>1. form.errors \in Nat /\ form.filed \in Nat
    BY MountedForms DEF CoreInv, Forms
  <2>2. QED
    BY <2>1 DEF FilingInv
<1>3. QED
  BY <1>1, <1>2, FilingStep, Invariance, PTL DEF Spec

-----------------------------------------------------------------------------
(* What is shown of the tab's own writes. *)

\* What a step other than the answer to a write makes of the entry of e.
Moved(c, e) ==
    \/ c = cache[e] \/ c = Ask(cache[e]) \/ c = Fail(cache[e])
    \/ \E old \in BOOLEAN : c = Mount(cache[e], old)
    \/ cache[e].fetch = "answered" /\ c = Arrive(cache[e])
    \/ c = Read(cache[e], row[e], TRUE)

\* It makes no old data count as good.
LEMMA MovedIsCurrent ==
    ASSUME TypeInv, ReadInv, NEW e \in Expense, NEW c, Moved(c, e)
    PROVE  Current(c, told[e])
<1>1. cache[e] \in Entries /\ told[e] \in Nat /\ row[e] \in Rows
      /\ Current(cache[e], told[e]) /\ told[e] <= row[e].version
  BY DEF TypeInv, ReadInv
<1>2. /\ Current(Ask(cache[e]), told[e]) /\ Current(Fail(cache[e]), told[e])
      /\ cache[e].fetch = "answered" => Current(Arrive(cache[e]), told[e])
      /\ \A old \in BOOLEAN : Current(Mount(cache[e], old), told[e])
  BY <1>1, EntriesStayCurrent
<1>3. Current(Read(cache[e], row[e], TRUE), told[e])
  BY <1>1, ReadIsCurrent
<1>4. QED
  BY <1>1, <1>2, <1>3 DEF Moved

\* Of the entries only the answer to a write knows more than requests do.
LEMMA EntriesMove ==
    ASSUME TypeInv, [Next]_vars, \A k \in Call : ~Finish(k)
    PROVE  told' = told /\ \A e \in Expense : Moved(cache'[e], e)
<1>1. cache \in [Expense -> Entries]
  BY DEF TypeInv
<1>2. CASE UNCHANGED cache
  <2>1. \A e \in Expense : Moved(cache'[e], e)
    BY <1>2 DEF Moved
  <2>2. told' = told
    BY DEF Next, vars, Navigate, Refetch, Preview, ClosePreview, TypeIn, ChooseFile, Create,
           Save, Act, Apply, Refuse, PreviewArrives, PreviewIgnored, ReadRow, Answer,
           AnswerLost, Elsewhere, Reconnect
  <2>3. QED
    BY <2>1, <2>2
<1>3. ASSUME NEW to \in Route, Navigate(to)
      PROVE  told' = told /\ \A e \in Expense : Moved(cache'[e], e)
  <2>1. PICK old \in BOOLEAN :
            cache' = [e \in Expense |-> IF to.id = e THEN Mount(cache[e], old) ELSE cache[e]]
    BY <1>3 DEF Navigate, Render
  <2>2. \A e \in Expense : cache'[e] = Mount(cache[e], old) \/ cache'[e] = cache[e]
    BY <2>1
  <2>3. QED
    BY <1>3, <2>2 DEF Moved, Navigate
<1>4. ASSUME NEW k \in Call, Save(k)
      PROVE  told' = told /\ \A e \in Expense : Moved(cache'[e], e)
  <2>1. CASE cache' = cache
    BY <1>2, <2>1
  <2>2. CASE cache' # cache
    <3>1. \E old \in BOOLEAN :
              Render(Detail(route.id), [cache EXCEPT ![route.id] = Mount(@, old)], call)
      BY <1>4, <2>2 DEF Save
    <3>2. PICK old \in BOOLEAN : cache' = [cache EXCEPT ![route.id] = Mount(@, old)]
      BY <3>1 DEF Render
    <3>3. \A e \in Expense : cache'[e] = Mount(cache[e], old) \/ cache'[e] = cache[e]
      BY <1>1, <3>2
    <3>4. QED
      BY <1>4, <3>3 DEF Moved, Save
  <2>3. QED
    BY <2>1, <2>2
<1>5. CASE Refetch
  <2>1. \A e \in Expense : cache'[e] = Ask(cache[e]) \/ cache'[e] = cache[e]
    BY <1>1, <1>5 DEF Refetch, Render
  <2>2. QED
    BY <1>5, <2>1 DEF Moved, Refetch
<1>6. CASE Reconnect
  <2>1. PICK r \in Expense : cache' = [cache EXCEPT ![r] = Mount(@, TRUE)]
    BY <1>6 DEF Reconnect
  <2>2. \A e \in Expense : cache'[e] = Mount(cache[e], TRUE) \/ cache'[e] = cache[e]
    BY <1>1, <2>1
  <2>3. QED
    BY <1>6, <2>2 DEF Moved, Reconnect
<1>7. ASSUME NEW r \in Expense, ReadRow(r) \/ Answer(r) \/ AnswerLost(r)
      PROVE  told' = told /\ \A e \in Expense : Moved(cache'[e], e)
  <2>1. CASE ReadRow(r)
    <3>1. \A e \in Expense : cache'[e] = cache[e] \/ cache'[e] = Read(cache[e], row[e], TRUE)
      BY <1>1, <2>1 DEF ReadRow
    <3>2. QED
      BY <2>1, <3>1 DEF Moved, ReadRow
  <2>2. CASE Answer(r)
    <3>1. \A e \in Expense : \/ cache'[e] = cache[e]
                             \/ cache[e].fetch = "answered" /\ cache'[e] = Arrive(cache[e])
      BY <1>1, <2>2 DEF Answer, Render
    <3>2. QED
      BY <2>2, <3>1 DEF Moved, Answer
  <2>3. CASE AnswerLost(r)
    <3>1. \A e \in Expense : cache'[e] = cache[e] \/ cache'[e] = Fail(cache[e])
      BY <1>1, <2>3 DEF AnswerLost, Render
    <3>2. QED
      BY <2>3, <3>1 DEF Moved, AnswerLost
  <2>4. QED
    BY <1>7, <2>1, <2>2, <2>3
<1>8. ASSUME cache' # cache
      PROVE  \/ \E to \in Route : Navigate(to)
             \/ Refetch \/ Reconnect
             \/ \E k \in Call : Save(k)
             \/ \E e \in Expense : ReadRow(e) \/ Answer(e) \/ AnswerLost(e)
  BY <1>8 DEF Next, vars, page, Preview, ClosePreview, TypeIn, ChooseFile, Create, Act, Apply,
              Refuse, PreviewArrives, PreviewIgnored, Elsewhere
<1>9. QED
  BY <1>2, <1>3, <1>4, <1>5, <1>6, <1>7, <1>8

\* A success is on its way because it was, or because its write has just been applied.
LEMMA AnswersOnTheirWay ==
    ASSUME TypeInv, PageInv, [Next]_vars, NEW k \in Call, Answered(call'[k])
    PROVE  \/ /\ Answered(call[k]) /\ call'[k].id = call[k].id
              /\ call'[k].version = call[k].version
           \/ Apply(k)
<1>1. call \in [Call -> Calls \cup {NoCall}]
  BY DEF TypeInv
<1>2. CASE call' = call
  BY <1>2
<1>3. ASSUME NEW to, NEW c, NEW calls, Drawn(to, c, calls)
      PROVE  /\ Answered(call[k]) /\ call'[k].id = call[k].id
             /\ call'[k].version = call[k].version
  <2>1. Follows(call'[k], calls[k]) /\ calls[k] \in {call[k], NoCall}
    BY <1>3, RenderedCalls DEF Drawn
  <2>2. call'[k] # NoCall
    BY DEF Answered, NoCall
  <2>3. QED
    BY <2>1, <2>2 DEF Follows, Answered, Calls, NoCall
<1>4. ASSUME NEW j \in Call, NEW kind, NEW e, NEW body, NEW meant, Send(j, kind, e, body, meant)
      PROVE  /\ Answered(call[k]) /\ call'[k].id = call[k].id
             /\ call'[k].version = call[k].version
  BY <1>1, <1>4 DEF Send, Answered
<1>5. ASSUME NEW j \in Call, Finish(j)
      PROVE  /\ Answered(call[k]) /\ call'[k].id = call[k].id
             /\ call'[k].version = call[k].version
  <2>1. CASE Fails(call[j])
    <3>1. call' = Finished(j)
      BY <1>5, <2>1, FinishSteps
    <3>2. QED
      BY <1>1, <3>1 DEF Finished, Answered, NoCall
  <2>2. CASE ~Fails(call[j])
    BY <1>3, <1>5, <2>2, FinishSteps
  <2>3. QED
    BY <2>1, <2>2
<1>6. ASSUME NEW j \in Call, Apply(j) \/ Refuse(j), j # k \/ Refuse(j)
      PROVE  /\ Answered(call[k]) /\ call'[k].id = call[k].id
             /\ call'[k].version = call[k].version
  <2>1. CASE j # k
    BY <1>1, <1>6, <2>1 DEF Apply, Refuse
  <2>2. CASE j = k
    <3>1. call[k] \in Calls /\ call'[k] = [call[k] EXCEPT !.phase = "failed"]
      BY <1>1, <1>6, <2>2 DEF Refuse, NoCall
    <3>2. QED
      BY <3>1 DEF Calls, Answered
  <2>3. QED
    BY <2>1, <2>2
<1>7. ASSUME \/ \E to \in Route : Navigate(to)
             \/ Refetch
             \/ \E e \in Expense : Answer(e) \/ AnswerLost(e)
      PROVE  /\ Answered(call[k]) /\ call'[k].id = call[k].id
             /\ call'[k].version = call[k].version
  <2>1. PICK to, c : Drawn(to, c, call)
    BY <1>7, DrawingSteps
  <2>2. QED
    BY <1>3, <2>1
<1>8. ASSUME NEW j \in Call, Save(j)
      PROVE  /\ Answered(call[k]) /\ call'[k].id = call[k].id
             /\ call'[k].version = call[k].version
  BY <1>3, <1>4, <1>8, SavingSteps
<1>9. CASE \E j \in Call : Create(j) \/ \E kind \in {"delete", "approve", "reject"} : Act(j, kind)
  BY <1>4, <1>9 DEF Create, Act
<1>10. call' = call
       \/ (\E to \in Route : Navigate(to)) \/ Refetch
       \/ (\E e \in Expense : Answer(e) \/ AnswerLost(e))
       \/ (\E j \in Call : \/ Create(j) \/ Save(j) \/ Apply(j) \/ Refuse(j) \/ Finish(j)
                           \/ \E kind \in {"delete", "approve", "reject"} : Act(j, kind))
  BY DEF Next, vars, Preview, ClosePreview, TypeIn, ChooseFile, PreviewArrives, PreviewIgnored,
         ReadRow, Elsewhere, Reconnect
<1>11. QED
  BY <1>2, <1>5, <1>6, <1>7, <1>8, <1>9, <1>10

\* Every step.
LEMMA ReadStep ==
    ASSUME CoreInv, ReadInv, [Next]_vars
    PROVE  ReadInv'
<1>1. TypeInv /\ PageInv /\ TypeInv'
  BY CoreStep DEF CoreInv
<1>2. \A e \in Expense : /\ row[e].version \in Nat /\ row'[e].version \in Nat
                         /\ told[e] \in Nat /\ told[e] <= row[e].version
                         /\ Current(cache[e], told[e])
  BY <1>1 DEF TypeInv, ReadInv, Rows
<1>3. \A e \in Expense : row'[e].version >= row[e].version
  <2>1. CASE row' = row
    BY <1>2, <2>1
  <2>2. CASE row' # row
    <3>1. (\E k \in Call : Apply(k)) \/ \E e \in Expense : Elsewhere(e)
      BY <1>1, <2>2, FinishSteps, DrawingSteps, SavingSteps
         DEF Next, vars, Preview, ClosePreview, TypeIn, ChooseFile, Create, Act, Refuse,
             PreviewArrives, PreviewIgnored, ReadRow, Reconnect
    <3>2. QED
      BY <1>1, <3>1, AppliedRows, RowsElsewhere
  <2>3. QED
    BY <2>1, <2>2
<1>4. ASSUME NEW k \in Call, Answered(call'[k])
      PROVE  call'[k].version <= row'[call'[k].id].version
  <2>1. CASE Apply(k)
    <3>1. PICK phase \in {"done", "failed"}, v \in Nat :
              /\ call' = [call EXCEPT ![k] = [@ EXCEPT !.phase = phase, !.version = v]]
              /\ call[k].kind # "create" =>
                    call[k].id \in Expense /\ v = row'[call[k].id].version
      BY <1>1, <2>1, AppliedRows
    <3>2. call[k] \in Calls
      BY <1>1, <2>1, AppliedRows
    <3>3. call'[k].kind = call[k].kind /\ call'[k].id = call[k].id /\ call'[k].version = v
      BY <1>1, <3>1, <3>2 DEF TypeInv, Calls
    <3>4. QED
      BY <1>2, <1>4, <3>1, <3>3 DEF Answered
  <2>2. CASE /\ Answered(call[k]) /\ call'[k].id = call[k].id
             /\ call'[k].version = call[k].version
    <3>1. call[k] \in Calls /\ call[k].id \in Expense
      BY <1>1, <2>2 DEF TypeInv, PageInv, Answered, NoCall, Writable
    <3>2. call[k].version \in Nat /\ call[k].version <= row[call[k].id].version
      BY <2>2, <3>1 DEF ReadInv, Calls
    <3>3. QED
      BY <1>2, <1>3, <2>2, <3>1, <3>2
  <2>3. QED
    BY <1>1, <1>4, <2>1, <2>2, AnswersOnTheirWay
<1>5. \A e \in Expense : told'[e] <= row'[e].version /\ Current(cache'[e], told'[e])
  <2>1. CASE \A k \in Call : ~Finish(k)
    <3>1. told' = told /\ \A e \in Expense : Moved(cache'[e], e)
      BY <1>1, <2>1, EntriesMove
    <3>2. \A e \in Expense : Current(cache'[e], told'[e])
      BY <1>1, <3>1, MovedIsCurrent
    <3>3. QED
      BY <1>2, <1>3, <3>1, <3>2
  <2>2. ASSUME NEW k \in Call, Finish(k), NEW e \in Expense
        PROVE  told'[e] <= row'[e].version /\ Current(cache'[e], told'[e])
    <3>1. /\ call[k] \in Calls /\ cache' = Refreshed(call[k]) /\ row' = row
          /\ told' = IF call[k].phase = "done" /\ call[k].kind \notin {"create", "delete"}
                     THEN [told EXCEPT ![call[k].id] = call[k].version] ELSE told
      BY <1>1, <2>2, FinishSteps
    <3>2. CASE told'[e] = told[e]
      <4>1. CASE e \in Touched(call[k])
        <5>1. cache'[e] = Invalidate(cache[e], Using(e))
          BY <3>1, <4>1 DEF Refreshed
        <5>2. Using(e) \in BOOLEAN /\ cache[e] \in Entries
          BY <1>1 DEF Using, TypeInv
        <5>3. QED
          BY <1>2, <3>1, <3>2, <5>1, <5>2, InvalidatedIsCurrent
      <4>2. CASE e \notin Touched(call[k])
        BY <1>2, <3>1, <3>2, <4>2 DEF Refreshed
      <4>3. QED
        BY <4>1, <4>2
    <3>3. CASE told'[e] # told[e]
      <4>1. /\ call[k].phase = "done" /\ call[k].kind \notin {"create", "delete"}
            /\ call[k].id = e /\ told'[e] = call[k].version
        BY <1>1, <3>1, <3>3 DEF TypeInv
      <4>2. call[k].kind \in {"update", "resubmit", "approve", "reject"}
        BY <3>1, <4>1 DEF Calls, FormWrites
      <4>3. e \in Touched(call[k])
        BY <4>1, <4>2 DEF Touched
      <4>4. cache'[e] = Invalidate(cache[e], Using(e)) /\ Using(e) \in BOOLEAN
            /\ cache[e] \in Entries
        BY <1>1, <3>1, <4>3 DEF Refreshed, Using, TypeInv
      <4>5. Current(cache'[e], told'[e])
        BY <4>4, InvalidatedIsCurrent
      <4>6. call[k].version <= row[e].version
        BY <4>1, <4>2 DEF ReadInv, Answered
      <4>7. QED
        BY <3>1, <4>1, <4>5, <4>6
    <3>4. QED
      BY <3>2, <3>3
  <2>3. QED
    BY <2>1, <2>2
<1>6. QED
  BY <1>4, <1>5 DEF ReadInv

\* useExpense after onSettled and onSuccess of the tab's own writes: what a page shows as
\* good is no older than what the tab was told, through every order of reads, writes,
\* invalidations and failures.
THEOREM OwnWritesAreShown == Spec => []ReadsItsWrites
<1>1. Init => ReadInv
  <2> SUFFICES ASSUME Init PROVE ReadInv
    OBVIOUS
  <2>1. \A e \in Expense : told[e] = 0 /\ cache[e] = Empty /\ row[e].version = 1
    BY DEF Init
  <2>2. \A k \in Call : ~Answered(call[k])
    BY DEF Init, Answered, NoCall
  <2>3. QED
    BY <2>1, <2>2 DEF ReadInv, Current, Empty
<1>2. CoreInv /\ ReadInv => ReadsItsWrites
  <2> SUFFICES ASSUME CoreInv, ReadInv, NEW e \in Expense,
                      Loaded(cache[e]), ~cache[e].stale, ~cache[e].missed
               PROVE  Data(e).version >= told[e]
    BY DEF ReadsItsWrites
  <2>1. Data(e) \in cache[e].data
    BY DEF Data, Loaded
  <2>2. QED
    BY <2>1 DEF ReadInv, Current
<1>3. QED
  BY <1>1, <1>2, ReadStep, Invariance, PTL DEF Spec

-----------------------------------------------------------------------------
(* The server behind the screens.  What this module lets happen to a row,  *)
(* by a write of the tab or in another session, is what ExpenseContract    *)
(* allows, which ExpenseLifecycle implements: the two models meet in it.   *)

\* As many users as the contract tells apart here: the one of this tab, and others.
Submitter(e) == IF e \in Mine THEN "user" ELSE "other"
Approver(e) == IF row[e].status \notin {"APPROVED", "REJECTED"} THEN "nobody"
               ELSE IF e \in Mine THEN "other" ELSE "user"

Server == INSTANCE ExpenseContract WITH
    User <- {"user", "other"}, Nobody <- "nobody",
    state <- [e \in Expense |-> row[e].status],
    owner <- [e \in Expense |-> Submitter(e)],
    decider <- [e \in Expense |-> Approver(e)],
    revision <- [e \in Expense |-> row[e].version]

\* Every change of a row is an edit, a decision, a resubmission or a withdrawal in the
\* sense of the contract, from the status it asks for, and makes one new version.
RowsFollowContract == [][Server!Next]_(Server!vars)

\* A write of an expense maps to a step of the contract.
LEMMA WriteIsContract ==
    ASSUME TypeInv, NEW e \in Expense, NEW w, w.kind \in FormWrites => Fits(w.body),
           row' = [row EXCEPT ![e] = Written(@, w)],
           \/ /\ w.kind \in {"approve", "reject", "delete"}
              /\ row[e].status = "PENDING"
           \/ /\ w.kind \in {"update", "resubmit"}
              /\ row[e].status \in {"PENDING", "REJECTED"}
    PROVE  Server!Next
<1> DEFINE r == Written(row[e], w)
<1>1. row[e] \in Rows /\ r \in Rows /\ r.version = row[e].version + 1
  BY WrittenRow DEF TypeInv
<1>2. r.status = CASE w.kind = "approve" -> "APPROVED"
                   [] w.kind = "reject" -> "REJECTED"
                   [] w.kind = "delete" -> "DELETED"
                   [] OTHER -> "PENDING"
  <2>1. "status" \in DOMAIN row[e]
    BY <1>1 DEF Rows
  <2>2. QED
    BY <2>1 DEF Written
<1> HIDE DEF r
<1>3. row'[e] = r /\ \A x \in Expense : x # e => row'[x] = row[x]
  BY DEF TypeInv, r
<1>4. /\ Server!Revise(e)
      /\ UNCHANGED [x \in Expense |-> Submitter(x)]
      /\ [x \in Expense |-> row[x].status]'
           = [[x \in Expense |-> row[x].status] EXCEPT ![e] = r.status]
      /\ \A x \in Expense : x # e => Approver(x)' = Approver(x)
  <2> DEFINE versions == [x \in Expense |-> row[x].version]
             revised == [x \in Expense |-> row'[x].version]
             statuses == [x \in Expense |-> row[x].status]
             changed == [x \in Expense |-> row'[x].status]
  <2>a. \A x \in Expense : /\ revised[x] = IF x = e THEN versions[e] + 1 ELSE versions[x]
                           /\ changed[x] = IF x = e THEN r.status ELSE statuses[x]
    BY <1>1, <1>3
  <2>b. /\ DOMAIN versions = Expense /\ DOMAIN revised = Expense
        /\ DOMAIN statuses = Expense /\ DOMAIN changed = Expense
        /\ versions = [x \in Expense |-> versions[x]] /\ revised = [x \in Expense |-> revised[x]]
        /\ statuses = [x \in Expense |-> statuses[x]] /\ changed = [x \in Expense |-> changed[x]]
    OBVIOUS
  <2> HIDE DEF versions, revised, statuses, changed
  <2>1. revised = [versions EXCEPT ![e] = @ + 1]
    BY <2>a, <2>b
  <2>2. changed = [statuses EXCEPT ![e] = r.status]
    BY <2>a, <2>b
  <2>3. \A x \in Expense : x # e => Approver(x)' = Approver(x)
    BY <1>3 DEF Approver
  <2>4. UNCHANGED [x \in Expense |-> Submitter(x)]
    BY DEF Submitter
  <2>5. Server!Revise(e)
    BY <2>1 DEF Server!Revise, versions, revised
  <2>6. QED
    BY <2>2, <2>3, <2>4, <2>5 DEF statuses, changed
<1> DEFINE old == row[e].status
<1>5. CASE w.kind \in {"update", "resubmit"} /\ old = "PENDING"
  <2>1. r.status = "PENDING" /\ Approver(e)' = Approver(e)
    BY <1>2, <1>3, <1>5 DEF Approver
  <2>2. UNCHANGED <<[x \in Expense |-> row[x].status], [x \in Expense |-> Approver(x)]>>
    BY <1>4, <1>5, <2>1
  <2>3. Server!Edit(e)
    BY <1>4, <1>5, <2>2 DEF Server!Edit
  <2>4. QED
    BY <2>3 DEF Server!Next
<1>6. CASE w.kind \in {"update", "resubmit"} /\ old = "REJECTED"
  <2>1. r.status = "PENDING" /\ Approver(e)' = "nobody"
    BY <1>2, <1>3, <1>6 DEF Approver
  <2>2. [x \in Expense |-> Approver(x)]' = [[x \in Expense |-> Approver(x)] EXCEPT ![e] = "nobody"]
    BY <1>4, <2>1
  <2>3. Server!Resubmit(e)
    BY <1>4, <1>6, <2>1, <2>2 DEF Server!Resubmit
  <2>4. QED
    BY <2>3 DEF Server!Next
<1>7. CASE w.kind = "delete" /\ old = "PENDING"
  <2>1. r.status = "DELETED" /\ Approver(e)' = Approver(e)
    BY <1>2, <1>3, <1>7 DEF Approver
  <2>2. UNCHANGED [x \in Expense |-> Approver(x)]
    BY <1>4, <2>1
  <2>3. Server!Withdraw(e)
    BY <1>4, <1>7, <2>1, <2>2 DEF Server!Withdraw
  <2>4. QED
    BY <2>3 DEF Server!Next
<1>8. ASSUME NEW verdict \in {"APPROVED", "REJECTED"}, r.status = verdict, old = "PENDING"
      PROVE  Server!Next
  <2> DEFINE u == IF e \in Mine THEN "other" ELSE "user"
  <2>1. Approver(e)' = u /\ u # Submitter(e) /\ u \in {"user", "other"}
    BY <1>3, <1>8 DEF Approver, Submitter
  <2> HIDE DEF u
  <2>2. [x \in Expense |-> Approver(x)]' = [[x \in Expense |-> Approver(x)] EXCEPT ![e] = u]
    BY <1>4, <2>1
  <2>3. Server!Decide(e, u, verdict)
    BY <1>4, <1>8, <2>1, <2>2 DEF Server!Decide
  <2>4. QED
    BY <2>1, <2>3 DEF Server!Next
<1>9. CASE w.kind \in {"approve", "reject"} /\ old = "PENDING"
  BY <1>2, <1>8, <1>9
<1>10. QED
  BY <1>5, <1>6, <1>7, <1>9

\* A step that leaves the rows alone.
LEMMA RowsStand ==
    ASSUME row' = row
    PROVE  UNCHANGED Server!vars
BY DEF Server!vars, Approver, Submitter

\* Only the answer of the server to a write, and other sessions, change rows; both in
\* the way ExpenseLifecycle was shown to.
THEOREM ServerKeepsContract == Spec => RowsFollowContract
<1>1. TypeInv /\ PageInv /\ [Next]_vars => [Server!Next]_(Server!vars)
  <2> SUFFICES ASSUME TypeInv, PageInv, [Next]_vars PROVE [Server!Next]_(Server!vars)
    OBVIOUS
  <2>1. ASSUME NEW k \in Call, Apply(k) PROVE [Server!Next]_(Server!vars)
    <3>1. CASE call[k].kind = "create"
      BY <2>1, <3>1, RowsStand DEF Apply
    <3>2. CASE call[k].kind # "create"
      <4>1. call[k] \in Calls
        BY <2>1 DEF TypeInv, Apply, NoCall
      <4>2. call[k].id \in Expense /\ Fits(call[k].body)
        BY <3>2, <4>1 DEF PageInv, Writable, Calls, FormWrites
      <4>3. /\ row[call[k].id].status = From(call[k].kind)
            /\ row' = [row EXCEPT ![call[k].id] = Written(@, call[k])]
        BY <2>1, <3>2 DEF Apply
      <4>4. call[k].kind \in {"update", "resubmit", "delete", "approve", "reject"}
        BY <3>2, <4>1 DEF Calls, FormWrites
      <4>5. Server!Next
        BY <4>2, <4>3, <4>4, WriteIsContract DEF From
      <4>6. QED
        BY <4>5
    <3>3. QED
      BY <3>1, <3>2
  <2>2. ASSUME NEW e \in Expense, Elsewhere(e) PROVE [Server!Next]_(Server!vars)
    <3>1. ASSUME NEW kind \in {"approve", "reject", "delete"}, row[e].status = "PENDING",
                 row' = [row EXCEPT ![e] = Written(@, [kind |-> kind])]
          PROVE  Server!Next
      <4> DEFINE w == [kind |-> kind]
      <4>1. w.kind = kind /\ kind \notin FormWrites
        BY DEF FormWrites
      <4> HIDE DEF w
      <4>2. row' = [row EXCEPT ![e] = Written(@, w)]
        BY <3>1 DEF w
      <4>3. QED
        BY <3>1, <4>1, <4>2, WriteIsContract
    <3>2. ASSUME NEW a \in Amount, row[e].status \in {"PENDING", "REJECTED"},
                 row' = [row EXCEPT ![e] = Written(@, [kind |-> "update", body |-> [amount |-> a]])]
          PROVE  Server!Next
      <4> DEFINE w == [kind |-> "update", body |-> [amount |-> a]]
      <4>1. w.kind = "update" /\ Fits(w.body)
        BY DEF Fits, Field
      <4> HIDE DEF w
      <4>2. row' = [row EXCEPT ![e] = Written(@, w)]
        BY <3>2 DEF w
      <4>3. QED
        BY <3>2, <4>1, <4>2, WriteIsContract
    <3>3. QED
      BY <2>2, <3>1, <3>2 DEF Elsewhere
  <2>3. CASE row' = row
    BY <2>3, RowsStand
  <2>4. row' = row \/ (\E k \in Call : Apply(k)) \/ (\E e \in Expense : Elsewhere(e))
    BY DEF Next, vars, page, Navigate, Refetch, Preview, ClosePreview, TypeIn, ChooseFile, Create,
           Save, Act, Refuse, Finish, PreviewArrives, PreviewIgnored, ReadRow, Answer, AnswerLost,
           Reconnect
  <2>5. QED
    BY <2>1, <2>2, <2>3, <2>4
<1>2. CoreInv => TypeInv /\ PageInv
  BY DEF CoreInv
<1>3. QED
  BY <1>1, <1>2, Invariance, PTL DEF Spec, RowsFollowContract

-----------------------------------------------------------------------------
(* The user of this tab.  The contract takes him for the owner of Mine and *)
(* the decider of the rest: this is what the pages let him ask for.        *)

InOwnName(w) ==
    /\ w.kind \in {"update", "resubmit", "delete"} => w.id \in Mine
    /\ w.kind \in {"approve", "reject"} => w.id \in Expense \ Mine

\* Whatever is edited, deleted or resubmitted from here is his, whatever is decided is
\* somebody else's.
AsksInOwnName ==
    /\ route.at = "edit" => route.id \in Mine
    /\ \A k \in Call : InOwnName(call[k])

\* A render goes on with the writes under way, or without them.
LEMMA RenderedNames ==
    ASSUME TypeInv, AsksInOwnName, NEW to, NEW c, NEW calls, Render(to, c, calls),
           \A k \in Call : calls[k] \in {call[k], NoCall},
           to.at = "edit" => to.id \in Mine
    PROVE  AsksInOwnName'
<1> DEFINE leaves == route.at = "detail" /\ to # route
           closes == form.mounted /\ ~FormStays(to, c)
           heard(k) == IF calls[k].kind \in FormWrites THEN ~closes ELSE ~leaves
<1>1. route' = to
      /\ call' = [k \in Call |-> IF calls[k] = NoCall THEN NoCall
                                 ELSE [calls[k] EXCEPT !.mine = @ /\ heard(k)]]
  BY DEF Render
<1> HIDE DEF heard
<1>2. ASSUME NEW k \in Call PROVE InOwnName(call'[k])
  <2>1. CASE calls[k] = NoCall
    BY <1>1, <2>1 DEF InOwnName, NoCall
  <2>2. CASE calls[k] # NoCall
    <3>1. call[k] \in Calls /\ calls[k] = call[k] /\ InOwnName(call[k])
      BY <2>2 DEF TypeInv, AsksInOwnName
    <3>2. call'[k] = [call[k] EXCEPT !.mine = @ /\ heard(k)]
      BY <1>1, <2>2, <3>1
    <3>3. call'[k].kind = call[k].kind /\ call'[k].id = call[k].id
      BY <3>1, <3>2 DEF Calls
    <3>4. QED
      BY <3>1, <3>3 DEF InOwnName
  <2>3. QED
    BY <2>1, <2>2
<1>3. QED
  BY <1>1, <1>2 DEF AsksInOwnName

\* A write that is sent in the user's own name.
LEMMA SentNames ==
    ASSUME TypeInv, AsksInOwnName, NEW j \in Call, NEW kind, NEW e, NEW body, NEW meant,
           Send(j, kind, e, body, meant), route' = route,
           kind \in {"update", "resubmit", "delete"} => e \in Mine,
           kind \in {"approve", "reject"} => e \in Expense \ Mine
    PROVE  AsksInOwnName'
<1>1. ASSUME NEW k \in Call PROVE InOwnName(call'[k])
  <2>1. CASE k = j
    <3>1. call'[k].kind = kind /\ call'[k].id = e
      BY <2>1 DEF Send, TypeInv
    <3>2. QED
      BY <3>1 DEF InOwnName
  <2>2. CASE k # j
    BY <2>2 DEF Send, TypeInv, AsksInOwnName
  <2>3. QED
    BY <2>1, <2>2
<1>2. QED
  BY <1>1 DEF AsksInOwnName

\* A write whose phase changes stays what it is.
LEMMA AnsweredNames ==
    ASSUME TypeInv, AsksInOwnName, NEW k \in Call, Apply(k) \/ Refuse(k)
    PROVE  AsksInOwnName'
<1>1. PICK phase, v : call' = [call EXCEPT ![k].phase = phase, ![k].version = v]
  <2>1. CASE Apply(k)
    BY <2>1 DEF Apply
  <2>2. CASE Refuse(k)
    <3>1. call[k] \in Calls
      BY <2>2 DEF Refuse, TypeInv, NoCall
    <3>2. call' = [call EXCEPT ![k].phase = "failed", ![k].version = call[k].version]
      BY <2>2, <3>1 DEF Refuse, TypeInv, Calls
    <3>3. QED
      BY <3>2
  <2>3. QED
    BY <2>1, <2>2
<1>2. call[k] \in Calls /\ route' = route
  BY DEF Apply, Refuse, TypeInv, NoCall, page
<1>3. call'[k].kind = call[k].kind /\ call'[k].id = call[k].id
  BY <1>1, <1>2 DEF TypeInv, Calls
<1>4. \A j \in Call : j # k => call'[j] = call[j]
  BY <1>1 DEF TypeInv
<1>5. \A j \in Call : InOwnName(call'[j])
  BY <1>3, <1>4 DEF AsksInOwnName, InOwnName
<1>6. QED
  BY <1>2, <1>5 DEF AsksInOwnName

\* The rights of the user, click by click.
LEMMA NamesStep ==
    ASSUME TypeInv, PageInv, AsksInOwnName, [Next]_vars
    PROVE  AsksInOwnName'
<1>1. \A k \in Call : call[k] \in {call[k], NoCall}
  OBVIOUS
<1>2. ASSUME NEW to, NEW c, Render(to, c, call), to.at = "edit" => to.id \in Mine
      PROVE  AsksInOwnName'
  BY <1>1, <1>2, RenderedNames
<1>3. ASSUME NEW to \in Route, Navigate(to) PROVE AsksInOwnName'
  <2>1. to.at = "edit" => to.id \in Mine
    BY <1>3 DEF Navigate, ShowOwnerActions, ShowResubmit
  <2>2. QED
    BY <1>2, <1>3, <2>1 DEF Navigate
<1>4. ASSUME Refetch \/ \E e \in Expense : Answer(e) \/ AnswerLost(e) PROVE AsksInOwnName'
  <2>1. PICK c : Render(route, c, call)
    BY <1>4 DEF Refetch, Answer, AnswerLost
  <2>2. QED
    BY <1>2, <2>1 DEF AsksInOwnName
<1>5. ASSUME NEW k \in Call, Create(k) PROVE AsksInOwnName'
  BY <1>5, SentNames DEF Create, page
<1>6. ASSUME NEW k \in Call, Save(k) PROVE AsksInOwnName'
  <2>1. route.id \in Mine /\ FormKind \in {"update", "resubmit"}
    BY <1>6, SavingSteps DEF AsksInOwnName
  <2>2. CASE DOMAIN Sent = {}
    <3>1. PICK old \in BOOLEAN :
              Render(Detail(route.id), [cache EXCEPT ![route.id] = Mount(@, old)], call)
      BY <1>6, <2>2 DEF Save, Sent
    <3>2. Detail(route.id).at # "edit"
      BY DEF Detail
    <3>3. QED
      BY <1>2, <3>1, <3>2
  <2>3. CASE DOMAIN Sent # {}
    <3>1. Send(k, FormKind, route.id, Sent, Meant) /\ route' = route
      BY <1>6, <2>3 DEF Save, Sent, Meant, page
    <3>2. QED
      BY <2>1, <3>1, SentNames
  <2>4. QED
    BY <2>2, <2>3
<1>7. ASSUME NEW k \in Call, NEW kind \in {"delete", "approve", "reject"}, Act(k, kind)
      PROVE  AsksInOwnName'
  <2>1. Send(k, kind, route.id, <<>>, {}) /\ route' = route
    BY <1>7 DEF Act, page
  <2>2. route.id \in Expense
    BY <1>7, RouteFacts DEF Act, TypeInv
  <2>3. IF kind = "delete" THEN route.id \in Mine ELSE route.id \notin Mine
    BY <1>7 DEF Act, ShowOwnerActions, ShowApprovalActions
  <2>4. QED
    BY <2>1, <2>2, <2>3, SentNames
<1>8. ASSUME NEW k \in Call, Finish(k) PROVE AsksInOwnName'
  <2>1. \A j \in Call : Finished(k)[j] \in {call[j], NoCall}
    BY DEF Finished, TypeInv
  <2>2. CASE Fails(call[k])
    <3>1. call' = Finished(k) /\ route' = route
      BY <1>8, <2>2, FinishSteps
    <3>2. \A j \in Call : InOwnName(call'[j])
      BY <2>1, <3>1 DEF AsksInOwnName, InOwnName, NoCall
    <3>3. QED
      BY <3>1, <3>2 DEF AsksInOwnName
  <2>3. CASE ~Fails(call[k])
    <3>1. Render(Target(call[k]), Refreshed(call[k]), Finished(k))
      BY <1>8, <2>3, FinishSteps DEF Drawn
    <3>2. Target(call[k]).at = "edit" => Target(call[k]).id \in Mine
      BY DEF Target, Detail, Home, AsksInOwnName
    <3>3. QED
      BY <2>1, <3>1, <3>2, RenderedNames
  <2>4. QED
    BY <2>2, <2>3
<1>9. ASSUME route' = route, call' = call PROVE AsksInOwnName'
  BY <1>9 DEF AsksInOwnName
<1>10. ASSUME \/ UNCHANGED vars \/ Preview \/ ClosePreview
              \/ \E f, v : TypeIn(f, v)
              \/ \E file : ChooseFile(file)
              \/ PreviewArrives \/ PreviewIgnored \/ Reconnect
              \/ \E e \in Expense : ReadRow(e) \/ Elsewhere(e)
       PROVE  AsksInOwnName'
  BY <1>9, <1>10 DEF vars, Preview, ClosePreview, TypeIn, ChooseFile, PreviewArrives,
                     PreviewIgnored, Reconnect, ReadRow, Elsewhere, page
<1>11. QED
  BY <1>3, <1>4, <1>5, <1>6, <1>7, <1>8, <1>10, AnsweredNames DEF Next

\* ExpenseDetail and EditExpense offer edits, deletions and resubmissions of the user's
\* own expenses only, and decisions on those of others only, through every order of
\* renders, reads and answers: the roles the contract gives him are those he acts in.
THEOREM RightsOfTheUser == Spec => []AsksInOwnName
<1>1. Init => AsksInOwnName
  BY DEF Init, AsksInOwnName, InOwnName, Home, NoCall
<1>2. CoreInv => TypeInv /\ PageInv
  BY DEF CoreInv
<1>3. QED
  BY <1>1, <1>2, NamesStep, Invariance, PTL DEF Spec
=============================================================================
