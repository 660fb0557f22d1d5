----------------------------- MODULE NoticeBell -----------------------------
(***************************************************************************)
(* Comments on one expense, the notices they cause, and what one of the    *)
(* people concerned sees of them in his tab: the bell                      *)
(* (components/layout/NotificationBell, queries/notifications) and the     *)
(* switch on the settings page that mutes them (pages/Settings,            *)
(* queries/me).  On the server: commentController, notificationService,    *)
(* notificationController, meController and their models.                  *)
(*                                                                         *)
(* A comment is posted in steps with waits between them, in which the      *)
(* switch may change.  The bell polls, and overwrites its cache before a   *)
(* mark is sent.                                                           *)
(*                                                                         *)
(* Definitions named Wrong..., Lazy... or Forgetful... are broken on       *)
(* purpose and take no part in BellSpec.                                   *)
(***************************************************************************)
EXTENDS Naturals, Sequences, FiniteSets, QueryCache

CONSTANTS Owner, Manager, \* of the expense
          Admin,          \* somebody else who may comment
          Me,             \* the one whose tab this is
          MaxPosts,       \* bound: comments
          MaxMarks,       \* bound: marks under way at a time
          ListSize,       \* notices the list shows
          MaxClicks,      \* bound: what the user does
          MaxOthers       \* bound: the switch set elsewhere, lost answers

User == {Owner, Manager, Admin}
Post == 1 .. MaxPosts
Mark == 1 .. MaxMarks

ASSUME BellAssumption ==
    /\ Cardinality(User) = 3 /\ Me \in User
    /\ MaxPosts \in Nat /\ MaxMarks \in Nat
    /\ ListSize \in Nat \ {0} /\ MaxClicks \in Nat /\ MaxOthers \in Nat

VARIABLES setting,  \* [User -> notify_on_comment]
          post,     \* [Post -> POST /expenses/:id/comments, its phase and who is still to be told]
          notices,  \* the rows of table notifications for Me, oldest first
          badge,    \* cache entry of the unread count
          list,     \* cache entry of the first page of notices
          open,     \* the popover is
          mark,     \* [Mark -> useMarkNotificationRead / useMarkAllNotificationsRead]
          profile,  \* cache entry of GET /me, as far as the switch goes
          form,     \* the settings page: the switch, and the profile it was set from
          save,     \* PATCH /me/preferences under way
          readTold, \* ghost: notices this tab was told are read
          offTold,  \* ghost: this tab was told the switch is off, and it is
          clicks, others

bellVars == <<setting, post, notices, badge, list, open, mark, profile, form, save,
              readTold, offTold, clicks, others>>
server == <<setting, post, notices, offTold>>
bell == <<badge, list, open, mark, readTold>>
settings == <<profile, form, save>>

NoPost == [phase |-> "none"]
NoMark == [phase |-> "none"]
NoSave == [phase |-> "none"]
NoForm == [shown |-> FALSE]

-----------------------------------------------------------------------------
(* What the server reads for the tab. *)

Unread == {n \in DOMAIN notices : ~notices[n].is_read}

\* The newest ones.
Items == [n \in {m \in DOMAIN notices : m > Len(notices) - ListSize} |-> notices[n].is_read]

\* The app shows nothing before GET /me is answered (context/AuthContext), and
\* nothing any more when it fails later; a session in which it does not is meant.
BellInit ==
    /\ setting = [u \in User |-> TRUE]
    /\ post = [p \in Post |-> NoPost]
    /\ notices = <<>>
    /\ badge = Ask(Empty) /\ list = Empty
    /\ open = FALSE
    /\ mark = [m \in Mark |-> NoMark]
    /\ profile = Arrive(Read(Ask(Empty), TRUE, TRUE))
    /\ form = NoForm /\ save = NoSave
    /\ readTold = {} /\ offTold = FALSE
    /\ clicks = 0 /\ others = 0

Click == clicks < MaxClicks /\ clicks' = clicks + 1
Other == others < MaxOthers /\ others' = others + 1

-----------------------------------------------------------------------------
(* addComment. *)

\* expenseComment: the owner and his manager, but for the author.
Recipients(u) == {Owner, Manager} \ {u}

\* findById finds the expense, ensureCanAccessExpense grants it, the comment is
\* inserted and the recipients are read, or nobody is told if that fails.  A request that is refused changes nothing.
\* Of the recipients only Me is kept, whose notice the tab here can show.
\* muted, a ghost: this tab had been told by then that its notices are off.
Comment(p, u) ==
    /\ post[p] = NoPost /\ \A q \in 1 .. p - 1 : post[q] # NoPost
    /\ IF u = Me THEN Click ELSE UNCHANGED clicks
    /\ \E to \in {{}, Recipients(u) \cap {Me}} :
           post' = [post EXCEPT ![p] = [phase |-> "telling", mine |-> u = Me, to |-> to, muted |-> offTold]]
    /\ UNCHANGED <<setting, notices, offTold, bell, settings, others>>

\* Broken: the setting of the owner's manager decides for both.
WrongWants(p, u) == setting[Manager]

\* recipientWantsNotification: the setting of the one who is told.
Wants(p, u) == setting[u]

\* safeCreate reads the setting; without an answer the notice is written.
LookUp(p) ==
    /\ post[p].phase = "telling" /\ Me \in post[p].to
    /\ \/ /\ Wants(p, Me)
          /\ post' = [post EXCEPT ![p].phase = "wanted"]
       \/ /\ ~Wants(p, Me)
          /\ post' = [post EXCEPT ![p].to = @ \ {Me}]
       \/ post' = [post EXCEPT ![p].phase = "wanted", ![p].muted = FALSE]
    /\ UNCHANGED <<setting, notices, offTold, bell, settings, clicks, others>>

\* The insert of the notice, whose failure is logged and forgotten.
Tell(p) ==
    /\ post[p].phase = "wanted"
    /\ \/ notices' = Append(notices, [is_read |-> FALSE, unwanted |-> post[p].muted])
       \/ UNCHANGED notices
    /\ post' = [post EXCEPT ![p].phase = "telling", ![p].to = @ \ {Me}]
    /\ UNCHANGED <<setting, offTold, bell, settings, clicks, others>>

\* The answer, after the other recipient, whose notice no tab here shows, was
\* told in the same way.  In the author's tab it asks for the notices again: the count is
\* in use at all times, the list while it is open.
Posted(p) ==
    /\ post[p].phase = "telling" /\ Me \notin post[p].to
    /\ post' = [post EXCEPT ![p] = [phase |-> "over"]]
    /\ IF post[p].mine
       THEN badge' = Invalidate(badge, TRUE) /\ list' = Invalidate(list, open)
       ELSE UNCHANGED <<badge, list>>
    /\ UNCHANGED <<setting, notices, offTold, open, mark, readTold, settings, clicks, others>>

-----------------------------------------------------------------------------
(* The bell. *)

\* Broken: the count is asked for once.
LazyPoll ==
    /\ ~Fetching(badge) /\ ~Loaded(badge)
    /\ badge' = Ask(badge)
    /\ UNCHANGED <<server, list, open, mark, readTold, settings, clicks, others>>

\* refetchInterval: every 30 s, unless a request is under way.
Poll ==
    /\ ~Fetching(badge)
    /\ badge' = Ask(badge)
    /\ UNCHANGED <<server, list, open, mark, readTold, settings, clicks, others>>

\* GET /notifications/unread-count is one read.
CountUnread ==
    /\ badge.fetch = "asked"
    /\ badge' = Read(badge, Cardinality(Unread), TRUE)
    /\ UNCHANGED <<server, list, open, mark, readTold, settings, clicks, others>>

\* GET /notifications; the count that comes with the page is shown nowhere.
SelectList ==
    /\ list.fetch = "asked"
    /\ list' = Read(list, Items, TRUE)
    /\ UNCHANGED <<server, badge, open, mark, readTold, settings, clicks, others>>

BadgeArrives ==
    /\ badge.fetch = "answered"
    /\ badge' = Arrive(badge)
    /\ UNCHANGED <<server, list, open, mark, readTold, settings, clicks, others>>

ListArrives ==
    /\ list.fetch = "answered"
    /\ list' = Arrive(list)
    /\ UNCHANGED <<server, badge, open, mark, readTold, settings, clicks, others>>

Lost ==
    /\ Other
    /\ \/ Fetching(badge) /\ badge' = Fail(badge) /\ UNCHANGED list
       \/ Fetching(list) /\ list' = Fail(list) /\ UNCHANGED badge
    /\ UNCHANGED <<server, open, mark, readTold, settings, clicks>>

\* The popover: its list is fetched when it opens.
Toggle ==
    /\ Click
    /\ open' = ~open
    /\ IF open THEN UNCHANGED list ELSE \E old \in BOOLEAN : list' = Mount(list, old)
    /\ UNCHANGED <<server, badge, mark, readTold, settings, others>>

Value(e) == CHOOSE d \in e.data : TRUE

\* onMutate: requests are cancelled and what is cached then is remembered.
Remember(m, all, id, b, l) ==
    /\ mark[m] = NoMark /\ \A k \in 1 .. m - 1 : mark[k] # NoMark
    /\ mark' = [mark EXCEPT ![m] = [phase |-> "sent", all |-> all, id |-> id, read |-> {},
                                    badge |-> b.data, list |-> l.data]]

\* handleOpenItem: a notice that is read already is only followed.
OpenItem(m, n) ==
    /\ Click
    /\ open /\ Loaded(list) /\ n \in DOMAIN Value(list)
    /\ open' = FALSE
    /\ IF Value(list)[n] THEN UNCHANGED <<badge, list, mark>>
       ELSE LET b == Cancel(badge)
                l == Cancel(list)
            IN  /\ Remember(m, FALSE, n, b, l)
                /\ badge' = IF Loaded(b) THEN Write(b, IF Value(b) = 0 THEN 0 ELSE Value(b) - 1) ELSE b
                /\ list' = IF Loaded(l) /\ n \in DOMAIN Value(l) /\ ~Value(l)[n]
                           THEN Write(l, [Value(l) EXCEPT ![n] = TRUE]) ELSE l
    /\ UNCHANGED <<server, readTold, settings, others>>

\* handleMarkAll; the button is there while the badge is.
MarkAll(m) ==
    /\ Click
    /\ open /\ Loaded(badge) /\ Value(badge) > 0
    /\ LET b == Cancel(badge)
           l == Cancel(list)
       IN  /\ Remember(m, TRUE, 0, b, l)
           /\ badge' = Write(b, 0)
           /\ list' = IF Loaded(l) THEN Write(l, [n \in DOMAIN Value(l) |-> TRUE]) ELSE l
    /\ UNCHANGED <<server, open, readTold, settings, others>>

\* markRead and markAllRead; the answer may be lost after the effect.
Reach(m) ==
    /\ mark[m].phase = "sent"
    /\ LET ids == IF mark[m].all THEN Unread ELSE {mark[m].id}
       IN  /\ notices' = [n \in DOMAIN notices |->
                             [notices[n] EXCEPT !.is_read = @ \/ n \in ids]]
           /\ \/ mark' = [mark EXCEPT ![m].phase = "done", ![m].read = ids] /\ UNCHANGED others
              \/ mark' = [mark EXCEPT ![m].phase = "failed"] /\ Other
    /\ UNCHANGED <<setting, post, offTold, badge, list, open, readTold, settings, clicks>>

Refused(m) ==
    /\ Other
    /\ mark[m].phase = "sent"
    /\ mark' = [mark EXCEPT ![m].phase = "failed"]
    /\ UNCHANGED <<server, badge, list, open, readTold, settings, clicks>>

\* rollback: data are written back; a count that was not there is removed from
\* the cache, until the next poll (restoreUnreadCount).
Restored(e, snapshot) ==
    IF snapshot = {} THEN e ELSE Write(e, CHOOSE d \in snapshot : TRUE)

\* Broken: what the cache shows is believed.
ForgetfulReconciled(e, inUse) == e

\* onSettled; a removed entry is not found.
Reconciled(e, inUse) == IF e = Empty THEN e ELSE Invalidate(e, inUse)

\* onError and onSettled.
Settle(m) ==
    /\ mark[m].phase \in {"done", "failed"}
    /\ IF mark[m].phase = "failed"
       THEN /\ badge' = IF mark[m].badge = {} THEN Empty
                        ELSE Reconciled(Restored(badge, mark[m].badge), TRUE)
            /\ list' = Reconciled(Restored(list, mark[m].list), open)
       ELSE /\ badge' = Reconciled(badge, TRUE)
            /\ list' = Reconciled(list, open)
    /\ readTold' = IF mark[m].phase = "done" THEN readTold \cup mark[m].read ELSE readTold
    /\ mark' = [mark EXCEPT ![m] = NoMark]
    /\ UNCHANGED <<server, open, settings, clicks, others>>

-----------------------------------------------------------------------------
(* The settings page. *)

\* The form is set anew by every profile that differs from the one it was set
\* from, whatever was switched meanwhile.
Seeded(f, e) ==
    IF f.shown /\ Loaded(e) /\ f.from # {Value(e)}
    THEN [shown |-> TRUE, on |-> Value(e), initial |-> Value(e), from |-> {Value(e)}]
    ELSE f

OpenSettings ==
    /\ Click
    /\ ~form.shown
    /\ form' = Seeded([shown |-> TRUE, on |-> TRUE, initial |-> TRUE, from |-> {}], profile)
    /\ \E old \in BOOLEAN : profile' = Mount(profile, old)
    /\ UNCHANGED <<server, bell, save, others>>

CloseSettings ==
    /\ Click
    /\ form.shown
    /\ form' = NoForm
    /\ save' = IF save = NoSave THEN NoSave ELSE [save EXCEPT !.heard = FALSE]
    /\ UNCHANGED <<server, bell, profile, others>>

Switch ==
    /\ Click
    /\ form.shown
    /\ form' = [form EXCEPT !.on = ~@]
    /\ UNCHANGED <<server, bell, profile, save, others>>

HandleSave ==
    /\ Click
    /\ form.shown /\ form.on # form.initial
    /\ save = NoSave
    /\ save' = [phase |-> "sent", on |-> form.on, heard |-> TRUE]
    /\ UNCHANGED <<server, bell, profile, form, others>>

\* What is stored; posts of the muted are forgotten when he wants notices again.
Stored(on) ==
    /\ setting' = [setting EXCEPT ![Me] = on]
    /\ offTold' = FALSE
    /\ post' = [p \in Post |-> IF on /\ post[p].phase \notin {"none", "over"}
                               THEN [post[p] EXCEPT !.muted = FALSE] ELSE post[p]]
    /\ UNCHANGED notices

\* updatePreferences writes,
UpdatePreferences ==
    /\ save.phase = "sent"
    /\ Stored(save.on)
    /\ save' = [save EXCEPT !.phase = "written"]
    /\ UNCHANGED <<bell, profile, form, clicks, others>>

\* and reads the row again for its answer.
ReadBack ==
    /\ save.phase = "written"
    /\ save' = [save EXCEPT !.phase = "done", !.on = setting[Me]]
    /\ UNCHANGED <<server, bell, profile, form, clicks, others>>

SaveFails ==
    /\ Other
    /\ save.phase \in {"sent", "written", "done"}
    /\ save' = NoSave
    /\ UNCHANGED <<server, bell, profile, form, clicks>>

\* useUpdatePreferences asks for the profile again, handleSave sets the form.
Saved ==
    /\ save.phase = "done"
    /\ profile' = Invalidate(profile, TRUE)
    /\ form' = IF save.heard THEN [form EXCEPT !.on = save.on, !.initial = save.on] ELSE form
    /\ offTold' = (~save.on /\ ~setting[Me])
    /\ save' = NoSave
    /\ UNCHANGED <<setting, post, notices, bell, clicks, others>>

ReadProfile ==
    /\ profile.fetch = "asked"
    /\ profile' = Read(profile, setting[Me], TRUE)
    /\ UNCHANGED <<server, bell, form, save, clicks, others>>

ProfileArrives ==
    /\ profile.fetch = "answered"
    /\ profile' = Arrive(profile)
    /\ form' = Seeded(form, profile')
    /\ UNCHANGED <<server, bell, save, clicks, others>>

\* The switch is saved in another tab.
SetElsewhere ==
    /\ Other
    /\ Stored(~setting[Me])
    /\ UNCHANGED <<bell, settings, clicks>>

BellNext ==
    \/ \E p \in Post : \/ \E u \in User : Comment(p, u)
                       \/ LookUp(p) \/ Tell(p) \/ Posted(p)
    \/ Lost \/ Toggle
    \/ Poll \/ CountUnread \/ BadgeArrives \/ SelectList \/ ListArrives
    \/ \E m \in Mark : \/ \E n \in DOMAIN notices : OpenItem(m, n)
                       \/ MarkAll(m) \/ Reach(m) \/ Refused(m) \/ Settle(m)
    \/ OpenSettings \/ CloseSettings \/ Switch \/ HandleSave
    \/ UpdatePreferences \/ ReadBack \/ SaveFails \/ Saved
    \/ ReadProfile \/ ProfileArrives \/ SetElsewhere

\* The tab is in view, where the interval runs; requests end.
BellFairness == WF_bellVars(Poll \/ CountUnread \/ BadgeArrives)

BellSpec == BellInit /\ [][BellNext]_bellVars /\ BellFairness

-----------------------------------------------------------------------------
(* Properties. *)

\* Types.
BellTypeOK ==
    /\ open \in BOOLEAN /\ offTold \in BOOLEAN
    /\ readTold \subseteq DOMAIN notices
    /\ \A m \in Mark : mark[m].phase \in {"none", "sent", "done", "failed"}
    /\ \A e \in {badge, list, profile} : e.fetch \in {"idle", "asked", "answered"}
    /\ form.shown => form.on \in BOOLEAN /\ form.initial \in BOOLEAN

\* Once no mark and no request is under way, a notice this tab was told is read
\* neither counts in the badge nor shows as unread, however marks, rollbacks,
\* polls and new notices overlap.  Excepted are data that will be asked for
\* when next in use, and those whose request an invalidation could not restart.
Quiet == /\ \A m \in Mark : mark[m] = NoMark
         /\ ~Fetching(badge) /\ ~Fetching(list)
Trusted(e) == Loaded(e) /\ ~e.stale /\ ~e.missed
ReadStaysRead ==
    Quiet => /\ Trusted(badge) => Value(badge) <= Cardinality(DOMAIN notices \ readTold)
             /\ Trusted(list) => \A n \in readTold \cap DOMAIN Value(list) : Value(list)[n]

\* Who was told that his notices are off gets none of a comment posted later,
\* unless his setting cannot be read, in which case the service tells him.
MutedStaysQuiet == \A n \in DOMAIN notices : ~notices[n].unwanted

\* The badge comes to show the number of unread notices and stays right, also
\* when a failed mark took the count out of the cache.
BadgeSettles == <>[](Loaded(badge) /\ Value(badge) = Cardinality(Unread))
=============================================================================
