------------------------ MODULE CommentThread_proofs ------------------------
(***************************************************************************)
(* Theorems about CommentThread for any number of expenses, posts under    *)
(* way, texts and clicks.                                                  *)
(*                                                                         *)
(* Three arguments: what an entry of the cache is bound to hold goes       *)
(* through the answers still on their way; a text is posted again only     *)
(* after a failure, because a page that hears of its post keeps it from    *)
(* being repeated and the page that comes after it has lost the text; and  *)
(* a post that passed the look-up of its expense is marked by the deletion.*)
(*                                                                         *)
(* The last part is about SignIn, for any number of accounts and requests, *)
(* any freshness window and any cap of the login map. That a token brings  *)
(* one LOGIN_SUCCESS event is not inductive: the map forgets what it has   *)
(* recorded. It may, because an entry is never older than the token it     *)
(* stands for, so a token is no longer fresh once its entry is pruned.     *)
(*                                                                         *)
(* The two specifications share no variable and are not composed: each     *)
(* theorem is about one of them.                                           *)
(***************************************************************************)
EXTENDS CommentThread, SignIn, FiniteSetTheorems, TLAPS

-----------------------------------------------------------------------------
(* The invariant. *)

RowShape == [on : Expense, draft : Draft \cup {0}, late : BOOLEAN, overtaken : BOOLEAN]

\* Bags of numbers of rows.
Threads == UNION {[S -> Nat \ {0}] : S \in SUBSET Nat}

Snapshots == [data : SUBSET Threads, stale : BOOLEAN, failed : BOOLEAN]
Entries == [data : SUBSET Threads, fetch : {"idle", "asked", "answered"},
            answer : SUBSET Threads, before : Snapshots,
            stale : BOOLEAN, failed : BOOLEAN, late : BOOLEAN, missed : BOOLEAN]

Posts == [phase : {"sent", "found", "done", "failed"}, on : Expense, draft : Draft,
          heard : BOOLEAN, row : Nat, overtaken : BOOLEAN]
UnderWay(k) == post[k] # NoPost

\* What the variables hold.
TypeInv ==
    /\ live \in [Expense -> BOOLEAN] /\ rows \in Seq(RowShape)
    /\ thread \in [Expense -> Entries]
    /\ at \in Expense \cup {0} /\ draft \in Draft \cup {0} /\ typed \in Draft \cup {0}
    /\ post \in [Call -> Posts \cup {NoPost}]
    /\ errors \in [Draft -> Nat]

\* What is referred to is there.
ReferenceInv ==
    /\ at = 0 => draft = 0
    /\ told \subseteq DOMAIN rows /\ raced \subseteq DOMAIN rows
    /\ \A k \in Call : post[k].phase = "done" =>
          post[k].row \in DOMAIN rows /\ rows[post[k].row].on = post[k].on

\* An entry c holds rows of S only, and an answer when it was answered.
Sound(c, S) ==
    /\ \A d \in c.data \cup c.answer : DOMAIN d \subseteq S
    /\ c.fetch = "answered" => c.answer # {}

\* Row n is in the thread once, and will be when the answer on its way arrives.
Once(n, d) == n \in DOMAIN d /\ d[n] = 1
Whole(c, n) ==
    /\ c.data # {} /\ \A d \in c.data : Once(n, d)
    /\ c.fetch = "answered" => \A d \in c.answer : Once(n, d)

ThreadInv ==
    \A e \in Expense :
        /\ Sound(thread[e], On(e))
        /\ \A n \in told \ raced : rows[n].on = e => Whole(thread[e], n)

\* A text is with one post at most, one that is heard of if the text is still on
\* the page; and only one post is heard of.
PostInv ==
    /\ draft <= typed
    /\ \A n \in DOMAIN rows : rows[n].draft <= typed
    /\ \A k \in Call : UnderWay(k) =>
          post[k].draft <= typed /\ (post[k].draft = draft => post[k].heard)
    /\ \A k, l \in Call : UnderWay(k) /\ UnderWay(l) =>
          (post[k].draft = post[l].draft \/ (post[k].heard /\ post[l].heard) => k = l)

\* The rows of text d, the posts that will still insert one, and whether a click
\* may send it again.
RowsOf(d) == {n \in DOMAIN rows : rows[n].draft = d}
Coming(d) == \E k \in Call : post[k].phase \in {"sent", "found"} /\ post[k].draft = d
Sendable(d) == draft = d /\ \A k \in Call : UnderWay(k) => post[k].draft # d

\* One row more than the failures shown, less the one that may still come.
Afford(d) ==
    /\ IsFiniteSet(RowsOf(d))
    /\ Cardinality(RowsOf(d)) <= IF Coming(d) \/ Sendable(d) THEN errors[d] ELSE errors[d] + 1
BudgetInv == \A d \in Draft : Afford(d)

\* Who found an expense that is gone by now was overtaken by its deletion.
LateInv ==
    /\ \A k \in Call : post[k].phase = "found" => live[post[k].on] \/ post[k].overtaken
    /\ OnlyOvertakenAreLate

-----------------------------------------------------------------------------
(* Entries of the cache and bags. *)

\* What the library does with an entry is an entry.
LEMMA EntriesStay ==
    ASSUME NEW c \in Entries, NEW yes \in BOOLEAN
    PROVE  /\ Mount(c, yes) \in Entries /\ Invalidate(c, yes) \in Entries
           /\ Arrive(c) \in Entries /\ Fail(c) \in Entries
           /\ \A b \in Threads : Read(c, b, yes) \in Entries /\ Write(c, b) \in Entries
<1>1. NotAsked \in Snapshots
  BY DEF NotAsked, Snapshots
<1>2. \A x \in Entries : [data |-> x.data, stale |-> x.stale, failed |-> x.failed] \in Snapshots
  BY DEF Entries, Snapshots
<1>3. \A x \in Entries : Ask(x) \in Entries
  BY <1>2 DEF Ask, Entries, Loaded
<1>4. Mount(c, yes) \in Entries
  BY <1>3 DEF Mount
<1>5. Invalidate(c, yes) \in Entries
  <2>1. [c EXCEPT !.stale = TRUE] \in Entries
    BY DEF Entries
  <2>2. \A m \in Entries : [m EXCEPT !.late = @ \/ Fetching(c)] \in Entries
    BY DEF Entries, Fetching
  <2>3. QED
    BY <1>3, <2>1, <2>2 DEF Invalidate
<1>6. Arrive(c) \in Entries /\ Fail(c) \in Entries
  BY <1>1 DEF Arrive, Fail, Entries
<1>7. \A b \in Threads : Read(c, b, yes) \in Entries /\ Write(c, b) \in Entries
  BY DEF Read, Write, Entries
<1>8. QED
  BY <1>4, <1>5, <1>6, <1>7

\* A set of numbers as a bag.
LEMMA SetBags ==
    ASSUME NEW S \in SUBSET Nat
    PROVE  /\ SetToBag(S) \in Threads /\ DOMAIN SetToBag(S) = S
           /\ \A n \in S : Once(n, SetToBag(S))
           /\ EmptyBag \in Threads /\ DOMAIN EmptyBag = {}
<1>1. ASSUME NEW Q \in SUBSET Nat
      PROVE  SetToBag(Q) \in [Q -> Nat \ {0}]
  BY DEF SetToBag
<1>2. \A Q \in SUBSET Nat : SetToBag(Q) \in Threads
  BY <1>1 DEF Threads
<1>3. \A Q \in SUBSET Nat : DOMAIN SetToBag(Q) = Q
  BY DEF SetToBag
<1>4. \A n \in S : Once(n, SetToBag(S))
  BY DEF Once, SetToBag
<1>5. QED
  BY <1>2, <1>3, <1>4 DEF EmptyBag

\* A row added to a bag changes the copies of no other row.
LEMMA AddedRow ==
    ASSUME NEW d \in Threads, NEW m \in Nat
    PROVE  /\ d (+) SetToBag({m}) \in Threads
           /\ DOMAIN (d (+) SetToBag({m})) = DOMAIN d \cup {m}
           /\ \A n \in DOMAIN d \ {m} : (d (+) SetToBag({m}))[n] = d[n]
           /\ m \notin DOMAIN d => Once(m, d (+) SetToBag({m}))
<1> DEFINE one == SetToBag({m})
           sum == d (+) one
<1>1. one = [e \in {m} |-> 1]
  BY DEF SetToBag
<1>2. PICK S \in SUBSET Nat : d \in [S -> Nat \ {0}]
  BY DEF Threads
<1>3. DOMAIN d = S /\ DOMAIN one = {m} /\ one[m] = 1
  BY <1>1, <1>2
<1>4. sum = [e \in S \cup {m} |-> (IF e \in S THEN d[e] ELSE 0) + (IF e \in {m} THEN one[e] ELSE 0)]
  BY <1>3 DEF (+)
<1> HIDE DEF one, sum
<1>5. DOMAIN sum = S \cup {m}
  BY <1>4
<1>6. \A e \in S \ {m} : sum[e] = d[e]
  BY <1>2, <1>4
<1>7. sum[m] = (IF m \in S THEN d[m] ELSE 0) + 1
  BY <1>3, <1>4
<1>8. \A e \in S \cup {m} : sum[e] \in Nat \ {0}
  BY <1>2, <1>6, <1>7
<1>9. sum \in [S \cup {m} -> Nat \ {0}] /\ S \cup {m} \in SUBSET Nat
  BY <1>4, <1>5, <1>8
<1>10. sum \in Threads
  BY <1>9 DEF Threads
<1>11. m \notin S => Once(m, sum)
  BY <1>5, <1>7 DEF Once
<1>12. QED
  BY <1>3, <1>5, <1>6, <1>10, <1>11 DEF one, sum

\* Asking, marking, failing and arriving keep what an entry is bound to hold.
LEMMA EntriesKeepRows ==
    ASSUME NEW c \in Entries, NEW S, Sound(c, S), NEW yes \in BOOLEAN
    PROVE  /\ Sound(Mount(c, yes), S) /\ Sound(Invalidate(c, yes), S) /\ Sound(Fail(c), S)
           /\ c.fetch = "answered" => Sound(Arrive(c), S)
           /\ \A n : Whole(c, n) =>
                 /\ Whole(Mount(c, yes), n) /\ Whole(Invalidate(c, yes), n) /\ Whole(Fail(c), n)
                 /\ c.fetch = "answered" => Whole(Arrive(c), n)
<1>1. ASSUME NEW x \in Entries, x.data = c.data
      PROVE  /\ Ask(x).data = c.data /\ Ask(x).answer = {} /\ Ask(x).fetch = "asked"
             /\ Fail(x).data = c.data /\ Fail(x).answer = {} /\ Fail(x).fetch = "idle"
  BY <1>1 DEF Ask, Fail, Entries
<1>2. Arrive(c).data = c.answer /\ Arrive(c).answer = {} /\ Arrive(c).fetch = "idle"
  BY DEF Arrive, Entries
<1>3. \/ Mount(c, yes) = c
      \/ Mount(c, yes).data = c.data /\ Mount(c, yes).answer = {} /\ Mount(c, yes).fetch = "asked"
  BY <1>1 DEF Mount
<1>4. \/ /\ Invalidate(c, yes).data = c.data /\ Invalidate(c, yes).answer = {}
         /\ Invalidate(c, yes).fetch = "asked"
      \/ /\ Invalidate(c, yes).data = c.data /\ Invalidate(c, yes).answer = c.answer
         /\ Invalidate(c, yes).fetch = c.fetch
  <2>1. [c EXCEPT !.stale = TRUE] \in Entries /\ [c EXCEPT !.stale = TRUE].data = c.data
        /\ [c EXCEPT !.stale = TRUE].answer = c.answer /\ [c EXCEPT !.stale = TRUE].fetch = c.fetch
    BY DEF Entries
  <2>2. \A x \in Entries, y \in BOOLEAN :
            /\ [x EXCEPT !.late = @ \/ y].data = x.data
            /\ [x EXCEPT !.late = @ \/ y].answer = x.answer
            /\ [x EXCEPT !.late = @ \/ y].fetch = x.fetch
    BY DEF Entries
  <2>3. Fetching(c) \in BOOLEAN
    BY DEF Fetching
  <2>4. QED
    BY <1>1, <2>1, <2>2, <2>3 DEF Invalidate
<1>5. QED
  BY <1>1, <1>2, <1>3, <1>4 DEF Sound, Whole

-----------------------------------------------------------------------------
(* Types. *)

LEMMA TypesBegin == Init => TypeInv
<1> SUFFICES ASSUME Init PROVE TypeInv
  OBVIOUS
<1>1. Empty \in Entries
  <2>1. NotAsked \in Snapshots
    BY DEF NotAsked, Snapshots
  <2>2. QED
    BY <2>1 DEF Empty, Entries
<1>2. rows \in Seq(RowShape)
  <2>1. \A e \in Expense : Theirs(e) \in RowShape
    BY DEF Theirs, RowShape
  <2>2. CASE rows = <<>>
    BY <2>2
  <2>3. ASSUME NEW e \in Expense, rows = <<Theirs(e)>>
        PROVE  rows \in Seq(RowShape)
    BY <2>1, <2>3
  <2>4. QED
    BY <2>2, <2>3 DEF Init
<1>3. QED
  BY <1>1, <1>2 DEF Init, TypeInv

\* Posts whose page is gone.
LEMMA UnheardKeepTypes ==
    ASSUME TypeInv
    PROVE  Unheard \in [Call -> Posts \cup {NoPost}]
<1>1. \A p \in Posts : [p EXCEPT !.heard = FALSE] \in Posts
  BY DEF Posts
<1>2. QED
  BY <1>1 DEF Unheard, TypeInv

\* Requests for a thread.
LEMMA RequestsKeepTypes ==
    ASSUME TypeInv, NEW e \in Expense,
           \/ Open(e) \/ Touch(e) \/ LookUp(e) \/ SelectRows(e) \/ Answer(e) \/ AnswerLost(e)
           \/ Reconnect
    PROVE  TypeInv'
<1>1. thread[e] \in Entries /\ (at = e) \in BOOLEAN
  BY DEF TypeInv
<1>2. On(e) \in SUBSET Nat
  BY DEF On, TypeInv
<1>3. thread' \in [Expense -> Entries]
  <2>1. \A x \in Expense, c \in Entries : [thread EXCEPT ![x] = c] \in [Expense -> Entries]
    BY DEF TypeInv
  <2>2. CASE Open(e)
    BY <1>1, <2>1, <2>2, EntriesStay DEF Open
  <2>3. CASE Touch(e)
    BY <1>1, <2>1, <2>3, EntriesStay DEF Touch
  <2>4. CASE LookUp(e)
    BY <1>1, <1>2, <2>1, <2>4, EntriesStay, SetBags DEF LookUp
  <2>5. CASE SelectRows(e)
    BY <1>1, <1>2, <2>1, <2>5, EntriesStay, SetBags DEF SelectRows
  <2>6. CASE Answer(e)
    BY <1>1, <2>1, <2>6, EntriesStay DEF Answer
  <2>7. CASE AnswerLost(e)
    BY <1>1, <2>1, <2>7, EntriesStay DEF AnswerLost
  <2>8. CASE Reconnect
    BY <2>1, <2>8, EntriesStay DEF Reconnect, TypeInv
  <2>9. QED
    BY <2>2, <2>3, <2>4, <2>5, <2>6, <2>7, <2>8
<1>4. at' \in Expense \cup {0} /\ draft' \in Draft \cup {0}
      /\ UNCHANGED <<server, typed, errors>>
  BY DEF TypeInv, Open, Touch, LookUp, SelectRows, Answer, AnswerLost, Reconnect, page, server
<1>5. post' \in [Call -> Posts \cup {NoPost}]
  <2>1. post' = post \/ post' = Unheard
    BY DEF Open, Touch, LookUp, SelectRows, Answer, AnswerLost, Reconnect
  <2>2. QED
    BY <2>1, UnheardKeepTypes DEF TypeInv
<1>6. QED
  BY <1>3, <1>4, <1>5 DEF TypeInv, server

\* What others do.
LEMMA OthersKeepTypes ==
    ASSUME TypeInv, NEW e \in Expense, CommentElsewhere(e) \/ DeleteElsewhere(e)
    PROVE  TypeInv'
<1>1. CASE CommentElsewhere(e)
  <2>1. Theirs(e) \in RowShape
    BY DEF Theirs, RowShape
  <2>2. QED
    BY <1>1, <2>1 DEF CommentElsewhere, TypeInv, page
<1>2. CASE DeleteElsewhere(e)
  <2>1. \A p \in Posts : [p EXCEPT !.overtaken = TRUE] \in Posts
    BY DEF Posts
  <2>2. post' \in [Call -> Posts \cup {NoPost}]
    BY <1>2, <2>1 DEF DeleteElsewhere, TypeInv
  <2>3. QED
    BY <1>2, <2>2 DEF DeleteElsewhere, TypeInv, page
<1>3. QED
  BY <1>1, <1>2

\* A post under way.
LEMMA PostsKeepTypes ==
    ASSUME TypeInv, NEW k \in Call,
           \/ PostComment(k) \/ Find(k) \/ Insert(k) \/ PostFails(k) \/ Posted(k) \/ NotPosted(k)
    PROVE  TypeInv'
<1>1. post[k] \in Posts \cup {NoPost}
  BY DEF TypeInv
<1>2. NoPost.phase = "none"
  BY DEF NoPost
<1>3. CASE PostComment(k)
  <2>1. [phase |-> "sent", on |-> at, draft |-> draft, heard |-> TRUE, row |-> 0,
         overtaken |-> FALSE] \in Posts
    BY <1>3 DEF PostComment, Posts, TypeInv
  <2>2. QED
    BY <1>3, <2>1 DEF PostComment, TypeInv, server, page
<1>4. CASE Find(k) \/ PostFails(k)
  <2>1. post[k] \in Posts
    BY <1>1, <1>2, <1>4 DEF Find, PostFails
  <2>2. [post[k] EXCEPT !.phase = "found"] \in Posts /\ [post[k] EXCEPT !.phase = "failed"] \in Posts
    BY <2>1 DEF Posts
  <2>3. QED
    BY <1>4, <2>2 DEF Find, PostFails, TypeInv, server, page
<1>5. CASE Insert(k)
  <2>1. post[k] \in Posts
    BY <1>1, <1>2, <1>5 DEF Insert
  <2>2. [on |-> post[k].on, draft |-> post[k].draft, late |-> ~live[post[k].on],
         overtaken |-> post[k].overtaken] \in RowShape
    BY <2>1 DEF Posts, RowShape, TypeInv
  <2>3. Len(rows) + 1 \in Nat
    BY DEF TypeInv
  <2>4. [post[k] EXCEPT !.phase = "done", !.row = Len(rows) + 1] \in Posts
    BY <2>1, <2>3 DEF Posts
  <2>5. rows' \in Seq(RowShape)
    BY <1>5, <2>2 DEF Insert, TypeInv
  <2>6. QED
    BY <1>5, <2>4, <2>5 DEF Insert, TypeInv, page
<1>6. CASE Posted(k)
  <2>1. post[k] \in Posts
    BY <1>1, <1>2, <1>6 DEF Posted
  <2>2. post[k].on \in Expense /\ post[k].row \in Nat /\ thread[post[k].on] \in Entries
    BY <2>1 DEF Posts, TypeInv
  <2>3. Appended(thread[post[k].on], post[k].row) \in Entries
    <3>1. SetToBag({post[k].row}) \in Threads
      BY <2>2, SetBags
    <3>2. Loaded(thread[post[k].on]) =>
             Shown(thread[post[k].on]) (+) SetToBag({post[k].row}) \in Threads
      <4>1. thread[post[k].on].data \subseteq Threads
        BY <2>2 DEF Entries
      <4>2. QED
        BY <2>2, <4>1, AddedRow DEF Loaded, Shown
    <3>3. QED
      BY <2>2, <3>1, <3>2, EntriesStay DEF Appended
  <2>4. thread' \in [Expense -> Entries]
    BY <1>6, <2>3 DEF Posted, TypeInv
  <2>5. QED
    BY <1>6, <2>4 DEF Posted, Cleared, TypeInv, server
<1>7. CASE NotPosted(k)
  <2>1. post[k] \in Posts
    BY <1>1, <1>2, <1>7 DEF NotPosted
  <2>2. post[k].draft \in Draft /\ errors[post[k].draft] + 1 \in Nat
    BY <2>1 DEF Posts, TypeInv
  <2>3. errors' \in [Draft -> Nat]
    BY <1>7, <2>2 DEF NotPosted, TypeInv
  <2>4. QED
    BY <1>7, <2>3 DEF NotPosted, TypeInv, server, page
<1>8. QED
  BY <1>3, <1>4, <1>5, <1>6, <1>7

-----------------------------------------------------------------------------
(* What is referred to is there. *)

\* What asks for a thread on the same page leaves rows, posts and draft alone.
Asks(e) == \/ Touch(e) \/ LookUp(e) \/ SelectRows(e) \/ Answer(e) \/ AnswerLost(e)
           \/ Reconnect

\* A page goes, with its draft and its interest in its posts; another may come.
Goes == Leave \/ \E e \in Expense : Open(e)

LEMMA AskingOnly ==
    ASSUME NEW e \in Expense, Asks(e)
    PROVE  /\ UNCHANGED <<live, rows, typed, post, told, errors, raced>>
           /\ UNCHANGED <<at, draft>>
BY DEF Asks, Touch, LookUp, SelectRows, Answer, AnswerLost, Reconnect, server, page

LEMMA GoingOnly ==
    ASSUME Goes
    PROVE  /\ UNCHANGED <<live, rows, typed, told, errors, raced>>
           /\ draft' = 0 /\ post' = Unheard
BY DEF Goes, Leave, Open, server

\* A post under way, and what may be said of it from its phase.
LEMMA PostFacts ==
    ASSUME TypeInv, NEW k \in Call
    PROVE  /\ post[k] \in Posts \cup {NoPost}
           /\ UnderWay(k) <=> post[k] \in Posts
           /\ UnderWay(k) <=> post[k].phase \in {"sent", "found", "done", "failed"}
           /\ UnderWay(k) =>
                 /\ post[k].on \in Expense /\ post[k].draft \in Draft /\ post[k].row \in Nat
                 /\ post[k].draft # 0 /\ post[k].heard \in BOOLEAN
BY DEF TypeInv, UnderWay, Posts, NoPost, Draft

\* A page that goes leaves its posts to go on unheard.
LEMMA UnheardPosts ==
    ASSUME TypeInv, Goes, NEW k \in Call
    PROVE  /\ UnderWay(k)' = UnderWay(k) /\ post'[k].phase = post[k].phase
           /\ UnderWay(k) => /\ post'[k].on = post[k].on /\ post'[k].draft = post[k].draft
                             /\ post'[k].row = post[k].row /\ ~post'[k].heard
                             /\ post'[k].overtaken = post[k].overtaken
<1>1. NoPost \notin Posts
  BY DEF NoPost, Posts
<1>2. CASE post[k] = NoPost
  BY <1>2, GoingOnly DEF Unheard, UnderWay
<1>3. CASE post[k] \in Posts
  <2>1. post'[k] = [post[k] EXCEPT !.heard = FALSE]
    BY <1>1, <1>3, GoingOnly DEF Unheard
  <2>2. QED
    BY <1>1, <1>3, <2>1 DEF Posts, UnderWay, NoPost
<1>4. QED
  BY <1>2, <1>3 DEF TypeInv

\* An expense that goes only marks its posts.
LEMMA OvertakenPosts ==
    ASSUME TypeInv, NEW e \in Expense, DeleteElsewhere(e), NEW k \in Call
    PROVE  /\ UnderWay(k)' = UnderWay(k) /\ post'[k].phase = post[k].phase
           /\ UnderWay(k) => /\ post'[k].on = post[k].on /\ post'[k].draft = post[k].draft
                             /\ post'[k].row = post[k].row /\ post'[k].heard = post[k].heard
                             /\ post'[k].overtaken = (post[k].overtaken \/ post[k].on = e)
<1>1. NoPost \notin Posts
  BY DEF NoPost, Posts
<1>2. CASE post[k] = NoPost
  BY <1>2 DEF DeleteElsewhere, UnderWay
<1>3. CASE post[k] \in Posts
  <2>1. post'[k] = IF post[k].on = e THEN [post[k] EXCEPT !.overtaken = TRUE] ELSE post[k]
    BY <1>1, <1>3 DEF DeleteElsewhere
  <2>2. QED
    BY <1>1, <1>3, <2>1 DEF Posts, UnderWay, NoPost
<1>4. QED
  BY <1>2, <1>3 DEF TypeInv

LEMMA ReferencesBegin == Init => ReferenceInv
BY DEF Init, ReferenceInv, NoPost

\* References only grow, and rows stay.
LEMMA ReferencesStay ==
    ASSUME TypeInv, ReferenceInv, [Next]_vars
    PROVE  ReferenceInv'
<1>1. ASSUME NEW e \in Expense, Asks(e)
      PROVE  ReferenceInv'
  BY <1>1, AskingOnly DEF ReferenceInv
<1>2. CASE Goes
  <2>1. \A k \in Call : post'[k].phase = "done" =>
           post[k].phase = "done" /\ post'[k].row = post[k].row /\ post'[k].on = post[k].on
    BY <1>2, UnheardPosts, PostFacts
  <2>2. QED
    BY <1>2, <2>1, GoingOnly DEF ReferenceInv
<1>3. CASE Type
  BY <1>3 DEF Type, ReferenceInv, server
<1>4. ASSUME NEW e \in Expense, DeleteElsewhere(e)
      PROVE  ReferenceInv'
  <2>1. \A k \in Call : post'[k].phase = "done" =>
           post[k].phase = "done" /\ post'[k].row = post[k].row /\ post'[k].on = post[k].on
    BY <1>4, OvertakenPosts, PostFacts
  <2>2. QED
    BY <1>4, <2>1 DEF ReferenceInv, DeleteElsewhere, page
<1>5. ASSUME NEW e \in Expense, CommentElsewhere(e)
      PROVE  ReferenceInv'
  <2>1. DOMAIN rows \subseteq DOMAIN rows' /\ \A n \in DOMAIN rows : rows'[n] = rows[n]
    BY <1>5 DEF CommentElsewhere, TypeInv
  <2>2. QED
    BY <1>5, <2>1 DEF CommentElsewhere, ReferenceInv, page
<1>6. ASSUME NEW k \in Call, PostComment(k) \/ Find(k) \/ PostFails(k) \/ NotPosted(k)
      PROVE  ReferenceInv'
  <2>1. post'[k].phase # "done"
    BY <1>6, PostFacts DEF PostComment, Find, PostFails, NotPosted, TypeInv, Posts, NoPost
  <2>2. \A l \in Call \ {k} : post'[l] = post[l]
    BY <1>6 DEF PostComment, Find, PostFails, NotPosted, TypeInv
  <2>3. UNCHANGED <<at, draft, told, raced, rows>>
    BY <1>6 DEF PostComment, Find, PostFails, NotPosted, page, server
  <2>4. QED
    BY <2>1, <2>2, <2>3 DEF ReferenceInv
<1>7. ASSUME NEW k \in Call, Insert(k)
      PROVE  ReferenceInv'
  <2>1. post[k] \in Posts /\ post[k].on \in Expense
    BY <1>7, PostFacts DEF Insert
  <2>2. /\ DOMAIN rows \subseteq DOMAIN rows' /\ \A n \in DOMAIN rows : rows'[n] = rows[n]
        /\ Len(rows) + 1 \in DOMAIN rows' /\ rows'[Len(rows) + 1].on = post[k].on
    BY <1>7 DEF Insert, TypeInv
  <2>3. post'[k].row = Len(rows) + 1 /\ post'[k].on = post[k].on
    BY <1>7, <2>1 DEF Insert, TypeInv, Posts
  <2>4. \A l \in Call \ {k} : post'[l] = post[l]
    BY <1>7 DEF Insert, TypeInv
  <2>5. \A l \in Call : post'[l].phase = "done" =>
           post'[l].row \in DOMAIN rows' /\ rows'[post'[l].row].on = post'[l].on
    BY <2>2, <2>3, <2>4 DEF ReferenceInv
  <2>6. UNCHANGED <<at, draft, told, raced>>
    BY <1>7 DEF Insert, page
  <2>7. QED
    BY <2>2, <2>5, <2>6 DEF ReferenceInv
<1>8. ASSUME NEW k \in Call, Posted(k)
      PROVE  ReferenceInv'
  <2>1. post[k].row \in DOMAIN rows
    BY <1>8 DEF Posted, ReferenceInv
  <2>2. \A l \in Call : post'[l].phase = "done" => post'[l] = post[l]
    BY <1>8 DEF Posted, TypeInv, NoPost
  <2>3. QED
    BY <1>8, <2>1, <2>2 DEF ReferenceInv, Posted, Cleared, server
<1>9. CASE UNCHANGED vars
  BY <1>9 DEF vars, ReferenceInv
<1>10. CASE Reconnect
  <2>1. at \in Expense
    BY <1>10 DEF Reconnect, TypeInv
  <2>2. QED
    BY <1>1, <1>10, <2>1 DEF Asks
<1>11. QED
  BY <1>1, <1>2, <1>3, <1>4, <1>5, <1>6, <1>7, <1>8, <1>9, <1>10 DEF Next, Asks, Goes

-----------------------------------------------------------------------------
(* Threads. *)

LEMMA ThreadsBegin == Init => ThreadInv
BY DEF Init, ThreadInv, Empty, Sound

\* Rows are added to a thread's table, and none is taken away.
LEMMA RowsOnGrow ==
    ASSUME DOMAIN rows \subseteq DOMAIN rows', \A n \in DOMAIN rows : rows'[n] = rows[n],
           NEW e \in Expense
    PROVE  On(e) \subseteq On(e)'
BY DEF On

\* What was sound for fewer rows is for more.
LEMMA SoundForMore ==
    ASSUME NEW c, NEW S, NEW R, S \subseteq R, Sound(c, S)
    PROVE  Sound(c, R)
BY DEF Sound

\* A request for a thread, whatever becomes of it.
LEMMA AskingKeepsThreads ==
    ASSUME TypeInv, ReferenceInv, ThreadInv, NEW e \in Expense, Asks(e) \/ Open(e),
           NEW x \in Expense
    PROVE  /\ Sound(thread'[x], On(x))
           /\ \A n \in told \ raced : rows[n].on = x => Whole(thread'[x], n)
<1> DEFINE c == thread[x]
<1>1. c \in Entries /\ Sound(c, On(x)) /\ \A n \in told \ raced : rows[n].on = x => Whole(c, n)
  BY DEF TypeInv, ThreadInv
<1>2. CASE thread'[x] = c
  BY <1>1, <1>2
<1>3. ASSUME NEW yes \in BOOLEAN,
             \/ thread'[x] = Mount(c, yes) \/ thread'[x] = Invalidate(c, yes)
             \/ thread'[x] = Fail(c) \/ (c.fetch = "answered" /\ thread'[x] = Arrive(c))
      PROVE  /\ Sound(thread'[x], On(x))
             /\ \A n \in told \ raced : rows[n].on = x => Whole(thread'[x], n)
  <2> HIDE DEF c
  <2>1. QED
    BY <1>1, <1>3, EntriesKeepRows
<1>4. CASE thread'[x] = Read(c, EmptyBag, FALSE)
  <2>1. /\ thread'[x].data = c.data /\ thread'[x].fetch = "asked"
        /\ thread'[x].answer = {EmptyBag}
    BY <1>1, <1>4 DEF Read, Entries
  <2>2. DOMAIN EmptyBag = {}
    BY SetBags
  <2>3. QED
    BY <1>1, <2>1, <2>2 DEF Sound, Whole
<1>5. CASE thread'[x] = Read(c, SetToBag(On(x)), TRUE)
  <2>1. /\ thread'[x].data = c.data /\ thread'[x].fetch = "answered"
        /\ thread'[x].answer = {SetToBag(On(x))}
    BY <1>1, <1>5 DEF Read, Entries
  <2>2. On(x) \in SUBSET Nat
    BY DEF On, TypeInv
  <2>3. DOMAIN SetToBag(On(x)) = On(x) /\ \A n \in On(x) : Once(n, SetToBag(On(x)))
    BY <2>2, SetBags
  <2>4. \A n \in told : rows[n].on = x => n \in On(x)
    BY DEF On, ReferenceInv
  <2>5. QED
    BY <1>1, <2>1, <2>3, <2>4 DEF Sound, Whole
<1>6. CASE Open(e) \/ Touch(e) \/ Answer(e) \/ AnswerLost(e) \/ Reconnect
  <2>1. \/ thread'[x] = c
        \/ \E yes \in BOOLEAN : thread'[x] = Mount(c, yes) \/ thread'[x] = Invalidate(c, yes)
        \/ thread'[x] = Fail(c)
        \/ c.fetch = "answered" /\ thread'[x] = Arrive(c)
    <3>1. CASE Open(e)
      BY <3>1 DEF Open, TypeInv
    <3>2. CASE Touch(e)
      <4>1. (at = e) \in BOOLEAN
        OBVIOUS
      <4>2. thread'[x] = c \/ thread'[x] = Invalidate(c, at = e)
        BY <3>2 DEF Touch, TypeInv
      <4>3. QED
        BY <4>1, <4>2
    <3>3. CASE Answer(e)
      BY <3>3 DEF Answer, TypeInv
    <3>4. CASE AnswerLost(e)
      BY <3>4 DEF AnswerLost, TypeInv
    <3>5. CASE Reconnect
      <4>1. thread'[x] = c \/ thread'[x] = Mount(c, TRUE)
        BY <3>5 DEF Reconnect, TypeInv
      <4>2. QED
        BY <4>1
    <3>6. QED
      BY <1>6, <3>1, <3>2, <3>3, <3>4, <3>5
  <2>2. \E yes \in BOOLEAN : TRUE
    OBVIOUS
  <2> HIDE DEF c
  <2>3. QED
    BY <1>2, <1>3, <2>1, <2>2
<1>7. CASE LookUp(e)
  <2>1. thread'[x] = c \/ thread'[x] = Read(c, EmptyBag, FALSE)
    BY <1>7 DEF LookUp, TypeInv
  <2>2. QED
    BY <1>2, <1>4, <2>1
<1>8. CASE SelectRows(e)
  <2>1. thread'[x] = c \/ thread'[x] = Read(c, SetToBag(On(x)), TRUE)
    BY <1>8 DEF SelectRows, TypeInv
  <2>2. QED
    BY <1>2, <1>5, <2>1
<1>9. QED
  BY <1>6, <1>7, <1>8 DEF Asks

\* An answer to a post adds its row once, unless a request raced it.
LEMMA PostedKeepsThreads ==
    ASSUME TypeInv, ReferenceInv, ThreadInv, NEW k \in Call, Posted(k)
    PROVE  ThreadInv'
<1> DEFINE p == post[k]
           m == post[k].row
           x == post[k].on
           c == thread[x]
           held == IF Loaded(c) THEN Shown(c) (+) SetToBag({m}) ELSE SetToBag({m})
<1>1. x \in Expense /\ m \in Nat /\ m \in DOMAIN rows /\ rows[m].on = x
  BY PostFacts DEF Posted, ReferenceInv
<1>2. c \in Entries /\ Sound(c, On(x)) /\ \A n \in told \ raced : rows[n].on = x => Whole(c, n)
  BY <1>1 DEF TypeInv, ThreadInv
<1>3. thread'[x] = Write(c, held) /\ \A e \in Expense \ {x} : thread'[e] = thread[e]
  BY <1>1 DEF Posted, Appended, TypeInv
<1>4. told' = told \cup {m} /\ rows' = rows
      /\ raced' = IF Overtaken(p) THEN raced \cup {m} ELSE raced
  BY DEF Posted, server
<1>5. \A e \in Expense : On(e)' = On(e)
  BY <1>4 DEF On
<1>6. Overtaken(p) <=> (c.fetch # "idle" \/ \E d \in c.data : m \in DOMAIN d)
  BY DEF Overtaken, Fetching, BagIn, BagToSet
<1>7. /\ thread'[x].data = {held} /\ thread'[x].fetch = c.fetch /\ thread'[x].answer = c.answer
  BY <1>2, <1>3 DEF Write, Entries
<1>8. /\ DOMAIN SetToBag({m}) = {m} /\ Once(m, SetToBag({m}))
  BY <1>1, SetBags
<1>9. Loaded(c) => Shown(c) \in c.data /\ Shown(c) \in Threads
  BY <1>2 DEF Loaded, Shown, Entries
<1>10. m \in On(x)
  BY <1>1 DEF On
<1>11. DOMAIN held \subseteq On(x)
  <2>1. CASE Loaded(c)
    <3>1. DOMAIN Shown(c) \subseteq On(x)
      BY <1>2, <1>9, <2>1 DEF Sound
    <3>2. DOMAIN (Shown(c) (+) SetToBag({m})) = DOMAIN Shown(c) \cup {m}
      BY <1>1, <1>9, <2>1, AddedRow
    <3>3. QED
      BY <1>10, <2>1, <3>1, <3>2
  <2>2. CASE ~Loaded(c)
    BY <1>8, <1>10, <2>2
  <2>3. QED
    BY <2>1, <2>2
<1>12. Sound(thread'[x], On(x))
  BY <1>2, <1>7, <1>11 DEF Sound
<1>13. ASSUME NEW n \in told' \ raced', rows[n].on = x
       PROVE  Whole(thread'[x], n)
  <2>1. CASE n = m
    <3>1. c.fetch = "idle" /\ \A d \in c.data : m \notin DOMAIN d
      BY <1>4, <1>6, <1>13, <2>1
    <3>2. Once(m, held)
      <4>1. CASE Loaded(c)
        <5>1. Once(m, Shown(c) (+) SetToBag({m}))
          BY <1>1, <1>9, <3>1, <4>1, AddedRow
        <5>2. QED
          BY <4>1, <5>1
      <4>2. CASE ~Loaded(c)
        BY <1>8, <4>2
      <4>3. QED
        BY <4>1, <4>2
    <3>3. QED
      BY <1>7, <2>1, <3>1, <3>2 DEF Whole
  <2>2. CASE n # m
    <3>1. n \in told \ raced
      BY <1>4, <1>13, <2>2
    <3>2. Whole(c, n)
      BY <1>2, <1>13, <3>1
    <3>3. Loaded(c) /\ Once(n, Shown(c))
      BY <1>9, <3>2 DEF Whole, Loaded
    <3>4. Once(n, Shown(c) (+) SetToBag({m}))
      <4>1. n \in DOMAIN Shown(c) \ {m} /\ Shown(c)[n] = 1
        BY <2>2, <3>3 DEF Once
      <4>2. DOMAIN (Shown(c) (+) SetToBag({m})) = DOMAIN Shown(c) \cup {m}
        BY <1>1, <1>9, <3>3, AddedRow
      <4>3. (Shown(c) (+) SetToBag({m}))[n] = Shown(c)[n]
        BY <1>1, <1>9, <3>3, <4>1, AddedRow
      <4>4. QED
        BY <4>1, <4>2, <4>3 DEF Once
    <3>5. Once(n, held)
      BY <3>3, <3>4
    <3>6. QED
      BY <1>7, <3>2, <3>5 DEF Whole
  <2>3. QED
    BY <2>1, <2>2
<1>14. ASSUME NEW e \in Expense \ {x}
       PROVE  /\ Sound(thread'[e], On(e))
              /\ \A n \in told' \ raced' : rows[n].on = e => Whole(thread'[e], n)
  <2>1. \A n \in told' \ raced' : rows[n].on = e => n \in told \ raced
    BY <1>1, <1>4
  <2>2. QED
    BY <1>3, <2>1 DEF ThreadInv
<1>15. QED
  BY <1>4, <1>5, <1>12, <1>13, <1>14 DEF ThreadInv

\* A thread stays sound and whole.
LEMMA ThreadsStay ==
    ASSUME TypeInv, ReferenceInv, ThreadInv, [Next]_vars
    PROVE  ThreadInv'
<1>1. ASSUME NEW e \in Expense, Asks(e) \/ Open(e)
      PROVE  ThreadInv'
  <2>1. UNCHANGED <<rows, told, raced>>
    BY <1>1, AskingOnly, GoingOnly DEF Goes
  <2>2. \A x \in Expense : On(x)' = On(x)
    BY <2>1 DEF On
  <2>3. QED
    BY <1>1, <2>1, <2>2, AskingKeepsThreads DEF ThreadInv
<1>2. ASSUME UNCHANGED <<thread, told, raced, rows>>
      PROVE  ThreadInv'
  <2>1. \A x \in Expense : On(x)' = On(x)
    BY <1>2 DEF On
  <2>2. QED
    BY <1>2, <2>1 DEF ThreadInv
<1>3. ASSUME UNCHANGED <<thread, told, raced>>, NEW r \in RowShape, rows' = Append(rows, r)
      PROVE  ThreadInv'
  <2>1. DOMAIN rows \subseteq DOMAIN rows' /\ \A n \in DOMAIN rows : rows'[n] = rows[n]
    BY <1>3 DEF TypeInv
  <2>2. \A x \in Expense : Sound(thread[x], On(x)')
    BY <2>1, RowsOnGrow, SoundForMore DEF ThreadInv
  <2>3. \A n \in told : rows'[n] = rows[n]
    BY <2>1 DEF ReferenceInv
  <2>4. QED
    BY <1>3, <2>2, <2>3 DEF ThreadInv
<1>4. ASSUME NEW e \in Expense, CommentElsewhere(e)
      PROVE  ThreadInv'
  <2>1. Theirs(e) \in RowShape
    BY DEF Theirs, RowShape
  <2>2. QED
    BY <1>3, <1>4, <2>1 DEF CommentElsewhere
<1>5. ASSUME NEW k \in Call, Insert(k)
      PROVE  ThreadInv'
  <2>1. post[k] \in Posts
    BY <1>5, PostFacts DEF Insert
  <2>2. [on |-> post[k].on, draft |-> post[k].draft, late |-> ~live[post[k].on],
         overtaken |-> post[k].overtaken] \in RowShape
    BY <2>1 DEF Posts, RowShape, TypeInv
  <2>3. QED
    BY <1>3, <1>5, <2>2 DEF Insert
<1>6. CASE Leave \/ Type
  BY <1>2, <1>6 DEF Leave, Type, server
<1>7. ASSUME NEW e \in Expense, DeleteElsewhere(e)
      PROVE  ThreadInv'
  BY <1>2, <1>7 DEF DeleteElsewhere
<1>8. ASSUME NEW k \in Call, PostComment(k) \/ Find(k) \/ PostFails(k) \/ NotPosted(k)
      PROVE  ThreadInv'
  BY <1>2, <1>8 DEF PostComment, Find, PostFails, NotPosted, server
<1>9. CASE UNCHANGED vars
  BY <1>2, <1>9 DEF vars
<1>10. CASE Reconnect
  <2>1. at \in Expense
    BY <1>10 DEF Reconnect, TypeInv
  <2>2. QED
    BY <1>1, <1>10, <2>1 DEF Asks
<1>11. QED
  BY <1>1, <1>4, <1>5, <1>6, <1>7, <1>8, <1>9, <1>10, PostedKeepsThreads DEF Next, Asks

-----------------------------------------------------------------------------
(* Posts and their texts. *)

LEMMA PostsBegin == Init => PostInv
<1> SUFFICES ASSUME Init PROVE PostInv
  OBVIOUS
<1>1. \A n \in DOMAIN rows : rows[n].draft = 0
  BY DEF Init, Theirs
<1>2. \A k \in Call : ~UnderWay(k)
  BY DEF Init, UnderWay
<1>3. draft = 0 /\ typed = 0
  BY DEF Init
<1>4. QED
  BY <1>1, <1>2, <1>3 DEF PostInv

\* One post of a text at a time.
LEMMA PostsStay ==
    ASSUME TypeInv, PostInv, [Next]_vars
    PROVE  PostInv'
<1>1. typed \in Nat /\ draft \in Nat /\ \A n \in DOMAIN rows : rows[n].draft \in Nat
  <2>1. \A n \in DOMAIN rows : rows[n] \in RowShape
    BY DEF TypeInv
  <2>2. \A r \in RowShape : r.draft \in Nat
    BY ThreadAssumption DEF RowShape, Draft
  <2>3. typed \in Nat /\ draft \in Nat
    BY ThreadAssumption DEF TypeInv, Draft
  <2>4. QED
    BY <2>1, <2>2, <2>3
<1>2. ASSUME NEW e \in Expense, Asks(e)
      PROVE  PostInv'
  <2>1. UNCHANGED <<rows, typed, post, draft>>
    BY <1>2, AskingOnly
  <2>2. \A k \in Call : UnderWay(k)' = UnderWay(k) /\ (UnderWay(k) => post[k].draft # 0)
    BY <2>1, PostFacts DEF UnderWay
  <2>3. QED
    BY <1>1, <2>1, <2>2 DEF PostInv
<1>3. CASE Goes
  <2>1. UNCHANGED <<rows, typed>> /\ draft' = 0
    BY <1>3, GoingOnly
  <2>2. \A k \in Call : /\ UnderWay(k)' = UnderWay(k)
                        /\ UnderWay(k) => /\ post'[k].draft = post[k].draft /\ ~post'[k].heard
                                          /\ post[k].draft # 0
    BY <1>3, UnheardPosts, PostFacts
  <2>3. QED
    BY <1>1, <2>1, <2>2 DEF PostInv
<1>4. CASE Type
  <2>1. UNCHANGED <<rows, post>> /\ typed' = typed + 1 /\ draft' = typed + 1
    BY <1>4 DEF Type, server
  <2>2. \A k \in Call : UnderWay(k)' = UnderWay(k)
    BY <2>1 DEF UnderWay
  <2>3. \A k \in Call : UnderWay(k) => post[k].draft \in Nat
    BY ThreadAssumption, PostFacts DEF Draft
  <2>4. QED
    BY <1>1, <2>1, <2>2, <2>3 DEF PostInv
<1>5. ASSUME NEW e \in Expense, DeleteElsewhere(e)
      PROVE  PostInv'
  <2>1. UNCHANGED <<rows, typed, draft>>
    BY <1>5 DEF DeleteElsewhere, page
  <2>2. \A k \in Call : /\ UnderWay(k)' = UnderWay(k)
                        /\ UnderWay(k) => /\ post'[k].draft = post[k].draft
                                          /\ post'[k].heard = post[k].heard
    BY <1>5, OvertakenPosts
  <2>3. QED
    BY <2>1, <2>2 DEF PostInv
<1>6. ASSUME NEW e \in Expense, CommentElsewhere(e)
      PROVE  PostInv'
  <2>1. UNCHANGED <<typed, draft, post>>
    BY <1>6 DEF CommentElsewhere, page
  <2>2. \A n \in DOMAIN rows' : rows'[n].draft = 0 \/ (n \in DOMAIN rows /\ rows'[n] = rows[n])
    BY <1>6 DEF CommentElsewhere, Theirs, TypeInv
  <2>3. \A k \in Call : UnderWay(k)' = UnderWay(k)
    BY <2>1 DEF UnderWay
  <2>4. QED
    BY <1>1, <2>1, <2>2, <2>3 DEF PostInv
<1>7. ASSUME NEW k \in Call, PostComment(k)
      PROVE  PostInv'
  <2>1. UNCHANGED <<rows, draft, typed>> /\ draft # 0
    BY <1>7 DEF PostComment, server, page
  <2>2. /\ \A l \in Call \ {k} : post'[l] = post[l]
        /\ post'[k].draft = draft /\ post'[k].heard
    BY <1>7 DEF PostComment, TypeInv
  <2>3. \A l \in Call \ {k} : UnderWay(l)' = UnderWay(l)
    BY <2>2 DEF UnderWay
  <2>4. \A l \in Call : UnderWay(l) => ~post[l].heard /\ post[l].draft # draft
    BY <1>7 DEF PostComment, Pending, UnderWay, PostInv
  <2>5. QED
    BY <2>1, <2>2, <2>3, <2>4 DEF PostInv
<1>8. ASSUME NEW k \in Call, Find(k) \/ PostFails(k)
      PROVE  PostInv'
  <2>1. UNCHANGED <<rows, draft, typed>>
    BY <1>8 DEF Find, PostFails, server, page
  <2>2. post[k] \in Posts
    BY <1>8, PostFacts DEF Find, PostFails
  <2>3. UnderWay(k) /\ post'[k].draft = post[k].draft /\ post'[k].heard = post[k].heard
    BY <1>8, <2>2, PostFacts DEF Find, PostFails, TypeInv, Posts
  <2>4. \A l \in Call \ {k} : post'[l] = post[l] /\ UnderWay(l)' = UnderWay(l)
    BY <1>8 DEF Find, PostFails, TypeInv, UnderWay
  <2>5. QED
    BY <2>1, <2>3, <2>4 DEF PostInv
<1>9. ASSUME NEW k \in Call, Insert(k)
      PROVE  PostInv'
  <2>1. UNCHANGED <<draft, typed>>
    BY <1>9 DEF Insert, page
  <2>2. post[k] \in Posts /\ UnderWay(k)
    BY <1>9, PostFacts DEF Insert
  <2>3. post'[k].draft = post[k].draft /\ post'[k].heard = post[k].heard
    BY <1>9, <2>2 DEF Insert, TypeInv, Posts
  <2>4. \A l \in Call \ {k} : post'[l] = post[l] /\ UnderWay(l)' = UnderWay(l)
    BY <1>9 DEF Insert, TypeInv, UnderWay
  <2>5. \A n \in DOMAIN rows' : \/ rows'[n].draft = post[k].draft
                                \/ n \in DOMAIN rows /\ rows'[n] = rows[n]
    BY <1>9 DEF Insert, TypeInv
  <2>6. QED
    BY <2>1, <2>2, <2>3, <2>4, <2>5 DEF PostInv
<1>10. ASSUME NEW k \in Call, Posted(k) \/ NotPosted(k)
       PROVE  PostInv'
  <2>1. UNCHANGED <<rows, typed>> /\ draft' \in {0, draft}
    BY <1>10 DEF Posted, NotPosted, Cleared, server, page
  <2>2. post'[k] = NoPost /\ \A l \in Call \ {k} : post'[l] = post[l]
    BY <1>10 DEF Posted, NotPosted, TypeInv
  <2>3. \A l \in Call : UnderWay(l)' => UnderWay(l) /\ post'[l] = post[l] /\ post[l].draft # 0
    BY <2>2, PostFacts DEF UnderWay
  <2>4. QED
    BY <1>1, <2>1, <2>3 DEF PostInv
<1>11. CASE UNCHANGED vars
  <2>1. UNCHANGED <<rows, typed, draft, post>>
    BY <1>11 DEF vars
  <2>2. \A k \in Call : UnderWay(k)' = UnderWay(k)
    BY <2>1 DEF UnderWay
  <2>3. QED
    BY <2>1, <2>2 DEF PostInv
<1>12. CASE Reconnect
  <2>1. at \in Expense
    BY <1>12 DEF Reconnect, TypeInv
  <2>2. QED
    BY <1>2, <1>12, <2>1 DEF Asks
<1>13. QED
  BY <1>2, <1>3, <1>4, <1>5, <1>6, <1>7, <1>8, <1>9, <1>10, <1>11, <1>12 DEF Next, Asks, Goes

-----------------------------------------------------------------------------
(* Rows and failures of a text. *)

\* A step that adds no row of d keeps its budget, if one more may come only when one
\* might before, or a failure was shown.
LEMMA AffordStays ==
    ASSUME TypeInv, NEW d \in Draft, Afford(d), RowsOf(d)' = RowsOf(d), errors'[d] \in Nat,
           \/ errors'[d] >= errors[d] + 1
           \/ errors'[d] = errors[d] /\ (Coming(d)' \/ Sendable(d)' => Coming(d) \/ Sendable(d))
    PROVE  Afford(d)'
<1>1. Cardinality(RowsOf(d)) \in Nat /\ errors[d] \in Nat
  BY FS_CardinalityType DEF Afford, TypeInv
<1>2. QED
  BY <1>1 DEF Afford

LEMMA BudgetsBegin == Init => BudgetInv
<1> SUFFICES ASSUME Init, NEW d \in Draft PROVE Afford(d)
  BY DEF BudgetInv
<1>1. d # 0
  BY DEF Draft
<1>2. RowsOf(d) = {}
  <2>1. \A n \in DOMAIN rows : rows[n].draft = 0
    BY DEF Init, Theirs
  <2>2. QED
    BY <1>1, <2>1 DEF RowsOf
<1>3. errors[d] = 0
  BY DEF Init
<1>4. QED
  BY <1>2, <1>3, FS_EmptySet DEF Afford

LEMMA BudgetsStay ==
    ASSUME TypeInv, PostInv, BudgetInv, [Next]_vars
    PROVE  BudgetInv'
<1> SUFFICES ASSUME NEW d \in Draft PROVE Afford(d)'
  BY DEF BudgetInv
<1>1. Afford(d) /\ errors[d] \in Nat /\ d # 0
  BY DEF BudgetInv, TypeInv, Draft
<1>2. ASSUME NEW e \in Expense, Asks(e)
      PROVE  Afford(d)'
  <2>1. UNCHANGED <<rows, post, errors, draft>>
    BY <1>2, AskingOnly
  <2>2. RowsOf(d)' = RowsOf(d) /\ Coming(d)' = Coming(d) /\ (Sendable(d)' => Sendable(d))
    BY <1>1, <2>1 DEF RowsOf, Coming, Sendable, UnderWay
  <2>3. QED
    BY <1>1, <2>1, <2>2, AffordStays
<1>3. CASE Goes
  <2>1. UNCHANGED <<rows, errors>> /\ draft' = 0
    BY <1>3, GoingOnly
  <2>2. \A k \in Call : /\ post'[k].phase = post[k].phase
                        /\ UnderWay(k) => post'[k].draft = post[k].draft
    BY <1>3, UnheardPosts
  <2>3. Coming(d)' => Coming(d)
    BY <2>2, PostFacts DEF Coming
  <2>4. RowsOf(d)' = RowsOf(d) /\ ~Sendable(d)'
    BY <1>1, <2>1 DEF RowsOf, Sendable
  <2>5. QED
    BY <1>1, <2>1, <2>3, <2>4, AffordStays
<1>4. CASE Type
  <2>1. UNCHANGED <<rows, post, errors>> /\ draft' = typed + 1
    BY <1>4 DEF Type, server
  <2>2. RowsOf(d)' = RowsOf(d) /\ Coming(d)' = Coming(d)
    BY <2>1 DEF RowsOf, Coming
  <2>3. CASE d # typed + 1
    <3>1. ~Sendable(d)'
      BY <2>1, <2>3 DEF Sendable
    <3>2. QED
      BY <1>1, <2>1, <2>2, <3>1, AffordStays
  <2>4. CASE d = typed + 1
    <3>1. typed \in Nat
      BY ThreadAssumption DEF TypeInv, Draft
    <3>2. ~(d <= typed)
      BY <2>4, <3>1
    <3>3. RowsOf(d) = {}
      BY <3>2 DEF RowsOf, PostInv
    <3>4. QED
      BY <1>1, <2>1, <2>2, <3>3, FS_EmptySet DEF Afford
  <2>5. QED
    BY <2>3, <2>4
<1>5. ASSUME NEW e \in Expense, DeleteElsewhere(e)
      PROVE  Afford(d)'
  <2>1. UNCHANGED <<rows, errors, draft>>
    BY <1>5 DEF DeleteElsewhere, page
  <2>2. \A k \in Call : /\ post'[k].phase = post[k].phase /\ UnderWay(k)' = UnderWay(k)
                        /\ UnderWay(k) => post'[k].draft = post[k].draft
    BY <1>5, OvertakenPosts
  <2>3. (Coming(d)' => Coming(d)) /\ (Sendable(d)' => Sendable(d))
    BY <2>1, <2>2, PostFacts DEF Coming, Sendable
  <2>4. RowsOf(d)' = RowsOf(d)
    BY <2>1 DEF RowsOf
  <2>5. QED
    BY <1>1, <2>1, <2>3, <2>4, AffordStays
<1>6. ASSUME NEW e \in Expense, CommentElsewhere(e)
      PROVE  Afford(d)'
  <2>1. UNCHANGED <<post, errors, draft>>
    BY <1>6 DEF CommentElsewhere, page
  <2>2. Coming(d)' = Coming(d) /\ Sendable(d)' = Sendable(d)
    BY <2>1 DEF Coming, Sendable, UnderWay
  <2>3. /\ \A n \in DOMAIN rows' : rows'[n].draft = 0 \/ (n \in DOMAIN rows /\ rows'[n] = rows[n])
        /\ \A n \in DOMAIN rows : n \in DOMAIN rows' /\ rows'[n] = rows[n]
    BY <1>6 DEF CommentElsewhere, Theirs, TypeInv
  <2>4. RowsOf(d)' = RowsOf(d)
    BY <1>1, <2>3 DEF RowsOf
  <2>5. QED
    BY <1>1, <2>1, <2>2, <2>4, AffordStays
<1>7. ASSUME NEW k \in Call, PostComment(k)
      PROVE  Afford(d)'
  <2>1. UNCHANGED <<rows, errors, draft>>
    BY <1>7 DEF PostComment, server, page
  <2>2. /\ \A l \in Call \ {k} : post'[l] = post[l]
        /\ post'[k].draft = draft /\ post'[k] # NoPost
    BY <1>7 DEF PostComment, TypeInv, NoPost
  <2>3. \A l \in Call : UnderWay(l) => post[l].draft # draft
    BY <1>7 DEF PostComment, Pending, UnderWay, PostInv
  <2>4. Coming(d)' => Coming(d) \/ d = draft
    BY <2>2 DEF Coming
  <2>5. d = draft => Sendable(d)
    BY <2>3 DEF Sendable
  <2>6. ~Sendable(d)'
    BY <2>1, <2>2 DEF Sendable, UnderWay
  <2>7. RowsOf(d)' = RowsOf(d)
    BY <2>1 DEF RowsOf
  <2>8. QED
    BY <1>1, <2>1, <2>4, <2>5, <2>6, <2>7, AffordStays
<1>8. ASSUME NEW k \in Call, Find(k) \/ PostFails(k)
      PROVE  Afford(d)'
  <2>1. UNCHANGED <<rows, draft, errors>>
    BY <1>8 DEF Find, PostFails, server, page
  <2>2. post[k] \in Posts
    BY <1>8, PostFacts DEF Find, PostFails
  <2>3. /\ UnderWay(k) /\ UnderWay(k)' /\ post'[k].draft = post[k].draft
        /\ post'[k].phase = "found" => post[k].phase = "sent"
        /\ post'[k].phase \in {"found", "failed"}
    BY <1>8, <2>2, PostFacts DEF Find, PostFails, TypeInv, Posts, UnderWay, NoPost
  <2>4. \A l \in Call \ {k} : post'[l] = post[l] /\ UnderWay(l)' = UnderWay(l)
    BY <1>8 DEF Find, PostFails, TypeInv, UnderWay
  <2>5. Coming(d)' => Coming(d)
    BY <2>3, <2>4 DEF Coming
  <2>6. Sendable(d)' => Sendable(d)
    BY <2>1, <2>3, <2>4 DEF Sendable
  <2>7. RowsOf(d)' = RowsOf(d)
    BY <2>1 DEF RowsOf
  <2>8. QED
    BY <1>1, <2>1, <2>5, <2>6, <2>7, AffordStays
<1>9. ASSUME NEW k \in Call, Insert(k)
      PROVE  Afford(d)'
  <2>1. UNCHANGED <<draft, errors>>
    BY <1>9 DEF Insert, page
  <2>2. post[k] \in Posts /\ UnderWay(k) /\ post[k].phase = "found"
    BY <1>9, PostFacts DEF Insert
  <2>3. post'[k].draft = post[k].draft /\ post'[k].phase = "done" /\ UnderWay(k)'
    BY <1>9, <2>2 DEF Insert, TypeInv, Posts, UnderWay, NoPost
  <2>4. \A l \in Call \ {k} : post'[l] = post[l] /\ UnderWay(l)' = UnderWay(l)
    BY <1>9 DEF Insert, TypeInv, UnderWay
  <2>5. /\ DOMAIN rows' = DOMAIN rows \cup {Len(rows) + 1}
        /\ Len(rows) + 1 \notin DOMAIN rows
        /\ \A n \in DOMAIN rows : rows'[n] = rows[n]
        /\ rows'[Len(rows) + 1].draft = post[k].draft
    BY <1>9 DEF Insert, TypeInv
  <2>6. (Coming(d)' => Coming(d)) /\ (Sendable(d)' => Sendable(d))
    BY <2>1, <2>2, <2>3, <2>4 DEF Coming, Sendable
  <2>7. CASE d # post[k].draft
    <3>1. RowsOf(d)' = RowsOf(d)
      BY <2>5, <2>7 DEF RowsOf
    <3>2. QED
      BY <1>1, <2>1, <2>6, <3>1, AffordStays
  <2>8. CASE d = post[k].draft
    <3>1. RowsOf(d)' = RowsOf(d) \cup {Len(rows) + 1} /\ Len(rows) + 1 \notin RowsOf(d)
      BY <2>5, <2>8 DEF RowsOf
    <3>2. Coming(d)
      BY <2>2, <2>8 DEF Coming
    <3>3. IsFiniteSet(RowsOf(d)) /\ Cardinality(RowsOf(d)) <= errors[d]
      BY <1>1, <3>2 DEF Afford
    <3>4. IsFiniteSet(RowsOf(d)') /\ Cardinality(RowsOf(d)') = Cardinality(RowsOf(d)) + 1
      BY <3>1, <3>3, FS_AddElement
    <3>5. ~Coming(d)'
      <4>1. \A l \in Call : post[l].phase \in {"sent", "found"} /\ post[l].draft = d => l = k
        BY <2>2, <2>8, PostFacts DEF PostInv
      <4>2. QED
        BY <2>3, <2>4, <4>1 DEF Coming
    <3>6. ~Sendable(d)'
      BY <2>3, <2>8 DEF Sendable
    <3>7. Cardinality(RowsOf(d)) \in Nat
      BY <3>3, FS_CardinalityType
    <3>8. QED
      BY <1>1, <2>1, <3>3, <3>4, <3>5, <3>6, <3>7 DEF Afford
  <2>9. QED
    BY <2>7, <2>8
<1>10. ASSUME NEW k \in Call, Posted(k) \/ NotPosted(k)
       PROVE  Afford(d)'
  <2>1. rows' = rows /\ post[k] \in Posts /\ UnderWay(k)
    BY <1>10, PostFacts DEF Posted, NotPosted, server
  <2>2. post'[k] = NoPost /\ \A l \in Call \ {k} : post'[l] = post[l] /\ UnderWay(l)' = UnderWay(l)
    BY <1>10 DEF Posted, NotPosted, TypeInv, UnderWay
  <2>3. RowsOf(d)' = RowsOf(d)
    BY <2>1 DEF RowsOf
  <2>4. Coming(d)' => Coming(d)
    BY <2>2 DEF Coming, NoPost
  <2>5. \/ /\ draft' = IF post[k].heard THEN 0 ELSE draft
           /\ errors' = errors
        \/ /\ draft' = draft
           /\ errors' = IF post[k].heard THEN [errors EXCEPT ![post[k].draft] = @ + 1] ELSE errors
    BY <1>10 DEF Posted, NotPosted, Cleared, page
  <2>6. CASE d = post[k].draft /\ errors' # errors
    <3>1. errors'[d] = errors[d] + 1
      BY <2>5, <2>6 DEF TypeInv
    <3>2. QED
      BY <1>1, <2>3, <3>1, AffordStays
  <2>7. CASE d = post[k].draft /\ errors' = errors
    <3>1. ~post[k].heard \/ draft' = 0
      <4>1. post[k].heard /\ errors[d] + 1 # errors[d] =>
               [errors EXCEPT ![post[k].draft] = @ + 1] # errors
        BY <2>7 DEF TypeInv
      <4>2. QED
        BY <1>1, <2>5, <2>7, <4>1
    <3>2. ~post[k].heard => draft # d /\ draft' = draft
      BY <2>1, <2>5, <2>7 DEF PostInv
    <3>3. ~Sendable(d)'
      BY <1>1, <3>1, <3>2 DEF Sendable
    <3>4. QED
      BY <1>1, <2>3, <2>4, <2>7, <3>3, AffordStays
  <2>8. CASE d # post[k].draft
    <3>1. errors'[d] = errors[d]
      BY <2>5, <2>8 DEF TypeInv
    <3>2. Sendable(d)' => Sendable(d)
      BY <1>1, <2>1, <2>2, <2>5, <2>8 DEF Sendable
    <3>3. QED
      BY <1>1, <2>3, <2>4, <3>1, <3>2, AffordStays
  <2>9. QED
    BY <2>6, <2>7, <2>8
<1>11. CASE UNCHANGED vars
  <2>1. UNCHANGED <<rows, errors, draft, post>>
    BY <1>11 DEF vars
  <2>2. RowsOf(d)' = RowsOf(d) /\ Coming(d)' = Coming(d) /\ Sendable(d)' = Sendable(d)
    BY <2>1 DEF RowsOf, Coming, Sendable, UnderWay
  <2>3. QED
    BY <1>1, <2>1, <2>2, AffordStays
<1>12. CASE Reconnect
  <2>1. at \in Expense
    BY <1>12 DEF Reconnect, TypeInv
  <2>2. QED
    BY <1>2, <1>12, <2>1 DEF Asks
<1>13. QED
  BY <1>2, <1>3, <1>4, <1>5, <1>6, <1>7, <1>8, <1>9, <1>10, <1>11, <1>12 DEF Next, Asks, Goes

-----------------------------------------------------------------------------
(* Comments on what was deleted. *)

LEMMA LateBegin == Init => LateInv
BY DEF Init, LateInv, OnlyOvertakenAreLate, Theirs, NoPost

LEMMA LateStays ==
    ASSUME TypeInv, LateInv, [Next]_vars
    PROVE  LateInv'
<1> USE DEF LateInv, OnlyOvertakenAreLate
<1>1. ASSUME NEW e \in Expense, Asks(e)
      PROVE  LateInv'
  BY <1>1, AskingOnly
<1>2. CASE Goes
  <2>1. UNCHANGED <<rows, live>>
    BY <1>2, GoingOnly
  <2>2. \A k \in Call : post'[k].phase = "found" =>
           /\ post[k].phase = "found" /\ post'[k].on = post[k].on
           /\ post'[k].overtaken = post[k].overtaken
    BY <1>2, UnheardPosts, PostFacts
  <2>3. QED
    BY <2>1, <2>2
<1>3. CASE Type
  BY <1>3 DEF Type, server
<1>4. ASSUME NEW e \in Expense, DeleteElsewhere(e)
      PROVE  LateInv'
  <2>1. rows' = rows /\ \A x \in Expense : live[x] /\ x # e => live'[x]
    BY <1>4 DEF DeleteElsewhere, TypeInv
  <2>2. \A k \in Call : post'[k].phase = "found" =>
           /\ post[k].phase = "found" /\ post'[k].on = post[k].on /\ post[k].on \in Expense
           /\ post'[k].overtaken = (post[k].overtaken \/ post[k].on = e)
    BY <1>4, OvertakenPosts, PostFacts
  <2>3. \A k \in Call : post'[k].phase = "found" => live'[post'[k].on] \/ post'[k].overtaken
    BY <2>1, <2>2
  <2>4. QED
    BY <2>1, <2>3
<1>5. ASSUME NEW e \in Expense, CommentElsewhere(e)
      PROVE  LateInv'
  <2>1. \A n \in DOMAIN rows' : ~rows'[n].late \/ (n \in DOMAIN rows /\ rows'[n] = rows[n])
    BY <1>5 DEF CommentElsewhere, Theirs, TypeInv
  <2>2. QED
    BY <1>5, <2>1 DEF CommentElsewhere
<1>6. ASSUME NEW k \in Call, PostComment(k) \/ PostFails(k) \/ Posted(k) \/ NotPosted(k)
      PROVE  LateInv'
  <2>1. UNCHANGED <<rows, live>>
    BY <1>6 DEF PostComment, PostFails, Posted, NotPosted, server
  <2>2. post'[k].phase # "found"
    BY <1>6, PostFacts DEF PostComment, PostFails, Posted, NotPosted, TypeInv, Posts, NoPost
  <2>3. \A l \in Call \ {k} : post'[l] = post[l]
    BY <1>6 DEF PostComment, PostFails, Posted, NotPosted, TypeInv
  <2>4. QED
    BY <2>1, <2>2, <2>3
<1>7. ASSUME NEW k \in Call, Find(k)
      PROVE  LateInv'
  <2>1. UNCHANGED <<rows, live>> /\ live[post[k].on]
    BY <1>7 DEF Find, server
  <2>2. post[k] \in Posts
    BY <1>7, PostFacts DEF Find
  <2>3. post'[k].on = post[k].on
    BY <1>7, <2>2 DEF Find, TypeInv, Posts
  <2>4. \A l \in Call \ {k} : post'[l] = post[l]
    BY <1>7 DEF Find, TypeInv
  <2>5. QED
    BY <2>1, <2>3, <2>4
<1>8. ASSUME NEW k \in Call, Insert(k)
      PROVE  LateInv'
  <2>1. live' = live
    BY <1>8 DEF Insert
  <2>2. post[k] \in Posts
    BY <1>8, PostFacts DEF Insert
  <2>3. post'[k].phase # "found" /\ \A l \in Call \ {k} : post'[l] = post[l]
    BY <1>8, <2>2 DEF Insert, TypeInv, Posts
  <2>4. \A n \in DOMAIN rows' :
           \/ n \in DOMAIN rows /\ rows'[n] = rows[n]
           \/ rows'[n].late = ~live[post[k].on] /\ rows'[n].overtaken = post[k].overtaken
    BY <1>8 DEF Insert, TypeInv
  <2>5. live[post[k].on] \/ post[k].overtaken
    BY <1>8 DEF Insert
  <2>6. \A n \in DOMAIN rows' : rows'[n].late => rows'[n].overtaken
    BY <2>4, <2>5
  <2>7. QED
    BY <2>1, <2>3, <2>6
<1>9. CASE UNCHANGED vars
  BY <1>9 DEF vars
<1>10. CASE Reconnect
  <2>1. at \in Expense
    BY <1>10 DEF Reconnect, TypeInv
  <2>2. QED
    BY <1>1, <1>10, <2>1 DEF Asks
<1>11. QED
  BY <1>1, <1>2, <1>3, <1>4, <1>5, <1>6, <1>7, <1>8, <1>9, <1>10 DEF Next, Asks, Goes

-----------------------------------------------------------------------------
(* The theorems. *)

\* Every step keeps the types.
LEMMA TypesStay ==
    ASSUME TypeInv, [Next]_vars
    PROVE  TypeInv'
<1>1. CASE UNCHANGED vars
  BY <1>1 DEF vars, TypeInv
<1>2. CASE Type
  BY <1>2, ThreadAssumption DEF Type, TypeInv, server, Draft
<1>3. CASE Leave
  BY <1>3, UnheardKeepTypes DEF Leave, TypeInv, server
<1>4. CASE Reconnect
  <2>1. at \in Expense
    BY <1>4 DEF Reconnect, TypeInv
  <2>2. QED
    BY <1>4, <2>1, RequestsKeepTypes
<1>5. QED
  BY <1>1, <1>2, <1>3, <1>4, RequestsKeepTypes, OthersKeepTypes, PostsKeepTypes DEF Next

\* What holds of every reachable state.
ThreadsInv == TypeInv /\ ReferenceInv /\ ThreadInv /\ PostInv /\ BudgetInv /\ LateInv

\* The inductive invariant of the thread of comments, the queries and the composer of
\* the detail page and the two handlers of commentController.
THEOREM Invariance == Spec => []ThreadsInv
<1>1. Init => ThreadsInv
  BY TypesBegin, ReferencesBegin, ThreadsBegin, PostsBegin, BudgetsBegin, LateBegin
     DEF ThreadsInv
<1>2. ThreadsInv /\ [Next]_vars => ThreadsInv'
  BY TypesStay, ReferencesStay, ThreadsStay, PostsStay, BudgetsStay, LateStays DEF ThreadsInv
<1>3. QED
  BY <1>1, <1>2, PTL DEF Spec

\* The type invariant: a blank draft without a page, and only rows of its own expense
\* in a thread.
THEOREM TypeCorrect == Spec => []TypeOK
<1>1. ThreadsInv => TypeOK
  <2> SUFFICES ASSUME ThreadsInv PROVE TypeOK
    OBVIOUS
  <2>1. ASSUME NEW e \in Expense, NEW d \in thread[e].data
        PROVE  IsABag(d) /\ BagToSet(d) \subseteq On(e)
    <3>1. d \in Threads
      BY <2>1 DEF ThreadsInv, TypeInv, Entries
    <3>2. IsABag(d)
      <4>1. PICK S \in SUBSET Nat : d \in [S -> Nat \ {0}]
        BY <3>1 DEF Threads
      <4>2. DOMAIN d = S /\ \A n \in S : d[n] \in Nat /\ d[n] > 0
        BY <4>1
      <4>3. QED
        BY <4>1, <4>2 DEF IsABag
    <3>3. BagToSet(d) \subseteq On(e)
      BY <2>1 DEF ThreadsInv, ThreadInv, Sound, BagToSet
    <3>4. QED
      BY <3>2, <3>3
  <2>2. QED
    BY <2>1 DEF ThreadsInv, TypeInv, ReferenceInv, TypeOK
<1>2. QED
  BY <1>1, Invariance, PTL

\* The thread a page shows holds what this tab posted, once, but for what the answer
\* to the post shares with a request for the thread: useAddComment appends to the
\* cache without cancelling that request.
THEOREM WholeThreads == Spec => []WholeUnlessRaced
<1>1. ThreadsInv => WholeUnlessRaced
  <2> SUFFICES ASSUME ThreadsInv, NEW n \in told \ raced, NEW d \in thread[rows[n].on].data
               PROVE  BagIn(n, d) /\ d[n] = 1
    BY DEF WholeUnlessRaced
  <2>1. rows[n] \in RowShape
    BY DEF ThreadsInv, ReferenceInv, TypeInv
  <2>2. rows[n].on \in Expense
    BY <2>1 DEF RowShape
  <2>3. Whole(thread[rows[n].on], n)
    BY <2>2 DEF ThreadsInv, ThreadInv
  <2>4. QED
    BY <2>3 DEF Whole, Once, BagIn, BagToSet
<1>2. QED
  BY <1>1, Invariance, PTL

\* No clicks store a text again that nobody was told had failed: handlePostComment
\* is guarded by isPending, and the page that comes next, of any expense, has neither
\* the text nor the post: AppShell mounts it anew.
THEOREM NoRepeatedRows == Spec => []OneRowPerText
<1>1. ThreadsInv => OneRowPerText
  <2> SUFFICES ASSUME ThreadsInv, NEW d \in Draft
               PROVE  Cardinality(RowsOf(d)) <= 1 + errors[d]
    BY DEF OneRowPerText, RowsOf
  <2>1. Afford(d) /\ errors[d] \in Nat
    BY DEF ThreadsInv, BudgetInv, TypeInv
  <2>2. Cardinality(RowsOf(d)) \in Nat
    BY <2>1, FS_CardinalityType DEF Afford
  <2>3. QED
    BY <2>1, <2>2 DEF Afford
<1>2. QED
  BY <1>1, Invariance, PTL

\* A comment is stored on a deleted expense only by a request that had found it
\* before: addComment looks once and inserts later.
THEOREM LateComments == Spec => []OnlyOvertakenAreLate
<1>1. ThreadsInv => OnlyOvertakenAreLate
  BY DEF ThreadsInv, LateInv
<1>2. QED
  BY <1>1, Invariance, PTL

-----------------------------------------------------------------------------
(* The other way in: Entra sign-in.                                        *)

\* What a token says; it was issued in the past.
Token == [oid : Oid, email : Email, roles : SUBSET Role, iat : 0 .. now]

Useful == {t \in Token : t.roles # {}}

Asking == [phase : {"upsert", "load", "sync", "reload"}, token : Useful]
Synced == [phase : {"event"}, token : Useful, active : BOOLEAN]
Served == [phase : {"served"}, oid : Oid, role : Role]

Running == Asking \cup Synced \cup Served

UserTable == [Oid -> Row \cup {NoRow}]

\* updateRole and the read after it find the row that was loaded: no row of users goes.
RowIsThere(r) == req[r].phase \in {"sync", "reload"} => users[req[r].token.oid] # NoRow

SignInInv ==
    /\ account \in [Oid -> [email : Email, roles : SUBSET Role]]
    /\ tokens \subseteq Token
    /\ users \in UserTable
    /\ req \in [Request -> Running \cup {Idle}]
    /\ seen \subseteq Keys \X (0 .. now)
    /\ recorded \subseteq Keys /\ repeated \subseteq Keys
    /\ now \in Nat
    /\ \A r \in Request : RowIsThere(r)

\* The first role of resolveRoles is a role.
LEMMA CanonicalIsARole ==
    ASSUME NEW roles \in SUBSET Role, roles # {}
    PROVE  Canonical(roles) \in Role
BY DEF Canonical, Role

\* While the clock stands, nothing that was in the past comes to lie in the future.
LEMMA PastStaysPast ==
    ASSUME now \in Nat, now' \in {now, now + 1}
    PROVE  Token \subseteq Token' /\ Running \subseteq Running'
           /\ Keys \subseteq Keys' /\ Keys \X (0 .. now) \subseteq Keys' \X (0 .. now')
<1>1. now' \in Nat /\ 0 .. now \subseteq 0 .. now'
  OBVIOUS
<1>2. Token \subseteq Token'
  BY <1>1 DEF Token
<1>3. Running \subseteq Running'
  <2>1. Useful \subseteq Useful'
    BY <1>2 DEF Useful
  <2>2. Asking \subseteq Asking'
    BY <2>1 DEF Asking
  <2>3. Synced \subseteq Synced'
    BY <2>1 DEF Synced
  <2>4. QED
    BY <2>2, <2>3 DEF Running, Served
<1>4. Keys \subseteq Keys'
  BY <1>1 DEF Keys
<1>5. QED
  BY <1>1, <1>2, <1>3, <1>4

\* The token of a request that looks for its row names an account.
LEMMA LoadedTokens ==
    ASSUME SignInInv, NEW r \in Request, req[r].phase \in {"sync", "reload"}
    PROVE  req[r].token.oid \in Oid
<1>1. req[r] \in Running
  BY DEF SignInInv, Idle
<1>2. req[r] \in Asking
  BY <1>1 DEF Running, Synced, Served
<1>3. req[r].token \in Useful
  BY <1>2 DEF Asking
<1>4. QED
  BY <1>3 DEF Useful, Token

\* A changed row is a row.
LEMMA RowsStay ==
    ASSUME SignInInv, NEW p \in Oid, users[p] # NoRow
    PROVE  /\ \A active \in BOOLEAN : /\ [users EXCEPT ![p].active = active] \in UserTable
                                      /\ [users EXCEPT ![p].active = active][p] # NoRow
           /\ \A role \in Role : /\ [users EXCEPT ![p].role = role] \in UserTable
                                 /\ [users EXCEPT ![p].role = role][p] # NoRow
           /\ \A o \in Oid : /\ [users EXCEPT ![p].name = o] \in UserTable
                             /\ [users EXCEPT ![p].name = o][p] # NoRow
           /\ \A o \in Oid, e \in Email :
                 /\ [users EXCEPT ![p].email = e, ![p].name = o] \in UserTable
                 /\ [users EXCEPT ![p].email = e, ![p].name = o][p] # NoRow
<1>1. users \in UserTable /\ users[p] \in Row /\ NoRow \notin Row
  BY SignInAssumption DEF SignInInv, UserTable
<1>2. \A active \in BOOLEAN : [users[p] EXCEPT !.active = active] \in Row
  BY <1>1 DEF Row
<1>3. \A role \in Role : [users[p] EXCEPT !.role = role] \in Row
  BY <1>1 DEF Row
<1>4. \A o \in Oid : [users[p] EXCEPT !.name = o] \in Row
  BY <1>1 DEF Row
<1>5. \A o \in Oid, e \in Email : [[users[p] EXCEPT !.email = e] EXCEPT !.name = o] \in Row
  BY <1>1 DEF Row
<1>6. \A row \in Row : /\ [users EXCEPT ![p] = row] \in UserTable
                       /\ [users EXCEPT ![p] = row][p] # NoRow
  BY <1>1 DEF UserTable
<1>7. \A active \in BOOLEAN : /\ [users EXCEPT ![p].active = active] \in UserTable
                              /\ [users EXCEPT ![p].active = active][p] # NoRow
  BY <1>2, <1>6
<1>8. \A role \in Role : /\ [users EXCEPT ![p].role = role] \in UserTable
                         /\ [users EXCEPT ![p].role = role][p] # NoRow
  BY <1>3, <1>6
<1>9. \A o \in Oid : /\ [users EXCEPT ![p].name = o] \in UserTable
                     /\ [users EXCEPT ![p].name = o][p] # NoRow
  BY <1>4, <1>6
<1>10. \A o \in Oid, e \in Email :
          /\ [users EXCEPT ![p].email = e, ![p].name = o] \in UserTable
          /\ [users EXCEPT ![p].email = e, ![p].name = o][p] # NoRow
  <2> SUFFICES ASSUME NEW o \in Oid, NEW e \in Email
               PROVE  /\ [users EXCEPT ![p].email = e, ![p].name = o] \in UserTable
                      /\ [users EXCEPT ![p].email = e, ![p].name = o][p] # NoRow
    OBVIOUS
  <2> DEFINE row == [[users[p] EXCEPT !.email = e] EXCEPT !.name = o]
  <2>1. [users EXCEPT ![p].email = e, ![p].name = o] = [users EXCEPT ![p] = row]
    BY <1>1
  <2>2. row \in Row
    BY <1>5
  <2>3. QED
    BY <1>6, <2>1, <2>2, Zenon
<1>11. QED
  BY <1>7, <1>8, <1>9, <1>10

\* Entra ID, the clock, the operator and the host.
LEMMA OutsideKeepsTypes ==
    ASSUME SignInInv,
           \/ \E o \in Oid : \/ ChangeAccount(o) \/ IssueToken(o)
                             \/ \E active \in BOOLEAN : SetActive(o, active)
           \/ \E t \in tokens : TokenExpires(t)
           \/ Tick \/ Restart
    PROVE  SignInInv'
<1>1. ASSUME NEW o \in Oid, ChangeAccount(o) PROVE SignInInv'
  <2>1. account' \in [Oid -> [email : Email, roles : SUBSET Role]]
    BY <1>1 DEF ChangeAccount, SignInInv, UserTable, Role
  <2>2. UNCHANGED <<tokens, now, users, req, logbook>>
    BY <1>1 DEF ChangeAccount
  <2>3. QED
    BY <2>1, <2>2 DEF SignInInv, UserTable, Token, Running, Asking, Synced, Served, Useful,
                       Keys, logbook, RowIsThere
<1>2. ASSUME NEW o \in Oid, IssueToken(o) PROVE SignInInv'
  <2>1. TokenFor(o) \in Token
    BY DEF SignInInv, Token, TokenFor
  <2>2. UNCHANGED <<account, now, users, req, logbook>>
    BY <1>2 DEF IssueToken
  <2>3. tokens' \subseteq Token
    BY <1>2, <2>1 DEF IssueToken, SignInInv, UserTable
  <2>4. QED
    BY <2>2, <2>3 DEF SignInInv, UserTable, Token, Running, Asking, Synced, Served, Useful,
                       Keys, logbook, RowIsThere
<1>3. ASSUME NEW o \in Oid, NEW active \in BOOLEAN, SetActive(o, active) PROVE SignInInv'
  <2>1. users' \in UserTable
    BY <1>3 DEF SetActive, SignInInv, UserTable, Row
  <2>2. UNCHANGED <<account, tokens, now, req, logbook>>
    BY <1>3 DEF SetActive
  <2>3. \A p \in Oid : users[p] # NoRow => users'[p] # NoRow
    BY <1>3, RowsStay DEF SetActive, SignInInv, UserTable
  <2>4. \A q \in Request : RowIsThere(q)'
    BY <2>2, <2>3, LoadedTokens DEF SignInInv, UserTable, RowIsThere
  <2>5. QED
    BY <2>1, <2>2, <2>4 DEF SignInInv, UserTable, Token, Running, Asking, Synced, Served,
                            Useful, Keys, logbook
<1>4. ASSUME NEW t \in tokens, TokenExpires(t) PROVE SignInInv'
  BY <1>4
     DEF TokenExpires, SignInInv, UserTable, Token, Running, Asking, Synced, Served, Useful,
         Keys, logbook, RowIsThere
<1>5. CASE Tick
  <2>1. now' = now + 1 /\ UNCHANGED <<account, tokens, users, req, logbook>>
    BY <1>5 DEF Tick
  <2>2. now' \in Nat
    BY <2>1 DEF SignInInv, UserTable
  <2>3. Token \subseteq Token' /\ Running \subseteq Running'
        /\ Keys \subseteq Keys' /\ Keys \X (0 .. now) \subseteq Keys' \X (0 .. now')
    BY <2>1, PastStaysPast DEF SignInInv, UserTable
  <2>4. tokens' \subseteq Token' /\ req' \in [Request -> Running' \cup {Idle}]
    BY <2>1, <2>3 DEF SignInInv, UserTable
  <2>5. seen' \subseteq Keys' \X (0 .. now') /\ recorded' \subseteq Keys' /\ repeated' \subseteq Keys'
    BY <2>1, <2>3 DEF SignInInv, UserTable, logbook
  <2>6. account' = account /\ users' = users
    BY <2>1
  <2>7. QED
    BY <2>1, <2>2, <2>4, <2>5, <2>6 DEF SignInInv, UserTable, RowIsThere
<1>6. CASE Restart
  <2>1. /\ req' = [r \in Request |-> Idle] /\ seen' = {} /\ recorded' = {}
        /\ UNCHANGED <<account, tokens, now, users, repeated>>
    BY <1>6 DEF Restart
  <2>2. \A r \in Request : RowIsThere(r)'
    BY <2>1 DEF RowIsThere, Idle
  <2>3. Token' = Token /\ Running' = Running /\ Keys' = Keys
    BY <2>1 DEF Token, Running, Asking, Synced, Served, Useful, Keys
  <2>4. QED
    BY <2>1, <2>2, <2>3 DEF SignInInv, UserTable
<1>7. QED
  BY <1>1, <1>2, <1>3, <1>4, <1>5, <1>6

\* A request moves neither the clock nor another request.
LEMMA StepTypes ==
    ASSUME SignInInv, UNCHANGED directory, NEW r \in Request,
           users' \in UserTable,
           \A p \in Oid : users[p] # NoRow => users'[p] # NoRow,
           req' \in [Request -> Running \cup {Idle}],
           \A q \in Request \ {r} : req'[q] = req[q],
           RowIsThere(r)',
           seen' \subseteq Keys \X (0 .. now), recorded' \subseteq Keys, repeated' \subseteq Keys
    PROVE  SignInInv'
<1>1. ASSUME NEW q \in Request \ {r} PROVE RowIsThere(q)'
  <2>1. req'[q] = req[q]
    OBVIOUS
  <2>2. req[q].phase \in {"sync", "reload"} =>
           req[q].token.oid \in Oid /\ users[req[q].token.oid] # NoRow
    BY LoadedTokens DEF SignInInv, UserTable, RowIsThere
  <2>3. QED
    BY <2>1, <2>2 DEF RowIsThere
<1>2. \A q \in Request : RowIsThere(q)'
  BY <1>1
<1>3. QED
  BY <1>2 DEF SignInInv, UserTable, directory, Token, Running, Asking, Synced, Served,
              Useful, Keys

\* recordLoginSuccess writes down the key of the request's token.
LEMMA RecordTypes ==
    ASSUME SignInInv, NEW t \in Token, RecordLogin(t)
    PROVE  /\ seen' \subseteq Keys \X (0 .. now)
           /\ recorded' \subseteq Keys /\ repeated' \subseteq Keys
<1>1. Key(t) \in Keys /\ now \in 0 .. now
  BY DEF Token, Key, Keys, SignInInv, UserTable
<1>2. Kept \subseteq seen
  BY DEF Kept
<1>3. QED
  BY <1>1, <1>2 DEF RecordLogin, SignInInv, UserTable, logbook

\* A request of authenticate.
LEMMA RequestKeepsTypes ==
    ASSUME SignInInv, NEW r \in Request,
           Step(r) \/ \E t \in tokens : Present(r, t)
    PROVE  SignInInv'
<1> DEFINE t == req[r].token
<1>1. Idle.phase = "idle"
  BY DEF Idle
<1>2. ASSUME ~At(r, "idle"), ~At(r, "served")
      PROVE  /\ req[r] \in Asking \cup Synced
             /\ t \in Useful /\ t \in Token /\ t.roles # {} /\ t.oid \in Oid
  <2>1. req[r] \in Running
    BY <1>1, <1>2 DEF At, SignInInv
  <2>2. req[r] \in Asking \cup Synced
    BY <1>2, <2>1 DEF At, Running, Served
  <2>3. t \in Useful
    BY <2>2 DEF Asking, Synced
  <2>4. QED
    BY <2>2, <2>3 DEF Useful, Token
<1> DEFINE Others == \A q \in Request \ {r} : req'[q] = req[q]
<1>3. Ends(r) =>
         req' \in [Request -> Running \cup {Idle}] /\ Others /\ req'[r].phase = "idle"
  BY DEF Ends, SignInInv, UserTable, Idle
<1>4. ASSUME At(r, "upsert") \/ At(r, "load") \/ At(r, "sync"),
             NEW phase \in {"load", "sync", "reload"}, Continues(r, phase)
      PROVE  /\ req' \in [Request -> Running \cup {Idle}] /\ Others
             /\ req'[r].phase = phase /\ req'[r].token = t
  <2>1. req[r] \in Asking
    BY <1>2, <1>4 DEF At, Synced
  <2>2. /\ [req[r] EXCEPT !.phase = phase] \in Asking
        /\ [req[r] EXCEPT !.phase = phase].phase = phase
        /\ [req[r] EXCEPT !.phase = phase].token = t
    BY <2>1 DEF Asking
  <2>3. QED
    BY <1>4, <2>2 DEF Continues, SignInInv, Running
<1>5. ASSUME ~At(r, "idle"), ~At(r, "served"), NEW active \in BOOLEAN, Concludes(r, active)
      PROVE  /\ req' \in [Request -> Running \cup {Idle}] /\ Others
             /\ req'[r].phase \in {"idle", "served"}
             /\ seen' \subseteq Keys \X (0 .. now)
             /\ recorded' \subseteq Keys /\ repeated' \subseteq Keys
  <2>1. CASE ~active /\ Ends(r) /\ UNCHANGED logbook
    BY <1>3, <2>1 DEF SignInInv, UserTable, logbook
  <2>2. ASSUME NEW header \in Role \cup {"none"},
               req' = [req EXCEPT ![r] = [phase |-> "served", oid |-> t.oid,
                                          role |-> ActiveRole(t.roles, header)]],
               RecordLogin(t)
        PROVE  /\ req' \in [Request -> Running \cup {Idle}] /\ Others
               /\ req'[r].phase \in {"idle", "served"}
               /\ seen' \subseteq Keys \X (0 .. now)
               /\ recorded' \subseteq Keys /\ repeated' \subseteq Keys
    <3>1. t.roles \in SUBSET Role /\ t.roles # {}
      BY <1>2, <1>5 DEF Token
    <3>2. ActiveRole(t.roles, header) \in Role
      BY <3>1, CanonicalIsARole DEF ActiveRole
    <3>3. [phase |-> "served", oid |-> t.oid, role |-> ActiveRole(t.roles, header)] \in Running
      BY <1>2, <1>5, <3>2 DEF Running, Served
    <3>4. /\ req' \in [Request -> Running \cup {Idle}] /\ Others
          /\ req'[r].phase = "served"
      BY <2>2, <3>3 DEF SignInInv
    <3>5. QED
      BY <1>2, <1>5, <2>2, <3>4, RecordTypes
  <2>3. QED
    BY <1>5, <2>1, <2>2 DEF Concludes
<1>6. ASSUME NEW k \in tokens, Present(r, k) PROVE SignInInv'
  <2>1. [phase |-> "upsert", token |-> k] \in Running
    BY <1>6 DEF Present, SignInInv, Running, Asking, Useful
  <2>2. req' \in [Request -> Running \cup {Idle}] /\ Others /\ req'[r].phase = "upsert"
    BY <1>6, <2>1 DEF Present, SignInInv, UserTable
  <2>3. UNCHANGED <<directory, users, logbook>>
    BY <1>6 DEF Present
  <2>4. QED
    BY <2>2, <2>3, StepTypes DEF SignInInv, UserTable, logbook, RowIsThere
<1>7. CASE Upsert(r)
  <2>1. At(r, "upsert") /\ ~At(r, "idle") /\ ~At(r, "served")
        /\ Continues(r, "load") /\ UNCHANGED <<directory, logbook>>
    BY <1>7 DEF Upsert, At
  <2>2. t.email \in Email /\ t.oid \in Oid /\ Canonical(t.roles) \in Role
    BY <1>2, <2>1, CanonicalIsARole DEF Token
  <2>3. [email |-> t.email, name |-> t.oid, role |-> Canonical(t.roles), active |-> TRUE] \in Row
    BY <2>2 DEF Row
  <2>4. \/ users' = [users EXCEPT ![t.oid] = [email |-> t.email, name |-> t.oid,
                                              role |-> Canonical(t.roles), active |-> TRUE]]
        \/ /\ users[t.oid] # NoRow
           /\ users' = [users EXCEPT ![t.oid].email = t.email, ![t.oid].name = t.oid]
        \/ \E p \in Oid : users[p] # NoRow /\ users' = [users EXCEPT ![p].name = t.oid]
    BY <1>7 DEF Upsert, HasEmail
  <2>5. users' \in UserTable /\ \A p \in Oid : users[p] # NoRow => users'[p] # NoRow
    <3>1. CASE users' = [users EXCEPT ![t.oid] = [email |-> t.email, name |-> t.oid,
                                                  role |-> Canonical(t.roles), active |-> TRUE]]
      BY <2>2, <2>3, <3>1, SignInAssumption DEF SignInInv, UserTable
    <3>2. CASE /\ users[t.oid] # NoRow
               /\ users' = [users EXCEPT ![t.oid].email = t.email, ![t.oid].name = t.oid]
      <4>1. users' \in UserTable /\ users'[t.oid] # NoRow
        BY <2>2, <3>2, RowsStay, Zenon
      <4>2. \A p \in Oid \ {t.oid} : users'[p] = users[p]
        BY <3>2 DEF SignInInv, UserTable
      <4>3. QED
        BY <4>1, <4>2
    <3>3. ASSUME NEW p \in Oid, users[p] # NoRow,
                 users' = [users EXCEPT ![p].name = t.oid]
          PROVE  users' \in UserTable /\ \A q \in Oid : users[q] # NoRow => users'[q] # NoRow
      <4>1. users' \in UserTable /\ users'[p] # NoRow
        BY <2>2, <3>3, RowsStay, Zenon
      <4>2. \A q \in Oid \ {p} : users'[q] = users[q]
        BY <3>3 DEF SignInInv, UserTable
      <4>3. QED
        BY <4>1, <4>2
    <3>4. QED
      BY <2>4, <3>1, <3>2, <3>3
  <2>6. QED
    BY <1>4, <2>1, <2>5, StepTypes DEF SignInInv, UserTable, logbook, RowIsThere
<1>8. CASE Load(r)
  <2>1. At(r, "load") /\ ~At(r, "idle") /\ ~At(r, "served") /\ UNCHANGED <<directory, users>>
    BY <1>8 DEF Load, At
  <2>2. \/ Ends(r) /\ UNCHANGED logbook
        \/ users[t.oid] # NoRow /\ Continues(r, "sync") /\ UNCHANGED logbook
        \/ users[t.oid] # NoRow /\ Concludes(r, users[t.oid].active)
    BY <1>8 DEF Load
  <2>3. users[t.oid] # NoRow => users[t.oid] \in Row
    BY <1>2, <2>1 DEF SignInInv, UserTable
  <2>4. users[t.oid] # NoRow => users[t.oid].active \in BOOLEAN
    BY <2>3 DEF Row
  <2>5. /\ req' \in [Request -> Running \cup {Idle}] /\ Others
        /\ req'[r].phase \in {"idle", "sync", "served"}
        /\ req'[r].phase = "sync" => req'[r].token = t /\ users[t.oid] # NoRow
        /\ seen' \subseteq Keys \X (0 .. now)
        /\ recorded' \subseteq Keys /\ repeated' \subseteq Keys
    BY <1>3, <1>4, <1>5, <2>1, <2>2, <2>4 DEF SignInInv, UserTable, logbook
  <2>6. QED
    BY <2>1, <2>5, StepTypes DEF SignInInv, UserTable, RowIsThere
<1>9. CASE Sync(r)
  <2>1. At(r, "sync") /\ Continues(r, "reload") /\ UNCHANGED <<directory, logbook>>
    BY <1>9 DEF Sync
  <2>2. t.oid \in Oid /\ Canonical(t.roles) \in Role /\ users[t.oid] # NoRow
    BY <1>2, <2>1, CanonicalIsARole DEF At, Token, SignInInv, UserTable, RowIsThere
  <2>3. users' = [users EXCEPT ![t.oid].role = Canonical(t.roles)]
    BY <1>9 DEF Sync
  <2>4. users' \in UserTable /\ users'[t.oid] # NoRow
    BY <2>2, <2>3, RowsStay, Zenon
  <2>5. \A p \in Oid \ {t.oid} : users'[p] = users[p]
    BY <2>3 DEF SignInInv, UserTable
  <2>6. QED
    BY <1>4, <2>1, <2>4, <2>5, StepTypes DEF SignInInv, UserTable, logbook, RowIsThere, At
<1>10. CASE Reload(r)
  <2>1. At(r, "reload") /\ UNCHANGED <<directory, users, logbook>>
    BY <1>10 DEF Reload
  <2>2. t.oid \in Oid /\ users[t.oid] # NoRow /\ t \in Useful
    BY <1>2, <2>1 DEF At, SignInInv, UserTable, RowIsThere
  <2>3. users[t.oid] \in Row
    BY <2>2 DEF SignInInv, UserTable
  <2>4. users[t.oid].active \in BOOLEAN
    BY <2>3 DEF Row
  <2>5. [phase |-> "event", token |-> t, active |-> users[t.oid].active] \in Running
    BY <2>2, <2>4 DEF Running, Synced
  <2>6. req' \in [Request -> Running \cup {Idle}] /\ Others /\ req'[r].phase = "event"
    BY <1>10, <2>5 DEF Reload, SignInInv
  <2>7. QED
    BY <2>1, <2>6, StepTypes DEF SignInInv, UserTable, logbook, RowIsThere
<1>11. CASE RecordRoleChange(r)
  <2>1. /\ At(r, "event") /\ ~At(r, "idle") /\ ~At(r, "served")
        /\ Concludes(r, req[r].active) /\ UNCHANGED <<directory, users>>
    BY <1>11 DEF RecordRoleChange, At
  <2>2. req[r].active \in BOOLEAN
    <3>1. req[r] \in Synced
      BY <1>2, <2>1 DEF At, Asking
    <3>2. QED
      BY <3>1 DEF Synced
  <2>3. QED
    BY <1>5, <2>1, <2>2, StepTypes DEF SignInInv, UserTable, RowIsThere
<1>12. CASE Finish(r) \/ AuthFails(r)
  <2>1. Ends(r) /\ UNCHANGED <<directory, users, logbook>>
    BY <1>12 DEF Finish, AuthFails
  <2>2. QED
    BY <1>3, <2>1, StepTypes DEF SignInInv, UserTable, logbook, RowIsThere
<1>13. QED
  BY <1>6, <1>7, <1>8, <1>9, <1>10, <1>11, <1>12 DEF Step

\* Requests, rows, tokens and the login map keep their types, whatever Entra ID does.
THEOREM SignInTypes == SignInSpec => []SignInInv
<1>1. SignInInit => SignInInv
  <2> SUFFICES ASSUME SignInInit PROVE SignInInv
    OBVIOUS
  <2>1. account \in [Oid -> [email : Email, roles : SUBSET Role]]
    BY SignInAssumption DEF SignInInit, Role
  <2>2. \A r \in Request : req[r] = Idle /\ RowIsThere(r)
    BY DEF SignInInit, RowIsThere, Idle
  <2>3. tokens \subseteq Token
    <3>1. now = 1 /\ 0 \in 0 .. now
      BY DEF SignInInit
    <3>2. ASSUME NEW o \in Known
          PROVE  [TokenFor(o) EXCEPT !.iat = 0] \in Token
      <4>1. o \in Oid
        BY SignInAssumption
      <4>2. account[o].email \in Email /\ account[o].roles \in SUBSET Role
        BY <2>1, <4>1
      <4>3. QED
        BY <3>1, <4>1, <4>2 DEF TokenFor, Token
    <3>3. QED
      BY <3>2 DEF SignInInit
  <2>4. QED
    BY <2>1, <2>2, <2>3 DEF SignInInit, SignInInv, UserTable
<1>2. SignInInv /\ [SignInNext]_signInVars => SignInInv'
  <2> SUFFICES ASSUME SignInInv, [SignInNext]_signInVars PROVE SignInInv'
    OBVIOUS
  <2>1. CASE UNCHANGED signInVars
    BY <2>1 DEF signInVars, directory, logbook, SignInInv, UserTable, Token, Running,
                Asking, Synced, Served, Useful, Keys, RowIsThere
  <2>2. CASE SignInNext
    BY <2>2, OutsideKeepsTypes, RequestKeepsTypes DEF SignInNext
  <2>3. QED
    BY <2>1, <2>2
<1>3. QED
  BY <1>1, <1>2, PTL DEF SignInSpec

\* The type invariant of SignIn.
THEOREM SignInTypeCorrect == SignInSpec => []SignInTypeOK
<1>1. SignInInv => SignInTypeOK
  <2> SUFFICES ASSUME SignInInv PROVE SignInTypeOK
    OBVIOUS
  <2>1. ASSUME NEW r \in Request, req[r] # Idle
        PROVE  /\ req[r].phase \in {"upsert", "load", "sync", "reload", "event", "served"}
               /\ req[r].phase = "served" => req[r].role \in Role
    <3>1. req[r] \in Running
      BY <2>1 DEF SignInInv
    <3>2. QED
      BY <3>1 DEF Running, Asking, Synced, Served
  <2>2. QED
    BY <2>1 DEF SignInInv, UserTable, SignInTypeOK
<1>2. QED
  BY <1>1, SignInTypes, PTL

-----------------------------------------------------------------------------
(* One LOGIN_SUCCESS per token. *)

\* A sign-in is recorded after its token was issued.
RecordedLater == \A entry \in seen : entry[1][2] <= entry[2]

\* What may still be recorded again is in the map.
FreshIsRecorded ==
    \A key \in recorded : Fresh(key[2]) => \E entry \in seen : entry[1] = key

LoginInv ==
    /\ RecordedLater
    /\ FreshIsRecorded
    /\ OneLoginPerToken

\* Only the login map and the clock matter.
LEMMA LoginsStand ==
    ASSUME SignInInv, LoginInv, UNCHANGED logbook,
           now' \in {now, now + 1}
    PROVE  LoginInv'
<1>1. \A key \in recorded : Fresh(key[2])' => Fresh(key[2])
  BY SignInAssumption DEF SignInInv, UserTable, Keys, Fresh
<1>2. RecordedLater' /\ OneLoginPerToken'
  BY DEF LoginInv, RecordedLater, OneLoginPerToken, logbook
<1>3. FreshIsRecorded'
  BY <1>1 DEF LoginInv, FreshIsRecorded, logbook, Fresh
<1>4. QED
  BY <1>2, <1>3 DEF LoginInv

\* prune keeps what stands for a fresh token.
LEMMA PruneKeepsFresh ==
    ASSUME SignInInv, RecordedLater,
           NEW entry \in seen, Fresh(entry[1][2])
    PROVE  entry \in Kept
<1>1. entry[1][2] \in Nat /\ entry[2] \in Nat /\ entry[1][2] <= entry[2] /\ now \in Nat
  BY DEF SignInInv, UserTable, Keys, RecordedLater
<1>2. now - entry[2] <= Window
  BY <1>1, SignInAssumption DEF Fresh
<1>3. QED
  BY <1>2 DEF Kept

\* recordLoginSuccess.
LEMMA RecordKeepsLogins ==
    ASSUME SignInInv, LoginInv,
           NEW t \in Token, RecordLogin(t), now' = now
    PROVE  LoginInv'
<1>1. CASE UNCHANGED logbook
  BY <1>1, LoginsStand
<1>. DEFINE full == Cardinality(Kept) > MaxEntries
            before == IF full THEN {} ELSE recorded
<1>2. CASE /\ Fresh(t.iat)
           /\ \A entry \in seen : entry[1] # Key(t)
           /\ seen' = (IF full THEN {} ELSE Kept) \cup {<<Key(t), now>>}
           /\ recorded' = before \cup {Key(t)}
           /\ repeated' = repeated \cup (before \cap {Key(t)})
  <2>1. Key(t)[2] = t.iat /\ t.iat <= now
    BY DEF Key, Token, SignInInv
  <2>2. seen' \subseteq seen \cup {<<Key(t), now>>}
    BY <1>2 DEF Kept
  <2>3. RecordedLater'
    BY <2>1, <2>2 DEF LoginInv, RecordedLater
  <2>. HIDE DEF full
  <2>4. FreshIsRecorded'
    <3> SUFFICES ASSUME NEW key \in recorded', Fresh(key[2])
                 PROVE  \E entry \in seen' : entry[1] = key
      BY DEF FreshIsRecorded, Fresh
    <3>1. CASE key = Key(t)
      <4>1. <<Key(t), now>> \in seen' /\ <<Key(t), now>>[1] = key
        BY <1>2, <3>1
      <4>2. QED
        BY <4>1
    <3>2. CASE ~full /\ key \in recorded
      <4>1. PICK entry \in seen : entry[1] = key
        BY <3>2 DEF LoginInv, FreshIsRecorded
      <4>2. entry \in Kept
        BY <4>1, PruneKeepsFresh DEF LoginInv
      <4>3. QED
        BY <1>2, <3>2, <4>1, <4>2
    <3>3. QED
      BY <1>2, <3>1, <3>2
  <2>5. OneLoginPerToken'
    <3>1. repeated = {}
      BY DEF LoginInv, OneLoginPerToken
    <3>2. Key(t) \notin recorded
      BY <1>2, <2>1 DEF LoginInv, FreshIsRecorded
    <3>3. QED
      BY <1>2, <3>1, <3>2 DEF OneLoginPerToken
  <2>6. QED
    BY <2>3, <2>4, <2>5 DEF LoginInv
<1>3. QED
  BY <1>1, <1>2 DEF RecordLogin

\* A request records the sign-in with the token it came with.
LEMMA RequestKeepsLogins ==
    ASSUME SignInInv, LoginInv, NEW r \in Request, Step(r)
    PROVE  LoginInv'
<1>1. now' = now
  BY DEF Step, Upsert, Load, Sync, Reload, RecordRoleChange,
         Finish, AuthFails, directory
<1>2. ASSUME NEW active, req[r].phase \in {"load", "event"}, Concludes(r, active)
      PROVE  LoginInv'
  <2>1. req[r] \in Running
    BY <1>2 DEF SignInInv, Idle
  <2>2. req[r].token \in Token
    <3>1. req[r] \in Asking \cup Synced
      BY <1>2, <2>1 DEF Running, Served
    <3>2. req[r].token \in Useful
      BY <3>1 DEF Asking, Synced
    <3>3. QED
      BY <3>2 DEF Useful
  <2>3. QED
    BY <1>1, <1>2, <2>2, LoginsStand, RecordKeepsLogins DEF Concludes, SignInInv, UserTable
<1>3. CASE Load(r)
  BY <1>1, <1>2, <1>3, LoginsStand DEF Load, At, SignInInv, UserTable
<1>4. CASE RecordRoleChange(r)
  BY <1>2, <1>4 DEF RecordRoleChange, At
<1>5. CASE Upsert(r) \/ Sync(r) \/ Reload(r) \/ Finish(r) \/ AuthFails(r)
  <2>1. UNCHANGED logbook
    BY <1>5 DEF Upsert, Sync, Reload, Finish, AuthFails
  <2>2. QED
    BY <1>1, <2>1, LoginsStand
<1>6. QED
  BY <1>3, <1>4, <1>5 DEF Step

\* recordLoginSuccess: however often and from however many requests a token is used,
\* it brings at most one LOGIN_SUCCESS event before the map is next emptied, at its cap
\* or with the process.
THEOREM OneLogin == SignInSpec => []OneLoginPerToken
<1>1. SignInInit => LoginInv
  BY DEF SignInInit, LoginInv, RecordedLater, FreshIsRecorded, OneLoginPerToken
<1>2. SignInInv /\ LoginInv /\ [SignInNext]_signInVars => LoginInv'
  <2> SUFFICES ASSUME SignInInv, LoginInv, [SignInNext]_signInVars PROVE LoginInv'
    OBVIOUS
  <2>1. CASE UNCHANGED signInVars
    BY <2>1, LoginsStand DEF signInVars, directory
  <2>2. ASSUME NEW o \in Oid, \/ ChangeAccount(o) \/ IssueToken(o)
                              \/ \E active \in BOOLEAN : SetActive(o, active)
        PROVE  LoginInv'
    BY <2>2, LoginsStand DEF ChangeAccount, IssueToken, SetActive
  <2>3. CASE Tick \/ \E t \in tokens : TokenExpires(t)
    BY <2>3, LoginsStand DEF Tick, TokenExpires
  <2>4. ASSUME NEW r \in Request, NEW t \in tokens, Present(r, t) PROVE LoginInv'
    BY <2>4, LoginsStand DEF Present, directory
  <2>5. CASE Restart
    BY <2>5 DEF Restart, LoginInv, RecordedLater, FreshIsRecorded, OneLoginPerToken
  <2>6. QED
    BY <2>1, <2>2, <2>3, <2>4, <2>5, RequestKeepsLogins DEF SignInNext
<1>3. LoginInv => OneLoginPerToken
  BY DEF LoginInv
<1>4. QED
  BY <1>1, <1>2, <1>3, SignInTypes, PTL DEF SignInSpec
=============================================================================
