---------------------------- MODULE QueryCache ----------------------------
(***************************************************************************)
(* One entry of the client's query cache (TanStack Query 5, the library    *)
(* under src/client/src/queries), as pure operators on a record:           *)
(*                                                                         *)
(*   data    {} before the first answer, else {value}                      *)
(*   fetch   "idle", or how far the request is: "asked" until the server   *)
(*           has read everything, then "answered"                          *)
(*   answer  what the server has read so far for the request: {} or {value}*)
(*   before  data, stale and failed as they were when the request began    *)
(*   stale   marked invalid: the next mount asks again                     *)
(*   failed  the last request failed and nothing has succeeded since       *)
(*   late    the entry was invalidated during its request, which was not   *)
(*           restarted, and whose answer will count as new                 *)
(*   missed  the data are such an answer.  Both are ghosts: the library    *)
(*           does not know.                                                *)
(*                                                                         *)
(* A failed query is repeated once (lib/queryClient.ts); both attempts are *)
(* one request here, which fails when the second does.                     *)
(***************************************************************************)

NotAsked == [data |-> {}, stale |-> FALSE, failed |-> FALSE]

Empty == [data |-> {}, fetch |-> "idle", answer |-> {}, before |-> NotAsked,
          stale |-> FALSE, failed |-> FALSE, late |-> FALSE, missed |-> FALSE]

Loaded(e) == e.data # {}
Fetching(e) == e.fetch # "idle"

\* A request starts; without data an earlier failure is forgotten.
Ask(e) == [e EXCEPT !.fetch = "asked", !.answer = {}, !.failed = @ /\ Loaded(e), !.late = FALSE,
                    !.before = [data |-> e.data, stale |-> e.stale, failed |-> e.failed]]

\* A component starts to use the entry; old: its data passed their stale time.
Mount(e, old) ==
    IF ~Fetching(e) /\ (~Loaded(e) \/ e.stale \/ old) THEN Ask(e) ELSE e

\* invalidateQueries: an entry in use is asked for again, and a request under
\* way is given up for it, unless it is the first one: that one is kept.
Invalidate(e, inUse) ==
    LET marked == [e EXCEPT !.stale = TRUE]
    IN  IF inUse /\ (Loaded(e) \/ ~Fetching(e)) THEN Ask(marked)
        ELSE [marked EXCEPT !.late = @ \/ Fetching(e)]

\* cancelQueries: the entry is as it was when the request began, and a mark it
\* got since is gone.
Cancel(e) ==
    IF Fetching(e)
    THEN [e EXCEPT !.fetch = "idle", !.answer = {}, !.data = e.before.data,
                   !.stale = e.before.stale, !.failed = e.before.failed,
                   !.before = NotAsked, !.late = FALSE]
    ELSE e

\* setQueryData: written data count as new; a request under way goes on.
Write(e, value) == [e EXCEPT !.data = {value}, !.stale = FALSE, !.failed = FALSE]

\* The server has read (part of) the answer.
Read(e, value, complete) ==
    [e EXCEPT !.answer = {value}, !.fetch = IF complete THEN "answered" ELSE "asked"]

\* The answer arrives.
Arrive(e) == [e EXCEPT !.data = e.answer, !.answer = {}, !.fetch = "idle",
                       !.stale = FALSE, !.failed = FALSE,
                       !.before = NotAsked, !.missed = e.late, !.late = FALSE]

\* Both attempts have failed; data of an earlier answer stay, marked invalid.
Fail(e) == [e EXCEPT !.fetch = "idle", !.answer = {}, !.failed = TRUE, !.stale = TRUE,
                     !.before = NotAsked, !.late = FALSE]
=============================================================================
