----------------------------- MODULE LossyQueue -----------------------------
(***************************************************************************)
(* What log shipping promises, whoever sends and however often: lines wait *)
(* in the order they were logged and leave from the front, at most Batch   *)
(* at a time.  A line stops waiting only when it has been stored, has been *)
(* refused by the endpoint, or is dropped because Capacity newer lines     *)
(* wait behind it; and no line is invented.  A line may be stored and go   *)
(* on waiting, if the answer was lost: it is stored at least once.         *)
(* LogTransport is shown to implement this module.                         *)
(***************************************************************************)
EXTENDS Naturals, Sequences

CONSTANTS Capacity,  \* newest lines that are never dropped
          Batch      \* lines that leave at a time

VARIABLES count,     \* lines logged so far; the line logged last is this number
          waiting,   \* those that still have to leave, oldest first
          stored,    \* those the endpoint has
          lost       \* those refused or dropped

vars == <<count, waiting, stored, lost>>

Among(s, i, j) == {s[n] : n \in i .. j}
First(k) == Among(waiting, 1, k)

Init == count = 0 /\ waiting = <<>> /\ stored = {} /\ lost = {}

\* What is left of s when a stretch of it has been dropped, or nothing has.
Trims(s) ==
    \E j \in 0 .. Len(s) : \E i \in 0 .. j :
        /\ i = j \/ j + Capacity <= Len(s)
        /\ waiting' = SubSeq(s, 1, i) \o SubSeq(s, j + 1, Len(s))
        /\ lost' = lost \cup Among(s, i + 1, j)

Accept ==
    /\ count' = count + 1
    /\ Trims(Append(waiting, count + 1))
    /\ UNCHANGED stored

Leave(k) == waiting' = SubSeq(waiting, k + 1, Len(waiting))

Store(k) ==
    /\ Leave(k)
    /\ stored' = stored \cup First(k)
    /\ UNCHANGED <<count, lost>>

Refuse(k) ==
    /\ Leave(k)
    /\ lost' = lost \cup First(k)
    /\ UNCHANGED <<count, stored>>

\* The answer is lost, and with it whether the lines were stored.
Retry(k) ==
    /\ stored' \in {stored, stored \cup First(k)}
    /\ Trims(waiting)
    /\ UNCHANGED count

Next ==
    \/ Accept
    \/ \E k \in 1 .. Batch : k <= Len(waiting) /\ (Store(k) \/ Refuse(k) \/ Retry(k))

Spec == Init /\ [][Next]_vars
=============================================================================
