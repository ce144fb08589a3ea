----------------------------- MODULE PtsWaiter -----------------------------
(***************************************************************************)
(* The gap detector of one update box (data/data_pts_waiter).              *)
(*                                                                         *)
(* The server numbers the changes of a box 1, 2, 3...; an update carries   *)
(* the number `pts' of its last change and the number `count' of changes   *)
(* it stands for.  A PtsWaiter decides whether an update may be applied    *)
(* now, has to wait for the ones before it, or is already covered.  Its    *)
(* methods are operators from one state of the waiter to the next one.     *)
(*                                                                         *)
(* A waiter is a record:                                                   *)
(*   good, last, count      _good, _last and _count                        *)
(*   requesting             _requesting: a difference has been asked for   *)
(*   waitingForSkipped      _waitingForSkipped                             *)
(*   waitingForShortPoll    _waitingForShortPoll                           *)
(*   queue                  _queue with its payloads, the updates put off  *)
(*   byPts                  the box has an entry in the ByPts timer        *)
(* and three history components that no guard of the code reads:           *)
(*   applied                the changes whose update was applied           *)
(*   seen                   the changes counted since the last restart of  *)
(*                          the count, that is, since good last changed    *)
(*   base                   the changes up to here came with a snapshot    *)
(*                          (updates.getState, a dialog, a history slice)  *)
(* The module is about boxes whose _applySkippedLevel is zero between two  *)
(* events: it is positive only inside ApplySkippedUpdates.                 *)
(***************************************************************************)
EXTENDS Integers, FiniteSets

\* The changes an update stands for.
Points(e) == (e.pts - e.count + 1) .. e.pts

\* applyUpdateNoPtsCheck and applyUpdatesNoPtsCheck, for a set of updates.
ApplyNoPtsCheck(w, S) ==
    [w EXCEPT !.applied = @ \cup UNION {Points(e) : e \in S}]

ClearSkippedUpdates(w) == [w EXCEPT !.queue = {}]

\* PtsWaiter::init.
InitPts(w, pts) ==
    [ClearSkippedUpdates(w) EXCEPT
        !.good = pts, !.last = pts, !.count = pts, !.seen = {}]

\* init with the pts of a snapshot: what came before is not an update's work.
Rebase(w, pts) == [InitPts(w, pts) EXCEPT !.base = pts]

Inited(w) == w.good > 0

SetRequesting(w, on) ==
    IF on THEN [ClearSkippedUpdates(w) EXCEPT !.requesting = TRUE]
          ELSE [w EXCEPT !.requesting = FALSE]

\* A mutant: the timer entry goes away although somebody else waits.
CancelsForAll(w) == [w EXCEPT !.byPts = FALSE]

\* The timer entry goes away only when nobody waits any more.
CheckForWaiting(w) ==
    IF w.waitingForSkipped \/ w.waitingForShortPoll
    THEN w ELSE [w EXCEPT !.byPts = FALSE]

\* A mutant: the flag is set, the timer is not started.
FlagWithoutTimer(w, on) ==
    IF on THEN [w EXCEPT !.waitingForSkipped = TRUE]
          ELSE CheckForWaiting([w EXCEPT !.waitingForSkipped = FALSE])

SetWaitingForSkipped(w, on) ==
    IF on THEN [w EXCEPT !.waitingForSkipped = TRUE, !.byPts = TRUE]
          ELSE CheckForWaiting([w EXCEPT !.waitingForSkipped = FALSE])

SetWaitingForShortPoll(w, on) ==
    IF on THEN [w EXCEPT !.waitingForShortPoll = TRUE, !.byPts = TRUE]
          ELSE CheckForWaiting([w EXCEPT !.waitingForShortPoll = FALSE])

ApplySkippedUpdates(w) ==
    IF ~w.waitingForSkipped
    THEN w
    ELSE LET off == SetWaitingForSkipped(w, FALSE)
         IN  ClearSkippedUpdates(ApplyNoPtsCheck(off, off.queue))

----------------------------------------------------------------------------
\* A mutant: the pts after the update instead of its own.
CountsOneBeyond(w, e) ==
    [w EXCEPT !.last  = IF e.pts + 1 > @ THEN e.pts + 1 ELSE @,
              !.count = @ + e.count,
              !.seen  = @ \cup Points(e)]

\* PtsWaiter::check in two parts: what it does to the counters ...
Counted(w, e) ==
    [w EXCEPT !.last  = IF e.pts > @ THEN e.pts ELSE @,
              !.count = @ + e.count,
              !.seen  = @ \cup Points(e)]

\* A mutant: any count will do.
NoGapLoose(w) == w.last >= w.count

NoGap(w) == w.last = w.count

Check(w, e) ==
    LET c == Counted(w, e)
    IN  IF ~Inited(w) THEN Rebase(w, e.pts)
        ELSE IF NoGap(c) THEN [c EXCEPT !.good = c.last, !.seen = {}]
        ELSE SetWaitingForSkipped(c, TRUE)

\* ... and what it answers: FALSE asks the caller to put the update off.
CheckOk(w, e) ==
    \/ ~Inited(w)
    \/ NoGap(Counted(w, e))
    \/ e.count = 0

\* PtsWaiter::updated up to the queue.  While a difference is requested
\* every update is let through and nothing is counted.
Covered(w, e) == e.pts <= w.good /\ e.count > 0

Queued(w, e) == [w EXCEPT !.queue = @ \cup {e}]

\* A mutant: an update already covered by _good is counted again.
CountsCovered(w, e) ==
    IF w.requesting THEN w ELSE Check(w, e)

\* A mutant: updates are counted while a difference is on the way.
CountsWhileRequesting(w, e) ==
    IF Covered(w, e) THEN w ELSE Check(w, e)

\* The waiter after updated, before the payload is applied.
AfterCheck(w, e) ==
    IF w.requesting \/ Covered(w, e) THEN w ELSE Check(w, e)

Updated(w, e) == w.requesting \/ (~Covered(w, e) /\ CheckOk(w, e))

\* A mutant: an update that has to wait is applied at once.
AppliesAtOnce(w, e) == ApplyNoPtsCheck(AfterCheck(w, e), {e})

\* updateAndApply(channel, pts, count, update) and its MTPUpdates twin.
UpdateAndApply(w, e) ==
    LET c == AfterCheck(w, e)
    IN  IF ~Updated(w, e)
        THEN IF Covered(w, e) THEN w ELSE Queued(c, e)
        ELSE IF ~c.waitingForSkipped \/ c.queue = {}
             THEN ApplyNoPtsCheck(c, {e})
             ELSE ApplySkippedUpdates(Queued(c, e))

\* updateAndApply(channel, pts, count): the caller has applied the change
\* itself, there is nothing to put off.
UpdateAndApplyCounts(w, e) ==
    LET c == AfterCheck(w, e)
    IN  IF Updated(w, e) THEN ApplySkippedUpdates(c) ELSE c
=============================================================================
