--------------------------- MODULE ScheduledReviews ---------------------------
(***************************************************************************)
(* Scheduled reviews (apps/worker/src/schedules.ts and                     *)
(* packages/db/src/schedule-service.ts).  Every worker process polls the   *)
(* due schedules once a minute, without waiting for its former poll, and   *)
(* behind a cursor that its polls share.  The due timestamp of a row is    *)
(* its one pending occurrence: a poll takes it by comparing the row with   *)
(* what it read, in the transaction that creates the scan, and gives it    *)
(* back when the scan provably never reached the queue.  Meanwhile owners  *)
(* edit their schedules, and scans run, end, are cancelled or reconciled   *)
(* (ScanLifecycle has their steps; here they are one each).                *)
(***************************************************************************)
EXTENDS Integers, Sequences, FiniteSets

CONSTANTS
    Last,           \* schedules are 1..Last, in the order of their ids
    Poll,           \* the polls that may overlap
    Host,           \* worker processes
    HostOf,         \* [Poll -> Host]
    Owner,          \* [Schedule -> User]: createdById, whose one slot a scan takes
    User,
    Page,           \* rows that getDueSchedules reads: 50
    Unready,        \* schedules whose relay is unavailable: always deferred
    Unsupported,    \* schedules whose stored cron is not supported
    Edited,         \* schedules that their owners edit
    MaxTime,        \* bound: ticks of the cadence, and edits
    Mishaps,        \* "worker", "queue", "uncertain", "denied", "query", "crash"
    MaxMishaps      \* bound: how many of them happen

Schedule == 1..Last
Modes    == {"quick", "deep"}

ASSUME CadenceAssumption == Last \in Nat /\ Page \in Nat /\ MaxTime \in Nat /\ MaxMishaps \in Nat
ASSUME OwnersAssumption  ==
    HostOf \in [Poll -> Host] /\ Owner \in [Schedule -> User] /\ Edited \subseteq Schedule
ASSUME MishapsAssumption ==
    Mishaps \subseteq {"worker", "queue", "uncertain", "denied", "query", "crash"}

VARIABLES
    now,            \* the time
    row,            \* per schedule: enabled, mode, updated (updatedAt), next (nextRunAt),
                    \* taken (lastRunAt), scan (lastScanId)
    scans,          \* the scans created so far: sched, due, mode, status
    slot,           \* per user: the scan in UserScanSlot, or 0
    cursor,         \* per process: dueScheduleCursor.afterId, or 0
    poll,           \* what each poll is doing
    mishaps         \* faults so far
vars == <<now, row, scans, slot, cursor, poll, mishaps>>

-----------------------------------------------------------------------------
NoRow   == [id |-> 0, mode |-> "quick", updated |-> 0, next |-> 0, taken |-> 0]
Resting == [pc |-> "idle", start |-> 0, rows |-> {}, read |-> 0, mine |-> NoRow, scan |-> 0,
            stale |-> FALSE]

(* Every schedule has an occurrence that is due. *)
Init ==
    /\ now = 0
    /\ row = [s \in Schedule |-> [enabled |-> TRUE, mode |-> "quick", updated |-> 0,
                                  next |-> 0, taken |-> 0, scan |-> 0]]
    /\ scans = <<>>
    /\ slot = [u \in User |-> 0]
    /\ cursor = [h \in Host |-> 0]
    /\ poll = [p \in Poll |-> Resting]
    /\ mishaps = 0

At(p, pc)    == poll[p].pc = pc
Goes(p, to)  == poll' = [poll EXCEPT ![p].pc = to]
Mishap(kind) == kind \in Mishaps /\ mishaps < MaxMishaps /\ mishaps' = mishaps + 1

NextRun(t)   == t + 1                   \* getNextRunAt: strictly later

(* getDueSchedules *)
Due(s, t)      == row[s].enabled /\ row[s].next <= t
Copy(s)        == [id |-> s, mode |-> row[s].mode, updated |-> row[s].updated,
                   next |-> row[s].next, taken |-> row[s].taken]
DueAfter(after, t) ==
    LET due == {s \in Schedule : s > after /\ Due(s, t)}
    IN  {s \in due : Cardinality({r \in due : r < s}) < Page}

(* Mutant: the cursor is the id to start from, and not the last one done. *)
SlipMoves(p, after, to) ==
    LET h == HostOf[p] IN
    /\ cursor' = [cursor EXCEPT ![h] = after + 1]
    /\ poll' = [q \in Poll |->
          IF q = p THEN to
          ELSE IF HostOf[q] = h /\ cursor[h] # after + 1 THEN [poll[q] EXCEPT !.stale = TRUE]
          ELSE poll[q]]

(* A poll moves the shared cursor while it still is the one that it knows; a   *)
(* real move makes every other poll of the process stale.                      *)
Moves(p, after, to) ==
    LET h == HostOf[p] IN
    /\ cursor' = [cursor EXCEPT ![h] = after]
    /\ poll' = [q \in Poll |->
          IF q = p THEN to
          ELSE IF HostOf[q] = h /\ cursor[h] # after THEN [poll[q] EXCEPT !.stale = TRUE]
          ELSE poll[q]]

-----------------------------------------------------------------------------
(* A poll *)

Start(p) ==
    /\ At(p, "idle")
    /\ poll' = [poll EXCEPT ![p] = [Resting EXCEPT !.pc = "read", !.start = now]]
    /\ UNCHANGED <<now, row, scans, slot, cursor, mishaps>>

(* A poll whose cursor was moved while it read stops. *)
Overtaken(p) ==
    /\ poll[p].pc \in {"read", "row"} /\ poll[p].stale
    /\ poll' = [poll EXCEPT ![p] = Resting]
    /\ UNCHANGED <<now, row, scans, slot, cursor, mishaps>>

(* Nothing is due after the cursor: it goes back to the first id, to read once *)
(* more.                                                                       *)
Read(p) ==
    LET after == cursor[HostOf[p]]
        ids   == DueAfter(after, poll[p].start)
    IN
    /\ At(p, "read") /\ ~ poll[p].stale
    /\ IF ids = {} /\ after # 0
       THEN Moves(p, 0, poll[p])
       ELSE /\ poll' = [poll EXCEPT ![p] = [@ EXCEPT !.pc = "row", !.read = Cardinality(ids),
                                                     !.rows = {Copy(s) : s \in ids}]]
            /\ UNCHANGED cursor
    /\ UNCHANGED <<now, row, scans, slot, mishaps>>

(* The 15 s are over, and at least one row has been processed.                 *)
OutOfTime(p) ==
    /\ At(p, "row") /\ poll[p].rows # {} /\ Cardinality(poll[p].rows) < poll[p].read
    /\ poll' = [poll EXCEPT ![p] = Resting]
    /\ UNCHANGED <<now, row, scans, slot, cursor, mishaps>>

(* The traversal is over: a short page that was processed starts from the      *)
(* first id again.                                                             *)
Finish(p) ==
    /\ \/ At(p, "row") /\ ~ poll[p].stale /\ poll[p].rows = {}
       \/ At(p, "end")
    /\ IF poll[p].rows = {} /\ poll[p].read < Page /\ ~ poll[p].stale
       THEN Moves(p, 0, Resting)
       ELSE poll' = [poll EXCEPT ![p] = Resting] /\ UNCHANGED cursor
    /\ UNCHANGED <<now, row, scans, slot, mishaps>>

-----------------------------------------------------------------------------
(* One row of a poll *)

Mine(p) == poll[p].mine

(* The rows are taken in the order of their ids. *)
Takes(p, copy, to) ==
    /\ At(p, "row") /\ ~ poll[p].stale /\ copy \in poll[p].rows
    /\ \A other \in poll[p].rows : copy.id <= other.id
    /\ poll' = [poll EXCEPT ![p] = [@ EXCEPT !.pc = to, !.mine = copy,
                                              !.rows = poll[p].rows \ {copy}]]

Active(n)     == scans[n].status \in {"QUEUED", "PUBLISHED"}
TargetBusy(s) == \E n \in DOMAIN scans : scans[n].sched = s /\ Active(n)

(* A cron that is not supported disables the row; a worker that is not         *)
(* available ends the poll; the rest is scheduledScanAdmission.                *)
Disable(p, copy) ==
    LET s == copy.id IN
    /\ s \in Unsupported /\ Takes(p, copy, "next")
    /\ row' = IF row[s].updated = copy.updated
              THEN [row EXCEPT ![s] = [@ EXCEPT !.enabled = FALSE, !.updated = now]] ELSE row
    /\ UNCHANGED <<now, scans, slot, cursor, mishaps>>

Admit(p, copy) ==
    LET s == copy.id IN
    /\ s \notin Unsupported
    /\ \/ Mishap("worker") /\ Takes(p, copy, "leave")
       \/ Mishap("denied") /\ Takes(p, copy, "block")
       \/ (s \in Unready \/ TargetBusy(s)) /\ Takes(p, copy, "next") /\ UNCHANGED mishaps
       \/ s \notin Unready /\ ~ TargetBusy(s) /\ Takes(p, copy, "claim") /\ UNCHANGED mishaps
    /\ UNCHANGED <<now, row, scans, slot, cursor>>

(* Mutant: the row is not compared with what the poll read. *)
SlipPending(copy, t) == row[copy.id].enabled

(* Mutant: only the timestamps are compared. *)
SwapPending(copy, t) ==
    LET r == row[copy.id] IN r.enabled /\ r.next = copy.next /\ r.next <= t

(* pendingOccurrenceWhere *)
Pending(copy, t) ==
    LET r == row[copy.id] IN
    /\ r.enabled /\ r.updated = copy.updated /\ r.next = copy.next /\ r.next <= t

(* advanceBlockedSchedule: a denial takes the occurrence, for its reason. *)
Block(p) ==
    LET s == Mine(p).id IN
    /\ At(p, "block")
    /\ row' = IF Pending(Mine(p), poll[p].start)
              THEN [row EXCEPT ![s] = [@ EXCEPT !.taken = poll[p].start, !.updated = now,
                                                !.next = NextRun(poll[p].start)]]
              ELSE row
    /\ Goes(p, "next")
    /\ UNCHANGED <<now, scans, slot, cursor, mishaps>>

(* createScheduledScan: the occurrence, its scan and its slot in one           *)
(* transaction, which contention for the slot or the target rolls back.        *)
Claim(p) ==
    LET copy == Mine(p)
        s    == copy.id
        n    == Len(scans) + 1
    IN
    /\ At(p, "claim")
    /\ IF Pending(copy, poll[p].start) /\ slot[Owner[s]] = 0 /\ ~ TargetBusy(s)
       THEN /\ row' = [row EXCEPT ![s] =
                  [@ EXCEPT !.taken = poll[p].start, !.updated = poll[p].start,
                            !.next = NextRun(poll[p].start), !.scan = n]]
            /\ scans' = Append(scans, [sched |-> s, due |-> copy.next, mode |-> copy.mode,
                                       status |-> "QUEUED"])
            /\ slot' = [slot EXCEPT ![Owner[s]] = n]
            /\ poll' = [poll EXCEPT ![p] = [@ EXCEPT !.pc = "enqueue", !.scan = n]]
       ELSE Goes(p, "next") /\ UNCHANGED <<row, scans, slot>>
    /\ UNCHANGED <<now, cursor, mishaps>>

(* enqueueScan: added, of uncertain outcome, or proven not to be added. *)
Enqueue(p) ==
    LET n == poll[p].scan IN
    /\ At(p, "enqueue")
    /\ \/ /\ scans' = IF scans[n].status = "QUEUED"
                     THEN [scans EXCEPT ![n].status = "PUBLISHED"] ELSE scans
          /\ Goes(p, "next") /\ UNCHANGED mishaps
       \/ Mishap("uncertain") /\ Goes(p, "next") /\ UNCHANGED scans
       \/ Mishap("queue") /\ Goes(p, "fail") /\ UNCHANGED scans
    /\ UNCHANGED <<now, row, slot, cursor>>

(* updateScanStatus throws when the owner has cancelled the scan before. *)
Fail(p) ==
    LET n == poll[p].scan IN
    /\ At(p, "fail")
    /\ IF scans[n].status = "QUEUED"
       THEN scans' = [scans EXCEPT ![n].status = "FAILED"] /\ Goes(p, "release")
       ELSE Goes(p, "next") /\ UNCHANGED scans
    /\ UNCHANGED <<now, row, slot, cursor, mishaps>>

Freed(n) == [slot EXCEPT ![Owner[scans[n].sched]] = IF @ = n THEN 0 ELSE @]

(* releaseUnstartedScanSlot *)
Release(p) ==
    /\ At(p, "release")
    /\ slot' = Freed(poll[p].scan)
    /\ Goes(p, "restore")
    /\ UNCHANGED <<now, row, scans, cursor, mishaps>>

(* restoreUnsubmittedScheduleOccurrence: only while the row is as the claim    *)
(* left it, and its scan failed before it started and has no slot.             *)
Untouched(p) ==
    LET r == row[Mine(p).id] IN
    /\ r.enabled /\ r.updated = poll[p].start /\ r.taken = poll[p].start
    /\ r.next = NextRun(poll[p].start) /\ r.scan = poll[p].scan

Restore(p) ==
    LET s == Mine(p).id
        n == poll[p].scan
    IN
    /\ At(p, "restore")
    /\ row' = IF scans[n].status = "FAILED" /\ slot[Owner[s]] # n /\ Untouched(p)
              THEN [row EXCEPT ![s] = [@ EXCEPT !.next = Mine(p).next, !.taken = Mine(p).taken,
                                                !.updated = now]]
              ELSE row
    /\ Goes(p, "next")
    /\ UNCHANGED <<now, scans, slot, cursor, mishaps>>

(* An exception within a row is logged; the traversal goes on. *)
Throws(p) ==
    /\ poll[p].pc \in {"block", "claim", "fail", "release", "restore"}
    /\ Mishap("query")
    /\ Goes(p, "next")
    /\ UNCHANGED <<now, row, scans, slot, cursor>>

Unreadable(p, copy) ==
    /\ Mishap("query") /\ Takes(p, copy, "next")
    /\ UNCHANGED <<now, row, scans, slot, cursor>>

(* Mutant: every poll starts from the first id. *)
SlipPassed(p) ==
    LET to == IF At(p, "leave") THEN "end" ELSE "row" IN
    /\ poll[p].pc \in {"next", "leave"}
    /\ poll' = [poll EXCEPT ![p] = [@ EXCEPT !.pc = to, !.mine = NoRow, !.scan = 0]]
    /\ UNCHANGED <<now, row, scans, slot, cursor, mishaps>>

(* The row is done, whatever came of it; without a worker it is the last.      *)
Passed(p) ==
    LET to == IF At(p, "leave") THEN "end" ELSE "row" IN
    /\ poll[p].pc \in {"next", "leave"}
    /\ IF poll[p].stale THEN poll' = [poll EXCEPT ![p] = Resting] /\ UNCHANGED cursor
       ELSE Moves(p, Mine(p).id, [poll[p] EXCEPT !.pc = to, !.mine = NoRow, !.scan = 0])
    /\ UNCHANGED <<now, row, scans, slot, mishaps>>

(* The process dies, its polls and its cursor with it. *)
Crash(h) ==
    /\ \E p \in Poll : HostOf[p] = h /\ ~ At(p, "idle")
    /\ Mishap("crash")
    /\ poll' = [p \in Poll |-> IF HostOf[p] = h THEN Resting ELSE poll[p]]
    /\ cursor' = [cursor EXCEPT ![h] = 0]
    /\ UNCHANGED <<now, row, scans, slot>>

-----------------------------------------------------------------------------
(* Owners *)

Tick == now < MaxTime /\ now' = now + 1 /\ UNCHANGED <<row, scans, slot, cursor, poll, mishaps>>

(* updateSchedule and deleteSchedule: an edit has a millisecond of its own.  A *)
(* new cron moves the occurrence; switching the schedule off (deletion too),   *)
(* on, or to another mode leaves it.                                           *)
Edit(s) ==
    /\ now < MaxTime /\ now' = now + 1
    /\ \/ row' = [row EXCEPT ![s] = [@ EXCEPT !.next = NextRun(now + 1), !.updated = now + 1]]
       \/ row' = [row EXCEPT ![s] = [@ EXCEPT !.enabled = ~ row[s].enabled,
                                                !.updated = now + 1]]
       \/ \E m \in Modes \ {row[s].mode} :
             row' = [row EXCEPT ![s] = [@ EXCEPT !.mode = m, !.updated = now + 1]]
    /\ UNCHANGED <<scans, slot, cursor, poll, mishaps>>

-----------------------------------------------------------------------------
(* Scans *)

Becomes(n, status) == scans' = [scans EXCEPT ![n].status = status]

(* A published scan runs and ends; either may be cancelled before. *)
EndScan(n) ==
    /\ scans[n].status = "PUBLISHED"
    /\ Becomes(n, "ENDED") /\ slot' = Freed(n)
    /\ UNCHANGED <<now, row, cursor, poll, mishaps>>

CancelScan(n) ==
    /\ scans[n].status = "QUEUED"
    /\ Becomes(n, "ENDED") /\ slot' = Freed(n)
    /\ UNCHANGED <<now, row, cursor, poll, mishaps>>

(* Reconciliation fails a scan without a job, long after its poll is gone.     *)
Abandoned(n) == \A p \in Poll : poll[p].scan # n
Reconcile(n) ==
    /\ Abandoned(n)
    /\ scans[n].status = "QUEUED"
    /\ Becomes(n, "FAILED") /\ slot' = Freed(n)
    /\ UNCHANGED <<now, row, cursor, poll, mishaps>>

-----------------------------------------------------------------------------
Row(p)   == \/ \E copy \in poll[p].rows : Disable(p, copy) \/ Admit(p, copy)
            \/ Block(p) \/ Claim(p) \/ Enqueue(p) \/ Fail(p) \/ Release(p) \/ Restore(p)
            \/ Passed(p)
Polls(p) == Read(p) \/ Overtaken(p) \/ OutOfTime(p) \/ Finish(p) \/ Row(p)
Errs(p)  == Throws(p) \/ \E copy \in poll[p].rows : Unreadable(p, copy)
Runs(n) == EndScan(n) \/ Reconcile(n)

Next ==
    \/ Tick
    \/ \E s \in Edited : Edit(s)
    \/ \E p \in Poll : Start(p) \/ Polls(p) \/ Errs(p)
    \/ \E h \in Host : Crash(h)
    \/ \E n \in DOMAIN scans : Runs(n) \/ CancelScan(n)

(* Every process polls again and again, a poll goes on, and scans end. *)
Fairness ==
    /\ \A p \in Poll : WF_vars(Start(p)) /\ WF_vars(Polls(p))
    /\ \A n \in 1..(Last * (MaxTime + 2) + MaxMishaps) : WF_vars(n \in DOMAIN scans /\ Runs(n))

Spec == Init /\ [][Next]_vars /\ Fairness
=============================================================================
